------------------------ MODULE TransferServerProofs ------------------------
(***************************************************************************)
(* The transfer server implements TransferService, for any number of       *)
(* connections, any limit, any zones and any questions: every step of a    *)
(* handler, its watchdog or its peer is a step of the service or none; and *)
(* that what it streams is the zone, in envelopes that fit.                *)
(***************************************************************************)
EXTENDS TransferServer, FiniteSetTheorems, WellFoundedInduction, TLAPS

Places == {"idle", "decide", "gate", "slot", "render", "stream", "stop", "note", "write", "answer"}
Holding == {"render", "stream", "stop"}
Dogs == {"off", "armed", "fired", "closed"}

\* Where a handler is and what it has decided so far.
ConnState ==
  [pc: Places, q: DOMAIN QuestionAt \cup {None}, zone: DOMAIN ZoneAt \cup {None}, sent: Nat,
   refused: Refusals \cup {None}, served: BOOLEAN, tell: BOOLEAN, dog: Dogs]

\* Reply as a function of the connection's state.
ReplyOf(r) ==
  IF r.refused # None THEN [refused |-> IF r.refused \in {"full", "broken"} THEN r.refused ELSE "no"]
  ELSE IF r.tell THEN [serial |-> ZoneAt[r.zone].serial]
  ELSE IF r.sent > 0 /\ Len(Envelopes[r.zone][r.q]) - r.sent = 0 THEN [zone |-> r.zone] ELSE None

\* Nothing has been decided and nothing has been sent.
Blank(r) == r.refused = None /\ ~r.tell /\ r.sent = 0

\* What a place in the handler says of the rest: the question and the zone are
\* held from the lookup on, the gate was passed before the slot, and the
\* watchdog runs only while the zone is streamed.
Placed(r) ==
  /\ r.pc = "idle" <=> r.q = None
  /\ r.pc \in {"idle", "decide"} <=> r.zone = None
  /\ r.pc \in {"idle", "decide", "gate", "slot", "render"} => Blank(r)
  /\ r.pc \in Holding => r.refused = None /\ ~r.tell
  /\ r.pc \in {"slot"} \cup Holding => Entitled(r.q, r.zone)
  /\ r.dog \in {"armed", "fired"} => r.pc \in {"stream", "stop"}

Running == {c \in Conns : Holds(c)}
AskedOf == [c \in Conns |-> conn[c].q]
TakenOf == [c \in Conns |-> conn[c].zone]
Replies == [c \in Conns |-> Reply(c)]

\* A slot is taken by exactly the transfers that run.
SlotInv == IsFiniteSet(Running) /\ slots = Cardinality(Running) /\ slots <= Cap

ConnInv == conn \in [Conns -> ConnState] /\ \A c \in Conns : Placed(conn[c])

ServerInv == snap \in DOMAIN ZoneAt /\ noted \in {None} \cup BOOLEAN /\ ConnInv /\ SlotInv

-----------------------------------------------------------------------------
(* The gate.                                                               *)

\* decide lets a request pass exactly when section 9.5.5's rule does, whatever
\* the order of its checks; AXFR over UDP is kept out afterwards.
LEMMA DecideIsEntitled ==
  ASSUME NEW n \in DOMAIN QuestionAt, NEW m \in DOMAIN ZoneAt
  PROVE  Entitled(n, m) <=>
           /\ decide(QuestionAt[n], ZoneAt[m]) = "ok"
           /\ ~(QuestionAt[n].udp /\ ~QuestionAt[n].ixfr)
<1> DEFINE q == QuestionAt[n]
<1> DEFINE z == ZoneAt[m]
<1>1. q.tsig \in Signatures /\ (q.tsig = "good" => q.key # None)
  BY TransferAssumption
<1> SUFFICES Entitled(n, m) <=> decide(q, z) = "ok" /\ ~(q.udp /\ ~q.ixfr)
  OBVIOUS
<1>2. Entitled(n, m) <=>
        /\ z.there /\ z.enabled /\ z.type \in {"primary", "secondary"} /\ (z.type = "secondary" => z.serving)
        /\ q.tsig \in {"unsigned", "good"} /\ z.acl # None /\ ~(q.udp /\ ~q.ixfr)
        /\ \/ q.peer \in z.acl
           \/ q.tsig = "good" /\ (q.key \in z.acl \/ (z.type = "primary" /\ <<q.key, q.peer>> \in Replicas))
  BY Zenon DEF Entitled
<1> HIDE DEF q, z
<1>3. CASE ~z.there \/ ~z.enabled \/ z.type \notin {"primary", "secondary"}
           \/ (z.type = "secondary" /\ ~z.serving) \/ q.tsig \notin {"unsigned", "good"}
  BY <1>1, <1>2, <1>3 DEF decide, Signatures
<1>4. CASE z.there /\ z.enabled /\ z.type \in {"primary", "secondary"}
           /\ (z.type = "secondary" => z.serving) /\ q.tsig \in {"unsigned", "good"}
  BY <1>1, <1>2, <1>4 DEF decide, ACLAllows, replicaMayPull, replicaMayTransfer
<1> QED BY <1>3, <1>4

\* A verdict is "ok" or a refusal.
LEMMA Verdicts == \A q, z : decide(q, z) \in {"ok", "notauth", "servfail", "refused"}
BY DEF decide

-----------------------------------------------------------------------------
(* One connection moves.                                                   *)

\* Facts about the constants.
LEMMA Constants ==
  /\ Cap \in Nat /\ None \notin DOMAIN ZoneAt /\ None \notin DOMAIN QuestionAt /\ None \notin Refusals
  /\ StartZones \subseteq DOMAIN ZoneAt
BY TransferAssumption

\* A reply is a function of the connection's state.
LEMMA ReplyIs == \A c \in Conns : Reply(c) = ReplyOf(conn[c])
BY DEF Reply, ReplyOf, ZoneOf, Rest

\* What the service sees of a step that changes one connection.
LEMMA Moved ==
  ASSUME ConnInv, NEW c \in Conns, NEW r \in ConnState, conn' = [conn EXCEPT ![c] = r]
  PROVE  /\ conn' \in [Conns -> ConnState] /\ conn'[c] = r
         /\ \A d \in Conns : d # c => conn'[d] = conn[d]
         /\ AskedOf' = [AskedOf EXCEPT ![c] = r.q]
         /\ TakenOf' = [TakenOf EXCEPT ![c] = r.zone]
         /\ Replies' = [Replies EXCEPT ![c] = ReplyOf(r)]
         /\ Running' = IF r.pc \in Holding THEN Running \cup {c} ELSE Running \ {c}
<1>1. /\ conn' \in [Conns -> ConnState] /\ conn'[c] = r
      /\ \A d \in Conns : d # c => conn'[d] = conn[d]
  BY DEF ConnInv
<1>2. AskedOf' = [AskedOf EXCEPT ![c] = r.q] /\ TakenOf' = [TakenOf EXCEPT ![c] = r.zone]
  BY <1>1 DEF AskedOf, TakenOf
<1>3. \A d \in Conns : Reply(d)' = ReplyOf(conn'[d])
  BY DEF Reply, ReplyOf, ZoneOf, Rest
<1>4. Replies' = [Replies EXCEPT ![c] = ReplyOf(r)]
  <2>1. \A d \in Conns : d # c => Reply(d)' = Reply(d)
    BY <1>1, <1>3, ReplyIs
  <2>2. Reply(c)' = ReplyOf(r)
    BY <1>1, <1>3
  <2> QED BY <2>1, <2>2 DEF Replies
<1>5. Running' = IF r.pc \in Holding THEN Running \cup {c} ELSE Running \ {c}
  BY <1>1 DEF Running, Holds, Holding
<1> QED BY <1>1, <1>2, <1>4, <1>5

\* Between two questions.
LEMMA IdleIs ==
  /\ Idle \in ConnState /\ Blank(Idle) /\ Idle.pc = "idle" /\ Idle.q = None /\ Idle.zone = None
  /\ Idle.dog = "off"
BY DEF Idle, Blank, ConnState, Places, Dogs

\* A refusal keeps the question, the zone and what has been sent (refuse).
LEMMA RefusedIs ==
  ASSUME NEW r \in ConnState, NEW why \in Refusals
  PROVE  /\ Refused(r, why) \in ConnState /\ Refused(r, why).pc \in {"note", "answer"}
         /\ Refused(r, why).refused = why /\ Refused(r, why).q = r.q /\ Refused(r, why).zone = r.zone
         /\ Refused(r, why).sent = r.sent /\ Refused(r, why).tell = r.tell
         /\ Refused(r, why).dog = r.dog
<1> DEFINE p == IF ZoneAt[r.zone].there /\ ~QuestionAt[r.q].udp THEN "note" ELSE "answer"
<1>1. p \in {"note", "answer"}
  OBVIOUS
<1>2. Refused(r, why) = [r EXCEPT !.refused = why, !.served = FALSE, !.pc = p]
  BY DEF Refused
<1> HIDE DEF p
<1>3. [r EXCEPT !.refused = why, !.served = FALSE, !.pc = p] \in ConnState
  BY <1>1 DEF ConnState, Places
<1>4. Refused(r, why) \in ConnState
  BY <1>2, <1>3, Zenon
<1> QED BY <1>1, <1>2, <1>4 DEF ConnState

\* The end of a handler whose watchdog is not closing the connection.
LEMMA ReturnedIs == ASSUME NEW r, r.dog # "fired" PROVE Returned(r) = Idle
<1>1. Returned(r) = [Idle EXCEPT !.dog = "off"]
  BY DEF Returned
<1>2. \A x \in ConnState : [x EXCEPT !.dog = x.dog] = x
  BY DEF ConnState
<1> QED BY <1>1, <1>2, IdleIs

\* What the gate makes of a request.
GateResult(r) ==
  LET q == QuestionAt[r.q] z == ZoneAt[r.zone] IN
  CASE ~Entitled(r.q, r.zone) ->
         Refused(r, IF q.udp /\ ~q.ixfr /\ decide(q, z) = "ok" THEN "notimp" ELSE decide(q, z))
    [] Entitled(r.q, r.zone) /\ q.udp -> [r EXCEPT !.pc = "answer", !.tell = TRUE]
    [] Entitled(r.q, r.zone) /\ ~q.udp /\ NotBehind(q, z) ->
         [r EXCEPT !.pc = "note", !.served = TRUE, !.tell = TRUE]
    [] OTHER -> [r EXCEPT !.pc = "slot"]

\* The gate refuses exactly those that are not entitled (serve).
LEMMA GateIs ==
  ASSUME ServerInv, NEW c \in Conns, Gate(c)
  PROVE  /\ conn' = [conn EXCEPT ![c] = GateResult(conn[c])]
         /\ conn[c].q \in DOMAIN QuestionAt /\ conn[c].zone \in DOMAIN ZoneAt
         /\ conn[c].pc = "gate"
<1> DEFINE r == conn[c]
<1> DEFINE q == QuestionAt[r.q]
<1> DEFINE z == ZoneAt[r.zone]
<1> DEFINE verdict == IF q.udp /\ ~q.ixfr /\ decide(q, z) = "ok" THEN "notimp" ELSE decide(q, z)
<1>1. r.pc = "gate" /\ r.q \in DOMAIN QuestionAt /\ r.zone \in DOMAIN ZoneAt
  BY DEF Gate, ServerInv, ConnInv, ConnState, Placed
<1>2. Entitled(r.q, r.zone) <=> decide(q, z) = "ok" /\ ~(q.udp /\ ~q.ixfr)
  BY <1>1, DecideIsEntitled
<1>3. Entitled(r.q, r.zone) <=> verdict = "ok"
  BY <1>2, Verdicts
<1>4. conn' = [conn EXCEPT ![c] =
        CASE verdict # "ok" -> Refused(r, verdict)
          [] verdict = "ok" /\ q.udp -> [r EXCEPT !.pc = "answer", !.tell = TRUE]
          [] verdict = "ok" /\ ~q.udp /\ NotBehind(q, z) ->
               [r EXCEPT !.pc = "note", !.served = TRUE, !.tell = TRUE]
          [] OTHER -> [r EXCEPT !.pc = "slot"]]
  BY DEF Gate, QuestionOf, ZoneOf
<1>5. GateResult(r) =
        CASE ~Entitled(r.q, r.zone) -> Refused(r, verdict)
          [] Entitled(r.q, r.zone) /\ q.udp -> [r EXCEPT !.pc = "answer", !.tell = TRUE]
          [] Entitled(r.q, r.zone) /\ ~q.udp /\ NotBehind(q, z) ->
               [r EXCEPT !.pc = "note", !.served = TRUE, !.tell = TRUE]
          [] OTHER -> [r EXCEPT !.pc = "slot"]
  BY DEF GateResult
<1> HIDE DEF r, q, z, verdict
<1>6. conn' = [conn EXCEPT ![c] = GateResult(r)]
  BY <1>3, <1>4, <1>5
<1> QED BY <1>1, <1>6 DEF r

\* Its four outcomes.
LEMMA GateCases ==
  ASSUME NEW r \in ConnState, Placed(r), r.pc = "gate"
  PROVE  LET s == GateResult(r) IN
         /\ s \in ConnState /\ s.q = r.q /\ s.zone = r.zone /\ s.sent = 0 /\ s.dog = r.dog
         /\ \/ /\ ~Entitled(r.q, r.zone) /\ s.pc \in {"note", "answer"} /\ ~s.tell
               /\ s.refused \in {"notauth", "servfail", "refused", "notimp"}
            \/ /\ Entitled(r.q, r.zone) /\ Current(r.q, r.zone)
               /\ s.pc \in {"note", "answer"} /\ s.tell /\ s.refused = None
            \/ Entitled(r.q, r.zone) /\ s.pc = "slot" /\ ~s.tell /\ s.refused = None
<1> DEFINE q == QuestionAt[r.q]
<1> DEFINE z == ZoneAt[r.zone]
<1> DEFINE s == GateResult(r)
<1> DEFINE why == IF q.udp /\ ~q.ixfr /\ decide(q, z) = "ok" THEN "notimp" ELSE decide(q, z)
<1>0. Blank(r) /\ r.q \in DOMAIN QuestionAt /\ r.zone \in DOMAIN ZoneAt
  BY DEF Placed, ConnState
<1>1. CASE ~Entitled(r.q, r.zone)
  <2>1. why \in {"notauth", "servfail", "refused", "notimp"}
    BY <1>0, <1>1, Verdicts, DecideIsEntitled
  <2>2. s = Refused(r, why)
    BY <1>1 DEF GateResult
  <2> HIDE DEF why, s
  <2>3. why \in Refusals
    BY <2>1 DEF Refusals
  <2>4. s \in ConnState
    BY <2>2, <2>3, RefusedIs
  <2>5. /\ s.q = r.q /\ s.zone = r.zone /\ s.sent = 0 /\ s.dog = r.dog
        /\ s.pc \in {"note", "answer"} /\ ~s.tell /\ s.refused = why
    BY <1>0, <2>2, <2>3, RefusedIs DEF Blank
  <2> QED BY <1>1, <2>1, <2>4, <2>5 DEF s
<1>2. CASE Entitled(r.q, r.zone) /\ q.udp
  <2>1. s = [r EXCEPT !.pc = "answer", !.tell = TRUE] /\ Current(r.q, r.zone)
    BY <1>2 DEF GateResult, Current
  <2>2. [r EXCEPT !.pc = "answer", !.tell = TRUE] \in ConnState
    BY DEF ConnState, Places
  <2> HIDE DEF s
  <2>3. s \in ConnState
    BY <2>1, <2>2, Zenon
  <2>4. /\ s.q = r.q /\ s.zone = r.zone /\ s.sent = 0 /\ s.dog = r.dog
        /\ s.pc = "answer" /\ s.tell /\ s.refused = None
    BY <1>0, <2>1 DEF ConnState, Blank
  <2> QED BY <1>2, <2>1, <2>3, <2>4 DEF s
<1>3. CASE Entitled(r.q, r.zone) /\ ~q.udp /\ NotBehind(q, z)
  <2>1. s = [r EXCEPT !.pc = "note", !.served = TRUE, !.tell = TRUE] /\ Current(r.q, r.zone)
    BY <1>3 DEF GateResult, Current, NotBehind
  <2>2. [r EXCEPT !.pc = "note", !.served = TRUE, !.tell = TRUE] \in ConnState
    BY DEF ConnState, Places
  <2> HIDE DEF s
  <2>3. s \in ConnState
    BY <2>1, <2>2, Zenon
  <2>4. /\ s.q = r.q /\ s.zone = r.zone /\ s.sent = 0 /\ s.dog = r.dog
        /\ s.pc = "note" /\ s.tell /\ s.refused = None
    BY <1>0, <2>1 DEF ConnState, Blank
  <2> QED BY <1>3, <2>1, <2>3, <2>4 DEF s
<1>4. CASE Entitled(r.q, r.zone) /\ ~q.udp /\ ~NotBehind(q, z)
  <2>1. s = [r EXCEPT !.pc = "slot"]
    BY <1>4 DEF GateResult
  <2>2. [r EXCEPT !.pc = "slot"] \in ConnState
    BY DEF ConnState, Places
  <2> HIDE DEF s
  <2>3. s \in ConnState
    BY <2>1, <2>2, Zenon
  <2>4. /\ s.q = r.q /\ s.zone = r.zone /\ s.sent = 0 /\ s.dog = r.dog
        /\ s.pc = "slot" /\ ~s.tell /\ s.refused = None
    BY <1>0, <2>1 DEF ConnState, Blank
  <2> QED BY <1>4, <2>3, <2>4 DEF s
<1> QED BY <1>1, <1>2, <1>3, <1>4

\* A step of one connection leaves it somewhere the handler can be.
LEMMA Moves ==
  ASSUME ServerInv, NEW c \in Conns,
         Ask(c) \/ Serve(c) \/ Watchdog(c) \/ PeerGone(c) \/ WriteNoteFails(c)
  PROVE  conn'[c] \in ConnState /\ Placed(conn'[c]) /\ conn' = [conn EXCEPT ![c] = conn'[c]]
<1> DEFINE r == conn[c]
<1> DEFINE s == conn'[c]
<1>0. /\ conn \in [Conns -> ConnState] /\ r \in ConnState /\ Placed(r) /\ snap \in DOMAIN ZoneAt
      /\ None \notin DOMAIN ZoneAt /\ None \notin DOMAIN QuestionAt /\ None \notin Refusals
  BY Constants DEF ServerInv, ConnInv
<1> SUFFICES s \in ConnState /\ Placed(s) /\ conn' = [conn EXCEPT ![c] = s]
  OBVIOUS
<1>1. CASE Ask(c)
  <2>1. PICK q \in DOMAIN QuestionAt : conn' = [conn EXCEPT ![c] = [Idle EXCEPT !.pc = "decide", !.q = q]]
    BY <1>1 DEF Ask
  <2>2. s = [Idle EXCEPT !.pc = "decide", !.q = q] /\ conn' = [conn EXCEPT ![c] = s]
    BY <1>0, <2>1
  <2>3. s \in ConnState
    <3>1. [Idle EXCEPT !.pc = "decide", !.q = q] \in ConnState
      BY IdleIs DEF ConnState, Places
    <3> QED BY <2>2, <3>1, Zenon
  <2>4. Placed(s)
    BY <1>0, <2>2, IdleIs DEF ConnState, Placed, Blank, Holding
  <2> QED BY <2>2, <2>3, <2>4
<1>2. CASE Lookup(c)
  <2>1. s = [r EXCEPT !.pc = "gate", !.zone = snap] /\ conn' = [conn EXCEPT ![c] = s] /\ r.pc = "decide"
    BY <1>0, <1>2 DEF Lookup, ConnState
  <2>2. s \in ConnState
    BY <1>0, <2>1 DEF ConnState, Places
  <2>3. Placed(s)
    BY <1>0, <2>1 DEF ConnState, Placed, Blank, Holding
  <2> QED BY <2>1, <2>2, <2>3
<1>3. CASE Gate(c)
  <2>1. conn' = [conn EXCEPT ![c] = GateResult(r)] /\ r.pc = "gate"
    BY <1>3, GateIs
  <2>2. s = GateResult(r) /\ conn' = [conn EXCEPT ![c] = s]
    BY <1>0, <2>1
  <2> HIDE DEF r, s
  <2>3. /\ s \in ConnState /\ s.q = r.q /\ s.zone = r.zone /\ s.sent = 0 /\ s.dog = r.dog
        /\ \/ s.pc \in {"note", "answer"}
           \/ Entitled(r.q, r.zone) /\ s.pc = "slot" /\ ~s.tell /\ s.refused = None
    BY <1>0, <2>1, <2>2, GateCases
  <2>4. Placed(s)
    BY <1>0, <2>1, <2>3 DEF Placed, Blank, Holding
  <2> QED BY <2>2, <2>3, <2>4
<1>4. CASE TakeSlot(c)
  <2>1. s = [r EXCEPT !.pc = "render"] /\ conn' = [conn EXCEPT ![c] = s] /\ r.pc = "slot"
    BY <1>0, <1>4 DEF TakeSlot, ConnState
  <2>2. s \in ConnState
    BY <1>0, <2>1 DEF ConnState, Places
  <2>3. Placed(s)
    BY <1>0, <2>1 DEF ConnState, Placed, Blank, Holding
  <2> QED BY <2>1, <2>2, <2>3
<1>5. ASSUME NEW why \in {"full", "broken"}, r.pc \in {"slot", "render"},
             conn' = [conn EXCEPT ![c] = Refused(@, why)]
      PROVE  s \in ConnState /\ Placed(s) /\ conn' = [conn EXCEPT ![c] = s]
  <2>1. s = Refused(r, why) /\ conn' = [conn EXCEPT ![c] = s] /\ why \in Refusals
    BY <1>0, <1>5 DEF Refusals
  <2> HIDE DEF r, s
  <2>2. /\ s \in ConnState /\ s.pc \in {"note", "answer"} /\ s.q = r.q /\ s.zone = r.zone
        /\ s.dog = r.dog
    BY <1>0, <2>1, RefusedIs
  <2>3. Placed(s)
    BY <1>0, <1>5, <2>2 DEF Placed, Holding
  <2> QED BY <2>1, <2>2, <2>3
<1>6. CASE AtLimit(c)
  BY <1>5, <1>6 DEF AtLimit
<1>7. CASE Render(c)
  <2>1. CASE Broken(ZoneOf(c))
    BY <1>5, <1>7, <2>1 DEF Render
  <2>2. CASE ~Broken(ZoneOf(c))
    <3>1. s = [r EXCEPT !.pc = "stream", !.dog = "armed"] /\ conn' = [conn EXCEPT ![c] = s] /\ r.pc = "render"
      BY <1>0, <1>7, <2>2 DEF Render, ConnState
    <3>2. s \in ConnState
      BY <1>0, <3>1 DEF ConnState, Places, Dogs
    <3>3. Placed(s)
      BY <1>0, <3>1 DEF ConnState, Placed, Blank, Holding
    <3> QED BY <3>1, <3>2, <3>3
  <2> QED BY <2>1, <2>2
<1>8. CASE Send(c)
  <2>1. s = [r EXCEPT !.sent = r.sent + 1] /\ conn' = [conn EXCEPT ![c] = s] /\ r.pc = "stream"
    BY <1>0, <1>8 DEF Send, ConnState
  <2>2. s \in ConnState
    BY <1>0, <2>1 DEF ConnState
  <2>3. Placed(s)
    BY <1>0, <2>1 DEF ConnState, Placed, Blank, Holding
  <2> QED BY <2>1, <2>2, <2>3
<1>9. CASE Sent(c)
  <2>1. s = [r EXCEPT !.pc = "stop", !.served = TRUE] /\ conn' = [conn EXCEPT ![c] = s] /\ r.pc = "stream"
    BY <1>0, <1>9 DEF Sent, ConnState
  <2>2. s \in ConnState
    BY <1>0, <2>1 DEF ConnState, Places
  <2>3. Placed(s)
    BY <1>0, <2>1 DEF ConnState, Placed, Blank, Holding
  <2> QED BY <2>1, <2>2, <2>3
<1>10. CASE OutOfTime(c) \/ PeerGone(c)
  <2>1. s = [r EXCEPT !.pc = "stop"] /\ conn' = [conn EXCEPT ![c] = s] /\ r.pc = "stream"
    BY <1>0, <1>10 DEF OutOfTime, PeerGone, ConnState
  <2>2. s \in ConnState
    BY <1>0, <2>1 DEF ConnState, Places
  <2>3. Placed(s)
    BY <1>0, <2>1 DEF ConnState, Placed, Blank, Holding
  <2> QED BY <2>1, <2>2, <2>3
<1>11. CASE Stop(c)
  <2> DEFINE t == [r EXCEPT !.dog = IF r.dog = "armed" THEN "off" ELSE r.dog]
  <2> DEFINE u == IF t.served THEN [t EXCEPT !.pc = "note"] ELSE Returned(t)
  <2>0. r.pc = "stop" /\ r.dog # "fired" /\ conn' = [conn EXCEPT ![c] = u]
    BY <1>11 DEF Stop, Stopped
  <2> HIDE DEF u
  <2>1. s = u /\ conn' = [conn EXCEPT ![c] = s]
    BY <1>0, <2>0
  <2>2. t \in ConnState /\ t.q = r.q /\ t.zone = r.zone /\ t.dog \notin {"armed", "fired"}
    BY <1>0, <2>0 DEF ConnState, Dogs
  <2> HIDE DEF t
  <2>3. CASE t.served
    <3>1. s = [t EXCEPT !.pc = "note"]
      BY <2>1, <2>3 DEF u
    <3>2. s \in ConnState
      BY <2>2, <3>1 DEF ConnState, Places
    <3>3. Placed(s)
      BY <1>0, <2>0, <2>2, <3>1 DEF ConnState, Placed, Blank, Holding
    <3> QED BY <2>1, <3>2, <3>3
  <2>4. CASE ~t.served
    <3>1. s = Idle
      BY <2>1, <2>2, <2>4, ReturnedIs DEF u
    <3> QED BY <2>1, <3>1, IdleIs DEF Placed, Holding
  <2> QED BY <2>3, <2>4
<1>12. CASE Note(c) \/ WriteNote(c) \/ WriteNoteFails(c)
  <2>1. /\ s = [r EXCEPT !.pc = "write"] \/ s = [r EXCEPT !.pc = "answer"]
        /\ conn' = [conn EXCEPT ![c] = s] /\ r.pc \in {"note", "write"}
    BY <1>0, <1>12 DEF Note, WriteNote, WriteNoteFails, ConnState
  <2>2. s \in ConnState
    BY <1>0, <2>1 DEF ConnState, Places
  <2>3. Placed(s)
    BY <1>0, <2>1 DEF ConnState, Placed, Blank, Holding
  <2> QED BY <2>1, <2>2, <2>3
<1>13. CASE Answer(c)
  <2>1. r.pc = "answer" /\ s = Returned(r) /\ conn' = [conn EXCEPT ![c] = s]
    BY <1>0, <1>13 DEF Answer
  <2>2. s = Idle
    BY <1>0, <2>1, ReturnedIs DEF Placed
  <2> QED BY <2>1, <2>2, IdleIs DEF Placed, Holding
<1>14. CASE Watchdog(c)
  <2>1. /\ s = [r EXCEPT !.dog = "fired"] \/ s = [r EXCEPT !.dog = "closed"]
        /\ conn' = [conn EXCEPT ![c] = s] /\ r.dog \in {"armed", "fired"}
    BY <1>0, <1>14 DEF Watchdog, Fire, CloseStalled, ConnState
  <2>2. s \in ConnState
    BY <1>0, <2>1 DEF ConnState, Dogs
  <2>3. Placed(s)
    BY <1>0, <2>1 DEF ConnState, Placed, Blank, Holding
  <2> QED BY <2>1, <2>2, <2>3
<1> QED BY <1>1, <1>2, <1>3, <1>4, <1>6, <1>7, <1>8, <1>9, <1>10, <1>11, <1>12, <1>13, <1>14 DEF Serve

-----------------------------------------------------------------------------
(* The slots.                                                              *)

Moving(c) == Ask(c) \/ Serve(c) \/ Watchdog(c) \/ PeerGone(c) \/ WriteNoteFails(c)

\* The running transfers, counted.
LEMMA Counted ==
  ASSUME ServerInv
  PROVE  /\ IsFiniteSet(Running) /\ Cardinality(Running) \in Nat /\ slots = Cardinality(Running)
         /\ Cap \in Nat /\ slots <= Cap
         /\ \A c \in Conns : c \in Running <=> conn[c].pc \in Holding
<1>1. IsFiniteSet(Running) /\ slots = Cardinality(Running) /\ slots <= Cap
  BY DEF ServerInv, SlotInv
<1>2. Cardinality(Running) \in Nat
  BY <1>1, FS_CardinalityType
<1> QED BY <1>1, <1>2, Constants DEF Running, Holds, Holding

\* A step that neither takes a slot nor gives one back.
LEMMA SlotKept ==
  ASSUME ServerInv, NEW c \in Conns, Moving(c), slots' = slots,
         conn'[c].pc \in Holding <=> conn[c].pc \in Holding
  PROVE  SlotInv' /\ Running' = Running
<1>1. Running' = IF conn'[c].pc \in Holding THEN Running \cup {c} ELSE Running \ {c}
  BY Moves, Moved DEF ServerInv, Moving
<1>2. Running' = Running
  BY <1>1, Counted
<1> QED BY <1>2, Counted DEF SlotInv

\* A step that gives one back.
LEMMA SlotGiven ==
  ASSUME ServerInv, NEW c \in Conns, Moving(c), slots' = slots - 1,
         conn[c].pc \in Holding, conn'[c].pc \notin Holding
  PROVE  SlotInv' /\ Running' = Running \ {c}
<1>1. Running' = Running \ {c} /\ c \in Running
  BY Moves, Moved, Counted DEF ServerInv, Moving
<1>2. IsFiniteSet(Running') /\ Cardinality(Running') = Cardinality(Running) - 1
  BY <1>1, Counted, FS_RemoveElement
<1> QED BY <1>1, <1>2, Counted DEF SlotInv

\* A step that takes one.
LEMMA SlotTaken ==
  ASSUME ServerInv, NEW c \in Conns, TakeSlot(c)
  PROVE  /\ SlotInv' /\ Running' = Running \cup {c} /\ c \notin Running
         /\ conn'[c] = [conn[c] EXCEPT !.pc = "render"] /\ conn[c].pc = "slot"
         /\ Cardinality(Running) < Cap
<1>1. conn'[c] = [conn[c] EXCEPT !.pc = "render"] /\ conn[c].pc = "slot" /\ conn'[c].pc = "render"
  BY DEF TakeSlot, ServerInv, ConnInv, ConnState
<1>2. slots' = slots + 1 /\ slots < Cap
  BY DEF TakeSlot
<1>3. Running' = Running \cup {c} /\ c \notin Running
  BY <1>1, Moves, Moved, Counted DEF ServerInv, Moving, Serve, Holding
<1>4. IsFiniteSet(Running') /\ Cardinality(Running') = Cardinality(Running) + 1
  BY <1>3, Counted, FS_AddElement
<1> QED BY <1>1, <1>2, <1>3, <1>4, Counted DEF SlotInv

\* A step that a peer does not see.
LEMMA Unseen ==
  ASSUME ServerInv, NEW c \in Conns, Moving(c), snap' = snap, slots' = slots,
         conn'[c].pc \in Holding <=> conn[c].pc \in Holding,
         conn'[c].q = conn[c].q, conn'[c].zone = conn[c].zone, conn'[c].refused = conn[c].refused,
         conn'[c].tell = conn[c].tell, conn'[c].sent = conn[c].sent
  PROVE  SlotInv' /\ UNCHANGED <<snap, AskedOf, TakenOf, Running, Replies>>
<1>1. /\ AskedOf' = [AskedOf EXCEPT ![c] = conn'[c].q] /\ TakenOf' = [TakenOf EXCEPT ![c] = conn'[c].zone]
      /\ Replies' = [Replies EXCEPT ![c] = ReplyOf(conn'[c])]
  BY Moves, Moved DEF ServerInv, Moving
<1>2. ReplyOf(conn'[c]) = Reply(c)
  BY ReplyIs DEF ReplyOf
<1>3. AskedOf' = AskedOf /\ TakenOf' = TakenOf
  BY <1>1 DEF AskedOf, TakenOf
<1>4. Replies' = Replies
  BY <1>1, <1>2 DEF Replies
<1> QED BY <1>3, <1>4, SlotKept

-----------------------------------------------------------------------------
(* Every step is a step of the service or none.                            *)

ServiceStep == Service!ANext \/ UNCHANGED <<snap, AskedOf, TakenOf, Running, Replies>>

\* The service counts as the server does.
LEMMA SameCount == \A S : Service!Cardinality(S) = Cardinality(S)
BY DEF Service!Cardinality, Cardinality

\* Nobody has a reply before anything is decided.
LEMMA BlankReply == \A r : Blank(r) => ReplyOf(r) = None
BY DEF Blank, ReplyOf

\* What the service sees of a connection.
LEMMA Seen ==
  ASSUME ServerInv, NEW c \in Conns
  PROVE  /\ AskedOf[c] = conn[c].q /\ TakenOf[c] = conn[c].zone
         /\ Replies[c] = ReplyOf(conn[c]) /\ conn[c] \in ConnState /\ Placed(conn[c])
         /\ c \in Running <=> conn[c].pc \in Holding
         /\ Blank(conn[c]) => Replies[c] = None
<1>1. Blank(conn[c]) => ReplyOf(conn[c]) = None
  BY BlankReply
<1> QED BY <1>1, ReplyIs, Counted DEF AskedOf, TakenOf, Replies, ServerInv, ConnInv

\* A connection that was looked up and has neither a slot nor an answer.
LEMMA LookedUp ==
  ASSUME ServerInv, NEW c \in Conns, conn[c].pc \in {"gate", "slot"}
  PROVE  Service!Looked(c)
<1>1. Blank(conn[c]) /\ conn[c].q # None /\ conn[c].zone # None /\ c \notin Running
  BY Seen DEF Placed, Holding
<1> QED BY <1>1, Seen DEF Service!Looked, Service!Waiting, AskedOf, TakenOf, Running, Replies

\* A question arrives.
LEMMA StepAsk ==
  ASSUME ServerInv, NEW c \in Conns, Ask(c)
  PROVE  SlotInv' /\ Service!Ask(c)
<1>1. PICK q \in DOMAIN QuestionAt : conn' = [conn EXCEPT ![c] = [Idle EXCEPT !.pc = "decide", !.q = q]]
  BY DEF Ask
<1>2. conn[c].pc = "idle" /\ snap' = snap /\ slots' = slots
  BY DEF Ask
<1>3. conn'[c] = [Idle EXCEPT !.pc = "decide", !.q = q]
  BY <1>1 DEF ServerInv, ConnInv
<1>4. conn'[c].pc = "decide" /\ conn'[c].q = q /\ conn'[c].zone = None /\ Blank(conn'[c])
  BY <1>3, IdleIs DEF ConnState, Blank
<1>5. SlotInv' /\ Running' = Running
  BY <1>2, <1>4, SlotKept DEF Moving, Holding
<1>6. conn[c].q = None /\ conn[c].zone = None /\ Blank(conn[c]) /\ c \notin Running
  BY <1>2, Seen DEF Placed, Holding
<1>7. ReplyOf(conn'[c]) = None /\ Replies[c] = None
  BY <1>4, <1>6, Seen, BlankReply
<1>8. /\ AskedOf' = [AskedOf EXCEPT ![c] = q] /\ TakenOf' = [TakenOf EXCEPT ![c] = None]
      /\ Replies' = [Replies EXCEPT ![c] = None]
  BY <1>4, <1>7, Moves, Moved DEF ServerInv, Moving
<1>9. TakenOf' = TakenOf /\ Replies' = Replies /\ AskedOf[c] = None
  BY <1>6, <1>7, <1>8, Seen DEF TakenOf, Replies
<1> QED BY <1>2, <1>5, <1>6, <1>8, <1>9 DEF Service!Ask, AskedOf, TakenOf, Running, Replies

\* The zone is looked up.
LEMMA StepLookup ==
  ASSUME ServerInv, NEW c \in Conns, Lookup(c)
  PROVE  SlotInv' /\ Service!Look(c)
<1>1. conn'[c] = [conn[c] EXCEPT !.pc = "gate", !.zone = snap] /\ conn[c].pc = "decide"
      /\ snap' = snap /\ slots' = slots
  BY DEF Lookup, ServerInv, ConnInv, ConnState
<1>2. conn'[c].pc = "gate" /\ conn'[c].q = conn[c].q /\ conn'[c].zone = snap
      /\ conn'[c].refused = conn[c].refused /\ conn'[c].tell = conn[c].tell /\ conn'[c].sent = conn[c].sent
  BY <1>1, Seen DEF ConnState
<1>3. SlotInv' /\ Running' = Running
  BY <1>1, <1>2, SlotKept DEF Moving, Serve, Holding
<1>4. conn[c].q # None /\ conn[c].zone = None /\ Blank(conn[c]) /\ c \notin Running
  BY <1>1, Seen DEF Placed, Holding
<1>5. ReplyOf(conn'[c]) = None /\ Replies[c] = None
  <2>1. Blank(conn'[c])
    BY <1>2, <1>4 DEF Blank
  <2> QED BY <1>4, <2>1, Seen, BlankReply
<1>6. /\ AskedOf' = [AskedOf EXCEPT ![c] = conn[c].q] /\ TakenOf' = [TakenOf EXCEPT ![c] = snap]
      /\ Replies' = [Replies EXCEPT ![c] = None]
  BY <1>2, <1>5, Moves, Moved DEF ServerInv, Moving, Serve
<1>7. AskedOf' = AskedOf /\ Replies' = Replies /\ AskedOf[c] # None /\ TakenOf[c] = None
  BY <1>4, <1>5, <1>6, Seen DEF AskedOf, Replies
<1> QED BY <1>1, <1>3, <1>4, <1>5, <1>6, <1>7
        DEF Service!Look, Service!Waiting, AskedOf, TakenOf, Running, Replies

\* The gate refuses who is not entitled, tells the serial or sends for a slot.
LEMMA StepGate ==
  ASSUME ServerInv, NEW c \in Conns, Gate(c)
  PROVE  SlotInv' /\ ServiceStep
<1> DEFINE r == conn[c]
<1> DEFINE s == conn'[c]
<1>1. conn' = [conn EXCEPT ![c] = GateResult(r)] /\ r.pc = "gate" /\ snap' = snap /\ slots' = slots
  BY GateIs DEF Gate
<1>2. s = GateResult(r)
  BY <1>1 DEF ServerInv, ConnInv
<1>3. r \in ConnState /\ Placed(r) /\ Blank(r)
  BY <1>1, Seen DEF Placed
<1> HIDE DEF s, r
<1>4. /\ s.q = r.q /\ s.zone = r.zone /\ s.sent = 0
      /\ \/ /\ ~Entitled(r.q, r.zone) /\ s.pc \in {"note", "answer"} /\ ~s.tell
            /\ s.refused \in {"notauth", "servfail", "refused", "notimp"}
         \/ /\ Entitled(r.q, r.zone) /\ Current(r.q, r.zone)
            /\ s.pc \in {"note", "answer"} /\ s.tell /\ s.refused = None
         \/ Entitled(r.q, r.zone) /\ s.pc = "slot" /\ ~s.tell /\ s.refused = None
  BY <1>1, <1>2, <1>3, GateCases
<1>5. SlotInv' /\ Running' = Running
  BY <1>1, <1>4, SlotKept DEF Moving, Serve, Holding, r, s
<1>6. Service!Looked(c) /\ AskedOf[c] = r.q /\ TakenOf[c] = r.zone /\ Replies[c] = None
  BY <1>1, <1>3, LookedUp, Seen DEF r
<1>7. AskedOf' = AskedOf /\ TakenOf' = TakenOf /\ Replies' = [Replies EXCEPT ![c] = ReplyOf(s)]
  <2>1. /\ AskedOf' = [AskedOf EXCEPT ![c] = s.q] /\ TakenOf' = [TakenOf EXCEPT ![c] = s.zone]
        /\ Replies' = [Replies EXCEPT ![c] = ReplyOf(s)]
    BY Moves, Moved DEF ServerInv, Moving, Serve, s
  <2> QED BY <1>4, <1>6, <2>1 DEF AskedOf, TakenOf
<1>8. CASE ~Entitled(r.q, r.zone)
  <2>1. ReplyOf(s) = [refused |-> "no"]
    BY <1>4, <1>8, Constants DEF ReplyOf, Refusals
  <2>2. Service!Refuse(c)
    BY <1>1, <1>5, <1>6, <1>7, <1>8, <2>1 DEF Service!Refuse, AskedOf, TakenOf, Running, Replies
  <2> QED BY <1>5, <2>2 DEF ServiceStep, Service!ANext
<1>9. CASE Entitled(r.q, r.zone) /\ Current(r.q, r.zone) /\ s.tell /\ s.refused = None
  <2>1. ReplyOf(s) = [serial |-> SerialOf(r.zone)]
    BY <1>4, <1>9 DEF ReplyOf, SerialOf
  <2>2. Service!TellSerial(c)
    BY <1>1, <1>5, <1>6, <1>7, <1>9, <2>1 DEF Service!TellSerial, AskedOf, TakenOf, Running, Replies
  <2> QED BY <1>5, <2>2 DEF ServiceStep, Service!ANext
<1>10. CASE s.pc = "slot" /\ ~s.tell /\ s.refused = None
  <2>1. ReplyOf(s) = None
    BY <1>4, <1>10 DEF ReplyOf
  <2>2. Replies' = Replies
    BY <1>6, <1>7, <2>1 DEF Replies
  <2> QED BY <1>1, <1>5, <1>7, <2>2 DEF ServiceStep
<1> QED BY <1>4, <1>8, <1>9, <1>10

\* The question and the zone of a connection stay what they are.
LEMMA SameQuestion ==
  ASSUME ServerInv, NEW c \in Conns, Moving(c), conn'[c].q = conn[c].q, conn'[c].zone = conn[c].zone
  PROVE  UNCHANGED <<AskedOf, TakenOf>> /\ Replies' = [Replies EXCEPT ![c] = ReplyOf(conn'[c])]
<1>1. /\ AskedOf' = [AskedOf EXCEPT ![c] = conn[c].q] /\ TakenOf' = [TakenOf EXCEPT ![c] = conn[c].zone]
      /\ Replies' = [Replies EXCEPT ![c] = ReplyOf(conn'[c])]
  BY Moves, Moved DEF ServerInv, Moving
<1> QED BY <1>1 DEF AskedOf, TakenOf

\* A slot is taken: the peer is admitted, and it was entitled.
LEMMA StepTake ==
  ASSUME ServerInv, NEW c \in Conns, TakeSlot(c)
  PROVE  SlotInv' /\ Service!Admit(c)
<1>1. /\ SlotInv' /\ Running' = Running \cup {c} /\ Cardinality(Running) < Cap
      /\ conn'[c] = [conn[c] EXCEPT !.pc = "render"] /\ conn[c].pc = "slot" /\ snap' = snap
  BY SlotTaken DEF TakeSlot
<1>2. /\ conn'[c].q = conn[c].q /\ conn'[c].zone = conn[c].zone
      /\ conn'[c].refused = conn[c].refused /\ conn'[c].tell = conn[c].tell /\ conn'[c].sent = conn[c].sent
  BY <1>1, Seen DEF ConnState
<1>3. Blank(conn[c]) /\ Entitled(AskedOf[c], TakenOf[c]) /\ Service!Looked(c)
  BY <1>1, Seen, LookedUp DEF Placed
<1>4. ReplyOf(conn'[c]) = None /\ Replies[c] = None
  <2>1. Blank(conn'[c])
    BY <1>2, <1>3 DEF Blank
  <2> QED BY <1>3, <2>1, Seen, BlankReply
<1>5. Moving(c)
  BY DEF Moving, Serve
<1>6. UNCHANGED <<AskedOf, TakenOf>> /\ Replies' = [Replies EXCEPT ![c] = Replies[c]]
  BY <1>2, <1>4, <1>5, SameQuestion
<1>7. UNCHANGED <<snap, AskedOf, TakenOf, Replies>>
  BY <1>1, <1>6 DEF Replies
<1>8. Service!Cardinality(Running) < Cap
  BY <1>1, SameCount
<1> QED BY <1>1, <1>3, <1>7, <1>8 DEF Service!Admit, AskedOf, TakenOf, Running, Replies

\* A refusal of one whose question was decided, for the limit or for a record
\* that does not render.
LEMMA StepRefused ==
  ASSUME ServerInv, NEW c \in Conns, Moving(c), conn[c].pc \in {"slot", "render"}, snap' = snap,
         NEW why \in {"full", "broken"}, conn' = [conn EXCEPT ![c] = Refused(@, why)]
  PROVE  /\ UNCHANGED <<snap, AskedOf, TakenOf>>
         /\ Replies' = [Replies EXCEPT ![c] = [refused |-> why]]
         /\ Replies[c] = None /\ conn'[c].pc \notin Holding
<1> DEFINE s == conn'[c]
<1>1. s = Refused(conn[c], why) /\ why \in Refusals /\ conn[c] \in ConnState /\ Blank(conn[c])
  BY Seen DEF Refusals, Placed, ServerInv, ConnInv
<1> HIDE DEF s
<1>2. s.pc \in {"note", "answer"} /\ s.refused = why /\ s.q = conn[c].q /\ s.zone = conn[c].zone
      /\ s.sent = conn[c].sent /\ s.tell = conn[c].tell
  BY <1>1, RefusedIs
<1>3. ~s.tell /\ s.sent = 0
  BY <1>1, <1>2 DEF Blank
<1>4. ReplyOf(s) = [refused |-> why]
  BY <1>1, <1>2, <1>3, Constants DEF ReplyOf
<1>5. UNCHANGED <<AskedOf, TakenOf>> /\ Replies' = [Replies EXCEPT ![c] = [refused |-> why]]
  BY <1>2, <1>4, SameQuestion DEF s
<1> QED BY <1>1, <1>2, <1>5, Seen DEF Holding, s

\* The limit is reached.
LEMMA StepAtLimit ==
  ASSUME ServerInv, NEW c \in Conns, AtLimit(c)
  PROVE  SlotInv' /\ Service!Refuse(c)
<1>1. conn[c].pc = "slot" /\ slots = Cap /\ snap' = snap /\ slots' = slots
      /\ conn' = [conn EXCEPT ![c] = Refused(@, "full")]
  BY DEF AtLimit
<1>2. Moving(c)
  BY DEF Moving, Serve
<1>3. /\ UNCHANGED <<snap, AskedOf, TakenOf>>
      /\ Replies' = [Replies EXCEPT ![c] = [refused |-> "full"]] /\ conn'[c].pc \notin Holding
  BY <1>1, <1>2, StepRefused
<1>4. SlotInv' /\ Running' = Running
  BY <1>1, <1>2, <1>3, SlotKept DEF Holding
<1>5. Service!Cardinality(Running) = Cap /\ Service!Looked(c)
  BY <1>1, Counted, LookedUp, SameCount
<1> QED BY <1>3, <1>4, <1>5 DEF Service!Refuse, AskedOf, TakenOf, Running, Replies

\* The zone is rendered, or has a record that does not render.
LEMMA StepRender ==
  ASSUME ServerInv, NEW c \in Conns, Render(c)
  PROVE  SlotInv' /\ ServiceStep
<1>1. conn[c].pc = "render" /\ snap' = snap /\ Moving(c)
  BY DEF Render, Moving, Serve
<1>2. CASE Broken(ZoneOf(c))
  <2>1. slots' = slots - 1 /\ conn' = [conn EXCEPT ![c] = Refused(@, "broken")]
    BY <1>2 DEF Render
  <2>2. /\ UNCHANGED <<snap, AskedOf, TakenOf>>
        /\ Replies' = [Replies EXCEPT ![c] = [refused |-> "broken"]]
        /\ Replies[c] = None /\ conn'[c].pc \notin Holding
    BY <1>1, <2>1, StepRefused
  <2>3. SlotInv' /\ Running' = Running \ {c} /\ c \in Running
    BY <1>1, <2>1, <2>2, SlotGiven, Seen DEF Holding
  <2>4. Unsendable(TakenOf[c])
    BY <1>2, Seen DEF Broken, ZoneOf, Unsendable
  <2>5. Service!Spoil(c)
    BY <2>2, <2>3, <2>4 DEF Service!Spoil, AskedOf, TakenOf, Running, Replies
  <2> QED BY <2>3, <2>5 DEF ServiceStep, Service!ANext
<1>3. CASE ~Broken(ZoneOf(c))
  <2>1. conn'[c] = [conn[c] EXCEPT !.pc = "stream", !.dog = "armed"] /\ slots' = slots
    BY <1>3 DEF Render, ServerInv, ConnInv, ConnState
  <2>2. /\ conn'[c].pc = "stream" /\ conn'[c].q = conn[c].q /\ conn'[c].zone = conn[c].zone
        /\ conn'[c].refused = conn[c].refused /\ conn'[c].tell = conn[c].tell /\ conn'[c].sent = conn[c].sent
    BY <2>1, Seen DEF ConnState
  <2> QED BY <1>1, <2>1, <2>2, Unseen DEF ServiceStep, Holding
<1> QED BY <1>2, <1>3

\* An envelope is sent: the zone has arrived with the last one.
LEMMA StepSend ==
  ASSUME ServerInv, NEW c \in Conns, Send(c)
  PROVE  SlotInv' /\ ServiceStep
<1>1. /\ conn[c].pc = "stream" /\ snap' = snap /\ slots' = slots /\ Moving(c) /\ Rest(c) > 0
      /\ conn'[c] = [conn[c] EXCEPT !.sent = conn[c].sent + 1]
  BY DEF Send, Moving, Serve, ServerInv, ConnInv, ConnState
<1>2. /\ conn'[c].pc = "stream" /\ conn'[c].q = conn[c].q /\ conn'[c].zone = conn[c].zone
      /\ conn'[c].refused = conn[c].refused /\ conn'[c].tell = conn[c].tell
      /\ conn'[c].sent = conn[c].sent + 1 /\ conn'[c].sent > 0
  BY <1>1, Seen DEF ConnState
<1>3. conn[c].refused = None /\ ~conn[c].tell /\ c \in Running
  BY <1>1, Seen DEF Placed, Holding
<1>4. SlotInv' /\ Running' = Running
  BY <1>1, <1>2, SlotKept DEF Holding
<1>5. Replies[c] = None
  <2>1. Rest(c) # 0
    BY <1>1
  <2>2. Len(Envelopes[conn[c].zone][conn[c].q]) - conn[c].sent # 0
    BY <2>1 DEF Rest
  <2> QED BY <1>3, <2>2, Seen DEF ReplyOf
<1>6. ReplyOf(conn'[c]) \in {None, [zone |-> conn[c].zone]}
  BY <1>2, <1>3 DEF ReplyOf
<1>7. Replies' = [Replies EXCEPT ![c] = ReplyOf(conn'[c])]
  BY <1>1, <1>2, SameQuestion
<1>8. AskedOf' = AskedOf /\ TakenOf' = TakenOf
  BY <1>1, <1>2, SameQuestion
<1>9. CASE ReplyOf(conn'[c]) = None
  <2>1. Replies' = Replies
    BY <1>5, <1>7, <1>9 DEF Replies
  <2> QED BY <1>1, <1>4, <1>8, <2>1 DEF ServiceStep
<1>10. CASE ReplyOf(conn'[c]) = [zone |-> conn[c].zone]
  <2>1. Replies' = [Replies EXCEPT ![c] = [zone |-> TakenOf[c]]]
    BY <1>7, <1>10, Seen
  <2>2. Service!Deliver(c)
    BY <1>1, <1>3, <1>4, <1>5, <1>8, <2>1 DEF Service!Deliver, AskedOf, TakenOf, Running, Replies
  <2> QED BY <1>4, <2>2 DEF ServiceStep, Service!ANext
<1> QED BY <1>6, <1>9, <1>10

\* The handler returns.
LEMMA StepEnd ==
  ASSUME ServerInv, NEW c \in Conns, Moving(c), conn'[c] = Idle, conn[c].pc # "idle", snap' = snap,
         Running' = Running \ {c}
  PROVE  Service!End(c)
<1>1. AskedOf[c] # None
  BY Seen DEF Placed
<1>2. ReplyOf(Idle) = None /\ Idle.q = None /\ Idle.zone = None
  BY IdleIs, BlankReply
<1>3. /\ AskedOf' = [AskedOf EXCEPT ![c] = None] /\ TakenOf' = [TakenOf EXCEPT ![c] = None]
      /\ Replies' = [Replies EXCEPT ![c] = None]
  BY <1>2, Moves, Moved DEF ServerInv, Moving
<1> QED BY <1>1, <1>3 DEF Service!End, AskedOf, TakenOf, Running, Replies

\* The stream is over: the slot goes back, and the question ends unless its
\* outcome is noted.
LEMMA StepStop ==
  ASSUME ServerInv, NEW c \in Conns, Stop(c)
  PROVE  SlotInv' /\ ServiceStep
<1> DEFINE r == conn[c]
<1> DEFINE t == [r EXCEPT !.dog = IF r.dog = "armed" THEN "off" ELSE r.dog]
<1>1. r.pc = "stop" /\ r.dog # "fired" /\ snap' = snap /\ slots' = slots - 1 /\ Moving(c)
      /\ conn'[c] = Stopped(r)
  BY DEF Stop, Moving, Serve, ServerInv, ConnInv
<1>2. r \in ConnState
  BY Seen
<1>3. t \in ConnState /\ t.dog # "fired" /\ t.q = r.q /\ t.zone = r.zone /\ t.refused = r.refused
      /\ t.tell = r.tell /\ t.sent = r.sent
  BY <1>1, <1>2 DEF ConnState, Dogs
<1>4. Stopped(r) = IF t.served THEN [t EXCEPT !.pc = "note"] ELSE Returned(t)
  BY DEF Stopped
<1> HIDE DEF t
<1>5. CASE t.served
  <2>1. /\ conn'[c].pc = "note" /\ conn'[c].q = r.q /\ conn'[c].zone = r.zone
        /\ conn'[c].refused = r.refused /\ conn'[c].tell = r.tell /\ conn'[c].sent = r.sent
    BY <1>1, <1>3, <1>4, <1>5 DEF ConnState
  <2>2. SlotInv' /\ Running' = Running \ {c}
    BY <1>1, <2>1, SlotGiven DEF Holding
  <2>3. ReplyOf(conn'[c]) = ReplyOf(r)
    BY <2>1 DEF ReplyOf
  <2>4. /\ AskedOf' = [AskedOf EXCEPT ![c] = AskedOf[c]] /\ TakenOf' = [TakenOf EXCEPT ![c] = TakenOf[c]]
        /\ Replies' = [Replies EXCEPT ![c] = Replies[c]]
    BY <1>1, <2>1, <2>3, Moves, Moved, Seen DEF ServerInv, Moving
  <2>5. UNCHANGED <<snap, AskedOf, TakenOf, Replies>>
    BY <1>1, <2>4 DEF AskedOf, TakenOf, Replies
  <2>6. Service!Release(c)
    BY <2>2, <2>5 DEF Service!Release, AskedOf, TakenOf, Running, Replies
  <2> QED BY <2>2, <2>6 DEF ServiceStep, Service!ANext
<1>6. CASE ~t.served
  <2>1. conn'[c] = Idle
    BY <1>1, <1>3, <1>4, <1>6, ReturnedIs
  <2>2. SlotInv' /\ Running' = Running \ {c}
    BY <1>1, <2>1, SlotGiven, IdleIs DEF Holding
  <2>3. Service!End(c)
    BY <1>1, <2>1, <2>2, StepEnd
  <2> QED BY <2>2, <2>3 DEF ServiceStep, Service!ANext
<1> QED BY <1>5, <1>6

\* An answer was written.
LEMMA StepAnswer ==
  ASSUME ServerInv, NEW c \in Conns, Answer(c)
  PROVE  SlotInv' /\ Service!End(c)
<1>1. conn[c].pc = "answer" /\ snap' = snap /\ slots' = slots /\ Moving(c) /\ conn'[c] = Returned(conn[c])
  BY DEF Answer, Moving, Serve, ServerInv, ConnInv
<1>2. conn[c].dog # "fired" /\ c \notin Running
  BY <1>1, Seen DEF Placed, Holding
<1>3. conn'[c] = Idle
  BY <1>1, <1>2, ReturnedIs
<1>4. SlotInv' /\ Running' = Running
  BY <1>1, <1>3, SlotKept, IdleIs DEF Holding
<1> QED BY <1>1, <1>2, <1>3, <1>4, StepEnd

\* The end of a stream as the handler sees it, the watchdog and the notes: a
\* peer sees none of them.
LEMMA StepUnseen ==
  ASSUME ServerInv, NEW c \in Conns,
         \/ Sent(c) \/ OutOfTime(c) \/ PeerGone(c) \/ Watchdog(c)
         \/ Note(c) \/ WriteNote(c) \/ WriteNoteFails(c)
  PROVE  SlotInv' /\ ServiceStep
<1> DEFINE r == conn[c]
<1> DEFINE s == conn'[c]
<1>0. conn \in [Conns -> ConnState] /\ r \in ConnState /\ Placed(r)
  BY Seen DEF ServerInv, ConnInv
<1>1. snap' = snap /\ slots' = slots /\ Moving(c)
  BY DEF Sent, OutOfTime, PeerGone, Watchdog, Fire, CloseStalled, Note, WriteNote, WriteNoteFails,
     Moving, Serve
<1>2. CASE Sent(c) \/ OutOfTime(c) \/ PeerGone(c)
  <2>1. r.pc = "stream" /\ (s = [r EXCEPT !.pc = "stop", !.served = TRUE] \/ s = [r EXCEPT !.pc = "stop"])
    BY <1>0, <1>2 DEF Sent, OutOfTime, PeerGone, ConnState
  <2>2. /\ s.pc = "stop" /\ s.q = r.q /\ s.zone = r.zone
        /\ s.refused = r.refused /\ s.tell = r.tell /\ s.sent = r.sent
    BY <1>0, <2>1 DEF ConnState
  <2> QED BY <1>1, <2>1, <2>2, Unseen DEF ServiceStep, Holding
<1>3. CASE Watchdog(c)
  <2>1. s = [r EXCEPT !.dog = "fired"] \/ s = [r EXCEPT !.dog = "closed"]
    BY <1>0, <1>3 DEF Watchdog, Fire, CloseStalled, ConnState
  <2>2. /\ s.pc = r.pc /\ s.q = r.q /\ s.zone = r.zone
        /\ s.refused = r.refused /\ s.tell = r.tell /\ s.sent = r.sent
    BY <1>0, <2>1 DEF ConnState
  <2> QED BY <1>1, <2>2, Unseen DEF ServiceStep
<1>4. CASE Note(c) \/ WriteNote(c) \/ WriteNoteFails(c)
  <2>1. /\ r.pc \in {"note", "write"}
        /\ s = [r EXCEPT !.pc = "write"] \/ s = [r EXCEPT !.pc = "answer"]
    BY <1>0, <1>4 DEF Note, WriteNote, WriteNoteFails, ConnState
  <2>2. /\ s.pc \in {"write", "answer"} /\ s.q = r.q /\ s.zone = r.zone
        /\ s.refused = r.refused /\ s.tell = r.tell /\ s.sent = r.sent
    BY <1>0, <2>1 DEF ConnState
  <2> QED BY <1>1, <2>1, <2>2, Unseen DEF ServiceStep, Holding
<1> QED BY <1>2, <1>3, <1>4

\* Any step of one connection.
LEMMA StepOf ==
  ASSUME ServerInv, NEW c \in Conns, Moving(c)
  PROVE  SlotInv' /\ ServiceStep
<1>1. CASE Ask(c)
  BY <1>1, StepAsk DEF ServiceStep, Service!ANext
<1>2. CASE Lookup(c)
  BY <1>2, StepLookup DEF ServiceStep, Service!ANext
<1>3. CASE TakeSlot(c)
  BY <1>3, StepTake DEF ServiceStep, Service!ANext
<1>4. CASE AtLimit(c)
  BY <1>4, StepAtLimit DEF ServiceStep, Service!ANext
<1>5. CASE Answer(c)
  BY <1>5, StepAnswer DEF ServiceStep, Service!ANext
<1> QED
  BY <1>1, <1>2, <1>3, <1>4, <1>5, StepGate, StepRender, StepSend, StepStop, StepUnseen DEF Moving, Serve

\* A step of no connection: a reload, or the passing of the throttle.
LEMMA StepAside ==
  ASSUME ServerInv, Reload \/ Tick \/ UNCHANGED vars
  PROVE  ConnInv' /\ SlotInv' /\ snap' \in DOMAIN ZoneAt /\ noted' = noted /\ ServiceStep
<1>1. conn' = conn /\ slots' = slots /\ noted' = noted /\ snap' \in DOMAIN ZoneAt
  BY DEF Reload, Tick, vars, ServerInv
<1>2. ConnInv'
  BY <1>1 DEF ServerInv, ConnInv
<1>3. UNCHANGED <<AskedOf, TakenOf, Running, Replies>>
  BY <1>1 DEF AskedOf, TakenOf, Running, Holds, Replies, Reply, ZoneOf, Rest
<1>4. SlotInv'
  BY <1>1, <1>3 DEF ServerInv, SlotInv
<1>5. Service!Publish
  BY <1>1, <1>3 DEF Service!Publish, AskedOf, TakenOf, Running, Replies
<1> QED BY <1>1, <1>2, <1>4, <1>5 DEF ServiceStep, Service!ANext

-----------------------------------------------------------------------------
(* The theorems.                                                           *)

\* The server starts with every connection idle and every slot free.
LEMMA InitServer == Init => ServerInv
<1> SUFFICES ASSUME Init PROVE ServerInv
  OBVIOUS
<1>1. conn = [c \in Conns |-> Idle] /\ snap \in DOMAIN ZoneAt /\ noted = None /\ slots = 0
  BY Constants DEF Init
<1>2. Placed(Idle)
  BY IdleIs DEF Placed, Holding
<1>3. ConnInv
  BY <1>1, <1>2, IdleIs DEF ConnInv
<1>4. Running = {}
  BY <1>1, IdleIs DEF Running, Holds
<1>5. IsFiniteSet({}) /\ Cardinality({}) = 0
  BY FS_EmptySet
<1>6. SlotInv
  BY <1>1, <1>4, <1>5, Constants DEF SlotInv
<1> QED BY <1>1, <1>3, <1>6 DEF ServerInv

\* The invariant is inductive, and every step is one of the service.
LEMMA NextServer == ServerInv /\ [Next]_vars => ServerInv' /\ ServiceStep
<1> SUFFICES ASSUME ServerInv, [Next]_vars PROVE ServerInv' /\ ServiceStep
  OBVIOUS
<1>1. CASE Reload \/ Tick \/ UNCHANGED vars
  <2>1. noted' \in {None} \cup BOOLEAN
    BY <1>1, StepAside DEF ServerInv
  <2> QED BY <1>1, <2>1, StepAside DEF ServerInv
<1>2. ASSUME NEW c \in Conns, Moving(c) PROVE ServerInv' /\ ServiceStep
  <2>1. conn'[c] \in ConnState /\ Placed(conn'[c]) /\ conn' = [conn EXCEPT ![c] = conn'[c]]
    BY <1>2, Moves DEF Moving
  <2>2. ConnInv'
    BY <2>1, Moved DEF ServerInv, ConnInv
  <2>3. snap' = snap
    BY <1>2 DEF Moving, Ask, Serve, Lookup, Gate, TakeSlot, AtLimit, Render, Send, Sent, OutOfTime, Stop,
       Note, WriteNote, Answer, Watchdog, Fire, CloseStalled, PeerGone, WriteNoteFails
  <2>4. noted' = noted \/ noted' = conn[c].served
    BY <1>2 DEF Moving, Ask, Serve, Lookup, Gate, TakeSlot, AtLimit, Render, Send, Sent, OutOfTime, Stop,
       Note, WriteNote, Answer, Watchdog, Fire, CloseStalled, PeerGone, WriteNoteFails
  <2>5. noted' \in {None} \cup BOOLEAN
    <3>1. conn[c].served \in BOOLEAN
      BY Seen DEF ConnState
    <3> QED BY <2>4, <3>1, Zenon DEF ServerInv
  <2> QED BY <1>2, <2>2, <2>3, <2>5, StepOf DEF ServerInv
<1> QED BY <1>1, <1>2 DEF Next, Moving

\* It holds of every behaviour.
LEMMA ServerAlways == Spec => []ServerInv
<1>1. ServerInv /\ [Next]_vars => ServerInv'
  BY NextServer
<1> QED BY InitServer, <1>1, PTL DEF Spec

\* The slots taken stay between none and the limit, for any number of peers
\* that stop reading, go away or ask for zones that do not render.
THEOREM TypeCorrect == Spec => []TypeOK
<1>1. ServerInv => TypeOK
  BY Counted DEF ServerInv, ConnInv, ConnState, Dogs, TypeOK
<1> QED BY ServerAlways, <1>1, PTL

\* No watchdog closes a connection that its handler has already given back.
THEOREM ConnectionsAreGivenBackOpen == Spec => []NoLateClose
<1>1. ServerInv => NoLateClose
  BY DEF ServerInv, ConnInv, Placed, NoLateClose
<1> QED BY ServerAlways, <1>1, PTL

\* The server implements TransferService: only the entitled are served, each
\* gets the zone of one moment whole or not at all, and the limit is a reason
\* to refuse only while it is reached.
THEOREM ServerImplementsService == Spec => Implements
<1>1. Init => Service!AInit
  <2> SUFFICES ASSUME Init PROVE Service!AInit
    OBVIOUS
  <2>1. ServerInv /\ conn = [c \in Conns |-> Idle] /\ snap \in DOMAIN ZoneAt
    BY InitServer, Constants DEF Init
  <2>2. \A c \in Conns : conn[c].q = None /\ conn[c].zone = None /\ Reply(c) = None /\ ~Holds(c)
    BY <2>1, IdleIs, BlankReply, ReplyIs DEF Holds
  <2> QED BY <2>1, <2>2 DEF Service!AInit
<1>2. ServerInv /\ [Next]_vars => [Service!ANext]_(Service!avars)
  BY NextServer DEF ServiceStep, Service!avars, AskedOf, TakenOf, Running, Replies
<1> QED BY ServerAlways, <1>1, <1>2, PTL DEF Spec, Implements, Service!ASpec
-----------------------------------------------------------------------------
(* Loops over records.  Induction is by the least counterexample: the      *)
(* library's principle for sets of naturals serves where its induction     *)
(* theorems, which take a predicate, cannot be instantiated.               *)

\* Induction, with a set for the predicate.
LEMMA Induction ==
  ASSUME NEW S, 0 \in S, \A k \in Nat : k \in S => k + 1 \in S
  PROVE  \A k \in Nat : k \in S
<1> DEFINE R == OpToRel(<, Nat)
<1>1. IsWellFoundedOn(R, Nat)
  BY NatLessThanWellFounded
<1>2. \A x, y \in Nat : y < x => <<y, x>> \in R
  BY DEF OpToRel
<1> HIDE DEF R
<1> SUFFICES ASSUME Nat \ S # {} PROVE FALSE
  OBVIOUS
<1>3. PICK x \in Nat \ S : \A y \in Nat \ S : ~ (<<y, x>> \in R)
  BY <1>1, WFMin
<1>4. \A y \in Nat \ S : ~(y < x)
  BY <1>2, <1>3
<1>5. x # 0 /\ x - 1 \in Nat
  BY <1>3
<1> QED BY <1>3, <1>4, <1>5

\* A loop of n passes over values of X: its value after each of them.
Run(f, X, a, n, step) == f \in [0..n -> X] /\ f[0] = a /\ \A k \in 1..n : f[k] = step[k][f[k - 1]]
CanRun(X, a, n, step) == \E f : Run(f, X, a, n, step)

LEMMA Iteration ==
  ASSUME NEW X, NEW a \in X, NEW n \in Nat, NEW step \in [1..n -> [X -> X]]
  PROVE  CanRun(X, a, n, step)
<1> DEFINE Runs(m) == \E f \in [0..m -> X] : f[0] = a /\ \A k \in 1..m : f[k] = step[k][f[k - 1]]
<1> DEFINE S == {m \in Nat : m <= n => Runs(m)}
<1>1. 0 \in S
  <2> DEFINE g == [k \in 0..0 |-> a]
  <2>1. g \in [0..0 -> X] /\ g[0] = a
    OBVIOUS
  <2> HIDE DEF g
  <2>2. Runs(0)
    BY <2>1
  <2> QED BY <2>2
<1>2. ASSUME NEW m \in Nat, m \in S PROVE m + 1 \in S
  <2> SUFFICES ASSUME m + 1 <= n PROVE Runs(m + 1)
    OBVIOUS
  <2>1. PICK f \in [0..m -> X] : f[0] = a /\ \A k \in 1..m : f[k] = step[k][f[k - 1]]
    BY <1>2
  <2> DEFINE g == [k \in 0..m + 1 |-> IF k = m + 1 THEN step[m + 1][f[m]] ELSE f[k]]
  <2>2. step[m + 1] \in [X -> X] /\ f[m] \in X
    OBVIOUS
  <2>3. g \in [0..m + 1 -> X] /\ g[0] = a
    BY <2>1, <2>2
  <2>4. \A k \in 1..m + 1 : g[k] = step[k][g[k - 1]]
    BY <2>1
  <2> HIDE DEF g
  <2> QED BY <2>3, <2>4
<1> HIDE DEF S
<1>3. n \in S
  BY <1>1, <1>2, Induction
<1> QED BY <1>3 DEF S, Run, CanRun

-----------------------------------------------------------------------------
\* The sizes of the first records.
Sums(s, f) == f = [k \in 0..Len(s) |-> IF k = 0 THEN 0 ELSE f[k - 1] + s[k].size]
SumsOf(s) == CHOOSE f : Sums(s, f)
Sized(s) == Len(s) \in Nat /\ \A i \in 1..Len(s) : s[i].size \in Nat

\* Size adds the sizes up, one record at a time.
LEMMA SizeIs ==
  ASSUME NEW s, Sized(s)
  PROVE  /\ SumsOf(s) \in [0..Len(s) -> Nat] /\ SumsOf(s)[0] = 0 /\ Size(s) = SumsOf(s)[Len(s)]
         /\ \A k \in 1..Len(s) : SumsOf(s)[k] = SumsOf(s)[k - 1] + s[k].size
<1> DEFINE n == Len(s)
<1> DEFINE step == [k \in 1..n |-> [x \in Nat |-> x + s[k].size]]
<1>1. n \in Nat /\ step \in [1..n -> [Nat -> Nat]]
  BY DEF Sized
<1>2. PICK f \in [0..n -> Nat] : f[0] = 0 /\ \A k \in 1..n : f[k] = step[k][f[k - 1]]
  <2> DEFINE X == Nat
  <2>1. 0 \in X /\ n \in Nat /\ step \in [1..n -> [X -> X]]
    BY <1>1
  <2>2. CanRun(X, 0, n, step)
    <3> HIDE DEF X, n, step
    <3> QED BY <2>1, Iteration
  <2> QED BY <2>2 DEF CanRun, Run
<1>3. Sums(s, f)
  <2>1. ASSUME NEW k \in 1..n PROVE f[k] = f[k - 1] + s[k].size
    <3>1. k - 1 \in 0..n
      BY <1>1
    <3>2. f[k - 1] \in Nat
      BY <3>1
    <3>3. step[k] = [x \in Nat |-> x + s[k].size]
      OBVIOUS
    <3> QED BY <1>2, <3>2, <3>3
  <2> HIDE DEF step
  <2>2. \A k \in 0..n : f[k] = IF k = 0 THEN 0 ELSE f[k - 1] + s[k].size
    BY <1>1, <1>2, <2>1
  <2>3. f = [k \in 0..n |-> f[k]]
    OBVIOUS
  <2>4. f = [k \in 0..n |-> IF k = 0 THEN 0 ELSE f[k - 1] + s[k].size]
    BY <2>2, <2>3
  <2> QED BY <2>4 DEF Sums
<1> DEFINE h == SumsOf(s)
<1>4. Sums(s, h)
  BY <1>3 DEF SumsOf
<1> HIDE DEF h
<1> DEFINE S == {k \in Nat : k <= n => h[k] \in Nat}
<1>5. h[0] = 0 /\ DOMAIN h = 0..n /\ \A k \in 1..n : h[k] = h[k - 1] + s[k].size
  BY <1>1, <1>4 DEF Sums
<1>6. \A k \in Nat : k \in S
  <2>1. 0 \in S
    BY <1>5
  <2>2. ASSUME NEW k \in Nat, k \in S, k + 1 <= n PROVE h[k + 1] \in Nat
    <3>1. h[k + 1] = h[k] + s[k + 1].size
      BY <1>1, <1>5, <2>2
    <3> QED BY <1>1, <2>2, <3>1 DEF Sized
  <2>3. \A k \in Nat : k \in S => k + 1 \in S
    BY <2>2
  <2> HIDE DEF S
  <2> QED BY <2>1, <2>3, Induction
<1>7. h = [k \in 0..n |-> h[k]]
  BY <1>1, <1>4 DEF Sums
<1>8. h \in [0..n -> Nat]
  BY <1>1, <1>6, <1>7
<1>9. Size(s) = h[n]
  BY DEF Size, h, SumsOf, Sums
<1> QED BY <1>5, <1>8, <1>9 DEF h

\* A record more.
LEMMA SizeAppend ==
  ASSUME NEW R, \A r \in R : r.size \in Nat, NEW s \in Seq(R), NEW rr \in R
  PROVE  Size(s) \in Nat /\ Size(Append(s, rr)) = Size(s) + rr.size
<1> DEFINE n == Len(s)
<1> DEFINE t == Append(s, rr)
<1>1. n \in Nat /\ Len(t) = n + 1 /\ t[n + 1] = rr /\ \A k \in 1..n : t[k] = s[k]
  OBVIOUS
<1>2. Sized(s) /\ Sized(t)
  BY <1>1 DEF Sized
<1> DEFINE g == SumsOf(s)
<1> DEFINE h == SumsOf(t)
<1>3. g \in [0..n -> Nat] /\ g[0] = 0 /\ Size(s) = g[n] /\ \A k \in 1..n : g[k] = g[k - 1] + s[k].size
  BY <1>2, SizeIs
<1>4. h \in [0..n + 1 -> Nat] /\ h[0] = 0 /\ Size(t) = h[n + 1] /\ \A k \in 1..n + 1 : h[k] = h[k - 1] + t[k].size
  <2> HIDE DEF t
  <2>1. h \in [0..Len(t) -> Nat] /\ h[0] = 0 /\ Size(t) = h[Len(t)] /\ \A k \in 1..Len(t) : h[k] = h[k - 1] + t[k].size
    BY <1>2, SizeIs
  <2> QED BY <1>1, <2>1
<1> HIDE DEF g, h, n, t
<1> DEFINE S == {k \in Nat : k <= n => h[k] = g[k]}
<1>5. 0 \in S
  BY <1>3, <1>4
<1>6. ASSUME NEW k \in Nat, k \in S PROVE k + 1 \in S
  <2> SUFFICES ASSUME k + 1 <= n PROVE h[k + 1] = g[k + 1]
    OBVIOUS
  <2>1. h[k] = g[k] /\ k + 1 \in 1..n /\ k + 1 \in 1..n + 1 /\ (k + 1) - 1 = k
    BY <1>1, <1>6
  <2>2. h[k + 1] = h[k] + t[k + 1].size /\ g[k + 1] = g[k] + s[k + 1].size
    BY <1>3, <1>4, <2>1
  <2> QED BY <1>1, <2>1, <2>2
<1>7. n \in S
  <2> HIDE DEF S
  <2> QED BY <1>1, <1>5, <1>6, Induction
<1>8. h[n + 1] = h[n] + rr.size
  BY <1>1, <1>4
<1>9. h[n] = g[n] /\ g[n] \in Nat
  BY <1>1, <1>3, <1>7
<1> QED BY <1>3, <1>4, <1>8, <1>9 DEF t

\* No records take no room.
LEMMA SizeOfNone == Size(<<>>) = 0
<1>1. Sized(<<>>) /\ Len(<<>>) = 0
  BY DEF Sized
<1> QED BY <1>1, SizeIs

\* The envelopes put together, one after the other.
Joins(es, f) == f = [i \in 1..Len(es) |-> IF i = 1 THEN es[i] ELSE f[i - 1] \o es[i]]
JoinsOf(es) == CHOOSE f : Joins(es, f)

\* FlattenSeq appends one envelope after the other.
LEMMA FlattenIs ==
  ASSUME NEW R, NEW es \in Seq(Seq(R)), es # <<>>
  PROVE  /\ FlattenSeq(es) = JoinsOf(es)[Len(es)] /\ JoinsOf(es)[1] = es[1]
         /\ \A i \in 2..Len(es) : JoinsOf(es)[i] = JoinsOf(es)[i - 1] \o es[i]
         /\ \A i \in 1..Len(es) : JoinsOf(es)[i] \in Seq(R)
<1> DEFINE n == Len(es)
<1> DEFINE X == Seq(R)
<1> DEFINE step == [k \in 1..n |-> [x \in X |-> IF k = 1 THEN es[1] ELSE x \o es[k]]]
<1>1. n \in Nat /\ n >= 1 /\ \A k \in 1..n : es[k] \in X
  OBVIOUS
<1>2. step \in [1..n -> [X -> X]] /\ <<>> \in X
  BY <1>1
<1>3. PICK f \in [0..n -> X] : f[0] = <<>> /\ \A k \in 1..n : f[k] = step[k][f[k - 1]]
  <2>1. CanRun(X, <<>>, n, step)
    <3> HIDE DEF n, X, step
    <3> QED BY <1>1, <1>2, Iteration
  <2> HIDE DEF n, X, step
  <2> QED BY <2>1 DEF CanRun, Run
<1>4. ASSUME NEW k \in 1..n PROVE f[k] = IF k = 1 THEN es[1] ELSE f[k - 1] \o es[k]
  <2>1. k - 1 \in 0..n
    BY <1>1
  <2>2. f[k - 1] \in X
    BY <2>1
  <2>3. step[k] = [x \in X |-> IF k = 1 THEN es[1] ELSE x \o es[k]]
    OBVIOUS
  <2> QED BY <1>3, <2>2, <2>3
<1> DEFINE g == [i \in 1..n |-> f[i]]
<1>5. Joins(es, g)
  <2> HIDE DEF step, n
  <2>1. \A i \in 1..n : g[i] = IF i = 1 THEN es[i] ELSE g[i - 1] \o es[i]
    BY <1>1, <1>4
  <2>2. g = [i \in 1..n |-> g[i]]
    OBVIOUS
  <2> HIDE DEF g
  <2>3. g = [i \in 1..n |-> IF i = 1 THEN es[i] ELSE g[i - 1] \o es[i]]
    BY <2>1, <2>2
  <2> QED BY <2>3 DEF Joins, n
<1> DEFINE h == JoinsOf(es)
<1>6. Joins(es, h)
  BY <1>5 DEF JoinsOf
<1> HIDE DEF h, g, step
<1>7. h[1] = es[1] /\ \A i \in 2..n : h[i] = h[i - 1] \o es[i]
  <2> HIDE DEF n, X
  <2>1. h = [i \in 1..n |-> IF i = 1 THEN es[i] ELSE h[i - 1] \o es[i]]
    BY <1>6 DEF Joins, n
  <2>2. \A i \in 1..n : h[i] = IF i = 1 THEN es[i] ELSE h[i - 1] \o es[i]
    BY <2>1
  <2>3. 1 \in 1..n /\ \A i \in 2..n : i \in 1..n /\ i # 1
    BY <1>1
  <2>4. h[1] = es[1]
    BY <2>2, <2>3, Zenon
  <2>5. \A i \in 2..n : h[i] = h[i - 1] \o es[i]
    BY <2>2, <2>3, Zenon
  <2> QED BY <2>4, <2>5
<1> DEFINE S == {k \in Nat : k + 1 <= n => h[k + 1] \in X}
<1>8. 0 \in S
  BY <1>1, <1>7
<1>9. ASSUME NEW k \in Nat, k \in S PROVE k + 1 \in S
  <2> SUFFICES ASSUME k + 2 <= n PROVE h[k + 2] \in X
    OBVIOUS
  <2>1. h[k + 1] \in X /\ k + 2 \in 2..n /\ (k + 2) - 1 = k + 1 /\ k + 2 \in 1..n
    BY <1>1, <1>9
  <2>2. h[k + 2] = h[k + 1] \o es[k + 2] /\ es[k + 2] \in X
    BY <1>1, <1>7, <2>1
  <2> QED BY <2>1, <2>2
<1>10. ASSUME NEW i \in 1..n PROVE h[i] \in X
  <2>1. i - 1 \in S
    <3> HIDE DEF S
    <3>1. i - 1 \in Nat
      BY <1>1
    <3> QED BY <1>8, <1>9, <3>1, Induction
  <2> QED BY <1>1, <2>1
<1>11. FlattenSeq(es) = h[n]
  BY <1>1 DEF FlattenSeq, h, JoinsOf, Joins
<1> QED BY <1>7, <1>10, <1>11 DEF h

\* An envelope more.
LEMMA FlattenAppend ==
  ASSUME NEW R, NEW es \in Seq(Seq(R)), NEW e \in Seq(R)
  PROVE  FlattenSeq(es) \in Seq(R) /\ FlattenSeq(Append(es, e)) = FlattenSeq(es) \o e
<1> DEFINE n == Len(es)
<1> DEFINE t == Append(es, e)
<1>1. n \in Nat /\ t \in Seq(Seq(R)) /\ t # <<>> /\ Len(t) = n + 1 /\ t[n + 1] = e /\ \A k \in 1..n : t[k] = es[k]
  <2> DEFINE E == Seq(R)
  <2>1. es \in Seq(E) /\ e \in E
    OBVIOUS
  <2> HIDE DEF E
  <2>2. n \in Nat /\ t \in Seq(E) /\ Len(t) = n + 1 /\ t[n + 1] = e /\ \A k \in 1..n : t[k] = es[k]
    BY <2>1
  <2>3. t # <<>>
    BY <2>1
  <2> QED BY <2>2, <2>3 DEF E
<1> DEFINE h == JoinsOf(t)
<1>2. h[1] = t[1] /\ FlattenSeq(t) = h[n + 1] /\ \A i \in 2..n + 1 : h[i] = h[i - 1] \o t[i]
  <2> HIDE DEF t
  <2>1. h[1] = t[1] /\ FlattenSeq(t) = h[Len(t)] /\ \A i \in 2..Len(t) : h[i] = h[i - 1] \o t[i]
    BY <1>1, FlattenIs
  <2> QED BY <1>1, <2>1
<1>3. CASE es = <<>>
  <2>1. n = 0 /\ FlattenSeq(es) = <<>>
    BY <1>3 DEF FlattenSeq
  <2>2. FlattenSeq(t) = e
    BY <1>1, <1>2, <2>1
  <2> QED BY <2>1, <2>2
<1>4. CASE es # <<>>
  <2> DEFINE g == JoinsOf(es)
  <2>1. /\ g[1] = es[1] /\ FlattenSeq(es) = g[n] /\ \A i \in 2..n : g[i] = g[i - 1] \o es[i]
        /\ \A i \in 1..n : g[i] \in Seq(R)
    BY <1>4, FlattenIs
  <2>2. n >= 1
    BY <1>4
  <2> HIDE DEF g, h, t, n
  <2> DEFINE S == {k \in Nat : k + 1 <= n => h[k + 1] = g[k + 1]}
  <2>3. 0 \in S
    BY <1>1, <1>2, <2>1, <2>2
  <2>4. ASSUME NEW k \in Nat, k \in S PROVE k + 1 \in S
    <3> SUFFICES ASSUME k + 2 <= n PROVE h[k + 2] = g[k + 2]
      OBVIOUS
    <3>1. h[k + 1] = g[k + 1] /\ k + 2 \in 2..n /\ k + 2 \in 2..n + 1 /\ (k + 2) - 1 = k + 1 /\ k + 2 \in 1..n
      BY <1>1, <2>4
    <3>2. h[k + 2] = h[(k + 2) - 1] \o t[k + 2] /\ g[k + 2] = g[(k + 2) - 1] \o es[k + 2]
      BY <1>2, <2>1, <3>1
    <3>3. t[k + 2] = es[k + 2]
      BY <1>1, <3>1
    <3> QED BY <3>1, <3>2, <3>3
  <2>5. n - 1 \in S
    <3> HIDE DEF S
    <3>1. n - 1 \in Nat
      BY <1>1, <2>2
    <3> QED BY <2>3, <2>4, <3>1, Induction
  <2>6. h[n] = g[n] /\ g[n] \in Seq(R)
    BY <1>1, <2>1, <2>2, <2>5
  <2>7. h[n + 1] = h[n] \o e
    <3>1. n + 1 \in 2..n + 1 /\ (n + 1) - 1 = n
      BY <1>1, <2>2
    <3>2. h[n + 1] = h[(n + 1) - 1] \o t[n + 1]
      BY <1>2, <3>1
    <3> QED BY <1>1, <3>1, <3>2
  <2> QED BY <1>2, <2>1, <2>6, <2>7 DEF t
<1> QED BY <1>3, <1>4

\* batch after its first records.
Batch(R) == [out: Seq(Seq(R)), current: Seq(R), size: Nat]
NoneYet == [out |-> <<>>, current |-> <<>>, size |-> 0]
Fills(rrs, budget, f) == f = [k \in 0..Len(rrs) |-> IF k = 0 THEN NoneYet ELSE Add(f[k - 1], rrs[k], budget)]
FillOf(rrs, budget) == CHOOSE f : Fills(rrs, budget, f)

\* An envelope holds one record, or no more than fits.
Fits(env, budget) == Len(env) = 1 \/ (env # <<>> /\ Size(env) <= budget)

\* What has been read is in the envelopes, in order, and each of them fits.
Batched(b, rrs, k, budget) ==
  /\ FlattenSeq(b.out) \o b.current = SubSeq(rrs, 1, k)
  /\ b.size = Size(b.current)
  /\ \A i \in DOMAIN b.out : Fits(b.out[i], budget)
  /\ b.current = <<>> \/ Fits(b.current, budget)

\* A record more leaves batch with envelopes of records.
LEMMA AddType ==
  ASSUME NEW R, \A r \in R : r.size \in Nat, NEW b \in Batch(R), NEW rr \in R, NEW budget \in Int
  PROVE  Add(b, rr, budget) \in Batch(R)
<1>1. b.out \in Seq(Seq(R)) /\ b.current \in Seq(R) /\ b.size \in Nat /\ rr.size \in Nat
      /\ b = [out |-> b.out, current |-> b.current, size |-> b.size]
  BY DEF Batch
<1>2. Append(b.out, b.current) \in Seq(Seq(R))
  <2> DEFINE E == Seq(R)
  <2>1. b.out \in Seq(E) /\ b.current \in E
    BY <1>1
  <2> HIDE DEF E
  <2>2. Append(b.out, b.current) \in Seq(E)
    BY <2>1
  <2> QED BY <2>2 DEF E
<1>3. <<rr>> \in Seq(R) /\ Append(b.current, rr) \in Seq(R) /\ b.size + rr.size \in Nat
  BY <1>1
<1> QED BY <1>1, <1>2, <1>3 DEF Add, Batch

\* batch adds the records one after the other.
LEMMA FillIs ==
  ASSUME NEW R, \A r \in R : r.size \in Nat, NEW rrs \in Seq(R), NEW budget \in Int
  PROVE  /\ FillOf(rrs, budget)[0] = NoneYet
         /\ \A k \in 1..Len(rrs) : FillOf(rrs, budget)[k] = Add(FillOf(rrs, budget)[k - 1], rrs[k], budget)
<1> DEFINE n == Len(rrs)
<1> DEFINE X == Batch(R)
<1> DEFINE step == [k \in 1..n |-> [x \in X |-> Add(x, rrs[k], budget)]]
<1>1. n \in Nat /\ NoneYet \in X
  BY DEF NoneYet, Batch
<1>2. step \in [1..n -> [X -> X]]
  <2>1. \A k \in 1..n : \A x \in X : Add(x, rrs[k], budget) \in X
    BY AddType
  <2> HIDE DEF X
  <2> QED BY <2>1
<1>3. PICK f \in [0..n -> X] : f[0] = NoneYet /\ \A k \in 1..n : f[k] = step[k][f[k - 1]]
  <2>1. CanRun(X, NoneYet, n, step)
    <3> HIDE DEF n, X, step
    <3> QED BY <1>1, <1>2, Iteration
  <2> HIDE DEF n, X, step
  <2> QED BY <2>1 DEF CanRun, Run
<1>4. ASSUME NEW k \in 1..n PROVE f[k] = Add(f[k - 1], rrs[k], budget)
  <2>1. k - 1 \in 0..n
    BY <1>1
  <2>2. f[k - 1] \in X
    BY <2>1
  <2>3. step[k] = [x \in X |-> Add(x, rrs[k], budget)]
    OBVIOUS
  <2> HIDE DEF X, n, step
  <2> QED BY <1>3, <2>2, <2>3
<1> HIDE DEF n, X, step
<1>5. Fills(rrs, budget, f)
  <2>1. \A k \in 0..n : f[k] = IF k = 0 THEN NoneYet ELSE Add(f[k - 1], rrs[k], budget)
    BY <1>1, <1>3, <1>4
  <2>2. f = [k \in 0..n |-> f[k]]
    OBVIOUS
  <2>3. f = [k \in 0..n |-> IF k = 0 THEN NoneYet ELSE Add(f[k - 1], rrs[k], budget)]
    BY <2>1, <2>2
  <2> QED BY <2>3 DEF Fills, n
<1> DEFINE h == FillOf(rrs, budget)
<1>6. Fills(rrs, budget, h)
  BY <1>5 DEF FillOf
<1> HIDE DEF h
<1>7. h = [k \in 0..n |-> IF k = 0 THEN NoneYet ELSE Add(h[k - 1], rrs[k], budget)]
  BY <1>6 DEF Fills, n
<1>8. \A k \in 0..n : h[k] = IF k = 0 THEN NoneYet ELSE Add(h[k - 1], rrs[k], budget)
  BY <1>7
<1>9. 0 \in 0..n /\ \A k \in 1..n : k \in 0..n /\ k # 0
  BY <1>1
<1>10. h[0] = NoneYet
  BY <1>8, <1>9, Zenon
<1>11. \A k \in 1..n : h[k] = Add(h[k - 1], rrs[k], budget)
  BY <1>8, <1>9, Zenon
<1> QED BY <1>10, <1>11 DEF h, n

\* What batch does with one record.
LEMMA AddFields ==
  ASSUME NEW R, NEW b \in Batch(R), NEW rr, NEW budget
  PROVE  /\ b.current # <<>> /\ b.size + rr.size > budget =>
              /\ Add(b, rr, budget).out = Append(b.out, b.current)
              /\ Add(b, rr, budget).current = <<rr>> /\ Add(b, rr, budget).size = rr.size
         /\ ~(b.current # <<>> /\ b.size + rr.size > budget) =>
              /\ Add(b, rr, budget).out = b.out
              /\ Add(b, rr, budget).current = Append(b.current, rr) /\ Add(b, rr, budget).size = b.size + rr.size
BY DEF Add, Batch

\* A record that fits joins the envelope, one that does not opens the next.
LEMMA AddBatches ==
  ASSUME NEW R, \A r \in R : r.size \in Nat, NEW rrs \in Seq(R), NEW budget \in Int,
         NEW k \in Nat, k + 1 <= Len(rrs), NEW b \in Batch(R), Batched(b, rrs, k, budget)
  PROVE  Batched(Add(b, rrs[k + 1], budget), rrs, k + 1, budget)
<1> DEFINE rr == rrs[k + 1]
<1> DEFINE c == Add(b, rr, budget)
<1> DEFINE before == SubSeq(rrs, 1, k)
<1>1. b.out \in Seq(Seq(R)) /\ b.current \in Seq(R) /\ b.size \in Nat
  BY DEF Batch
<1>2. rr \in R /\ rr.size \in Nat /\ before \in Seq(R)
  OBVIOUS
<1>3. SubSeq(rrs, 1, k + 1) = Append(before, rr)
  OBVIOUS
<1>4. FlattenSeq(b.out) \in Seq(R) /\ FlattenSeq(Append(b.out, b.current)) = FlattenSeq(b.out) \o b.current
  BY <1>1, FlattenAppend
<1>5. FlattenSeq(b.out) \o b.current = before /\ b.size = Size(b.current)
  BY DEF Batched
<1>6. Size(b.current) \in Nat /\ Size(Append(b.current, rr)) = Size(b.current) + rr.size
  BY <1>1, <1>2, SizeAppend
<1>7. Size(<<rr>>) = rr.size
  <2>1. <<>> \in Seq(R) /\ Append(<<>>, rr) = <<rr>>
    BY <1>2
  <2>2. Size(Append(<<>>, rr)) = Size(<<>>) + rr.size
    BY <1>2, <2>1, SizeAppend
  <2> QED BY <1>2, <2>1, <2>2, SizeOfNone
<1> HIDE DEF rr, before
<1>8. CASE b.current # <<>> /\ b.size + rr.size > budget
  <2>1. c.out = Append(b.out, b.current) /\ c.current = <<rr>> /\ c.size = rr.size
    BY <1>8, AddFields
  <2> HIDE DEF c
  <2>2. FlattenSeq(c.out) \o c.current = Append(before, rr)
    <3>1. \A s \in Seq(R) : s \o <<rr>> = Append(s, rr)
      BY <1>2
    <3>2. FlattenSeq(c.out) = before
      BY <1>4, <1>5, <2>1
    <3> QED BY <1>2, <2>1, <3>1, <3>2
  <2>3. \A i \in DOMAIN c.out : Fits(c.out[i], budget)
    <3> DEFINE E == Seq(R)
    <3>1. b.out \in Seq(E) /\ b.current \in E
      BY <1>1
    <3>2. Fits(b.current, budget) /\ \A i \in DOMAIN b.out : Fits(b.out[i], budget)
      BY <1>8 DEF Batched
    <3> HIDE DEF E
    <3> QED BY <2>1, <3>1, <3>2
  <2>4. Fits(c.current, budget)
    BY <2>1 DEF Fits
  <2> QED BY <1>3, <1>7, <2>1, <2>2, <2>3, <2>4 DEF Batched, c, rr
<1>9. CASE ~(b.current # <<>> /\ b.size + rr.size > budget)
  <2>1. c.out = b.out /\ c.current = Append(b.current, rr) /\ c.size = b.size + rr.size
    BY <1>9, AddFields
  <2> HIDE DEF c
  <2>2. FlattenSeq(c.out) \o c.current = Append(before, rr)
    <3>1. \A s, t \in Seq(R) : s \o Append(t, rr) = Append(s \o t, rr)
      BY <1>2
    <3> QED BY <1>1, <1>4, <1>5, <2>1, <3>1
  <2>3. \A i \in DOMAIN c.out : Fits(c.out[i], budget)
    BY <2>1 DEF Batched
  <2>4. Fits(c.current, budget)
    <3>1. CASE b.current = <<>>
      BY <1>2, <2>1, <3>1 DEF Fits
    <3>2. CASE b.current # <<>>
      <4>1. Size(c.current) <= budget
        BY <1>2, <1>5, <1>6, <1>9, <2>1, <3>2
      <4>2. c.current # <<>>
        <5>1. Len(Append(b.current, rr)) = Len(b.current) + 1 /\ Len(b.current) \in Nat
          BY <1>1, <1>2
        <5>2. Len(c.current) # 0
          BY <2>1, <5>1
        <5> QED BY <5>2
      <4> QED BY <4>1, <4>2 DEF Fits
    <3> QED BY <3>1, <3>2
  <2>5. c.size = Size(c.current)
    BY <1>5, <1>6, <2>1
  <2> QED BY <1>3, <2>2, <2>3, <2>4, <2>5 DEF Batched, c, rr
<1> QED BY <1>8, <1>9

\* batch loses no record, changes no order and fills no envelope past its budget.
LEMMA BatchCarries ==
  ASSUME NEW R, \A r \in R : r.size \in Nat, NEW rrs \in Seq(R), NEW budget \in Int
  PROVE  /\ FlattenSeq(batch(rrs, budget)) = rrs /\ batch(rrs, budget) \in Seq(Seq(R))
         /\ \A i \in DOMAIN batch(rrs, budget) : Fits(batch(rrs, budget)[i], budget)
<1> DEFINE h == FillOf(rrs, budget)
<1> DEFINE n == Len(rrs)
<1>1. n \in Nat /\ h[0] = NoneYet /\ \A k \in 1..n : h[k] = Add(h[k - 1], rrs[k], budget)
  BY FillIs
<1> DEFINE S == {k \in Nat : k <= n => h[k] \in Batch(R) /\ Batched(h[k], rrs, k, budget)}
<1>2. 0 \in S
  <2>1. NoneYet \in Batch(R)
    BY DEF NoneYet, Batch
  <2>2. Batched(NoneYet, rrs, 0, budget)
    <3>1. FlattenSeq(<<>>) = <<>>
      BY DEF FlattenSeq
    <3>2. SubSeq(rrs, 1, 0) = <<>> /\ <<>> \o <<>> = <<>>
      OBVIOUS
    <3>3. NoneYet.out = <<>> /\ NoneYet.current = <<>> /\ NoneYet.size = 0
      BY DEF NoneYet
    <3>4. DOMAIN NoneYet.out = {}
      BY <3>3
    <3>5. FlattenSeq(NoneYet.out) \o NoneYet.current = SubSeq(rrs, 1, 0)
      BY <3>1, <3>2, <3>3
    <3>6. NoneYet.size = Size(NoneYet.current)
      BY <3>3, SizeOfNone
    <3> QED BY <3>3, <3>4, <3>5, <3>6 DEF Batched
  <2> QED BY <1>1, <2>1, <2>2
<1>3. ASSUME NEW k \in Nat, k \in S PROVE k + 1 \in S
  <2> SUFFICES ASSUME k + 1 <= n PROVE h[k + 1] \in Batch(R) /\ Batched(h[k + 1], rrs, k + 1, budget)
    OBVIOUS
  <2>1. h[k] \in Batch(R) /\ Batched(h[k], rrs, k, budget)
    BY <1>1, <1>3
  <2>2. h[k + 1] = Add(h[k], rrs[k + 1], budget) /\ rrs[k + 1] \in R
    <3>1. k + 1 \in 1..n /\ (k + 1) - 1 = k
      BY <1>1
    <3>2. rrs[k + 1] \in R
      BY <3>1
    <3> HIDE DEF h, n
    <3>3. h[k + 1] = Add(h[(k + 1) - 1], rrs[k + 1], budget)
      BY <1>1, <3>1
    <3> QED BY <3>1, <3>2, <3>3
  <2> HIDE DEF h
  <2> QED BY <2>1, <2>2, AddType, AddBatches
<1>4. h[n] \in Batch(R) /\ Batched(h[n], rrs, n, budget)
  <2>1. n \in S
    <3> HIDE DEF S
    <3> QED BY <1>1, <1>2, <1>3, Induction
  <2> QED BY <1>1, <2>1
<1> DEFINE end == h[n]
<1>5. batch(rrs, budget) = IF end.current = <<>> THEN end.out ELSE Append(end.out, end.current)
  BY DEF batch, FillOf, Fills, NoneYet
<1> HIDE DEF end
<1>6. end.out \in Seq(Seq(R)) /\ end.current \in Seq(R)
  BY <1>4 DEF end, Batch
<1>7. FlattenSeq(end.out) \in Seq(R) /\ FlattenSeq(Append(end.out, end.current)) = FlattenSeq(end.out) \o end.current
  BY <1>6, FlattenAppend
<1>8. SubSeq(rrs, 1, n) = rrs
  OBVIOUS
<1>9. /\ FlattenSeq(end.out) \o end.current = rrs /\ (end.current # <<>> => Fits(end.current, budget))
      /\ \A i \in DOMAIN end.out : Fits(end.out[i], budget)
  BY <1>4, <1>8 DEF end, Batched
<1>10. CASE end.current = <<>>
  <2>1. FlattenSeq(end.out) = rrs
    BY <1>7, <1>9, <1>10
  <2> QED BY <1>5, <1>6, <1>9, <1>10, <2>1
<1>11. CASE end.current # <<>>
  <2> DEFINE E == Seq(R)
  <2>1. end.out \in Seq(E) /\ end.current \in E
    BY <1>6
  <2> HIDE DEF E
  <2>2. \A i \in DOMAIN Append(end.out, end.current) : Fits(Append(end.out, end.current)[i], budget)
    BY <1>9, <1>11, <2>1
  <2>3. Append(end.out, end.current) \in Seq(E)
    BY <2>1
  <2> QED BY <1>5, <1>7, <1>9, <1>11, <2>2, <2>3 DEF E
<1> QED BY <1>10, <1>11

\* zoneAnswer after the first records of a zone.
Take(rr, out) == IF rr.soa THEN out ELSE Append(out, rr)
Takes(recs, soa, f) == f = [k \in 0..Len(recs) |-> IF k = 0 THEN <<soa>> ELSE Take(recs[k], f[k - 1])]
TakesOf(recs, soa) == CHOOSE f : Takes(recs, soa, f)

\* A record is taken or skipped.
LEMMA TakeType == \A R : \A rr \in R, out \in Seq(R) : Take(rr, out) \in Seq(R)
BY DEF Take

\* The answer is made of the zone's records and its SOA.
LEMMA AnswerType ==
  ASSUME NEW R, NEW recs \in Seq(R), NEW soa \in R
  PROVE  TakesOf(recs, soa)[Len(recs)] \in Seq(R)
<1> DEFINE n == Len(recs)
<1> DEFINE X == Seq(R)
<1> DEFINE step == [k \in 1..n |-> [x \in X |-> Take(recs[k], x)]]
<1>1. n \in Nat /\ <<soa>> \in X /\ \A k \in 1..n : recs[k] \in R
  OBVIOUS
<1>2. \A k \in 1..n : \A x \in X : Take(recs[k], x) \in X
  BY <1>1, TakeType
<1>3. step \in [1..n -> [X -> X]]
  <2> HIDE DEF X
  <2> QED BY <1>2
<1>4. PICK f \in [0..n -> X] : f[0] = <<soa>> /\ \A k \in 1..n : f[k] = step[k][f[k - 1]]
  <2>1. CanRun(X, <<soa>>, n, step)
    <3> HIDE DEF n, X, step
    <3> QED BY <1>1, <1>3, Iteration
  <2> HIDE DEF n, X, step
  <2> QED BY <2>1 DEF CanRun, Run
<1>5. ASSUME NEW k \in 1..n PROVE f[k] = Take(recs[k], f[k - 1])
  <2>1. k - 1 \in 0..n
    BY <1>1
  <2>2. f[k - 1] \in X
    BY <2>1
  <2>3. step[k] = [x \in X |-> Take(recs[k], x)]
    OBVIOUS
  <2> HIDE DEF X, n, step
  <2> QED BY <1>4, <2>2, <2>3
<1> HIDE DEF step, n, X
<1>6. Takes(recs, soa, f)
  <2>1. \A k \in 0..n : f[k] = IF k = 0 THEN <<soa>> ELSE Take(recs[k], f[k - 1])
    BY <1>1, <1>4, <1>5
  <2>2. f = [k \in 0..n |-> f[k]]
    OBVIOUS
  <2>3. f = [k \in 0..n |-> IF k = 0 THEN <<soa>> ELSE Take(recs[k], f[k - 1])]
    BY <2>1, <2>2
  <2> QED BY <2>3 DEF Takes, n
<1> DEFINE h == TakesOf(recs, soa)
<1>7. Takes(recs, soa, h)
  BY <1>6 DEF TakesOf
<1> HIDE DEF h
<1>8. h = [k \in 0..n |-> IF k = 0 THEN <<soa>> ELSE Take(recs[k], h[k - 1])]
  BY <1>7 DEF Takes, n
<1>9. \A k \in 0..n : h[k] = IF k = 0 THEN <<soa>> ELSE Take(recs[k], h[k - 1])
  BY <1>8
<1> DEFINE S == {k \in Nat : k <= n => h[k] \in X}
<1>10. 0 \in S
  BY <1>1, <1>9
<1>11. ASSUME NEW k \in Nat, k \in S PROVE k + 1 \in S
  <2> SUFFICES ASSUME k + 1 <= n PROVE h[k + 1] \in X
    OBVIOUS
  <2>1. h[k] \in X /\ k + 1 \in 0..n /\ k + 1 \in 1..n /\ k + 1 # 0 /\ (k + 1) - 1 = k
    BY <1>1, <1>11
  <2>2. h[k + 1] = Take(recs[k + 1], h[(k + 1) - 1])
    BY <1>9, <2>1
  <2> QED BY <1>2, <2>1, <2>2
<1>12. n \in S
  <2> HIDE DEF S
  <2> QED BY <1>1, <1>10, <1>11, Induction
<1>13. h[n] \in X
  BY <1>1, <1>12
<1> QED BY <1>13 DEF h, n, X

\* What any transfer streams: the zone, in order, in envelopes that fit.
LEMMA EnvelopesCarry ==
  ASSUME NEW n \in DOMAIN ZoneAt, NEW m \in DOMAIN QuestionAt
  PROVE  LET envs == Envelopes[n][m] IN
         /\ FlattenSeq(envs) = zoneAnswer(ZoneAt[n])
         /\ \A i \in DOMAIN envs :
              Len(envs[i]) = 1 \/ (envs[i] # <<>> /\ Size(envs[i]) + (IF QuestionAt[m].tsig = "good" THEN SigSize ELSE 0) <= Target)
<1> DEFINE z == ZoneAt[n]
<1> DEFINE R == Range(z.recs) \cup {SOA(z)}
<1> DEFINE rrs == zoneAnswer(z)
<1> DEFINE sig == IF QuestionAt[m].tsig = "good" THEN SigSize ELSE 0
<1> DEFINE budget == Target - sig
<1> DEFINE envs == batch(rrs, budget)
<1>1. Envelopes[n][m] = envs
  BY DEF Envelopes, envelopeBudget, requestTSIG
<1>2. sig \in Nat /\ Target \in Nat /\ budget \in Int
  BY TransferAssumption
<1>3. z.recs \in Seq(Range(z.recs)) /\ \A i \in DOMAIN z.recs : z.recs[i].size \in Nat
  BY TransferAssumption
<1>4. \A r \in R : r.size \in Nat
  BY <1>3 DEF Range, SOA
<1>5. rrs \in Seq(R)
  <2>1. z.recs \in Seq(R) /\ SOA(z) \in R
    BY <1>3
  <2>2. rrs = Append(TakesOf(z.recs, SOA(z))[Len(z.recs)], SOA(z))
    BY DEF zoneAnswer, TakesOf, Takes, Take
  <2> HIDE DEF R, z, rrs
  <2>3. TakesOf(z.recs, SOA(z))[Len(z.recs)] \in Seq(R)
    BY <2>1, AnswerType
  <2> QED BY <2>1, <2>2, <2>3
<1> HIDE DEF R, rrs, budget, sig
<1>6. /\ FlattenSeq(envs) = rrs /\ envs \in Seq(Seq(R))
      /\ \A i \in DOMAIN envs : Fits(envs[i], budget)
  BY <1>2, <1>4, <1>5, BatchCarries
<1> HIDE DEF envs
<1>7. ASSUME NEW i \in DOMAIN envs PROVE Len(envs[i]) = 1 \/ (envs[i] # <<>> /\ Size(envs[i]) + sig <= Target)
  <2> DEFINE E == Seq(R)
  <2>1. envs \in Seq(E)
    BY <1>6
  <2>2. envs[i] \in E
    <3> HIDE DEF E
    <3> QED BY <2>1
  <2>3. Sized(envs[i])
    BY <1>4, <2>2 DEF Sized
  <2>4. Size(envs[i]) \in Nat
    BY <2>3, SizeIs DEF Sized
  <2> QED BY <1>2, <1>6, <2>4 DEF Fits, budget
<1> QED BY <1>1, <1>6, <1>7 DEF rrs, sig

\* Whatever the zone and whoever asks, the envelopes of a transfer that runs
\* are together the zone it was admitted for, in order, and each fits with its
\* signature unless it holds a single record (batch, zoneAnswer).
THEOREM EnvelopesAreTheZone == Spec => []EnvelopesCarryTheZone
<1>1. ASSUME ServerInv PROVE EnvelopesCarryTheZone
  <2> SUFFICES ASSUME NEW c \in Conns, conn[c].pc \in {"stream", "stop"}
               PROVE  LET envs == Envelopes[conn[c].zone][conn[c].q] IN
                      /\ FlattenSeq(envs) = zoneAnswer(ZoneOf(c))
                      /\ \A i \in DOMAIN envs : Len(envs[i]) = 1 \/
                           (envs[i] # <<>> /\ Size(envs[i]) + (IF QuestionOf(c).tsig = "good" THEN SigSize ELSE 0) <= Target)
    BY DEF EnvelopesCarryTheZone
  <2>1. conn[c].zone \in DOMAIN ZoneAt /\ conn[c].q \in DOMAIN QuestionAt
    BY <1>1 DEF ServerInv, ConnInv, ConnState, Placed
  <2> QED BY <2>1, EnvelopesCarry DEF ZoneOf, QuestionOf
<1> QED BY ServerAlways, <1>1, PTL
=============================================================================
