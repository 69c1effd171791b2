--------------------------- MODULE TransferServer ---------------------------
(***************************************************************************)
(* Serving AXFR and IXFR (zones/transferserver.go, zones/acl.go,           *)
(* dnssrv/transfers.go).                                                   *)
(*                                                                         *)
(* Every request is decided against the zone in the snapshot of that       *)
(* moment, and keeps that zone while reloads replace the snapshot.  A      *)
(* transfer takes one of a few slots, renders the whole zone, and streams  *)
(* it in envelopes to a peer that may stop reading or go away; a watchdog  *)
(* closes the connection when the time is up.  Outcomes are noted on the   *)
(* zone row, at most one of a kind in a window.                            *)
(***************************************************************************)
EXTENDS Serial, Sequences, SequencesExt, FiniteSetsExt

CONSTANTS
  Conns,          \* connections, numbered
  Cap,            \* DefaultMaxConcurrentTransfers
  Target,         \* envelopeTargetBytes, less what every message carries
  SigSize,        \* what a signature takes of that
  Replicas,       \* the registered replicas: the sync key and their addresses
  ZoneAt,         \* the zone each number stands for
  QuestionAt,     \* the question each number stands for: see decide
  StartZones,     \* what may be served at first
  None,
  MaxAsks, MaxReloads, MaxFaults   \* bounds

\* What requestTSIG and the server's verification can find of a signature.
Signatures == {"unsigned", "good", "badkey", "badsig", "badtime", "unchecked"}
\* Why a request is refused: the gate's verdicts, the limit, a record that will not render.
Refusals == {"notauth", "servfail", "refused", "notimp", "full", "broken"}

ASSUME TransferAssumption ==
  /\ Conns \subseteq Nat /\ Cap \in Nat \ {0} /\ Target \in Nat /\ SigSize \in Nat
  /\ StartZones \subseteq DOMAIN ZoneAt
  /\ {MaxAsks, MaxReloads, MaxFaults} \subseteq Nat
  /\ None \notin DOMAIN ZoneAt /\ None \notin DOMAIN QuestionAt /\ None \notin Refusals
  /\ \A n \in DOMAIN ZoneAt : LET rs == ZoneAt[n].recs IN
       rs \in Seq(Range(rs)) /\ \A i \in DOMAIN rs : rs[i].size \in Nat
  /\ \A n \in DOMAIN QuestionAt : LET q == QuestionAt[n] IN
       q.tsig \in Signatures /\ (q.tsig = "good" => q.key # None)

VARIABLES
  snap,      \* the number of the zone in the served snapshot
  slots,     \* how many slots are taken
  conn,      \* where every connection is
  lastNote,  \* the last outcome and whether transferStateThrottle has not passed, None before there is one
  noted,     \* last_xfr_error: whether the row says "served"
  left       \* what is left of the bounds

vars == <<snap, slots, conn, lastNote, noted, left>>

Spend(what) == left[what] > 0 /\ left' = [left EXCEPT ![what] = @ - 1]
\* A connection between two questions.
Idle == [pc |-> "idle", q |-> None, zone |-> None, sent |-> 0, refused |-> None, served |-> FALSE, tell |-> FALSE,
         dog |-> "off"]
ZoneOf(c) == ZoneAt[conn[c].zone]
QuestionOf(c) == QuestionAt[conn[c].q]

-----------------------------------------------------------------------------
(* The gate.                                                               *)

\* ACLAllows: an entry is an address or a key, and an empty key matches none.
ACLAllows(acl, peer, key) == peer \in acl \/ (key # None /\ key \in acl)

\* replicaMayPull: a registered replica, on the strength of the sync key.
replicaMayTransfer(key, peer) == <<key, peer>> \in Replicas
replicaMayPull(z, peer, key) == key # None /\ z.type = "primary" /\ replicaMayTransfer(key, peer)

\* Mutant: the replica clause takes the key a request names, verified or not.
decideUnverified(q, z) ==
  IF z.there /\ z.enabled /\ replicaMayPull(z, q.peer, q.key) THEN "ok"
  ELSE IF ~z.there \/ ~z.enabled \/ z.type \notin {"primary", "secondary"} THEN "notauth"
  ELSE IF z.type = "secondary" /\ ~z.serving THEN "servfail"
  ELSE IF z.acl # None /\ ACLAllows(z.acl, q.peer, IF q.tsig = "good" THEN q.key ELSE None) THEN "ok" ELSE "refused"

\* decide: the first rule that refuses, or "ok".  An ACL that does not parse is None.
decide(q, z) ==
  IF ~z.there \/ ~z.enabled \/ z.type \notin {"primary", "secondary"} THEN "notauth"
  ELSE IF z.type = "secondary" /\ ~z.serving THEN "servfail"
  ELSE IF q.tsig \in {"badkey", "badsig", "badtime"} THEN "notauth"
  ELSE IF q.tsig = "unchecked" THEN "servfail"
  ELSE LET key == IF q.tsig = "unsigned" THEN None ELSE q.key IN
       IF z.acl # None /\ (ACLAllows(z.acl, q.peer, key) \/ replicaMayPull(z, q.peer, key)) THEN "ok" ELSE "refused"

\* An IXFR whose client is not behind is answered with the serial.
NotBehind(q, z) == q.ixfr /\ q.serial # None /\ ~SerialNewer(z.serial, q.serial)

Init ==
  /\ snap \in StartZones
  /\ slots = 0 /\ conn = [c \in Conns |-> Idle]
  /\ lastNote = None /\ noted = None
  /\ left = [asks |-> MaxAsks, reloads |-> MaxReloads, faults |-> MaxFaults]

\* A reload replaces what is served, or a secondary's data expires.
Reload ==
  /\ Spend("reloads")
  /\ snap' \in DOMAIN ZoneAt \ {snap}
  /\ UNCHANGED <<slots, conn, lastNote, noted>>

\* transferStateThrottle passes.
Tick ==
  /\ lastNote # None /\ lastNote.fresh
  /\ lastNote' = [lastNote EXCEPT !.fresh = FALSE]
  /\ UNCHANGED <<snap, slots, conn, noted, left>>

Ask(c) ==
  /\ conn[c].pc = "idle" /\ \A d \in Conns : conn[d].pc = "idle" => c <= d
  /\ Spend("asks")
  /\ \E q \in DOMAIN QuestionAt : conn' = [conn EXCEPT ![c] = [Idle EXCEPT !.pc = "decide", !.q = q]]
  /\ UNCHANGED <<snap, slots, lastNote, noted>>

\* The zone is looked up once, and this connection keeps it.
Lookup(c) ==
  /\ conn[c].pc = "decide"
  /\ conn' = [conn EXCEPT ![c].pc = "gate", ![c].zone = snap]
  /\ UNCHANGED <<snap, slots, lastNote, noted, left>>

\* refuse: noted against the zone it is about, unless it came by datagram.
Refused(r, why) ==
  [r EXCEPT !.refused = why, !.served = FALSE, !.pc = IF ZoneAt[r.zone].there /\ ~QuestionAt[r.q].udp THEN "note" ELSE "answer"]

\* serve, down to the slot.  AXFR is not defined over UDP.
Gate(c) ==
  /\ conn[c].pc = "gate"
  /\ LET r == conn[c]
         q == QuestionOf(c)
         verdict == IF q.udp /\ ~q.ixfr /\ decide(q, ZoneOf(c)) = "ok" THEN "notimp" ELSE decide(q, ZoneOf(c))
     IN conn' = [conn EXCEPT ![c] =
          CASE verdict # "ok" -> Refused(r, verdict)
            [] verdict = "ok" /\ q.udp -> [r EXCEPT !.pc = "answer", !.tell = TRUE]
            [] verdict = "ok" /\ ~q.udp /\ NotBehind(q, ZoneOf(c)) ->
                 [r EXCEPT !.pc = "note", !.served = TRUE, !.tell = TRUE]
            [] OTHER -> [r EXCEPT !.pc = "slot"]]
  /\ UNCHANGED <<snap, slots, lastNote, noted, left>>

-----------------------------------------------------------------------------
(* The transfer.                                                           *)

\* A slot is taken or not: nobody waits for one.
TakeSlot(c) ==
  /\ conn[c].pc = "slot" /\ slots < Cap
  /\ slots' = slots + 1
  /\ conn' = [conn EXCEPT ![c].pc = "render"]
  /\ UNCHANGED <<snap, lastNote, noted, left>>

AtLimit(c) ==
  /\ conn[c].pc = "slot" /\ slots = Cap
  /\ conn' = [conn EXCEPT ![c] = Refused(@, "full")]
  /\ UNCHANGED <<snap, slots, lastNote, noted, left>>

\* zoneAnswer: the zone's own SOA first and last; an SOA among the records
\* is skipped.  A record is [size, soa, bad].
SOA(z) == [apex |-> z.serial, size |-> 1]
zoneAnswer(z) ==
  LET out[k \in 0..Len(z.recs)] ==
        IF k = 0 THEN <<SOA(z)>> ELSE IF z.recs[k].soa THEN out[k - 1] ELSE Append(out[k - 1], z.recs[k])
  IN Append(out[Len(z.recs)], SOA(z))

\* requestTSIG: a reply is signed only under a key that verified.
requestTSIG(q) == q.tsig = "good"
envelopeBudget(q) == Target - (IF requestTSIG(q) THEN SigSize ELSE 0)

\* What records take of an envelope (dns.Len).
Size(rrs) == LET sum[k \in 0..Len(rrs)] == IF k = 0 THEN 0 ELSE sum[k - 1] + rrs[k].size IN sum[Len(rrs)]

\* Mutant: the record that does not fit is left out of the next envelope.
AddDrops(b, rr, budget) ==
  IF b.current # <<>> /\ b.size + rr.size > budget
  THEN [out |-> Append(b.out, b.current), current |-> <<>>, size |-> 0]
  ELSE [out |-> b.out, current |-> Append(b.current, rr), size |-> b.size + rr.size]

\* An envelope is closed when the next record would not fit; one that is too
\* large by itself travels alone.
Add(b, rr, budget) ==
  IF b.current # <<>> /\ b.size + rr.size > budget
  THEN [out |-> Append(b.out, b.current), current |-> <<rr>>, size |-> rr.size]
  ELSE [out |-> b.out, current |-> Append(b.current, rr), size |-> b.size + rr.size]

\* batch: the records, one after the other.
batch(rrs, budget) ==
  LET fill[k \in 0..Len(rrs)] ==
        IF k = 0 THEN [out |-> <<>>, current |-> <<>>, size |-> 0] ELSE Add(fill[k - 1], rrs[k], budget)
      end == fill[Len(rrs)]
  IN IF end.current = <<>> THEN end.out ELSE Append(end.out, end.current)

Envelopes ==
  [n \in DOMAIN ZoneAt |->
     [m \in DOMAIN QuestionAt |-> batch(zoneAnswer(ZoneAt[n]), envelopeBudget(QuestionAt[m]))]]
Rest(c) == Len(Envelopes[conn[c].zone][conn[c].q]) - conn[c].sent
Broken(z) == \E i \in DOMAIN z.recs : z.recs[i].bad /\ ~z.recs[i].soa

\* A record that will not render gives the slot back before the refusal.
Render(c) ==
  /\ conn[c].pc = "render"
  /\ IF Broken(ZoneOf(c))
     THEN slots' = slots - 1 /\ conn' = [conn EXCEPT ![c] = Refused(@, "broken")]
     ELSE conn' = [conn EXCEPT ![c].pc = "stream", ![c].dog = "armed"] /\ UNCHANGED slots
  /\ UNCHANGED <<snap, lastNote, noted, left>>

\* stream: one envelope.  A peer that has stopped reading blocks the write.
Send(c) ==
  /\ conn[c].pc = "stream" /\ conn[c].dog # "closed"
  /\ Rest(c) > 0 /\ conn[c].sent < QuestionOf(c).reads
  /\ conn' = [conn EXCEPT ![c].sent = @ + 1]
  /\ UNCHANGED <<snap, slots, lastNote, noted, left>>

Sent(c) ==
  /\ conn[c].pc = "stream" /\ Rest(c) = 0
  /\ conn' = [conn EXCEPT ![c].pc = "stop", ![c].served = TRUE]
  /\ UNCHANGED <<snap, slots, lastNote, noted, left>>

\* The time is up, as seen before an envelope, or as the closed connection
\* of a write that was blocked.
OutOfTime(c) ==
  /\ conn[c].pc = "stream" /\ Rest(c) > 0
  /\ conn[c].dog = "closed" \/ (conn[c].dog = "fired" /\ conn[c].sent < QuestionOf(c).reads)
  /\ conn' = [conn EXCEPT ![c].pc = "stop"]
  /\ UNCHANGED <<snap, slots, lastNote, noted, left>>

\* The peer goes away: a write fails.
PeerGone(c) ==
  /\ conn[c].pc = "stream" /\ Rest(c) > 0 /\ Spend("faults")
  /\ conn' = [conn EXCEPT ![c].pc = "stop"]
  /\ UNCHANGED <<snap, slots, lastNote, noted>>

\* watchStalledWrite: TransferTimeout passes and the watchdog closes the connection.
Fire(c) ==
  /\ conn[c].dog = "armed"
  /\ conn' = [conn EXCEPT ![c].dog = "fired"]
  /\ UNCHANGED <<snap, slots, lastNote, noted, left>>

\* Mutant: only the deadline of the next envelope is left to end a transfer.
CloseStalledNot(c) ==
  /\ conn[c].dog = "fired"
  /\ conn' = [conn EXCEPT ![c].dog = "off"]
  /\ UNCHANGED <<snap, slots, lastNote, noted, left>>

CloseStalled(c) ==
  /\ conn[c].dog = "fired"
  /\ conn' = [conn EXCEPT ![c].dog = "closed"]
  /\ UNCHANGED <<snap, slots, lastNote, noted, left>>

\* What is left of a connection when the handler returns.
Returned(r) == [Idle EXCEPT !.dog = IF r.dog = "fired" THEN "fired" ELSE "off"]

\* The watchdog is told to stop; a transfer that broke off is not noted.
Stopped(r) ==
  LET told == [r EXCEPT !.dog = IF r.dog = "armed" THEN "off" ELSE r.dog] IN
  IF told.served THEN [told EXCEPT !.pc = "note"] ELSE Returned(told)

\* Mutant: the watchdog is told to stop, and not waited for.
StopNoWait(c) ==
  /\ conn[c].pc = "stop"
  /\ slots' = slots - 1
  /\ conn' = [conn EXCEPT ![c] = Stopped(conn[c])]
  /\ UNCHANGED <<snap, lastNote, noted, left>>

\* The watchdog is stopped, or waited for when it is already closing, and the
\* slot goes back.
Stop(c) ==
  /\ conn[c].pc = "stop" /\ conn[c].dog # "fired"
  /\ slots' = slots - 1
  /\ conn' = [conn EXCEPT ![c] = Stopped(conn[c])]
  /\ UNCHANGED <<snap, lastNote, noted, left>>

-----------------------------------------------------------------------------
(* The record of the outcome, and the answer.                              *)

\* note, under mu: a change of kind is always written.
Note(c) ==
  /\ conn[c].pc = "note"
  /\ LET served == conn[c].served
         write == lastNote = None \/ lastNote.served # served \/ ~lastNote.fresh
     IN /\ lastNote' = IF write THEN [fresh |-> TRUE, served |-> served] ELSE lastNote
        /\ conn' = [conn EXCEPT ![c].pc = IF write THEN "write" ELSE "answer"]
  /\ UNCHANGED <<snap, slots, noted, left>>

\* NoteTransferRequest, after mu is let go.
WriteNote(c) ==
  /\ conn[c].pc = "write"
  /\ noted' = conn[c].served
  /\ conn' = [conn EXCEPT ![c].pc = "answer"]
  /\ UNCHANGED <<snap, slots, lastNote, left>>

\* A failed write is logged.
WriteNoteFails(c) ==
  /\ conn[c].pc = "write" /\ Spend("faults")
  /\ conn' = [conn EXCEPT ![c].pc = "answer"]
  /\ UNCHANGED <<snap, slots, lastNote, noted>>

\* writeRefusal, answerSOAOnly, or nothing after a served transfer: the handler returns.
Answer(c) ==
  /\ conn[c].pc = "answer"
  /\ conn' = [conn EXCEPT ![c] = Returned(@)]
  /\ UNCHANGED <<snap, slots, lastNote, noted, left>>

Serve(c) ==
  \/ Lookup(c) \/ Gate(c) \/ TakeSlot(c) \/ AtLimit(c) \/ Render(c) \/ Send(c) \/ Sent(c) \/ OutOfTime(c)
  \/ Stop(c) \/ Note(c) \/ WriteNote(c) \/ Answer(c)
Watchdog(c) == Fire(c) \/ CloseStalled(c)

Next ==
  \/ Reload \/ Tick
  \/ \E c \in Conns : Ask(c) \/ Serve(c) \/ Watchdog(c) \/ PeerGone(c) \/ WriteNoteFails(c)

\* A handler runs while it can, and time passes for a transfer that does not end.
Fairness == \A c \in Conns : WF_vars(Serve(c)) /\ WF_vars(Watchdog(c))
Spec == Init /\ [][Next]_vars /\ Fairness

-----------------------------------------------------------------------------
(* Properties.                                                             *)

\* Types; the slots taken stay between none and the limit (acquire, release).
TypeOK ==
  /\ slots \in 0..Cap
  /\ \A c \in Conns : conn[c].dog \in {"off", "armed", "fired", "closed"}
  /\ noted \in {None} \cup BOOLEAN

\* batch: the envelopes of a transfer that runs are together the zone it was
\* admitted for, in order, each with its signature within the target unless it holds a single record.
EnvelopesCarryTheZone ==
  \A c \in Conns : conn[c].pc \in {"stream", "stop"} =>
    LET envs == Envelopes[conn[c].zone][conn[c].q] IN
    /\ FlattenSeq(envs) = zoneAnswer(ZoneOf(c))
    /\ \A i \in DOMAIN envs : Len(envs[i]) = 1 \/ (envs[i] # <<>> /\ Size(envs[i]) + (IF QuestionOf(c).tsig = "good" THEN SigSize ELSE 0) <= Target)

\* watchStalledWrite's stop waits for a close that has begun: the server may
\* hand the connection on once the handler has returned.
NoLateClose == \A c \in Conns : conn[c].pc \in {"idle", "note", "write", "answer"} => conn[c].dog \notin {"armed", "fired"}

\* Nobody waits for a slot and no peer holds one for ever: every request is over
\* at some point. The watchdog covers the streamed envelopes; a refusal is one
\* small write without it, and ends when the peer reads it or hangs up.
EveryAskEnds == \A c \in Conns : conn[c].pc # "idle" ~> conn[c].pc = "idle"

\* The rule of section 9.5.5, without its order.
Entitled(qn, zn) == LET q == QuestionAt[qn] z == ZoneAt[zn] IN
  /\ z.there /\ z.enabled /\ z.type \in {"primary", "secondary"} /\ (z.type = "secondary" => z.serving)
  /\ q.tsig \in {"unsigned", "good"} /\ z.acl # None /\ ~(q.udp /\ ~q.ixfr)
  /\ \/ q.peer \in z.acl
     \/ q.tsig = "good" /\ (q.key \in z.acl \/ (z.type = "primary" /\ <<q.key, q.peer>> \in Replicas))

\* A datagram has room for the serial only, and a client that is not behind
\* needs no more.
Current(qn, zn) ==
  QuestionAt[qn].udp \/ (QuestionAt[qn].serial # None /\ ~SerialNewer(ZoneAt[zn].serial, QuestionAt[qn].serial))
SerialOf(zn) == ZoneAt[zn].serial
Unsendable(zn) == \E i \in DOMAIN ZoneAt[zn].recs : ZoneAt[zn].recs[i].bad

Holds(c) == conn[c].pc \in {"render", "stream", "stop"}

\* What the peer has by now: a refusal or a serial once that is decided, the
\* zone when the closing SOA has arrived.
Reply(c) ==
  LET r == conn[c] IN
  IF r.refused # None THEN [refused |-> IF r.refused \in {"full", "broken"} THEN r.refused ELSE "no"]
  ELSE IF r.tell THEN [serial |-> ZoneOf(c).serial]
  ELSE IF r.sent > 0 /\ Rest(c) = 0 THEN [zone |-> r.zone] ELSE None

Service == INSTANCE TransferService WITH
  Zones <- DOMAIN ZoneAt, Questions <- DOMAIN QuestionAt, NoReply <- None, NoZone <- None,
  zone <- snap, running <- {c \in Conns : Holds(c)},
  asked <- [c \in Conns |-> conn[c].q], taken <- [c \in Conns |-> conn[c].zone],
  reply <- [c \in Conns |-> Reply(c)]

\* The server implements TransferService: only the entitled are served, each
\* gets one moment's zone whole or not at all, whatever reloads, stalls and
\* broken connections do, and the limit holds and is given back.
Implements == Service!ASpec
=============================================================================
