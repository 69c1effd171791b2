------------------------- MODULE NotifyServerProofs -------------------------
(***************************************************************************)
(* What inbound NOTIFY guarantees for any number of handlers and workers,  *)
(* any serial space and any history of edits: types, that nothing is       *)
(* running or ever started once Run has returned, that the copy never goes *)
(* back, and that what the zone was told of it holds once nothing runs.    *)
(***************************************************************************)
EXTENDS NotifyServer, TLAPS

-----------------------------------------------------------------------------
(* Serial arithmetic as zones/serial.go does it, for any even serial       *)
(* space.  The proofs measure a serial by how far it lies behind a newest  *)
(* one, Forward(newest, s); SerialNewer is the order of those distances as *)
(* long as they stay below half the space.                                 *)

\* The remainder of a number that one turn brings into range.
LEMMA Turn ==
  /\ \A x \in Int : 0 <= x /\ x < Modulus => x % Modulus = x
  /\ \A x \in Int : -Modulus <= x /\ x < 0 => x % Modulus = x + Modulus
BY ModulusAssumption

\* uint32 subtraction without the remainder (SerialNewer).
LEMMA ForwardIs ==
  \A a, b \in Serials : Forward(a, b) = IF b <= a THEN a - b ELSE a - b + Modulus
<1> SUFFICES ASSUME NEW a \in Serials, NEW b \in Serials
             PROVE  Forward(a, b) = IF b <= a THEN a - b ELSE a - b + Modulus
  OBVIOUS
<1>1. a - b \in Int /\ -Modulus <= a - b /\ a - b < Modulus
  BY ModulusAssumption DEF Serials
<1> QED BY <1>1, Turn, ModulusAssumption DEF Forward, Serials

\* The increment without the remainder (bumpSerialSQL).
LEMMA BumpIs ==
  \A s \in Serials : Bump(s) = IF s = Modulus - 1 THEN 0 ELSE s + 1
<1> SUFFICES ASSUME NEW s \in Serials PROVE Bump(s) = IF s = Modulus - 1 THEN 0 ELSE s + 1
  OBVIOUS
<1>1. CASE s = Modulus - 1
  BY <1>1, ModulusAssumption DEF Bump, Serials
<1>2. CASE s # Modulus - 1
  BY <1>2, Turn, ModulusAssumption DEF Bump, Serials
<1> QED BY <1>1, <1>2

\* The incremented serial stays in the serial space.
LEMMA BumpType == \A s \in Serials : Bump(s) \in Serials
BY BumpIs, ModulusAssumption DEF Serials

\* A distance is less than the serial space, and none from a serial to itself.
LEMMA ForwardType ==
  /\ \A a, b \in Serials : Forward(a, b) \in Nat /\ Forward(a, b) < Modulus
  /\ \A a \in Serials : Forward(a, a) = 0
BY ForwardIs, ModulusAssumption DEF Serials

\* An edit moves the newest serial one further from every other.
LEMMA BumpAges ==
  \A t, s \in Serials : Forward(t, s) < Modulus - 1 => Forward(Bump(t), s) = Forward(t, s) + 1
<1> SUFFICES ASSUME NEW t \in Serials, NEW s \in Serials, Forward(t, s) < Modulus - 1
             PROVE  Forward(Bump(t), s) = Forward(t, s) + 1
  OBVIOUS
<1>1. Forward(Bump(t), s) = IF s <= Bump(t) THEN Bump(t) - s ELSE Bump(t) - s + Modulus
  BY BumpType, ForwardIs
<1>2. Forward(t, s) = IF s <= t THEN t - s ELSE t - s + Modulus
  BY ForwardIs
<1>3. Bump(t) = IF t = Modulus - 1 THEN 0 ELSE t + 1
  BY BumpIs
<1> QED BY <1>1, <1>2, <1>3, ModulusAssumption DEF Serials

\* Of two serials less than half the space behind a third, the one that lies
\* less far behind is the newer.
LEMMA NewerIsLessFarBehind ==
  \A t, a, b \in Serials :
    Forward(t, a) < Modulus \div 2 /\ Forward(t, b) < Modulus \div 2 =>
      (SerialNewer(a, b) <=> Forward(t, a) < Forward(t, b))
<1> SUFFICES ASSUME NEW t \in Serials, NEW a \in Serials, NEW b \in Serials,
                    Forward(t, a) < Modulus \div 2, Forward(t, b) < Modulus \div 2
             PROVE  SerialNewer(a, b) <=> Forward(t, a) < Forward(t, b)
  OBVIOUS
<1> DEFINE h == Modulus \div 2
<1>1. h \in Nat /\ Modulus = 2 * h
  BY ModulusAssumption
<1>2. SerialNewer(a, b) <=> Forward(a, b) # 0 /\ Forward(a, b) < h
  BY DEF SerialNewer
<1> HIDE DEF h
<1>3. Forward(t, a) < h /\ Forward(t, b) < h
  BY DEF h
<1>4. Forward(t, a) = IF a <= t THEN t - a ELSE t - a + Modulus
  BY ForwardIs
<1>5. Forward(t, b) = IF b <= t THEN t - b ELSE t - b + Modulus
  BY ForwardIs
<1>6. Forward(a, b) = IF b <= a THEN a - b ELSE a - b + Modulus
  BY ForwardIs
<1> QED BY <1>1, <1>2, <1>3, <1>4, <1>5, <1>6, ModulusAssumption DEF Serials

\* Equal distances are equal serials.
LEMMA SameDistance ==
  \A t, a, b \in Serials : Forward(t, a) = Forward(t, b) => a = b
BY ForwardIs, ModulusAssumption DEF Serials

-----------------------------------------------------------------------------
(* Types.  install commits what fetch left in got, so TypeOK needs to know *)
(* that a transfer about to install has fetched.                           *)

\* A transfer that is about to install holds a copy with a serial (fetch).
Fetched == \A w \in Transfers : wpc[w] = "install" => got[w] \in Serials

\* The initial state is well typed and nothing is being installed.
LEMMA InitType == Init => TypeOK /\ Fetched
<1> SUFFICES ASSUME Init PROVE TypeOK /\ Fetched
  OBVIOUS
<1>1. theirs \in Serials /\ ours \in Serials /\ edits \in 0..MaxEdits
  BY NotifyAssumption, ModulusAssumption DEF Init, Serials
<1>2. /\ hpc \in [Handlers -> {"idle", "admit", "run", "defer"}]
      /\ hserial \in [Handlers -> Serials \cup {None}]
      /\ wpc \in [Transfers -> {"none", "wait", "claim", "pass", "probe", "refresh", "fetch",
                                "install"}]
      /\ row \in [Transfers -> Serials \cup {None}]
      /\ got \in [Transfers -> Serials \cup {None}]
      /\ Fetched
  BY DEF Init, Fetched
<1>3. late \in [Transfers -> BOOLEAN]
  BY Zenon DEF Init
<1>4. /\ refreshed \in BOOLEAN /\ deferred \in BOOLEAN
      /\ stopped \in BOOLEAN /\ cancelled \in BOOLEAN /\ down \in BOOLEAN
      /\ unseen \in BOOLEAN /\ lost \in BOOLEAN
  BY Zenon DEF Init
<1>5. window \in {"none", "open", "past"} /\ xfer \in Transfers \cup {None}
      /\ told \in Serials \cup {None}
  BY DEF Init
<1> QED BY <1>1, <1>2, <1>3, <1>4, <1>5 DEF TypeOK

\* Every step keeps every variable in its range.
LEMMA NextType == TypeOK /\ Fetched /\ [Next]_vars => TypeOK'
<1> SUFFICES ASSUME TypeOK, Fetched, [Next]_vars PROVE TypeOK'
  OBVIOUS
<1> USE DEF TypeOK, primaryVars, zoneVars, windowVars, lifeVars, workVars, historyVars, WGoto
<1> \A w \in Workers : w \in Transfers
  BY DEF Transfers
<1> Scheduler \in Transfers
  BY DEF Transfers
<1>1. CASE Edit
  <2>1. theirs' \in Serials
    BY <1>1, BumpType DEF Edit
  <2>2. edits' \in 0..MaxEdits
    BY <1>1, NotifyAssumption DEF Edit
  <2> QED BY <1>1, <2>1, <2>2 DEF Edit
<1>2. CASE Elapse
  BY <1>2 DEF Elapse
<1>3. CASE Schedule
  BY <1>3 DEF Schedule
<1>4. CASE Stop \/ stopWork \/ Wait
  BY <1>4 DEF Stop, stopWork, Wait
<1>5. ASSUME NEW h \in Handlers, Receive(h) PROVE TypeOK'
  BY <1>5 DEF Receive
<1>6. ASSUME NEW h \in Handlers, admit(h) PROVE TypeOK'
  <2>1. told' \in Serials \cup {None}
    BY <1>6 DEF admit
  <2>2. CASE window = "open"
    BY <1>6, <2>1, <2>2 DEF admit, Deferred
  <2>3. CASE window # "open"
    <3>1. late' \in [Transfers -> BOOLEAN]
      BY <1>6, <2>3, Zenon DEF admit, Opened
    <3> QED BY <1>6, <2>1, <2>3, <3>1 DEF admit
  <2> QED BY <2>2, <2>3
<1>7. ASSUME NEW h \in Handlers, startWork(h) PROVE TypeOK'
  <2>1. CASE ~stopped /\ Free # {}
    <3>1. PICK w \in Workers : w = CHOOSE f \in Free : TRUE
      BY <2>1 DEF Free
    <3> QED BY <1>7, <2>1, <3>1 DEF startWork
  <2>2. CASE stopped
    BY <1>7, <2>2 DEF startWork
  <2> QED BY <1>7, <2>1, <2>2 DEF startWork
<1>8. ASSUME NEW w \in Workers, waitOutWindow(w) \/ GiveUp(w) PROVE TypeOK'
  BY <1>8 DEF waitOutWindow, GiveUp
<1>9. ASSUME NEW w \in Workers, claimDeferred(w) PROVE TypeOK'
  <2>1. late' \in [Transfers -> BOOLEAN]
    <3>1. CASE deferred
      <4>1. late' = [x \in Transfers |-> x # w /\ wpc[x] \in {"wait", "claim"}]
        BY <1>9, <3>1 DEF claimDeferred, Opened
      <4> QED BY <4>1, Zenon
    <3>2. CASE ~deferred
      BY <1>9, <3>2 DEF claimDeferred
    <3> QED BY <3>1, <3>2
  <2> QED BY <1>9, <2>1 DEF claimDeferred
<1>10. ASSUME NEW w \in Workers, ReadRow(w) PROVE TypeOK'
  BY <1>10 DEF ReadRow
<1>11. ASSUME NEW w \in Workers, ProbeSerial(w) PROVE TypeOK'
  BY <1>11 DEF ProbeSerial
<1>12. ASSUME NEW w \in Transfers, TakeSlot(w) PROVE TypeOK'
  BY <1>12 DEF TakeSlot
<1>13. ASSUME NEW w \in Transfers, fetch(w) PROVE TypeOK'
  BY <1>13 DEF fetch
<1>14. ASSUME NEW w \in Transfers, install(w) PROVE TypeOK'
  BY <1>14 DEF install, Fetched
<1>15. ASSUME NEW w \in Transfers, Fail(w) PROVE TypeOK'
  BY <1>15 DEF Fail
<1>16. CASE UNCHANGED vars
  BY <1>16 DEF vars
<1> QED
  BY <1>1, <1>2, <1>3, <1>4, <1>5, <1>6, <1>7, <1>8, <1>9, <1>10, <1>11, <1>12, <1>13, <1>14,
     <1>15, <1>16 DEF Next

\* Only fetch leads to install, and it leaves the serial of the copy.
LEMMA NextFetched == TypeOK /\ Fetched /\ [Next]_vars => Fetched'
<1> SUFFICES ASSUME TypeOK, Fetched, [Next]_vars PROVE Fetched'
  OBVIOUS
<1> USE DEF TypeOK, Fetched, primaryVars, zoneVars, windowVars, lifeVars, workVars, historyVars,
            WGoto
<1> \A w \in Workers : w \in Transfers
  BY DEF Transfers
<1> Scheduler \in Transfers
  BY DEF Transfers
<1>1. CASE Edit \/ Elapse \/ Stop \/ stopWork \/ Wait
  BY <1>1 DEF Edit, Elapse, Stop, stopWork, Wait
<1>2. CASE Schedule
  BY <1>2 DEF Schedule
<1>3. ASSUME NEW h \in Handlers, Receive(h) \/ admit(h) PROVE Fetched'
  BY <1>3 DEF Receive, admit
<1>4. ASSUME NEW h \in Handlers, startWork(h) PROVE Fetched'
  <2>1. CASE ~stopped /\ Free # {}
    <3>1. PICK w \in Workers : w = CHOOSE f \in Free : TRUE
      BY <2>1 DEF Free
    <3> QED BY <1>4, <2>1, <3>1 DEF startWork
  <2>2. CASE stopped
    BY <1>4, <2>2 DEF startWork
  <2> QED BY <1>4, <2>1, <2>2 DEF startWork
<1>5. ASSUME NEW w \in Workers,
             waitOutWindow(w) \/ GiveUp(w) \/ claimDeferred(w) \/ ReadRow(w) \/ ProbeSerial(w)
      PROVE  Fetched'
  BY <1>5 DEF waitOutWindow, GiveUp, claimDeferred, ReadRow, ProbeSerial
<1>6. ASSUME NEW w \in Transfers, TakeSlot(w) PROVE Fetched'
  BY <1>6 DEF TakeSlot
<1>7. ASSUME NEW w \in Transfers, fetch(w) PROVE Fetched'
  BY <1>7 DEF fetch
<1>8. ASSUME NEW w \in Transfers, install(w) \/ Fail(w) PROVE Fetched'
  BY <1>8 DEF install, Fail
<1>9. CASE UNCHANGED vars
  BY <1>9 DEF vars
<1> QED
  BY <1>1, <1>2, <1>3, <1>4, <1>5, <1>6, <1>7, <1>8, <1>9 DEF Next

\* Inbound NOTIFY is well typed in every reachable state (NotifyServer).
THEOREM TypeCorrect == Spec => []TypeOK
<1>1. TypeOK /\ Fetched /\ [Next]_vars => (TypeOK /\ Fetched)'
  BY NextType, NextFetched
<1> QED
  BY InitType, <1>1, PTL DEF Spec

-----------------------------------------------------------------------------
(* Shutdown.  Run sets stopped before it cancels and cancels before it     *)
(* waits; startWork refuses from the first of the three on.                *)

ShutdownOrder == (cancelled => stopped) /\ (down => cancelled)

\* The order of Run's three steps, and no worker after the last, are kept.
LEMMA NextShutdown ==
  ShutdownOrder /\ NoWorkWhenDown /\ TypeOK /\ [Next]_vars => (ShutdownOrder /\ NoWorkWhenDown)'
<1> SUFFICES ASSUME ShutdownOrder, NoWorkWhenDown, TypeOK, [Next]_vars
             PROVE  (ShutdownOrder /\ NoWorkWhenDown)'
  OBVIOUS
<1> USE DEF ShutdownOrder, NoWorkWhenDown, TypeOK, primaryVars, zoneVars, windowVars, lifeVars,
            workVars, historyVars, WGoto
<1> \A w \in Workers : w \in Transfers
  BY DEF Transfers
<1> Scheduler \in Transfers /\ Scheduler \notin Workers
  BY NotifyAssumption DEF Transfers
<1>1. CASE Edit \/ Elapse \/ Schedule
  BY <1>1 DEF Edit, Elapse, Schedule
<1>2. CASE Stop \/ stopWork \/ Wait
  BY <1>2 DEF Stop, stopWork, Wait
<1>3. ASSUME NEW h \in Handlers, Receive(h) \/ admit(h)
      PROVE  (ShutdownOrder /\ NoWorkWhenDown)'
  BY <1>3 DEF Receive, admit
<1>4. ASSUME NEW h \in Handlers, startWork(h) PROVE (ShutdownOrder /\ NoWorkWhenDown)'
  <2>1. UNCHANGED lifeVars /\ (stopped => UNCHANGED wpc)
    BY <1>4 DEF startWork
  <2> QED BY <2>1
<1>5. ASSUME NEW w \in Workers,
             waitOutWindow(w) \/ GiveUp(w) \/ claimDeferred(w) \/ ReadRow(w) \/ ProbeSerial(w)
      PROVE  (ShutdownOrder /\ NoWorkWhenDown)'
  <2>1. UNCHANGED lifeVars /\ ~down
    BY <1>5 DEF waitOutWindow, GiveUp, claimDeferred, ReadRow, ProbeSerial
  <2> QED BY <2>1
<1>6. ASSUME NEW w \in Transfers, TakeSlot(w) \/ fetch(w) \/ install(w) \/ Fail(w)
      PROVE  (ShutdownOrder /\ NoWorkWhenDown)'
  <2>1. UNCHANGED lifeVars /\ (w \in Workers => ~down)
    BY <1>6 DEF TakeSlot, fetch, install, Fail
  <2>2. \A x \in Transfers : x # w => wpc'[x] = wpc[x]
    BY <1>6 DEF TakeSlot, fetch, install, Fail
  <2> QED BY <2>1, <2>2
<1>7. CASE UNCHANGED vars
  BY <1>7 DEF vars
<1> QED
  BY <1>1, <1>2, <1>3, <1>4, <1>5, <1>6, <1>7 DEF Next

\* Once Run has returned and the store may be closed, no worker is running, for
\* any number of NOTIFYs still in ServeNotify: a worker is never started after
\* the shutdown that waits for them (startWork, Run).
THEOREM NoWorkAfterShutdown == Spec => []NoWorkWhenDown
<1>1. Init => ShutdownOrder /\ NoWorkWhenDown
  BY DEF Init, ShutdownOrder, NoWorkWhenDown
<1> QED
  BY <1>1, NextShutdown, TypeCorrect, PTL DEF Spec
-----------------------------------------------------------------------------
(* The copy.  Serials are measured by how far they lie behind the one the  *)
(* primary serves.  No serial anyone holds lies further behind than the    *)
(* primary has been edited, which is less than half the serial space, so   *)
(* the newer of two is the one that lies less far behind.                  *)

Behind(s) == Forward(theirs, s)

\* Nobody holds a serial from before the first edit.
HeldInv ==
  /\ refreshed => Behind(ours) <= edits
  /\ \A h \in Handlers : hserial[h] # None => Behind(hserial[h]) <= edits
  /\ told # None => Behind(told) <= edits

\* The slot: one transfer at a time, and the copy it holds was fetched since
\* the one that is served (zoneState.xfer).
SlotInv ==
  \A w \in Transfers :
    /\ wpc[w] \in {"fetch", "install"} => xfer = w
    /\ wpc[w] = "install" => /\ got[w] \in Serials /\ Behind(got[w]) <= edits
                             /\ refreshed => Behind(got[w]) <= Behind(ours)

\* What a pass has read of the row is no newer than the row is now.
RowInv ==
  \A w \in Transfers : wpc[w] = "probe" =>
    refreshed /\ row[w] \in Serials /\ Behind(ours) <= Behind(row[w]) /\ Behind(row[w]) <= edits

\* A handler holds a serial while it has a NOTIFY to admit.
AdmitInv == \A h \in Handlers : hpc[h] = "admit" => hserial[h] \in Serials

AgeInv == HeldInv /\ SlotInv /\ RowInv /\ AdmitInv

\* The deferred NOTIFY of a window has a worker that will not be late for it,
\* or a handler about to start one (admit, claimDeferred).
DeferredInv ==
  deferred /\ ~stopped =>
    \/ \E h \in Handlers : hpc[h] = "defer"
    \/ \E w \in Workers : wpc[w] \in {"wait", "claim"} /\ ~late[w]

\* A pass is to come, or has begun and will install what the zone was told of.
Pending ==
  \/ deferred
  \/ \E h \in Handlers : hpc[h] = "run"
  \/ \E w \in Workers : \/ wpc[w] \in {"pass", "probe", "refresh", "fetch"}
                        \/ wpc[w] = "install" /\ Behind(got[w]) <= Behind(told)

Holds == refreshed /\ Behind(ours) <= Behind(told)

ToldInv == told # None /\ ~lost /\ ~stopped => Holds \/ Pending

CopyInv == AgeInv /\ DeferredInv /\ ToldInv

\* An edit moves every serial in use one further behind, and keeps all of them
\* within half the serial space (bumpSerialSQL).
LEMMA EditAges ==
  ASSUME TypeOK, Edit
  PROVE  \A s \in Serials : Behind(s) <= edits => Forward(theirs', s) = Behind(s) + 1
<1> SUFFICES ASSUME NEW s \in Serials, Forward(theirs, s) <= edits
             PROVE  Forward(theirs', s) = Forward(theirs, s) + 1
  BY DEF Behind
<1>1. MaxEdits \in Nat /\ MaxEdits < Modulus - 1
  BY NotifyAssumption, ModulusAssumption
<1>2. Forward(theirs, s) < Modulus - 1
  BY <1>1, ForwardType, ModulusAssumption DEF Edit, TypeOK
<1> QED BY <1>2, BumpAges DEF Edit, TypeOK

\* What lies no further behind than the edits go is compared by distance.
LEMMA HeldOrder ==
  ASSUME TypeOK, NEW a \in Serials, NEW b \in Serials, Behind(a) <= edits, Behind(b) <= edits
  PROVE  /\ SerialNewer(a, b) <=> Behind(a) < Behind(b)
         /\ Behind(a) = Behind(b) => a = b
<1>1. /\ Forward(theirs, a) \in Nat /\ Forward(theirs, b) \in Nat
      /\ Forward(theirs, a) < Modulus \div 2 /\ Forward(theirs, b) < Modulus \div 2
  BY NotifyAssumption, ModulusAssumption, ForwardType DEF TypeOK, Behind
<1> QED BY <1>1, NewerIsLessFarBehind, SameDistance DEF TypeOK, Behind

\* Distances are numbers.
LEMMA BehindType == TypeOK => \A s \in Serials : Behind(s) \in Nat
BY ForwardType DEF TypeOK, Behind

\* Every step keeps what is known of serials held, the slot and the row.
LEMMA NextAge == TypeOK /\ AgeInv /\ [Next]_vars => AgeInv'
<1> SUFFICES ASSUME TypeOK, AgeInv, [Next]_vars PROVE AgeInv'
  OBVIOUS
<1> USE DEF AgeInv, HeldInv, SlotInv, RowInv, AdmitInv, primaryVars, zoneVars, windowVars, lifeVars,
            workVars, historyVars, WGoto
<1> \A w \in Workers : w \in Transfers
  BY DEF Transfers
<1> Scheduler \in Transfers
  BY DEF Transfers
<1>0. None \notin Serials /\ None \notin Transfers
  BY NotifyAssumption DEF Transfers
<1>n. \A s \in Serials : Behind(s) \in Nat
  BY BehindType
<1>t. Behind(theirs) = 0 /\ edits \in Nat
  BY ForwardType DEF Behind, TypeOK
<1>1. CASE Edit
  <2>1. \A s \in Serials : Behind(s) <= edits => Forward(theirs', s) = Behind(s) + 1
    BY <1>1, EditAges
  <2>2. edits' = edits + 1 /\ UNCHANGED <<zoneVars, hpc, hserial, workVars, historyVars>>
    BY <1>1 DEF Edit
  <2> QED BY <2>1, <2>2, <1>n, <1>t DEF Behind, TypeOK
<1>u. ~Edit => UNCHANGED primaryVars
  BY DEF Next, vars, Elapse, Schedule, Stop, stopWork, Wait, Receive, admit, startWork,
         waitOutWindow, GiveUp, claimDeferred, ReadRow, ProbeSerial, TakeSlot, fetch, install, Fail
<1>b. ~Edit => \A s : Forward(theirs', s) = Behind(s)
  BY <1>u DEF Behind
<1>2. CASE Elapse \/ Stop \/ stopWork \/ Wait
  BY <1>2, <1>b DEF Elapse, Stop, stopWork, Wait, Behind
<1>3. CASE Schedule
  BY <1>3 DEF Schedule, TypeOK, Behind
<1>4. ASSUME NEW h \in Handlers, Receive(h) PROVE AgeInv'
  BY <1>4, <1>t, <1>0 DEF Receive, TypeOK, Behind
<1>5. ASSUME NEW h \in Handlers, admit(h) PROVE AgeInv'
  BY <1>5, <1>0 DEF admit, Deferred, TypeOK, Behind
<1>6. ASSUME NEW h \in Handlers, startWork(h) PROVE AgeInv'
  <2>1. CASE ~stopped /\ Free # {}
    <3>1. PICK w \in Workers : w = CHOOSE f \in Free : TRUE
      BY <2>1 DEF Free
    <3> QED BY <1>6, <2>1, <3>1 DEF startWork, TypeOK, Behind
  <2>2. CASE stopped
    BY <1>6, <2>2 DEF startWork, TypeOK, Behind
  <2> QED BY <1>6, <2>1, <2>2 DEF startWork
<1>7. ASSUME NEW w \in Workers, waitOutWindow(w) \/ GiveUp(w) \/ claimDeferred(w) PROVE AgeInv'
  BY <1>7 DEF waitOutWindow, GiveUp, claimDeferred, TypeOK, Behind
<1>8. ASSUME NEW w \in Workers, ReadRow(w) PROVE AgeInv'
  BY <1>8, <1>n DEF ReadRow, TypeOK, Behind
<1>9. ASSUME NEW w \in Workers, ProbeSerial(w) PROVE AgeInv'
  BY <1>9 DEF ProbeSerial, TypeOK, Behind
<1>10. ASSUME NEW w \in Transfers, TakeSlot(w) PROVE AgeInv'
  BY <1>10, <1>0 DEF TakeSlot, TypeOK, Behind
<1>11. ASSUME NEW w \in Transfers, fetch(w) PROVE AgeInv'
  BY <1>11, <1>t, <1>n DEF fetch, TypeOK, Behind
<1>12. ASSUME NEW w \in Transfers, install(w) PROVE AgeInv'
  <2>1. \A x \in Transfers : x # w => wpc[x] \notin {"fetch", "install"}
    BY <1>12 DEF install
  <2> QED BY <1>12, <2>1, <1>n, <1>0 DEF install, TypeOK, Behind
<1>13. ASSUME NEW w \in Transfers, Fail(w) PROVE AgeInv'
  BY <1>13, <1>0 DEF Fail, TypeOK, Behind
<1>14. CASE UNCHANGED vars
  BY <1>14 DEF vars, Behind
<1> QED
  BY <1>1, <1>2, <1>3, <1>4, <1>5, <1>6, <1>7, <1>8, <1>9, <1>10, <1>11, <1>12, <1>13, <1>14 DEF Next

\* Nothing is held at first.
LEMMA InitCopy == Init => CopyInv
BY NotifyAssumption DEF Init, CopyInv, AgeInv, HeldInv, SlotInv, RowInv, AdmitInv, DeferredInv, ToldInv

\* The copy served never goes back, for any number of transfers that wait for
\* the slot and any serials that wrap on the way (Refresher.Refresh, install).
THEOREM CopyGoesForward == Spec => CopyNeverOlder
<1>1. ASSUME TypeOK, AgeInv, [Next]_vars
      PROVE  [refreshed => (ours' = ours \/ SerialNewer(ours', ours))]_vars
  <2>1. ASSUME NEW w \in Transfers, install(w), refreshed
        PROVE  ours' = ours \/ SerialNewer(ours', ours)
    <3>1. /\ ours' = got[w] /\ got[w] \in Serials /\ ours \in Serials
          /\ Behind(got[w]) <= Behind(ours) /\ Behind(got[w]) <= edits /\ Behind(ours) <= edits
      BY <2>1, <1>1 DEF install, AgeInv, SlotInv, HeldInv, TypeOK
    <3> QED BY <1>1, <3>1, HeldOrder, BehindType
  <2>2. (\A w \in Transfers : ~install(w)) => ours' = ours
    BY <1>1 DEF Next, vars, primaryVars, zoneVars, Edit, Elapse, Schedule, Stop, stopWork, Wait,
                Receive, admit, startWork, waitOutWindow, GiveUp, claimDeferred, ReadRow,
                ProbeSerial, TakeSlot, fetch, Fail
  <2> QED BY <2>1, <2>2
<1>2. Init => AgeInv
  BY InitCopy DEF CopyInv
<1> QED
  BY <1>1, <1>2, TypeCorrect, NextAge, PTL DEF Spec, CopyNeverOlder

\* A deferred NOTIFY always has somebody to see to it, until shutdown.
LEMMA NextDeferred == TypeOK /\ DeferredInv /\ ShutdownOrder /\ [Next]_vars => DeferredInv'
<1> SUFFICES ASSUME TypeOK, DeferredInv, ShutdownOrder, [Next]_vars PROVE DeferredInv'
  OBVIOUS
<1> USE DEF DeferredInv, primaryVars, zoneVars, windowVars, lifeVars, workVars, historyVars, WGoto
<1> \A w \in Workers : w \in Transfers
  BY DEF Transfers
<1> Scheduler \in Transfers /\ Scheduler \notin Workers
  BY NotifyAssumption DEF Transfers
<1>1. CASE Edit \/ Elapse \/ Stop \/ stopWork \/ Wait
  BY <1>1 DEF Edit, Elapse, Stop, stopWork, Wait
<1>2. CASE Schedule
  BY <1>2 DEF Schedule, TypeOK
<1>3. ASSUME NEW h \in Handlers, Receive(h) PROVE DeferredInv'
  BY <1>3 DEF Receive, TypeOK
<1>4. ASSUME NEW h \in Handlers, admit(h) PROVE DeferredInv'
  <2>1. CASE window = "open" /\ deferred
    <3>1. UNCHANGED <<wpc, late, stopped>> /\ hpc' = [hpc EXCEPT ![h] = "idle"] /\ hpc[h] = "admit"
      BY <1>4, <2>1 DEF admit, Deferred
    <3> QED BY <2>1, <3>1 DEF TypeOK
  <2>2. CASE window = "open" /\ ~deferred
    BY <1>4, <2>2 DEF admit, Deferred, TypeOK
  <2>3. CASE window # "open"
    BY <1>4, <2>3 DEF admit
  <2> QED BY <2>1, <2>2, <2>3
<1>5. ASSUME NEW h \in Handlers, startWork(h) PROVE DeferredInv'
  <2>1. CASE ~stopped /\ Free # {}
    <3>1. PICK w \in Workers : w = (CHOOSE f \in Free : TRUE) /\ wpc[w] = "none"
      BY <2>1 DEF Free
    <3>2. /\ wpc' = [wpc EXCEPT ![w] = IF hpc[h] = "run" THEN "pass" ELSE "wait"]
          /\ late' = [late EXCEPT ![w] = FALSE]
          /\ hpc' = [hpc EXCEPT ![h] = "idle"] /\ hpc[h] \in {"run", "defer"}
          /\ UNCHANGED <<windowVars, lifeVars>>
      BY <1>5, <2>1, <3>1 DEF startWork
    <3> QED BY <3>1, <3>2 DEF TypeOK
  <2>2. CASE stopped
    BY <1>5, <2>2 DEF startWork
  <2> QED BY <1>5, <2>1, <2>2 DEF startWork
<1>6. ASSUME NEW w \in Workers, waitOutWindow(w) PROVE DeferredInv'
  BY <1>6 DEF waitOutWindow, TypeOK
<1>7. ASSUME NEW w \in Workers, GiveUp(w) PROVE DeferredInv'
  BY <1>7 DEF GiveUp, TypeOK, ShutdownOrder
<1>8. ASSUME NEW w \in Workers, claimDeferred(w) PROVE DeferredInv'
  BY <1>8 DEF claimDeferred, TypeOK
<1>9. ASSUME NEW w \in Workers, ReadRow(w) \/ ProbeSerial(w) PROVE DeferredInv'
  BY <1>9 DEF ReadRow, ProbeSerial, TypeOK
<1>10. ASSUME NEW w \in Transfers, TakeSlot(w) \/ fetch(w) \/ install(w) \/ Fail(w) PROVE DeferredInv'
  BY <1>10 DEF TakeSlot, fetch, install, Fail, TypeOK
<1>11. CASE UNCHANGED vars
  BY <1>11 DEF vars
<1> QED
  BY <1>1, <1>2, <1>3, <1>4, <1>5, <1>6, <1>7, <1>8, <1>9, <1>10, <1>11 DEF Next

\* What the zone was told of it holds, or a pass is still to see to it.
LEMMA NextTold == TypeOK /\ AgeInv /\ ToldInv /\ [Next]_vars => ToldInv'
<1> SUFFICES ASSUME TypeOK, AgeInv, ToldInv, [Next]_vars,
                    told' # None, ~lost', ~stopped'
             PROVE  (Holds \/ Pending)'
  BY DEF ToldInv
<1> USE DEF primaryVars, zoneVars, windowVars, lifeVars, workVars, historyVars, WGoto
<1> \A w \in Workers : w \in Transfers
  BY DEF Transfers
<1> Scheduler \in Transfers /\ Scheduler \notin Workers
  BY NotifyAssumption DEF Transfers
<1>0. None \notin Serials /\ None \notin Transfers
  BY NotifyAssumption DEF Transfers
<1>n. \A s \in Serials : Behind(s) \in Nat
  BY BehindType
<1>t. Behind(theirs) = 0 /\ edits \in Nat
  BY ForwardType DEF Behind, TypeOK
<1>1. CASE Edit
  <2>1. \A s \in Serials : Behind(s) <= edits => Forward(theirs', s) = Behind(s) + 1
    BY <1>1, EditAges
  <2>2. UNCHANGED <<zoneVars, windowVars, lifeVars, hpc, hserial, workVars, historyVars>>
    BY <1>1 DEF Edit
  <2>3. Holds \/ Pending
    BY <2>2 DEF ToldInv
  <2>4. Holds => Holds'
    BY <2>1, <2>2, <1>n DEF Holds, AgeInv, HeldInv, TypeOK, Behind
  <2>5. Pending => Pending'
    BY <2>1, <2>2, <1>n DEF Pending, AgeInv, HeldInv, SlotInv, TypeOK, Behind
  <2> QED BY <2>3, <2>4, <2>5
<1>u. ~Edit => UNCHANGED primaryVars
  BY DEF Next, vars, Elapse, Schedule, Stop, stopWork, Wait, Receive, admit, startWork,
         waitOutWindow, GiveUp, claimDeferred, ReadRow, ProbeSerial, TakeSlot, fetch, install, Fail
<1>2. CASE Elapse \/ Stop \/ stopWork \/ Wait
  BY <1>2 DEF Elapse, Stop, stopWork, Wait, ToldInv, Holds, Pending, Behind
<1>3. CASE Schedule
  BY <1>3 DEF Schedule, TypeOK, ToldInv, Holds, Pending, Behind
<1>4. ASSUME NEW h \in Handlers, Receive(h) PROVE (Holds \/ Pending)'
  BY <1>4 DEF Receive, TypeOK, ToldInv, Holds, Pending, Behind
<1>5. ASSUME NEW h \in Handlers, admit(h) PROVE (Holds \/ Pending)'
  BY <1>5 DEF admit, Deferred, TypeOK, Pending
<1>6. ASSUME NEW h \in Handlers, startWork(h) PROVE (Holds \/ Pending)'
  <2>0. ~stopped /\ Free # {}
    BY <1>6 DEF startWork
  <2>1. PICK w \in Workers : w = (CHOOSE f \in Free : TRUE) /\ wpc[w] = "none"
    BY <2>0 DEF Free
  <2>2. /\ wpc' = [wpc EXCEPT ![w] = IF hpc[h] = "run" THEN "pass" ELSE "wait"]
        /\ hpc' = [hpc EXCEPT ![h] = "idle"] /\ hpc[h] \in {"run", "defer"}
        /\ UNCHANGED <<primaryVars, zoneVars, windowVars, lifeVars, got, historyVars>>
    BY <1>6, <2>0, <2>1 DEF startWork
  <2>3. Holds \/ Pending
    BY <2>2 DEF ToldInv
  <2> QED BY <2>1, <2>2, <2>3 DEF TypeOK, Holds, Pending, Behind
<1>7. ASSUME NEW w \in Workers, waitOutWindow(w) \/ GiveUp(w) \/ claimDeferred(w)
      PROVE  (Holds \/ Pending)'
  BY <1>7 DEF waitOutWindow, GiveUp, claimDeferred, TypeOK, ToldInv, Holds, Pending, Behind
<1>8. ASSUME NEW w \in Workers, ReadRow(w) PROVE (Holds \/ Pending)'
  BY <1>8 DEF ReadRow, TypeOK, Pending
<1>9. ASSUME NEW w \in Workers, ProbeSerial(w) PROVE (Holds \/ Pending)'
  <2>1. CASE SerialNewer(theirs, row[w])
    BY <1>9, <2>1 DEF ProbeSerial, TypeOK, Pending
  <2>2. CASE ~SerialNewer(theirs, row[w])
    <3>1. /\ refreshed /\ row[w] \in Serials /\ theirs \in Serials
          /\ Behind(ours) <= Behind(row[w]) /\ Behind(row[w]) <= edits
      BY <1>9 DEF ProbeSerial, AgeInv, RowInv, TypeOK
    <3>2. Behind(ours) = 0
      BY <3>1, <2>2, <1>t, <1>n, HeldOrder DEF TypeOK
    <3>3. told \in Serials
      BY <1>9 DEF ProbeSerial, TypeOK
    <3> QED BY <1>9, <3>1, <3>2, <3>3, <1>n DEF ProbeSerial, Holds, Behind
  <2> QED BY <2>1, <2>2
<1>10. ASSUME NEW w \in Transfers, TakeSlot(w) PROVE (Holds \/ Pending)'
  BY <1>10 DEF TakeSlot, TypeOK, ToldInv, Holds, Pending, Behind
<1>11. ASSUME NEW w \in Transfers, fetch(w) PROVE (Holds \/ Pending)'
  BY <1>11, <1>t, <1>n DEF fetch, TypeOK, ToldInv, Holds, Pending, Behind
<1>12. ASSUME NEW w \in Transfers, install(w) PROVE (Holds \/ Pending)'
  <2>1. \A x \in Transfers : x # w => wpc[x] \notin {"fetch", "install"}
    BY <1>12 DEF install, AgeInv, SlotInv
  <2>2. got[w] \in Serials /\ (refreshed => Behind(got[w]) <= Behind(ours))
    BY <1>12 DEF install, AgeInv, SlotInv
  <2> QED BY <1>12, <2>1, <2>2, <1>n DEF install, TypeOK, ToldInv, Holds, Pending, Behind
<1>13. ASSUME NEW w \in Transfers, Fail(w) PROVE (Holds \/ Pending)'
  BY <1>13 DEF Fail, TypeOK, ToldInv, Holds, Pending, Behind
<1>14. CASE UNCHANGED vars
  BY <1>14 DEF vars, ToldInv, Holds, Pending, Behind
<1> QED
  BY <1>1, <1>2, <1>3, <1>4, <1>5, <1>6, <1>7, <1>8, <1>9, <1>10, <1>11, <1>12, <1>13, <1>14 DEF Next

\* When nothing is left running the zone holds every edit it was told of, for
\* any number of NOTIFYs inside and outside the throttle window and whatever
\* the scheduled transfers do (admit, claimDeferred, act).
THEOREM QuietZoneIsCurrent == Spec => []QuietIsCurrent
<1>1. Init => CopyInv /\ ShutdownOrder /\ NoWorkWhenDown
  BY InitCopy DEF Init, ShutdownOrder, NoWorkWhenDown
<1>2. TypeOK /\ CopyInv /\ ShutdownOrder /\ NoWorkWhenDown /\ [Next]_vars
        => (CopyInv /\ ShutdownOrder /\ NoWorkWhenDown)'
  BY NextAge, NextDeferred, NextTold, NextShutdown DEF CopyInv
<1>3. TypeOK /\ CopyInv => QuietIsCurrent
  <2> SUFFICES ASSUME TypeOK, CopyInv, Quiet, ~lost, ~stopped, told # None
               PROVE  refreshed /\ (ours = told \/ SerialNewer(ours, told))
    BY DEF QuietIsCurrent
  <2>1. \A w \in Workers : w \in Transfers
    BY DEF Transfers
  <2>2. ~Pending
    BY <2>1 DEF Quiet, Pending, CopyInv, DeferredInv
  <2>3. /\ refreshed /\ Behind(ours) <= Behind(told) /\ ours \in Serials /\ told \in Serials
        /\ Behind(ours) <= edits /\ Behind(told) <= edits
    BY <2>2 DEF CopyInv, ToldInv, Holds, AgeInv, HeldInv, TypeOK
  <2> QED BY <2>3, HeldOrder, BehindType
<1> QED
  BY <1>1, <1>2, <1>3, TypeCorrect, PTL DEF Spec
=============================================================================
