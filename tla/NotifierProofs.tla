--------------------------- MODULE NotifierProofs ---------------------------
(***************************************************************************)
(* What outbound NOTIFY guarantees for any number of targets, any serial   *)
(* space, any budget of attempts and any history of edits, changes of the  *)
(* target list, crashes and lost writes: types, that a target recorded as  *)
(* told has heard, and that a round stays within its budget.               *)
(***************************************************************************)
EXTENDS Notifier, TLAPS

-----------------------------------------------------------------------------
(* Serial arithmetic as zones/serial.go does it, for any even serial       *)
(* space.  The proofs measure a serial by how far it lies behind a newest  *)
(* one, Forward(newest, s); SerialNewer is the order of those distances as *)
(* long as they stay below half the space.                                 *)

\* The remainder of a number that one turn brings into range.
LEMMA Turn ==
  /\ \A x \in Int : 0 <= x /\ x < Modulus => x % Modulus = x
  /\ \A x \in Int : -Modulus <= x /\ x < 0 => x % Modulus = x + Modulus
BY ModulusAssumption

\* uint32 subtraction without the remainder (SerialNewer).
LEMMA ForwardIs ==
  \A a, b \in Serials : Forward(a, b) = IF b <= a THEN a - b ELSE a - b + Modulus
<1> SUFFICES ASSUME NEW a \in Serials, NEW b \in Serials
             PROVE  Forward(a, b) = IF b <= a THEN a - b ELSE a - b + Modulus
  OBVIOUS
<1>1. a - b \in Int /\ -Modulus <= a - b /\ a - b < Modulus
  BY ModulusAssumption DEF Serials
<1> QED BY <1>1, Turn, ModulusAssumption DEF Forward, Serials

\* The increment without the remainder (bumpSerialSQL).
LEMMA BumpIs ==
  \A s \in Serials : Bump(s) = IF s = Modulus - 1 THEN 0 ELSE s + 1
<1> SUFFICES ASSUME NEW s \in Serials PROVE Bump(s) = IF s = Modulus - 1 THEN 0 ELSE s + 1
  OBVIOUS
<1>1. CASE s = Modulus - 1
  BY <1>1, ModulusAssumption DEF Bump, Serials
<1>2. CASE s # Modulus - 1
  BY <1>2, Turn, ModulusAssumption DEF Bump, Serials
<1> QED BY <1>1, <1>2

\* The incremented serial stays in the serial space.
LEMMA BumpType == \A s \in Serials : Bump(s) \in Serials
BY BumpIs, ModulusAssumption DEF Serials

\* A distance is less than the serial space, and none from a serial to itself.
LEMMA ForwardType ==
  /\ \A a, b \in Serials : Forward(a, b) \in Nat /\ Forward(a, b) < Modulus
  /\ \A a \in Serials : Forward(a, a) = 0
BY ForwardIs, ModulusAssumption DEF Serials

\* An edit moves the newest serial one further from every other.
LEMMA BumpAges ==
  \A t, s \in Serials : Forward(t, s) < Modulus - 1 => Forward(Bump(t), s) = Forward(t, s) + 1
<1> SUFFICES ASSUME NEW t \in Serials, NEW s \in Serials, Forward(t, s) < Modulus - 1
             PROVE  Forward(Bump(t), s) = Forward(t, s) + 1
  OBVIOUS
<1>1. Forward(Bump(t), s) = IF s <= Bump(t) THEN Bump(t) - s ELSE Bump(t) - s + Modulus
  BY BumpType, ForwardIs
<1>2. Forward(t, s) = IF s <= t THEN t - s ELSE t - s + Modulus
  BY ForwardIs
<1>3. Bump(t) = IF t = Modulus - 1 THEN 0 ELSE t + 1
  BY BumpIs
<1> QED BY <1>1, <1>2, <1>3, ModulusAssumption DEF Serials

\* Of two serials less than half the space behind a third, the one that lies
\* less far behind is the newer.
LEMMA NewerIsLessFarBehind ==
  \A t, a, b \in Serials :
    Forward(t, a) < Modulus \div 2 /\ Forward(t, b) < Modulus \div 2 =>
      (SerialNewer(a, b) <=> Forward(t, a) < Forward(t, b))
<1> SUFFICES ASSUME NEW t \in Serials, NEW a \in Serials, NEW b \in Serials,
                    Forward(t, a) < Modulus \div 2, Forward(t, b) < Modulus \div 2
             PROVE  SerialNewer(a, b) <=> Forward(t, a) < Forward(t, b)
  OBVIOUS
<1> DEFINE h == Modulus \div 2
<1>1. h \in Nat /\ Modulus = 2 * h
  BY ModulusAssumption
<1>2. SerialNewer(a, b) <=> Forward(a, b) # 0 /\ Forward(a, b) < h
  BY DEF SerialNewer
<1> HIDE DEF h
<1>3. Forward(t, a) < h /\ Forward(t, b) < h
  BY DEF h
<1>4. Forward(t, a) = IF a <= t THEN t - a ELSE t - a + Modulus
  BY ForwardIs
<1>5. Forward(t, b) = IF b <= t THEN t - b ELSE t - b + Modulus
  BY ForwardIs
<1>6. Forward(a, b) = IF b <= a THEN a - b ELSE a - b + Modulus
  BY ForwardIs
<1> QED BY <1>1, <1>2, <1>3, <1>4, <1>5, <1>6, ModulusAssumption DEF Serials

-----------------------------------------------------------------------------
Outcomes == {"ok", "ended", "retry"}

\* The rows are functions of targets and a plan is a record of its three parts.
ShapeInv ==
  /\ queue = [t \in DOMAIN queue |-> queue[t]]
  /\ plan = [serial |-> plan.serial, targets |-> plan.targets, rows |-> plan.rows]
  /\ rounds \in [Targets -> [serial: Serials \cup {None}, sends: Nat]]

\* A pass that considers targets has read the rows that are there, and each
\* target it has still to consider has the row it read, but for the time left.
PassInv ==
  /\ ppc # "idle" => plan.serial \in Serials
  /\ ppc # "send" => \A t \in Targets : send[t] = "none"
  /\ ppc = "send" => DOMAIN plan.rows = DOMAIN queue
  /\ \A t \in Targets : send[t] # "none" => t \in DOMAIN plan.rows
  /\ \A t \in Targets : send[t] = "todo" =>
       /\ plan.rows[t].pending = queue[t].pending /\ plan.rows[t].attempts = queue[t].attempts
       /\ plan.rows[t].told = queue[t].told /\ plan.rows[t].notified = queue[t].notified
  /\ \A t \in Targets : send[t] \in Outcomes => ~GaveUp(plan.rows[t], plan.serial)

NotifierInv == TypeOK /\ ShapeInv /\ PassInv

\* How far a serial lies behind the zone's.
Behind(s) == Forward(serial, s)

\* The serials in use lie no further behind than the zone has been edited, and
\* what a target heard is no older than what is recorded, or about to be.
HeardInv ==
  /\ plan.serial # None => Behind(plan.serial) <= edits
  /\ \A t \in Targets : heard[t] # None => Behind(heard[t]) <= edits
  /\ \A t \in Targets : send[t] = "ok" => heard[t] # None /\ Behind(heard[t]) <= Behind(plan.serial)
  /\ \A t \in DOMAIN queue : queue[t].told =>
       /\ heard[t] # None /\ Behind(queue[t].notified) <= edits
       /\ Behind(heard[t]) <= Behind(queue[t].notified)

\* Every send of the round is in the row's count, or the round was answered;
\* one whose outcome is not yet recorded will be.
RoundInv ==
  RoundIsBounded /\ \A t \in Targets :
    /\ send[t] \notin Outcomes /\ t \in DOMAIN queue /\ rounds[t].serial # None =>
         /\ queue[t].pending = rounds[t].serial
         /\ \/ rounds[t].sends <= queue[t].attempts
            \/ queue[t].told /\ queue[t].notified = rounds[t].serial
    /\ send[t] \in Outcomes =>
         /\ rounds[t].serial = plan.serial
         /\ rounds[t].sends <= Attempts(plan.rows[t], plan.serial) + 1

-----------------------------------------------------------------------------
(* Types and the shape of a pass.                                          *)

\* The back-off is a number, and so is what is left of it.
LEMMA LeftType == \A n \in Nat : age \in Nat => Left(n) \in Nat
<1> SUFFICES ASSUME NEW n \in Nat, age \in Nat PROVE Left(n) \in Nat
  OBVIOUS
<1>1. backoffFor(n) \in Int
  BY DEF backoffFor
<1> QED BY <1>1 DEF Left

\* The count a round goes on from is one of the row's (maybeSend).
LEMMA AttemptsType ==
  \A r \in NotifyRow : \A want : Attempts(r, want) \in 0..MaxNotifyAttempts
BY NotifierAssumption DEF Attempts, NotifyRow

LEMMA NewRowType == NewRow \in NotifyRow
BY NotifierAssumption, ModulusAssumption DEF NewRow, NotifyRow, Serials

\* What is written of an outcome is a row (NoteDelivered, NoteAttempt).
LEMMA NotedType ==
  ASSUME NotifierInv, NEW t \in Targets, send[t] \in Outcomes
  PROVE  Noted(t) \in NotifyRow
<1> DEFINE n == Attempts(plan.rows[t], plan.serial)
<1>1. /\ t \in DOMAIN queue /\ queue[t] \in NotifyRow /\ plan.rows[t] \in NotifyRow
      /\ plan.serial \in Serials /\ ppc = "send"
  BY DEF NotifierInv, PassInv, TypeOK, Outcomes
<1>2. n \in 0..MaxNotifyAttempts /\ ~(n >= MaxNotifyAttempts)
  BY <1>1, AttemptsType DEF NotifierInv, PassInv, GaveUp
<1>3. n \in Nat /\ n + 1 \in 0..MaxNotifyAttempts /\ MaxNotifyAttempts \in 0..MaxNotifyAttempts
  BY <1>2, NotifierAssumption
<1>4. Left(n) \in Nat
  BY <1>3, LeftType DEF NotifierInv, TypeOK
<1> HIDE DEF n
<1>5. Noted(t) = CASE send[t] = "ok" ->
             [pending |-> plan.serial, notified |-> plan.serial, told |-> TRUE, attempts |-> 0, left |-> 0]
        [] send[t] = "ended" ->
             [queue[t] EXCEPT !.pending = plan.serial, !.attempts = MaxNotifyAttempts, !.left = 0]
        [] OTHER ->
             [queue[t] EXCEPT !.pending = plan.serial, !.attempts = n + 1, !.left = Left(n)]
  BY DEF Noted, n
<1>6. CASE send[t] = "ok"
  BY <1>1, <1>5, <1>6, NotifierAssumption DEF NotifyRow
<1>7. CASE send[t] = "ended"
  <2>1. Noted(t) = [queue[t] EXCEPT !.pending = plan.serial, !.attempts = MaxNotifyAttempts, !.left = 0]
    BY <1>5, <1>7
  <2>2. [queue[t] EXCEPT !.pending = plan.serial, !.attempts = MaxNotifyAttempts, !.left = 0] \in NotifyRow
    BY <1>1, <1>3 DEF NotifyRow
  <2> QED BY <2>1, <2>2, Zenon
<1>8. CASE send[t] = "retry"
  BY <1>1, <1>3, <1>4, <1>5, <1>8 DEF NotifyRow
<1> QED BY <1>6, <1>7, <1>8 DEF Outcomes

\* The initial state has the types and no pass.
LEMMA InitNotifier == Init => NotifierInv
<1> SUFFICES ASSUME Init PROVE NotifierInv
  OBVIOUS
<1> USE DEF Init, NoRows, NoPlan, NoSends, NoRounds
<1>1. ShapeInv
  <2>1. queue = [t \in DOMAIN queue |-> queue[t]]
    OBVIOUS
  <2>2. plan = [serial |-> plan.serial, targets |-> plan.targets, rows |-> plan.rows]
    OBVIOUS
  <2>3. rounds \in [Targets -> [serial: Serials \cup {None}, sends: Nat]]
    OBVIOUS
  <2> QED BY <2>1, <2>2, <2>3 DEF ShapeInv
<1>2. PassInv
  BY DEF PassInv, Outcomes
<1>3. /\ serial \in Serials /\ notifyTo \subseteq Targets /\ DOMAIN queue = {}
      /\ plan.serial = None /\ plan.targets = {} /\ DOMAIN plan.rows = {}
      /\ send \in [Targets -> {"none", "todo", "ok", "ended", "retry"}]
      /\ heard \in [Targets -> Serials \cup {None}]
  BY NotifierAssumption
<1>4. edits \in 0..MaxEdits /\ changes \in 0..MaxChanges /\ faults \in 0..MaxFaults /\ age \in Nat
  BY NotifierAssumption
<1>5. enabled \in BOOLEAN /\ wake \in BOOLEAN
  BY Zenon
<1>6. TypeOK
  BY <1>3, <1>4, <1>5 DEF TypeOK
<1> QED BY <1>1, <1>2, <1>6 DEF NotifierInv

\* Every step keeps the types and the shape of the pass.
LEMMA NextNotifier == NotifierInv /\ [Next]_vars => NotifierInv'
<1> SUFFICES ASSUME NotifierInv, [Next]_vars PROVE NotifierInv'
  OBVIOUS
<1> USE DEF NotifierInv, zoneVars, passVars, boundVars, historyVars, Outcomes
<1>0. None \notin Serials /\ MaxEdits \in Nat /\ MaxChanges \in Nat /\ MaxFaults \in Nat
  BY NotifierAssumption
<1>1. CASE Tick
  <2>1. DOMAIN queue' = DOMAIN queue /\ \A t \in DOMAIN queue :
          /\ queue'[t] \in NotifyRow
          /\ queue'[t].pending = queue[t].pending /\ queue'[t].attempts = queue[t].attempts
          /\ queue'[t].told = queue[t].told /\ queue'[t].notified = queue[t].notified
    BY <1>1 DEF Tick, TypeOK, NotifyRow, Less
  <2>2. age' \in Nat
    BY <1>1 DEF Tick, TypeOK
  <2>3. queue' = [t \in DOMAIN queue' |-> queue'[t]]
    BY <1>1 DEF Tick
  <2>4. UNCHANGED <<zoneVars, wake, ppc, plan, send, boundVars, historyVars>>
    BY <1>1 DEF Tick
  <2>5. TypeOK'
    BY <2>1, <2>2, <2>4 DEF TypeOK
  <2>6. ShapeInv'
    BY <2>3, <2>4 DEF ShapeInv
  <2>7. PassInv'
    BY <2>1, <2>4 DEF PassInv, GaveUp, Attempts
  <2> QED BY <2>5, <2>6, <2>7
<1>2. CASE Edit
  <2>1. serial' \in Serials /\ edits' \in 0..MaxEdits
    BY <1>2, <1>0, BumpType DEF Edit, TypeOK
  <2> QED BY <1>2, <2>1 DEF Edit, TypeOK, ShapeInv, PassInv, GaveUp, Attempts
<1>3. CASE Wake
  BY <1>3 DEF Wake, TypeOK, ShapeInv, PassInv, GaveUp, Attempts
<1>4. CASE Configure
  <2>1. changes' \in 0..MaxChanges /\ enabled' \in BOOLEAN /\ notifyTo' \subseteq Targets
    BY <1>4, <1>0 DEF Configure, TypeOK
  <2> QED BY <1>4, <2>1 DEF Configure, TypeOK, ShapeInv, PassInv, GaveUp, Attempts
<1>5. CASE Crash
  <2>1. faults' \in 0..MaxFaults
    BY <1>5, <1>0 DEF Crash, Fault, TypeOK
  <2>2. TypeOK'
    BY <1>5, <2>1 DEF Crash, TypeOK, NoPlan, NoRows, NoSends
  <2>3. ShapeInv'
    <3>1. plan' = [serial |-> plan'.serial, targets |-> plan'.targets, rows |-> plan'.rows]
      BY <1>5 DEF Crash, NoPlan
    <3>2. rounds' \in [Targets -> [serial: Serials \cup {None}, sends: Nat]]
      BY <1>5 DEF Crash, NoRounds, ShapeInv
    <3> QED BY <1>5, <3>1, <3>2 DEF Crash, ShapeInv
  <2>4. PassInv'
    BY <1>5 DEF Crash, PassInv, NoSends
  <2> QED BY <2>2, <2>3, <2>4
<1>6. CASE StartPass
  <2>w. wake' \in BOOLEAN
    BY <1>6, Zenon DEF StartPass, TypeOK
  <2>1. TypeOK'
    BY <1>6, <2>w DEF StartPass, TypeOK, NoRows
  <2>2. ShapeInv'
    BY <1>6 DEF StartPass, ShapeInv
  <2>3. PassInv'
    BY <1>6 DEF StartPass, PassInv, TypeOK
  <2> QED BY <2>1, <2>2, <2>3
<1>7. ASSUME Begin(queue), ppc \in {"rows", "reread"},
             UNCHANGED <<zoneVars, queue, wake, age, boundVars, historyVars>>
      PROVE  NotifierInv'
  <2>1. /\ plan' = [serial |-> plan.serial, targets |-> plan.targets, rows |-> queue]
        /\ ppc' = "send" /\ plan.serial \in Serials
        /\ send' = [t \in Targets |-> IF t \in plan.targets \cap DOMAIN queue THEN "todo" ELSE "none"]
    BY <1>7 DEF Begin, ShapeInv, PassInv
  <2>2. TypeOK'
    BY <1>7, <2>1 DEF TypeOK
  <2>3. ShapeInv'
    BY <1>7, <2>1 DEF ShapeInv
  <2>4. PassInv'
    BY <1>7, <2>1 DEF PassInv
  <2> QED BY <2>2, <2>3, <2>4
<1>8. CASE ReadRows
  <2>1. CASE DOMAIN queue = plan.targets
    BY <1>7, <1>8, <2>1 DEF ReadRows
  <2>2. CASE DOMAIN queue # plan.targets
    BY <1>8, <2>2 DEF ReadRows, TypeOK, ShapeInv, PassInv, GaveUp, Attempts
  <2> QED BY <2>1, <2>2
<1>9. CASE Reconcile
  <2>1. /\ DOMAIN queue' = plan.targets /\ \A t \in plan.targets : queue'[t] \in NotifyRow
        /\ queue' = [t \in DOMAIN queue' |-> queue'[t]]
    BY <1>9, NewRowType DEF Reconcile, TypeOK
  <2>2. rounds' \in [Targets -> [serial: Serials \cup {None}, sends: Nat]]
    BY <1>9, NotifierAssumption DEF Reconcile, ShapeInv, NoRounds
  <2>3. TypeOK'
    BY <1>9, <2>1 DEF Reconcile, TypeOK
  <2>4. ShapeInv'
    BY <1>9, <2>1, <2>2 DEF Reconcile, ShapeInv
  <2>5. PassInv'
    BY <1>9 DEF Reconcile, PassInv
  <2> QED BY <2>3, <2>4, <2>5
<1>10. CASE Reread
  BY <1>7, <1>10 DEF Reread
<1>11. CASE Finish \/ PassFails
  <2>1. faults' \in 0..MaxFaults
    BY <1>11, <1>0 DEF Finish, PassFails, Fault, TypeOK
  <2>2. EndPass /\ UNCHANGED <<zoneVars, queue, wake, edits, changes, historyVars>>
    BY <1>11 DEF Finish, PassFails
  <2>3. TypeOK'
    BY <2>1, <2>2 DEF EndPass, TypeOK, NoPlan, NoRows, NoSends
  <2>4. ShapeInv'
    BY <2>2 DEF EndPass, ShapeInv, NoPlan
  <2>5. PassInv'
    BY <2>2 DEF EndPass, PassInv, NoSends
  <2> QED BY <2>3, <2>4, <2>5
<1>12. ASSUME NEW t \in Targets, Skip(t) PROVE NotifierInv'
  BY <1>12 DEF Skip, TypeOK, ShapeInv, PassInv, GaveUp, Attempts
<1>13. ASSUME NEW t \in Targets, Send(t) PROVE NotifierInv'
  <2>1. PICK arrives \in BOOLEAN, outcome \in Outcomes :
          /\ send' = [send EXCEPT ![t] = outcome]
          /\ heard' = IF arrives THEN [heard EXCEPT ![t] = serial] ELSE heard
    BY <1>13 DEF Send
  <2>2. TypeOK'
    BY <1>13, <2>1 DEF Send, TypeOK
  <2>3. PassInv'
    BY <1>13, <2>1 DEF Send, PassInv, TypeOK, GaveUp, Attempts
  <2>4. ShapeInv'
    <3>1. UNCHANGED <<queue, plan>> /\ rounds' = [rounds EXCEPT ![t] =
            [serial |-> plan.serial, sends |-> IF @.serial = plan.serial THEN @.sends + 1 ELSE 1]]
      BY <1>13 DEF Send
    <3>2. plan.serial \in Serials \cup {None}
      BY DEF TypeOK
    <3> QED BY <3>1, <3>2 DEF ShapeInv
  <2> QED BY <2>2, <2>3, <2>4
<1>14. ASSUME NEW t \in Targets, Note(t) PROVE NotifierInv'
  <2>1. t \in DOMAIN queue /\ Noted(t) \in NotifyRow /\ ppc = "send"
    BY <1>14, NotedType DEF Note, PassInv
  <2>2. /\ DOMAIN queue' = DOMAIN queue /\ queue'[t] = Noted(t)
        /\ \A u \in DOMAIN queue : u # t => queue'[u] = queue[u]
        /\ queue' = [u \in DOMAIN queue' |-> queue'[u]]
    BY <1>14, <2>1 DEF Note
  <2>3. /\ send' = [send EXCEPT ![t] = "none"]
        /\ UNCHANGED <<zoneVars, wake, ppc, plan, age, boundVars, historyVars>>
    BY <1>14 DEF Note
  <2>4. TypeOK'
    BY <2>1, <2>2, <2>3 DEF TypeOK
  <2>5. ShapeInv'
    BY <2>2, <2>3 DEF ShapeInv
  <2>6. PassInv'
    BY <2>1, <2>2, <2>3 DEF PassInv, TypeOK, GaveUp, Attempts
  <2> QED BY <2>4, <2>5, <2>6
<1>15. ASSUME NEW t \in Targets, NoteFails(t) PROVE NotifierInv'
  <2>1. faults' \in 0..MaxFaults
    BY <1>15, <1>0 DEF NoteFails, Fault, TypeOK
  <2>2. TypeOK'
    BY <1>15, <2>1 DEF NoteFails, TypeOK
  <2>3. ShapeInv'
    BY <1>15 DEF NoteFails, ShapeInv, NoRounds
  <2>4. PassInv'
    BY <1>15 DEF NoteFails, PassInv, TypeOK, GaveUp, Attempts
  <2> QED BY <2>2, <2>3, <2>4
<1>16. CASE UNCHANGED vars
  BY <1>16 DEF vars, TypeOK, ShapeInv, PassInv, GaveUp, Attempts
<1> QED
  BY <1>1, <1>2, <1>3, <1>4, <1>5, <1>6, <1>8, <1>9, <1>10, <1>11, <1>12, <1>13, <1>14, <1>15, <1>16
     DEF Next, PassStep, TargetStep

\* Outbound NOTIFY is well typed in every reachable state (zone_notifies, Pass).
THEOREM TypeCorrect == Spec => []TypeOK
<1>1. NotifierInv => TypeOK
  BY DEF NotifierInv
<1> QED BY InitNotifier, NextNotifier, <1>1, PTL DEF Spec

-----------------------------------------------------------------------------
(* What is recorded was heard.                                             *)

\* An edit moves every serial in use one further behind the zone's.
LEMMA EditAges ==
  ASSUME TypeOK, Edit
  PROVE  \A s \in Serials : Behind(s) <= edits => Forward(serial', s) = Behind(s) + 1
<1> SUFFICES ASSUME NEW s \in Serials, Forward(serial, s) <= edits
             PROVE  Forward(serial', s) = Forward(serial, s) + 1
  BY DEF Behind
<1>1. MaxEdits \in Nat /\ MaxEdits < Modulus - 1
  BY NotifierAssumption, ModulusAssumption
<1>2. Forward(serial, s) < Modulus - 1
  BY <1>1, ForwardType, ModulusAssumption DEF Edit, TypeOK
<1> QED BY <1>2, BumpAges DEF Edit, TypeOK

\* Every step keeps what was heard ahead of what is recorded.
LEMMA NextHeard == NotifierInv /\ HeardInv /\ [Next]_vars => HeardInv'
<1> SUFFICES ASSUME NotifierInv, HeardInv, [Next]_vars PROVE HeardInv'
  OBVIOUS
<1> USE DEF zoneVars, passVars, boundVars, historyVars
<1>0. None \notin Serials
  BY NotifierAssumption
<1>n. \A s \in Serials : Behind(s) \in Nat
  BY ForwardType DEF NotifierInv, TypeOK, Behind
<1>t. Behind(serial) = 0 /\ edits \in Nat
  BY ForwardType DEF NotifierInv, TypeOK, Behind
<1>r. \A t \in DOMAIN queue : queue[t].notified \in Serials /\ t \in Targets
  BY DEF NotifierInv, TypeOK, NotifyRow
<1>1. CASE Edit
  <2>1. \A s \in Serials : Behind(s) <= edits => Forward(serial', s) = Behind(s) + 1
    BY <1>1, EditAges DEF NotifierInv
  <2>2. edits' = edits + 1 /\ UNCHANGED <<queue, passVars, historyVars>>
    BY <1>1 DEF Edit
  <2>3. \A t \in Targets : send[t] = "ok" => plan.serial \in Serials
    BY DEF NotifierInv, PassInv
  <2> QED BY <2>1, <2>2, <2>3, <1>0, <1>n, <1>r, <1>t DEF HeardInv, Behind, NotifierInv, TypeOK
<1>u. ~Edit => UNCHANGED <<serial, edits>>
  BY DEF Next, vars, Tick, Wake, Configure, Crash, StartPass, PassStep, ReadRows, Reconcile, Reread,
         Finish, PassFails, TargetStep, Skip, Send, Note, NoteFails
<1>2. CASE Tick
  <2>1. DOMAIN queue' = DOMAIN queue /\ \A t \in DOMAIN queue :
          queue'[t].told = queue[t].told /\ queue'[t].notified = queue[t].notified
    BY <1>2 DEF Tick, NotifierInv, TypeOK, NotifyRow
  <2> QED BY <1>2, <2>1 DEF Tick, HeardInv, Behind
<1>3. CASE Wake \/ Configure
  BY <1>3 DEF Wake, Configure, HeardInv, Behind
<1>4. CASE Crash \/ Finish \/ PassFails
  BY <1>4 DEF Crash, Finish, PassFails, EndPass, NoPlan, NoSends, HeardInv, Behind
<1>5. CASE StartPass
  BY <1>5, <1>t DEF StartPass, HeardInv, Behind, NotifierInv, PassInv
<1>6. CASE ReadRows \/ Reread
  <2>1. plan'.serial = plan.serial /\ UNCHANGED <<serial, edits, queue, heard>>
    BY <1>6 DEF ReadRows, Reread, Begin, NotifierInv, ShapeInv
  <2>2. \A t \in Targets : send'[t] # "ok"
    BY <1>6 DEF ReadRows, Reread, Begin, NotifierInv, PassInv
  <2> QED BY <2>1, <2>2 DEF HeardInv, Behind
<1>7. CASE Reconcile
  <2>1. \A t \in DOMAIN queue' : queue'[t].told => t \in DOMAIN queue /\ queue'[t] = queue[t]
    BY <1>7 DEF Reconcile, NewRow
  <2> QED BY <1>7, <2>1 DEF Reconcile, HeardInv, Behind
<1>8. ASSUME NEW t \in Targets, Skip(t) PROVE HeardInv'
  BY <1>8 DEF Skip, HeardInv, Behind, NotifierInv, TypeOK
<1>9. ASSUME NEW t \in Targets, Send(t) PROVE HeardInv'
  <2>1. PICK arrives \in BOOLEAN, outcome \in Outcomes :
          /\ outcome = "ok" => arrives
          /\ send' = [send EXCEPT ![t] = outcome]
          /\ heard' = IF arrives THEN [heard EXCEPT ![t] = serial] ELSE heard
    BY <1>9 DEF Send, Outcomes
  <2>2. UNCHANGED <<serial, edits, queue, plan>> /\ plan.serial \in Serials
    BY <1>9 DEF Send, NotifierInv, PassInv
  <2>3. heard \in [Targets -> Serials \cup {None}] /\ serial \in Serials
        /\ send \in [Targets -> {"none", "todo", "ok", "ended", "retry"}]
    BY DEF NotifierInv, TypeOK
  <2> QED BY <2>1, <2>2, <2>3, <1>n, <1>t, <1>r, <1>0 DEF HeardInv, Behind
<1>10. ASSUME NEW t \in Targets, Note(t) PROVE HeardInv'
  <2>1. /\ t \in DOMAIN queue /\ queue[t] \in NotifyRow /\ plan.serial \in Serials
        /\ send \in [Targets -> {"none", "todo", "ok", "ended", "retry"}]
    BY <1>10 DEF Note, NotifierInv, PassInv, TypeOK
  <2>2. /\ queue'[t].told => \/ send[t] = "ok" /\ queue'[t].notified = plan.serial
                             \/ queue[t].told /\ queue'[t].notified = queue[t].notified
        /\ DOMAIN queue' = DOMAIN queue
        /\ \A u \in DOMAIN queue : u # t => queue'[u] = queue[u]
    <3>1. queue' = [queue EXCEPT ![t] = Noted(t)] /\ send[t] \in {"ok", "ended", "retry"}
      BY <1>10 DEF Note
    <3>2. queue'[t] = Noted(t)
      BY <2>1, <3>1
    <3>3. Noted(t).told => \/ send[t] = "ok" /\ Noted(t).notified = plan.serial
                           \/ queue[t].told /\ Noted(t).notified = queue[t].notified
      BY <2>1, <3>1 DEF Noted, NotifyRow
    <3> QED BY <3>1, <3>2, <3>3
  <2> QED BY <1>10, <2>1, <2>2, <1>0 DEF Note, HeardInv, Behind
<1>11. ASSUME NEW t \in Targets, NoteFails(t) PROVE HeardInv'
  BY <1>11 DEF NoteFails, HeardInv, Behind, NotifierInv, TypeOK
<1>12. CASE UNCHANGED vars
  BY <1>12 DEF vars, HeardInv, Behind
<1> QED
  BY <1>1, <1>2, <1>3, <1>4, <1>5, <1>6, <1>7, <1>8, <1>9, <1>10, <1>11, <1>12
     DEF Next, PassStep, TargetStep

\* A target recorded as told of a serial has heard a NOTIFY since the zone had
\* it, for every list of targets and whatever is edited, lost or restarted
\* between the send and its record (maybeSend, NoteDelivered).
THEOREM RecordsAreHeard == Spec => []RecordedWasHeard
<1>1. Init => HeardInv
  BY DEF Init, HeardInv, NoPlan, NoRows, NoSends
<1>2. NotifierInv /\ HeardInv => RecordedWasHeard
  <2> SUFFICES ASSUME NotifierInv, HeardInv, NEW t \in DOMAIN queue, queue[t].told
               PROVE  heard[t] # None /\ ~SerialNewer(queue[t].notified, heard[t])
    BY DEF RecordedWasHeard
  <2>1. /\ heard[t] # None /\ heard[t] \in Serials /\ queue[t].notified \in Serials
        /\ Behind(heard[t]) <= Behind(queue[t].notified) /\ Behind(queue[t].notified) <= edits
    BY DEF NotifierInv, TypeOK, NotifyRow, HeardInv
  <2>2. /\ Forward(serial, heard[t]) \in Nat /\ Forward(serial, queue[t].notified) \in Nat
        /\ Forward(serial, heard[t]) < Modulus \div 2
        /\ Forward(serial, queue[t].notified) < Modulus \div 2
    BY <2>1, NotifierAssumption, ModulusAssumption, ForwardType DEF NotifierInv, TypeOK, Behind
  <2> QED BY <2>1, <2>2, NewerIsLessFarBehind DEF NotifierInv, TypeOK, Behind
<1> QED
  BY <1>1, <1>2, InitNotifier, NextNotifier, NextHeard, PTL DEF Spec

-----------------------------------------------------------------------------
(* A round is bounded.                                                     *)

\* Every step keeps the sends of a round in its row's count.
LEMMA NextRound == NotifierInv /\ RoundInv /\ [Next]_vars => RoundInv'
<1> SUFFICES ASSUME NotifierInv, RoundInv, [Next]_vars PROVE RoundInv'
  OBVIOUS
<1> USE DEF zoneVars, passVars, boundVars, historyVars, Outcomes
<1>0. None \notin Serials /\ MaxNotifyAttempts \in Nat \ {0}
  BY NotifierAssumption
<1>1. CASE Edit \/ Wake \/ Configure
  BY <1>1 DEF Edit, Wake, Configure, RoundInv, RoundIsBounded, Attempts
<1>2. CASE Tick
  <2>1. DOMAIN queue' = DOMAIN queue /\ \A t \in DOMAIN queue :
          /\ queue'[t].pending = queue[t].pending /\ queue'[t].attempts = queue[t].attempts
          /\ queue'[t].told = queue[t].told /\ queue'[t].notified = queue[t].notified
    BY <1>2 DEF Tick, NotifierInv, TypeOK, NotifyRow
  <2> QED BY <1>2, <2>1 DEF Tick, RoundInv, RoundIsBounded, Attempts
<1>3. CASE Crash
  BY <1>3, <1>0 DEF Crash, NoSends, NoRounds, RoundInv, RoundIsBounded
<1>4. CASE Finish \/ PassFails
  <2>1. \A t \in Targets : send[t] = "none"
    BY <1>4 DEF Finish, PassFails, NotifierInv, PassInv
  <2> QED BY <1>4, <2>1 DEF Finish, PassFails, EndPass, NoSends, RoundInv, RoundIsBounded
<1>5. CASE StartPass
  BY <1>5 DEF StartPass, RoundInv, RoundIsBounded, NotifierInv, PassInv
<1>6. CASE ReadRows \/ Reread
  <2>1. UNCHANGED <<queue, rounds>> /\ \A t \in Targets : send[t] = "none" /\ send'[t] \notin Outcomes
    BY <1>6 DEF ReadRows, Reread, Begin, NotifierInv, PassInv
  <2> QED BY <2>1 DEF RoundInv, RoundIsBounded
<1>7. CASE Reconcile
  <2>1. \A t \in Targets : send[t] = "none" /\ send'[t] = "none"
    BY <1>7 DEF Reconcile, NotifierInv, PassInv
  <2>2. \A t \in Targets :
          /\ t \in DOMAIN queue => rounds'[t] = rounds[t]
          /\ t \notin DOMAIN queue => rounds'[t] = [serial |-> None, sends |-> 0]
          /\ t \in DOMAIN queue /\ t \in DOMAIN queue' => queue'[t] = queue[t]
    BY <1>7 DEF Reconcile, NoRounds
  <2> QED BY <2>1, <2>2, <1>0 DEF RoundInv, RoundIsBounded
<1>8. ASSUME NEW t \in Targets, Skip(t) PROVE RoundInv'
  BY <1>8 DEF Skip, RoundInv, RoundIsBounded, Attempts, NotifierInv, TypeOK
<1>9. ASSUME NEW t \in Targets, Send(t) PROVE RoundInv'
  <2>1. PICK outcome \in Outcomes : send' = [send EXCEPT ![t] = outcome]
    BY <1>9 DEF Send
  <2> DEFINE n == Attempts(plan.rows[t], plan.serial)
  <2>2. /\ t \in DOMAIN queue /\ plan.rows[t] \in NotifyRow /\ plan.serial \in Serials
        /\ plan.rows[t].pending = queue[t].pending /\ plan.rows[t].attempts = queue[t].attempts
        /\ plan.rows[t].told = queue[t].told /\ plan.rows[t].notified = queue[t].notified
    BY <1>9 DEF Send, NotifierInv, PassInv, TypeOK
  <2>3. n \in Nat /\ n < MaxNotifyAttempts
    BY <1>9, <2>2, <1>0, AttemptsType DEF Send, GaveUp
  <2>4. rounds[t].serial = plan.serial => rounds[t].sends <= n
    <3> SUFFICES ASSUME rounds[t].serial = plan.serial PROVE rounds[t].sends <= n
      OBVIOUS
    <3>1. /\ queue[t].pending = plan.serial
          /\ \/ rounds[t].sends <= queue[t].attempts
             \/ queue[t].told /\ queue[t].notified = plan.serial
      BY <1>9, <2>2, <1>0 DEF Send, RoundInv
    <3>2. ~SerialNewer(plan.serial, plan.serial)
      BY <2>2, ForwardType DEF SerialNewer
    <3>3. ~(queue[t].told /\ queue[t].notified = plan.serial)
      BY <1>9, <2>2, <3>2 DEF Send, Current
    <3> QED BY <2>2, <3>1, <3>3 DEF Attempts
  <2>5. /\ rounds'[t].serial = plan.serial /\ rounds'[t].sends <= n + 1
        /\ \A u \in Targets : u # t => rounds'[u] = rounds[u]
    <3>1. rounds' = [rounds EXCEPT ![t] = [serial |-> plan.serial,
             sends |-> IF rounds[t].serial = plan.serial THEN rounds[t].sends + 1 ELSE 1]]
      BY <1>9 DEF Send
    <3>2. rounds \in [Targets -> [serial: Serials \cup {None}, sends: Nat]]
      BY DEF NotifierInv, ShapeInv
    <3>3. rounds'[t] = [serial |-> plan.serial,
             sends |-> IF rounds[t].serial = plan.serial THEN rounds[t].sends + 1 ELSE 1]
      BY <3>1, <3>2
    <3>4. rounds[t].sends \in Nat
      BY <3>2
    <3> HIDE DEF n
    <3> QED BY <3>1, <3>2, <3>3, <3>4, <2>3, <2>4
  <2>6. rounds'[t].sends <= MaxNotifyAttempts
    <3>1. rounds'[t].sends \in Int
      BY NextNotifier DEF NotifierInv, ShapeInv
    <3> HIDE DEF n
    <3> QED BY <3>1, <2>3, <2>5, <1>0
  <2>7. UNCHANGED <<queue, plan>> /\ send \in [Targets -> {"none", "todo", "ok", "ended", "retry"}]
    BY <1>9 DEF Send, NotifierInv, TypeOK
  <2> QED BY <2>1, <2>5, <2>6, <2>7 DEF RoundInv, RoundIsBounded, Attempts
<1>10. ASSUME NEW t \in Targets, Note(t) PROVE RoundInv'
  <2> DEFINE n == Attempts(plan.rows[t], plan.serial)
  <2>1. /\ t \in DOMAIN queue /\ queue[t] \in NotifyRow /\ plan.serial \in Serials
        /\ rounds[t].serial = plan.serial /\ rounds[t].sends <= n + 1
        /\ rounds[t].sends <= MaxNotifyAttempts
    BY <1>10 DEF Note, NotifierInv, PassInv, TypeOK, RoundInv, RoundIsBounded
  <2>2. queue'[t] = Noted(t) /\ \A u \in DOMAIN queue : u # t => queue'[u] = queue[u]
    BY <1>10, <2>1 DEF Note
  <2>3. /\ Noted(t).pending = plan.serial
        /\ \/ rounds[t].sends <= Noted(t).attempts
           \/ Noted(t).told /\ Noted(t).notified = plan.serial
    BY <1>10, <2>1 DEF Note, Noted, NotifyRow
  <2>4. /\ send' = [send EXCEPT ![t] = "none"] /\ UNCHANGED <<plan, rounds>>
        /\ DOMAIN queue' = DOMAIN queue
        /\ send \in [Targets -> {"none", "todo", "ok", "ended", "retry"}]
    BY <1>10 DEF Note, NotifierInv, TypeOK
  <2> QED BY <2>1, <2>2, <2>3, <2>4 DEF RoundInv, RoundIsBounded, Attempts
<1>11. ASSUME NEW t \in Targets, NoteFails(t) PROVE RoundInv'
  <2>1. rounds \in [Targets -> [serial: Serials \cup {None}, sends: Nat]]
        /\ send \in [Targets -> {"none", "todo", "ok", "ended", "retry"}]
    BY DEF NotifierInv, TypeOK, ShapeInv
  <2>2. rounds'[t] = [serial |-> None, sends |-> 0] /\ \A u \in Targets : u # t => rounds'[u] = rounds[u]
    BY <1>11, <2>1 DEF NoteFails, NoRounds
  <2> QED BY <1>11, <2>1, <2>2, <1>0 DEF NoteFails, RoundInv, RoundIsBounded, Attempts
<1>12. CASE UNCHANGED vars
  BY <1>12 DEF vars, RoundInv, RoundIsBounded, Attempts
<1> QED
  BY <1>1, <1>2, <1>3, <1>4, <1>5, <1>6, <1>7, <1>8, <1>9, <1>10, <1>11, <1>12
     DEF Next, PassStep, TargetStep

\* A round never sends more than its budget, for any budget, unless the record of
\* a send is lost: what a pass read of a row is still its count when it sends
\* (maxNotifyAttempts, maybeSend, NoteAttempt).
THEOREM RoundsAreBounded == Spec => []RoundIsBounded
<1>1. Init => RoundInv
  BY NotifierAssumption DEF Init, RoundInv, RoundIsBounded, NoRows, NoSends, NoRounds, Outcomes
<1>2. RoundInv => RoundIsBounded
  BY DEF RoundInv
<1> QED
  BY <1>1, <1>2, InitNotifier, NextNotifier, NextRound, PTL DEF Spec
=============================================================================
