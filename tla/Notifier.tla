------------------------------ MODULE Notifier ------------------------------
(***************************************************************************)
(* Outbound NOTIFY for one zone (zones/notifier.go over zone_notifies).    *)
(*                                                                         *)
(* Whether a target is owed a NOTIFY is never stored: every pass compares  *)
(* the zone's serial with what the target last acknowledged.  One          *)
(* goroutine makes the passes; within a pass the sends are concurrent.     *)
(* Edits bump the serial in the store and then wake the notifier.          *)
(*                                                                         *)
(* next_attempt_at is kept as the time left until it, in ticks of          *)
(* notifyBaseBackoff, so that the state stays finite as time passes.       *)
(***************************************************************************)
EXTENDS Serial

CONSTANTS
  Targets,            \* addresses notify_to or the replica registry may name
  None,               \* no value
  MaxNotifyAttempts,  \* sends per round
  Starts,             \* serials the zone may start at
  MaxEdits,           \* bound on edits of the zone
  MaxChanges,         \* bound on changes of enabled and notify_to
  MaxFaults           \* bound on crashes and failing store accesses

ASSUME NotifierAssumption ==
  /\ None \notin Serials /\ Starts \subseteq Serials
  /\ MaxNotifyAttempts \in Nat \ {0}
  /\ {MaxEdits, MaxChanges, MaxFaults} \subseteq Nat /\ MaxEdits < Modulus \div 2

VARIABLES
  serial,     \* soa_serial in the store
  enabled,    \* the zone is enabled and serving
  notifyTo,   \* the targets the zone and the registry name
  queue,      \* zone_notifies: a row for every target that has one
  epc,        \* where the API's edit is
  wake,       \* Notifier.wake holds a token
  ppc,        \* where the pass is
  plan,       \* what the pass read: the zone's serial and targets, the rows
  age,        \* ticks since the pass read the clock
  send,       \* where the pass is with every target
  edits, changes, faults,
  heard,      \* history: the store's serial when the target last heard a NOTIFY
  rounds      \* history: the serial last sent for and how often, per target

zoneVars == <<serial, enabled, notifyTo, epc>>
passVars == <<ppc, plan, age, send>>
boundVars == <<edits, changes, faults>>
historyVars == <<heard, rounds>>
vars == <<zoneVars, queue, wake, passVars, boundVars, historyVars>>

NotifyRow == [pending: Serials, notified: Serials, told: BOOLEAN,
              attempts: 0..MaxNotifyAttempts, left: Nat]

\* The columns' defaults.
NewRow == [pending |-> 0, notified |-> 0, told |-> FALSE, attempts |-> 0, left |-> 0]
NoRows == [t \in {} |-> NewRow]
NoPlan == [serial |-> None, targets |-> {}, rows |-> NoRows]
NoSends == [t \in Targets |-> "none"]
NoRounds == [t \in Targets |-> [serial |-> None, sends |-> 0]]

Init ==
  /\ serial \in Starts
  /\ enabled = TRUE /\ notifyTo \in SUBSET Targets
  /\ queue = NoRows /\ epc = "idle" /\ wake = FALSE
  /\ ppc = "idle" /\ plan = NoPlan /\ age = 0 /\ send = NoSends
  /\ edits = 0 /\ changes = 0 /\ faults = 0
  /\ heard = [t \in Targets |-> None] /\ rounds = NoRounds

\* backoffFor, in ticks: notifyBaseBackoff doubled for every attempt before.
backoffFor(attempts) == 2 ^ attempts

Less(n) == IF n = 0 THEN 0 ELSE n - 1

Fault == faults < MaxFaults /\ faults' = faults + 1

-----------------------------------------------------------------------------
(* The world: time, edits, configuration, crashes.                         *)

Tick ==
  /\ queue' = [t \in DOMAIN queue |-> [queue[t] EXCEPT !.left = Less(@)]]
  /\ age' = IF ppc = "idle" \/ age = backoffFor(MaxNotifyAttempts) THEN age ELSE age + 1
  /\ UNCHANGED <<zoneVars, wake, ppc, plan, send, boundVars, historyVars>>

\* A record edit, an import or a transfer's install moves the serial in the store.
Edit ==
  /\ epc = "idle" /\ edits < MaxEdits
  /\ serial' = Bump(serial) /\ edits' = edits + 1
  /\ epc' = "wake"
  /\ UNCHANGED <<enabled, notifyTo, queue, wake, passVars, changes, faults, historyVars>>

\* notifyZones: Wake does not block and coalesces.
Wake ==
  /\ epc = "wake"
  /\ wake' = TRUE /\ epc' = "idle"
  /\ UNCHANGED <<serial, enabled, notifyTo, queue, passVars, boundVars, historyVars>>

\* PATCH changes enabled or notify_to, or a replica registers or is forgotten.
Configure ==
  /\ changes < MaxChanges /\ changes' = changes + 1
  /\ \E e \in BOOLEAN, ts \in SUBSET Targets : enabled' = e /\ notifyTo' = ts
  /\ UNCHANGED <<serial, epc, queue, wake, passVars, edits, faults, historyVars>>

\* The process dies and comes back: the store survives.
Crash ==
  /\ Fault
  /\ epc' = "idle" /\ wake' = FALSE
  /\ ppc' = "idle" /\ plan' = NoPlan /\ age' = 0 /\ send' = NoSends
  /\ rounds' = [t \in Targets |-> IF send[t] \in {"ok", "ended", "retry"} THEN NoRounds[t] ELSE rounds[t]]
  /\ UNCHANGED <<serial, enabled, notifyTo, queue, edits, changes, heard>>

-----------------------------------------------------------------------------
(* Run and Pass.                                                           *)

EndPass == ppc' = "idle" /\ plan' = NoPlan /\ age' = 0 /\ send' = NoSends

\* The tick or a wake starts a pass, which reads the zones and the clock.  A
\* zone that is disabled or not serving is passed over.
StartPass ==
  /\ ppc = "idle"
  /\ wake' \in {wake, FALSE}
  /\ IF enabled
     THEN /\ ppc' = "rows"
          /\ plan' = [serial |-> serial, targets |-> notifyTo, rows |-> NoRows]
     ELSE UNCHANGED <<ppc, plan>>
  /\ UNCHANGED <<zoneVars, queue, age, send, boundVars, historyVars>>

\* Once the rows are read, the targets that have one are considered.
Begin(rows) ==
  /\ plan' = [plan EXCEPT !.rows = rows]
  /\ send' = [t \in Targets |-> IF t \in plan.targets \cap DOMAIN rows THEN "todo" ELSE "none"]
  /\ ppc' = "send"

\* rowsByZone and rowsMatch: a zone whose rows are right is not reconciled.
ReadRows ==
  /\ ppc = "rows"
  /\ IF DOMAIN queue = plan.targets THEN Begin(queue)
     ELSE ppc' = "reconcile" /\ UNCHANGED <<plan, send>>
  /\ UNCHANGED <<zoneVars, queue, wake, age, boundVars, historyVars>>

\* One transaction: rows of targets no longer named go, new ones come.
Reconcile ==
  /\ ppc = "reconcile"
  /\ queue' = [t \in plan.targets |-> IF t \in DOMAIN queue THEN queue[t] ELSE NewRow]
  /\ rounds' = [t \in Targets |-> IF t \in DOMAIN queue THEN rounds[t] ELSE NoRounds[t]]
  /\ ppc' = "reread"
  /\ UNCHANGED <<zoneVars, wake, plan, age, send, boundVars, heard>>

\* The rows are read again only when some were written.
Reread ==
  /\ ppc = "reread"
  /\ Begin(queue)
  /\ UNCHANGED <<zoneVars, queue, wake, age, boundVars, historyVars>>

\* The zones, the registry or the rows cannot be read, or the reconcile fails.
PassFails ==
  /\ ppc \in {"rows", "reconcile", "reread"}
  /\ Fault
  /\ EndPass
  /\ UNCHANGED <<zoneVars, queue, wake, edits, changes, historyVars>>

Finish ==
  /\ ppc = "send" /\ \A t \in Targets : send[t] = "none"
  /\ EndPass
  /\ UNCHANGED <<zoneVars, queue, wake, boundVars, historyVars>>

-----------------------------------------------------------------------------
(* maybeSend.                                                              *)

\* Nothing to say: the target has acknowledged this serial or a later one.
Current(row, want) == row.told /\ ~SerialNewer(want, row.notified)

\* Mutant: the count goes on from the round before.
AttemptsKept(row, want) == row.attempts

\* Mutant: every attempt is the first.
AttemptsReset(row, want) == 0

\* A new serial is a new round.
Attempts(row, want) == IF row.pending # want THEN 0 ELSE row.attempts

GaveUp(row, want) == Attempts(row, want) >= MaxNotifyAttempts

\* nowMs < next_attempt_at, as the pass began.
Waiting(row) == row.left > 0

Skip(t) ==
  /\ send[t] = "todo"
  /\ LET row == plan.rows[t] IN
       Current(row, plan.serial) \/ GaveUp(row, plan.serial) \/ Waiting(row)
  /\ send' = [send EXCEPT ![t] = "none"]
  /\ UNCHANGED <<zoneVars, queue, wake, ppc, plan, age, boundVars, historyVars>>

\* The NOTIFY goes out.  It may reach the target, and
\* the sender sees an acknowledgement, an outcome that ends the round
\* (an error code, nobody listening), or one to retry (silence, no key).
Send(t) ==
  /\ send[t] = "todo"
  /\ LET row == plan.rows[t] IN
       ~Current(row, plan.serial) /\ ~GaveUp(row, plan.serial) /\ ~Waiting(row)
  /\ rounds' = [rounds EXCEPT ![t] =
       [serial |-> plan.serial,
        sends |-> IF @.serial = plan.serial THEN @.sends + 1 ELSE 1]]
  /\ \E arrives \in BOOLEAN, outcome \in {"ok", "ended", "retry"} :
       /\ outcome = "ok" => arrives
       /\ send' = [send EXCEPT ![t] = outcome]
       /\ heard' = IF arrives THEN [heard EXCEPT ![t] = serial] ELSE heard
  /\ UNCHANGED <<zoneVars, queue, wake, ppc, plan, age, boundVars>>

Left(attempts) == IF backoffFor(attempts) > age THEN backoffFor(attempts) - age ELSE 0

\* Mutant: what is recorded is the serial the zone has by then.
NotedNow(t) ==
  LET row == queue[t]
  IN  CASE send[t] = "ok" ->
             [pending |-> serial, notified |-> serial, told |-> TRUE, attempts |-> 0, left |-> 0]
        [] send[t] = "ended" ->
             [row EXCEPT !.pending = plan.serial, !.attempts = MaxNotifyAttempts, !.left = 0]
        [] OTHER ->
             [row EXCEPT !.pending = plan.serial,
                         !.attempts = Attempts(plan.rows[t], plan.serial) + 1,
                         !.left = Left(Attempts(plan.rows[t], plan.serial))]

\* NoteDelivered and NoteAttempt.
Noted(t) ==
  LET row == queue[t]
      want == plan.serial
      tried == Attempts(plan.rows[t], want)
  IN  CASE send[t] = "ok" ->
             [pending |-> want, notified |-> want, told |-> TRUE, attempts |-> 0, left |-> 0]
        [] send[t] = "ended" ->
             [row EXCEPT !.pending = want, !.attempts = MaxNotifyAttempts, !.left = 0]
        [] OTHER ->
             [row EXCEPT !.pending = want, !.attempts = tried + 1, !.left = Left(tried)]

Note(t) ==
  /\ send[t] \in {"ok", "ended", "retry"}
  /\ queue' = [queue EXCEPT ![t] = Noted(t)]
  /\ send' = [send EXCEPT ![t] = "none"]
  /\ UNCHANGED <<zoneVars, wake, ppc, plan, age, boundVars, historyVars>>

\* The write fails and is only logged: the send has happened and nobody knows.
NoteFails(t) ==
  /\ send[t] \in {"ok", "ended", "retry"}
  /\ Fault
  /\ rounds' = [rounds EXCEPT ![t] = NoRounds[t]]
  /\ send' = [send EXCEPT ![t] = "none"]
  /\ UNCHANGED <<zoneVars, queue, wake, ppc, plan, age, edits, changes, heard>>

-----------------------------------------------------------------------------
PassStep == ReadRows \/ Reconcile \/ Reread \/ Finish
TargetStep(t) == Skip(t) \/ Send(t) \/ Note(t)

Next ==
  \/ Tick \/ Edit \/ Wake \/ Configure \/ Crash
  \/ StartPass \/ PassStep \/ PassFails
  \/ \E t \in Targets : TargetStep(t) \/ NoteFails(t)

Spec == Init /\ [][Next]_vars

\* Time passes, the ticker fires, and a pass that has begun goes on: a send is
\* bounded by its own timeout.  Nothing is promised of wakes, edits or faults.
FairSpec ==
  /\ Spec
  /\ WF_vars(Tick) /\ WF_vars(StartPass) /\ WF_vars(PassStep)
  /\ \A t \in Targets : WF_vars(TargetStep(t))

-----------------------------------------------------------------------------
\* Types of the zone_notifies rows, the pass and the sends.
TypeOK ==
  /\ serial \in Serials
  /\ enabled \in BOOLEAN /\ notifyTo \subseteq Targets
  /\ DOMAIN queue \subseteq Targets /\ \A t \in DOMAIN queue : queue[t] \in NotifyRow
  /\ epc \in {"idle", "wake"} /\ wake \in BOOLEAN
  /\ ppc \in {"idle", "rows", "reconcile", "reread", "send"}
  /\ plan.serial \in Serials \cup {None} /\ plan.targets \subseteq Targets
  /\ DOMAIN plan.rows \subseteq Targets
  /\ \A t \in DOMAIN plan.rows : plan.rows[t] \in NotifyRow
  /\ age \in Nat
  /\ send \in [Targets -> {"none", "todo", "ok", "ended", "retry"}]
  /\ edits \in 0..MaxEdits /\ changes \in 0..MaxChanges /\ faults \in 0..MaxFaults
  /\ heard \in [Targets -> Serials \cup {None}]

\* A target recorded as told of a serial has heard a NOTIFY since the zone had
\* that serial, whatever edits, crashes and lost writes came between the read
\* of the zone, the send and the record of it (maybeSend, NoteDelivered).
RecordedWasHeard ==
  \A t \in DOMAIN queue : queue[t].told =>
    heard[t] # None /\ ~SerialNewer(queue[t].notified, heard[t])

\* One round never sends more than MaxNotifyAttempts times, unless the record
\* of a send is lost ("how many times one round is tried before it rests").
\* The rows keep the count through a crash; only a target whose send was not
\* recorded when the process died loses it.
RoundIsBounded == \A t \in Targets : rounds[t].sends <= MaxNotifyAttempts

Settled(t) ==
  /\ t \in DOMAIN queue
  /\ \/ Current(queue[t], serial)
     \/ queue[t].pending = serial /\ queue[t].attempts = MaxNotifyAttempts

\* A target that should be told of the zone's serial is, or its round runs out,
\* without anybody calling Wake ("cannot lose one", Notifier.Wake), or the
\* operator takes it off the list.
EveryTargetSettles ==
  \A t \in Targets :
    (enabled /\ t \in notifyTo) ~> (Settled(t) \/ ~enabled \/ t \notin notifyTo)
=============================================================================
