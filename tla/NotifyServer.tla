---------------------------- MODULE NotifyServer ----------------------------
(***************************************************************************)
(* Inbound NOTIFY of one secondary zone: the throttle window of            *)
(* zones/notifyserver.go, the workers it starts, and the transfers they    *)
(* end in.                                                                 *)
(*                                                                         *)
(* A NOTIFY says no more than "something changed".  The first one opens a  *)
(* window and starts a pass; one that arrives inside the window is         *)
(* deferred to its end; later ones add nothing.  A pass reads the zone's   *)
(* row, probes the primary's serial and transfers when it is newer.  All   *)
(* per-zone state is independent of other zones', so one zone is modelled. *)
(***************************************************************************)
EXTENDS Serial

CONSTANTS
  Handlers,   \* goroutines in ServeNotify at once
  Workers,    \* bound on the goroutines startWork has running at once
  Scheduler,  \* a transfer RefreshDue or POST /zones/{id}/refresh runs
  None,       \* no value
  Starts,     \* serials the primary may be at when the zone is created
  MaxEdits    \* bound on the primary's edits

ASSUME NotifyAssumption ==
  /\ Scheduler \notin Workers
  /\ None \notin Workers \cup {Scheduler} /\ None \notin Serials
  /\ Starts \subseteq Serials
  /\ MaxEdits \in Nat /\ MaxEdits < Modulus \div 2

VARIABLES
  theirs,     \* the serial the primary serves
  edits,      \* how many edits it has had
  ours,       \* soa_serial of the zone's row
  refreshed,  \* refreshed_at # 0: the zone has been transferred once
  window,     \* notifyState.opened: "none", "open" (inside notifyThrottle) or "past"
  deferred,   \* notifyState.deferred
  stopped,    \* NotifyServer.stopped
  cancelled,  \* stopWork was called
  down,       \* Run has returned; the store may be closed
  hpc,        \* where every ServeNotify is
  hserial,    \* history: the primary's serial when it was told
  wpc,        \* where every worker is
  late,       \* the window a deferred worker waits out is not the one it was started in
  row,        \* what a pass read of the row: the serial, or None if never transferred
  got,        \* the serial of the copy a transfer fetched
  xfer,       \* zoneState.xfer: who holds the slot
  told,       \* history: the newest serial a NOTIFY was admitted for
  unseen,     \* history: a NOTIFY was admitted and no pass has begun since
  lost        \* history: a pass has failed and none has begun since

primaryVars == <<theirs, edits>>
zoneVars == <<ours, refreshed>>
windowVars == <<window, deferred>>
lifeVars == <<stopped, cancelled, down>>
workVars == <<wpc, late, row, got, xfer>>
historyVars == <<told, unseen, lost>>
vars == <<primaryVars, zoneVars, windowVars, lifeVars, hpc, hserial, workVars, historyVars>>

Transfers == Workers \cup {Scheduler}

\* A secondary made through the API: placeholder serial 1, never transferred.
Init ==
  /\ theirs \in Starts /\ edits = 0
  /\ ours = 1 /\ refreshed = FALSE
  /\ window = "none" /\ deferred = FALSE
  /\ stopped = FALSE /\ cancelled = FALSE /\ down = FALSE
  /\ hpc = [h \in Handlers |-> "idle"]
  /\ hserial = [h \in Handlers |-> None]
  /\ wpc = [w \in Transfers |-> "none"]
  /\ late = [w \in Transfers |-> FALSE]
  /\ row = [w \in Transfers |-> None] /\ got = [w \in Transfers |-> None]
  /\ xfer = None
  /\ told = None /\ unseen = FALSE /\ lost = FALSE

WGoto(w, l) == wpc' = [wpc EXCEPT ![w] = l]

-----------------------------------------------------------------------------
(* The primary.                                                            *)

Edit ==
  /\ edits < MaxEdits
  /\ theirs' = Bump(theirs) /\ edits' = edits + 1
  /\ UNCHANGED <<zoneVars, windowVars, lifeVars, hpc, hserial, workVars, historyVars>>

-----------------------------------------------------------------------------
(* ServeNotify.                                                            *)

\* decideZone and decidePeer accept it and the reply goes out; a refused
\* NOTIFY changes nothing.
Receive(h) ==
  /\ hpc[h] = "idle" /\ ~down
  /\ hpc' = [hpc EXCEPT ![h] = "admit"]
  /\ hserial' = [hserial EXCEPT ![h] = theirs]
  /\ UNCHANGED <<primaryVars, zoneVars, windowVars, lifeVars, workVars, historyVars>>

\* Opening a window makes every worker that waits one out late.
Opened(by) == late' = [w \in Transfers |-> w # by /\ wpc[w] \in {"wait", "claim"}]

\* Mutant: a NOTIFY inside the window is dropped (leading-edge throttle).
Throttled(h) ==
  /\ hpc' = [hpc EXCEPT ![h] = "idle"]
  /\ UNCHANGED <<windowVars, late>>

\* A NOTIFY inside the window: the first is deferred, the rest add nothing.
Deferred(h) ==
  /\ hpc' = [hpc EXCEPT ![h] = IF deferred THEN "idle" ELSE "defer"]
  /\ deferred' = TRUE
  /\ UNCHANGED <<window, late>>

admit(h) ==
  /\ hpc[h] = "admit"
  /\ told' = IF told = None \/ SerialNewer(hserial[h], told) THEN hserial[h] ELSE told
  /\ unseen' = TRUE
  /\ hserial' = [hserial EXCEPT ![h] = None]
  /\ IF window = "open" THEN Deferred(h)
     ELSE /\ window' = "open" /\ deferred' = FALSE
          /\ Opened(None)
          /\ hpc' = [hpc EXCEPT ![h] = "run"]
  /\ UNCHANGED <<primaryVars, zoneVars, lifeVars, wpc, row, got, xfer, lost>>

Free == {w \in Workers : wpc[w] = "none"}

\* Mutant: a worker is started whether or not the server has stopped.
startWorkAlways(h) ==
  /\ hpc[h] \in {"run", "defer"} /\ Free # {}
  /\ LET w == CHOOSE w \in Free : TRUE
     IN  /\ WGoto(w, IF hpc[h] = "run" THEN "pass" ELSE "wait")
         /\ late' = [late EXCEPT ![w] = FALSE]
  /\ UNCHANGED windowVars
  /\ hpc' = [hpc EXCEPT ![h] = "idle"]
  /\ UNCHANGED <<primaryVars, zoneVars, lifeVars, hserial, row, got, xfer, historyVars>>

\* Refused once the server has stopped: abandonWindow or dropDeferred.
startWork(h) ==
  /\ hpc[h] \in {"run", "defer"}
  /\ \/ /\ ~stopped /\ Free # {}
        /\ LET w == CHOOSE w \in Free : TRUE
           IN  /\ WGoto(w, IF hpc[h] = "run" THEN "pass" ELSE "wait")
               /\ late' = [late EXCEPT ![w] = FALSE]
        /\ UNCHANGED windowVars
     \/ /\ stopped
        /\ deferred' = FALSE
        /\ window' = IF hpc[h] = "run" THEN "none" ELSE window
        /\ UNCHANGED <<wpc, late>>
  /\ hpc' = [hpc EXCEPT ![h] = "idle"]
  /\ UNCHANGED <<primaryVars, zoneVars, lifeVars, hserial, row, got, xfer, historyVars>>

-----------------------------------------------------------------------------
(* A deferred worker: claimDeferred.                                       *)

\* notifyThrottle has passed since the window opened.
Elapse ==
  /\ window = "open"
  /\ window' = "past"
  /\ UNCHANGED <<primaryVars, zoneVars, deferred, lifeVars, hpc, hserial, workVars, historyVars>>

\* Mutant: only a window that was abandoned is taken for over.
waitOutAbandoned(w) ==
  /\ wpc[w] = "wait" /\ window = "none"
  /\ WGoto(w, "claim")
  /\ UNCHANGED <<primaryVars, zoneVars, windowVars, lifeVars, hpc, hserial, late, row, got, xfer,
                 historyVars>>

\* waitOutWindow sees the window closed.  The lock is not held from here to claim.
waitOutWindow(w) ==
  /\ wpc[w] = "wait" /\ window # "open"
  /\ WGoto(w, "claim")
  /\ UNCHANGED <<primaryVars, zoneVars, windowVars, lifeVars, hpc, hserial, late, row, got, xfer,
                 historyVars>>

\* Mutant: the wait does not watch its context.
GiveUpLateOnly(w) ==
  /\ wpc[w] = "wait" /\ late[w] /\ ~cancelled
  /\ WGoto(w, "none")
  /\ late' = [late EXCEPT ![w] = FALSE]
  /\ UNCHANGED <<primaryVars, zoneVars, windowVars, lifeVars, hpc, hserial, row, got, xfer,
                 historyVars>>

\* Its context ends first: at shutdown, or after TransferTimeout, which is
\* many windows and so never ends the wait for the window it was started in.
GiveUp(w) ==
  /\ wpc[w] = "wait" /\ (cancelled \/ late[w])
  /\ WGoto(w, "none")
  /\ late' = [late EXCEPT ![w] = FALSE]
  /\ UNCHANGED <<primaryVars, zoneVars, windowVars, lifeVars, hpc, hserial, row, got, xfer,
                 historyVars>>

claimDeferred(w) ==
  /\ wpc[w] = "claim"
  /\ IF deferred
     THEN /\ window' = "open" /\ deferred' = FALSE
          /\ Opened(w)
          /\ WGoto(w, "pass")
     ELSE /\ WGoto(w, "none")
          /\ late' = [late EXCEPT ![w] = FALSE]
          /\ UNCHANGED windowVars
  /\ UNCHANGED <<primaryVars, zoneVars, lifeVars, hpc, hserial, row, got, xfer, historyVars>>

-----------------------------------------------------------------------------
(* pass, act, and Refresher.Refresh under the zone's transfer slot.        *)

ReadRow(w) ==
  /\ wpc[w] = "pass"
  /\ row' = [row EXCEPT ![w] = IF refreshed THEN ours ELSE None]
  /\ WGoto(w, IF refreshed THEN "probe" ELSE "refresh")
  /\ unseen' = FALSE /\ lost' = FALSE
  /\ UNCHANGED <<primaryVars, zoneVars, windowVars, lifeVars, hpc, hserial, late, got, xfer, told>>

ProbeSerial(w) ==
  /\ wpc[w] = "probe"
  /\ WGoto(w, IF SerialNewer(theirs, row[w]) THEN "refresh" ELSE "none")
  /\ row' = [row EXCEPT ![w] = None]
  /\ UNCHANGED <<primaryVars, zoneVars, windowVars, lifeVars, hpc, hserial, late, got, xfer,
                 historyVars>>

\* A scheduled or manual refresh of the same zone.
Schedule ==
  /\ wpc[Scheduler] = "none" /\ ~stopped
  /\ WGoto(Scheduler, "refresh")
  /\ UNCHANGED <<primaryVars, zoneVars, windowVars, lifeVars, hpc, hserial, late, row, got, xfer,
                 historyVars>>

\* Mutant: transfers of one zone overlap.
TakeSlotAlways(w) ==
  /\ wpc[w] = "refresh"
  /\ xfer' = w
  /\ WGoto(w, "fetch")
  /\ UNCHANGED <<primaryVars, zoneVars, windowVars, lifeVars, hpc, hserial, late, row, got,
                 historyVars>>

TakeSlot(w) ==
  /\ wpc[w] = "refresh" /\ xfer = None
  /\ xfer' = w
  /\ WGoto(w, "fetch")
  /\ UNCHANGED <<primaryVars, zoneVars, windowVars, lifeVars, hpc, hserial, late, row, got,
                 historyVars>>

fetch(w) ==
  /\ wpc[w] = "fetch"
  /\ got' = [got EXCEPT ![w] = theirs]
  /\ WGoto(w, "install")
  /\ UNCHANGED <<primaryVars, zoneVars, windowVars, lifeVars, hpc, hserial, late, row, xfer,
                 historyVars>>

install(w) ==
  /\ wpc[w] = "install"
  /\ ours' = got[w] /\ refreshed' = TRUE
  /\ xfer' = None
  /\ WGoto(w, "none")
  /\ got' = [got EXCEPT ![w] = None]
  /\ UNCHANGED <<primaryVars, windowVars, lifeVars, hpc, hserial, late, row, historyVars>>

\* A store read, the probe, the wait for the slot, the transfer or its commit
\* fails, or the worker's context ends; nothing is retried here.
Fail(w) ==
  /\ wpc[w] \in {"pass", "probe", "refresh", "fetch", "install"}
  /\ xfer' = IF xfer = w THEN None ELSE xfer
  /\ lost' = (lost \/ w # Scheduler)
  /\ WGoto(w, "none")
  /\ unseen' = (unseen /\ wpc[w] # "pass")
  /\ row' = [row EXCEPT ![w] = None] /\ got' = [got EXCEPT ![w] = None]
  /\ UNCHANGED <<primaryVars, zoneVars, windowVars, lifeVars, hpc, hserial, late, told>>

-----------------------------------------------------------------------------
(* Run: stop admitting, cancel, wait.                                      *)

Stop ==
  /\ ~stopped
  /\ stopped' = TRUE
  /\ UNCHANGED <<primaryVars, zoneVars, windowVars, cancelled, down, hpc, hserial, workVars,
                 historyVars>>

stopWork ==
  /\ stopped /\ ~cancelled
  /\ cancelled' = TRUE
  /\ UNCHANGED <<primaryVars, zoneVars, windowVars, stopped, down, hpc, hserial, workVars,
                 historyVars>>

Wait ==
  /\ cancelled /\ ~down
  /\ \A w \in Workers : wpc[w] = "none"
  /\ down' = TRUE
  /\ UNCHANGED <<primaryVars, zoneVars, windowVars, stopped, cancelled, hpc, hserial, workVars,
                 historyVars>>

-----------------------------------------------------------------------------
Next ==
  \/ Edit \/ Elapse \/ Schedule \/ Stop \/ stopWork \/ Wait
  \/ \E h \in Handlers : Receive(h) \/ admit(h) \/ startWork(h)
  \/ \E w \in Workers :
       waitOutWindow(w) \/ GiveUp(w) \/ claimDeferred(w) \/ ReadRow(w) \/ ProbeSerial(w)
  \/ \E w \in Transfers : TakeSlot(w) \/ fetch(w) \/ install(w) \/ Fail(w)

Spec == Init /\ [][Next]_vars

\* Goroutines that can run do, time passes, and the slot's channel serves its
\* senders in order.  No NOTIFY, edit, failure or shutdown is promised.
FairSpec ==
  /\ Spec
  /\ WF_vars(Elapse) /\ WF_vars(stopWork) /\ WF_vars(Wait)
  /\ \A h \in Handlers : WF_vars(admit(h) \/ startWork(h))
  /\ \A w \in Workers : WF_vars(waitOutWindow(w) \/ (cancelled /\ GiveUp(w)))
                        /\ WF_vars(claimDeferred(w) \/ ReadRow(w) \/ ProbeSerial(w))
  /\ \A w \in Transfers : WF_vars(fetch(w) \/ install(w)) /\ SF_vars(TakeSlot(w))

-----------------------------------------------------------------------------
\* Types of the window, the workers and the copy they install.
TypeOK ==
  /\ theirs \in Serials /\ ours \in Serials /\ edits \in 0..MaxEdits
  /\ refreshed \in BOOLEAN
  /\ window \in {"none", "open", "past"} /\ deferred \in BOOLEAN
  /\ stopped \in BOOLEAN /\ cancelled \in BOOLEAN /\ down \in BOOLEAN
  /\ hpc \in [Handlers -> {"idle", "admit", "run", "defer"}]
  /\ hserial \in [Handlers -> Serials \cup {None}]
  /\ wpc \in [Transfers -> {"none", "wait", "claim", "pass", "probe", "refresh", "fetch",
                            "install"}]
  /\ late \in [Transfers -> BOOLEAN]
  /\ row \in [Transfers -> Serials \cup {None}]
  /\ got \in [Transfers -> Serials \cup {None}]
  /\ xfer \in Transfers \cup {None}
  /\ told \in Serials \cup {None} /\ unseen \in BOOLEAN /\ lost \in BOOLEAN

Quiet == (\A h \in Handlers : hpc[h] = "idle") /\ (\A w \in Transfers : wpc[w] = "none")

\* When nothing is left running, the zone holds every edit it was told of: a
\* NOTIFY that lands inside the throttle window, or after the window's probe
\* has already asked, is never the last word (notifyThrottle, act).
QuietIsCurrent ==
  (Quiet /\ ~lost /\ ~stopped /\ told # None) =>
    refreshed /\ (ours = told \/ SerialNewer(ours, told))

\* The copy served never goes back to an older version of the same primary:
\* transfers of one zone do not overlap (zoneState.xfer).
CopyNeverOlder ==
  [][refreshed => (ours' = ours \/ SerialNewer(ours', ours))]_vars

\* Once Run has returned and the store may close, no worker is running and none
\* is ever started (startWork, Run).
NoWorkWhenDown == down => \A w \in Workers : wpc[w] = "none"

\* Every admitted NOTIFY is followed by a pass, unless the server stops.
EveryNotifySeen == unseen ~> (~unseen \/ stopped)

\* Shutdown is bounded: whatever was running, Run returns.
ShutdownEnds == stopped ~> down
=============================================================================
