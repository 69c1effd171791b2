----------------------------- MODULE Secondary -----------------------------
(***************************************************************************)
(* The row of one secondary zone and everything that writes it: the        *)
(* refresh schedule (zones/refresh.go), the SOA check and the transfer     *)
(* (zones/transfer.go), and the API's PATCH (api/zones_handlers.go), which *)
(* reads, merges and writes the whole row if modified_at has not moved.    *)
(*                                                                         *)
(* Zones share nothing here: the transfer slot and the back-off are per    *)
(* zone.  Times are milliseconds in the program, abstract ticks here.      *)
(***************************************************************************)
EXTENDS Serial, FiniteSets

CONSTANTS
  Scheduled,   \* the worker RefreshDue has for the zone
  Forced,      \* callers of Refresh: the button, a NOTIFY's work
  Operators,   \* clients in handleZonePatch
  None,        \* no value
  Refresh,     \* refreshIntervalMs: SOA refresh, clamped, or half the expiry
  Retry,       \* intervalMs(soa_retry)
  Expire,      \* soa_expire
  Spread,      \* startupSpread
  Settings,    \* types and enabled flags a PATCH may give the zone
  Starts,      \* serials the primary may be at when the zone is created
  SameMillis,  \* whether two writes may store the same millisecond in modified_at
  MaxEdits,    \* bound on the primary's edits
  MaxPatches,  \* bound on PATCHes accepted or in flight
  MaxTime,     \* bound on the clock
  Spent        \* what a behaviour may start with of the first two bounds used up

Attempts == {Scheduled} \cup Forced
zonePatchAttempts == 2
Types == {"secondary", "primary"}

ASSUME SecondaryAssumption ==
  /\ Scheduled \notin Forced /\ None \notin Attempts /\ None \notin Serials
  /\ Settings \subseteq [type: Types, enabled: BOOLEAN]
  /\ Starts \subseteq Serials /\ SameMillis \in BOOLEAN
  /\ {Refresh, Retry, Expire, Spread} \subseteq Nat \ {0}
  /\ {MaxEdits, MaxPatches, MaxTime} \subseteq Nat
  /\ Spent \subseteq [edits: 0..MaxEdits, patches: 0..MaxPatches]

\* The columns updateZoneSQL binds: configuration, SOA, stamps.  Every operator
\* edits a column of its own.
Row == [type: Types, enabled: BOOLEAN, edit: [Operators -> Nat], serial: Serials,
        refreshed: Nat, expires: Nat, modified: Nat]

VARIABLES
  now,        \* the clock
  theirs,     \* the serial the primary serves
  edits,      \* how many edits it has had
  row,        \* the zone's row in the store
  recs,       \* the version its records are of, by serial; None before the first transfer
  snap,       \* what the answering path knows of the row
  xfer,       \* zoneState.xfer: who holds the slot
  notBefore,  \* zoneState.notBefore
  pc,         \* where every attempt is
  listed,     \* the refreshed_at in the row that the pass under way read
  copy,       \* the row an attempt read
  got,        \* the version it fetched
  opc,        \* where every PATCH is
  before,     \* the row a PATCH read
  tries,      \* how often it has read it
  patches,    \* how many PATCHes have been accepted
  accepted,   \* history: the value of its column a client was last told was saved
  gap,        \* history: a PATCH was accepted between an install's re-read and commit
  stamped,    \* history: every modified_at stored so far, kept unless SameMillis
  contact,    \* history: when the primary last confirmed what the row says
  quiet,      \* history: until when a failed attempt asked for the primary to be left alone
  crossed,    \* history: an attempt ended since the pass under way read the rows
  undone      \* history: a PATCH has put back stamps older than the last contact

clockVars == <<now, theirs, edits>>
storeVars == <<row, recs, snap, stamped>>
attemptVars == <<xfer, notBefore, pc, listed, copy, got>>
patchVars == <<opc, before, tries, patches, accepted, gap>>
askVars == <<contact, quiet, crossed, undone>>
vars == <<clockVars, storeVars, attemptVars, patchVars, askVars>>

\* What decides whether a zone answers.
Answering(z) == [type |-> z.type, refreshed |-> z.refreshed, expires |-> z.expires]

\* handleZoneCreate: placeholder serial 1, no stamps.
Init ==
  /\ now = 1 /\ theirs \in Starts
  /\ \E s \in Spent : edits = s.edits /\ patches = s.patches
  /\ row = [type |-> "secondary", enabled |-> TRUE, edit |-> [o \in Operators |-> 0],
            serial |-> 1, refreshed |-> 0, expires |-> 0, modified |-> 0]
  /\ recs = None /\ snap = Answering(row)
  /\ xfer = None /\ notBefore = 0
  /\ pc = [a \in Attempts |-> "idle"]
  /\ listed = 0 /\ copy = [a \in Attempts |-> None] /\ got = [a \in Attempts |-> None]
  /\ opc = [o \in Operators |-> "idle"]
  /\ before = [o \in Operators |-> None]
  /\ tries = [o \in Operators |-> 0]
  /\ accepted = row.edit /\ gap = FALSE
  /\ contact = 0 /\ quiet = 0 /\ crossed = FALSE /\ undone = FALSE
  /\ stamped = IF SameMillis THEN {} ELSE {row.modified}

\* A write stores m in modified_at: unless SameMillis, a value never stored before.
Stamp(m) ==
  IF SameMillis THEN UNCHANGED stamped ELSE m \notin stamped /\ stamped' = stamped \cup {m}

Goto(a, l) == pc' = [pc EXCEPT ![a] = l]

Forget(a) == copy' = [copy EXCEPT ![a] = None] /\ got' = [got EXCEPT ![a] = None]

\* The row is written: only the reload is left.
Done(a) == Goto(a, "reload") /\ Forget(a)

\* The attempt is over: the slot is released.
Release(a) == Goto(a, "idle") /\ xfer' = None /\ Forget(a)

-----------------------------------------------------------------------------
Tick ==
  /\ now < MaxTime /\ now' = now + 1
  /\ UNCHANGED <<theirs, edits, storeVars, attemptVars, patchVars, askVars>>

Edit ==
  /\ edits < MaxEdits
  /\ theirs' = Bump(theirs) /\ edits' = edits + 1
  /\ UNCHANGED <<now, storeVars, attemptVars, patchVars, askVars>>

\* Mutant: a zone that has been transferred once answers for ever.
ServingOnceTransferred(z) == z.type # "secondary" \/ z.refreshed # 0

\* Zone.Serving: a secondary answers between its first transfer and its expiry.
Serving(z) ==
  z.type # "secondary" \/ (z.refreshed # 0 /\ (z.expires = 0 \/ now < z.expires))

-----------------------------------------------------------------------------
(* Refresher: when an attempt is made.                                     *)

\* Mutant: the back-off after a failure is not looked at.
dueIgnoringBackoff(refreshed) == refreshed = 0 \/ now >= refreshed + Refresh

due(refreshed) ==
  /\ now >= notBefore
  /\ refreshed = 0 \/ now >= refreshed + Refresh

\* The history of a pass ends when it asks the primary or leaves the zone out.
StillCrossed == crossed' = (crossed /\ pc'[Scheduled] \in {"listed", "due", "row"})

\* RefreshDue, a pass: it reads the rows, and skips a zone that is not a
\* secondary or is disabled.
ListZones ==
  /\ pc[Scheduled] = "idle"
  /\ row.type = "secondary" /\ row.enabled
  /\ listed' = row.refreshed
  /\ crossed' = FALSE
  /\ Goto(Scheduled, "listed")
  /\ UNCHANGED <<clockVars, storeVars, xfer, notBefore, copy, got, patchVars, contact, quiet, undone>>

\* The zone is tried if it is due by the row it was read with and the back-off
\* it has now.
RefreshDue ==
  /\ pc[Scheduled] = "listed"
  /\ Goto(Scheduled, IF due(listed) THEN "due" ELSE "idle")
  /\ listed' = 0
  /\ StillCrossed
  /\ UNCHANGED <<clockVars, storeVars, xfer, notBefore, copy, got, patchVars, contact, quiet, undone>>

\* The zone's goroutine takes a free slot, whatever has happened since; a busy
\* one means the zone is skipped.
TakeOrSkip ==
  /\ pc[Scheduled] = "due"
  /\ IF xfer = None THEN xfer' = Scheduled /\ Goto(Scheduled, "row")
                    ELSE xfer' = xfer /\ Goto(Scheduled, "idle")
  /\ StillCrossed
  /\ UNCHANGED <<clockVars, storeVars, notBefore, listed, copy, got, patchVars, contact, quiet, undone>>

\* Refresh: waits for the slot.
RefreshNow(a) ==
  /\ a \in Forced /\ pc[a] = "idle"
  /\ xfer = None /\ xfer' = a
  /\ Goto(a, "row")
  /\ UNCHANGED <<clockVars, storeVars, notBefore, listed, copy, got, patchVars, askVars>>

\* The row is read again under the slot.  Only a scheduled attempt on a zone
\* that has been transferred before asks for the serial first (Sync).
ReadRow(a) ==
  /\ pc[a] = "row" /\ row.type = "secondary"
  /\ IF a = Scheduled /\ row.refreshed # 0
     THEN copy' = [copy EXCEPT ![a] = row] /\ Goto(a, "probe")
     ELSE UNCHANGED copy /\ Goto(a, "fetch")
  /\ StillCrossed
  /\ UNCHANGED <<clockVars, storeVars, xfer, notBefore, listed, got, patchVars, contact, quiet, undone>>

\* The SOA probe answers, or fails and the transfer is tried anyway.
Probe(a) ==
  /\ pc[a] = "probe"
  /\ \/ SerialNewer(theirs, copy[a].serial) /\ Goto(a, "fetch")
     \/ ~SerialNewer(theirs, copy[a].serial) /\ Goto(a, "check")
     \/ Goto(a, "fetch")
  /\ copy' = [copy EXCEPT ![a] = None]
  /\ UNCHANGED <<clockVars, storeVars, xfer, notBefore, listed, got, patchVars, askVars>>

\* markChecked reads the row again; a retyped zone is not stamped.
Check(a) ==
  /\ pc[a] = "check" /\ row.type = "secondary"
  /\ copy' = [copy EXCEPT ![a] = [row EXCEPT !.refreshed = now, !.expires = now + Expire]]
  /\ Goto(a, "stamp")
  /\ UNCHANGED <<clockVars, storeVars, xfer, notBefore, listed, got, patchVars, askVars>>

\* NoteRefreshed: two columns, and modified_at stays.
NoteRefreshed(a) ==
  /\ pc[a] = "stamp"
  /\ row' = [row EXCEPT !.refreshed = copy[a].refreshed, !.expires = copy[a].expires]
  /\ contact' = copy[a].refreshed /\ undone' = FALSE
  /\ Done(a)
  /\ UNCHANGED <<clockVars, recs, snap, stamped, xfer, notBefore, listed, patchVars, quiet, crossed>>

-----------------------------------------------------------------------------
(* Transfer.                                                               *)

Fetch(a) ==
  /\ pc[a] = "fetch"
  /\ got' = [got EXCEPT ![a] = theirs]
  /\ Goto(a, "install")
  /\ UNCHANGED <<clockVars, storeVars, xfer, notBefore, listed, copy, patchVars, askVars>>

\* contentChanged: the records or the SOA differ.
contentChanged(a) == recs # got[a] \/ row.serial # got[a]

\* Mutant: the records are replaced and the row keeps its own serial.
InstalledOwnSerial(a, z) ==
  [z EXCEPT !.refreshed = now, !.expires = now + Expire,
            !.modified = IF contentChanged(a) THEN now ELSE @]

\* The row to be committed: z with the primary's SOA and new stamps.
Installed(a, z) ==
  [z EXCEPT !.serial = got[a], !.refreshed = now, !.expires = now + Expire,
            !.modified = IF contentChanged(a) THEN now ELSE @]

\* Mutant: the row is read once more, but not its type.
RereadAnyType(a) ==
  /\ pc[a] = "install"
  /\ copy' = [copy EXCEPT ![a] = Installed(a, row)]
  /\ Goto(a, "commit")
  /\ UNCHANGED <<clockVars, storeVars, xfer, notBefore, listed, got, patchVars, askVars>>

\* install reads the row once more; a zone retyped meanwhile is left alone.
Reread(a) ==
  /\ pc[a] = "install" /\ row.type = "secondary"
  /\ copy' = [copy EXCEPT ![a] = Installed(a, row)]
  /\ Goto(a, "commit")
  /\ UNCHANGED <<clockVars, storeVars, xfer, notBefore, listed, got, patchVars, askVars>>

\* ReplaceRecords: records and the whole row in one transaction, unconditionally.
ReplaceRecords(a) ==
  /\ pc[a] = "commit"
  /\ row' = copy[a] /\ recs' = got[a]
  /\ IF recs = got[a] THEN UNCHANGED stamped ELSE Stamp(copy[a].modified)
  /\ contact' = copy[a].refreshed /\ undone' = FALSE
  /\ Done(a)
  /\ UNCHANGED <<clockVars, snap, xfer, notBefore, listed, patchVars, quiet, crossed>>

\* The reload after a write; it may fail and leave the snapshot as it was.
Reload == snap' \in {Answering(row), snap}

\* A pass has read the rows and has not asked the primary yet.
Deciding == pc[Scheduled] \in {"listed", "due"}

\* noteSuccess.
Succeed(a) ==
  /\ pc[a] = "reload"
  /\ Reload
  /\ notBefore' = 0
  /\ quiet' = 0 /\ crossed' = Deciding
  /\ Release(a)
  /\ UNCHANGED <<clockVars, row, recs, stamped, listed, patchVars, contact, undone>>

Attempting(a) == pc[a] \notin {"idle", "listed", "due", "reload"}

\* Any step but the reload fails, a retyped row included: noteFailure.
Fail(a) ==
  /\ Attempting(a)
  /\ notBefore' = now + Retry
  /\ quiet' = now + Retry /\ crossed' = Deciding
  /\ Release(a)
  /\ UNCHANGED <<clockVars, storeVars, listed, patchVars, contact, undone>>

\* The row cannot be read under the slot, or the caller that asked for the
\* attempt goes away and a step fails of it: nothing is noted.
Abandon(a) ==
  /\ Attempting(a) /\ (pc[a] = "row" \/ a \in Forced)
  /\ Release(a)
  /\ UNCHANGED <<clockVars, storeVars, notBefore, listed, patchVars, askVars>>

-----------------------------------------------------------------------------
(* PATCH /zones/{id}.                                                      *)

Writing == {o \in Operators : opc[o] = "write"}

PatchRead(o) ==
  /\ opc[o] = "idle" /\ patches + Cardinality(Writing) < MaxPatches
  /\ before' = [before EXCEPT ![o] = row]
  /\ tries' = [tries EXCEPT ![o] = 1]
  /\ opc' = [opc EXCEPT ![o] = "write"]
  /\ UNCHANGED <<clockVars, storeVars, attemptVars, patches, accepted, gap, askVars>>

\* Mutant: the row is written whatever has happened to it since.
UnchangedAlways(o) == TRUE

\* UpdateZoneIfUnchanged's predicate.
Unchanged(o) == row.modified = before[o].modified

\* modified_at is made strictly greater than the value read.
Bumped(o) == IF now > before[o].modified THEN now ELSE before[o].modified + 1

PatchWrite(o) ==
  /\ opc[o] = "write" /\ Unchanged(o)
  /\ \E s \in Settings :
       row' = [before[o] EXCEPT !.edit[o] = @ + 1, !.type = s.type, !.enabled = s.enabled,
                                !.modified = Bumped(o)]
  /\ Stamp(Bumped(o))
  /\ accepted' = [accepted EXCEPT ![o] = before[o].edit[o] + 1]
  /\ gap' = (gap \/ \E a \in Attempts : pc[a] = "commit")
  /\ patches' = patches + 1
  /\ opc' = [opc EXCEPT ![o] = "reload"]
  /\ before' = [before EXCEPT ![o] = None] /\ tries' = [tries EXCEPT ![o] = 0]
  /\ undone' = (undone \/ before[o].refreshed # row.refreshed)
  /\ UNCHANGED <<clockVars, recs, snap, attemptVars, contact, quiet, crossed>>

RetryAllowed(o) == tries[o] < zonePatchAttempts

\* ErrStale: merge again once, then 409.
PatchStale(o) ==
  /\ opc[o] = "write" /\ ~Unchanged(o)
  /\ IF RetryAllowed(o)
     THEN /\ before' = [before EXCEPT ![o] = row]
          /\ tries' = [tries EXCEPT ![o] = @ + 1]
          /\ UNCHANGED opc
     ELSE /\ before' = [before EXCEPT ![o] = None]
          /\ tries' = [tries EXCEPT ![o] = 0]
          /\ opc' = [opc EXCEPT ![o] = "idle"]
  /\ UNCHANGED <<clockVars, storeVars, attemptVars, patches, accepted, gap, askVars>>

PatchReload(o) ==
  /\ opc[o] = "reload"
  /\ Reload
  /\ opc' = [opc EXCEPT ![o] = "idle"]
  /\ UNCHANGED <<clockVars, row, recs, stamped, attemptVars, before, tries, patches, accepted, gap, askVars>>

-----------------------------------------------------------------------------
\* firstAttempt: a zone that fell due while the process was down is spread
\* out, but never past its expiry.
FirstAttempts(z) ==
  IF ~Serving(z) \/ now < z.refreshed + Refresh THEN {0}
  ELSE now..(now + (IF z.expires # 0 /\ z.expires - now < Spread THEN z.expires - now ELSE Spread) - 1)

\* A crash and restart: the store survives, every process and its memory goes.
Restart ==
  /\ snap' = Answering(row)
  /\ xfer' = None /\ notBefore' \in FirstAttempts(row)
  /\ pc' = [a \in Attempts |-> "idle"]
  /\ listed' = 0 /\ copy' = [a \in Attempts |-> None] /\ got' = [a \in Attempts |-> None]
  /\ opc' = [o \in Operators |-> "idle"]
  /\ before' = [o \in Operators |-> None] /\ tries' = [o \in Operators |-> 0]
  /\ quiet' = 0 /\ crossed' = FALSE
  /\ UNCHANGED <<clockVars, row, recs, stamped, patches, accepted, gap, contact, undone>>

Next ==
  \/ Tick \/ Edit \/ ListZones \/ RefreshDue \/ TakeOrSkip \/ Restart
  \/ \E a \in Forced : RefreshNow(a)
  \/ \E a \in Attempts :
       \/ ReadRow(a) \/ Probe(a) \/ Check(a) \/ NoteRefreshed(a)
       \/ Fetch(a) \/ Reread(a) \/ ReplaceRecords(a) \/ Succeed(a) \/ Fail(a)
       \/ Abandon(a)
  \/ \E o \in Operators : PatchRead(o) \/ PatchWrite(o) \/ PatchStale(o) \/ PatchReload(o)

Spec == Init /\ [][Next]_vars

-----------------------------------------------------------------------------
OrNone(S) == S \cup {None}

\* Types of the zones row, of the stamps and of the attempts that read them.
TypeOK ==
  /\ now \in Nat /\ theirs \in Serials /\ edits \in 0..MaxEdits
  /\ row \in Row /\ recs \in OrNone(Serials) /\ snap \in [type: Types, refreshed: Nat, expires: Nat]
  /\ xfer \in OrNone(Attempts) /\ notBefore \in Nat
  /\ pc \in [Attempts -> {"idle", "listed", "due", "row", "probe", "check", "stamp", "fetch", "install",
                          "commit", "reload"}]
  /\ listed \in Nat /\ copy \in [Attempts -> OrNone(Row)] /\ got \in [Attempts -> OrNone(Serials)]
  /\ opc \in [Operators -> {"idle", "write", "reload"}]
  /\ before \in [Operators -> OrNone(Row)]
  /\ tries \in [Operators -> 0..zonePatchAttempts] /\ patches \in 0..MaxPatches
  /\ accepted \in [Operators -> Nat] /\ gap \in BOOLEAN
  /\ stamped \subseteq Nat /\ contact \in Nat /\ quiet \in Nat
  /\ crossed \in BOOLEAN /\ undone \in BOOLEAN

\* The row's serial names the records it holds, whatever PATCHes, transfers and
\* crashes interleave: "Records that committed while the serial that describes
\* them did not is the one inconsistency nothing downstream can detect"
\* (ZoneStore.ReplaceRecords).
SerialNamesRecords == recs # None => recs = row.serial

\* A column a client was told was saved keeps its value, unless the PATCH landed
\* between an install's second read of the row and its commit (install,
\* handleZonePatch): neither a long transfer nor another PATCH undoes it.
EditsSurviveTransfers == ~gap => row.edit = accepted

\* The zone never answers later than Expire after the primary last confirmed
\* it, through failed refreshes, stale snapshots and restarts (Zone.Serving).
NeverServedPastExpiry ==
  (snap.type = "secondary" /\ row.type = "secondary" /\ Serving(snap)) => now < contact + Expire

\* A zone the operator has made a primary keeps the records it has: the transfer
\* that was running finds out before it commits (install), short of the gap above.
RetypedZoneIsLeftAlone == [][(row.type = "primary" /\ ~gap) => recs' = recs]_vars

\* The schedule asks the primary, once it has the slot, no sooner than the retry
\* interval after a failure and the refresh interval after the last contact
\* (due, noteFailure, noteSuccess).  There are two exceptions: an attempt, such as
\* a forced one, that ended between the pass's read of the rows and the slot,
\* which nothing looks at again (RefreshDue); and a PATCH that read the row
\* before a check, or before a transfer that changed nothing, and put its stamps
\* back, which lasts until the next contact.
ScheduleKeepsItsDistance ==
  [][(pc[Scheduled] = "row" /\ pc'[Scheduled] \in {"probe", "fetch"}) =>
       \/ crossed \/ undone
       \/ now >= quiet /\ (contact # 0 => now >= contact + Refresh)]_vars
=============================================================================
