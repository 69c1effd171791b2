-------------------------- MODULE SecondaryProofs --------------------------
(***************************************************************************)
(* What the row of a secondary zone guarantees for any number of callers   *)
(* of Refresh and of clients that PATCH, any intervals and any serial      *)
(* space.  What holds for rows that were written within one millisecond is *)
(* proved without a condition; the rest for writes that fall into          *)
(* different ones (~SameMillis): modified_at is the version that PATCH     *)
(* compares.                                                               *)
(***************************************************************************)
EXTENDS Secondary, FiniteSetTheorems, TLAPS

-----------------------------------------------------------------------------
(* The serial an edit leaves (zones/serial.go), for any even serial space. *)

\* The remainder of a number that one turn brings into range.
LEMMA Turn ==
  /\ \A x \in Int : 0 <= x /\ x < Modulus => x % Modulus = x
  /\ \A x \in Int : -Modulus <= x /\ x < 0 => x % Modulus = x + Modulus
BY ModulusAssumption

\* The increment without the remainder (bumpSerialSQL).
LEMMA BumpIs ==
  \A s \in Serials : Bump(s) = IF s = Modulus - 1 THEN 0 ELSE s + 1
<1> SUFFICES ASSUME NEW s \in Serials PROVE Bump(s) = IF s = Modulus - 1 THEN 0 ELSE s + 1
  OBVIOUS
<1>1. CASE s = Modulus - 1
  BY <1>1, ModulusAssumption DEF Bump, Serials
<1>2. CASE s # Modulus - 1
  BY <1>2, Turn, ModulusAssumption DEF Bump, Serials
<1> QED BY <1>1, <1>2

\* The incremented serial stays in the serial space.
LEMMA BumpType == \A s \in Serials : Bump(s) \in Serials
BY BumpIs, ModulusAssumption DEF Serials

-----------------------------------------------------------------------------
\* The PATCHes in flight are counted, and each holds the row it read.
PatchInv ==
  /\ IsFiniteSet(Writing) /\ patches + Cardinality(Writing) <= MaxPatches
  /\ \A o \in Writing : before[o] \in Row

\* One attempt at a time is under way, and holds what its place says it read.
SlotInv ==
  \A a \in Attempts :
    /\ pc[a] \notin {"idle", "listed", "due"} => xfer = a
    /\ pc[a] \in {"probe", "stamp", "commit"} => copy[a] \in Row
    /\ pc[a] \in {"install", "commit"} => got[a] \in Serials
    /\ pc[a] = "commit" => copy[a].serial = got[a]

SecondaryInv == TypeOK /\ PatchInv /\ SlotInv

\* Stamps of one moment: the expiry belongs to a contact that has happened.
Dated(z) == z.refreshed <= contact /\ (z.refreshed # 0 => z.expires = z.refreshed + Expire)

\* Every row anyone holds is dated, and what is about to be written is dated
\* no earlier than the last contact (markChecked, install).
ExpiryInv ==
  /\ 0 < now /\ contact <= now
  /\ Dated(row) /\ Dated(snap) /\ \A o \in Writing : Dated(before[o])
  /\ \A a \in Attempts : pc[a] \in {"stamp", "commit"} =>
       /\ contact <= copy[a].refreshed /\ 0 < copy[a].refreshed /\ copy[a].refreshed <= now
       /\ copy[a].expires = copy[a].refreshed + Expire

\* Until a PATCH lands in the gap, what is to be committed differs from the row
\* in nothing that a PATCH writes.
GapInv ==
  \A a \in Attempts : pc[a] = "commit" /\ ~gap =>
    row.type = "secondary" /\ copy[a].edit = row.edit

\* A transfer about to commit the records the zone has already.
Keeps(a) == pc[a] = "commit" /\ got[a] = recs

\* A row that a PATCH holds under the version the store has is the row it would
\* overwrite: of these records, as transferred, and with these edits.
VersionInv ==
  /\ row.modified \in stamped
  /\ \A o \in Writing : before[o].modified \in stamped
  /\ \A o \in Writing : before[o].modified = row.modified =>
       /\ before[o].serial = row.serial
       /\ recs # None => before[o].refreshed # 0
       /\ ~gap => before[o].edit = row.edit

\* The same of a commit that will put the version it read back.
KeepsInv ==
  \A a \in Attempts : Keeps(a) =>
    /\ copy[a].modified \in stamped
    /\ ~gap => copy[a].modified = row.modified
    /\ \A o \in Writing : before[o].modified = copy[a].modified =>
         before[o].serial = copy[a].serial /\ before[o].refreshed # 0

\* A zone has records from its first transfer on, and only one that has is
\* checked.
RecordsInv ==
  /\ recs # None <=> row.refreshed # 0
  /\ \A o \in Writing : before[o].refreshed # 0 => recs # None
  /\ \A a \in Attempts : pc[a] \in {"probe", "check", "stamp", "reload"} => recs # None

RowInv == SerialNamesRecords /\ EditsSurviveTransfers /\ VersionInv /\ KeepsInv /\ RecordsInv

-----------------------------------------------------------------------------
(* Types, the slot and the rows PATCHes hold.                              *)

\* The constants are numbers.
LEMMA Numbers ==
  /\ {Refresh, Retry, Expire, Spread, MaxEdits, MaxPatches, MaxTime} \subseteq Nat
  /\ Expire > 0 /\ None \notin Serials /\ None \notin Attempts
  /\ Scheduled \in Attempts /\ Forced \subseteq Attempts
BY SecondaryAssumption DEF Attempts

\* The row install writes: the fetched serial, new stamps and a version that
\* moves when the content does.
LEMMA InstalledRow ==
  ASSUME TypeOK, NEW a \in Attempts, got[a] \in Serials
  PROVE  /\ Installed(a, row) \in Row
         /\ Installed(a, row).serial = got[a] /\ Installed(a, row).refreshed = now
         /\ Installed(a, row).expires = now + Expire /\ Installed(a, row).edit = row.edit
         /\ Installed(a, row).modified = IF contentChanged(a) THEN now ELSE row.modified
<1>1. row \in Row /\ now \in Nat /\ now + Expire \in Nat
  BY Numbers DEF TypeOK
<1>2. (IF contentChanged(a) THEN now ELSE row.modified) \in Nat
  BY <1>1 DEF Row
<1>3. Installed(a, row) = [row EXCEPT !.serial = got[a], !.refreshed = now, !.expires = now + Expire,
                             !.modified = IF contentChanged(a) THEN now ELSE row.modified]
  BY DEF Installed
<1> DEFINE m == IF contentChanged(a) THEN now ELSE row.modified
<1> HIDE DEF m
<1>4. m \in Nat
  BY <1>2 DEF m
<1>5. Installed(a, row) = [row EXCEPT !.serial = got[a], !.refreshed = now, !.expires = now + Expire,
                             !.modified = m]
  BY <1>3 DEF m
<1>6. Installed(a, row).modified = m
  BY <1>1, <1>5 DEF Row
<1>7. Installed(a, row) \in Row
  <2>1. [row EXCEPT !.serial = got[a], !.refreshed = now, !.expires = now + Expire, !.modified = m] \in Row
    BY <1>1, <1>4 DEF Row
  <2> QED BY <1>5, <2>1, Zenon
<1> QED BY <1>1, <1>5, <1>6, <1>7 DEF Row, m

\* The row a PATCH writes: what it read with its own columns and a version of
\* its own (handleZonePatch, updateZoneIfUnchangedSQL).
LEMMA PatchedRow ==
  ASSUME TypeOK, NEW o \in Operators, before[o] \in Row, NEW s \in Settings,
         row' = [before[o] EXCEPT !.edit[o] = @ + 1, !.type = s.type, !.enabled = s.enabled,
                                  !.modified = Bumped(o)]
  PROVE  /\ row' \in Row /\ Bumped(o) \in Nat
         /\ row'.serial = before[o].serial /\ row'.refreshed = before[o].refreshed
         /\ row'.expires = before[o].expires /\ row'.modified = Bumped(o)
         /\ row'.type = s.type
         /\ row'.edit = [before[o].edit EXCEPT ![o] = before[o].edit[o] + 1]
<1> DEFINE m == Bumped(o)
<1> DEFINE ed == [before[o].edit EXCEPT ![o] = before[o].edit[o] + 1]
<1>1. m \in Nat
  BY DEF Bumped, TypeOK, Row
<1>2. ed \in [Operators -> Nat]
  BY DEF Row
<1> DEFINE t == s.type
<1> DEFINE e == s.enabled
<1>3. /\ t \in Types /\ e \in BOOLEAN
      /\ row' = [before[o] EXCEPT !.edit = ed, !.type = t, !.enabled = e, !.modified = m]
  BY SecondaryAssumption DEF Row
<1> HIDE DEF m, ed, t, e
<1>4. /\ row' \in Row
      /\ row'.serial = before[o].serial /\ row'.refreshed = before[o].refreshed
      /\ row'.expires = before[o].expires /\ row'.modified = m /\ row'.edit = ed /\ row'.type = t
  BY <1>1, <1>2, <1>3 DEF Row
<1> QED BY <1>1, <1>4 DEF m, ed, t

\* What an accepted PATCH leaves in the row.
LEMMA PatchWrites ==
  ASSUME TypeOK, NEW o \in Operators, before[o] \in Row, PatchWrite(o)
  PROVE  /\ row' \in Row /\ Bumped(o) \in Nat
         /\ row'.serial = before[o].serial /\ row'.refreshed = before[o].refreshed
         /\ row'.expires = before[o].expires /\ row'.modified = Bumped(o)
         /\ row'.edit = [before[o].edit EXCEPT ![o] = before[o].edit[o] + 1]
<1>1. PICK s \in Settings :
        row' = [before[o] EXCEPT !.edit[o] = @ + 1, !.type = s.type, !.enabled = s.enabled,
                                 !.modified = Bumped(o)]
  BY DEF PatchWrite
<1> QED BY <1>1, PatchedRow

\* The first attempts after a restart are at times (firstAttempt).
LEMMA FirstAttemptsType == TypeOK => FirstAttempts(row) \subseteq Nat
<1> SUFFICES ASSUME TypeOK, NEW n \in FirstAttempts(row) PROVE n \in Nat
  OBVIOUS
<1>1. now \in Nat /\ Spread \in Nat /\ row.expires \in Nat
  BY Numbers DEF TypeOK, Row
<1>2. n = 0 \/ \E e \in Int : n \in now..e
  BY <1>1 DEF FirstAttempts
<1> QED BY <1>1, <1>2

\* A zone just created (handleZoneCreate).
LEMMA InitSecondary == Init => SecondaryInv
<1> SUFFICES ASSUME Init PROVE SecondaryInv
  OBVIOUS
<1>1. row \in Row
  BY ModulusAssumption DEF Init, Row, Types, Serials
<1>2. Writing = {}
  BY DEF Init, Writing
<1>3. PatchInv
  <2>1. IsFiniteSet({}) /\ Cardinality({}) = 0
    BY FS_EmptySet
  <2>2. patches \in 0..MaxPatches
    BY SecondaryAssumption DEF Init
  <2> QED BY <1>2, <2>1, <2>2, Numbers DEF PatchInv
<1>4. SlotInv
  BY DEF SlotInv, Init
<1>5. snap \in [type: Types, refreshed: Nat, expires: Nat]
  BY <1>1 DEF Init, Answering, Row
<1>6. stamped \subseteq Nat /\ accepted \in [Operators -> Nat]
  BY <1>1 DEF Init, Row
<1>7. gap \in BOOLEAN /\ crossed \in BOOLEAN /\ undone \in BOOLEAN
  BY Zenon DEF Init
<1>8. /\ now \in Nat /\ theirs \in Serials /\ edits \in 0..MaxEdits
      /\ patches \in 0..MaxPatches /\ contact \in Nat /\ quiet \in Nat /\ notBefore \in Nat
      /\ listed \in Nat
  BY Numbers, SecondaryAssumption DEF Init
<1>9. /\ recs \in OrNone(Serials) /\ xfer \in OrNone(Attempts)
      /\ copy \in [Attempts -> OrNone(Row)] /\ got \in [Attempts -> OrNone(Serials)]
      /\ before \in [Operators -> OrNone(Row)]
      /\ pc \in [Attempts -> {"idle", "listed", "due", "row", "probe", "check", "stamp", "fetch", "install",
                              "commit", "reload"}]
      /\ opc \in [Operators -> {"idle", "write", "reload"}]
      /\ tries \in [Operators -> 0..zonePatchAttempts]
  BY DEF Init, OrNone, zonePatchAttempts
<1>10. TypeOK
  BY <1>1, <1>5, <1>6, <1>7, <1>8, <1>9 DEF TypeOK
<1> QED BY <1>3, <1>4, <1>10 DEF SecondaryInv

\* The histories of a pass and of the stamps are flags.
LEMMA NextFlags == TypeOK /\ [Next]_vars => crossed' \in BOOLEAN /\ undone' \in BOOLEAN
<1> SUFFICES ASSUME TypeOK, [Next]_vars PROVE crossed' \in BOOLEAN /\ undone' \in BOOLEAN
  OBVIOUS
<1>0. crossed \in BOOLEAN /\ undone \in BOOLEAN
  BY DEF TypeOK
<1>1. CASE UNCHANGED askVars
  BY <1>0, <1>1, Zenon DEF askVars
<1>2. CASE Tick \/ Edit \/ UNCHANGED vars
  BY <1>1, <1>2, Zenon DEF Tick, Edit, vars
<1>3. CASE ListZones \/ RefreshDue \/ TakeOrSkip \/ Restart
  BY <1>0, <1>3, Zenon DEF ListZones, RefreshDue, TakeOrSkip, Restart, StillCrossed
<1>4. ASSUME NEW a \in Attempts,
             \/ a \in Forced /\ RefreshNow(a)
             \/ Probe(a) \/ Check(a) \/ Fetch(a) \/ Reread(a) \/ Abandon(a)
      PROVE  crossed' \in BOOLEAN /\ undone' \in BOOLEAN
  BY <1>1, <1>4, Zenon DEF RefreshNow, Probe, Check, Fetch, Reread, Abandon
<1>5. ASSUME NEW a \in Attempts,
             ReadRow(a) \/ NoteRefreshed(a) \/ ReplaceRecords(a) \/ Succeed(a) \/ Fail(a)
      PROVE  crossed' \in BOOLEAN /\ undone' \in BOOLEAN
  <2>1. CASE ReadRow(a)
    <3>1. undone' = undone /\ crossed' = (crossed /\ pc'[Scheduled] \in {"listed", "due", "row"})
      BY <2>1 DEF ReadRow, StillCrossed
    <3> QED BY <1>0, <3>1, Zenon
  <2>2. CASE NoteRefreshed(a) \/ ReplaceRecords(a)
    BY <1>0, <2>2, Zenon DEF NoteRefreshed, ReplaceRecords
  <2>3. CASE Succeed(a) \/ Fail(a)
    <3>1. undone' = undone /\ crossed' = Deciding
      BY <2>3 DEF Succeed, Fail
    <3>2. Deciding \in BOOLEAN
      BY DEF Deciding
    <3> QED BY <1>0, <3>1, <3>2, Zenon
  <2> QED BY <1>5, <2>1, <2>2, <2>3
<1>6. ASSUME NEW o \in Operators, PatchRead(o) \/ PatchStale(o) \/ PatchReload(o)
      PROVE  crossed' \in BOOLEAN /\ undone' \in BOOLEAN
  BY <1>1, <1>6, Zenon DEF PatchRead, PatchStale, PatchReload
<1>7. ASSUME NEW o \in Operators, PatchWrite(o)
      PROVE  crossed' \in BOOLEAN /\ undone' \in BOOLEAN
  BY <1>0, <1>7, Zenon DEF PatchWrite
<1> QED BY Numbers, <1>2, <1>3, <1>4, <1>5, <1>6, <1>7 DEF Next

\* Every step keeps every variable in its range.
LEMMA NextType == SecondaryInv /\ [Next]_vars => TypeOK'
<1> SUFFICES ASSUME SecondaryInv, [Next]_vars PROVE TypeOK'
  OBVIOUS
<1>b. crossed' \in BOOLEAN /\ undone' \in BOOLEAN
  BY NextFlags DEF SecondaryInv
<1> USE Numbers DEF SecondaryInv, TypeOK, clockVars, storeVars, attemptVars, patchVars, askVars, Goto, OrNone
<1>1. CASE Tick
  BY <1>1 DEF Tick
<1>2. CASE Edit
  <2>1. theirs' \in Serials
    BY <1>2, BumpType DEF Edit
  <2> QED BY <1>2, <2>1 DEF Edit
<1>3. CASE ListZones \/ RefreshDue \/ TakeOrSkip
  <2>1. listed' \in Nat
    BY <1>3 DEF ListZones, RefreshDue, TakeOrSkip, Row
  <2>2. pc' \in [Attempts -> {"idle", "listed", "due", "row", "probe", "check", "stamp", "fetch", "install",
                             "commit", "reload"}]
    BY <1>3 DEF ListZones, RefreshDue, TakeOrSkip
  <2> QED BY <1>3, <1>b, <2>1, <2>2 DEF ListZones, RefreshDue, TakeOrSkip
<1>4. CASE Restart
  <2>1. notBefore' \in Nat
    BY <1>4, FirstAttemptsType DEF Restart
  <2>2. snap' \in [type: Types, refreshed: Nat, expires: Nat]
    BY <1>4 DEF Restart, Answering, Row
  <2>3. tries' \in [Operators -> 0..zonePatchAttempts]
    BY <1>4 DEF Restart, zonePatchAttempts
  <2> QED BY <1>4, <1>b, <2>1, <2>2, <2>3 DEF Restart
<1>5. ASSUME NEW a \in Forced, RefreshNow(a) PROVE TypeOK'
  BY <1>5 DEF RefreshNow
<1>6. ASSUME NEW a \in Attempts, ReadRow(a) \/ Probe(a) PROVE TypeOK'
  <2>1. CASE ReadRow(a)
    <3>1. copy' \in [Attempts -> OrNone(Row)]
      BY <2>1 DEF ReadRow
    <3>2. pc' = [pc EXCEPT ![a] = "probe"] \/ pc' = [pc EXCEPT ![a] = "fetch"]
      BY <2>1 DEF ReadRow
    <3> QED BY <2>1, <1>b, <3>1, <3>2 DEF ReadRow
  <2>2. CASE Probe(a)
    <3>1. pc' = [pc EXCEPT ![a] = "check"] \/ pc' = [pc EXCEPT ![a] = "fetch"]
      BY <2>2 DEF Probe
    <3> QED BY <2>2, <3>1 DEF Probe
  <2> QED BY <1>6, <2>1, <2>2
<1>7. ASSUME NEW a \in Attempts, Check(a) PROVE TypeOK'
  <2>1. now + Expire \in Nat
    OBVIOUS
  <2>2. [row EXCEPT !.refreshed = now, !.expires = now + Expire] \in Row
    BY <2>1 DEF Row
  <2> QED BY <1>7, <2>2 DEF Check
<1>8. ASSUME NEW a \in Attempts, NoteRefreshed(a) PROVE TypeOK'
  <2>1. copy[a].refreshed \in Nat /\ copy[a].expires \in Nat
    BY <1>8 DEF NoteRefreshed, SlotInv, Row
  <2>2. [row EXCEPT !.refreshed = copy[a].refreshed, !.expires = copy[a].expires] \in Row
    BY <2>1 DEF Row
  <2> QED BY <1>8, <1>b, <2>1, <2>2 DEF NoteRefreshed, Done, Forget
<1>9. ASSUME NEW a \in Attempts, Fetch(a) PROVE TypeOK'
  BY <1>9 DEF Fetch
<1>10. ASSUME NEW a \in Attempts, Reread(a) PROVE TypeOK'
  <2>1. Installed(a, row) \in Row
    BY <1>10, InstalledRow DEF Reread, SlotInv
  <2> QED BY <1>10, <2>1 DEF Reread
<1>11. ASSUME NEW a \in Attempts, ReplaceRecords(a) PROVE TypeOK'
  <2>1. copy[a] \in Row /\ got[a] \in Serials
    BY <1>11 DEF ReplaceRecords, SlotInv
  <2>2. stamped' \subseteq Nat
    BY <1>11, <2>1 DEF ReplaceRecords, Stamp, Row
  <2> QED BY <1>11, <1>b, <2>1, <2>2 DEF ReplaceRecords, Done, Forget, Row
<1>12. ASSUME NEW a \in Attempts, Succeed(a) PROVE TypeOK'
  <2>1. snap' \in [type: Types, refreshed: Nat, expires: Nat]
    BY <1>12 DEF Succeed, Reload, Answering, Row
  <2> QED BY <1>12, <1>b, <2>1 DEF Succeed, Release, Forget
<1>13. ASSUME NEW a \in Attempts, Fail(a) \/ Abandon(a) PROVE TypeOK'
  <2>1. Release(a) /\ notBefore' \in Nat /\ quiet' \in Nat
    BY <1>13 DEF Fail, Abandon
  <2>2. UNCHANGED <<clockVars, storeVars, listed, patchVars, contact>>
    BY <1>13 DEF Fail, Abandon
  <2> QED BY <1>b, <2>1, <2>2 DEF Release, Forget
<1>14. ASSUME NEW o \in Operators, PatchRead(o) PROVE TypeOK'
  BY <1>14 DEF PatchRead, zonePatchAttempts
<1>15. ASSUME NEW o \in Operators, PatchWrite(o) PROVE TypeOK'
  <2>1. o \in Writing /\ before[o] \in Row
    BY <1>15 DEF PatchWrite, Writing, PatchInv
  <2>2. row' \in Row /\ Bumped(o) \in Nat
    BY <1>15, <2>1, PatchWrites
  <2>3. Cardinality(Writing) # 0 /\ Cardinality(Writing) \in Nat
    BY <2>1, FS_CardinalityType, FS_EmptySet DEF PatchInv
  <2>4. patches' \in 0..MaxPatches
    BY <1>15, <2>3 DEF PatchWrite, PatchInv
  <2>5. stamped' \subseteq Nat
    BY <1>15, <2>2 DEF PatchWrite, Stamp
  <2>6. gap' \in BOOLEAN
    BY <1>15, Zenon DEF PatchWrite
  <2>7. accepted' \in [Operators -> Nat]
    BY <1>15, <2>1 DEF PatchWrite, Row
  <2>8. /\ opc' = [opc EXCEPT ![o] = "reload"]
        /\ before' = [before EXCEPT ![o] = None] /\ tries' = [tries EXCEPT ![o] = 0]
        /\ UNCHANGED <<clockVars, recs, snap, attemptVars, contact, quiet>>
    BY <1>15 DEF PatchWrite
  <2> QED BY <1>b, <2>2, <2>4, <2>5, <2>6, <2>7, <2>8 DEF zonePatchAttempts
<1>16. ASSUME NEW o \in Operators, PatchStale(o) PROVE TypeOK'
  BY <1>16 DEF PatchStale, RetryAllowed, zonePatchAttempts
<1>17. ASSUME NEW o \in Operators, PatchReload(o) PROVE TypeOK'
  <2>1. snap' \in [type: Types, refreshed: Nat, expires: Nat]
    BY <1>17 DEF PatchReload, Reload, Answering, Row
  <2> QED BY <1>17, <2>1 DEF PatchReload
<1>18. CASE UNCHANGED vars
  BY <1>18 DEF vars
<1> QED
  BY <1>1, <1>2, <1>3, <1>4, <1>5, <1>6, <1>7, <1>8, <1>9, <1>10, <1>11, <1>12, <1>13, <1>14, <1>15,
     <1>16, <1>17, <1>18 DEF Next

\* Every PATCH in flight holds a row, and there are no more than the bound.
LEMMA NextPatch == SecondaryInv /\ [Next]_vars => PatchInv'
<1> SUFFICES ASSUME SecondaryInv, [Next]_vars PROVE PatchInv'
  OBVIOUS
<1>0. /\ IsFiniteSet(Writing) /\ Cardinality(Writing) \in Nat
      /\ patches \in Nat /\ MaxPatches \in Nat /\ row \in Row
  BY Numbers, FS_CardinalityType DEF SecondaryInv, PatchInv, TypeOK
<1>1. CASE UNCHANGED <<opc, before, patches>>
  BY <1>1 DEF SecondaryInv, PatchInv, Writing
<1>2. CASE Restart
  <2>1. Writing' = {} /\ patches' = patches
    BY <1>2 DEF Restart, Writing
  <2>2. IsFiniteSet({}) /\ Cardinality({}) = 0
    BY FS_EmptySet
  <2> QED BY <1>0, <2>1, <2>2 DEF SecondaryInv, PatchInv
<1>3. ASSUME NEW o \in Operators, PatchRead(o) PROVE PatchInv'
  <2>1. Writing' = Writing \cup {o} /\ o \notin Writing
    BY <1>3 DEF PatchRead, Writing, SecondaryInv, TypeOK
  <2>2. IsFiniteSet(Writing') /\ Cardinality(Writing') = Cardinality(Writing) + 1
    BY <1>0, <2>1, FS_AddElement
  <2>3. patches' + Cardinality(Writing') <= MaxPatches
    BY <1>0, <1>3, <2>2 DEF PatchRead
  <2>4. \A p \in Writing' : before'[p] \in Row
    BY <1>0, <1>3, <2>1 DEF PatchRead, SecondaryInv, PatchInv, TypeOK, Writing
  <2> QED BY <2>2, <2>3, <2>4 DEF PatchInv
<1>4. ASSUME NEW o \in Operators, opc[o] = "write", opc'[o] # "write",
             \A p \in Operators \ {o} : opc'[p] = opc[p] /\ before'[p] = before[p],
             patches' <= patches + 1, patches' \in Nat
      PROVE  PatchInv'
  <2>1. Writing' = Writing \ {o} /\ o \in Writing
    BY <1>4 DEF Writing
  <2>2. IsFiniteSet(Writing') /\ Cardinality(Writing') = Cardinality(Writing) - 1
    BY <1>0, <2>1, FS_RemoveElement
  <2>3. patches + Cardinality(Writing) <= MaxPatches
    BY DEF SecondaryInv, PatchInv
  <2>4. patches' + Cardinality(Writing') <= MaxPatches
    BY <1>0, <1>4, <2>2, <2>3
  <2>5. \A p \in Writing' : before'[p] \in Row
    BY <1>4, <2>1 DEF SecondaryInv, PatchInv, Writing
  <2> QED BY <2>2, <2>4, <2>5 DEF PatchInv
<1>5. ASSUME NEW o \in Operators, PatchWrite(o) PROVE PatchInv'
  <2>1. /\ opc[o] = "write" /\ opc'[o] # "write" /\ patches' = patches + 1
        /\ \A p \in Operators \ {o} : opc'[p] = opc[p] /\ before'[p] = before[p]
    BY <1>5 DEF PatchWrite, SecondaryInv, TypeOK
  <2> QED BY <1>0, <1>4, <2>1
<1>6. ASSUME NEW o \in Operators, PatchStale(o) PROVE PatchInv'
  <2>1. CASE RetryAllowed(o)
    <3>1. Writing' = Writing /\ patches' = patches
      BY <1>6, <2>1 DEF PatchStale, Writing
    <3>2. \A p \in Writing' : before'[p] \in Row
      BY <1>0, <1>6, <2>1, <3>1 DEF PatchStale, SecondaryInv, PatchInv, TypeOK, Writing
    <3> QED BY <3>1, <3>2 DEF SecondaryInv, PatchInv
  <2>2. CASE ~RetryAllowed(o)
    <3>1. /\ opc[o] = "write" /\ opc'[o] # "write" /\ patches' = patches
          /\ \A p \in Operators \ {o} : opc'[p] = opc[p] /\ before'[p] = before[p]
      BY <1>6, <2>2 DEF PatchStale, SecondaryInv, TypeOK
    <3> QED BY <1>0, <1>4, <3>1
  <2> QED BY <2>1, <2>2
<1>7. ASSUME NEW o \in Operators, PatchReload(o) PROVE PatchInv'
  <2>1. Writing' = Writing /\ patches' = patches /\ before' = before
    BY <1>7 DEF PatchReload, Writing, SecondaryInv, TypeOK
  <2> QED BY <2>1 DEF SecondaryInv, PatchInv
<1>8. CASE Tick \/ Edit \/ ListZones \/ RefreshDue \/ TakeOrSkip \/ UNCHANGED vars
  BY <1>1, <1>8 DEF Tick, Edit, ListZones, RefreshDue, TakeOrSkip, vars, patchVars, askVars
<1>9. ASSUME NEW a \in Forced, RefreshNow(a) PROVE PatchInv'
  BY <1>1, <1>9 DEF RefreshNow, patchVars, askVars
<1>10. ASSUME NEW a \in Attempts,
              \/ ReadRow(a) \/ Probe(a) \/ Check(a) \/ NoteRefreshed(a)
              \/ Fetch(a) \/ Reread(a) \/ ReplaceRecords(a) \/ Succeed(a) \/ Fail(a) \/ Abandon(a)
       PROVE  PatchInv'
  BY <1>1, <1>10 DEF ReadRow, Probe, Check, NoteRefreshed, Fetch, Reread, ReplaceRecords, Succeed,
     Fail, Abandon, patchVars, askVars
<1> QED BY <1>2, <1>3, <1>5, <1>6, <1>7, <1>8, <1>9, <1>10 DEF Next

\* Only the attempt that holds the slot goes on, and what it read is a row and
\* a serial until it is over.
LEMMA NextSlot == SecondaryInv /\ [Next]_vars => SlotInv'
<1> SUFFICES ASSUME SecondaryInv, [Next]_vars PROVE SlotInv'
  OBVIOUS
<1>0. /\ row \in Row /\ DOMAIN pc = Attempts /\ DOMAIN copy = Attempts /\ DOMAIN got = Attempts
      /\ theirs \in Serials /\ xfer \in OrNone(Attempts)
  BY DEF SecondaryInv, TypeOK
<1> USE Numbers, <1>0 DEF SecondaryInv, SlotInv, Goto
<1>1. CASE UNCHANGED attemptVars
  BY <1>1 DEF attemptVars
<1>2. CASE ListZones \/ RefreshDue
  BY <1>2 DEF ListZones, RefreshDue
<1>3. CASE TakeOrSkip
  BY <1>3 DEF TakeOrSkip
<1>4. CASE Restart
  BY <1>4 DEF Restart
<1>5. ASSUME NEW a \in Forced, RefreshNow(a) PROVE SlotInv'
  BY <1>5 DEF RefreshNow
<1>6. ASSUME NEW a \in Attempts, ReadRow(a) PROVE SlotInv'
  BY <1>6 DEF ReadRow
<1>7. ASSUME NEW a \in Attempts, Probe(a) PROVE SlotInv'
  BY <1>7 DEF Probe
<1>8. ASSUME NEW a \in Attempts, Check(a) PROVE SlotInv'
  <2>1. now + Expire \in Nat /\ now \in Nat
    BY DEF TypeOK
  <2>2. [row EXCEPT !.refreshed = now, !.expires = now + Expire] \in Row
    BY <2>1 DEF Row
  <2> QED BY <1>8, <2>2 DEF Check
<1>9. ASSUME NEW a \in Attempts, NoteRefreshed(a) PROVE SlotInv'
  BY <1>9 DEF NoteRefreshed, Done, Forget
<1>10. ASSUME NEW a \in Attempts, Fetch(a) PROVE SlotInv'
  BY <1>10 DEF Fetch
<1>11. ASSUME NEW a \in Attempts, Reread(a) PROVE SlotInv'
  <2>1. Installed(a, row) \in Row /\ Installed(a, row).serial = got[a] /\ got[a] \in Serials
    BY <1>11, InstalledRow DEF Reread
  <2> QED BY <1>11, <2>1 DEF Reread
<1>12. ASSUME NEW a \in Attempts, ReplaceRecords(a) PROVE SlotInv'
  BY <1>12 DEF ReplaceRecords, Done, Forget
<1>13. ASSUME NEW a \in Attempts, Succeed(a) \/ Fail(a) \/ Abandon(a) PROVE SlotInv'
  <2>1. Release(a) /\ pc[a] \notin {"idle", "listed", "due"}
    BY <1>13 DEF Succeed, Fail, Abandon, Attempting
  <2> QED BY <2>1 DEF Release, Forget
<1>14. ASSUME NEW o \in Operators, PatchRead(o) \/ PatchWrite(o) \/ PatchStale(o) \/ PatchReload(o)
       PROVE  SlotInv'
  <2>1. UNCHANGED attemptVars
    BY <1>14 DEF PatchRead, PatchWrite, PatchStale, PatchReload
  <2> QED BY <1>1, <2>1
<1>15. CASE Tick \/ Edit \/ UNCHANGED vars
  BY <1>1, <1>15 DEF Tick, Edit, vars
<1> QED BY <1>2, <1>3, <1>4, <1>5, <1>6, <1>7, <1>8, <1>9, <1>10, <1>11, <1>12, <1>13, <1>14, <1>15
        DEF Next

\* Types, the PATCHes in flight and the slot are an inductive invariant.
LEMMA SecondaryAlways == Spec => []SecondaryInv
<1>1. SecondaryInv /\ [Next]_vars => SecondaryInv'
  BY NextType, NextPatch, NextSlot DEF SecondaryInv
<1> QED BY InitSecondary, <1>1, PTL DEF Spec

\* The row, its stamps, the attempts and the PATCHes keep their types through
\* transfers, PATCHes and restarts, and a secondary's PATCHes stay counted.
THEOREM TypeCorrect == Spec => []TypeOK
<1>1. SecondaryInv => TypeOK
  BY DEF SecondaryInv
<1> QED BY SecondaryAlways, <1>1, PTL

-----------------------------------------------------------------------------
(* Expiry.                                                                 *)

\* The stamps of a row are numbers.
LEMMA Stamps ==
  ASSUME SecondaryInv
  PROVE  /\ now \in Nat /\ contact \in Nat
         /\ row.refreshed \in Nat /\ row.expires \in Nat
         /\ snap.refreshed \in Nat /\ snap.expires \in Nat
         /\ \A o \in Writing : before[o].refreshed \in Nat /\ before[o].expires \in Nat
         /\ \A a \in Attempts : pc[a] \in {"stamp", "commit"} =>
              copy[a].refreshed \in Nat /\ copy[a].expires \in Nat
         /\ DOMAIN pc = Attempts /\ DOMAIN copy = Attempts /\ DOMAIN opc = Operators
         /\ DOMAIN before = Operators
<1>1. \A z \in Row : z.refreshed \in Nat /\ z.expires \in Nat
  BY DEF Row
<1>2. row \in Row /\ (\A o \in Writing : before[o] \in Row)
  BY DEF SecondaryInv, TypeOK, PatchInv
<1>3. \A a \in Attempts : pc[a] \in {"stamp", "commit"} => copy[a] \in Row
  BY DEF SecondaryInv, SlotInv
<1> QED BY <1>1, <1>2, <1>3 DEF SecondaryInv, TypeOK

\* While one attempt is under way, no other is.
LEMMA Alone ==
  ASSUME SecondaryInv, NEW a \in Attempts, pc[a] \notin {"idle", "listed", "due"}
  PROVE  \A b \in Attempts : b # a => pc[b] \in {"idle", "listed", "due"}
BY DEF SecondaryInv, SlotInv

\* No step makes a row date from later than the last contact, or brings the
\* contact backwards.
LEMMA NextExpiry == SecondaryInv /\ ExpiryInv /\ [Next]_vars => ExpiryInv'
<1> SUFFICES ASSUME SecondaryInv, ExpiryInv, [Next]_vars PROVE ExpiryInv'
  OBVIOUS
<1> USE Numbers, Stamps DEF Goto
<1>1. CASE UNCHANGED <<row, snap, contact, before, opc>> /\ now' \in {now, now + 1}
           /\ \A a \in Attempts : pc'[a] \in {"stamp", "commit"} => pc'[a] = pc[a] /\ copy'[a] = copy[a]
  BY <1>1 DEF ExpiryInv, Dated, Writing
<1>2. CASE Tick \/ Edit \/ UNCHANGED vars
  BY <1>1, <1>2 DEF Tick, Edit, vars, clockVars, storeVars, attemptVars, patchVars, askVars
<1>3. CASE ListZones \/ RefreshDue \/ TakeOrSkip
  BY <1>1, <1>3 DEF ListZones, RefreshDue, TakeOrSkip, clockVars, storeVars, patchVars, askVars
<1>4. CASE Restart
  <2>1. Writing' = {} /\ \A a \in Attempts : pc'[a] = "idle"
    BY <1>4 DEF Restart, Writing
  <2>2. Dated(snap)'
    BY <1>4 DEF Restart, Answering, ExpiryInv, Dated
  <2> QED BY <1>4, <2>1, <2>2 DEF Restart, ExpiryInv, Dated, clockVars
<1>5. ASSUME NEW a \in Forced, RefreshNow(a) PROVE ExpiryInv'
  BY <1>1, <1>5 DEF RefreshNow, clockVars, storeVars, patchVars, askVars
<1>6. ASSUME NEW a \in Attempts, ReadRow(a) \/ Probe(a) \/ Fetch(a) PROVE ExpiryInv'
  <2>1. UNCHANGED <<row, snap, contact, before, opc, now>>
    BY <1>6 DEF ReadRow, Probe, Fetch, clockVars, storeVars, patchVars, askVars
  <2>2. pc'[a] \notin {"stamp", "commit"}
    BY <1>6 DEF ReadRow, Probe, Fetch
  <2>3. \A b \in Attempts : b # a => pc'[b] = pc[b] /\ copy'[b] = copy[b]
    BY <1>6 DEF ReadRow, Probe, Fetch
  <2> QED BY <1>1, <2>1, <2>2, <2>3
<1>7. ASSUME NEW a \in Attempts, Check(a) \/ Reread(a) PROVE ExpiryInv'
  <2>1. UNCHANGED <<row, snap, contact, before, opc, now>>
    BY <1>7 DEF Check, Reread, clockVars, storeVars, patchVars, askVars
  <2>2. copy'[a].refreshed = now /\ copy'[a].expires = now + Expire
    <3>1. CASE Check(a)
      <4>1. copy'[a] = [row EXCEPT !.refreshed = now, !.expires = now + Expire]
        BY <3>1 DEF Check
      <4> QED BY <4>1 DEF SecondaryInv, TypeOK, Row
    <3>2. CASE Reread(a)
      <4>1. got[a] \in Serials /\ copy'[a] = Installed(a, row)
        BY <3>2 DEF Reread, SecondaryInv, SlotInv
      <4> QED BY <4>1, InstalledRow DEF SecondaryInv
    <3> QED BY <1>7, <3>1, <3>2
  <2>3. \A b \in Attempts : b # a => pc'[b] = pc[b] /\ copy'[b] = copy[b]
    BY <1>7 DEF Check, Reread
  <2> QED BY <2>1, <2>2, <2>3 DEF ExpiryInv, Dated, Writing
<1>8. ASSUME NEW a \in Attempts, NoteRefreshed(a) \/ ReplaceRecords(a) PROVE ExpiryInv'
  <2>1. UNCHANGED <<snap, before, opc, now>> /\ pc[a] \in {"stamp", "commit"}
    BY <1>8 DEF NoteRefreshed, ReplaceRecords, clockVars, patchVars, askVars
  <2>2. contact' = copy[a].refreshed /\ row'.refreshed = copy[a].refreshed /\ row'.expires = copy[a].expires
    BY <1>8 DEF NoteRefreshed, ReplaceRecords, SecondaryInv, TypeOK, Row
  <2>3. \A b \in Attempts : pc'[b] \notin {"stamp", "commit"}
    BY <1>8, <2>1, Alone DEF NoteRefreshed, ReplaceRecords, Done
  <2>4. contact <= contact' /\ contact' <= now /\ contact' \in Nat
    BY <2>1, <2>2 DEF ExpiryInv
  <2>5. Dated(row)'
    BY <2>1, <2>2 DEF ExpiryInv, Dated
  <2>6. Dated(snap)' /\ \A o \in Writing' : Dated(before[o])'
    BY <2>1, <2>4 DEF ExpiryInv, Dated, Writing
  <2> QED BY <2>1, <2>3, <2>4, <2>5, <2>6 DEF ExpiryInv
<1>9. ASSUME NEW a \in Attempts, Succeed(a) \/ Fail(a) \/ Abandon(a) PROVE ExpiryInv'
  <2>1. UNCHANGED <<row, contact, before, opc, now>>
    BY <1>9 DEF Succeed, Fail, Abandon, clockVars, storeVars, patchVars, askVars
  <2>2. \A b \in Attempts : pc'[b] \in {"stamp", "commit"} => pc'[b] = pc[b] /\ copy'[b] = copy[b]
    BY <1>9 DEF Succeed, Fail, Abandon, Release, Forget
  <2>3. Dated(snap)'
    BY <1>9, <2>1 DEF Succeed, Fail, Abandon, Reload, Answering, ExpiryInv, Dated, storeVars
  <2> QED BY <2>1, <2>2, <2>3 DEF ExpiryInv, Dated, Writing
<1>10. ASSUME NEW o \in Operators, PatchRead(o) \/ PatchStale(o) PROVE ExpiryInv'
  <2>1. UNCHANGED <<row, snap, contact, now, pc, copy>>
    BY <1>10 DEF PatchRead, PatchStale, clockVars, storeVars, attemptVars, askVars
  <2>2. \A p \in Writing' : before'[p] = row \/ (p \in Writing /\ before'[p] = before[p])
    BY <1>10 DEF PatchRead, PatchStale, Writing
  <2>3. \A p \in Writing' : Dated(before[p])'
    BY <2>1, <2>2 DEF ExpiryInv, Dated
  <2> QED BY <2>1, <2>3 DEF ExpiryInv, Dated
<1>11. ASSUME NEW o \in Operators, PatchWrite(o) PROVE ExpiryInv'
  <2>1. UNCHANGED <<snap, contact, now, pc, copy>> /\ o \in Writing
    BY <1>11 DEF PatchWrite, clockVars, attemptVars, Writing
  <2>2. row'.refreshed = before[o].refreshed /\ row'.expires = before[o].expires
    <3>1. before[o] \in Row
      BY <2>1 DEF SecondaryInv, PatchInv
    <3> QED BY <1>11, <3>1, PatchWrites DEF SecondaryInv
  <2>3. \A p \in Writing' : p \in Writing /\ before'[p] = before[p]
    BY <1>11 DEF PatchWrite, Writing
  <2>4. Dated(row)'
    BY <2>1, <2>2 DEF ExpiryInv, Dated
  <2> QED BY <2>1, <2>3, <2>4 DEF ExpiryInv, Dated
<1>12. ASSUME NEW o \in Operators, PatchReload(o) PROVE ExpiryInv'
  <2>1. UNCHANGED <<row, contact, now, pc, copy, before>> /\ Writing' = Writing
    BY <1>12 DEF PatchReload, clockVars, attemptVars, askVars, Writing
  <2>2. Dated(snap)'
    BY <1>12, <2>1 DEF PatchReload, Reload, Answering, ExpiryInv, Dated
  <2> QED BY <2>1, <2>2 DEF ExpiryInv, Dated
<1> QED BY <1>2, <1>3, <1>4, <1>5, <1>6, <1>7, <1>8, <1>9, <1>10, <1>11, <1>12 DEF Next

\* The dates hold from the zone's creation on.
LEMMA ExpiryAlways == Spec => []ExpiryInv
<1>1. Init => ExpiryInv
  BY DEF Init, ExpiryInv, Dated, Answering, Writing
<1> QED BY SecondaryAlways, NextExpiry, <1>1, PTL DEF Spec

\* A secondary answers no later than its expiry after the primary last
\* confirmed what it holds, however old the snapshot it answers from and
\* whichever row a PATCH has put back (Zone.Serving, markChecked, install).
THEOREM ServedWithinExpiry == Spec => []NeverServedPastExpiry
<1>1. SecondaryInv /\ ExpiryInv => NeverServedPastExpiry
  BY Numbers, Stamps DEF NeverServedPastExpiry, ExpiryInv, Dated, Serving
<1> QED BY SecondaryAlways, ExpiryAlways, <1>1, PTL

-----------------------------------------------------------------------------
(* The gap between install's second read and its commit.                   *)

\* A PATCH is the only writer that reaches the row while a commit is pending.
LEMMA NextGap == SecondaryInv /\ GapInv /\ [Next]_vars => GapInv'
<1> SUFFICES ASSUME SecondaryInv, GapInv, [Next]_vars PROVE GapInv'
  OBVIOUS
<1> USE Stamps DEF Goto
<1>1. CASE UNCHANGED <<row, gap>>
           /\ \A a \in Attempts : pc'[a] = "commit" => pc[a] = "commit" /\ copy'[a] = copy[a]
  BY <1>1 DEF GapInv
<1>2. CASE Tick \/ Edit \/ UNCHANGED vars
  BY <1>1, <1>2 DEF Tick, Edit, vars, storeVars, attemptVars, patchVars, askVars
<1>3. CASE ListZones \/ RefreshDue \/ TakeOrSkip \/ Restart
  BY <1>1, <1>3 DEF ListZones, RefreshDue, TakeOrSkip, Restart, storeVars, patchVars, askVars
<1>4. ASSUME NEW a \in Attempts,
             \/ a \in Forced /\ RefreshNow(a)
             \/ ReadRow(a) \/ Probe(a) \/ Check(a) \/ Fetch(a) \/ Succeed(a) \/ Fail(a) \/ Abandon(a)
      PROVE  GapInv'
  <2>1. UNCHANGED <<row, gap>>
    BY <1>4 DEF RefreshNow, ReadRow, Probe, Check, Fetch, Succeed, Fail, Abandon, storeVars, patchVars, askVars
  <2>2. pc'[a] # "commit"
    BY <1>4 DEF RefreshNow, ReadRow, Probe, Check, Fetch, Succeed, Fail, Abandon, Release
  <2>3. \A b \in Attempts : b # a => pc'[b] = pc[b] /\ copy'[b] = copy[b]
    BY <1>4 DEF RefreshNow, ReadRow, Probe, Check, Fetch, Succeed, Fail, Abandon, Release, Forget
  <2> QED BY <1>1, <2>1, <2>2, <2>3
<1>5. ASSUME NEW a \in Attempts, Reread(a) PROVE GapInv'
  <2>1. UNCHANGED <<row, gap>> /\ row.type = "secondary"
    BY <1>5 DEF Reread, storeVars, patchVars, askVars
  <2>2. got[a] \in Serials /\ copy'[a] = Installed(a, row)
    BY <1>5 DEF Reread, SecondaryInv, SlotInv
  <2>3. copy'[a].edit = row.edit
    BY <2>2, InstalledRow DEF SecondaryInv
  <2>4. \A b \in Attempts : b # a => pc'[b] = pc[b] /\ copy'[b] = copy[b]
    BY <1>5 DEF Reread
  <2> QED BY <2>1, <2>3, <2>4 DEF GapInv
<1>6. ASSUME NEW a \in Attempts, NoteRefreshed(a) \/ ReplaceRecords(a) PROVE GapInv'
  <2>1. \A b \in Attempts : pc'[b] # "commit"
    BY <1>6, Alone DEF NoteRefreshed, ReplaceRecords, Done
  <2> QED BY <2>1 DEF GapInv
<1>7. ASSUME NEW o \in Operators, PatchRead(o) \/ PatchStale(o) \/ PatchReload(o) PROVE GapInv'
  <2>1. UNCHANGED <<row, gap, pc, copy>>
    BY <1>7 DEF PatchRead, PatchStale, PatchReload, storeVars, attemptVars
  <2> QED BY <1>1, <2>1
<1>8. ASSUME NEW o \in Operators, PatchWrite(o) PROVE GapInv'
  <2>1. UNCHANGED <<pc, copy>> /\ gap' = (gap \/ \E a \in Attempts : pc[a] = "commit")
    BY <1>8 DEF PatchWrite, attemptVars
  <2> QED BY <2>1 DEF GapInv
<1> QED BY Numbers, <1>2, <1>3, <1>4, <1>5, <1>6, <1>7, <1>8 DEF Next

\* It holds from the zone's creation on.
LEMMA GapAlways == Spec => []GapInv
<1>1. Init => GapInv
  BY DEF Init, GapInv
<1> QED BY SecondaryAlways, NextGap, <1>1, PTL DEF Spec

\* A transfer that was running when the operator made the zone a primary does
\* not touch its records, short of the gap (install).
THEOREM RetypedZoneKeepsItsRecords == Spec => RetypedZoneIsLeftAlone
<1>1. ASSUME SecondaryInv, GapInv, [Next]_vars, row.type = "primary", ~gap
      PROVE  recs' = recs
  <2>1. \A a \in Attempts : ~ReplaceRecords(a)
    BY <1>1 DEF ReplaceRecords, GapInv
  <2>2. CASE UNCHANGED vars
    BY <2>2 DEF vars, storeVars
  <2>3. CASE Tick \/ Edit \/ ListZones \/ RefreshDue \/ TakeOrSkip \/ Restart \/ \E a \in Forced : RefreshNow(a)
    BY <2>3 DEF Tick, Edit, ListZones, RefreshDue, TakeOrSkip, Restart, RefreshNow, storeVars
  <2>4. ASSUME NEW a \in Attempts,
               \/ ReadRow(a) \/ Probe(a) \/ Check(a) \/ NoteRefreshed(a)
               \/ Fetch(a) \/ Reread(a) \/ Succeed(a) \/ Fail(a) \/ Abandon(a)
        PROVE  recs' = recs
    BY <2>4 DEF ReadRow, Probe, Check, NoteRefreshed, Fetch, Reread, Succeed, Fail, Abandon, storeVars
  <2>5. ASSUME NEW o \in Operators, PatchRead(o) \/ PatchWrite(o) \/ PatchStale(o) \/ PatchReload(o)
        PROVE  recs' = recs
    BY <2>5 DEF PatchRead, PatchWrite, PatchStale, PatchReload, storeVars
  <2> QED BY <1>1, <2>1, <2>2, <2>3, <2>4, <2>5 DEF Next
<1>2. SecondaryInv /\ GapInv /\ [Next]_vars => [(row.type = "primary" /\ ~gap) => recs' = recs]_vars
  BY <1>1
<1> QED BY SecondaryAlways, GapAlways, <1>2, PTL DEF Spec, RetypedZoneIsLeftAlone

-----------------------------------------------------------------------------
(* The version, when no two writes share a millisecond.                    *)

\* Steps that neither write the row nor read it for a PATCH or a commit.
LEMMA RowKept ==
  ASSUME RowInv, UNCHANGED <<row, recs, stamped, opc, before, accepted, gap>>,
         \A a \in Attempts :
           /\ pc'[a] = "commit" => pc[a] = "commit" /\ UNCHANGED <<copy[a], got[a]>>
           /\ pc'[a] \in {"probe", "check", "stamp", "reload"} => recs # None
  PROVE  RowInv'
<1>1. Writing' = Writing
  BY DEF Writing
<1>2. SerialNamesRecords' /\ EditsSurviveTransfers'
  BY DEF RowInv, SerialNamesRecords, EditsSurviveTransfers
<1>3. VersionInv'
  BY <1>1 DEF RowInv, VersionInv
<1>4. \A a \in Attempts : Keeps(a)' => Keeps(a) /\ copy'[a] = copy[a]
  BY DEF Keeps
<1>5. KeepsInv'
  BY <1>1, <1>4 DEF RowInv, KeepsInv
<1>6. RecordsInv'
  BY <1>1 DEF RowInv, RecordsInv
<1> QED BY <1>2, <1>3, <1>5, <1>6 DEF RowInv

\* install's second read: content that has not changed keeps the version it
\* was read under.
LEMMA RowReread ==
  ASSUME SecondaryInv, RowInv, NEW a \in Attempts, Reread(a)
  PROVE  RowInv'
<1>1. /\ UNCHANGED <<row, recs, stamped, opc, before, accepted, gap, got>>
      /\ DOMAIN pc = Attempts /\ DOMAIN copy = Attempts
      /\ pc[a] = "install" /\ pc' = [pc EXCEPT ![a] = "commit"]
      /\ copy' = [copy EXCEPT ![a] = Installed(a, row)]
  BY Stamps DEF Reread, storeVars, patchVars, askVars, Goto
<1>2. Writing' = Writing
  BY <1>1 DEF Writing
<1>3. SerialNamesRecords' /\ EditsSurviveTransfers' /\ VersionInv'
  BY <1>1, <1>2 DEF RowInv, SerialNamesRecords, EditsSurviveTransfers, VersionInv
<1>4. RecordsInv'
  BY <1>1, <1>2 DEF RowInv, RecordsInv
<1>5. got[a] \in Serials
  BY <1>1 DEF SecondaryInv, SlotInv
<1>6. /\ copy'[a].serial = got[a]
      /\ copy'[a].modified = IF contentChanged(a) THEN now ELSE row.modified
  BY <1>1, <1>5, InstalledRow DEF SecondaryInv
<1>7. Keeps(a)' => copy'[a].modified = row.modified /\ copy'[a].serial = row.serial /\ recs # None
  <2> SUFFICES ASSUME Keeps(a)'
               PROVE  copy'[a].modified = row.modified /\ copy'[a].serial = row.serial /\ recs # None
    OBVIOUS
  <2>1. got[a] = recs /\ recs # None
    BY <1>1, <1>5, Numbers DEF Keeps
  <2>2. recs = row.serial
    BY <2>1 DEF RowInv, SerialNamesRecords
  <2> QED BY <1>6, <2>1, <2>2 DEF contentChanged
<1>8. \A b \in Attempts : b # a /\ Keeps(b)' => Keeps(b) /\ copy'[b] = copy[b]
  BY <1>1 DEF Keeps
<1>9. KeepsInv'
  BY <1>1, <1>2, <1>7, <1>8 DEF RowInv, KeepsInv, VersionInv
<1> QED BY <1>3, <1>4, <1>9 DEF RowInv

\* A check moves the stamps of a zone that has records, and no version.
LEMMA RowChecked ==
  ASSUME SecondaryInv, ExpiryInv, RowInv, NEW a \in Attempts, NoteRefreshed(a)
  PROVE  RowInv'
<1>1. /\ UNCHANGED <<recs, stamped, opc, before, accepted, gap>>
      /\ DOMAIN pc = Attempts
      /\ pc[a] = "stamp" /\ pc' = [pc EXCEPT ![a] = "reload"]
      /\ row' = [row EXCEPT !.refreshed = copy[a].refreshed, !.expires = copy[a].expires]
  BY Stamps DEF NoteRefreshed, patchVars, askVars, Done, Goto
<1>2. /\ row'.serial = row.serial /\ row'.edit = row.edit /\ row'.modified = row.modified
      /\ row'.refreshed = copy[a].refreshed
  BY <1>1 DEF SecondaryInv, TypeOK, Row
<1>3. row'.refreshed # 0 /\ recs # None
  BY <1>1, <1>2, Stamps DEF ExpiryInv, RowInv, RecordsInv
<1>4. Writing' = Writing
  BY <1>1 DEF Writing
<1>5. \A b \in Attempts : pc'[b] # "commit"
  BY <1>1, Alone
<1>6. SerialNamesRecords' /\ EditsSurviveTransfers' /\ VersionInv'
  BY <1>1, <1>2, <1>4 DEF RowInv, SerialNamesRecords, EditsSurviveTransfers, VersionInv
<1>7. KeepsInv'
  BY <1>5 DEF KeepsInv, Keeps
<1>8. RecordsInv'
  BY <1>1, <1>3, <1>4 DEF RowInv, RecordsInv
<1> QED BY <1>6, <1>7, <1>8 DEF RowInv

\* A commit leaves a version that no PATCH in flight has read, unless it puts
\* back the records and the version that were there.
LEMMA RowReplaced ==
  ASSUME ~SameMillis, SecondaryInv, ExpiryInv, GapInv, RowInv, NEW a \in Attempts, ReplaceRecords(a)
  PROVE  RowInv'
<1>1. /\ UNCHANGED <<opc, before, accepted, gap>>
      /\ DOMAIN pc = Attempts
      /\ pc[a] = "commit" /\ pc' = [pc EXCEPT ![a] = "reload"]
      /\ row' = copy[a] /\ recs' = got[a]
      /\ recs = got[a] => stamped' = stamped
      /\ recs # got[a] => copy[a].modified \notin stamped /\ stamped' = stamped \cup {copy[a].modified}
  BY Stamps DEF ReplaceRecords, patchVars, askVars, Done, Goto, Stamp
<1>2. Writing' = Writing
  BY <1>1 DEF Writing
<1>3. copy[a].serial = got[a] /\ recs' # None /\ recs' = row'.serial
  BY <1>1, Numbers DEF SecondaryInv, SlotInv
<1>4. row'.refreshed # 0
  BY <1>1, Stamps DEF ExpiryInv
<1>5. \A b \in Attempts : pc'[b] # "commit"
  BY <1>1, Alone
<1>6. ~gap => row'.edit = row.edit
  BY <1>1 DEF GapInv
<1>7. EditsSurviveTransfers'
  BY <1>1, <1>6 DEF RowInv, EditsSurviveTransfers
<1>8. VersionInv'
  <2>1. CASE Keeps(a)
    <3>1. stamped' = stamped /\ copy[a].modified \in stamped
      BY <1>1, <2>1 DEF Keeps, RowInv, KeepsInv
    <3>2. \A o \in Writing : before[o].modified = copy[a].modified =>
            before[o].serial = copy[a].serial /\ before[o].refreshed # 0
      BY <2>1 DEF RowInv, KeepsInv
    <3>3. \A o \in Writing : before[o].modified = copy[a].modified /\ ~gap => before[o].edit = row.edit
      BY <2>1 DEF RowInv, KeepsInv, VersionInv
    <3>4. \A o \in Writing : before[o].modified \in stamped
      BY DEF RowInv, VersionInv
    <3> QED BY <1>1, <1>2, <1>6, <3>1, <3>2, <3>3, <3>4 DEF VersionInv
  <2>2. CASE ~Keeps(a)
    <3>1. copy[a].modified \notin stamped /\ stamped' = stamped \cup {copy[a].modified}
      BY <1>1, <2>2 DEF Keeps
    <3>2. \A o \in Writing : before[o].modified \in stamped
      BY DEF RowInv, VersionInv
    <3> QED BY <1>1, <1>2, <3>1, <3>2 DEF VersionInv
  <2> QED BY <2>1, <2>2
<1>9. KeepsInv'
  BY <1>5 DEF KeepsInv, Keeps
<1>10. RecordsInv'
  BY <1>3, <1>4 DEF RecordsInv
<1> QED BY <1>3, <1>7, <1>8, <1>9, <1>10 DEF RowInv, SerialNamesRecords

\* A PATCH reads the row, first or again: it is the row of its version.
LEMMA RowRead ==
  ASSUME SecondaryInv, RowInv, NEW o \in Operators, PatchRead(o) \/ PatchStale(o)
  PROVE  RowInv'
<1>1. UNCHANGED <<row, recs, stamped, pc, copy, got, accepted, gap>>
  BY DEF PatchRead, PatchStale, storeVars, attemptVars
<1>2. \A p \in Writing' : before'[p] = row \/ (p \in Writing /\ before'[p] = before[p])
  BY Stamps DEF PatchRead, PatchStale, Writing
<1>3. SerialNamesRecords' /\ EditsSurviveTransfers'
  BY <1>1 DEF RowInv, SerialNamesRecords, EditsSurviveTransfers
<1>4. VersionInv'
  BY <1>1, <1>2 DEF RowInv, VersionInv, RecordsInv
<1>5. RecordsInv'
  BY <1>1, <1>2 DEF RowInv, RecordsInv
<1>6. KeepsInv'
  <2>1. \A a \in Attempts : Keeps(a)' <=> Keeps(a)
    BY <1>1 DEF Keeps
  <2>2. \A a \in Attempts : Keeps(a) => row.serial = copy[a].serial /\ row.refreshed # 0
    <3> SUFFICES ASSUME NEW a \in Attempts, Keeps(a)
                 PROVE  row.serial = copy[a].serial /\ row.refreshed # 0
      OBVIOUS
    <3>1. got[a] = recs /\ copy[a].serial = got[a] /\ recs # None
      BY Numbers DEF Keeps, SecondaryInv, SlotInv
    <3> QED BY <3>1 DEF RowInv, SerialNamesRecords, RecordsInv
  <2> QED BY <1>1, <1>2, <2>1, <2>2 DEF RowInv, KeepsInv
<1> QED BY <1>3, <1>4, <1>5, <1>6 DEF RowInv

\* An accepted PATCH overwrites the row it read, and gives it a version of its
\* own.
LEMMA RowPatched ==
  ASSUME ~SameMillis, SecondaryInv, RowInv, NEW o \in Operators, PatchWrite(o)
  PROVE  RowInv'
<1>1. /\ UNCHANGED <<recs, pc, copy, got>> /\ o \in Writing /\ before[o] \in Row
      /\ before[o].modified = row.modified
      /\ Bumped(o) \notin stamped /\ stamped' = stamped \cup {Bumped(o)}
      /\ accepted' = [accepted EXCEPT ![o] = before[o].edit[o] + 1]
      /\ gap' = (gap \/ \E a \in Attempts : pc[a] = "commit")
  BY DEF PatchWrite, Unchanged, Stamp, attemptVars, Writing, SecondaryInv, PatchInv
<1>2. \A p \in Writing' : p \in Writing /\ before'[p] = before[p]
  BY Stamps DEF PatchWrite, Writing
<1>3. /\ row'.serial = before[o].serial /\ row'.refreshed = before[o].refreshed
      /\ row'.modified = Bumped(o)
      /\ row'.edit = [before[o].edit EXCEPT ![o] = before[o].edit[o] + 1]
  BY <1>1, PatchWrites DEF SecondaryInv
<1>4. before[o].serial = row.serial /\ (~gap => before[o].edit = row.edit)
  BY <1>1 DEF RowInv, VersionInv
<1>5. SerialNamesRecords'
  BY <1>1, <1>3, <1>4 DEF RowInv, SerialNamesRecords
<1>6. EditsSurviveTransfers'
  BY <1>1, <1>3, <1>4 DEF RowInv, EditsSurviveTransfers
<1>7. VersionInv'
  BY <1>1, <1>2, <1>3 DEF RowInv, VersionInv
<1>8. KeepsInv'
  <2>1. \A a \in Attempts : Keeps(a)' => Keeps(a) /\ gap'
    BY <1>1 DEF Keeps
  <2> QED BY <1>1, <1>2, <2>1 DEF RowInv, KeepsInv
<1>9. RecordsInv'
  <2>1. recs # None <=> before[o].refreshed # 0
    BY <1>1 DEF RowInv, VersionInv, RecordsInv
  <2> QED BY <1>1, <1>2, <1>3, <2>1 DEF RowInv, RecordsInv
<1> QED BY <1>5, <1>6, <1>7, <1>8, <1>9 DEF RowInv

\* Every step keeps versions, serials and edits together.
LEMMA NextRow ==
  ~SameMillis /\ SecondaryInv /\ ExpiryInv /\ GapInv /\ RowInv /\ [Next]_vars => RowInv'
<1> SUFFICES ASSUME ~SameMillis, SecondaryInv, ExpiryInv, GapInv, RowInv, [Next]_vars PROVE RowInv'
  OBVIOUS
<1>1. \A a \in Attempts : pc[a] \in {"probe", "check", "stamp", "reload"} => recs # None
  BY DEF RowInv, RecordsInv
<1>2. CASE Tick \/ Edit \/ UNCHANGED vars
  BY <1>1, <1>2, RowKept DEF Tick, Edit, vars, storeVars, attemptVars, patchVars, askVars
<1>3. CASE Restart
  <2>1. Writing' = {} /\ (\A a \in Attempts : pc'[a] = "idle") /\ UNCHANGED <<row, recs, stamped, accepted, gap>>
    BY <1>3 DEF Restart, Writing
  <2> QED BY <2>1 DEF RowInv, SerialNamesRecords, EditsSurviveTransfers, VersionInv, KeepsInv, Keeps, RecordsInv
<1>4. CASE ListZones \/ RefreshDue \/ TakeOrSkip
  <2>1. UNCHANGED <<row, recs, stamped, opc, before, accepted, gap, copy, got>>
    BY <1>4 DEF ListZones, RefreshDue, TakeOrSkip, storeVars, patchVars, askVars
  <2>2. \A a \in Attempts : pc'[a] \notin {"idle", "listed", "due", "row"} => pc'[a] = pc[a]
    BY <1>4, Stamps DEF ListZones, RefreshDue, TakeOrSkip, Goto
  <2> QED BY <1>1, <2>1, <2>2, RowKept
<1>5. ASSUME NEW a \in Attempts,
             \/ a \in Forced /\ RefreshNow(a)
             \/ ReadRow(a) \/ Probe(a) \/ Check(a) \/ Fetch(a) \/ Succeed(a) \/ Fail(a) \/ Abandon(a)
      PROVE  RowInv'
  <2>1. UNCHANGED <<row, recs, stamped, opc, before, accepted, gap>>
    BY <1>5 DEF RefreshNow, ReadRow, Probe, Check, Fetch, Succeed, Fail, Abandon, storeVars, patchVars, askVars
  <2>2. pc'[a] # "commit"
    BY <1>5, Stamps DEF RefreshNow, ReadRow, Probe, Check, Fetch, Succeed, Fail, Abandon, Release, Goto
  <2>3. pc'[a] \in {"probe", "check", "stamp", "reload"} => recs # None
    BY <1>1, <1>5, Stamps DEF RefreshNow, ReadRow, Probe, Check, Fetch, Succeed, Fail, Abandon, Release,
       Goto, RowInv, RecordsInv
  <2>4. \A b \in Attempts : b # a => pc'[b] = pc[b] /\ copy'[b] = copy[b] /\ got'[b] = got[b]
    BY <1>5, Stamps DEF RefreshNow, ReadRow, Probe, Check, Fetch, Succeed, Fail, Abandon, Release,
       Goto, Forget, SecondaryInv, TypeOK
  <2> QED BY <1>1, <2>1, <2>2, <2>3, <2>4, RowKept
<1>6. ASSUME NEW o \in Operators, PatchReload(o) PROVE RowInv'
  <2>1. UNCHANGED <<row, recs, stamped, pc, copy, got, accepted, gap, before>> /\ Writing' = Writing
    BY <1>6, Stamps DEF PatchReload, attemptVars, Writing
  <2>2. \A a \in Attempts : Keeps(a)' <=> Keeps(a)
    BY <2>1 DEF Keeps
  <2> QED BY <2>1, <2>2 DEF RowInv, SerialNamesRecords, EditsSurviveTransfers, VersionInv, KeepsInv, RecordsInv
<1> QED
  BY Numbers, <1>2, <1>3, <1>4, <1>5, <1>6, RowReread, RowChecked, RowReplaced, RowRead, RowPatched DEF Next

\* Nothing has been written when the zone is created.
LEMMA InitRow == ~SameMillis /\ Init => RowInv
BY DEF Init, RowInv, SerialNamesRecords, EditsSurviveTransfers, VersionInv, KeepsInv, Keeps, RecordsInv,
   Writing

\* The versions are an inductive invariant when no two writes share one.
LEMMA RowAlways == ~SameMillis => (Spec => []RowInv)
<1> SUFFICES ASSUME ~SameMillis PROVE Spec => []RowInv
  OBVIOUS
<1>1. Init => RowInv
  BY InitRow
<1>2. SecondaryInv /\ ExpiryInv /\ GapInv /\ RowInv /\ [Next]_vars => RowInv'
  BY NextRow
<1> QED BY SecondaryAlways, ExpiryAlways, GapAlways, <1>1, <1>2, PTL DEF Spec

\* The serial in the row is the serial of the records beside it, whatever
\* transfers, PATCHes and crashes interleave, as long as no two writes of the
\* row store the same millisecond (ReplaceRecords, UpdateZoneIfUnchanged).
THEOREM SerialDescribesRecords == ~SameMillis => (Spec => []SerialNamesRecords)
<1> SUFFICES ASSUME ~SameMillis PROVE Spec => []SerialNamesRecords
  OBVIOUS
<1>1. RowInv => SerialNamesRecords
  BY DEF RowInv
<1> QED BY RowAlways, <1>1, PTL

\* A saved edit survives every transfer and every other PATCH but for the gap,
\* under the same condition (handleZonePatch, install).
THEOREM EditsAreKept == ~SameMillis => (Spec => []EditsSurviveTransfers)
<1> SUFFICES ASSUME ~SameMillis PROVE Spec => []EditsSurviveTransfers
  OBVIOUS
<1>1. RowInv => EditsSurviveTransfers
  BY DEF RowInv
<1> QED BY RowAlways, <1>1, PTL

-----------------------------------------------------------------------------
(* The schedule.                                                           *)

\* A forced attempt has written the row and has not ended.
Pending == \E a \in Forced : pc[a] = "reload"

\* The stamps are the last contact's unless a PATCH has put older ones back,
\* and the back-off covers the failure it is for.
StampInv == (~undone => row.refreshed = contact) /\ quiet <= notBefore

\* A pass that nothing has crossed read the stamps of the last contact, and one
\* that found the zone due may ask.
PassInv ==
  ~crossed /\ ~undone /\ ~Pending =>
    /\ pc[Scheduled] = "listed" => listed = contact
    /\ pc[Scheduled] \in {"due", "row"} =>
         now >= quiet /\ (contact # 0 => now >= contact + Refresh)

\* The stamps follow the contact.
LEMMA NextStamp == SecondaryInv /\ StampInv /\ [Next]_vars => StampInv'
<1> SUFFICES ASSUME SecondaryInv, StampInv, [Next]_vars PROVE StampInv'
  OBVIOUS
<1>0. quiet \in Nat /\ notBefore \in Nat /\ Retry \in Nat /\ now \in Nat
  BY Numbers, Stamps DEF SecondaryInv, TypeOK
<1>1. CASE UNCHANGED <<quiet, notBefore, row, contact, undone>>
  BY <1>1 DEF StampInv
<1>2. CASE Tick \/ Edit \/ ListZones \/ RefreshDue \/ TakeOrSkip \/ UNCHANGED vars
  BY <1>1, <1>2 DEF Tick, Edit, ListZones, RefreshDue, TakeOrSkip, vars, storeVars, attemptVars, askVars
<1>3. CASE Restart
  BY <1>0, <1>3, FirstAttemptsType DEF Restart, StampInv, SecondaryInv
<1>4. ASSUME NEW a \in Attempts,
             \/ a \in Forced /\ RefreshNow(a)
             \/ ReadRow(a) \/ Probe(a) \/ Check(a) \/ Fetch(a) \/ Reread(a) \/ Abandon(a)
      PROVE  StampInv'
  BY <1>1, <1>4 DEF RefreshNow, ReadRow, Probe, Check, Fetch, Reread, Abandon, storeVars, askVars
<1>5. ASSUME NEW a \in Attempts, NoteRefreshed(a) \/ ReplaceRecords(a) PROVE StampInv'
  <2>1. UNCHANGED <<quiet, notBefore>> /\ contact' = copy[a].refreshed
    BY <1>5 DEF NoteRefreshed, ReplaceRecords
  <2>2. row'.refreshed = copy[a].refreshed
    BY <1>5 DEF NoteRefreshed, ReplaceRecords, SecondaryInv, TypeOK, Row
  <2> QED BY <2>1, <2>2 DEF StampInv
<1>6. ASSUME NEW a \in Attempts, Succeed(a) \/ Fail(a) PROVE StampInv'
  <2>1. UNCHANGED <<row, contact, undone>> /\ quiet' <= notBefore'
    BY <1>0, <1>6 DEF Succeed, Fail, storeVars
  <2> QED BY <2>1 DEF StampInv
<1>7. ASSUME NEW o \in Operators, PatchRead(o) \/ PatchStale(o) \/ PatchReload(o) PROVE StampInv'
  BY <1>1, <1>7 DEF PatchRead, PatchStale, PatchReload, storeVars, attemptVars, askVars
<1>8. ASSUME NEW o \in Operators, PatchWrite(o) PROVE StampInv'
  <2>1. /\ before[o] \in Row /\ UNCHANGED <<quiet, notBefore, contact>>
        /\ undone' = (undone \/ before[o].refreshed # row.refreshed)
    BY <1>8 DEF PatchWrite, attemptVars, SecondaryInv, PatchInv, Writing
  <2>2. row'.refreshed = before[o].refreshed
    BY <1>8, <2>1, PatchWrites DEF SecondaryInv
  <2> QED BY <2>1, <2>2 DEF StampInv
<1> QED BY Numbers, <1>2, <1>3, <1>4, <1>5, <1>6, <1>7, <1>8 DEF Next

\* What a pass read stays true of the zone until an attempt or a PATCH crosses it.
LEMMA NextPass == SecondaryInv /\ StampInv /\ PassInv /\ [Next]_vars => PassInv'
<1> SUFFICES ASSUME SecondaryInv, StampInv, PassInv, [Next]_vars,
                    ~crossed', ~undone', ~Pending'
             PROVE  /\ pc'[Scheduled] = "listed" => listed' = contact'
                    /\ pc'[Scheduled] \in {"due", "row"} =>
                         now' >= quiet' /\ (contact' # 0 => now' >= contact' + Refresh)
  BY DEF PassInv
<1>0. /\ quiet \in Nat /\ notBefore \in Nat /\ contact \in Nat /\ now \in Nat /\ listed \in Nat
      /\ Refresh \in Nat /\ Scheduled \in Attempts /\ Scheduled \notin Forced /\ Forced \subseteq Attempts
      /\ DOMAIN pc = Attempts /\ quiet <= notBefore
  BY Numbers, SecondaryAssumption, Stamps DEF SecondaryInv, TypeOK, StampInv
<1> USE <1>0 DEF Goto
<1>1. CASE /\ UNCHANGED <<quiet, contact, undone, listed, crossed>> /\ now <= now' /\ now' \in Nat
           /\ ~Pending
           /\ pc'[Scheduled] = pc[Scheduled]
  BY <1>1 DEF PassInv
<1>2. CASE Tick \/ Edit \/ UNCHANGED vars
  <2>1. UNCHANGED <<pc, quiet, contact, undone, listed, crossed>> /\ now <= now' /\ now' \in Nat
    BY <1>2 DEF Tick, Edit, vars, clockVars, attemptVars, askVars
  <2> QED BY <1>1, <2>1 DEF Pending
<1>3. CASE ListZones
  BY <1>3 DEF ListZones, StampInv
<1>4. CASE RefreshDue
  <2>1. UNCHANGED <<quiet, contact, undone, now>> /\ pc[Scheduled] = "listed"
    BY <1>4 DEF RefreshDue, clockVars
  <2>2. ~Pending
    BY <1>4 DEF RefreshDue, Pending
  <2>3. CASE due(listed)
    <3>1. pc' = [pc EXCEPT ![Scheduled] = "due"]
      BY <1>4, <2>3 DEF RefreshDue
    <3>2. ~crossed
      BY <1>4, <3>1 DEF RefreshDue, StillCrossed
    <3>3. listed = contact
      BY <2>1, <2>2, <3>2 DEF PassInv
    <3> QED BY <2>1, <2>3, <3>1, <3>3 DEF due
  <2>4. CASE ~due(listed)
    BY <1>4, <2>4 DEF RefreshDue
  <2> QED BY <2>3, <2>4
<1>5. CASE TakeOrSkip
  <2>1. UNCHANGED <<quiet, contact, undone, listed, now>> /\ pc[Scheduled] = "due"
    BY <1>5 DEF TakeOrSkip, clockVars
  <2>2. pc' = [pc EXCEPT ![Scheduled] = "row"] \/ pc' = [pc EXCEPT ![Scheduled] = "idle"]
    BY <1>5 DEF TakeOrSkip
  <2>3. ~Pending
    BY <2>2 DEF Pending
  <2>4. pc'[Scheduled] = "row" => ~crossed
    BY <1>5 DEF TakeOrSkip, StillCrossed
  <2> QED BY <2>1, <2>2, <2>3, <2>4 DEF PassInv
<1>6. CASE Restart
  BY <1>6 DEF Restart
<1>7. ASSUME NEW a \in Forced, RefreshNow(a)
      PROVE  /\ UNCHANGED <<quiet, contact, undone, listed, crossed, now>> /\ ~Pending
             /\ pc'[Scheduled] = pc[Scheduled]
  <2>1. pc' = [pc EXCEPT ![a] = "row"] /\ pc[a] = "idle"
    BY <1>7 DEF RefreshNow
  <2>2. ~Pending
    BY <2>1 DEF Pending
  <2> QED BY <1>7, <2>1, <2>2 DEF RefreshNow, clockVars, askVars
<1>8. ASSUME NEW a \in Attempts, ReadRow(a) \/ Probe(a) \/ Check(a) \/ Fetch(a) \/ Reread(a)
      PROVE  /\ UNCHANGED <<quiet, contact, undone, listed, now>> /\ ~Pending
             /\ pc'[Scheduled] \in {"listed", "due", "row"} =>
                  pc'[Scheduled] = pc[Scheduled] /\ ~crossed
  <2>1. UNCHANGED <<quiet, contact, undone, listed, now>>
    BY <1>8 DEF ReadRow, Probe, Check, Fetch, Reread, clockVars, askVars
  <2>2. /\ pc'[a] \notin {"listed", "due", "row"} /\ pc[a] # "reload"
        /\ \A b \in Attempts : b # a => pc'[b] = pc[b]
    BY <1>8 DEF ReadRow, Probe, Check, Fetch, Reread
  <2>3. ~Pending
    BY <2>2 DEF Pending
  <2>4. pc'[Scheduled] \in {"listed", "due", "row"} => ~crossed
    BY <1>8, Zenon DEF ReadRow, Probe, Check, Fetch, Reread, StillCrossed, askVars
  <2> QED BY <2>1, <2>2, <2>3, <2>4
<1>9. ASSUME NEW a \in Attempts, NoteRefreshed(a) \/ ReplaceRecords(a)
      PROVE  pc'[Scheduled] \notin {"listed", "due", "row"}
  <2>1. pc' = [pc EXCEPT ![a] = "reload"]
    BY <1>9 DEF NoteRefreshed, ReplaceRecords, Done
  <2>2. a \notin Forced
    BY <2>1 DEF Pending
  <2> QED BY <2>1, <2>2 DEF Attempts
<1>10. ASSUME NEW a \in Attempts, Succeed(a) \/ Fail(a)
       PROVE  pc'[Scheduled] \notin {"listed", "due", "row"}
  <2>1. /\ pc' = [pc EXCEPT ![a] = "idle"] /\ crossed' = Deciding
        /\ pc[a] \notin {"idle", "listed", "due"}
    BY <1>10 DEF Succeed, Fail, Release, Attempting
  <2>2. pc[Scheduled] = "row" => a = Scheduled
    BY <2>1, Alone
  <2> QED BY <2>1, <2>2 DEF Deciding
<1>11. ASSUME NEW a \in Attempts, Abandon(a)
       PROVE  /\ UNCHANGED <<quiet, contact, undone, listed, crossed, now>> /\ ~Pending
              /\ pc'[Scheduled] # "idle" => pc'[Scheduled] = pc[Scheduled]
  <2>1. pc' = [pc EXCEPT ![a] = "idle"] /\ pc[a] # "reload"
    BY <1>11 DEF Abandon, Release, Attempting
  <2>2. ~Pending
    BY <2>1 DEF Pending
  <2> QED BY <1>11, <2>1, <2>2 DEF Abandon, clockVars, askVars
<1>12. ASSUME NEW o \in Operators, PatchRead(o) \/ PatchWrite(o) \/ PatchStale(o) \/ PatchReload(o)
       PROVE  /\ UNCHANGED <<pc, quiet, contact, listed, crossed, now>> /\ ~Pending /\ ~undone
  <2>1. UNCHANGED <<pc, quiet, contact, listed, crossed, now>>
    BY <1>12 DEF PatchRead, PatchWrite, PatchStale, PatchReload, clockVars, attemptVars, askVars
  <2>2. undone => undone'
    BY <1>12, Zenon DEF PatchRead, PatchWrite, PatchStale, PatchReload, askVars
  <2> QED BY <2>1, <2>2 DEF Pending
<1> QED
  BY <1>2, <1>3, <1>4, <1>5, <1>6, <1>7, <1>8, <1>9, <1>10, <1>11, <1>12 DEF Next, PassInv

\* An ask that no attempt and no PATCH has crossed comes no sooner than the retry
\* interval after a failure and the refresh interval after the last contact,
\* from the pass's read of the rows through the wait for the slot, however many
\* forced attempts and PATCHes there are (RefreshDue, due, noteFailure,
\* noteSuccess).
THEOREM ScheduleIsQuiet == Spec => ScheduleKeepsItsDistance
<1>1. Init => StampInv /\ PassInv
  BY DEF Init, StampInv, PassInv
<1>2. Spec => [](StampInv /\ PassInv)
  BY SecondaryAlways, NextStamp, NextPass, <1>1, PTL DEF Spec
<1>3. ASSUME SecondaryInv, PassInv, pc[Scheduled] = "row", ~crossed, ~undone
      PROVE  now >= quiet /\ (contact # 0 => now >= contact + Refresh)
  <2>1. ~Pending
    BY <1>3, Alone, Numbers, SecondaryAssumption DEF Pending
  <2> QED BY <1>3, <2>1 DEF PassInv
<1>4. SecondaryInv /\ PassInv =>
        [(pc[Scheduled] = "row" /\ pc'[Scheduled] \in {"probe", "fetch"}) =>
           \/ crossed \/ undone
           \/ now >= quiet /\ (contact # 0 => now >= contact + Refresh)]_vars
  BY <1>3
<1> QED BY SecondaryAlways, <1>2, <1>4, PTL DEF Spec, ScheduleKeepsItsDistance
=============================================================================
