------------------------------ MODULE ZoneEdit ------------------------------
(***************************************************************************)
(* Editing zones over the API (api/zonerecords_handlers.go,                *)
(* api/zonefile_handlers.go, api/autoptr.go, api/zones_handlers.go,        *)
(* store/zones.go, zones/record.go, zones/resolver.go).                    *)
(*                                                                         *)
(* A handler reads the zone row and its records, checks the request        *)
(* against them, writes, bumps the serial with a statement of its own,     *)
(* keeps the PTR records of a reverse zone in step, and rebuilds what is   *)
(* served.  A bulk TTL change and a zone file import write records and row *)
(* in one transaction, from the row they read.  Several handlers run at    *)
(* once, and each statement is a step.  A secondary takes what is served   *)
(* when the serial tells it to.                                            *)
(***************************************************************************)
EXTENDS Serial, Sequences, SequencesExt, FiniteSetsExt, Functions

CONSTANTS
  Handlers,     \* requests that may run at once, numbered
  fwd, rev,     \* a forward zone and the reverse zone of its addresses
  Apex,         \* the name "@"
  None,
  StartRows,    \* the zone rows the run starts with
  StartRecords, \* and the records, numbered from 1
  Bodies,       \* the records a create or an update may carry
  TTLs,         \* the TTLs a bulk change may set
  Files,        \* the zone files: a zone, a serial and a set of records
  Patches,      \* the zone patches: a zone, a field and its value
  Budgets       \* bounds: how often each thing happens in one behaviour

Zones == {fwd, rev}
RecordKinds == {"create", "update", "delete", "ttl", "import"}
Kinds == RecordKinds \cup {"patch", "drop"}

ASSUME ZoneEditAssumption ==
  /\ Handlers \subseteq Nat
  /\ Budgets \subseteq [Kinds \cup {"fail", "crash"} -> Nat]
  /\ \A b \in Budgets : Cardinality({k \in Kinds : b[k] > 0}) > 0

VARIABLES
  row,      \* zones: name, type, enabled, serial, and whether the row is there
  recs,     \* zone_records, by id
  nextId,   \* the next id, never used again
  snap,     \* the index being served
  reload,   \* the rows read by the reload that holds rmu, or None
  hs,       \* where every handler is
  copy,     \* what a secondary of each zone holds, or None
  left,     \* what is left of the budget
  torn,     \* history: zones whose serial no longer tells their content
  raced,    \* history: a handler wrote what another had changed under it
  strayed,  \* history: a PTR could not be kept in step
  unloaded  \* history: the last reload failed

tables == <<row, recs, nextId>>
served == <<snap, reload>>
history == <<torn, raced, strayed, unloaded>>
vars == <<tables, served, hs, copy, left, history>>

Spend(what) == left[what] > 0 /\ left' = [left EXCEPT ![what] = @ - 1]
Idle == [pc |-> "idle"]
Go(h, pc) == hs' = [hs EXCEPT ![h].pc = pc]

-----------------------------------------------------------------------------
(* Records.                                                                *)

Records(z) == RestrictValues(recs, LAMBDA r : r.zone = z)

\* RecordFQDN: a name in a zone.
RecordFQDN(zname, name) == <<zname, name>>

\* BuildRecord: no CNAME at the apex or beside another record, and one TTL
\* in a record set.  The record being replaced is not its own sibling.
BuildRecord(body, existing, self) ==
  /\ ~(body.name = Apex /\ body.type = "CNAME")
  /\ \A i \in DOMAIN existing \ {self} :
       existing[i].name = body.name =>
         /\ "CNAME" \notin {body.type, existing[i].type}
         /\ existing[i].type = body.type => existing[i].ttl = body.ttl

\* A written record, as a row: `auto` is history, the row was put there by addPTR.
AsRow(body, auto) ==
  [zone |-> body.zone, name |-> body.name, type |-> body.type, data |-> body.data,
   ttl |-> body.ttl, on |-> body.on, auto |-> auto]

\* NewZone: what is served of a record; disabled ones are dropped.
Content(rs) == {[name |-> rs[i].name, type |-> rs[i].type, data |-> rs[i].data, ttl |-> rs[i].ttl]
                  : i \in {j \in DOMAIN rs : rs[j].on}}
Snapshot(rows, rs) ==
  [z \in Zones |-> [row |-> rows[z], recs |-> Content(RestrictValues(rs, LAMBDA r : r.zone = z))]]

\* identify: a record is the same record in a file by name, type and data.
identify(r) == <<r.name, r.type, r.data>>

\* DiffRecords: the first record of an identity is kept and takes the
\* file's TTL, the rest of what is there goes, the rest of the file is added.
DiffRecords(existing, want) ==
  LET same(w) == {i \in DOMAIN existing : identify(existing[i]) = identify(w)}
      matched == {w \in want : same(w) # {}}
      kept == {Min(same(w)) : w \in matched}
      of(i) == CHOOSE w \in matched : Min(same(w)) = i
      moved == {i \in kept : existing[i].ttl # of(i).ttl \/ existing[i].on # of(i).on}
  IN [delete |-> DOMAIN existing \ kept,
      change |-> [i \in moved |-> AsRow(of(i), existing[i].auto)],
      add |-> want \ matched]

Init ==
  /\ row = StartRows /\ recs = StartRecords /\ nextId = Cardinality(DOMAIN StartRecords) + 1
  /\ snap = Snapshot(StartRows, StartRecords) /\ reload = None
  /\ hs = [h \in Handlers |-> Idle] /\ copy = [z \in Zones |-> None]
  /\ left \in Budgets
  /\ torn = {} /\ raced = FALSE /\ strayed = FALSE /\ unloaded = FALSE

-----------------------------------------------------------------------------
(* The start of a request: the row, then the records it is checked against. *)

\* recordWriteRefusal: a built-in zone's records are fixed, and a secondary's or
\* a stub's come from its master.  A forwarder's are inert, and may be written.
recordWriteRefusal(z) == row[z].type \in {"internal", "secondary", "stub"}

Requests ==
  [kind: {"create"}, body: Bodies] \cup [kind: {"update"}, id: DOMAIN recs, body: Bodies]
    \cup [kind: {"delete"}, id: DOMAIN recs] \cup [kind: {"ttl"}, id: DOMAIN recs, ttl: TTLs]
    \cup [kind: {"import"}, file: Files] \cup [kind: {"patch"}, patch: Patches]
    \cup [kind: {"drop"}, zone: Zones]

ZoneOf(op) ==
  CASE op.kind = "create" -> op.body.zone
    [] op.kind \in {"update", "delete", "ttl"} -> recs[op.id].zone
    [] op.kind = "import" -> op.file.zone
    [] op.kind = "patch" -> op.patch.zone
    [] op.kind = "drop" -> op.zone

\* Of the handlers that are free, the first takes the request.
First(h) == hs[h] = Idle /\ \A g \in Handlers : hs[g] = Idle => h <= g

\* The handlers read the row first.  A bulk TTL change names the records of
\* one record set here: changing fewer of them is refused.
ReadRow(h) ==
  /\ First(h)
  /\ \E op \in Requests :
       LET z == ZoneOf(op) IN
       /\ row[z].live
       /\ op.kind = "update" => op.body.zone = z
       /\ op.kind \in RecordKinds => ~recordWriteRefusal(z)
       /\ Spend(op.kind)
       /\ hs' = [hs EXCEPT ![h] =
            [pc |-> IF op.kind = "patch" THEN "write" ELSE "records", op |-> op, zone |-> z,
             row |-> row[z], fresh |-> TRUE, again |-> TRUE, seen |-> <<>>, tasks |-> <<>>, cover |-> FALSE]]
  /\ UNCHANGED <<tables, served, copy, history>>

\* handleZoneRecordsPatch: the records of the set, with the new TTL.
Retimed(seen, op) ==
  [i \in DOMAIN seen |->
     IF seen[i].name = seen[op.id].name /\ seen[i].type = seen[op.id].type
       THEN [seen[i] EXCEPT !.ttl = op.ttl] ELSE seen[i]]

\* An import builds every record of the file against the ones before it.
Importable(file) == \A b \in file.recs : BuildRecord(b, [w \in file.recs |-> w], b)

Acceptable(op, seen) ==
  /\ op.kind \in {"update", "delete", "ttl"} => op.id \in DOMAIN seen
  /\ op.kind = "create" => BuildRecord(op.body, seen, 0)
  /\ op.kind = "update" => BuildRecord(op.body, seen, op.id)
  /\ op.kind = "ttl" => BuildRecord([seen[op.id] EXCEPT !.ttl = op.ttl], Retimed(seen, op), op.id)
  /\ op.kind = "import" => Importable(op.file)

ReadRecords(h) ==
  /\ hs[h].pc = "records"
  /\ LET seen == Records(hs[h].zone) IN
     hs' = [hs EXCEPT ![h] = IF Acceptable(@.op, seen) THEN [@ EXCEPT !.pc = "write", !.seen = seen] ELSE Idle]
  /\ UNCHANGED <<tables, served, copy, left, history>>

-----------------------------------------------------------------------------
(* PTR records: what a handler owes the reverse zone.                      *)

\* recordAddr, and the name an address record gives its address.
Claim(do, zname, r) == [do |-> do, addr |-> r.data, fqdn |-> RecordFQDN(zname, r.name), ttl |-> r.ttl]

\* The address records among them, in id order: all to retire, the enabled ones to restore.
Claims(do, zname, rs) ==
  LET ids == SetToSortSeq({i \in DOMAIN rs : rs[i].type = "A" /\ (do = "add" => rs[i].on)}, <) IN
  IF ids = <<>> THEN <<>>
  ELSE <<[do |-> "zones"]>> \o [k \in DOMAIN ids |-> Claim(do, zname, rs[ids[k]])]

\* Mutant: an update adds the new pair and leaves the old one.
syncPTRAddsOnly(old, new, zname) ==
  IF new = <<>> THEN Claims("remove", zname, old) ELSE Claims("add", zname, new)

\* syncPTR: the old pair goes before the new one is added, and the
\* candidates are read once for both.
syncPTR(old, new, zname) ==
  LET gone == Claims("remove", zname, old)
      come == Claims("add", zname, new)
  IN gone \o (IF gone = <<>> THEN come ELSE SubSeq(come, 2, Len(come)))

ownsPTRs(r) == r.enabled /\ r.type = "primary"

\* syncZonePTRsAfterPatch, for the records read after the patch.
syncZonePTRsAfterPatch(before, after, rs) ==
  LET renamed == before.name # after.name IN
  (IF ownsPTRs(before) /\ (renamed \/ ~ownsPTRs(after)) THEN Claims("remove", before.name, rs) ELSE <<>>)
    \o (IF ownsPTRs(after) /\ (renamed \/ ~ownsPTRs(before)) THEN Claims("add", after.name, rs) ELSE <<>>)

\* ptrZoneCandidates, reverseZoneFor: the reverse zone covers the address.
ptrZoneCandidate == row[rev].live /\ ownsPTRs(row[rev])

-----------------------------------------------------------------------------
(* The writes.                                                             *)

\* modified_at moves: whoever read the row before this holds a stale one.
Stamped(f, z) ==
  [g \in Handlers |-> IF f[g] # Idle /\ f[g].zone = z THEN [f[g] EXCEPT !.fresh = FALSE] ELSE f[g]]

\* Another handler is at work on names and addresses, or has been since this
\* one read what it decides on.
Overtaken(h) ==
  \/ Records(hs[h].zone) # hs[h].seen
  \/ \E g \in Handlers \ {h} : hs[g] # Idle /\ (hs[g].tasks # <<>> \/ hs[g].pc \in {"write", "patched"})

\* AddRecord, UpdateRecord, DeleteRecord: one statement, and the zone must
\* be there for an insert, the record for the others.
WriteRecord(h) ==
  /\ hs[h].pc = "write" /\ hs[h].op.kind \in {"create", "update", "delete"}
  /\ LET op == hs[h].op
         new == IF op.kind = "delete" THEN <<>> ELSE [i \in {IF op.kind = "create" THEN nextId ELSE op.id} |-> AsRow(op.body, FALSE)]
         old == IF op.kind = "create" THEN <<>> ELSE [i \in {op.id} |-> hs[h].seen[i]]
     IN IF DOMAIN old \subseteq DOMAIN recs /\ row[hs[h].zone].live
        THEN /\ recs' = new @@ RestrictDomain(recs, LAMBDA i : i \notin DOMAIN old)
             /\ nextId' = IF op.kind = "create" THEN nextId + 1 ELSE nextId
             /\ hs' = [hs EXCEPT ![h].pc = "bump", ![h].tasks =
                         IF hs[h].zone = fwd THEN syncPTR(old, new, hs[h].row.name) ELSE <<>>]
             /\ raced' = (raced \/ Overtaken(h))
        ELSE /\ hs' = [hs EXCEPT ![h] = Idle]
             /\ UNCHANGED <<recs, nextId, raced>>
  /\ UNCHANGED <<row, served, copy, left, torn, strayed, unloaded>>

\* bumpSerialSQL, a statement of its own.
BumpSerial(h) ==
  /\ hs[h].pc = "bump"
  /\ LET z == hs[h].zone IN
     /\ row' = IF row[z].live THEN [row EXCEPT ![z].serial = Bump(@)] ELSE row
     /\ hs' = Stamped([hs EXCEPT ![h].pc = "ptr"], z)
  /\ UNCHANGED <<recs, nextId, served, copy, left, history>>

\* A failure is logged: the record is in and the serial still names the old content.
BumpFails(h) ==
  /\ hs[h].pc = "bump" /\ Spend("fail")
  /\ torn' = torn \cup {hs[h].zone}
  /\ Go(h, "ptr")
  /\ UNCHANGED <<tables, served, copy, raced, strayed, unloaded>>

\* The row a transaction writes, from the row read: the serial after it, or
\* after the file's when that is the larger number.
NextRow(r, op) ==
  LET base == IF op.kind = "import" /\ op.file.serial > r.serial THEN op.file.serial ELSE r.serial
  IN [r EXCEPT !.serial = Bump(base)]

Change(op, seen) ==
  IF op.kind = "import" THEN DiffRecords(seen, op.file.recs)
  ELSE LET now == Retimed(seen, op) IN
       [delete |-> {}, change |-> RestrictDomain(now, LAMBDA i : now[i] # seen[i]), add |-> {}]

\* ReplaceRecords: records and row in one transaction, which a row that is
\* gone rolls back.  An import reloads even then.
ReplaceRecords(h) ==
  /\ hs[h].pc = "write" /\ hs[h].op.kind \in {"ttl", "import"}
  /\ LET z == hs[h].zone
         d == Change(hs[h].op, hs[h].seen)
         adds == SetToSeq(d.add)
         new == [i \in nextId..(nextId + Len(adds) - 1) |-> AsRow(adds[i - nextId + 1], FALSE)]
         next == NextRow(hs[h].row, hs[h].op)
     IN IF row[z].live /\ d.delete \cup DOMAIN d.change \subseteq DOMAIN recs
        THEN /\ recs' = new @@ d.change @@ RestrictDomain(recs, LAMBDA i : i \notin d.delete)
             /\ nextId' = nextId + Len(adds)
             /\ row' = [row EXCEPT ![z] = next]
             /\ hs' = Stamped([hs EXCEPT ![h].pc = "reload"], z)
             /\ raced' = (raced \/ Overtaken(h))
             /\ torn' = IF hs[h].fresh THEN torn ELSE torn \cup {z}
             /\ strayed' = (strayed \/ (z = fwd /\ \E i \in d.delete \cup DOMAIN d.change : recs[i].type = "A"))
        ELSE /\ hs' = [hs EXCEPT ![h] = IF @.op.kind = "import" THEN [@ EXCEPT !.pc = "reload"] ELSE Idle]
             /\ UNCHANGED <<tables, raced, torn, strayed>>
  /\ UNCHANGED <<served, copy, left, unloaded>>

\* UpdateZoneIfUnchanged: the whole row read, one field changed, if nobody
\* has written since; a stale row is read once more.
PatchRow(h) ==
  /\ hs[h].pc = "write" /\ hs[h].op.kind = "patch"
  /\ LET z == hs[h].zone
         p == hs[h].op.patch
     IN IF row[z].live /\ hs[h].fresh
        THEN /\ row' = [row EXCEPT ![z] = [hs[h].row EXCEPT ![p.field] = p.value]]
             /\ hs' = Stamped([hs EXCEPT ![h].pc = "patched"], z)
        ELSE /\ hs' = [hs EXCEPT ![h] = IF row[z].live /\ @.again
                                        THEN [@ EXCEPT !.again = FALSE, !.fresh = TRUE, !.row = row[z]] ELSE Idle]
             /\ UNCHANGED row
  /\ UNCHANGED <<recs, nextId, served, copy, left, history>>

\* The records that may have moved are read after the patch.
Patched(h) ==
  /\ hs[h].pc = "patched"
  /\ LET z == hs[h].zone
         p == hs[h].op.patch
     IN hs' = [hs EXCEPT ![h].pc = "ptr", ![h].tasks =
                 IF z = fwd
                   THEN syncZonePTRsAfterPatch(hs[h].row, [hs[h].row EXCEPT ![p.field] = p.value], Records(z))
                   ELSE <<>>]
  /\ raced' = (raced \/ \E g \in Handlers \ {h} : hs[g] # Idle)
  /\ UNCHANGED <<tables, served, copy, left, torn, strayed, unloaded>>

\* handleZoneDelete: the records go with the row, their PTRs are retired after.
DropZone(h) ==
  /\ hs[h].pc = "write" /\ hs[h].op.kind = "drop"
  /\ LET z == hs[h].zone IN
     IF row[z].live
     THEN /\ row' = [row EXCEPT ![z].live = FALSE]
          /\ recs' = RestrictValues(recs, LAMBDA r : r.zone # z)
          /\ hs' = [hs EXCEPT ![h].pc = "ptr", ![h].tasks =
                      IF z = fwd THEN Claims("remove", hs[h].row.name, hs[h].seen) ELSE <<>>]
          /\ raced' = (raced \/ Overtaken(h))
     ELSE /\ hs' = [hs EXCEPT ![h] = Idle]
          /\ UNCHANGED <<row, recs, raced>>
  /\ UNCHANGED <<nextId, served, copy, left, torn, strayed, unloaded>>

\* Any of these statements may fail; nothing is written, and the request ends.
WriteFails(h) ==
  /\ hs[h].pc = "write" /\ Spend("fail")
  /\ hs' = [hs EXCEPT ![h] = IF @.op.kind = "import" THEN [@ EXCEPT !.pc = "reload"] ELSE Idle]
  /\ UNCHANGED <<tables, served, copy, history>>

-----------------------------------------------------------------------------
(* Keeping the reverse zone in step, one address at a time.                *)

Task(h) == Head(hs[h].tasks)
Done(h, f) == [f EXCEPT ![h].pc = "ptr", ![h].tasks = Tail(@)]

\* The candidates are read once for a group of addresses.
ReadCandidates(h) ==
  /\ hs[h].pc = "ptr" /\ hs[h].tasks # <<>> /\ Task(h).do = "zones"
  /\ hs' = [Done(h, hs) EXCEPT ![h].cover = ptrZoneCandidate]
  /\ strayed' = (strayed \/ ~ptrZoneCandidate)
  /\ UNCHANGED <<tables, served, copy, left, torn, raced, unloaded>>

PTRsAt(addr) == {i \in DOMAIN recs : recs[i].zone = rev /\ recs[i].type = "PTR" /\ recs[i].name = addr}
PTRRecord(t) == [zone |-> rev, name |-> t.addr, type |-> "PTR", data |-> t.fqdn, ttl |-> t.ttl, on |-> TRUE]

\* removePTR looks for PTRs that point at this name, addPTR for any.
ReadPTRs(h) ==
  /\ hs[h].pc = "ptr" /\ hs[h].tasks # <<>> /\ Task(h).do # "zones"
  /\ LET t == Task(h)
         mine == {i \in PTRsAt(t.addr) : recs[i].data = t.fqdn}
         wanted == IF t.do = "remove" THEN mine # {}
                   ELSE PTRsAt(t.addr) = {} /\ BuildRecord(PTRRecord(t), Records(rev), 0)
     IN hs' = IF hs[h].cover /\ wanted
              THEN [hs EXCEPT ![h].pc = "ptrwrite", ![h].seen = mine] ELSE Done(h, hs)
  /\ UNCHANGED <<tables, served, copy, left, history>>

\* The rows found are deleted by id, or the new one inserted.
WritePTR(h) ==
  /\ hs[h].pc = "ptrwrite"
  /\ LET t == Task(h) IN
     IF t.do = "remove" /\ hs[h].seen \cap DOMAIN recs # {}
     THEN /\ recs' = RestrictDomain(recs, LAMBDA i : i \notin hs[h].seen)
          /\ Go(h, "ptrbump") /\ UNCHANGED nextId
     ELSE IF t.do = "add" /\ row[rev].live
     THEN /\ recs' = (nextId :> AsRow(PTRRecord(t), TRUE)) @@ recs
          /\ nextId' = nextId + 1
          /\ Go(h, "ptrbump")
     ELSE hs' = Done(h, hs) /\ UNCHANGED <<recs, nextId>>
  /\ UNCHANGED <<row, served, copy, left, history>>

\* Mutant: the reverse zone's serial is left to its own edits.
bumpPTRZoneSerialNever(h) ==
  /\ hs[h].pc = "ptrbump"
  /\ hs' = Done(h, hs)
  /\ UNCHANGED <<tables, served, copy, left, history>>

\* bumpPTRZoneSerial
bumpPTRZoneSerial(h) ==
  /\ hs[h].pc = "ptrbump"
  /\ row' = IF row[rev].live THEN [row EXCEPT ![rev].serial = Bump(@)] ELSE row
  /\ hs' = Stamped(Done(h, hs), rev)
  /\ UNCHANGED <<recs, nextId, served, copy, left, history>>

\* Whatever fails here is logged and the handler goes on.
PTRFails(h) ==
  /\ hs[h].pc \in {"ptr", "ptrwrite", "ptrbump"} /\ hs[h].tasks # <<>> /\ Spend("fail")
  /\ torn' = IF hs[h].pc = "ptrbump" THEN torn \cup {rev} ELSE torn
  /\ strayed' = TRUE
  /\ hs' = [Done(h, hs) EXCEPT ![h].cover = @ /\ Task(h).do # "zones"]
  /\ UNCHANGED <<tables, served, copy, raced, unloaded>>

NoMorePTRs(h) ==
  /\ hs[h].pc = "ptr" /\ hs[h].tasks = <<>>
  /\ Go(h, "reload")
  /\ UNCHANGED <<tables, served, copy, left, history>>

-----------------------------------------------------------------------------
(* Serving what was written.                                               *)

\* Mutant: rmu is never unlocked.
ReloadKeepsLock(h) ==
  /\ hs[h].pc = "build"
  /\ snap' = Snapshot(reload, recs)
  /\ unloaded' = FALSE
  /\ hs' = [hs EXCEPT ![h] = Idle]
  /\ UNCHANGED <<tables, reload, copy, left, torn, raced, strayed>>

\* Reload holds rmu across two reads that are not one transaction.
ReloadRows(h) ==
  /\ hs[h].pc = "reload" /\ reload = None
  /\ reload' = row
  /\ Go(h, "build")
  /\ UNCHANGED <<tables, snap, copy, left, history>>

Reload(h) ==
  /\ hs[h].pc = "build"
  /\ snap' = Snapshot(reload, recs) /\ reload' = None
  /\ unloaded' = FALSE
  /\ hs' = [hs EXCEPT ![h] = Idle]
  /\ UNCHANGED <<tables, copy, left, torn, raced, strayed>>

\* reloadZones: a failure is logged, the write stays committed.
ReloadFails(h) ==
  /\ hs[h].pc = "build" /\ Spend("fail")
  /\ unloaded' = TRUE /\ reload' = None
  /\ hs' = [hs EXCEPT ![h] = Idle]
  /\ UNCHANGED <<tables, snap, copy, torn, raced, strayed>>

\* The process dies and starts again: handlers are gone, the store is read.
Crash ==
  /\ Spend("crash")
  /\ torn' = torn \cup {hs[h].zone : h \in {g \in Handlers : hs[g].pc = "bump"}}
                  \cup {rev : h \in {g \in Handlers : hs[g].pc = "ptrbump"}}
  /\ strayed' = (strayed \/ \E h \in Handlers : hs[h] # Idle /\ (hs[h].tasks # <<>> \/ hs[h].pc = "patched"))
  /\ hs' = [h \in Handlers |-> Idle] /\ reload' = None /\ unloaded' = FALSE
  /\ snap' = Snapshot(row, recs)
  /\ UNCHANGED <<tables, copy, raced>>

\* A secondary asks for the zone by name, and takes it when the serial
\* served is newer than the one it holds.
Fetch(z) ==
  /\ LET s == snap[z] IN
     /\ s.row.live /\ s.row.enabled /\ s.row.type = "primary"
     /\ copy[z] # None => s.row.name = copy[z].name /\ SerialNewer(s.row.serial, copy[z].serial)
     /\ copy' = [copy EXCEPT ![z] = [name |-> s.row.name, serial |-> s.row.serial, recs |-> s.recs]]
  /\ UNCHANGED <<tables, served, hs, left, history>>

Working(h) ==
  \/ ReadRecords(h) \/ WriteRecord(h) \/ BumpSerial(h) \/ ReplaceRecords(h) \/ PatchRow(h) \/ Patched(h)
  \/ DropZone(h) \/ ReadCandidates(h) \/ ReadPTRs(h) \/ WritePTR(h) \/ bumpPTRZoneSerial(h)
  \/ NoMorePTRs(h) \/ ReloadRows(h) \/ Reload(h)

Failing(h) == BumpFails(h) \/ WriteFails(h) \/ PTRFails(h) \/ ReloadFails(h)

Next ==
  \/ \E h \in Handlers : ReadRow(h) \/ Working(h) \/ Failing(h)
  \/ Crash
  \/ \E z \in Zones : Fetch(z)

\* A handler runs to its end, and a secondary goes on asking.
Fairness == (\A h \in Handlers : SF_vars(Working(h))) /\ \A z \in Zones : WF_vars(Fetch(z))
Spec == Init /\ [][Next]_vars /\ Fairness

-----------------------------------------------------------------------------
(* Properties.                                                             *)

\* Types; a record belongs to a zone row that is there, and ids only grow.
TypeOK ==
  /\ \A z \in Zones : row[z].serial \in Serials
  /\ \A i \in DOMAIN recs : i < nextId /\ row[recs[i].zone].live
  /\ \A h \in Handlers : hs[h] # Idle => hs[h].pc \in
       {"records", "write", "bump", "patched", "ptr", "ptrwrite", "ptrbump", "reload", "build"}
  /\ torn \subseteq Zones

\* A statement that describes zone z's content is still to come.
Unnamed(z) ==
  \E h \in Handlers : (hs[h].pc = "bump" /\ hs[h].zone = z) \/ (hs[h].pc = "ptrbump" /\ z = rev)

\* The serial is how a secondary learns of a change: while no bump is owed,
\* a secondary that is told it is up to date holds the records of the store.
\* Edits, bulk changes, imports and the PTRs they cause must each end with a
\* serial nobody has seen; the exemptions are the bump that failed and the
\* transaction that wrote a serial computed from a row already stale.
UpToDateMeansCurrent ==
  \A z \in Zones :
    ~Unnamed(z) /\ z \notin torn /\ copy[z] # None /\ row[z].live /\ row[z].name = copy[z].name
      /\ ~SerialNewer(row[z].serial, copy[z].serial)
    => copy[z].recs = Content(Records(z))

\* A PTR that was added for an address record goes when that record goes: once
\* every handler is done, it still points at a name that claims the address.
NoDanglingPTR ==
  (\A h \in Handlers : hs[h] = Idle) /\ ~raced /\ ~strayed =>
    \A p \in DOMAIN recs :
      recs[p].auto => \E i \in DOMAIN recs :
        /\ recs[i].zone = fwd /\ recs[i].type = "A" /\ recs[i].on /\ recs[i].data = recs[p].name
        /\ RecordFQDN(row[fwd].name, recs[i].name) = recs[p].data

\* Every edit of a zone that is served reaches the secondary that asks for it.
Propagates ==
  \A z \in Zones :
    <>[](z \in torn \/ unloaded \/ ~(snap[z].row.live /\ ownsPTRs(snap[z].row))
          \/ (copy[z] # None /\ (snap[z].row.name = copy[z].name => copy[z].recs = Content(Records(z)))))
=============================================================================
