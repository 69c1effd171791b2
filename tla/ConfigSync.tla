----------------------------- MODULE ConfigSync -----------------------------
(***************************************************************************)
(* Configuration sync: one box following one of several mains              *)
(* (confsync/replica.go, confsync/registry.go, store/bundle.go,            *)
(* api/sync_handlers.go).                                                  *)
(*                                                                         *)
(* A main counts its configuration writes.  The box that follows it probes *)
(* that count, fetches a bundle when the count moved, and replaces its own *)
(* tables by the bundle's in one transaction.  The bundle is read table by *)
(* table while the main goes on writing, and what was applied is noted in  *)
(* two separate writes, so a crash can fall between any two steps.         *)
(*                                                                         *)
(* The synced tables are reduced to four: settings (a set of keys),        *)
(* clients (a row id and its unique matcher), tsig_keys (a set of ids) and *)
(* zones (a row id, its type and the key it transfers under).              *)
(***************************************************************************)
EXTENDS Integers, FiniteSets, FiniteSetsExt, Functions

CONSTANTS
  Mains,               \* the boxes that may be followed, by their URLs
  Box,                 \* the instance id of the box modelled
  None,                \* no value
  Ids, ZoneIds,        \* row ids of a main's clients and zones
  Matchers,            \* client matchers
  StartClients,        \* the clients table every main starts with, by main
  OwnClients,          \* the clients table the box starts with
  SettingKeys,         \* the settings that travel (LocalSettingKey is false)
  PairingMaxAttempts,  \* wrong codes that void the live one
  MaxCodes,            \* bound on codes every main mints
  MaxPeers,            \* bound on pairings asked for
  MaxEvents,           \* bound on writes, boxes forgotten and faults together
  Spent                \* what a behaviour may start with of the three bounds used up

ASSUME ConfigSyncAssumption ==
  /\ None \notin Mains
  /\ Ids \cup ZoneIds \subseteq Nat \ {0} /\ IsFiniteSet(Ids \cup ZoneIds)
  /\ PairingMaxAttempts \in Nat \ {0}
  /\ {MaxCodes, MaxPeers, MaxEvents} \subseteq Nat
  /\ Spent \subseteq (0 .. MaxPeers) \X (0 .. MaxEvents) \X [Mains -> 0 .. MaxCodes]

VARIABLES
  conf,      \* a main's synced tables, the key it designates, its version
  replicas,  \* sync.replicas of a main: instance id -> secret
  pairing,   \* sync.pairing of a main: the live code
  codes,     \* codes a main has minted
  secrets,   \* secrets minted
  own,       \* the box's own synced tables
  recs,      \* zones of the box that hold records
  moved,     \* zones of the box with a transfer state (refreshed_at)
  xfer,      \* a zone's refresh attempt: where it is and what it has read
  peer, token, appliedVersion, appliedPeer,   \* local settings of the box
  pc,        \* where the poll loop is
  cycle,     \* what the cycle read
  fpc,       \* where POST /sync/follow is
  lpc,       \* where a write through the box's own API is
  kpc,       \* the main whose ensureSyncKey is between its two writes
  peers, events,
  torn,      \* history: an import whose version and peer are not both noted
  edited,    \* history: the box's own tables written since the last import
  undone,    \* history: a transfer wrote back a row that an import had replaced
  gap,       \* history: zones written by an attempt that an import overtook, until a whole one
  stale      \* history: the tables changed and are to be reloaded, or that failed

mainVars == <<conf, replicas, pairing, codes, secrets, kpc>>
tableVars == <<own, recs, moved>>
settingVars == <<peer, token, appliedVersion, appliedPeer>>
boundVars == <<peers, events>>
xferVars == <<xfer, undone, gap>>
historyVars == <<torn, edited, stale>>
vars == <<mainVars, tableVars, xferVars, settingVars, pc, cycle, fpc, lpc, boundVars, historyVars>>

Builtin == [type |-> "internal", key |-> 0]
NoCycle == [peer |-> None, token |-> 0, applied |-> FALSE, version |-> 0,
            probed |-> 0, bundle |-> [ver |-> 0]]

\* Matchers are unique over the clients table.
ClientTables ==
  UNION {{t \in [S -> Matchers] : IsInjective(t)} : S \in SUBSET Ids}

MainZones(keys) == [type: {"primary", "forwarder"}, key: keys \cup {0}]

\* Every box numbers its rows from one; a built-in sits where the sequence was.
Init ==
  /\ conf = [m \in Mains |-> [ver |-> 1, settings |-> {}, designated |-> 0, keys |-> {},
               clients |-> StartClients[m], zones |-> [i \in {1} |-> [type |-> "primary", key |-> 0]]]]
  /\ replicas = [m \in Mains |-> <<>>] /\ pairing = [m \in Mains |-> None]
  /\ secrets = 0 /\ kpc = None
  /\ own = [settings |-> SettingKeys, clients |-> OwnClients, keys |-> {}, zones |-> [i \in {1} |-> Builtin]]
  /\ recs = {1} /\ moved = {} /\ xfer = [i \in ZoneIds |-> None]
  /\ peer = None /\ token = 0 /\ appliedVersion = 0 /\ appliedPeer = None
  /\ pc = "idle" /\ cycle = NoCycle /\ fpc = None /\ lpc = "idle"
  /\ \E s \in Spent : peers = s[1] /\ events = s[2] /\ codes = s[3]
  /\ torn = FALSE /\ edited = FALSE /\ undone = FALSE /\ gap = {} /\ stale = "no"

\* A write, a box forgotten, a crash or a failure.
Event == events < MaxEvents /\ events' = events + 1

-----------------------------------------------------------------------------
(* The main: its writes, its registry, and what it answers a replica.      *)

\* configWrite: the rows and the version move in one transaction.
configWrite(m, c) == conf' = [conf EXCEPT ![m] = [c EXCEPT !.ver = conf[m].ver + 1]]

\* Tables that differ from t in one row at most.
OneRow(t) ==
  LET Row(u, i) == IF i \in DOMAIN u THEN u[i] ELSE None IN
  {u \in ClientTables : Cardinality({i \in Ids : Row(u, i) # Row(t, i)}) <= 1}

\* One PATCH, POST or DELETE of a synced row.
OneEdit(c) ==
  {[c EXCEPT !.settings = s] : s \in SUBSET SettingKeys}
  \cup {[c EXCEPT !.clients = t] : t \in OneRow(c.clients)}
  \cup {[c EXCEPT !.zones = [i \in (DOMAIN c.zones) \cup {j} |-> IF i = j THEN z ELSE c.zones[i]]] :
          j \in ZoneIds, z \in MainZones(c.keys)}
  \cup {[c EXCEPT !.zones = RestrictDomain(c.zones, LAMBDA i : i # j)] : j \in ZoneIds}

Write(m) ==
  /\ Event
  /\ \E c \in OneEdit(conf[m]) \ {conf[m]} : configWrite(m, c)
  /\ UNCHANGED <<replicas, pairing, codes, secrets, kpc, tableVars, xferVars, settingVars, pc, cycle, fpc, lpc,
                 peers, historyVars>>

\* NewPairingCode replaces any code still live.
NewPairingCode(m) ==
  /\ codes[m] < MaxCodes
  /\ codes' = [codes EXCEPT ![m] = @ + 1]
  /\ pairing' = [pairing EXCEPT ![m] = [code |-> codes'[m], attempts |-> 0]]
  /\ UNCHANGED <<conf, replicas, secrets, kpc, tableVars, xferVars, settingVars, pc, cycle, fpc, lpc,
                 boundVars, historyVars>>

\* pairingTTL passes: as good as no code.
CodeExpires(m) ==
  /\ pairing[m] # None
  /\ pairing' = [pairing EXCEPT ![m] = None]
  /\ UNCHANGED <<conf, replicas, codes, secrets, kpc, tableVars, xferVars, settingVars, pc, cycle, fpc, lpc,
                 boundVars, historyVars>>

Live(m) == pairing[m] # None /\ pairing[m].attempts < PairingMaxAttempts

Entered(m, b) ==
  /\ secrets' = secrets + 1
  /\ replicas' = [replicas EXCEPT ![m] = [x \in DOMAIN @ \cup {b} |-> IF x = b THEN secrets' ELSE @[x]]]

\* The code is cleared, then the entry saved; the second write may be lost.
Spend(m, b, saved) ==
  /\ pairing' = [pairing EXCEPT ![m] = None]
  /\ IF saved THEN Entered(m, b) ELSE UNCHANGED <<secrets, replicas>>

\* Registry.Pair holds g.mu throughout.
Pair(m, b, code, saved) ==
  /\ Live(m) /\ pairing[m].code = code
  /\ Spend(m, b, saved)
  /\ saved \/ Event

\* A wrong code is compared with the live one, and counted in the store.
Guess(m, code) ==
  /\ Live(m) /\ pairing[m].code # code
  /\ pairing' = [pairing EXCEPT ![m].attempts = @ + 1]
  /\ UNCHANGED <<secrets, replicas>>

\* App.Pair goes on to ensureSyncKey unless the designated key exists.
KeyMissing(m) == conf[m].designated \notin conf[m].keys

CreateKey(m) ==
  /\ kpc = m
  /\ LET k == Cardinality(conf[m].keys) + 1 IN configWrite(m, [conf[m] EXCEPT !.keys = @ \cup {k}])
  /\ kpc' = <<m>>
  /\ UNCHANGED <<replicas, pairing, codes, secrets, tableVars, xferVars, settingVars, pc, cycle, fpc, lpc,
                 boundVars, historyVars>>

\* The bundle carries the designation, so this write moves the version too.
DesignateKey(m) ==
  /\ kpc = <<m>>
  /\ configWrite(m, [conf[m] EXCEPT !.designated = Max(conf[m].keys)])
  /\ kpc' = None
  /\ UNCHANGED <<replicas, pairing, codes, secrets, tableVars, xferVars, settingVars, pc, cycle, fpc, lpc,
                 boundVars, historyVars>>

\* The main restarts, or a write of ensureSyncKey fails.
KeyAbandoned ==
  /\ kpc # None /\ Event
  /\ kpc' = None
  /\ fpc' = IF fpc = None THEN None ELSE IF fpc.at = "answer" THEN None ELSE fpc
  /\ UNCHANGED <<conf, replicas, pairing, codes, secrets, tableVars, xferVars, settingVars, pc, cycle, lpc,
                 peers, historyVars>>

Forget(m, b) ==
  /\ Event
  /\ replicas' = [replicas EXCEPT ![m] = RestrictDomain(@, LAMBDA x : x # b)]
  /\ UNCHANGED <<conf, pairing, codes, secrets, kpc, tableVars, xferVars, settingVars, pc, cycle, fpc, lpc,
                 peers, historyVars>>

Authenticate(m, secret) == {b \in DOMAIN replicas[m] : replicas[m][b] = secret}

-----------------------------------------------------------------------------
(* The box: following, promotion, and writes through its own API.          *)

\* handleFollow answers 409 while a peer is stored; the code travels.
FollowStart(m) ==
  /\ fpc = None /\ peer = None /\ peers < MaxPeers
  /\ \E code \in 0 .. codes[m] : fpc' = [at |-> "pair", main |-> m, code |-> code, secret |-> 0]
  /\ peers' = peers + 1
  /\ UNCHANGED <<mainVars, tableVars, xferVars, settingVars, pc, cycle, lpc, events, historyVars>>

\* POST /sync/pair on the main, and its answer on the way back.
FollowPair ==
  /\ fpc # None /\ fpc.at = "pair" /\ kpc = None
  /\ LET m == fpc.main IN
       \/ /\ Pair(m, Box, fpc.code, TRUE)
          /\ kpc' = IF KeyMissing(m) THEN m ELSE None
          /\ fpc' = [fpc EXCEPT !.at = "answer", !.secret = secrets']
          /\ UNCHANGED events
       \/ Pair(m, Box, fpc.code, FALSE) /\ fpc' = None /\ UNCHANGED kpc
       \/ Guess(m, fpc.code) /\ fpc' = None /\ UNCHANGED <<kpc, events>>
       \/ /\ ~Live(m) /\ fpc' = None
          /\ UNCHANGED <<pairing, replicas, secrets, kpc, events>>
  /\ UNCHANGED <<conf, codes, tableVars, xferVars, settingVars, pc, cycle, lpc, peers, historyVars>>

\* SetMany of peer and token in one write.  The wake that follows only brings
\* the next cycle forward.
FollowStore ==
  /\ fpc # None /\ fpc.at = "answer" /\ kpc = None
  /\ peer' = fpc.main /\ token' = fpc.secret
  /\ fpc' = None
  /\ UNCHANGED <<mainVars, tableVars, xferVars, appliedVersion, appliedPeer, pc, cycle, lpc, boundVars, historyVars>>

\* The answer is lost, or the store refuses the write.
FollowLost ==
  /\ fpc # None /\ Event
  /\ fpc' = None
  /\ UNCHANGED <<mainVars, tableVars, xferVars, settingVars, pc, cycle, lpc, peers, historyVars>>

\* PUT /settings clears sync.peer_url; the token goes on standing.
Promote ==
  /\ peer # None
  /\ peer' = None
  /\ UNCHANGED <<mainVars, tableVars, xferVars, token, appliedVersion, appliedPeer, pc, cycle, fpc, lpc,
                 boundVars, historyVars>>

\* managed asks for the peer before the handler runs, and only then.
OwnWriteAllowed ==
  /\ lpc = "idle" /\ peer = None /\ events < MaxEvents
  /\ lpc' = "write"
  /\ UNCHANGED <<mainVars, tableVars, xferVars, settingVars, pc, cycle, fpc, boundVars, historyVars>>

OwnWrite ==
  /\ lpc = "write" /\ Event
  /\ \E t \in OneRow(own.clients) \ {own.clients} : own' = [own EXCEPT !.clients = t]
  /\ lpc' = "idle" /\ edited' = TRUE
  /\ UNCHANGED <<mainVars, recs, moved, xferVars, settingVars, pc, cycle, fpc, peers, torn, stale>>

-----------------------------------------------------------------------------
(* The refresher: one attempt for a zone at a time, from whoever it names. *)

Attempt(i, a) == xfer' = [xfer EXCEPT ![i] = a]
Underway(i, l) == xfer[i] # None /\ xfer[i].at = l

AttemptFrame == UNCHANGED <<mainVars, settingVars, pc, cycle, fpc, lpc, boundVars, historyVars>>

StillSecondary(i) == i \in DOMAIN own.zones /\ own.zones[i].type = "secondary"

\* Sync: a zone never transferred is transferred without a probe.
AttemptStart(i) ==
  /\ xfer[i] = None /\ StillSecondary(i)
  /\ Attempt(i, [at |-> IF i \in moved THEN "probe" ELSE "ask", row |-> None, held |-> FALSE, fresh |-> TRUE])
  /\ UNCHANGED <<tableVars, undone, gap>> /\ AttemptFrame

\* install: the zone has arrived, and is diffed against the records it holds.
InstallDiff(i) ==
  /\ Underway(i, "probe") \/ Underway(i, "ask")
  /\ Attempt(i, [at |-> "row", row |-> None, held |-> i \in recs, fresh |-> TRUE])
  /\ UNCHANGED <<tableVars, undone, gap>> /\ AttemptFrame

\* install reads the row again: gone or retyped, nothing is written.
InstallRead(i) ==
  /\ Underway(i, "row")
  /\ IF StillSecondary(i)
     THEN Attempt(i, [xfer[i] EXCEPT !.at = "write", !.row = own.zones[i]])
     ELSE Attempt(i, None)
  /\ UNCHANGED <<tableVars, undone, gap>> /\ AttemptFrame

\* What may have to be written over the records that were read, if any.
Diffs(held) == IF held THEN {"none", "adds", "changes"} ELSE {"adds"}

\* ReplaceRecords: the diff, and every column of the row that was read.  It
\* fails on a zone, or on a record to change, that is gone.
InstallWrite(i) ==
  /\ Underway(i, "write") /\ Attempt(i, None)
  /\ \E d \in Diffs(xfer[i].held) :
       IF i \notin DOMAIN own.zones \/ (d = "changes" /\ i \notin recs)
       THEN UNCHANGED <<tableVars, undone, gap>>
       ELSE /\ own' = [own EXCEPT !.zones[i] = xfer[i].row]
            /\ recs' = IF d = "none" THEN recs ELSE recs \cup {i}
            /\ moved' = moved \cup {i}
            /\ undone' = (undone \/ own.zones[i] # xfer[i].row)
            /\ gap' = IF xfer[i].fresh THEN gap \ {i} ELSE gap \cup {i}
  /\ AttemptFrame

\* markChecked: the primary has nothing newer; the row is read again.
CheckRead(i) ==
  /\ Underway(i, "probe")
  /\ Attempt(i, IF StillSecondary(i) THEN [xfer[i] EXCEPT !.at = "stamp"] ELSE None)
  /\ UNCHANGED <<tableVars, undone, gap>> /\ AttemptFrame

\* NoteRefreshed writes the two stamps of whatever row has the id.
NoteRefreshed(i) ==
  /\ Underway(i, "stamp") /\ Attempt(i, None)
  /\ IF i \in DOMAIN own.zones
     THEN moved' = moved \cup {i} /\ gap' = IF xfer[i].fresh THEN gap ELSE gap \cup {i}
     ELSE UNCHANGED <<moved, gap>>
  /\ UNCHANGED <<own, recs, undone>> /\ AttemptFrame

\* No primary answers, what arrives is not a zone, or the store fails.
AttemptFails(i) ==
  /\ xfer[i] # None /\ Attempt(i, None)
  /\ UNCHANGED <<tableVars, undone, gap>> /\ AttemptFrame

RefreshStep(i) ==
  \/ AttemptStart(i) \/ InstallDiff(i) \/ InstallRead(i) \/ InstallWrite(i)
  \/ CheckRead(i) \/ NoteRefreshed(i) \/ AttemptFails(i)

-----------------------------------------------------------------------------
(* The poll loop: PullOnce, step by step.                                  *)

Goto(l) == pc' = l
Done == pc' = "idle" /\ cycle' = NoCycle

\* The loop's timer or a wake; the one read that decides.
ReadPeer ==
  /\ pc = "idle"
  /\ cycle' = [NoCycle EXCEPT !.peer = peer]
  /\ IF peer # None THEN Goto("settings")
     ELSE IF appliedVersion # 0 THEN Goto("forget") ELSE Goto("idle")
  /\ UNCHANGED <<mainVars, tableVars, xferVars, settingVars, fpc, lpc, boundVars, historyVars>>

\* A promoted box drops the notes, the version first.
ClearVersion ==
  /\ pc = "forget"
  /\ appliedVersion' = 0 /\ Goto("forgetPeer")
  /\ UNCHANGED <<mainVars, tableVars, xferVars, peer, token, appliedPeer, cycle, fpc, lpc, boundVars, historyVars>>

ClearPeer ==
  /\ pc = "forgetPeer"
  /\ appliedPeer' = None /\ torn' = FALSE /\ Done
  /\ UNCHANGED <<mainVars, tableVars, xferVars, peer, token, appliedVersion, fpc, lpc, boundVars, edited, stale>>

\* Mutant: a version is a version, whoever counted it.
AppliedAnyPeer(p) == appliedVersion # 0

Applied(p) == appliedVersion # 0 /\ appliedPeer = p

ReadSettings ==
  /\ pc = "settings"
  /\ cycle' = [cycle EXCEPT !.token = token, !.applied = Applied(cycle.peer), !.version = appliedVersion]
  /\ Goto("probe")
  /\ UNCHANGED <<mainVars, tableVars, xferVars, settingVars, fpc, lpc, boundVars, historyVars>>

\* requireReplica: the secret is looked up, and the lock let go.
ProbeAuth ==
  /\ pc = "probe"
  /\ IF Authenticate(cycle.peer, cycle.token) = {} THEN Done ELSE Goto("stamp") /\ UNCHANGED cycle
  /\ UNCHANGED <<mainVars, tableVars, xferVars, settingVars, fpc, lpc, boundVars, historyVars>>

\* Mutant: a heartbeat stamps whoever it names, registered or not.
HeartbeatUpserts(m, b, secret) ==
  replicas' = [replicas EXCEPT ![m] = [x \in DOMAIN @ \cup {b} |-> IF x = b THEN secret ELSE @[x]]]

\* Registry.Heartbeat: last_seen and version_applied of a registered box.
Heartbeat(m, b, secret) == UNCHANGED replicas

\* pull: a version already applied from this peer is nothing to apply.
NothingNew(v) == cycle.applied /\ v = cycle.version

\* handleSyncVersion: stamped, or 401 when forgotten since.
Stamp ==
  /\ pc = "stamp"
  /\ Heartbeat(cycle.peer, Box, cycle.token)
  /\ IF Box \notin DOMAIN replicas[cycle.peer] THEN Done ELSE Goto("version") /\ UNCHANGED cycle
  /\ UNCHANGED <<conf, pairing, codes, secrets, kpc, tableVars, xferVars, settingVars, fpc, lpc, boundVars, historyVars>>

\* The version it answers with, read once the stamp is written.
Probe ==
  /\ pc = "version"
  /\ LET v == conf[cycle.peer].ver IN
       IF NothingNew(v) THEN Done ELSE Goto("fetch") /\ cycle' = [cycle EXCEPT !.probed = v]
  /\ UNCHANGED <<mainVars, tableVars, xferVars, settingVars, fpc, lpc, boundVars, historyVars>>

Exporting(l, next, part) ==
  /\ pc = l /\ Goto(next)
  /\ cycle' = [cycle EXCEPT !.bundle = part]
  /\ UNCHANGED <<mainVars, tableVars, xferVars, settingVars, fpc, lpc, boundVars, historyVars>>

\* GET /sync/bundle: the secret again, then ExportBundle, version first.
ExportVersion ==
  /\ pc = "fetch" /\ Authenticate(cycle.peer, cycle.token) # {}
  /\ Exporting("fetch", "exportSettings", [ver |-> conf[cycle.peer].ver])

ExportRefused ==
  /\ pc = "fetch" /\ Authenticate(cycle.peer, cycle.token) = {}
  /\ Done
  /\ UNCHANGED <<mainVars, tableVars, xferVars, settingVars, fpc, lpc, boundVars, historyVars>>

ExportSettings ==
  LET c == conf[cycle.peer] IN
  Exporting("exportSettings", "exportRows",
            [ver |-> cycle.bundle.ver, settings |-> c.settings, designated |-> c.designated])

\* Clients and keys; nothing in one refers to the other.
ExportRows ==
  LET c == conf[cycle.peer] b == cycle.bundle IN
  Exporting("exportRows", "exportZones",
            [ver |-> b.ver, settings |-> b.settings, designated |-> b.designated,
             clients |-> c.clients, keys |-> c.keys])

ExportZones ==
  LET b == cycle.bundle IN
  Exporting("exportZones", "import",
            [ver |-> b.ver, settings |-> b.settings, designated |-> b.designated,
             clients |-> b.clients, keys |-> b.keys, zones |-> conf[cycle.peer].zones])

Validate(b) == \A i \in DOMAIN b.zones : b.zones[i].key \in b.keys \cup {0}

\* A primary of the main is a secondary here, signed with the designated key.
DeriveZones(zones, designated) ==
  [i \in DOMAIN zones |->
     IF zones[i].type = "primary" THEN [type |-> "secondary", key |-> designated] ELSE zones[i]]

\* Mutant: surviving rows keep their matchers while the bundle's are written.
NotParked(i) == own.clients[i]

\* Surviving rows are parked on values no bundle can hold.
Parked(i) == None

\* Row by row in id order: a matcher another row still holds fails the upsert.
UpsertFails(clients) ==
  \E i, j \in DOMAIN clients :
    /\ i # j
    /\ clients[i] = IF j < i THEN clients[j]
                    ELSE IF j \in DOMAIN own.clients THEN Parked(j) ELSE None

\* Zones that answer from somewhere else.
Elsewhere(zones) == {i \in DOMAIN zones : zones[i].type \notin {"primary", "secondary"}}

\* Mutant: the records go and the transfer state stays.
ForgottenTransfersKept(zones) == {}

\* soa_serial and refreshed_at go back to zero with the records.
ForgottenTransfers(zones) == Elsewhere(zones)

\* The sequence goes on past every id the bundle wrote.
NextId(zones) == Max(DOMAIN zones \cup DOMAIN own.zones) + 1

\* Built-ins not in the way stay; one that was comes back past every id.
Reseed(zones) ==
  LET kept == {i \in DOMAIN own.zones \ DOMAIN zones : own.zones[i].type = "internal"}
      new == IF kept = {} THEN {NextId(zones)} ELSE {} IN
  [i \in DOMAIN zones \cup kept \cup new |-> IF i \in DOMAIN zones THEN zones[i] ELSE Builtin]

\* evictBuiltinCollisions: built-ins whose id a zone of the bundle takes.
Evicted(zones) == {i \in DOMAIN zones \cap DOMAIN own.zones : own.zones[i].type = "internal"}

\* pruneMissing: a row the bundle does not carry goes, its records with it.
Pruned(ids, zones) == ids \cap DOMAIN zones

\* importSettings: the keys that travel are the bundle's, local ones stay.
ImportedSettings(b) == b.settings

\* The upserts write the bundle's rows back under the bundle's ids.
Upserted(b, zones) ==
  [settings |-> ImportedSettings(b), clients |-> b.clients, keys |-> b.keys, zones |-> zones]

\* One transaction, or nothing.
ImportBundle(b) ==
  LET zones == DeriveZones(b.zones, b.designated)
      all == Reseed(zones) IN
  /\ own' = Upserted(b, all)
  /\ recs' = (Pruned(recs \ Evicted(zones), all) \ Elsewhere(zones))
               \cup {i \in DOMAIN all : all[i].type = "internal"}
  /\ moved' = Pruned(moved \ Evicted(zones), zones) \ ForgottenTransfers(zones)
  /\ torn' = TRUE /\ edited' = FALSE /\ stale' = "yes"
  /\ undone' = FALSE /\ gap' = Pruned(gap \ Evicted(zones), zones) \ Elsewhere(zones)
  /\ xfer' = [i \in ZoneIds |-> IF xfer[i] = None THEN None ELSE [xfer[i] EXCEPT !.fresh = FALSE]]

Import ==
  /\ pc = "import"
  /\ LET b == cycle.bundle IN
       IF ~Validate(b) \/ b.ver # cycle.probed \/ UpsertFails(b.clients)
       THEN Done /\ UNCHANGED <<tableVars, xferVars, historyVars>>
       ELSE ImportBundle(b) /\ Goto("noteVersion") /\ UNCHANGED cycle
  /\ UNCHANGED <<mainVars, settingVars, fpc, lpc, boundVars>>

NoteVersion ==
  /\ pc = "noteVersion"
  /\ appliedVersion' = cycle.bundle.ver /\ Goto("notePeer")
  /\ UNCHANGED <<mainVars, tableVars, xferVars, peer, token, appliedPeer, cycle, fpc, lpc, boundVars, historyVars>>

NotePeer ==
  /\ pc = "notePeer"
  /\ appliedPeer' = cycle.peer /\ Goto("reload")
  /\ torn' = (appliedVersion # cycle.bundle.ver)
  /\ UNCHANGED <<mainVars, tableVars, xferVars, peer, token, appliedVersion, cycle, fpc, lpc, boundVars, edited, stale>>

\* One note is not written: reported, and the next one tried.
NoteFails ==
  /\ pc \in {"noteVersion", "notePeer", "forget", "forgetPeer"} /\ Event
  /\ CASE pc = "noteVersion" -> Goto("notePeer") /\ UNCHANGED cycle
       [] pc = "notePeer"    -> Goto("reload") /\ UNCHANGED cycle
       [] pc = "forget"      -> Goto("forgetPeer") /\ UNCHANGED cycle
       [] pc = "forgetPeer"  -> Done
  /\ UNCHANGED <<mainVars, tableVars, xferVars, settingVars, fpc, lpc, peers, historyVars>>

Reload ==
  /\ pc = "reload" /\ stale' = "no" /\ Done
  /\ UNCHANGED <<mainVars, tableVars, xferVars, settingVars, fpc, lpc, boundVars, torn, edited>>

ReloadFails ==
  /\ pc = "reload" /\ Event /\ Done
  /\ stale' = "failed"
  /\ UNCHANGED <<mainVars, tableVars, xferVars, settingVars, fpc, lpc, peers, torn, edited>>

\* A request of the cycle fails: the peer is away, or the answer is lost.
RequestFails ==
  /\ pc \in {"probe", "stamp", "version", "fetch", "exportSettings", "exportRows", "exportZones"} /\ Event /\ Done
  /\ UNCHANGED <<mainVars, tableVars, xferVars, settingVars, fpc, lpc, peers, historyVars>>

\* The box dies and starts again, loading the tables it has.
Crash ==
  /\ Event /\ Done
  /\ lpc' = "idle" /\ stale' = "no"
  /\ fpc' = None /\ xfer' = [i \in ZoneIds |-> None]
  /\ UNCHANGED <<mainVars, tableVars, undone, gap, settingVars, peers, torn, edited>>

MainStep ==
  \/ \E m \in Mains : \/ Write(m) \/ NewPairingCode(m) \/ CodeExpires(m)
                      \/ CreateKey(m) \/ DesignateKey(m)
                      \/ Forget(m, Box)
  \/ KeyAbandoned

ApiStep ==
  \/ \E m \in Mains : FollowStart(m)
  \/ FollowPair \/ FollowStore \/ FollowLost
  \/ Promote \/ OwnWriteAllowed \/ OwnWrite
  \/ \E i \in ZoneIds : RefreshStep(i)

PollStep ==
  \/ ReadPeer \/ ClearVersion \/ ClearPeer \/ ReadSettings \/ ProbeAuth \/ Stamp \/ Probe
  \/ ExportVersion \/ ExportRefused \/ ExportSettings \/ ExportRows \/ ExportZones
  \/ Import \/ NoteVersion \/ NotePeer \/ Reload

Faulty == NoteFails \/ ReloadFails \/ RequestFails \/ Crash

Next == MainStep \/ ApiStep \/ PollStep \/ Faulty

Spec == Init /\ [][Next]_vars
\* The poll loop runs for as long as the box does, and so does a pairing the
\* main has begun.
FairSpec ==
  /\ Spec /\ WF_vars(PollStep)
  /\ \A m \in Mains : WF_vars(CreateKey(m)) /\ WF_vars(DesignateKey(m))

-----------------------------------------------------------------------------
OrNone(S) == S \cup {None}

\* ensureSyncKey runs once for every code and creates one key at most.
MaxKeys == MaxCodes * Cardinality(Mains)

\* Every variable has its type.
TypeOK ==
  /\ conf \in [Mains -> [ver: Nat, settings: SUBSET SettingKeys, designated: Nat, keys: SUBSET (0 .. MaxKeys),
                         clients: ClientTables, zones: UNION {[S -> MainZones(0 .. MaxKeys)] : S \in SUBSET ZoneIds}]]
  /\ \A m \in Mains : /\ DOMAIN replicas[m] \subseteq {Box} /\ Range(replicas[m]) \subseteq 1 .. secrets
                     /\ pairing[m] \in OrNone([code: 1 .. codes[m], attempts: 0 .. PairingMaxAttempts])
  /\ own.settings \subseteq SettingKeys /\ own.clients \in ClientTables
  /\ recs \subseteq DOMAIN own.zones /\ moved \subseteq DOMAIN own.zones
  /\ peer \in OrNone(Mains) /\ appliedPeer \in OrNone(Mains) /\ token \in 0 .. secrets
  /\ xfer \in [ZoneIds -> OrNone([at: {"probe", "ask", "row", "write", "stamp"}, held: BOOLEAN,
                                 row: OrNone([type: {"secondary"}, key: 0 .. MaxKeys]), fresh: BOOLEAN])]
  /\ {torn, edited, undone} \subseteq BOOLEAN /\ gap \subseteq DOMAIN own.zones /\ stale \in {"no", "yes", "failed"}

\* The box holds what the main holds: the same rows under the same ids, every
\* primary of the main a secondary under the key the main designates, and its
\* own built-ins beside them.
SameTables(m) ==
  /\ own.settings = conf[m].settings /\ own.clients = conf[m].clients /\ own.keys = conf[m].keys
  /\ RestrictDomain(own.zones, LAMBDA i : own.zones[i].type # "internal") =
       DeriveZones(conf[m].zones, conf[m].designated)

\* A box that would answer its next probe with "nothing to do" (the version
\* noted is the main's, and noted from that main) holds that main's
\* configuration, however the export was torn by writes, whichever main it
\* followed before and wherever it crashed.  Three exceptions are the code's:
\* a write through its own API after the last import, an import whose two notes
\* (replica.go PullOnce) were not both written, and an import that committed
\* between a transfer's read of its row and the commit that writes every column
\* of it back (zones/transfer.go:886 and 943; the comment at 884 admits the
\* window for an operator's edit).  The version is level then, so nothing brings
\* the import back before the main's next write.
LevelMeansEqual ==
  (peer # None /\ Applied(peer) /\ appliedVersion = conf[peer].ver /\ ~edited /\ ~torn /\ ~undone)
    => SameTables(peer)

\* A zone that answers from somewhere else keeps neither records nor transfer
\* state, and a zone that counts as transferred has the records: otherwise a
\* zone turned back into a secondary would never be transferred again.  A zone
\* in gap is the exception: the last attempt that wrote it had read its records
\* or probed its serial before an import that it then wrote over
\* (zones/transfer.go:865 to 943, and 269 to 313).
TransferStateMatchesRecords ==
  /\ moved \ gap \subseteq recs
  /\ \A i \in DOMAIN own.zones \ gap : own.zones[i].type = "forwarder" => i \notin recs \cup moved

\* A box enters a main's registry only in the step that spends a live code: a
\* probe in flight while it is forgotten does not bring it back, and a code
\* whose registration half failed admits nobody else.
EnteredBySpendingACode ==
  [][\A m \in Mains : \A b \in DOMAIN replicas'[m] \ DOMAIN replicas[m] :
       pairing[m] # None /\ pairing'[m] = None]_vars

Registered == peer # None /\ Box \in DOMAIN replicas[peer] /\ replicas[peer][Box] = token

\* A box that goes on following a main that knows it ends up with the main's
\* last configuration, and answers from it unless a reload failed: no bundle
\* wedges the import, and no write of the main is missed for good.  The
\* exceptions are LevelMeansEqual's.
Converges ==
  <>[]Registered =>
    <>[](edited \/ torn \/ undone \/ (peer # None /\ SameTables(peer) /\ stale # "yes"))
=============================================================================
