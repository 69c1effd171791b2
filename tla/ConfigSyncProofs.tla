-------------------------- MODULE ConfigSyncProofs --------------------------
(***************************************************************************)
(* Proofs about ConfigSync, for any number of mains, any tables, any number *)
(* of codes and any sequence of writes, faults and crashes: who enters a   *)
(* registry, what an imported bundle leaves of the transfer state, and     *)
(* what a box that takes itself for level really holds.                    *)
(***************************************************************************)
EXTENDS ConfigSync, TLAPS

ConfFields == {"ver", "settings", "designated", "keys", "clients", "zones"}
OwnFields == {"settings", "clients", "keys", "zones"}
CycleFields == {"peer", "token", "applied", "version", "probed", "bundle"}
MainTypes == {"primary", "forwarder"}

OnlyMainTypes(zones) == \A i \in DOMAIN zones : zones[i].type \in MainTypes

\* A main's zones are of a main's types, and it counts its writes.
ConfInv ==
  /\ DOMAIN conf = Mains
  /\ \A m \in Mains : /\ DOMAIN conf[m] = ConfFields
                      /\ conf[m].ver \in Nat
                      /\ OnlyMainTypes(conf[m].zones)

\* The box follows a main or nobody, and a pairing names a main.
BoxInv ==
  /\ DOMAIN replicas = Mains /\ DOMAIN pairing = Mains
  /\ DOMAIN own = OwnFields
  /\ peer \in Mains \cup {None}
  /\ fpc # None => DOMAIN fpc = {"at", "main", "code", "secret"} /\ fpc.main \in Mains

\* The places of a cycle, by what it has read so far.
NoPeer == {"idle", "forget", "forgetPeer"}
HasZones == {"import", "noteVersion", "notePeer", "reload"}
HasRows == {"exportZones"} \cup HasZones
HasSettings == {"exportRows"} \cup HasRows
HasVersion == {"exportSettings"} \cup HasSettings

CycleInv ==
  /\ DOMAIN cycle = CycleFields
  /\ pc \notin NoPeer => cycle.peer \in Mains

SyncInv == ConfInv /\ BoxInv /\ CycleInv

\* The part of a bundle that has been read is the main's, unless the main has
\* written since: then its version has moved past the bundle's.
BundleInv ==
  pc \in HasVersion =>
    LET b == cycle.bundle c == conf[cycle.peer] IN
    /\ b.ver \in Nat /\ b.ver <= c.ver
    /\ pc \in HasZones => OnlyMainTypes(b.zones)
    /\ b.ver = c.ver =>
         /\ pc \in HasSettings => b.settings = c.settings /\ b.designated = c.designated
         /\ pc \in HasRows => b.clients = c.clients /\ b.keys = c.keys
         /\ pc \in HasZones => b.zones = c.zones

\* The box's own zones that are not built-ins.
Synced(zones) == RestrictDomain(zones, LAMBDA i : zones[i].type # "internal")

\* The box holds the tables of c, as it derives them.
Holds(c) ==
  /\ own.settings = c.settings /\ own.clients = c.clients /\ own.keys = c.keys
  /\ Synced(own.zones) = DeriveZones(c.zones, c.designated)

\* Until both notes are written, the import is torn, and the box holds the
\* bundle of the cycle.
NotesInv ==
  pc \in {"noteVersion", "notePeer"} => torn /\ (~edited /\ ~undone => Holds(cycle.bundle))

\* What is noted of a main is not ahead of it, and level with it is equal.
LevelInv ==
  appliedVersion # 0 /\ ~torn /\ appliedPeer \in Mains =>
    /\ appliedVersion \in Nat /\ appliedVersion <= conf[appliedPeer].ver
    /\ appliedVersion = conf[appliedPeer].ver /\ ~edited /\ ~undone => Holds(conf[appliedPeer])

\* What an attempt that no import has overtaken knows is still so.
XferInv ==
  /\ DOMAIN xfer = ZoneIds
  /\ \A i \in ZoneIds : xfer[i] # None =>
       /\ DOMAIN xfer[i] = {"at", "row", "held", "fresh"}
       /\ xfer[i].fresh =>
            /\ xfer[i].at \in {"row", "write"} /\ xfer[i].held => i \in recs
            /\ xfer[i].at = "write" => own.zones[i] = xfer[i].row /\ own.zones[i].type = "secondary"
            /\ xfer[i].at \in {"probe", "stamp"} => i \in moved

-----------------------------------------------------------------------------
(* A main's writes.                                                        *)

LEMMA OneEditShape ==
  ASSUME NEW d, DOMAIN d = ConfFields, OnlyMainTypes(d.zones), NEW c \in OneEdit(d)
  PROVE  DOMAIN c = ConfFields /\ OnlyMainTypes(c.zones)
<1> DEFINE Set(v) == [d EXCEPT !.settings = v]
           Cli(t) == [d EXCEPT !.clients = t]
           Put(j, z) == [d EXCEPT !.zones = [i \in (DOMAIN d.zones) \cup {j} |-> IF i = j THEN z ELSE d.zones[i]]]
           Del(j) == [d EXCEPT !.zones = RestrictDomain(d.zones, LAMBDA i : i # j)]
<1>1. OneEdit(d) = {Set(s) : s \in SUBSET SettingKeys} \cup {Cli(t) : t \in OneRow(d.clients)}
                   \cup {Put(j, z) : j \in ZoneIds, z \in MainZones(d.keys)} \cup {Del(j) : j \in ZoneIds}
  BY DEF OneEdit
<1>2. \A v : DOMAIN Set(v) = ConfFields /\ Set(v).zones = d.zones
  BY DEF ConfFields
<1>3. \A t : DOMAIN Cli(t) = ConfFields /\ Cli(t).zones = d.zones
  BY DEF ConfFields
<1>4. ASSUME NEW j \in ZoneIds, NEW z \in MainZones(d.keys)
      PROVE  DOMAIN Put(j, z) = ConfFields /\ OnlyMainTypes(Put(j, z).zones)
  <2>1. z.type \in MainTypes
    BY DEF MainZones, MainTypes
  <2>2. /\ Put(j, z).zones = [i \in (DOMAIN d.zones) \cup {j} |-> IF i = j THEN z ELSE d.zones[i]]
        /\ DOMAIN Put(j, z) = ConfFields
    BY DEF ConfFields
  <2> QED
    BY <2>1, <2>2 DEF OnlyMainTypes
<1>5. ASSUME NEW j \in ZoneIds
      PROVE  DOMAIN Del(j) = ConfFields /\ OnlyMainTypes(Del(j).zones)
  <2>1. Del(j).zones = [i \in {k \in DOMAIN d.zones : k # j} |-> d.zones[i]] /\ DOMAIN Del(j) = ConfFields
    BY DEF RestrictDomain, Restrict, ConfFields
  <2> QED
    BY <2>1 DEF OnlyMainTypes
<1> HIDE DEF Set, Cli, Put, Del
<1> QED
  BY <1>1, <1>2, <1>3, <1>4, <1>5

\* Whatever a main writes, its version moves with it and no other main's does.
Wrote(m) ==
  /\ conf'[m].ver = conf[m].ver + 1
  /\ \A x \in Mains \ {m} : conf'[x] = conf[x]

LEMMA ConfigWrites ==
  ASSUME ConfInv, NEW m \in Mains, NEW c, DOMAIN c = ConfFields, OnlyMainTypes(c.zones), configWrite(m, c)
  PROVE  ConfInv' /\ Wrote(m)
<1> DEFINE n == [c EXCEPT !.ver = conf[m].ver + 1]
<1>1. DOMAIN n = ConfFields /\ n.ver = conf[m].ver + 1 /\ n.zones = c.zones
  BY DEF ConfFields
<1>2. conf' = [conf EXCEPT ![m] = n]
  BY DEF configWrite
<1> HIDE DEF n
<1> QED
  BY <1>1, <1>2 DEF ConfInv, Wrote

LEMMA MainWrites ==
  ASSUME ConfInv, NEW m \in Mains, Write(m) \/ CreateKey(m) \/ DesignateKey(m)
  PROVE  /\ ConfInv' /\ Wrote(m)
         /\ UNCHANGED <<replicas, pairing, tableVars, xferVars, settingVars, pc, cycle, fpc, historyVars>>
<1>1. DOMAIN conf[m] = ConfFields /\ OnlyMainTypes(conf[m].zones)
  BY DEF ConfInv
<1>2. CASE Write(m)
  <2>1. PICK c \in OneEdit(conf[m]) : configWrite(m, c)
    BY <1>2 DEF Write
  <2>2. DOMAIN c = ConfFields /\ OnlyMainTypes(c.zones)
    BY <1>1, OneEditShape
  <2>3. ConfInv' /\ Wrote(m)
    BY <2>1, <2>2, ConfigWrites
  <2> QED
    BY <1>2, <2>3 DEF Write
<1>3. CASE CreateKey(m)
  <2> DEFINE k == Cardinality(conf[m].keys) + 1
             c == [conf[m] EXCEPT !.keys = @ \cup {k}]
  <2>1. DOMAIN c = ConfFields /\ OnlyMainTypes(c.zones)
    BY <1>1 DEF ConfFields
  <2>2. configWrite(m, c)
    BY <1>3 DEF CreateKey
  <2> HIDE DEF c
  <2>3. ConfInv' /\ Wrote(m)
    BY <2>1, <2>2, ConfigWrites
  <2> QED
    BY <1>3, <2>3 DEF CreateKey
<1>4. CASE DesignateKey(m)
  <2> DEFINE c == [conf[m] EXCEPT !.designated = Max(conf[m].keys)]
  <2>1. DOMAIN c = ConfFields /\ OnlyMainTypes(c.zones)
    BY <1>1 DEF ConfFields
  <2>2. configWrite(m, c)
    BY <1>4 DEF DesignateKey
  <2> HIDE DEF c
  <2>3. ConfInv' /\ Wrote(m)
    BY <2>1, <2>2, ConfigWrites
  <2> QED
    BY <1>4, <2>3 DEF DesignateKey
<1> QED
  BY <1>2, <1>3, <1>4

-----------------------------------------------------------------------------
(* The registry.                                                           *)

RegistryFrame == <<conf, tableVars, xferVars, settingVars, pc, cycle, historyVars>>

\* Only the box that spends a live code enters, at the main it asked.
Spends(m) ==
  \A b \in DOMAIN replicas'[m] \ DOMAIN replicas[m] : pairing[m] # None /\ pairing'[m] = None

LEMMA FollowPairs ==
  ASSUME BoxInv, FollowPair
  PROVE  /\ UNCHANGED RegistryFrame
         /\ DOMAIN replicas' = Mains /\ DOMAIN pairing' = Mains
         /\ \A m \in Mains : Spends(m)
         /\ fpc' # None => DOMAIN fpc' = {"at", "main", "code", "secret"} /\ fpc'.main \in Mains
<1> DEFINE m == fpc.main
<1>1. m \in Mains /\ DOMAIN fpc = {"at", "main", "code", "secret"}
  BY DEF BoxInv, FollowPair
<1>2. UNCHANGED RegistryFrame
  BY DEF FollowPair, RegistryFrame
<1>3. CASE /\ Pair(m, Box, fpc.code, TRUE)
           /\ fpc' = [fpc EXCEPT !.at = "answer", !.secret = secrets']
  <2>1. pairing[m] # None /\ pairing' = [pairing EXCEPT ![m] = None]
    BY <1>3 DEF Pair, Live, Spend
  <2>2. \E e : replicas' = [replicas EXCEPT ![m] = e]
    BY <1>3 DEF Pair, Spend, Entered
  <2>3. fpc' # None => DOMAIN fpc' = {"at", "main", "code", "secret"} /\ fpc'.main \in Mains
    BY <1>1, <1>3
  <2>4. \A x \in Mains : Spends(x)
    BY <1>1, <2>1, <2>2 DEF BoxInv, Spends
  <2> QED
    BY <1>1, <1>2, <2>1, <2>2, <2>3, <2>4 DEF BoxInv
<1>4. CASE Pair(m, Box, fpc.code, FALSE) /\ fpc' = None
  <2>1. pairing' = [pairing EXCEPT ![m] = None] /\ UNCHANGED replicas
    BY <1>4 DEF Pair, Spend
  <2> QED
    BY <1>2, <1>4, <2>1 DEF BoxInv, Spends
<1>5. CASE Guess(m, fpc.code) /\ fpc' = None
  <2>1. DOMAIN pairing' = DOMAIN pairing /\ UNCHANGED replicas
    BY <1>5 DEF Guess
  <2> QED
    BY <1>2, <1>5, <2>1 DEF BoxInv, Spends
<1>6. CASE UNCHANGED <<pairing, replicas>> /\ fpc' = None
  BY <1>2, <1>6 DEF BoxInv, Spends
<1> QED
  BY <1>3, <1>4, <1>5, <1>6 DEF FollowPair

LEMMA Forgets ==
  ASSUME BoxInv, NEW m \in Mains, Forget(m, Box)
  PROVE  /\ UNCHANGED RegistryFrame /\ UNCHANGED <<pairing, fpc>>
         /\ DOMAIN replicas' = Mains
         /\ \A x \in Mains : DOMAIN replicas'[x] \subseteq DOMAIN replicas[x]
<1>1. replicas' = [replicas EXCEPT ![m] = [b \in {x \in DOMAIN replicas[m] : x # Box} |-> replicas[m][b]]]
  BY DEF Forget, RestrictDomain, Restrict
<1>2. UNCHANGED RegistryFrame /\ UNCHANGED <<pairing, fpc>>
  BY DEF Forget, RegistryFrame
<1> QED
  BY <1>1, <1>2 DEF BoxInv

\* The refresher writes the zones, the records and the transfer state only.
LEMMA Refreshes ==
  ASSUME NEW i \in ZoneIds, RefreshStep(i)
  PROVE  /\ UNCHANGED <<conf, replicas, pairing, settingVars, pc, cycle, fpc, historyVars>>
         /\ UNCHANGED <<own, undone>> \/ InstallWrite(i)
<1>1. AttemptFrame
  BY DEF RefreshStep, AttemptStart, InstallDiff, InstallRead, InstallWrite, CheckRead, NoteRefreshed, AttemptFails
<1>2. UNCHANGED <<own, undone>> \/ InstallWrite(i)
  BY DEF RefreshStep, AttemptStart, InstallDiff, InstallRead, CheckRead, NoteRefreshed, AttemptFails, tableVars
<1> QED
  BY <1>1, <1>2 DEF AttemptFrame, mainVars

\* A write-back that undoes no import leaves the tables as they were.
LEMMA WritesBack ==
  ASSUME BoxInv, NEW i \in ZoneIds, InstallWrite(i)
  PROVE  /\ DOMAIN own' = OwnFields
         /\ own'.settings = own.settings /\ own'.clients = own.clients /\ own'.keys = own.keys
         /\ DOMAIN own'.zones = DOMAIN own.zones
         /\ \A j \in DOMAIN own.zones : j # i => own'.zones[j] = own.zones[j]
         /\ undone => undone'
         /\ ~undone' => \A j \in DOMAIN own.zones : own'.zones[j] = own.zones[j]
<1>0. DOMAIN own = OwnFields
  BY DEF BoxInv
<1>1. CASE UNCHANGED <<tableVars, undone, gap>>
  BY <1>0, <1>1 DEF tableVars
<1>2. CASE /\ i \in DOMAIN own.zones
           /\ own' = [own EXCEPT !.zones[i] = xfer[i].row]
           /\ undone' = (undone \/ own.zones[i] # xfer[i].row)
  <2>1. own'.zones = [own.zones EXCEPT ![i] = xfer[i].row]
    BY <1>0, <1>2 DEF OwnFields
  <2>2. /\ DOMAIN own' = OwnFields
        /\ own'.settings = own.settings /\ own'.clients = own.clients /\ own'.keys = own.keys
    BY <1>0, <1>2 DEF OwnFields
  <2>3. /\ undone => undone'
        /\ ~undone' => own.zones[i] = xfer[i].row
    BY <1>2
  <2> QED
    BY <1>2, <2>1, <2>2, <2>3
<1> QED
  BY <1>1, <1>2 DEF InstallWrite

LEMMA StillHolds ==
  ASSUME BoxInv, NEW i \in ZoneIds, RefreshStep(i), NEW c, ~undone', ~undone => Holds(c)
  PROVE  own'.settings = c.settings /\ own'.clients = c.clients /\ own'.keys = c.keys
         /\ Synced(own'.zones) = DeriveZones(c.zones, c.designated)
<1>1. CASE UNCHANGED <<own, undone>>
  BY <1>1 DEF Holds
<1>2. CASE InstallWrite(i)
  <2>1. /\ DOMAIN own'.zones = DOMAIN own.zones
        /\ \A j \in DOMAIN own.zones : own'.zones[j] = own.zones[j]
        /\ own'.settings = own.settings /\ own'.clients = own.clients /\ own'.keys = own.keys
        /\ ~undone
    BY <1>2, WritesBack
  <2>2. Synced(own'.zones) = Synced(own.zones)
    <3> DEFINE S(z) == {x \in DOMAIN z : z[x].type # "internal"}
    <3>1. \A z : Synced(z) = [x \in S(z) |-> z[x]]
      BY DEF Synced, RestrictDomain, Restrict
    <3>2. S(own'.zones) = S(own.zones)
      BY <2>1
    <3>3. \A x \in S(own.zones) : own'.zones[x] = own.zones[x]
      BY <2>1
    <3> HIDE DEF S
    <3> QED
      BY <3>1, <3>2, <3>3
  <2> QED
    BY <2>1, <2>2 DEF Holds
<1> QED
  BY <1>1, <1>2, Refreshes

\* Every other step leaves the registry alone.
LEMMA RegistrySteps ==
  ASSUME ConfInv, [Next]_vars
  PROVE  UNCHANGED replicas \/ FollowPair \/ \E m \in Mains : Forget(m, Box)
<1>1. ASSUME MainStep
      PROVE  UNCHANGED replicas \/ \E m \in Mains : Forget(m, Box)
  BY <1>1, MainWrites DEF MainStep, NewPairingCode, CodeExpires, KeyAbandoned
<1>2. ASSUME ApiStep PROVE UNCHANGED replicas \/ FollowPair
  BY <1>2, Refreshes DEF ApiStep, FollowStart, FollowStore, FollowLost, Promote, OwnWriteAllowed, OwnWrite, mainVars
<1>3. ASSUME PollStep PROVE UNCHANGED replicas
  BY <1>3 DEF PollStep, ReadPeer, ClearVersion, ClearPeer, ReadSettings, ProbeAuth, Stamp, Probe, Heartbeat,
       ExportVersion, ExportRefused, ExportSettings, ExportRows, ExportZones, Exporting,
       Import, NoteVersion, NotePeer, Reload, mainVars
<1>4. ASSUME Faulty PROVE UNCHANGED replicas
  BY <1>4 DEF Faulty, NoteFails, ReloadFails, RequestFails, Crash, mainVars
<1> QED
  BY <1>1, <1>2, <1>3, <1>4 DEF Next, vars, mainVars

-----------------------------------------------------------------------------
(* Every step, sorted by what it does to the tables, the notes and the     *)
(* cycle.                                                                  *)

noteVars == <<appliedVersion, appliedPeer, torn, edited, undone>>

\* The API and the registry: tables, notes and cycle stay as they are.
Aside == UNCHANGED <<conf, tableVars, xfer, gap, pc, cycle, noteVars>>

\* The cycle gives up, or ends.
GivesUp ==
  /\ pc' = "idle" /\ cycle' = NoCycle /\ UNCHANGED <<conf, tableVars, gap, noteVars>>
  /\ xfer' \in {xfer, [i \in ZoneIds |-> None]}

\* A step of the cycle that writes nothing.
Reads == ReadPeer \/ ReadSettings \/ Probe \/ ExportVersion \/ ExportSettings \/ ExportRows \/ ExportZones

\* A note is skipped, or a probe is let in.
Skips ==
  /\ <<pc, pc'>> \in {<<"noteVersion", "notePeer">>, <<"notePeer", "reload">>, <<"forget", "forgetPeer">>,
                      <<"probe", "stamp">>, <<"stamp", "version">>}
  /\ UNCHANGED <<conf, tableVars, xfer, gap, cycle, noteVars>>

Imports ==
  /\ pc = "import" /\ ImportBundle(cycle.bundle) /\ Goto("noteVersion")
  /\ UNCHANGED <<cycle, conf, appliedVersion, appliedPeer>>

LEMMA Sorted ==
  ASSUME ConfInv, BoxInv, [Next]_vars
  PROVE  \/ \E m \in Mains : Write(m) \/ CreateKey(m) \/ DesignateKey(m)
         \/ Aside \/ GivesUp \/ Reads \/ Skips \/ Imports
         \/ OwnWrite \/ \E i \in ZoneIds : RefreshStep(i)
         \/ ClearVersion \/ ClearPeer \/ NoteVersion \/ NotePeer
<1>1. ASSUME NEW m \in Mains, NewPairingCode(m) \/ CodeExpires(m) \/ Forget(m, Box) \/ FollowStart(m)
      PROVE  Aside
  BY <1>1 DEF NewPairingCode, CodeExpires, Forget, FollowStart, Aside, noteVars, mainVars, settingVars, xferVars, historyVars
<1>2. ASSUME KeyAbandoned \/ FollowStore \/ FollowLost \/ Promote \/ OwnWriteAllowed
      PROVE  Aside
  BY <1>2 DEF KeyAbandoned, FollowStore, FollowLost, Promote, OwnWriteAllowed, Aside, noteVars, mainVars,
       settingVars, xferVars, historyVars
<1>3. ASSUME FollowPair PROVE Aside
  BY <1>3, FollowPairs DEF RegistryFrame, Aside, noteVars, settingVars, xferVars, historyVars
<1>4. ASSUME UNCHANGED vars PROVE Aside
  BY <1>4 DEF vars, Aside, noteVars, mainVars, settingVars, xferVars, historyVars
<1>5. ASSUME ProbeAuth \/ Stamp PROVE GivesUp \/ Skips
  BY <1>5 DEF ProbeAuth, Stamp, Goto, Done, GivesUp, Skips, noteVars, mainVars, settingVars, xferVars, historyVars
<1>6. ASSUME ExportRefused \/ ReloadFails \/ RequestFails \/ Crash \/ Reload PROVE GivesUp
  BY <1>6 DEF ExportRefused, ReloadFails, RequestFails, Crash, Reload, Done, GivesUp, noteVars, mainVars,
       settingVars, xferVars, historyVars
<1>7. ASSUME Import PROVE GivesUp \/ Imports
  BY <1>7 DEF Import, Done, GivesUp, Imports, noteVars, mainVars, settingVars, xferVars, historyVars
<1>8. ASSUME NoteFails PROVE GivesUp \/ Skips
  BY <1>8 DEF NoteFails, Goto, Done, GivesUp, Skips, noteVars, mainVars, settingVars, xferVars, historyVars
<1> QED
  BY <1>1, <1>2, <1>3, <1>4, <1>5, <1>6, <1>7, <1>8
     DEF Next, MainStep, ApiStep, PollStep, Faulty, Reads

-----------------------------------------------------------------------------
(* Shapes.                                                                 *)

\* Who follows whom, and who is registered: what the API and the registry move.
LEMMA BoxStep ==
  ASSUME ConfInv, BoxInv, [Next]_vars
  PROVE  BoxInv'
<1>1. DOMAIN own' = OwnFields
  <2>1. CASE UNCHANGED own
    BY <2>1 DEF BoxInv
  <2>2. CASE OwnWrite
    BY <2>2 DEF OwnWrite, BoxInv
  <2>3. CASE Imports
    BY <2>3 DEF Imports, ImportBundle, Upserted, OwnFields
  <2>4. ASSUME NEW i \in ZoneIds, RefreshStep(i) PROVE DOMAIN own' = OwnFields
    BY <2>1, <2>4, Refreshes, WritesBack
  <2> QED
    BY <2>1, <2>2, <2>3, <2>4, Sorted, MainWrites
       DEF Aside, GivesUp, Skips, Reads, ReadPeer, ReadSettings, Probe, ExportVersion, ExportSettings,
           ExportRows, ExportZones, Exporting, ClearVersion, ClearPeer, NoteVersion, NotePeer, tableVars
<1>2. DOMAIN replicas' = Mains
  BY RegistrySteps, FollowPairs, Forgets DEF BoxInv
<1>3. CASE FollowPair
  BY <1>1, <1>3, FollowPairs DEF RegistryFrame, BoxInv, settingVars
<1>4. CASE ~FollowPair
  <2>1. DOMAIN pairing' = Mains
    <3>1. ASSUME MainStep PROVE DOMAIN pairing' = Mains
      BY <3>1, MainWrites DEF MainStep, NewPairingCode, CodeExpires, KeyAbandoned, Forget, BoxInv
    <3>2. ASSUME ApiStep PROVE DOMAIN pairing' = Mains
      BY <1>4, <3>2, Refreshes DEF ApiStep, FollowStart, FollowStore, FollowLost, Promote, OwnWriteAllowed, OwnWrite,
           mainVars, BoxInv
    <3>3. ASSUME PollStep PROVE DOMAIN pairing' = Mains
      BY <3>3 DEF PollStep, ReadPeer, ClearVersion, ClearPeer, ReadSettings, ProbeAuth, Stamp, Probe,
           ExportVersion, ExportRefused, ExportSettings, ExportRows, ExportZones, Exporting,
           Import, NoteVersion, NotePeer, Reload, mainVars, BoxInv
    <3>4. ASSUME Faulty PROVE DOMAIN pairing' = Mains
      BY <3>4 DEF Faulty, NoteFails, ReloadFails, RequestFails, Crash, mainVars, BoxInv
    <3> QED
      BY <3>1, <3>2, <3>3, <3>4 DEF Next, vars, mainVars, BoxInv
  <2>2. /\ peer' \in Mains \cup {None}
        /\ fpc' # None => DOMAIN fpc' = {"at", "main", "code", "secret"} /\ fpc'.main \in Mains
    <3>1. ASSUME MainStep PROVE peer' = peer /\ fpc' \in {fpc, None}
      BY <3>1, MainWrites DEF MainStep, NewPairingCode, CodeExpires, KeyAbandoned, Forget, settingVars
    <3>2. ASSUME ApiStep
          PROVE  \/ peer' = peer /\ fpc' \in {fpc, None}
                 \/ peer' = None /\ fpc' = fpc
                 \/ fpc # None /\ peer' = fpc.main /\ fpc' = None
                 \/ \E m \in Mains : FollowStart(m)
      BY <1>4, <3>2, Refreshes DEF ApiStep, FollowStore, FollowLost, Promote, OwnWriteAllowed, OwnWrite, settingVars
    <3>3. ASSUME PollStep PROVE peer' = peer /\ fpc' = fpc
      BY <3>3 DEF PollStep, ReadPeer, ClearVersion, ClearPeer, ReadSettings, ProbeAuth, Stamp, Probe,
           ExportVersion, ExportRefused, ExportSettings, ExportRows, ExportZones, Exporting,
           Import, NoteVersion, NotePeer, Reload, settingVars
    <3>4. ASSUME Faulty PROVE peer' = peer /\ fpc' \in {fpc, None}
      BY <3>4 DEF Faulty, NoteFails, ReloadFails, RequestFails, Crash, settingVars
    <3>5. ASSUME NEW m \in Mains, FollowStart(m)
          PROVE  /\ peer' = peer
                 /\ DOMAIN fpc' = {"at", "main", "code", "secret"} /\ fpc'.main \in Mains
      BY <3>5 DEF FollowStart, settingVars
    <3> QED
      BY <3>1, <3>2, <3>3, <3>4, <3>5 DEF Next, vars, settingVars, BoxInv
  <2> QED
    BY <1>1, <1>2, <2>1, <2>2 DEF BoxInv
<1> QED
  BY <1>3, <1>4

LEMMA ConfStep ==
  ASSUME ConfInv, BoxInv, [Next]_vars
  PROVE  ConfInv'
<1>1. CASE UNCHANGED conf
  BY <1>1 DEF ConfInv
<1> QED
  BY <1>1, Sorted, MainWrites, Refreshes
     DEF Aside, GivesUp, Skips, Imports, Reads, ReadPeer, ReadSettings, Probe, ExportVersion, ExportSettings,
         ExportRows, ExportZones, Exporting, OwnWrite, ClearVersion, ClearPeer, NoteVersion, NotePeer,
         mainVars

LEMMA CycleStep ==
  ASSUME ConfInv, BoxInv, CycleInv, [Next]_vars
  PROVE  CycleInv'
<1> USE DEF CycleInv, NoPeer
<1>1. CASE UNCHANGED <<pc, cycle>>
  BY <1>1
<1>2. CASE GivesUp
  BY <1>2 DEF GivesUp, NoCycle, CycleFields
<1>3. CASE Skips
  BY <1>3 DEF Skips
<1>4. CASE Imports
  BY <1>4 DEF Imports, Goto
<1>5. CASE ReadPeer
  BY <1>5 DEF ReadPeer, Goto, NoCycle, CycleFields, BoxInv
<1>6. CASE ReadSettings
  BY <1>6 DEF ReadSettings, Goto, CycleFields
<1>7. CASE Probe
  <2>1. CASE Done
    BY <2>1 DEF Done, NoCycle, CycleFields
  <2>2. CASE \E v : cycle' = [cycle EXCEPT !.probed = v]
    BY <1>7, <2>2 DEF Probe, CycleFields
  <2> QED
    BY <1>7, <2>1, <2>2 DEF Probe
<1>8. ASSUME NEW l \in {"fetch", "exportSettings", "exportRows", "exportZones"}, NEW next, NEW part,
             Exporting(l, next, part)
      PROVE  CycleInv'
  BY <1>8 DEF Exporting, CycleFields
<1>9. CASE ClearPeer
  BY <1>9 DEF ClearPeer, Done, NoCycle, CycleFields
<1>10. CASE ClearVersion \/ NoteVersion \/ NotePeer
  BY <1>10 DEF ClearVersion, NoteVersion, NotePeer, Goto
<1> QED
  BY <1>1, <1>2, <1>3, <1>4, <1>5, <1>6, <1>7, <1>8, <1>9, <1>10, Sorted, MainWrites, Refreshes
     DEF Aside, Reads, ExportVersion, ExportSettings, ExportRows, ExportZones, OwnWrite

-----------------------------------------------------------------------------
(* A bundle is a main's configuration at its version.                      *)

LEMMA BundleStep ==
  ASSUME SyncInv, BundleInv, [Next]_vars
  PROVE  BundleInv'
<1> USE DEF SyncInv
<1> USE DEF HasVersion, HasSettings, HasRows, HasZones
<1>1. CASE UNCHANGED <<conf, pc, cycle>>
  BY <1>1 DEF BundleInv
<1>2. ASSUME NEW m \in Mains, Write(m) \/ CreateKey(m) \/ DesignateKey(m) PROVE BundleInv'
  <2>1. Wrote(m) /\ UNCHANGED <<pc, cycle>>
    BY <1>2, MainWrites
  <2>2. pc \in HasVersion => cycle.peer \in Mains
    BY DEF CycleInv, NoPeer
  <2>3. CASE pc \in HasVersion /\ cycle.peer = m
    <3>1. cycle.bundle.ver \in Nat /\ cycle.bundle.ver <= conf[m].ver /\ conf[m].ver \in Nat
      BY <2>3 DEF BundleInv, ConfInv
    <3>2. cycle.bundle.ver < conf'[m].ver
      BY <2>1, <3>1 DEF Wrote
    <3>3. pc \in HasZones => OnlyMainTypes(cycle.bundle.zones)
      BY <2>3 DEF BundleInv
    <3> HIDE DEF HasVersion, HasSettings, HasRows, HasZones
    <3>4. cycle'.bundle = cycle.bundle /\ cycle'.peer = m /\ pc' = pc
      BY <2>1, <2>3
    <3>5. cycle.bundle.ver <= conf'[m].ver /\ cycle.bundle.ver # conf'[m].ver
      BY <2>1, <3>1, <3>2 DEF Wrote
    <3> QED
      BY <3>1, <3>3, <3>4, <3>5 DEF BundleInv
  <2>4. CASE ~(pc \in HasVersion /\ cycle.peer = m)
    BY <2>1, <2>2, <2>4 DEF BundleInv, Wrote
  <2> QED
    BY <2>3, <2>4
<1>3. CASE pc' \notin HasVersion
  BY <1>3 DEF BundleInv
<1>4. CASE Imports
  BY <1>4 DEF Imports, Goto, BundleInv
<1>5. CASE Skips
  BY <1>5 DEF Skips, BundleInv
<1>6. CASE NoteVersion \/ NotePeer
  BY <1>6 DEF NoteVersion, NotePeer, Goto, BundleInv, mainVars
<1>7. CASE ExportVersion
  <2>1. cycle.peer \in Mains
    BY <1>7 DEF ExportVersion, CycleInv, NoPeer
  <2>2. pc' = "exportSettings" /\ cycle'.bundle = [ver |-> conf[cycle.peer].ver] /\ cycle'.peer = cycle.peer /\ conf' = conf
    BY <1>7 DEF ExportVersion, Exporting, Goto, CycleInv, CycleFields, mainVars
  <2> QED
    BY <2>1, <2>2 DEF BundleInv, ConfInv
<1>8. CASE ExportSettings
  <2>1. /\ pc = "exportSettings" /\ pc' = "exportRows" /\ cycle'.peer = cycle.peer /\ conf' = conf
        /\ cycle'.bundle = [ver |-> cycle.bundle.ver, settings |-> conf[cycle.peer].settings,
                            designated |-> conf[cycle.peer].designated]
    BY <1>8 DEF ExportSettings, Exporting, Goto, CycleInv, CycleFields, mainVars
  <2> QED
    BY <2>1 DEF BundleInv
<1>9. CASE ExportRows
  <2>1. /\ pc = "exportRows" /\ pc' = "exportZones" /\ cycle'.peer = cycle.peer /\ conf' = conf
        /\ cycle'.bundle = [ver |-> cycle.bundle.ver, settings |-> cycle.bundle.settings,
                            designated |-> cycle.bundle.designated,
                            clients |-> conf[cycle.peer].clients, keys |-> conf[cycle.peer].keys]
    BY <1>9 DEF ExportRows, Exporting, Goto, CycleInv, CycleFields, mainVars
  <2> QED
    BY <2>1 DEF BundleInv
<1>10. CASE ExportZones
  <2>1. /\ pc = "exportZones" /\ pc' = "import" /\ cycle'.peer = cycle.peer /\ conf' = conf
        /\ cycle'.bundle = [ver |-> cycle.bundle.ver, settings |-> cycle.bundle.settings,
                            designated |-> cycle.bundle.designated,
                            clients |-> cycle.bundle.clients, keys |-> cycle.bundle.keys,
                            zones |-> conf[cycle.peer].zones]
    BY <1>10 DEF ExportZones, Exporting, Goto, CycleInv, CycleFields, mainVars
  <2>2. OnlyMainTypes(conf[cycle.peer].zones)
    BY <2>1 DEF CycleInv, NoPeer, ConfInv
  <2> QED
    BY <2>1, <2>2 DEF BundleInv
<1>11. CASE GivesUp \/ ReadPeer \/ ReadSettings \/ Probe \/ ClearVersion \/ ClearPeer
  BY <1>3, <1>11 DEF GivesUp, ReadPeer, ReadSettings, Probe, ClearVersion, ClearPeer, Goto, Done
<1>12. CASE OwnWrite
  BY <1>1, <1>12 DEF OwnWrite, mainVars
<1>13. ASSUME NEW i \in ZoneIds, RefreshStep(i) PROVE BundleInv'
  BY <1>1, <1>13, Refreshes
<1>14. CASE Aside
  BY <1>1, <1>14 DEF Aside
<1> QED
  BY <1>2, <1>4, <1>5, <1>6, <1>7, <1>8, <1>9, <1>10, <1>11, <1>12, <1>13, <1>14, Sorted DEF Reads

-----------------------------------------------------------------------------
(* What an import leaves.                                                  *)

\* The rows the bundle brings stay apart from the built-ins beside them.
LEMMA ReseedKeeps ==
  ASSUME NEW zones, zones = [i \in DOMAIN zones |-> zones[i]],
         \A i \in DOMAIN zones : zones[i].type # "internal"
  PROVE  Synced(Reseed(zones)) = zones
<1> DEFINE all == Reseed(zones)
<1>1. PICK D : all = [i \in DOMAIN zones \cup D |-> IF i \in DOMAIN zones THEN zones[i] ELSE Builtin]
  <2> DEFINE kept == {i \in DOMAIN own.zones \ DOMAIN zones : own.zones[i].type = "internal"}
             new == IF kept = {} THEN {NextId(zones)} ELSE {}
  <2>1. all = [i \in DOMAIN zones \cup kept \cup new |-> IF i \in DOMAIN zones THEN zones[i] ELSE Builtin]
    BY DEF Reseed
  <2>2. DOMAIN zones \cup kept \cup new = DOMAIN zones \cup (kept \cup new)
    OBVIOUS
  <2> HIDE DEF kept, new, all
  <2> QED
    BY <2>1, <2>2
<1>2. Synced(all) = [i \in {x \in DOMAIN all : all[x].type # "internal"} |-> all[i]]
  BY DEF Synced, RestrictDomain, Restrict
<1> HIDE DEF all
<1>3. {x \in DOMAIN all : all[x].type # "internal"} = DOMAIN zones
  BY <1>1 DEF Builtin
<1>4. \A i \in DOMAIN zones : all[i] = zones[i]
  BY <1>1
<1>5. Synced(all) = [i \in DOMAIN zones |-> zones[i]]
  BY <1>2, <1>3, <1>4
<1> QED
  BY <1>5 DEF all

LEMMA Derived ==
  ASSUME NEW zones, NEW k, OnlyMainTypes(zones)
  PROVE  LET d == DeriveZones(zones, k) IN
         /\ d = [i \in DOMAIN d |-> d[i]]
         /\ \A i \in DOMAIN d : d[i].type # "internal"
BY DEF DeriveZones, OnlyMainTypes, MainTypes

LEMMA ImportHolds ==
  ASSUME Imports, BundleInv
  PROVE  torn' /\ Holds(cycle.bundle)'
<1> DEFINE b == cycle.bundle
           d == DeriveZones(b.zones, b.designated)
<1>1. OnlyMainTypes(b.zones)
  BY DEF Imports, BundleInv, HasVersion, HasSettings, HasRows, HasZones
<1>2. Synced(Reseed(d)) = d
  BY <1>1, Derived, ReseedKeeps
<1>3. own' = [settings |-> b.settings, clients |-> b.clients, keys |-> b.keys, zones |-> Reseed(d)] /\ torn'
  BY DEF Imports, ImportBundle, Upserted, ImportedSettings
<1>4. cycle' = cycle
  BY DEF Imports
<1> HIDE DEF b, d
<1>5. own'.settings = b.settings /\ own'.clients = b.clients /\ own'.keys = b.keys /\ own'.zones = Reseed(d)
  BY <1>3
<1>6. Synced(own'.zones) = d
  BY <1>2, <1>5
<1> QED
  BY <1>3, <1>4, <1>5, <1>6 DEF Holds, b, d

LEMMA NotesStep ==
  ASSUME SyncInv, BundleInv, NotesInv, [Next]_vars
  PROVE  NotesInv'
<1>1. CASE UNCHANGED <<own, pc, cycle, torn, edited, undone>>
  BY <1>1 DEF NotesInv, Holds
<1>2. CASE pc' \notin {"noteVersion", "notePeer"}
  BY <1>2 DEF NotesInv
<1>3. CASE Imports
  <2>1. torn' /\ Holds(cycle.bundle)'
    BY <1>3, ImportHolds
  <2> QED
    BY <2>1 DEF NotesInv
<1>4. CASE Skips \/ NoteVersion
  <2>1. UNCHANGED <<own, cycle, torn, edited, undone>>
    BY <1>4 DEF Skips, NoteVersion, tableVars, xferVars, noteVars, historyVars
  <2>2. CASE pc = "noteVersion"
    BY <2>1, <2>2 DEF NotesInv, Holds
  <2>3. CASE pc # "noteVersion"
    BY <1>2, <1>4, <2>3 DEF Skips, NoteVersion
  <2> QED
    BY <2>2, <2>3
<1>5. CASE OwnWrite
  BY <1>5 DEF OwnWrite, NotesInv
<1>6. CASE GivesUp \/ ClearVersion \/ ClearPeer \/ NotePeer
  BY <1>2, <1>6 DEF GivesUp, ClearVersion, ClearPeer, NotePeer, Goto, Done
<1>7. CASE Reads
  BY <1>2, <1>7 DEF Reads, ReadPeer, ReadSettings, Probe, ExportVersion, ExportSettings, ExportRows, ExportZones,
       Exporting, Goto, Done
<1>8. ASSUME NEW m \in Mains, Write(m) \/ CreateKey(m) \/ DesignateKey(m) PROVE NotesInv'
  BY <1>1, <1>8, MainWrites DEF SyncInv, tableVars, xferVars, historyVars
<1>9. ASSUME NEW i \in ZoneIds, RefreshStep(i) PROVE NotesInv'
  <2>1. UNCHANGED <<pc, cycle, torn, edited>>
    BY <1>9, Refreshes DEF historyVars
  <2>2. ASSUME pc \in {"noteVersion", "notePeer"}, ~edited, ~undone'
        PROVE  Holds(cycle.bundle)'
    <3>1. ~undone => Holds(cycle.bundle)
      BY <2>2 DEF NotesInv
    <3> QED
      BY <1>9, <2>1, <2>2, <3>1, StillHolds DEF SyncInv, Holds
  <2> QED
    BY <2>1, <2>2 DEF NotesInv
<1>10. CASE Aside
  BY <1>1, <1>10 DEF Aside, tableVars, noteVars
<1> QED
  BY <1>3, <1>4, <1>5, <1>6, <1>7, <1>8, <1>9, <1>10, Sorted DEF SyncInv

LEMMA LevelStep ==
  ASSUME SyncInv, BundleInv, NotesInv, LevelInv, [Next]_vars
  PROVE  LevelInv'
<1>1. CASE UNCHANGED <<conf, own, appliedVersion, appliedPeer, torn, edited, undone>>
  BY <1>1 DEF LevelInv, Holds
<1>2. ASSUME NEW m \in Mains, Write(m) \/ CreateKey(m) \/ DesignateKey(m) PROVE LevelInv'
  <2>1. Wrote(m) /\ UNCHANGED <<own, appliedVersion, appliedPeer, torn, edited, undone>>
    BY <1>2, MainWrites DEF SyncInv, tableVars, xferVars, settingVars, historyVars
  <2>2. \A x \in Mains : conf[x].ver \in Nat
    BY DEF SyncInv, ConfInv
  <2>3. CASE appliedPeer = m
    <3>1. appliedVersion # 0 /\ ~torn =>
            appliedVersion \in Nat /\ appliedVersion <= conf[m].ver
      BY <2>3 DEF LevelInv
    <3>2. appliedVersion # 0 /\ ~torn =>
            appliedVersion <= conf'[m].ver /\ appliedVersion # conf'[m].ver
      BY <2>1, <2>2, <3>1 DEF Wrote
    <3> QED
      BY <2>1, <2>3, <3>1, <3>2 DEF LevelInv
  <2>4. CASE appliedPeer \in Mains \ {m}
    <3>1. conf'[appliedPeer] = conf[appliedPeer]
      BY <2>1, <2>4 DEF Wrote
    <3> QED
      BY <2>1, <3>1 DEF LevelInv, Holds
  <2>5. CASE appliedPeer \notin Mains
    BY <2>1, <2>5 DEF LevelInv
  <2> QED
    BY <2>3, <2>4, <2>5
<1>3. CASE Imports
  BY <1>3, ImportHolds DEF LevelInv
<1>4. CASE OwnWrite
  BY <1>4 DEF OwnWrite, LevelInv, mainVars, settingVars
<1>5. CASE ClearVersion
  BY <1>5 DEF ClearVersion, LevelInv
<1>6. CASE ClearPeer
  BY <1>6, ConfigSyncAssumption DEF ClearPeer, LevelInv
<1>7. CASE NoteVersion
  BY <1>7 DEF NoteVersion, NotesInv, LevelInv, historyVars
<1>8. CASE NotePeer
  <2>1. /\ cycle.peer \in Mains /\ cycle.bundle.ver \in Nat
        /\ cycle.bundle.ver <= conf[cycle.peer].ver
        /\ cycle.bundle.ver = conf[cycle.peer].ver =>
             /\ cycle.bundle.settings = conf[cycle.peer].settings
             /\ cycle.bundle.designated = conf[cycle.peer].designated
             /\ cycle.bundle.clients = conf[cycle.peer].clients
             /\ cycle.bundle.keys = conf[cycle.peer].keys
             /\ cycle.bundle.zones = conf[cycle.peer].zones
    BY <1>8 DEF NotePeer, SyncInv, CycleInv, BundleInv, NoPeer, HasVersion, HasSettings, HasRows, HasZones
  <2>2. ~edited /\ ~undone => Holds(cycle.bundle)
    BY <1>8 DEF NotePeer, NotesInv
  <2>3. ~edited /\ ~undone /\ cycle.bundle.ver = conf[cycle.peer].ver => Holds(conf[cycle.peer])
    BY <2>1, <2>2 DEF Holds
  <2>4. /\ appliedPeer' = cycle.peer /\ torn' = (appliedVersion # cycle.bundle.ver)
        /\ UNCHANGED <<conf, own, appliedVersion, edited, undone>>
    BY <1>8 DEF NotePeer, mainVars, tableVars, xferVars
  <2> QED
    BY <2>1, <2>3, <2>4 DEF LevelInv, Holds
<1>9. CASE GivesUp \/ Skips \/ Aside
  BY <1>1, <1>9 DEF GivesUp, Skips, Aside, tableVars, noteVars
<1>10. CASE Reads
  BY <1>1, <1>10 DEF Reads, ReadPeer, ReadSettings, Probe, ExportVersion, ExportSettings, ExportRows, ExportZones,
       Exporting, mainVars, tableVars, xferVars, settingVars, historyVars
<1>11. ASSUME NEW i \in ZoneIds, RefreshStep(i) PROVE LevelInv'
  <2>1. UNCHANGED <<conf, appliedVersion, appliedPeer, torn, edited>>
    BY <1>11, Refreshes DEF settingVars, historyVars
  <2> SUFFICES ASSUME appliedVersion # 0, ~torn, appliedPeer \in Mains
               PROVE  /\ appliedVersion \in Nat /\ appliedVersion <= conf[appliedPeer].ver
                      /\ appliedVersion = conf[appliedPeer].ver /\ ~edited /\ ~undone' => Holds(conf[appliedPeer])'
    BY <2>1 DEF LevelInv
  <2>2. ASSUME appliedVersion = conf[appliedPeer].ver, ~edited, ~undone'
        PROVE  Holds(conf[appliedPeer])'
    <3>1. ~undone => Holds(conf[appliedPeer])
      BY <2>2 DEF LevelInv
    <3> QED
      BY <1>11, <2>1, <2>2, <3>1, StillHolds DEF SyncInv, Holds
  <2> QED
    BY <2>2 DEF LevelInv
<1> QED
  BY <1>2, <1>3, <1>4, <1>5, <1>6, <1>7, <1>8, <1>9, <1>10, <1>11, Sorted DEF SyncInv

-----------------------------------------------------------------------------
(* Records and transfer state.                                             *)

\* One attempt: nobody else's row, records or state moves, and one that no
\* import has overtaken writes what the zone already holds.
LEMMA AttemptStep ==
  ASSUME BoxInv, XferInv, TransferStateMatchesRecords, NEW i \in ZoneIds, RefreshStep(i)
  PROVE  XferInv' /\ TransferStateMatchesRecords'
<1> USE DEF Attempt, Underway
<1>1. DOMAIN xfer = ZoneIds /\ (xfer[i] # None => DOMAIN xfer[i] = {"at", "row", "held", "fresh"})
  BY DEF XferInv
\* A place in the attempt is reached and no table is touched.
<1>2. ASSUME UNCHANGED <<tableVars, gap>>,
             NEW a, xfer' = [xfer EXCEPT ![i] = a],
             a # None =>
               /\ DOMAIN a = {"at", "row", "held", "fresh"}
               /\ a.fresh =>
                    /\ a.at \in {"row", "write"} /\ a.held => i \in recs
                    /\ a.at = "write" => own.zones[i] = a.row /\ own.zones[i].type = "secondary"
                    /\ a.at \in {"probe", "stamp"} => i \in moved
      PROVE  XferInv' /\ TransferStateMatchesRecords'
  <2>1. TransferStateMatchesRecords'
    BY <1>2 DEF TransferStateMatchesRecords, tableVars
  <2>2. XferInv'
    BY <1>1, <1>2 DEF XferInv, tableVars
  <2> QED
    BY <2>1, <2>2
<1>3. CASE AttemptStart(i)
  <2> DEFINE a == [at |-> IF i \in moved THEN "probe" ELSE "ask", row |-> None, held |-> FALSE, fresh |-> TRUE]
  <2>1. UNCHANGED <<tableVars, gap>> /\ xfer' = [xfer EXCEPT ![i] = a]
    BY <1>3 DEF AttemptStart
  <2> QED
    BY <1>2, <2>1
<1>4. CASE InstallDiff(i)
  <2> DEFINE a == [at |-> "row", row |-> None, held |-> i \in recs, fresh |-> TRUE]
  <2>1. UNCHANGED <<tableVars, gap>> /\ xfer' = [xfer EXCEPT ![i] = a]
    BY <1>4 DEF InstallDiff
  <2>2. /\ DOMAIN a = {"at", "row", "held", "fresh"} /\ a.at = "row"
        /\ a.held => i \in recs
    OBVIOUS
  <2> HIDE DEF a
  <2> QED
    BY <1>2, <2>1, <2>2
<1>5. CASE InstallRead(i)
  <2>1. CASE StillSecondary(i)
    <3> DEFINE a == [xfer[i] EXCEPT !.at = "write", !.row = own.zones[i]]
    <3>1. UNCHANGED <<tableVars, gap>> /\ xfer' = [xfer EXCEPT ![i] = a]
      BY <1>5, <2>1 DEF InstallRead
    <3>2. xfer[i] # None /\ xfer[i].at = "row" /\ (xfer[i].fresh /\ xfer[i].held => i \in recs)
      BY <1>5 DEF InstallRead, XferInv
    <3>3. /\ DOMAIN a = {"at", "row", "held", "fresh"} /\ a.at = "write" /\ a.row = own.zones[i]
          /\ a.fresh = xfer[i].fresh /\ a.held = xfer[i].held
      BY <1>1, <3>2
    <3>4. own.zones[i].type = "secondary"
      BY <2>1 DEF StillSecondary
    <3> HIDE DEF a
    <3> QED
      BY <1>2, <3>1, <3>2, <3>3, <3>4
  <2>2. CASE ~StillSecondary(i)
    BY <1>2, <1>5, <2>2 DEF InstallRead
  <2> QED
    BY <2>1, <2>2
<1>6. CASE CheckRead(i)
  <2>1. CASE StillSecondary(i)
    <3> DEFINE a == [xfer[i] EXCEPT !.at = "stamp"]
    <3>1. UNCHANGED <<tableVars, gap>> /\ xfer' = [xfer EXCEPT ![i] = a]
      BY <1>6, <2>1 DEF CheckRead
    <3>2. xfer[i] # None /\ xfer[i].at = "probe" /\ (xfer[i].fresh => i \in moved)
      BY <1>6 DEF CheckRead, XferInv
    <3>3. /\ DOMAIN a = {"at", "row", "held", "fresh"} /\ a.at = "stamp" /\ a.fresh = xfer[i].fresh
      BY <1>1, <3>2
    <3> HIDE DEF a
    <3> QED
      BY <1>2, <3>1, <3>2, <3>3
  <2>2. CASE ~StillSecondary(i)
    BY <1>2, <1>6, <2>2 DEF CheckRead
  <2> QED
    BY <2>1, <2>2
<1>7. CASE AttemptFails(i)
  BY <1>2, <1>7 DEF AttemptFails
<1>8. CASE NoteRefreshed(i)
  <2>1. /\ xfer[i] # None /\ xfer[i].at = "stamp" /\ xfer' = [xfer EXCEPT ![i] = None]
        /\ UNCHANGED <<own, recs>>
    BY <1>8 DEF NoteRefreshed
  <2>2. CASE UNCHANGED <<moved, gap>>
    BY <1>2, <2>1, <2>2 DEF tableVars
  <2>3. CASE moved' = moved \cup {i} /\ gap' = IF xfer[i].fresh THEN gap ELSE gap \cup {i}
    <3>1. xfer[i].fresh => i \in moved
      BY <2>1 DEF XferInv
    <3>2. TransferStateMatchesRecords'
      BY <2>1, <2>3, <3>1 DEF TransferStateMatchesRecords
    <3>3. XferInv'
      BY <2>1, <2>3 DEF XferInv
    <3> QED
      BY <3>2, <3>3
  <2> QED
    BY <1>8, <2>2, <2>3 DEF NoteRefreshed
<1>9. CASE InstallWrite(i)
  <2>1. /\ xfer[i] # None /\ xfer[i].at = "write" /\ xfer' = [xfer EXCEPT ![i] = None]
    BY <1>9 DEF InstallWrite
  <2>2. PICK d \in Diffs(xfer[i].held) :
          IF i \notin DOMAIN own.zones \/ (d = "changes" /\ i \notin recs)
          THEN UNCHANGED <<tableVars, undone, gap>>
          ELSE /\ own' = [own EXCEPT !.zones[i] = xfer[i].row]
               /\ recs' = IF d = "none" THEN recs ELSE recs \cup {i}
               /\ moved' = moved \cup {i}
               /\ undone' = (undone \/ own.zones[i] # xfer[i].row)
               /\ gap' = IF xfer[i].fresh THEN gap \ {i} ELSE gap \cup {i}
    BY <1>9 DEF InstallWrite
  <2>3. CASE i \notin DOMAIN own.zones \/ (d = "changes" /\ i \notin recs)
    BY <1>2, <2>1, <2>2, <2>3
  <2>4. CASE ~(i \notin DOMAIN own.zones \/ (d = "changes" /\ i \notin recs))
    <3>1. own'.zones = [own.zones EXCEPT ![i] = xfer[i].row]
      BY <2>2, <2>4 DEF BoxInv, OwnFields
    <3>2. /\ xfer[i].fresh => own.zones[i] = xfer[i].row /\ own.zones[i].type = "secondary"
          /\ xfer[i].fresh /\ xfer[i].held => i \in recs
      BY <2>1 DEF XferInv
    <3>3. ~xfer[i].held => d = "adds"
      BY <2>2 DEF Diffs
    <3>4. xfer[i].fresh => i \in recs'
      BY <2>2, <2>4, <3>2, <3>3
    <3>5. /\ recs \subseteq recs' /\ recs' \subseteq recs \cup {i} /\ moved' = moved \cup {i}
          /\ gap' = IF xfer[i].fresh THEN gap \ {i} ELSE gap \cup {i}
      BY <2>2, <2>4
    <3>6. TransferStateMatchesRecords'
      <4>1. moved' \ gap' \subseteq recs'
        BY <3>4, <3>5 DEF TransferStateMatchesRecords
      <4>2. ASSUME NEW j \in DOMAIN own'.zones \ gap', own'.zones[j].type = "forwarder"
            PROVE  j \notin recs' \cup moved'
        <5>1. j # i
          BY <2>4, <3>1, <3>2, <3>5, <4>2
        <5>2. j \in DOMAIN own.zones \ gap /\ own.zones[j].type = "forwarder"
          BY <3>1, <3>5, <4>2, <5>1
        <5> QED
          BY <3>5, <5>1, <5>2 DEF TransferStateMatchesRecords
      <4> QED
        BY <4>1, <4>2 DEF TransferStateMatchesRecords
    <3>7. XferInv'
      <4>1. \A j \in ZoneIds : j # i => own'.zones[j] = own.zones[j] /\ xfer'[j] = xfer[j]
        BY <1>1, <2>1, <3>1
      <4>2. xfer'[i] = None /\ DOMAIN xfer' = ZoneIds
        BY <1>1, <2>1
      <4> QED
        BY <3>5, <4>1, <4>2 DEF XferInv
    <3> QED
      BY <3>6, <3>7
  <2> QED
    BY <2>3, <2>4
<1> QED
  BY <1>3, <1>4, <1>5, <1>6, <1>7, <1>8, <1>9 DEF RefreshStep

LEMMA TransferStep ==
  ASSUME ConfInv, BoxInv, XferInv, TransferStateMatchesRecords, [Next]_vars
  PROVE  XferInv' /\ TransferStateMatchesRecords'
<1>1. CASE UNCHANGED <<tableVars, gap>> /\ xfer' \in {xfer, [i \in ZoneIds |-> None]}
  <2>1. TransferStateMatchesRecords'
    BY <1>1 DEF TransferStateMatchesRecords, tableVars
  <2>2. XferInv'
    BY <1>1 DEF XferInv, tableVars
  <2> QED
    BY <2>1, <2>2
<1>2. CASE Imports
  <2> DEFINE b == cycle.bundle
             zones == DeriveZones(b.zones, b.designated)
             all == Reseed(zones)
  <2>1. /\ own'.zones = all
        /\ recs' = (Pruned(recs \ Evicted(zones), all) \ Elsewhere(zones))
                     \cup {i \in DOMAIN all : all[i].type = "internal"}
        /\ moved' = Pruned(moved \ Evicted(zones), zones) \ Elsewhere(zones)
        /\ gap' = Pruned(gap \ Evicted(zones), zones) \ Elsewhere(zones)
        /\ xfer' = [i \in ZoneIds |-> IF xfer[i] = None THEN None ELSE [xfer[i] EXCEPT !.fresh = FALSE]]
    BY <1>2 DEF Imports, ImportBundle, Upserted, ForgottenTransfers
  <2>2. /\ DOMAIN zones \subseteq DOMAIN all
        /\ \A i \in DOMAIN all : IF i \in DOMAIN zones THEN all[i] = zones[i] ELSE all[i] = Builtin
    BY DEF Reseed
  <2> HIDE DEF b, zones, all
  <2>3. moved' \ gap' \subseteq recs'
    BY <2>1, <2>2 DEF Pruned, TransferStateMatchesRecords
  <2>4. ASSUME NEW i \in DOMAIN all, all[i].type = "forwarder"
        PROVE  i \notin recs' /\ i \notin moved'
    <3>1. i \in Elsewhere(zones)
      BY <2>2, <2>4 DEF Elsewhere, Builtin
    <3> QED
      BY <2>1, <2>4, <3>1
  <2>5. TransferStateMatchesRecords'
    BY <2>1, <2>3, <2>4 DEF TransferStateMatchesRecords
  <2>6. \A i \in ZoneIds : xfer'[i] # None => DOMAIN xfer'[i] = DOMAIN xfer[i] /\ ~xfer'[i].fresh /\ xfer[i] # None
    BY <2>1 DEF XferInv
  <2>7. XferInv'
    BY <2>1, <2>6 DEF XferInv
  <2> QED
    BY <2>5, <2>7
<1>3. CASE OwnWrite
  <2>1. own'.zones = own.zones
    BY <1>3 DEF OwnWrite, BoxInv, OwnFields
  <2>2. UNCHANGED <<recs, moved, xfer, gap>>
    BY <1>3 DEF OwnWrite, xferVars
  <2>3. TransferStateMatchesRecords'
    BY <2>1, <2>2 DEF TransferStateMatchesRecords
  <2>4. XferInv'
    BY <2>1, <2>2 DEF XferInv
  <2> QED
    BY <2>3, <2>4
<1>4. ASSUME NEW i \in ZoneIds, RefreshStep(i) PROVE XferInv' /\ TransferStateMatchesRecords'
  BY <1>4, AttemptStep
<1>5. ASSUME NEW m \in Mains, Write(m) \/ CreateKey(m) \/ DesignateKey(m)
      PROVE  XferInv' /\ TransferStateMatchesRecords'
  BY <1>1, <1>5, MainWrites DEF xferVars
<1>6. CASE Aside \/ GivesUp \/ Skips
  BY <1>1, <1>6 DEF Aside, GivesUp, Skips
<1>7. CASE Reads \/ ClearVersion \/ ClearPeer \/ NoteVersion \/ NotePeer
  BY <1>1, <1>7 DEF Reads, ReadPeer, ReadSettings, Probe, ExportVersion, ExportSettings,
       ExportRows, ExportZones, Exporting, ClearVersion, ClearPeer, NoteVersion, NotePeer, xferVars
<1> QED
  BY <1>2, <1>3, <1>4, <1>5, <1>6, <1>7, Sorted

-----------------------------------------------------------------------------
(* The theorems.                                                           *)

LEMMA SyncInit ==
  ASSUME Init
  PROVE  SyncInv /\ BundleInv /\ NotesInv /\ LevelInv
<1>1. DOMAIN conf = Mains /\ \A m \in Mains :
        conf[m] = [ver |-> 1, settings |-> {}, designated |-> 0, keys |-> {}, clients |-> StartClients[m],
                   zones |-> [i \in {1} |-> [type |-> "primary", key |-> 0]]]
  BY DEF Init
<1>2. ConfInv
  BY <1>1 DEF ConfInv, ConfFields, OnlyMainTypes, MainTypes
<1>3. BoxInv
  BY DEF Init, BoxInv, OwnFields
<1>4. CycleInv
  BY DEF Init, CycleInv, NoCycle, CycleFields, NoPeer
<1>5. BundleInv /\ NotesInv /\ LevelInv
  BY DEF Init, BundleInv, NotesInv, LevelInv, HasVersion, HasSettings, HasRows, HasZones
<1> QED
  BY <1>2, <1>3, <1>4, <1>5 DEF SyncInv

LEMMA SyncStep ==
  ASSUME SyncInv, [Next]_vars
  PROVE  SyncInv'
BY ConfStep, BoxStep, CycleStep DEF SyncInv

\* A box enters a main's registry only in the step that spends that main's
\* live code: no heartbeat, no probe in flight and no other pairing brings
\* back a box that was forgotten (Registry.Pair, Heartbeat, Forget).
THEOREM RegistryIsEnteredByCode == Spec => EnteredBySpendingACode
<1>1. SyncInv /\ [Next]_vars =>
        [\A m \in Mains : \A b \in DOMAIN replicas'[m] \ DOMAIN replicas[m] :
           pairing[m] # None /\ pairing'[m] = None]_vars
  <2> SUFFICES ASSUME SyncInv, [Next]_vars
               PROVE  \A m \in Mains : Spends(m)
    BY DEF Spends
  <2>1. CASE UNCHANGED replicas
    BY <2>1 DEF Spends
  <2>2. CASE FollowPair
    BY <2>2, FollowPairs DEF SyncInv
  <2>3. ASSUME NEW x \in Mains, Forget(x, Box) PROVE \A m \in Mains : Spends(m)
    BY <2>3, Forgets DEF SyncInv, Spends
  <2> QED
    BY <2>1, <2>2, <2>3, RegistrySteps DEF SyncInv
<1> QED
  BY SyncInit, SyncStep, <1>1, PTL DEF Spec, EnteredBySpendingACode

\* A zone that counts as transferred has its records, and one that answers
\* from somewhere else has neither, whatever bundles were imported over
\* whatever tables the box held (ImportBundle) and wherever in the refresh
\* attempts of any number of zones they fell, until an attempt that an import
\* overtook writes (install, markChecked).
THEOREM TransferStateIsKept == Spec => []TransferStateMatchesRecords
<1>1. Init => XferInv /\ TransferStateMatchesRecords
  BY DEF Init, XferInv, TransferStateMatchesRecords, Builtin
<1>2. SyncInv /\ XferInv /\ TransferStateMatchesRecords /\ [Next]_vars
        => XferInv' /\ TransferStateMatchesRecords'
  BY TransferStep DEF SyncInv
<1> QED
  BY SyncInit, SyncStep, <1>1, <1>2, PTL DEF Spec

\* A box that would take its next probe for "nothing new" holds the main's
\* configuration, row by row: for any number of mains it followed before, with
\* writes landing between any two reads of the export, a crash or a lost note
\* between any two steps of the cycle (PullOnce, ExportBundle), and transfers
\* running throughout (install), unless one of those wrote back a row that the
\* last import had replaced.
THEOREM LevelIsEqual == Spec => []LevelMeansEqual
<1>1. SyncInv /\ BundleInv /\ NotesInv /\ LevelInv /\ [Next]_vars
        => (SyncInv /\ BundleInv /\ NotesInv /\ LevelInv)'
  BY SyncStep, BundleStep, NotesStep, LevelStep
<1>2. SyncInv /\ LevelInv => LevelMeansEqual
  <2> SUFFICES ASSUME SyncInv, LevelInv, peer # None, Applied(peer), appliedVersion = conf[peer].ver,
                      ~edited, ~torn, ~undone
               PROVE  SameTables(peer)
    BY DEF LevelMeansEqual
  <2>1. Holds(conf[peer])
    BY DEF SyncInv, BoxInv, LevelInv, Applied
  <2> QED
    BY <2>1 DEF Holds, Synced, SameTables
<1> QED
  BY SyncInit, <1>1, <1>2, PTL DEF Spec
=============================================================================
