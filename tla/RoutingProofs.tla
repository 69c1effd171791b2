--------------------------- MODULE RoutingProofs ---------------------------
(* Theorems about Routing, for every set of zones, names, upstreams,       *)
(* processes and queries.                                                  *)
EXTENDS Routing, TLAPS, WellFoundedInduction

-----------------------------------------------------------------------------
(* What the operators return.                                              *)

\* A nonempty set of naturals has a least element.
LEMMA LeastNatural ==
  ASSUME NEW T, T \subseteq Nat, T # {}
  PROVE  \E x \in T : \A y \in T : x <= y
<1>. DEFINE R == OpToRel(<, Nat)
<1>1. IsWellFoundedOn(R, Nat)
  BY NatLessThanWellFounded
<1>2. \A x, y \in Nat : y < x => <<y, x>> \in R
  BY DEF OpToRel
<1>. HIDE DEF R
<1>3. PICK x \in T : \A y \in T : ~ (<<y, x>> \in R)
  BY <1>1, WFMin
<1>4. \A y \in T : ~(y < x)
  BY <1>2, <1>3
<1>. QED  BY <1>4

\* The most specific match exists and is one of the matches, which is what
\* lets Index.Find and Forwarder.pick index their tables with it.
LEMMA LongestIsClaim ==
  ASSUME NEW S \in SUBSET Apexes, NEW n \in Names, Claims(n, S) # {}
  PROVE  Longest(S, n) \in Claims(n, S)
<1>. DEFINE T == {Len(n) - Len(a) : a \in Claims(n, S)}
<1>1. n \in Seq(STRING) /\ \A a \in S : a \in Seq(STRING)
  BY RoutingAssumption
<1>2. \A a \in Claims(n, S) : Len(a) \in Nat /\ Len(n) - Len(a) \in Nat
  BY <1>1 DEF Claims, Under
<1>3. T \subseteq Nat /\ T # {}
  BY <1>2
<1>4. PICK x \in T : \A y \in T : x <= y
  <2>. HIDE DEF T
  <2>. QED  BY <1>3, LeastNatural
<1>5. PICK a \in Claims(n, S) : x = Len(n) - Len(a)
  BY <1>4
<1>6. ASSUME NEW b \in Claims(n, S)
      PROVE  Len(b) <= Len(a)
  <2>1. Len(n) - Len(a) <= Len(n) - Len(b)
    BY <1>4, <1>5
  <2>2. Len(n) \in Int /\ Len(a) \in Int /\ Len(b) \in Int
    BY <1>1, <1>2
  <2>. QED  BY <2>1, <2>2
<1>. QED  BY <1>5, <1>6 DEF Longest

\* Looking a suffix of a table up yields a set of upstream addresses.
LEMMA TableElement ==
  ASSUME NEW t \in Table
  PROVE  /\ DOMAIN t \in SUBSET Apexes
         /\ \A a \in DOMAIN t : t[a] \in SUBSET Upstreams
BY DEF Table

\* Forwarder.pick always yields a route: a claimed suffix's upstreams or Default.
LEMMA PickIsRoute ==
  ASSUME NEW t \in Table, NEW n \in Names
  PROVE  pick(t, n) \in Route
<1>1. CASE Claims(n, DOMAIN t) = {}
  BY <1>1 DEF pick, Route
<1>2. CASE Claims(n, DOMAIN t) # {}
  <2>1. Longest(DOMAIN t, n) \in DOMAIN t
    BY <1>2, TableElement, LongestIsClaim DEF Claims
  <2>. QED  BY <1>2, <2>1, TableElement DEF pick, Route
<1>. QED  BY <1>1, <1>2

\* A name beneath none of the changed suffixes keeps its route, so a purge of
\* the changed suffixes is all the cache needs.
LEMMA PickUnchanged ==
  ASSUME NEW t \in Table, NEW u \in Table, NEW n \in Names,
         ~Dirtied(n, changedSuffixes(t, u))
  PROVE  pick(t, n) = pick(u, n)
<1>1. \A a : Under(n, a) => a \notin changedSuffixes(t, u)
  BY DEF Dirtied, Claims, changedSuffixes
<1>2. \A a : Under(n, a) => (a \in DOMAIN t <=> a \in DOMAIN u)
  BY <1>1 DEF changedSuffixes
<1>3. Claims(n, DOMAIN t) = Claims(n, DOMAIN u)
  BY <1>2 DEF Claims
<1>4. \A a \in Claims(n, DOMAIN u) : t[a] = u[a]
  BY <1>1, <1>2 DEF Claims, changedSuffixes
<1>5. Longest(DOMAIN t, n) = Longest(DOMAIN u, n)
  BY <1>3 DEF Longest
<1>6. CASE Claims(n, DOMAIN u) = {}
  BY <1>3, <1>6 DEF pick
<1>7. CASE Claims(n, DOMAIN u) # {}
  <2>1. Longest(DOMAIN u, n) \in Claims(n, DOMAIN u)
    BY <1>7, TableElement, LongestIsClaim
  <2>. QED  BY <1>3, <1>4, <1>5, <1>7, <2>1 DEF pick
<1>. QED  BY <1>6, <1>7

\* App.conditionalRoutes yields a table, whatever zones the snapshot holds.
LEMMA RoutesAreTable ==
  ASSUME NEW ix \in [Apexes -> Zone]
  PROVE  conditionalRoutes(ix) \in Table
<1>. DEFINE D == {b \in Apexes : ix[b].type \in ConditionalTypes}
<1>1. conditionalRoutes(ix) \in [D -> SUBSET Upstreams]
  BY DEF conditionalRoutes, Zone
<1>. QED  BY <1>1 DEF Table

\* The table a new Forwarder starts with.
LEMMA EmptyIsTable == [a \in {} |-> {}] \in Table
<1>1. [a \in {} |-> {}] \in [{} -> SUBSET Upstreams]
  OBVIOUS
<1>. QED  BY <1>1 DEF Table

\* What Resolver.Reload publishes is an index, whenever its two reads ran.
LEMMA BuiltIsIndex ==
  ASSUME NEW rows \in [Apexes -> Zone], NEW now \in [Apexes -> Zone]
  PROVE  Built(rows, now) \in [Apexes -> Zone]
BY DEF Built, Zone

\* The index with no zones is one.
LEMMA NoZonesType == NoZones \in [Apexes -> Zone]
BY DEF NoZones, NoZone, Zone

-----------------------------------------------------------------------------
(* Type correctness.                                                       *)

\* A query that is under way asks for a name, and one that was sent has a route.
QueryWellFormed ==
  \A q \in Queries : /\ qpc[q] # "idle" => qname[q] \in Names
                     /\ qpc[q] = "sent" => qroute[q] \in Route

TypeInv == TypeOK /\ QueryWellFormed

\* The state App.Start leaves satisfies the type invariant.
LEMMA TypeInvInit == Init => TypeInv
<1>. SUFFICES ASSUME Init PROVE TypeInv
  OBVIOUS
<1>1. StoreTypeOK
  <2>1. store \in [Apexes -> Zone] /\ snap \in [Apexes -> Zone]
    BY NoZonesType DEF Init
  <2>2. writes \in 0..MaxWrites
    BY RoutingAssumption DEF Init
  <2>3. missed \in BOOLEAN
    BY DEF Init
  <2>. QED  BY <2>1, <2>2, <2>3 DEF Init, StoreTypeOK
<1>2. conditionalRoutes(snap) \in Table
  BY <1>1, RoutesAreTable DEF StoreTypeOK
<1>3. TableTypeOK
  BY <1>2, RoutingAssumption DEF Init, TableTypeOK, Forwarders
<1>4. CacheTypeOK /\ ProcTypeOK
  BY DEF Init, CacheTypeOK, ProcTypeOK
<1>5. QueryTypeOK /\ QueryWellFormed
  BY RoutingAssumption DEF Init, QueryTypeOK, QueryWellFormed, Forwarders
<1>. QED  BY <1>1, <1>3, <1>4, <1>5 DEF TypeInv, TypeOK

\* Adding the route of the new table keeps the history's type.
LEMMA WitnessedType ==
  ASSUME TypeInv, NEW t \in Table, Witnessed(t)
  PROVE  inforce' \in [Queries -> SUBSET Route]
BY PickIsRoute DEF Witnessed, TypeInv, TypeOK, QueryTypeOK, QueryWellFormed

\* Every action preserves the type invariant.
LEMMA TypeInvStep == TypeInv /\ [Next]_vars => TypeInv'
<1>. SUFFICES ASSUME TypeInv, [Next]_vars PROVE TypeInv'
  OBVIOUS
<1>t. /\ StoreTypeOK /\ TableTypeOK /\ CacheTypeOK /\ ProcTypeOK /\ QueryTypeOK
      /\ QueryWellFormed
  BY DEF TypeInv, TypeOK
<1>s. ASSUME UNCHANGED storeVars PROVE StoreTypeOK'
  BY <1>s, <1>t DEF storeVars, StoreTypeOK
<1>b. ASSUME UNCHANGED tableVars PROVE TableTypeOK'
  BY <1>b, <1>t DEF tableVars, TableTypeOK
<1>c. ASSUME UNCHANGED cacheVars PROVE CacheTypeOK'
  BY <1>c, <1>t DEF cacheVars, CacheTypeOK
<1>q. ASSUME UNCHANGED <<queryVars, inforce>> PROVE QueryTypeOK' /\ QueryWellFormed'
  BY <1>q, <1>t DEF queryVars, QueryTypeOK, QueryWellFormed
<1>u. CASE UNCHANGED vars
  <2>1. ProcTypeOK'
    BY <1>u, <1>t DEF vars, ProcTypeOK
  <2>. QED
    BY <1>u, <2>1, <1>s, <1>b, <1>c, <1>q DEF vars, TypeInv, TypeOK
<1>1. ASSUME NEW p \in Procs, WriteZone(p) PROVE TypeInv'
  <2>1. ProcTypeOK'
    BY <1>1, <1>t DEF WriteZone, Goto, ProcTypeOK
  <2>2. StoreTypeOK'
    BY <1>1, <1>t, RoutingAssumption DEF WriteZone, StoreTypeOK, Rows
  <2>. QED  BY <1>1, <2>1, <2>2, <1>b, <1>c, <1>q DEF WriteZone, TypeInv, TypeOK
<1>2. ASSUME NEW p \in Procs, StartApply(p) PROVE TypeInv'
  <2>1. ProcTypeOK'
    BY <1>2, <1>t DEF StartApply, Goto, ProcTypeOK
  <2>. QED  BY <1>2, <2>1, <1>s, <1>b, <1>c, <1>q DEF StartApply, TypeInv, TypeOK
<1>3. ASSUME NEW p \in Procs, ReadZones(p) PROVE TypeInv'
  <2>1. ProcTypeOK'
    BY <1>3, <1>t DEF ReadZones, Goto, ProcTypeOK
  <2>2. StoreTypeOK'
    BY <1>3, <1>t DEF ReadZones, StoreTypeOK
  <2>. QED  BY <1>3, <2>1, <2>2, <1>b, <1>c, <1>q DEF ReadZones, TypeInv, TypeOK
<1>4. ASSUME NEW p \in Procs, Publish(p) PROVE TypeInv'
  <2>1. ProcTypeOK'
    BY <1>4, <1>t DEF Publish, Goto, ProcTypeOK, AfterReload
  <2>2. StoreTypeOK'
    BY <1>4, <1>t, BuiltIsIndex, NoZonesType DEF Publish, StoreTypeOK
  <2>. QED  BY <1>4, <2>1, <2>2, <1>b, <1>c, <1>q DEF Publish, TypeInv, TypeOK
<1>5. ASSUME NEW p \in Procs, ReloadFails(p) PROVE TypeInv'
  <2>1. ProcTypeOK'
    BY <1>5, <1>t DEF ReloadFails, Goto, ProcTypeOK
  <2>2. StoreTypeOK'
    BY <1>5, <1>t, NoZonesType DEF ReloadFails, StoreTypeOK
  <2>. QED  BY <1>5, <2>1, <2>2, <1>b, <1>c, <1>q DEF ReloadFails, TypeInv, TypeOK
<1>6. ASSUME NEW p \in Procs, Build(p) PROVE TypeInv'
  <2>1. ProcTypeOK'
    BY <1>6, <1>t DEF Build, Goto, ProcTypeOK
  <2>2. TableTypeOK'
    BY <1>6, <1>t, EmptyIsTable, RoutingAssumption DEF Build, TableTypeOK, Forwarders
  <2>. QED  BY <1>6, <2>1, <1>s, <2>2, <1>c, <1>q DEF Build, TypeInv, TypeOK
<1>7. ASSUME NEW p \in Procs, KeepForwarder(p) PROVE TypeInv'
  <2>1. ProcTypeOK'
    BY <1>7, <1>t DEF KeepForwarder, Goto, ProcTypeOK
  <2>. QED  BY <1>7, <2>1, <1>s, <1>b, <1>c, <1>q DEF KeepForwarder, TypeInv, TypeOK
<1>8. ASSUME NEW p \in Procs, LockRoutes(p) PROVE TypeInv'
  <2>1. ProcTypeOK'
    BY <1>8, <1>t DEF LockRoutes, Goto, ProcTypeOK
  <2>2. TableTypeOK'
    BY <1>8, <1>t, RoutesAreTable DEF LockRoutes, TableTypeOK, StoreTypeOK
  <2>. QED  BY <1>8, <2>1, <1>s, <2>2, <1>c, <1>q DEF LockRoutes, TypeInv, TypeOK
<1>9. ASSUME NEW p \in Procs, Install(p) PROVE TypeInv'
  <2>1. ProcTypeOK'
    BY <1>9, <1>t DEF Install, Goto, ProcTypeOK
  <2>2. TableTypeOK'
    BY <1>9, <1>t, TableElement DEF Install, TableTypeOK, changedSuffixes
  <2>3. QueryTypeOK' /\ QueryWellFormed'
    BY <1>9, <1>t, WitnessedType DEF Install, TableTypeOK, QueryTypeOK, QueryWellFormed, queryVars
  <2>. QED  BY <1>9, <2>1, <1>s, <2>2, <1>c, <2>3 DEF Install, TypeInv, TypeOK
<1>10. ASSUME NEW p \in Procs, Purge(p) PROVE TypeInv'
  <2>1. ProcTypeOK'
    BY <1>10, <1>t DEF Purge, Goto, ProcTypeOK
  <2>2. TableTypeOK'
    BY <1>10, <1>t, RoutingAssumption DEF Purge, TableTypeOK, Forwarders
  <2>3. CacheTypeOK'
    BY <1>10, <1>t DEF Purge, CacheTypeOK, cacheVars
  <2>. QED  BY <1>10, <2>1, <1>s, <2>2, <2>3, <1>q DEF Purge, TypeInv, TypeOK
<1>11. ASSUME NEW p \in Procs, Swap(p) PROVE TypeInv'
  <2>1. ProcTypeOK'
    BY <1>11, <1>t DEF Swap, Goto, ProcTypeOK
  <2>2. TableTypeOK'
    BY <1>11, <1>t DEF Swap, TableTypeOK
  <2>3. QueryTypeOK' /\ QueryWellFormed'
    BY <1>11, <1>t, WitnessedType DEF Swap, TableTypeOK, QueryTypeOK, QueryWellFormed, queryVars
  <2>. QED  BY <1>11, <2>1, <1>s, <2>2, <1>c, <2>3 DEF Swap, TypeInv, TypeOK
<1>12. ASSUME NEW p \in Procs, CloseOld(p) PROVE TypeInv'
  <2>1. ProcTypeOK'
    BY <1>12, <1>t DEF CloseOld, Goto, ProcTypeOK
  <2>2. TableTypeOK'
    <3>1. 1 \in Forwarders
      BY RoutingAssumption DEF Forwarders
    <3>2. mine[p] \in Forwarders /\ mine' \in [Procs -> Forwarders]
      BY <1>12, <1>t, <3>1 DEF CloseOld, TableTypeOK
    <3>. QED  BY <1>12, <1>t, <3>2 DEF CloseOld, TableTypeOK
  <2>. QED  BY <1>12, <2>1, <1>s, <2>2, <1>c, <1>q DEF CloseOld, TypeInv, TypeOK
<1>13. ASSUME NEW q \in Queries, Resolve(q) PROVE TypeInv'
  <2>1. ProcTypeOK'
    BY <1>13, <1>t DEF Resolve, ProcTypeOK
  <2>2. QueryTypeOK' /\ QueryWellFormed'
    BY <1>13, <1>t, PickIsRoute DEF Resolve, TableTypeOK, QGoto, QueryTypeOK, QueryWellFormed
  <2>. QED  BY <1>13, <2>1, <2>2, <1>s, <1>b, <1>c DEF Resolve, TypeInv, TypeOK
<1>14. ASSUME NEW q \in Queries, LoadEpoch(q) PROVE TypeInv'
  <2>1. ProcTypeOK'
    BY <1>14, <1>t DEF LoadEpoch, ProcTypeOK
  <2>2. QueryTypeOK' /\ QueryWellFormed'
    BY <1>14, <1>t DEF LoadEpoch, CacheTypeOK, QGoto, QueryTypeOK, QueryWellFormed
  <2>. QED  BY <1>14, <2>1, <2>2, <1>s, <1>b, <1>c DEF LoadEpoch, TypeInv, TypeOK
<1>15. ASSUME NEW q \in Queries, Get(q) PROVE TypeInv'
  <2>1. ProcTypeOK'
    BY <1>15, <1>t DEF Get, ProcTypeOK
  <2>2. QueryTypeOK' /\ QueryWellFormed'
    BY <1>15, <1>t DEF Get, CacheTypeOK, Entry, QGoto, QueryTypeOK, QueryWellFormed
  <2>. QED  BY <1>15, <2>1, <2>2, <1>s, <1>b, <1>c DEF Get, TypeInv, TypeOK
<1>16. ASSUME NEW q \in Queries, Do(q) PROVE TypeInv'
  <2>1. ProcTypeOK'
    BY <1>16, <1>t DEF Do, ProcTypeOK
  <2>2. QueryTypeOK' /\ QueryWellFormed'
    BY <1>16, <1>t DEF Do, QGoto, QueryTypeOK, QueryWellFormed
  <2>. QED  BY <1>16, <2>1, <2>2, <1>s, <1>b, <1>c DEF Do, TypeInv, TypeOK
<1>17. ASSUME NEW q \in Queries, LoadHandler(q) PROVE TypeInv'
  <2>1. ProcTypeOK'
    BY <1>17, <1>t DEF LoadHandler, ProcTypeOK
  <2>2. QueryTypeOK' /\ QueryWellFormed'
    BY <1>17, <1>t DEF LoadHandler, TableTypeOK, QGoto, QueryTypeOK, QueryWellFormed
  <2>. QED  BY <1>17, <2>1, <2>2, <1>s, <1>b, <1>c DEF LoadHandler, TypeInv, TypeOK
<1>18. ASSUME NEW q \in Queries, Pick(q) PROVE TypeInv'
  <2>1. ProcTypeOK'
    BY <1>18, <1>t DEF Pick, ProcTypeOK
  <2>2. QueryTypeOK' /\ QueryWellFormed'
    BY <1>18, <1>t, PickIsRoute DEF Pick, TableTypeOK, QGoto, QueryTypeOK, QueryWellFormed
  <2>. QED  BY <1>18, <2>1, <2>2, <1>s, <1>b, <1>c DEF Pick, TypeInv, TypeOK
<1>19. ASSUME NEW q \in Queries, Answered(q) PROVE TypeInv'
  <2>1. ProcTypeOK'
    BY <1>19, <1>t DEF Answered, ProcTypeOK
  <2>2. QueryTypeOK' /\ QueryWellFormed'
    BY <1>19, <1>t DEF Answered, Callers, QueryTypeOK, QueryWellFormed
  <2>3. CacheTypeOK'
    <3>1. [route |-> qroute[q], fresh |-> TRUE] \in Entry
      BY <1>19, <1>t DEF Answered, QueryWellFormed, Entry
    <3>. QED  BY <1>19, <1>t, <3>1 DEF Answered, put, CacheTypeOK
  <2>. QED  BY <1>19, <2>1, <2>2, <1>s, <1>b, <2>3 DEF Answered, TypeInv, TypeOK
<1>20. ASSUME NEW q \in Queries, Failed(q) PROVE TypeInv'
  <2>1. ProcTypeOK'
    BY <1>20, <1>t DEF Failed, ProcTypeOK
  <2>2. QueryTypeOK' /\ QueryWellFormed'
    BY <1>20, <1>t DEF Failed, Callers, QueryTypeOK, QueryWellFormed
  <2>. QED  BY <1>20, <2>1, <2>2, <1>s, <1>b, <1>c DEF Failed, TypeInv, TypeOK
<1>21. ASSUME NEW q \in Queries, ServeStale(q) PROVE TypeInv'
  <2>1. ProcTypeOK'
    BY <1>21, <1>t DEF ServeStale, ProcTypeOK
  <2>2. QueryTypeOK' /\ QueryWellFormed'
    BY <1>21, <1>t DEF ServeStale, CacheTypeOK, Entry, QGoto, QueryTypeOK, QueryWellFormed
  <2>. QED  BY <1>21, <2>1, <2>2, <1>s, <1>b, <1>c DEF ServeStale, TypeInv, TypeOK
<1>22. ASSUME NEW q \in Queries, Reply(q) PROVE TypeInv'
  <2>1. ProcTypeOK'
    BY <1>22, <1>t DEF Reply, ProcTypeOK
  <2>2. QueryTypeOK' /\ QueryWellFormed'
    BY <1>22, <1>t, RoutingAssumption DEF Reply, Forwarders, QGoto, QueryTypeOK, QueryWellFormed
  <2>. QED  BY <1>22, <2>1, <2>2, <1>s, <1>b, <1>c DEF Reply, TypeInv, TypeOK
<1>23. ASSUME NEW n \in Names, Age(n) PROVE TypeInv'
  <2>1. ProcTypeOK'
    BY <1>23, <1>t DEF Age, ProcTypeOK
  <2>2. CacheTypeOK'
    BY <1>23, <1>t DEF Age, CacheTypeOK, Entry
  <2>. QED  BY <1>23, <2>1, <2>2, <1>s, <1>b, <1>q DEF Age, TypeInv, TypeOK
<1>. QED
  BY <1>u, <1>1, <1>2, <1>3, <1>4, <1>5, <1>6, <1>7, <1>8, <1>9, <1>10, <1>11, <1>12, <1>13, <1>14, <1>15, <1>16, <1>17, <1>18, <1>19, <1>20, <1>21, <1>22, <1>23
     DEF Next, EditorNext, ApplierNext, QueryNext, CacheNext, Procs

\* Type correctness of every behaviour.
THEOREM TypeCorrect == Spec => []TypeOK
<1>1. Init => TypeInv
  BY TypeInvInit
<1>2. TypeInv /\ [Next]_vars => TypeInv'
  BY TypeInvStep
<1>3. TypeInv => TypeOK
  BY DEF TypeInv
<1>. QED  BY <1>1, <1>2, <1>3, PTL DEF Spec

-----------------------------------------------------------------------------
(* The locks, the Forwarders and the table, with any number of zone edits  *)
(* and settings writes overlapping.                                        *)

Installing == {"install", "purge", "swap"}
Waiting == {"build", "keep", "lock"}

LockInv ==
  \A p \in Procs : /\ rmu = p <=> pc[p] = "records"
                   /\ routeMu = p <=> pc[p] \in Installing

\* p has a Forwarder that is not live: it built it, or has to close it.
Holds(p) == pc[p] \in {"lock", "close"} \cup Installing /\ mine[p] # live

ForwarderInv ==
  /\ live \notin closed /\ live <= built
  /\ \A f \in closed : f <= built
  /\ \A p \in Procs :
       /\ mine[p] <= built
       /\ pc[p] \in {"swap", "close"} => mine[p] # live
       /\ p \in Appliers /\ pc[p] = "lock" => mine[p] # live
       /\ p \in Appliers /\ Holds(p) => mine[p] \notin closed
       /\ p \in Editors /\ pc[p] \in Installing => mine[p] = live
       /\ p \in Editors => pc[p] \notin {"build", "keep", "swap", "close"}
  /\ \A p, r \in Appliers : p # r /\ Holds(p) /\ Holds(r) => mine[p] # mine[r]

\* A process about to swap holds the table it planned.
PlanInv ==
  \A p \in Procs : pc[p] \in {"purge", "swap"} => cond[mine[p]] = plan

\* Whatever the snapshot or the table lacks, somebody is on the way to bring.
Reloading == \E r \in Procs : pc[r] = "reload"
FreshnessInv ==
  /\ \A p \in Procs : pc[p] = "records" => Built(read[p], store) = store \/ Reloading
  /\ ~missed => \/ snap = store
                \/ \E p \in Procs : pc[p] \in {"reload", "records"}

TableWaiting == \E r \in Procs : pc[r] \in Waiting
InstallInv ==
  /\ \A p \in Procs : pc[p] \in Installing => plan = conditionalRoutes(snap) \/ TableWaiting
  /\ \/ cond[live] = conditionalRoutes(snap) \/ TableWaiting
     \/ \E p \in Procs : pc[p] = "install" \/ (pc[p] \in Installing /\ mine[p] # live)

TableInv == LockInv /\ ForwarderInv /\ PlanInv /\ FreshnessInv /\ InstallInv

\* The state App.Start leaves satisfies the lock and table invariant.
LEMMA TableInvInit == Init => TableInv
<1>. SUFFICES ASSUME Init PROVE TableInv
  OBVIOUS
<1>1. LockInv
  BY RoutingAssumption DEF Init, LockInv, Installing
<1>2. ForwarderInv
  BY DEF Init, ForwarderInv, Holds, Installing, Procs
<1>3. PlanInv /\ FreshnessInv
  BY DEF Init, PlanInv, FreshnessInv
<1>4. InstallInv
  BY RoutingAssumption DEF Init, InstallInv, Installing, Forwarders
<1>. QED  BY <1>1, <1>2, <1>3, <1>4 DEF TableInv

\* Built leaves an index alone that already has its stubs' own records.
LEMMA BuiltSame ==
  ASSUME NEW ix \in [Apexes -> Zone]
  PROVE  Built(ix, ix) = ix
BY DEF Built, Zone

\* Every action preserves it: one case per action, under it the conjuncts the
\* action can disturb.
LEMMA TableInvStep == TypeOK /\ TableInv /\ [Next]_vars => TableInv'
<1>. SUFFICES ASSUME TypeOK, TableInv, [Next]_vars PROVE TableInv'
  OBVIOUS
<1>t. StoreTypeOK /\ TableTypeOK /\ ProcTypeOK
  BY DEF TypeOK
<1>i. LockInv /\ ForwarderInv /\ PlanInv /\ FreshnessInv /\ InstallInv
  BY DEF TableInv
<1>n. \A p \in Procs : p # None
  BY RoutingAssumption
<1>e. Editors \cap Appliers = {}
  BY RoutingAssumption
<1>u. ASSUME UNCHANGED <<storeVars, tableVars, pc>> PROVE TableInv'
  <2>1. LockInv' /\ PlanInv' /\ FreshnessInv'
    BY <1>u, <1>i DEF storeVars, tableVars, LockInv, PlanInv, FreshnessInv, Reloading
  <2>2. ForwarderInv'
    BY <1>u, <1>i DEF tableVars, ForwarderInv, Holds
  <2>3. InstallInv'
    BY <1>u, <1>i DEF storeVars, tableVars, InstallInv, TableWaiting
  <2>. QED  BY <2>1, <2>2, <2>3 DEF TableInv
<1>1. ASSUME NEW p \in Procs, WriteZone(p) PROVE TableInv'
  <2>1. LockInv'
    BY <1>1, <1>t, <1>i, <1>n
    DEF WriteZone, Goto, storeVars, tableVars, ProcTypeOK, LockInv, Installing, Procs
  <2>2. ForwarderInv'
    BY <1>1, <1>t, <1>i, <1>e
    DEF WriteZone, Goto, storeVars, tableVars, ProcTypeOK, TableTypeOK, Forwarders, ForwarderInv, Holds, Installing, Procs
  <2>3. PlanInv'
    BY <1>1, <1>t, <1>i
    DEF WriteZone, Goto, storeVars, tableVars, ProcTypeOK, TableTypeOK, Forwarders, PlanInv, LockInv, Installing, Procs
  <2>4. FreshnessInv'
    BY <1>1, <1>t, <1>i
    DEF WriteZone, Goto, storeVars, tableVars, ProcTypeOK, StoreTypeOK, FreshnessInv, LockInv, Reloading, Procs
  <2>5. InstallInv'
    BY <1>1, <1>t, <1>i
    DEF WriteZone, Goto, storeVars, tableVars, ProcTypeOK, TableTypeOK, Forwarders, InstallInv, TableWaiting, Waiting, Installing, LockInv, Procs
  <2>. QED  BY <2>1, <2>2, <2>3, <2>4, <2>5 DEF TableInv
<1>2. ASSUME NEW p \in Procs, StartApply(p) PROVE TableInv'
  <2>1. LockInv'
    BY <1>2, <1>t, <1>i, <1>n
    DEF StartApply, Goto, storeVars, tableVars, ProcTypeOK, LockInv, Installing, Procs
  <2>2. ForwarderInv'
    BY <1>2, <1>t, <1>i, <1>e
    DEF StartApply, Goto, storeVars, tableVars, ProcTypeOK, TableTypeOK, Forwarders, ForwarderInv, Holds, Installing, Procs
  <2>3. PlanInv'
    BY <1>2, <1>t, <1>i
    DEF StartApply, Goto, storeVars, tableVars, ProcTypeOK, TableTypeOK, Forwarders, PlanInv, LockInv, Installing, Procs
  <2>4. FreshnessInv'
    BY <1>2, <1>t, <1>i
    DEF StartApply, Goto, storeVars, tableVars, ProcTypeOK, StoreTypeOK, FreshnessInv, LockInv, Reloading, Procs
  <2>5. InstallInv'
    BY <1>2, <1>t, <1>i
    DEF StartApply, Goto, storeVars, tableVars, ProcTypeOK, TableTypeOK, Forwarders, InstallInv, TableWaiting, Waiting, Installing, LockInv, Procs
  <2>. QED  BY <2>1, <2>2, <2>3, <2>4, <2>5 DEF TableInv
<1>3. ASSUME NEW p \in Procs, ReadZones(p) PROVE TableInv'
  <2>1. LockInv'
    BY <1>3, <1>t, <1>i, <1>n
    DEF ReadZones, Goto, storeVars, tableVars, ProcTypeOK, LockInv, Installing, Procs
  <2>2. ForwarderInv'
    BY <1>3, <1>t, <1>i, <1>e
    DEF ReadZones, Goto, storeVars, tableVars, ProcTypeOK, TableTypeOK, Forwarders, ForwarderInv, Holds, Installing, Procs
  <2>3. PlanInv'
    BY <1>3, <1>t, <1>i
    DEF ReadZones, Goto, storeVars, tableVars, ProcTypeOK, TableTypeOK, Forwarders, PlanInv, LockInv, Installing, Procs
  <2>4. FreshnessInv'
    BY <1>3, <1>t, <1>i, <1>n, BuiltSame
    DEF ReadZones, Goto, storeVars, tableVars, ProcTypeOK, StoreTypeOK, FreshnessInv, LockInv, Reloading, Procs
  <2>5. InstallInv'
    BY <1>3, <1>t, <1>i
    DEF ReadZones, Goto, storeVars, tableVars, ProcTypeOK, TableTypeOK, Forwarders, InstallInv, TableWaiting, Waiting, Installing, LockInv, Procs
  <2>. QED  BY <2>1, <2>2, <2>3, <2>4, <2>5 DEF TableInv
<1>4. ASSUME NEW p \in Procs, Publish(p) PROVE TableInv'
  <2>1. LockInv'
    BY <1>4, <1>t, <1>i, <1>n
    DEF Publish, Goto, storeVars, tableVars, ProcTypeOK, LockInv, Installing, AfterReload, Procs
  <2>2. ForwarderInv'
    BY <1>4, <1>t, <1>i, <1>e
    DEF Publish, Goto, storeVars, tableVars, ProcTypeOK, TableTypeOK, Forwarders, ForwarderInv, Holds, Installing, AfterReload, Procs
  <2>3. PlanInv'
    BY <1>4, <1>t, <1>i
    DEF Publish, Goto, storeVars, tableVars, ProcTypeOK, TableTypeOK, Forwarders, PlanInv, LockInv, Installing, AfterReload, Procs
  <2>4. FreshnessInv'
    BY <1>4, <1>t, <1>i
    DEF Publish, Goto, storeVars, tableVars, ProcTypeOK, StoreTypeOK, FreshnessInv, LockInv, Reloading, AfterReload, Procs
  <2>5. InstallInv'
    BY <1>4, <1>t, <1>i
    DEF Publish, Goto, storeVars, tableVars, ProcTypeOK, TableTypeOK, Forwarders, InstallInv, TableWaiting, Waiting, Installing, LockInv, AfterReload, Procs
  <2>. QED  BY <2>1, <2>2, <2>3, <2>4, <2>5 DEF TableInv
<1>5. ASSUME NEW p \in Procs, ReloadFails(p) PROVE TableInv'
  <2>1. LockInv'
    BY <1>5, <1>t, <1>i, <1>n
    DEF ReloadFails, Goto, storeVars, tableVars, ProcTypeOK, LockInv, Installing, Procs
  <2>2. ForwarderInv'
    BY <1>5, <1>t, <1>i, <1>e
    DEF ReloadFails, Goto, storeVars, tableVars, ProcTypeOK, TableTypeOK, Forwarders, ForwarderInv, Holds, Installing, Procs
  <2>3. PlanInv'
    BY <1>5, <1>t, <1>i
    DEF ReloadFails, Goto, storeVars, tableVars, ProcTypeOK, TableTypeOK, Forwarders, PlanInv, LockInv, Installing, Procs
  <2>4. FreshnessInv'
    BY <1>5, <1>t, <1>i, <1>n
    DEF ReloadFails, Goto, storeVars, tableVars, ProcTypeOK, StoreTypeOK, FreshnessInv, LockInv, Reloading, Procs
  <2>5. InstallInv'
    BY <1>5, <1>t, <1>i
    DEF ReloadFails, Goto, storeVars, tableVars, ProcTypeOK, TableTypeOK, Forwarders, InstallInv, TableWaiting, Waiting, Installing, LockInv, Procs
  <2>. QED  BY <2>1, <2>2, <2>3, <2>4, <2>5 DEF TableInv
<1>6. ASSUME NEW p \in Procs, Build(p) PROVE TableInv'
  <2>1. LockInv'
    BY <1>6, <1>t, <1>i, <1>n
    DEF Build, Goto, storeVars, tableVars, ProcTypeOK, LockInv, Installing, Procs
  <2>2. ForwarderInv'
    BY <1>6, <1>t, <1>i, <1>e
    DEF Build, Goto, storeVars, tableVars, ProcTypeOK, TableTypeOK, Forwarders, ForwarderInv, Holds, Installing, Procs
  <2>3. PlanInv'
    BY <1>6, <1>t, <1>i
    DEF Build, Goto, tableVars, ProcTypeOK, TableTypeOK, Forwarders, PlanInv, ForwarderInv
  <2>4. FreshnessInv'
    BY <1>6, <1>t, <1>i
    DEF Build, Goto, storeVars, tableVars, ProcTypeOK, StoreTypeOK, FreshnessInv, LockInv, Reloading, Procs
  <2>5. InstallInv'
    BY <1>6, <1>t, <1>i
    DEF Build, Goto, storeVars, tableVars, ProcTypeOK, TableTypeOK, Forwarders, InstallInv, TableWaiting, Waiting, Installing, LockInv, Procs
  <2>. QED  BY <2>1, <2>2, <2>3, <2>4, <2>5 DEF TableInv
<1>7. ASSUME NEW p \in Procs, KeepForwarder(p) PROVE TableInv'
  <2>1. LockInv'
    BY <1>7, <1>t, <1>i, <1>n
    DEF KeepForwarder, Goto, storeVars, tableVars, ProcTypeOK, LockInv, Installing, Procs
  <2>2. ForwarderInv'
    BY <1>7, <1>t, <1>i, <1>e
    DEF KeepForwarder, Goto, storeVars, tableVars, ProcTypeOK, TableTypeOK, Forwarders, ForwarderInv, Holds, Installing, Procs
  <2>3. PlanInv'
    BY <1>7, <1>t, <1>i
    DEF KeepForwarder, Goto, storeVars, tableVars, ProcTypeOK, TableTypeOK, Forwarders, PlanInv, LockInv, Installing, Procs
  <2>4. FreshnessInv'
    BY <1>7, <1>t, <1>i
    DEF KeepForwarder, Goto, storeVars, tableVars, ProcTypeOK, StoreTypeOK, FreshnessInv, LockInv, Reloading, Procs
  <2>5. InstallInv'
    BY <1>7, <1>t, <1>i
    DEF KeepForwarder, Goto, storeVars, tableVars, ProcTypeOK, TableTypeOK, Forwarders, InstallInv, TableWaiting, Waiting, Installing, LockInv, Procs
  <2>. QED  BY <2>1, <2>2, <2>3, <2>4, <2>5 DEF TableInv
<1>8. ASSUME NEW p \in Procs, LockRoutes(p) PROVE TableInv'
  <2>1. LockInv'
    BY <1>8, <1>t, <1>i, <1>n
    DEF LockRoutes, Goto, storeVars, tableVars, ProcTypeOK, LockInv, Installing, Procs
  <2>2. ForwarderInv'
    BY <1>8, <1>t, <1>i, <1>e
    DEF LockRoutes, Goto, storeVars, tableVars, ProcTypeOK, TableTypeOK, Forwarders, ForwarderInv, Holds, Installing, Procs
  <2>3. PlanInv'
    BY <1>8, <1>t, <1>i, <1>n
    DEF LockRoutes, Goto, storeVars, tableVars, ProcTypeOK, TableTypeOK, Forwarders, PlanInv, LockInv, Installing, Procs
  <2>4. FreshnessInv'
    BY <1>8, <1>t, <1>i
    DEF LockRoutes, Goto, storeVars, tableVars, ProcTypeOK, StoreTypeOK, FreshnessInv, LockInv, Reloading, Procs
  <2>5. InstallInv'
    BY <1>8, <1>t, <1>i
    DEF LockRoutes, Goto, storeVars, tableVars, ProcTypeOK, TableTypeOK, Forwarders, InstallInv, TableWaiting, Waiting, Installing, LockInv, Procs
  <2>. QED  BY <2>1, <2>2, <2>3, <2>4, <2>5 DEF TableInv
<1>9. ASSUME NEW p \in Procs, Install(p) PROVE TableInv'
  <2>1. LockInv'
    BY <1>9, <1>t, <1>i, <1>n
    DEF Install, Goto, storeVars, tableVars, ProcTypeOK, LockInv, Installing, Procs
  <2>2. ForwarderInv'
    BY <1>9, <1>t, <1>i, <1>e
    DEF Install, Goto, storeVars, tableVars, ProcTypeOK, TableTypeOK, Forwarders, ForwarderInv, Holds, Installing, Procs
  <2>3. PlanInv'
    BY <1>9, <1>t, <1>i
    DEF Install, Goto, storeVars, tableVars, ProcTypeOK, TableTypeOK, Forwarders, PlanInv, LockInv, Installing, Procs
  <2>4. FreshnessInv'
    BY <1>9, <1>t, <1>i
    DEF Install, Goto, storeVars, tableVars, ProcTypeOK, StoreTypeOK, FreshnessInv, LockInv, Reloading, Procs
  <2>5. InstallInv'
    BY <1>9, <1>t, <1>i
    DEF Install, Goto, storeVars, tableVars, ProcTypeOK, TableTypeOK, Forwarders, InstallInv, TableWaiting, Waiting, Installing, LockInv, Procs
  <2>. QED  BY <2>1, <2>2, <2>3, <2>4, <2>5 DEF TableInv
<1>10. ASSUME NEW p \in Procs, Purge(p) PROVE TableInv'
  <2>1. LockInv'
    BY <1>10, <1>t, <1>i, <1>n
    DEF Purge, Goto, storeVars, tableVars, ProcTypeOK, LockInv, Installing, Procs
  <2>2. ForwarderInv'
    BY <1>10, <1>t, <1>i, <1>e
    DEF Purge, Goto, storeVars, tableVars, ProcTypeOK, TableTypeOK, Forwarders, ForwarderInv, Holds, Installing, Procs
  <2>3. PlanInv'
    BY <1>10, <1>t, <1>i
    DEF Purge, Goto, storeVars, tableVars, ProcTypeOK, TableTypeOK, Forwarders, PlanInv, LockInv, Installing, Procs
  <2>4. FreshnessInv'
    BY <1>10, <1>t, <1>i
    DEF Purge, Goto, storeVars, tableVars, ProcTypeOK, StoreTypeOK, FreshnessInv, LockInv, Reloading, Procs
  <2>5. InstallInv'
    BY <1>10, <1>t, <1>i
    DEF Purge, Goto, storeVars, tableVars, ProcTypeOK, TableTypeOK, Forwarders, InstallInv, TableWaiting, Waiting, Installing, LockInv, Procs
  <2>. QED  BY <2>1, <2>2, <2>3, <2>4, <2>5 DEF TableInv
<1>11. ASSUME NEW p \in Procs, Swap(p) PROVE TableInv'
  <2>1. LockInv'
    BY <1>11, <1>t, <1>i, <1>n
    DEF Swap, Goto, storeVars, tableVars, ProcTypeOK, LockInv, Installing, Procs
  <2>2. ForwarderInv'
    BY <1>11, <1>t, <1>i, <1>e
    DEF Swap, Goto, ProcTypeOK, TableTypeOK, Forwarders, LockInv, ForwarderInv, Holds, Installing, Procs
  <2>3. PlanInv'
    BY <1>11, <1>t, <1>i
    DEF Swap, Goto, storeVars, tableVars, ProcTypeOK, TableTypeOK, Forwarders, PlanInv, LockInv, Installing, Procs
  <2>4. FreshnessInv'
    BY <1>11, <1>t, <1>i
    DEF Swap, Goto, storeVars, tableVars, ProcTypeOK, StoreTypeOK, FreshnessInv, LockInv, Reloading, Procs
  <2>5. InstallInv'
    BY <1>11, <1>t, <1>i
    DEF Swap, Goto, storeVars, ProcTypeOK, TableTypeOK, PlanInv, InstallInv, TableWaiting, Waiting, Installing, LockInv, Procs
  <2>. QED  BY <2>1, <2>2, <2>3, <2>4, <2>5 DEF TableInv
<1>12. ASSUME NEW p \in Procs, CloseOld(p) PROVE TableInv'
  <2>1. LockInv'
    BY <1>12, <1>t, <1>i, <1>n
    DEF CloseOld, Goto, storeVars, tableVars, ProcTypeOK, LockInv, Installing, Procs
  <2>2. ForwarderInv'
    BY <1>12, <1>t, <1>i, <1>e
    DEF CloseOld, Goto, storeVars, tableVars, ProcTypeOK, TableTypeOK, Forwarders, ForwarderInv, Holds, Installing, Procs
  <2>3. PlanInv'
    BY <1>12, <1>t, <1>i
    DEF CloseOld, Goto, storeVars, tableVars, ProcTypeOK, TableTypeOK, Forwarders, PlanInv, LockInv, Installing, Procs
  <2>4. FreshnessInv'
    BY <1>12, <1>t, <1>i
    DEF CloseOld, Goto, storeVars, tableVars, ProcTypeOK, StoreTypeOK, FreshnessInv, LockInv, Reloading, Procs
  <2>5. InstallInv'
    BY <1>12, <1>t, <1>i
    DEF CloseOld, Goto, storeVars, tableVars, ProcTypeOK, TableTypeOK, Forwarders, InstallInv, TableWaiting, Waiting, Installing, LockInv, Procs
  <2>. QED  BY <2>1, <2>2, <2>3, <2>4, <2>5 DEF TableInv
<1>13. ASSUME QueryNext PROVE TableInv'
  BY <1>13, <1>u DEF QueryNext, Resolve, LoadEpoch, Get, Do, LoadHandler, Pick, Answered, Failed, ServeStale, Reply
<1>14. ASSUME CacheNext PROVE TableInv'
  BY <1>14, <1>u DEF CacheNext, Age
<1>15. CASE UNCHANGED vars
  BY <1>15, <1>u DEF vars
<1>. QED
  BY <1>1, <1>2, <1>3, <1>4, <1>5, <1>6, <1>7, <1>8, <1>9, <1>10, <1>11, <1>12, <1>13, <1>14, <1>15
     DEF Next, EditorNext, ApplierNext, Procs

\* The lock, Forwarder, plan and freshness invariants hold throughout.
LEMMA TableInvariant == Spec => []TableInv
<1>1. Init => TypeInv /\ TableInv
  BY TypeInvInit, TableInvInit
<1>2. TypeInv /\ TableInv /\ [Next]_vars => TypeInv' /\ TableInv'
  BY TypeInvStep, TableInvStep DEF TypeInv
<1>. QED  BY <1>1, <1>2, PTL DEF Spec

\* The Forwarder that serves queries is never closed, however many settings
\* writes overlap: no two of them ever hold the same Forwarder.
THEOREM LiveForwarderIsOpen == Spec => []LiveNotClosed
<1>1. TableInv => LiveNotClosed
  BY DEF TableInv, ForwarderInv, LiveNotClosed
<1>. QED  BY <1>1, TableInvariant, PTL

\* When all reloads are done and none failed, what is served is what is stored:
\* rmu orders the reloads, routeMu the installs, so no older view comes last.
THEOREM QuiescenceServesStore == Spec => []QuiescentServesStore
<1>1. TableInv => QuiescentServesStore
  BY DEF TableInv, FreshnessInv, InstallInv, Reloading, TableWaiting, Waiting,
         Installing, QuiescentServesStore
<1>. QED  BY <1>1, TableInvariant, PTL

\* The table queries are routed by only changes to one built from a snapshot,
\* so no settings write ever exposes a new Forwarder's empty table.
THEOREM LiveTableIsPlanned == Spec => LiveTableMovesToPlan
<1>. DEFINE Moves == cond'[live'] # cond[live] => cond'[live'] = plan
<1>1. TypeOK /\ TableInv /\ [Next]_vars => [Moves]_vars
  <2>. SUFFICES ASSUME TypeOK, TableInv, Next PROVE Moves
    OBVIOUS
  <2>t. cond \in [Forwarders -> Table] /\ live \in Forwarders /\ built \in Forwarders
    BY DEF TypeOK, TableTypeOK
  <2>1. ASSUME NEW p \in Procs, Build(p) PROVE Moves
    BY <2>1, <2>t DEF Build, TableInv, ForwarderInv, Forwarders
  <2>2. ASSUME NEW p \in Procs, Install(p) PROVE Moves
    BY <2>2, <2>t DEF Install
  <2>3. ASSUME NEW p \in Procs, Swap(p) PROVE Moves
    BY <2>3 DEF Swap, TableInv, PlanInv
  <2>4. ASSUME UNCHANGED <<cond, live>> PROVE Moves
    BY <2>4
  <2>5. ASSUME NEW p \in Procs,
               \/ WriteZone(p) \/ StartApply(p) \/ ReadZones(p) \/ Publish(p)
               \/ ReloadFails(p) \/ KeepForwarder(p) \/ LockRoutes(p)
               \/ Purge(p) \/ CloseOld(p)
        PROVE  Moves
    BY <2>5, <2>4 DEF WriteZone, StartApply, ReadZones, Publish, ReloadFails,
       KeepForwarder, LockRoutes, Purge, CloseOld, tableVars
  <2>6. ASSUME QueryNext \/ CacheNext PROVE Moves
    BY <2>6, <2>4 DEF QueryNext, CacheNext, Resolve, LoadEpoch, Get, Do, LoadHandler,
       Pick, Answered, Failed, ServeStale, Reply, Age, tableVars
  <2>. HIDE DEF Moves
  <2>. QED  BY <2>1, <2>2, <2>3, <2>5, <2>6 DEF Next, EditorNext, ApplierNext, Procs
<1>. QED  BY <1>1, TypeCorrect, TableInvariant, PTL DEF Spec, LiveTableMovesToPlan

-----------------------------------------------------------------------------
(* The answer cache under zone edits: what it holds and what it hands out. *)
(* The theorems are about SpecReload; a settings write that swaps the      *)
(* Forwarder breaks both (run routing_swap_leak).                          *)

\* No settings write: one Forwarder, live throughout.
OneForwarder ==
  /\ \A p \in Appliers : pc[p] = "idle"
  /\ live = 1 /\ cond[live] = routes
  /\ \A q \in Queries : qhandler[q] = live

\* Between an install and its purge, dirty is what separates old from the table.
PurgeInv ==
  /\ \A p \in Procs : pc[p] = "purge" => dirty = changedSuffixes(old, cond[live])
  /\ (\A p \in Procs : pc[p] # "purge") => dirty = {} /\ old = cond[live]

\* r may answer for n: it is the table's route, or one a purge is about to sweep.
Tolerated(r, n) ==
  \/ r = pick(cond[live], n)
  \/ r = pick(old, n) /\ Dirtied(n, dirty)

CacheInv == \A n \in Names : cache[n] # None => Tolerated(cache[n].route, n)

\* Only lookups of the present epoch can still be put, and they are tolerated.
FlightInv ==
  \A q \in Queries :
    /\ qepoch[q] <= epoch
    /\ qpc[q] = "sent" /\ qepoch[q] = epoch => Tolerated(qroute[q], qname[q])

InForceInv ==
  \A q \in Queries : qpc[q] # "idle" =>
    /\ pick(cond[live], qname[q]) \in inforce[q]
    /\ pick(old, qname[q]) \in inforce[q]

\* Whatever call a query may share, its route was in force for that query too.
Joining == {"get", "flight", "wait"}
JoinInv ==
  \A q, l \in Queries :
    (qpc[l] = "sent" /\ (l = q \/ (qpc[q] \in Joining /\ SameFlight(q, l)))) =>
      qroute[l] \in inforce[q]

WaitInv ==
  \A q \in Queries : qpc[q] = "wait" =>
    Leading(qleader[q]) /\ SameFlight(q, qleader[q])

ReloadInv ==
  /\ TypeInv /\ TableInv
  /\ OneForwarder /\ PurgeInv /\ CacheInv /\ FlightInv
  /\ InForceInv /\ JoinInv /\ WaitInv /\ AnswerRouteWasInForce

\* The initial state, with an empty cache and no query, satisfies the invariant.
LEMMA ReloadInvInit == Init => ReloadInv
<1>. SUFFICES ASSUME Init PROVE ReloadInv
  OBVIOUS
<1>1. TypeInv /\ TableInv
  BY TypeInvInit, TableInvInit
<1>2. OneForwarder
  BY RoutingAssumption DEF Init, OneForwarder, Forwarders, Procs
<1>3. PurgeInv
  BY <1>2 DEF Init, PurgeInv, OneForwarder
<1>4. CacheInv /\ InForceInv /\ JoinInv /\ WaitInv /\ AnswerRouteWasInForce
  BY DEF Init, CacheInv, InForceInv, JoinInv, WaitInv, AnswerRouteWasInForce
<1>5. FlightInv
  BY DEF Init, FlightInv
<1>. QED  BY <1>1, <1>2, <1>3, <1>4, <1>5 DEF ReloadInv

\* A query's answer depends on nothing a step leaves alone.
LEMMA ReloadInvFrame ==
  ASSUME ReloadInv, OneForwarder', PurgeInv',
         UNCHANGED <<cond, live, old, dirty, cacheVars, queryVars, inforce>>
  PROVE  /\ CacheInv' /\ FlightInv' /\ InForceInv' /\ JoinInv' /\ WaitInv'
         /\ AnswerRouteWasInForce'
<1>1. CacheInv' /\ FlightInv'
  BY DEF ReloadInv, CacheInv, FlightInv, Tolerated, cacheVars, queryVars
<1>2. InForceInv' /\ AnswerRouteWasInForce'
  BY DEF ReloadInv, InForceInv, AnswerRouteWasInForce, queryVars
<1>3. JoinInv' /\ WaitInv'
  BY DEF ReloadInv, JoinInv, WaitInv, Leading, SameFlight, queryVars
<1>. QED  BY <1>1, <1>2, <1>3

\* Installing a table: what was tolerated still is, the purge being due.
LEMMA InstallTolerates ==
  ASSUME ReloadInv, NEW p \in Editors, Install(p)
  PROVE  /\ cond'[live'] = plan /\ old' = cond[live] /\ live' = live
         /\ dirty' = changedSuffixes(old', cond'[live'])
         /\ Witnessed(plan)
         /\ \A n \in Names : \A r : Tolerated(r, n) => Tolerated(r, n)'
<1>0. p \in Procs /\ pc[p] = "install" /\ routeMu = p
  BY DEF Install, ReloadInv, TableInv, LockInv, Installing, Procs
<1>1. mine[p] = live
  BY <1>0 DEF ReloadInv, TableInv, ForwarderInv, Installing
<1>2. cond \in [Forwarders -> Table] /\ live \in Forwarders /\ plan \in Table
  BY DEF ReloadInv, TypeInv, TypeOK, TableTypeOK
<1>3. \A r \in Procs : pc[r] # "purge"
  BY <1>0 DEF ReloadInv, TableInv, LockInv, Installing
<1>4. dirty = {} /\ old = cond[live] /\ cond[live] = routes
  BY <1>3 DEF ReloadInv, PurgeInv, OneForwarder
<1>5. /\ cond'[live'] = plan /\ old' = cond[live] /\ live' = live
      /\ dirty' = changedSuffixes(old', cond'[live'])
      /\ Witnessed(plan)
  BY <1>1, <1>2, <1>4 DEF Install
<1>6. ASSUME NEW n \in Names, NEW r, Tolerated(r, n)
      PROVE  Tolerated(r, n)'
  <2>1. r = pick(old', n)
    BY <1>4, <1>5, <1>6 DEF Tolerated
  <2>2. CASE Dirtied(n, dirty')
    BY <2>1, <2>2 DEF Tolerated
  <2>3. CASE ~Dirtied(n, dirty')
    <3>1. pick(old', n) = pick(cond'[live'], n)
      BY <1>2, <1>5, <2>3, PickUnchanged
    <3>. QED  BY <2>1, <3>1 DEF Tolerated
  <2>. QED  BY <2>2, <2>3
<1>. QED  BY <1>5, <1>6

\* Every step of a zone edit, a query or the cache's clock preserves it: one case
\* per action, and under it the conjuncts the action can disturb.
LEMMA ReloadInvStep == ReloadInv /\ [NextReload]_vars => ReloadInv'
<1>. SUFFICES ASSUME ReloadInv, [NextReload]_vars PROVE ReloadInv'
  OBVIOUS
<1>t. TypeInv' /\ TableInv'
  BY TypeInvStep, TableInvStep DEF ReloadInv, TypeInv, NextReload, Next
<1>i. /\ StoreTypeOK /\ TableTypeOK /\ CacheTypeOK /\ ProcTypeOK /\ QueryTypeOK
      /\ QueryWellFormed /\ OneForwarder /\ PurgeInv /\ CacheInv /\ FlightInv
      /\ InForceInv /\ JoinInv /\ WaitInv /\ AnswerRouteWasInForce /\ LockInv
  BY DEF ReloadInv, TypeInv, TypeOK, TableInv
<1>e. \A p \in Editors : p \in Procs /\ p \notin Appliers
  BY RoutingAssumption DEF Procs
<1>r. \A r \in Route : r \notin {None, Authoritative, Servfail}
  BY RoutingAssumption
<1>q. ASSUME UNCHANGED <<storeVars, tableVars, pc>>,
             \A q \in Queries : qhandler'[q] = live
      PROVE  OneForwarder' /\ PurgeInv'
  BY <1>q, <1>i DEF tableVars, OneForwarder, PurgeInv
<1>1. ASSUME NEW p \in Editors, WriteZone(p) PROVE ReloadInv'
  <2>1. OneForwarder' /\ PurgeInv'
    BY <1>1, <1>i, <1>e DEF WriteZone, Goto, tableVars, queryVars, ProcTypeOK, OneForwarder, PurgeInv
  <2>. QED  BY <1>1, <1>t, <2>1, ReloadInvFrame DEF WriteZone, tableVars, ReloadInv
<1>2. ASSUME NEW p \in Editors, ReadZones(p) PROVE ReloadInv'
  <2>1. OneForwarder' /\ PurgeInv'
    BY <1>2, <1>i, <1>e DEF ReadZones, Goto, tableVars, queryVars, ProcTypeOK, OneForwarder, PurgeInv
  <2>. QED  BY <1>2, <1>t, <2>1, ReloadInvFrame DEF ReadZones, tableVars, ReloadInv
<1>3. ASSUME NEW p \in Editors, Publish(p) PROVE ReloadInv'
  <2>1. OneForwarder' /\ PurgeInv'
    BY <1>3, <1>i, <1>e DEF Publish, Goto, tableVars, queryVars, ProcTypeOK, OneForwarder, PurgeInv, AfterReload
  <2>. QED  BY <1>3, <1>t, <2>1, ReloadInvFrame DEF Publish, tableVars, ReloadInv
<1>4. ASSUME NEW p \in Editors, ReloadFails(p) PROVE ReloadInv'
  <2>1. OneForwarder' /\ PurgeInv'
    BY <1>4, <1>i, <1>e DEF ReloadFails, Goto, tableVars, queryVars, ProcTypeOK, OneForwarder, PurgeInv
  <2>. QED  BY <1>4, <1>t, <2>1, ReloadInvFrame DEF ReloadFails, tableVars, ReloadInv
<1>5. ASSUME NEW p \in Editors, LockRoutes(p) PROVE ReloadInv'
  <2>1. OneForwarder' /\ PurgeInv'
    BY <1>5, <1>i, <1>e DEF LockRoutes, Goto, tableVars, queryVars, ProcTypeOK, OneForwarder, PurgeInv
  <2>. QED  BY <1>5, <1>t, <2>1, ReloadInvFrame DEF LockRoutes, tableVars, ReloadInv
<1>6. ASSUME NEW p \in Editors, Install(p) PROVE ReloadInv'
  <2>0. /\ cond'[live'] = plan /\ old' = cond[live] /\ live' = live
        /\ dirty' = changedSuffixes(old', cond'[live'])
        /\ Witnessed(plan)
        /\ \A n \in Names : \A r : Tolerated(r, n) => Tolerated(r, n)'
    BY <1>6, InstallTolerates
  <2>1. OneForwarder'
    BY <1>6, <2>0, <1>i, <1>e DEF Install, Goto, ProcTypeOK, OneForwarder, queryVars
  <2>2. PurgeInv'
    BY <1>6, <2>0, <1>i, <1>e DEF Install, Goto, ProcTypeOK, PurgeInv
  <2>3. CacheInv'
    BY <1>6, <2>0, <1>i DEF Install, CacheInv, cacheVars
  <2>4. FlightInv'
    BY <1>6, <2>0, <1>i DEF Install, FlightInv, QueryWellFormed, cacheVars, queryVars
  <2>5. InForceInv'
    BY <1>6, <2>0, <1>i DEF Install, Witnessed, InForceInv, queryVars
  <2>6. JoinInv' /\ AnswerRouteWasInForce'
    BY <1>6, <2>0, <1>i
    DEF Install, Witnessed, JoinInv, Joining, SameFlight, AnswerRouteWasInForce, queryVars
  <2>7. WaitInv'
    BY <1>6, <1>i DEF Install, WaitInv, Leading, SameFlight, queryVars
  <2>. QED  BY <1>t, <2>1, <2>2, <2>3, <2>4, <2>5, <2>6, <2>7 DEF ReloadInv
<1>7. ASSUME NEW p \in Editors, Purge(p) PROVE ReloadInv'
  <2>0. /\ cond' = cond /\ live' = live /\ dirty' = {} /\ old' = cond[live]
        /\ UNCHANGED <<queryVars, inforce>>
    BY <1>7 DEF Purge
  <2>1. OneForwarder'
    <3>1. \A r \in Appliers : pc'[r] = pc[r]
      BY <1>7, <1>i, <1>e DEF Purge, Goto, ProcTypeOK, Procs
    <3>. QED  BY <1>7, <2>0, <3>1, <1>i DEF Purge, OneForwarder, queryVars
  <2>2. PurgeInv'
    BY <1>7, <1>i, <1>e DEF Purge, Goto, ProcTypeOK, PurgeInv, LockInv, Installing
  <2>3. CacheInv'
    <3>. SUFFICES ASSUME NEW n \in Names, cache'[n] # None
                  PROVE  cache'[n].route = pick(cond[live], n)
      BY <2>0 DEF CacheInv, Tolerated
    <3>1. cache'[n] = cache[n] /\ ~Dirtied(n, dirty)
      BY <1>7, <1>i DEF Purge, CacheTypeOK, cacheVars, Dirtied, Claims
    <3>. QED  BY <3>1, <1>i DEF CacheInv, Tolerated
  <2>4. FlightInv'
    <3>1. CASE dirty = {}
      BY <1>7, <2>0, <3>1, <1>i
      DEF Purge, FlightInv, Tolerated, Dirtied, Claims, cacheVars, queryVars
    <3>2. CASE dirty # {}
      BY <1>7, <2>0, <3>2, <1>i DEF Purge, FlightInv, CacheTypeOK, QueryTypeOK, queryVars
    <3>. QED  BY <3>1, <3>2
  <2>5. InForceInv' /\ AnswerRouteWasInForce'
    BY <2>0, <1>i DEF InForceInv, AnswerRouteWasInForce, queryVars
  <2>6. JoinInv' /\ WaitInv'
    BY <2>0, <1>i DEF JoinInv, WaitInv, Leading, SameFlight, queryVars
  <2>. QED  BY <1>t, <2>1, <2>2, <2>3, <2>4, <2>5, <2>6 DEF ReloadInv
<1>8. ASSUME NEW q \in Queries, Resolve(q) PROVE ReloadInv'
  <2>0. UNCHANGED <<cond, live, old, dirty>>
    BY <1>8 DEF Resolve, tableVars
  <2>1. OneForwarder' /\ PurgeInv'
    BY <1>8, <1>q, <1>i DEF Resolve, QueryTypeOK, OneForwarder
  <2>2. CacheInv'
    BY <1>8, <2>0, <1>i DEF Resolve, CacheInv, Tolerated, cacheVars
  <2>3. FlightInv'
    BY <1>8, <2>0, <1>i DEF Resolve, FlightInv, Tolerated, cacheVars, CacheTypeOK, QGoto, QueryTypeOK
  <2>4. InForceInv'
    BY <1>8, <2>0, <1>i DEF Resolve, InForceInv, QGoto, QueryTypeOK
  <2>5. JoinInv'
    BY <1>8, <2>0, <1>i DEF Resolve, JoinInv, Joining, SameFlight, QGoto, QueryTypeOK
  <2>6. WaitInv'
    BY <1>8, <1>i DEF Resolve, WaitInv, Leading, SameFlight, QGoto, QueryTypeOK
  <2>7. AnswerRouteWasInForce'
    BY <1>8, <2>0, <1>i, <1>r DEF Resolve, AnswerRouteWasInForce, QGoto, QueryTypeOK
  <2>. QED  BY <1>t, <2>1, <2>2, <2>3, <2>4, <2>5, <2>6, <2>7 DEF ReloadInv
<1>9. ASSUME NEW q \in Queries, LoadEpoch(q) PROVE ReloadInv'
  <2>0. UNCHANGED <<cond, live, old, dirty>>
    BY <1>9 DEF LoadEpoch, tableVars
  <2>1. OneForwarder' /\ PurgeInv'
    BY <1>9, <1>q, <1>i DEF LoadEpoch, QueryTypeOK, OneForwarder
  <2>2. CacheInv'
    BY <1>9, <2>0, <1>i DEF LoadEpoch, CacheInv, Tolerated, cacheVars
  <2>3. FlightInv'
    BY <1>9, <2>0, <1>i DEF LoadEpoch, FlightInv, Tolerated, cacheVars, CacheTypeOK, QGoto, QueryTypeOK
  <2>4. InForceInv'
    BY <1>9, <2>0, <1>i DEF LoadEpoch, InForceInv, QGoto, QueryTypeOK
  <2>5. JoinInv'
    BY <1>9, <2>0, <1>i DEF LoadEpoch, JoinInv, Joining, SameFlight, QGoto, QueryTypeOK, FlightInv, InForceInv, Tolerated
  <2>6. WaitInv'
    BY <1>9, <1>i DEF LoadEpoch, WaitInv, Leading, SameFlight, QGoto, QueryTypeOK
  <2>7. AnswerRouteWasInForce'
    BY <1>9, <2>0, <1>i, <1>r DEF LoadEpoch, AnswerRouteWasInForce, QGoto, QueryTypeOK
  <2>. QED  BY <1>t, <2>1, <2>2, <2>3, <2>4, <2>5, <2>6, <2>7 DEF ReloadInv
<1>10. ASSUME NEW q \in Queries, Get(q) PROVE ReloadInv'
  <2>0. UNCHANGED <<cond, live, old, dirty>>
    BY <1>10 DEF Get, tableVars
  <2>1. OneForwarder' /\ PurgeInv'
    BY <1>10, <1>q, <1>i DEF Get, QueryTypeOK, OneForwarder
  <2>2. CacheInv'
    BY <1>10, <2>0, <1>i DEF Get, CacheInv, Tolerated, cacheVars
  <2>3. FlightInv'
    BY <1>10, <2>0, <1>i DEF Get, FlightInv, Tolerated, cacheVars, CacheTypeOK, QGoto, QueryTypeOK
  <2>4. InForceInv'
    BY <1>10, <2>0, <1>i DEF Get, InForceInv, QGoto, QueryTypeOK
  <2>5. JoinInv'
    BY <1>10, <2>0, <1>i DEF Get, JoinInv, Joining, SameFlight, QGoto, QueryTypeOK
  <2>6. WaitInv'
    BY <1>10, <1>i DEF Get, WaitInv, Leading, SameFlight, QGoto, QueryTypeOK
  <2>7. AnswerRouteWasInForce'
    BY <1>10, <2>0, <1>i, <1>r DEF Get, AnswerRouteWasInForce, QGoto, QueryTypeOK, CacheInv, Tolerated, InForceInv, QueryWellFormed
  <2>. QED  BY <1>t, <2>1, <2>2, <2>3, <2>4, <2>5, <2>6, <2>7 DEF ReloadInv
<1>11. ASSUME NEW q \in Queries, Do(q) PROVE ReloadInv'
  <2>0. UNCHANGED <<cond, live, old, dirty>>
    BY <1>11 DEF Do, tableVars
  <2>1. OneForwarder' /\ PurgeInv'
    BY <1>11, <1>q, <1>i DEF Do, QueryTypeOK, OneForwarder
  <2>2. CacheInv'
    BY <1>11, <2>0, <1>i DEF Do, CacheInv, Tolerated, cacheVars
  <2>3. FlightInv'
    BY <1>11, <2>0, <1>i DEF Do, FlightInv, Tolerated, cacheVars, CacheTypeOK, QGoto, QueryTypeOK
  <2>4. InForceInv'
    BY <1>11, <2>0, <1>i DEF Do, InForceInv, QGoto, QueryTypeOK
  <2>5. JoinInv'
    BY <1>11, <2>0, <1>i DEF Do, JoinInv, Joining, SameFlight, QGoto, QueryTypeOK
  <2>6. WaitInv'
    BY <1>11, <1>i DEF Do, WaitInv, Leading, SameFlight, QGoto, QueryTypeOK
  <2>7. AnswerRouteWasInForce'
    BY <1>11, <2>0, <1>i, <1>r DEF Do, AnswerRouteWasInForce, QGoto, QueryTypeOK
  <2>. QED  BY <1>t, <2>1, <2>2, <2>3, <2>4, <2>5, <2>6, <2>7 DEF ReloadInv
<1>12. ASSUME NEW q \in Queries, LoadHandler(q) PROVE ReloadInv'
  <2>0. UNCHANGED <<cond, live, old, dirty>>
    BY <1>12 DEF LoadHandler, tableVars
  <2>1. OneForwarder' /\ PurgeInv'
    BY <1>12, <1>q, <1>i DEF LoadHandler, QueryTypeOK, OneForwarder
  <2>2. CacheInv'
    BY <1>12, <2>0, <1>i DEF LoadHandler, CacheInv, Tolerated, cacheVars
  <2>3. FlightInv'
    BY <1>12, <2>0, <1>i DEF LoadHandler, FlightInv, Tolerated, cacheVars, CacheTypeOK, QGoto, QueryTypeOK
  <2>4. InForceInv'
    BY <1>12, <2>0, <1>i DEF LoadHandler, InForceInv, QGoto, QueryTypeOK
  <2>5. JoinInv'
    BY <1>12, <2>0, <1>i DEF LoadHandler, JoinInv, Joining, SameFlight, QGoto, QueryTypeOK
  <2>6. WaitInv'
    BY <1>12, <1>i DEF LoadHandler, WaitInv, Leading, SameFlight, QGoto, QueryTypeOK
  <2>7. AnswerRouteWasInForce'
    BY <1>12, <2>0, <1>i, <1>r DEF LoadHandler, AnswerRouteWasInForce, QGoto, QueryTypeOK
  <2>. QED  BY <1>t, <2>1, <2>2, <2>3, <2>4, <2>5, <2>6, <2>7 DEF ReloadInv
<1>13. ASSUME NEW q \in Queries, Pick(q) PROVE ReloadInv'
  <2>0. UNCHANGED <<cond, live, old, dirty>>
    BY <1>13 DEF Pick, tableVars
  <2>1. OneForwarder' /\ PurgeInv'
    BY <1>13, <1>q, <1>i DEF Pick, QueryTypeOK, OneForwarder
  <2>2. CacheInv'
    BY <1>13, <2>0, <1>i DEF Pick, CacheInv, Tolerated, cacheVars
  <2>3. FlightInv'
    BY <1>13, <2>0, <1>i DEF Pick, FlightInv, Tolerated, cacheVars, CacheTypeOK, QGoto, QueryTypeOK, OneForwarder
  <2>4. InForceInv'
    BY <1>13, <2>0, <1>i DEF Pick, InForceInv, QGoto, QueryTypeOK
  <2>5. JoinInv'
    BY <1>13, <2>0, <1>i DEF Pick, JoinInv, Joining, SameFlight, QGoto, QueryTypeOK, InForceInv, OneForwarder
  <2>6. WaitInv'
    BY <1>13, <1>i DEF Pick, WaitInv, Leading, SameFlight, QGoto, QueryTypeOK
  <2>7. AnswerRouteWasInForce'
    BY <1>13, <2>0, <1>i, <1>r DEF Pick, AnswerRouteWasInForce, QGoto, QueryTypeOK
  <2>. QED  BY <1>t, <2>1, <2>2, <2>3, <2>4, <2>5, <2>6, <2>7 DEF ReloadInv
<1>14. ASSUME NEW q \in Queries, Answered(q) PROVE ReloadInv'
  <2>0. UNCHANGED <<cond, live, old, dirty>>
    BY <1>14 DEF Answered, tableVars
  <2>1. OneForwarder' /\ PurgeInv'
    BY <1>14, <1>q, <1>i DEF Answered, QueryTypeOK, OneForwarder
  <2>2. CacheInv'
    BY <1>14, <2>0, <1>i DEF Answered, CacheInv, Tolerated, cacheVars, put, CacheTypeOK, FlightInv
  <2>3. FlightInv'
    BY <1>14, <2>0, <1>i DEF Answered, FlightInv, Tolerated, cacheVars, CacheTypeOK, QGoto, QueryTypeOK, Callers
  <2>4. InForceInv'
    BY <1>14, <2>0, <1>i DEF Answered, InForceInv, QGoto, QueryTypeOK, Callers
  <2>5. JoinInv'
    BY <1>14, <2>0, <1>i DEF Answered, JoinInv, Joining, SameFlight, QGoto, QueryTypeOK, Callers
  <2>6. WaitInv'
    BY <1>14, <1>i DEF Answered, WaitInv, Leading, SameFlight, QGoto, QueryTypeOK, Callers
  <2>7. AnswerRouteWasInForce'
    BY <1>14, <2>0, <1>i, <1>r DEF Answered, AnswerRouteWasInForce, QGoto, QueryTypeOK, Callers, JoinInv, WaitInv, Joining
  <2>. QED  BY <1>t, <2>1, <2>2, <2>3, <2>4, <2>5, <2>6, <2>7 DEF ReloadInv
<1>15. ASSUME NEW q \in Queries, Failed(q) PROVE ReloadInv'
  <2>0. UNCHANGED <<cond, live, old, dirty>>
    BY <1>15 DEF Failed, tableVars
  <2>1. OneForwarder' /\ PurgeInv'
    BY <1>15, <1>q, <1>i DEF Failed, QueryTypeOK, OneForwarder
  <2>2. CacheInv'
    BY <1>15, <2>0, <1>i DEF Failed, CacheInv, Tolerated, cacheVars
  <2>3. FlightInv'
    BY <1>15, <2>0, <1>i DEF Failed, FlightInv, Tolerated, cacheVars, CacheTypeOK, QGoto, QueryTypeOK, Callers
  <2>4. InForceInv'
    BY <1>15, <2>0, <1>i DEF Failed, InForceInv, QGoto, QueryTypeOK, Callers
  <2>5. JoinInv'
    BY <1>15, <2>0, <1>i DEF Failed, JoinInv, Joining, SameFlight, QGoto, QueryTypeOK, Callers
  <2>6. WaitInv'
    BY <1>15, <1>i DEF Failed, WaitInv, Leading, SameFlight, QGoto, QueryTypeOK, Callers
  <2>7. AnswerRouteWasInForce'
    BY <1>15, <2>0, <1>i, <1>r DEF Failed, AnswerRouteWasInForce, QGoto, QueryTypeOK, Callers
  <2>. QED  BY <1>t, <2>1, <2>2, <2>3, <2>4, <2>5, <2>6, <2>7 DEF ReloadInv
<1>16. ASSUME NEW q \in Queries, ServeStale(q) PROVE ReloadInv'
  <2>0. UNCHANGED <<cond, live, old, dirty>>
    BY <1>16 DEF ServeStale, tableVars
  <2>1. OneForwarder' /\ PurgeInv'
    BY <1>16, <1>q, <1>i DEF ServeStale, QueryTypeOK, OneForwarder
  <2>2. CacheInv'
    BY <1>16, <2>0, <1>i DEF ServeStale, CacheInv, Tolerated, cacheVars
  <2>3. FlightInv'
    BY <1>16, <2>0, <1>i DEF ServeStale, FlightInv, Tolerated, cacheVars, CacheTypeOK, QGoto, QueryTypeOK
  <2>4. InForceInv'
    BY <1>16, <2>0, <1>i DEF ServeStale, InForceInv, QGoto, QueryTypeOK
  <2>5. JoinInv'
    BY <1>16, <2>0, <1>i DEF ServeStale, JoinInv, Joining, SameFlight, QGoto, QueryTypeOK
  <2>6. WaitInv'
    BY <1>16, <1>i DEF ServeStale, WaitInv, Leading, SameFlight, QGoto, QueryTypeOK
  <2>7. AnswerRouteWasInForce'
    BY <1>16, <2>0, <1>i, <1>r DEF ServeStale, AnswerRouteWasInForce, QGoto, QueryTypeOK, CacheInv, Tolerated, InForceInv, QueryWellFormed
  <2>. QED  BY <1>t, <2>1, <2>2, <2>3, <2>4, <2>5, <2>6, <2>7 DEF ReloadInv
<1>17. ASSUME NEW q \in Queries, Reply(q) PROVE ReloadInv'
  <2>0. UNCHANGED <<cond, live, old, dirty>>
    BY <1>17 DEF Reply, tableVars
  <2>1. OneForwarder' /\ PurgeInv'
    BY <1>17, <1>q, <1>i DEF Reply, QueryTypeOK, OneForwarder
  <2>2. CacheInv'
    BY <1>17, <2>0, <1>i DEF Reply, CacheInv, Tolerated, cacheVars
  <2>3. FlightInv'
    BY <1>17, <2>0, <1>i DEF Reply, FlightInv, Tolerated, cacheVars, CacheTypeOK, QGoto, QueryTypeOK
  <2>4. InForceInv'
    BY <1>17, <2>0, <1>i DEF Reply, InForceInv, QGoto, QueryTypeOK
  <2>5. JoinInv'
    BY <1>17, <2>0, <1>i DEF Reply, JoinInv, Joining, SameFlight, QGoto, QueryTypeOK
  <2>6. WaitInv'
    BY <1>17, <1>i DEF Reply, WaitInv, Leading, SameFlight, QGoto, QueryTypeOK
  <2>7. AnswerRouteWasInForce'
    BY <1>17, <2>0, <1>i, <1>r DEF Reply, AnswerRouteWasInForce, QGoto, QueryTypeOK
  <2>. QED  BY <1>t, <2>1, <2>2, <2>3, <2>4, <2>5, <2>6, <2>7 DEF ReloadInv
<1>18. ASSUME NEW n \in Names, Age(n) PROVE ReloadInv'
  <2>1. OneForwarder' /\ PurgeInv'
    BY <1>18, <1>q, <1>i DEF Age, OneForwarder, queryVars
  <2>2. CacheInv'
    BY <1>18, <1>i DEF Age, CacheInv, CacheTypeOK, Entry, Tolerated, tableVars
  <2>3. FlightInv'
    BY <1>18, <1>i DEF Age, FlightInv, Tolerated, tableVars, queryVars
  <2>4. InForceInv' /\ AnswerRouteWasInForce'
    BY <1>18, <1>i DEF Age, InForceInv, AnswerRouteWasInForce, tableVars, queryVars
  <2>5. JoinInv' /\ WaitInv'
    BY <1>18, <1>i DEF Age, JoinInv, WaitInv, Leading, SameFlight, queryVars
  <2>. QED  BY <1>t, <2>1, <2>2, <2>3, <2>4, <2>5 DEF ReloadInv
<1>19. CASE UNCHANGED vars
  <2>1. OneForwarder' /\ PurgeInv'
    BY <1>19, <1>q, <1>i DEF vars, OneForwarder, queryVars
  <2>. QED  BY <1>19, <1>t, <2>1, ReloadInvFrame DEF vars, tableVars, ReloadInv
<1>. QED
  BY <1>1, <1>2, <1>3, <1>4, <1>5, <1>6, <1>7, <1>8, <1>9, <1>10, <1>11, <1>12, <1>13, <1>14, <1>15, <1>16, <1>17, <1>18, <1>19
     DEF NextReload, EditorNext, QueryNext, CacheNext

\* With zone edits only, ReloadInv holds throughout.
LEMMA ReloadInvariant == SpecReload => []ReloadInv
BY ReloadInvInit, ReloadInvStep, PTL DEF SpecReload

\* After a purge the cache holds only answers that came by the routes in force,
\* lookups in flight across the zone edit included.
THEOREM CacheFollowsRoutes == SpecReload => []CacheHoldsLiveRoutes
<1>1. ReloadInv => CacheHoldsLiveRoutes
  BY DEF ReloadInv, CacheInv, Tolerated, Dirtied, Claims, CacheHoldsLiveRoutes
<1>. QED  BY <1>1, ReloadInvariant, PTL

\* No client gets an answer by a route that was not in force for its name at
\* some moment of its own query, whoever shared the lookup.
THEOREM AnswersByRoutesInForce == SpecReload => []AnswerRouteWasInForce
<1>1. ReloadInv => AnswerRouteWasInForce
  BY DEF ReloadInv
<1>. QED  BY <1>1, ReloadInvariant, PTL
=============================================================================
