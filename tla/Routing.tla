------------------------------ MODULE Routing ------------------------------
(***************************************************************************)
(* Conditional routing of dnsaur: how a forwarder or stub zone written to  *)
(* the store reaches the queries.                                          *)
(*                                                                         *)
(*   store --Reload--> snapshot --installConditional--> routing table of   *)
(*   the live Forwarder, with the answer cache above the Forwarder purged  *)
(*   of every suffix whose route moved.                                    *)
(*                                                                         *)
(* Two kinds of process write the table: Editors run ReloadZones after a   *)
(* zone write, Appliers run applySettings, which also replaces the whole   *)
(* Forwarder.  Queries read all of it with no lock in common, one atomic   *)
(* load at a time, so every load is a step of its own here.                *)
(***************************************************************************)
EXTENDS Integers, Sequences, FiniteSets

CONSTANTS
  Names,          \* names clients ask for, as label sequences, TLD first
  Apexes,         \* suffixes a zone may claim, written the same way
  Upstreams,      \* addresses a forwarder zone or a stub's NS set can name
  Editors,        \* processes that write a zone and call ReloadZones
  Appliers,       \* processes that call applySettings
  Queries,        \* client queries in flight
  Default,        \* the route to the default upstreams
  None,           \* no value
  Authoritative,  \* an answer from a zone's own records
  Servfail,       \* an answer the server makes up when resolution failed
  MaxWrites,      \* bound on zone writes
  MaxForwarders   \* bound on Forwarders ever built

Procs == Editors \cup Appliers
Forwarders == 1..MaxForwarders

\* A route is the set of addresses that may answer, or Default.
Route == {Default} \cup {ups : ups \in SUBSET Upstreams}
Entry == [route: Route, fresh: BOOLEAN]
Table == UNION {[D -> SUBSET Upstreams] : D \in SUBSET Apexes}

ASSUME RoutingAssumption ==
  /\ \A n \in Names \cup Apexes : n \in Seq(STRING)
  /\ \A r \in SUBSET Upstreams : r # Default
  /\ \A r \in Route : r \notin {None, Authoritative, Servfail}
  /\ \A e \in Entry : e # None
  /\ \A x \in Names \cup Procs : x # None
  /\ None \notin {Authoritative, Servfail}
  /\ Editors \cap Appliers = {}
  /\ MaxWrites \in Nat /\ MaxForwarders \in Nat \ {0}

VARIABLES
  store,     \* the zones table, with the NS records of the stubs
  writes,    \* how many zone writes there have been
  snap,      \* Resolver.snap: the Index being served
  rmu,       \* Resolver.rmu: who holds it
  read,      \* the zone rows a Reload has read so far
  missed,    \* a Reload failed and none has read the store since
  routeMu,   \* App.routeMu: who holds it
  routes,    \* App.routes: the table installed last
  plan,      \* the table conditionalRoutes built for the holder of routeMu
  dirty,     \* the suffixes installConditional found changed and has not purged
  old,       \* history: the live table whose answers a purge has still to sweep
  cond,      \* Forwarder.cond of every Forwarder
  live,      \* swappable.f: the Forwarder serving queries
  built,     \* how many Forwarders have been built
  closed,    \* the Forwarders Close was called on
  mine,      \* the Forwarder a process works on: it built it, or has to close it;
             \* 1 when it works on none
  pc,        \* where every Editor and Applier is
  cache,     \* Cache.entries, each with the route that produced it
  epoch,     \* Cache.epoch
  qpc,       \* where every query is
  qname,     \* the name it asks for
  qepoch,    \* the epoch it loaded
  qleader,   \* the query whose singleflight call it waits on
  qhandler,  \* the Forwarder whose handler it loaded
  qroute,    \* the route pick gave it
  qanswer,   \* the route its answer came by
  inforce    \* history: the routes in force for its name since it arrived

storeVars == <<store, writes, snap, rmu, read, missed>>
tableVars == <<routeMu, routes, plan, dirty, old, cond, live, built, closed, mine>>
cacheVars == <<cache, epoch>>
queryVars == <<qpc, qname, qepoch, qleader, qhandler, qroute, qanswer>>
vars == <<storeVars, tableVars, cacheVars, pc, queryVars, inforce>>

-----------------------------------------------------------------------------
(* Zones, tables and routes.                                               *)

\* A zone row.  "none" is an apex with no enabled zone; a forwarder names its
\* upstreams in the row, a stub in the NS records it fetched.
Zone == [type: {"none", "primary", "forwarder", "stub"}, ups: SUBSET Upstreams]
NoZone == [type |-> "none", ups |-> {}]
NoZones == [a \in Apexes |-> NoZone]
ConditionalTypes == {"forwarder", "stub"}

\* The rows a zone write can leave behind.
Rows == {z \in Zone : z.type \in {"none", "primary"} => z.ups = {}}

\* DomainSet.Match and nameUnder: at or beneath the suffix, on a label boundary.
Under(n, a) == Len(a) <= Len(n) /\ SubSeq(n, 1, Len(a)) = a

Claims(n, S) == {a \in S : Under(n, a)}

\* The most specific of the suffixes S that n is at or beneath.
Longest(S, n) ==
  CHOOSE a \in Claims(n, S) : \A b \in Claims(n, S) : Len(b) <= Len(a)

\* Index.Find: the deepest enabled zone that holds n.
Find(ix, n) ==
  LET S == {a \in Apexes : ix[a].type # "none"}
  IN  IF Claims(n, S) = {} THEN NoZone ELSE ix[Longest(S, n)]

conditionalRoutes(ix) ==
  [a \in {b \in Apexes : ix[b].type \in ConditionalTypes} |-> ix[a].ups]

pick(t, n) ==
  IF Claims(n, DOMAIN t) = {} THEN Default ELSE t[Longest(DOMAIN t, n)]

changedSuffixes(prev, next) ==
  {a \in DOMAIN next : a \notin DOMAIN prev \/ prev[a] # next[a]}
    \cup (DOMAIN prev \ DOMAIN next)

Dirtied(n, S) == Claims(n, S) # {}

-----------------------------------------------------------------------------
Init ==
  /\ store = NoZones /\ writes = 0
  /\ snap = store /\ rmu = None /\ missed = FALSE
  /\ read = [p \in Procs |-> store]
  /\ routeMu = None
  /\ routes = conditionalRoutes(snap)
  /\ plan = routes /\ dirty = {} /\ old = routes
  /\ cond = [f \in Forwarders |-> routes]
  /\ live = 1 /\ built = 1 /\ closed = {}
  /\ mine = [p \in Procs |-> 1]
  /\ pc = [p \in Procs |-> "idle"]
  /\ cache = [n \in Names |-> None] /\ epoch = 0
  /\ qpc = [q \in Queries |-> "idle"]
  /\ qname = [q \in Queries |-> None]
  /\ qepoch = [q \in Queries |-> 0]
  /\ qleader = [q \in Queries |-> q]
  /\ qhandler = [q \in Queries |-> 1]
  /\ qroute = [q \in Queries |-> None]
  /\ qanswer = [q \in Queries |-> None]
  /\ inforce = [q \in Queries |-> {}]

Goto(p, l) == pc' = [pc EXCEPT ![p] = l]

\* History: the table t is in force from this step on.
Witnessed(t) ==
  inforce' = [q \in Queries |->
                IF qpc[q] = "idle" THEN {} ELSE inforce[q] \cup {pick(t, qname[q])}]

-----------------------------------------------------------------------------
(* Resolver.Reload: two reads of the store and one swap, under rmu.        *)

\* The API's zone handlers: one write to the store, then ReloadZones.
WriteZone(p) ==
  /\ p \in Editors /\ pc[p] = "idle" /\ writes < MaxWrites
  /\ \E a \in Apexes, z \in Rows : z # store[a] /\ store' = [store EXCEPT ![a] = z]
  /\ writes' = writes + 1
  /\ Goto(p, "reload")
  /\ UNCHANGED <<snap, rmu, read, missed, tableVars, cacheVars, queryVars, inforce>>

\* The settings watcher, or ReloadSettings after a config-sync pull.
StartApply(p) ==
  /\ p \in Appliers /\ pc[p] = "idle"
  /\ Goto(p, "reload")
  /\ UNCHANGED <<storeVars, tableVars, cacheVars, queryVars, inforce>>

\* Mutant: the store is read without rmu.
ReadZonesUnlocked(p) ==
  /\ pc[p] = "reload"
  /\ rmu' = p
  /\ read' = [read EXCEPT ![p] = store]
  /\ missed' = FALSE
  /\ Goto(p, "records")
  /\ UNCHANGED <<store, writes, snap, tableVars, cacheVars, queryVars, inforce>>

ReadZones(p) ==
  /\ pc[p] = "reload" /\ rmu = None
  /\ rmu' = p
  /\ read' = [read EXCEPT ![p] = store]
  /\ missed' = FALSE
  /\ Goto(p, "records")
  /\ UNCHANGED <<store, writes, snap, tableVars, cacheVars, queryVars, inforce>>

\* AllRecords is a second read: a stub's NS set is as of now, its row is not.
Built(rows, now) ==
  [a \in Apexes |->
     IF rows[a].type # "stub" THEN rows[a]
     ELSE [rows[a] EXCEPT !.ups = IF now[a].type = "stub" THEN now[a].ups ELSE {}]]

AfterReload(p) == IF p \in Appliers THEN "build" ELSE "lock"

Publish(p) ==
  /\ pc[p] = "records"
  /\ snap' = Built(read[p], store)
  /\ rmu' = None
  /\ read' = [read EXCEPT ![p] = NoZones]
  /\ Goto(p, AfterReload(p))
  /\ UNCHANGED <<store, writes, missed, tableVars, cacheVars, queryVars, inforce>>

\* A store read fails: ReloadZones returns, applySettings logs and goes on.
ReloadFails(p) ==
  /\ pc[p] \in {"reload", "records"} /\ rmu \in {None, p}
  /\ rmu' = None /\ missed' = TRUE
  /\ read' = [read EXCEPT ![p] = NoZones]
  /\ Goto(p, IF p \in Appliers THEN "build" ELSE "idle")
  /\ UNCHANGED <<store, writes, snap, tableVars, cacheVars, queryVars, inforce>>

-----------------------------------------------------------------------------
(* applySettings and installConditional.                                   *)

Build(p) ==
  /\ pc[p] = "build" /\ built < MaxForwarders
  /\ built' = built + 1
  /\ mine' = [mine EXCEPT ![p] = built + 1]
  /\ cond' = [cond EXCEPT ![built + 1] = [a \in {} |-> {}]]
  /\ Goto(p, "lock")
  /\ UNCHANGED <<storeVars, routeMu, routes, plan, dirty, old, live, closed,
                 cacheVars, queryVars, inforce>>

\* Mutant: a Forwarder that cannot be built is tried again from the reload on.
KeepForwarderRetries(p) ==
  /\ pc[p] = "build"
  /\ Goto(p, "reload")
  /\ UNCHANGED <<storeVars, tableVars, cacheVars, queryVars, inforce>>

\* buildForwarder fails: the live Forwarder stays and gets the table.
KeepForwarder(p) ==
  /\ pc[p] = "build"
  /\ Goto(p, "keep")
  /\ UNCHANGED <<storeVars, tableVars, cacheVars, queryVars, inforce>>

\* routeMu is taken; ReloadZones and a kept Forwarder read which one is live.
LockRoutes(p) ==
  /\ pc[p] \in {"lock", "keep"} /\ routeMu = None
  /\ routeMu' = p
  /\ mine' = [mine EXCEPT ![p] = IF p \in Appliers /\ pc[p] = "lock" THEN @ ELSE live]
  /\ plan' = conditionalRoutes(snap)
  /\ Goto(p, "install")
  /\ UNCHANGED <<storeVars, routes, dirty, old, cond, live, built, closed,
                 cacheVars, queryVars, inforce>>

\* SetConditional, then the comparison with the table installed before.
Install(p) ==
  /\ pc[p] = "install"
  /\ cond' = [cond EXCEPT ![mine[p]] = plan]
  /\ dirty' = changedSuffixes(routes, plan)
  /\ routes' = plan
  /\ old' = IF mine[p] = live THEN cond[live] ELSE old
  /\ IF mine[p] = live THEN Witnessed(plan) ELSE UNCHANGED inforce
  /\ Goto(p, "purge")
  /\ UNCHANGED <<storeVars, routeMu, plan, live, built, closed, mine, cacheVars, queryVars>>

\* Cache.Purge, skipped when nothing changed.  A process that worked on the
\* live Forwarder is done; one that built its own still has to swap it in.
Purge(p) ==
  /\ pc[p] = "purge"
  /\ IF dirty = {} THEN UNCHANGED cacheVars
     ELSE /\ epoch' = epoch + 1
          /\ cache' = [n \in Names |-> IF Dirtied(n, dirty) THEN None ELSE cache[n]]
  /\ dirty' = {}
  /\ old' = cond[live]
  /\ IF mine[p] = live
     THEN Goto(p, "idle") /\ routeMu' = None /\ mine' = [mine EXCEPT ![p] = 1]
     ELSE Goto(p, "swap") /\ UNCHANGED <<routeMu, mine>>
  /\ UNCHANGED <<storeVars, routes, plan, cond, live, built, closed,
                 queryVars, inforce>>

\* Mutant: the Forwarder left to close is the one that went live.
SwapForgetsOld(p) ==
  /\ pc[p] = "swap"
  /\ live' = mine[p]
  /\ old' = cond[mine[p]]
  /\ routeMu' = None
  /\ Witnessed(cond[mine[p]])
  /\ Goto(p, "close")
  /\ UNCHANGED <<storeVars, routes, plan, dirty, cond, built, closed, mine,
                 cacheVars, queryVars>>

\* swappable.set, and routeMu is released.
Swap(p) ==
  /\ pc[p] = "swap"
  /\ live' = mine[p]
  /\ mine' = [mine EXCEPT ![p] = live]
  /\ old' = cond[mine[p]]
  /\ routeMu' = None
  /\ Witnessed(cond[mine[p]])
  /\ Goto(p, "close")
  /\ UNCHANGED <<storeVars, routes, plan, dirty, cond, built, closed,
                 cacheVars, queryVars>>

CloseOld(p) ==
  /\ pc[p] = "close"
  /\ closed' = closed \cup {mine[p]}
  /\ mine' = [mine EXCEPT ![p] = 1]
  /\ Goto(p, "idle")
  /\ UNCHANGED <<storeVars, routeMu, routes, plan, dirty, old, cond, live, built,
                 cacheVars, queryVars, inforce>>
-----------------------------------------------------------------------------
(* A query: Resolver.Middleware, Cache.Middleware, swappable.ServeDNS and   *)
(* Forwarder.Handler, one shared read or write at a time.                   *)

QGoto(q, l) == qpc' = [qpc EXCEPT ![q] = l]

\* Index.Find on the snapshot.  A zone with records answers here; a forwarder
\* or stub zone declines, and the query falls through like an unclaimed name.
Resolve(q) ==
  /\ qpc[q] = "idle"
  /\ \E n \in Names :
       /\ qname' = [qname EXCEPT ![q] = n]
       /\ inforce' = [inforce EXCEPT ![q] = {pick(cond[live], n), pick(old, n)}]
       /\ IF Find(snap, n).type = "primary"
          THEN QGoto(q, "done") /\ qanswer' = [qanswer EXCEPT ![q] = Authoritative]
          ELSE QGoto(q, "epoch") /\ UNCHANGED qanswer
  /\ UNCHANGED <<storeVars, tableVars, cacheVars, pc, qepoch, qleader, qhandler, qroute>>

LoadEpoch(q) ==
  /\ qpc[q] = "epoch"
  /\ qepoch' = [qepoch EXCEPT ![q] = epoch]
  /\ QGoto(q, "get")
  /\ UNCHANGED <<storeVars, tableVars, cacheVars, pc, qname, qleader, qhandler,
                 qroute, qanswer, inforce>>

Get(q) ==
  /\ qpc[q] = "get"
  /\ LET e == cache[qname[q]]
     IN  IF e # None /\ e.fresh
         THEN QGoto(q, "done") /\ qanswer' = [qanswer EXCEPT ![q] = e.route]
         ELSE QGoto(q, "flight") /\ UNCHANGED qanswer
  /\ UNCHANGED <<storeVars, tableVars, cacheVars, pc, qname, qepoch, qleader,
                 qhandler, qroute, inforce>>

Leading(q) == qpc[q] \in {"serve", "pick", "sent"}

\* Mutant: the epoch is left out of the singleflight key.
SameName(q, l) == qname[q] = qname[l]

\* Two queries share a singleflight call: the key is epoch, name (and type).
SameFlight(q, l) == qname[q] = qname[l] /\ qepoch[q] = qepoch[l]

\* singleflight.Do: wait on the call in flight under the key, or lead one.
Do(q) ==
  /\ qpc[q] = "flight"
  /\ LET L == {l \in Queries : Leading(l) /\ SameFlight(q, l)}
     IN  IF L = {} THEN QGoto(q, "serve") /\ UNCHANGED qleader
         ELSE /\ QGoto(q, "wait")
              /\ qleader' = [qleader EXCEPT ![q] = CHOOSE l \in L : TRUE]
  /\ UNCHANGED <<storeVars, tableVars, cacheVars, pc, qname, qepoch, qhandler,
                 qroute, qanswer, inforce>>

LoadHandler(q) ==
  /\ qpc[q] = "serve"
  /\ qhandler' = [qhandler EXCEPT ![q] = live]
  /\ QGoto(q, "pick")
  /\ UNCHANGED <<storeVars, tableVars, cacheVars, pc, qname, qepoch, qleader,
                 qroute, qanswer, inforce>>

Pick(q) ==
  /\ qpc[q] = "pick"
  /\ qroute' = [qroute EXCEPT ![q] = pick(cond[qhandler[q]], qname[q])]
  /\ QGoto(q, "sent")
  /\ UNCHANGED <<storeVars, tableVars, cacheVars, pc, qname, qepoch, qleader,
                 qhandler, qanswer, inforce>>

\* Mutant: the queries collapsed onto the call are not woken.
CallerAlone(q) == {q}

\* The call q leads, and the queries waiting on it.
Callers(q) == {c \in Queries : c = q \/ (qpc[c] = "wait" /\ qleader[c] = q)}

\* Mutant: the epoch is not compared.
putUnchecked(q) ==
  cache' = [cache EXCEPT ![qname[q]] = [route |-> qroute[q], fresh |-> TRUE]]

\* Cache.put: refused when a purge has moved the epoch since it was loaded.
put(q) ==
  IF epoch = qepoch[q]
  THEN cache' = [cache EXCEPT ![qname[q]] = [route |-> qroute[q], fresh |-> TRUE]]
  ELSE UNCHANGED cache

\* An upstream answers.  An answer respTTL will not cache is still delivered.
Answered(q) ==
  /\ qpc[q] = "sent" /\ qroute[q] # {}
  /\ put(q) \/ UNCHANGED cache
  /\ qpc' = [c \in Queries |-> IF c \in Callers(q) THEN "done" ELSE qpc[c]]
  /\ qanswer' = [c \in Queries |-> IF c \in Callers(q) THEN qroute[q] ELSE qanswer[c]]
  /\ UNCHANGED <<storeVars, tableVars, epoch, pc, qname, qepoch, qleader,
                 qhandler, qroute, inforce>>

\* Mutant: the made-up SERVFAIL is cached like an upstream's answer.
FailedCached(q) ==
  /\ qpc[q] \in {"pick", "sent"}
  /\ cache' = [cache EXCEPT ![qname[q]] = [route |-> Servfail, fresh |-> TRUE]]
  /\ qpc' = [c \in Queries |-> IF c \in Callers(q) THEN "failed" ELSE qpc[c]]
  /\ UNCHANGED <<storeVars, tableVars, epoch, pc, qname, qepoch, qleader,
                 qhandler, qroute, qanswer, inforce>>

\* Every upstream failed, or the failure cache answered before any was asked.
Failed(q) ==
  /\ qpc[q] \in {"pick", "sent"}
  /\ qpc' = [c \in Queries |-> IF c \in Callers(q) THEN "failed" ELSE qpc[c]]
  /\ UNCHANGED <<storeVars, tableVars, cacheVars, pc, qname, qepoch, qleader,
                 qhandler, qroute, qanswer, inforce>>

\* The second get: a stale entry is served in place of the failure, a fresh
\* one (put by somebody else meanwhile) is not looked at.
ServeStale(q) ==
  /\ qpc[q] = "failed"
  /\ LET e == cache[qname[q]]
     IN  qanswer' = [qanswer EXCEPT ![q] =
                       IF e # None /\ ~e.fresh THEN e.route ELSE Servfail]
  /\ QGoto(q, "done")
  /\ UNCHANGED <<storeVars, tableVars, cacheVars, pc, qname, qepoch, qleader,
                 qhandler, qroute, inforce>>

\* The client has its answer.
Reply(q) ==
  /\ qpc[q] = "done"
  /\ QGoto(q, "idle")
  /\ qname' = [qname EXCEPT ![q] = None]
  /\ qepoch' = [qepoch EXCEPT ![q] = 0]
  /\ qleader' = [qleader EXCEPT ![q] = q]
  /\ qhandler' = [qhandler EXCEPT ![q] = 1]
  /\ qroute' = [qroute EXCEPT ![q] = None]
  /\ qanswer' = [qanswer EXCEPT ![q] = None]
  /\ inforce' = [inforce EXCEPT ![q] = {}]
  /\ UNCHANGED <<storeVars, tableVars, cacheVars, pc>>

\* Time passes for an entry, or the LRU evicts it: fresh, then stale, then gone.
Age(n) ==
  /\ cache[n] # None
  /\ \/ cache[n].fresh /\ cache' = [cache EXCEPT ![n].fresh = FALSE]
     \/ cache' = [cache EXCEPT ![n] = None]
  /\ UNCHANGED <<storeVars, tableVars, epoch, pc, queryVars, inforce>>

-----------------------------------------------------------------------------
EditorNext == \E p \in Editors :
  \/ WriteZone(p) \/ ReadZones(p) \/ Publish(p) \/ ReloadFails(p)
  \/ LockRoutes(p) \/ Install(p) \/ Purge(p)

ApplierNext == \E p \in Appliers :
  \/ StartApply(p) \/ ReadZones(p) \/ Publish(p) \/ ReloadFails(p)
  \/ Build(p) \/ KeepForwarder(p) \/ LockRoutes(p) \/ Install(p) \/ Purge(p)
  \/ Swap(p) \/ CloseOld(p)

QueryNext == \E q \in Queries :
  \/ Resolve(q) \/ LoadEpoch(q) \/ Get(q) \/ Do(q) \/ LoadHandler(q) \/ Pick(q)
  \/ Answered(q) \/ Failed(q) \/ ServeStale(q) \/ Reply(q)

CacheNext == \E n \in Names : Age(n)

Next == EditorNext \/ ApplierNext \/ QueryNext \/ CacheNext

\* Zone edits only: no settings write replaces the Forwarder.
NextReload == EditorNext \/ QueryNext \/ CacheNext

Spec == Init /\ [][Next]_vars
SpecReload == Init /\ [][NextReload]_vars

\* What the scheduler and the timeouts give.  A goroutine that can run does; a
\* sync.Mutex hands itself to its longest waiter before it can be taken again
\* and again (strong fairness on the two locks); an exchange ends in an answer
\* or a timeout.  No store write, settings write, failure or query is promised.
Progress(p) ==
  /\ WF_vars(Publish(p) \/ Build(p) \/ KeepForwarder(p) \/ Install(p) \/ Purge(p)
               \/ Swap(p) \/ CloseOld(p))
  /\ SF_vars(ReadZones(p)) /\ SF_vars(LockRoutes(p))

Served(q) ==
  WF_vars(LoadEpoch(q) \/ Get(q) \/ Do(q) \/ LoadHandler(q) \/ Pick(q)
            \/ Answered(q) \/ Failed(q) \/ ServeStale(q))

Fairness == (\A p \in Procs : Progress(p)) /\ (\A q \in Queries : Served(q))

FairSpec == Spec /\ Fairness
FairSpecReload == SpecReload /\ Fairness

-----------------------------------------------------------------------------
(* Properties.                                                             *)

StoreTypeOK ==
  /\ store \in [Apexes -> Zone] /\ writes \in 0..MaxWrites
  /\ snap \in [Apexes -> Zone]
  /\ rmu \in Procs \cup {None} /\ missed \in BOOLEAN
  /\ read \in [Procs -> [Apexes -> Zone]]

TableTypeOK ==
  /\ routeMu \in Procs \cup {None}
  /\ routes \in Table /\ plan \in Table /\ old \in Table
  /\ dirty \in SUBSET Apexes
  /\ cond \in [Forwarders -> Table]
  /\ live \in Forwarders /\ built \in Forwarders
  /\ closed \in SUBSET Forwarders /\ mine \in [Procs -> Forwarders]

CacheTypeOK == cache \in [Names -> {None} \cup Entry] /\ epoch \in Nat

ProcTypeOK ==
  pc \in [Procs -> {"idle", "reload", "records", "build", "keep", "lock",
                    "install", "purge", "swap", "close"}]

QueryTypeOK ==
  /\ qpc \in [Queries -> {"idle", "epoch", "get", "flight", "serve", "pick", "sent",
                          "wait", "failed", "done"}]
  /\ qname \in [Queries -> {None} \cup Names]
  /\ qepoch \in [Queries -> Nat] /\ qleader \in [Queries -> Queries]
  /\ qhandler \in [Queries -> Forwarders]
  /\ qroute \in [Queries -> {None} \cup Route]
  /\ qanswer \in [Queries -> {None, Authoritative, Servfail} \cup Route]
  /\ inforce \in [Queries -> SUBSET Route]

\* Every variable keeps its type: in particular no made-up SERVFAIL is ever an
\* entry of the cache (Cache.Middleware puts only what was forwarded).
TypeOK == StoreTypeOK /\ TableTypeOK /\ CacheTypeOK /\ ProcTypeOK /\ QueryTypeOK

\* Once a purge has run, every cached answer came by the route the live table
\* gives its name: "the only entries left beneath a claimed suffix are ones its
\* own route produced" (Resolver.Middleware).  In-flight lookups are what makes
\* it hard: a put can land after the sweep (Cache.Purge, Cache.put).
CacheHoldsLiveRoutes ==
  dirty = {} => \A n \in Names :
    cache[n] # None => cache[n].route = pick(cond[live], n)

\* A client never gets an answer by a route that was not in force for its name
\* at some moment of its own query: neither from the cache, fresh or stale, nor
\* from a singleflight call that was sent before it arrived (Cache.Middleware).
AnswerRouteWasInForce ==
  \A q \in Queries :
    (qpc[q] = "done" /\ qanswer[q] \notin {Authoritative, Servfail}) => qanswer[q] \in inforce[q]

\* When every reload has run its course and none was lost to a store error, the
\* server serves the store: no reload that read early published late
\* (Resolver.Reload), none installed its table on a Forwarder being retired
\* (App.ReloadZones).
QuiescentServesStore ==
  ((\A p \in Procs : pc[p] = "idle") /\ ~missed) =>
    snap = store /\ cond[live] = conditionalRoutes(store)

\* The live table only ever moves to a table built from the served snapshot: a
\* settings write that replaces the Forwarder never exposes the new one's empty
\* table (App.applySettings, "Before it goes live, not after").
LiveTableMovesToPlan ==
  [][cond'[live'] # cond[live] => cond'[live'] = plan]_vars

\* The Forwarder that serves queries is never one Close was called on, with any
\* number of settings writes overlapping (App.applySettings).
LiveNotClosed == live \notin closed

\* Once writes and store errors stop, the live table is the stored zones' for
\* good, however many settings writes go on replacing the Forwarder.
Converges ==
  <>[]~missed => <>[](snap = store /\ cond[live] = conditionalRoutes(store))

\* Every query is answered: no caller of a singleflight call is left behind.
EveryQueryAnswered ==
  \A q \in Queries : (qpc[q] = "epoch") ~> (qpc[q] = "done")
=============================================================================
