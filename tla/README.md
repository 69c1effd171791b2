# dnsaur verification

TLA+ specifications of dnsaur, a DNS server in Go with blocking, conditional
forwarding, authoritative zones, zone transfer, NOTIFY, configuration sync and
a DHCP front end. TLC checks the modules on small instances; TLAPS proves the
theorems of the `*Proofs` modules for every value of the constants.

## The system

A query runs through one pipeline: client registry, query log, filter, zone
resolver, answer cache, forwarder. Everything the pipeline reads is a snapshot
behind an atomic pointer; everything that changes configuration writes the
store, then rebuilds and swaps a snapshot. What is hard lies between the two.

| component | state | operations | talks to |
|---|---|---|---|
| Conditional routing (`app/app.go`, `zones/resolver.go`, `upstream/forwarder.go`) | zone index, routing table per Forwarder, the live Forwarder, `routes` | `ReloadZones`, `installConditional`, `applySettings`, `pick` | store, cache (purge), every query |
| Answer cache (`cache/cache.go`) | entries, epoch, singleflight calls, LRU | get, put, `Purge` | forwarder below, resolver above |
| Upstream forwarder (`upstream/`) | health per upstream, failure cache | `Handler`, `race`, `markResult`, `SetConditional`, `Close` | upstream servers |
| Inbound NOTIFY (`zones/notifyserver.go`) | throttle window and deferred flag per zone, running workers, stop flag | `ServeNotify`, `admit`, `claimDeferred`, `act`, `Run` | refresher |
| Secondary refresh and transfer (`zones/refresh.go`, `transfer.go`, `stub.go`) | slot, back-off per zone; the zone row's serial and stamps | `RefreshDue`, `Refresh`, `Sync`, `Transfer`, `install`, `markChecked` | store, reload, notifier |
| Outbound NOTIFY (`zones/notifier.go`, `notifysend.go`, `store/notifies.go`) | `zone_notifies` rows, wake token | `Pass`, `Reconcile`, `maybeSend`, `Wake` | store, targets |
| Transfer server (`zones/transferserver.go`, `acl.go`) | concurrency limits, last-transfer stamps | AXFR/IXFR answer from a snapshot | store, peers |
| Configuration sync (`confsync/`, `store/bundle.go`) | peer, applied version, pairing code, replica registry | `PullOnce`, `Follow`, `Pair`, `Heartbeat` | store, all reloads, the main |
| Encrypted listeners (`app/serve.go`, `dnssrv/`) | running DoT and DoH listeners, certificate | `reconcileServing`, retry, shutdown | settings |
| DHCP manager (`dhcp/`) | applied configuration's hash, lease table | `Apply`, `Poll`, `Release` | Kea, client registry |
| Filter (`filter/`) | compiled lists, cache files, pauses | `RefreshAll`, `RefreshOne`, `Recompile` | list servers, store |
| Authentication (`auth/`) | users, tokens, throttle | `Login`, `Authenticate`, `Logout` | store |
| Query log and statistics (`qlog/`, `stats/`) | bounded channel, watermark | `emit`, batch flush, drain, roll-up | store |
| Client registry (`clients/`) | matchers, lease lookup | `Reload`, `Lookup` | store, DHCP |
| Zone data, HTTP API, store, start-up, dashboard | | | |

`PROJECT.json` lists every component with what is modelled of it, and every
hazard at its line. The behaviours that make the code hard:

- readers that take several atomic loads one after the other while writers swap
  what they load (routing, cache);
- rows that several writers read, merge and write whole (the zones row);
- notifications that say only "something changed", throttled, deferred, retried
  and recorded durably (both NOTIFY halves);
- serials compared in a circle, millisecond clocks used as versions;
- shutdown while handlers are still starting work;
- store errors and crashes between two writes that belong together;
- whole tables replaced by another box's, under that box's row ids;
- another process (the DHCP engine, a list server, a peer that reads slowly) that
  stops, restarts or answers late.

## Modules

| module | models | composes |
|---|---|---|
| `Serial` | RFC 1982 serials, the wrapping bump | |
| `Routing` | zone write to routing table to query, with the cache and the Forwarder swap | resolver, cache, forwarder, app |
| `NotifyServer` | inbound NOTIFY of one zone down to the transfer | notify server, refresher, transferrer |
| `Secondary` | one secondary zone's row: schedule, check, transfer, PATCH, crash | refresher, transferrer, API, store |
| `Notifier` | outbound NOTIFY of one zone: passes, queue, edits, crash | notifier, store, API |
| `ZoneEdit` | record and zone writes over the API, zone-file import, automatic PTRs, reload, a secondary that pulls | API, store, resolver |
| `TransferServer` | AXFR and IXFR of one zone to several peers | gate, slots, stream, watchdog, notes |
| `TransferService` | abstract: what a peer is promised; `TransferServer` implements it | |
| `ConfigSync` | one box that follows one of two mains | poll loop, export, import, registry, API |
| `DhcpManager`, `DhcpTable` | rows, renders, polls and releases against a DHCP engine, the HA pair; the pure part: address ranges, validation, the lease table | manager, API, store, app, names |
| `Filters` | list downloads, cache directory, compiled rulesets, rules, pauses, an import | refresher, engine, API, store, pull |
| `RoutingProofs`, `NotifyServerProofs`, `SecondaryProofs`, `NotifierProofs`, `TransferServerProofs`, `ConfigSyncProofs`, `DhcpManagerProofs`, `FiltersProofs` | theorems about the module each is named after | |
| `MC*` | constants for TLC | |

One goroutine is one process. A step ends at every atomic load or store, lock,
store statement or transaction, and network exchange; what happens under one
lock with no such access is one step. `pc`-like variables hold the place in the
code. History variables, marked so in the declarations, never guard a step of
the code (in `Secondary`, `stamped` filters behaviours, see below). Several of
them mark a state in which the code is known to give up a guarantee (`torn`,
`raced`, `crossed`, `undone`, `gap`, `unseen`, `lost`, `garbled`, `unsaved`...):
the property then speaks of every other state, its comment names the exception,
and the list under Findings says what happens in the marked ones.

**Routing.** `Editors` write a zone (`WriteZone`) and run `ReloadZones`: take
`rmu`, read the rows, read the records, publish the index; then take `routeMu`,
build the table from the published snapshot, install it on the live Forwarder,
purge the suffixes that changed, remember the table. `Appliers` run the part of
`applySettings` that replaces the Forwarder. A query looks the index up, loads
the epoch, asks the cache, joins or leads a singleflight call, loads the
handler, loads the table, gets an answer or a failure, and puts it if the epoch
has not moved. A cached answer carries the route it came by, which is all the
properties tell apart. TTLs are one nondeterministic ageing step; LRU eviction
is forgetting.

**NotifyServer.** A zone's window is `none`, `open` or `past`; `Elapse` is the
passing of `notifyThrottle`. `late` marks a deferred worker whose window was
replaced by a later one: only for such a worker can `TransferTimeout` end the
wait before the window does. The decisions to refuse a NOTIFY are left out: a
refused NOTIFY changes nothing.

**Secondary.** The row is the set of columns `updateZoneSQL` binds, abstracted
to type, enabled, one column per operator, serial, the two stamps and
`modified_at`; of the snapshot only what decides whether the zone answers is
kept. A pass reads the rows (`ListZones`), decides with the back-off it finds
then (`RefreshDue`), takes or misses the slot (`TakeOrSkip`) and reads the row
again (`ReadRow`): four steps, with forced attempts and PATCHes between any two. Records are named by the serial they were fetched with. A PATCH reads,
merges and writes if `modified_at` has not moved, twice at most. Times are
ticks; a crash may come at any point and keeps only the store. `SameMillis`
says whether two writes may fall into one millisecond; when it is `FALSE` a
write stores a `modified_at` that was never stored before.

**Notifier.** `next_attempt_at` is kept as the time left until it, which keeps
the state finite without bounding the clock. An edit is its two steps: serial
in the store, wake. `heard` is what the target last heard, whether or not the
answer came back.

**ZoneEdit.** `hs[h]` is a request: `ReadRow` takes the zone row, then the records
and the validation, then the write, then `BumpSerial`, the PTRs of the reverse
zone (read, write, bump), and `Reload` in its two reads. A bulk TTL change and
an import compute the serial from the row they read and write row and records
in one transaction. `copy` is a secondary that fetches what is served when the
serial is newer. The reverse zone starts at the last serial before the wrap.

**TransferServer.** A connection looks the zone up once and keeps it. Zones and
questions are numbers into constant tables (`ZoneAt`, `QuestionAt`), which keeps
states small. `decide` is the gate, `batch` the packing of records into
envelopes, a recursive function over the code's loop variables, checked against
what it must carry. The peer reads some envelopes and
may stop for ever; `dog` is the watchdog goroutine. `note` is its critical
section and its write.

**ConfigSync.** `PullOnce` is one statement or request a step, for the box; the
main's export reads table after table while the main goes on writing. Import is
one transaction, with the eviction of rows that hold an id or a unique value the
bundle needs; the two notes of what was applied are separate steps. Follow,
pairing codes, the key both sides share, heartbeats, forgetting and promotion
are actions; the probe is its stamp in the registry and then its read of the
version. Tables are reduced to four: a set of settings, clients with a
unique column, keys, and zones with a reference to a key. The box's secondaries
are transferred meanwhile: an attempt of a zone diffs the records it holds, reads
its row again and commits records and row in one transaction, or, for a zone that
is current, reads the row and writes its stamps, each a step that an import may
come before; a zone may have an attempt under way from one import to another.

**DhcpManager.** `apply` is the render that holds `applyMu`, `poll` the poll
loop, `ops` the handlers. The engine is external: it stops, restarts on its own
configuration, refuses, grants leases, declined ones too, and loses answers or
sends ones that do not decode. `mgr` holds the five
flags `Status` is computed from. Replicas pull what the main publishes and
decide whether they are the standby; one that knows the main by a name only
(outside `Reaching`) never does. `DhcpTable` has the validation of scopes
and reservations and the table that names are answered from, in which an entry
whose scope is gone has no name; addresses are
small numbers and subnets are aligned ranges of them.

**Filters.** `job` is the pass that holds the refresher's mutex, from its first
read to the swap; `waiting` are the passes that queue for it, at most one of a
kind, which loses nothing because a pass reads when it begins. A list's body is
a set of names to block, a set of exceptions and perhaps an ETag. A download is
the request, the rename, the ETag file and the row, each a step. A pause is a
group or, as `None`, everything; it ends at any time. A name is the sequence of
its labels, and an entry matches the names it is a suffix of.

## Runs

| run | bound | shows |
|---|---|---|
| `routing_reload` | 1 editor, 2 queries, 1 suffix, 2 writes | `CacheHoldsLiveRoutes`, `AnswerRouteWasInForce`: no answer of a retired route stays in the cache or reaches a client that arrived after it was retired; `EveryQueryAnswered`, followers of a singleflight call included |
| `routing_tables` | 1 editor, 2 settings writes that overlap, 3 Forwarders | `QuiescentServesStore`, `LiveNotClosed`; `Converges`: once writes and errors stop, the live table is the stored zones' |
| `notify` | 1 handler, 2 workers, a scheduled transfer, 1 edit, serials wrapping | `QuietIsCurrent`, `CopyNeverOlder`, `NoWorkWhenDown`, `EveryNotifySeen`, `ShutdownEnds` |
| `secondary` | a scheduled and a forced attempt, 2 operators, 3 ticks, two PATCHes or one and an edit of the primary | `SerialNamesRecords`, `EditsSurviveTransfers`, `NeverServedPastExpiry`, `RetypedZoneIsLeftAlone`, `ScheduleKeepsItsDistance` |
| `notifier` | 1 target, 2 edits, removed or re-added once, 2 faults | `RecordedWasHeard`, `RoundIsBounded`, `EveryTargetSettles` |
| `zone_edit` | 26 scenarios of two requests, or of one and a failing statement or a crash | `UpToDateMeansCurrent`: the serial tells a secondary of every change; `NoDanglingPTR`; `Propagates`: what is stored reaches the secondary |
| `transfer_server` | 2 connections, 1 slot, 7 zones, 9 questions, 2 asks, 1 reload, 1 fault | `Implements` (refinement), `EnvelopesCarryTheZone`, `NoLateClose`, `EveryAskEnds` |
| `config_sync` | 2 mains, 1 code each, two pairings and one event or one pairing and two events (a write, a forgotten box, a fault) | `LevelMeansEqual`, `TransferStateMatchesRecords`, `EnteredBySpendingACode`, `Converges` |
| `dhcp` | 2 handlers, 2 replicas of which one can reach the main, 2 scopes, 8 scenarios of edits, faults, grants, releases and boxes | `OkMeansInForce`, `PairIsTheEngines`, `ReleasedStaysGone`, `Converges`, `StandbyAgrees` |
| `filters` | 1 group, 2 URLs, 2 list ids, 8 scenarios of operations, pauses, publications, faults, a crash and an import | `EnforcesTheRows`, `RowTellsTheCopy`, `CurrentIsWhatWasServed`, `Propagates` |
| `routing_swap_leak`, `filter_import` | smallest instance that shows it | findings, below |

Every module states its `TypeOK`. That of `Routing` is checked by `routing_reload`
and proved, those of `NotifyServer`, `Secondary`, `Notifier`, `TransferServer` and
`Filters` are proved; the others hold when they are added to the module's cfg.

Why the bounds are enough for the interesting cases: two writes let a route
change and change back while a query is in flight, two queries let one join the
other's call. A serial space of 8 with start 7 wraps at the first edit and has
placeholder serial 1 on the far side of the comparison. Three ticks with
`Expire` 2 are a transfer, a refresh and an expiry. Two attempts per round are a
retry and a give-up. One slot and two connections make one of them find the
house full. Two mains at the same version make the version alone ambiguous, and
their clients hold each other's unique values under swapped ids. A page limit of
1 makes a poll read the leases in several requests. In the runs with scenarios a
variable chosen at the start says how often each kind of event may happen, so
that two kinds meet without all of them multiplying.
Symmetry is used for operators in `secondary`, which the module never tells
apart and which has no liveness property. Deadlock is not checked where the
system may really stop: a server that was shut down, a zone made a primary, and
runs whose requests are used up.

Fairness. Goroutines that can run do (weak fairness of each process, on all its
steps together); no
request, edit, settings write, failure, crash or NOTIFY is ever promised. Locks
(`rmu`, `routeMu`, `applyMu`) and the transfer slot get strong fairness:
`sync.Mutex` hands over to its oldest waiter once that has waited a millisecond,
and blocked channel senders are served in order. Tickers fire: the refresher's,
the notifier's, the poll loops'. The watchdog's context ends
(`TransferTimeout`). A secondary goes on asking. `EveryTargetSettles` and the
`Converges` properties assume that faults are finite, as the bounds do: against
a store that fails for ever nothing converges. `Propagates` of `Filters` assumes a
positive refresh interval, with which the ticker runs; `EveryAskEnds` that the
write of a refusal, which has no watchdog, ends with the peer's connection.

Refinement. `TransferService` has no slots, no envelopes, no watchdog and no
order of checks: a peer asks, the server looks at the zone once, and then the
peer gets that zone whole, its serial, or a refusal for a reason that is true.
The mapping takes a connection that holds a slot for a running transfer, and the
reply to be the zone only once the closing SOA has arrived.

## Findings

Each is a run that TLC refutes, with the line and the sentence of the code or
the documentation it disagrees with in `PROJECT.json`.

1. `routing_swap_leak`: `applySettings` purges before the new Forwarder is live;
   an answer of the old table can be cached after the purge and stays.
2. `filter_import`: a bundle that points a list id at another URL keeps the
   refresh state of the old one; no download starts, and the old copy is enforced
   and reported as the new list until the refresh interval comes round.

Weaker effects met while modelling, without a run of their own; the properties
exempt them by a history variable or a constant, named here.

- Between publishing a snapshot and installing its table, a query for a new
  forwarder zone goes to the default upstreams (`app.go:1174`, against
  `resolver.go:200`); the purge drops the answer.
- `claimDeferred` does not look at the window again, so a deferred pass may
  probe inside one opened meanwhile (`notifyserver.go:658`, against line 36).
- A PATCH accepted between an install's second read and its commit is undone
  (`transfer.go:943`), as line 884 admits (`gap`).
- A PATCH writes back the stamps it read, so it can take back those of a check,
  or of a transfer that changed nothing, that ran meanwhile (`store/zones.go:263`,
  against line 199): the primary is asked early (`undone`).
- A pass decides that a zone is due from rows it read before, and nothing decides
  again once it has the slot: a forced transfer that ends in between is followed
  by an early question to the same primary, a failure by one without its back-off
  (`zones/refresh.go:257` to 312; `crossed`).
- `install` does not make `modified_at` strictly greater, so within one
  millisecond a PATCH can put an old serial over new records (`transfer.go:940`,
  against `store/zones.go:115`; set `SameMillis` to `TRUE` to see
  `SerialNamesRecords` fail).
- A tick's pass can announce a serial the snapshot does not hold yet; the target
  finds the old one and is recorded as told (`notifier.go:474`, against line 188).
- The back-off of a round that gave up delays the next one (`notifier.go:485`,
  against line 30).
- A statement that fails or a crash between a record and its bump, or a bulk
  change or import that overlaps another edit, leaves content a secondary is not
  told of until the next edit (`zonerecords_handlers.go:139`, `:342`,
  `zonefile_handlers.go:376`; `torn`). The import takes the greater of two serials
  as numbers, so a file more than half the number space away moves the zone
  backwards for its secondaries (against the comment at line 355).
- Two handlers that keep the PTRs of one address can leave one dangling
  (`autoptr.go:361`; `raced`, `strayed`).
- Two notes of one zone can reach the row in the other order
  (`transferserver.go:486`).
- Between two mains at the same version, a crash between the two notes of an
  import leaves a box that counts as level and is not (`confsync/replica.go:612`;
  `torn`). A write that passed the managed check before the box began to follow
  is applied after the import (`edited`). A reload that fails after an import is
  reported for one cycle and not repeated (`stale = "failed"`).
- An import that commits between a transfer's second read of its row and the
  commit that binds every column of it is undone (`zones/transfer.go:886`, 943,
  `store/zones.go:426`), and as the version is level nothing imports it again
  before the main's next write (`undone`). Between the read of the records, or the
  probe, and the write, an import that empties the zone leaves it with stamps and
  no records, or makes it a forwarder that has them (`gap`).
- An engine that restarts between two exchanges runs its own configuration, and
  nothing renders until the next change (`docs/architecture.md:1194`, "the
  reconnect re-renders", against `dhcp/manager.go:676`; `unseen`). A restart that
  was noticed is owed "exactly one discovery and one render"
  (`dhcp/manager.go:682`); `takeReturned` clears the debt first, so when that
  render cannot read its rows it is not tried again, the later polls compare an
  equal hash, and the engine stays on the configuration it started with under the
  status ok until the next change (`manager.go:464`; `lost`). An answer to a
  render that does not decode counts as neither refused nor unanswered
  (`dhcp/kea.go:129`): no flag and no hash is set, the published pair is cleared
  (`app/dhcp.go:251`), and the engine may run what was never noted (`garbled`).
- A pair whose
  note failed stays wrong until the next render (`app/dhcp.go:264`; `unsaved`). Two
  scope requests that overlap are validated against each other's past
  (`api/dhcp_handlers.go:206`), and the engine refuses what does not fit.
  A release between a poll's read and its publication comes back until the next
  poll publishes (`during`, `back`).
- A new copy whose ETag is absent, not written or lost to a crash stays beside
  the old ETag, and a 304 then confirms the wrong text (`filter/refresh.go:302`;
  `loose`). A pass that fails leaves the old ruleset until the next one
  (`unbuilt`). A pause whose row could not be written ends at a restart
  (`unsaved`).

## Proofs

Assumptions: the named `ASSUME`s of the modules, which say that constants have
their types and that values meant to be different are. Beyond that: the serial
space is even and has at least four members (`Serial`); the zone is edited fewer
times than half that space in one behaviour (`NotifyServer`, `Notifier`), since
past it "newer" means nothing; a signature that verified names a key
(`TransferServer`); one ETag names one body, and no list or rule has an entry
without labels, which `validDomain` and `RulePattern` refuse (`Filters`); rows
have positive numbers and there are finitely many at the start (`DhcpManager`).
Nothing is assumed about the number of processes, zones, targets, replicas,
groups, leases or faults. The inductive invariants of the interleavings were
checked by TLC before they were proved.

Two kinds of lemma recur. *Serials* (at the head of the modules that use them):
what `Bump` and `Forward` compute in the circle, and that of two serials no
further behind a third than half the circle the one less far behind is the newer.
With it "newer", which is not transitive, becomes an order of distances, and every
argument below about serials is one about distances. *Loops*: a loop of the code
that fills a slice or keeps the best entry is a recursive function here. `Induction`
takes a set for the predicate and follows from the least element of its complement
(`WFMin`); `Iteration` gives the function that the recursion defines; then the
lemma of each loop (`SizeIs`, `FillIs`, `ScanIs`, `KeepIs`, `PageIs`) has the
equation of one pass.

*RoutingProofs* proves `TypeOK`, and from `TypeInv` and `TableInv` the three
table properties (`QuiescentServesStore`, `LiveNotClosed` and
`LiveTableMovesToPlan`: the live table only moves to the one being installed), for the full specification. `TableInv` says who may hold
which lock where, that between two holders of `routeMu` the remembered, the
planned and the live table agree unless a reload has still to run or was lost
to a store error, and that a Forwarder is closed only after it has been
replaced by its builder. It is needed because `QuiescentServesStore` says
nothing about the states in between, which is where every step of the argument
is made.

Its second part proves `CacheHoldsLiveRoutes` and `AnswerRouteWasInForce`
for zone edits without settings writes (`SpecReload`; with them the first is
false, finding 1). `ReloadInv` adds to the above: there is one Forwarder
(`OneForwarder`); between install and purge the epoch has not moved and `old`
is the table before it (`PurgeInv`); every entry came by the route in force or
is about to be purged (`CacheInv`); a query whose epoch is still current holds
a route in force or about to be purged (`FlightInv`); the history of routes in
force contains the current one (`InForceInv`); a follower's leader arrived for
the same name and epoch (`JoinInv`, `WaitInv`). The last is what makes the
second property hold for collapsed queries: epochs are part of the singleflight
key.

*NotifyServerProofs* proves `TypeOK`, which needs `Fetched` (a transfer about to
install holds a copy); `NoWorkWhenDown`, which needs the order of `Run`'s steps
(stop before cancel, cancel before return); `CopyNeverOlder`, from `AgeInv`: the
holder of the slot has fetched since the copy that is served was, so what it
installs is no further behind; and `QuietIsCurrent`, from `ToldInv`: what the
zone was told of is held, or a pass is pending that will fetch it. The hard case
is a NOTIFY deferred by the throttle window: `DeferredInv` says that its window
has a worker that will not be late for it, or a handler about to start one.

*NotifierProofs* proves `TypeOK`, `RecordedWasHeard` and `RoundIsBounded`.
`PassInv` says that the row a pass read is still the target's row, but for the
time left, until the pass has recorded its outcome: the send and the record are
not one step, and both properties compare the record with what was sent.
`HeardInv` bounds how far behind every serial in use lies and puts what the
target heard no further behind than what is recorded or about to be.
`RoundInv` ties the sends of a round to the row's count, which a crash keeps for
every target whose send was recorded.

*SecondaryProofs* proves `TypeOK`, `NeverServedPastExpiry`,
`RetypedZoneIsLeftAlone` and `ScheduleKeepsItsDistance` without a condition, and
`SerialNamesRecords` and `EditsSurviveTransfers` when no two writes of the
row share a millisecond (`~SameMillis`; without it the first is false, see
Findings). `ExpiryInv` says that every row anyone holds (store, snapshot, PATCH,
attempt) carries an expiry that belongs to a contact that has happened.
`GapInv` says that until a PATCH lands in the gap an attempt would commit what
the row has in every column a PATCH writes. `VersionInv` is what optimistic
locking rests on: a row held under the version the store has is the row it would
overwrite. It needs `KeepsInv`, because a commit of the records the zone has
already puts back the version it read. `StampInv`
(the stamps are the last contact's) and `PassInv` carry the schedule's two
distances from the rows a pass read, and the back-off it found, through the slot
to the question it asks: as long as no attempt has ended since (`crossed`) and no
PATCH has put older stamps back (`undone`), what was decided is still true.

*TransferServerProofs* proves `TypeOK`, `NoLateClose`, and that `TransferServer`
implements `TransferService` (`Implements`): initial states map to initial
states, every step to a step of the service or a stutter. `ServerInv` says what a
place in the handler says of the rest of its state (the question and the zone
are held from the lookup on, the gate was passed before the slot, the watchdog
runs only while the zone is streamed) and that the slots taken are exactly the
transfers that run. The centre of the simulation is the lemma that `decide`, the
code's cascade of checks, passes exactly the requests the service calls
entitled. `EnvelopesCarryTheZone` is about `batch`: after every pass of its loop
the envelopes closed so far followed by the current one are the records read so
far, `size` is the current one's size, and every envelope is a single record or
within the budget (`AddBatches`, `BatchCarries`); `ServerInv` then ties the
connection to the zone it was admitted for.

*ConfigSyncProofs* proves `EnteredBySpendingACode`, `TransferStateMatchesRecords`
and `LevelMeansEqual`. For the second, `XferInv` says what an attempt under way
knows: while no import has overtaken it (`fresh`) records it diffed against are
still there, and the row it is about to write back is the zone's, a secondary.
`WritesBack` concludes that such an attempt changes no row, and `StillHolds` that
short of `undone` the box holds what it held.
The last needs three more invariants: the part of a bundle
that has been read is the main's, or the main's version has moved past the
bundle's (`BundleInv`, which is where reading the version first matters); until
both notes are written the import counts as torn and the box holds the bundle
(`NotesInv`); and what is noted of a main is never ahead of it (`LevelInv`), so
a write cannot bring the two to the same number.

*DhcpManagerProofs* proves `PairIsTheEngines` and `OkMeansInForce`. The first
needs `NotedInv` (the answer in the flags is about the render being recorded:
polls that run meanwhile touch neither hash nor refusal). The second needs the
reason why a manager believes its engine is down: `DownInv` says that it found
it so, unless a render is due or the configuration was refused; then `cameBack`
asks for a render whenever such an engine answers, and `RunsInv` and `TookInv`
carry the configuration from the engine's yes to the hash, outside the three cases
of `Blind`.

It also proves `ReleasedStaysGone`. `GoneInv` says that what the table holds at a
released address is reserved and leased to nobody; a release establishes it
(`WithoutIs`), and a poll keeps it because of `StaleInv`: a lease it has read is
one the engine still holds, or its address was released while the poll held what
it had read (`during`), in which case the publication moves it to `back`
(`TableFromIs`). For the table to be a list at all,
the leases read must be ones the engine held, page after page (`LeaseInv`), and
the reservations remembered must be a list of finitely many numbered rows
(`RowsInv`, `MemInv`), through every edit, render and restart. That a name and a
device go to the best entry is `ScanFindsTheBest`: `outranks` is an order, and the
scan's entry is outranked by none it has passed.

*FiltersProofs* proves `TypeOK`, `CurrentIsWhatWasServed`, `RowTellsTheCopy` and
`EnforcesTheRows`, for any number of groups, where the run has one. `CopyInv`
joins what a place in a pass says of its state (`JobInv`: what has been compiled
is the copies of the lists that are done), `EtagInv` (a copy's ETag is its own
except between the rename and the write of the ETag file, or where `loose` says
otherwise), `KindInv` and `TellInv` (the row tells the copy except for the list
whose answer is on disk and not yet in its row). For the last property,
`RowsInv` and `SetsInv` say that the rows a pass read and what it has made of the
groups so far are what the store says now, unless a write has committed whose own
pass is still to begin (`Dirty`): that such a write always asks for a pass is what
makes a read that is stale when it is used harmless. `BuiltInv` and `PauseInv`
carry it to the state in which nothing is owed.

Only model-checked. Liveness (`EveryAskEnds`, `Converges`, `StandbyAgrees`,
`Propagates` and the like): it needs fairness and ENABLED. Of `ZoneEdit`,
`UpToDateMeansCurrent` holds only while a serial moves less than half its space
past the secondary, and a bound on that for every instance would have to count the
PTRs each request causes and restrict the serials of the files imported;
`NoDanglingPTR` is about sorted lists of claims (`SetToSortSeq`), which none of
the lemmas above reach. `TypeOK` of `ConfigSync` and `DhcpManager`: only the shapes
the proofs need are proved.

## Plan

1. Done: `Routing`, `NotifyServer` with their proofs, `Secondary`, `Notifier`,
   `ConfigSync`, `ZoneEdit`, `TransferServer` with its refinement, `DhcpManager`,
   `Filters`.
2. Done: proofs of the safety properties of all of these but `ZoneEdit`, and of
   the refinement. Next: `UpToDateMeansCurrent` and `NoDanglingPTR` of `ZoneEdit`.
3. Then, if more is modelled: the listeners' reconcile and retry (`app/serve.go`),
   the Forwarder's health and failure cache, sessions and their renewal, the query
   log's drain.

## Not modelled

Answering from records, the syntax of records, zone files, filter lists, DHCP
options and host names: pure functions over their input that keep no state,
covered by unit tests. Regular expressions are sets of names. TSIG, TLS and HTTP
transports: libraries. SQL dialects: a statement or transaction is one step.
Authentication, the query log, statistics and the client registry: each is a row
or a channel with one writer. The encrypted listeners: one mutex around the
reconcile. The Forwarder's health and failure cache: the clock orders and
suppresses upstreams, no property here depends on it. Creating and cloning a
zone, zone-file export and dry runs, status views: they read or they write a row
nobody else knows yet. Configuration file and start-up: sequential. The dashboard
holds no authoritative state. Several primaries of one zone, of which a lagging
one may be asked second, are abstracted to one, and pauses of a single client to
those of its group. In `Filters`, a copy that cannot be read back after it was
just written, and a 304 whose copy somebody deleted from the cache directory, need
a failing disk or a hand outside the program. `loadPauses` is one step: it runs at
start-up and on a managed box, where no pause is accepted.
