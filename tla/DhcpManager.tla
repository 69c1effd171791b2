---------------------------- MODULE DhcpManager ----------------------------
(***************************************************************************)
(* The DHCP side of a main (dhcp/manager.go, dhcp/kea.go, app/dhcp.go,     *)
(* api/dhcp_handlers.go, store/dhcp.go).                                   *)
(*                                                                         *)
(* dnsaur owns a configuration, scopes and reservations, and renders it to *)
(* a DHCP engine that owns the leases.  The engine is another process: it  *)
(* stops, comes back on the configuration it starts with, refuses what it  *)
(* cannot run, and its answers are lost.  A poll reads the leases into a   *)
(* table and renders what has changed; handlers write rows and render; a   *)
(* release takes a lease back.  The main also chooses the replica that is  *)
(* its engine's standby and publishes the pair the engine accepted.        *)
(***************************************************************************)
EXTENDS DhcpTable, FiniteSetsExt, Functions

CONSTANTS
  Operators,     \* handlers that may run at once, numbered
  Replicas,      \* instance ids of the other boxes, numbers
  Reaching,      \* the ones that know the main's DNS by an address
  ScopeBodies,   \* the scopes a request may carry
  ResBodies,     \* the reservations a request may carry
  LeaseBodies,   \* the leases the engine may grant
  StartScopes, StartReservations,   \* the rows the run starts with
  LocalAddrs,    \* this host's own addresses
  PageLimit,     \* leasePageLimit
  Budgets        \* bounds: what may happen in one behaviour, see Init

\* A row's number is its id, and a table has finitely many.
Numbered(f) == IsFiniteSet(DOMAIN f) /\ DOMAIN f \subseteq Nat \ {0}

ASSUME DhcpAssumption ==
  /\ Numbered(StartReservations) /\ \A l \in LeaseBodies : l.ip \in Nat /\ l.expires \in Nat
  /\ Replicas \cup Operators \subseteq Nat \ {0} /\ Reaching \subseteq Replicas /\ PageLimit \in Nat \ {0}
  /\ Budgets \subseteq [host: BOOLEAN, edits: Nat, releases: Nat, grants: Nat, boxes: Nat, faults: Nat]

VARIABLES
  db,        \* dhcp_scopes and dhcp_reservations
  registry,  \* what the main knows of a replica
  pair,      \* dhcp.ha_standby, None when there is no pair
  boxes,     \* whether a replica has paired, what it last pulled, whether it was refused
  kea,       \* the engine: up, the configuration it runs, the leases it holds
  mgr,       \* the manager's flags, its hash and the inputs it remembers
  table,     \* the lease table
  view,      \* the scopes the names stage last read
  apply,     \* the render that holds applyMu
  poll,      \* where the poll loop is
  ops,       \* where every handler is
  left,      \* what is left of the budget
  unseen,    \* history: the engine restarted and nothing noticed
  lost,      \* history: a render the engine was owed could not read its rows
  garbled,   \* history: the last answer to a config-set could not be read
  unsaved,   \* history: recording the pair failed
  released,  \* history: addresses released and not leased since
  during,    \* history: the ones released while a poll held what it had read
  back       \* history: the ones the last poll published all the same

rows == <<db, registry, pair, boxes>>
memory == <<mgr, table, view, apply, poll, ops>>
forgone == <<released, during, back>>
history == <<unseen, lost, garbled, unsaved, forgone>>
vars == <<rows, kea, memory, left, history>>

Spend(what) == left[what] > 0 /\ left' = [left EXCEPT ![what] = @ - 1]

Idle == [at |-> "idle"]
StartUp == [own |-> TRUE]    \* the configuration an engine starts with

\* NewManager: nothing has answered yet, and there is no error to show.
NewManager == [down |-> TRUE, downErr |-> FALSE, returned |-> FALSE, applyErr |-> FALSE,
               pollErr |-> FALSE, hash |-> None, known |-> FALSE, mem |-> [scopes |-> {}, res |-> <<>>]]

\* Start discovers, renders and polls.
Started == [at |-> "discover"]

Init ==
  /\ db = [scopes |-> StartScopes, res |-> StartReservations]
  /\ registry = [x \in Replicas |-> "absent"] /\ pair = None
  /\ boxes = [x \in Replicas |-> [follows |-> FALSE, pair |-> None, refused |-> FALSE]]
  /\ mgr = NewManager /\ table = <<>> /\ view = StartScopes
  /\ apply = Idle /\ poll = Started /\ ops = [o \in Operators |-> Idle]
  /\ left \in Budgets
  /\ kea \in [up: IF left.faults = 0 THEN {TRUE} ELSE BOOLEAN, running: {StartUp}, leases: {{}}]
  /\ unseen = FALSE /\ lost = FALSE /\ garbled = FALSE /\ unsaved = FALSE
  /\ released = {} /\ during = {} /\ back = {}

-----------------------------------------------------------------------------
(* What a configuration renders to.                                        *)

\* mainPair: the smallest replica that is not stale.  A replica that runs no
\* engine or has no address counts as stale.
mainPair == LET fit == {x \in Replicas : registry[x] = "fresh"} IN IF fit = {} THEN None ELSE Min(fit)

RenderInput == [scopes |-> db.scopes, res |-> db.res, standby |-> mainPair]

\* The rows in id order.
InOrder(f) ==
  LET n == Max(DOMAIN f \cup {0}) IN Keep([i \in 1..n |-> IF i \in DOMAIN f THEN f[i] ELSE None], DOMAIN f)

\* A listener with no host of its own names no peer, and needs a local
\* address inside every scope to hand out as its resolver.
Buildable(in) ==
  left.host \/ (in.standby = None /\ \A s \in DOMAIN in.scopes : in.scopes[s].enabled =>
                   \E a \in LocalAddrs : Contains4(in.scopes[s].net, a))

\* Disabled scopes and their reservations are left out.
renderSubnets(in) == RestrictValues(in.scopes, LAMBDA s : s.enabled)
renderReservations(in, on) == RestrictValues(in.res, LAMBDA r : r.scope \in DOMAIN on)

\* The engine's version, when known, decides the syntax.
Render(in, known) ==
  LET on == renderSubnets(in) IN
  [subnets |-> on, res |-> renderReservations(in, on),
   standby |-> in.standby, known |-> known]

\* The engine: an option it does not know, or the older syntax.
Refuses(cfg) == ~cfg.known \/ \E s \in DOMAIN cfg.subnets : cfg.subnets[s].odd

-----------------------------------------------------------------------------
(* The manager's flags: one owner and one way out for each.                *)

\* An engine something failed to reach is owed a discovery and a render.
cameBack(m) == IF m.down /\ m.downErr THEN [m EXCEPT !.returned = TRUE] ELSE m

unreachable(m) == [m EXCEPT !.down = TRUE, !.downErr = TRUE]
refusedConfig(m) == [cameBack(m) EXCEPT !.down = FALSE, !.downErr = FALSE, !.applyErr = TRUE]
accepted(m) == [m EXCEPT !.down = FALSE, !.downErr = FALSE, !.applyErr = FALSE]
refuse(m) == [m EXCEPT !.applyErr = TRUE]

\* Mutant: a poll that reaches the engine clears a refusal too.
polledClears(m) == [cameBack(m) EXCEPT !.down = FALSE, !.downErr = FALSE, !.pollErr = FALSE, !.applyErr = FALSE]

polled(m) == [cameBack(m) EXCEPT !.down = FALSE, !.downErr = FALSE, !.pollErr = FALSE]
refusedPoll(m) == [cameBack(m) EXCEPT !.down = FALSE, !.downErr = FALSE, !.pollErr = TRUE]

Status == IF mgr.applyErr THEN "config rejected" ELSE IF mgr.down THEN "unreachable" ELSE "ok"

-----------------------------------------------------------------------------
(* A render, under applyMu: who asked, what was read, what the engine said.*)

Poller == 0
Actors == Operators \cup {Poller}
At(who) == IF who = Poller THEN poll.at ELSE ops[who].at
Input(who) == IF who = Poller THEN poll.in ELSE ops[who].in

Return(who) ==
  IF who = Poller THEN poll' = Idle /\ UNCHANGED ops
  ELSE ops' = [ops EXCEPT ![who] = Idle] /\ UNCHANGED poll

\* What a render or a poll keeps of its input for the next poll's table.
remember(in) == [scopes |-> DOMAIN in.scopes, res |-> InOrder(in.res)]

\* build remembers the input and renders it; what cannot be built is refused
\* and the engine is not asked.
Build(who, in) ==
  /\ mgr' = LET m == [mgr EXCEPT !.mem = remember(in)] IN IF Buildable(in) THEN m ELSE refuse(m)
  /\ apply' = [at |-> IF Buildable(in) THEN "set" ELSE "record", who |-> who, in |-> in,
               cfg |-> Render(in, mgr.known), reply |-> "refused", fresh |-> TRUE]

Apply(who) ==
  /\ At(who) = "apply" /\ apply = Idle
  /\ Build(who, RenderInput)
  /\ UNCHANGED <<rows, kea, table, view, poll, ops, left, history>>

\* Apply returns an error when the rows cannot be read.  The poller's render is
\* the one a reconnect, or a start, is owed, and nothing owes it again.
ApplyUnread(who) ==
  /\ At(who) = "apply" /\ apply = Idle /\ Spend("faults")
  /\ lost' = (lost \/ who = Poller) /\ Return(who)
  /\ UNCHANGED <<rows, kea, mgr, table, view, apply, unseen, garbled, unsaved, forgone>>

\* The comparison and the render are one critical section; the input was
\* read before it.
ApplyIfChanged(who) ==
  /\ At(who) = "ifchanged" /\ apply = Idle
  /\ LET in == Input(who) IN
     IF Buildable(in) /\ Render(in, mgr.known) = mgr.hash
     THEN mgr' = [mgr EXCEPT !.mem = remember(in)] /\ Return(who) /\ UNCHANGED apply
     ELSE Build(who, in) /\ UNCHANGED <<poll, ops>>
  /\ UNCHANGED <<rows, kea, table, view, left, history>>

\* config-set reaches the engine, which takes it, refuses it or is not there.
ConfigSet ==
  /\ apply.at = "set"
  /\ IF ~kea.up THEN apply' = [apply EXCEPT !.at = "reply", !.reply = "unanswered"] /\ UNCHANGED <<kea, unseen, lost>>
     ELSE IF Refuses(apply.cfg) THEN apply' = [apply EXCEPT !.at = "reply", !.reply = "refused"] /\ UNCHANGED <<kea, unseen, lost>>
     ELSE /\ kea' = [kea EXCEPT !.running = apply.cfg] /\ unseen' = FALSE /\ lost' = FALSE
          /\ apply' = [apply EXCEPT !.at = "reply", !.reply = "ok"]
  /\ UNCHANGED <<rows, mgr, table, view, poll, ops, left, garbled, unsaved, forgone>>

\* The answer to a config-set is lost, to a deadline or the engine dying, or it
\* does not decode.
ReplyLost ==
  /\ apply.at = "reply" /\ apply.reply \in {"ok", "refused"} /\ Spend("faults")
  /\ \E how \in {"unanswered", "garbled"} : apply' = [apply EXCEPT !.reply = how]
  /\ UNCHANGED <<rows, kea, mgr, table, view, poll, ops, history>>

\* hash is what the engine was last given, accepted or refused.  An answer that
\* does not decode is neither, and sets nothing.
send(m, a) ==
  CASE a.reply = "ok"         -> [accepted(m) EXCEPT !.hash = a.cfg]
    [] a.reply = "refused"    -> [refusedConfig(m) EXCEPT !.hash = a.cfg]
    [] a.reply = "unanswered" -> unreachable(m)
    [] a.reply = "garbled"    -> m

\* An acceptance noted after the engine has gone again hides that it went.
Reply ==
  /\ apply.at = "reply"
  /\ mgr' = send(mgr, apply)
  /\ apply' = [apply EXCEPT !.at = "record"]
  /\ unseen' = (unseen \/ (apply.reply = "ok" /\ ~apply.fresh))
  /\ garbled' = (apply.reply = "garbled" \/ (garbled /\ apply.reply = "unanswered"))
  /\ UNCHANGED <<rows, kea, table, view, poll, ops, left, lost, unsaved, forgone>>

\* Mutant: a render nothing took a view of clears the pair.
recordHAPairAlways(a) == IF a.reply = "ok" THEN a.cfg.standby ELSE None

\* The pair the engine accepted, none when it refused or said something else.
recordHAPair(a) ==
  CASE a.reply = "ok"         -> a.cfg.standby
    [] a.reply \in {"refused", "garbled"} -> None
    [] a.reply = "unanswered" -> pair

Rendered(saved) ==
  /\ apply.at = "record"
  /\ IF saved THEN pair' = recordHAPair(apply) /\ UNCHANGED left
     ELSE Spend("faults") /\ UNCHANGED pair
  /\ unsaved' = ((unsaved /\ apply.reply = "unanswered") \/ ~saved)
  /\ apply' = Idle /\ Return(apply.who)
  /\ UNCHANGED <<db, registry, boxes, kea, mgr, table, view, unseen, lost, garbled, forgone>>

-----------------------------------------------------------------------------
(* The poll loop.                                                          *)

discover(at) ==
  /\ poll.at = "discover"
  /\ poll' = [at |-> at]
  /\ mgr' = [mgr EXCEPT !.known = kea.up]
  /\ UNCHANGED <<rows, kea, table, view, apply, ops, left, history>>

\* lease4-get-page: the next leases by address.
First(leases) == CHOOSE l \in leases : \A k \in leases : l.ip <= k.ip
LeasePage(from) ==
  LET after(got) == {l \in kea.leases : l.ip > (IF got = <<>> THEN from ELSE Last(got).ip)}
      page[i \in 0..PageLimit] ==
        IF i = 0 THEN <<>>
        ELSE LET got == page[i - 1] IN IF after(got) = {} THEN got ELSE Append(got, First(after(got)))
  IN page[PageLimit]

\* Mutant: a page that is exactly full is the last one.
nextPageEnds(page) == 0

\* A full page may have another behind it.
nextPage(page) == IF Len(page) >= PageLimit THEN page[Len(page)].ip ELSE 0

\* leases: page after page until one is not full.
Poll ==
  /\ poll.at \in {"idle", "page"}
  /\ LET got == IF poll.at = "page" THEN poll.got ELSE <<>>
         page == LeasePage(IF poll.at = "page" THEN poll.from ELSE 0) IN
     IF kea.up
     THEN /\ poll' = [at |-> IF nextPage(page) # 0 THEN "page" ELSE "config", from |-> nextPage(page), got |-> got \o page]
          /\ UNCHANGED mgr
     ELSE poll' = Idle /\ mgr' = unreachable(mgr)
  /\ during' = IF poll.at = "page" THEN during ELSE {}
  /\ UNCHANGED <<rows, kea, table, view, apply, ops, left, unseen, lost, garbled, unsaved, released, back>>

\* The engine answers a page with a no.
pollFailed ==
  /\ poll.at \in {"idle", "page"} /\ kea.up /\ Spend("faults")
  /\ poll' = Idle /\ mgr' = refusedPoll(mgr)
  /\ UNCHANGED <<rows, kea, table, view, apply, ops, history>>

\* config: the rows now, or the ones last read.
config(read) ==
  /\ poll.at = "config"
  /\ IF read THEN mgr' = [mgr EXCEPT !.mem = remember(RenderInput)] /\ UNCHANGED left
     ELSE Spend("faults") /\ UNCHANGED mgr
  /\ poll' = [at |-> "publish", got |-> poll.got, in |-> RenderInput, read |-> read]
  /\ UNCHANGED <<rows, kea, table, view, apply, ops, history>>

\* A release since the first of the leases was read may be undone until the
\* next poll.
Publish ==
  /\ poll.at = "publish"
  /\ table' = tableFrom(poll.got, mgr.mem)
  /\ poll' = [poll EXCEPT !.at = "settle"]
  /\ back' = during /\ during' = {}
  /\ UNCHANGED <<rows, kea, mgr, view, apply, ops, left, unseen, lost, garbled, unsaved, released>>

\* The names stage subscribes, and re-reads the scopes.
notify == view' = db.scopes

\* polled, notify, then the render that is owed or the one that has changed.
Settle ==
  /\ poll.at = "settle"
  /\ notify
  /\ LET m == polled(mgr) IN
     /\ mgr' = [m EXCEPT !.returned = FALSE]
     /\ poll' = IF m.returned THEN Started
                ELSE IF poll.read THEN [at |-> "ifchanged", in |-> poll.in] ELSE Idle
  /\ UNCHANGED <<rows, kea, table, apply, ops, left, history>>

-----------------------------------------------------------------------------
(* The handlers.                                                           *)

\* Handlers are alike: the first free one serves the next request.
Free(o) == ops[o] = Idle /\ \A p \in Operators : p < o => ops[p] # Idle

NextId(f) == Max(DOMAIN f \cup {0}) + 1

\* What a request asks for, validated against the rows it read.
ScopeCreate == {[on |-> "scope", id |-> NextId(db.scopes), row |-> s, new |-> TRUE] :
                  s \in {b \in ScopeBodies : ValidateScope(0, b, db.scopes)}}

Stranded(id, s) == <<db.scopes[id].net, db.scopes[id].gateway>> # <<s.net, s.gateway>>

ScopePatch == {[on |-> "scope", id |-> id, row |-> s, new |-> FALSE] : id \in DOMAIN db.scopes, s \in ScopeBodies}
ScopePatchAllowed(e) ==
  /\ ValidateScope(e.id, e.row, db.scopes)
  /\ Stranded(e.id, e.row) => \A r \in DOMAIN db.res : db.res[r].scope = e.id =>
                                ValidateReservation(r, db.res[r], e.row, db.res)

ReservationEdit == {[on |-> "res", id |-> NextId(db.res), row |-> r, new |-> TRUE] : r \in ResBodies}
                   \cup {[on |-> "res", id |-> id, row |-> r, new |-> FALSE] : id \in DOMAIN db.res, r \in ResBodies}

\* handleDHCPLeaseReserve takes the row from the table's entry.
LeaseReserve == {[on |-> "res", id |-> NextId(db.res), new |-> TRUE,
                  row |-> [scope |-> e.scope, mac |-> e.mac, ip |-> e.ip, host |-> e.host]] :
                   e \in {table[i] : i \in DOMAIN table}}

ReservationAllowed(e) ==
  /\ e.row.scope \in DOMAIN db.scopes
  /\ e.new \/ db.res[e.id].scope = e.row.scope
  /\ ValidateReservation(IF e.new THEN 0 ELSE e.id, e.row, db.scopes[e.row.scope], db.res)

ScopeDelete == {[on |-> "noscope", id |-> id] : id \in DOMAIN db.scopes}
ReservationDelete == {[on |-> "nores", id |-> id] : id \in DOMAIN db.res}

Requests == ScopeCreate \cup {e \in ScopePatch : ScopePatchAllowed(e)}
            \cup {e \in ReservationEdit \cup LeaseReserve : ReservationAllowed(e)}
            \cup ScopeDelete \cup ReservationDelete

Validated(o) ==
  /\ Free(o) /\ Spend("edits")
  /\ \E e \in Requests : ops' = [ops EXCEPT ![o] = [at |-> "write", edit |-> e]]
  /\ UNCHANGED <<rows, kea, mgr, table, view, apply, poll, history>>

\* The database's own rules: the row is there, its scope is, and no other row
\* of the scope has its hardware address or its address.
Storable(e) ==
  CASE e.on = "scope"   -> e.new \/ e.id \in DOMAIN db.scopes
    [] e.on = "res"     -> /\ e.new \/ e.id \in DOMAIN db.res
                           /\ e.row.scope \in DOMAIN db.scopes
                           /\ \A r \in DOMAIN db.res \ (IF e.new THEN {} ELSE {e.id}) :
                                db.res[r].scope = e.row.scope => db.res[r].mac # e.row.mac /\ db.res[r].ip # e.row.ip
    [] e.on = "noscope" -> e.id \in DOMAIN db.scopes
    [] e.on = "nores"   -> e.id \in DOMAIN db.res

Put(f, e) == LET id == IF e.new THEN NextId(f) ELSE e.id
             IN [i \in DOMAIN f \cup {id} |-> IF i = id THEN e.row ELSE f[i]]
Without(f, id) == RestrictDomain(f, LAMBDA i : i # id)

\* DeleteScope takes the scope's reservations in the same transaction.
Stored(e) ==
  CASE e.on = "scope"   -> [db EXCEPT !.scopes = Put(@, e)]
    [] e.on = "res"     -> [db EXCEPT !.res = Put(@, e)]
    [] e.on = "noscope" -> [scopes |-> Without(db.scopes, e.id),
                            res |-> RestrictValues(db.res, LAMBDA r : r.scope # e.id)]
    [] e.on = "nores"   -> [db EXCEPT !.res = Without(@, e.id)]

\* A write is followed by a render, which outlives the request.
applyDHCP == [at |-> "apply"]

Store(o) ==
  /\ ops[o].at = "write"
  /\ IF Storable(ops[o].edit)
     THEN db' = Stored(ops[o].edit) /\ ops' = [ops EXCEPT ![o] = applyDHCP]
     ELSE UNCHANGED db /\ ops' = [ops EXCEPT ![o] = Idle]
  /\ UNCHANGED <<registry, pair, boxes, kea, mgr, table, view, apply, poll, left, history>>

\* POST /dhcp/apply, and the settings watcher after a settings write.
ApplyAgain(o) ==
  /\ Free(o) /\ Spend("edits")
  /\ ops' = [ops EXCEPT ![o] = applyDHCP]
  /\ UNCHANGED <<rows, kea, mgr, table, view, apply, poll, history>>

reconcileDHCP(o) ==
  /\ Free(o) /\ Spend("edits")
  /\ ops' = [ops EXCEPT ![o] = [at |-> "ifchanged", in |-> RenderInput]]
  /\ UNCHANGED <<rows, kea, mgr, table, view, apply, poll, history>>

\* A poll holds leases it has read and not published.
Reading == poll.at \in {"page", "config", "publish"}

\* DELETE /dhcp/leases/{ip}: the engine first, then the table.
Release(o) ==
  /\ Free(o) /\ kea.up /\ Spend("releases")
  /\ \E l \in kea.leases :
       /\ kea' = [kea EXCEPT !.leases = @ \ {l}]
       /\ ops' = [ops EXCEPT ![o] = [at |-> "released", ip |-> l.ip]]
  /\ UNCHANGED <<rows, mgr, table, view, apply, poll, history>>

ReleaseTable(o) ==
  /\ ops[o].at = "released"
  /\ table' = without(table, ops[o].ip)
  /\ notify
  /\ released' = IF \E l \in kea.leases : l.ip = ops[o].ip THEN released ELSE released \cup {ops[o].ip}
  /\ during' = IF Reading THEN during \cup {ops[o].ip} ELSE during
  /\ back' = back \ {ops[o].ip}
  /\ ops' = [ops EXCEPT ![o] = Idle]
  /\ UNCHANGED <<rows, kea, mgr, apply, poll, left, unseen, lost, garbled, unsaved>>

-----------------------------------------------------------------------------
(* The engine, the other boxes and the process itself.                     *)

Grant ==
  /\ kea.up /\ Spend("grants")
  /\ \E l \in LeaseBodies \ kea.leases :
       /\ kea' = [kea EXCEPT !.leases = {k \in @ : k.ip # l.ip} \cup {l}]
       /\ released' = released \ {l.ip}
  /\ UNCHANGED <<rows, memory, unseen, lost, garbled, unsaved, during, back>>

EngineStops ==
  /\ kea.up /\ Spend("faults")
  /\ kea' = [kea EXCEPT !.up = FALSE]
  /\ apply' = IF apply.at = "reply" THEN [apply EXCEPT !.fresh = FALSE] ELSE apply
  /\ UNCHANGED <<rows, mgr, table, view, poll, ops, history>>

\* Its leases come back from the memfile, its configuration does not.
EngineStarts ==
  /\ ~kea.up
  /\ kea' = [kea EXCEPT !.up = TRUE, !.running = StartUp]
  /\ unseen' = (unseen \/ ~mgr.down)
  /\ UNCHANGED <<rows, memory, left, lost, garbled, unsaved, forgone>>

\* A replica pairs, goes stale, or is forgotten.
BoxChanges(x) ==
  /\ Spend("boxes")
  /\ \E s \in {"absent", "fresh", "stale"} \ {registry[x]} : registry' = [registry EXCEPT ![x] = s]
  /\ boxes' = [boxes EXCEPT ![x].follows = TRUE]
  /\ UNCHANGED <<db, pair, kea, memory, history>>

\* A pull carries the pair; a forgotten box's token is refused.
Pull(x) ==
  /\ boxes[x].follows
  /\ boxes' = [boxes EXCEPT ![x] = IF registry[x] = "absent" THEN [@ EXCEPT !.refused = TRUE]
                                   ELSE [@ EXCEPT !.pair = pair, !.refused = FALSE]]
  /\ boxes' # boxes
  /\ UNCHANGED <<db, registry, pair, kea, memory, left, history>>

\* Mutant: a standby whose token is refused goes on rendering the pair.
replicaPairKept(x) == boxes[x].pair = x /\ x \in Reaching

\* Whether a replica renders itself as the standby: the main named it, takes
\* its token, and has an address here.  A bundle that names the standby names
\* the primary, the two are written together.
replicaPair(x) == boxes[x].pair = x /\ ~boxes[x].refused /\ x \in Reaching

Restart ==
  /\ Spend("faults")
  /\ mgr' = NewManager /\ table' = <<>> /\ view' = db.scopes /\ apply' = Idle /\ poll' = Started
  /\ ops' = [o \in Operators |-> Idle]
  /\ unseen' = FALSE /\ lost' = FALSE /\ garbled' = FALSE /\ unsaved' = FALSE
  /\ during' = {} /\ back' = {}
  /\ UNCHANGED <<rows, kea, released>>

-----------------------------------------------------------------------------

RenderStep(who) == Apply(who) \/ ApplyIfChanged(who)
RenderReply == ConfigSet \/ Reply \/ Rendered(TRUE)
PollStep == discover("apply") \/ Poll \/ config(TRUE) \/ Publish \/ Settle
HandlerStep(o) == Store(o) \/ ReleaseTable(o)

Next ==
  \/ \E who \in Actors : RenderStep(who) \/ ApplyUnread(who)
  \/ RenderReply \/ ReplyLost \/ Rendered(FALSE)
  \/ PollStep \/ pollFailed \/ config(FALSE)
  \/ \E o \in Operators : HandlerStep(o) \/ Validated(o) \/ ApplyAgain(o) \/ reconcileDHCP(o) \/ Release(o)
  \/ Grant \/ EngineStops \/ EngineStarts \/ Restart
  \/ \E x \in Replicas : BoxChanges(x) \/ Pull(x)

Spec == Init /\ [][Next]_vars

\* The loop's timer always fires, the poller and the handlers are goroutines
\* that run on, a mutex is handed to whoever waits, and a replica pulls every
\* interval.  Nothing makes the engine start, an operator act or a lease end.
Fairness ==
  /\ \A who \in Actors : SF_vars(RenderStep(who))
  /\ WF_vars(RenderReply) /\ WF_vars(PollStep)
  /\ \A o \in Operators : WF_vars(HandlerStep(o))
  /\ \A x \in Replicas : WF_vars(Pull(x))
FairSpec == Spec /\ Fairness

-----------------------------------------------------------------------------
(* Properties.                                                             *)

Flags == {"down", "downErr", "returned", "applyErr", "pollErr", "known"}

\* Types of the rows, the manager's flags, the table and every process's place.
TypeOK ==
  /\ DOMAIN db = {"scopes", "res"} /\ DOMAIN mgr = Flags \cup {"hash", "mem"}
  /\ \A f \in Flags : mgr[f] \in BOOLEAN
  /\ pair \in Replicas \cup {None}
  /\ registry \in [Replicas -> {"absent", "fresh", "stale"}]
  /\ poll.at \in {"idle", "discover", "apply", "page", "config", "publish", "settle", "ifchanged"}
  /\ apply.at \in {"idle", "set", "reply", "record"}
  /\ \A o \in Operators : ops[o].at \in {"idle", "write", "apply", "ifchanged", "released"}
  /\ \A i \in DOMAIN table : table[i].expires \in Nat

Owed == mgr.returned \/ poll.at \in {"discover", "apply"} \/ apply # Idle

\* What the manager has no way to know of the engine: it restarted between two
\* exchanges; the one render a noticed restart is owed could not read its rows
\* and is not owed again (takeReturned clears the debt before it is paid, so
\* "owed exactly one discovery and one render" does not hold of that failure);
\* the last answer did not decode, so the engine may run what was never noted.
Blind == unseen \/ lost \/ garbled

\* "ok" means that the configuration the manager last gave is in force: the
\* engine runs it, or the manager owes it a render, or it is one of the three
\* things Blind lists (manager.go: the comment on down, applyErr and pollErr).
OkMeansInForce == Status = "ok" /\ kea.up /\ ~Owed /\ ~Blind => kea.running = mgr.hash

\* The pair the main publishes is the one in the configuration its engine
\* last answered for, none when that was refused or when the last answer could
\* not be read, and stays so while the engine is silent (app/dhcp.go
\* recordHAPair).
PairIsTheEngines ==
  apply = Idle /\ mgr.hash # None /\ ~unsaved =>
    pair = IF mgr.applyErr \/ garbled THEN None ELSE mgr.hash.standby

\* An address the operator released is not answered with the name of the
\* device that held it, unless a reservation keeps the name, until it is leased
\* again; and the name and the device go to the best of the entries left, an
\* entry whose scope is gone having no name (manager.go Release, leases.go
\* without, newTable).  A poll that read the lease before the release may put
\* it back when it publishes: such an address is exempt until the next poll
\* publishes, and no longer.
ReleasedStaysGone ==
  /\ \A ip \in released \ back : LET held == {i \in DOMAIN table : table[i].ip = ip} IN
       /\ \A i \in held : table[i].reserved /\ table[i].expires = 0
       /\ reverse(table, ip, view, 0) \in {None} \cup {table[i].host : i \in held}
  /\ \A i \in DOMAIN table :
       /\ ~outranks(table[i], table[ByMAC(table, table[i].mac)])
       /\ table[i].name # None => \E j \in DOMAIN table :
            /\ table[j].name = table[i].name /\ ~outranks(table[i], table[j])
            /\ forward(table, table[i].name, 0) = table[j].ip

InForce == \/ kea.running = Render(RenderInput, TRUE)
           \/ Status = "config rejected"
CurrentTable ==
  table = tableFrom(SetToSortSeq(kea.leases, LAMBDA a, b : a.ip < b.ip), remember(RenderInput))
\* Once nothing more happens and the engine stays up, the table is what the
\* engine holds and the engine runs what the rows render to, or the status
\* says it would not (manager.go Poll, ApplyIfChanged, send).  The three cases
\* of Blind are the ones where it does not, and where nothing says so: the hash
\* compares equal, and an engine on its startup configuration, or on one whose
\* answer did not decode, is left there until the next change.
Converges == []<>(~kea.up) \/ <>[](CurrentTable /\ (InForce \/ Blind))

\* Every box that knows the main by an address ends up rendering itself as the
\* standby exactly when the main has published it and still knows it, and the
\* others never do (app/dhcp.go replicaPair).
StandbyAgrees ==
  \A x \in Replicas :
    <>[](replicaPair(x) <=> (pair = x /\ registry[x] # "absent" /\ x \in Reaching))
=============================================================================
