--------------------------- MODULE FiltersProofs ---------------------------
(***************************************************************************)
(* Proofs about Filters, for any groups, lists, texts and rules and any    *)
(* sequence of writes, faults, imports and crashes: what a copy taken for  *)
(* current is, what the row of a list says of its copy, and that queries   *)
(* are blocked as the rows and the copies say.                             *)
(***************************************************************************)
EXTENDS Filters, TLAPS, WellFoundedInduction

RowFields == {"url", "kind", "enabled", "refreshed", "status", "count"}
JobFields == {"task", "pc", "rows", "todo", "got", "failed", "compiled", "groups", "picked", "sets"}
Statuses == {"pending", "ok", "stale", "failed", "empty"}
Downloads == {"fetch", "etag", "mark"}
Compiles == {"groups", "lists", "rules", "publish"}
TextOrNone == DOMAIN TextAt \cup {None}

\* The shape of a set of list rows.
RowsOK(rows) ==
  /\ DOMAIN rows \subseteq 1..lastId
  /\ \A i \in DOMAIN rows : /\ DOMAIN rows[i] = RowFields
                            /\ rows[i].url \in Urls /\ rows[i].kind \in Kinds

\* The tables.
StoreInv ==
  /\ lastId \in Ids /\ RowsOK(lists)
  /\ \A i \in DOMAIN lists : lists[i].status \in Statuses
  /\ assigned \subseteq Groups \X DOMAIN lists
  /\ rules \in [Groups -> SUBSET Rules] /\ groups \subseteq Groups
  /\ paused \subseteq Scopes /\ pauses \subseteq Scopes
  /\ adding = None \/ adding \in [id: Ids, todo: SUBSET Groups]

\* The cache directory, and what URLs serve.
DiskInv ==
  /\ file \in [Ids -> TextOrNone] /\ DOMAIN etag = Ids /\ DOMAIN said = Ids
  /\ origin \in [Urls -> TextOrNone]

\* A pass downloads a list at a time and then compiles what it has.
PassOK ==
  /\ DOMAIN job = JobFields /\ job.pc \in Downloads \cup Compiles /\ job.failed \in BOOLEAN
  /\ RowsOK(job.rows) /\ job.todo \subseteq DOMAIN job.rows
  /\ job.pc \in Downloads <=> job.todo # {}
  /\ job.pc \in {"etag", "mark"} => job.got = file[Fetched]
  /\ job.pc = "etag" => job.got # None /\ ~job.failed
  /\ job.pc \in Compiles => job.task.kind # "one"
  /\ job.task.kind # "one" =>
       /\ \A i \in job.todo : job.rows[i].enabled
       /\ job.compiled = {c \in FromCache(job.rows) : c.id \notin job.todo}

JobInv == job = Idle \/ PassOK

\* A copy is what was last served or confirmed and the ETag beside it is its
\* own, except where an older ETag was left, or for the copy just written.
JustWritten(i) == job.pc = "etag" /\ i = Fetched
EtagInv ==
  \A i \in Ids :
    /\ i \notin loose \/ JustWritten(i) => file[i] = said[i]
    /\ i \in loose \/ JustWritten(i) \/ etag[i] = None \/ (file[i] # None /\ etag[i] = TextAt[file[i]].etag)

\* A row that is to be fetched is of the kind it had when the pass read it.
KindInv == \A i \in job.todo \cap DOMAIN lists : i \notin rebound => lists[i].kind = job.rows[i].kind

\* The list whose answer is on disk and not yet in its row.
InFlight(i) == job.pc \in {"etag", "mark"} /\ ~job.failed /\ i = Fetched
Tells(i) ==
  lists[i].status = "pending" \/ i \in unmarked \cup rebound
  \/ /\ lists[i].count = Entries(lists[i].kind, file[i])
     /\ lists[i].status \in {"ok", "stale"} <=> lists[i].count > 0
TellInv == \A i \in DOMAIN lists : InFlight(i) \/ Tells(i)

\* A write has committed whose pass has not begun.
Dirty == adding # None \/ \E t \in waiting : t.kind \notin {"all", "one"}

\* What the rows and the copies make of a group.
Want(g) ==
  IF g \in groups THEN [rules |-> rules[g], lists |-> {c \in FromCache(lists) : <<g, c.id>> \in assigned}] ELSE None

\* The rows a pass read are still there, unless another pass will be.
RowsInv ==
  job # Idle /\ ~Dirty =>
    /\ DOMAIN job.rows = DOMAIN lists
    /\ \A i \in DOMAIN lists : job.rows[i].kind = lists[i].kind /\ job.rows[i].enabled = lists[i].enabled

\* So is what it has made of the groups it is through with.
SetsInv ==
  job # Idle =>
    /\ job.pc \in Downloads \cup {"groups"} => job.sets = [g \in Groups |-> None]
    /\ job.groups \subseteq Groups
    /\ job.pc = "publish" => job.groups = {}
    /\ job.pc = "rules" => job.picked.group \in job.groups
    /\ job.pc = "rules" /\ ~Dirty => job.picked.lists = {c \in FromCache(lists) : <<job.picked.group, c.id>> \in assigned}
    /\ job.pc \in {"lists", "rules", "publish"} /\ ~Dirty =>
         /\ job.groups \subseteq groups
         /\ job.sets = [g \in Groups |-> IF g \in job.groups THEN None ELSE Want(g)]

BuiltInv == job = Idle /\ ~Dirty /\ ~unbuilt => installed = [g \in Groups |-> Want(g)]

\* An import whose pauses are not loaded yet.
Importing == kick \/ (\E t \in waiting : t.kind = "import") \/ (job # Idle /\ job.task.kind = "import")
PauseInv == bound /\ ~unsaved /\ ~Importing => paused = pauses

-----------------------------------------------------------------------------
(* The list that is being fetched.                                         *)

\* A nonempty set of naturals has a least element, and Min chooses it.
LEMMA MinIsElement ==
  ASSUME NEW T, T \subseteq Nat, T # {}
  PROVE  Min(T) \in T
<1> DEFINE R == OpToRel(<, Nat)
<1>1. IsWellFoundedOn(R, Nat)
  BY NatLessThanWellFounded
<1>2. \A x, y \in Nat : y < x => <<y, x>> \in R
  BY DEF OpToRel
<1> HIDE DEF R
<1>3. PICK x \in T : \A y \in T : ~ (<<y, x>> \in R)
  BY <1>1, WFMin
<1>4. \A y \in T : ~(y < x)
  BY <1>2, <1>3
<1>5. \A y \in T : x =< y
  BY <1>4
<1> QED BY <1>5 DEF Min

\* refreshList works on a row the pass has read.
LEMMA FetchedIsRow ==
  ASSUME StoreInv, PassOK, job.pc \in Downloads
  PROVE  Fetched \in job.todo /\ Fetched \in DOMAIN job.rows /\ Fetched \in Ids
<1>1. job.todo # {} /\ job.todo \subseteq DOMAIN job.rows /\ DOMAIN job.rows \subseteq 1..lastId /\ lastId \in 1..MaxId
  BY DEF StoreInv, PassOK, RowsOK, Ids
<1>2. DOMAIN job.rows \subseteq Ids /\ job.todo \subseteq Nat
  BY <1>1, FiltersAssumption DEF Ids
<1> QED BY <1>1, <1>2, MinIsElement DEF Fetched

\* A pass and nobody are told apart by the place.
LEMMA IdlePlace ==
  ASSUME JobInv
  PROVE  /\ job.pc = "idle" <=> job = Idle
         /\ job = Idle => job.todo = {} /\ job.pc = "idle"
         /\ job # Idle => PassOK
BY DEF JobInv, PassOK, Idle, Downloads, Compiles

-----------------------------------------------------------------------------
(* API writes.                                                             *)

\* No handler touches the pass, the cache directory or the rulesets.
Aside == UNCHANGED <<job, file, etag, said, loose, unmarked, installed, unbuilt>>

\* What a write may make of a row: an import that points it elsewhere is
\* noted, every other row keeps what it says or says nothing yet.
Keeps(i) ==
  /\ i \in DOMAIN lists /\ i \notin rebound
  /\ lists'[i].status = lists[i].status /\ lists'[i].count = lists[i].count
Written(i) ==
  \/ i \in rebound'
  \/ Keeps(i) /\ lists'[i].kind = lists[i].kind
  \/ ~Fetching(i) /\ (lists'[i].status = "pending" \/ (Keeps(i) /\ file[i] = None))

Writes ==
  /\ StoreInv' /\ Dirty' /\ lastId' >= lastId
  /\ \A i \in DOMAIN lists' : Written(i)

LEMMA CreateWrites ==
  ASSUME StoreInv, JobInv, CreateList
  PROVE  Aside /\ Writes
<1>1. Aside /\ UNCHANGED <<assigned, rules, groups, paused, pauses, rebound>> /\ lastId' = lastId + 1 /\ lastId < MaxId
  BY DEF CreateList, Aside, Free, disk, history
<1>2. PICK url \in Urls, kind \in Kinds :
        lists' = [i \in DOMAIN lists \cup {lastId + 1} |-> IF i = lastId + 1 THEN Row(url, kind) ELSE lists[i]]
  BY DEF CreateList
<1>3. lastId \in Nat /\ lastId' \in Ids /\ lastId + 1 \notin DOMAIN lists /\ DOMAIN lists \subseteq 1..lastId
  BY <1>1, FiltersAssumption DEF StoreInv, RowsOK, Ids
<1>4. /\ DOMAIN Row(url, kind) = RowFields /\ Row(url, kind).url = url /\ Row(url, kind).kind = kind
      /\ Row(url, kind).status = "pending"
  BY DEF Row, RowFields
<1>5. /\ DOMAIN lists' = DOMAIN lists \cup {lastId + 1}
      /\ lists'[lastId + 1] = Row(url, kind)
      /\ \A i \in DOMAIN lists : lists'[i] = lists[i]
  BY <1>2, <1>3
<1>6. adding' \in [id: Ids, todo: SUBSET Groups] /\ adding' # None
  BY <1>1, <1>3, FiltersAssumption DEF CreateList
<1>7. StoreInv'
  BY <1>1, <1>3, <1>4, <1>5, <1>6 DEF StoreInv, RowsOK, Statuses
<1>8. lastId + 1 \notin job.todo
  BY <1>3, IdlePlace DEF PassOK, RowsOK
<1>9. \A i \in DOMAIN lists' : Written(i)
  BY <1>1, <1>4, <1>5, <1>8 DEF Written, Keeps, Fetching
<1> QED BY <1>1, <1>3, <1>6, <1>7, <1>9 DEF Writes, Dirty

\* What a handler that leaves the rows of the lists alone need not show again.
LEMMA RowsUntouched ==
  ASSUME StoreInv, UNCHANGED <<lists, lastId, rebound, paused, pauses>>,
         assigned' \subseteq Groups \X DOMAIN lists, rules' \in [Groups -> SUBSET Rules], groups' \subseteq Groups,
         adding' = None \/ adding' \in [id: Ids, todo: SUBSET Groups]
  PROVE  StoreInv' /\ lastId' >= lastId /\ \A i \in DOMAIN lists' : Written(i)
<1>1. StoreInv'
  BY DEF StoreInv, RowsOK
<1>2. lastId' >= lastId
  BY FiltersAssumption DEF StoreInv, Ids
<1>3. \A i \in DOMAIN lists' : Written(i)
  BY DEF Written, Keeps
<1> QED BY <1>1, <1>2, <1>3

LEMMA AssignWrites ==
  ASSUME StoreInv, JobInv, AssignNew
  PROVE  Aside /\ Writes
<1>1. Aside /\ UNCHANGED <<lists, lastId, rules, groups, paused, pauses, rebound>> /\ adding # None
  BY DEF AssignNew, Aside, Free, disk, history
<1>2. adding \in [id: Ids, todo: SUBSET Groups]
  BY <1>1 DEF StoreInv
<1>3. PICK g \in adding.todo :
        /\ adding' = [adding EXCEPT !.todo = @ \ {g}]
        /\ assigned' = assigned \/ (adding.id \in DOMAIN lists /\ assigned' = assigned \cup {<<g, adding.id>>})
  BY DEF AssignNew
<1>4. adding' \in [id: Ids, todo: SUBSET Groups]
  BY <1>2, <1>3
<1>5. adding' # None
  BY <1>4, FiltersAssumption
<1>6. assigned' \subseteq Groups \X DOMAIN lists
  BY <1>2, <1>3 DEF StoreInv
<1> QED BY <1>1, <1>4, <1>5, <1>6, RowsUntouched DEF StoreInv, Writes, Dirty

LEMMA RowlessWrites ==
  ASSUME StoreInv, JobInv, CreateEnds \/ PutGroupLists \/ WriteRule \/ PatchGroup
  PROVE  Aside /\ Writes
<1>1. CASE CreateEnds
  <2>1. Aside /\ UNCHANGED <<lists, lastId, assigned, rules, groups, paused, pauses, rebound>> /\ adding' = None
    BY <1>1 DEF CreateEnds, Aside, Free, disk, history, store
  <2>2. Dirty'
    <3>1. Task("added", 0) \in waiting' /\ Task("added", 0).kind = "added"
      BY <1>1 DEF CreateEnds, Task
    <3> QED BY <3>1 DEF Dirty
  <2> QED BY <2>1, <2>2, RowsUntouched DEF StoreInv, Writes
<1>2. CASE PutGroupLists \/ WriteRule \/ PatchGroup
  <2>1. Aside /\ UNCHANGED <<lists, lastId, paused, pauses, adding, rebound>>
    BY <1>2 DEF PutGroupLists, WriteRule, PatchGroup, Aside, Free, disk, history
  <2>2. Dirty'
    <3>1. Recompile \in waiting' /\ Recompile.kind = "recompile"
      BY <1>2 DEF PutGroupLists, WriteRule, PatchGroup, Recompile, Task
    <3> QED BY <3>1 DEF Dirty
  <2>3. assigned' \subseteq Groups \X DOMAIN lists
    <3>1. CASE PutGroupLists
      <4>1. PICK g \in Groups, s \in SUBSET DOMAIN lists : assigned' = {a \in assigned : a[1] # g} \cup ({g} \X s)
        BY <3>1 DEF PutGroupLists
      <4> QED BY <4>1 DEF StoreInv
    <3> QED BY <1>2, <3>1 DEF WriteRule, PatchGroup, StoreInv
  <2>4. rules' \in [Groups -> SUBSET Rules]
    <3>1. CASE WriteRule
      <4>1. PICK g \in Groups, r \in Rules : rules' = [rules EXCEPT ![g] = IF r \in @ THEN @ \ {r} ELSE @ \cup {r}]
        BY <3>1 DEF WriteRule
      <4> QED BY <4>1 DEF StoreInv
    <3> QED BY <1>2, <3>1 DEF PutGroupLists, PatchGroup, StoreInv
  <2>5. groups' \subseteq Groups
    BY <1>2 DEF PutGroupLists, WriteRule, PatchGroup, StoreInv
  <2> QED BY <2>1, <2>2, <2>3, <2>4, <2>5, RowsUntouched DEF StoreInv, Writes
<1> QED BY <1>1, <1>2

LEMMA PatchWrites ==
  ASSUME StoreInv, JobInv, PatchList
  PROVE  Aside /\ Writes
<1>1. Aside /\ UNCHANGED <<lastId, assigned, rules, groups, paused, pauses, adding, rebound>>
  BY DEF PatchList, Aside, Free, disk, history
<1>2. PICK i \in DOMAIN lists : lists' = [lists EXCEPT ![i].enabled = ~@] /\ Recompile \in waiting'
  BY DEF PatchList
<1> DEFINE r == [lists[i] EXCEPT !.enabled = ~@]
<1>3. /\ DOMAIN r = RowFields /\ r.url = lists[i].url /\ r.kind = lists[i].kind
      /\ r.status = lists[i].status /\ r.count = lists[i].count
  BY DEF StoreInv, RowsOK, RowFields
<1>4. lists' = [lists EXCEPT ![i] = r]
  BY <1>2
<1> HIDE DEF r
<1>5. DOMAIN lists' = DOMAIN lists /\ lists'[i] = r /\ \A j \in DOMAIN lists \ {i} : lists'[j] = lists[j]
  BY <1>2, <1>4
<1>6. StoreInv'
  BY <1>1, <1>3, <1>5 DEF StoreInv, RowsOK
<1>7. \A j \in DOMAIN lists' : Written(j)
  BY <1>1, <1>3, <1>5 DEF Written, Keeps
<1>8. Dirty'
  BY <1>2 DEF Dirty, Recompile, Task
<1>9. lastId' >= lastId
  BY <1>1, FiltersAssumption DEF StoreInv, Ids
<1> QED BY <1>1, <1>6, <1>7, <1>8, <1>9 DEF Writes

LEMMA DeleteWrites ==
  ASSUME StoreInv, JobInv, DeleteList
  PROVE  Aside /\ Writes
<1>1. Aside /\ UNCHANGED <<lastId, rules, groups, paused, pauses, adding, rebound>>
  BY DEF DeleteList, Aside, Free, disk, history
<1>2. PICK i \in DOMAIN lists :
        /\ lists' = [j \in DOMAIN lists \ {i} |-> lists[j]]
        /\ assigned' = {a \in assigned : a[2] # i}
  BY DEF DeleteList
<1>3. StoreInv'
  BY <1>1, <1>2 DEF StoreInv, RowsOK
<1>4. \A j \in DOMAIN lists' : Written(j)
  BY <1>1, <1>2 DEF Written, Keeps
<1>5. Dirty'
  <2>1. Recompile \in waiting'
    BY DEF DeleteList
  <2> QED BY <2>1 DEF Dirty, Recompile, Task
<1>6. lastId' >= lastId
  BY <1>1, FiltersAssumption DEF StoreInv, Ids
<1> QED BY <1>1, <1>3, <1>4, <1>5, <1>6 DEF Writes

LEMMA ImportWrites ==
  ASSUME StoreInv, JobInv, ImportBundle
  PROVE  Aside /\ Writes
<1>1. Aside /\ UNCHANGED <<rules, groups, paused, adding>>
  BY DEF ImportBundle, Aside, Free, disk
<1> DEFINE row(i, url, kind) == IF i \in DOMAIN lists THEN lists[i] ELSE Row(url, kind)
           new(i, url, kind, on) == [row(i, url, kind) EXCEPT !.url = url, !.kind = kind, !.enabled = on]
           moves(i, url, kind) == (file[i] # None \/ Fetching(i))
                                  /\ (i \notin DOMAIN lists \/ lists[i].url # url \/ lists[i].kind # kind)
<1>2. PICK i \in Ids, url \in Urls, kind \in Kinds, on \in BOOLEAN :
        /\ lists' = [j \in {i} |-> new(i, url, kind, on)]
        /\ assigned' = Groups \X {i}
        /\ lastId' = IF i > lastId THEN i ELSE lastId
        /\ pauses' \in {{}, {None}}
        /\ rebound' = IF moves(i, url, kind) THEN rebound \cup {i} ELSE rebound
  BY DEF ImportBundle
<1>3. /\ DOMAIN new(i, url, kind, on) = RowFields /\ new(i, url, kind, on).url = url /\ new(i, url, kind, on).kind = kind
      /\ i \in DOMAIN lists => /\ new(i, url, kind, on).status = lists[i].status
                               /\ new(i, url, kind, on).count = lists[i].count
      /\ i \notin DOMAIN lists => new(i, url, kind, on).status = "pending"
  BY DEF StoreInv, RowsOK, RowFields, Row
<1> HIDE DEF new
<1>4. DOMAIN lists' = {i} /\ lists'[i] = new(i, url, kind, on)
  BY <1>2
<1>5. lastId' \in Ids /\ i \in 1..lastId' /\ lastId' >= lastId
  BY <1>2, FiltersAssumption DEF StoreInv, Ids
<1>6. StoreInv'
  BY <1>1, <1>2, <1>3, <1>4, <1>5 DEF StoreInv, RowsOK, Scopes, Statuses
<1>7. Written(i)
  BY <1>2, <1>3, <1>4 DEF Written, Keeps
<1>8. Dirty'
  <2>1. Task("import", 0) \in waiting'
    BY DEF ImportBundle
  <2> QED BY <2>1 DEF Dirty, Task
<1> QED BY <1>1, <1>4, <1>5, <1>6, <1>7, <1>8 DEF Writes

\* The handlers, timers and publishers that write none of the rows a pass reads.
Asks ==
  /\ StoreInv' /\ Dirty' = Dirty
  /\ UNCHANGED <<lists, lastId, assigned, rules, groups, rebound>>

LEMMA OthersAsk ==
  ASSUME StoreInv, RefreshList \/ Tick \/ Pause \/ PauseEnds \/ KickFirstDownload \/ Publish
  PROVE  Aside /\ Asks
<1>1. Aside /\ UNCHANGED <<lists, lastId, assigned, rules, groups, adding, rebound>>
  BY DEF RefreshList, Tick, Pause, PauseEnds, KickFirstDownload, Publish, Aside, Free, disk, history, store
<1>2. waiting \subseteq waiting' /\ \A t \in waiting' \ waiting : t.kind \in {"all", "one"}
  <2>1. CASE RefreshList
    BY <2>1 DEF RefreshList, Task
  <2>2. CASE Tick \/ KickFirstDownload
    BY <2>2 DEF Tick, KickFirstDownload, RefreshAll, Task
  <2>3. CASE Pause \/ PauseEnds \/ Publish
    BY <2>3 DEF Pause, PauseEnds, Publish
  <2> QED BY <2>1, <2>2, <2>3
<1>3. Dirty' = Dirty
  BY <1>1, <1>2 DEF Dirty
<1>4. paused' \subseteq Scopes /\ pauses' \subseteq Scopes
  <2>1. CASE Pause
    <3>1. PICK s \in Scopes : paused' = IF s \in paused THEN paused \ {s} ELSE paused \cup {s}
      BY <2>1 DEF Pause
    <3>2. pauses' = paused' \/ pauses' = pauses
      BY <2>1 DEF Pause
    <3> QED BY <3>1, <3>2 DEF StoreInv
  <2> QED BY <2>1 DEF RefreshList, Tick, PauseEnds, KickFirstDownload, Publish, loadPauses, Free, store, StoreInv
<1>5. StoreInv'
  BY <1>1, <1>4 DEF StoreInv, RowsOK
<1> QED BY <1>1, <1>3, <1>5 DEF Asks

\* Neither disturbs the pass or the copies.
LEMMA AsideKeepsPass ==
  ASSUME StoreInv, DiskInv, JobInv, Aside, StoreInv', lastId' >= lastId
  PROVE  JobInv' /\ (EtagInv => EtagInv')
<1>1. UNCHANGED <<job, file, etag, said, loose>>
  BY DEF Aside
<1>2. \A rows : RowsOK(rows) =>
        /\ DOMAIN rows \subseteq 1..lastId'
        /\ \A i \in DOMAIN rows : DOMAIN rows[i] = RowFields /\ rows[i].url \in Urls /\ rows[i].kind \in Kinds
  BY FiltersAssumption DEF RowsOK, StoreInv, Ids
<1>3. JobInv'
  <2>1. CASE job = Idle
    BY <1>1, <2>1 DEF JobInv
  <2>2. CASE PassOK
    <3>1. RowsOK(job.rows)'
      BY <1>1, <1>2, <2>2 DEF PassOK, RowsOK
    <3>2. FromCache(job.rows)' = FromCache(job.rows) /\ Fetched' = Fetched
      BY <1>1 DEF FromCache, Fetched
    <3> QED BY <1>1, <2>2, <3>1, <3>2 DEF PassOK, JobInv
  <2> QED BY <2>1, <2>2 DEF JobInv
<1>4. EtagInv => EtagInv'
  BY <1>1 DEF EtagInv, JustWritten, Fetched
<1> QED BY <1>3, <1>4

\* What a row says of its copy, and the kind a pass holds it for.
LEMMA WritesKeepRows ==
  ASSUME StoreInv, DiskInv, JobInv, KindInv, TellInv, Aside, \A i \in DOMAIN lists' : Written(i)
  PROVE  KindInv' /\ TellInv'
<1>1. UNCHANGED <<job, file, unmarked>> /\ Fetched' = Fetched
  BY DEF Aside, Fetched
<1>2. KindInv'
  <2> SUFFICES ASSUME NEW i \in job.todo, i \in DOMAIN lists', i \notin rebound'
               PROVE  lists'[i].kind = job.rows[i].kind
    BY <1>1 DEF KindInv
  <2> QED BY DEF Written, Keeps, Fetching, KindInv
<1>3. TellInv'
  <2> SUFFICES ASSUME NEW i \in DOMAIN lists', ~InFlight(i)'
               PROVE  Tells(i)'
    BY DEF TellInv
  <2>1. ~InFlight(i)
    BY <1>1 DEF InFlight
  <2>2. CASE i \in rebound' \/ lists'[i].status = "pending"
    BY <2>2 DEF Tells
  <2>3. CASE Keeps(i) /\ (lists'[i].kind = lists[i].kind \/ file[i] = None)
    <3>1. Tells(i) /\ i \notin rebound
      BY <2>1, <2>3 DEF TellInv, Keeps
    <3>2. Entries(lists[i].kind, file[i]) = Entries(lists'[i].kind, file'[i])
      BY <1>1, <2>3 DEF Entries
    <3> QED BY <1>1, <2>3, <3>1, <3>2 DEF Tells, Keeps
  <2> QED BY <2>2, <2>3 DEF Written
<1> QED BY <1>2, <1>3

-----------------------------------------------------------------------------
(* The steps of a pass, up to the rows.                                    *)

CopyInv == StoreInv /\ DiskInv /\ JobInv /\ EtagInv /\ KindInv /\ TellInv

LEMMA PassBegins ==
  ASSUME CopyInv, Begin
  PROVE  CopyInv'
<1>1. UNCHANGED <<lists, lastId, assigned, rules, groups, pauses, file, etag, origin, paused, adding, said, unmarked, loose, rebound>>
  BY DEF Begin, store, disk, history
<1>2. job = Idle /\ job.todo = {} /\ job.pc = "idle"
  BY IdlePlace DEF Begin, CopyInv
<1>3. StoreInv' /\ DiskInv'
  BY <1>1 DEF CopyInv, StoreInv, DiskInv, RowsOK
<1> DEFINE on == {i \in DOMAIN lists : lists[i].enabled}
<1>4. PICK t \in waiting :
        \/ job' = Idle
        \/ t.kind \in {"all", "added"} /\ job' = Pass(t, on, {})
        \/ t.kind = "one" /\ t.id \in DOMAIN lists /\ job' = Pass(t, {t.id}, {})
        \/ t.kind \notin {"all", "added", "one"} /\ job' = Pass(t, {}, FromCache(lists))
  BY DEF Begin
<1>5. \A todo, compiled : LET p == Pass(t, todo, compiled) IN
        /\ DOMAIN p = JobFields /\ p.task = t /\ p.rows = lists /\ p.todo = todo /\ p.compiled = compiled
        /\ p.failed = FALSE /\ p.pc = IF todo = {} THEN "groups" ELSE "fetch"
  BY DEF Pass, JobFields
<1>6. FromCache(lists)' = FromCache(lists) /\ \A c \in FromCache(lists) : c.id \in on
  BY <1>1 DEF FromCache
<1> DEFINE Begun == /\ DOMAIN job' = JobFields /\ job'.task = t /\ job'.rows = lists /\ job'.failed = FALSE
                    /\ job'.todo \subseteq DOMAIN lists /\ job'.pc = IF job'.todo = {} THEN "groups" ELSE "fetch"
                    /\ job'.todo = {} => job'.task.kind # "one"
                    /\ job'.task.kind # "one" => /\ job'.todo \subseteq on
                                                 /\ job'.compiled = {c \in FromCache(lists) : c.id \notin job'.todo}
<1>7. job' = Idle \/ Begun
  <2>1. CASE t.kind \in {"all", "added"} /\ job' = Pass(t, on, {})
    BY <2>1, <1>5, <1>6
  <2>2. CASE t.kind = "one" /\ t.id \in DOMAIN lists /\ job' = Pass(t, {t.id}, {})
    BY <2>2, <1>5
  <2>3. CASE t.kind \notin {"all", "added", "one"} /\ job' = Pass(t, {}, FromCache(lists))
    BY <2>3, <1>5
  <2> QED BY <1>4, <2>1, <2>2, <2>3
<1>8. JobInv'
  <2>1. CASE Begun
    <3>1. RowsOK(job.rows)' /\ FromCache(job.rows)' = FromCache(lists)
      BY <1>1, <2>1, <1>6 DEF RowsOK, FromCache, CopyInv, StoreInv
    <3> QED BY <1>1, <2>1, <3>1 DEF PassOK, JobInv, Downloads, Compiles
  <2> QED BY <1>7, <2>1 DEF JobInv
<1> DEFINE quiet == job'.pc \in {"idle", "groups", "fetch"} /\ \A i \in job'.todo : i \in DOMAIN lists /\ job'.rows[i] = lists[i]
<1>9. quiet
  BY <1>7 DEF Idle
<1> HIDE DEF Begun
<1>10. EtagInv'
  BY <1>1, <1>2, <1>9 DEF EtagInv, JustWritten, CopyInv
<1>11. KindInv'
  BY <1>1, <1>9 DEF KindInv
<1>12. TellInv'
  BY <1>1, <1>2, <1>9 DEF TellInv, Tells, InFlight, CopyInv
<1> QED BY <1>3, <1>8, <1>10, <1>11, <1>12 DEF CopyInv

\* A step of refreshList before the row is marked: the pass keeps its place
\* in the rows it read.
Fetches(pc, got, failed) ==
  /\ DOMAIN job' = JobFields /\ job'.pc = pc /\ job'.got = got /\ job'.failed = failed
  /\ job'.task = job.task /\ job'.rows = job.rows /\ job'.todo = job.todo /\ job'.compiled = job.compiled
  /\ job'.groups = job.groups /\ job'.picked = job.picked /\ job'.sets = job.sets
  /\ Fetched' = Fetched

LEMMA FetchSteps ==
  ASSUME CopyInv
  PROVE  /\ NotModified => Fetches("mark", file[Fetched], FALSE)
         /\ Download => Fetches("etag", origin[job.rows[Fetched].url], FALSE)
         /\ WriteEtag => Fetches("mark", job.got, job.failed)
         /\ FetchFails => Fetches("mark", file[Fetched], TRUE)
         /\ NotModified \/ Download \/ FetchFails => job.pc = "fetch"
         /\ NotModified \/ Download \/ FetchFails \/ WriteEtag => PassOK /\ job.pc \in Downloads /\ job # Idle
<1>1. NotModified \/ Download \/ FetchFails => job.pc = "fetch"
  BY DEF NotModified, Download, FetchFails
<1>2. WriteEtag => job.pc = "etag"
  BY DEF WriteEtag
<1>3. NotModified \/ Download \/ FetchFails \/ WriteEtag => PassOK /\ job.pc \in Downloads /\ job # Idle
  BY <1>1, <1>2, IdlePlace DEF CopyInv, Downloads
<1>4. ASSUME DOMAIN job = JobFields, NEW pc, NEW got, NEW failed,
             job' = [job EXCEPT !.pc = pc, !.got = got, !.failed = failed]
      PROVE  Fetches(pc, got, failed)
  BY <1>4 DEF Fetches, JobFields, Fetched
<1>5. ASSUME DOMAIN job = JobFields, job' = [job EXCEPT !.pc = "mark"]
      PROVE  Fetches("mark", job.got, job.failed)
  BY <1>5 DEF Fetches, JobFields, Fetched
<1>6. NotModified => Fetches("mark", file[Fetched], FALSE)
  BY <1>3, <1>4 DEF NotModified, PassOK
<1>7. Download => Fetches("etag", origin[job.rows[Fetched].url], FALSE)
  BY <1>3, <1>4 DEF Download, PassOK
<1>8. WriteEtag => Fetches("mark", job.got, job.failed)
  BY <1>3, <1>5 DEF WriteEtag, PassOK
<1>9. FetchFails => Fetches("mark", file[Fetched], TRUE)
  BY <1>3, <1>4 DEF FetchFails, PassOK
<1> QED BY <1>1, <1>3, <1>6, <1>7, <1>8, <1>9

\* What the answer leaves as it was, but for the copy.
LEMMA FetchKeepsPass ==
  ASSUME CopyInv, PassOK, job.pc \in Downloads, NEW pc \in {"etag", "mark"}, NEW got, NEW failed \in BOOLEAN,
         Fetches(pc, got, failed), UNCHANGED lastId,
         DOMAIN file' = Ids, \A j \in Ids \ {Fetched} : file'[j] = file[j],
         got = file'[Fetched], pc = "etag" => got # None /\ ~failed
  PROVE  JobInv'
<1> DEFINE i == Fetched
<1>1. i \in job.todo /\ i \in DOMAIN job.rows
  BY FetchedIsRow DEF CopyInv
<1>2. RowsOK(job.rows)'
  BY DEF Fetches, PassOK, RowsOK
<1>3. DOMAIN job.rows \subseteq Ids
  BY FiltersAssumption DEF PassOK, RowsOK, CopyInv, StoreInv, Ids
<1>4. {c \in FromCache(job.rows)' : c.id \notin job.todo} = {c \in FromCache(job.rows) : c.id \notin job.todo}
  BY <1>1, <1>3 DEF FromCache, Fetches
<1> QED BY <1>1, <1>2, <1>4 DEF PassOK, JobInv, Fetches, Downloads, Compiles

\* A confirmation is about the copy, unless the ETag was an older one's.
LEMMA NotModifiedKeeps ==
  ASSUME CopyInv, NotModified
  PROVE  CopyInv'
<1> DEFINE i == Fetched
           t == origin[job.rows[i].url]
<1>1. UNCHANGED <<lists, lastId, assigned, rules, groups, pauses, file, etag, origin, paused, adding, unmarked, loose, rebound>>
  BY DEF NotModified, store, disk
<1>2. PassOK /\ job.pc = "fetch" /\ Fetches("mark", file[i], FALSE) /\ job.pc \in Downloads
  BY FetchSteps
<1>3. i \in job.todo /\ i \in DOMAIN job.rows /\ i \in Ids
  BY <1>2, FetchedIsRow DEF CopyInv
<1>4. said' = [said EXCEPT ![i] = t] /\ t # None /\ file[i] # None /\ etag[i] # None /\ etag[i] = TextAt[t].etag
  BY DEF NotModified, Confirms
<1>5. t \in DOMAIN TextAt /\ file[i] \in DOMAIN TextAt
  BY <1>2, <1>3, <1>4 DEF PassOK, RowsOK, CopyInv, DiskInv, TextOrNone
<1>6. StoreInv' /\ DiskInv'
  BY <1>1, <1>4 DEF CopyInv, StoreInv, DiskInv, RowsOK
<1>7. JobInv'
  BY <1>1, <1>2, FetchKeepsPass DEF CopyInv, DiskInv
<1>8. i \notin loose => t = file[i]
  BY <1>2, <1>3, <1>4, <1>5, EtagAssumption DEF CopyInv, EtagInv, JustWritten
<1>9. EtagInv'
  <2> SUFFICES ASSUME NEW j \in Ids, j \notin loose
               PROVE  file[j] = said'[j] /\ (etag[j] = None \/ (file[j] # None /\ etag[j] = TextAt[file[j]].etag))
    BY <1>1, <1>2 DEF EtagInv, JustWritten, Fetches
  <2>1. file[j] = said[j] /\ (etag[j] = None \/ (file[j] # None /\ etag[j] = TextAt[file[j]].etag))
    BY <1>2 DEF CopyInv, EtagInv, JustWritten
  <2> HIDE DEF i, t
  <2> QED BY <2>1, <1>3, <1>4, <1>8 DEF CopyInv, DiskInv
<1>10. KindInv'
  BY <1>1, <1>2 DEF CopyInv, KindInv, Fetches
<1>11. TellInv'
  BY <1>1, <1>2 DEF CopyInv, TellInv, Tells, InFlight, Fetches
<1> QED BY <1>6, <1>7, <1>9, <1>10, <1>11 DEF CopyInv

\* A body is the copy and what was said, until its ETag is written.
LEMMA DownloadKeeps ==
  ASSUME CopyInv, Download
  PROVE  CopyInv'
<1> DEFINE i == Fetched
           t == origin[job.rows[i].url]
<1>1. UNCHANGED <<lists, lastId, assigned, rules, groups, pauses, etag, origin, paused, adding, unmarked, loose>>
  BY DEF Download, store
<1>2. PassOK /\ job.pc = "fetch" /\ Fetches("etag", t, FALSE) /\ job.pc \in Downloads
  BY FetchSteps
<1>3. i \in job.todo /\ i \in DOMAIN job.rows /\ i \in Ids
  BY <1>2, FetchedIsRow DEF CopyInv
<1>4. /\ said' = [said EXCEPT ![i] = t] /\ file' = [file EXCEPT ![i] = t] /\ t # None
      /\ rebound' = IF i \in DOMAIN lists /\ lists[i].url = job.rows[i].url /\ lists[i].kind = job.rows[i].kind
                    THEN rebound \ {i} ELSE rebound
  BY DEF Download
<1>5. t \in DOMAIN TextAt
  BY <1>2, <1>3, <1>4 DEF PassOK, RowsOK, CopyInv, DiskInv, TextOrNone
<1> HIDE DEF i, t
<1>6. DiskInv'
  BY <1>1, <1>3, <1>4, <1>5 DEF CopyInv, DiskInv, TextOrNone
<1>7. StoreInv'
  BY <1>1 DEF CopyInv, StoreInv, RowsOK
<1>8. DOMAIN file' = Ids /\ file'[i] = t /\ said'[i] = t /\ \A j \in Ids \ {i} : file'[j] = file[j] /\ said'[j] = said[j]
  BY <1>3, <1>4 DEF CopyInv, DiskInv
<1>9. JobInv'
  BY <1>1, <1>2, <1>4, <1>8, FetchKeepsPass DEF i
<1>10. job'.pc = "etag" /\ Fetched' = i /\ job'.todo = job.todo /\ job'.rows = job.rows /\ ~job'.failed
  BY <1>2 DEF Fetches, i
<1>11. EtagInv'
  BY <1>1, <1>2, <1>8, <1>10 DEF CopyInv, EtagInv, JustWritten
<1>12. KindInv'
  BY <1>1, <1>4, <1>10 DEF CopyInv, KindInv
<1>13. TellInv'
  <2> SUFFICES ASSUME NEW j \in DOMAIN lists, j # i
               PROVE  Tells(j)'
    BY <1>1, <1>10 DEF TellInv, InFlight
  <2>1. Tells(j) /\ j \in Ids
    BY <1>2, FiltersAssumption DEF CopyInv, TellInv, InFlight, StoreInv, RowsOK, Ids
  <2> QED BY <2>1, <1>1, <1>4, <1>8 DEF Tells
<1> QED BY <1>6, <1>7, <1>9, <1>11, <1>12, <1>13 DEF CopyInv

LEMMA WriteEtagKeeps ==
  ASSUME CopyInv, WriteEtag
  PROVE  CopyInv'
<1> DEFINE i == Fetched
<1>1. UNCHANGED <<lists, lastId, assigned, rules, groups, pauses, file, origin, paused, adding, said, unmarked, rebound>>
  BY DEF WriteEtag, store
<1>2. PassOK /\ job.pc = "etag" /\ Fetches("mark", job.got, job.failed) /\ job.pc \in Downloads
  BY FetchSteps DEF WriteEtag
<1>3. i \in job.todo /\ i \in DOMAIN job.rows /\ i \in Ids
  BY <1>2, FetchedIsRow DEF CopyInv
<1>4. \/ etag' = [etag EXCEPT ![i] = TextAt[job.got].etag] /\ loose' = loose \ {i}
      \/ etag' = etag /\ loose' = (IF etag[i] = None THEN loose ELSE loose \cup {i})
  BY DEF WriteEtag
<1>5. job.got = file[i] /\ job.got # None /\ ~job.failed
  BY <1>2 DEF PassOK
<1>6. StoreInv' /\ DiskInv'
  BY <1>1, <1>3, <1>4 DEF CopyInv, StoreInv, DiskInv, RowsOK
<1>7. JobInv'
  <2>1. job.failed \in BOOLEAN
    BY <1>2 DEF PassOK
  <2> QED BY <1>1, <1>2, <1>5, <2>1, FetchKeepsPass DEF CopyInv, DiskInv
<1>8. job'.pc = "mark" /\ Fetched' = i /\ job'.todo = job.todo /\ job'.rows = job.rows /\ ~job'.failed
  BY <1>2, <1>5 DEF Fetches
<1>9. EtagInv'
  <2> SUFFICES ASSUME NEW j \in Ids, j \notin loose'
               PROVE  file[j] = said[j] /\ (etag'[j] = None \/ (file[j] # None /\ etag'[j] = TextAt[file[j]].etag))
    BY <1>1, <1>8 DEF EtagInv, JustWritten
  <2>1. DOMAIN etag = Ids
    BY DEF CopyInv, DiskInv
  <2>2. j # i => j \notin loose /\ etag'[j] = etag[j]
    BY <1>4, <2>1
  <2>3. CASE j # i
    BY <1>2, <2>2, <2>3 DEF CopyInv, EtagInv, JustWritten
  <2>4. file[i] = said[i]
    BY <1>2, <1>3 DEF CopyInv, EtagInv, JustWritten
  <2>5. CASE j = i
    BY <1>3, <1>4, <1>5, <2>1, <2>4, <2>5
  <2> QED BY <2>3, <2>5
<1>10. KindInv'
  BY <1>1, <1>8 DEF CopyInv, KindInv
<1>11. TellInv'
  BY <1>1, <1>2, <1>5, <1>8 DEF CopyInv, TellInv, Tells, InFlight
<1> QED BY <1>6, <1>7, <1>9, <1>10, <1>11 DEF CopyInv

LEMMA FetchFailsKeeps ==
  ASSUME CopyInv, FetchFails
  PROVE  CopyInv'
<1>1. UNCHANGED <<lists, lastId, assigned, rules, groups, pauses, file, etag, origin, paused, adding, said, unmarked, loose, rebound>>
  BY DEF FetchFails, store, disk, history
<1>2. PassOK /\ job.pc = "fetch" /\ Fetches("mark", file[Fetched], TRUE) /\ job.pc \in Downloads
  BY FetchSteps
<1>3. StoreInv' /\ DiskInv'
  BY <1>1 DEF CopyInv, StoreInv, DiskInv, RowsOK
<1>4. JobInv'
  BY <1>1, <1>2, FetchKeepsPass DEF CopyInv, DiskInv
<1>5. EtagInv'
  BY <1>1, <1>2 DEF CopyInv, EtagInv, JustWritten, Fetches
<1>6. KindInv'
  BY <1>1, <1>2 DEF CopyInv, KindInv, Fetches
<1>7. TellInv'
  BY <1>1, <1>2 DEF CopyInv, TellInv, Tells, InFlight, Fetches
<1> QED BY <1>3, <1>4, <1>5, <1>6, <1>7 DEF CopyInv

\* What is marked is the copy, under the kind the pass read it with.
LEMMA MarkKeeps ==
  ASSUME CopyInv, Mark
  PROVE  CopyInv'
<1> DEFINE i == Fetched
           kind == job.rows[i].kind
           n == Entries(kind, job.got)
           rest == job.todo \ {i}
           row == Marked(lists[i], job.got, job.failed, kind)
           more == IF job.got = None THEN job.compiled ELSE job.compiled \cup {[id |-> i, kind |-> kind, text |-> job.got]}
<1>1. UNCHANGED <<lastId, assigned, rules, groups, pauses, file, etag, origin, paused, adding, said, loose, rebound>>
  BY DEF Mark, disk
<1>2. PassOK /\ job.pc = "mark" /\ job.pc \in Downloads
  BY IdlePlace DEF Mark, CopyInv, Downloads
<1>3. i \in job.todo /\ i \in DOMAIN job.rows /\ i \in Ids /\ job.got = file[i]
  BY <1>2, FetchedIsRow DEF CopyInv, PassOK
<1>4. \/ /\ lists' = [j \in DOMAIN lists |-> IF j = i THEN row ELSE lists[j]]
         /\ unmarked' = unmarked \ {i}
      \/ lists' = lists /\ unmarked' = unmarked \cup {i}
  BY DEF Mark
<1>5. IF rest = {} /\ job.task.kind = "one" THEN job' = Idle
      ELSE job' = [job EXCEPT !.pc = IF rest = {} THEN "groups" ELSE "fetch", !.todo = rest, !.compiled = more]
  BY DEF Mark
<1>6. i \in DOMAIN lists =>
        /\ DOMAIN row = RowFields /\ row.url = lists[i].url /\ row.kind = lists[i].kind
        /\ row.count = n /\ row.status \in Statuses /\ (row.status \in {"ok", "stale"} <=> n > 0)
  BY DEF Marked, CopyInv, StoreInv, RowsOK, RowFields, Statuses
<1> HIDE DEF row
<1>7. /\ DOMAIN lists' = DOMAIN lists
      /\ \A j \in DOMAIN lists : /\ DOMAIN lists'[j] = RowFields /\ lists'[j].url = lists[j].url
                                 /\ lists'[j].kind = lists[j].kind /\ lists'[j].status \in Statuses
                                 /\ j # i => lists'[j] = lists[j]
  BY <1>4, <1>6 DEF CopyInv, StoreInv, RowsOK
<1>8. StoreInv' /\ DiskInv'
  BY <1>1, <1>7 DEF CopyInv, StoreInv, DiskInv, RowsOK
<1> DEFINE Goes == /\ DOMAIN job' = JobFields /\ job'.pc = (IF rest = {} THEN "groups" ELSE "fetch")
                   /\ job'.todo = rest /\ job'.compiled = more
                   /\ job'.rows = job.rows /\ job'.task = job.task /\ job'.failed = job.failed /\ job'.got = job.got
<1>9. job' = Idle \/ (Goes /\ (rest = {} => job.task.kind # "one"))
  <2> HIDE DEF rest, more
  <2> QED BY <1>2, <1>5 DEF PassOK, JobFields
<1>10. ASSUME job.task.kind # "one"
       PROVE  more = {c \in FromCache(job.rows) : c.id \notin rest}
  <2> DEFINE c0 == [id |-> i, kind |-> kind, text |-> file[i]]
  <2>1. job.compiled = {c \in FromCache(job.rows) : c.id \notin job.todo} /\ job.rows[i].enabled
    BY <1>2, <1>3, <1>10 DEF PassOK
  <2>2. \A c \in FromCache(job.rows) : c.id = i => c = c0 /\ file[i] # None
    BY DEF FromCache
  <2>3. file[i] # None => c0 \in FromCache(job.rows) /\ c0.id = i
    BY <1>3, <2>1 DEF FromCache
  <2> QED BY <1>3, <2>1, <2>2, <2>3
<1>11. JobInv'
  <2>1. CASE Goes /\ (rest = {} => job.task.kind # "one")
    <3>1. RowsOK(job.rows)' /\ FromCache(job.rows)' = FromCache(job.rows)
      BY <1>1, <1>2, <2>1 DEF RowsOK, FromCache, PassOK
    <3>2. job'.failed \in BOOLEAN
      BY <1>2, <2>1 DEF PassOK
    <3> HIDE DEF more
    <3> QED BY <1>2, <1>10, <2>1, <3>1, <3>2 DEF PassOK, JobInv, Downloads, Compiles
  <2> QED BY <1>9, <2>1 DEF JobInv
<1>12. job'.pc \in {"idle", "fetch", "groups"} /\ \A j \in job'.todo : j \in job.todo /\ job'.rows = job.rows
  <2> HIDE DEF more
  <2> QED BY <1>9 DEF Idle
<1> HIDE DEF Goes
<1>13. EtagInv'
  BY <1>1, <1>2, <1>12 DEF CopyInv, EtagInv, JustWritten
<1>14. KindInv'
  BY <1>1, <1>7, <1>12 DEF CopyInv, KindInv
<1>15. TellInv'
  <2> SUFFICES ASSUME NEW j \in DOMAIN lists
               PROVE  Tells(j)'
    BY <1>7 DEF TellInv
  <2>1. CASE j # i
    <3>1. Tells(j)
      BY <2>1 DEF CopyInv, TellInv, InFlight
    <3> QED BY <1>1, <1>4, <1>7, <2>1, <3>1 DEF Tells
  <2>2. CASE j = i
    <3>1. CASE i \in rebound \/ i \in unmarked'
      BY <1>1, <2>2, <3>1 DEF Tells
    <3>2. CASE i \notin rebound /\ lists'[i] = row
      <4>1. kind = lists[i].kind
        BY <1>3, <2>2, <3>2 DEF CopyInv, KindInv
      <4> QED BY <1>1, <1>3, <1>6, <2>2, <3>2, <4>1 DEF Tells
    <3> QED BY <1>4, <2>2, <3>1, <3>2
  <2> QED BY <2>1, <2>2
<1> QED BY <1>8, <1>11, <1>13, <1>14, <1>15 DEF CopyInv

\* The steps of install: only the pass itself moves on.
Compiling(pc, gs, picked, sets) ==
  /\ DOMAIN job' = JobFields /\ job'.pc = pc /\ job'.groups = gs /\ job'.picked = picked /\ job'.sets = sets
  /\ job'.task = job.task /\ job'.rows = job.rows /\ job'.todo = job.todo /\ job'.compiled = job.compiled
  /\ job'.failed = job.failed /\ job'.got = job.got

LEMMA CompileSteps ==
  ASSUME CopyInv, ReadGroups \/ ReadLists \/ ReadRules
  PROVE  /\ PassOK /\ job # Idle /\ job.pc \in Compiles
         /\ ReadGroups =>
              job.pc = "groups" /\ Compiling(IF groups = {} THEN "publish" ELSE "lists", groups, job.picked, job.sets)
         /\ ReadLists =>
              job.pc = "lists" /\ \E g \in job.groups :
                Compiling("rules", job.groups, [group |-> g, lists |-> {c \in job.compiled : <<g, c.id>> \in assigned}], job.sets)
         /\ ReadRules =>
              job.pc = "rules" /\ LET g == job.picked.group IN
                Compiling(IF job.groups = {g} THEN "publish" ELSE "lists", job.groups \ {g}, job.picked,
                          [job.sets EXCEPT ![g] = [rules |-> rules[g], lists |-> job.picked.lists]])
<1>1. PassOK /\ job # Idle /\ job.pc \in Compiles
  BY IdlePlace DEF CopyInv, ReadGroups, ReadLists, ReadRules, Compiles
<1>2. DOMAIN job = JobFields
  BY <1>1 DEF PassOK
<1>3. ASSUME ReadGroups
      PROVE  job.pc = "groups" /\ Compiling(IF groups = {} THEN "publish" ELSE "lists", groups, job.picked, job.sets)
  BY <1>2, <1>3 DEF ReadGroups, Compiling, JobFields
<1>4. ASSUME ReadLists
      PROVE  job.pc = "lists" /\ \E g \in job.groups :
               Compiling("rules", job.groups, [group |-> g, lists |-> {c \in job.compiled : <<g, c.id>> \in assigned}], job.sets)
  <2> DEFINE P(g) == [group |-> g, lists |-> {c \in job.compiled : <<g, c.id>> \in assigned}]
  <2>1. job.pc = "lists" /\ \E g \in job.groups : job' = [job EXCEPT !.pc = "rules", !.picked = P(g)]
    BY <1>4 DEF ReadLists
  <2> HIDE DEF P
  <2>2. job.pc = "lists" /\ \E g \in job.groups : Compiling("rules", job.groups, P(g), job.sets)
    BY <1>2, <2>1 DEF Compiling, JobFields
  <2> QED BY <2>2 DEF P
<1>5. ASSUME ReadRules
      PROVE  job.pc = "rules" /\ LET g == job.picked.group IN
               Compiling(IF job.groups = {g} THEN "publish" ELSE "lists", job.groups \ {g}, job.picked,
                         [job.sets EXCEPT ![g] = [rules |-> rules[g], lists |-> job.picked.lists]])
  <2> DEFINE g == job.picked.group
             s == [job.sets EXCEPT ![g] = [rules |-> rules[g], lists |-> job.picked.lists]]
             p == IF job.groups = {g} THEN "publish" ELSE "lists"
             r == job.groups \ {g}
  <2>1. job.pc = "rules" /\ job' = [job EXCEPT !.pc = p, !.groups = r, !.sets = s]
    BY <1>2, <1>5 DEF ReadRules, JobFields
  <2> HIDE DEF s, p, r
  <2>2. Compiling(p, r, job.picked, s)
    BY <1>2, <2>1 DEF Compiling, JobFields
  <2> QED BY <2>1, <2>2 DEF p, r, s
<1> QED BY <1>1, <1>3, <1>4, <1>5

LEMMA CompileKeeps ==
  ASSUME CopyInv, ReadGroups \/ ReadLists \/ ReadRules
  PROVE  CopyInv'
<1>1. UNCHANGED <<lists, lastId, assigned, rules, groups, pauses, file, etag, origin, paused, adding, said, unmarked, loose, rebound>>
  BY DEF ReadGroups, ReadLists, ReadRules, store, disk, history
<1>2. PICK pc \in {"lists", "rules", "publish"} : \E gs, picked, sets : Compiling(pc, gs, picked, sets)
  BY CompileSteps
<1>3. PassOK /\ job.pc \in Compiles
  BY CompileSteps
<1>4. StoreInv' /\ DiskInv'
  BY <1>1 DEF CopyInv, StoreInv, DiskInv, RowsOK
<1>5. JobInv'
  <2>1. RowsOK(job.rows)' /\ FromCache(job.rows)' = FromCache(job.rows)
    BY <1>1, <1>2, <1>3 DEF RowsOK, FromCache, PassOK, Compiling
  <2>2. job'.failed \in BOOLEAN
    BY <1>2, <1>3 DEF PassOK, Compiling
  <2> QED BY <1>2, <1>3, <2>1, <2>2 DEF PassOK, JobInv, Downloads, Compiles, Compiling
<1>6. job'.pc \in Compiles /\ job'.todo = job.todo /\ job'.rows = job.rows
  BY <1>2 DEF Compiling, Compiles
<1>7. EtagInv'
  BY <1>1, <1>3, <1>6 DEF CopyInv, EtagInv, JustWritten, Compiles
<1>8. KindInv'
  BY <1>1, <1>6 DEF CopyInv, KindInv
<1>9. TellInv'
  BY <1>1, <1>3, <1>6 DEF CopyInv, TellInv, Tells, InFlight, Compiles
<1> QED BY <1>4, <1>5, <1>7, <1>8, <1>9 DEF CopyInv

LEMMA EndKeeps ==
  ASSUME CopyInv, SetGroups \/ PassFails
  PROVE  CopyInv'
<1>1. UNCHANGED <<lists, lastId, assigned, rules, groups, pauses, file, etag, origin, adding, said, unmarked, loose, rebound>>
      /\ job' = Idle /\ job.pc \in Compiles
  BY DEF SetGroups, PassFails, store, disk, Compiles
<1>2. paused' = pauses \/ paused' = paused
  BY DEF SetGroups, PassFails, Followed
<1>3. StoreInv' /\ DiskInv' /\ JobInv'
  BY <1>1, <1>2 DEF CopyInv, StoreInv, DiskInv, RowsOK, JobInv
<1>4. job'.pc = "idle" /\ job'.todo = {}
  BY <1>1 DEF Idle
<1>5. EtagInv' /\ KindInv' /\ TellInv'
  BY <1>1, <1>4 DEF CopyInv, EtagInv, JustWritten, KindInv, TellInv, Tells, InFlight, Compiles
<1> QED BY <1>3, <1>5 DEF CopyInv

\* A process that dies between the copy and its ETag, or its row.
LEMMA CrashKeeps ==
  ASSUME CopyInv, Crash
  PROVE  CopyInv'
<1> DEFINE torn == job.pc \in {"etag", "mark"} /\ ~job.failed
<1>1. UNCHANGED <<lists, lastId, assigned, rules, groups, pauses, file, etag, origin, said, rebound>>
      /\ job' = Idle /\ paused' = {} /\ adding' = None
  BY DEF Crash, store, disk
<1>2. IF torn THEN /\ unmarked' = unmarked \cup {Fetched}
                   /\ loose' = IF job.pc = "etag" /\ etag[Fetched] # None THEN loose \cup {Fetched} ELSE loose
      ELSE unmarked' = unmarked /\ loose' = loose
  BY DEF Crash
<1>3. StoreInv' /\ DiskInv' /\ JobInv'
  BY <1>1 DEF CopyInv, StoreInv, DiskInv, RowsOK, JobInv
<1>4. job'.pc = "idle" /\ job'.todo = {}
  BY <1>1 DEF Idle
<1>5. job.pc = "etag" => torn
  BY IdlePlace DEF CopyInv, PassOK, Idle
<1>6. EtagInv'
  BY <1>1, <1>2, <1>4, <1>5 DEF CopyInv, EtagInv, JustWritten
<1>7. KindInv'
  BY <1>4 DEF KindInv
<1>8. TellInv'
  <2> SUFFICES ASSUME NEW i \in DOMAIN lists
               PROVE  Tells(i)'
    BY <1>1 DEF TellInv
  <2>1. InFlight(i) => i \in unmarked'
    BY <1>2 DEF InFlight
  <2>2. unmarked \subseteq unmarked'
    BY <1>2
  <2> QED BY <1>1, <2>1, <2>2 DEF CopyInv, TellInv, Tells
<1> QED BY <1>3, <1>6, <1>7, <1>8 DEF CopyInv

-----------------------------------------------------------------------------
(* The copies and the rows.                                                *)

Writers ==
  CreateList \/ AssignNew \/ CreateEnds \/ PatchList \/ DeleteList \/ PutGroupLists \/ WriteRule \/ PatchGroup \/ ImportBundle
Askers == RefreshList \/ Tick \/ Pause \/ PauseEnds \/ KickFirstDownload \/ Publish

LEMMA WritersWrite ==
  ASSUME CopyInv, Writers
  PROVE  Aside /\ Writes
BY CreateWrites, AssignWrites, RowlessWrites, PatchWrites, DeleteWrites, ImportWrites DEF CopyInv, Writers

\* Every step is one of a writer, of one who asks, of the pass, or the end of
\* the process.
LEMMA StepsOf == Next => Writers \/ Askers \/ Refresher \/ PassFails \/ Crash
BY DEF Next, Handlers, Writers, Askers

LEMMA AsideKeeps ==
  ASSUME CopyInv, Writers \/ Askers
  PROVE  CopyInv'
<1>1. Aside /\ StoreInv' /\ lastId' >= lastId /\ \A i \in DOMAIN lists' : Written(i)
  <2>1. CASE Writers
    BY <2>1, WritersWrite DEF Writes
  <2>2. CASE Askers
    <3>1. Aside /\ Asks
      BY <2>2, OthersAsk DEF CopyInv, Askers
    <3>2. lastId' >= lastId
      BY <3>1, FiltersAssumption DEF CopyInv, StoreInv, Ids, Asks
    <3> QED BY <3>1, <3>2 DEF Asks, Written, Keeps
  <2> QED BY <2>1, <2>2
<1>2. origin' \in [Urls -> TextOrNone]
  <2>1. CASE Publish
    <3>1. PICK u \in Urls, t \in TextOrNone : origin' = [origin EXCEPT ![u] = t]
      BY <2>1 DEF Publish, TextOrNone
    <3> QED BY <3>1 DEF CopyInv, DiskInv
  <2>2. CASE ~Publish
    BY <2>2 DEF Writers, Askers, CreateList, AssignNew, CreateEnds, PatchList, DeleteList, PutGroupLists, WriteRule,
                PatchGroup, ImportBundle, RefreshList, Tick, Pause, PauseEnds, KickFirstDownload, Free, CopyInv, DiskInv
  <2> QED BY <2>1, <2>2
<1>3. DiskInv'
  BY <1>1, <1>2 DEF CopyInv, DiskInv, Aside
<1>4. JobInv' /\ EtagInv'
  BY <1>1, AsideKeepsPass DEF CopyInv
<1>5. KindInv' /\ TellInv'
  BY <1>1, WritesKeepRows DEF CopyInv
<1> QED BY <1>1, <1>3, <1>4, <1>5 DEF CopyInv

LEMMA CopyInit == Init => CopyInv
<1> SUFFICES ASSUME Init PROVE CopyInv
  OBVIOUS
<1> DEFINE row == Marked(StartRow, StartText, FALSE, StartRow.kind)
<1>1. PICK u \in Urls, k \in Kinds : StartRow = Row(u, k)
  BY FiltersAssumption
<1>2. DOMAIN StartRow = RowFields /\ StartRow.url = u /\ StartRow.kind = k
  BY <1>1 DEF Row, RowFields
<1>3. /\ DOMAIN row = RowFields /\ row.url = u /\ row.kind = k /\ row.count = Entries(k, StartText)
      /\ row.status = IF Entries(k, StartText) > 0 THEN "ok" ELSE "empty"
  BY <1>2 DEF Marked, RowFields
<1> HIDE DEF row
<1>4. lists = <<row>> /\ DOMAIN lists = {1} /\ lists[1] = row
  BY DEF Init, row
<1>5. lastId = 1 /\ 1 \in Ids /\ 1..lastId = {1}
  BY FiltersAssumption DEF Init, Ids
<1>6. StoreInv
  BY <1>3, <1>4, <1>5 DEF Init, StoreInv, RowsOK, Statuses
<1>7. file[1] = StartText /\ etag[1] = TextAt[StartText].etag /\ \A i \in Ids \ {1} : etag[i] = None
  BY <1>5 DEF Init
<1>8. DiskInv
  BY FiltersAssumption DEF Init, DiskInv, TextOrNone
<1>9. job = Idle /\ job.todo = {} /\ job.pc = "idle"
  BY DEF Init, Idle
<1>10. EtagInv
  BY <1>7, FiltersAssumption DEF Init, EtagInv, JustWritten
<1>11. TellInv
  BY <1>3, <1>4, <1>7 DEF TellInv, Tells
<1> QED BY <1>6, <1>8, <1>9, <1>10, <1>11 DEF CopyInv, JobInv, KindInv

LEMMA CopyStep == CopyInv /\ [Next]_vars => CopyInv'
<1> SUFFICES ASSUME CopyInv, [Next]_vars PROVE CopyInv'
  OBVIOUS
<1>1. CASE Writers \/ Askers
  BY <1>1, AsideKeeps
<1>2. CASE Refresher
  BY <1>2, PassBegins, NotModifiedKeeps, DownloadKeeps, WriteEtagKeeps, FetchFailsKeeps, MarkKeeps, CompileKeeps, EndKeeps
     DEF Refresher
<1>3. CASE PassFails \/ Crash
  BY <1>3, EndKeeps, CrashKeeps
<1>4. CASE UNCHANGED vars
  <2>1. UNCHANGED <<lists, lastId, assigned, rules, groups, pauses, file, etag, origin, paused, adding, said, unmarked, loose, rebound, job>>
    BY <1>4 DEF vars, store, disk, history
  <2>2. StoreInv' /\ DiskInv' /\ EtagInv' /\ KindInv' /\ TellInv'
    BY <2>1 DEF CopyInv, StoreInv, DiskInv, EtagInv, JustWritten, KindInv, TellInv, Tells, InFlight, RowsOK, Fetched
  <2>3. JobInv'
    BY <2>1 DEF CopyInv, JobInv, PassOK, RowsOK, Fetched, FromCache
  <2> QED BY <2>2, <2>3 DEF CopyInv
<1> QED BY <1>1, <1>2, <1>3, <1>4, StepsOf

LEMMA CopyCorrect == Spec => []CopyInv
BY CopyInit, CopyStep, PTL DEF Spec

\* Every state has its type: group_lists only names lists that are there, and
\* the copies on disk are bodies some URL served.
THEOREM TypeCorrect == Spec => []TypeOK
<1>1. CopyInv => TypeOK
  BY DEF CopyInv, StoreInv, DiskInv, RowsOK, TypeOK, Statuses, TextOrNone
<1> QED BY <1>1, CopyCorrect, PTL

\* A copy taken for current is what its URL last served or confirmed, as long
\* as its ETag file is its own.
THEOREM CopiesAreWhatWasServed == Spec => []CurrentIsWhatWasServed
<1>1. CopyInv => CurrentIsWhatWasServed
  <2>1. CopyInv => DOMAIN lists \subseteq Ids
    BY FiltersAssumption DEF CopyInv, StoreInv, RowsOK, Ids
  <2> QED BY <2>1 DEF CopyInv, EtagInv, CurrentIsWhatWasServed
<1> QED BY <1>1, CopyCorrect, PTL

\* The row of a list tells what its copy is worth.
THEOREM RowsTellTheCopies == Spec => []RowTellsTheCopy
<1>1. CopyInv => RowTellsTheCopy
  BY DEF CopyInv, TellInv, Tells, InFlight, Idle, RowTellsTheCopy
<1> QED BY <1>1, CopyCorrect, PTL

-----------------------------------------------------------------------------
(* The rulesets.                                                           *)

EnforceInv == RowsInv /\ SetsInv /\ BuiltInv

\* What a pass compiles only depends on the kind and the state of a row.
LEMMA CacheOfRows ==
  ASSUME NEW r, NEW q, DOMAIN r = DOMAIN q,
         \A i \in DOMAIN q : r[i].kind = q[i].kind /\ r[i].enabled = q[i].enabled
  PROVE  FromCache(r) = FromCache(q)
BY DEF FromCache

LEMMA WritersEnforce ==
  ASSUME CopyInv, EnforceInv, Writers
  PROVE  EnforceInv'
<1>1. UNCHANGED job /\ Dirty'
  BY WritersWrite DEF Aside, Writes
<1> QED BY <1>1 DEF EnforceInv, RowsInv, SetsInv, BuiltInv

LEMMA SameWant ==
  ASSUME UNCHANGED <<lists, assigned, rules, groups, file>>
  PROVE  FromCache(lists)' = FromCache(lists) /\ \A g : Want(g)' = Want(g)
<1>1. FromCache(lists)' = FromCache(lists)
  BY DEF FromCache
<1> QED BY <1>1 DEF Want

LEMMA AskersEnforce ==
  ASSUME CopyInv, EnforceInv, Askers
  PROVE  EnforceInv'
<1>1. /\ UNCHANGED <<job, file, installed, unbuilt, lists, assigned, rules, groups>>
      /\ Dirty' = Dirty
  BY OthersAsk DEF Askers, CopyInv, Aside, Asks
<1>2. FromCache(lists)' = FromCache(lists) /\ \A g : Want(g)' = Want(g)
  BY <1>1, SameWant
<1>3. RowsInv'
  BY <1>1 DEF EnforceInv, RowsInv
<1>4. SetsInv'
  BY <1>1, <1>2 DEF EnforceInv, SetsInv
<1>5. BuiltInv'
  BY <1>1, <1>2 DEF EnforceInv, BuiltInv
<1> QED BY <1>3, <1>4, <1>5 DEF EnforceInv

LEMMA BeginEnforces ==
  ASSUME CopyInv, EnforceInv, Begin
  PROVE  EnforceInv'
<1>1. UNCHANGED <<lists, assigned, rules, groups, file, installed, unbuilt, adding>> /\ job = Idle
  BY DEF Begin, store, disk, history
<1>2. PICK t \in waiting :
        /\ waiting' = waiting \ {t}
        /\ (job' = Idle /\ t.kind = "one") \/ \E todo, compiled : job' = Pass(t, todo, compiled)
  BY DEF Begin
<1>3. CASE job' = Idle /\ t.kind = "one"
  <2>1. Dirty' = Dirty
    BY <1>1, <1>2, <1>3 DEF Dirty
  <2>2. \A g : Want(g)' = Want(g)
    BY <1>1, SameWant
  <2> QED BY <1>1, <1>3, <2>1, <2>2 DEF EnforceInv, RowsInv, SetsInv, BuiltInv
<1>4. ASSUME NEW todo, NEW compiled, job' = Pass(t, todo, compiled)
      PROVE  EnforceInv'
  <2>1. /\ job'.pc \in {"groups", "fetch"} /\ job'.rows = lists /\ job'.groups = {}
        /\ job'.sets = [g \in Groups |-> None]
    BY <1>4 DEF Pass
  <2>2. job' # Idle
    BY <2>1 DEF Idle
  <2> QED BY <1>1, <2>1, <2>2 DEF EnforceInv, RowsInv, SetsInv, BuiltInv
<1> QED BY <1>2, <1>3, <1>4

LEMMA FetchEnforces ==
  ASSUME CopyInv, EnforceInv, NotModified \/ Download \/ WriteEtag \/ FetchFails
  PROVE  EnforceInv'
<1>1. UNCHANGED <<lists, adding, waiting>>
  BY DEF NotModified, Download, WriteEtag, FetchFails, store
<1>2. job.pc \in Downloads /\ job # Idle
  BY FetchSteps
<1>3. /\ job'.pc \in {"etag", "mark"} /\ job'.rows = job.rows /\ job'.groups = job.groups
      /\ job'.sets = job.sets
  BY FetchSteps DEF Fetches
<1>4. job' # Idle /\ job'.pc \in Downloads
  BY <1>3 DEF Idle, Downloads
<1>5. Dirty' = Dirty
  BY <1>1 DEF Dirty
<1> QED BY <1>1, <1>2, <1>3, <1>4, <1>5 DEF EnforceInv, RowsInv, SetsInv, BuiltInv, Downloads

\* Mark: what a pass compiles is not what it writes, and a refresh of one
\* list ends by asking for a pass over all.
LEMMA MarkIs ==
  ASSUME CopyInv, Mark
  PROVE  /\ job # Idle /\ job.pc = "mark"
         /\ DOMAIN lists' = DOMAIN lists
         /\ \A j \in DOMAIN lists : lists'[j].kind = lists[j].kind /\ lists'[j].enabled = lists[j].enabled
         /\ \/ job' = Idle /\ job.task.kind = "one" /\ waiting' = waiting \cup {Recompile}
            \/ /\ job'.pc \in {"fetch", "groups"} /\ job'.rows = job.rows /\ job'.groups = job.groups
               /\ job'.sets = job.sets /\ job'.task = job.task /\ waiting' = waiting
<1> DEFINE i == Fetched
           row == Marked(lists[i], job.got, job.failed, job.rows[i].kind)
           rest == job.todo \ {i}
           p == IF rest = {} THEN "groups" ELSE "fetch"
           more == IF job.got = None THEN job.compiled ELSE job.compiled \cup {[id |-> i, kind |-> job.rows[i].kind, text |-> job.got]}
<1>1. PassOK /\ job.pc = "mark" /\ job # Idle
  BY IdlePlace DEF Mark, CopyInv, Idle
<1>2. lists' = lists \/ lists' = [j \in DOMAIN lists |-> IF j = i THEN row ELSE lists[j]]
  BY DEF Mark
<1>3. i \in DOMAIN lists => row.kind = lists[i].kind /\ row.enabled = lists[i].enabled
  BY DEF Marked, CopyInv, StoreInv, RowsOK, RowFields
<1> HIDE DEF row
<1>4. /\ DOMAIN lists' = DOMAIN lists
      /\ \A j \in DOMAIN lists : lists'[j].kind = lists[j].kind /\ lists'[j].enabled = lists[j].enabled
  BY <1>2, <1>3
<1>5. \/ job' = Idle /\ job.task.kind = "one" /\ waiting' = waiting \cup {Recompile}
      \/ job' = [job EXCEPT !.pc = p, !.todo = rest, !.compiled = more] /\ waiting' = waiting
  BY DEF Mark
<1>6. p \in {"fetch", "groups"}
  OBVIOUS
<1> HIDE DEF p, rest, more
<1>7. ASSUME job' = [job EXCEPT !.pc = p, !.todo = rest, !.compiled = more]
      PROVE  /\ job'.pc \in {"fetch", "groups"} /\ job'.rows = job.rows /\ job'.groups = job.groups
             /\ job'.sets = job.sets /\ job'.task = job.task
  BY <1>1, <1>6, <1>7 DEF PassOK, JobFields
<1> QED BY <1>1, <1>4, <1>5, <1>7

LEMMA MarkEnforces ==
  ASSUME CopyInv, EnforceInv, Mark
  PROVE  EnforceInv'
<1>1. UNCHANGED adding
  BY DEF Mark
<1>2. CASE job' = Idle /\ waiting' = waiting \cup {Recompile}
  <2>1. Dirty'
    <3>1. Recompile \in waiting' /\ Recompile.kind = "recompile"
      BY <1>2 DEF Recompile, Task
    <3> QED BY <3>1 DEF Dirty
  <2> QED BY <1>2, <2>1 DEF EnforceInv, RowsInv, SetsInv, BuiltInv
<1>3. CASE /\ job'.pc \in {"fetch", "groups"} /\ job'.rows = job.rows /\ job'.groups = job.groups
           /\ job'.sets = job.sets /\ waiting' = waiting
  <2>1. job' # Idle /\ Dirty' = Dirty
    BY <1>1, <1>3 DEF Idle, Dirty
  <2>2. /\ job # Idle /\ job.pc = "mark" /\ DOMAIN lists' = DOMAIN lists
        /\ \A j \in DOMAIN lists : lists'[j].kind = lists[j].kind /\ lists'[j].enabled = lists[j].enabled
    BY MarkIs
  <2>3. RowsInv'
    BY <1>3, <2>1, <2>2 DEF EnforceInv, RowsInv
  <2>4. SetsInv'
    BY <1>3, <2>1, <2>2 DEF EnforceInv, SetsInv, Downloads
  <2> QED BY <2>1, <2>3, <2>4 DEF EnforceInv, BuiltInv
<1> QED BY <1>2, <1>3, MarkIs

\* A compiling pass holds the copies of the lists there are, unless a write
\* has asked for the next pass.
LEMMA CompiledIsCache ==
  ASSUME CopyInv, EnforceInv, PassOK, job # Idle, job.pc \in Compiles, ~Dirty
  PROVE  job.compiled = FromCache(lists)
<1>1. job.todo = {} /\ job.task.kind # "one"
  BY DEF PassOK, Compiles, Downloads
<1>2. job.compiled = FromCache(job.rows)
  BY <1>1 DEF PassOK
<1> QED BY <1>2, CacheOfRows DEF EnforceInv, RowsInv

LEMMA CompileEnforces ==
  ASSUME CopyInv, EnforceInv, ReadGroups \/ ReadLists \/ ReadRules
  PROVE  EnforceInv'
<1>1. UNCHANGED <<lists, assigned, rules, groups, file, adding, waiting>>
  BY DEF ReadGroups, ReadLists, ReadRules, store, disk
<1>2. Dirty' = Dirty /\ FromCache(lists)' = FromCache(lists) /\ \A g : Want(g)' = Want(g)
  BY <1>1, SameWant DEF Dirty
<1>3. PassOK /\ job # Idle /\ job.pc \in Compiles
  BY CompileSteps
<1>4. /\ job'.rows = job.rows /\ job'.pc \in {"lists", "rules", "publish"} /\ job' # Idle
  <2>1. job'.rows = job.rows /\ job'.pc \in {"lists", "rules", "publish"}
    BY CompileSteps DEF Compiling
  <2> QED BY <2>1 DEF Idle
<1>5. RowsInv' /\ BuiltInv'
  BY <1>1, <1>2, <1>3, <1>4 DEF EnforceInv, RowsInv, BuiltInv
<1>6. groups \subseteq Groups
  BY DEF CopyInv, StoreInv
<1>7. CASE ReadGroups
  <2>1. /\ job.pc = "groups" /\ job'.pc = (IF groups = {} THEN "publish" ELSE "lists")
        /\ job'.groups = groups /\ job'.sets = job.sets
    BY <1>7, CompileSteps DEF Compiling
  <2>2. job.sets = [g \in Groups |-> None]
    BY <1>3, <2>1 DEF EnforceInv, SetsInv
  <2>3. [g \in Groups |-> None] = [g \in Groups |-> IF g \in groups THEN None ELSE Want(g)]
    BY DEF Want
  <2>4. SetsInv'
    BY <1>1, <1>2, <1>4, <1>6, <2>1, <2>2, <2>3 DEF SetsInv, Downloads
  <2> QED BY <1>5, <2>4 DEF EnforceInv
<1>8. CASE ReadLists
  <2>1. PICK g \in job.groups :
          Compiling("rules", job.groups, [group |-> g, lists |-> {c \in job.compiled : <<g, c.id>> \in assigned}], job.sets)
    BY <1>8, CompileSteps
  <2>2. /\ job'.pc = "rules" /\ job'.groups = job.groups /\ job'.sets = job.sets
        /\ job'.picked.group = g /\ job'.picked.lists = {c \in job.compiled : <<g, c.id>> \in assigned}
    BY <2>1 DEF Compiling
  <2>3. job.pc = "lists"
    BY <1>8, CompileSteps
  <2>4. ~Dirty => job'.picked.lists = {c \in FromCache(lists) : <<g, c.id>> \in assigned}
    BY <1>3, <2>2, CompiledIsCache
  <2>5. SetsInv'
    BY <1>1, <1>2, <1>3, <1>4, <2>2, <2>3, <2>4 DEF EnforceInv, SetsInv, Downloads
  <2> QED BY <1>5, <2>5 DEF EnforceInv
<1>9. CASE ReadRules
  <2> DEFINE g == job.picked.group
             set == [rules |-> rules[g], lists |-> job.picked.lists]
  <2>1. Compiling(IF job.groups = {g} THEN "publish" ELSE "lists", job.groups \ {g}, job.picked, [job.sets EXCEPT ![g] = set])
        /\ job.pc = "rules"
    BY <1>9, CompileSteps
  <2>2. /\ job'.pc = (IF job.groups = {g} THEN "publish" ELSE "lists") /\ job'.groups = job.groups \ {g}
        /\ job'.sets = [job.sets EXCEPT ![g] = set]
    BY <2>1 DEF Compiling
  <2>3. g \in job.groups /\ job.groups \subseteq Groups
    BY <1>3, <2>1 DEF EnforceInv, SetsInv
  <2>4. ASSUME ~Dirty
        PROVE  /\ job.groups \subseteq groups
               /\ job'.sets = [x \in Groups |-> IF x \in job.groups \ {g} THEN None ELSE Want(x)]
    <3>1. /\ job.groups \subseteq groups /\ job.picked.lists = {c \in FromCache(lists) : <<g, c.id>> \in assigned}
          /\ job.sets = [x \in Groups |-> IF x \in job.groups THEN None ELSE Want(x)]
      BY <1>3, <2>1, <2>4 DEF EnforceInv, SetsInv
    <3>2. set = Want(g)
      BY <2>3, <3>1 DEF Want
    <3> HIDE DEF set, g
    <3> QED BY <2>2, <2>3, <3>1, <3>2
  <2> HIDE DEF g, set
  <2>5. SetsInv'
    BY <1>1, <1>2, <1>4, <2>2, <2>3, <2>4 DEF SetsInv, Downloads
  <2> QED BY <1>5, <2>5 DEF EnforceInv
<1> QED BY <1>7, <1>8, <1>9

\* The swap installs what the rows and the copies ask for.
LEMMA EndEnforces ==
  ASSUME CopyInv, EnforceInv, SetGroups \/ PassFails
  PROVE  EnforceInv'
<1>1. UNCHANGED <<lists, assigned, rules, groups, file, adding>> /\ job' = Idle
  BY DEF SetGroups, PassFails, store, disk
<1>2. waiting \subseteq waiting' /\ \A t \in waiting' \ waiting : t.kind = "all"
  BY DEF SetGroups, PassFails, Followed, RefreshAll, Task
<1>3. Dirty' = Dirty
  BY <1>1, <1>2 DEF Dirty
<1>4. BuiltInv'
  <2>1. CASE PassFails
    BY <2>1 DEF PassFails, BuiltInv
  <2>2. CASE SetGroups
    <3>1. job.pc = "publish" /\ installed' = job.sets /\ job # Idle
      BY <2>2 DEF SetGroups, Idle
    <3>2. ~Dirty => job.sets = [g \in Groups |-> Want(g)]
      BY <3>1 DEF EnforceInv, SetsInv
    <3>3. \A g : Want(g)' = Want(g)
      BY <1>1, SameWant
    <3> QED BY <1>3, <3>1, <3>2, <3>3 DEF BuiltInv
  <2> QED BY <2>1, <2>2
<1> QED BY <1>1, <1>4 DEF EnforceInv, RowsInv, SetsInv

LEMMA CrashEnforces ==
  ASSUME Crash
  PROVE  EnforceInv'
<1>1. job' = Idle /\ Task("start", 0) \in waiting' /\ Task("start", 0).kind = "start"
  BY DEF Crash, Task
<1>2. Dirty'
  BY <1>1 DEF Dirty
<1> QED BY <1>1, <1>2 DEF EnforceInv, RowsInv, SetsInv, BuiltInv

LEMMA EnforceStep == CopyInv /\ EnforceInv /\ [Next]_vars => EnforceInv'
<1> SUFFICES ASSUME CopyInv, EnforceInv, [Next]_vars PROVE EnforceInv'
  OBVIOUS
<1>1. CASE Writers \/ Askers
  BY <1>1, WritersEnforce, AskersEnforce
<1>2. CASE Refresher
  BY <1>2, BeginEnforces, FetchEnforces, MarkEnforces, CompileEnforces, EndEnforces DEF Refresher
<1>3. CASE PassFails \/ Crash
  BY <1>3, EndEnforces, CrashEnforces
<1>4. CASE UNCHANGED vars
  <2>1. UNCHANGED <<lists, assigned, rules, groups, file, adding, waiting, job, installed, unbuilt>>
    BY <1>4 DEF vars, store, disk, history
  <2>2. Dirty' = Dirty /\ FromCache(lists)' = FromCache(lists) /\ \A g : Want(g)' = Want(g)
    BY <2>1, SameWant DEF Dirty
  <2>3. RowsInv' /\ BuiltInv'
    BY <2>1, <2>2 DEF EnforceInv, RowsInv, BuiltInv
  <2>4. SetsInv'
    BY <2>1, <2>2 DEF EnforceInv, SetsInv
  <2> QED BY <2>3, <2>4 DEF EnforceInv
<1> QED BY <1>1, <1>2, <1>3, <1>4, StepsOf

LEMMA EnforceInit == Init => EnforceInv
<1> SUFFICES ASSUME Init PROVE EnforceInv
  OBVIOUS
<1>1. job = Idle /\ Task("start", 0) \in waiting /\ Task("start", 0).kind = "start"
  BY DEF Init, Task
<1>2. Dirty
  BY <1>1 DEF Dirty
<1> QED BY <1>1, <1>2 DEF EnforceInv, RowsInv, SetsInv, BuiltInv

-----------------------------------------------------------------------------
(* The pauses.                                                             *)

\* The pauses in force are those in the row, once the listeners are up, unless
\* an import is under way or the row could not be read or written.
LEMMA PauseStep == CopyInv /\ PauseInv /\ [Next]_vars => PauseInv'
<1> SUFFICES ASSUME CopyInv, PauseInv, [Next]_vars PROVE PauseInv'
  OBVIOUS
<1> DEFINE Still == UNCHANGED <<paused, pauses, bound, unsaved, kick, job>> /\ waiting \subseteq waiting'
<1>1. Still => PauseInv'
  BY DEF PauseInv, Importing
<1>2. CASE CreateList \/ AssignNew \/ CreateEnds \/ PatchList \/ DeleteList \/ PutGroupLists \/ WriteRule \/ PatchGroup
           \/ RefreshList \/ Tick \/ Publish \/ UNCHANGED vars
  <2>1. Still
    BY <1>2 DEF CreateList, AssignNew, CreateEnds, PatchList, DeleteList, PutGroupLists, WriteRule, PatchGroup,
                RefreshList, Tick, Publish, Free, vars, store, history
  <2> QED BY <1>1, <2>1
<1>3. CASE ImportBundle
  <2>1. Task("import", 0) \in waiting' /\ Task("import", 0).kind = "import"
    BY <1>3 DEF ImportBundle, Task
  <2> QED BY <2>1 DEF PauseInv, Importing
<1>4. CASE Pause
  BY <1>4 DEF Pause, PauseInv, Importing
<1>5. CASE PauseEnds
  BY <1>5 DEF PauseEnds, PauseInv, Importing, history
<1>6. CASE KickFirstDownload
  BY <1>6 DEF KickFirstDownload, loadPauses, store, PauseInv
<1>7. CASE Begin
  <2>1. UNCHANGED <<paused, pauses, bound, unsaved, kick>> /\ job = Idle
    BY <1>7 DEF Begin, store, history
  <2>2. PICK t \in waiting :
          /\ waiting' = waiting \ {t}
          /\ (job' = Idle /\ t.kind = "one") \/ \E todo, compiled : job' = Pass(t, todo, compiled)
    BY <1>7 DEF Begin
  <2>3. ASSUME NEW todo, NEW compiled
        PROVE  Pass(t, todo, compiled) # Idle /\ Pass(t, todo, compiled).task = t
    BY DEF Pass, Idle
  <2>4. t.kind = "import" => job' # Idle /\ job'.task = t
    BY <2>2, <2>3
  <2>5. Importing => Importing'
    BY <2>1, <2>2, <2>4 DEF Importing
  <2> QED BY <2>1, <2>5 DEF PauseInv
<1>8. CASE NotModified \/ Download \/ WriteEtag \/ FetchFails \/ ReadGroups \/ ReadLists \/ ReadRules
  <2>1. UNCHANGED <<paused, pauses, bound, unsaved, kick, waiting>>
    BY <1>8 DEF NotModified, Download, WriteEtag, FetchFails, ReadGroups, ReadLists, ReadRules, store, history
  <2>2. job'.task = job.task /\ job'.pc # "idle"
    BY <1>8, FetchSteps, CompileSteps DEF Fetches, Compiling
  <2> QED BY <2>1, <2>2 DEF PauseInv, Importing, Idle
<1>9. CASE Mark
  <2>1. UNCHANGED <<paused, pauses, bound, unsaved, kick>> /\ waiting \subseteq waiting'
    BY <1>9 DEF Mark
  <2>2. job # Idle /\ job.task.kind = "import" => job' # Idle /\ job'.task = job.task
    BY <1>9, MarkIs DEF Idle
  <2> QED BY <2>1, <2>2 DEF PauseInv, Importing
<1>10. CASE SetGroups \/ PassFails
  <2>1. Followed(job.task) /\ UNCHANGED pauses /\ job' = Idle /\ job # Idle
    BY <1>10 DEF SetGroups, PassFails, store, Idle
  <2>2. CASE job.task.kind = "start"
    BY <2>1, <2>2 DEF Followed, PauseInv
  <2>3. CASE job.task.kind = "import"
    BY <2>1, <2>3 DEF Followed, PauseInv, Importing
  <2>4. CASE job.task.kind \notin {"start", "import"}
    <3>1. (bound' => bound) /\ (kick => kick')
      BY <2>1, <2>4, Zenon DEF Followed
    <3>2. UNCHANGED <<paused, unsaved>> /\ waiting' = waiting
      BY <2>1, <2>4 DEF Followed
    <3> QED BY <2>1, <2>4, <3>1, <3>2 DEF PauseInv, Importing
  <2> QED BY <2>2, <2>3, <2>4
<1>11. CASE Crash
  BY <1>11 DEF Crash, PauseInv
<1> QED BY <1>2, <1>3, <1>4, <1>5, <1>6, <1>7, <1>8, <1>9, <1>10, <1>11 DEF Next, Handlers, Refresher

-----------------------------------------------------------------------------
(* What a ruleset decides.                                                 *)

\* A name ends in a pattern when a walk over its parents meets the pattern.
LEMMA SuffixIsParent ==
  ASSUME NEW name \in Seq(STRING), NEW p \in Patterns
  PROVE  IsSuffix(p, name) <=> \E i \in 1..Len(name) : SubSeq(name, i, Len(name)) = p
<1> DEFINE n == Len(name)
           m == Len(p)
<1>1. p \in Seq(STRING) /\ m \in Nat /\ n \in Nat /\ m > 0
  BY DEF Patterns
<1>2. /\ DOMAIN Reverse(p) = 1..m /\ \A k \in 1..m : Reverse(p)[k] = p[m - k + 1]
      /\ DOMAIN Reverse(name) = 1..n /\ \A k \in 1..n : Reverse(name)[k] = name[n - k + 1]
      /\ Reverse(p) \in Seq(STRING) /\ Reverse(name) \in Seq(STRING)
      /\ Len(Reverse(p)) = m /\ Len(Reverse(name)) = n
  BY <1>1 DEF Reverse
<1>3. IsSuffix(p, name) <=> m <= n /\ \A k \in 1..m : p[m - k + 1] = name[n - k + 1]
  <2> DEFINE a == Reverse(p)
             b == Reverse(name)
  <2>1. IsSuffix(p, name) <=> m <= n /\ SubSeq(a, 1, m) = SubSeq(b, 1, m)
    BY <1>2 DEF IsSuffix, IsPrefix
  <2> HIDE DEF a, b
  <2>2. /\ Len(a) = m /\ Len(b) = n /\ a \in Seq(STRING) /\ b \in Seq(STRING)
        /\ \A k \in 1..m : a[k] = p[m - k + 1]
        /\ \A k \in 1..n : b[k] = name[n - k + 1]
    BY <1>2 DEF a, b
  <2> HIDE DEF m, n
  <2>3. SubSeq(a, 1, m) = [k \in 1..m |-> a[k]]
    BY <1>1, <2>2
  <2>4. m <= n => SubSeq(b, 1, m) = [k \in 1..m |-> b[k]]
    BY <1>1, <2>2
  <2>5. m <= n => \A k \in 1..m : k \in 1..n
    BY <1>1
  <2>6. [k \in 1..m |-> a[k]] = [k \in 1..m |-> b[k]] <=> \A k \in 1..m : a[k] = b[k]
    <3> DEFINE f == [k \in 1..m |-> a[k]]
               h == [k \in 1..m |-> b[k]]
    <3>1. \A k \in 1..m : f[k] = a[k] /\ h[k] = b[k]
      OBVIOUS
    <3>2. (\A k \in 1..m : a[k] = b[k]) => f = h
      OBVIOUS
    <3> HIDE DEF f, h
    <3>3. f = h => \A k \in 1..m : a[k] = b[k]
      BY <3>1
    <3> QED BY <3>2, <3>3 DEF f, h
  <2>7. m <= n => ((\A k \in 1..m : a[k] = b[k]) <=> \A k \in 1..m : p[m - k + 1] = name[n - k + 1])
    BY <2>2, <2>5
  <2> QED BY <2>1, <2>3, <2>4, <2>6, <2>7
<1>4. \A i \in 1..n : /\ SubSeq(name, i, n) \in Seq(STRING) /\ Len(SubSeq(name, i, n)) = n - i + 1
                      /\ \A k \in 1..(n - i + 1) : SubSeq(name, i, n)[k] = name[i + k - 1]
  BY <1>1
<1> HIDE DEF m, n
<1>5. ASSUME NEW i \in 1..n, SubSeq(name, i, n) = p
      PROVE  m <= n /\ \A k \in 1..m : p[m - k + 1] = name[n - k + 1]
  <2>1. m = n - i + 1
    BY <1>4, <1>5 DEF m
  <2>2. \A k \in 1..m : p[k] = name[i + k - 1]
    BY <1>4, <1>5, <2>1
  <2>3. \A k \in 1..m : m - k + 1 \in 1..m /\ i + (m - k + 1) - 1 = n - k + 1
    BY <1>1, <2>1
  <2> QED BY <1>1, <2>1, <2>2, <2>3
<1>6. ASSUME m <= n, \A k \in 1..m : p[m - k + 1] = name[n - k + 1]
      PROVE  \E i \in 1..n : SubSeq(name, i, n) = p
  <2> DEFINE i == n - m + 1
  <2>1. i \in 1..n /\ n - i + 1 = m
    BY <1>1, <1>6
  <2>2. \A k \in 1..m : m - k + 1 \in 1..m /\ m - (m - k + 1) + 1 = k /\ n - (m - k + 1) + 1 = i + k - 1
    BY <1>1, <1>6
  <2>3. \A k \in 1..m : p[k] = name[i + k - 1]
    BY <1>6, <2>2
  <2> HIDE DEF i
  <2>4. SubSeq(name, i, n) \in Seq(STRING) /\ Len(SubSeq(name, i, n)) = m /\ \A k \in 1..m : SubSeq(name, i, n)[k] = p[k]
    BY <1>4, <2>1, <2>3
  <2>5. SubSeq(name, i, n) = p
    <3>1. p = [k \in 1..m |-> p[k]]
      BY <1>1 DEF m
    <3>2. SubSeq(name, i, n) = [k \in 1..m |-> SubSeq(name, i, n)[k]]
      BY <2>4
    <3> QED BY <2>4, <3>1, <3>2
  <2> QED BY <2>1, <2>5
<1> QED BY <1>3, <1>5, <1>6 DEF n

\* DomainSet.Match finds exactly the names an entry covers.
LEMMA MatchIsCovered ==
  ASSUME NEW name \in Seq(STRING), NEW S, S \subseteq Patterns
  PROVE  Match(S, name) <=> Covered(S, name)
BY SuffixIsParent DEF Match, Covered

\* Ruleset.Evaluate as a formula: rules before lists, allow before block.
Ruled(rs, action, name) == \E r \in rs.rules : r.action = action /\ RuleHits(r, name)
Listed(rs, kind, name) ==
  \E c \in rs.lists : c.kind = kind /\ ~Match(compileList(c).except, name) /\ Match(compileList(c).set, name)

LEMMA EvaluateBlocks ==
  ASSUME NEW rs, \A r \in rs.rules : r.regex \in BOOLEAN, NEW name
  PROVE  Evaluate(rs, name) = "block" <=>
           ~Ruled(rs, "allow", name) /\ (Ruled(rs, "block", name) \/ (~Listed(rs, "allow", name) /\ Listed(rs, "block", name)))
<1> DEFINE manual(action, regex) == \E r \in rs.rules : r.action = action /\ r.regex = regex /\ RuleHits(r, name)
           ma == manual("allow", FALSE) \/ manual("allow", TRUE)
           mb == manual("block", FALSE) \/ manual("block", TRUE)
           la == Listed(rs, "allow", name)
           lb == Listed(rs, "block", name)
<1>1. (Ruled(rs, "allow", name) <=> ma) /\ (Ruled(rs, "block", name) <=> mb)
  BY DEF Ruled
<1>2. Evaluate(rs, name) = IF ma THEN "allow" ELSE IF mb THEN "block" ELSE IF la THEN "allow" ELSE IF lb THEN "block" ELSE "none"
  BY DEF Evaluate, Listed
<1> HIDE DEF ma, mb, la, lb
<1> QED BY <1>1, <1>2 DEF la, lb

\* What a ruleset holds of the rows: it is one, and it blocks what they ask for.
LEMMA WantIsRuleset ==
  ASSUME CopyInv, NEW g \in groups
  PROVE  /\ Want(g) # None /\ Want(g).rules = rules[g]
         /\ Want(g).lists = {c \in FromCache(lists) : <<g, c.id>> \in assigned}
         /\ rules[g] \subseteq Rules
<1> DEFINE cs == {c \in FromCache(lists) : <<g, c.id>> \in assigned}
<1>1. \A i \in DOMAIN lists : i \in Ids /\ lists[i].kind \in Kinds /\ (file[i] # None => file[i] \in DOMAIN TextAt)
  BY FiltersAssumption DEF CopyInv, StoreInv, DiskInv, RowsOK, TextOrNone, Ids
<1>2. FromCache(lists) \subseteq Compiled
  BY <1>1 DEF FromCache, Compiled
<1>3. rules[g] \in SUBSET Rules
  BY DEF CopyInv, StoreInv
<1>4. Want(g) = [rules |-> rules[g], lists |-> cs]
  BY DEF Want
<1>5. [rules |-> rules[g], lists |-> cs] \in Ruleset
  BY <1>2, <1>3 DEF Ruleset
<1>6. None \notin Ruleset
  BY FiltersAssumption
<1> HIDE DEF cs
<1>7. Want(g) # None /\ Want(g).rules = rules[g] /\ Want(g).lists = cs
  BY <1>4, <1>5, <1>6
<1> QED BY <1>3, <1>7 DEF cs

LEMMA WantBlocks ==
  ASSUME CopyInv, NEW g \in groups, NEW name \in Names, pauses \cap {g, None} = {}
  PROVE  Evaluate(Want(g), name) = "block" <=> WantsBlocked(g, name)
<1> DEFINE rs == Want(g)
           ruled(action) == \E r \in rules[g] : r.action = action /\ (IF r.regex THEN name \in r.pattern ELSE Covered(r.pattern, name))
           live == {i \in DOMAIN lists : lists[i].enabled /\ <<g, i>> \in assigned /\ file[i] # None}
           text(i) == TextAt[file[i]]
           allowed == \E i \in live : lists[i].kind = "allow" /\ Covered(text(i).allow \cup text(i).block, name)
           blocked == \E i \in live : lists[i].kind = "block" /\ Covered(text(i).block, name) /\ ~Covered(text(i).allow, name)
<1>1. name \in Seq(STRING)
  BY FiltersAssumption
<1>2. /\ rs.rules = rules[g] /\ rs.lists = {c \in FromCache(lists) : <<g, c.id>> \in assigned}
      /\ \A r \in rules[g] : r.regex \in BOOLEAN /\ (~r.regex => r.pattern \subseteq Patterns)
  BY WantIsRuleset, FiltersAssumption
<1>3. \A action : Ruled(rs, action, name) <=> ruled(action)
  BY <1>1, <1>2, MatchIsCovered DEF Ruled, RuleHits
<1>4. \A i \in live : /\ text(i).block \subseteq Patterns /\ text(i).allow \subseteq Patterns
                      /\ text(i).allow \cup text(i).block \subseteq Patterns
  <2>1. \A i \in live : file[i] \in DOMAIN TextAt
    BY FiltersAssumption DEF CopyInv, StoreInv, DiskInv, RowsOK, TextOrNone, Ids
  <2> QED BY <2>1, FiltersAssumption
<1> DEFINE entry(i) == [id |-> i, kind |-> lists[i].kind, text |-> file[i]]
<1>5. rs.lists = {entry(i) : i \in live}
  <2>1. FromCache(lists) = {entry(i) : i \in {j \in DOMAIN lists : lists[j].enabled /\ file[j] # None}}
    BY DEF FromCache
  <2>2. \A i : entry(i).id = i
    OBVIOUS
  <2> HIDE DEF entry, rs
  <2>3. \A c \in rs.lists : \E i \in live : c = entry(i)
    BY <1>2, <2>1, <2>2
  <2>4. \A i \in live : entry(i) \in rs.lists
    BY <1>2, <2>1, <2>2
  <2> HIDE DEF live
  <2> QED BY <2>3, <2>4
<1>6. \A i \in live : /\ entry(i).kind = lists[i].kind
                      /\ lists[i].kind = "allow" => /\ compileList(entry(i)).set = text(i).allow \cup text(i).block
                                                    /\ compileList(entry(i)).except = {}
                      /\ lists[i].kind = "block" => /\ compileList(entry(i)).set = text(i).block
                                                    /\ compileList(entry(i)).except = text(i).allow
  BY DEF compileList
<1> HIDE DEF entry, live, text, rs
<1>7. \A kind : Listed(rs, kind, name) <=>
        \E i \in live : /\ lists[i].kind = kind /\ ~Match(compileList(entry(i)).except, name)
                        /\ Match(compileList(entry(i)).set, name)
  BY <1>5, <1>6 DEF Listed
<1>8. ~Match({}, name)
  BY DEF Match
<1>9. Listed(rs, "allow", name) <=> allowed
  <2>1. \A i \in live : Match(text(i).allow \cup text(i).block, name) <=> Covered(text(i).allow \cup text(i).block, name)
    BY <1>1, <1>4, MatchIsCovered
  <2>2. ASSUME NEW i \in live, lists[i].kind = "allow"
        PROVE  ~Match(compileList(entry(i)).except, name)
               /\ (Match(compileList(entry(i)).set, name) <=> Covered(text(i).allow \cup text(i).block, name))
    <3>1. compileList(entry(i)).set = text(i).allow \cup text(i).block /\ compileList(entry(i)).except = {}
      BY <1>6, <2>2
    <3> QED BY <1>8, <2>1, <3>1
  <2> QED BY <1>7, <2>2
<1>10. Listed(rs, "block", name) <=> blocked
  <2>1. \A i \in live : /\ Match(text(i).block, name) <=> Covered(text(i).block, name)
                        /\ Match(text(i).allow, name) <=> Covered(text(i).allow, name)
    BY <1>1, <1>4, MatchIsCovered
  <2> QED BY <1>6, <1>7, <2>1
<1>11. WantsBlocked(g, name) <=> ~ruled("allow") /\ (ruled("block") \/ (~allowed /\ blocked))
  BY DEF WantsBlocked, live, text
<1>12. Evaluate(rs, name) = "block" <=>
         ~Ruled(rs, "allow", name) /\ (Ruled(rs, "block", name) \/ (~Listed(rs, "allow", name) /\ Listed(rs, "block", name)))
  BY <1>2, EvaluateBlocks
<1> HIDE DEF ruled, allowed, blocked
<1> QED BY <1>3, <1>9, <1>10, <1>11, <1>12 DEF rs

-----------------------------------------------------------------------------

FiltersInv == CopyInv /\ EnforceInv /\ PauseInv

LEMMA FiltersCorrect == Spec => []FiltersInv
<1>1. Init => FiltersInv
  BY CopyInit, EnforceInit DEF FiltersInv, PauseInv, Init
<1>2. FiltersInv /\ [Next]_vars => FiltersInv'
  BY CopyStep, EnforceStep, PauseStep DEF FiltersInv
<1> QED BY <1>1, <1>2, PTL DEF Spec

\* Once the passes that writes asked for are done, queries are blocked exactly
\* as the rows, the copies and the pauses say.
THEOREM QueriesFollowTheRows == Spec => []EnforcesTheRows
<1>1. FiltersInv => EnforcesTheRows
  <2> SUFFICES ASSUME FiltersInv, bound, job = Idle, ~kick, ~unbuilt, ~unsaved, \A t \in waiting : t.kind = "all", adding = None,
                      NEW g \in Groups, NEW name \in Names
               PROVE  Blocked(g, name) <=> WantsBlocked(g, name)
    BY DEF EnforcesTheRows
  <2>1. installed[g] = Want(g)
    BY DEF FiltersInv, EnforceInv, BuiltInv, Dirty
  <2>2. paused = pauses
    BY DEF FiltersInv, PauseInv, Importing
  <2>3. CASE g \notin groups
    BY <2>1, <2>3 DEF Want, Blocked, WantsBlocked
  <2>4. CASE pauses \cap {g, None} # {}
    BY <2>2, <2>4 DEF isPaused, Blocked, WantsBlocked
  <2>5. CASE g \in groups /\ pauses \cap {g, None} = {}
    <3>1. Want(g) # None
      BY <2>5, WantIsRuleset DEF FiltersInv
    <3>2. Evaluate(Want(g), name) = "block" <=> WantsBlocked(g, name)
      BY <2>5, WantBlocks DEF FiltersInv
    <3> QED BY <2>1, <2>2, <2>5, <3>1, <3>2 DEF isPaused, Blocked
  <2> QED BY <2>3, <2>4, <2>5
<1> QED BY <1>1, FiltersCorrect, PTL
=============================================================================
