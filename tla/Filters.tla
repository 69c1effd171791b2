------------------------------ MODULE Filters ------------------------------
(***************************************************************************)
(* Filter lists and rules (filter/refresh.go, filter/engine.go,            *)
(* filter/ruleset.go, filter/parse.go, api/filters_handlers.go).           *)
(*                                                                         *)
(* Lists are downloaded into a cache directory, beside the ETag of the     *)
(* copy; rules, lists and assignments are rows that API handlers and the   *)
(* import of a bundle write.  A pass under the refresher's mutex reads     *)
(* both and installs the rulesets the query path evaluates.  Some passes   *)
(* download first, others only compile.  The process may die between any   *)
(* two statements.                                                         *)
(***************************************************************************)
EXTENDS Naturals, Sequences, SequencesExt, FiniteSetsExt

CONSTANTS
  Groups, Urls, Names,
  TextAt,         \* what a URL may serve: [block, allow, etag], by number
  Rules,          \* the rules an operator may write: [action, regex, pattern]
  StartRow,       \* the list that is subscribed at first, as Row makes it
  StartText,      \* and its copy
  Budgets,        \* bounds, each a record [ops, pauses, publishes, faults, crashes, imports]
  MaxId,          \* bound on list ids
  None

VARIABLES
  lists,     \* the lists table, by id
  lastId,    \* the highest id ever given out
  assigned,  \* group_lists
  rules,     \* the rules table, by group
  groups,    \* the groups that are enabled
  pauses,    \* the blocking.pauses row: what is paused, a group or, as None, everything
  file, etag,\* the cache directory, by list id
  origin,    \* what every URL serves, None while it cannot be reached
  installed, \* Engine.groups: by group, None where there is no ruleset
  paused,    \* Engine.paused
  bound,     \* the listeners are up
  job,       \* the pass that holds Refresher.mu, Idle when it is free
  waiting,   \* the passes that wait for it
  adding,    \* a handler that assigns a new list to the groups
  kick,      \* an import that has recompiled and not yet looked for new lists
  left,
  from,      \* history: the URL a copy came from, by list id
  said,      \* history: what the URL last served or confirmed, by list id
  unbuilt,   \* history: the last pass ended in an error
  unsaved,   \* history: the row of the pauses could not be written or read last
  unmarked,  \* history: lists whose last outcome is not in their row
  loose,     \* history: lists whose etag file may describe an older copy
  rebound    \* history: lists whose row an import pointed at another URL

store == <<lists, lastId, assigned, rules, groups, pauses>>
disk == <<file, etag>>
history == <<from, said, unbuilt, unsaved, unmarked, loose, rebound>>
vars == <<store, disk, origin, installed, paused, bound, job, waiting, adding, kick, left, history>>

Ids == 1..MaxId
Scopes == Groups \cup {None}
Spend(what) == left[what] > 0 /\ left' = [left EXCEPT ![what] = @ - 1]
Task(kind, id) == [kind |-> kind, id |-> id]
Recompile == Task("recompile", 0)
RefreshAll == Task("all", 0)
\* Nobody holds mu.
Idle == [pc |-> "idle", todo |-> {}]
Row(url, kind) == [url |-> url, kind |-> kind, enabled |-> TRUE, refreshed |-> FALSE, status |-> "pending", count |-> 0]
Kinds == {"block", "allow"}
Compiled == [id: Ids, kind: Kinds, text: DOMAIN TextAt]
Ruleset == [rules: SUBSET Rules, lists: SUBSET Compiled]

\* A name is its labels, and neither a list (validDomain) nor a rule
\* (RulePattern) has an entry without any.
Patterns == Seq(STRING) \ {<<>>}

ASSUME FiltersAssumption ==
  /\ MaxId \in Nat \ {0} /\ StartText \in DOMAIN TextAt
  /\ \E u \in Urls, k \in Kinds : StartRow = Row(u, k)
  /\ \A b \in Budgets : \A f \in DOMAIN b : b[f] \in Nat
  /\ Names \subseteq Seq(STRING)
  /\ \A n \in DOMAIN TextAt : TextAt[n].block \cup TextAt[n].allow \subseteq Patterns
  /\ \A r \in Rules : r.regex \in BOOLEAN /\ (~r.regex => r.pattern \subseteq Patterns)
  /\ None \notin DOMAIN TextAt /\ None \notin Ruleset /\ None \notin [id: Ids, todo: SUBSET Groups]

\* An ETag names one body, as HTTP has it.
ASSUME EtagAssumption ==
  \A m, n \in DOMAIN TextAt : TextAt[m].etag = TextAt[n].etag /\ TextAt[m].etag # None => m = n

-----------------------------------------------------------------------------
(* What a ruleset decides.                                                 *)

\* DomainSet.Match: the name and each of its parents.
Match(set, name) == \E i \in 1..Len(name) : SubSeq(name, i, Len(name)) \in set

\* compileList: an allow list takes its exceptions for entries.
compileList(c) ==
  LET t == TextAt[c.text] IN
  IF c.kind = "allow" THEN [set |-> t.allow \cup t.block, except |-> {}] ELSE [set |-> t.block, except |-> t.allow]
Entries(kind, text) == IF text = None THEN 0 ELSE Cardinality(compileList([kind |-> kind, text |-> text]).set)

RuleHits(r, name) == IF r.regex THEN name \in r.pattern ELSE Match(r.pattern, name)

\* Mutant: an exception of one block list answers for all of them.
EvaluateAnyExcept(rs, name) ==
  LET manual(action, regex) == \E r \in rs.rules : r.action = action /\ r.regex = regex /\ RuleHits(r, name)
      set(kind) == UNION {compileList(c).set : c \in {d \in rs.lists : d.kind = kind}}
      except == UNION {compileList(c).except : c \in rs.lists}
  IN IF manual("allow", FALSE) \/ manual("allow", TRUE) THEN "allow"
     ELSE IF manual("block", FALSE) \/ manual("block", TRUE) THEN "block"
     ELSE IF Match(set("allow"), name) THEN "allow"
     ELSE IF Match(set("block"), name) /\ ~Match(except, name) THEN "block" ELSE "none"

\* Ruleset.Evaluate.
Evaluate(rs, name) ==
  LET manual(action, regex) == \E r \in rs.rules : r.action = action /\ r.regex = regex /\ RuleHits(r, name)
      listed(kind) == \E c \in rs.lists : c.kind = kind /\ LET k == compileList(c) IN ~Match(k.except, name) /\ Match(k.set, name)
  IN IF manual("allow", FALSE) \/ manual("allow", TRUE) THEN "allow"
     ELSE IF manual("block", FALSE) \/ manual("block", TRUE) THEN "block"
     ELSE IF listed("allow") THEN "allow"
     ELSE IF listed("block") THEN "block" ELSE "none"

isPaused(g) == paused \cap {g, None} # {}

\* Middleware: a group without a ruleset is not filtered, nor one that is paused.
Blocked(g, name) == installed[g] # None /\ ~isPaused(g) /\ Evaluate(installed[g], name) = "block"

\* Mutant: a failure leaves the count of the last success in the row.
MarkedKeepsCount(row, text, failed, kind) ==
  LET n == Entries(kind, text) IN
  IF failed THEN [row EXCEPT !.status = IF n > 0 THEN "stale" ELSE "failed"]
  ELSE [row EXCEPT !.count = n, !.refreshed = TRUE, !.status = IF n > 0 THEN "ok" ELSE "empty"]

\* MarkListFailed, MarkListEmpty, TouchList.
Marked(row, text, failed, kind) ==
  LET n == Entries(kind, text) IN
  [row EXCEPT !.count = n, !.refreshed = @ \/ ~failed,
              !.status = IF failed THEN (IF n > 0 THEN "stale" ELSE "failed") ELSE (IF n > 0 THEN "ok" ELSE "empty")]

Init ==
  /\ lists = <<Marked(StartRow, StartText, FALSE, StartRow.kind)>>
  /\ lastId = 1 /\ assigned = Groups \X {1} /\ rules = [g \in Groups |-> {}] /\ groups = Groups /\ pauses = {}
  /\ file = [i \in Ids |-> IF i = 1 THEN StartText ELSE None]
  /\ etag = [i \in Ids |-> IF i = 1 THEN TextAt[StartText].etag ELSE None]
  /\ origin = [u \in Urls |-> StartText]
  /\ installed = [g \in Groups |-> None] /\ paused = {} /\ bound = FALSE
  /\ job = Idle /\ waiting = {Task("start", 0)} /\ adding = None /\ kick = FALSE
  /\ left \in Budgets
  /\ from = [i \in Ids |-> IF i = 1 THEN StartRow.url ELSE None]
  /\ said = file /\ unbuilt = FALSE /\ unsaved = FALSE /\ unmarked = {} /\ loose = {} /\ rebound = {}

-----------------------------------------------------------------------------
(* API writes.  Each commits its rows and then asks for a pass.            *)

Free == UNCHANGED <<disk, origin, installed, paused, bound, job>>

\* handleListCreate: the row, then one assignment per group, then a download.
CreateList ==
  /\ bound /\ adding = None /\ lastId < MaxId /\ Spend("ops")
  /\ \E url \in Urls, kind \in Kinds :
       /\ \A i \in DOMAIN lists : lists[i].url # url
       /\ lists' = [i \in DOMAIN lists \cup {lastId + 1} |-> IF i = lastId + 1 THEN Row(url, kind) ELSE lists[i]]
  /\ lastId' = lastId + 1
  /\ adding' = [id |-> lastId + 1, todo |-> Groups]
  /\ UNCHANGED <<assigned, rules, groups, pauses, waiting, kick, history>> /\ Free

\* A group that cannot be given the list is logged and left without it.
AssignNew ==
  /\ adding # None /\ adding.todo # {}
  /\ \E g \in adding.todo :
       /\ adding' = [adding EXCEPT !.todo = @ \ {g}]
       /\ \/ adding.id \in DOMAIN lists /\ assigned' = assigned \cup {<<g, adding.id>>} /\ UNCHANGED left
          \/ adding.id \notin DOMAIN lists /\ UNCHANGED <<assigned, left>>
          \/ Spend("faults") /\ UNCHANGED assigned
  /\ UNCHANGED <<lists, lastId, rules, groups, pauses, waiting, kick, history>> /\ Free

CreateEnds ==
  /\ adding # None /\ adding.todo = {}
  /\ adding' = None /\ waiting' = waiting \cup {Task("added", 0)}
  /\ UNCHANGED <<store, kick, left, history>> /\ Free

\* handleListPatch: enabling downloads as well.
PatchList ==
  /\ bound /\ Spend("ops")
  /\ \E i \in DOMAIN lists :
       /\ lists' = [lists EXCEPT ![i].enabled = ~@]
       /\ waiting' = waiting \cup {Recompile} \cup (IF lists[i].enabled THEN {} ELSE {RefreshAll})
  /\ UNCHANGED <<lastId, assigned, rules, groups, pauses, adding, kick, history>> /\ Free

\* handleListDelete: the copy in the cache stays.
DeleteList ==
  /\ bound /\ Spend("ops")
  /\ \E i \in DOMAIN lists :
       /\ lists' = [j \in DOMAIN lists \ {i} |-> lists[j]]
       /\ assigned' = {a \in assigned : a[2] # i}
  /\ waiting' = waiting \cup {Recompile}
  /\ UNCHANGED <<lastId, rules, groups, pauses, adding, kick, history>> /\ Free

\* ReplaceGroupLists: all or nothing.
PutGroupLists ==
  /\ bound /\ Spend("ops")
  /\ \E g \in Groups, s \in SUBSET DOMAIN lists :
       assigned' = {a \in assigned : a[1] # g} \cup ({g} \X s)
  /\ waiting' = waiting \cup {Recompile}
  /\ UNCHANGED <<lists, lastId, rules, groups, pauses, adding, kick, history>> /\ Free

\* handleRuleCreate and handleRuleDelete.
WriteRule ==
  /\ bound /\ Spend("ops")
  /\ \E g \in Groups, r \in Rules :
       rules' = [rules EXCEPT ![g] = IF r \in @ THEN @ \ {r} ELSE @ \cup {r}]
  /\ waiting' = waiting \cup {Recompile}
  /\ UNCHANGED <<lists, lastId, assigned, groups, pauses, adding, kick, history>> /\ Free

PatchGroup ==
  /\ bound /\ Spend("ops")
  /\ \E g \in Groups : groups' = IF g \in groups THEN groups \ {g} ELSE groups \cup {g}
  /\ waiting' = waiting \cup {Recompile}
  /\ UNCHANGED <<lists, lastId, assigned, rules, pauses, adding, kick, history>> /\ Free

\* handlePause and handleResume: Engine.Pause, which writes the row of what it
\* leaves in force, and goes on when that fails.
Pause ==
  /\ bound /\ left.pauses > 0
  /\ \E s \in Scopes : paused' = IF s \in paused THEN paused \ {s} ELSE paused \cup {s}
  /\ \/ pauses' = paused' /\ unsaved' = FALSE /\ left' = [left EXCEPT !.pauses = @ - 1]
     \/ /\ left.faults > 0 /\ left' = [left EXCEPT !.pauses = @ - 1, !.faults = @ - 1]
        /\ unsaved' = TRUE /\ UNCHANGED pauses
  /\ UNCHANGED <<lists, lastId, assigned, rules, groups, disk, origin, installed, bound, job, waiting, adding, kick>>
  /\ UNCHANGED <<from, said, unbuilt, unmarked, loose, rebound>>

\* PausedUntil and prune: the time a pause was for has passed.
PauseEnds ==
  /\ \E s \in paused \cup pauses : paused' = paused \ {s} /\ pauses' = pauses \ {s}
  /\ UNCHANGED <<lists, lastId, assigned, rules, groups, disk, origin, installed, bound, job, waiting, adding, kick, left, history>>

\* handleListRefresh: an enabled list only.
RefreshList ==
  /\ bound /\ Spend("ops")
  /\ \E i \in DOMAIN lists : lists[i].enabled /\ waiting' = waiting \cup {Task("one", i)}
  /\ UNCHANGED <<store, adding, kick, history>> /\ Free

\* Mutant: the ticker recompiles and downloads nothing.
TickRecompiles ==
  /\ bound /\ Recompile \notin waiting
  /\ waiting' = waiting \cup {Recompile}
  /\ UNCHANGED <<store, adding, kick, left, history>> /\ Free

\* handleRefresh, and the ticker of Run.
Tick ==
  /\ bound /\ RefreshAll \notin waiting
  /\ waiting' = waiting \cup {RefreshAll}
  /\ UNCHANGED <<store, adding, kick, left, history>> /\ Free

Fetching(i) == i \in job.todo

\* ImportBundle, on lists: rows keep the ids of the main and the refresh
\* state of this box, and take the URL, the kind and the switch of the main.
ImportBundle ==
  /\ bound /\ Spend("imports")
  /\ \E i \in Ids, url \in Urls, kind \in Kinds, on \in BOOLEAN :
       LET old == i \in DOMAIN lists
           row == IF old THEN lists[i] ELSE Row(url, kind) IN
       /\ lists' = [j \in {i} |-> [row EXCEPT !.url = url, !.kind = kind, !.enabled = on]]
       /\ assigned' = Groups \X {i}
       /\ lastId' = IF i > lastId THEN i ELSE lastId
       /\ pauses' \in {{}, {None}}
       /\ rebound' = IF (file[i] # None \/ Fetching(i)) /\ (~old \/ lists[i].url # url \/ lists[i].kind # kind)
                     THEN rebound \cup {i} ELSE rebound
  /\ waiting' = waiting \cup {Task("import", 0)}
  /\ UNCHANGED <<rules, groups, adding, kick, from, said, unbuilt, unsaved, unmarked, loose>> /\ Free

\* loadPauses: a row that cannot be read leaves what is in force.
loadPauses ==
  \/ paused' = pauses /\ unsaved' = FALSE /\ UNCHANGED left
  \/ Spend("faults") /\ unsaved' = TRUE /\ UNCHANGED paused

\* The rest of the reloads after an import, and kickFirstDownload.
KickFirstDownload ==
  /\ kick
  /\ kick' = FALSE
  /\ loadPauses
  /\ waiting' = IF \E i \in DOMAIN lists : lists[i].enabled /\ ~lists[i].refreshed THEN waiting \cup {RefreshAll} ELSE waiting
  /\ UNCHANGED <<store, disk, origin, installed, bound, job, adding, from, said, unbuilt, unmarked, loose, rebound>>

-----------------------------------------------------------------------------
(* A pass.  It holds mu from its first read to the swap.                   *)

\* Recompile: the copies on disk, for the lists enabled when it looked.
FromCache(rows) == {[id |-> i, kind |-> rows[i].kind, text |-> file[i]] : i \in {j \in DOMAIN rows : rows[j].enabled /\ file[j] # None}}

Pass(t, todo, compiled) ==
  [task |-> t, pc |-> IF todo = {} THEN "groups" ELSE "fetch", rows |-> lists, todo |-> todo, got |-> None,
   failed |-> FALSE, compiled |-> compiled, groups |-> {}, picked |-> None, sets |-> [g \in Groups |-> None]]

\* The first read, of every list row.
Begin ==
  /\ job = Idle
  /\ \E t \in waiting :
       /\ waiting' = waiting \ {t}
       /\ job' = CASE t.kind \in {"all", "added"} -> Pass(t, {i \in DOMAIN lists : lists[i].enabled}, {})
                   [] t.kind = "one" -> IF t.id \in DOMAIN lists THEN Pass(t, {t.id}, {}) ELSE Idle
                   [] OTHER -> Pass(t, {}, FromCache(lists))
  /\ UNCHANGED <<store, disk, origin, installed, paused, bound, adding, kick, left, history>>

\* What follows a pass, whether it succeeded or not.  A process that starts
\* restores the pauses before it listens, if it can read them.
Followed(t) ==
  /\ bound' = (bound \/ t.kind = "start")
  /\ \/ t.kind = "start" /\ paused' = pauses /\ unsaved' = FALSE
     \/ t.kind = "start" /\ left.faults > 0 /\ unsaved' = TRUE /\ UNCHANGED paused
     \/ t.kind # "start" /\ UNCHANGED <<paused, unsaved>>
  /\ waiting' = IF t.kind = "start" THEN waiting \cup {RefreshAll} ELSE waiting
  /\ kick' = (kick \/ t.kind = "import")

\* A statement fails, before anything is installed.
PassFails ==
  /\ job.pc \in {"groups", "lists", "rules"} /\ Spend("faults")
  /\ job' = Idle /\ unbuilt' = TRUE /\ Followed(job.task)
  /\ UNCHANGED <<store, disk, origin, installed, adding, from, said, unmarked, loose, rebound>>

Fetched == Min(job.todo)

\* The answer to a conditional request: not modified, or a body that
\* replaces the copy.
Confirms(i) == LET t == origin[job.rows[i].url] IN
  t # None /\ file[i] # None /\ etag[i] # None /\ etag[i] = TextAt[t].etag

NotModified ==
  /\ job.pc = "fetch"
  /\ LET i == Fetched IN
       /\ Confirms(i)
       /\ job' = [job EXCEPT !.pc = "mark", !.got = file[i], !.failed = FALSE]
       /\ said' = [said EXCEPT ![i] = origin[job.rows[i].url]]
  /\ UNCHANGED <<store, disk, origin, installed, paused, bound, waiting, adding, kick, left, from, unbuilt, unsaved, unmarked, loose, rebound>>

\* The body is written aside and renamed over the copy.
Download ==
  /\ job.pc = "fetch"
  /\ LET i == Fetched t == origin[job.rows[i].url] IN
       /\ t # None /\ ~Confirms(i)
       /\ file' = [file EXCEPT ![i] = t]
       /\ job' = [job EXCEPT !.pc = "etag", !.got = t, !.failed = FALSE]
       /\ said' = [said EXCEPT ![i] = t] /\ from' = [from EXCEPT ![i] = job.rows[i].url]
       /\ rebound' = IF i \in DOMAIN lists /\ lists[i].url = job.rows[i].url /\ lists[i].kind = job.rows[i].kind
                     THEN rebound \ {i} ELSE rebound
  /\ UNCHANGED <<store, etag, origin, installed, paused, bound, waiting, adding, kick, left, unbuilt, unsaved, unmarked, loose>>

\* An answer without an ETag leaves the one that is there, and so does a
\* write that fails.
WriteEtag ==
  /\ job.pc = "etag"
  /\ LET i == Fetched IN
     \/ /\ TextAt[job.got].etag # None
        /\ etag' = [etag EXCEPT ![i] = TextAt[job.got].etag]
        /\ loose' = loose \ {i} /\ UNCHANGED left
     \/ /\ TextAt[job.got].etag = None \/ left.faults > 0
        /\ loose' = (IF etag[i] = None THEN loose ELSE loose \cup {i})
        /\ left' = IF TextAt[job.got].etag = None THEN left ELSE [left EXCEPT !.faults = @ - 1]
        /\ UNCHANGED etag
  /\ job' = [job EXCEPT !.pc = "mark"]
  /\ UNCHANGED <<store, file, origin, installed, paused, bound, waiting, adding, kick, from, said, unbuilt, unsaved, unmarked, rebound>>

\* Mutant: the ETag is kept of a body that did not arrive whole.
FetchFailsLate ==
  /\ job.pc = "fetch"
  /\ LET i == Fetched t == origin[job.rows[i].url] IN
       /\ t = None \/ left.faults > 0
       /\ left' = IF t = None THEN left ELSE [left EXCEPT !.faults = @ - 1]
       /\ etag' = IF t = None THEN etag ELSE [etag EXCEPT ![i] = TextAt[t].etag]
       /\ job' = [job EXCEPT !.pc = "mark", !.got = file[i], !.failed = TRUE]
  /\ UNCHANGED <<store, file, origin, installed, paused, bound, waiting, adding, kick, history>>

\* fallback: no answer, a bad status, or a body cut short or too large.
FetchFails ==
  /\ job.pc = "fetch"
  /\ LET i == Fetched t == origin[job.rows[i].url] IN
       /\ t = None \/ left.faults > 0
       /\ left' = IF t = None THEN left ELSE [left EXCEPT !.faults = @ - 1]
       /\ job' = [job EXCEPT !.pc = "mark", !.got = file[i], !.failed = TRUE]
  /\ UNCHANGED <<store, disk, origin, installed, paused, bound, waiting, adding, kick, history>>

\* refreshList, from the parsed body on.  The row may be gone by now, and a
\* failed write is logged.
Mark ==
  /\ job.pc = "mark"
  /\ LET i == Fetched
         kind == job.rows[i].kind
         rest == job.todo \ {i}
     IN /\ \/ /\ lists' = [j \in DOMAIN lists |-> IF j = i THEN Marked(lists[i], job.got, job.failed, kind) ELSE lists[j]]
              /\ unmarked' = unmarked \ {i} /\ UNCHANGED left
           \/ /\ Spend("faults")
              /\ unmarked' = unmarked \cup {i} /\ UNCHANGED lists
        /\ IF rest = {} /\ job.task.kind = "one"
           THEN job' = Idle /\ waiting' = waiting \cup {Recompile}
           ELSE /\ job' = [job EXCEPT !.pc = IF rest = {} THEN "groups" ELSE "fetch", !.todo = rest,
                             !.compiled = IF job.got = None THEN @ ELSE @ \cup {[id |-> i, kind |-> kind, text |-> job.got]}]
                /\ UNCHANGED waiting
  /\ UNCHANGED <<lastId, assigned, rules, groups, pauses, disk, origin, installed, paused, bound, adding, kick, from, said, unbuilt, unsaved, loose, rebound>>

\* install: the enabled groups, and for each its lists and its rules.
ReadGroups ==
  /\ job.pc = "groups"
  /\ job' = [job EXCEPT !.pc = IF groups = {} THEN "publish" ELSE "lists", !.groups = groups]
  /\ UNCHANGED <<store, disk, origin, installed, paused, bound, waiting, adding, kick, left, history>>

ReadLists ==
  /\ job.pc = "lists"
  /\ \E g \in job.groups :
       job' = [job EXCEPT !.pc = "rules", !.picked = [group |-> g, lists |-> {c \in job.compiled : <<g, c.id>> \in assigned}]]
  /\ UNCHANGED <<store, disk, origin, installed, paused, bound, waiting, adding, kick, left, history>>

ReadRules ==
  /\ job.pc = "rules"
  /\ LET g == job.picked.group IN
       job' = [job EXCEPT !.pc = IF job.groups = {g} THEN "publish" ELSE "lists", !.groups = @ \ {g},
                          !.sets[g] = [rules |-> rules[g], lists |-> job.picked.lists]]
  /\ UNCHANGED <<store, disk, origin, installed, paused, bound, waiting, adding, kick, left, history>>

\* Engine.SetGroups.
SetGroups ==
  /\ job.pc = "publish"
  /\ installed' = job.sets /\ job' = Idle /\ unbuilt' = FALSE
  /\ Followed(job.task)
  /\ UNCHANGED <<store, disk, origin, adding, left, from, said, unmarked, loose, rebound>>

-----------------------------------------------------------------------------
(* The world.                                                              *)

\* A publisher replaces its list, or cannot be reached.
Publish ==
  /\ Spend("publishes")
  /\ \E u \in Urls, t \in DOMAIN TextAt \cup {None} : t # origin[u] /\ origin' = [origin EXCEPT ![u] = t]
  /\ UNCHANGED <<store, disk, installed, paused, bound, job, waiting, adding, kick, history>>

\* The process dies and starts again: it compiles before it listens.
Crash ==
  /\ Spend("crashes")
  /\ installed' = [g \in Groups |-> None] /\ paused' = {} /\ bound' = FALSE /\ job' = Idle
  /\ waiting' = {Task("start", 0)} /\ adding' = None /\ kick' = FALSE
  /\ unbuilt' = FALSE
  /\ IF job.pc \in {"etag", "mark"} /\ ~job.failed
     THEN /\ unmarked' = unmarked \cup {Fetched}
          /\ loose' = IF job.pc = "etag" /\ etag[Fetched] # None THEN loose \cup {Fetched} ELSE loose
     ELSE UNCHANGED <<unmarked, loose>>
  /\ UNCHANGED <<store, disk, origin, from, said, unsaved, rebound>>

Handlers ==
  \/ CreateList \/ PatchList \/ DeleteList \/ PutGroupLists \/ WriteRule \/ PatchGroup \/ RefreshList \/ Pause \/ ImportBundle
Refresher ==
  \/ Begin \/ NotModified \/ Download \/ WriteEtag \/ FetchFails \/ Mark
  \/ ReadGroups \/ ReadLists \/ ReadRules \/ SetGroups

Next ==
  \/ Handlers \/ AssignNew \/ CreateEnds \/ KickFirstDownload
  \/ Tick \/ PauseEnds \/ Refresher \/ PassFails \/ Publish \/ Crash

\* Handlers and passes run on, and the ticker ticks.
Spec ==
  /\ Init /\ [][Next]_vars
  /\ WF_vars(Refresher) /\ WF_vars(Tick) /\ WF_vars(AssignNew \/ CreateEnds) /\ WF_vars(KickFirstDownload)

-----------------------------------------------------------------------------
(* Properties.                                                             *)

\* Types; group_lists only names lists that are there (its foreign keys, and
\* handleListDelete), and the copies on disk are bodies some URL served.
TypeOK ==
  /\ DOMAIN lists \subseteq 1..lastId /\ lastId \in Ids
  /\ assigned \subseteq Groups \X DOMAIN lists /\ paused \subseteq Scopes /\ pauses \subseteq Scopes
  /\ \A i \in DOMAIN lists : lists[i].status \in {"pending", "ok", "stale", "failed", "empty"}
  /\ \A i \in Ids : file[i] \in DOMAIN TextAt \cup {None}

\* What the rows and the copies ask for, list by list and entry by entry.
Covered(set, name) == \E p \in set : IsSuffix(p, name)
WantsBlocked(g, name) ==
  LET ruled(action) == \E r \in rules[g] : r.action = action /\ (IF r.regex THEN name \in r.pattern ELSE Covered(r.pattern, name))
      live == {i \in DOMAIN lists : lists[i].enabled /\ <<g, i>> \in assigned /\ file[i] # None}
      text(i) == TextAt[file[i]]
  IN /\ g \in groups /\ pauses \cap {g, None} = {} /\ ~ruled("allow")
     /\ \/ ruled("block")
        \/ /\ ~\E i \in live : lists[i].kind = "allow" /\ Covered(text(i).allow \cup text(i).block, name)
           /\ \E i \in live : lists[i].kind = "block" /\ Covered(text(i).block, name) /\ ~Covered(text(i).allow, name)

\* No pass overwrites a newer one: once the passes that writes asked for are
\* done, queries are blocked exactly as the rows and the copies on disk say,
\* pauses included, from the moment the listeners are up.
EnforcesTheRows ==
  bound /\ job = Idle /\ ~kick /\ ~unbuilt /\ ~unsaved /\ (\A t \in waiting : t.kind = "all") /\ adding = None =>
    \A g \in Groups, name \in Names : Blocked(g, name) <=> WantsBlocked(g, name)

\* The row of a list tells what its copy is worth: the entries it reports are
\* the entries it enforces, and it is "ok" or "stale" only when there are any.
\* A row that waits for its first download says nothing; one whose mark could
\* not be written (unmarked), or whose URL or kind an import replaced under the
\* copy (rebound), is told wrong until the next refresh marks it.
RowTellsTheCopy ==
  job = Idle => \A i \in DOMAIN lists :
    lists[i].status = "pending" \/ i \in unmarked \cup rebound
    \/ /\ lists[i].count = Entries(lists[i].kind, file[i])
       /\ lists[i].status \in {"ok", "stale"} <=> lists[i].count > 0

\* fetch: a copy taken for current is the text the URL served or confirmed,
\* unless its ETag file was left behind by an older copy.
CurrentIsWhatWasServed ==
  job = Idle => \A i \in DOMAIN lists :
    lists[i].status \in {"ok", "empty"} /\ i \notin loose \cup rebound \cup unmarked => file[i] = said[i]

\* In the end a subscribed list is enforced as its publisher serves it, where the
\* refresh interval is positive, unless its ETag file belongs to an older copy
\* (loose) or an import replaced its URL or kind under the copy (rebound).
Propagates ==
  <>[](\A g \in groups, i \in DOMAIN lists :
         <<g, i>> \in assigned /\ lists[i].enabled /\ origin[lists[i].url] # None /\ i \notin loose \cup rebound =>
         /\ installed[g] # None
         /\ \E c \in installed[g].lists : c.id = i /\ c.text = origin[lists[i].url])

\* kickFirstDownload: a bundle that brings a list this box has never fetched
\* starts a download, so that once passes are over every enabled list that
\* reports a refresh has a copy from its own URL.
BroughtIsFetched ==
  bound /\ job = Idle /\ ~kick /\ waiting = {} =>
    \A i \in DOMAIN lists : lists[i].enabled /\ lists[i].refreshed => from[i] = lists[i].url
=============================================================================
