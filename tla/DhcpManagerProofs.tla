------------------------- MODULE DhcpManagerProofs -------------------------
(***************************************************************************)
(* Proofs about DhcpManager, for any handlers, replicas, rows, leases and  *)
(* budgets: what the status and the published pair say of the engine, and  *)
(* what the table holds of a released address, while renders, polls, lost  *)
(* answers and restarts of both processes interleave.                      *)
(***************************************************************************)
EXTENDS DhcpManager, FiniteSetTheorems, WellFoundedInduction, TLAPS

EngineAnswers == {"ok", "refused", "unanswered", "garbled"}
MgrFields == {"down", "downErr", "returned", "applyErr", "pollErr", "hash", "known", "mem"}
RenderFields == {"at", "who", "in", "cfg", "reply", "fresh"}

\* The records keep their fields, and a render in progress is at one of its
\* three stages with an answer of its own.
ShapeInv ==
  /\ DOMAIN mgr = MgrFields /\ "at" \in DOMAIN poll
  /\ DOMAIN kea = {"up", "running", "leases"}
  /\ apply = Idle \/ (/\ DOMAIN apply = RenderFields
                      /\ apply.at \in {"set", "reply", "record"} /\ apply.reply \in EngineAnswers)

\* The poller that renders waits for its render to end.
PollerWaits ==
  apply # Idle /\ apply.who = Poller => poll.at \in {"apply", "ifchanged"}

ManagerInv == ShapeInv /\ PollerWaits

-----------------------------------------------------------------------------
(* The pair.                                                               *)

\* What the published pair should be, by the engine's last answer.
Answered == IF mgr.applyErr \/ garbled THEN None ELSE mgr.hash.standby

\* The answer just noted is about the render being recorded.
NotedInv ==
  apply.at = "record" =>
    /\ apply.reply = "ok" => ~mgr.applyErr /\ ~garbled /\ mgr.hash = apply.cfg
    /\ apply.reply = "refused" => mgr.applyErr
    /\ apply.reply = "garbled" => garbled

\* Until an answer has been noted and not yet recorded, the pair follows the
\* last one.
PairInv ==
  mgr.hash # None /\ ~unsaved /\ ~(apply.at = "record" /\ apply.reply # "unanswered")
    => pair = Answered

-----------------------------------------------------------------------------
(* The configuration in force.                                             *)

\* A discovery and a render are still to come: a poller that is noting the
\* end of its own render has had them.
Due ==
  \/ mgr.returned \/ poll.at = "discover"
  \/ poll.at = "apply" /\ ~(apply.at = "record" /\ apply.who = Poller)

Settled == apply.at \in {"idle", "record"} /\ ~Blind /\ ~mgr.applyErr /\ ~Due

\* An engine taken to be down was found to be down.
DownInv == Settled /\ mgr.down => mgr.downErr

\* One taken to be up runs what it was given.
RunsInv == Settled /\ ~mgr.down /\ kea.up => kea.running = mgr.hash

\* The engine that said yes and has not stopped since runs what it took.
TookInv == apply.at = "reply" /\ apply.reply = "ok" /\ apply.fresh =>
             kea.up /\ kea.running = apply.cfg

ForceInv == DownInv /\ RunsInv /\ TookInv

-----------------------------------------------------------------------------
(* One step of the manager's flags.                                        *)

\* What a poll that reached the engine does to the flags: it leaves the hash
\* and the refusal alone, and asks for a render when the engine was gone.
LEMMA PolledFlags ==
  ASSUME DOMAIN mgr = MgrFields, NEW m, m \in {polled(mgr), refusedPoll(mgr)}
  PROVE  /\ DOMAIN m = MgrFields
         /\ m.hash = mgr.hash /\ m.applyErr = mgr.applyErr /\ ~m.down
         /\ m.returned <=> (mgr.returned \/ (mgr.down /\ mgr.downErr))
<1>1. CASE mgr.down /\ mgr.downErr
  BY <1>1 DEF polled, refusedPoll, cameBack, MgrFields
<1>2. CASE ~(mgr.down /\ mgr.downErr)
  BY <1>2 DEF polled, refusedPoll, cameBack, MgrFields
<1> QED
  BY <1>1, <1>2

\* What an answer does to them, and that the hash is what was answered for.
LEMMA SendFlags ==
  ASSUME DOMAIN mgr = MgrFields, apply.reply \in EngineAnswers, NEW m, m = send(mgr, apply)
  PROVE  /\ DOMAIN m = MgrFields
         /\ apply.reply = "ok" => ~m.applyErr /\ ~m.down /\ m.hash = apply.cfg
         /\ apply.reply = "refused" => m.applyErr
         /\ apply.reply = "unanswered" =>
              m.hash = mgr.hash /\ m.applyErr = mgr.applyErr /\ m.down /\ m.downErr
         /\ apply.reply = "garbled" => m = mgr
<1>1. CASE apply.reply = "ok"
  BY <1>1 DEF send, accepted, MgrFields
<1>2. CASE apply.reply = "unanswered"
  BY <1>2 DEF send, unreachable, MgrFields
<1>3. CASE apply.reply = "refused"
  <2>1. DOMAIN cameBack(mgr) = MgrFields
    BY DEF cameBack, MgrFields
  <2> QED
    BY <1>3, <2>1 DEF send, refusedConfig, MgrFields
<1>4. CASE apply.reply = "garbled"
  BY <1>4 DEF send
<1> QED
  BY <1>1, <1>2, <1>3, <1>4 DEF EngineAnswers

\* Building remembers the input; a configuration that cannot be built is a
\* refusal, and nothing is sent.
LEMMA BuildFlags ==
  ASSUME DOMAIN mgr = MgrFields, NEW who, NEW in, Build(who, in)
  PROVE  /\ DOMAIN mgr' = MgrFields
         /\ mgr'.hash = mgr.hash /\ mgr'.down = mgr.down /\ mgr'.downErr = mgr.downErr
         /\ mgr'.returned = mgr.returned
         /\ DOMAIN apply' = RenderFields /\ apply'.who = who /\ apply'.reply = "refused"
         /\ \/ apply'.at = "set" /\ mgr'.applyErr = mgr.applyErr
            \/ apply'.at = "record" /\ mgr'.applyErr
<1>1. CASE Buildable(in)
  BY <1>1 DEF Build, MgrFields, RenderFields
<1>2. CASE ~Buildable(in)
  BY <1>2 DEF Build, refuse, MgrFields, RenderFields
<1> QED
  BY <1>1, <1>2

-----------------------------------------------------------------------------
(* Every step, sorted by what it does to the manager and the engine.       *)

\* The steps that leave the manager, the engine's configuration, the render
\* and the history of both alone; the poller is where it was, or moves
\* outside the places that ask for a render.
Aside ==
  /\ UNCHANGED <<mgr, kea, pair, apply, unseen, lost, garbled, unsaved>>
  /\ poll' = poll

LEMMA AsideSteps ==
  ASSUME Next
  PROVE  \/ Aside
         \/ \E who \in Actors : Apply(who) \/ ApplyIfChanged(who) \/ ApplyUnread(who)
         \/ ConfigSet \/ Reply \/ ReplyLost \/ Rendered(TRUE) \/ Rendered(FALSE)
         \/ discover("apply") \/ Poll \/ pollFailed \/ config(TRUE) \/ config(FALSE) \/ Publish \/ Settle
         \/ \E o \in Operators : Release(o)
         \/ Grant \/ EngineStops \/ EngineStarts \/ Restart
<1>1. ASSUME NEW o \in Operators, Store(o) \/ ReleaseTable(o) \/ Validated(o) \/ ApplyAgain(o) \/ reconcileDHCP(o)
      PROVE  Aside
  BY <1>1 DEF Store, ReleaseTable, Validated, ApplyAgain, reconcileDHCP, Aside, rows, history
<1>2. ASSUME NEW x \in Replicas, BoxChanges(x) \/ Pull(x)
      PROVE  Aside
  BY <1>2 DEF BoxChanges, Pull, Aside, memory, history
<1> QED
  BY <1>1, <1>2 DEF Next, RenderStep, RenderReply, PollStep, HandlerStep

\* A render begins, or it finds that nothing has changed.
LEMMA ApplySteps ==
  ASSUME NEW who \in Actors, Apply(who) \/ ApplyIfChanged(who)
  PROVE  /\ apply = Idle /\ At(who) \in {"apply", "ifchanged"}
         /\ UNCHANGED <<kea, pair, unseen, lost, garbled, unsaved>>
         /\ \/ \E in : Build(who, in) /\ UNCHANGED poll
            \/ /\ \E mem : mgr' = [mgr EXCEPT !.mem = mem]
               /\ At(who) = "ifchanged" /\ Return(who) /\ UNCHANGED apply
<1>1. CASE Apply(who)
  BY <1>1 DEF Apply, rows, history
<1>2. CASE ApplyIfChanged(who)
  <2>1. CASE Buildable(Input(who)) /\ Render(Input(who), mgr.known) = mgr.hash
    <3>1. mgr' = [mgr EXCEPT !.mem = remember(Input(who))]
      BY <1>2, <2>1 DEF ApplyIfChanged
    <3> QED
      BY <1>2, <2>1, <3>1 DEF ApplyIfChanged, rows, history
  <2>2. CASE ~(Buildable(Input(who)) /\ Render(Input(who), mgr.known) = mgr.hash)
    BY <1>2, <2>2 DEF ApplyIfChanged, rows, history
  <2> QED
    BY <2>1, <2>2
<1> QED
  BY <1>1, <1>2

\* A page moves the poller on; an engine that does not answer is unreachable.
LEMMA PollSteps ==
  ASSUME Poll
  PROVE  /\ poll.at \in {"idle", "page"}
         /\ "at" \in DOMAIN poll' /\ poll'.at \in {"idle", "page", "config"}
         /\ UNCHANGED <<kea, pair, apply, unseen, lost, garbled, unsaved>>
         /\ (kea.up /\ mgr' = mgr) \/ (~kea.up /\ mgr' = unreachable(mgr))
<1>1. CASE kea.up
  <2>1. PICK from, got, at : at \in {"page", "config"} /\ poll' = [at |-> at, from |-> from, got |-> got]
    BY <1>1 DEF Poll
  <2> QED
    BY <1>1, <2>1 DEF Poll, rows, history
<1>2. CASE ~kea.up
  BY <1>2 DEF Poll, rows, history, Idle
<1> QED
  BY <1>1, <1>2

-----------------------------------------------------------------------------
(* The shape of the records.                                               *)

LEMMA ManagerStep ==
  ASSUME ManagerInv, [Next]_vars
  PROVE  ManagerInv'
<1> USE DEF ManagerInv, PollerWaits
<1>1. ASSUME Aside PROVE ManagerInv'
  BY <1>1 DEF Aside, ShapeInv
<1>2. ASSUME UNCHANGED vars PROVE ManagerInv'
  BY <1>2 DEF vars, rows, memory, ShapeInv
<1>3. ASSUME NEW who \in Actors, Apply(who) \/ ApplyIfChanged(who) PROVE ManagerInv'
  <2>1. CASE \E in : Build(who, in) /\ UNCHANGED poll
    <3>1. PICK in : Build(who, in) /\ UNCHANGED <<kea, poll>> /\ At(who) \in {"apply", "ifchanged"}
      BY <1>3, <2>1, ApplySteps
    <3>2. DOMAIN mgr = MgrFields
      BY DEF ShapeInv
    <3> QED
      BY <3>1, <3>2, BuildFlags DEF ShapeInv, EngineAnswers, At
  <2>2. CASE (\E mem : mgr' = [mgr EXCEPT !.mem = mem]) /\ Return(who) /\ UNCHANGED apply
    BY <1>3, <2>2, ApplySteps DEF Return, ShapeInv, Idle
  <2> QED
    BY <1>3, <2>1, <2>2, ApplySteps
<1>4. ASSUME NEW who \in Actors, ApplyUnread(who) PROVE ManagerInv'
  BY <1>4 DEF ApplyUnread, Return, ShapeInv, Idle
<1>5. ASSUME ConfigSet PROVE ManagerInv'
  <2>1. apply # Idle /\ DOMAIN apply = RenderFields
    BY <1>5 DEF ConfigSet, ShapeInv, Idle
  <2>2. /\ DOMAIN apply' = RenderFields /\ apply'.at = "reply" /\ apply'.reply \in EngineAnswers
        /\ apply'.who = apply.who
    BY <1>5, <2>1 DEF ConfigSet, RenderFields, EngineAnswers
  <2>3. DOMAIN kea' = {"up", "running", "leases"}
    BY <1>5 DEF ConfigSet, ShapeInv
  <2> QED
    BY <1>5, <2>1, <2>2, <2>3 DEF ConfigSet, ShapeInv
<1>6. ASSUME ReplyLost PROVE ManagerInv'
  BY <1>6 DEF ReplyLost, ShapeInv, RenderFields, EngineAnswers, Idle
<1>7. ASSUME Reply PROVE ManagerInv'
  <2>1. apply # Idle /\ apply.reply \in EngineAnswers /\ DOMAIN mgr = MgrFields
    BY <1>7 DEF Reply, ShapeInv, Idle
  <2>2. DOMAIN mgr' = MgrFields
    BY <1>7, <2>1, SendFlags DEF Reply
  <2> QED
    BY <1>7, <2>1, <2>2 DEF Reply, ShapeInv, RenderFields, Idle
<1>8. ASSUME NEW saved, Rendered(saved) PROVE ManagerInv'
  BY <1>8 DEF Rendered, Return, ShapeInv, Idle
<1>9. ASSUME discover("apply") PROVE ManagerInv'
  BY <1>9 DEF discover, ShapeInv, MgrFields
<1>10. ASSUME Poll PROVE ManagerInv'
  BY <1>10, PollSteps DEF unreachable, ShapeInv
<1>11. ASSUME pollFailed PROVE ManagerInv'
  <2>1. DOMAIN mgr' = MgrFields
    BY <1>11, PolledFlags DEF pollFailed, ShapeInv
  <2> QED
    BY <1>11, <2>1 DEF pollFailed, ShapeInv, Idle
<1>12. ASSUME NEW read, config(read) PROVE ManagerInv'
  BY <1>12 DEF config, ShapeInv, MgrFields
<1>13. ASSUME Publish PROVE ManagerInv'
  BY <1>13 DEF Publish, ShapeInv
<1>14. ASSUME Settle PROVE ManagerInv'
  <2>1. DOMAIN polled(mgr) = MgrFields
    BY PolledFlags DEF ShapeInv
  <2> QED
    BY <1>14, <2>1 DEF Settle, ShapeInv, Idle, Started
<1>15. ASSUME NEW o \in Operators, Release(o) PROVE ManagerInv'
  BY <1>15 DEF Release, ShapeInv
<1>16. ASSUME Grant PROVE ManagerInv'
  BY <1>16 DEF Grant, memory, ShapeInv
<1>17. ASSUME EngineStops PROVE ManagerInv'
  BY <1>17 DEF EngineStops, ShapeInv, RenderFields, Idle
<1>18. ASSUME EngineStarts PROVE ManagerInv'
  BY <1>18 DEF EngineStarts, memory, ShapeInv
<1>19. ASSUME Restart PROVE ManagerInv'
  BY <1>19 DEF Restart, NewManager, ShapeInv, MgrFields, Idle, Started
<1> QED
  BY AsideSteps, <1>1, <1>2, <1>3, <1>4, <1>5, <1>6, <1>7, <1>8, <1>9, <1>10, <1>11, <1>12, <1>13,
     <1>14, <1>15, <1>16, <1>17, <1>18, <1>19

-----------------------------------------------------------------------------
(* The steps that note no answer.                                          *)

\* A poll, a discovery or a read of the rows never touches the hash or the
\* refusal, and the render in progress stays where it is.
Bystander ==
  /\ mgr'.hash = mgr.hash /\ mgr'.applyErr = mgr.applyErr
  /\ apply'.at = apply.at /\ UNCHANGED <<pair, garbled, unsaved>>
  /\ apply.at # "idle" => apply'.reply = apply.reply /\ apply'.cfg = apply.cfg

LEMMA BystanderSteps ==
  ASSUME ManagerInv, [Next]_vars
  PROVE  \/ Bystander
         \/ \E who \in Actors : \E in : Build(who, in) /\ UNCHANGED <<pair, garbled, unsaved>> /\ apply = Idle
         \/ ConfigSet \/ Reply \/ ReplyLost \/ Rendered(TRUE) \/ Rendered(FALSE) \/ Restart
<1> USE DEF ManagerInv
<1>1. ASSUME Aside \/ UNCHANGED vars PROVE Bystander
  BY <1>1 DEF Aside, Bystander, vars, rows, memory, history
<1>2. ASSUME NEW who \in Actors, Apply(who) \/ ApplyIfChanged(who)
      PROVE  Bystander \/ \E in : Build(who, in) /\ UNCHANGED <<pair, garbled, unsaved>> /\ apply = Idle
  <2>1. CASE (\E mem : mgr' = [mgr EXCEPT !.mem = mem]) /\ UNCHANGED apply
    BY <1>2, <2>1, ApplySteps DEF Bystander, ShapeInv, MgrFields
  <2> QED
    BY <1>2, <2>1, ApplySteps
<1>3. ASSUME NEW who \in Actors, ApplyUnread(who) PROVE Bystander
  BY <1>3 DEF ApplyUnread, Bystander, rows
<1>4. ASSUME discover("apply") PROVE Bystander
  BY <1>4 DEF discover, Bystander, rows, history, ShapeInv, MgrFields
<1>5. ASSUME Poll PROVE Bystander
  BY <1>5, PollSteps DEF unreachable, Bystander, ShapeInv, MgrFields
<1>6. ASSUME pollFailed PROVE Bystander
  <2>1. mgr'.hash = mgr.hash /\ mgr'.applyErr = mgr.applyErr
    BY <1>6, PolledFlags DEF pollFailed, ShapeInv
  <2> QED
    BY <1>6, <2>1 DEF pollFailed, Bystander, rows, history
<1>7. ASSUME NEW read, config(read) PROVE Bystander
  BY <1>7 DEF config, Bystander, rows, history, ShapeInv, MgrFields
<1>8. ASSUME Publish PROVE Bystander
  BY <1>8 DEF Publish, Bystander, rows
<1>9. ASSUME Settle PROVE Bystander
  <2>1. /\ DOMAIN polled(mgr) = MgrFields
        /\ polled(mgr).hash = mgr.hash /\ polled(mgr).applyErr = mgr.applyErr
    BY PolledFlags DEF ShapeInv
  <2> QED
    BY <1>9, <2>1 DEF Settle, Bystander, rows, history, MgrFields
<1>10. ASSUME NEW o \in Operators, Release(o) PROVE Bystander
  BY <1>10 DEF Release, Bystander, rows, history
<1>11. ASSUME Grant PROVE Bystander
  BY <1>11 DEF Grant, Bystander, rows, memory
<1>12. ASSUME EngineStops PROVE Bystander
  <2>1. apply'.at = apply.at /\ (apply.at # "idle" => apply'.reply = apply.reply /\ apply'.cfg = apply.cfg)
    BY <1>12 DEF EngineStops, ShapeInv, Idle, RenderFields
  <2> QED
    BY <1>12, <2>1 DEF EngineStops, Bystander, rows, history
<1>13. ASSUME EngineStarts PROVE Bystander
  BY <1>13 DEF EngineStarts, Bystander, rows, memory
<1> QED
  BY AsideSteps, <1>1, <1>2, <1>3, <1>4, <1>5, <1>6, <1>7, <1>8, <1>9, <1>10, <1>11, <1>12, <1>13

-----------------------------------------------------------------------------
(* The pair follows the engine's last answer.                              *)

LEMMA PairStep ==
  ASSUME ManagerInv, NotedInv, PairInv, [Next]_vars
  PROVE  NotedInv' /\ PairInv'
<1> USE DEF ManagerInv, NotedInv, PairInv, Answered
<1>1. CASE Bystander
  <2>1. NotedInv'
    BY <1>1 DEF Bystander
  <2>2. PairInv'
    BY <1>1 DEF Bystander, ShapeInv, Idle
  <2> QED
    BY <2>1, <2>2
<1>2. ASSUME NEW who \in Actors, NEW in, Build(who, in), UNCHANGED <<pair, garbled, unsaved>>, apply = Idle
      PROVE  NotedInv' /\ PairInv'
  <2>1. /\ mgr'.hash = mgr.hash /\ apply'.reply = "refused"
        /\ \/ apply'.at = "set" /\ mgr'.applyErr = mgr.applyErr
           \/ apply'.at = "record" /\ mgr'.applyErr
    BY <1>2, BuildFlags DEF ShapeInv
  <2> QED
    BY <1>2, <2>1 DEF Idle
<1>3. CASE ConfigSet
  <2>1. apply'.at = "reply" /\ UNCHANGED <<mgr, pair, garbled, unsaved>>
    BY <1>3 DEF ConfigSet, ShapeInv, RenderFields, Idle, rows
  <2> QED
    BY <1>3, <2>1 DEF ConfigSet
<1>4. CASE ReplyLost
  BY <1>4 DEF ReplyLost, ShapeInv, RenderFields, Idle, rows, history
<1>5. CASE Reply
  <2>1. DOMAIN mgr = MgrFields /\ apply.reply \in EngineAnswers /\ DOMAIN apply = RenderFields
    BY <1>5 DEF Reply, ShapeInv, Idle
  <2>2. apply'.at = "record" /\ apply'.reply = apply.reply /\ apply'.cfg = apply.cfg
    BY <1>5, <2>1 DEF Reply, RenderFields
  <2>3. /\ apply.reply = "ok" => ~mgr'.applyErr /\ mgr'.hash = apply.cfg
        /\ apply.reply = "refused" => mgr'.applyErr
        /\ apply.reply = "unanswered" => mgr'.hash = mgr.hash /\ mgr'.applyErr = mgr.applyErr
    BY <1>5, <2>1, SendFlags DEF Reply
  <2>4. /\ apply.reply \in {"ok", "refused"} => garbled' = FALSE
        /\ apply.reply = "garbled" => garbled' = TRUE
        /\ apply.reply = "unanswered" => (garbled' <=> garbled)
    BY <1>5 DEF Reply
  <2> QED
    BY <1>5, <2>2, <2>3, <2>4 DEF Reply, rows
<1>6. ASSUME NEW saved \in BOOLEAN, Rendered(saved)
      PROVE  NotedInv' /\ PairInv'
  <2>1. apply'.at = "idle" /\ UNCHANGED mgr /\ apply.reply \in EngineAnswers
    BY <1>6 DEF Rendered, Idle, ShapeInv
  <2>2. CASE ~saved
    BY <1>6, <2>1, <2>2 DEF Rendered
  <2>3. CASE saved /\ apply.reply = "unanswered"
    BY <1>6, <2>1, <2>3 DEF Rendered, recordHAPair
  <2>4. CASE saved /\ apply.reply # "unanswered"
    BY <1>6, <2>1, <2>4 DEF Rendered, recordHAPair, EngineAnswers
  <2> QED
    BY <2>2, <2>3, <2>4
<1>7. CASE Restart
  BY <1>7 DEF Restart, NewManager, Idle
<1> QED
  BY BystanderSteps, <1>1, <1>2, <1>3, <1>4, <1>5, <1>6, <1>7

-----------------------------------------------------------------------------
(* The engine runs what the manager says it runs.                          *)

LEMMA ForceStep ==
  ASSUME ManagerInv, ForceInv, [Next]_vars
  PROVE  ForceInv'
<1> USE DEF ManagerInv, ForceInv, DownInv, RunsInv, TookInv, Settled, Due, Blind
<1>1. ASSUME Aside \/ UNCHANGED vars PROVE ForceInv'
  BY <1>1 DEF Aside, vars, rows, memory, history
<1>2. ASSUME NEW who \in Actors, Apply(who) \/ ApplyIfChanged(who) PROVE ForceInv'
  <2>1. ASSUME NEW in, Build(who, in) PROVE ForceInv'
    <3>1. apply'.at = "set" \/ (apply'.at = "record" /\ mgr'.applyErr)
      BY <2>1, BuildFlags DEF ShapeInv
    <3> QED
      BY <3>1
  <2>2. ASSUME NEW mem, mgr' = [mgr EXCEPT !.mem = mem], At(who) = "ifchanged", Return(who), UNCHANGED apply
        PROVE  ForceInv'
    <3>1. /\ mgr'.hash = mgr.hash /\ mgr'.applyErr = mgr.applyErr /\ mgr'.returned = mgr.returned
          /\ mgr'.down = mgr.down /\ mgr'.downErr = mgr.downErr
      BY <2>2 DEF ShapeInv, MgrFields
    <3>2. poll.at \in {"discover", "apply"} => poll'.at = poll.at
      BY <2>2 DEF Return, At, Idle
    <3>3. apply = Idle /\ UNCHANGED <<kea, unseen, lost, garbled>>
      BY <1>2, ApplySteps
    <3> QED
      BY <2>2, <3>1, <3>2, <3>3 DEF Idle
  <2> QED
    BY <1>2, <2>1, <2>2, ApplySteps
<1>3. ASSUME NEW who \in Actors, ApplyUnread(who) PROVE ForceInv'
  <2>1. CASE who = Poller
    BY <1>3, <2>1 DEF ApplyUnread, Idle
  <2>2. CASE who # Poller
    BY <1>3, <2>2 DEF ApplyUnread, Return
  <2> QED
    BY <2>1, <2>2
<1>4. ASSUME ConfigSet PROVE ForceInv'
  <2>1. apply # Idle /\ DOMAIN apply = RenderFields /\ DOMAIN kea = {"up", "running", "leases"}
    BY <1>4 DEF ConfigSet, ShapeInv, Idle
  <2>2. apply'.at = "reply" /\ (apply'.reply = "ok" => kea'.up /\ kea'.running = apply'.cfg)
    BY <1>4, <2>1 DEF ConfigSet, RenderFields
  <2> QED
    BY <2>2
<1>5. ASSUME ReplyLost PROVE ForceInv'
  BY <1>5 DEF ReplyLost, ShapeInv, RenderFields, Idle
<1>6. ASSUME Reply PROVE ForceInv'
  <2>1. DOMAIN mgr = MgrFields /\ apply.reply \in EngineAnswers /\ DOMAIN apply = RenderFields
    BY <1>6 DEF Reply, ShapeInv, Idle
  <2>2. apply'.at = "record"
    BY <1>6, <2>1 DEF Reply, RenderFields
  <2>3. /\ apply.reply = "ok" => ~mgr'.down /\ mgr'.hash = apply.cfg
        /\ apply.reply = "refused" => mgr'.applyErr
        /\ apply.reply = "unanswered" => mgr'.down /\ mgr'.downErr
        /\ apply.reply = "garbled" => garbled'
    BY <1>6, <2>1, SendFlags DEF Reply
  <2> QED
    BY <1>6, <2>1, <2>2, <2>3 DEF Reply, EngineAnswers
<1>7. ASSUME NEW saved \in BOOLEAN, Rendered(saved) PROVE ForceInv'
  <2>1. apply'.at = "idle" /\ apply.at = "record" /\ apply # Idle /\ UNCHANGED <<mgr, kea, unseen, lost, garbled>>
    BY <1>7 DEF Rendered, Idle
  <2>2. CASE apply.who = Poller
    BY <1>7, <2>1, <2>2 DEF Rendered, Return, Idle, PollerWaits
  <2>3. CASE apply.who # Poller
    BY <1>7, <2>1, <2>3 DEF Rendered, Return
  <2> QED
    BY <2>2, <2>3
<1>8. ASSUME discover("apply") PROVE ForceInv'
  <2>1. /\ mgr'.hash = mgr.hash /\ mgr'.applyErr = mgr.applyErr /\ mgr'.returned = mgr.returned
        /\ mgr'.down = mgr.down /\ mgr'.downErr = mgr.downErr
    BY <1>8 DEF discover, ShapeInv, MgrFields
  <2>2. poll.at = "discover" /\ poll'.at = "apply" /\ UNCHANGED <<kea, apply, unseen, lost, garbled>>
    BY <1>8 DEF discover, history
  <2>3. ~(apply.at = "record" /\ apply.who = Poller)
    BY <2>2 DEF PollerWaits, Idle
  <2> QED
    BY <2>1, <2>2, <2>3
<1>9. ASSUME Poll PROVE ForceInv'
  <2>1. CASE mgr' = mgr
    BY <1>9, <2>1, PollSteps
  <2>2. CASE mgr' = unreachable(mgr)
    BY <1>9, <2>2, PollSteps DEF unreachable, ShapeInv, MgrFields
  <2> QED
    BY <1>9, <2>1, <2>2, PollSteps
<1>10. ASSUME pollFailed PROVE ForceInv'
  <2>1. /\ mgr'.hash = mgr.hash /\ mgr'.applyErr = mgr.applyErr /\ ~mgr'.down
        /\ mgr'.returned <=> (mgr.returned \/ (mgr.down /\ mgr.downErr))
    BY <1>10, PolledFlags DEF pollFailed, ShapeInv
  <2> QED
    BY <1>10, <2>1 DEF pollFailed, history
<1>11. ASSUME NEW read \in BOOLEAN, config(read) PROVE ForceInv'
  <2>1. /\ mgr'.hash = mgr.hash /\ mgr'.applyErr = mgr.applyErr /\ mgr'.returned = mgr.returned
        /\ mgr'.down = mgr.down /\ mgr'.downErr = mgr.downErr
    BY <1>11 DEF config, ShapeInv, MgrFields
  <2> QED
    BY <1>11, <2>1 DEF config, history
<1>12. ASSUME Publish PROVE ForceInv'
  BY <1>12 DEF Publish
<1>13. ASSUME Settle PROVE ForceInv'
  <2>1. /\ DOMAIN polled(mgr) = MgrFields
        /\ polled(mgr).hash = mgr.hash /\ polled(mgr).applyErr = mgr.applyErr /\ ~polled(mgr).down
        /\ polled(mgr).returned <=> (mgr.returned \/ (mgr.down /\ mgr.downErr))
    BY PolledFlags DEF ShapeInv
  <2>2. mgr'.hash = mgr.hash /\ mgr'.applyErr = mgr.applyErr /\ ~mgr'.down
    BY <1>13, <2>1 DEF Settle, MgrFields
  <2>3. CASE polled(mgr).returned
    <3>1. poll'.at = "discover"
      BY <1>13, <2>3 DEF Settle, Started
    <3> QED
      BY <1>13, <3>1 DEF Settle, history
  <2>4. CASE ~polled(mgr).returned
    BY <1>13, <2>1, <2>2, <2>4 DEF Settle, history
  <2> QED
    BY <2>3, <2>4
<1>14. ASSUME NEW o \in Operators, Release(o) PROVE ForceInv'
  BY <1>14 DEF Release, history, ShapeInv
<1>15. ASSUME Grant PROVE ForceInv'
  BY <1>15 DEF Grant, memory, ShapeInv
<1>16. ASSUME EngineStops PROVE ForceInv'
  <2>1. ~kea'.up /\ kea'.running = kea.running /\ UNCHANGED <<mgr, poll, unseen, lost, garbled>>
    BY <1>16 DEF EngineStops, ShapeInv, history
  <2>2. apply'.at = apply.at /\ (apply.at = "record" => apply' = apply) /\ (apply.at = "reply" => ~apply'.fresh)
    BY <1>16 DEF EngineStops, ShapeInv, Idle, RenderFields
  <2> QED
    BY <2>1, <2>2
<1>17. ASSUME EngineStarts PROVE ForceInv'
  BY <1>17 DEF EngineStarts, memory, ShapeInv
<1>18. ASSUME Restart PROVE ForceInv'
  BY <1>18 DEF Restart, Started, Idle
<1> QED
  BY AsideSteps, <1>1, <1>2, <1>3, <1>4, <1>5, <1>6, <1>7, <1>8, <1>9, <1>10, <1>11, <1>12, <1>13,
     <1>14, <1>15, <1>16, <1>17, <1>18

-----------------------------------------------------------------------------
(* The theorems.                                                           *)

LEMMA InitHolds ==
  ASSUME Init
  PROVE  ManagerInv /\ NotedInv /\ PairInv /\ ForceInv
<1>1. mgr = NewManager /\ poll = Started /\ apply = Idle
  BY DEF Init
<1>2. DOMAIN kea = {"up", "running", "leases"}
  BY DEF Init
<1>3. ManagerInv
  BY <1>1, <1>2 DEF ManagerInv, ShapeInv, PollerWaits, NewManager, Started, MgrFields
<1>4. NotedInv /\ PairInv
  BY <1>1 DEF NotedInv, PairInv, NewManager, Idle
<1>5. ForceInv
  BY <1>1 DEF ForceInv, DownInv, RunsInv, TookInv, Settled, Due, Started, Idle
<1> QED
  BY <1>3, <1>4, <1>5

\* The pair the main publishes is the one in the configuration its engine last
\* answered for, and none when that was refused or the last answer could not be
\* read, for any number of handlers and replicas, whatever answers are lost or
\* garbled and whoever restarts (recordHAPair, send).  Other goroutines move the manager's flags between the answer and its
\* record: none of them touches what the pair is computed from.
THEOREM PairFollowsTheEngine == Spec => []PairIsTheEngines
<1>1. ManagerInv /\ NotedInv /\ PairInv /\ [Next]_vars => (ManagerInv /\ NotedInv /\ PairInv)'
  BY ManagerStep, PairStep
<1>2. PairInv => PairIsTheEngines
  BY DEF PairInv, PairIsTheEngines, Answered, Idle
<1> QED
  BY InitHolds, <1>1, <1>2, PTL DEF Spec

\* The status reads "ok" of an engine that is up only when the engine runs the
\* configuration it was last given, a render is owed, or the manager is blind:
\* the engine restarted between two exchanges, the render a noticed restart was
\* owed could not read its rows, or the last answer did not decode (the one
\* owner each of the flags has: cameBack, unreachable, accepted, polled,
\* refusedPoll).
THEOREM OkIsInForce == Spec => []OkMeansInForce
<1>1. ManagerInv /\ ForceInv /\ [Next]_vars => (ManagerInv /\ ForceInv)'
  BY ManagerStep, ForceStep
<1>2. ForceInv => OkMeansInForce
  BY DEF ForceInv, RunsInv, Settled, Due, Blind, OkMeansInForce, Owed, Status, Idle
<1> QED
  BY InitHolds, <1>1, <1>2, PTL DEF Spec

-----------------------------------------------------------------------------
(* Induction, and loops.                                                   *)

\* Induction, with a set for the predicate.
LEMMA Induction ==
  ASSUME NEW S, 0 \in S, \A k \in Nat : k \in S => k + 1 \in S
  PROVE  \A k \in Nat : k \in S
<1> DEFINE R == OpToRel(<, Nat)
<1>1. IsWellFoundedOn(R, Nat)
  BY NatLessThanWellFounded
<1>2. \A x, y \in Nat : y < x => <<y, x>> \in R
  BY DEF OpToRel
<1> HIDE DEF R
<1> SUFFICES ASSUME Nat \ S # {} PROVE FALSE
  OBVIOUS
<1>3. PICK x \in Nat \ S : \A y \in Nat \ S : ~ (<<y, x>> \in R)
  BY <1>1, WFMin
<1>4. \A y \in Nat \ S : ~(y < x)
  BY <1>2, <1>3
<1>5. x # 0 /\ x - 1 \in Nat
  BY <1>3
<1> QED BY <1>3, <1>4, <1>5

\* A loop of n passes over values of X: its value after each of them.
Run(f, X, a, n, step) == f \in [0..n -> X] /\ f[0] = a /\ \A k \in 1..n : f[k] = step[k][f[k - 1]]
CanRun(X, a, n, step) == \E f : Run(f, X, a, n, step)

\* Such a loop has a run.
LEMMA Iteration ==
  ASSUME NEW X, NEW a \in X, NEW n \in Nat, NEW step \in [1..n -> [X -> X]]
  PROVE  CanRun(X, a, n, step)
<1> DEFINE Runs(m) == \E f \in [0..m -> X] : f[0] = a /\ \A k \in 1..m : f[k] = step[k][f[k - 1]]
<1> DEFINE S == {m \in Nat : m <= n => Runs(m)}
<1>1. 0 \in S
  <2> DEFINE g == [k \in 0..0 |-> a]
  <2>1. g \in [0..0 -> X] /\ g[0] = a
    OBVIOUS
  <2> HIDE DEF g
  <2>2. Runs(0)
    BY <2>1
  <2> QED BY <2>2
<1>2. ASSUME NEW m \in Nat, m \in S PROVE m + 1 \in S
  <2> SUFFICES ASSUME m + 1 <= n PROVE Runs(m + 1)
    OBVIOUS
  <2>1. PICK f \in [0..m -> X] : f[0] = a /\ \A k \in 1..m : f[k] = step[k][f[k - 1]]
    BY <1>2
  <2> DEFINE g == [k \in 0..m + 1 |-> IF k = m + 1 THEN step[m + 1][f[m]] ELSE f[k]]
  <2>2. step[m + 1] \in [X -> X] /\ f[m] \in X
    OBVIOUS
  <2>3. g \in [0..m + 1 -> X] /\ g[0] = a
    BY <2>1, <2>2
  <2>4. \A k \in 1..m + 1 : g[k] = step[k][g[k - 1]]
    BY <2>1
  <2> HIDE DEF g
  <2> QED BY <2>3, <2>4
<1> HIDE DEF S
<1>3. n \in S
  BY <1>1, <1>2, Induction
<1> QED BY <1>3 DEF S, Run, CanRun

-----------------------------------------------------------------------------
(* The operators of the table.                                             *)

\* What a scan does with one more entry.
Better(t, field, key, i, h) == IF t[i][field] # key \/ (h # 0 /\ ~outranks(t[i], t[h])) THEN h ELSE i
Scans(t, field, key, f) == f = [i \in 0..Len(t) |-> IF i = 0 THEN 0 ELSE Better(t, field, key, i, f[i - 1])]
ScanOf(t, field, key) == CHOOSE f : Scans(t, field, key, f)

\* Scan goes through the table one entry at a time.
LEMMA ScanIs ==
  ASSUME NEW t, Len(t) \in Nat, NEW field, NEW key
  PROVE  /\ Scan(t, field, key) = ScanOf(t, field, key)[Len(t)] /\ ScanOf(t, field, key)[0] = 0
         /\ \A k \in 1..Len(t) : ScanOf(t, field, key)[k] = Better(t, field, key, k, ScanOf(t, field, key)[k - 1])
<1> DEFINE n == Len(t)
<1> DEFINE X == 0..n
<1> DEFINE step == [k \in 1..n |-> [x \in X |-> Better(t, field, key, k, x)]]
<1>1. n \in Nat /\ step \in [1..n -> [X -> X]] /\ 0 \in X
  BY DEF Better
<1>2. PICK f \in [0..n -> X] : f[0] = 0 /\ \A k \in 1..n : f[k] = step[k][f[k - 1]]
  <2>1. CanRun(X, 0, n, step)
    <3> HIDE DEF X, n, step
    <3> QED BY <1>1, Iteration
  <2> HIDE DEF X, n, step
  <2> QED BY <2>1 DEF CanRun, Run
<1>3. ASSUME NEW k \in 1..n PROVE f[k] = Better(t, field, key, k, f[k - 1])
  <2>1. f[k - 1] \in X
    BY <1>1
  <2>2. step[k] = [x \in X |-> Better(t, field, key, k, x)]
    OBVIOUS
  <2> QED BY <1>2, <2>1, <2>2
<1> HIDE DEF step
<1>4. Scans(t, field, key, f)
  <2>1. \A k \in 0..n : f[k] = IF k = 0 THEN 0 ELSE Better(t, field, key, k, f[k - 1])
    BY <1>1, <1>2, <1>3
  <2>2. f = [k \in 0..n |-> f[k]]
    OBVIOUS
  <2>3. f = [k \in 0..n |-> IF k = 0 THEN 0 ELSE Better(t, field, key, k, f[k - 1])]
    BY <2>1, <2>2
  <2> QED BY <2>3 DEF Scans
<1> DEFINE h == ScanOf(t, field, key)
<1>5. Scans(t, field, key, h)
  BY <1>4 DEF ScanOf
<1> HIDE DEF h
<1>6. h[0] = 0 /\ \A k \in 1..n : h[k] = Better(t, field, key, k, h[k - 1])
  BY <1>1, <1>5 DEF Scans
<1>7. Scan(t, field, key) = h[n]
  BY DEF Scan, h, ScanOf, Scans, Better
<1> QED BY <1>6, <1>7 DEF h

\* A table whose entries can be ranked.
Timed(t) == Len(t) \in Nat /\ \A i \in 1..Len(t) : t[i].reserved \in BOOLEAN /\ t[i].expires \in Nat

\* An entry outranks another when it alone is reserved, or when they are alike
\* and it ends later.
LEMMA OutranksIs ==
  ASSUME NEW a, NEW b, a.reserved \in BOOLEAN, b.reserved \in BOOLEAN
  PROVE  outranks(a, b) <=> \/ a.reserved /\ ~b.reserved
                            \/ (a.reserved <=> b.reserved) /\ a.expires > b.expires
<1> DEFINE later == a.expires > b.expires
<1> DEFINE p == a.reserved
<1> DEFINE q == b.reserved
<1>1. outranks(a, b) = IF p # q THEN p ELSE later
  BY DEF outranks
<1>2. (p = TRUE \/ p = FALSE) /\ (q = TRUE \/ q = FALSE)
  BY Zenon
<1> HIDE DEF p, q, later
<1>3. outranks(a, b) <=> (p /\ ~q) \/ ((p <=> q) /\ later)
  BY <1>1, <1>2, Zenon
<1> QED BY <1>3, Zenon DEF p, q, later

\* Outranking is an order.
LEMMA OutranksOrders ==
  ASSUME NEW a, NEW b, NEW c, \A e \in {a, b, c} : e.reserved \in BOOLEAN /\ e.expires \in Nat
  PROVE  ~outranks(a, a) /\ (~outranks(a, b) /\ ~outranks(b, c) => ~outranks(a, c))
         /\ (outranks(a, b) => ~outranks(b, a))
<1> DEFINE Ranks(x, y) == outranks(x, y) <=> \/ x.reserved /\ ~y.reserved
                                             \/ (x.reserved <=> y.reserved) /\ x.expires > y.expires
<1>0. a.reserved \in BOOLEAN /\ b.reserved \in BOOLEAN /\ c.reserved \in BOOLEAN
  BY Zenon
<1>1. /\ outranks(a, a) <=> a.expires > a.expires
      /\ outranks(a, b) <=> (a.reserved /\ ~b.reserved) \/ ((a.reserved <=> b.reserved) /\ a.expires > b.expires)
      /\ outranks(b, a) <=> (b.reserved /\ ~a.reserved) \/ ((b.reserved <=> a.reserved) /\ b.expires > a.expires)
      /\ outranks(b, c) <=> (b.reserved /\ ~c.reserved) \/ ((b.reserved <=> c.reserved) /\ b.expires > c.expires)
      /\ outranks(a, c) <=> (a.reserved /\ ~c.reserved) \/ ((a.reserved <=> c.reserved) /\ a.expires > c.expires)
  <2>1. Ranks(a, a)
    BY <1>0, OutranksIs
  <2>2. Ranks(a, b)
    BY <1>0, OutranksIs
  <2>3. Ranks(b, a)
    BY <1>0, OutranksIs
  <2>4. Ranks(b, c)
    BY <1>0, OutranksIs
  <2>5. Ranks(a, c)
    BY <1>0, OutranksIs
  <2> QED BY <2>1, <2>2, <2>3, <2>4, <2>5, Zenon
<1> HIDE DEF Ranks
<1>2. /\ ~(a.expires > a.expires) /\ (a.expires > b.expires => ~(b.expires > a.expires))
      /\ ~(a.expires > b.expires) /\ ~(b.expires > c.expires) => ~(a.expires > c.expires)
  OBVIOUS
<1> QED BY <1>1, <1>2, Zenon

\* A scan finds an entry with the key that none with the key outranks.
LEMMA ScanFindsTheBest ==
  ASSUME NEW t, Timed(t), NEW field, NEW key, NEW i \in 1..Len(t), t[i][field] = key
  PROVE  LET j == Scan(t, field, key) IN
         j \in 1..Len(t) /\ t[j][field] = key /\ ~outranks(t[i], t[j])
<1> DEFINE n == Len(t)
<1> DEFINE h == ScanOf(t, field, key)
<1> DEFINE Best(k, j) ==
      /\ j = 0 => \A m \in 1..k : t[m][field] # key
      /\ j # 0 => j \in 1..k /\ t[j][field] = key /\ \A m \in 1..k : t[m][field] = key => ~outranks(t[m], t[j])
<1>1. n \in Nat /\ Scan(t, field, key) = h[n] /\ h[0] = 0 /\ \A k \in 1..n : h[k] = Better(t, field, key, k, h[k - 1])
  BY ScanIs DEF Timed
<1> HIDE DEF h
<1> DEFINE S == {k \in Nat : k <= n => Best(k, h[k])}
<1>2. 0 \in S
  BY <1>1
<1>3. ASSUME NEW k \in Nat, k \in S PROVE k + 1 \in S
  <2> SUFFICES ASSUME k + 1 <= n PROVE Best(k + 1, h[k + 1])
    OBVIOUS
  <2>1. h[k + 1] = Better(t, field, key, k + 1, h[k]) /\ Best(k, h[k]) /\ k + 1 \in 1..n
    BY <1>1, <1>3
  <2>2. \A m \in 1..k + 1 : m \in 1..k \/ m = k + 1
    BY <1>3
  <2>3. \A m \in 1..k + 1 : t[m].reserved \in BOOLEAN /\ t[m].expires \in Nat
    BY <1>1 DEF Timed
  <2>4. CASE t[k + 1][field] # key
    BY <2>1, <2>2, <2>4 DEF Better
  <2>5. CASE t[k + 1][field] = key /\ h[k] = 0
    <3>1. h[k + 1] = k + 1
      BY <2>1, <2>5 DEF Better
    <3>2. ~outranks(t[k + 1], t[k + 1])
      BY <2>1, <2>3, OutranksOrders
    <3> QED BY <2>1, <2>2, <2>5, <3>1, <3>2
  <2>6. CASE t[k + 1][field] = key /\ h[k] # 0 /\ ~outranks(t[k + 1], t[h[k]])
    <3>1. h[k + 1] = h[k]
      BY <2>1, <2>6 DEF Better
    <3> QED BY <2>1, <2>2, <2>6, <3>1
  <2>7. CASE t[k + 1][field] = key /\ h[k] # 0 /\ outranks(t[k + 1], t[h[k]])
    <3>1. h[k + 1] = k + 1
      BY <2>1, <2>7 DEF Better
    <3>2. ~outranks(t[k + 1], t[k + 1])
      BY <2>1, <2>3, OutranksOrders
    <3>3. h[k] \in 1..k + 1 /\ h[k] \in 1..k
      BY <2>1, <2>7
    <3>4. ASSUME NEW m \in 1..k, t[m][field] = key PROVE ~outranks(t[m], t[k + 1])
      <4>1. ~outranks(t[m], t[h[k]]) /\ ~outranks(t[h[k]], t[k + 1])
        <5>1. ~outranks(t[m], t[h[k]])
          BY <2>1, <2>7, <3>4
        <5>2. ~outranks(t[h[k]], t[k + 1])
          BY <2>1, <2>3, <2>7, <3>3, OutranksOrders
        <5> QED BY <5>1, <5>2
      <4>2. m \in 1..k + 1
        BY <1>3
      <4> QED BY <2>1, <2>3, <3>3, <4>1, <4>2, OutranksOrders
    <3> HIDE DEF outranks
    <3> QED BY <2>1, <2>2, <2>7, <3>1, <3>2, <3>4
  <2> QED BY <2>4, <2>5, <2>6, <2>7
<1>4. n \in S
  <2> HIDE DEF S
  <2> QED BY <1>1, <1>2, <1>3, Induction
<1>5. Best(n, h[n])
  BY <1>1, <1>4
<1> QED BY <1>1, <1>5

\* A new slice holds entries of the old one, at the indices that are kept.
Kept(s, some, i, x) == IF i \in some THEN Append(x, s[i]) ELSE x
KeepsIn(s, some, f) == f = [i \in 0..Len(s) |-> IF i = 0 THEN <<>> ELSE Kept(s, some, i, f[i - 1])]

\* What is kept is a sequence of them.
LEMMA KeepIs ==
  ASSUME NEW s, Len(s) \in Nat, NEW some
  PROVE  Keep(s, some) \in Seq({s[i] : i \in some \cap 1..Len(s)})
<1> DEFINE n == Len(s)
<1> DEFINE V == {s[i] : i \in some \cap 1..n}
<1> DEFINE X == Seq(V)
<1> DEFINE step == [k \in 1..n |-> [x \in X |-> Kept(s, some, k, x)]]
<1>1. n \in Nat /\ step \in [1..n -> [X -> X]] /\ <<>> \in X
  <2>1. ASSUME NEW k \in 1..n, k \in some, NEW x \in X PROVE Append(x, s[k]) \in X
    <3>1. s[k] \in V
      BY <2>1
    <3> HIDE DEF V
    <3> QED BY <3>1
  <2> HIDE DEF V
  <2>2. <<>> \in X
    OBVIOUS
  <2> HIDE DEF X
  <2> QED BY <2>1, <2>2 DEF Kept
<1>2. PICK f \in [0..n -> X] : f[0] = <<>> /\ \A k \in 1..n : f[k] = step[k][f[k - 1]]
  <2>1. CanRun(X, <<>>, n, step)
    <3> HIDE DEF X, n, step
    <3> QED BY <1>1, Iteration
  <2> HIDE DEF X, n, step
  <2> QED BY <2>1 DEF CanRun, Run
<1> HIDE DEF X
<1>3. ASSUME NEW k \in 1..n PROVE f[k] = Kept(s, some, k, f[k - 1])
  <2>1. f[k - 1] \in X
    BY <1>1
  <2>2. step[k] = [x \in X |-> Kept(s, some, k, x)]
    OBVIOUS
  <2> QED BY <1>2, <2>1, <2>2
<1> HIDE DEF step
<1>4. KeepsIn(s, some, f)
  <2>1. \A k \in 0..n : f[k] = IF k = 0 THEN <<>> ELSE Kept(s, some, k, f[k - 1])
    BY <1>1, <1>2, <1>3
  <2>2. f = [k \in 0..n |-> f[k]]
    OBVIOUS
  <2>3. f = [k \in 0..n |-> IF k = 0 THEN <<>> ELSE Kept(s, some, k, f[k - 1])]
    BY <2>1, <2>2
  <2> QED BY <2>3 DEF KeepsIn
<1> DEFINE h == CHOOSE g : KeepsIn(s, some, g)
<1>5. KeepsIn(s, some, h)
  BY <1>4
<1>6. Keep(s, some) = h[n]
  BY DEF Keep, KeepsIn, Kept
<1> HIDE DEF h
<1>7. h[0] = <<>> /\ \A k \in 1..n : h[k] = Kept(s, some, k, h[k - 1])
  BY <1>1, <1>5 DEF KeepsIn
<1> DEFINE S == {k \in Nat : k <= n => h[k] \in X}
<1>8. 0 \in S
  BY <1>1, <1>7
<1>9. ASSUME NEW k \in Nat, k \in S PROVE k + 1 \in S
  <2> SUFFICES ASSUME k + 1 <= n PROVE h[k + 1] \in X
    OBVIOUS
  <2>1. h[k] \in X /\ k + 1 \in 1..n /\ (k + 1) - 1 = k
    BY <1>1, <1>9
  <2>2. CASE k + 1 \in some
    <3>1. h[k + 1] = Append(h[k], s[k + 1])
      BY <1>7, <2>1, <2>2 DEF Kept
    <3>2. s[k + 1] \in V
      BY <2>1, <2>2
    <3> HIDE DEF V
    <3> QED BY <2>1, <3>1, <3>2 DEF X
  <2>3. CASE k + 1 \notin some
    BY <1>7, <2>1, <2>3 DEF Kept
  <2> QED BY <2>2, <2>3
<1>10. n \in S
  <2> HIDE DEF S
  <2> QED BY <1>1, <1>8, <1>9, Induction
<1> QED BY <1>1, <1>6, <1>10 DEF X

\* A bounded set of numbers has a largest one.
LEMMA MaxIs ==
  ASSUME NEW n \in Nat, NEW T \in SUBSET (0..n), T # {}
  PROVE  Max(T) \in T /\ \A y \in T : Max(T) >= y
<1> DEFINE Has(A) == \E x \in A : \A y \in A : x >= y
<1> DEFINE S == {k \in Nat : \A A \in SUBSET (0..k) : A # {} => Has(A)}
<1>1. 0 \in S
  <2>1. ASSUME NEW A \in SUBSET (0..0), A # {} PROVE Has(A)
    <3>1. \A y \in A : y = 0
      BY <2>1
    <3>2. PICK x \in A : TRUE
      BY <2>1
    <3>3. \A y \in A : x >= y
      BY <3>1
    <3> QED BY <3>3
  <2> QED BY <2>1
<1>2. ASSUME NEW k \in Nat, k \in S PROVE k + 1 \in S
  <2>1. ASSUME NEW A \in SUBSET (0..k + 1), A # {} PROVE Has(A)
    <3>1. CASE k + 1 \in A
      BY <3>1
    <3>2. CASE k + 1 \notin A
      <4>1. A \in SUBSET (0..k)
        BY <3>2
      <4> QED BY <1>2, <2>1, <4>1
    <3> QED BY <3>1, <3>2
  <2> QED BY <2>1
<1>3. n \in S
  <2> HIDE DEF S
  <2> QED BY <1>1, <1>2, Induction
<1>4. Has(T)
  BY <1>3
<1> QED BY <1>4 DEF Max

\* A finite set of numbers is bounded.
LEMMA FiniteIsBounded ==
  ASSUME NEW T \in SUBSET Nat, IsFiniteSet(T)
  PROVE  \E n \in Nat : T \subseteq 0..n
<1>1. PICK n \in Nat : ExistsBijection(1..n, T)
  BY FS_NatBijection
<1>2. PICK f \in Bijection(1..n, T) : TRUE
  BY <1>1 DEF ExistsBijection
<1>3. f \in [1..n -> T] /\ \A t \in T : \E i \in 1..n : f[i] = t
  BY <1>2 DEF Bijection, Surjection
<1> DEFINE S == {k \in Nat : k <= n => \E m \in Nat : \A i \in 1..k : f[i] <= m}
<1>4. 0 \in S
  OBVIOUS
<1>5. ASSUME NEW k \in Nat, k \in S PROVE k + 1 \in S
  <2> SUFFICES ASSUME k + 1 <= n PROVE \E m \in Nat : \A i \in 1..k + 1 : f[i] <= m
    OBVIOUS
  <2>1. PICK m \in Nat : \A i \in 1..k : f[i] <= m
    BY <1>5
  <2>2. f[k + 1] \in Nat /\ \A i \in 1..k : f[i] \in Nat
    <3>1. \A i \in 1..n : f[i] \in Nat
      BY <1>3
    <3> QED BY <3>1
  <2>3. \A i \in 1..k + 1 : i \in 1..k \/ i = k + 1
    BY <1>5
  <2>4. CASE f[k + 1] <= m
    BY <2>1, <2>3, <2>4
  <2>5. CASE f[k + 1] > m
    <3>1. \A i \in 1..k + 1 : f[i] <= f[k + 1]
      BY <2>1, <2>2, <2>3, <2>5
    <3> QED BY <2>2, <3>1
  <2>6. f[k + 1] <= m \/ f[k + 1] > m
    BY <2>2
  <2> QED BY <2>4, <2>5, <2>6
<1>6. n \in S
  <2> HIDE DEF S
  <2> QED BY <1>4, <1>5, Induction
<1>7. PICK m \in Nat : \A i \in 1..n : f[i] <= m
  BY <1>6
<1>8. T \subseteq 0..m
  BY <1>3, <1>7
<1> QED BY <1>8

\* Some lease has the smallest address.
LEMMA FirstIs ==
  ASSUME NEW A, A # {}, \A l \in A : l.ip \in Nat
  PROVE  First(A) \in A
<1> DEFINE R == OpToRel(<, Nat)
<1> DEFINE T == {l.ip : l \in A}
<1>1. IsWellFoundedOn(R, Nat)
  BY NatLessThanWellFounded
<1>2. \A x, y \in Nat : y < x => <<y, x>> \in R
  BY DEF OpToRel
<1>3. T \subseteq Nat /\ T # {}
  OBVIOUS
<1> HIDE DEF R, T
<1>4. PICK x \in T : \A y \in T : ~ (<<y, x>> \in R)
  BY <1>1, <1>3, WFMin
<1>5. ASSUME NEW y \in T PROVE x <= y
  <2>1. x \in Nat /\ y \in Nat
    BY <1>3
  <2>2. ~(y < x)
    BY <1>2, <1>4, <2>1
  <2> QED BY <2>1, <2>2
<1>6. \E l \in A : \A k \in A : l.ip <= k.ip
  BY <1>4, <1>5 DEF T
<1> QED BY <1>6 DEF First

\* The leases a page may still hold, and the page after one more pass.
Beyond(from, got) == {l \in kea.leases : l.ip > (IF got = <<>> THEN from ELSE Last(got).ip)}
Longer(from, got) == IF Beyond(from, got) = {} THEN got ELSE Append(got, First(Beyond(from, got)))
Pages(from, f) == f = [i \in 0..PageLimit |-> IF i = 0 THEN <<>> ELSE Longer(from, f[i - 1])]

\* A page is made of leases the engine holds.
LEMMA PageIs ==
  ASSUME NEW from, \A l \in kea.leases : l.ip \in Nat
  PROVE  LeasePage(from) \in Seq(kea.leases)
<1> DEFINE n == PageLimit
<1> DEFINE X == Seq(kea.leases)
<1> DEFINE step == [k \in 1..n |-> [x \in X |-> Longer(from, x)]]
<1>1. n \in Nat /\ <<>> \in X
  BY DhcpAssumption
<1>2. ASSUME NEW x \in X PROVE Longer(from, x) \in X
  <2>1. CASE Beyond(from, x) = {}
    BY <2>1 DEF Longer
  <2>2. CASE Beyond(from, x) # {}
    <3>1. Beyond(from, x) \subseteq kea.leases
      BY DEF Beyond
    <3>2. First(Beyond(from, x)) \in kea.leases
      BY <2>2, <3>1, FirstIs
    <3>3. ASSUME NEW l \in kea.leases PROVE Append(x, l) \in X
      OBVIOUS
    <3> HIDE DEF X
    <3> QED BY <2>2, <3>2, <3>3 DEF Longer
  <2> QED BY <2>1, <2>2
<1> HIDE DEF X, n
<1>3. step \in [1..n -> [X -> X]]
  BY <1>2
<1>4. PICK f \in [0..n -> X] : f[0] = <<>> /\ \A k \in 1..n : f[k] = step[k][f[k - 1]]
  <2>1. CanRun(X, <<>>, n, step)
    <3> HIDE DEF step
    <3> QED BY <1>1, <1>3, Iteration
  <2> HIDE DEF step
  <2> QED BY <2>1 DEF CanRun, Run
<1>5. ASSUME NEW k \in 1..n PROVE f[k] = Longer(from, f[k - 1])
  <2>1. f[k - 1] \in X
    BY <1>1
  <2>2. step[k] = [x \in X |-> Longer(from, x)]
    OBVIOUS
  <2> QED BY <1>4, <2>1, <2>2
<1> HIDE DEF step
<1>6. Pages(from, f)
  <2>1. \A k \in 0..n : f[k] = IF k = 0 THEN <<>> ELSE Longer(from, f[k - 1])
    BY <1>1, <1>4, <1>5
  <2>2. f = [k \in 0..n |-> f[k]]
    OBVIOUS
  <2>3. f = [k \in 0..n |-> IF k = 0 THEN <<>> ELSE Longer(from, f[k - 1])]
    BY <2>1, <2>2
  <2> QED BY <2>3 DEF Pages, n
<1> DEFINE h == CHOOSE g : Pages(from, g)
<1>7. Pages(from, h)
  BY <1>6
<1>8. LeasePage(from) = h[n]
  BY DEF LeasePage, Pages, Longer, Beyond, n
<1> HIDE DEF h
<1>9. h[0] = <<>> /\ \A k \in 1..n : h[k] = Longer(from, h[k - 1])
  BY <1>1, <1>7 DEF Pages, n
<1> DEFINE S == {k \in Nat : k <= n => h[k] \in X}
<1>10. 0 \in S
  BY <1>1, <1>9
<1>11. ASSUME NEW k \in Nat, k \in S PROVE k + 1 \in S
  <2> SUFFICES ASSUME k + 1 <= n PROVE h[k + 1] \in X
    OBVIOUS
  <2>1. h[k] \in X /\ k + 1 \in 1..n /\ (k + 1) - 1 = k
    BY <1>1, <1>11
  <2> QED BY <1>2, <1>9, <2>1
<1>12. n \in S
  <2> HIDE DEF S
  <2> QED BY <1>1, <1>10, <1>11, Induction
<1> QED BY <1>1, <1>8, <1>12 DEF X

-----------------------------------------------------------------------------
(* What the operations make of the table.                                  *)

EntryFields == {"scope", "ip", "mac", "expires", "reserved", "host", "name"}

\* A table that can be searched and ranked.
TableOK(t) ==
  /\ Timed(t) /\ DOMAIN t = 1..Len(t)
  /\ \A i \in 1..Len(t) : DOMAIN t[i] = EntryFields

\* One sequence after another.
Concats(a, b, c) ==
  /\ Len(a) \in Nat /\ Len(b) \in Nat /\ Len(c) = Len(a) + Len(b) /\ DOMAIN c = 1..Len(c)
  /\ \A i \in 1..Len(c) : \/ i \in 1..Len(a) /\ c[i] = a[i]
                          \/ i - Len(a) \in 1..Len(b) /\ c[i] = b[i - Len(a)]

LEMMA ConcatIs ==
  ASSUME NEW E, NEW a \in Seq(E), NEW b \in Seq(E)
  PROVE  Concats(a, b, a \o b)
<1> DEFINE c == a \o b
<1>1. Len(a) \in Nat /\ Len(b) \in Nat /\ Len(c) = Len(a) + Len(b) /\ DOMAIN c = 1..Len(c)
  OBVIOUS
<1>2. ASSUME NEW i \in 1..Len(c)
      PROVE  (i \in 1..Len(a) /\ c[i] = a[i]) \/ (i - Len(a) \in 1..Len(b) /\ c[i] = b[i - Len(a)])
  BY <1>1
<1> HIDE DEF c
<1>3. Concats(a, b, c)
  BY <1>1, <1>2 DEF Concats
<1> QED BY <1>3 DEF c

\* A table is made of leases and of reservations nothing is leased under.
LEMMA TableFromIs ==
  ASSUME NEW got \in Seq(LeaseBodies), NEW mem, Len(mem.res) \in Nat
  PROVE  LET t == tableFrom(got, mem) IN
         /\ TableOK(t)
         /\ \A i \in 1..Len(t) : (\E k \in DOMAIN got : t[i].ip = got[k].ip) \/ (t[i].reserved /\ t[i].expires = 0)
<1> DEFINE rs == mem.res
<1> DEFINE held == Active(got)
<1> DEFINE some == DOMAIN rs \ {MatchOf(held[i], rs) : i \in DOMAIN held}
<1> DEFINE free == Keep(rs, some)
<1> DEFINE A == [i \in DOMAIN held |-> LeaseEntry(held[i], mem)]
<1> DEFINE B == [i \in DOMAIN free |-> Unleased(free[i], mem)]
<1> DEFINE EA == {LeaseEntry(l, mem) : l \in LeaseBodies}
<1> DEFINE EB == {Unleased(r, mem) : r \in {rs[i] : i \in 1..Len(rs)}}
<1> DEFINE E == EA \cup EB
<1>0. held \in Seq(LeaseBodies) /\ \A i \in DOMAIN held : \E k \in DOMAIN got : held[i] = got[k]
  <2> DEFINE on == {i \in DOMAIN got : got[i].state = "active"}
  <2> DEFINE V == {got[i] : i \in on \cap 1..Len(got)}
  <2>1. held \in Seq(V)
    <3>1. Len(got) \in Nat /\ held = Keep(got, on)
      BY DEF Active
    <3> HIDE DEF on, held
    <3> QED BY <3>1, KeepIs
  <2>2. V \subseteq LeaseBodies /\ \A l \in V : \E k \in DOMAIN got : l = got[k]
    OBVIOUS
  <2> HIDE DEF V, held
  <2> QED BY <2>1, <2>2
<1> HIDE DEF held
<1>1. free \in Seq({rs[i] : i \in 1..Len(rs)})
  <2> DEFINE V == {rs[i] : i \in some \cap 1..Len(rs)}
  <2> DEFINE W == {rs[i] : i \in 1..Len(rs)}
  <2>1. free \in Seq(V)
    <3> HIDE DEF some
    <3> QED BY KeepIs
  <2>2. V \subseteq W
    OBVIOUS
  <2> HIDE DEF V, W, free
  <2>3. free \in Seq(W)
    BY <2>1, <2>2
  <2> QED BY <2>3 DEF W
<1> HIDE DEF free
<1>2. A \in Seq(EA) /\ B \in Seq(EB) /\ Len(A) = Len(held)
  <2> HIDE DEF LeaseEntry, Unleased
  <2>1. Len(held) \in Nat /\ DOMAIN held = 1..Len(held) /\ \A i \in DOMAIN held : A[i] \in EA
    BY <1>0
  <2>2. Len(free) \in Nat /\ DOMAIN free = 1..Len(free) /\ \A i \in DOMAIN free : B[i] \in EB
    <3> DEFINE R == {rs[i] : i \in 1..Len(rs)}
    <3>1. free \in Seq(R)
      BY <1>1
    <3> HIDE DEF R
    <3>2. Len(free) \in Nat /\ DOMAIN free = 1..Len(free) /\ \A i \in DOMAIN free : free[i] \in R
      BY <3>1
    <3>3. EB = {Unleased(r, mem) : r \in R}
      BY DEF R
    <3>4. \A i \in DOMAIN free : B[i] = Unleased(free[i], mem)
      OBVIOUS
    <3> HIDE DEF B, EB
    <3> QED BY <3>2, <3>3, <3>4
  <2> HIDE DEF EA, EB
  <2> QED BY <2>1, <2>2
<1>3. tableFrom(got, mem) = A \o B
  BY DEF tableFrom, free, held
<1>4. ASSUME NEW l \in LeaseBodies
      PROVE  /\ LeaseEntry(l, mem).reserved \in BOOLEAN /\ LeaseEntry(l, mem).expires \in Nat
             /\ DOMAIN LeaseEntry(l, mem) = EntryFields /\ LeaseEntry(l, mem).ip = l.ip
  BY DhcpAssumption DEF LeaseEntry, EntryFields
<1>5. ASSUME NEW r
      PROVE  /\ Unleased(r, mem).reserved = TRUE /\ Unleased(r, mem).expires = 0
             /\ DOMAIN Unleased(r, mem) = EntryFields
  BY DEF Unleased, EntryFields
<1> DEFINE t == A \o B
<1>6. \A i \in 1..Len(A) : A[i] = LeaseEntry(held[i], mem) /\ held[i] \in LeaseBodies /\ i \in DOMAIN held
  BY <1>0, <1>2
<1>7. \A i \in 1..Len(B) : B[i] \in EB
  <2> HIDE DEF A, B, EB
  <2> QED BY <1>2
<1>8. /\ Len(A) \in Nat /\ Len(B) \in Nat /\ Len(t) = Len(A) + Len(B) /\ DOMAIN t = 1..Len(t)
      /\ \A i \in 1..Len(t) : \/ i \in 1..Len(A) /\ t[i] = A[i]
                              \/ i - Len(A) \in 1..Len(B) /\ t[i] = B[i - Len(A)]
  <2>1. A \in Seq(E) /\ B \in Seq(E)
    <3> HIDE DEF A, B, EA, EB
    <3> QED BY <1>2
  <2> HIDE DEF A, B, E
  <2>2. Concats(A, B, t)
    BY <2>1, ConcatIs
  <2> HIDE DEF t
  <2> QED BY <2>2 DEF Concats
<1> HIDE DEF A, B, t
<1>9. ASSUME NEW i \in 1..Len(t)
      PROVE  /\ t[i].reserved \in BOOLEAN /\ t[i].expires \in Nat /\ DOMAIN t[i] = EntryFields
             /\ (\E k \in DOMAIN got : t[i].ip = got[k].ip) \/ (t[i].reserved /\ t[i].expires = 0)
  <2>1. CASE i \in 1..Len(A) /\ t[i] = A[i]
    <3> DEFINE l == held[i]
    <3>1. t[i] = LeaseEntry(l, mem) /\ l \in LeaseBodies /\ \E k \in DOMAIN got : l = got[k]
      BY <1>0, <1>6, <2>1
    <3> HIDE DEF l
    <3>2. PICK k \in DOMAIN got : l = got[k]
      BY <3>1
    <3>3. t[i].ip = got[k].ip
      BY <1>4, <3>1, <3>2
    <3>4. t[i].reserved \in BOOLEAN
      BY <1>4, <3>1, Zenon
    <3>5. t[i].expires \in Nat /\ DOMAIN t[i] = EntryFields
      BY <1>4, <3>1
    <3> QED BY <3>3, <3>4, <3>5
  <2>2. CASE i - Len(A) \in 1..Len(B) /\ t[i] = B[i - Len(A)]
    <3>1. PICK r : t[i] = Unleased(r, mem)
      BY <1>7, <2>2
    <3>2. t[i].reserved = TRUE /\ t[i].expires = 0 /\ DOMAIN t[i] = EntryFields
      BY <1>5, <3>1, Zenon
    <3>3. t[i].reserved \in BOOLEAN /\ t[i].reserved
      BY <3>2, Zenon
    <3> QED BY <3>2, <3>3
  <2> QED BY <1>8, <2>1, <2>2
<1> QED BY <1>3, <1>8, <1>9 DEF TableOK, Timed, t

\* A release keeps what is held elsewhere, and of what is held there only the
\* reservations, without their leases.
LEMMA WithoutIs ==
  ASSUME NEW t, TableOK(t), NEW ip
  PROVE  LET w == without(t, ip) IN
         /\ TableOK(w)
         /\ \A j \in 1..Len(w) : \/ w[j].ip = ip /\ w[j].reserved /\ w[j].expires = 0
                                 \/ w[j].ip # ip /\ \E i \in 1..Len(t) : w[j] = t[i]
<1> DEFINE some == {i \in DOMAIN t : t[i].ip # ip \/ t[i].reserved}
<1> DEFINE V == {t[i] : i \in some \cap 1..Len(t)}
<1> DEFINE kept == Keep(t, some)
<1> DEFINE w == [i \in DOMAIN kept |-> IF kept[i].ip = ip THEN [kept[i] EXCEPT !.expires = 0] ELSE kept[i]]
<1>1. kept \in Seq(V)
  <2> HIDE DEF some
  <2> QED BY KeepIs DEF TableOK, Timed
<1>2. without(t, ip) = w
  BY DEF without
<1>3. Len(kept) \in Nat /\ DOMAIN kept = 1..Len(kept) /\ \A j \in 1..Len(kept) : kept[j] \in V
  <2> HIDE DEF V, kept
  <2> QED BY <1>1
<1> HIDE DEF kept
<1>4. Len(w) = Len(kept) /\ DOMAIN w = 1..Len(w)
  BY <1>3
<1>5. ASSUME NEW j \in 1..Len(w)
      PROVE  /\ w[j].reserved \in BOOLEAN /\ w[j].expires \in Nat /\ DOMAIN w[j] = EntryFields
             /\ \/ w[j].ip = ip /\ w[j].reserved /\ w[j].expires = 0
                \/ w[j].ip # ip /\ \E i \in 1..Len(t) : w[j] = t[i]
  <2>1. w[j] = IF kept[j].ip = ip THEN [kept[j] EXCEPT !.expires = 0] ELSE kept[j]
    BY <1>3, <1>4
  <2>2. kept[j] \in V
    BY <1>3, <1>4
  <2> HIDE DEF w
  <2>3. PICK i \in 1..Len(t) : kept[j] = t[i] /\ (t[i].ip # ip \/ t[i].reserved)
    BY <2>2
  <2>4. t[i].reserved \in BOOLEAN /\ t[i].expires \in Nat /\ DOMAIN t[i] = EntryFields
    BY DEF TableOK, Timed
  <2>5. CASE t[i].ip = ip
    <3>1. w[j] = [t[i] EXCEPT !.expires = 0] /\ t[i].reserved
      BY <2>1, <2>3, <2>5
    <3>2. w[j].reserved = t[i].reserved /\ w[j].expires = 0 /\ w[j].ip = ip /\ DOMAIN w[j] = EntryFields
      BY <2>4, <2>5, <3>1 DEF EntryFields
    <3>3. w[j].reserved \in BOOLEAN /\ w[j].reserved
      BY <2>4, <3>1, <3>2, Zenon
    <3> QED BY <3>2, <3>3
  <2>6. CASE t[i].ip # ip
    <3>1. w[j] = t[i]
      BY <2>1, <2>3, <2>6
    <3> QED BY <2>4, <2>6, <3>1
  <2> QED BY <2>5, <2>6
<1> HIDE DEF w
<1> QED BY <1>2, <1>3, <1>4, <1>5 DEF TableOK, Timed

-----------------------------------------------------------------------------
(* The rows, the leases read and the reservations remembered are lists.    *)

\* A table of rows has a largest number.
Bounded(f) == \E n \in Nat : DOMAIN f \subseteq 1..n

EditKinds == {"scope", "res", "noscope", "nores"}
OpOK(v) == (v.at = "ifchanged" => Bounded(v.in.res)) /\ (v.at = "write" => v.edit.on \in EditKinds)
PollOK(v) == v.at \in {"publish", "settle", "ifchanged"} => Bounded(v.in.res)
GotOK(v) == v.at \in {"page", "config", "publish"} => v.got \in Seq(LeaseBodies)

\* The reservations stored, and the ones a render was asked for, are finitely
\* many rows with numbers.
RowsInv ==
  /\ DOMAIN db = {"scopes", "res"} /\ Bounded(db.res) /\ PollOK(poll)
  /\ DOMAIN ops = Operators /\ \A o \in Operators : OpOK(ops[o])

\* The leases a poll has read are ones the engine held.
LeaseInv == kea.leases \subseteq LeaseBodies /\ GotOK(poll)

\* The reservations remembered are a list.
MemInv == Len(mgr.mem.res) \in Nat

\* What is left at a released address is reserved, and leased to nobody.
Gone(t, ip) == \A i \in DOMAIN t : t[i].ip = ip => t[i].reserved /\ t[i].expires = 0
GoneInv == TableOK(table) /\ \A ip \in released \ back : Gone(table, ip)

\* The engine holds no lease at a released address, and what a poll has read
\* and not published is a lease at one only if it was released since.
StaleInv ==
  /\ \A l \in kea.leases : l.ip \notin released
  /\ Reading => \A k \in DOMAIN poll.got : poll.got[k].ip \in released => poll.got[k].ip \in during

\* Rows with numbers can be listed.
LEMMA InOrderIs ==
  ASSUME NEW f, Bounded(f)
  PROVE  Len(InOrder(f)) \in Nat
<1> DEFINE n == Max(DOMAIN f \cup {0})
<1> DEFINE s == [i \in 1..n |-> IF i \in DOMAIN f THEN f[i] ELSE None]
<1>1. n \in Nat
  <2>1. PICK m \in Nat : DOMAIN f \subseteq 1..m
    BY DEF Bounded
  <2> DEFINE T == DOMAIN f \cup {0}
  <2>2. T \in SUBSET (0..m) /\ T # {}
    BY <2>1
  <2>3. Max(T) \in T
    <3> HIDE DEF T
    <3> QED BY <2>2, MaxIs
  <2> QED BY <2>2, <2>3
<1> HIDE DEF n
<1>2. Len(s) = n
  BY <1>1
<1>3. InOrder(f) = Keep(s, DOMAIN f)
  BY DEF InOrder, n
<1> HIDE DEF s
<1>4. Keep(s, DOMAIN f) \in Seq({s[i] : i \in DOMAIN f \cap 1..Len(s)})
  BY <1>1, <1>2, KeepIs
<1> DEFINE V == {s[i] : i \in DOMAIN f \cap 1..Len(s)}
<1> HIDE DEF V
<1>5. Keep(s, DOMAIN f) \in Seq(V)
  BY <1>4 DEF V
<1> QED BY <1>3, <1>5

\* A write gives a new row the number after the last, and leaves the other
\* rows theirs.
LEMMA StoredIs ==
  ASSUME NEW e, e.on \in EditKinds, Storable(e), Bounded(db.res), DOMAIN db = {"scopes", "res"}
  PROVE  DOMAIN Stored(e) = {"scopes", "res"} /\ Bounded(Stored(e).res)
<1>1. PICK n \in Nat : DOMAIN db.res \subseteq 1..n
  BY DEF Bounded
<1>2. CASE e.on = "scope"
  BY <1>2 DEF Stored
<1>3. CASE e.on = "res"
  <2>1. DOMAIN Stored(e) = {"scopes", "res"} /\ Stored(e).res = Put(db.res, e)
    BY <1>3 DEF Stored
  <2> DEFINE T == DOMAIN db.res \cup {0}
  <2> DEFINE id == IF e.new THEN NextId(db.res) ELSE e.id
  <2>2. T \in SUBSET (0..n) /\ T # {}
    BY <1>1
  <2>3. Max(T) \in T
    <3> HIDE DEF T
    <3> QED BY <2>2, MaxIs
  <2>4. NextId(db.res) \in 1..n + 1
    BY <2>2, <2>3 DEF NextId
  <2>5. id \in 1..n + 1
    BY <1>1, <1>3, <2>4 DEF Storable
  <2>6. DOMAIN Put(db.res, e) = DOMAIN db.res \cup {id}
    BY DEF Put
  <2>7. DOMAIN Put(db.res, e) \subseteq 1..n + 1
    BY <1>1, <2>5, <2>6
  <2> QED BY <2>1, <2>7 DEF Bounded
<1>4. CASE e.on = "noscope"
  <2>1. DOMAIN Stored(e) = {"scopes", "res"} /\ Stored(e).res = RestrictValues(db.res, LAMBDA r : r.scope # e.id)
    BY <1>4 DEF Stored
  <2>2. DOMAIN Stored(e).res \subseteq 1..n
    BY <1>1, <2>1 DEF RestrictValues, Restrict
  <2> QED BY <2>1, <2>2 DEF Bounded
<1>5. CASE e.on = "nores"
  <2>1. DOMAIN Stored(e) = {"scopes", "res"} /\ Stored(e).res = Without(db.res, e.id)
    BY <1>5 DEF Stored
  <2>2. DOMAIN Stored(e).res \subseteq 1..n
    BY <1>1, <2>1 DEF Without, RestrictDomain, Restrict
  <2> QED BY <2>1, <2>2 DEF Bounded
<1> QED BY <1>2, <1>3, <1>4, <1>5 DEF EditKinds

\* One handler moves.
LEMMA OneMoves ==
  ASSUME RowsInv, NEW o, NEW v, OpOK(v), ops' = [ops EXCEPT ![o] = v]
  PROVE  DOMAIN ops' = Operators /\ \A p \in Operators : OpOK(ops'[p])
<1>1. DOMAIN ops' = Operators
  BY DEF RowsInv
<1>2. ASSUME NEW p \in Operators PROVE ops'[p] = v \/ ops'[p] = ops[p]
  BY DEF RowsInv
<1> QED BY <1>1, <1>2 DEF RowsInv

\* A request asks for one of four things.
LEMMA RequestKinds ==
  ASSUME NEW e \in Requests
  PROVE  e.on \in EditKinds
BY DEF Requests, ScopeCreate, ScopePatch, ReservationEdit, LeaseReserve, ScopeDelete, ReservationDelete, EditKinds

\* A goroutine that is done waits for nothing.
LEMMA ReturnKeeps ==
  ASSUME RowsInv, LeaseInv, NEW who, Return(who)
  PROVE  /\ PollOK(poll') /\ GotOK(poll')
         /\ DOMAIN ops' = Operators /\ \A p \in Operators : OpOK(ops'[p])
<1>1. OpOK(Idle) /\ PollOK(Idle) /\ GotOK(Idle)
  BY DEF OpOK, PollOK, GotOK, Idle
<1>2. CASE who = Poller
  BY <1>1, <1>2 DEF Return, RowsInv, LeaseInv
<1>3. CASE who # Poller
  BY <1>1, <1>3, OneMoves DEF Return, RowsInv, LeaseInv
<1> QED BY <1>2, <1>3

\* Every step leaves finitely many rows, and hands on only what was stored.
LEMMA RowsStep ==
  ASSUME ManagerInv, RowsInv, LeaseInv, [Next]_vars
  PROVE  RowsInv'
<1> DEFINE OpsOK == DOMAIN ops' = Operators /\ \A p \in Operators : OpOK(ops'[p])
<1>1. OpOK(Idle) /\ OpOK(applyDHCP) /\ PollOK(Idle) /\ PollOK(Started) /\ PollOK([at |-> "apply"])
  BY DEF OpOK, PollOK, Idle, applyDHCP, Started
<1>2. RenderInput.res = db.res
  BY DEF RenderInput
<1>3. ASSUME UNCHANGED <<db, poll, ops>> PROVE RowsInv'
  BY <1>3 DEF RowsInv
<1>4. ASSUME UNCHANGED db, PollOK(poll'), OpsOK PROVE RowsInv'
  BY <1>4 DEF RowsInv
<1>5. ASSUME UNCHANGED db, PollOK(poll'), UNCHANGED ops PROVE RowsInv'
  BY <1>5 DEF RowsInv
<1>6. ASSUME NEW o, NEW v, OpOK(v), ops' = [ops EXCEPT ![o] = v], UNCHANGED <<db, poll>> PROVE RowsInv'
  <2>1. OpsOK
    BY <1>6, OneMoves
  <2> QED BY <1>6, <2>1 DEF RowsInv
<1> HIDE DEF OpsOK
<1>7. ASSUME UNCHANGED vars PROVE RowsInv'
  BY <1>3, <1>7 DEF vars, rows, memory
<1>8. ASSUME NEW who \in Actors, Apply(who) PROVE RowsInv'
  BY <1>3, <1>8 DEF Apply, rows
<1>9. ASSUME NEW who \in Actors, ApplyIfChanged(who) PROVE RowsInv'
  <2>1. CASE UNCHANGED <<poll, ops>>
    BY <1>3, <1>9, <2>1 DEF ApplyIfChanged, rows
  <2>2. CASE Return(who)
    BY <1>4, <1>9, <2>2, ReturnKeeps DEF ApplyIfChanged, rows, OpsOK
  <2> QED BY <1>9, <2>1, <2>2 DEF ApplyIfChanged
<1>10. ASSUME NEW who \in Actors, ApplyUnread(who) PROVE RowsInv'
  BY <1>4, <1>10, ReturnKeeps DEF ApplyUnread, rows, OpsOK
<1>11. ASSUME ConfigSet \/ ReplyLost \/ Reply PROVE RowsInv'
  BY <1>3, <1>11 DEF ConfigSet, ReplyLost, Reply, rows
<1>12. ASSUME NEW saved, Rendered(saved) PROVE RowsInv'
  BY <1>4, <1>12, ReturnKeeps DEF Rendered, OpsOK
<1>13. ASSUME discover("apply") PROVE RowsInv'
  BY <1>1, <1>5, <1>13 DEF discover, rows
<1>14. ASSUME Poll PROVE RowsInv'
  <2>1. PollOK(poll')
    BY <1>14, PollSteps DEF PollOK
  <2> QED BY <1>5, <1>14, <2>1 DEF Poll, rows
<1>15. ASSUME pollFailed PROVE RowsInv'
  BY <1>1, <1>5, <1>15 DEF pollFailed, rows
<1>16. ASSUME NEW read, config(read) PROVE RowsInv'
  <2>1. poll'.in.res = db.res
    BY <1>2, <1>16 DEF config
  <2>2. PollOK(poll')
    BY <2>1 DEF PollOK, RowsInv
  <2> QED BY <1>5, <1>16, <2>2 DEF config, rows
<1>17. ASSUME Publish PROVE RowsInv'
  <2>1. poll'.in = poll.in
    BY <1>17 DEF Publish
  <2>2. PollOK(poll')
    BY <1>17, <2>1 DEF PollOK, RowsInv, Publish
  <2> QED BY <1>5, <1>17, <2>2 DEF Publish, rows
<1>18. ASSUME Settle PROVE RowsInv'
  <2>1. poll' = Started \/ poll' = Idle \/ poll' = [at |-> "ifchanged", in |-> poll.in]
    BY <1>18 DEF Settle
  <2>2. PollOK([at |-> "ifchanged", in |-> poll.in])
    BY <1>18 DEF Settle, PollOK, RowsInv
  <2>3. PollOK(poll')
    BY <1>1, <2>1, <2>2
  <2> QED BY <1>5, <1>18, <2>3 DEF Settle, rows
<1>19. ASSUME NEW o \in Operators, Store(o) PROVE RowsInv'
  <2>1. CASE Storable(ops[o].edit)
    <3>1. ops[o].edit.on \in EditKinds /\ db' = Stored(ops[o].edit) /\ ops' = [ops EXCEPT ![o] = applyDHCP] /\ UNCHANGED poll
      BY <1>19, <2>1 DEF Store, RowsInv, OpOK
    <3>2. DOMAIN db' = {"scopes", "res"} /\ Bounded(db'.res)
      BY <2>1, <3>1, StoredIs DEF RowsInv
    <3>3. OpsOK
      BY <1>1, <3>1, OneMoves DEF OpsOK
    <3> QED BY <3>1, <3>2, <3>3 DEF RowsInv, OpsOK
  <2>2. CASE ~Storable(ops[o].edit)
    BY <1>1, <1>6, <1>19, <2>2 DEF Store
  <2> QED BY <2>1, <2>2
<1>20. ASSUME NEW o \in Operators, Validated(o) PROVE RowsInv'
  <2>1. PICK e \in Requests : ops' = [ops EXCEPT ![o] = [at |-> "write", edit |-> e]]
    BY <1>20 DEF Validated
  <2>2. OpOK([at |-> "write", edit |-> e])
    BY RequestKinds DEF OpOK
  <2> QED BY <1>6, <1>20, <2>1, <2>2 DEF Validated, rows
<1>21. ASSUME NEW o \in Operators, ApplyAgain(o) PROVE RowsInv'
  BY <1>1, <1>6, <1>21 DEF ApplyAgain, rows
<1>22. ASSUME NEW o \in Operators, reconcileDHCP(o) PROVE RowsInv'
  <2>1. OpOK([at |-> "ifchanged", in |-> RenderInput])
    BY <1>2 DEF OpOK, RowsInv
  <2> QED BY <1>6, <1>22, <2>1 DEF reconcileDHCP, rows
<1>23. ASSUME NEW o \in Operators, Release(o) PROVE RowsInv'
  <2>1. PICK l : ops' = [ops EXCEPT ![o] = [at |-> "released", ip |-> l.ip]]
    BY <1>23 DEF Release
  <2>2. OpOK([at |-> "released", ip |-> l.ip])
    BY DEF OpOK
  <2> QED BY <1>6, <1>23, <2>1, <2>2 DEF Release, rows
<1>24. ASSUME NEW o \in Operators, ReleaseTable(o) PROVE RowsInv'
  BY <1>1, <1>6, <1>24 DEF ReleaseTable, rows
<1>25. ASSUME Grant \/ EngineStops \/ EngineStarts PROVE RowsInv'
  BY <1>3, <1>25 DEF Grant, EngineStops, EngineStarts, rows, memory
<1>26. ASSUME Restart PROVE RowsInv'
  <2>1. OpsOK
    BY <1>1, <1>26 DEF Restart, OpsOK
  <2> QED BY <1>1, <1>4, <1>26, <2>1 DEF Restart, rows
<1>27. ASSUME NEW x \in Replicas, BoxChanges(x) \/ Pull(x) PROVE RowsInv'
  BY <1>3, <1>27 DEF BoxChanges, Pull, memory
<1> QED
  BY <1>7, <1>8, <1>9, <1>10, <1>11, <1>12, <1>13, <1>14, <1>15, <1>16, <1>17, <1>18, <1>19, <1>20, <1>21,
     <1>22, <1>23, <1>24, <1>25, <1>26, <1>27 DEF Next, RenderStep, RenderReply, PollStep, HandlerStep

\* A poll goes on from leases the engine held, and adds such leases only.
LEMMA LeaseStep ==
  ASSUME ManagerInv, RowsInv, LeaseInv, [Next]_vars
  PROVE  LeaseInv'
<1>1. GotOK(Idle) /\ GotOK(Started) /\ GotOK([at |-> "apply"])
  BY DEF GotOK, Idle, Started
<1>2. ASSUME UNCHANGED <<kea, poll>> PROVE LeaseInv'
  BY <1>2 DEF LeaseInv
<1>3. ASSUME UNCHANGED kea, GotOK(poll') PROVE LeaseInv'
  BY <1>3 DEF LeaseInv
<1>4. ASSUME kea'.leases \subseteq LeaseBodies, UNCHANGED poll PROVE LeaseInv'
  BY <1>4 DEF LeaseInv
<1>5. ASSUME Aside \/ UNCHANGED vars PROVE LeaseInv'
  BY <1>2, <1>5 DEF Aside, vars, memory
<1>6. ASSUME NEW who \in Actors, Apply(who) PROVE LeaseInv'
  BY <1>2, <1>6 DEF Apply
<1>7. ASSUME NEW who \in Actors, ApplyIfChanged(who) PROVE LeaseInv'
  <2>1. CASE UNCHANGED <<poll, ops>>
    BY <1>2, <1>7, <2>1 DEF ApplyIfChanged
  <2>2. CASE Return(who)
    BY <1>3, <1>7, <2>2, ReturnKeeps DEF ApplyIfChanged
  <2> QED BY <1>7, <2>1, <2>2 DEF ApplyIfChanged
<1>8. ASSUME NEW who \in Actors, ApplyUnread(who) PROVE LeaseInv'
  BY <1>3, <1>8, ReturnKeeps DEF ApplyUnread
<1>9. ASSUME ReplyLost \/ Reply PROVE LeaseInv'
  BY <1>2, <1>9 DEF ReplyLost, Reply
<1>10. ASSUME ConfigSet PROVE LeaseInv'
  <2>1. kea'.leases = kea.leases
    BY <1>10 DEF ConfigSet, ManagerInv, ShapeInv
  <2> QED BY <1>4, <1>10, <2>1 DEF ConfigSet, LeaseInv
<1>11. ASSUME NEW saved, Rendered(saved) PROVE LeaseInv'
  BY <1>3, <1>11, ReturnKeeps DEF Rendered
<1>12. ASSUME discover("apply") PROVE LeaseInv'
  BY <1>1, <1>3, <1>12 DEF discover
<1>13. ASSUME Poll PROVE LeaseInv'
  <2> DEFINE from == IF poll.at = "page" THEN poll.from ELSE 0
  <2> DEFINE got == IF poll.at = "page" THEN poll.got ELSE <<>>
  <2>1. CASE ~kea.up
    BY <1>1, <1>3, <1>13, <2>1 DEF Poll
  <2>2. CASE kea.up
    <3>1. poll'.got = got \o LeasePage(from)
      <4>1. PICK at, next : poll' = [at |-> at, from |-> next, got |-> got \o LeasePage(from)]
        BY <1>13, <2>2, Zenon DEF Poll
      <4> HIDE DEF from, got
      <4> QED BY <4>1
    <3>2. got \in Seq(LeaseBodies)
      BY <1>13 DEF Poll, LeaseInv, GotOK
    <3> HIDE DEF from, got
    <3>3. LeasePage(from) \in Seq(kea.leases)
      BY PageIs, DhcpAssumption DEF LeaseInv
    <3> DEFINE page == LeasePage(from)
    <3> HIDE DEF page
    <3>4. page \in Seq(LeaseBodies)
      BY <3>3 DEF page, LeaseInv
    <3>5. poll'.got \in Seq(LeaseBodies)
      BY <3>1, <3>2, <3>4 DEF page
    <3> QED BY <1>3, <1>13, <3>5 DEF Poll, GotOK
  <2> QED BY <2>1, <2>2
<1>14. ASSUME pollFailed PROVE LeaseInv'
  BY <1>1, <1>3, <1>14 DEF pollFailed
<1>15. ASSUME NEW read, config(read) PROVE LeaseInv'
  <2>1. poll'.got = poll.got /\ poll.got \in Seq(LeaseBodies)
    BY <1>15 DEF config, LeaseInv, GotOK
  <2> QED BY <1>3, <1>15, <2>1 DEF config, GotOK
<1>16. ASSUME Publish PROVE LeaseInv'
  <2>1. poll'.at = "settle"
    BY <1>16 DEF Publish, ManagerInv, ShapeInv
  <2> QED BY <1>3, <1>16, <2>1 DEF Publish, GotOK
<1>17. ASSUME Settle PROVE LeaseInv'
  <2>1. poll' = Started \/ poll' = Idle \/ poll' = [at |-> "ifchanged", in |-> poll.in]
    BY <1>17 DEF Settle
  <2>2. GotOK(poll')
    BY <1>1, <2>1 DEF GotOK
  <2> QED BY <1>3, <1>17, <2>2 DEF Settle
<1>18. ASSUME NEW o \in Operators, Release(o) PROVE LeaseInv'
  <2>1. kea'.leases \subseteq kea.leases
    BY <1>18 DEF Release, ManagerInv, ShapeInv
  <2> QED BY <1>4, <1>18, <2>1 DEF Release, LeaseInv
<1>19. ASSUME Grant PROVE LeaseInv'
  <2>1. PICK l \in LeaseBodies : kea' = [kea EXCEPT !.leases = {k \in @ : k.ip # l.ip} \cup {l}]
    BY <1>19 DEF Grant
  <2>2. kea'.leases \subseteq kea.leases \cup {l}
    BY <2>1 DEF ManagerInv, ShapeInv
  <2> QED BY <1>4, <1>19, <2>2 DEF Grant, memory, LeaseInv
<1>20. ASSUME EngineStops \/ EngineStarts PROVE LeaseInv'
  <2>1. kea'.leases = kea.leases
    BY <1>20 DEF EngineStops, EngineStarts, ManagerInv, ShapeInv
  <2> QED BY <1>4, <1>20, <2>1 DEF EngineStops, EngineStarts, memory, LeaseInv
<1>21. ASSUME Restart PROVE LeaseInv'
  BY <1>1, <1>3, <1>21 DEF Restart
<1> QED
  BY AsideSteps, <1>5, <1>6, <1>7, <1>8, <1>9, <1>10, <1>11, <1>12, <1>13, <1>14, <1>15, <1>16, <1>17, <1>18,
     <1>19, <1>20, <1>21

\* What a render, an unchanged input or a poll remembers is a list of rows.
LEMMA MemStep ==
  ASSUME ManagerInv, RowsInv, MemInv, [Next]_vars
  PROVE  MemInv'
<1>1. DOMAIN mgr = MgrFields /\ "mem" \in MgrFields
  BY DEF ManagerInv, ShapeInv, MgrFields
<1>2. ASSUME mgr'.mem = mgr.mem PROVE MemInv'
  BY <1>2 DEF MemInv
<1>3. ASSUME NEW in, Bounded(in.res), mgr'.mem = remember(in) PROVE MemInv'
  BY <1>3, InOrderIs DEF MemInv, remember
<1>4. ASSUME NEW who, NEW in, Build(who, in) PROVE mgr'.mem = remember(in)
  <2> DEFINE list == remember(in)
  <2> DEFINE m == [mgr EXCEPT !.mem = list]
  <2>1. mgr' = m \/ mgr' = refuse(m)
    BY <1>4 DEF Build
  <2> HIDE DEF list
  <2> QED BY <1>1, <2>1 DEF refuse, MgrFields, list
<1>5. ASSUME Aside \/ UNCHANGED vars PROVE MemInv'
  BY <1>2, <1>5 DEF Aside, vars, memory
<1>6. ASSUME NEW who \in Actors, Apply(who) PROVE MemInv'
  <2>1. Build(who, RenderInput) /\ Bounded(RenderInput.res)
    BY <1>6 DEF Apply, RenderInput, RowsInv
  <2> QED BY <1>3, <1>4, <2>1
<1>7. ASSUME NEW who \in Actors, ApplyIfChanged(who) PROVE MemInv'
  <2>1. Bounded(Input(who).res)
    BY <1>7 DEF ApplyIfChanged, At, Input, Actors, RowsInv, PollOK, OpOK
  <2>2. CASE Build(who, Input(who))
    BY <1>3, <1>4, <2>1, <2>2
  <2>3. CASE mgr' = [mgr EXCEPT !.mem = remember(Input(who))]
    <3>1. mgr'.mem = remember(Input(who))
      BY <1>1, <2>3
    <3> QED BY <1>3, <2>1, <3>1
  <2> QED BY <1>7, <2>2, <2>3 DEF ApplyIfChanged
<1>8. ASSUME NEW who \in Actors, ApplyUnread(who) PROVE MemInv'
  BY <1>2, <1>8 DEF ApplyUnread
<1>9. ASSUME ConfigSet \/ ReplyLost PROVE MemInv'
  BY <1>2, <1>9 DEF ConfigSet, ReplyLost
<1>10. ASSUME Reply PROVE MemInv'
  <2>1. apply.reply \in EngineAnswers /\ mgr' = send(mgr, apply)
    BY <1>10 DEF Reply, ManagerInv, ShapeInv, Idle
  <2>2. CASE apply.reply = "ok"
    <3>1. mgr'.mem = mgr.mem
      BY <1>1, <2>1, <2>2 DEF send, accepted
    <3> QED BY <1>2, <3>1
  <2>3. CASE apply.reply = "unanswered"
    <3>1. mgr'.mem = mgr.mem
      BY <1>1, <2>1, <2>3 DEF send, unreachable
    <3> QED BY <1>2, <3>1
  <2>4. CASE apply.reply = "refused"
    <3>1. cameBack(mgr).mem = mgr.mem
      BY DEF cameBack
    <3>2. mgr' = [refusedConfig(mgr) EXCEPT !.hash = apply.cfg]
      BY <2>1, <2>4 DEF send
    <3>3. refusedConfig(mgr).mem = cameBack(mgr).mem
      BY DEF refusedConfig
    <3>4. mgr'.mem = refusedConfig(mgr).mem
      BY <3>2
    <3> QED BY <1>2, <3>1, <3>3, <3>4
  <2>5. CASE apply.reply = "garbled"
    BY <1>2, <2>1, <2>5 DEF send
  <2> QED BY <2>1, <2>2, <2>3, <2>4, <2>5 DEF EngineAnswers
<1>11. ASSUME NEW saved, Rendered(saved) PROVE MemInv'
  BY <1>2, <1>11 DEF Rendered
<1>12. ASSUME discover("apply") PROVE MemInv'
  <2>1. PICK known : mgr' = [mgr EXCEPT !.known = known]
    BY <1>12 DEF discover
  <2>2. mgr'.mem = mgr.mem
    BY <1>1, <2>1
  <2> QED BY <1>2, <2>2
<1>13. ASSUME Poll PROVE MemInv'
  <2>1. mgr' = mgr \/ mgr' = unreachable(mgr)
    BY <1>13, PollSteps
  <2>2. unreachable(mgr).mem = mgr.mem
    BY DEF unreachable
  <2> QED BY <1>2, <2>1, <2>2
<1>14. ASSUME pollFailed PROVE MemInv'
  <2>1. cameBack(mgr).mem = mgr.mem
    BY DEF cameBack
  <2>2. mgr'.mem = cameBack(mgr).mem
    BY <1>14 DEF pollFailed, refusedPoll
  <2> QED BY <1>2, <2>1, <2>2
<1>15. ASSUME NEW read, config(read) PROVE MemInv'
  <2>1. mgr' = mgr \/ mgr' = [mgr EXCEPT !.mem = remember(RenderInput)]
    BY <1>15 DEF config
  <2>2. mgr'.mem = mgr.mem \/ mgr'.mem = remember(RenderInput)
    BY <1>1, <2>1
  <2>3. Bounded(RenderInput.res)
    BY DEF RenderInput, RowsInv
  <2> QED BY <1>2, <1>3, <2>2, <2>3
<1>16. ASSUME Publish PROVE MemInv'
  BY <1>2, <1>16 DEF Publish
<1>17. ASSUME Settle PROVE MemInv'
  <2>1. cameBack(mgr).mem = mgr.mem
    BY DEF cameBack
  <2>2. polled(mgr).mem = cameBack(mgr).mem
    BY DEF polled
  <2>3. mgr'.mem = polled(mgr).mem
    BY <1>17 DEF Settle
  <2> QED BY <1>2, <2>1, <2>2, <2>3
<1>18. ASSUME NEW o \in Operators, Release(o) PROVE MemInv'
  BY <1>2, <1>18 DEF Release
<1>19. ASSUME Grant \/ EngineStops \/ EngineStarts PROVE MemInv'
  BY <1>2, <1>19 DEF Grant, EngineStops, EngineStarts, memory
<1>20. ASSUME Restart PROVE MemInv'
  BY <1>20 DEF Restart, NewManager, MemInv
<1> QED
  BY AsideSteps, <1>5, <1>6, <1>7, <1>8, <1>9, <1>10, <1>11, <1>12, <1>13, <1>14, <1>15, <1>16, <1>17, <1>18,
     <1>19, <1>20

-----------------------------------------------------------------------------
(* The table.                                                              *)

\* Every step but a poll that publishes, a release and a restart leaves the
\* table alone, and only a release adds to what is released.
LEMMA TableSteps ==
  ASSUME [Next]_vars
  PROVE  \/ table' = table /\ released' \subseteq released /\ back' = back
         \/ Publish \/ Restart \/ \E o \in Operators : ReleaseTable(o)
<1>1. ASSUME UNCHANGED vars PROVE UNCHANGED <<table, released, back>>
  BY <1>1 DEF vars, memory, history, forgone
<1>2. ASSUME NEW who \in Actors, Apply(who) \/ ApplyIfChanged(who) \/ ApplyUnread(who)
      PROVE  UNCHANGED <<table, released, back>>
  BY <1>2 DEF Apply, ApplyIfChanged, ApplyUnread, history, forgone
<1>3. ASSUME ConfigSet \/ ReplyLost \/ Reply PROVE UNCHANGED <<table, released, back>>
  BY <1>3 DEF ConfigSet, ReplyLost, Reply, history, forgone
<1>4. ASSUME NEW saved, Rendered(saved) PROVE UNCHANGED <<table, released, back>>
  BY <1>4 DEF Rendered, forgone
<1>5. ASSUME discover("apply") \/ Poll \/ pollFailed \/ Settle PROVE UNCHANGED <<table, released, back>>
  BY <1>5 DEF discover, Poll, pollFailed, Settle, history, forgone
<1>6. ASSUME NEW read, config(read) PROVE UNCHANGED <<table, released, back>>
  BY <1>6 DEF config, history, forgone
<1>7. ASSUME NEW o \in Operators, Store(o) \/ Validated(o) \/ ApplyAgain(o) \/ reconcileDHCP(o) \/ Release(o)
      PROVE  UNCHANGED <<table, released, back>>
  BY <1>7 DEF Store, Validated, ApplyAgain, reconcileDHCP, Release, history, forgone
<1>8. ASSUME Grant PROVE table' = table /\ released' \subseteq released /\ back' = back
  BY <1>8 DEF Grant, memory
<1>9. ASSUME EngineStops \/ EngineStarts PROVE UNCHANGED <<table, released, back>>
  BY <1>9 DEF EngineStops, EngineStarts, memory, history, forgone
<1>10. ASSUME NEW x \in Replicas, BoxChanges(x) \/ Pull(x) PROVE UNCHANGED <<table, released, back>>
  BY <1>10 DEF BoxChanges, Pull, memory, history, forgone
<1> QED
  BY <1>1, <1>2, <1>3, <1>4, <1>5, <1>6, <1>7, <1>8, <1>9, <1>10
  DEF Next, RenderStep, RenderReply, PollStep, HandlerStep

\* A poll reads leases the engine holds, and a release while it holds them is
\* noted; the other steps leave the leases, the releases and what was read
\* alone, or end the poll's reading.
LEMMA ReadSteps ==
  ASSUME ManagerInv, [Next]_vars
  PROVE  \/ /\ kea'.leases = kea.leases /\ released' = released
            /\ (poll' = poll /\ during' = during) \/ poll'.at \notin {"page", "config", "publish"}
         \/ Poll \/ config(TRUE) \/ config(FALSE) \/ Grant
         \/ \E o \in Operators : Release(o) \/ ReleaseTable(o)
<1> DEFINE Quiet ==
      /\ kea'.leases = kea.leases /\ released' = released
      /\ (poll' = poll /\ during' = during) \/ poll'.at \notin {"page", "config", "publish"}
<1> USE DEF history, forgone, rows, memory
<1>1. ASSUME UNCHANGED vars PROVE Quiet
  BY <1>1 DEF vars
<1>2. ASSUME NEW who \in Actors, Apply(who) PROVE Quiet
  BY <1>2 DEF Apply
<1>3. ASSUME NEW who, Return(who), UNCHANGED <<kea, released, during>> PROVE Quiet
  BY <1>3 DEF Return, Idle
<1>4. ASSUME NEW who \in Actors, ApplyIfChanged(who) PROVE Quiet
  <2>1. UNCHANGED <<kea, released, during>> /\ (Return(who) \/ UNCHANGED poll)
    BY <1>4 DEF ApplyIfChanged
  <2> QED BY <1>3, <2>1
<1>5. ASSUME NEW who \in Actors, ApplyUnread(who) PROVE Quiet
  BY <1>3, <1>5 DEF ApplyUnread
<1>6. ASSUME ConfigSet PROVE Quiet
  BY <1>6 DEF ConfigSet, ManagerInv, ShapeInv
<1>7. ASSUME ReplyLost \/ Reply PROVE Quiet
  BY <1>7 DEF ReplyLost, Reply
<1>8. ASSUME NEW saved, Rendered(saved) PROVE Quiet
  BY <1>3, <1>8 DEF Rendered
<1>9. ASSUME discover("apply") \/ pollFailed PROVE Quiet
  BY <1>9 DEF discover, pollFailed, Idle
<1>10. ASSUME Publish PROVE Quiet
  BY <1>10 DEF Publish, ManagerInv, ShapeInv
<1>11. ASSUME Settle PROVE Quiet
  <2>1. poll' = Started \/ poll' = Idle \/ poll' = [at |-> "ifchanged", in |-> poll.in]
    BY <1>11 DEF Settle
  <2>2. poll'.at \notin {"page", "config", "publish"}
    BY <2>1 DEF Started, Idle
  <2> QED BY <1>11, <2>2 DEF Settle
<1>12. ASSUME NEW o \in Operators, Store(o) \/ Validated(o) \/ ApplyAgain(o) \/ reconcileDHCP(o) PROVE Quiet
  BY <1>12 DEF Store, Validated, ApplyAgain, reconcileDHCP
<1>13. ASSUME EngineStops \/ EngineStarts PROVE Quiet
  BY <1>13 DEF EngineStops, EngineStarts, ManagerInv, ShapeInv
<1>14. ASSUME Restart PROVE Quiet
  BY <1>14 DEF Restart, Started
<1>15. ASSUME NEW x \in Replicas, BoxChanges(x) \/ Pull(x) PROVE Quiet
  BY <1>15 DEF BoxChanges, Pull
<1> HIDE DEF Quiet
<1>16. \/ Quiet \/ Poll \/ config(TRUE) \/ config(FALSE) \/ Grant
       \/ \E o \in Operators : Release(o) \/ ReleaseTable(o)
  BY <1>1, <1>2, <1>4, <1>5, <1>6, <1>7, <1>8, <1>9, <1>10, <1>11, <1>12, <1>13, <1>14, <1>15
  DEF Next, RenderStep, RenderReply, PollStep, HandlerStep
<1> QED BY <1>16 DEF Quiet

\* A page read after a release cannot hold its lease.
LEMMA StaleStep ==
  ASSUME ManagerInv, RowsInv, LeaseInv, StaleInv, [Next]_vars
  PROVE  StaleInv'
<1>1. CASE /\ kea'.leases = kea.leases /\ released' = released
           /\ (poll' = poll /\ during' = during) \/ poll'.at \notin {"page", "config", "publish"}
  BY <1>1 DEF StaleInv, Reading
<1>2. CASE Poll
  <2> DEFINE from == IF poll.at = "page" THEN poll.from ELSE 0
  <2> DEFINE got == IF poll.at = "page" THEN poll.got ELSE <<>>
  <2>1. kea' = kea /\ released' = released
    BY <1>2 DEF Poll
  <2>2. CASE ~kea.up
    BY <1>2, <2>1, <2>2 DEF Poll, Idle, StaleInv, Reading
  <2>3. CASE kea.up
    <3>1. poll'.got = got \o LeasePage(from)
      <4>1. PICK at, next : poll' = [at |-> at, from |-> next, got |-> got \o LeasePage(from)]
        BY <1>2, <2>3, Zenon DEF Poll
      <4> HIDE DEF from, got
      <4> QED BY <4>1
    <3>2. got \in Seq(LeaseBodies)
      BY <1>2 DEF Poll, LeaseInv, GotOK
    <3>3. \A k \in DOMAIN got : got[k].ip \in released => got[k].ip \in during'
      <4>1. CASE poll.at = "page"
        BY <1>2, <4>1 DEF Poll, StaleInv, Reading
      <4>2. CASE poll.at # "page"
        BY <4>2
      <4> QED BY <4>1, <4>2
    <3> HIDE DEF from, got
    <3> DEFINE page == LeasePage(from)
    <3>4. page \in Seq(kea.leases)
      BY PageIs, DhcpAssumption DEF LeaseInv
    <3> HIDE DEF page
    <3>5. page \in Seq(LeaseBodies) /\ \A k \in 1..Len(page) : page[k].ip \notin released
      BY <3>4 DEF LeaseInv, StaleInv
    <3>6. Concats(got, page, poll'.got)
      BY <3>1, <3>2, <3>5, ConcatIs DEF page
    <3>7. DOMAIN got = 1..Len(got)
      BY <3>2
    <3>8. \A k \in DOMAIN poll'.got : poll'.got[k].ip \in released => poll'.got[k].ip \in during'
      BY <3>3, <3>5, <3>6, <3>7 DEF Concats
    <3> QED BY <2>1, <3>8 DEF StaleInv, Reading
  <2> QED BY <2>2, <2>3
<1>3. ASSUME NEW read, config(read) PROVE StaleInv'
  <2>1. poll'.got = poll.got /\ poll.at = "config" /\ UNCHANGED <<kea, released, during>>
    BY <1>3 DEF config, history, forgone
  <2> QED BY <2>1 DEF StaleInv, Reading
<1>4. CASE Grant
  <2>1. PICK l \in LeaseBodies : /\ kea' = [kea EXCEPT !.leases = {k \in @ : k.ip # l.ip} \cup {l}]
                                 /\ released' = released \ {l.ip}
    BY <1>4 DEF Grant
  <2>2. \A k \in kea'.leases : k = l \/ k \in kea.leases
    BY <2>1 DEF ManagerInv, ShapeInv
  <2>3. UNCHANGED <<poll, during>>
    BY <1>4 DEF Grant, memory
  <2> QED BY <2>1, <2>2, <2>3 DEF StaleInv, Reading
<1>5. ASSUME NEW o \in Operators, Release(o) PROVE StaleInv'
  <2>1. kea'.leases \subseteq kea.leases
    BY <1>5 DEF Release, ManagerInv, ShapeInv
  <2> QED BY <1>5, <2>1 DEF Release, StaleInv, Reading, history, forgone
<1>6. ASSUME NEW o \in Operators, ReleaseTable(o) PROVE StaleInv'
  <2> DEFINE ip == ops[o].ip
  <2>1. /\ UNCHANGED <<kea, poll>>
        /\ released' = released \/ (released' = released \cup {ip} /\ \A l \in kea.leases : l.ip # ip)
        /\ Reading => during' = during \cup {ip}
    BY <1>6 DEF ReleaseTable
  <2> HIDE DEF ip
  <2> QED BY <2>1 DEF StaleInv, Reading
<1> QED BY ReadSteps, <1>1, <1>2, <1>3, <1>4, <1>5, <1>6

\* A poll publishes no lease at a released address but the ones released since
\* it read them, and a release takes the lease out of what is there.
LEMMA GoneStep ==
  ASSUME ManagerInv, RowsInv, LeaseInv, MemInv, StaleInv, GoneInv, [Next]_vars
  PROVE  GoneInv'
<1>1. CASE table' = table /\ released' \subseteq released /\ back' = back
  BY <1>1 DEF GoneInv
<1>2. CASE Publish
  <2>1. /\ table' = tableFrom(poll.got, mgr.mem) /\ poll.got \in Seq(LeaseBodies)
        /\ released' = released /\ back' = during
        /\ \A k \in DOMAIN poll.got : poll.got[k].ip \in released => poll.got[k].ip \in during
    BY <1>2 DEF Publish, LeaseInv, GotOK, StaleInv, Reading
  <2>2. /\ TableOK(table')
        /\ \A i \in 1..Len(table') :
             (\E k \in DOMAIN poll.got : table'[i].ip = poll.got[k].ip) \/ (table'[i].reserved /\ table'[i].expires = 0)
    BY <2>1, TableFromIs DEF MemInv
  <2>3. ASSUME NEW ip \in released' \ back', NEW i \in DOMAIN table', table'[i].ip = ip
        PROVE  table'[i].reserved /\ table'[i].expires = 0
    <3>1. i \in 1..Len(table')
      BY <2>2 DEF TableOK
    <3>2. ~\E k \in DOMAIN poll.got : table'[i].ip = poll.got[k].ip
      BY <2>1, <2>3
    <3> QED BY <2>2, <3>1, <3>2
  <2> QED BY <2>2, <2>3 DEF GoneInv, Gone
<1>3. CASE Restart
  <2>1. table' = <<>>
    BY <1>3 DEF Restart
  <2> QED BY <2>1 DEF GoneInv, Gone, TableOK, Timed
<1>4. ASSUME NEW o \in Operators, ReleaseTable(o) PROVE GoneInv'
  <2> DEFINE gone == ops[o].ip
  <2>1. table' = without(table, gone) /\ released' \subseteq released \cup {gone} /\ back' = back \ {gone}
    BY <1>4 DEF ReleaseTable
  <2> HIDE DEF gone
  <2>2. /\ TableOK(table')
        /\ \A j \in 1..Len(table') : \/ table'[j].ip = gone /\ table'[j].reserved /\ table'[j].expires = 0
                                     \/ table'[j].ip # gone /\ \E i \in 1..Len(table) : table'[j] = table[i]
    BY <2>1, WithoutIs DEF GoneInv
  <2>3. ASSUME NEW ip \in released' \ back', NEW j \in DOMAIN table', table'[j].ip = ip
        PROVE  table'[j].reserved /\ table'[j].expires = 0
    <3>1. j \in 1..Len(table')
      BY <2>2 DEF TableOK
    <3>2. CASE table'[j].ip = gone /\ table'[j].reserved /\ table'[j].expires = 0
      BY <3>2
    <3>3. CASE table'[j].ip # gone /\ \E i \in 1..Len(table) : table'[j] = table[i]
      <4>1. PICK i \in 1..Len(table) : table'[j] = table[i]
        BY <3>3
      <4>2. i \in DOMAIN table /\ ip \in released \ back /\ table[i].ip = ip
        BY <2>1, <2>3, <3>3, <4>1 DEF GoneInv, TableOK
      <4> QED BY <4>1, <4>2 DEF GoneInv, Gone
    <3> QED BY <2>2, <3>1, <3>2, <3>3
  <2> QED BY <2>2, <2>3 DEF GoneInv, Gone
<1> QED BY TableSteps, <1>1, <1>2, <1>3, <1>4

\* The entry an address answers with is one at that address.
LEMMA ByIPIs ==
  ASSUME NEW t, TableOK(t), NEW ip, ByIP(t, ip) # 0
  PROVE  ByIP(t, ip) \in DOMAIN t /\ t[ByIP(t, ip)].ip = ip
<1> DEFINE I == {i \in 1..Len(t) : t[i].ip = ip}
<1>1. ByIP(t, ip) = IF I # {} THEN Max(I) ELSE 0
  BY DEF ByIP, SelectLastInSeq
<1>2. I # {} /\ ByIP(t, ip) = Max(I)
  BY <1>1
<1>3. Len(t) \in Nat /\ DOMAIN t = 1..Len(t) /\ I \in SUBSET (0..Len(t))
  BY DEF TableOK, Timed
<1>4. Max(I) \in I
  <2> HIDE DEF I
  <2> QED BY <1>2, <1>3, MaxIs
<1> QED BY <1>2, <1>3, <1>4

\* The property, from what the invariant says of the table.
LEMMA GoneIsGone ==
  ASSUME GoneInv
  PROVE  ReleasedStaysGone
<1>1. TableOK(table) /\ DOMAIN table = 1..Len(table) /\ Timed(table)
  BY DEF GoneInv, TableOK
<1>2. ASSUME NEW ip \in released \ back
      PROVE  LET held == {i \in DOMAIN table : table[i].ip = ip} IN
             /\ \A i \in held : table[i].reserved /\ table[i].expires = 0
             /\ reverse(table, ip, view, 0) \in {None} \cup {table[i].host : i \in held}
  <2> DEFINE held == {i \in DOMAIN table : table[i].ip = ip}
  <2>1. \A i \in held : table[i].reserved /\ table[i].expires = 0
    BY <1>2 DEF GoneInv, Gone
  <2>2. reverse(table, ip, view, 0) \in {None} \cup {table[i].host : i \in held}
    <3>1. CASE ByIP(table, ip) = 0
      BY <3>1 DEF reverse
    <3>2. CASE ByIP(table, ip) # 0
      <4>1. ByIP(table, ip) \in held
        BY <1>1, <3>2, ByIPIs
      <4>2. reverse(table, ip, view, 0) \in {None, table[ByIP(table, ip)].host}
        BY DEF reverse
      <4> HIDE DEF held
      <4> QED BY <4>1, <4>2
    <3> QED BY <3>1, <3>2
  <2> QED BY <2>1, <2>2
<1>3. ASSUME NEW i \in DOMAIN table
      PROVE  /\ ~outranks(table[i], table[ByMAC(table, table[i].mac)])
             /\ table[i].name # None => \E j \in DOMAIN table :
                  /\ table[j].name = table[i].name /\ ~outranks(table[i], table[j])
                  /\ forward(table, table[i].name, 0) = table[j].ip
  <2>1. i \in 1..Len(table)
    BY <1>1
  <2>2. ~outranks(table[i], table[ByMAC(table, table[i].mac)])
    BY <1>1, <2>1, ScanFindsTheBest DEF ByMAC
  <2>3. ASSUME table[i].name # None
        PROVE  \E j \in DOMAIN table :
                  /\ table[j].name = table[i].name /\ ~outranks(table[i], table[j])
                  /\ forward(table, table[i].name, 0) = table[j].ip
    <3> DEFINE name == table[i].name
    <3> DEFINE j == Scan(table, "name", name)
    <3>1. j \in 1..Len(table) /\ table[j].name = name /\ ~outranks(table[i], table[j])
      BY <1>1, <2>1, ScanFindsTheBest
    <3>2. ByName(table, name) = j
      BY <2>3 DEF ByName
    <3> HIDE DEF j, name
    <3>3. Answers(table[j], 0) /\ j # 0
      BY <1>1, <3>1 DEF Timed, Answers
    <3>4. forward(table, name, 0) = table[j].ip
      BY <3>2, <3>3 DEF forward
    <3> QED BY <1>1, <3>1, <3>4 DEF name
  <2> QED BY <2>2, <2>3
<1> HIDE DEF GoneInv
<1> QED BY <1>2, <1>3 DEF ReleasedStaysGone

\* An address the operator released is left with its reservations only, and
\* answers no name but theirs, until it is leased again; a poll that was reading
\* when it was released may put its lease back, and the next poll that publishes
\* takes it out, however many pages either reads.  After every poll and every
\* release a name and a device go to an entry none of the others outranks, and
\* an entry without a scope to name it answers no name (manager.go Poll,
\* Release, leases.go tableFrom, without, newTable).  For any reservations,
\* leases, page limit and handlers: polls in flight, releases, renders and
\* restarts interleave.
THEOREM ReleasedAddressesStayGone == Spec => []ReleasedStaysGone
<1> DEFINE Inv == ManagerInv /\ RowsInv /\ LeaseInv /\ MemInv /\ StaleInv /\ GoneInv
<1>1. ASSUME Init PROVE Inv
  <2>1. db = [scopes |-> StartScopes, res |-> StartReservations] /\ poll = Started /\ ops = [o \in Operators |-> Idle]
    BY <1>1 DEF Init
  <2>2. Bounded(StartReservations)
    <3>1. IsFiniteSet(DOMAIN StartReservations) /\ DOMAIN StartReservations \subseteq Nat \ {0}
      BY DhcpAssumption DEF Numbered
    <3>2. PICK n \in Nat : DOMAIN StartReservations \subseteq 0..n
      BY <3>1, FiniteIsBounded
    <3>3. DOMAIN StartReservations \subseteq 1..n
      BY <3>1, <3>2
    <3> QED BY <3>3 DEF Bounded
  <2>3. RowsInv
    BY <2>1, <2>2 DEF RowsInv, PollOK, OpOK, Idle, Started
  <2>4. LeaseInv
    BY <1>1, <2>1 DEF Init, LeaseInv, GotOK, Started
  <2>5. MemInv
    BY <1>1 DEF Init, NewManager, MemInv
  <2>6. GoneInv
    BY <1>1 DEF Init, GoneInv, TableOK, Timed
  <2>7. StaleInv
    BY <1>1 DEF Init, StaleInv, Reading, Started
  <2> QED BY <1>1, <2>3, <2>4, <2>5, <2>6, <2>7, InitHolds
<1>2. Inv /\ [Next]_vars => Inv'
  BY ManagerStep, RowsStep, LeaseStep, MemStep, StaleStep, GoneStep
<1>3. Inv => ReleasedStaysGone
  BY GoneIsGone
<1> QED BY <1>1, <1>2, <1>3, PTL DEF Spec
=============================================================================
