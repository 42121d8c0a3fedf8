------------------------ MODULE GraphLifecycleProofs ------------------------
(***************************************************************************)
(* The safety of the lifecycle for any number of nodes.  StoppedMeansJoined*)
(* and NoDetachedWorker are not inductive by themselves: a shutdown ends   *)
(* with Stopped because what it has not visited covers the handles, and a  *)
(* replacement starts no second thread because what is left to spawn has   *)
(* no entry any more.  IInv records how far each call has come.            *)
(***************************************************************************)
EXTENDS GraphLifecycle, TLAPS

Updating == {"prepare", "join", "spawn", "respawn", "abort"}

\* What the position of the owner in a call says about the handles.
Progress ==
    /\ op \notin {"drop", "closed"} => alive \subseteq handle
    /\ op = "start" => status = "Starting"
    /\ op \in Updating => status = "Reloading"
    /\ op = "shutdown" => handle \subseteq todo
    /\ op \in {"idle", "prepare"} => joined = {}
    /\ op = "join" => affected \intersect entry \subseteq todo /\ joined \intersect entry = {}
    /\ op \in Spawning => todo \intersect entry = {}

IInv == TypeOK /\ NoDetachedWorker /\ StoppedMeansJoined /\ FailedHasCause /\ Progress

LEMMA NextUpInTodo == ASSUME NEW n, NextUp(n) PROVE n \in todo
BY DEF NextUp

LEMMA InitIInv == Init => IInv
BY DEF Init, IInv, TypeOK, NoDetachedWorker, StoppedMeansJoined, FailedHasCause, Progress,
       Updating, Spawning

LEMMA StepIInv == IInv /\ [Next]_vars => IInv'
<1> SUFFICES ASSUME IInv, [Next]_vars PROVE IInv'
  OBVIOUS
<1> USE DEF IInv, TypeOK, NoDetachedWorker, StoppedMeansJoined, FailedHasCause, Progress,
            Updating, Spawning, worker, graph, update, call
<1>1. ASSUME NEW n \in Nodes, WorkerStep(n) PROVE IInv'
  <2>1. CASE EndOfStream(n) BY <2>1 DEF EndOfStream, Return
  <2>2. CASE Cancelled(n) BY <2>2 DEF Cancelled, Return
  <2>3. CASE BadFrame(n) BY <2>3 DEF BadFrame, Return
  <2>4. CASE Fatal(n) BY <2>4 DEF Fatal, Return
  <2> QED BY <1>1, <2>1, <2>2, <2>3, <2>4 DEF WorkerStep
<1>2. ASSUME NEW n \in Nodes, OwnerVisit(n) PROVE IInv'
  <2>1. CASE SpawnNode(n) BY <2>1 DEF SpawnNode
  <2>2. CASE AbortJoin(n) BY <2>2, NextUpInTodo DEF AbortJoin, JoinNext, Finished
  <2>3. CASE ShutdownJoin(n) BY <2>3, NextUpInTodo DEF ShutdownJoin, JoinNext, Finished, SelectError
  <2>4. CASE PollVisit(n) BY <2>4, NextUpInTodo DEF PollVisit, JoinNext, Finished, SelectError
  <2>5. CASE HotJoin(n) BY <2>5, NextUpInTodo DEF HotJoin, Finished, Restorable
  <2>6. CASE FinishJoin(n) BY <2>6, NextUpInTodo DEF FinishJoin, JoinNext, Finished
  <2>7. CASE DropVisit(n) BY <2>7, NextUpInTodo DEF DropVisit, JoinNext
  <2> QED BY <1>2, <2>1, <2>2, <2>3, <2>4, <2>5, <2>6, <2>7 DEF OwnerVisit
<1>3. CASE AbortSpawns BY <1>3 DEF AbortSpawns
<1>4. CASE AbortEnd BY <1>4 DEF AbortEnd, Fail, RootCause, Idle
<1>5. CASE StartEnd BY <1>5 DEF StartEnd, Idle
<1>6. CASE ShutdownTimeout BY <1>6 DEF ShutdownTimeout, Idle
<1>7. CASE ShutdownEnd BY <1>7 DEF ShutdownEnd, Fail, RootCause, Idle
<1>8. CASE PollEnd BY <1>8 DEF PollEnd, Fail, RootCause, Idle
<1>9. CASE HotReject BY <1>9 DEF HotReject, UpdateFailed, Idle
<1>10. CASE HotQuiesce BY <1>10 DEF HotQuiesce
<1>11. CASE HotRestored BY <1>11 DEF HotRestored, UpdateFailed, Idle
<1>12. CASE RestoreFailed BY <1>12 DEF RestoreFailed, Fail, RootCause, Idle
<1>13. CASE HotSwitch BY <1>13 DEF HotSwitch
<1>14. CASE HotMissingRoute BY <1>14 DEF HotMissingRoute, UpdateFailed, Idle
<1>26. CASE HotFaultQuiesced BY <1>26 DEF HotFaultQuiesced, Restorable
<1>27. CASE HotFaultSwitched BY <1>27 DEF HotFaultSwitched, Fail, RootCause, Idle
<1>15. CASE HotDrained BY <1>15 DEF HotDrained, Idle
<1>16. CASE HotDrainFailed BY <1>16 DEF HotDrainFailed, Fail, RootCause, Idle
<1>17. CASE FinishEnd BY <1>17 DEF FinishEnd, DropSkips
<1>18. CASE DropEnd BY <1>18 DEF DropEnd
<1>19. CASE RequestStop BY <1>19 DEF RequestStop, AskStop
<1>20. CASE Shutdown BY <1>20 DEF Shutdown, AskStop
<1>21. CASE Poll BY <1>21 DEF Poll
<1>22. CASE HotUpdate BY <1>22 DEF HotUpdate
<1>23. CASE Finish BY <1>23 DEF Finish
<1>24. CASE Drop
  <2>1. CASE DropSkips BY <1>24, <2>1 DEF Drop, DropSkips
  <2>2. CASE ~DropSkips BY <1>24, <2>2 DEF Drop, DropSkips
  <2> QED BY <2>1, <2>2
<1>25. CASE UNCHANGED vars BY <1>25 DEF vars
<1> QED
  BY <1>1, <1>2, <1>3, <1>4, <1>5, <1>6, <1>7, <1>8, <1>9, <1>10, <1>11, <1>12, <1>13,
     <1>14, <1>15, <1>16, <1>17, <1>18, <1>19, <1>20, <1>21, <1>22, <1>23, <1>24, <1>25,
     <1>26, <1>27
  DEF Next, OwnerStep, OwnerCall, Closed

\* Every reachable state satisfies the inductive invariant.
LEMMA IInvHolds == Spec => []IInv
BY InitIInv, StepIInv, PTL DEF Spec

\* The variables keep their types in every behaviour of the specification.
THEOREM TypeCorrect == Spec => []TypeOK
<1>1. IInv => TypeOK
  BY DEF IInv
<1> QED BY IInvHolds, <1>1, PTL

\* The status Stopped, set by shutdown and by poll, is only reported when all
\* threads of the graph have ended and were joined.
THEOREM StoppedIsFinal == Spec => []StoppedMeansJoined
<1>1. IInv => StoppedMeansJoined
  BY DEF IInv
<1> QED BY IInvHolds, <1>1, PTL

\* No call loses the handle of a running worker, on its error paths either.
THEOREM WorkersStayReachable == Spec => []NoDetachedWorker
<1>1. IInv => NoDetachedWorker
  BY DEF IInv
<1> QED BY IInvHolds, <1>1, PTL

\* What status and handles say of the threads is true, on every error path of
\* every call (start, shutdown, poll, apply_hot_update).
THEOREM HandlesStayTrue == Spec => []HandlesAreTrue
<1>1. IInv => HandlesAreTrue
  BY DEF IInv, HandlesAreTrue
<1> QED
  BY <1>1, IInvHolds, PTL

\* A Failed graph always has a root cause to report.
THEOREM FailureHasCause == Spec => []FailedHasCause
<1>1. IInv => FailedHasCause
  BY DEF IInv
<1> QED BY IInvHolds, <1>1, PTL

LEMMA FirstCauseStays ==
    ASSUME Next, cause # "none" PROVE cause' = cause
<1> USE DEF worker, graph, update, call, Fail, RootCause
<1>1. ASSUME NEW n \in Nodes, WorkerStep(n) PROVE cause' = cause
  BY <1>1 DEF WorkerStep, EndOfStream, Cancelled, BadFrame, Fatal, Return
<1>2. ASSUME NEW n \in Nodes, OwnerVisit(n) PROVE cause' = cause
  BY <1>2 DEF OwnerVisit, SpawnNode, AbortJoin, ShutdownJoin, PollVisit, HotJoin, FinishJoin,
              DropVisit, JoinNext
<1>3. CASE OwnerStep
  BY <1>2, <1>3
  DEF OwnerStep, AbortSpawns, AbortEnd, StartEnd, ShutdownTimeout, ShutdownEnd, PollEnd,
      HotReject, HotQuiesce, HotRestored, RestoreFailed, HotSwitch, HotFaultQuiesced,
      HotFaultSwitched, HotMissingRoute,
      HotDrained, HotDrainFailed, FinishEnd, DropEnd, UpdateFailed
<1>4. CASE OwnerCall
  BY <1>4 DEF OwnerCall, RequestStop, Shutdown, AskStop, Poll, HotUpdate, Finish, Drop
<1>5. CASE Closed BY <1>5 DEF Closed, vars
<1> QED BY <1>1, <1>3, <1>4, <1>5 DEF Next

\* No step replaces the first root cause that was recorded.
THEOREM FirstCauseIsStable == Spec => CauseIsStable
<1>1. [Next]_vars => [cause # "none" => cause' = cause]_vars
  BY FirstCauseStays
<1> QED BY <1>1, PTL DEF Spec, CauseIsStable

LEMMA SpawnsOnlyDead ==
    ASSUME IInv, Next, NEW n \in Nodes, n \in handle', n \notin handle
    PROVE  n \notin alive
<1> USE DEF worker, graph, update, call
<1>1. ASSUME NEW m \in Nodes, WorkerStep(m) PROVE n \notin alive
  BY <1>1 DEF WorkerStep, EndOfStream, Cancelled, BadFrame, Fatal, Return
<1>2. ASSUME NEW m \in Nodes, OwnerVisit(m) PROVE n \notin alive
  <2>1. CASE SpawnNode(m)
    BY <2>1 DEF SpawnNode, IInv, NoDetachedWorker, Progress, Spawning
  <2> QED
    BY <1>2, <2>1 DEF OwnerVisit, AbortJoin, ShutdownJoin, PollVisit, HotJoin, FinishJoin,
                      DropVisit, JoinNext
<1>3. CASE OwnerStep
  BY <1>2, <1>3
  DEF OwnerStep, AbortSpawns, AbortEnd, StartEnd, ShutdownTimeout, ShutdownEnd, PollEnd,
      HotReject, HotQuiesce, HotRestored, RestoreFailed, HotSwitch, HotFaultQuiesced,
      HotFaultSwitched, HotMissingRoute,
      HotDrained, HotDrainFailed, FinishEnd, DropEnd, UpdateFailed
<1>4. CASE OwnerCall
  BY <1>4 DEF OwnerCall, RequestStop, Shutdown, AskStop, Poll, HotUpdate, Finish, Drop
<1>5. CASE Closed BY <1>5 DEF Closed, vars
<1> QED BY <1>1, <1>3, <1>4, <1>5 DEF Next

\* A replacement worker starts only after the worker it replaces has ended, so
\* no node is ever run by two generations at once.
THEOREM OneGenerationAtATime == Spec => OneGeneration
<1>1. IInv /\ [Next]_vars =>
        [\A n \in Nodes : (n \in handle' /\ n \notin handle) => n \notin alive]_vars
  BY SpawnsOnlyDead
<1> QED BY <1>1, IInvHolds, PTL DEF Spec, OneGeneration

\* Neither a later failure nor an update undoes what was there: the first root
\* cause stays and a worker that runs is not replaced.
THEOREM HistoryStays == Spec => HistoryIsKept
BY FirstCauseIsStable, OneGenerationAtATime DEF HistoryIsKept

-----------------------------------------------------------------------------
(* What an abandoned update gives back *)

Broken(n) == outcome[n] \in {"frame", "fatal"}

\* Nodes of a specification s without an entry are in t or ended with an error.
Covered(s, t) == entry \subseteq s /\ \A n \in s \ entry : n \in t \/ Broken(n)

\* How far a call is from a graph whose entries are those of its specification.
Coverage ==
    /\ op \notin {"abort", "unstart", "closed"} => ~torn
    /\ op \in {"start", "respawn"} => Covered(spec, todo) /\ todo \subseteq spec
    /\ op \in {"idle", "poll", "shutdown", "prepare"} => Covered(spec, {})
    /\ op = "join" => Covered(spec, joined) /\ joined \union todo \subseteq affected
    /\ op = "spawn" => Covered(cand, todo) /\ todo \subseteq cand
    /\ op \in {"prepare", "join"} =>
        (spec \ cand) \union (cand \ spec) \subseteq affected

CInv == IInv /\ (cause = "none" => Coverage)

LEMMA InitCInv == Init => CInv
BY InitIInv DEF Init, CInv, Coverage, Covered

LEMMA StepCInv == CInv /\ [Next]_vars => CInv'
<1> SUFFICES ASSUME CInv, [Next]_vars PROVE CInv'
  OBVIOUS
<1>a. IInv'
  BY StepIInv DEF CInv
<1>b. cause # "none" => cause' = cause
  BY FirstCauseStays DEF vars, graph
<1> SUFFICES ASSUME cause = "none", cause' = "none" PROVE Coverage'
  BY <1>a, <1>b DEF CInv
<1> USE DEF CInv, IInv, TypeOK, NoDetachedWorker, Progress, Coverage, Covered, Broken,
            Updating, Spawning, worker, graph, update, call
<1>1. ASSUME NEW n \in Nodes, WorkerStep(n) PROVE Coverage'
  BY <1>1 DEF WorkerStep, EndOfStream, Cancelled, BadFrame, Fatal, Return
<1>2. ASSUME NEW n \in Nodes, OwnerVisit(n) PROVE Coverage'
  <2>1. CASE SpawnNode(n)
    <3>1. CASE op \in {"start", "respawn"} BY <2>1, <3>1 DEF SpawnNode
    <3>2. CASE op = "spawn" BY <2>1, <3>2 DEF SpawnNode
    <3> QED BY <2>1, <3>1, <3>2 DEF SpawnNode
  <2>2. CASE AbortJoin(n) BY <2>2 DEF AbortJoin, JoinNext
  <2>3. CASE ShutdownJoin(n) BY <2>3 DEF ShutdownJoin, JoinNext
  <2>4. CASE PollVisit(n) BY <2>4 DEF PollVisit, JoinNext
  <2>5. CASE HotJoin(n)
    <3>1. CASE ~JoinFailed(n) BY <2>5, <3>1, NextUpInTodo DEF HotJoin
    <3>2. CASE JoinFailed(n) BY <2>5, <3>2, NextUpInTodo DEF HotJoin, JoinFailed, Restorable
    <3> QED BY <3>1, <3>2
  <2>6. CASE FinishJoin(n) BY <2>6 DEF FinishJoin, JoinNext
  <2>7. CASE DropVisit(n) BY <2>7 DEF DropVisit, JoinNext
  <2> QED BY <1>2, <2>1, <2>2, <2>3, <2>4, <2>5, <2>6, <2>7 DEF OwnerVisit
<1>3. CASE AbortSpawns BY <1>3 DEF AbortSpawns
<1>4. CASE AbortEnd BY <1>4 DEF AbortEnd, Fail, RootCause
<1>5. CASE StartEnd BY <1>5 DEF StartEnd, Idle
<1>6. CASE ShutdownTimeout BY <1>6 DEF ShutdownTimeout, Idle
<1>7. CASE ShutdownEnd BY <1>7 DEF ShutdownEnd, Idle
<1>8. CASE PollEnd BY <1>8 DEF PollEnd, Idle
<1>9. CASE HotReject BY <1>9 DEF HotReject, UpdateFailed, Idle
<1>10. CASE HotQuiesce BY <1>10 DEF HotQuiesce
<1>11. CASE HotRestored BY <1>11 DEF HotRestored, UpdateFailed, Idle
<1>12. CASE RestoreFailed BY <1>12 DEF RestoreFailed, Fail, RootCause
<1>13. CASE HotSwitch BY <1>13 DEF HotSwitch
<1>14. CASE HotMissingRoute BY <1>14 DEF HotMissingRoute
<1>26. CASE HotFaultQuiesced BY <1>26 DEF HotFaultQuiesced, Restorable
<1>27. CASE HotFaultSwitched BY <1>27 DEF HotFaultSwitched, Fail, RootCause
<1>15. CASE HotDrained BY <1>15 DEF HotDrained, Idle
<1>16. CASE HotDrainFailed BY <1>16 DEF HotDrainFailed, Fail, RootCause
<1>17. CASE FinishEnd BY <1>17 DEF FinishEnd
<1>18. CASE DropEnd BY <1>18 DEF DropEnd
<1>19. CASE RequestStop BY <1>19 DEF RequestStop, AskStop
<1>20. CASE Shutdown BY <1>20 DEF Shutdown, AskStop
<1>21. CASE Poll BY <1>21 DEF Poll
<1>22. CASE HotUpdate BY <1>22 DEF HotUpdate
<1>23. CASE Finish BY <1>23 DEF Finish
<1>24. CASE Drop BY <1>24 DEF Drop
<1>25. CASE UNCHANGED vars BY <1>25 DEF vars
<1> QED
  BY <1>1, <1>2, <1>3, <1>4, <1>5, <1>6, <1>7, <1>8, <1>9, <1>10, <1>11, <1>12, <1>13,
     <1>14, <1>15, <1>16, <1>17, <1>18, <1>19, <1>20, <1>21, <1>22, <1>23, <1>24, <1>25,
     <1>26, <1>27
  DEF Next, OwnerStep, OwnerCall, Closed

\* Who was told to stop: outside a stop of the whole graph, the nodes the join of
\* an update still has before it and those a failed one left behind. A worker
\* that is gone has returned something, and a cancelled one had been told.
Told ==
    /\ stop \/ entry \intersect ctl \subseteq left \union (IF op = "join" THEN todo ELSE {})
    /\ \A n \in entry : n \in alive \/ outcome[n] # "none"
    /\ \A n \in Nodes : outcome[n] = "cancelled" => stop \/ n \in ctl

LEMMA StepTold == IInv /\ Told /\ [Next]_vars => Told'
<1> SUFFICES ASSUME IInv, Told, [Next]_vars PROVE Told'
  OBVIOUS
<1> USE DEF Told, IInv, TypeOK, NoDetachedWorker, worker, graph, update, call
<1>1. ASSUME NEW n \in Nodes, WorkerStep(n) PROVE Told'
  BY <1>1 DEF WorkerStep, EndOfStream, Cancelled, BadFrame, Fatal, Return, ToldToStop
<1>2. ASSUME NEW n \in Nodes, OwnerVisit(n) PROVE Told'
  <2>1. CASE SpawnNode(n) BY <2>1 DEF SpawnNode, Spawning
  <2>2. CASE AbortJoin(n) BY <2>2 DEF AbortJoin, JoinNext
  <2>3. CASE ShutdownJoin(n) BY <2>3 DEF ShutdownJoin, JoinNext
  <2>4. CASE PollVisit(n) BY <2>4 DEF PollVisit, JoinNext
  <2>5. CASE HotJoin(n) BY <2>5, NextUpInTodo DEF HotJoin
  <2>6. CASE FinishJoin(n) BY <2>6 DEF FinishJoin, JoinNext
  <2>7. CASE DropVisit(n) BY <2>7 DEF DropVisit, JoinNext
  <2> QED BY <1>2, <2>1, <2>2, <2>3, <2>4, <2>5, <2>6, <2>7 DEF OwnerVisit
<1>3. CASE AbortSpawns BY <1>3 DEF AbortSpawns
<1>4. CASE HotQuiesce BY <1>4 DEF HotQuiesce
<1>5. CASE HotSwitch \/ HotFaultQuiesced BY <1>5 DEF HotSwitch, HotFaultQuiesced
<1>6. CASE HotFaultSwitched \/ HotMissingRoute
  BY <1>6 DEF HotFaultSwitched, HotMissingRoute, UpdateFailed, Idle
<1>7. CASE AbortEnd \/ StartEnd \/ ShutdownTimeout \/ ShutdownEnd \/ PollEnd \/ HotReject \/ HotRestored
           \/ RestoreFailed \/ HotDrained \/ HotDrainFailed \/ FinishEnd \/ DropEnd
  BY <1>7 DEF AbortEnd, StartEnd, ShutdownTimeout, ShutdownEnd, PollEnd, HotReject, HotRestored,
              RestoreFailed, HotDrained, HotDrainFailed, FinishEnd, DropEnd, UpdateFailed, Idle
<1>8. CASE OwnerCall
  BY <1>8 DEF OwnerCall, RequestStop, Shutdown, AskStop, Poll, HotUpdate, Finish, Drop
<1>9. CASE UNCHANGED vars BY <1>9 DEF vars
<1> QED
  BY <1>1, <1>2, <1>3, <1>4, <1>5, <1>6, <1>7, <1>8, <1>9 DEF Next, OwnerStep, Closed

\* In a Running graph that never failed, the entries are those of the
\* specification, except for nodes whose own worker returned an error: a hot
\* update that was rejected or abandoned half way has given the others back.
\* They run on untouched or ended of themselves, unless the whole graph is being
\* stopped, but for the nodes a failed quiesce had told to stop and not reached.
THEOREM AbandonedUpdateGivesBack == Spec => []NothingElseLost
<1>1. CInv /\ Told => NothingElseLost
  BY DEF CInv, IInv, TypeOK, Coverage, Covered, Broken, Told, NothingElseLost, Untouched
<1>2. Init => Told
  BY DEF Init, Told
<1>3. CInv /\ Told /\ [Next]_vars => Told'
  BY StepTold DEF CInv
<1> QED BY InitCInv, StepCInv, <1>1, <1>2, <1>3, PTL DEF Spec
=============================================================================
