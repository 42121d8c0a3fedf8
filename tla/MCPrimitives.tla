---------------------------- MODULE MCPrimitives ----------------------------
(***************************************************************************)
(* The shared primitives under the graph, each on its own: a behaviour is  *)
(* one of the data pipe (two cloned senders, two workers on its receiver), *)
(* of the buffer cache, of the thread pool, of a route under a hot update  *)
(* or of the file watcher; the others stay as they are created.            *)
(***************************************************************************)
EXTENDS DataPipe, MemoryPool, ThreadPool, RouteSwitch, GraphWatch

VARIABLE which

allVars == <<which, pipeVars, poolVars, jobVars, routeVars, watchVars>>

MCInit ==
    /\ which \in {"pipe", "cache", "pool", "route", "watch"}
    /\ PipeInit /\ PoolInit /\ JobsInit /\ RouteInit /\ WatchInit
    /\ which = "pool" \/ \A w \in Workers : worker[w].at = "pop"
    /\ which = "route" \/ (stays /\ keeps)
    /\ which = "watch" \/ disk["root"].includes

MCNext ==
    /\ UNCHANGED which
    /\ \/ which = "pipe" /\ PipeNext /\ UNCHANGED <<poolVars, jobVars, routeVars, watchVars>>
       \/ which = "cache" /\ PoolNext /\ UNCHANGED <<pipeVars, jobVars, routeVars, watchVars>>
       \/ which = "pool" /\ JobsNext /\ UNCHANGED <<pipeVars, poolVars, routeVars, watchVars>>
       \/ which = "route" /\ RouteNext /\ UNCHANGED <<pipeVars, poolVars, jobVars, watchVars>>
       \/ which = "watch" /\ WatchNext /\ UNCHANGED <<pipeVars, poolVars, jobVars, routeVars>>

\* Threads that can run do; a spawn that has begun ends.
MCFairness ==
    /\ \A w \in Workers : WF_allVars(which = "pool" /\ worker_loop(w)
                                     /\ UNCHANGED <<which, pipeVars, poolVars, routeVars, watchVars>>)
    /\ \A j \in Jobs : WF_allVars(which = "pool" /\ caller[j].at # "new" /\ SpawnStep(j)
                                  /\ UNCHANGED <<which, pipeVars, poolVars, routeVars, watchVars>>)
    /\ WF_allVars(which = "watch" /\ watch /\ UNCHANGED <<which, pipeVars, poolVars, jobVars, routeVars>>)

MCSpec == MCInit /\ [][MCNext]_allVars /\ MCFairness

MCKeys == {<<1, 1>>, <<1, 2>>, <<2, 1>>, <<4, 1>>}

\* Work handed to a background thread gets done: a job spawned on the pool
\* runs, and a change of the watched files is reported (pool.rs:39,
\* engine.rs:1646).
BackgroundWorkGetsDone == SpawnedJobsRun /\ (which = "watch" => WatchSettles)
=============================================================================
