----------------------------- MODULE ThreadPool -----------------------------
(***************************************************************************)
(* The work-stealing thread pool (dg-graph/src/pool.rs). Each worker has a *)
(* queue; spawn puts a job in the shortest, then counts it, then wakes a   *)
(* worker; a worker takes from its own queue or from the others', then     *)
(* counts down, and sleeps when the count is zero. The count may lag       *)
(* behind the queues on both sides, even below zero (it wraps).            *)
(***************************************************************************)
EXTENDS Integers, Sequences, FiniteSets

CONSTANTS Queues,       \* the number of workers, each with a queue
          Jobs,         \* jobs, each spawned by a thread of its own
          Panicking     \* jobs that panic

ASSUME WorkersAssumption == Queues \in Nat \ {0}     \* ThreadPool::new refuses zero

Workers == 1..Queues
NoJob == 0

VARIABLES queues, pending,
          signal,       \* who holds the lock of the shutdown flag; NoJob: nobody
          shutdown,
          caller,       \* per job, where its spawn is: [at, next, shortest, target]
          worker,       \* per worker: [at, next, job]
          ran           \* the jobs that ran

jobVars == <<queues, pending, signal, shutdown, caller, worker, ran>>

\* ThreadPool::new: when a worker cannot be started the ones there are are
\* stopped and joined, and there is no pool to spawn on.
JobsInit == /\ queues = [w \in Workers |-> <<>>] /\ pending = 0 /\ signal = NoJob /\ shutdown = FALSE
            /\ \E started \in Workers :
                 /\ worker = [w \in Workers |-> [at |-> IF w <= started THEN "pop" ELSE "gone", next |-> 1, job |-> NoJob]]
                 /\ caller = [j \in Jobs |-> [at |-> IF started = Queues THEN "new" ELSE "done", next |-> 1,
                                              shortest |-> Cardinality(Jobs) + 1, target |-> 1]]
            /\ ran = {}

Caller(j, at) == caller' = [caller EXCEPT ![j].at = at]
Worker(w, at) == worker' = [worker EXCEPT ![w].at = at]

\* try_push looks at one queue after the other, each under its own lock.
Scan(j) ==
    /\ caller[j].at \in {"new", "scan"} /\ ~shutdown
    /\ LET c == caller[j]  len == Len(queues[c.next])  better == len < c.shortest IN
       caller' = [caller EXCEPT ![j] = [at |-> IF c.next = Queues THEN "push" ELSE "scan",
                                        next |-> c.next + 1,
                                        shortest |-> IF better THEN len ELSE c.shortest,
                                        target |-> IF better THEN c.next ELSE c.target]]
    /\ UNCHANGED <<queues, pending, signal, shutdown, worker, ran>>

Push(j) == /\ caller[j].at = "push"
           /\ queues' = [queues EXCEPT ![caller[j].target] = Append(@, j)]
           /\ Caller(j, "count") /\ UNCHANGED <<pending, signal, shutdown, worker, ran>>

CountUp(j) == /\ caller[j].at = "count" /\ pending' = pending + 1
              /\ Caller(j, "notify") /\ UNCHANGED <<queues, signal, shutdown, worker, ran>>

Sleeping == {w \in Workers : worker[w].at = "sleep"}

NotifyOne(j) == /\ caller[j].at = "notify" /\ signal = NoJob
                /\ \/ Sleeping = {} /\ UNCHANGED worker
                   \/ \E w \in Sleeping : Worker(w, "woken")
                /\ Caller(j, "done") /\ UNCHANGED <<queues, pending, signal, shutdown, ran>>

try_pop(w) ==
    /\ worker[w].at = "pop"
    /\ IF queues[w] # <<>>
         THEN /\ worker' = [worker EXCEPT ![w] = [@ EXCEPT !.at = "count", !.job = Head(queues[w])]]
              /\ queues' = [queues EXCEPT ![w] = Tail(@)]
         ELSE worker' = [worker EXCEPT ![w] = [@ EXCEPT !.at = "steal", !.next = 1]] /\ UNCHANGED queues
    /\ UNCHANGED <<pending, signal, shutdown, caller, ran>>

\* The other queues one after the other, from their backs.
try_steal(w) ==
    /\ worker[w].at = "steal"
    /\ LET v == worker[w].next IN
       IF v > Queues THEN Worker(w, "lock") /\ UNCHANGED queues
       ELSE IF v = w \/ queues[v] = <<>>
         THEN worker' = [worker EXCEPT ![w].next = @ + 1] /\ UNCHANGED queues
       ELSE /\ worker' = [worker EXCEPT ![w] = [@ EXCEPT !.at = "count", !.job = queues[v][Len(queues[v])]]]
            /\ queues' = [queues EXCEPT ![v] = SubSeq(@, 1, Len(@) - 1)]
    /\ UNCHANGED <<pending, signal, shutdown, caller, ran>>

CountDown(w) == /\ worker[w].at = "count" /\ pending' = pending - 1
                /\ Worker(w, "run") /\ UNCHANGED <<queues, signal, shutdown, caller, ran>>

\* A job that panics ends its worker.
RunJob(w) == /\ worker[w].at = "run" /\ ran' = ran \cup {worker[w].job}
             /\ worker' = [worker EXCEPT ![w] = [@ EXCEPT !.at = IF worker[w].job \in Panicking THEN "gone" ELSE "pop",
                                                          !.job = NoJob]]
             /\ UNCHANGED <<queues, pending, signal, shutdown, caller>>

\* The count is read twice under the lock: once to leave, once to sleep.
Check(w) == /\ worker[w].at = "lock" /\ signal = NoJob
            /\ IF shutdown /\ pending = 0 THEN Worker(w, "gone") /\ UNCHANGED signal
               ELSE Worker(w, "checked") /\ signal' = w
            /\ UNCHANGED <<queues, pending, shutdown, caller, ran>>

\* Mutant: the count is not read again before sleeping.
Sleep_Always(w) ==
    /\ worker[w].at = "checked" /\ signal' = NoJob
    /\ Worker(w, "sleep")
    /\ UNCHANGED <<queues, pending, shutdown, caller, ran>>

Sleep(w) == /\ worker[w].at = "checked" /\ signal' = NoJob
            /\ Worker(w, IF pending = 0 THEN "sleep" ELSE "pop")
            /\ UNCHANGED <<queues, pending, shutdown, caller, ran>>

\* A condition variable may wake a thread for no reason.
Spurious(w) == /\ worker[w].at = "sleep" /\ Worker(w, "woken")
               /\ UNCHANGED <<queues, pending, signal, shutdown, caller, ran>>

Wake(w) == /\ worker[w].at = "woken" /\ signal = NoJob
           /\ Worker(w, IF shutdown /\ pending = 0 THEN "gone" ELSE "pop")
           /\ UNCHANGED <<queues, pending, signal, shutdown, caller, ran>>

\* Drop: no spawn is under way, and none begins after it. It joins the workers.
Shutdown == /\ ~shutdown /\ signal = NoJob /\ \A j \in Jobs : caller[j].at \in {"new", "done"}
            /\ shutdown' = TRUE
            /\ worker' = [w \in Workers |-> [worker[w] EXCEPT !.at = IF @ = "sleep" THEN "woken" ELSE @]]
            /\ UNCHANGED <<queues, pending, signal, caller, ran>>

SpawnStep(j) == Scan(j) \/ Push(j) \/ CountUp(j) \/ NotifyOne(j)
worker_loop(w) == try_pop(w) \/ try_steal(w) \/ CountDown(w) \/ RunJob(w) \/ Check(w) \/ Sleep(w) \/ Wake(w)

JobsNext == Shutdown \/ \E j \in Jobs : SpawnStep(j)
            \/ \E w \in Workers : worker_loop(w) \/ Spurious(w)

(* Every job whose spawn has put it in a queue runs, and once the pool is  *)
(* dropped every worker comes to rest with no job left behind, as long as  *)
(* fewer jobs panic than there are workers: no wake-up is lost although    *)
(* the count lags behind the queues, and no worker leaves too early        *)
(* (try_push, worker_loop).                                                *)
SpawnedJobsRun ==
    /\ \A j \in Jobs : caller[j].at = "count" ~> j \in ran
    /\ shutdown ~> [](\A w \in Workers : worker[w].at \in {"gone", "sleep"} /\ queues[w] = <<>>)
=============================================================================
