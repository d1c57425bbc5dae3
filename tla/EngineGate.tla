----------------------------- MODULE EngineGate -----------------------------
(***************************************************************************)
(* The CPU gate of the engine: the semaphore sem_compress that a compress,  *)
(* a restore and an analyze hold while their blocking task runs in the      *)
(* rayon pool, and the load balancer that withdraws and gives back permits  *)
(* (src/src/service.rs, main.rs).  The queue of the semaphore and the pool  *)
(* are libraries (tokio, rayon); everything else is the engine's.           *)
(*                                                                         *)
(* A request stands for a client that sends one request after another.      *)
(***************************************************************************)
EXTENDS Naturals, Sequences, FiniteSets, SequencesExt

CONSTANTS
    Requests,
    Permits,    \* num_cpus, the permits the semaphore starts with
    Threads     \* RAYON_NUM_THREADS, the workers of the pool

ASSUME RequestsAssumption == IsFiniteSet(Requests)
ASSUME PermitsAssumption == Permits \in Nat \ {0}
ASSUME ThreadsAssumption == Threads \in Nat \ {0}

VARIABLES
    phase,      \* where the handler of each request stands
    avail,      \* the permits nobody holds
    queue,      \* the requests that await a permit, first come first served
    jobs,       \* the blocking tasks the pool has not started
    running,    \* the blocking tasks in progress
    balancer,   \* "asleep", or "taking" once it saw spare permits
    retained    \* the permits the balancer withdrew

vars == <<phase, avail, queue, jobs, running, balancer, retained>>

Holders == {r \in Requests : phase[r] \in {"granted", "working"}}
TaskOf(r) == r \in running \/ \E i \in 1..Len(jobs) : jobs[i] = r

Init ==
    /\ phase = [r \in Requests |-> "idle"]
    /\ avail = Permits
    /\ queue = <<>>
    /\ jobs = <<>>
    /\ running = {}
    /\ balancer = "asleep"
    /\ retained = 0

----------------------------------------------------------------------------
(***************************************************************************)
(* The semaphore: a permit that is dropped goes to the first request of the *)
(* queue, and to the free ones when nobody waits.  The caller's own move is *)
(* in ph, the phases after it.                                              *)
(***************************************************************************)
Release(ph) ==
    IF queue = <<>>
    THEN /\ avail' = avail + 1
         /\ phase' = ph
         /\ UNCHANGED queue
    ELSE /\ phase' = [ph EXCEPT ![Head(queue)] = "granted"]
         /\ queue' = Tail(queue)
         /\ UNCHANGED avail

\* acquire_owned().await in compress, reconstruct and analyze.
Acquire(r) ==
    /\ phase[r] = "idle"
    /\ IF avail > 0
       THEN /\ avail' = avail - 1
            /\ phase' = [phase EXCEPT ![r] = "granted"]
            /\ UNCHANGED queue
       ELSE /\ queue' = Append(queue, r)
            /\ phase' = [phase EXCEPT ![r] = "waiting"]
            /\ UNCHANGED avail
    /\ UNCHANGED <<jobs, running, balancer, retained>>

\* spawn_blocking(pool.install(..)): the task joins the queue of the pool.
Spawn(r) ==
    /\ phase[r] = "granted"
    /\ phase' = [phase EXCEPT ![r] = "working"]
    /\ jobs' = Append(jobs, r)
    /\ UNCHANGED <<avail, queue, running, balancer, retained>>

\* A worker starts the first task: an idle one, or one that waits for the other half
\* of a parallel iterator of the planner and takes new work meanwhile.
Start ==
    /\ jobs # <<>>
    /\ running' = running \cup {Head(jobs)}
    /\ jobs' = Tail(jobs)
    /\ UNCHANGED <<phase, avail, queue, balancer, retained>>

IdleWorkerStarts == Cardinality(running) < Threads /\ Start

\* A task ends; nobody waits for it any more when its client has left.
Finish(r) ==
    /\ r \in running
    /\ running' = running \ {r}
    /\ phase' = IF phase[r] = "left" THEN [phase EXCEPT ![r] = "idle"] ELSE phase
    /\ UNCHANGED <<avail, queue, jobs, balancer, retained>>

\* Bug: the permit is forgotten instead of dropped.
ReturnForgets(r) ==
    /\ phase[r] = "working"
    /\ ~TaskOf(r)
    /\ phase' = [phase EXCEPT ![r] = "idle"]
    /\ UNCHANGED <<avail, queue, jobs, running, balancer, retained>>

\* The handler resumes after its task and drops the permit.
Return(r) ==
    /\ phase[r] = "working"
    /\ ~TaskOf(r)
    /\ Release([phase EXCEPT ![r] = "idle"])
    /\ UNCHANGED <<jobs, running, balancer, retained>>

\* The client leaves and the future is dropped: its place in the queue or its permit
\* go with it, its blocking task stays.
Cancel(r) ==
    /\ \/ /\ phase[r] = "waiting"
          /\ \E i \in 1..Len(queue) : queue[i] = r /\ queue' = RemoveAt(queue, i)
          /\ phase' = [phase EXCEPT ![r] = "idle"]
          /\ UNCHANGED avail
       \/ /\ phase[r] = "granted"
          /\ Release([phase EXCEPT ![r] = "idle"])
       \/ /\ phase[r] = "working"
          /\ Release([phase EXCEPT ![r] = IF TaskOf(r) THEN "left" ELSE "idle"])
    /\ UNCHANGED <<jobs, running, balancer, retained>>

----------------------------------------------------------------------------
(***************************************************************************)
(* The load balancer, every five seconds.  The CPU reading is any number.   *)
(***************************************************************************)
\* Bug: the last free permit may be withdrawn too.
BalancerSeesAny ==
    /\ balancer = "asleep"
    /\ avail > 0
    /\ balancer' = "taking"
    /\ UNCHANGED <<phase, avail, queue, jobs, running, retained>>

\* cpu > 85 and available > 1
BalancerSees ==
    /\ balancer = "asleep"
    /\ avail > 1
    /\ balancer' = "taking"
    /\ UNCHANGED <<phase, avail, queue, jobs, running, retained>>

\* try_acquire_owned, which the requests may have left without a permit meanwhile.
BalancerTakes ==
    /\ balancer = "taking"
    /\ balancer' = "asleep"
    /\ IF avail > 0
       THEN avail' = avail - 1 /\ retained' = retained + 1
       ELSE UNCHANGED <<avail, retained>>
    /\ UNCHANGED <<phase, queue, jobs, running>>

\* cpu < 50 and permits retained
BalancerReturns ==
    /\ balancer = "asleep"
    /\ retained > 0
    /\ retained' = retained - 1
    /\ Release(phase)
    /\ UNCHANGED <<jobs, running, balancer>>

Next ==
    \/ \E r \in Requests :
          Acquire(r) \/ Spawn(r) \/ Finish(r) \/ Return(r) \/ Cancel(r)
    \/ Start
    \/ BalancerSees \/ BalancerTakes \/ BalancerReturns

Spec == Init /\ [][Next]_vars

(***************************************************************************)
(* Fairness: tokio polls every handler that can go on, an idle worker takes *)
(* the first task, and every task ends.  The CPU may never cool down, so    *)
(* nothing is asked of the balancer, and clients need not come or leave.    *)
(***************************************************************************)
Fairness ==
    /\ \A r \in Requests : WF_vars(Spawn(r)) /\ WF_vars(Finish(r)) /\ WF_vars(Return(r))
    /\ WF_vars(IdleWorkerStarts)

FairSpec == Spec /\ Fairness

----------------------------------------------------------------------------
Phases == {"idle", "waiting", "granted", "working", "left"}

\* Every variable keeps its type.
TypeOK ==
    /\ phase \in [Requests -> Phases]
    /\ avail \in Nat
    /\ queue \in Seq(Requests)
    /\ jobs \in Seq(Requests)
    /\ running \subseteq Requests
    /\ balancer \in {"asleep", "taking"}
    /\ retained \in Nat

\* Permits are neither lost nor invented, whatever the order of grants, returns, clients
\* that leave and withdrawals: the ones free, held and withdrawn are the first ones.
PermitsConserved == avail + Cardinality(Holders) + retained = Permits

\* A request that waits stands in the queue once, and no permit is free meanwhile.
WaitersQueued ==
    /\ \A r \in Requests : phase[r] = "waiting" <=> \E i \in 1..Len(queue) : queue[i] = r
    /\ \A i, j \in 1..Len(queue) : queue[i] = queue[j] => i = j
    /\ queue # <<>> => avail = 0

\* The load balancer never withdraws the last permit, although it looks at the number of
\* free permits and takes one in two steps, with requests in between (main.rs:193-195).
BalancerLeavesOne == retained < Permits

\* A request that waits is served or leaves, with the machine hot for ever and the balancer
\* holding all it can: requests "aguardam o permit de CPU" (README.md:407).
WaitersServed == \A r \in Requests : phase[r] = "waiting" ~> phase[r] # "waiting"

\* docs/seguranca.md:112: as many decodings in parallel as there are permits.
WorkWithinPermits == Cardinality(running) <= Permits

============================================================================
