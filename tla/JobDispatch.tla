------------------------------ MODULE JobDispatch ------------------------------
(***************************************************************************)
(* Scheduler and ClusterScheduler: how a packet descriptor (a job) gets    *)
(* from the parser to a core.  An idle core asks its cluster scheduler for *)
(* a job; a cluster scheduler that has none asks the global one for as     *)
(* many as it has requests; the global scheduler answers requests in       *)
(* arrival order with jobs in arrival order.  Before a cluster scheduler   *)
(* gives a job to a core it announces it to the reorder controller.        *)
(*                                                                         *)
(* Every module has a port service thread, which handles one message at a  *)
(* time and never blocks, and a worker thread.  Messages between the same  *)
(* two modules stay in order; nothing orders the others.                   *)
(***************************************************************************)
EXTENDS Naturals, Sequences, FiniteSets

CONSTANTS JobCount,    \* bound: packets the parser lets through
          Clusters,
          Cores,
          ClusterOf,   \* the cluster each core belongs to
          PutMayBlock  \* whether a put() can find its channel full

ASSUME DispatchAssumption == /\ JobCount \in Nat
                             /\ Cores # {}
                             /\ ClusterOf \in [Cores -> Clusters]
                             /\ PutMayBlock \in BOOLEAN

Jobs == 1..JobCount

VARIABLES next,       \* the job the parser sends next
          pool,       \* Scheduler::JobsReceived
          asked,      \* Scheduler::JobRequests: who asks, for how many
          serving,    \* the request being served, the loop counter i, and
                      \* whether SchedulerThread is in that loop or waits
          rpc,        \* requests on their way from each cluster scheduler
          sentJobs,   \* jobs on their way to each cluster scheduler
          jobs,       \* ClusterScheduler::JobsReceived
          requests,   \* ClusterScheduler::JobRequests: the cores that ask
          pc,         \* where each ClusterSchedulerThread stands
          local,      \* its local variables: the job, the core to send it
                      \* to, and how many jobs fetchJobs() asks for
          core,       \* each core: "asking", "queued" or "busy"
          running,    \* the job each busy core has been sent
          announced,  \* history: ids announced by each cluster scheduler
          done        \* history: jobs the cores have finished

scheduler == <<pool, asked, serving>>
cluster == <<jobs, requests, pc, local>>
vars == <<next, scheduler, rpc, sentJobs, cluster, core, running, announced, done>>

Init == /\ next = 1
        /\ pool = <<>>
        /\ asked = <<>>
        /\ serving = [busy |-> FALSE, to |-> CHOOSE c \in Clusters : TRUE,
                      n |-> 0, i |-> 0]
        /\ rpc = [c \in Clusters |-> <<>>]
        /\ sentJobs = [c \in Clusters |-> <<>>]
        /\ jobs = [c \in Clusters |-> <<>>]
        /\ requests = [c \in Clusters |-> <<>>]
        /\ pc = [c \in Clusters |-> "idle"]
        /\ local = [c \in Clusters |-> [job |-> 0, core |-> CHOOSE k \in Cores : TRUE,
                                        n |-> 0]]
        /\ core = [k \in Cores |-> "asking"]
        /\ running = [k \in Cores |-> 0]
        /\ announced = [c \in Clusters |-> <<>>]
        /\ done = {}

(* Threads are cooperative.  A put() that finds room returns at once, so   *)
(* that nothing else runs until its thread waits; one that does not gives  *)
(* way to every other thread.                                              *)
CpuFree == \/ PutMayBlock
           \/ /\ ~serving.busy
              /\ \A c \in Clusters : pc[c] \notin {"fetch", "announce", "assign"}

-------------------------------------------------------------------------------
(* Scheduler                                                               *)

(* The parser's next packet descriptor. *)
JobArrives == /\ CpuFree
              /\ next =< JobCount
              /\ pool' = Append(pool, next)
              /\ next' = next + 1
              /\ UNCHANGED <<asked, serving, rpc, sentJobs, cluster, core,
                             running, announced, done>>

RequestArrives(c) == /\ CpuFree
                     /\ rpc[c] # <<>>
                     /\ asked' = Append(asked, [from |-> c, n |-> Head(rpc[c])])
                     /\ rpc' = [rpc EXCEPT ![c] = Tail(@)]
                     /\ UNCHANGED <<next, pool, serving, sentJobs, cluster,
                                    core, running, announced, done>>

(* Faulty variant: a request is taken although there is no job for it.     *)
TakeRequestEarly == /\ CpuFree
                    /\ ~serving.busy
                    /\ asked # <<>>
                    /\ serving' = [busy |-> TRUE, to |-> Head(asked).from,
                                   n |-> Head(asked).n, i |-> 0]
                    /\ asked' = Tail(asked)
                    /\ UNCHANGED <<next, pool, rpc, sentJobs, cluster, core,
                                   running, announced, done>>

(* SchedulerThread: the oldest request, once there is a job as well. *)
TakeRequest == /\ CpuFree
               /\ ~serving.busy
               /\ asked # <<>> /\ pool # <<>>
               /\ serving' = [busy |-> TRUE, to |-> Head(asked).from,
                              n |-> Head(asked).n, i |-> 0]
               /\ asked' = Tail(asked)
               /\ UNCHANGED <<next, pool, rpc, sentJobs, cluster, core,
                              running, announced, done>>

(* The loop runs while i is below what was asked for and below what is     *)
(* left, and what is left shrinks as i grows.                              *)
MoreToServe == serving.i < serving.n /\ serving.i < Len(pool)

(* Faulty variant: the job that is sent stays in the pool.                 *)
ServeJobKeeps ==
    /\ serving.busy
    /\ MoreToServe
    /\ sentJobs' = [sentJobs EXCEPT ![serving.to] = Append(@, Head(pool))]
    /\ serving' = [serving EXCEPT !.i = @ + 1]
    /\ UNCHANGED <<next, pool, asked, rpc, cluster, core, running,
                   announced, done>>

ServeJob == /\ serving.busy
            /\ MoreToServe
            /\ sentJobs' = [sentJobs EXCEPT ![serving.to] = Append(@, Head(pool))]
            /\ pool' = Tail(pool)
            /\ serving' = [serving EXCEPT !.i = @ + 1]
            /\ UNCHANGED <<next, asked, rpc, cluster, core, running,
                           announced, done>>

ServeEnd == /\ serving.busy
            /\ ~MoreToServe
            /\ serving' = [serving EXCEPT !.busy = FALSE]
            /\ UNCHANGED <<next, pool, asked, rpc, sentJobs, cluster, core,
                           running, announced, done>>

-------------------------------------------------------------------------------
(* ClusterScheduler_PortServiceThread: a notify() wakes the worker thread  *)
(* only if it waits for that event.  fetchJobs() waits for a job alone.    *)

(* Faulty variant: fetchJobs() does not hear that a job has come.          *)
ReceiveJobUnheard(c) ==
    /\ CpuFree
    /\ sentJobs[c] # <<>>
    /\ jobs' = [jobs EXCEPT ![c] = Append(@, Head(sentJobs[c]))]
    /\ sentJobs' = [sentJobs EXCEPT ![c] = Tail(@)]
    /\ pc' = [pc EXCEPT ![c] = IF @ = "idle" THEN "loop" ELSE @]
    /\ UNCHANGED <<next, scheduler, rpc, requests, local, core, running,
                   announced, done>>

ReceiveJob(c) ==
    /\ CpuFree
    /\ sentJobs[c] # <<>>
    /\ jobs' = [jobs EXCEPT ![c] = Append(@, Head(sentJobs[c]))]
    /\ sentJobs' = [sentJobs EXCEPT ![c] = Tail(@)]
    /\ pc' = [pc EXCEPT ![c] = CASE @ = "idle" -> "loop"
                                 [] @ = "fetching" -> "take"
                                 [] OTHER -> @]
    /\ UNCHANGED <<next, scheduler, rpc, requests, local, core, running,
                   announced, done>>

ReceiveRequest(k) ==
    LET c == ClusterOf[k] IN
    /\ CpuFree
    /\ core[k] = "asking"
    /\ core' = [core EXCEPT ![k] = "queued"]
    /\ requests' = [requests EXCEPT ![c] = Append(@, k)]
    /\ pc' = [pc EXCEPT ![c] = IF @ = "idle" THEN "loop" ELSE @]
    /\ UNCHANGED <<next, scheduler, rpc, sentJobs, jobs, local, running,
                   announced, done>>

-------------------------------------------------------------------------------
(* ClusterSchedulerThread                                                  *)

Loop(c) == /\ CpuFree
           /\ pc[c] = "loop"
           /\ pc' = [pc EXCEPT ![c] = IF requests[c] = <<>> THEN "idle"
                                      ELSE IF jobs[c] = <<>> THEN "fetch"
                                      ELSE "take"]
           /\ local' = [local EXCEPT ![c].n = Len(requests[c])]
           /\ UNCHANGED <<next, scheduler, rpc, sentJobs, jobs, requests, core,
                          running, announced, done>>

(* fetchJobs(): put, then wait for ReceivedaJob alone. *)
Fetch(c) == /\ pc[c] = "fetch"
            /\ rpc' = [rpc EXCEPT ![c] = Append(@, local[c].n)]
            /\ pc' = [pc EXCEPT ![c] = "fetching"]
            /\ UNCHANGED <<next, scheduler, sentJobs, jobs, requests, local,
                           core, running, announced, done>>

(* Faulty variant: the job goes to the core without an announcement.       *)
TakeUnannounced(c) ==
    /\ CpuFree
    /\ pc[c] = "take"
    /\ local' = [local EXCEPT ![c] = [job |-> Head(jobs[c]),
                                      core |-> Head(requests[c]), n |-> @.n]]
    /\ jobs' = [jobs EXCEPT ![c] = Tail(@)]
    /\ requests' = [requests EXCEPT ![c] = Tail(@)]
    /\ pc' = [pc EXCEPT ![c] = "assign"]
    /\ UNCHANGED <<next, scheduler, rpc, sentJobs, core, running,
                   announced, done>>

(* Both fronts are popped; calling front() on an empty queue is undefined. *)
Take(c) == /\ CpuFree
           /\ pc[c] = "take"
           /\ local' = [local EXCEPT ![c] = [job |-> Head(jobs[c]),
                                             core |-> Head(requests[c]), n |-> @.n]]
           /\ jobs' = [jobs EXCEPT ![c] = Tail(@)]
           /\ requests' = [requests EXCEPT ![c] = Tail(@)]
           /\ pc' = [pc EXCEPT ![c] = "announce"]
           /\ UNCHANGED <<next, scheduler, rpc, sentJobs, core, running,
                          announced, done>>

(* To the reorder controller, then to the core. *)
Announce(c) == /\ pc[c] = "announce"
               /\ announced' = [announced EXCEPT ![c] = Append(@, local[c].job)]
               /\ pc' = [pc EXCEPT ![c] = "assign"]
               /\ UNCHANGED <<next, scheduler, rpc, sentJobs, jobs, requests,
                              local, core, running, done>>

Assign(c) == /\ pc[c] = "assign"
             /\ core' = [core EXCEPT ![local[c].core] = "busy"]
             /\ running' = [running EXCEPT ![local[c].core] = local[c].job]
             /\ pc' = [pc EXCEPT ![c] = "loop"]
             /\ UNCHANGED <<next, scheduler, rpc, sentJobs, jobs, requests,
                            local, announced, done>>

(* A core finishes its job and asks for the next one. *)
Finish(k) == /\ CpuFree
             /\ core[k] = "busy"
             /\ done' = done \cup {running[k]}
             /\ core' = [core EXCEPT ![k] = "asking"]
             /\ UNCHANGED <<next, scheduler, rpc, sentJobs, cluster, running,
                            announced>>

-------------------------------------------------------------------------------
SchedulerStep == TakeRequest \/ ServeJob \/ ServeEnd

ClusterStep(c) == Loop(c) \/ Fetch(c) \/ Take(c) \/ Announce(c) \/ Assign(c)

Next == \/ JobArrives
        \/ SchedulerStep
        \/ \E c \in Clusters : RequestArrives(c) \/ ReceiveJob(c) \/ ClusterStep(c)
        \/ \E k \in Cores : ReceiveRequest(k) \/ Finish(k)

Spec == Init /\ [][Next]_vars

(* Runnable threads run, messages arrive, cores finish their jobs.         *)
Fairness ==
    /\ WF_vars(SchedulerStep)
    /\ \A c \in Clusters : /\ WF_vars(RequestArrives(c))
                           /\ WF_vars(ReceiveJob(c))
                           /\ WF_vars(ClusterStep(c))
    /\ \A k \in Cores : WF_vars(ReceiveRequest(k)) /\ WF_vars(Finish(k))

FairSpec == Spec /\ Fairness

-------------------------------------------------------------------------------
Elements(s) == {s[i] : i \in 1..Len(s)}

TypeOK ==
    /\ next \in 1..(JobCount + 1)
    /\ pool \in Seq(Jobs)
    /\ asked \in Seq([from : Clusters, n : Nat \ {0}])
    /\ serving \in [busy : BOOLEAN, to : Clusters, n : Nat, i : Nat]
    /\ rpc \in [Clusters -> Seq(Nat \ {0})]
    /\ sentJobs \in [Clusters -> Seq(Jobs)]
    /\ jobs \in [Clusters -> Seq(Jobs)]
    /\ requests \in [Clusters -> Seq(Cores)]
    /\ pc \in [Clusters -> {"idle", "loop", "fetch", "fetching", "take",
                            "announce", "assign"}]
    /\ local \in [Clusters -> [job : Jobs \cup {0}, core : Cores, n : Nat]]
    /\ core \in [Cores -> {"asking", "queued", "busy"}]
    /\ running \in [Cores -> Jobs \cup {0}]
    /\ announced \in [Clusters -> Seq(Jobs)]
    /\ done \in SUBSET Jobs

(* front() is never called on an empty queue: when fetchJobs() returns     *)
(* there is a job, and the request it was called for is still there.       *)
FrontDefined == \A c \in Clusters :
                   pc[c] = "take" => jobs[c] # <<>> /\ requests[c] # <<>>

Holding(c) == IF pc[c] \in {"announce", "assign"} THEN {local[c].job} ELSE {}

PlacesOf(j) ==
    Cardinality({j} \cap Elements(pool))
      + Cardinality({c \in Clusters : j \in Elements(sentJobs[c])})
      + Cardinality({c \in Clusters : j \in Elements(jobs[c])})
      + Cardinality({c \in Clusters : j \in Holding(c)})
      + Cardinality({k \in Cores : core[k] = "busy" /\ running[k] = j})
      + Cardinality({j} \cap done)

(* Every job that has arrived is in one place, and in no other: a queue, a *)
(* channel, a scheduler's hands, a core, or finished.  The loops that take *)
(* jobs from queues never take one from an empty queue.                    *)
JobsConserved == /\ TypeOK
                 /\ FrontDefined
                 /\ \A j \in Jobs : PlacesOf(j) = IF j < next THEN 1 ELSE 0

(* Each cluster scheduler announces jobs in the order of their ids, and a  *)
(* core only ever runs an announced job: what the reorder controller       *)
(* relies on.                                                              *)
AnnouncedInOrder ==
    /\ \A c \in Clusters : \A i, j \in 1..Len(announced[c]) :
          i < j => announced[c][i] < announced[c][j]
    /\ \A k \in Cores :
          core[k] = "busy" => running[k] \in Elements(announced[ClusterOf[k]])

(* A cluster scheduler that waits has nothing it could do: no job is left  *)
(* in its buffer with a core asking for one; and one that waits for a job  *)
(* has a request for it outstanding.                                       *)
NoStrandedJob ==
    \A c \in Clusters :
        /\ pc[c] = "idle" => requests[c] = <<>>
        /\ pc[c] = "fetching" =>
               /\ jobs[c] = <<>>
               /\ \/ rpc[c] # <<>>
                  \/ \E i \in 1..Len(asked) : asked[i].from = c
                  \/ serving.busy /\ serving.to = c
                  \/ sentJobs[c] # <<>>

(* Every job the parser sends is run. *)
EveryJobRuns == \A j \in Jobs : (next > j) ~> (j \in done)
===============================================================================
