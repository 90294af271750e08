-------------------------------- MODULE CoreHAL --------------------------------
(***************************************************************************)
(* One core: the threads of its ApplicationLayer and the HAL they call.    *)
(* Each thread asks the cluster scheduler for a job, fetches the payload   *)
(* that goes with it from memory, runs the application, which reads the    *)
(* tables in memory, and sends packet and payload on.  The threads share   *)
(* the HAL's queues, its three events, a semaphore and a mutex; the HAL's  *)
(* port service thread fills the queues and notifies.                      *)
(*                                                                         *)
(* Threads are cooperative and no channel of the core fills up: a put()    *)
(* followed by a wait() is one step.                                       *)
(***************************************************************************)
EXTENDS Naturals, Sequences, FiniteSets

CONSTANTS Threads,   \* names for threads
          Counts,    \* values the parameter "core_threads" may have
          NoThread,
          Tokens,    \* tokens of sem_
          JobCount,  \* bound: jobs the cluster scheduler has for this core
          ReadCount  \* bound: table reads the application makes per job

ASSUME CoreAssumption == /\ IsFiniteSet(Threads)
                         /\ NoThread \notin Threads
                         /\ Counts \subseteq Nat \ {0}
                         /\ Tokens \in Nat
                         /\ JobCount \in Nat /\ ReadCount \in Nat

Jobs == 1..JobCount

VARIABLES asks,       \* GetAJob requests the cluster scheduler has not met
          next,       \* the next job it has
          job_queue,  \* job_queue_
          sem,        \* sem_: free tokens
          mtx,        \* mtx_payload: its owner
          pc,         \* where each thread stands
          pd,         \* each thread's packet descriptor
          wanted,     \* payload requests memory has not answered
          buffer,     \* buffer_: payloads received
          counter,    \* tlmreqcounter
          read,       \* each thread's read id, and how many it has left
          pending,    \* reads memory has not answered
          replies,    \* tlmvar_halreqs_buffer
          done        \* history: jobs sent on to the reorder controller

jobvars == <<asks, next, job_queue>>
payvars == <<wanted, buffer>>
readvars == <<counter, read, pending, replies>>
vars == <<jobvars, sem, mtx, pc, pd, payvars, readvars, done>>

Init == /\ asks = 0 /\ next = 1 /\ job_queue = <<>>
        /\ sem = Tokens /\ mtx = NoThread
        /\ \E T \in SUBSET Threads :
              /\ Cardinality(T) \in Counts
              /\ pc = [t \in Threads |-> IF t \in T THEN "start" ELSE "none"]
        /\ pd = [t \in Threads |-> 0]
        /\ wanted = {} /\ buffer = {}
        /\ counter = 0
        /\ read = [t \in Threads |-> [id |-> 0, left |-> 0]]
        /\ pending = {} /\ replies = {}
        /\ done = {}

Goto(t, place) == pc' = [pc EXCEPT ![t] = place]

(* notify(): every thread that waits for the event at this moment wakes.   *)
Wake(from, to) == pc' = [t \in Threads |-> IF pc[t] = from THEN to ELSE pc[t]]

-------------------------------------------------------------------------------
(* GetJobfromSchedular                                                     *)

(* With no job queued, request one and wait for evt_.                      *)
RequestJob(t) == /\ pc[t] = "start"
                 /\ IF job_queue = <<>>
                      THEN asks' = asks + 1 /\ Goto(t, "wait_job")
                      ELSE UNCHANGED asks /\ Goto(t, "sem")
                 /\ UNCHANGED <<next, job_queue, sem, mtx, pd, payvars, readvars, done>>

TakeToken(t) == /\ pc[t] = "sem"
                /\ sem > 0
                /\ sem' = sem - 1
                /\ Goto(t, "pop")
                /\ UNCHANGED <<jobvars, mtx, pd, payvars, readvars, done>>

(* Faulty variant: the job is read but stays in the queue.                 *)
PopJobPeeks(t) == /\ pc[t] = "pop"
                  /\ job_queue # <<>>
                  /\ pd' = [pd EXCEPT ![t] = Head(job_queue)]
                  /\ wanted' = wanted \cup {Head(job_queue)}
                  /\ IF mtx = NoThread
                       THEN mtx' = t /\ Goto(t, "first_wait")
                       ELSE UNCHANGED mtx /\ Goto(t, "lock")
                  /\ UNCHANGED <<jobvars, sem, buffer, readvars, done>>

(* Pop a job, request its payload, lock mtx_payload, wait for payload_: a  *)
(* thread that finds the mutex taken gives way before the wait.            *)
PopJob(t) == /\ pc[t] = "pop"
             /\ job_queue # <<>>
             /\ pd' = [pd EXCEPT ![t] = Head(job_queue)]
             /\ job_queue' = Tail(job_queue)
             /\ wanted' = wanted \cup {Head(job_queue)}
             /\ IF mtx = NoThread
                  THEN mtx' = t /\ Goto(t, "first_wait")
                  ELSE UNCHANGED mtx /\ Goto(t, "lock")
             /\ UNCHANGED <<asks, next, sem, buffer, readvars, done>>

Lock(t) == /\ pc[t] = "lock"
           /\ mtx = NoThread
           /\ mtx' = t
           /\ Goto(t, "first_wait")
           /\ UNCHANGED <<jobvars, sem, pd, payvars, readvars, done>>

CheckBuffer(t) == Goto(t, IF pd[t] \in buffer THEN "process" ELSE "wait_payload")

StartProcessing(t) == read' = [read EXCEPT ![t].left = ReadCount]

(* The first wait is over: unlock, then look into the buffer.              *)
Unlock(t) == /\ pc[t] = "first_woken"
             /\ mtx' = NoThread
             /\ CheckBuffer(t)
             /\ StartProcessing(t)
             /\ UNCHANGED <<jobvars, sem, pd, payvars, counter, pending, replies, done>>

Recheck(t) == /\ pc[t] = "payload_woken"
              /\ CheckBuffer(t)
              /\ StartProcessing(t)
              /\ UNCHANGED <<jobvars, sem, mtx, pd, payvars, counter, pending,
                             replies, done>>

-------------------------------------------------------------------------------
(* tlmread, called by the application                                      *)

Read(t) == /\ pc[t] = "process"
           /\ read[t].left > 0
           /\ read' = [read EXCEPT ![t] = [id |-> counter, left |-> @.left - 1]]
           /\ pending' = pending \cup {counter}
           /\ counter' = counter + 1
           /\ Goto(t, "wait_read")
           /\ UNCHANGED <<jobvars, sem, mtx, pd, payvars, replies, done>>

CheckReply(t) == /\ pc[t] = "read_woken"
                 /\ Goto(t, IF read[t].id \in replies THEN "process" ELSE "wait_read")
                 /\ UNCHANGED <<jobvars, sem, mtx, pd, payvars, readvars, done>>

-------------------------------------------------------------------------------
(* SendtoODE: the payload goes back to memory, the packet descriptor to    *)
(* the reorder controller and to the cluster scheduler.                    *)
SendtoODE(t) == /\ pc[t] = "process"
                /\ read[t].left = 0
                /\ done' = done \cup {pd[t]}
                /\ sem' = sem + 1
                /\ Goto(t, "start")
                /\ UNCHANGED <<jobvars, mtx, pd, payvars, readvars>>

-------------------------------------------------------------------------------
(* HAL_PortServiceThread: what the core is sent.  The cluster scheduler    *)
(* sends one job per request; memory answers in any order.                 *)

ReceiveJob == /\ asks > 0 /\ next =< JobCount
              /\ job_queue' = Append(job_queue, next)
              /\ next' = next + 1
              /\ asks' = asks - 1
              /\ Wake("wait_job", "sem")
              /\ UNCHANGED <<sem, mtx, pd, payvars, readvars, done>>

(* Faulty variant: no notify().                                            *)
ReceivePayloadSilent(id) ==
    /\ id \in wanted
    /\ wanted' = wanted \ {id}
    /\ buffer' = buffer \cup {id}
    /\ UNCHANGED <<jobvars, sem, mtx, pc, pd, readvars, done>>

ReceivePayload(id) ==
    /\ id \in wanted
    /\ wanted' = wanted \ {id}
    /\ buffer' = buffer \cup {id}
    /\ pc' = [t \in Threads |-> CASE pc[t] = "first_wait"   -> "first_woken"
                                  [] pc[t] = "wait_payload" -> "payload_woken"
                                  [] OTHER                  -> pc[t]]
    /\ UNCHANGED <<jobvars, sem, mtx, pd, readvars, done>>

(* Faulty variant: one thread woken instead of all.                        *)
ReceiveReplyWakesOne(id) ==
    /\ id \in pending
    /\ pending' = pending \ {id}
    /\ replies' = replies \cup {id}
    /\ \E t \in Threads : pc[t] = "wait_read" /\ Goto(t, "read_woken")
    /\ UNCHANGED <<jobvars, sem, mtx, pd, payvars, counter, read, done>>

ReceiveReply(id) == /\ id \in pending
                    /\ pending' = pending \ {id}
                    /\ replies' = replies \cup {id}
                    /\ Wake("wait_read", "read_woken")
                    /\ UNCHANGED <<jobvars, sem, mtx, pd, payvars, counter, read, done>>

-------------------------------------------------------------------------------
GetJob(t) == RequestJob(t) \/ TakeToken(t) \/ PopJob(t) \/ Lock(t) \/ Unlock(t)
                \/ Recheck(t)

ThreadStep(t) == GetJob(t) \/ Read(t) \/ CheckReply(t) \/ SendtoODE(t)

Next == \/ \E t \in Threads : ThreadStep(t)
        \/ ReceiveJob
        \/ \E id \in wanted : ReceivePayload(id)
        \/ \E id \in pending : ReceiveReply(id)

Spec == Init /\ [][Next]_vars

(* Runnable threads run and memory answers.                                *)
Fairness == /\ \A t \in Threads : WF_vars(ThreadStep(t))
            /\ WF_vars(ReceiveJob)
            /\ WF_vars(\E id \in wanted : ReceivePayload(id))
            /\ WF_vars(\E id \in pending : ReceiveReply(id))

FairSpec == Spec /\ Fairness

-------------------------------------------------------------------------------
Holding == {t \in Threads : pc[t] \in {"lock", "first_wait", "first_woken",
               "wait_payload", "payload_woken", "process", "wait_read", "read_woken"}}

Active == {t \in Threads : pc[t] = "pop"} \cup Holding

TypeOK == /\ asks \in Nat /\ next \in 1..(JobCount + 1) /\ job_queue \in Seq(Jobs)
          /\ sem \in 0..Tokens
          /\ mtx \in Threads \cup {NoThread}
          /\ pc \in [Threads -> {"none", "start", "wait_job", "sem", "pop", "lock",
                "first_wait", "first_woken", "wait_payload", "payload_woken",
                "process", "wait_read", "read_woken"}]
          /\ pd \in [Threads -> Jobs \cup {0}]
          /\ wanted \in SUBSET Jobs /\ buffer \in SUBSET Jobs
          /\ counter \in Nat
          /\ read \in [Threads -> [id : Nat, left : 0..ReadCount]]
          /\ pending \in SUBSET Nat /\ replies \in SUBSET Nat
          /\ done \in SUBSET Jobs

(* mtx_payload is held from before the first wait until after it, by one   *)
(* thread, and the semaphore counts the threads past it.                   *)
LocksHeld == /\ \A t \in Threads : pc[t] \in {"first_wait", "first_woken"} <=> mtx = t
             /\ sem + Cardinality(Active) = Tokens

(* Threads take jobs that other threads asked for, yet each job is run     *)
(* once: it is queued, or in the hands of one thread, or done; and every   *)
(* thread that holds one has its token, to be given back with it.          *)
JobsConserved ==
    /\ TypeOK
    /\ LocksHeld
    /\ \A j \in 1..(next - 1) :
          Cardinality({i \in 1..Len(job_queue) : job_queue[i] = j})
            + Cardinality({t \in Holding : pd[t] = j})
            + Cardinality({j} \cap done) = 1

(* What a thread waits for is still to come: a job it asked for, although  *)
(* others take what is queued; the answer to its table read, although all  *)
(* share one event; and its payload, once it has looked for it in vain.    *)
(* The first wait for the payload is made without looking, after standing  *)
(* in line for the mutex: there nothing is missed by a lone thread, as in  *)
(* the repository's parameters, but one of several may miss it.            *)
Lone == Cardinality({t \in Threads : pc[t] # "none"}) = 1

NothingMissed ==
    /\ Cardinality({t \in Threads : pc[t] = "wait_job"}) =< asks
    /\ \A t \in Threads :
          /\ pc[t] = "wait_read" => read[t].id \in pending
          /\ pc[t] = "wait_payload" => pd[t] \notin buffer
          /\ Lone /\ pc[t] = "first_wait" => pd[t] \notin buffer

(* Every job that a core with one thread is sent leaves it.                *)
LoneThreadFinishes == \A j \in Jobs : (Lone /\ next > j) ~> (j \in done)

===============================================================================
