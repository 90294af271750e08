-------------------------- MODULE JobDispatch_proof ---------------------------
(***************************************************************************)
(* That the schedulers lose no job and run none twice, announce jobs in    *)
(* the order of their ids, and never sleep on a job they could give away,  *)
(* proved for any jobs, clusters and cores.                                *)
(*                                                                         *)
(* None of the properties is inductive.  That no front() is taken of an    *)
(* empty queue needs that a core's request stays while fetchJobs() waits;  *)
(* the order of the announcements needs the order of all that is upstream  *)
(* of them; that a job is in one place needs that a core is in one, since  *)
(* a job given to a busy core would displace another.                      *)
(***************************************************************************)
EXTENDS JobDispatch, SequenceTheorems, FiniteSetTheorems, TLAPS

\* What a thread has in its hands is something.
Named == /\ \A c \in Clusters : /\ pc[c] \in {"announce", "assign"} => local[c].job # 0
                                /\ pc[c] = "fetch" => local[c].n # 0
         /\ \A k \in Cores : core[k] = "busy" => running[k] # 0

\* A request waits for the job that is fetched for it.
FrontsThere == \A c \in Clusters :
                 /\ pc[c] \in {"fetch", "fetching", "take"} => requests[c] # <<>>
                 /\ pc[c] = "take" => jobs[c] # <<>>

TypeInv == TypeOK /\ Named /\ FrontsThere

-----------------------------------------------------------------------------
\* Queues stay queues of what they are of.
LEMMA QueueTypes ==
  ASSUME NEW S, NEW s \in Seq(S)
  PROVE  /\ \A x \in S : Append(s, x) \in Seq(S) /\ Append(s, x) # <<>>
         /\ s # <<>> => Head(s) \in S /\ Tail(s) \in Seq(S)
         /\ Len(s) \in Nat /\ (s # <<>> => Len(s) # 0)
  BY HeadTailProperties, AppendProperties, LenProperties, EmptySeq

LEMMA TypeInit == Init => TypeInv
<1> SUFFICES ASSUME Init PROVE TypeInv
  OBVIOUS
<1>1. /\ \A S : <<>> \in Seq(S)
      /\ 1 \in 1 .. JobCount + 1
      /\ (CHOOSE k \in Cores : TRUE) \in Cores
      /\ (CHOOSE c \in Clusters : TRUE) \in Clusters
  BY DispatchAssumption, EmptySeq
<1> QED
  BY <1>1 DEF Init, TypeInv, TypeOK, Named, FrontsThere

LEMMA TypeNext == TypeInv /\ [Next]_vars => TypeInv'
<1> SUFFICES ASSUME TypeInv, [Next]_vars PROVE TypeInv'
  OBVIOUS
<1> USE DEF TypeInv
<1> JobCount \in Nat /\ \A k \in Cores : ClusterOf[k] \in Clusters
  BY DispatchAssumption
<1>1. CASE JobArrives
  <2>1. next \in Jobs
    BY <1>1 DEF JobArrives, TypeOK, Jobs
  <2>2. Append(pool, next) \in Seq(Jobs)
    BY <2>1, QueueTypes DEF TypeOK
  <2> QED
    BY <1>1, <2>2 DEF JobArrives, TypeOK, Named, FrontsThere, cluster
<1>2. ASSUME NEW c \in Clusters, RequestArrives(c)
      PROVE  TypeInv'
  <2>1. Head(rpc[c]) \in Nat \ {0} /\ Tail(rpc[c]) \in Seq(Nat \ {0})
    BY <1>2, QueueTypes DEF RequestArrives, TypeOK
  <2>2. asked' \in Seq([from : Clusters, n : Nat \ {0}])
    BY <1>2, <2>1, QueueTypes DEF RequestArrives, TypeOK
  <2>3. rpc' \in [Clusters -> Seq(Nat \ {0})]
    BY <1>2, <2>1 DEF RequestArrives, TypeOK
  <2> QED
    BY <1>2, <2>2, <2>3 DEF RequestArrives, TypeOK, Named, FrontsThere, cluster
<1>3. CASE TakeRequest
  <2>1. /\ Head(asked) \in [from : Clusters, n : Nat \ {0}]
        /\ Tail(asked) \in Seq([from : Clusters, n : Nat \ {0}])
    BY <1>3, QueueTypes DEF TakeRequest, TypeOK
  <2> QED
    BY <1>3, <2>1 DEF TakeRequest, TypeOK, Named, FrontsThere, cluster
<1>4. CASE ServeJob
  <2>1. pool # <<>> /\ serving.to \in Clusters
    BY <1>4, EmptySeq DEF ServeJob, MoreToServe, TypeOK
  <2>2. Head(pool) \in Jobs /\ Tail(pool) \in Seq(Jobs)
    BY <2>1, QueueTypes DEF TypeOK
  <2>3. Append(sentJobs[serving.to], Head(pool)) \in Seq(Jobs)
    BY <2>1, <2>2, QueueTypes DEF TypeOK
  <2>4. sentJobs' \in [Clusters -> Seq(Jobs)]
    BY <1>4, <2>3 DEF ServeJob, TypeOK
  <2>5. serving' \in [busy : BOOLEAN, to : Clusters, n : Nat, i : Nat]
    <3>1. serving.i \in Nat /\ serving.i + 1 \in Nat
      BY DEF TypeOK
    <3> QED
      BY <1>4, <3>1 DEF ServeJob, TypeOK
  <2> QED
    BY <1>4, <2>2, <2>4, <2>5 DEF ServeJob, TypeOK, Named, FrontsThere, cluster
<1>5. CASE ServeEnd
  BY <1>5 DEF ServeEnd, TypeOK, Named, FrontsThere, cluster
<1>6. ASSUME NEW c \in Clusters, ReceiveJob(c)
      PROVE  TypeInv'
  <2>1. Head(sentJobs[c]) \in Jobs /\ Tail(sentJobs[c]) \in Seq(Jobs)
    BY <1>6, QueueTypes DEF ReceiveJob, TypeOK
  <2>2. /\ Append(jobs[c], Head(sentJobs[c])) \in Seq(Jobs)
        /\ Append(jobs[c], Head(sentJobs[c])) # <<>>
    BY <2>1, QueueTypes DEF TypeOK
  <2>3. sentJobs' \in [Clusters -> Seq(Jobs)] /\ jobs' \in [Clusters -> Seq(Jobs)]
    BY <1>6, <2>1, <2>2 DEF ReceiveJob, TypeOK
  <2>4. pc' = [pc EXCEPT ![c] = IF pc[c] = "idle" THEN "loop"
                                ELSE IF pc[c] = "fetching" THEN "take" ELSE pc[c]]
    BY <1>6 DEF ReceiveJob, TypeOK
  <2>5. Named' /\ FrontsThere'
    BY <1>6, <2>2, <2>4 DEF ReceiveJob, TypeOK, Named, FrontsThere
  <2>6. pc' \in [Clusters -> {"idle", "loop", "fetch", "fetching", "take",
                             "announce", "assign"}]
    BY <2>4 DEF TypeOK
  <2> QED
    BY <1>6, <2>3, <2>5, <2>6 DEF ReceiveJob, TypeOK, scheduler
<1>7. ASSUME NEW k \in Cores, ReceiveRequest(k)
      PROVE  TypeInv'
  <2>1. /\ Append(requests[ClusterOf[k]], k) \in Seq(Cores)
        /\ Append(requests[ClusterOf[k]], k) # <<>>
    <3>1. requests[ClusterOf[k]] \in Seq(Cores)
      BY DispatchAssumption DEF TypeOK
    <3> QED
      BY <3>1, QueueTypes
  <2>2. requests' \in [Clusters -> Seq(Cores)]
    BY <1>7, <2>1 DEF ReceiveRequest, TypeOK
  <2>3. Named' /\ FrontsThere'
    BY <1>7, <2>1 DEF ReceiveRequest, TypeOK, Named, FrontsThere
  <2> QED
    BY <1>7, <2>2, <2>3 DEF ReceiveRequest, TypeOK, scheduler
<1>8. ASSUME NEW c \in Clusters, Loop(c)
      PROVE  TypeInv'
  <2>1. Len(requests[c]) \in Nat /\ (requests[c] # <<>> => Len(requests[c]) # 0)
    BY QueueTypes DEF TypeOK
  <2>2. local' \in [Clusters -> [job : Jobs \cup {0}, core : Cores, n : Nat]]
    <3>1. local' = [local EXCEPT ![c] = [local[c] EXCEPT !.n = Len(requests[c])]]
      BY <1>8 DEF Loop, TypeOK
    <3>2. local[c] \in [job : Jobs \cup {0}, core : Cores, n : Nat]
      BY DEF TypeOK
    <3>3. [local[c] EXCEPT !.n = Len(requests[c])]
            \in [job : Jobs \cup {0}, core : Cores, n : Nat]
      BY <2>1, <3>2
    <3> QED
      BY <3>1, <3>3 DEF TypeOK
  <2>3. Named' /\ FrontsThere'
    BY SMTT(60), <1>8, <2>1 DEF Loop, TypeOK, Named, FrontsThere
  <2> QED
    BY <1>8, <2>2, <2>3 DEF Loop, TypeOK, scheduler
<1>9. ASSUME NEW c \in Clusters, Fetch(c)
      PROVE  TypeInv'
  <2>1. local[c].n \in Nat \ {0}
    BY <1>9 DEF Fetch, TypeOK, Named
  <2>2. Append(rpc[c], local[c].n) \in Seq(Nat \ {0})
    BY <2>1, QueueTypes DEF TypeOK
  <2>3. Named' /\ FrontsThere'
    BY <1>9 DEF Fetch, TypeOK, Named, FrontsThere
  <2> QED
    BY <1>9, <2>2, <2>3 DEF Fetch, TypeOK, scheduler
<1>10. ASSUME NEW c \in Clusters, Take(c)
       PROVE  TypeInv'
  <2>1. /\ Head(jobs[c]) \in Jobs /\ Tail(jobs[c]) \in Seq(Jobs)
        /\ Head(requests[c]) \in Cores /\ Tail(requests[c]) \in Seq(Cores)
    BY <1>10, QueueTypes DEF Take, TypeOK, FrontsThere
  <2>2. local' = [local EXCEPT ![c] = [job |-> Head(jobs[c]), core |-> Head(requests[c]),
                                       n |-> local[c].n]]
    BY <1>10 DEF Take, TypeOK
  <2>3. local' \in [Clusters -> [job : Jobs \cup {0}, core : Cores, n : Nat]]
    BY <2>1, <2>2 DEF TypeOK
  <2>4. local'[c].job # 0 /\ local'[c].core \in Cores /\ \A d \in Clusters \ {c} : local'[d] = local[d]
    BY SMTT(60), <2>1, <2>2 DEF TypeOK, Jobs
  <2>5. Named' /\ FrontsThere'
    BY <1>10, <2>4 DEF Take, TypeOK, Named, FrontsThere
  <2> QED
    BY <1>10, <2>1, <2>3, <2>5 DEF Take, TypeOK, scheduler
<1>11. ASSUME NEW c \in Clusters, Announce(c)
       PROVE  TypeInv'
  <2>1. Append(announced[c], local[c].job) \in Seq(Jobs)
    <3>1. local[c].job \in Jobs
      BY <1>11 DEF Announce, TypeOK, Named
    <3> QED
      BY <3>1, QueueTypes DEF TypeOK
  <2>2. Named' /\ FrontsThere'
    BY <1>11 DEF Announce, TypeOK, Named, FrontsThere
  <2> QED
    BY <1>11, <2>1, <2>2 DEF Announce, TypeOK, scheduler
<1>12. ASSUME NEW c \in Clusters, Assign(c)
       PROVE  TypeInv'
  <2>1. Named' /\ FrontsThere'
    BY <1>12 DEF Assign, TypeOK, Named, FrontsThere
  <2> QED
    BY <1>12, <2>1 DEF Assign, TypeOK, scheduler
<1>13. ASSUME NEW k \in Cores, Finish(k)
       PROVE  TypeInv'
  <2>1. running[k] \in Jobs
    BY <1>13 DEF Finish, TypeOK, Named
  <2> QED
    BY <1>13, <2>1 DEF Finish, TypeOK, Named, FrontsThere, scheduler, cluster
<1>14. CASE UNCHANGED vars
  BY <1>14 DEF vars, TypeOK, Named, FrontsThere, scheduler, cluster
<1> QED
  BY <1>1, <1>2, <1>3, <1>4, <1>5, <1>6, <1>7, <1>8, <1>9, <1>10, <1>11, <1>12, <1>13,
     <1>14 DEF Next, SchedulerStep, ClusterStep

\* The schedulers' queues, threads and messages are of what they may be, and
\* front() is only called on queues with something in them
\* (ClusterScheduler.cpp), for any jobs, clusters and cores.
THEOREM TypeCorrect == Spec => [](TypeOK /\ FrontDefined)
<1>1. TypeInv => TypeOK /\ FrontDefined
  BY DEF TypeInv, FrontsThere, FrontDefined
<1> QED
  BY TypeInit, TypeNext, <1>1, PTL DEF Spec
-----------------------------------------------------------------------------
(* Queues in which nothing is twice, and queues of jobs in the order of    *)
(* their ids, which are such.                                              *)
Distinct(s) == \A i, j \in 1 .. Len(s) : s[i] = s[j] => i = j

Before(S, T) == \A x \in S, y \in T : x < y

Ascending(s) == \A i, j \in 1 .. Len(s) : i < j => s[i] < s[j]

LEMMA ElementsType ==
  ASSUME NEW S, NEW s \in Seq(S)
  PROVE  Elements(s) \subseteq S
  BY DEF Elements

LEMMA ElementsAppend ==
  ASSUME NEW S, NEW s \in Seq(S), NEW x \in S
  PROVE  /\ Elements(Append(s, x)) = Elements(s) \cup {x}
         /\ Distinct(s) /\ x \notin Elements(s) => Distinct(Append(s, x))
<1>1. /\ Len(s) \in Nat /\ Len(Append(s, x)) = Len(s) + 1
      /\ \A i \in 1 .. Len(s) : Append(s, x)[i] = s[i]
      /\ Append(s, x)[Len(s) + 1] = x
  BY AppendProperties, LenProperties
<1>2. Elements(Append(s, x)) = Elements(s) \cup {x}
  BY <1>1 DEF Elements
<1>3. Distinct(s) /\ x \notin Elements(s) => Distinct(Append(s, x))
  BY <1>1 DEF Elements, Distinct
<1> QED
  BY <1>2, <1>3

LEMMA ElementsTail ==
  ASSUME NEW S, NEW s \in Seq(S), s # <<>>, Distinct(s)
  PROVE  /\ Elements(Tail(s)) = Elements(s) \ {Head(s)}
         /\ Head(s) \in Elements(s)
         /\ Distinct(Tail(s))
<1>1. /\ Len(s) \in Nat \ {0} /\ Len(Tail(s)) = Len(s) - 1
      /\ Head(s) = s[1]
      /\ \A i \in 1 .. Len(s) - 1 : Tail(s)[i] = s[i + 1]
  BY HeadTailProperties, EmptySeq
<1>2. ASSUME NEW x \in Elements(Tail(s))
      PROVE  x \in Elements(s) \ {Head(s)}
  BY <1>1 DEF Elements, Distinct
<1>3. ASSUME NEW x \in Elements(s) \ {Head(s)}
      PROVE  x \in Elements(Tail(s))
  <2> PICK i \in 1 .. Len(s) : s[i] = x
    BY DEF Elements
  <2>1. i - 1 \in 1 .. Len(Tail(s)) /\ Tail(s)[i - 1] = x
    BY <1>1
  <2> QED
    BY <2>1 DEF Elements
<1>4. Head(s) \in Elements(s)
  BY <1>1 DEF Elements
<1>5. ASSUME NEW i \in 1 .. Len(Tail(s)), NEW j \in 1 .. Len(Tail(s)),
             Tail(s)[i] = Tail(s)[j]
      PROVE  i = j
  <2>1. i + 1 \in 1 .. Len(s) /\ j + 1 \in 1 .. Len(s) /\ s[i + 1] = s[j + 1]
    BY <1>1, <1>5
  <2> QED
    BY <2>1 DEF Distinct
<1> QED
  BY <1>2, <1>3, <1>4, <1>5 DEF Distinct

LEMMA AscendingAppend ==
  ASSUME NEW S \in SUBSET Nat, NEW s \in Seq(S), NEW x \in S,
         Ascending(s), Before(Elements(s), {x})
  PROVE  Ascending(Append(s, x))
<1>1. /\ Len(s) \in Nat /\ Len(Append(s, x)) = Len(s) + 1
      /\ \A i \in 1 .. Len(s) : Append(s, x)[i] = s[i]
      /\ Append(s, x)[Len(s) + 1] = x
  BY AppendProperties, LenProperties
<1> QED
  BY <1>1 DEF Ascending, Before, Elements

\* The same of the lines of jobs.
LEMMA JobAppended ==
  ASSUME NEW s \in Seq(Jobs), NEW x \in Jobs, Ascending(s), Before(Elements(s), {x})
  PROVE  /\ Elements(Append(s, x)) = Elements(s) \cup {x}
         /\ Ascending(Append(s, x))
<1>1. Jobs \in SUBSET Nat
  BY DEF Jobs
<1>2. Elements(Append(s, x)) = Elements(s) \cup {x}
  BY ElementsAppend
<1>3. Ascending(Append(s, x))
  BY <1>1, AscendingAppend
<1> QED
  BY <1>2, <1>3

LEMMA AscendingTail ==
  ASSUME NEW S \in SUBSET Nat, NEW s \in Seq(S), s # <<>>, Ascending(s)
  PROVE  /\ Ascending(Tail(s))
         /\ Before({Head(s)}, Elements(Tail(s)))
<1>1. /\ Len(s) \in Nat \ {0} /\ Len(Tail(s)) = Len(s) - 1
      /\ Head(s) = s[1]
      /\ \A i \in 1 .. Len(s) - 1 : Tail(s)[i] = s[i + 1]
  BY HeadTailProperties, EmptySeq
<1>2. Before({Head(s)}, Elements(Tail(s)))
  BY <1>1 DEF Ascending, Before, Elements
<1>3. ASSUME NEW i \in 1 .. Len(Tail(s)), NEW j \in 1 .. Len(Tail(s)), i < j
      PROVE  Tail(s)[i] < Tail(s)[j]
  <2>1. i + 1 \in 1 .. Len(s) /\ j + 1 \in 1 .. Len(s) /\ i + 1 < j + 1
    BY <1>1, <1>3
  <2> QED
    BY <1>1, <2>1 DEF Ascending
<1> QED
  BY <1>2, <1>3 DEF Ascending

LEMMA AscendingDistinct ==
  ASSUME NEW S \in SUBSET Nat, NEW s \in Seq(S), Ascending(s)
  PROVE  Distinct(s)
<1> SUFFICES ASSUME NEW i \in 1 .. Len(s), NEW j \in 1 .. Len(s), s[i] = s[j], i # j
             PROVE  FALSE
  BY DEF Distinct
<1>1. s[i] \in S /\ s[j] \in S
  OBVIOUS
<1>2. i < j \/ j < i
  BY LenProperties
<1>3. ~ (s[i] < s[j]) /\ ~ (s[j] < s[i])
  <2>1. s[i] \in Nat
    BY <1>1
  <2> QED
    BY <2>1
<1> QED
  BY <1>2, <1>3 DEF Ascending
-----------------------------------------------------------------------------
\* A core that waits for a job is in one place, the queue of its cluster
\* scheduler or that scheduler's hands, and there once.
InHand(c) == IF pc[c] \in {"announce", "assign"} THEN {local[c].core} ELSE {}

OneRequest ==
  \A c \in Clusters :
    /\ Distinct(requests[c])
    /\ InHand(c) \cap Elements(requests[c]) = {}
    /\ \A k \in Cores : k \in Elements(requests[c]) \cup InHand(c)
                          <=> core[k] = "queued" /\ ClusterOf[k] = c

LEMMA RequestInit == Init => OneRequest
<1>1. Len(<<>>) = 0
  BY EmptySeq
<1> QED
  BY <1>1 DEF Init, OneRequest, InHand, Distinct, Elements

LEMMA RequestNext == TypeInv /\ OneRequest /\ [Next]_vars => OneRequest'
<1> SUFFICES ASSUME TypeInv, OneRequest, [Next]_vars PROVE OneRequest'
  OBVIOUS
<1> TypeOK /\ \A k \in Cores : ClusterOf[k] \in Clusters
  BY DispatchAssumption DEF TypeInv
<1>a. ASSUME requests' = requests, core' = core,
             \A c \in Clusters : InHand(c)' = InHand(c)
      PROVE  OneRequest'
  BY <1>a DEF OneRequest
<1>1. CASE JobArrives
  BY <1>1, <1>a DEF JobArrives, cluster, InHand
<1>2. ASSUME NEW c \in Clusters, RequestArrives(c)
      PROVE  OneRequest'
  BY <1>2, <1>a DEF RequestArrives, cluster, InHand
<1>3. CASE SchedulerStep
  BY <1>3, <1>a DEF SchedulerStep, TakeRequest, ServeJob, ServeEnd, cluster, InHand
<1>4. ASSUME NEW c \in Clusters, ReceiveJob(c)
      PROVE  OneRequest'
  BY <1>4, <1>a DEF ReceiveJob, InHand, TypeOK
<1>5. ASSUME NEW k \in Cores, ReceiveRequest(k)
      PROVE  OneRequest'
  <2> DEFINE c == ClusterOf[k]
  <2>1. /\ requests[c] \in Seq(Cores) /\ c \in Clusters
        /\ requests' = [requests EXCEPT ![c] = Append(requests[c], k)]
        /\ core' = [core EXCEPT ![k] = "queued"] /\ core[k] = "asking"
    BY <1>5 DEF ReceiveRequest, TypeOK
  <2>2. \A d \in Clusters : InHand(d)' = InHand(d)
    BY <1>5 DEF ReceiveRequest, InHand, TypeOK
  <2>3. k \notin Elements(requests[c]) \cup InHand(c)
    BY <2>1 DEF OneRequest
  <2>4. /\ Elements(Append(requests[c], k)) = Elements(requests[c]) \cup {k}
        /\ Distinct(Append(requests[c], k))
    BY <2>1, <2>3, ElementsAppend DEF OneRequest
  <2>5. \A d \in Clusters : requests'[d] = IF d = c THEN Append(requests[c], k) ELSE requests[d]
    BY <2>1 DEF TypeOK
  <2>6. \A l \in Cores : core'[l] = IF l = k THEN "queued" ELSE core[l]
    BY <2>1 DEF TypeOK
  <2> QED
    BY <2>1, <2>2, <2>3, <2>4, <2>5, <2>6 DEF OneRequest
<1>6. ASSUME NEW c \in Clusters, Loop(c) \/ Fetch(c) \/ Announce(c)
      PROVE  OneRequest'
  BY <1>6, <1>a DEF Loop, Fetch, Announce, InHand, TypeOK
<1>7. ASSUME NEW c \in Clusters, Take(c)
      PROVE  OneRequest'
  <2>1. /\ requests[c] \in Seq(Cores) /\ requests[c] # <<>> /\ core' = core
        /\ requests' = [requests EXCEPT ![c] = Tail(requests[c])]
    BY <1>7 DEF Take, TypeInv, TypeOK, FrontsThere
  <2>2. /\ InHand(c) = {} /\ InHand(c)' = {Head(requests[c])}
        /\ \A d \in Clusters \ {c} : InHand(d)' = InHand(d)
    BY <1>7 DEF Take, InHand, TypeOK
  <2>3. /\ Elements(Tail(requests[c])) = Elements(requests[c]) \ {Head(requests[c])}
        /\ Head(requests[c]) \in Elements(requests[c])
        /\ Distinct(Tail(requests[c]))
    BY <2>1, ElementsTail DEF OneRequest
  <2>4. \A d \in Clusters : requests'[d] = IF d = c THEN Tail(requests[c]) ELSE requests[d]
    BY <2>1 DEF TypeOK
  <2> QED
    BY <2>1, <2>2, <2>3, <2>4 DEF OneRequest
<1>8. ASSUME NEW c \in Clusters, Assign(c)
      PROVE  OneRequest'
  <2> DEFINE k == local[c].core
  <2>1. k \in Cores /\ requests' = requests /\ core' = [core EXCEPT ![k] = "busy"]
    BY <1>8 DEF Assign, TypeOK
  <2>2. /\ InHand(c) = {k} /\ InHand(c)' = {}
        /\ \A d \in Clusters \ {c} : InHand(d)' = InHand(d)
    BY <1>8 DEF Assign, InHand, TypeOK
  <2>3. \A l \in Cores : core'[l] = IF l = k THEN "busy" ELSE core[l]
    BY <2>1 DEF TypeOK
  <2>4. k \notin Elements(requests[c])
    BY <2>2 DEF OneRequest
  <2>5. ClusterOf[k] = c /\ core[k] = "queued"
    BY <2>1, <2>2 DEF OneRequest
  <2> HIDE DEF k
  <2> QED
    BY <2>1, <2>2, <2>3, <2>4, <2>5 DEF OneRequest
<1>9. ASSUME NEW k \in Cores, Finish(k)
      PROVE  OneRequest'
  <2>1. \A l \in Cores : core'[l] = "queued" <=> core[l] = "queued"
    BY <1>9 DEF Finish, TypeOK
  <2>2. requests' = requests /\ \A c \in Clusters : InHand(c)' = InHand(c)
    BY <1>9 DEF Finish, cluster, InHand
  <2> QED
    BY <2>1, <2>2 DEF OneRequest
<1>10. CASE UNCHANGED vars
  BY <1>10, <1>a DEF vars, cluster, InHand
<1> QED
  BY <1>1, <1>2, <1>3, <1>4, <1>5, <1>6, <1>7, <1>8, <1>9, <1>10 DEF Next, ClusterStep
-----------------------------------------------------------------------------
(* The way of a cluster's jobs is one line: what its scheduler announced,  *)
(* what it is about to announce, its buffer, what is on its way to it, the *)
(* pool, the parser.  Ids grow along the line.                             *)
Coming(c) == IF pc[c] = "announce" THEN {local[c].job} ELSE {}

InLine == /\ Ascending(pool) /\ Before(Elements(pool), {next})
          /\ \A c \in Clusters :
               /\ Ascending(announced[c]) /\ Ascending(jobs[c]) /\ Ascending(sentJobs[c])
               /\ Before(Elements(sentJobs[c]), Elements(pool) \cup {next})
               /\ Before(Elements(jobs[c]), Elements(sentJobs[c]) \cup Elements(pool)
                                              \cup {next})
               /\ Before(Coming(c), Elements(jobs[c]) \cup Elements(sentJobs[c])
                                     \cup Elements(pool) \cup {next})
               /\ Before(Elements(announced[c]),
                         Coming(c) \cup Elements(jobs[c]) \cup Elements(sentJobs[c])
                           \cup Elements(pool) \cup {next})

\* What a core runs, or is about to be given, was announced.
RunsAnnounced ==
  /\ \A c \in Clusters : pc[c] = "assign" => local[c].job \in Elements(announced[c])
  /\ \A k \in Cores : core[k] = "busy" => running[k] \in Elements(announced[ClusterOf[k]])

LEMMA OrderInit == Init => InLine /\ RunsAnnounced
<1>1. Len(<<>>) = 0
  BY EmptySeq
<1> QED
  BY <1>1 DEF Init, InLine, RunsAnnounced, Coming, Ascending, Before, Elements

LEMMA LineNext == TypeInv /\ InLine /\ [Next]_vars => InLine'
<1> SUFFICES ASSUME TypeInv, InLine, [Next]_vars PROVE InLine'
  OBVIOUS
<1> TypeOK
  BY DEF TypeInv
<1> JobCount \in Nat /\ Jobs \in SUBSET Nat /\ next \in Nat
  BY DispatchAssumption DEF TypeOK, Jobs
<1>t. /\ Elements(pool) \subseteq Jobs
      /\ \A c \in Clusters : /\ Elements(sentJobs[c]) \subseteq Jobs
                             /\ Elements(jobs[c]) \subseteq Jobs
                             /\ Elements(announced[c]) \subseteq Jobs
                             /\ Coming(c) \subseteq Jobs
  BY ElementsType DEF TypeOK, TypeInv, Named, Coming
<1>a. ASSUME UNCHANGED <<next, pool, sentJobs, jobs, announced>>,
             \A c \in Clusters : Coming(c)' = Coming(c)
      PROVE  InLine'
  BY <1>a DEF InLine
<1>1. CASE JobArrives
  <2>1. /\ next \in Jobs /\ pool \in Seq(Jobs) /\ next' = next + 1
        /\ pool' = Append(pool, next) /\ UNCHANGED <<sentJobs, jobs, announced>>
        /\ \A c \in Clusters : Coming(c)' = Coming(c)
    BY <1>1 DEF JobArrives, cluster, Coming, TypeOK, Jobs
  <2>2. Elements(pool') = Elements(pool) \cup {next} /\ Ascending(pool')
    BY <2>1, ElementsAppend, AscendingAppend DEF InLine
  <2>3. \A x \in Jobs : x < next => x < next'
    <3>1. \A x \in Nat : x < next => x < next + 1
      OBVIOUS
    <3> QED
      BY <2>1, <3>1
  <2>4. Before(Elements(pool'), {next'})
    <3>1. next < next'
      BY <2>1
    <3> QED
      BY <1>t, <2>2, <2>3, <3>1 DEF InLine, Before
  <2>5. ASSUME NEW c \in Clusters
        PROVE  /\ Before(Elements(sentJobs[c]), Elements(pool') \cup {next'})
               /\ Before(Elements(jobs[c]), Elements(sentJobs[c]) \cup Elements(pool')
                                              \cup {next'})
               /\ Before(Coming(c), Elements(jobs[c]) \cup Elements(sentJobs[c])
                                     \cup Elements(pool') \cup {next'})
               /\ Before(Elements(announced[c]),
                         Coming(c) \cup Elements(jobs[c]) \cup Elements(sentJobs[c])
                           \cup Elements(pool') \cup {next'})
    BY ZenonT(60), <1>t, <2>2, <2>3 DEF InLine, Before
  <2> QED
    BY <2>1, <2>2, <2>4, <2>5 DEF InLine
<1>2. ASSUME NEW c \in Clusters, RequestArrives(c)
      PROVE  InLine'
  BY <1>2, <1>a DEF RequestArrives, cluster, Coming
<1>3. CASE TakeRequest \/ ServeEnd
  BY <1>3, <1>a DEF TakeRequest, ServeEnd, cluster, Coming
<1>4. CASE ServeJob
  <2> DEFINE c == serving.to
             job == Head(pool)
  <2>1. /\ pool \in Seq(Jobs) /\ pool # <<>> /\ c \in Clusters /\ sentJobs[c] \in Seq(Jobs)
        /\ pool' = Tail(pool) /\ UNCHANGED <<next, jobs, announced>>
        /\ sentJobs' = [sentJobs EXCEPT ![c] = Append(sentJobs[c], job)]
        /\ \A d \in Clusters : Coming(d)' = Coming(d)
    BY <1>4, EmptySeq DEF ServeJob, MoreToServe, cluster, Coming, TypeOK
  <2>2. /\ Elements(pool') = Elements(pool) \ {job} /\ job \in Elements(pool)
        /\ Ascending(pool') /\ Before({job}, Elements(pool'))
    BY <2>1, ElementsTail, AscendingTail, AscendingDistinct DEF InLine
  <2>3. Before(Elements(sentJobs[c]), {job})
    BY <2>1, <2>2 DEF InLine, Before
  <2>4. /\ Elements(Append(sentJobs[c], job)) = Elements(sentJobs[c]) \cup {job}
        /\ Ascending(Append(sentJobs[c], job))
    <3>1. job \in Jobs /\ Ascending(sentJobs[c])
      BY <1>t, <2>1, <2>2 DEF InLine
    <3> HIDE DEF c, job
    <3> QED
      BY <2>1, <2>3, <3>1, JobAppended
  <2>5. \A d \in Clusters : sentJobs'[d] = IF d = c THEN Append(sentJobs[c], job)
                                                    ELSE sentJobs[d]
    BY <2>1 DEF TypeOK
  <2> HIDE DEF c, job
  <2> QED
    BY <2>1, <2>2, <2>4, <2>5 DEF InLine, Before
<1>5. ASSUME NEW c \in Clusters, ReceiveJob(c)
      PROVE  InLine'
  <2> DEFINE job == Head(sentJobs[c])
  <2>1. /\ sentJobs[c] \in Seq(Jobs) /\ sentJobs[c] # <<>> /\ jobs[c] \in Seq(Jobs)
        /\ UNCHANGED <<next, pool, announced>>
        /\ jobs' = [jobs EXCEPT ![c] = Append(jobs[c], job)]
        /\ sentJobs' = [sentJobs EXCEPT ![c] = Tail(sentJobs[c])]
        /\ \A d \in Clusters : Coming(d)' = Coming(d)
    BY <1>5 DEF ReceiveJob, scheduler, Coming, TypeOK
  <2>2. /\ Elements(Tail(sentJobs[c])) = Elements(sentJobs[c]) \ {job}
        /\ job \in Elements(sentJobs[c])
        /\ Ascending(Tail(sentJobs[c])) /\ Before({job}, Elements(Tail(sentJobs[c])))
    BY <2>1, ElementsTail, AscendingTail, AscendingDistinct DEF InLine
  <2>3. Before(Elements(jobs[c]), {job})
    BY <2>1, <2>2 DEF InLine, Before
  <2>4. /\ Elements(Append(jobs[c], job)) = Elements(jobs[c]) \cup {job}
        /\ Ascending(Append(jobs[c], job))
    <3>1. job \in Jobs /\ Ascending(jobs[c])
      BY <1>t, <2>1, <2>2 DEF InLine
    <3> HIDE DEF job
    <3> QED
      BY <2>1, <2>3, <3>1, JobAppended
  <2>5. \A d \in Clusters :
          /\ jobs'[d] = IF d = c THEN Append(jobs[c], job) ELSE jobs[d]
          /\ sentJobs'[d] = IF d = c THEN Tail(sentJobs[c]) ELSE sentJobs[d]
    BY <2>1 DEF TypeOK
  <2> HIDE DEF job
  <2> QED
    BY <2>1, <2>2, <2>4, <2>5 DEF InLine, Before
<1>6. ASSUME NEW k \in Cores, ReceiveRequest(k) \/ Finish(k)
      PROVE  InLine'
  BY ZenonT(60), <1>6, <1>a DEF ReceiveRequest, Finish, scheduler, cluster, Coming, TypeOK
<1>7. ASSUME NEW c \in Clusters, Loop(c) \/ Fetch(c) \/ Assign(c)
      PROVE  InLine'
  BY <1>7, <1>a DEF Loop, Fetch, Assign, scheduler, Coming, TypeOK
<1>8. ASSUME NEW c \in Clusters, Take(c)
      PROVE  InLine'
  <2> DEFINE job == Head(jobs[c])
  <2>1. /\ jobs[c] \in Seq(Jobs) /\ jobs[c] # <<>>
        /\ UNCHANGED <<next, pool, sentJobs, announced>>
        /\ jobs' = [jobs EXCEPT ![c] = Tail(jobs[c])]
    BY <1>8 DEF Take, scheduler, TypeInv, TypeOK, FrontsThere
  <2>2. /\ Coming(c) = {} /\ Coming(c)' = {job}
        /\ \A d \in Clusters \ {c} : Coming(d)' = Coming(d)
    BY <1>8 DEF Take, Coming, TypeOK
  <2>3. /\ Elements(Tail(jobs[c])) = Elements(jobs[c]) \ {job}
        /\ job \in Elements(jobs[c])
        /\ Ascending(Tail(jobs[c])) /\ Before({job}, Elements(Tail(jobs[c])))
    BY <2>1, ElementsTail, AscendingTail, AscendingDistinct DEF InLine
  <2>4. \A d \in Clusters : jobs'[d] = IF d = c THEN Tail(jobs[c]) ELSE jobs[d]
    BY <2>1 DEF TypeOK
  <2> HIDE DEF job
  <2> QED
    BY <2>1, <2>2, <2>3, <2>4 DEF InLine, Before
<1>9. ASSUME NEW c \in Clusters, Announce(c)
      PROVE  InLine'
  <2> DEFINE job == local[c].job
  <2>1. /\ announced[c] \in Seq(Jobs) /\ job \in Jobs
        /\ UNCHANGED <<next, pool, sentJobs, jobs>>
        /\ announced' = [announced EXCEPT ![c] = Append(announced[c], job)]
    BY <1>9 DEF Announce, scheduler, TypeInv, TypeOK, Named
  <2>2. /\ Coming(c) = {job} /\ Coming(c)' = {}
        /\ \A d \in Clusters \ {c} : Coming(d)' = Coming(d)
    BY <1>9 DEF Announce, Coming, TypeOK
  <2>3. Before(Elements(announced[c]), {job})
    BY <2>2 DEF InLine, Before
  <2>4. /\ Elements(Append(announced[c], job)) = Elements(announced[c]) \cup {job}
        /\ Ascending(Append(announced[c], job))
    <3>1. Ascending(announced[c])
      BY DEF InLine
    <3> HIDE DEF job
    <3> QED
      BY <2>1, <2>3, <3>1, JobAppended
  <2>5. \A d \in Clusters : announced'[d] = IF d = c THEN Append(announced[c], job)
                                                     ELSE announced[d]
    BY <2>1 DEF TypeOK
  <2> HIDE DEF job
  <2> QED
    BY <2>1, <2>2, <2>4, <2>5 DEF InLine, Before
<1>10. CASE UNCHANGED vars
  BY <1>10, <1>a DEF vars, scheduler, cluster, Coming
<1> QED
  BY <1>1, <1>2, <1>3, <1>4, <1>5, <1>6, <1>7, <1>8, <1>9, <1>10
     DEF Next, SchedulerStep, ClusterStep

LEMMA RunsNext ==
  TypeInv /\ OneRequest /\ RunsAnnounced /\ [Next]_vars => RunsAnnounced'
<1> SUFFICES ASSUME TypeInv, OneRequest, RunsAnnounced, [Next]_vars
             PROVE  RunsAnnounced'
  OBVIOUS
<1> TypeOK /\ \A k \in Cores : ClusterOf[k] \in Clusters
  BY DispatchAssumption DEF TypeInv
<1>a. ASSUME UNCHANGED <<core, running, announced>>,
             \A c \in Clusters : pc'[c] = "assign" => pc[c] = "assign" /\ local'[c] = local[c]
      PROVE  RunsAnnounced'
  BY <1>a DEF RunsAnnounced
<1>1. CASE JobArrives \/ SchedulerStep
  BY <1>1, <1>a DEF JobArrives, SchedulerStep, TakeRequest, ServeJob, ServeEnd, cluster
<1>2. ASSUME NEW c \in Clusters, RequestArrives(c)
      PROVE  RunsAnnounced'
  BY <1>2, <1>a DEF RequestArrives, cluster
<1>3. ASSUME NEW c \in Clusters, ReceiveJob(c) \/ Fetch(c)
      PROVE  RunsAnnounced'
  BY <1>3, <1>a DEF ReceiveJob, Fetch, TypeOK
<1>4. ASSUME NEW k \in Cores, ReceiveRequest(k)
      PROVE  RunsAnnounced'
  BY <1>4 DEF ReceiveRequest, RunsAnnounced, TypeOK
<1>5. ASSUME NEW c \in Clusters, Loop(c) \/ Take(c)
      PROVE  RunsAnnounced'
  BY <1>5, <1>a DEF Loop, Take, TypeOK
<1>6. ASSUME NEW c \in Clusters, Announce(c)
      PROVE  RunsAnnounced'
  <2>1. /\ announced[c] \in Seq(Jobs) /\ local[c].job \in Jobs
        /\ announced' = [announced EXCEPT ![c] = Append(announced[c], local[c].job)]
        /\ UNCHANGED <<core, running, local>> /\ pc' = [pc EXCEPT ![c] = "assign"]
    BY <1>6 DEF Announce, TypeInv, TypeOK, Named
  <2>2. Elements(Append(announced[c], local[c].job)) = Elements(announced[c]) \cup {local[c].job}
    BY <2>1, ElementsAppend
  <2>3. \A d \in Clusters : announced'[d] = IF d = c THEN Append(announced[c], local[c].job)
                                                     ELSE announced[d]
    BY <2>1 DEF TypeOK
  <2> QED
    BY <2>1, <2>2, <2>3 DEF RunsAnnounced, TypeOK
<1>7. ASSUME NEW c \in Clusters, Assign(c)
      PROVE  RunsAnnounced'
  <2>1. local[c].core \in Cores /\ ClusterOf[local[c].core] = c
    BY <1>7 DEF Assign, OneRequest, InHand, TypeOK
  <2> QED
    BY <1>7, <2>1 DEF Assign, RunsAnnounced, TypeOK
<1>8. ASSUME NEW k \in Cores, Finish(k)
      PROVE  RunsAnnounced'
  BY <1>8 DEF Finish, RunsAnnounced, cluster, TypeOK
<1>9. CASE UNCHANGED vars
  BY <1>9, <1>a DEF vars, cluster
<1> QED
  BY <1>1, <1>2, <1>3, <1>4, <1>5, <1>6, <1>7, <1>8, <1>9 DEF Next, ClusterStep

\* Each cluster scheduler announces its jobs in the order of their ids, and a
\* core only ever runs a job that its own cluster scheduler announced
\* (ClusterScheduler.cpp): what the reorder controller relies on.
THEOREM AnnouncedInOrderHolds == Spec => []AnnouncedInOrder
<1>1. InLine /\ RunsAnnounced => AnnouncedInOrder
  BY DEF InLine, RunsAnnounced, AnnouncedInOrder, Ascending
<1> QED
  BY TypeInit, TypeNext, RequestInit, RequestNext, OrderInit, LineNext, RunsNext, <1>1,
     PTL DEF Spec
-----------------------------------------------------------------------------
(* JobsConserved counts the places a job is in.  Its inductive form names  *)
(* the one there is, and says of each place that the job is there just     *)
(* when it is the one named.                                               *)

Located(j, place) ==
  /\ j \in Elements(pool) <=> place = <<"pool", 0>>
  /\ \A c \in Clusters : /\ j \in Elements(sentJobs[c]) <=> place = <<"sent", c>>
                         /\ j \in Elements(jobs[c]) <=> place = <<"buffer", c>>
                         /\ j \in Holding(c) <=> place = <<"hands", c>>
  /\ \A k \in Cores : core[k] = "busy" /\ running[k] = j <=> place = <<"core", k>>
  /\ j \in done <=> place = <<"done", 0>>

Places == ({"sent", "buffer", "hands"} \X Clusters) \cup ({"core"} \X Cores)
            \cup {<<at, 0>> : at \in {"outside", "pool", "done"}}

OnePlace == \A j \in Jobs : \E place \in Places :
              Located(j, place) /\ (j < next <=> place # <<"outside", 0>>)

LEMMA OnePlaceInit == Init => OnePlace
<1> SUFFICES ASSUME Init, NEW j \in Jobs
             PROVE  Located(j, <<"outside", 0>>) /\ ~ (j < next)
  BY DEF OnePlace, Places
<1>1. Elements(<<>>) = {}
  BY EmptySeq DEF Elements
<1>2. ~ (j < next)
  BY DispatchAssumption DEF Init, Jobs
<1>3. Located(j, <<"outside", 0>>)
  BY <1>1 DEF Init, Located, Holding
<1> QED
  BY <1>2, <1>3

LEMMA OnePlaceNext ==
  TypeInv /\ OneRequest /\ InLine /\ OnePlace /\ [Next]_vars => OnePlace'
<1> SUFFICES ASSUME TypeInv, OneRequest, InLine, [Next]_vars, NEW j \in Jobs,
                    NEW place \in Places, Located(j, place),
                    j < next <=> place # <<"outside", 0>>
             PROVE  \E new \in Places : /\ Located(j, new)'
                                        /\ j < next' <=> new # <<"outside", 0>>
  BY DEF OnePlace, Places, Jobs
<1> TypeOK
  BY DEF TypeInv
<1> JobCount \in Nat /\ Jobs \in SUBSET Nat /\ next \in Nat /\ j \in Nat
  BY DispatchAssumption DEF TypeOK, Jobs
<1>d. Distinct(pool) /\ \A c \in Clusters : Distinct(sentJobs[c]) /\ Distinct(jobs[c])
  BY AscendingDistinct DEF InLine, TypeOK
<1>a. ASSUME UNCHANGED <<next, pool, sentJobs, jobs, core, running, done>>,
             \A c \in Clusters : Holding(c)' = Holding(c)
      PROVE  Located(j, place)' /\ (j < next' <=> place # <<"outside", 0>>)
  BY <1>a DEF Located
<1>1. CASE JobArrives
  <2> DEFINE moves == next = j
  <2> PICK new : new = (IF moves THEN <<"pool", 0>> ELSE place)
    OBVIOUS
  <2>1. /\ next \in Jobs /\ pool \in Seq(Jobs) /\ pool' = Append(pool, next)
        /\ next' = next + 1 /\ UNCHANGED <<sentJobs, jobs, core, running, done>>
        /\ \A c \in Clusters : Holding(c)' = Holding(c)
    BY <1>1 DEF JobArrives, cluster, Holding, TypeOK, Jobs
  <2>2. Elements(pool') = Elements(pool) \cup {next}
    BY <2>1, ElementsAppend
  <2>3. moves => place = <<"outside", 0>>
    OBVIOUS
  <2>4. Located(j, new)'
    BY <2>1, <2>2, <2>3 DEF Located
  <2>5. new \in Places /\ (j < next' <=> new # <<"outside", 0>>)
    BY <2>1, <2>3 DEF Places
  <2> QED
    BY <2>4, <2>5
<1>2. ASSUME NEW c \in Clusters, RequestArrives(c)
      PROVE  Located(j, place)' /\ (j < next' <=> place # <<"outside", 0>>)
  BY <1>2, <1>a DEF RequestArrives, cluster, Holding
<1>3. CASE TakeRequest \/ ServeEnd
  BY <1>3, <1>a DEF TakeRequest, ServeEnd, cluster, Holding
<1>4. CASE ServeJob
  <2> DEFINE c == serving.to
             moves == Head(pool) = j
  <2> PICK new : new = (IF moves THEN <<"sent", c>> ELSE place)
    OBVIOUS
  <2>1. /\ pool \in Seq(Jobs) /\ pool # <<>> /\ c \in Clusters
        /\ sentJobs[c] \in Seq(Jobs) /\ Head(pool) \in Jobs
        /\ pool' = Tail(pool) /\ UNCHANGED <<next, jobs, core, running, done>>
        /\ sentJobs' = [sentJobs EXCEPT ![c] = Append(sentJobs[c], Head(pool))]
        /\ \A d \in Clusters : Holding(d)' = Holding(d)
    <3>1. /\ pool \in Seq(Jobs) /\ pool # <<>> /\ c \in Clusters
          /\ sentJobs[c] \in Seq(Jobs)
      BY <1>4, EmptySeq DEF ServeJob, MoreToServe, TypeOK
    <3>2. Head(pool) \in Jobs
      BY <3>1
    <3> QED
      BY <1>4, <3>1, <3>2 DEF ServeJob, cluster, Holding
  <2>2. Elements(pool') = Elements(pool) \ {Head(pool)} /\ Head(pool) \in Elements(pool)
    BY <1>d, <2>1, ElementsTail
  <2>3. Elements(Append(sentJobs[c], Head(pool))) = Elements(sentJobs[c]) \cup {Head(pool)}
    BY <2>1, ElementsAppend
  <2>4. \A d \in Clusters : sentJobs'[d] = IF d = c THEN Append(sentJobs[c], Head(pool))
                                                    ELSE sentJobs[d]
    BY <2>1 DEF TypeOK
  <2>5. moves => place = <<"pool", 0>>
    BY <2>2 DEF Located
  <2> HIDE DEF c
  <2>6. Located(j, new)'
    BY <2>1, <2>2, <2>3, <2>4, <2>5 DEF Located
  <2>7. new \in Places /\ (j < next' <=> new # <<"outside", 0>>)
    BY <2>1, <2>5 DEF Places
  <2> QED
    BY <2>6, <2>7
<1>5. ASSUME NEW c \in Clusters, ReceiveJob(c)
      PROVE  \E new \in Places : Located(j, new)' /\ (j < next' <=> new # <<"outside", 0>>)
  <2> DEFINE job == Head(sentJobs[c])
             moves == job = j
  <2> PICK new : new = (IF moves THEN <<"buffer", c>> ELSE place)
    OBVIOUS
  <2>1. /\ sentJobs[c] \in Seq(Jobs) /\ sentJobs[c] # <<>> /\ jobs[c] \in Seq(Jobs)
        /\ job \in Jobs /\ UNCHANGED <<next, pool, core, running, done>>
        /\ jobs' = [jobs EXCEPT ![c] = Append(jobs[c], job)]
        /\ sentJobs' = [sentJobs EXCEPT ![c] = Tail(sentJobs[c])]
        /\ \A d \in Clusters : Holding(d)' = Holding(d)
    BY <1>5, QueueTypes DEF ReceiveJob, scheduler, Holding, TypeOK
  <2> HIDE DEF job
  <2>2. Elements(Tail(sentJobs[c])) = Elements(sentJobs[c]) \ {job} /\ job \in Elements(sentJobs[c])
    BY <1>d, <2>1, ElementsTail DEF job
  <2>3. Elements(Append(jobs[c], job)) = Elements(jobs[c]) \cup {job}
    BY <2>1, ElementsAppend
  <2>4. \A d \in Clusters :
          /\ jobs'[d] = IF d = c THEN Append(jobs[c], job) ELSE jobs[d]
          /\ sentJobs'[d] = IF d = c THEN Tail(sentJobs[c]) ELSE sentJobs[d]
    BY <2>1 DEF TypeOK
  <2>5. moves => place = <<"sent", c>>
    BY <2>2 DEF Located
  <2>6. Located(j, new)'
    BY <2>1, <2>2, <2>3, <2>4, <2>5 DEF Located
  <2>7. new \in Places /\ (j < next' <=> new # <<"outside", 0>>)
    BY <2>1, <2>5 DEF Places
  <2> QED
    BY <2>6, <2>7
<1>6. ASSUME NEW k \in Cores, ReceiveRequest(k)
      PROVE  Located(j, place)' /\ (j < next' <=> place # <<"outside", 0>>)
  BY <1>6 DEF ReceiveRequest, scheduler, Holding, Located, TypeOK
<1>7. ASSUME NEW c \in Clusters, Loop(c) \/ Fetch(c) \/ Announce(c)
      PROVE  Located(j, place)' /\ (j < next' <=> place # <<"outside", 0>>)
  BY <1>7, <1>a DEF Loop, Fetch, Announce, scheduler, Holding, TypeOK
<1>8. ASSUME NEW c \in Clusters, Take(c)
      PROVE  \E new \in Places : Located(j, new)' /\ (j < next' <=> new # <<"outside", 0>>)
  <2> DEFINE job == Head(jobs[c])
             moves == job = j
  <2> PICK new : new = (IF moves THEN <<"hands", c>> ELSE place)
    OBVIOUS
  <2>1. /\ jobs[c] \in Seq(Jobs) /\ jobs[c] # <<>>
        /\ UNCHANGED <<next, pool, sentJobs, core, running, done>>
        /\ jobs' = [jobs EXCEPT ![c] = Tail(jobs[c])]
    BY <1>8 DEF Take, scheduler, TypeInv, TypeOK, FrontsThere
  <2>2. /\ Holding(c) = {} /\ Holding(c)' = {job}
        /\ \A d \in Clusters \ {c} : Holding(d)' = Holding(d)
    BY <1>8 DEF Take, Holding, TypeOK
  <2> HIDE DEF job
  <2>3. Elements(Tail(jobs[c])) = Elements(jobs[c]) \ {job} /\ job \in Elements(jobs[c])
    BY <1>d, <2>1, ElementsTail DEF job
  <2>4. \A d \in Clusters : jobs'[d] = IF d = c THEN Tail(jobs[c]) ELSE jobs[d]
    BY <2>1 DEF TypeOK
  <2>5. moves => place = <<"buffer", c>>
    BY <2>3 DEF Located
  <2>6. Located(j, new)'
    BY <2>1, <2>2, <2>3, <2>4, <2>5 DEF Located
  <2>7. new \in Places /\ (j < next' <=> new # <<"outside", 0>>)
    BY <2>1, <2>5 DEF Places
  <2> QED
    BY <2>6, <2>7
<1>9. ASSUME NEW c \in Clusters, Assign(c)
      PROVE  \E new \in Places : Located(j, new)' /\ (j < next' <=> new # <<"outside", 0>>)
  <2> DEFINE k == local[c].core
             moves == local[c].job = j
  <2> PICK new : new = (IF moves THEN <<"core", k>> ELSE place)
    OBVIOUS
  <2>1. /\ k \in Cores /\ core[k] = "queued"
        /\ UNCHANGED <<next, pool, sentJobs, jobs, done>>
        /\ core' = [core EXCEPT ![k] = "busy"]
        /\ running' = [running EXCEPT ![k] = local[c].job]
    BY SMTT(60), <1>9 DEF Assign, scheduler, OneRequest, InHand, TypeOK
  <2>2. /\ Holding(c) = {local[c].job} /\ Holding(c)' = {}
        /\ \A d \in Clusters \ {c} : Holding(d)' = Holding(d)
    BY <1>9 DEF Assign, Holding, TypeOK
  <2>3. \A l \in Cores : /\ core'[l] = IF l = k THEN "busy" ELSE core[l]
                         /\ running'[l] = IF l = k THEN local[c].job ELSE running[l]
    BY <2>1 DEF TypeOK
  <2>4. moves => place = <<"hands", c>>
    BY <2>2 DEF Located
  <2> HIDE DEF k
  <2>5. Located(j, new)'
    BY <2>1, <2>2, <2>3, <2>4 DEF Located
  <2>6. new \in Places /\ (j < next' <=> new # <<"outside", 0>>)
    BY <2>1, <2>4 DEF Places
  <2> QED
    BY <2>5, <2>6
<1>10. ASSUME NEW k \in Cores, Finish(k)
       PROVE  \E new \in Places : Located(j, new)' /\ (j < next' <=> new # <<"outside", 0>>)
  <2> DEFINE moves == running[k] = j
  <2> PICK new : new = (IF moves THEN <<"done", 0>> ELSE place)
    OBVIOUS
  <2>1. /\ core[k] = "busy" /\ UNCHANGED <<next, pool, sentJobs, jobs, running>>
        /\ done' = done \cup {running[k]}
        /\ \A d \in Clusters : Holding(d)' = Holding(d)
    BY <1>10 DEF Finish, scheduler, cluster, Holding
  <2>2. \A l \in Cores : core'[l] = "busy" <=> core[l] = "busy" /\ l # k
    BY <1>10 DEF Finish, TypeOK
  <2>3. moves => place = <<"core", k>>
    BY <2>1 DEF Located
  <2>4. Located(j, new)'
    BY <2>1, <2>2, <2>3 DEF Located
  <2>5. new \in Places /\ (j < next' <=> new # <<"outside", 0>>)
    BY <2>1, <2>3 DEF Places
  <2> QED
    BY <2>4, <2>5
<1>11. CASE UNCHANGED vars
  BY <1>11, <1>a DEF vars, scheduler, cluster, Holding
<1> QED
  BY <1>1, <1>2, <1>3, <1>4, <1>5, <1>6, <1>7, <1>8, <1>9, <1>10, <1>11
     DEF Next, SchedulerStep, ClusterStep

\* Counting what is there or not.
LEMMA CountOne ==
  ASSUME NEW a, NEW S, S \subseteq {a}
  PROVE  Cardinality(S) = IF a \in S THEN 1 ELSE 0
<1>1. S = {} \/ S = {a}
  OBVIOUS
<1> QED
  BY <1>1, FS_EmptySet, FS_Singleton

LEMMA PlacesCounted ==
  TypeInv /\ OnePlace => \A j \in Jobs : PlacesOf(j) = IF j < next THEN 1 ELSE 0
<1> SUFFICES ASSUME NEW j \in Jobs, NEW place \in Places,
                    Located(j, place), j < next <=> place # <<"outside", 0>>
             PROVE  PlacesOf(j) = IF j < next THEN 1 ELSE 0
  BY DEF OnePlace
<1> DEFINE At(at) == IF place[1] = at THEN 1 ELSE 0
           \* The one of a family of places the job is in, if it is in one.
           Only(at) == IF place[1] = at THEN {place[2]} ELSE {}
<1>1. \A at : Cardinality(Only(at)) = At(at)
  BY FS_EmptySet, FS_Singleton
<1>2. /\ Cardinality({j} \cap Elements(pool)) = At("pool")
      /\ Cardinality({j} \cap done) = At("done")
  <2>1. /\ j \in Elements(pool) <=> place[1] = "pool"
        /\ j \in done <=> place[1] = "done"
    BY DEF Located, Places
  <2>2. \A S : Cardinality({j} \cap S) = IF j \in {j} \cap S THEN 1 ELSE 0
    BY CountOne
  <2> QED
    BY <2>1, <2>2
<1>3. /\ Cardinality({c \in Clusters : j \in Elements(sentJobs[c])}) = At("sent")
      /\ Cardinality({c \in Clusters : j \in Elements(jobs[c])}) = At("buffer")
      /\ Cardinality({c \in Clusters : j \in Holding(c)}) = At("hands")
  <2>1. place[1] \in {"sent", "buffer", "hands"}
          => place[2] \in Clusters /\ place = <<place[1], place[2]>>
    BY DEF Places
  <2>2. /\ {c \in Clusters : j \in Elements(sentJobs[c])} = Only("sent")
        /\ {c \in Clusters : j \in Elements(jobs[c])} = Only("buffer")
        /\ {c \in Clusters : j \in Holding(c)} = Only("hands")
    BY <2>1 DEF Located
  <2> QED
    BY <1>1, <2>2
<1>4. Cardinality({k \in Cores : core[k] = "busy" /\ running[k] = j}) = At("core")
  <2>1. place[1] = "core" => place[2] \in Cores /\ place = <<"core", place[2]>>
    BY DEF Places
  <2>2. {k \in Cores : core[k] = "busy" /\ running[k] = j} = Only("core")
    BY <2>1 DEF Located
  <2> QED
    BY <1>1, <2>2
<1>5. At("pool") + At("sent") + At("buffer") + At("hands") + At("core") + At("done")
        = IF j < next THEN 1 ELSE 0
  <2>1. place[1] = "outside" <=> ~ (j < next)
    BY DEF Places
  <2>2. place[1] \in {"outside", "pool", "sent", "buffer", "hands", "core", "done"}
    BY DEF Places
  <2> QED
    BY <2>1, <2>2
<1> QED
  BY <1>2, <1>3, <1>4, <1>5 DEF PlacesOf

\* Every job that has come is in exactly one place between the parser and the
\* end of its run, and the schedulers never take a job or a request from an
\* empty queue (Scheduler.cpp, ClusterScheduler.cpp).
THEOREM JobsConservedHolds == Spec => []JobsConserved
<1>1. TypeInv /\ OnePlace => JobsConserved
  BY PlacesCounted DEF TypeInv, FrontsThere, FrontDefined, JobsConserved
<1> QED
  BY TypeInit, TypeNext, RequestInit, RequestNext, OrderInit, LineNext,
     OnePlaceInit, OnePlaceNext, <1>1, PTL DEF Spec
-----------------------------------------------------------------------------
(* When every put() finds room, a thread that has work goes on until it    *)
(* waits: while the global scheduler serves a request nothing else moves.  *)

Outstanding(c) == \/ rpc[c] # <<>>
                  \/ \E i \in 1 .. Len(asked) : asked[i].from = c
                  \/ serving.busy /\ serving.to = c
                  \/ sentJobs[c] # <<>>

Heard ==
  /\ serving.busy => \/ sentJobs[serving.to] # <<>>
                     \/ serving.i = 0 /\ MoreToServe
  /\ \A c \in Clusters :
        /\ pc[c] = "idle" => requests[c] = <<>>
        /\ pc[c] \in {"fetch", "fetching"} => jobs[c] = <<>>
        /\ pc[c] = "fetching" => Outstanding(c)

LEMMA HeardInit == Init => Heard
  BY DEF Init, Heard

LEMMA HeardNext ==
  ASSUME PutMayBlock = FALSE
  PROVE  TypeInv /\ Heard /\ [Next]_vars => Heard'
<1> SUFFICES ASSUME TypeInv, Heard, [Next]_vars PROVE Heard'
  OBVIOUS
<1> TypeOK
  BY DEF TypeInv
<1>1. CASE JobArrives
  <2>1. ~ serving.busy
    BY <1>1 DEF JobArrives, CpuFree
  <2> QED
    BY <1>1, <2>1 DEF JobArrives, Heard, Outstanding, cluster
<1>2. ASSUME NEW c \in Clusters, RequestArrives(c)
      PROVE  Heard'
  <2>1. /\ asked \in Seq([from : Clusters, n : Nat \ {0}])
        /\ [from |-> c, n |-> Head(rpc[c])] \in [from : Clusters, n : Nat \ {0}]
        /\ asked' = Append(asked, [from |-> c, n |-> Head(rpc[c])])
        /\ ~ serving.busy
    BY <1>2, QueueTypes DEF RequestArrives, CpuFree, TypeOK
  <2>2. /\ Len(asked') = Len(asked) + 1 /\ Len(asked) \in Nat
        /\ \A i \in 1 .. Len(asked) : asked'[i] = asked[i]
        /\ asked'[Len(asked) + 1].from = c
    BY <2>1, AppendProperties, LenProperties
  <2>3. \A d \in Clusters : Outstanding(d) => Outstanding(d)'
    <3> SUFFICES ASSUME NEW d \in Clusters, Outstanding(d) PROVE Outstanding(d)'
      OBVIOUS
    <3>1. CASE d = c
      <4>1. Len(asked) + 1 \in 1 .. Len(asked')
        BY <2>2
      <4> QED
        BY <2>2, <3>1, <4>1 DEF Outstanding
    <3>2. CASE d # c
      <4>1. rpc'[d] = rpc[d] /\ UNCHANGED <<serving, sentJobs>>
        BY <1>2, <3>2 DEF RequestArrives, TypeOK
      <4>2. \A i \in 1 .. Len(asked) : i \in 1 .. Len(asked') /\ asked'[i] = asked[i]
        BY <2>2
      <4> QED
        BY <4>1, <4>2 DEF Outstanding
    <3> QED
      BY <3>1, <3>2
  <2> QED
    BY <1>2, <2>1, <2>3 DEF RequestArrives, Heard, cluster
<1>3. CASE TakeRequest
  <2>1. /\ asked \in Seq([from : Clusters, n : Nat \ {0}]) /\ asked # <<>> /\ pool # <<>>
        /\ pool \in Seq(Jobs) /\ ~ serving.busy
        /\ serving' = [busy |-> TRUE, to |-> Head(asked).from, n |-> Head(asked).n, i |-> 0]
        /\ asked' = Tail(asked) /\ UNCHANGED <<pool, rpc, sentJobs, cluster>>
    BY <1>3 DEF TakeRequest, TypeOK
  <2>2. /\ Head(asked) = asked[1] /\ asked[1] \in [from : Clusters, n : Nat \ {0}]
        /\ Len(asked) \in Nat \ {0} /\ Len(asked') = Len(asked) - 1
        /\ \A i \in 1 .. Len(asked) - 1 : asked'[i] = asked[i + 1]
    <3> DEFINE S == [from : Clusters, n : Nat \ {0}]
    <3>1. asked \in Seq(S) /\ asked # <<>> /\ asked' = Tail(asked)
      BY <2>1
    <3> HIDE DEF S
    <3>2. /\ Head(asked) = asked[1] /\ asked[1] \in S
          /\ Len(asked) \in Nat \ {0} /\ Len(asked') = Len(asked) - 1
          /\ \A i \in 1 .. Len(asked) - 1 : asked'[i] = asked[i + 1]
      BY <3>1, HeadTailProperties, EmptySeq
    <3> QED
      BY <3>2 DEF S
  <2>3. serving'.i = 0 /\ MoreToServe'
    <3>1. Len(pool) \in Nat \ {0}
      BY <2>1, EmptySeq
    <3> QED
      BY <2>1, <2>2, <3>1 DEF MoreToServe
  <2>4. \A c \in Clusters : Outstanding(c) => Outstanding(c)'
    <3> SUFFICES ASSUME NEW c \in Clusters, Outstanding(c) PROVE Outstanding(c)'
      OBVIOUS
    <3>1. ASSUME NEW i \in 1 .. Len(asked), asked[i].from = c
          PROVE  Outstanding(c)'
      <4>1. CASE i = 1
        BY <2>1, <2>2, <3>1, <4>1 DEF Outstanding
      <4>2. CASE i # 1
        <5>1. i - 1 \in 1 .. Len(asked') /\ asked'[i - 1] = asked[i]
          BY <2>2, <4>2
        <5> QED
          BY <3>1, <5>1 DEF Outstanding
      <4> QED
        BY <4>1, <4>2
    <3> QED
      BY <2>1, <3>1 DEF Outstanding
  <2> QED
    BY <2>1, <2>3, <2>4 DEF Heard, cluster
<1>4. CASE ServeJob
  <2>1. /\ pool # <<>> /\ serving.to \in Clusters
        /\ sentJobs' = [sentJobs EXCEPT ![serving.to] = Append(sentJobs[serving.to], Head(pool))]
        /\ UNCHANGED <<rpc, asked, cluster>>
    BY <1>4, EmptySeq DEF ServeJob, MoreToServe, TypeOK
  <2>2. serving'.busy = serving.busy /\ serving'.to = serving.to
    BY <1>4 DEF ServeJob, TypeOK
  <2>3. Append(sentJobs[serving.to], Head(pool)) # <<>>
    <3>1. Head(pool) \in Jobs /\ sentJobs[serving.to] \in Seq(Jobs)
      BY <2>1, QueueTypes DEF TypeOK
    <3> QED
      BY <3>1, QueueTypes
  <2>4. \A c \in Clusters : sentJobs[c] # <<>> => sentJobs'[c] # <<>>
    BY <2>1, <2>3 DEF TypeOK
  <2>5. sentJobs'[serving.to] # <<>>
    BY <2>1, <2>3 DEF TypeOK
  <2> QED
    BY <2>1, <2>2, <2>4, <2>5 DEF Heard, Outstanding, cluster
<1>5. CASE ServeEnd
  <2>1. sentJobs[serving.to] # <<>> /\ serving.to \in Clusters
    BY <1>5 DEF ServeEnd, Heard, TypeOK
  <2>2. ~ serving'.busy /\ UNCHANGED <<pool, asked, rpc, sentJobs, cluster>>
    BY <1>5 DEF ServeEnd, TypeOK
  <2> QED
    BY <2>1, <2>2 DEF Heard, Outstanding, cluster
<1>6. ASSUME NEW c \in Clusters, ReceiveJob(c)
      PROVE  Heard'
  <2>1. /\ ~ serving.busy /\ \A d \in Clusters : pc[d] # "fetch"
        /\ pc' = [pc EXCEPT ![c] = IF pc[c] = "idle" THEN "loop"
                                   ELSE IF pc[c] = "fetching" THEN "take" ELSE pc[c]]
        /\ UNCHANGED <<pool, asked, serving, rpc, requests>>
    BY <1>6 DEF ReceiveJob, CpuFree, scheduler, TypeOK
  <2>2. \A d \in Clusters \ {c} : UNCHANGED <<jobs[d], sentJobs[d], pc[d]>>
    BY <1>6 DEF ReceiveJob, TypeOK
  <2>3. pc'[c] \notin {"idle", "fetch", "fetching"}
    BY <2>1 DEF TypeOK
  <2> QED
    BY <2>1, <2>2, <2>3 DEF Heard, Outstanding
<1>7. ASSUME NEW k \in Cores, ReceiveRequest(k)
      PROVE  Heard'
  <2>1. /\ ClusterOf[k] \in Clusters /\ ~ serving.busy
        /\ UNCHANGED <<serving, pool, asked, rpc, sentJobs, jobs>>
        /\ \A d \in Clusters \ {ClusterOf[k]} : UNCHANGED <<requests[d], pc[d]>>
        /\ pc'[ClusterOf[k]] = IF pc[ClusterOf[k]] = "idle" THEN "loop" ELSE pc[ClusterOf[k]]
    BY <1>7, DispatchAssumption DEF ReceiveRequest, CpuFree, scheduler, TypeOK
  <2> QED
    BY <2>1 DEF Heard, Outstanding
<1>8. ASSUME NEW c \in Clusters, Loop(c) \/ Take(c)
      PROVE  Heard'
  <2>1. /\ ~ serving.busy /\ UNCHANGED <<serving, pool, asked, rpc, sentJobs>>
        /\ \A d \in Clusters \ {c} : UNCHANGED <<requests[d], pc[d], jobs[d]>>
        /\ pc'[c] # "fetching"
        /\ pc'[c] = "idle" => requests'[c] = <<>>
        /\ pc'[c] = "fetch" => jobs'[c] = <<>>
    BY <1>8 DEF Loop, Take, CpuFree, scheduler, TypeOK
  <2> QED
    BY <2>1 DEF Heard, Outstanding
<1>9. ASSUME NEW c \in Clusters, Fetch(c)
      PROVE  Heard'
  <2>1. /\ UNCHANGED <<serving, pool, asked, sentJobs, requests, jobs>>
        /\ \A d \in Clusters \ {c} : UNCHANGED <<pc[d], rpc[d]>>
        /\ pc'[c] = "fetching" /\ pc[c] = "fetch"
    BY <1>9 DEF Fetch, scheduler, TypeOK
  <2>2. rpc'[c] # <<>>
    <3>1. rpc[c] \in Seq(Nat \ {0}) /\ local[c].n \in Nat \ {0}
      BY <1>9 DEF Fetch, TypeInv, TypeOK, Named
    <3>2. rpc'[c] = Append(rpc[c], local[c].n)
      BY <1>9 DEF Fetch, TypeOK
    <3> QED
      BY <3>1, <3>2, QueueTypes
  <2> QED
    BY <2>1, <2>2 DEF Heard, Outstanding, MoreToServe
<1>10. ASSUME NEW c \in Clusters, Announce(c) \/ Assign(c)
       PROVE  Heard'
  <2>1. /\ UNCHANGED <<serving, pool, asked, rpc, sentJobs, requests, jobs>>
        /\ \A d \in Clusters \ {c} : UNCHANGED <<pc[d]>>
        /\ pc'[c] \in {"assign", "loop"}
    BY <1>10 DEF Announce, Assign, scheduler, TypeOK
  <2> QED
    BY <2>1 DEF Heard, Outstanding, MoreToServe
<1>11. CASE (\E k \in Cores : Finish(k)) \/ UNCHANGED vars
  BY <1>11 DEF Finish, vars, scheduler, cluster, Heard, Outstanding, MoreToServe
<1> QED
  BY <1>1, <1>2, <1>3, <1>4, <1>5, <1>6, <1>7, <1>8, <1>9, <1>10, <1>11
     DEF Next, SchedulerStep, ClusterStep

\* When no put() blocks, a cluster scheduler that waits for anything has no
\* request, and one that waits for a job has none and has asked for it
\* (ClusterScheduler.cpp): no notify() is lost although it waits for one event
\* alone.
THEOREM NoStrandedJobHolds ==
  ASSUME PutMayBlock = FALSE
  PROVE  Spec => []NoStrandedJob
<1>1. TypeInv /\ Heard => NoStrandedJob
  BY DEF Heard, NoStrandedJob, Outstanding
<1> QED
  BY TypeInit, TypeNext, HeardInit, HeardNext, <1>1, PTL DEF Spec
===============================================================================
