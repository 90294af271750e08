---------------------------- MODULE CoreHAL_proof -----------------------------
(***************************************************************************)
(* That the threads of a core share its HAL without losing or repeating a  *)
(* job, and miss no answer they wait for, except perhaps a payload in the  *)
(* first wait for it, proved for any threads, tokens, jobs and reads.      *)
(*                                                                         *)
(* The locks are inductive together with the types, since a token is only  *)
(* given back by a thread that has one.  JobsConserved counts places and   *)
(* is proved from an invariant that names the one there is; NothingMissed  *)
(* needs that a woken thread's answer has come or is still to come, and,   *)
(* for a lone thread's first wait, that no payload is asked for before its *)
(* job has left the queue.                                                 *)
(***************************************************************************)
EXTENDS CoreHAL, SequenceTheorems, FiniteSetTheorems, TLAPS

\* A thread past the queue has a job.
Named == \A t \in Holding : pd[t] # 0

LockInv == TypeOK /\ Named /\ LocksHeld

-----------------------------------------------------------------------------
LEMMA QueueTypes ==
  ASSUME NEW S, NEW s \in Seq(S)
  PROVE  /\ \A x \in S : Append(s, x) \in Seq(S)
         /\ s # <<>> => Head(s) \in S /\ Tail(s) \in Seq(S)
  BY HeadTailProperties, AppendProperties

\* The threads past the semaphore are finitely many.
LEMMA ActiveFinite == IsFiniteSet(Active) /\ Cardinality(Active) \in Nat
<1>1. Active \subseteq Threads
  BY DEF Active, Holding
<1> QED
  BY <1>1, CoreAssumption, FS_Subset, FS_CardinalityType

\* A step of one thread.
LEMMA GotoOne ==
  ASSUME TypeOK, NEW t \in Threads, NEW place, Goto(t, place)
  PROVE  \A s \in Threads : pc'[s] = IF s = t THEN place ELSE pc[s]
  BY DEF Goto, TypeOK

LEMMA LockInit == Init => LockInv
<1> SUFFICES ASSUME Init PROVE LockInv
  OBVIOUS
<1>1. Active = {} /\ Holding = {}
  BY DEF Init, Active, Holding
<1>2. <<>> \in Seq(Jobs) /\ 1 \in 1 .. JobCount + 1 /\ Tokens \in 0 .. Tokens
      /\ 0 \in 0 .. ReadCount
  BY CoreAssumption, EmptySeq
<1>3. TypeOK
  BY <1>2 DEF Init, TypeOK
<1>4. LocksHeld
  BY <1>1, FS_EmptySet, CoreAssumption DEF Init, LocksHeld
<1> QED
  BY <1>1, <1>3, <1>4 DEF LockInv, Named

LEMMA LockNext == LockInv /\ [Next]_vars => LockInv'
<1> SUFFICES ASSUME LockInv, [Next]_vars PROVE LockInv'
  OBVIOUS
<1> TypeOK /\ Named /\ LocksHeld
  BY DEF LockInv
<1> NoThread \notin Threads /\ Tokens \in Nat /\ JobCount \in Nat /\ ReadCount \in Nat
  BY CoreAssumption
<1> DEFINE Places == {"none", "start", "wait_job", "sem", "pop", "lock", "first_wait",
              "first_woken", "wait_payload", "payload_woken", "process", "wait_read",
              "read_woken"}
           MutexRight == \A t \in Threads : pc[t] \in {"first_wait", "first_woken"} <=> mtx = t
           SameTokens == /\ sem' = sem
                         /\ Active' = Active
<1>a. SameTokens /\ MutexRight' => LocksHeld'
  BY DEF LocksHeld
<1>1. ASSUME NEW t \in Threads, RequestJob(t)
      PROVE  LockInv'
  <2> PICK place \in {"wait_job", "sem"} : Goto(t, place)
    BY <1>1 DEF RequestJob
  <2>1. \A s \in Threads : pc'[s] = IF s = t THEN place ELSE pc[s]
    BY GotoOne
  <2>2. SameTokens /\ MutexRight' /\ Holding' = Holding
    BY <1>1, <2>1 DEF RequestJob, Active, Holding, LocksHeld
  <2>3. pc' \in [Threads -> Places]
    BY DEF Goto, TypeOK
  <2>4. asks' \in Nat
    BY <1>1 DEF RequestJob, TypeOK
  <2>5. TypeOK'
    BY <1>1, <2>3, <2>4 DEF RequestJob, TypeOK, payvars, readvars
  <2> QED
    BY <1>1, <1>a, <2>2, <2>5 DEF LockInv, Named, RequestJob
<1>2. ASSUME NEW t \in Threads, TakeToken(t)
      PROVE  LockInv'
  <2>1. \A s \in Threads : pc'[s] = IF s = t THEN "pop" ELSE pc[s]
    BY <1>2, GotoOne DEF TakeToken
  <2>2. /\ Active' = Active \cup {t} /\ t \notin Active
        /\ Holding' = Holding /\ MutexRight'
    BY <1>2, <2>1 DEF TakeToken, Active, Holding, LocksHeld
  <2>3. Cardinality(Active') = Cardinality(Active) + 1
    BY <2>2, ActiveFinite, FS_AddElement
  <2>4. sem' \in 0 .. Tokens /\ sem' + Cardinality(Active') = Tokens
    BY <1>2, <2>3, ActiveFinite DEF TakeToken, TypeOK, LocksHeld
  <2>5. pc' \in [Threads -> Places]
    BY <1>2 DEF TakeToken, Goto, TypeOK
  <2>6. TypeOK'
    BY <1>2, <2>4, <2>5 DEF TakeToken, TypeOK, jobvars, payvars, readvars
  <2>7. LocksHeld'
    BY <2>2, <2>4 DEF LocksHeld
  <2> QED
    BY <1>2, <2>2, <2>6, <2>7 DEF LockInv, Named, TakeToken
<1>3. ASSUME NEW t \in Threads, PopJob(t)
      PROVE  LockInv'
  <2> PICK place \in {"first_wait", "lock"} :
        /\ Goto(t, place)
        /\ mtx = NoThread => place = "first_wait" /\ mtx' = t
        /\ mtx # NoThread => place = "lock" /\ mtx' = mtx
    BY <1>3 DEF PopJob
  <2>1. \A s \in Threads : pc'[s] = IF s = t THEN place ELSE pc[s]
    BY GotoOne
  <2>2. Head(job_queue) \in Jobs /\ Tail(job_queue) \in Seq(Jobs) /\ pc[t] = "pop"
    BY <1>3, QueueTypes DEF PopJob, TypeOK
  <2>3. SameTokens /\ Holding' = Holding \cup {t}
    BY <1>3, <2>1, <2>2 DEF PopJob, Active, Holding
  <2>4. MutexRight'
    BY <2>1, <2>2 DEF LocksHeld, TypeOK
  <2>5. pc' \in [Threads -> Places]
    BY DEF Goto, TypeOK
  <2>6. TypeOK'
    BY <1>3, <2>2, <2>5 DEF PopJob, TypeOK, readvars
  <2>7. Named'
    BY <1>3, <2>2, <2>3 DEF PopJob, Named, TypeOK, Jobs
  <2> QED
    BY <1>a, <2>3, <2>4, <2>6, <2>7 DEF LockInv
<1>4. ASSUME NEW t \in Threads, Lock(t)
      PROVE  LockInv'
  <2>1. \A s \in Threads : pc'[s] = IF s = t THEN "first_wait" ELSE pc[s]
    BY <1>4, GotoOne DEF Lock
  <2>2. SameTokens /\ MutexRight' /\ Holding' = Holding
    BY <1>4, <2>1 DEF Lock, Active, Holding, LocksHeld
  <2>3. pc' \in [Threads -> Places]
    BY <1>4 DEF Lock, Goto, TypeOK
  <2>4. TypeOK'
    BY <1>4, <2>3 DEF Lock, TypeOK, jobvars, payvars, readvars
  <2> QED
    BY <1>4, <1>a, <2>2, <2>4 DEF LockInv, Named, Lock
<1>5. ASSUME NEW t \in Threads, Unlock(t) \/ Recheck(t)
      PROVE  LockInv'
  <2> PICK place \in {"process", "wait_payload"} : Goto(t, place)
    BY <1>5 DEF Unlock, Recheck, CheckBuffer
  <2>1. \A s \in Threads : pc'[s] = IF s = t THEN place ELSE pc[s]
    BY GotoOne
  <2>2. SameTokens /\ Holding' = Holding
    BY <1>5, <2>1 DEF Unlock, Recheck, Active, Holding
  <2>3. MutexRight'
    BY <1>5, <2>1 DEF Unlock, Recheck, LocksHeld, TypeOK
  <2>4. pc' \in [Threads -> Places]
    BY DEF Goto, TypeOK
  <2>5. read' \in [Threads -> [id : Nat, left : 0 .. ReadCount]]
    <3>1. ReadCount \in 0 .. ReadCount
      OBVIOUS
    <3> QED
      BY ZenonT(60), <1>5, <3>1 DEF Unlock, Recheck, StartProcessing, TypeOK
  <2>6. mtx' \in Threads \cup {NoThread}
    BY <1>5 DEF Unlock, Recheck, TypeOK
  <2>7. TypeOK'
    BY <1>5, <2>4, <2>5, <2>6 DEF Unlock, Recheck, TypeOK, jobvars, payvars
  <2> QED
    BY <1>5, <1>a, <2>2, <2>3, <2>7 DEF LockInv, Named, Unlock, Recheck
<1>6. ASSUME NEW t \in Threads, Read(t) \/ CheckReply(t)
      PROVE  LockInv'
  <2> PICK place \in {"process", "wait_read"} : Goto(t, place)
    BY <1>6 DEF Read, CheckReply
  <2>1. \A s \in Threads : pc'[s] = IF s = t THEN place ELSE pc[s]
    BY GotoOne
  <2>2. SameTokens /\ MutexRight' /\ Holding' = Holding
    BY <1>6, <2>1 DEF Read, CheckReply, Active, Holding, LocksHeld
  <2>3. pc' \in [Threads -> Places]
    BY DEF Goto, TypeOK
  <2>4. /\ counter' \in Nat /\ pending' \in SUBSET Nat
        /\ read' \in [Threads -> [id : Nat, left : 0 .. ReadCount]]
    <3>1. CASE Read(t)
      <4>1. read[t].left \in 0 .. ReadCount /\ read[t].left > 0
        BY <3>1 DEF Read, TypeOK
      <4>2. [id |-> counter, left |-> read[t].left - 1] \in [id : Nat, left : 0 .. ReadCount]
        BY <4>1 DEF TypeOK
      <4> QED
        BY <3>1, <4>2 DEF Read, TypeOK
    <3>2. CASE CheckReply(t)
      BY <3>2 DEF CheckReply, readvars, TypeOK
    <3> QED
      BY <1>6, <3>1, <3>2
  <2>5. TypeOK'
    BY <1>6, <2>3, <2>4 DEF Read, CheckReply, TypeOK, jobvars, payvars, readvars
  <2> QED
    BY <1>6, <1>a, <2>2, <2>5 DEF LockInv, Named, Read, CheckReply
<1>7. ASSUME NEW t \in Threads, SendtoODE(t)
      PROVE  LockInv'
  <2>1. \A s \in Threads : pc'[s] = IF s = t THEN "start" ELSE pc[s]
    BY <1>7, GotoOne DEF SendtoODE
  <2>2. /\ Active' = Active \ {t} /\ t \in Active
        /\ Holding' \subseteq Holding /\ t \in Holding /\ MutexRight'
    BY <1>7, <2>1 DEF SendtoODE, Active, Holding, LocksHeld
  <2>3. Cardinality(Active') = Cardinality(Active) - 1 /\ Cardinality(Active') \in Nat
    BY <2>2, ActiveFinite, FS_RemoveElement, FS_CardinalityType
  <2>4. sem' \in 0 .. Tokens /\ sem' + Cardinality(Active') = Tokens
    BY <1>7, <2>3, ActiveFinite DEF SendtoODE, TypeOK, LocksHeld
  <2>5. pc' \in [Threads -> Places] /\ done' \in SUBSET Jobs
    BY <1>7, <2>2 DEF SendtoODE, Goto, TypeOK, Named
  <2>6. TypeOK'
    BY <1>7, <2>4, <2>5 DEF SendtoODE, TypeOK, jobvars, payvars, readvars
  <2>7. LocksHeld'
    BY <2>2, <2>4 DEF LocksHeld
  <2> QED
    BY <1>7, <2>2, <2>6, <2>7 DEF LockInv, Named, SendtoODE
<1>8. CASE ReceiveJob
  <2>1. \A s \in Threads : pc'[s] = IF pc[s] = "wait_job" THEN "sem" ELSE pc[s]
    BY <1>8 DEF ReceiveJob, Wake
  <2>2. SameTokens /\ MutexRight' /\ Holding' = Holding
    BY <1>8, <2>1 DEF ReceiveJob, Active, Holding, LocksHeld
  <2>3. next \in Jobs /\ next' \in 1 .. JobCount + 1 /\ asks' \in Nat
    BY <1>8 DEF ReceiveJob, TypeOK, Jobs
  <2>4. pc' \in [Threads -> Places] /\ job_queue' \in Seq(Jobs)
    BY <1>8, <2>3, QueueTypes DEF ReceiveJob, Wake, TypeOK
  <2>5. TypeOK'
    BY <1>8, <2>3, <2>4 DEF ReceiveJob, TypeOK, payvars, readvars
  <2> QED
    BY <1>8, <1>a, <2>2, <2>5 DEF LockInv, Named, ReceiveJob
<1>9. ASSUME NEW id \in wanted, ReceivePayload(id)
      PROVE  LockInv'
  <2>1. \A s \in Threads : pc'[s] = IF pc[s] = "first_wait" THEN "first_woken"
                                    ELSE IF pc[s] = "wait_payload" THEN "payload_woken"
                                    ELSE pc[s]
    BY <1>9 DEF ReceivePayload
  <2>2. SameTokens /\ MutexRight' /\ Holding' = Holding
    BY <1>9, <2>1 DEF ReceivePayload, Active, Holding, LocksHeld
  <2>3. pc' \in [Threads -> Places]
    <3>1. pc' = [s \in Threads |-> pc'[s]]
      BY <1>9 DEF ReceivePayload
    <3> QED
      BY <2>1, <3>1 DEF TypeOK
  <2>4. TypeOK'
    BY <1>9, <2>3 DEF ReceivePayload, TypeOK, jobvars, readvars
  <2> QED
    BY <1>9, <1>a, <2>2, <2>4 DEF LockInv, Named, ReceivePayload
<1>10. ASSUME NEW id \in pending, ReceiveReply(id)
       PROVE  LockInv'
  <2>1. \A s \in Threads : pc'[s] = IF pc[s] = "wait_read" THEN "read_woken" ELSE pc[s]
    BY <1>10 DEF ReceiveReply, Wake
  <2>2. SameTokens /\ MutexRight' /\ Holding' = Holding
    BY <1>10, <2>1 DEF ReceiveReply, Active, Holding, LocksHeld
  <2>3. pc' \in [Threads -> Places]
    BY <1>10 DEF ReceiveReply, Wake, TypeOK
  <2>4. TypeOK'
    BY <1>10, <2>3 DEF ReceiveReply, TypeOK, jobvars, payvars
  <2> QED
    BY <1>10, <1>a, <2>2, <2>4 DEF LockInv, Named, ReceiveReply
<1>11. CASE UNCHANGED vars
  BY <1>11 DEF vars, jobvars, payvars, readvars, LockInv, TypeOK, Named, LocksHeld,
               Active, Holding
<1> QED
  BY <1>1, <1>2, <1>3, <1>4, <1>5, <1>6, <1>7, <1>8, <1>9, <1>10, <1>11
     DEF Next, ThreadStep, GetJob

\* The threads' data are what they may be, mtx_payload is held by the one
\* thread in its first wait, and sem_ counts the threads past it (HAL.cpp).
THEOREM LocksInvariant == Spec => [](TypeOK /\ LocksHeld)
<1>1. LockInv => TypeOK /\ LocksHeld
  BY DEF LockInv
<1> QED
  BY LockInit, LockNext, <1>1, PTL DEF Spec
-----------------------------------------------------------------------------
(* The place of a job, of which there is one: not sent yet, queued, in the *)
(* hands of a thread, or done.                                             *)
Has(queue, x) == \E i \in 1 .. Len(queue) : queue[i] = x

Once(queue, x) == \A i, j \in 1 .. Len(queue) : queue[i] = x /\ queue[j] = x => i = j

Located(j, place) ==
  /\ Has(job_queue, j) <=> place = <<"queue", 0>>
  /\ Once(job_queue, j)
  /\ \A t \in Threads : t \in Holding /\ pd[t] = j <=> place = <<"hands", t>>
  /\ j \in done <=> place = <<"done", 0>>
  /\ j < next <=> place # <<"outside", 0>>

Places == ({"hands"} \X Threads) \cup {<<at, 0>> : at \in {"outside", "queue", "done"}}

OnePlace == \A j \in Jobs : \E place \in Places : Located(j, place)

LEMMA HasAppend ==
  ASSUME NEW S, NEW queue \in Seq(S), NEW y \in S, NEW x
  PROVE  /\ Has(Append(queue, y), x) <=> Has(queue, x) \/ x = y
         /\ Once(queue, x) /\ (x = y => ~ Has(queue, x)) => Once(Append(queue, y), x)
<1>1. /\ Len(queue) \in Nat /\ Len(Append(queue, y)) = Len(queue) + 1
      /\ \A i \in 1 .. Len(queue) : Append(queue, y)[i] = queue[i]
      /\ Append(queue, y)[Len(queue) + 1] = y
  BY AppendProperties, LenProperties
<1>2. Has(Append(queue, y), x) <=> Has(queue, x) \/ x = y
  BY <1>1 DEF Has
<1>3. Once(queue, x) /\ (x = y => ~ Has(queue, x)) => Once(Append(queue, y), x)
  BY <1>1 DEF Has, Once
<1> QED
  BY <1>2, <1>3

LEMMA HasTail ==
  ASSUME NEW S, NEW queue \in Seq(S), queue # <<>>, NEW x, Once(queue, x)
  PROVE  /\ Has(Tail(queue), x) <=> Has(queue, x) /\ x # Head(queue)
         /\ Once(Tail(queue), x)
         /\ Has(queue, Head(queue))
<1>1. /\ Len(queue) \in Nat \ {0} /\ Len(Tail(queue)) = Len(queue) - 1
      /\ Head(queue) = queue[1]
      /\ \A i \in 1 .. Len(queue) - 1 : Tail(queue)[i] = queue[i + 1]
  BY HeadTailProperties, EmptySeq
<1>2. Has(Tail(queue), x) => Has(queue, x) /\ x # Head(queue)
  BY <1>1 DEF Has, Once
<1>3. ASSUME Has(queue, x), x # Head(queue) PROVE Has(Tail(queue), x)
  <2> PICK i \in 1 .. Len(queue) : queue[i] = x
    BY <1>3 DEF Has
  <2>1. i - 1 \in 1 .. Len(Tail(queue)) /\ Tail(queue)[i - 1] = x
    BY <1>1, <1>3
  <2> QED
    BY <2>1 DEF Has
<1>4. Once(Tail(queue), x)
  <2> SUFFICES ASSUME NEW i \in 1 .. Len(Tail(queue)), NEW j \in 1 .. Len(Tail(queue)),
                      Tail(queue)[i] = x, Tail(queue)[j] = x
               PROVE  i = j
    BY DEF Once
  <2>1. /\ i + 1 \in 1 .. Len(queue) /\ queue[i + 1] = x
        /\ j + 1 \in 1 .. Len(queue) /\ queue[j + 1] = x
    BY <1>1
  <2> QED
    BY <2>1 DEF Once
<1>5. Has(queue, Head(queue))
  BY <1>1 DEF Has
<1> QED
  BY <1>2, <1>3, <1>4, <1>5

LEMMA OnePlaceInit == Init => OnePlace
<1> SUFFICES ASSUME Init, NEW j \in Jobs PROVE Located(j, <<"outside", 0>>)
  BY DEF OnePlace, Places
<1>1. Len(<<>>) = 0 /\ ~ (j < next)
  BY EmptySeq, CoreAssumption DEF Init, Jobs
<1> QED
  BY <1>1 DEF Init, Located, Holding, Has, Once

LEMMA OnePlaceNext == LockInv /\ OnePlace /\ [Next]_vars => OnePlace'
<1> SUFFICES ASSUME LockInv, [Next]_vars, NEW j \in Jobs, NEW place \in Places,
                    Located(j, place)
             PROVE  \E new \in Places : Located(j, new)'
  BY DEF OnePlace, Places, Jobs
<1> TypeOK
  BY DEF LockInv
<1> JobCount \in Nat /\ j \in 1 .. JobCount
  BY CoreAssumption DEF Jobs
<1>a. ASSUME UNCHANGED <<job_queue, next, pd, done>>, Holding' = Holding
      PROVE  Located(j, place)'
  BY <1>a DEF Located
<1>1. ASSUME NEW t \in Threads, RequestJob(t) \/ TakeToken(t) \/ Lock(t)
      PROVE  Located(j, place)'
  <2> PICK to : Goto(t, to) /\ to \in (IF pc[t] = "lock" THEN {"first_wait"}
                                       ELSE {"wait_job", "sem", "pop"})
    BY <1>1 DEF RequestJob, TakeToken, Lock
  <2>1. Holding' = Holding
    BY <1>1, GotoOne DEF RequestJob, TakeToken, Lock, Holding
  <2> QED
    BY <1>1, <1>a, <2>1 DEF RequestJob, TakeToken, Lock, jobvars
<1>2. ASSUME NEW t \in Threads, PopJob(t)
      PROVE  \E new \in Places : Located(j, new)'
  <2> DEFINE job == Head(job_queue)
             moves == job = j
  <2> PICK new : new = (IF moves THEN <<"hands", t>> ELSE place)
    OBVIOUS
  <2>1. /\ job_queue \in Seq(Jobs) /\ job_queue # <<>> /\ pc[t] = "pop"
        /\ job_queue' = Tail(job_queue) /\ UNCHANGED <<next, done>>
        /\ pd' = [pd EXCEPT ![t] = job]
    BY <1>2 DEF PopJob, TypeOK
  <2> HIDE DEF job
  <2>2. Holding' = Holding \cup {t} /\ t \notin Holding
    <3> PICK to \in {"first_wait", "lock"} : Goto(t, to)
      BY <1>2 DEF PopJob
    <3> QED
      BY <2>1, GotoOne DEF Holding
  <2>3. /\ Has(job_queue', j) <=> Has(job_queue, j) /\ ~ moves
        /\ Once(job_queue', j)
        /\ moves => Has(job_queue, j)
    BY <2>1, HasTail DEF Located, job
  <2>4. moves => place = <<"queue", 0>>
    BY <2>3 DEF Located
  <2>5. Located(j, new)' /\ new \in Places
    BY <2>1, <2>2, <2>3, <2>4 DEF Located, TypeOK, Places
  <2> QED
    BY <2>5
<1>3. ASSUME NEW t \in Threads, Unlock(t) \/ Recheck(t) \/ Read(t) \/ CheckReply(t)
      PROVE  Located(j, place)'
  <2> PICK to \in {"process", "wait_payload", "wait_read"} : Goto(t, to)
    BY <1>3 DEF Unlock, Recheck, Read, CheckReply, CheckBuffer
  <2>1. Holding' = Holding
    BY <1>3, GotoOne DEF Unlock, Recheck, Read, CheckReply, Holding
  <2> QED
    BY <1>3, <1>a, <2>1 DEF Unlock, Recheck, Read, CheckReply, jobvars
<1>4. ASSUME NEW t \in Threads, SendtoODE(t)
      PROVE  \E new \in Places : Located(j, new)'
  <2> DEFINE moves == pd[t] = j
  <2> PICK new : new = (IF moves THEN <<"done", 0>> ELSE place)
    OBVIOUS
  <2>1. /\ UNCHANGED <<job_queue, next, pd>> /\ done' = done \cup {pd[t]}
        /\ Holding' = Holding \ {t} /\ t \in Holding
    BY <1>4, GotoOne DEF SendtoODE, Holding, jobvars
  <2>2. moves => place = <<"hands", t>>
    BY <2>1 DEF Located
  <2>3. Located(j, new)' /\ new \in Places
    BY <2>1, <2>2 DEF Located, Places
  <2> QED
    BY <2>3
<1>5. CASE ReceiveJob
  <2> DEFINE moves == next = j
  <2> PICK new : new = (IF moves THEN <<"queue", 0>> ELSE place)
    OBVIOUS
  <2>1. /\ next \in Jobs /\ job_queue \in Seq(Jobs) /\ job_queue' = Append(job_queue, next)
        /\ next' = next + 1 /\ UNCHANGED <<pd, done>>
    BY <1>5 DEF ReceiveJob, TypeOK, Jobs
  <2>2. Holding' = Holding
    BY <1>5 DEF ReceiveJob, Wake, Holding
  <2>3. moves => place = <<"outside", 0>>
    BY <2>1 DEF Located, Jobs
  <2>4. /\ Has(job_queue', j) <=> Has(job_queue, j) \/ moves
        /\ Once(job_queue', j)
    BY <2>1, <2>3, HasAppend DEF Located
  <2>5. j < next' <=> new # <<"outside", 0>>
    BY <2>1, <2>3 DEF Located, Jobs
  <2>6. Located(j, new)' /\ new \in Places
    BY <2>1, <2>2, <2>3, <2>4, <2>5 DEF Located, Places
  <2> QED
    BY <2>6
<1>6. ASSUME NEW id \in wanted, ReceivePayload(id)
      PROVE  Located(j, place)'
  <2>1. \A s \in Threads : pc'[s] = IF pc[s] = "first_wait" THEN "first_woken"
                                    ELSE IF pc[s] = "wait_payload" THEN "payload_woken"
                                    ELSE pc[s]
    BY <1>6 DEF ReceivePayload
  <2> QED
    BY <1>6, <1>a, <2>1 DEF ReceivePayload, Holding, jobvars
<1>7. ASSUME NEW id \in pending, ReceiveReply(id)
      PROVE  Located(j, place)'
  BY <1>7, <1>a DEF ReceiveReply, Wake, Holding, jobvars
<1>8. CASE UNCHANGED vars
  BY <1>8, <1>a DEF vars, jobvars, Holding
<1> QED
  BY <1>1, <1>2, <1>3, <1>4, <1>5, <1>6, <1>7, <1>8 DEF Next, ThreadStep, GetJob

\* Counting what is there once or not at all.
LEMMA CountOne ==
  ASSUME NEW a, NEW S, S \subseteq {a}
  PROVE  Cardinality(S) = IF a \in S THEN 1 ELSE 0
<1>1. S = {} \/ S = {a}
  OBVIOUS
<1> QED
  BY <1>1, FS_EmptySet, FS_Singleton

LEMMA PlacesCounted ==
  ASSUME NEW j \in Jobs, NEW place \in Places, Located(j, place), j < next
  PROVE  Cardinality({i \in 1 .. Len(job_queue) : job_queue[i] = j})
           + Cardinality({t \in Holding : pd[t] = j})
           + Cardinality({j} \cap done) = 1
<1> DEFINE At(at) == IF place[1] = at THEN 1 ELSE 0
<1>1. Cardinality({i \in 1 .. Len(job_queue) : job_queue[i] = j}) = At("queue")
  <2>1. Has(job_queue, j) <=> place[1] = "queue"
    BY DEF Located, Places
  <2>2. CASE Has(job_queue, j)
    <3> PICK i \in 1 .. Len(job_queue) : job_queue[i] = j
      BY <2>2 DEF Has
    <3>1. {k \in 1 .. Len(job_queue) : job_queue[k] = j} = {i}
      BY DEF Located, Once
    <3> QED
      BY <2>1, <2>2, <3>1, FS_Singleton
  <2>3. CASE ~ Has(job_queue, j)
    <3>1. {k \in 1 .. Len(job_queue) : job_queue[k] = j} = {}
      BY <2>3 DEF Has
    <3> QED
      BY <2>1, <2>3, <3>1, FS_EmptySet
  <2> QED
    BY <2>2, <2>3
<1>2. Cardinality({t \in Holding : pd[t] = j}) = At("hands")
  <2>1. place[1] = "hands" => place[2] \in Threads /\ place = <<"hands", place[2]>>
    BY DEF Places
  <2>2. {t \in Holding : pd[t] = j} = IF place[1] = "hands" THEN {place[2]} ELSE {}
    BY <2>1 DEF Located, Holding
  <2> QED
    BY <2>2, FS_EmptySet, FS_Singleton
<1>3. Cardinality({j} \cap done) = At("done")
  <2>1. j \in done <=> place[1] = "done"
    BY DEF Located, Places
  <2>2. Cardinality({j} \cap done) = IF j \in {j} \cap done THEN 1 ELSE 0
    BY CountOne
  <2> QED
    BY <2>1, <2>2
<1>4. place[1] \in {"queue", "hands", "done"}
  BY DEF Located, Places
<1> QED
  BY <1>1, <1>2, <1>3, <1>4

\* Although a thread takes whatever job is queued, asked for by whomever, every
\* job the core was sent is run by one thread and once, and who has one has its
\* token (HAL.cpp).
THEOREM JobsConservedHolds == Spec => []JobsConserved
<1>1. LockInv /\ OnePlace => JobsConserved
  <2> SUFFICES ASSUME LockInv, OnePlace, NEW j \in 1 .. next - 1
               PROVE  Cardinality({i \in 1 .. Len(job_queue) : job_queue[i] = j})
                        + Cardinality({t \in Holding : pd[t] = j})
                        + Cardinality({j} \cap done) = 1
    BY DEF JobsConserved, LockInv
  <2>1. j \in Jobs /\ j < next
    BY CoreAssumption DEF LockInv, TypeOK, Jobs
  <2> QED
    BY <2>1, PlacesCounted DEF OnePlace
<1> QED
  BY LockInit, LockNext, OnePlaceInit, OnePlaceNext, <1>1, PTL DEF Spec
-----------------------------------------------------------------------------
(* What a thread waits for is still to come.  The answer to a read that a  *)
(* woken thread has not looked for may have come as well.  A core with one *)
(* thread is never kept waiting by the mutex, and its payload was never    *)
(* asked for before.                                                       *)
Askers == {t \in Threads : pc[t] = "wait_job"}

ReadsCome == \A t \in Threads :
               /\ pc[t] = "wait_read" => read[t].id \in pending
               /\ pc[t] = "read_woken" => read[t].id \in pending \cup replies

Fresh == \A j \in Jobs : Has(job_queue, j) \/ next =< j => j \notin wanted \cup buffer

PayloadsCome == /\ \A t \in Threads : pc[t] = "wait_payload" => pd[t] \notin buffer
                /\ Lone => \A t \in Threads :
                              /\ pc[t] # "lock"
                              /\ pc[t] = "first_wait" => pd[t] \notin buffer

MissInv == Cardinality(Askers) =< asks /\ ReadsCome /\ Fresh /\ PayloadsCome

LEMMA AskersFinite == IsFiniteSet(Askers) /\ Cardinality(Askers) \in Nat
<1>1. Askers \subseteq Threads
  BY DEF Askers
<1> QED
  BY <1>1, CoreAssumption, FS_Subset, FS_CardinalityType

LEMMA MissInit == Init => MissInv
<1> SUFFICES ASSUME Init PROVE MissInv
  OBVIOUS
<1>1. Askers = {}
  BY DEF Init, Askers
<1> QED
  BY <1>1, FS_EmptySet DEF Init, MissInv, ReadsCome, Fresh, PayloadsCome

LEMMA MissNext == LockInv /\ OnePlace /\ MissInv /\ [Next]_vars => MissInv'
<1> SUFFICES ASSUME LockInv, OnePlace, MissInv, [Next]_vars PROVE MissInv'
  OBVIOUS
<1> /\ TypeOK /\ LocksHeld
    /\ Cardinality(Askers) =< asks /\ ReadsCome /\ Fresh /\ PayloadsCome
  BY DEF LockInv, MissInv
<1> JobCount \in Nat /\ Jobs \in SUBSET Nat /\ NoThread \notin Threads
  BY CoreAssumption DEF Jobs
<1> DEFINE SameAskers == asks' = asks /\ Askers' = Askers
           SameThreads == \A t \in Threads : pc'[t] = "none" <=> pc[t] = "none"
<1>a. SameAskers => Cardinality(Askers') =< asks'
  OBVIOUS
<1>b. SameThreads => (Lone' <=> Lone)
  BY DEF Lone
<1>c. UNCHANGED <<job_queue, next, payvars>> => Fresh'
  BY DEF Fresh, payvars
<1>1. ASSUME NEW t \in Threads, RequestJob(t)
      PROVE  MissInv'
  <2> PICK place : /\ Goto(t, place)
                   /\ \/ place = "wait_job" /\ asks' = asks + 1
                      \/ place = "sem" /\ asks' = asks
    BY <1>1 DEF RequestJob
  <2>1. \A s \in Threads : pc'[s] = IF s = t THEN place ELSE pc[s]
    BY GotoOne
  <2>2. Cardinality(Askers') =< asks'
    <3>1. CASE place = "wait_job" /\ asks' = asks + 1
      <4>1. Askers' = Askers \cup {t}
        BY <2>1, <3>1 DEF Askers
      <4>2. Cardinality(Askers \cup {t}) \in {Cardinality(Askers), Cardinality(Askers) + 1}
        BY AskersFinite, FS_AddElement
      <4> QED
        BY <3>1, <4>1, <4>2, AskersFinite DEF TypeOK
    <3>2. CASE place = "sem" /\ asks' = asks
      <4>1. Askers' = Askers
        BY <1>1, <2>1, <3>2 DEF Askers, RequestJob
      <4> QED
        BY <3>2, <4>1
    <3> QED
      BY <3>1, <3>2
  <2>3. SameThreads /\ place \notin {"lock", "first_wait", "wait_payload", "wait_read",
                                     "read_woken"}
    BY <1>1, <2>1 DEF RequestJob
  <2>4. UNCHANGED <<job_queue, next, payvars, readvars, pd>>
    BY <1>1 DEF RequestJob
  <2>5. ReadsCome' /\ PayloadsCome'
    BY <1>b, <2>1, <2>3, <2>4 DEF ReadsCome, PayloadsCome, readvars, payvars
  <2> QED
    BY <1>c, <2>2, <2>4, <2>5 DEF MissInv
<1>2. ASSUME NEW t \in Threads, TakeToken(t) \/ SendtoODE(t)
      PROVE  MissInv'
  <2> PICK place \in {"pop", "start"} : Goto(t, place)
    BY <1>2 DEF TakeToken, SendtoODE
  <2>1. \A s \in Threads : pc'[s] = IF s = t THEN place ELSE pc[s]
    BY GotoOne
  <2>2. /\ pc[t] \in {"sem", "process"}
        /\ UNCHANGED <<job_queue, next, asks, payvars, readvars, pd>>
    BY <1>2 DEF TakeToken, SendtoODE, jobvars
  <2>3. SameAskers /\ SameThreads
    BY <2>1, <2>2 DEF Askers
  <2>4. ReadsCome' /\ PayloadsCome'
    BY <1>b, <2>1, <2>2, <2>3 DEF ReadsCome, PayloadsCome, readvars, payvars
  <2> QED
    BY <1>a, <1>c, <2>2, <2>3, <2>4 DEF MissInv
<1>3. ASSUME NEW t \in Threads, PopJob(t)
      PROVE  MissInv'
  <2> DEFINE job == Head(job_queue)
  <2> PICK place \in {"first_wait", "lock"} :
        Goto(t, place) /\ (place = "lock" => mtx # NoThread)
    BY <1>3 DEF PopJob
  <2>1. \A s \in Threads : pc'[s] = IF s = t THEN place ELSE pc[s]
    BY GotoOne
  <2>2. /\ pc[t] = "pop" /\ job_queue # <<>> /\ job_queue \in Seq(Jobs)
        /\ job_queue' = Tail(job_queue) /\ UNCHANGED <<next, asks, buffer, readvars>>
        /\ wanted' = wanted \cup {job} /\ pd' = [pd EXCEPT ![t] = job]
    BY <1>3 DEF PopJob, TypeOK
  <2>3. job \in Jobs /\ Has(job_queue, job)
    <3>1. Len(job_queue) \in Nat \ {0} /\ job = job_queue[1]
      BY <2>2, EmptySeq
    <3> QED
      BY <2>2, <3>1, QueueTypes DEF Has
  <2> HIDE DEF job
  <2>4. SameAskers /\ SameThreads
    BY <2>1, <2>2 DEF Askers
  <2>5. Fresh'
    <3> SUFFICES ASSUME NEW j \in Jobs, Has(job_queue', j) \/ next =< j
                 PROVE  j \notin wanted \cup {job} \cup buffer
      BY <2>2 DEF Fresh
    <3> PICK where \in Places : Located(j, where)
      BY DEF OnePlace
    <3>1. Has(job_queue', j) <=> Has(job_queue, j) /\ j # job
      BY <2>2, HasTail DEF Located, job
    <3>2. next =< j => ~ Has(job_queue, j)
      BY DEF Located, TypeOK
    <3> QED
      BY <2>3, <3>1, <3>2 DEF Fresh
  <2>6. ReadsCome'
    BY <2>1, <2>2 DEF ReadsCome, readvars
  <2>7. ASSUME Lone
        PROVE  place = "first_wait"
    <3>1. {s \in Threads : pc[s] # "none"} = {t}
      <4>1. IsFiniteSet({s \in Threads : pc[s] # "none"})
        BY CoreAssumption, FS_Subset
      <4>2. PICK s : {r \in Threads : pc[r] # "none"} = {s}
        BY <2>7, <4>1, FS_Singleton DEF Lone
      <4> QED
        BY <2>2, <4>2
    <3>2. mtx \in Threads => pc[mtx] \in {"first_wait", "first_woken"}
      BY DEF LocksHeld
    <3>3. mtx = NoThread
      BY <2>2, <3>1, <3>2 DEF TypeOK
    <3> QED
      BY <3>3
  <2>8. PayloadsCome'
    BY <1>b, <2>1, <2>2, <2>3, <2>4, <2>7 DEF PayloadsCome, Fresh, TypeOK
  <2> QED
    BY <1>a, <2>4, <2>5, <2>6, <2>8 DEF MissInv
<1>4. ASSUME NEW t \in Threads, Lock(t)
      PROVE  MissInv'
  <2>1. \A s \in Threads : pc'[s] = IF s = t THEN "first_wait" ELSE pc[s]
    BY <1>4, GotoOne DEF Lock
  <2>2. pc[t] = "lock" /\ UNCHANGED <<job_queue, next, asks, payvars, readvars, pd>>
    BY <1>4 DEF Lock, jobvars
  <2>3. SameAskers /\ SameThreads
    BY <2>1, <2>2 DEF Askers
  <2>4. ReadsCome' /\ PayloadsCome'
    BY <1>b, <2>1, <2>2, <2>3 DEF ReadsCome, PayloadsCome, readvars, payvars
  <2> QED
    BY <1>a, <1>c, <2>2, <2>3, <2>4 DEF MissInv
<1>5. ASSUME NEW t \in Threads, Unlock(t) \/ Recheck(t)
      PROVE  MissInv'
  <2> PICK place : /\ Goto(t, place)
                   /\ place = IF pd[t] \in buffer THEN "process" ELSE "wait_payload"
    BY <1>5 DEF Unlock, Recheck, CheckBuffer
  <2>1. \A s \in Threads : pc'[s] = IF s = t THEN place ELSE pc[s]
    BY GotoOne
  <2>2. /\ pc[t] \in {"first_woken", "payload_woken"}
        /\ UNCHANGED <<job_queue, next, asks, payvars, pending, replies, pd>>
        /\ \A s \in Threads : s # t => read'[s] = read[s]
    BY <1>5 DEF Unlock, Recheck, StartProcessing, jobvars, TypeOK
  <2>3. SameAskers /\ SameThreads
    BY <2>1, <2>2 DEF Askers
  <2>4. ReadsCome' /\ PayloadsCome'
    BY <1>b, <2>1, <2>2, <2>3 DEF ReadsCome, PayloadsCome, payvars
  <2> QED
    BY <1>a, <1>c, <2>2, <2>3, <2>4 DEF MissInv
<1>6. ASSUME NEW t \in Threads, Read(t)
      PROVE  MissInv'
  <2>1. \A s \in Threads : pc'[s] = IF s = t THEN "wait_read" ELSE pc[s]
    BY <1>6, GotoOne DEF Read
  <2>2. /\ pc[t] = "process" /\ UNCHANGED <<job_queue, next, asks, payvars, replies, pd>>
        /\ pending' = pending \cup {counter} /\ read'[t].id = counter
        /\ \A s \in Threads : s # t => read'[s] = read[s]
    BY <1>6 DEF Read, jobvars, TypeOK
  <2>3. SameAskers /\ SameThreads
    BY <2>1, <2>2 DEF Askers
  <2>4. ReadsCome' /\ PayloadsCome'
    BY <1>b, <2>1, <2>2, <2>3 DEF ReadsCome, PayloadsCome, payvars
  <2> QED
    BY <1>a, <1>c, <2>2, <2>3, <2>4 DEF MissInv
<1>7. ASSUME NEW t \in Threads, CheckReply(t)
      PROVE  MissInv'
  <2> PICK place : /\ Goto(t, place)
                   /\ place = IF read[t].id \in replies THEN "process" ELSE "wait_read"
    BY <1>7 DEF CheckReply
  <2>1. \A s \in Threads : pc'[s] = IF s = t THEN place ELSE pc[s]
    BY GotoOne
  <2>2. /\ pc[t] = "read_woken"
        /\ UNCHANGED <<job_queue, next, asks, payvars, readvars, pd>>
    BY <1>7 DEF CheckReply, jobvars
  <2>3. SameAskers /\ SameThreads
    BY <2>1, <2>2 DEF Askers
  <2>4. ReadsCome' /\ PayloadsCome'
    BY <1>b, <2>1, <2>2, <2>3 DEF ReadsCome, PayloadsCome, payvars, readvars
  <2> QED
    BY <1>a, <1>c, <2>2, <2>3, <2>4 DEF MissInv
<1>8. CASE ReceiveJob
  <2>1. \A s \in Threads : pc'[s] = IF pc[s] = "wait_job" THEN "sem" ELSE pc[s]
    BY <1>8 DEF ReceiveJob, Wake
  <2>2. /\ job_queue' = Append(job_queue, next) /\ next' = next + 1 /\ next \in Jobs
        /\ job_queue \in Seq(Jobs) /\ asks' = asks - 1 /\ asks > 0
        /\ UNCHANGED <<payvars, readvars, pd>>
    BY <1>8 DEF ReceiveJob, TypeOK, Jobs
  <2>3. Cardinality(Askers') =< asks'
    <3>1. Askers' = {}
      BY <2>1 DEF Askers
    <3> QED
      BY <2>2, <3>1, FS_EmptySet DEF TypeOK
  <2>4. Fresh'
    <3> SUFFICES ASSUME NEW j \in Jobs, Has(job_queue', j) \/ next' =< j
                 PROVE  j \notin wanted \cup buffer
      BY <2>2 DEF Fresh, payvars
    <3>1. Has(job_queue', j) <=> Has(job_queue, j) \/ j = next
      BY <2>2, HasAppend
    <3> QED
      BY <2>2, <3>1 DEF Fresh
  <2>5. SameThreads
    BY <2>1
  <2>6. ReadsCome' /\ PayloadsCome'
    BY <1>b, <2>1, <2>2, <2>5 DEF ReadsCome, PayloadsCome, payvars, readvars
  <2> QED
    BY <2>3, <2>4, <2>6 DEF MissInv
<1>9. ASSUME NEW id \in wanted, ReceivePayload(id)
      PROVE  MissInv'
  <2>1. \A s \in Threads : pc'[s] = IF pc[s] = "first_wait" THEN "first_woken"
                                    ELSE IF pc[s] = "wait_payload" THEN "payload_woken"
                                    ELSE pc[s]
    BY <1>9 DEF ReceivePayload
  <2>2. /\ UNCHANGED <<job_queue, next, asks, readvars, pd>>
        /\ wanted' = wanted \ {id} /\ buffer' = buffer \cup {id}
    BY <1>9 DEF ReceivePayload, jobvars
  <2>3. SameAskers /\ SameThreads
    BY <2>1, <2>2 DEF Askers
  <2>4. ReadsCome' /\ PayloadsCome' /\ Fresh'
    BY <1>b, <2>1, <2>2, <2>3 DEF ReadsCome, PayloadsCome, Fresh, readvars
  <2> QED
    BY <1>a, <2>3, <2>4 DEF MissInv
<1>10. ASSUME NEW id \in pending, ReceiveReply(id)
       PROVE  MissInv'
  <2>1. \A s \in Threads : pc'[s] = IF pc[s] = "wait_read" THEN "read_woken" ELSE pc[s]
    BY <1>10 DEF ReceiveReply, Wake
  <2>2. /\ UNCHANGED <<job_queue, next, asks, payvars, read, pd>>
        /\ pending' = pending \ {id} /\ replies' = replies \cup {id}
    BY <1>10 DEF ReceiveReply, jobvars
  <2>3. SameAskers /\ SameThreads
    BY <2>1, <2>2 DEF Askers
  <2>4. ReadsCome' /\ PayloadsCome'
    BY <1>b, <2>1, <2>2, <2>3 DEF ReadsCome, PayloadsCome, payvars
  <2> QED
    BY <1>a, <1>c, <2>2, <2>3, <2>4 DEF MissInv
<1>11. CASE UNCHANGED vars
  BY <1>11, <1>b, <1>c DEF vars, jobvars, payvars, readvars, MissInv, Askers, ReadsCome,
                           PayloadsCome
<1> QED
  BY <1>1, <1>2, <1>3, <1>4, <1>5, <1>6, <1>7, <1>8, <1>9, <1>10, <1>11
     DEF Next, ThreadStep, GetJob

\* For any number of threads: one that waits for a job has one coming, however
\* many others take what is queued; one that waits for a table read has its
\* answer coming although all reads share one event; and one that has looked
\* for its payload waits only while that has not come.  Of the wait before the
\* look (HAL.cpp, line 158) the same is said for the only thread of a core, and
\* is false of several.
THEOREM NothingMissedHolds == Spec => []NothingMissed
<1>1. MissInv => NothingMissed
  BY DEF MissInv, NothingMissed, Askers, ReadsCome, PayloadsCome
<1> QED
  BY LockInit, LockNext, OnePlaceInit, OnePlaceNext, MissInit, MissNext, <1>1,
     PTL DEF Spec
===============================================================================
