------------------------ MODULE ReorderController_proof ------------------------
(***************************************************************************)
(* Proofs about ReorderController with one cluster scheduler, for any set  *)
(* of packets and any contexts but 0 and 1 together.                       *)
(***************************************************************************)
EXTENDS ReorderController, TLAPS

(* Appending to the packets sent adds one id to the delivered ones.        *)
LEMMA AppendDelivers ==
  ASSUME NEW s \in Seq(Ids), NEW id \in Ids
  PROVE  /\ Append(s, id) \in Seq(Ids)
         /\ Len(Append(s, id)) = Len(s) + 1
         /\ \A i \in 1..Len(s) : Append(s, id)[i] = s[i]
         /\ Append(s, id)[Len(s) + 1] = id
         /\ {Append(s, id)[i] : i \in 1..Len(Append(s, id))}
              = {s[i] : i \in 1..Len(s)} \cup {id}
<1>1. /\ Append(s, id) \in Seq(Ids)
      /\ Len(Append(s, id)) = Len(s) + 1
      /\ \A i \in 1..Len(s) : Append(s, id)[i] = s[i]
      /\ Append(s, id)[Len(s) + 1] = id
  OBVIOUS
<1>2. 1..(Len(s) + 1) = 1..Len(s) \cup {Len(s) + 1}
  OBVIOUS
<1> QED BY <1>1, <1>2

(* A queue has at most one top. *)
LEMMA TopUnique ==
  ASSUME NEW S \in SUBSET Ids, NEW a, NEW b, IsTop(a, S), IsTop(b, S)
  PROVE  a = b
BY ReorderAssumption DEF IsTop

-------------------------------------------------------------------------------
(* Types, whatever clusters there are and in whatever order they announce. *)

(* What a message from outside changes.                                    *)
LEMMA MessageTypes ==
  ASSUME TypeOK, NEW id \in Ids, Register(id) \/ Arrive(id)
  PROVE  TypeOK'
<1> USE ReorderAssumption DEF TypeOK
<1>1. CASE Register(id) BY <1>1 DEF Register
<1>2. CASE Arrive(id)
  <2>1. packet_reorder' \in [Contexts -> SUBSET Ids] BY <1>2 DEF Arrive
  <2>2. pd_flags' \in [Contexts -> BOOLEAN] BY <1>2 DEF Arrive
  <2>3. pc' \in {"scan", "put", "delay", "wait"} /\ pos' \in Contexts
    BY <1>2 DEF Arrive, Contexts
  <2>4. /\ arrived' \in SUBSET Ids
        /\ UNCHANGED <<packet_order, held, registered, sent>>
    BY <1>2 DEF Arrive
  <2> QED BY <2>1, <2>2, <2>3, <2>4
<1> QED BY <1>1, <1>2

(* What the sending thread changes.                                        *)
LEMMA ThreadTypes ==
  ASSUME TypeOK, Thread
  PROVE  TypeOK'
<1> USE ReorderAssumption DEF TypeOK, queues
<1>1. CASE ScanSend BY <1>1 DEF ScanSend, Index, Contexts
<1>2. CASE ScanClear BY <1>2 DEF ScanClear
<1>3. CASE ScanNext BY <1>3 DEF ScanNext, Contexts
<1>4. CASE Put
  <2>1. ContextOf[held] \in Contexts /\ held \in Ids
    BY ReorderAssumption
  <2>2. Append(sent[ContextOf[held]], held) \in Seq(Ids)
    BY <2>1, AppendDelivers
  <2> QED BY <1>4, <2>1, <2>2 DEF Put
<1>5. CASE Pop
  <2>1. Index \in Contexts BY DEF Index, Contexts
  <2>2. \A queue \in SUBSET Ids : Popped(queue) \subseteq SUBSET Ids
    BY DEF Popped
  <2>3. packet_order' \in [Contexts -> SUBSET Ids]
    <3>1. PICK order \in Popped(packet_order[Index]) :
             packet_order' = [packet_order EXCEPT ![Index] = order]
      BY <1>5 DEF Pop
    <3>2. order \in SUBSET Ids
      BY <2>1, <2>2
    <3> QED BY <3>1, <3>2
  <2>4. packet_reorder' \in [Contexts -> SUBSET Ids]
    <3>1. PICK back \in Popped(packet_reorder[Index]) :
             packet_reorder' = [packet_reorder EXCEPT ![Index] = back]
      BY <1>5 DEF Pop
    <3>2. back \in SUBSET Ids
      BY <2>1, <2>2
    <3> QED BY <3>1, <3>2
  <2> QED BY <1>5, <2>3, <2>4 DEF Pop
<1> QED BY <1>1, <1>2, <1>3, <1>4, <1>5 DEF Thread

(* Type correctness: the scan stays within the contexts and the queues     *)
(* hold announced ids only, for any clusters and contexts.                 *)
THEOREM TypeCorrect == Spec => []TypeOK
<1>1. Init => TypeOK
  BY ReorderAssumption DEF Init, TypeOK, Contexts
<1>2. TypeOK /\ [Next]_vars => TypeOK'
  <2> SUFFICES ASSUME TypeOK, [Next]_vars PROVE TypeOK'
    OBVIOUS
  <2>1. CASE UNCHANGED vars BY <2>1 DEF vars, queues, TypeOK
  <2>2. CASE Next BY <2>2, MessageTypes, ThreadTypes DEF Next
  <2> QED BY <2>1, <2>2
<1> QED BY <1>1, <1>2, PTL DEF Spec

-------------------------------------------------------------------------------
(* Nothing announced, nothing back: OrderInv holds.                        *)
LEMMA InitOrderInv == Init => OrderInv
<1> SUFFICES ASSUME Init PROVE OrderInv
  OBVIOUS
<1> USE ReorderAssumption DEF Init
<1>0. \A c \in Contexts : Delivered(c) = {}
  BY DEF Delivered
<1>1. TypeOK BY DEF TypeOK, Contexts
<1>2. AnnouncedInOrder BY DEF AnnouncedInOrder
<1>3. QueuesTrack BY <1>0 DEF QueuesTrack, Pending, Popping
<1>4. HeldOnTop BY DEF HeldOnTop
<1>5. SentFirst BY <1>0 DEF SentFirst
<1>6. InOrder BY DEF InOrder
<1>7. IndexKept BY DEF IndexKept, Contexts
<1> QED BY <1>1, <1>2, <1>3, <1>4, <1>5, <1>6, <1>7 DEF OrderInv

(* What the pops are made on: pos and flags give the index away, so long   *)
(* as no packet of context 1 comes back while one of context 0 is put.     *)
LEMMA NextIndexKept ==
  ASSUME Unmixed, OrderInv, [Next]_vars
  PROVE  IndexKept'
<1>0. 0 \in Contexts /\ 1 \in Contexts /\ NumContexts \in Nat
  BY ReorderAssumption DEF Contexts
<1>00. pd_flags \in [Contexts -> BOOLEAN] /\ pos \in Contexts /\ pos \in Nat
  BY ReorderAssumption DEF OrderInv, TypeOK, Contexts
<1> USE <1>0, <1>00 DEF IndexKept, OrderInv, queues
<1>1. CASE UNCHANGED vars
  BY <1>1 DEF vars, Index
<1>2. ASSUME NEW n \in Ids, Register(n) PROVE IndexKept'
  BY <1>2 DEF Register, Index
<1>3. ASSUME NEW n \in Ids, Arrive(n) PROVE IndexKept'
  <2> DEFINE k == ContextOf[n]
  <2>1. k \in Contexts
    BY ReorderAssumption
  <2>2. \A c \in Contexts : c # k => pd_flags'[c] = pd_flags[c]
    BY <1>3, <2>1 DEF Arrive
  <2>3. \A c \in Contexts : pd_flags[c] => pd_flags'[c]
    BY <1>3, <2>1 DEF Arrive
  <2>4. CASE pc' = "wait"
    BY <1>3, <2>4 DEF Arrive, Blocked
  <2>5. CASE pc' = "scan"
    BY <1>3, <2>5 DEF Arrive, Blocked
  <2>6. CASE pc' \in {"put", "delay"}
    <3>1. pc = pc' /\ pos' = pos /\ held' = held
      BY <1>3, <2>6 DEF Arrive
    <3>2. Index = ContextOf[held] /\ pd_flags[Index] /\ pos =< 1
      BY <2>6, <3>1
    <3>3. pd_flags'[pos] = pd_flags[pos]
      <4>1. CASE pd_flags[pos]
        BY <2>3, <4>1 DEF TypeOK
      <4>2. CASE ~pd_flags[pos]
        <5>1. ContextOf[held] = 0 /\ pos = 1
          BY <3>2, <4>2 DEF Index
        <5>2. k # 1
          BY <5>1 DEF Unmixed, TypeOK
        <5> QED BY <2>2, <5>1, <5>2
      <4> QED BY <4>1, <4>2
    <3>4. Index' = Index
      BY <3>1, <3>3 DEF Index
    <3>5. pd_flags'[Index]
      BY <2>3, <3>2 DEF Index
    <3> QED BY <2>6, <3>1, <3>2, <3>4, <3>5
  <2> QED BY <1>3, <2>4, <2>5, <2>6 DEF Arrive, Blocked
<1>4. CASE ScanSend
  <2>1. PICK id \in packet_reorder[Index] : held' = id
    BY <1>4 DEF ScanSend
  <2>2. Index \in Contexts
    BY DEF Index
  <2>3. ContextOf[id] = Index
    <3>1. ~Popping(Index)
      BY <1>4 DEF ScanSend, Popping
    <3>2. /\ packet_reorder[Index] = packet_order[Index] \cap arrived
          /\ packet_order[Index] = Pending(Index) \cup {i \in {held} : Popping(Index)}
      BY <2>2 DEF QueuesTrack
    <3>3. id \in Pending(Index)
      BY <3>1, <3>2
    <3> QED BY <3>3 DEF Pending
  <2>4. pd_flags[Index] /\ pc' = "put" /\ UNCHANGED <<pd_flags, pos>>
    BY <1>4 DEF ScanSend
  <2>5. pos =< 1
    BY <2>4 DEF Index
  <2>6. Index' = Index
    BY <2>4 DEF Index
  <2> QED BY <2>1, <2>3, <2>4, <2>5, <2>6
<1>5. CASE ScanClear
  <2>1. pd_flags' = [pd_flags EXCEPT ![Index] = FALSE] /\ Index \in {0, 1}
    BY <1>5 DEF ScanClear, Index
  <2> QED BY <1>5, <2>1 DEF ScanClear
<1>6. CASE ScanNext
  <2>1. CASE pos < 1
    BY <1>6, <2>1, ReorderAssumption DEF ScanNext
  <2>2. CASE pos >= 1
    <3>1. ~pd_flags[0] /\ ~pd_flags[1]
      BY <1>6, <2>2 DEF ScanNext, Index
    <3> QED BY <1>6, <3>1 DEF ScanNext
  <2> QED BY <2>1, <2>2
<1>7. CASE Put
  BY <1>7 DEF Put, Index
<1>8. CASE Pop
  BY <1>8 DEF Pop
<1> QED BY <1>1, <1>2, <1>3, <1>4, <1>5, <1>6, <1>7, <1>8 DEF Next, Thread

(* An announcement has a larger id than all before it, so it changes the   *)
(* top of no queue that has one.                                           *)
LEMMA RegisterOrderInv ==
  ASSUME SingleCluster, OrderInv, IndexKept', NEW n \in Ids, Register(n)
  PROVE  OrderInv'
<1> USE ReorderAssumption DEF OrderInv, Register
<1>0. /\ \A c \in Contexts : Delivered(c)' = Delivered(c)
      /\ \A j \in registered : j < n
  <2>1. \A c \in Contexts : Delivered(c)' = Delivered(c)
    BY DEF Delivered
  <2>2. \A j \in registered : j < n
    BY DEF AnnouncedInOrder, TypeOK
  <2> QED BY <2>1, <2>2
<1>1. TypeOK' BY DEF TypeOK
<1>2. AnnouncedInOrder' BY DEF AnnouncedInOrder, SingleCluster, TypeOK
<1>3. n \notin arrived /\ \A c \in Contexts : n \notin Delivered(c)
  BY DEF QueuesTrack
<1>4. \A c \in Contexts :
         Pending(c)' = Pending(c) \cup {id \in {n} : ContextOf[n] = c}
  BY <1>0, <1>3 DEF Pending
<1>5. QueuesTrack'
  <2> SUFFICES ASSUME NEW c \in Contexts
               PROVE  /\ packet_order'[c] = Pending(c)' \cup {id \in {held} : Popping(c)'}
                      /\ packet_reorder'[c] = packet_order'[c] \cap arrived'
                      /\ Delivered(c)' \subseteq {id \in arrived' : ContextOf[id] = c}
    BY DEF QueuesTrack
  <2>1. packet_order'[c] = packet_order[c] \cup {id \in {n} : ContextOf[n] = c}
    BY DEF TypeOK
  <2>2. Popping(c)' = Popping(c)
    BY DEF Popping
  <2> QED BY <1>0, <1>3, <1>4, <2>1, <2>2 DEF QueuesTrack, TypeOK
<1>6. HeldOnTop'
  <2> SUFFICES ASSUME pc \in {"put", "delay"} PROVE HeldOnTop'
    BY DEF HeldOnTop
  <2>1. ContextOf[held] \in Contexts /\ held \in Ids
    BY DEF TypeOK
  <2>2. /\ packet_order'[ContextOf[held]] \subseteq packet_order[ContextOf[held]] \cup {n}
        /\ held \in packet_order'[ContextOf[held]]
        /\ \A j \in packet_order[ContextOf[held]] : held =< j
    BY <2>1 DEF TypeOK, HeldOnTop, IsTop
  <2>3. held \in registered
    BY <2>1 DEF HeldOnTop, QueuesTrack
  <2>4. held =< n
    <3>1. held \in Nat /\ n \in Nat /\ held < n
      BY <1>0, <2>1, <2>3
    <3> QED BY <3>1
  <2>5. IsTop(held, packet_order'[ContextOf[held]])
    BY <2>2, <2>4 DEF IsTop
  <2> QED BY <1>0, <1>4, <2>1, <2>5 DEF HeldOnTop
<1>7. SentFirst'
  <2> SUFFICES ASSUME NEW c \in Contexts, NEW i \in Delivered(c),
                      NEW j \in Pending(c) \cup {n}
               PROVE  i < j
    BY <1>0, <1>4 DEF SentFirst
  <2>1. i \in registered
    BY DEF QueuesTrack
  <2> QED BY <1>0, <2>1 DEF SentFirst
<1>8. InOrder' BY DEF InOrder
<1> QED BY <1>1, <1>2, <1>5, <1>6, <1>7, <1>8

(* A packet that comes back joins a queue that already announced it.       *)
LEMMA ArriveOrderInv ==
  ASSUME OrderInv, IndexKept', NEW n \in Ids, Arrive(n)
  PROVE  OrderInv'
<1> USE ReorderAssumption DEF OrderInv, Arrive
<1>0. \A c \in Contexts : Delivered(c)' = Delivered(c) /\ Pending(c)' = Pending(c)
  BY DEF Delivered, Pending
<1>1. TypeOK' BY SMTT(60) DEF TypeOK, Contexts
<1>2. AnnouncedInOrder' BY DEF AnnouncedInOrder
<1>3. /\ ContextOf[n] \in Contexts
      /\ n \in packet_order[ContextOf[n]]
      /\ \A c \in Contexts : c # ContextOf[n] => n \notin packet_order[c]
  BY DEF QueuesTrack, Pending, HeldOnTop, Popping, TypeOK
<1>4. \A c \in Contexts : Popping(c)' = Popping(c)
  BY DEF Popping, Blocked
<1>5. QueuesTrack'
  <2> SUFFICES ASSUME NEW c \in Contexts
               PROVE  /\ packet_order'[c] = Pending(c)' \cup {id \in {held} : Popping(c)'}
                      /\ packet_reorder'[c] = packet_order'[c] \cap arrived'
                      /\ Delivered(c)' \subseteq {id \in arrived' : ContextOf[id] = c}
    BY DEF QueuesTrack
  <2>1. packet_reorder'[c] = packet_reorder[c] \cup {id \in {n} : ContextOf[n] = c}
    BY DEF TypeOK
  <2> QED BY <1>0, <1>3, <1>4, <2>1 DEF QueuesTrack, TypeOK
<1>6. HeldOnTop'
  BY <1>0 DEF HeldOnTop, Blocked, TypeOK
<1>7. SentFirst' BY <1>0 DEF SentFirst
<1>8. InOrder' BY DEF InOrder
<1> QED BY <1>1, <1>2, <1>5, <1>6, <1>7, <1>8

(* What the thread decides to put is on top of both queues.                *)
LEMMA ScanSendOrderInv ==
  ASSUME OrderInv, IndexKept', ScanSend
  PROVE  OrderInv'
<1> USE ReorderAssumption DEF OrderInv, ScanSend, queues
<1>0. \A c \in Contexts : Delivered(c)' = Delivered(c) /\ Pending(c)' = Pending(c)
  BY DEF Delivered, Pending
<1>1. PICK id \in packet_reorder[Index] :
         /\ IsTop(id, packet_reorder[Index])
         /\ IsTop(id, packet_order[Index])
         /\ held' = id
  OBVIOUS
<1>2. Index \in Contexts
  BY DEF Index, Contexts
<1>3. id \in Ids
  BY <1>1, <1>2 DEF TypeOK
<1>4. TypeOK' BY <1>1, <1>2, <1>3 DEF TypeOK
<1>5. AnnouncedInOrder' BY DEF AnnouncedInOrder
<1>6. \A c \in Contexts : ~Popping(c) /\ ~Popping(c)'
  BY DEF Popping
<1>7. QueuesTrack' BY <1>0, <1>6 DEF QueuesTrack
<1>8. id \in Pending(Index) /\ ContextOf[id] = Index
  BY <1>1, <1>2, <1>6 DEF QueuesTrack, IsTop, Pending
<1>9. HeldOnTop'
  BY <1>0, <1>1, <1>2, <1>8 DEF HeldOnTop
<1>10. SentFirst' BY <1>0 DEF SentFirst
<1>11. InOrder' BY DEF InOrder
<1> QED BY <1>4, <1>5, <1>7, <1>9, <1>10, <1>11

(* Clearing a flag and moving on leave the queues alone.                   *)
LEMMA ScanOnOrderInv ==
  ASSUME OrderInv, IndexKept', ScanClear \/ ScanNext
  PROVE  OrderInv'
<1> USE ReorderAssumption DEF OrderInv, ScanClear, ScanNext
<1>0. /\ \A c \in Contexts : Delivered(c)' = Delivered(c) /\ Pending(c)' = Pending(c)
      /\ pc' \in {"scan", "wait"} /\ pc = "scan"
      /\ UNCHANGED <<queues, held, registered, arrived, sent>>
  BY DEF Delivered, Pending
<1>1. TypeOK'
  <2>1. pd_flags' \in [Contexts -> BOOLEAN]
    BY DEF TypeOK
  <2>2. pos' \in Contexts
    BY DEF TypeOK, Contexts
  <2> QED BY <1>0, <2>1, <2>2 DEF TypeOK, queues
<1>2. AnnouncedInOrder' BY DEF AnnouncedInOrder
<1>3. QueuesTrack' BY <1>0 DEF QueuesTrack, Popping, queues
<1>4. HeldOnTop' BY <1>0 DEF HeldOnTop
<1>5. SentFirst' BY <1>0 DEF SentFirst
<1>6. InOrder' BY DEF InOrder
<1> QED BY <1>1, <1>2, <1>3, <1>4, <1>5, <1>6

(* The packet put is the first of those not delivered yet.                 *)
LEMMA PutOrderInv ==
  ASSUME OrderInv, IndexKept', Put
  PROVE  OrderInv'
<1> DEFINE h == ContextOf[held]
           n == held
<1> USE ReorderAssumption DEF OrderInv, Put, queues
<1>0. /\ h \in Contexts /\ n \in Ids
      /\ sent[h] \in Seq(Ids)
      /\ sent'[h] = Append(sent[h], n)
      /\ \A c \in Contexts : c # h => sent'[c] = sent[c]
  BY DEF TypeOK
<1>1. /\ sent'[h] \in Seq(Ids)
      /\ Len(sent'[h]) = Len(sent[h]) + 1
      /\ \A i \in 1..Len(sent[h]) : sent'[h][i] = sent[h][i]
      /\ sent'[h][Len(sent[h]) + 1] = n
      /\ Delivered(h)' = Delivered(h) \cup {n}
  BY <1>0, AppendDelivers DEF Delivered
<1>2. \A c \in Contexts : c # h => Delivered(c)' = Delivered(c)
  BY <1>0 DEF Delivered
<1>3. \A c \in Contexts : ~Popping(c) /\ (Popping(c)' <=> c = h)
  BY DEF Popping
<1>4. /\ n \in Pending(h) /\ n \in arrived
      /\ \A j \in Pending(h) : n =< j
  BY <1>0, <1>3 DEF HeldOnTop, QueuesTrack, IsTop
<1>5. \A c \in Contexts : Pending(c)' = IF c = h THEN Pending(c) \ {n} ELSE Pending(c)
  BY <1>1, <1>2 DEF Pending
<1>6. TypeOK'
  BY <1>0, <1>1 DEF TypeOK
<1>7. AnnouncedInOrder' BY DEF AnnouncedInOrder
<1>8. QueuesTrack'
  <2> SUFFICES ASSUME NEW c \in Contexts
               PROVE  /\ packet_order'[c] = Pending(c)' \cup {id \in {held'} : Popping(c)'}
                      /\ packet_reorder'[c] = packet_order'[c] \cap arrived'
                      /\ Delivered(c)' \subseteq {id \in arrived' : ContextOf[id] = c}
    BY DEF QueuesTrack
  <2>1. ContextOf[n] = h
    BY <1>4 DEF Pending
  <2>2. CASE c = h
    BY <1>1, <1>3, <1>4, <1>5, <2>1, <2>2 DEF QueuesTrack
  <2>3. CASE c # h
    BY <1>2, <1>3, <1>5, <2>3 DEF QueuesTrack
  <2> QED BY <2>2, <2>3
<1>9. HeldOnTop'
  BY <1>1 DEF HeldOnTop
<1>10. SentFirst'
  <2> SUFFICES ASSUME NEW c \in Contexts, NEW i \in Delivered(c)', NEW j \in Pending(c)'
               PROVE  i < j
    BY DEF SentFirst
  <2>1. CASE c = h /\ i = n
    <3>1. j \in Pending(h) /\ j # n
      BY <1>5, <2>1
    <3>2. j \in Nat /\ n \in Nat
      BY <1>0, <3>1 DEF Pending, TypeOK
    <3> QED BY <1>4, <2>1, <3>1, <3>2
  <2>2. CASE ~(c = h /\ i = n)
    BY <1>1, <1>2, <1>5, <2>2 DEF SentFirst
  <2> QED BY <2>1, <2>2
<1>11. InOrder'
  <2> SUFFICES ASSUME NEW c \in Contexts,
                      NEW i \in 1..Len(sent'[c]), NEW j \in 1..Len(sent'[c]), i < j
               PROVE  sent'[c][i] < sent'[c][j]
    BY DEF InOrder
  <2>1. CASE c # h
    BY <1>0, <2>1 DEF InOrder
  <2>2. CASE c = h /\ j \in 1..Len(sent[h])
    BY <1>0, <1>1, <2>2 DEF InOrder
  <2>3. CASE c = h /\ j = Len(sent[h]) + 1
    <3>1. i \in 1..Len(sent[h])
      BY <1>0, <1>1, <2>3
    <3>2. sent[h][i] \in Delivered(h)
      BY <3>1 DEF Delivered
    <3> QED BY <1>0, <1>1, <1>4, <2>3, <3>1, <3>2 DEF SentFirst
  <2> QED BY <1>0, <1>1, <2>1, <2>2, <2>3
<1> QED BY <1>6, <1>7, <1>8, <1>9, <1>10, <1>11

(* Both pops take the packet that was sent, because Index is still its     *)
(* context, and nothing that came during the put or the delay is smaller.  *)
LEMMA PopOrderInv ==
  ASSUME OrderInv, IndexKept', Pop
  PROVE  OrderInv'
<1> DEFINE h == ContextOf[held]
           n == held
<1> USE ReorderAssumption DEF OrderInv, Pop
<1>0. \A c \in Contexts : Delivered(c)' = Delivered(c) /\ Pending(c)' = Pending(c)
  BY DEF Delivered, Pending
<1>1. /\ h \in Contexts /\ n \in Ids
      /\ packet_order[h] \in SUBSET Ids /\ packet_reorder[h] \in SUBSET Ids
  BY DEF TypeOK
<1>2. IsTop(n, packet_order[h]) /\ IsTop(n, packet_reorder[h])
  BY <1>1 DEF HeldOnTop, QueuesTrack, IsTop
<1>21. ASSUME NEW queue \in SUBSET Ids, IsTop(n, queue)
       PROVE  Popped(queue) = {queue \ {n}}
  <2>1. queue # {} /\ \A id \in queue : IsTop(id, queue) <=> id = n
    BY <1>21, TopUnique DEF IsTop
  <2>2. {id \in queue : ~IsTop(id, queue)} = queue \ {n}
    BY <2>1
  <2> QED BY <2>1, <2>2 DEF Popped
<1>22. Index = h
  BY DEF IndexKept
<1>3. packet_order' = [packet_order EXCEPT ![h] = @ \ {n}]
  <2>1. Popped(packet_order[h]) = {packet_order[h] \ {n}}
    BY <1>1, <1>2, <1>21
  <2> QED BY <1>22, <2>1
<1>4. packet_reorder' = [packet_reorder EXCEPT ![h] = @ \ {n}]
  <2>1. Popped(packet_reorder[h]) = {packet_reorder[h] \ {n}}
    BY <1>1, <1>2, <1>21
  <2> QED BY <1>22, <2>1
<1>5. TypeOK' BY <1>3, <1>4 DEF TypeOK
<1>6. AnnouncedInOrder' BY DEF AnnouncedInOrder
<1>7. QueuesTrack'
  <2> SUFFICES ASSUME NEW c \in Contexts
               PROVE  /\ packet_order'[c] = Pending(c)' \cup {id \in {held'} : Popping(c)'}
                      /\ packet_reorder'[c] = packet_order'[c] \cap arrived'
                      /\ Delivered(c)' \subseteq {id \in arrived' : ContextOf[id] = c}
    BY DEF QueuesTrack
  <2>1. ~Popping(c)' /\ (Popping(c) <=> c = h)
    BY DEF Popping
  <2>2. CASE c = h
    <3>1. n \notin Pending(h)
      BY DEF HeldOnTop, Pending
    <3> QED BY <1>0, <1>3, <1>4, <2>1, <2>2, <3>1 DEF QueuesTrack, TypeOK
  <2>3. CASE c # h
    BY <1>0, <1>3, <1>4, <2>1, <2>3 DEF QueuesTrack, TypeOK
  <2> QED BY <2>2, <2>3
<1>8. HeldOnTop' BY DEF HeldOnTop
<1>9. SentFirst' BY <1>0 DEF SentFirst
<1>10. InOrder' BY DEF InOrder
<1> QED BY <1>5, <1>6, <1>7, <1>8, <1>9, <1>10

-------------------------------------------------------------------------------
(* Every step preserves OrderInv when one cluster announces the packets    *)
(* and contexts 0 and 1 are not mixed.                                     *)
LEMMA NextOrderInv ==
  ASSUME SingleCluster, Unmixed, OrderInv, [Next]_vars
  PROVE  OrderInv'
<1>0. IndexKept'
  BY NextIndexKept
<1>1. CASE UNCHANGED vars
  <2>1. \A c \in Contexts : /\ Delivered(c)' = Delivered(c)
                            /\ Pending(c)' = Pending(c)
                            /\ Popping(c)' = Popping(c)
    BY <1>1 DEF vars, Delivered, Pending, Popping
  <2>2. TypeOK' /\ AnnouncedInOrder' /\ InOrder'
    BY <1>1 DEF vars, queues, OrderInv, TypeOK, AnnouncedInOrder, InOrder
  <2>3. QueuesTrack' /\ SentFirst'
    BY <1>1, <2>1 DEF vars, queues, OrderInv, QueuesTrack, SentFirst
  <2>4. HeldOnTop'
    <3>1. held \in Ids /\ ContextOf[held] \in Contexts
      BY ReorderAssumption DEF OrderInv, TypeOK
    <3> QED BY <1>1, <2>1, <3>1 DEF vars, queues, OrderInv, HeldOnTop
  <2> QED BY <1>0, <2>2, <2>3, <2>4 DEF OrderInv
<1>2. CASE Thread
  BY <1>0, <1>2, ScanSendOrderInv, ScanOnOrderInv, PutOrderInv, PopOrderInv DEF Thread
<1>3. ASSUME NEW id \in Ids, Register(id) \/ Arrive(id) PROVE OrderInv'
  BY <1>0, <1>3, RegisterOrderInv, ArriveOrderInv
<1> QED BY <1>1, <1>2, <1>3 DEF Next

(* The queues, the packet in flight and the packets delivered fit together *)
(* in every reachable state.                                               *)
THEOREM OrderInvariant == SingleCluster /\ Unmixed => (Spec => []OrderInv)
<1> SUFFICES ASSUME SingleCluster, Unmixed PROVE Spec => []OrderInv
  OBVIOUS
<1>1. Init => OrderInv BY InitOrderInv
<1>2. OrderInv /\ [Next]_vars => OrderInv' BY NextOrderInv
<1> QED BY <1>1, <1>2, PTL DEF Spec

(* The packets of a context reach the traffic manager in the order of      *)
(* their ids, none twice.                                                  *)
THEOREM InOrderHolds == SingleCluster /\ Unmixed => (Spec => []InOrder)
<1> SUFFICES ASSUME SingleCluster, Unmixed PROVE Spec => []InOrder
  OBVIOUS
<1>1. OrderInv => InOrder BY DEF OrderInv
<1>2. Spec => []OrderInv BY OrderInvariant
<1> QED BY <1>1, <1>2, PTL

(* No packet that came back from a core is dropped by the pops.            *)
THEOREM NothingLostHolds == SingleCluster /\ Unmixed => (Spec => []NothingLost)
<1> SUFFICES ASSUME SingleCluster, Unmixed PROVE Spec => []NothingLost
  OBVIOUS
<1>1. OrderInv => NothingLost
  BY ReorderAssumption
  DEF OrderInv, NothingLost, QueuesTrack, Pending, TypeOK
<1>2. Spec => []OrderInv BY OrderInvariant
<1> QED BY <1>1, <1>2, PTL

(* The controller neither reads the top of an empty queue nor pops one.    *)
THEOREM TopDefinedHolds == SingleCluster /\ Unmixed => (Spec => []TopDefined)
<1> SUFFICES ASSUME SingleCluster, Unmixed PROVE Spec => []TopDefined
  OBVIOUS
<1>1. OrderInv => TopDefined
  BY DEF OrderInv, TopDefined, QueuesTrack, HeldOnTop, IndexKept
<1>2. Spec => []OrderInv BY OrderInvariant
<1> QED BY <1>1, <1>2, PTL

-------------------------------------------------------------------------------
(* Wake-ups: the scan never sleeps on work it can do.                      *)

(* A queue becomes ready only when a packet comes back, which raises its   *)
(* flag, or when the thread pops it, with its flag still raised.           *)
LEMMA NextFlagsTell ==
  ASSUME OrderInv, OrderInv', FlagsTell, [Next]_vars
  PROVE  FlagsTell'
<1> USE ReorderAssumption DEF FlagsTell, queues
<1>1. CASE UNCHANGED vars
  BY <1>1 DEF vars, Ready, TopsAgree
<1>2. ASSUME NEW n \in Ids, Register(n) PROVE FlagsTell'
  <2> USE <1>2 DEF Register
  <2>1. ASSUME NEW c \in Contexts, Ready(c)' PROVE Ready(c)
    <3>1. PICK id \in packet_order'[c] :
             IsTop(id, packet_order'[c]) /\ IsTop(id, packet_reorder[c])
      BY <2>1 DEF Ready, TopsAgree
    <3>2. packet_order[c] \subseteq packet_order'[c]
      BY DEF OrderInv, TypeOK
    <3>3. id \in packet_order[c]
      BY <3>1 DEF IsTop, OrderInv, QueuesTrack
    <3>4. IsTop(id, packet_order[c])
      BY <3>1, <3>2, <3>3 DEF IsTop
    <3> QED BY <3>1, <3>3, <3>4 DEF Ready, TopsAgree
  <2> QED BY <2>1
<1>3. ASSUME NEW n \in Ids, Arrive(n) PROVE FlagsTell'
  <2> USE <1>3 DEF Arrive, Blocked
  <2> DEFINE k == ContextOf[n]
  <2>1. k \in Contexts
    OBVIOUS
  <2>2. \A c \in Contexts : pd_flags[c] => pd_flags'[c]
    BY <2>1 DEF OrderInv, TypeOK
  <2>3. Ready(k)' => pd_flags'[k]
    BY <2>1 DEF Ready, OrderInv, TypeOK
  <2>4. \A c \in Contexts \ {k} : Ready(c)' = Ready(c)
    BY <2>1 DEF Ready, OrderInv, TypeOK
  <2> QED BY <2>1, <2>2, <2>3, <2>4 DEF OrderInv, TypeOK
<1>4. CASE ScanSend
  BY <1>4 DEF ScanSend, Ready, TopsAgree
<1>5. CASE ScanClear
  <2>1. \A c \in Contexts : c # Index => pd_flags'[c] = pd_flags[c]
    BY <1>5 DEF ScanClear, OrderInv, TypeOK
  <2>2. \A c \in Contexts : Ready(c)' = Ready(c)
    BY <1>5 DEF ScanClear, Ready
  <2>3. ~Ready(Index) /\ pc' = "scan"
    BY <1>5 DEF ScanClear
  <2> QED BY <2>1, <2>2, <2>3
<1>6. CASE ScanNext
  BY <1>6 DEF ScanNext, Ready, TopsAgree
<1>7. CASE Put
  BY <1>7 DEF Put, Ready, TopsAgree
<1>8. CASE Pop
  <2>1. Index = ContextOf[held] /\ pd_flags[Index] /\ UNCHANGED pd_flags
    BY <1>8 DEF Pop, OrderInv, IndexKept
  <2>2. \A c \in Contexts : c # Index => Ready(c)' = Ready(c)
    BY <1>8 DEF Pop, Ready, OrderInv, TypeOK
  <2> QED BY <2>1, <2>2
<1> QED BY <1>1, <1>2, <1>3, <1>4, <1>5, <1>6, <1>7, <1>8 DEF Next, Thread

(* Only the flags of contexts in use are raised.                           *)
LEMMA NextFlagsLow ==
  ASSUME LowContexts, OrderInv, FlagsLow, [Next]_vars
  PROVE  FlagsLow'
<1>0. pd_flags \in [Contexts -> BOOLEAN]
  BY DEF OrderInv, TypeOK
<1> USE <1>0 DEF FlagsLow, queues
<1>1. CASE UNCHANGED vars
  BY <1>1 DEF vars
<1>2. ASSUME NEW n \in Ids, Register(n) PROVE FlagsLow'
  BY <1>2 DEF Register
<1>3. ASSUME NEW n \in Ids, Arrive(n) PROVE FlagsLow'
  <2>1. ContextOf[n] \in {0, 1}
    BY DEF LowContexts
  <2> QED BY <1>3, <2>1 DEF Arrive
<1>4. CASE ScanClear
  BY <1>4 DEF ScanClear
<1>5. CASE ScanSend \/ ScanNext \/ Put \/ Pop
  BY <1>5 DEF ScanSend, ScanNext, Put, Pop
<1> QED BY <1>1, <1>2, <1>3, <1>4, <1>5 DEF Next, Thread

(* The sending thread never sleeps while the next packet in order is back, *)
(* although bufferevent.notify() is lost whenever the thread is awake.     *)
THEOREM NoLostWakeupHolds ==
  SingleCluster /\ Unmixed /\ LowContexts => (Spec => []NoLostWakeup)
<1> SUFFICES ASSUME SingleCluster, Unmixed, LowContexts PROVE Spec => []NoLostWakeup
  OBVIOUS
<1>1. Init => WakeInv
  BY ReorderAssumption
  DEF Init, WakeInv, FlagsTell, FlagsLow, Ready, TopsAgree, Contexts
<1>2. OrderInv /\ OrderInv' /\ WakeInv /\ [Next]_vars => WakeInv'
  BY NextFlagsTell, NextFlagsLow DEF WakeInv
<1>3. OrderInv /\ WakeInv => NoLostWakeup
  <2> SUFFICES ASSUME OrderInv, WakeInv, pc = "wait", NEW c \in Contexts, Ready(c)
               PROVE  FALSE
    BY DEF NoLostWakeup
  <2>1. pd_flags[c] BY DEF WakeInv, FlagsTell
  <2> QED BY <2>1 DEF WakeInv, FlagsLow, OrderInv, IndexKept
<1>4. Spec => []OrderInv BY OrderInvariant
<1> QED BY <1>1, <1>2, <1>3, <1>4, PTL DEF Spec

-------------------------------------------------------------------------------
(* Each step of the controller is a step of OrderedDelivery or a stutter.  *)
LEMMA StepRefines ==
  ASSUME OrderInv, [Next]_vars
  PROVE  [Abstract!Next]_(Abstract!vars)
<1> USE ReorderAssumption DEF Abstract!vars, Abstract!Next, queues
<1>1. CASE UNCHANGED vars
  BY <1>1 DEF vars
<1>2. ASSUME NEW n \in Ids, Register(n) PROVE Abstract!Register(n)
  BY <1>2 DEF Register, Abstract!Register
<1>3. ASSUME NEW n \in Ids, Arrive(n) PROVE Abstract!Arrive(n)
  BY <1>3 DEF Arrive, Abstract!Arrive
<1>4. CASE ScanSend \/ ScanClear \/ ScanNext \/ Pop
  BY <1>4 DEF ScanSend, ScanClear, ScanNext, Pop
<1>5. CASE Put
  <2> DEFINE h == ContextOf[held]
             n == held
  <2>1. h \in Contexts /\ n \in Ids
    BY DEF OrderInv, TypeOK
  <2>2. n \in Pending(h) /\ packet_order[h] = Pending(h) /\ n \in arrived
    <3>1. ~Popping(h)
      BY <1>5 DEF Put, Popping
    <3>2. n \in Pending(h) /\ n \in packet_reorder[h]
      BY <1>5 DEF Put, OrderInv, HeldOnTop
    <3>3. packet_order[h] = Pending(h) \cup {id \in {held} : Popping(h)}
      BY <2>1 DEF OrderInv, QueuesTrack
    <3>4. n \in arrived
      BY <2>1, <3>2 DEF OrderInv, QueuesTrack
    <3> HIDE DEF h, n
    <3>5. packet_order[h] = Pending(h)
      BY <3>1, <3>3
    <3> QED BY <3>2, <3>4, <3>5
  <2>3. IsTop(n, packet_order[h])
    BY <1>5 DEF Put, OrderInv, HeldOnTop
  <2>4. h = ContextOf[n]
    BY <2>2 DEF Pending
  <2>5. \A c \in Contexts : Abstract!Delivered(c) = Delivered(c)
    BY DEF Abstract!Delivered, Delivered
  <2>6. Abstract!Deliver(n)
    BY <1>5, <2>1, <2>2, <2>3, <2>4, <2>5
    DEF Put, Abstract!Deliver, Pending, IsTop
  <2> QED BY <2>1, <2>6
<1> QED BY <1>1, <1>2, <1>3, <1>4, <1>5 DEF Next, Thread

(* With one cluster, and not both contexts 0 and 1 in use, the controller  *)
(* implements OrderedDelivery: each packet once, in order, after it has    *)
(* come back.                                                              *)
THEOREM Refinement == SingleCluster /\ Unmixed => (Spec => AbstractSpec)
<1> SUFFICES ASSUME SingleCluster, Unmixed PROVE Spec => AbstractSpec
  OBVIOUS
<1>1. Init => Abstract!Init
  BY DEF Init, Abstract!Init
<1>2. OrderInv /\ [Next]_vars => [Abstract!Next]_(Abstract!vars)
  BY StepRefines
<1>3. Spec => []OrderInv BY OrderInvariant
<1> QED BY <1>1, <1>2, <1>3, PTL DEF Spec, AbstractSpec, Abstract!Spec
===============================================================================
