-------------------------- MODULE PayloadStore_proof --------------------------
(***************************************************************************)
(* Two theorems about the way of the payloads, for any packets and cores:  *)
(* the deparser always has what it needs for the payloads that come to it  *)
(* and never sleeps on them, and every payload is in exactly one place.    *)
(*                                                                         *)
(* DeparserReady is not inductive: it needs that a header was kept for     *)
(* every request of the deparser from the moment it was sent, wherever the *)
(* request, its refusal or the payload is.  OnePayload counts places, and  *)
(* is proved from an invariant that names the one there is.                *)
(***************************************************************************)
EXTENDS PayloadStore, SequenceTheorems, FiniteSetTheorems, TLAPS

\* Where the splitter and a core name a packet there is one.
Named == /\ splitter \in {"asked", "stored"} => count # 0
         /\ \A k \in Cores : core[k].does = "runs" => core[k].id # 0

TypeInv == TypeOK /\ Named

\* The packets a queue of messages is about are all among `ids`.
About(queue, ids) == \A i \in 1 .. Len(queue) : queue[i].id \in ids

\* A header was kept for whatever the deparser and the memory tell each other,
\* and for the payloads that have come.
HeadersKept == /\ About(toMemory["deparser"], headers)
               /\ About(toDeparser, headers)
               /\ \A i \in 1 .. Len(memBuffer) : memBuffer[i] \in headers

\* The deparser sleeps on nothing, unless it is about to be woken.
Awake == service = "asleep" => event \/ (tmBuffer = <<>> /\ memBuffer = <<>>)

-----------------------------------------------------------------------------
\* Queues stay queues of what they are of.
LEMMA QueueTypes ==
  ASSUME NEW S, NEW s \in Seq(S)
  PROVE  /\ \A x \in S : Append(s, x) \in Seq(S)
         /\ s # <<>> => Head(s) \in S /\ Tail(s) \in Seq(S)
  BY HeadTailProperties

\* The messages that go to the memory are of those that may, and each is one of
\* a packet there is.
LEMMA MessageTypes == \A id \in Ids : Packet(id) \in Message /\ PD(id) \in Message
  BY DEF Packet, PD, Message

LEMMA SendTypes ==
  ASSUME TypeOK, NEW s \in Senders, NEW m \in Message, SendToMemory(s, m)
  PROVE  toMemory' \in [Senders -> Seq(Message)]
<1>1. Append(toMemory[s], m) \in Seq(Message)
  BY QueueTypes DEF TypeOK
<1> QED
  BY <1>1 DEF TypeOK, SendToMemory

LEMMA ReceiveTypes ==
  ASSUME TypeOK, NEW s \in Senders, NEW m, Receives(s, m)
  PROVE  toMemory' \in [Senders -> Seq(Message)]
<1>1. Tail(toMemory[s]) \in Seq(Message)
  BY QueueTypes DEF TypeOK, Receives
<1> QED
  BY <1>1 DEF TypeOK, Receives

LEMMA TypeInit == Init => TypeInv
<1> SUFFICES ASSUME Init PROVE TypeInv
  OBVIOUS
<1>1. /\ \A S : <<>> \in Seq(S)
      /\ 0 \in 0 .. PacketCount
  BY StoreAssumption, EmptySeq
<1> QED
  BY <1>1 DEF Init, TypeInv, TypeOK, Named

LEMMA TypeNext == TypeInv /\ [Next]_vars => TypeInv'
<1> SUFFICES ASSUME TypeInv, [Next]_vars PROVE TypeInv'
  OBVIOUS
<1> USE DEF TypeInv, ordervars
<1> PacketCount \in Nat
  BY StoreAssumption
<1>1. CASE SplitterStart
  BY <1>1 DEF SplitterStart, TypeOK, Named, parservars, backvars
<1>2. CASE SplitterGet
  BY <1>2 DEF SplitterGet, hasNext, getNext, TypeOK, Named, parservars, backvars
<1>3. CASE SplitterStore
  <2>1. "splitter" \in Senders /\ count \in Ids
    BY <1>3 DEF SplitterStore, Senders, TypeOK, Named, Ids
  <2>2. toMemory' \in [Senders -> Seq(Message)]
    BY <1>3, <2>1, SendTypes, MessageTypes DEF SplitterStore
  <2> QED
    BY <1>3, <2>2 DEF SplitterStore, TypeOK, Named, parservars, backvars
<1>4. CASE SplitterForward
  <2>1. Append(toParser, count) \in Seq(Ids)
    <3>1. count \in Ids
      BY <1>4 DEF SplitterForward, TypeOK, Named, Ids
    <3> QED
      BY <3>1, QueueTypes DEF TypeOK
  <2> QED
    BY <1>4, <2>1 DEF SplitterForward, TypeOK, Named, backvars
<1>5. CASE ParserGet
  <2>1. Head(toParser) \in Ids /\ Tail(toParser) \in Seq(Ids)
    BY <1>5, QueueTypes DEF ParserGet, TypeOK
  <2> QED
    BY <1>5, <2>1 DEF ParserGet, TypeOK, Named, backvars
<1>6. CASE ParserPut
  <2>1. parser \in Ids /\ Append(given, parser) \in Seq(Ids)
    BY <1>6, QueueTypes DEF ParserPut, TypeOK
  <2> QED
    BY <1>6, <2>1 DEF ParserPut, drop, TypeOK, Named, backvars
<1>7. ASSUME NEW k \in Cores, CoreRequest(k)
      PROVE  TypeInv'
  <2>1. k \in Senders /\ Head(given) \in Ids /\ Tail(given) \in Seq(Ids)
    BY <1>7, QueueTypes DEF CoreRequest, Senders, TypeOK
  <2>2. toMemory' \in [Senders -> Seq(Message)]
    BY <1>7, <2>1, SendTypes, MessageTypes DEF CoreRequest
  <2> QED
    BY <1>7, <2>1, <2>2 DEF CoreRequest, TypeOK, Named, parservars, backvars
<1>8. ASSUME NEW k \in Cores, CoreReceive(k)
      PROVE  TypeInv'
  <2>1. core[k].id \in Ids
    BY <1>8 DEF CoreReceive, TypeOK
  <2>2. core' \in [Cores -> [does : {"idle", "waits", "runs"}, id : Ids \cup {0}]]
    BY <1>8 DEF CoreReceive, TypeOK
  <2>3. Named'
    BY <1>8, <2>1 DEF CoreReceive, TypeOK, Named, frontvars, Ids
  <2> QED
    BY <1>8, <2>2, <2>3 DEF CoreReceive, TypeOK, frontvars, parservars, backvars
<1>9. ASSUME NEW k \in Cores, CoreFinish(k)
      PROVE  TypeInv'
  <2>1. k \in Senders /\ core[k].id \in Ids
    BY <1>9 DEF CoreFinish, Senders, TypeOK, Named
  <2>2. toMemory' \in [Senders -> Seq(Message)]
    BY <1>9, <2>1, SendTypes, MessageTypes DEF CoreFinish
  <2>3. core' \in [Cores -> [does : {"idle", "waits", "runs"}, id : Ids \cup {0}]]
    BY <1>9 DEF CoreFinish, TypeOK
  <2>4. Named'
    BY <1>9 DEF CoreFinish, TypeOK, Named, frontvars
  <2> QED
    BY <1>9, <2>1, <2>2, <2>3, <2>4
       DEF CoreFinish, TypeOK, frontvars, parservars, backvars
<1>10. ASSUME NEW s \in Senders, NEW id \in Ids, MemoryStore(s, id)
       PROVE  TypeInv'
  <2>1. toMemory' \in [Senders -> Seq(Message)]
    BY <1>10, ReceiveTypes DEF MemoryStore
  <2> QED
    BY <1>10, <2>1 DEF MemoryStore, TypeOK, Named, frontvars, parservars, backvars
<1>11. ASSUME NEW k \in Cores, NEW id \in Ids, MemoryForCore(k, id)
       PROVE  TypeInv'
  <2>1. toMemory' \in [Senders -> Seq(Message)]
    BY <1>11, ReceiveTypes DEF MemoryForCore, Senders
  <2> QED
    BY <1>11, <2>1 DEF MemoryForCore, TypeOK, Named, frontvars, parservars, backvars
<1>12. ASSUME NEW id \in Ids, MemoryForDeparser(id)
       PROVE  TypeInv'
  <2>1. toMemory' \in [Senders -> Seq(Message)]
    BY <1>12, ReceiveTypes DEF MemoryForDeparser, Senders
  <2>2. toDeparser' \in Seq(Message)
    BY <1>12, QueueTypes, MessageTypes DEF MemoryForDeparser, TypeOK
  <2> QED
    BY <1>12, <2>1, <2>2
       DEF MemoryForDeparser, TypeOK, Named, frontvars, parservars, backvars
<1>13. ASSUME NEW id \in Ids, DeparserFromTM(id)
       PROVE  TypeInv'
  <2>1. Append(tmBuffer, id) \in Seq(Ids)
    BY QueueTypes DEF TypeOK
  <2>2. tmBuffer' = Append(tmBuffer, id) /\ memBuffer' = memBuffer
    BY <1>13 DEF DeparserFromTM, FileIt, PD
  <2> QED
    BY <1>13, <2>1, <2>2 DEF DeparserFromTM, TypeOK, Named, frontvars, parservars
<1>14. CASE DeparserFromMemory
  <2>1. Head(toDeparser) \in Message /\ toDeparser' \in Seq(Message)
    BY <1>14, QueueTypes DEF DeparserFromMemory, TypeOK
  <2>2. tmBuffer' \in Seq(Ids) /\ memBuffer' \in Seq(Ids)
    <3>1. Head(toDeparser).id \in Ids
      BY <2>1 DEF Message
    <3>2. /\ Append(tmBuffer, Head(toDeparser).id) \in Seq(Ids)
          /\ Append(memBuffer, Head(toDeparser).id) \in Seq(Ids)
      BY <3>1, QueueTypes DEF TypeOK
    <3> QED
      BY <1>14, <3>2 DEF DeparserFromMemory, FileIt, TypeOK
  <2> QED
    BY <1>14, <2>1, <2>2 DEF DeparserFromMemory, TypeOK, Named, frontvars, parservars
<1>15. CASE DeltaCycle
  BY <1>15 DEF DeltaCycle, TypeOK, Named, frontvars, parservars
<1>16. CASE DeparserFetch
  <2>1. Head(tmBuffer) \in Ids /\ tmBuffer' \in Seq(Ids)
    BY <1>16, QueueTypes DEF DeparserFetch, TypeOK
  <2>2. toMemory' \in [Senders -> Seq(Message)]
    BY <1>16, <2>1, SendTypes, MessageTypes DEF DeparserFetch, Senders
  <2> QED
    BY <1>16, <2>1, <2>2 DEF DeparserFetch, TypeOK, Named, frontvars, parservars
<1>17. CASE DeparserSend
  <2>1. Head(memBuffer) \in Ids /\ memBuffer' \in Seq(Ids)
    BY <1>17, QueueTypes DEF DeparserSend, TypeOK
  <2>2. egress' \in Seq(Ids)
    BY <1>17, <2>1, QueueTypes DEF DeparserSend, logPacket, TypeOK
  <2> QED
    BY <1>17, <2>1, <2>2 DEF DeparserSend, TypeOK, Named, frontvars, parservars
<1>18. CASE DeparserSleep
  BY <1>18 DEF DeparserSleep, TypeOK, Named, frontvars, parservars
<1>19. CASE ReorderSend
  <2>1. /\ announced' \in SUBSET Ids /\ back' \in SUBSET Ids /\ ordered' \in SUBSET Ids
        /\ UNCHANGED <<frontvars, toMemory, memory, core, replies, toDeparser, backvars>>
    BY <1>19 DEF ReorderSend, TypeOK
  <2> QED
    BY <2>1 DEF TypeOK, Named, frontvars, parservars, backvars
<1>20. CASE UNCHANGED vars
  BY <1>20 DEF vars, TypeOK, Named, frontvars, parservars, backvars
<1> QED
  BY <1>1, <1>2, <1>3, <1>4, <1>5, <1>6, <1>7, <1>8, <1>9, <1>10, <1>11, <1>12, <1>13,
     <1>14, <1>15, <1>16, <1>17, <1>18, <1>19, <1>20
     DEF Next, Splitter, Parser, CoreStep, MemoryTakes, Deparser

\* What the threads from splitter to deparser hold and send one another is
\* what they may, for any packets and cores.
THEOREM TypeCorrect == Spec => []TypeOK
<1>1. TypeInv => TypeOK
  BY DEF TypeInv
<1> QED
  BY TypeInit, TypeNext, <1>1, PTL DEF Spec
-----------------------------------------------------------------------------
\* A queue about some packets stays so when a message is taken, when one about
\* them is added, and when there are more of them.
LEMMA AboutTail ==
  ASSUME NEW queue \in Seq(Message), queue # <<>>, NEW ids, About(queue, ids)
  PROVE  Head(queue).id \in ids /\ About(Tail(queue), ids)
<1>1. Len(queue) \in Nat \ {0} /\ Head(queue) = queue[1]
  BY EmptySeq
<1>2. Head(queue).id \in ids
  BY <1>1 DEF About
<1>3. About(Tail(queue), ids)
  BY <1>1, HeadTailProperties DEF About
<1> QED
  BY <1>2, <1>3

LEMMA AboutAppend ==
  ASSUME NEW queue \in Seq(Message), NEW ids, About(queue, ids),
         NEW m \in Message, m.id \in ids
  PROVE  About(Append(queue, m), ids)
BY DEF About

LEMMA AboutMore ==
  ASSUME NEW queue, NEW ids, NEW more, ids \subseteq more, About(queue, ids)
  PROVE  About(queue, more)
BY DEF About

\* Other senders than the deparser leave its requests alone.
LEMMA OthersApart ==
  ASSUME TypeOK, NEW s \in Senders \ {"deparser"}, NEW m,
         SendToMemory(s, m) \/ Receives(s, m)
  PROVE  toMemory'["deparser"] = toMemory["deparser"]
BY DEF TypeOK, SendToMemory, Receives, Senders

LEMMA ReadyNext == TypeInv /\ HeadersKept /\ Awake /\ [Next]_vars => HeadersKept' /\ Awake'
<1> SUFFICES ASSUME TypeInv, HeadersKept, Awake, [Next]_vars
             PROVE  HeadersKept' /\ Awake'
  OBVIOUS
<1> TypeOK /\ "deparser" \in Senders
  BY DEF TypeInv, Senders
<1> DEFINE Same == /\ toMemory'["deparser"] = toMemory["deparser"]
                   /\ UNCHANGED <<toDeparser, backvars>>
<1>a. Same => HeadersKept' /\ Awake'
  BY DEF HeadersKept, Awake, backvars, About
<1>1. CASE Splitter
  <2>1. CASE SplitterStore
    <3>1. "splitter" \in Senders \ {"deparser"}
      BY DEF Senders
    <3> QED
      BY <1>a, <2>1, <3>1, OthersApart DEF SplitterStore
  <2> QED
    BY <1>1, <1>a, <2>1 DEF Splitter, SplitterStart, SplitterGet, SplitterForward
<1>2. CASE Parser
  BY <1>2, <1>a DEF Parser, ParserGet, ParserPut
<1>3. ASSUME NEW k \in Cores, CoreStep(k)
      PROVE  HeadersKept' /\ Awake'
  <2> k \in Senders \ {"deparser"}
    BY StoreAssumption DEF Senders
  <2>1. CASE CoreRequest(k)
    BY <1>a, <2>1, OthersApart DEF CoreRequest
  <2>2. CASE CoreReceive(k)
    BY <1>a, <2>2 DEF CoreReceive
  <2>3. CASE CoreFinish(k)
    BY <1>a, <2>3, OthersApart DEF CoreFinish
  <2> QED
    BY <1>3, <2>1, <2>2, <2>3 DEF CoreStep
<1>4. ASSUME NEW s \in Senders, NEW id \in Ids, MemoryStore(s, id)
      PROVE  HeadersKept' /\ Awake'
  <2>1. CASE s = "deparser"
    <3>1. About(toMemory'["deparser"], headers)
      BY <1>4, <2>1, AboutTail DEF MemoryStore, Receives, TypeOK, HeadersKept
    <3> QED
      BY <1>4, <3>1 DEF MemoryStore, HeadersKept, Awake, backvars
  <2>2. CASE s # "deparser"
    BY <1>4, <1>a, <2>2, OthersApart DEF MemoryStore
  <2> QED
    BY <2>1, <2>2
<1>5. ASSUME NEW k \in Cores, NEW id \in Ids, MemoryForCore(k, id)
      PROVE  HeadersKept' /\ Awake'
  <2> k \in Senders \ {"deparser"}
    BY StoreAssumption DEF Senders
  <2> QED
    BY <1>5, <1>a, OthersApart DEF MemoryForCore
<1>6. ASSUME NEW id \in Ids, MemoryForDeparser(id)
      PROVE  HeadersKept' /\ Awake'
  <2>1. id \in headers /\ About(toMemory'["deparser"], headers)
    BY <1>6, AboutTail DEF MemoryForDeparser, Receives, PD, TypeOK, HeadersKept
  <2>2. About(toDeparser', headers)
    <3>1. /\ Packet(id).id = id /\ PD(id).id = id
          /\ Packet(id) \in Message /\ PD(id) \in Message
      BY MessageTypes DEF Packet, PD
    <3> QED
      BY <1>6, <2>1, <3>1, AboutAppend DEF MemoryForDeparser, TypeOK, HeadersKept
  <2> QED
    BY <1>6, <2>1, <2>2 DEF MemoryForDeparser, HeadersKept, Awake, backvars
<1>7. ASSUME NEW id \in Ids, DeparserFromTM(id)
      PROVE  HeadersKept' /\ Awake'
  <2>1. memBuffer' = memBuffer
    BY <1>7 DEF DeparserFromTM, FileIt, PD
  <2> QED
    BY <1>7, <2>1 DEF DeparserFromTM, HeadersKept, Awake, About
<1>8. CASE DeparserFromMemory
  <2>1. Head(toDeparser).id \in headers /\ About(toDeparser', headers)
    BY <1>8, AboutTail DEF DeparserFromMemory, TypeOK, HeadersKept
  <2>2. \A i \in 1 .. Len(memBuffer') : memBuffer'[i] \in headers
    <3>1. memBuffer' = memBuffer \/ memBuffer' = Append(memBuffer, Head(toDeparser).id)
      BY <1>8 DEF DeparserFromMemory, FileIt
    <3>2. memBuffer \in Seq(Ids)
      BY DEF TypeOK
    <3> QED
      BY <2>1, <3>1, <3>2 DEF HeadersKept
  <2> QED
    BY <1>8, <2>1, <2>2 DEF DeparserFromMemory, HeadersKept, Awake
<1>9. CASE DeltaCycle
  BY <1>9 DEF DeltaCycle, HeadersKept, Awake, About
<1>10. CASE DeparserFetch
  <2> DEFINE id == Head(tmBuffer)
  <2>1. id \in Ids /\ headers \subseteq headers' /\ id \in headers'
    BY <1>10, QueueTypes DEF DeparserFetch, TypeOK
  <2>2. About(toMemory'["deparser"], headers')
    <3>1. PD(id) \in Message /\ PD(id).id = id
      BY <2>1, MessageTypes DEF PD
    <3>2. About(toMemory["deparser"], headers')
      BY <2>1, AboutMore DEF HeadersKept
    <3>3. toMemory'["deparser"] = Append(toMemory["deparser"], PD(id))
      BY <1>10 DEF DeparserFetch, SendToMemory, TypeOK
    <3>4. toMemory["deparser"] \in Seq(Message)
      BY DEF TypeOK
    <3> HIDE DEF id
    <3> QED
      BY <2>1, <3>1, <3>2, <3>3, <3>4, AboutAppend
  <2>3. About(toDeparser', headers')
    BY <1>10, <2>1, AboutMore DEF DeparserFetch, HeadersKept
  <2>4. \A i \in 1 .. Len(memBuffer') : memBuffer'[i] \in headers'
    BY <1>10, <2>1 DEF DeparserFetch, HeadersKept
  <2>5. Awake'
    BY <1>10 DEF DeparserFetch, Awake
  <2> QED
    BY <2>2, <2>3, <2>4, <2>5 DEF HeadersKept
<1>11. CASE DeparserSend
  <2>1. \A i \in 1 .. Len(memBuffer') : memBuffer'[i] \in headers
    <3>1. memBuffer \in Seq(Ids) /\ memBuffer # <<>> /\ memBuffer' = Tail(memBuffer)
      BY <1>11 DEF DeparserSend, TypeOK
    <3> QED
      BY <3>1, HeadTailProperties, EmptySeq DEF HeadersKept
  <2> QED
    BY <1>11, <2>1 DEF DeparserSend, HeadersKept, Awake, About
<1>12. CASE DeparserSleep
  BY <1>12 DEF DeparserSleep, HeadersKept, Awake, About
<1>13. CASE ReorderSend
  BY <1>13, <1>a DEF ReorderSend
<1>14. CASE UNCHANGED vars
  BY <1>14, <1>a DEF vars, backvars
<1> QED
  BY <1>1, <1>2, <1>3, <1>4, <1>5, <1>6, <1>7, <1>8, <1>9, <1>10, <1>11, <1>12, <1>13,
     <1>14
     DEF Next, MemoryTakes, Deparser

LEMMA ReadyInit == Init => HeadersKept /\ Awake
  BY EmptySeq DEF Init, HeadersKept, Awake, About, Senders

\* A payload that reaches the deparser always finds the header it was asked for
\* with, so that memory_.at() never throws, and the deparser's thread never
\* sleeps on a filled buffer (Deparser.cpp).
THEOREM DeparserStaysReady == Spec => []DeparserReady
<1>1. TypeInv /\ HeadersKept /\ Awake => DeparserReady
  <2> SUFFICES ASSUME TypeInv, HeadersKept, Awake PROVE DeparserReady
    OBVIOUS
  <2>1. <<>> \o <<>> = <<>>
    BY EmptySeq, ConcatEmptySeq
  <2> QED
    BY <2>1 DEF DeparserReady, HeadersKept, Awake, Elements
<1> QED
  BY TypeInit, TypeNext, ReadyInit, ReadyNext, <1>1, PTL DEF Spec
-----------------------------------------------------------------------------
(* OnePayload counts the places a payload is in.  Its inductive form names *)
(* the one there is, and says of each place that the payload is there just *)
(* when it is the one named, and there only once.                          *)

Has(queue, x) == \E i \in 1 .. Len(queue) : queue[i] = x

Once(queue, x) == \A i, j \in 1 .. Len(queue) : queue[i] = x /\ queue[j] = x => i = j

Came(id) == id < count \/ (id = count /\ splitter # "asked")

Located(id, place) ==
  /\ \A s \in Senders : /\ Has(toMemory[s], Packet(id)) <=> place = <<"sent", s>>
                        /\ Once(toMemory[s], Packet(id))
  /\ id \in memory <=> place = <<"memory", 0>>
  /\ \A k \in Cores : /\ <<k, id>> \in replies <=> place = <<"reply", k>>
                      /\ core[k] = [does |-> "runs", id |-> id] <=> place = <<"core", k>>
  /\ Has(toDeparser, Packet(id)) <=> place = <<"returned", 0>>
  /\ Once(toDeparser, Packet(id))
  /\ Has(memBuffer, id) <=> place = <<"memBuffer", 0>>
  /\ Once(memBuffer, id)
  /\ Has(egress, id) <=> place = <<"egress", 0>>
  /\ Once(egress, id)

Places == ({"sent"} \X Senders) \cup ({"reply", "core"} \X Cores)
            \cup {<<at, 0>> : at \in {"outside", "memory", "returned", "memBuffer", "egress"}}

OnePlace == \A id \in Ids : \E place \in Places :
              Located(id, place) /\ (Came(id) <=> place # <<"outside", 0>>)

LEMMA HasAppend ==
  ASSUME NEW S, NEW queue \in Seq(S), NEW y \in S, NEW x
  PROVE  /\ Has(Append(queue, y), x) <=> Has(queue, x) \/ x = y
         /\ Once(queue, x) /\ (x = y => ~ Has(queue, x)) => Once(Append(queue, y), x)
<1>1. /\ Len(queue) \in Nat /\ Len(Append(queue, y)) = Len(queue) + 1
      /\ \A i \in 1 .. Len(queue) : Append(queue, y)[i] = queue[i]
      /\ Append(queue, y)[Len(queue) + 1] = y
  BY AppendProperties, LenProperties
<1>2. Has(Append(queue, y), x) <=> Has(queue, x) \/ x = y
  BY <1>1 DEF Has
<1>3. Once(queue, x) /\ (x = y => ~ Has(queue, x)) => Once(Append(queue, y), x)
  BY <1>1 DEF Has, Once
<1> QED
  BY <1>2, <1>3

LEMMA HasTail ==
  ASSUME NEW S, NEW queue \in Seq(S), queue # <<>>, NEW x, Once(queue, x)
  PROVE  /\ Has(Tail(queue), x) <=> Has(queue, x) /\ x # Head(queue)
         /\ Once(Tail(queue), x)
         /\ Has(queue, Head(queue))
<1>1. /\ Len(queue) \in Nat \ {0} /\ Len(Tail(queue)) = Len(queue) - 1
      /\ Head(queue) = queue[1]
      /\ \A i \in 1 .. Len(queue) - 1 : Tail(queue)[i] = queue[i + 1]
  BY HeadTailProperties, EmptySeq
<1>2. Has(Tail(queue), x) => Has(queue, x) /\ x # Head(queue)
  BY <1>1 DEF Has, Once
<1>3. ASSUME Has(queue, x), x # Head(queue) PROVE Has(Tail(queue), x)
  <2> PICK i \in 1 .. Len(queue) : queue[i] = x
    BY <1>3 DEF Has
  <2>1. i - 1 \in 1 .. Len(Tail(queue)) /\ Tail(queue)[i - 1] = x
    BY <1>1, <1>3
  <2> QED
    BY <2>1 DEF Has
<1>4. Once(Tail(queue), x)
  <2> SUFFICES ASSUME NEW i \in 1 .. Len(Tail(queue)), NEW j \in 1 .. Len(Tail(queue)),
                      Tail(queue)[i] = x, Tail(queue)[j] = x
               PROVE  i = j
    BY DEF Once
  <2>1. /\ i + 1 \in 1 .. Len(queue) /\ queue[i + 1] = x
        /\ j + 1 \in 1 .. Len(queue) /\ queue[j + 1] = x
    BY <1>1
  <2> QED
    BY <2>1 DEF Once
<1>5. Has(queue, Head(queue))
  BY <1>1 DEF Has
<1> QED
  BY <1>2, <1>3, <1>4, <1>5

\* Sending to the memory adds one message to one queue.
LEMMA Sent ==
  ASSUME TypeOK, NEW s \in Senders, NEW m \in Message, SendToMemory(s, m), NEW x,
         NEW r \in Senders, Once(toMemory[r], x), r = s /\ x = m => ~ Has(toMemory[r], x)
  PROVE  /\ Has(toMemory'[r], x) <=> Has(toMemory[r], x) \/ (r = s /\ x = m)
         /\ Once(toMemory'[r], x)
<1>1. toMemory[s] \in Seq(Message)
  BY DEF TypeOK
<1>2. toMemory'[r] = IF r = s THEN Append(toMemory[s], m) ELSE toMemory[r]
  BY DEF SendToMemory, TypeOK
<1> QED
  BY <1>1, <1>2, HasAppend

\* The memory takes one message from one queue.
LEMMA Taken ==
  ASSUME TypeOK, NEW s \in Senders, NEW m, Receives(s, m), NEW x,
         NEW r \in Senders, Once(toMemory[r], x)
  PROVE  /\ Has(toMemory'[r], x) <=> Has(toMemory[r], x) /\ ~ (r = s /\ x = m)
         /\ Once(toMemory'[r], x)
         /\ r = s /\ x = m => Has(toMemory[r], x)
<1>1. toMemory[s] \in Seq(Message) /\ toMemory[s] # <<>> /\ Head(toMemory[s]) = m
  BY DEF TypeOK, Receives
<1>2. toMemory'[r] = IF r = s THEN Tail(toMemory[s]) ELSE toMemory[r]
  BY DEF Receives, TypeOK
<1> QED
  BY <1>1, <1>2, HasTail

LEMMA MessagesDiffer ==
  \A id, other : /\ Packet(id) = Packet(other) => id = other
                 /\ Packet(id) # PD(other)
BY DEF Packet, PD

LEMMA OnePlaceInit == Init => OnePlace
<1> SUFFICES ASSUME Init, NEW id \in Ids
             PROVE  Located(id, <<"outside", 0>>) /\ ~ Came(id)
  BY DEF OnePlace, Places
<1>1. Len(<<>>) = 0
  BY EmptySeq
<1>2. ~ Came(id)
  BY StoreAssumption DEF Init, Came, Ids
<1>3. Located(id, <<"outside", 0>>)
  BY <1>1 DEF Init, Located, Has, Once
<1> QED
  BY <1>2, <1>3

LEMMA OnePlaceNext == TypeInv /\ OnePlace /\ [Next]_vars => OnePlace'
<1> SUFFICES ASSUME TypeInv, OnePlace, [Next]_vars, NEW id \in Ids,
                    NEW place \in Places, Located(id, place),
                    Came(id) <=> place # <<"outside", 0>>
             PROVE  \E new \in Places : /\ Located(id, new)'
                                        /\ Came(id)' <=> new # <<"outside", 0>>
  BY DEF OnePlace, Places, Senders, Ids
<1> TypeOK /\ Packet(id) \in Message /\ PD(id) \in Message
  BY MessageTypes DEF TypeInv
<1> PacketCount \in Nat /\ id \in 1 .. PacketCount
  BY StoreAssumption DEF Ids
<1>a. \A k \in Cores : k \in Senders
  BY DEF Senders
<1>1. CASE SplitterStart
  BY <1>1 DEF SplitterStart, Located, Came, parservars, backvars
<1>2. CASE SplitterGet
  <2>1. Located(id, place)'
    BY <1>2 DEF SplitterGet, Located, parservars, backvars
  <2>2. Came(id)' <=> Came(id)
    BY <1>2 DEF SplitterGet, getNext, Came, TypeOK
  <2> QED
    BY <2>1, <2>2
<1>3. CASE SplitterStore
  <2> count \in Ids /\ "splitter" \in Senders /\ Packet(count) \in Message
    BY <1>3, MessageTypes DEF SplitterStore, TypeInv, Named, TypeOK, Ids, Senders
  <2> PICK new : new = (IF id = count THEN <<"sent", "splitter">> ELSE place)
    OBVIOUS
  <2>1. id = count => place = <<"outside", 0>>
    BY <1>3 DEF SplitterStore, Came
  <2>2. \A r \in Senders :
          /\ Has(toMemory'[r], Packet(id)) <=> Has(toMemory[r], Packet(id))
                                                 \/ (r = "splitter" /\ id = count)
          /\ Once(toMemory'[r], Packet(id))
    <3> SUFFICES ASSUME NEW r \in Senders
                 PROVE  /\ Has(toMemory'[r], Packet(id)) <=> Has(toMemory[r], Packet(id))
                                                 \/ (r = "splitter" /\ id = count)
                        /\ Once(toMemory'[r], Packet(id))
      OBVIOUS
    <3>1. Once(toMemory[r], Packet(id)) /\ (id = count => ~ Has(toMemory[r], Packet(id)))
      BY <2>1 DEF Located
    <3>2. Packet(id) = Packet(count) <=> id = count
      BY MessagesDiffer
    <3>3. SendToMemory("splitter", Packet(count))
      BY <1>3 DEF SplitterStore
    <3> QED
      BY <3>1, <3>2, <3>3, Sent
  <2>3. Located(id, new)'
    BY <1>3, <2>1, <2>2 DEF SplitterStore, Located, parservars, backvars
  <2>4. new \in Places /\ (Came(id)' <=> new # <<"outside", 0>>)
    BY <1>3, <2>1 DEF SplitterStore, Came, Places
  <2> QED
    BY <2>3, <2>4
<1>4. CASE SplitterForward
  BY <1>4 DEF SplitterForward, Located, Came, backvars
<1>5. CASE Parser
  BY <1>5 DEF Parser, ParserGet, ParserPut, Located, Came, backvars
<1>6. ASSUME NEW k \in Cores, CoreRequest(k)
      PROVE  Located(id, place)' /\ (Came(id)' <=> Came(id))
  <2> PICK job : job = Head(given)
    OBVIOUS
  <2> USE <1>6 DEF CoreRequest
  <2>1. ASSUME NEW r \in Senders
        PROVE  /\ Has(toMemory'[r], Packet(id)) <=> Has(toMemory[r], Packet(id))
               /\ Once(toMemory'[r], Packet(id))
    <3>1. PD(job) \in Message /\ Packet(id) # PD(job) /\ SendToMemory(k, PD(job))
      BY MessageTypes, MessagesDiffer, QueueTypes DEF TypeOK
    <3>2. Once(toMemory[r], Packet(id))
      BY DEF Located
    <3> QED
      BY <1>a, <3>1, <3>2, Sent
  <2>2. \A r \in Cores : core'[r] = [does |-> "runs", id |-> id]
                           <=> core[r] = [does |-> "runs", id |-> id]
    BY DEF TypeOK
  <2> QED
    BY <2>1, <2>2 DEF Located, Came, parservars, backvars
<1>7. ASSUME NEW k \in Cores, CoreReceive(k)
      PROVE  \E new \in Places : Located(id, new)' /\ (Came(id)' <=> new # <<"outside", 0>>)
  <2> PICK new : new = (IF core[k].id = id THEN <<"core", k>> ELSE place)
    OBVIOUS
  <2>1. core[k].id = id => place = <<"reply", k>>
    BY <1>7 DEF CoreReceive, Located
  <2>2. ASSUME NEW r \in Cores
        PROVE  core'[r] = [does |-> "runs", id |-> id]
                 <=> core[r] = [does |-> "runs", id |-> id] \/ (r = k /\ core[k].id = id)
    <3>1. core[k] \in [does : {"idle", "waits", "runs"}, id : Ids \cup {0}]
      BY DEF TypeOK
    <3>2. core'[r] = IF r = k THEN [core[k] EXCEPT !.does = "runs"] ELSE core[r]
      BY <1>7 DEF CoreReceive, TypeOK
    <3> QED
      BY <3>1, <3>2
  <2>3. \A r \in Cores : <<r, id>> \in replies'
                           <=> <<r, id>> \in replies /\ ~ (r = k /\ core[k].id = id)
    BY <1>7 DEF CoreReceive
  <2>4. Located(id, new)'
    BY <1>7, <2>1, <2>2, <2>3 DEF CoreReceive, Located, frontvars, backvars
  <2>5. new \in Places /\ (Came(id)' <=> new # <<"outside", 0>>)
    BY <1>7, <2>1 DEF CoreReceive, Came, Places, frontvars
  <2> QED
    BY <2>4, <2>5
<1>8. ASSUME NEW k \in Cores, CoreFinish(k)
      PROVE  \E new \in Places : Located(id, new)' /\ (Came(id)' <=> new # <<"outside", 0>>)
  <2> PICK new : new = (IF core[k].id = id THEN <<"sent", k>> ELSE place)
    OBVIOUS
  <2>1. core[k] = [does |-> "runs", id |-> core[k].id] /\ core[k].id \in Ids
    BY <1>8 DEF CoreFinish, TypeInv, Named, TypeOK
  <2>2. core[k].id = id => place = <<"core", k>>
    BY <2>1 DEF Located
  <2>3. ASSUME NEW r \in Senders
        PROVE  /\ Has(toMemory'[r], Packet(id)) <=> Has(toMemory[r], Packet(id))
                                                      \/ (r = k /\ core[k].id = id)
               /\ Once(toMemory'[r], Packet(id))
    <3>1. Once(toMemory[r], Packet(id)) /\ (core[k].id = id => ~ Has(toMemory[r], Packet(id)))
      BY <2>2 DEF Located
    <3>2. Packet(core[k].id) \in Message /\ (Packet(id) = Packet(core[k].id) <=> core[k].id = id)
      BY <2>1, MessageTypes, MessagesDiffer
    <3>3. SendToMemory(k, Packet(core[k].id))
      BY <1>8 DEF CoreFinish
    <3> QED
      BY <1>a, <3>1, <3>2, <3>3, Sent
  <2>4. ASSUME NEW r \in Cores
        PROVE  core'[r] = [does |-> "runs", id |-> id]
                 <=> core[r] = [does |-> "runs", id |-> id] /\ ~ (r = k /\ core[k].id = id)
    <3>1. core'[r] = IF r = k THEN [core[k] EXCEPT !.does = "idle"] ELSE core[r]
      BY <1>8 DEF CoreFinish, TypeOK
    <3> QED
      BY <2>1, <3>1
  <2>5. Located(id, new)'
    BY <1>8, <1>a, <2>2, <2>3, <2>4 DEF CoreFinish, Located, frontvars, backvars
  <2>6. new \in Places /\ (Came(id)' <=> new # <<"outside", 0>>)
    BY <1>8, <1>a, <2>2 DEF CoreFinish, Came, Places, frontvars
  <2> QED
    BY <2>5, <2>6
<1>9. ASSUME NEW s \in Senders, NEW stored \in Ids, MemoryStore(s, stored)
      PROVE  \E new \in Places : Located(id, new)' /\ (Came(id)' <=> new # <<"outside", 0>>)
  <2> PICK new : new = (IF stored = id THEN <<"memory", 0>> ELSE place)
    OBVIOUS
  <2>1. ASSUME NEW r \in Senders
        PROVE  /\ Has(toMemory'[r], Packet(id)) <=> Has(toMemory[r], Packet(id))
                                                      /\ ~ (r = s /\ stored = id)
               /\ Once(toMemory'[r], Packet(id))
               /\ r = s /\ stored = id => Has(toMemory[r], Packet(id))
    <3>1. Once(toMemory[r], Packet(id)) /\ (Packet(id) = Packet(stored) <=> stored = id)
      BY MessagesDiffer DEF Located
    <3>2. Receives(s, Packet(stored))
      BY <1>9 DEF MemoryStore
    <3> QED
      BY <3>1, <3>2, Taken
  <2>2. stored = id => place = <<"sent", s>>
    BY <2>1 DEF Located
  <2>3. Located(id, new)'
    BY <1>9, <2>1, <2>2 DEF MemoryStore, Located, frontvars, backvars
  <2>4. new \in Places /\ (Came(id)' <=> new # <<"outside", 0>>)
    BY <1>9, <2>2 DEF MemoryStore, Came, Places, frontvars
  <2> QED
    BY <2>3, <2>4
<1>b. ASSUME NEW s \in Senders, NEW asked \in Ids, Receives(s, PD(asked)), NEW r \in Senders
      PROVE  /\ Has(toMemory'[r], Packet(id)) <=> Has(toMemory[r], Packet(id))
             /\ Once(toMemory'[r], Packet(id))
  BY <1>b, Taken, MessagesDiffer DEF Located
<1>10. ASSUME NEW k \in Cores, NEW asked \in Ids, MemoryForCore(k, asked)
       PROVE  \E new \in Places : Located(id, new)' /\ (Came(id)' <=> new # <<"outside", 0>>)
  <2> DEFINE moves == asked = id /\ id \in memory
  <2> PICK new : new = (IF moves THEN <<"reply", k>> ELSE place)
    OBVIOUS
  <2>1. moves => place = <<"memory", 0>>
    BY DEF Located
  <2>2. id \in memory' <=> id \in memory /\ ~ moves
    BY <1>10 DEF MemoryForCore
  <2>3. \A r \in Cores : <<r, id>> \in replies' <=> <<r, id>> \in replies \/ (r = k /\ moves)
    BY <1>10 DEF MemoryForCore
  <2>4. Located(id, new)'
    BY <1>10, <1>a, <1>b, <2>1, <2>2, <2>3 DEF MemoryForCore, Located, backvars
  <2>5. new \in Places /\ (Came(id)' <=> new # <<"outside", 0>>)
    BY <1>10, <2>1 DEF MemoryForCore, Came, Places, frontvars
  <2> QED
    BY <2>4, <2>5
<1>11. ASSUME NEW asked \in Ids, MemoryForDeparser(asked)
       PROVE  \E new \in Places : Located(id, new)' /\ (Came(id)' <=> new # <<"outside", 0>>)
  <2> DEFINE moves == asked = id /\ id \in memory
  <2> PICK new : new = (IF moves THEN <<"returned", 0>> ELSE place)
    OBVIOUS
  <2>1. moves => place = <<"memory", 0>>
    BY DEF Located
  <2>2. id \in memory' <=> id \in memory /\ ~ moves
    BY <1>11 DEF MemoryForDeparser
  <2>3. /\ Has(toDeparser', Packet(id)) <=> Has(toDeparser, Packet(id)) \/ moves
        /\ Once(toDeparser', Packet(id))
    <3> DEFINE m == IF asked \in memory THEN Packet(asked) ELSE PD(asked)
    <3>1. toDeparser' = Append(toDeparser, m)
      BY <1>11 DEF MemoryForDeparser
    <3>2. m \in Message /\ toDeparser \in Seq(Message) /\ (Packet(id) = m <=> moves)
      BY MessageTypes, MessagesDiffer DEF TypeOK
    <3>3. Once(toDeparser, Packet(id)) /\ (moves => ~ Has(toDeparser, Packet(id)))
      BY <2>1 DEF Located
    <3> HIDE DEF m, moves
    <3> QED
      BY <3>1, <3>2, <3>3, HasAppend
  <2>4. Located(id, new)'
    <3>1. "deparser" \in Senders /\ Receives("deparser", PD(asked))
      BY <1>11 DEF MemoryForDeparser, Senders
    <3> QED
      BY <1>11, <1>b, <2>1, <2>2, <2>3, <3>1 DEF MemoryForDeparser, Located, backvars
  <2>5. new \in Places /\ (Came(id)' <=> new # <<"outside", 0>>)
    BY <1>11, <2>1 DEF MemoryForDeparser, Came, Places, frontvars
  <2> QED
    BY <2>4, <2>5
<1>12. ASSUME NEW other \in Ids, DeparserFromTM(other)
       PROVE  Located(id, place)' /\ (Came(id)' <=> Came(id))
  <2>1. memBuffer' = memBuffer
    BY <1>12 DEF DeparserFromTM, FileIt, PD
  <2> QED
    BY <1>12, <2>1 DEF DeparserFromTM, Located, Came, frontvars
<1>13. CASE DeparserFromMemory
  <2> DEFINE m     == Head(toDeparser)
             moves == m = Packet(id)
  <2> PICK new : new = (IF moves THEN <<"memBuffer", 0>> ELSE place)
    OBVIOUS
  <2>1. m \in Message /\ toDeparser \in Seq(Message) /\ toDeparser # <<>>
    BY <1>13, QueueTypes DEF DeparserFromMemory, TypeOK
  <2>2. /\ Has(toDeparser', Packet(id)) <=> Has(toDeparser, Packet(id)) /\ ~ moves
        /\ Once(toDeparser', Packet(id))
        /\ moves => Has(toDeparser, Packet(id))
    BY <1>13, <2>1, HasTail DEF DeparserFromMemory, Located
  <2>3. moves => place = <<"returned", 0>>
    BY <2>2 DEF Located
  <2>4. /\ Has(memBuffer', id) <=> Has(memBuffer, id) \/ moves
        /\ Once(memBuffer', id)
    <3>1. memBuffer \in Seq(Ids) /\ m.id \in Ids
      BY <2>1 DEF TypeOK, Message
    <3>2. Once(memBuffer, id) /\ (moves => ~ Has(memBuffer, id))
      BY <2>3 DEF Located
    <3>3. CASE m.type = "PD"
      <4>1. memBuffer' = memBuffer /\ ~ moves
        BY <1>13, <3>3 DEF DeparserFromMemory, FileIt, Packet
      <4> QED
        BY <3>2, <4>1
    <3>4. CASE m.type # "PD"
      <4>1. memBuffer' = Append(memBuffer, m.id)
        BY <1>13, <3>4 DEF DeparserFromMemory, FileIt
      <4>2. moves <=> id = m.id
        BY <2>1, <3>4 DEF Packet, Message
      <4> HIDE DEF m, moves
      <4> QED
        BY <3>1, <3>2, <4>1, <4>2, HasAppend
    <3> QED
      BY <3>3, <3>4
  <2>5. Located(id, new)'
    BY <1>13, <2>2, <2>3, <2>4 DEF DeparserFromMemory, Located, frontvars
  <2>6. new \in Places /\ (Came(id)' <=> new # <<"outside", 0>>)
    BY <1>13, <2>3 DEF DeparserFromMemory, Came, Places, frontvars
  <2> QED
    BY <2>5, <2>6
<1>14. CASE DeltaCycle
  BY <1>14 DEF DeltaCycle, Located, Came, frontvars
<1>15. CASE DeparserFetch
  <2>1. ASSUME NEW r \in Senders
        PROVE  /\ Has(toMemory'[r], Packet(id)) <=> Has(toMemory[r], Packet(id))
               /\ Once(toMemory'[r], Packet(id))
    <3>1. /\ "deparser" \in Senders /\ PD(Head(tmBuffer)) \in Message
          /\ SendToMemory("deparser", PD(Head(tmBuffer)))
      BY <1>15, QueueTypes, MessageTypes DEF DeparserFetch, TypeOK, Senders
    <3> QED
      BY <3>1, Sent, MessagesDiffer DEF Located
  <2> QED
    BY <1>15, <2>1 DEF DeparserFetch, Located, Came, frontvars
<1>16. CASE DeparserSend
  <2> DEFINE moves == Head(memBuffer) = id
  <2> PICK new : new = (IF moves THEN <<"egress", 0>> ELSE place)
    OBVIOUS
  <2>1. memBuffer \in Seq(Ids) /\ memBuffer # <<>> /\ Head(memBuffer) \in Ids
    BY <1>16, QueueTypes DEF DeparserSend, TypeOK
  <2>2. /\ Has(memBuffer', id) <=> Has(memBuffer, id) /\ ~ moves
        /\ Once(memBuffer', id)
        /\ moves => Has(memBuffer, id)
    BY <1>16, <2>1, HasTail DEF DeparserSend, Located
  <2>3. moves => place = <<"memBuffer", 0>>
    BY <2>2 DEF Located
  <2>4. /\ Has(egress', id) <=> Has(egress, id) \/ moves
        /\ Once(egress', id)
    <3>1. egress' = Append(egress, Head(memBuffer)) /\ egress \in Seq(Ids)
      BY <1>16 DEF DeparserSend, logPacket, TypeOK
    <3>2. Once(egress, id) /\ (moves => ~ Has(egress, id))
      BY <2>3 DEF Located
    <3> QED
      BY <2>1, <3>1, <3>2, HasAppend
  <2>5. Located(id, new)'
    BY <1>16, <2>2, <2>3, <2>4 DEF DeparserSend, Located, frontvars
  <2>6. new \in Places /\ (Came(id)' <=> new # <<"outside", 0>>)
    BY <1>16, <2>3 DEF DeparserSend, Came, Places, frontvars
  <2> QED
    BY <2>5, <2>6
<1>17. CASE DeparserSleep
  BY <1>17 DEF DeparserSleep, Located, Came, frontvars
<1>18. CASE ReorderSend
  BY <1>18 DEF ReorderSend, Located, Came, frontvars, backvars
<1>19. CASE UNCHANGED vars
  BY <1>19 DEF vars, Located, Came, frontvars, backvars
<1> QED
  BY <1>1, <1>2, <1>3, <1>4, <1>5, <1>6, <1>7, <1>8, <1>9, <1>10, <1>11, <1>12, <1>13,
     <1>14, <1>15, <1>16, <1>17, <1>18, <1>19
     DEF Next, Splitter, CoreStep, MemoryTakes, Deparser

-----------------------------------------------------------------------------
\* Counting what is there once or not at all.
LEMMA CountOne ==
  ASSUME NEW a, NEW S, S \subseteq {a}
  PROVE  Cardinality(S) = IF a \in S THEN 1 ELSE 0
<1>1. S = {} \/ S = {a}
  OBVIOUS
<1> QED
  BY <1>1, FS_EmptySet, FS_Singleton

LEMMA OccursOnce ==
  ASSUME NEW x, NEW queue, Once(queue, x)
  PROVE  Occurs(x, queue) = IF Has(queue, x) THEN 1 ELSE 0
<1>1. CASE Has(queue, x)
  <2> PICK i \in 1 .. Len(queue) : queue[i] = x
    BY <1>1 DEF Has
  <2>1. {j \in 1 .. Len(queue) : queue[j] = x} = {i}
    BY DEF Once
  <2> QED
    BY <1>1, <2>1, CountOne DEF Occurs
<1>2. CASE ~ Has(queue, x)
  <2>1. {j \in 1 .. Len(queue) : queue[j] = x} = {}
    BY <1>2 DEF Has
  <2> QED
    BY <1>2, <2>1, FS_EmptySet DEF Occurs
<1> QED
  BY <1>1, <1>2

LEMMA PlacesCounted == TypeInv /\ OnePlace => OnePayload
<1> SUFFICES ASSUME TypeInv, OnePlace, NEW id \in Ids, NEW place \in Places,
                    Located(id, place), Came(id) <=> place # <<"outside", 0>>
             PROVE  Cardinality({s \in Senders : Packet(id) \in Elements(toMemory[s])})
                      + Cardinality({id} \cap memory)
                      + Cardinality({k \in Cores : <<k, id>> \in replies})
                      + Cardinality({k \in Cores : core[k] = [does |-> "runs", id |-> id]})
                      + Occurs(Packet(id), toDeparser)
                      + Occurs(id, memBuffer)
                      + Occurs(id, egress)
                    = IF id < count \/ (id = count /\ splitter # "asked") THEN 1 ELSE 0
  BY DEF OnePayload, OnePlace, TypeInv
<1> DEFINE At(at) == IF place[1] = at THEN 1 ELSE 0
           \* The one of a family of places the payload is in, if it is in one.
           Only(at) == IF place[1] = at THEN {place[2]} ELSE {}
<1>1. \A at : Cardinality(Only(at)) = At(at)
  BY FS_EmptySet, FS_Singleton
<1>2. Cardinality({s \in Senders : Packet(id) \in Elements(toMemory[s])}) = At("sent")
  <2>1. \A s \in Senders : Packet(id) \in Elements(toMemory[s]) <=> place = <<"sent", s>>
    BY DEF Located, Has, Elements
  <2>2. place[1] = "sent" => place[2] \in Senders /\ place = <<"sent", place[2]>>
    BY DEF Places
  <2>3. {s \in Senders : Packet(id) \in Elements(toMemory[s])} = Only("sent")
    BY <2>1, <2>2
  <2> QED
    BY <1>1, <2>3
<1>3. Cardinality({id} \cap memory) = At("memory")
  <2>1. id \in memory <=> place[1] = "memory"
    BY DEF Located, Places
  <2>2. Cardinality({id} \cap memory) = IF id \in {id} \cap memory THEN 1 ELSE 0
    BY CountOne
  <2> QED
    BY <2>1, <2>2
<1>4. /\ Cardinality({k \in Cores : <<k, id>> \in replies}) = At("reply")
      /\ Cardinality({k \in Cores : core[k] = [does |-> "runs", id |-> id]}) = At("core")
  <2>1. place[1] \in {"reply", "core"} => place[2] \in Cores /\ place = <<place[1], place[2]>>
    BY DEF Places
  <2>2. {k \in Cores : <<k, id>> \in replies} = Only("reply")
    BY <2>1 DEF Located
  <2>3. {k \in Cores : core[k] = [does |-> "runs", id |-> id]} = Only("core")
    <3>1. \A k \in Cores : core[k] = [does |-> "runs", id |-> id] <=> place = <<"core", k>>
      BY DEF Located
    <3>2. {k \in Cores : core[k] = [does |-> "runs", id |-> id]}
            = {k \in Cores : place = <<"core", k>>}
      BY <3>1
    <3> QED
      BY <2>1, <3>2
  <2> QED
    BY <1>1, <2>2, <2>3
<1>5. /\ Occurs(Packet(id), toDeparser) = At("returned")
      /\ Occurs(id, memBuffer) = At("memBuffer")
      /\ Occurs(id, egress) = At("egress")
  <2>1. /\ Has(toDeparser, Packet(id)) <=> place[1] = "returned"
        /\ Has(memBuffer, id) <=> place[1] = "memBuffer"
        /\ Has(egress, id) <=> place[1] = "egress"
    BY DEF Located, Places
  <2> QED
    BY <2>1, OccursOnce DEF Located
<1>6. At("sent") + At("memory") + At("reply") + At("core") + At("returned")
        + At("memBuffer") + At("egress") = IF Came(id) THEN 1 ELSE 0
  <2>1. place[1] = "outside" => ~ Came(id)
    BY DEF Places
  <2>2. place[1] # "outside" => Came(id)
    OBVIOUS
  <2>3. place[1] \in {"outside", "sent", "memory", "reply", "core", "returned",
                      "memBuffer", "egress"}
    BY DEF Places
  <2> QED
    BY <2>1, <2>2, <2>3
<1> QED
  BY <1>2, <1>3, <1>4, <1>5, <1>6 DEF Came

\* The payload of every packet that came in is in exactly one place, on its way
\* to the memory, in it, on its way back, at a core or the deparser, or out,
\* and stays so however often a request overtakes it (MemoryController.cpp).
THEOREM OnePayloadHolds == Spec => []OnePayload
  BY TypeInit, TypeNext, OnePlaceInit, OnePlaceNext, PlacesCounted, PTL DEF Spec
===============================================================================
