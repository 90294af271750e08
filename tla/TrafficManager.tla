----------------------------- MODULE TrafficManager -----------------------------
(***************************************************************************)
(* TrafficManager: packet descriptors come in order from the reorder       *)
(* controller and leave for the deparser in the order its policy chooses.  *)
(* The port service thread files them, in one queue per priority or in     *)
(* output_set_ directly; the traffic manager thread picks them.            *)
(*                                                                         *)
(* The threads are cooperative: the traffic manager thread gives way when  *)
(* it waits for condition, when output_set_ is empty and when its put()    *)
(* finds the channel full, and nowhere else.                               *)
(***************************************************************************)
EXTENDS Naturals, Sequences, FiniteSets

CONSTANTS PacketCount, \* bound: packet descriptors that come
          Priorities,  \* parameter "priorities"; 0 is the highest
          PriorityOf,  \* the priority of each packet
          Settings,    \* parameters of the simulation (POLICY, NO_PRIORITY,
                       \* drop, fifo_size), and burst: whether packets come
                       \* faster than the notified thread gets its turn
          Weights,     \* weights, per priority
          MaxBuffer    \* max_buffer

Packets == 1..PacketCount
Levels == 0..(Priorities - 1)

ASSUME TrafficAssumption ==
    /\ PacketCount \in Nat
    /\ Priorities \in Nat \ {0} /\ MaxBuffer \in Nat \ {0}
    /\ PriorityOf \in [Packets -> Levels]
    /\ Weights \in [Levels -> Nat \ {0}]
    /\ \A set \in Settings : /\ set.fifo_size \in Nat \ {0}
                             /\ {set.NO_PRIORITY, set.drop, set.burst} \subseteq BOOLEAN

VARIABLES parameters,        \* one of Settings, for the whole simulation
          next,              \* the packet that comes next
          packet_order,      \* packet_order_: one queue per priority
          output_set,        \* output_set_
          flag_buffer_empty,
          c,                 \* how many a weighted round has left to send
          pc,                \* where the traffic manager thread stands
          hand,              \* the packet it puts
          port,              \* the port service: "get", or "full" while it waits
          fifo,              \* the channel to the deparser
          sent,              \* history: taken by the deparser, in order
          lost               \* history: not filed by the port service

queues == <<packet_order, output_set>>
vars == <<parameters, next, queues, flag_buffer_empty, c, pc, hand, port, fifo,
          sent, lost>>

Policy == parameters.POLICY

FifoSize == parameters.fifo_size

Init == /\ parameters \in Settings
        /\ next = 1
        /\ packet_order = [i \in Levels |-> <<>>]
        /\ output_set = <<>>
        /\ flag_buffer_empty = TRUE
        /\ c = 0 /\ pc = "loop" /\ hand = 0
        /\ port = "get"
        /\ fifo = <<>> /\ sent = <<>> /\ lost = {}

OrderEmpty == \A i \in Levels : packet_order[i] = <<>>

AtPop == \/ pc = "pop"
         \/ pc \in {"loop", "woken"} /\ ~flag_buffer_empty
               /\ Policy \notin {"FIXED_PRIORITY", "WEIGHTED_ROUND_ROBIN"}

Yielded == \/ pc \in {"waiting", "blocked"}
           \/ pc = "woken" /\ parameters.burst
           \/ AtPop /\ output_set = <<>>

-------------------------------------------------------------------------------
(* TrafficManager_PortServiceThread                                        *)

(* When the channel is full the packet descriptor is dropped, or the       *)
(* thread waits for room; after the wait it goes on with the next one.     *)
ArriveFull == /\ Yielded /\ port = "get" /\ next =< PacketCount
              /\ Len(fifo) = FifoSize
              /\ next' = next + 1
              /\ lost' = lost \cup {next}
              /\ port' = IF parameters.drop THEN "get" ELSE "full"
              /\ UNCHANGED <<parameters, queues, flag_buffer_empty, c, pc,
                             hand, fifo, sent>>

(* Faulty variant: filed at the wrong end.                                 *)
ArriveFront ==
    /\ Yielded /\ port = "get" /\ next =< PacketCount
    /\ Len(fifo) < FifoSize
    /\ next' = next + 1
    /\ packet_order' =
           [packet_order EXCEPT ![PriorityOf[next]] = <<next>> \o @]
    /\ flag_buffer_empty' = FALSE
    /\ pc' = IF pc = "waiting" THEN "woken" ELSE pc
    /\ UNCHANGED <<parameters, output_set, c, hand, port, fifo, sent, lost>>

Arrive ==
    /\ Yielded /\ port = "get" /\ next =< PacketCount
    /\ Len(fifo) < FifoSize
    /\ next' = next + 1
    /\ IF ~parameters.NO_PRIORITY
         THEN /\ output_set' = Append(output_set, next)
              /\ UNCHANGED packet_order
         ELSE /\ packet_order' =
                     [packet_order EXCEPT ![PriorityOf[next]] = Append(@, next)]
              /\ UNCHANGED output_set
    /\ flag_buffer_empty' = FALSE
    /\ pc' = IF pc = "waiting" THEN "woken" ELSE pc
    /\ UNCHANGED <<parameters, c, hand, port, fifo, sent, lost>>

-------------------------------------------------------------------------------
(* TrafficManagerThread                                                    *)

Wait == /\ pc \in {"loop", "woken"}
        /\ flag_buffer_empty
        /\ pc' = "waiting"
        /\ UNCHANGED <<parameters, next, queues, flag_buffer_empty, c, hand,
                       port, fifo, sent, lost>>

(* FIXED_PRIORITY: the first packet of the first queue that has one.       *)
Top == CHOOSE i \in Levels : /\ packet_order[i] # <<>>
                             /\ \A j \in 0..(i - 1) : packet_order[j] = <<>>

(* Faulty variant: front() without pop_front().                            *)
PickFixedPeeks ==
    /\ pc \in {"loop", "woken"} /\ ~flag_buffer_empty
    /\ Policy = "FIXED_PRIORITY"
    /\ pc' = IF OrderEmpty THEN "end" ELSE "put"
    /\ hand' = IF OrderEmpty THEN hand ELSE Head(packet_order[Top])
    /\ UNCHANGED <<parameters, next, queues, flag_buffer_empty, c, port, fifo,
                   sent, lost>>

PickFixed ==
    /\ pc \in {"loop", "woken"} /\ ~flag_buffer_empty
    /\ Policy = "FIXED_PRIORITY"
    /\ pc' = IF OrderEmpty THEN "end" ELSE "put"
    /\ hand' = IF OrderEmpty THEN hand ELSE Head(packet_order[Top])
    /\ packet_order' = IF OrderEmpty THEN packet_order
                       ELSE [packet_order EXCEPT ![Top] = Tail(@)]
    /\ UNCHANGED <<parameters, next, output_set, flag_buffer_empty, c, port,
                   fifo, sent, lost>>

(* WEIGHTED_ROUND_ROBIN: from each queue as many as its weight allows, as  *)
(* long as fewer than MaxBuffer are collected.                             *)
Least(S) == CHOOSE x \in S : \A y \in S : x =< y

Collected[n \in 0..Priorities] ==
    IF n = 0 THEN 0
    ELSE Least({MaxBuffer, Collected[n - 1] + Weights[n - 1],
                Collected[n - 1] + Len(packet_order[n - 1])})

Share(i) == Collected[i + 1] - Collected[i]

Gather[n \in 0..Priorities] ==
    IF n = 0 THEN <<>>
    ELSE Gather[n - 1] \o SubSeq(packet_order[n - 1], 1, Share(n - 1))

Collect ==
    /\ pc \in {"loop", "woken"} /\ ~flag_buffer_empty
    /\ Policy = "WEIGHTED_ROUND_ROBIN"
    /\ output_set' = output_set \o Gather[Priorities]
    /\ packet_order' = [i \in Levels |->
           SubSeq(packet_order[i], Share(i) + 1, Len(packet_order[i]))]
    /\ c' = Collected[Priorities]
    /\ pc' = IF c' > 0 THEN "pop" ELSE "end"
    /\ UNCHANGED <<parameters, next, flag_buffer_empty, hand, port, fifo, sent,
                   lost>>

(* output_set_.pop() blocks while the queue is empty.                      *)
Pop == /\ AtPop
       /\ output_set # <<>>
       /\ hand' = Head(output_set)
       /\ output_set' = Tail(output_set)
       /\ pc' = "put"
       /\ UNCHANGED <<parameters, next, packet_order, flag_buffer_empty, c,
                      port, fifo, sent, lost>>

Block == /\ pc = "put"
         /\ Len(fifo) = FifoSize
         /\ pc' = "blocked"
         /\ UNCHANGED <<parameters, next, queues, flag_buffer_empty, c, hand,
                        port, fifo, sent, lost>>

Put == /\ pc \in {"put", "blocked"}
       /\ Len(fifo) < FifoSize
       /\ fifo' = Append(fifo, hand)
       /\ c' = IF c > 0 THEN c - 1 ELSE 0
       /\ pc' = IF c > 1 THEN "pop" ELSE "end"
       /\ UNCHANGED <<parameters, next, queues, flag_buffer_empty, hand, port,
                      sent, lost>>

(* Faulty variant: any_of for all_of.                                      *)
EndRoundAny == /\ pc = "end"
               /\ flag_buffer_empty' = (flag_buffer_empty
                                          \/ \E i \in Levels : packet_order[i] = <<>>)
               /\ pc' = "loop"
               /\ UNCHANGED <<parameters, next, queues, c, hand, port, fifo,
                              sent, lost>>

(* The flag is set when the priority queues are empty, whatever            *)
(* output_set_ holds.                                                      *)
EndRound == /\ pc = "end"
            /\ flag_buffer_empty' = (flag_buffer_empty \/ OrderEmpty)
            /\ pc' = "loop"
            /\ UNCHANGED <<parameters, next, queues, c, hand, port, fifo, sent,
                           lost>>

-------------------------------------------------------------------------------
(* The deparser takes one: the port service, if it waits for room, wakes.  *)
Take == /\ Yielded
        /\ fifo # <<>>
        /\ sent' = Append(sent, Head(fifo))
        /\ fifo' = Tail(fifo)
        /\ port' = "get"
        /\ UNCHANGED <<parameters, next, queues, flag_buffer_empty, c, pc,
                       hand, lost>>

Thread == Wait \/ PickFixed \/ Collect \/ Pop \/ Block \/ Put \/ EndRound

Next == Arrive \/ ArriveFull \/ Thread \/ Take

Spec == Init /\ [][Next]_vars

(* A runnable thread runs and the deparser takes what is put.              *)
FairSpec == Spec /\ WF_vars(Thread) /\ WF_vars(Take)

-------------------------------------------------------------------------------
Elements(s) == {s[i] : i \in 1..Len(s)}

TypeOK == /\ parameters \in Settings
          /\ next \in 1..(PacketCount + 1)
          /\ packet_order \in [Levels -> Seq(Packets)]
          /\ output_set \in Seq(Packets)
          /\ flag_buffer_empty \in BOOLEAN
          /\ c \in 0..MaxBuffer
          /\ pc \in {"loop", "waiting", "woken", "pop", "put", "blocked", "end"}
          /\ hand \in Packets \cup {0}
          /\ port \in {"get", "full"}
          /\ fifo \in Seq(Packets) /\ Len(fifo) =< FifoSize
          /\ sent \in Seq(Packets)
          /\ lost \in SUBSET Packets

(* The thread neither sleeps on condition with a packet left to send, nor  *)
(* blocks in pop() in a weighted round: c is what output_set_ and the hand *)
(* hold of the round, which thus empties output_set_.                      *)
NoneStuck ==
    /\ pc = "waiting" => OrderEmpty /\ output_set = <<>>
    /\ Policy = "WEIGHTED_ROUND_ROBIN" =>
           c = Len(output_set)
                 + (IF c > 0 /\ pc \in {"put", "blocked"} THEN 1 ELSE 0)

(* Every packet descriptor that came is in one place and in no other, and  *)
(* the thread is never left without the means to send it.                  *)
Conserved ==
    /\ TypeOK
    /\ NoneStuck
    /\ \A p \in Packets :
          Cardinality({i \in Levels : p \in Elements(packet_order[i])})
            + Cardinality({p} \cap Elements(output_set))
            + (IF pc \in {"put", "blocked"} /\ hand = p THEN 1 ELSE 0)
            + Cardinality({p} \cap Elements(fifo))
            + Cardinality({p} \cap Elements(sent))
            + Cardinality({p} \cap lost) = IF p < next THEN 1 ELSE 0

(* Packets of one priority leave in the order they came.                   *)
FifoPerPriority ==
    \A i, j \in 1..Len(sent) :
        i < j /\ PriorityOf[sent[i]] = PriorityOf[sent[j]] => sent[i] < sent[j]

(* Every packet descriptor that is filed leaves for the deparser.          *)
EverySent == \A p \in Packets : (p < next) ~> (p \in Elements(sent) \cup lost)
===============================================================================
