--------------------------- MODULE ReorderController ---------------------------
(***************************************************************************)
(* ReorderController: the cluster schedulers announce every packet they    *)
(* give to a core, the cores return them in any order, and the controller  *)
(* sends them on to the traffic manager in the order of their ids, context *)
(* by context.                                                             *)
(*                                                                         *)
(* Two SystemC threads share its state.  They are cooperative: the sending *)
(* thread gives way only in put(), in wait(1 ns) and in wait(bufferevent), *)
(* so the port service never acts while pc is "scan".                      *)
(***************************************************************************)
EXTENDS Naturals, Sequences

CONSTANTS Ids,         \* packet ids, numbered in arrival order
          NumContexts, \* parameter "contexts"
          ContextOf,   \* the context of each packet
          Clusters,    \* the cluster schedulers
          ClusterOf    \* the cluster each packet is given to

Contexts == 0..(NumContexts - 1)

ASSUME ReorderAssumption ==
    /\ Ids \subseteq Nat
    /\ NumContexts \in Nat \ {0, 1}
    /\ ContextOf \in [Ids -> Contexts]
    /\ ClusterOf \in [Ids -> Clusters]

VARIABLES packet_order,   \* ppacket_order_: per context, the ids announced
          packet_reorder, \* ppacket_reorder_: per context, the packets back
          pd_flags,       \* pd_flags_: per context, something may be sent
          pc,             \* where the sending thread stands
          pos,            \* element of pd_flags_ the range-for has reached
          held,           \* the packet being put
          registered,     \* history: ids announced
          arrived,        \* history: packets back from a core
          sent            \* history: per context, what was put to "tm"

queues == <<packet_order, packet_reorder>>
vars == <<queues, pd_flags, pc, pos, held, registered, arrived, sent>>

(* The priority queues hold each id once, smallest on top.                 *)
IsTop(id, queue) == id \in queue /\ \A j \in queue : id =< j

TopsAgree(order, reorder) == \E id \in order : IsTop(id, order) /\ IsTop(id, reorder)

Ready(c) == TopsAgree(packet_order[c], packet_reorder[c])

Init == /\ packet_order = [c \in Contexts |-> {}]
        /\ packet_reorder = [c \in Contexts |-> {}]
        /\ pd_flags = [c \in Contexts |-> FALSE]
        /\ pc = "scan"
        /\ pos = 0
        /\ held \in Ids
        /\ registered = {}
        /\ arrived = {}
        /\ sent = [c \in Contexts |-> <<>>]

-------------------------------------------------------------------------------
(* ReorderController_PortServiceThread                                     *)

Blocked == pc \in {"wait", "put", "delay"}

(* A packet descriptor from a cluster scheduler announces its id.  One     *)
(* scheduler announces the packets it is given in the order of their ids;  *)
(* nothing orders the announcements of two schedulers.                     *)
Register(id) ==
    /\ Blocked
    /\ id \notin registered
    /\ \A j \in Ids : j < id /\ ClusterOf[j] = ClusterOf[id] => j \in registered
    /\ packet_order' = [packet_order EXCEPT ![ContextOf[id]] = @ \cup {id}]
    /\ registered' = registered \cup {id}
    /\ UNCHANGED <<packet_reorder, pd_flags, pc, pos, held, arrived, sent>>

(* The packet itself, from the core that ran it.  It was announced before  *)
(* the core got it, over the same links.  bufferevent.notify() is lost     *)
(* unless the sending thread is asleep.                                    *)
Arrive(id) ==
    LET c == ContextOf[id]
        back == packet_reorder[c] \cup {id}
        ready == TopsAgree(packet_order[c], back)
    IN  /\ Blocked
        /\ id \in registered \ arrived
        /\ packet_reorder' = [packet_reorder EXCEPT ![c] = back]
        /\ pd_flags' = [pd_flags EXCEPT ![c] = @ \/ ready]
        /\ IF ready /\ pc = "wait"
             THEN pc' = "scan" /\ pos' = 0
             ELSE UNCHANGED <<pc, pos>>
        /\ arrived' = arrived \cup {id}
        /\ UNCHANGED <<packet_order, held, registered, sent>>

-------------------------------------------------------------------------------
(* ReorderControllerThread                                                 *)

(* The loop variable is a std::vector<bool> reference, and so is its copy  *)
(* "context": used as an index each is the truth value of the element it   *)
(* refers to, read again at every use, the pops after the delay included.  *)
Index == IF pd_flags[pos] THEN 1 ELSE 0

(* Faulty variant: whatever came back first is sent, announced or not as   *)
(* the next one.                                                           *)
ScanSendAny == /\ pc = "scan"
               /\ pd_flags[Index]
               /\ \E id \in packet_reorder[Index] :
                     /\ IsTop(id, packet_reorder[Index])
                     /\ held' = id
               /\ pc' = "put"
               /\ UNCHANGED <<queues, pd_flags, pos, registered, arrived, sent>>

ScanSend == /\ pc = "scan"
            /\ pd_flags[Index]
            /\ \E id \in packet_reorder[Index] :
                  /\ IsTop(id, packet_reorder[Index])
                  /\ IsTop(id, packet_order[Index])
                  /\ held' = id
            /\ pc' = "put"
            /\ UNCHANGED <<queues, pd_flags, pos, registered, arrived, sent>>

ScanClear == /\ pc = "scan"
             /\ pd_flags[Index]
             /\ ~Ready(Index)
             /\ pd_flags' = [pd_flags EXCEPT ![Index] = FALSE]
             /\ UNCHANGED <<queues, pc, pos, held, registered, arrived, sent>>

ScanNext == /\ pc = "scan"
            /\ ~pd_flags[Index]
            /\ IF pos + 1 < NumContexts
                 THEN pos' = pos + 1 /\ UNCHANGED pc
                 ELSE pc' = "wait" /\ UNCHANGED pos
            /\ UNCHANGED <<queues, pd_flags, held, registered, arrived, sent>>

(* put() returns when the channel to the traffic manager has room.         *)
Put == /\ pc = "put"
       /\ sent' = [sent EXCEPT ![ContextOf[held]] = Append(@, held)]
       /\ pc' = "delay"
       /\ UNCHANGED <<queues, pd_flags, pos, held, registered, arrived>>

(* What pop() leaves of a queue: all but the top.  Of an empty queue it is *)
(* undefined, and may leave anything.                                      *)
Popped(queue) == IF queue = {} THEN SUBSET Ids
                 ELSE {{id \in queue : ~IsTop(id, queue)}}

(* Faulty variant: the context's flag is cleared with every packet sent.   *)
PopClears == /\ pc = "delay"
             /\ \E order \in Popped(packet_order[Index]) :
                   packet_order' = [packet_order EXCEPT ![Index] = order]
             /\ \E back \in Popped(packet_reorder[Index]) :
                   packet_reorder' = [packet_reorder EXCEPT ![Index] = back]
             /\ pd_flags' = [pd_flags EXCEPT ![Index] = FALSE]
             /\ pc' = "scan"
             /\ UNCHANGED <<pos, held, registered, arrived, sent>>

(* After the delay the queues of the context that Index has become lose    *)
(* whatever is on top of them by then.                                     *)
Pop == /\ pc = "delay"
       /\ \E order \in Popped(packet_order[Index]) :
             packet_order' = [packet_order EXCEPT ![Index] = order]
       /\ \E back \in Popped(packet_reorder[Index]) :
             packet_reorder' = [packet_reorder EXCEPT ![Index] = back]
       /\ pc' = "scan"
       /\ UNCHANGED <<pd_flags, pos, held, registered, arrived, sent>>

Thread == ScanSend \/ ScanClear \/ ScanNext \/ Put \/ Pop

Next == Thread \/ \E id \in Ids : Register(id) \/ Arrive(id)

Spec == Init /\ [][Next]_vars

(* The sending thread runs when it can; nothing obliges packets to come.   *)
FairSpec == Spec /\ WF_vars(Thread)

-------------------------------------------------------------------------------
Delivered(c) == {sent[c][i] : i \in 1..Len(sent[c])}

TypeOK == /\ packet_order \in [Contexts -> SUBSET Ids]
          /\ packet_reorder \in [Contexts -> SUBSET Ids]
          /\ pd_flags \in [Contexts -> BOOLEAN]
          /\ pc \in {"scan", "put", "delay", "wait"}
          /\ pos \in Contexts
          /\ held \in Ids
          /\ registered \in SUBSET Ids
          /\ arrived \in SUBSET Ids
          /\ sent \in [Contexts -> Seq(Ids)]

(* Neither top() nor pop() is ever called on an empty queue, which would   *)
(* be undefined: a packet waits only where an id is announced, and after   *)
(* the delay there is something to pop.                                    *)
TopDefined ==
    /\ \A c \in Contexts : packet_reorder[c] # {} => packet_order[c] # {}
    /\ pc = "delay" => packet_reorder[Index] # {}

(* The packets of a context leave in the order of their ids, none twice.   *)
InOrder == \A c \in Contexts : \A i, j \in 1..Len(sent[c]) :
              i < j => sent[c][i] < sent[c][j]

(* A packet that came back from a core is queued or was sent: the two pops *)
(* after the delay never take a packet that was not sent.                  *)
NothingLost == \A id \in arrived : LET c == ContextOf[id] IN
                  id \in packet_reorder[c] \/ id \in Delivered(c)

(* The thread goes to sleep on bufferevent only when it has nothing to     *)
(* send, although a notify() that finds it awake is lost.                  *)
NoLostWakeup == pc = "wait" => \A c \in Contexts : ~Ready(c)

(* A packet leaves once it and every packet before it in its context have  *)
(* come back.                                                              *)
EventuallySent ==
    \A id \in Ids : LET c == ContextOf[id] IN
        (\A j \in Ids : j =< id /\ ContextOf[j] = c => j \in arrived)
            ~> (id \in Delivered(c))

(* Exactly-once delivery in order, as OrderedDelivery states it.           *)
Abstract == INSTANCE OrderedDelivery

AbstractSpec == Abstract!Spec

-------------------------------------------------------------------------------
(* When the promises hold: one cluster announces every packet, and not     *)
(* both contexts 0 and 1 are in use; then no packet that comes back turns  *)
(* Index over between a put and its pops.  To be looked at at all, packets *)
(* must have context 0 or 1.  The packet generator gives them all 1.       *)
SingleCluster == \A i, j \in Ids : ClusterOf[i] = ClusterOf[j]
Unmixed == \A i, j \in Ids : ContextOf[i] = 0 => ContextOf[j] # 1
LowContexts == \A id \in Ids : ContextOf[id] \in {0, 1}

(* The inductive invariant.  Announcements come in the order of the ids;   *)
(* the queues hold exactly the packets that are not delivered yet, and the *)
(* one just delivered until it is popped; what is being put is on top of   *)
(* both queues and stays there; what was delivered comes before the rest.  *)
Pending(c) == {id \in registered : ContextOf[id] = c} \ Delivered(c)

Popping(c) == pc = "delay" /\ ContextOf[held] = c

AnnouncedInOrder ==
    \A i \in registered : \A j \in Ids : j < i => j \in registered

QueuesTrack ==
    /\ arrived \subseteq registered
    /\ \A c \in Contexts :
         /\ packet_order[c] = Pending(c) \cup {id \in {held} : Popping(c)}
         /\ packet_reorder[c] = packet_order[c] \cap arrived
         /\ Delivered(c) \subseteq {id \in arrived : ContextOf[id] = c}

HeldOnTop ==
    pc \in {"put", "delay"} =>
        /\ IsTop(held, packet_order[ContextOf[held]])
        /\ held \in packet_reorder[ContextOf[held]]
        /\ pc = "delay" => held \in Delivered(ContextOf[held])
        /\ pc = "put" => held \in Pending(ContextOf[held])

(* From the test to the pops, Index stays the context of the packet put:  *)
(* a packet is put at element 0 or 1, and a scan that has gone past        *)
(* element 1 leaves both usable flags clear.                               *)
IndexKept ==
    /\ pc \in {"put", "delay"} =>
           /\ Index = ContextOf[held]
           /\ pd_flags[Index]
           /\ pos =< 1
    /\ pos > 1 \/ pc = "wait" => ~pd_flags[0] /\ ~pd_flags[1]

SentFirst == \A c \in Contexts : \A i \in Delivered(c), j \in Pending(c) : i < j

OrderInv == /\ TypeOK
            /\ AnnouncedInOrder
            /\ QueuesTrack
            /\ HeldOnTop
            /\ IndexKept
            /\ SentFirst
            /\ InOrder

(* The flags tell the thread where it has something to send, and only the  *)
(* usable ones are ever raised.                                            *)
FlagsTell == \A c \in Contexts : Ready(c) => pd_flags[c]
FlagsLow == \A c \in Contexts \ {0, 1} : ~pd_flags[c]

WakeInv == FlagsTell /\ FlagsLow
===============================================================================
