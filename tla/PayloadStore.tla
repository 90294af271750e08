------------------------------ MODULE PayloadStore ------------------------------
(***************************************************************************)
(* The way of a packet's payload, from the file of packets that come in to *)
(* the log of those that leave: PacketGenerator, Splitter, Parser,         *)
(* MemoryController, Deparser, Logger.  The splitter stores the payload    *)
(* and sends the packet descriptor through the parser on to the scheduler  *)
(* of the cores; a core fetches the payload, runs, sends the payload back  *)
(* and the packet descriptor on to the reorder controller, which lets them *)
(* through to the deparser in their order; the deparser fetches the        *)
(* payload again and puts the packet together.  Descriptor and payload     *)
(* travel on different paths: messages of one module to another stay in    *)
(* order, nothing orders the rest.                                         *)
(*                                                                         *)
(* One scheduler gives out the jobs, and all packets have one context: the *)
(* reorder controller is what OrderedDelivery says of it.                  *)
(***************************************************************************)
EXTENDS Naturals, Sequences, FiniteSets

CONSTANTS PacketCount,  \* bound: packets in the file
          Marked,       \* packets the parser of the P4 program marks for drop
          Cores         \* the cores, one thread each

ASSUME StoreAssumption == /\ PacketCount \in Nat
                          /\ Marked \subseteq 1..PacketCount
                          /\ "splitter" \notin Cores /\ "deparser" \notin Cores

Ids == 1..PacketCount
Senders == Cores \cup {"splitter", "deparser"}

Message == [type : {"Packet", "PD"}, id : Ids]
Packet(id) == [type |-> "Packet", id |-> id]
PD(id) == [type |-> "PD", id |-> id]

VARIABLES splitter,   \* where SplitterThread stands
          count,      \* packets it has taken from the ingress
          toMemory,   \* messages on their way to the memory, by sender
          memory,     \* MemoryController::memory_
          toParser,   \* descriptors on their way to the parser
          parser,     \* the one ParserThread works on, or 0
          given,      \* descriptors on their way to the cores, in order
          core,       \* each core: what it does, and for which packet
          replies,    \* payloads on their way to a core
          announced,  \* ppacket_order_: announced and not sent on
          back,       \* ppacket_reorder_: back from a core, not sent on
          ordered,    \* descriptors at the traffic manager
          toDeparser, \* messages of the memory on their way to the deparser
          tmBuffer,   \* fromTrafficManagerBuffer
          memBuffer,  \* fromMEM
          headers,    \* Deparser::memory_
          service,    \* DeparserThread_QueueService: "run" or "asleep"
          event,      \* a notification of bufferevent is pending
          egress      \* the log of the packets that left

parservars == <<toParser, parser>>
frontvars == <<splitter, count, given, parservars>>
backvars == <<tmBuffer, memBuffer, headers, service, event, egress>>
ordervars == <<announced, back, ordered>>
vars == <<frontvars, toMemory, memory, core, replies, ordervars, toDeparser, backvars>>

Init == /\ splitter = "boot" /\ count = 0
        /\ toMemory = [s \in Senders |-> <<>>]
        /\ memory = {} /\ given = <<>>
        /\ toParser = <<>> /\ parser = 0
        /\ core = [k \in Cores |-> [does |-> "idle", id |-> 0]]
        /\ replies = {}
        /\ announced = {} /\ back = {} /\ ordered = {}
        /\ toDeparser = <<>>
        /\ tmBuffer = <<>> /\ memBuffer = <<>> /\ headers = {}
        /\ service = "run" /\ event = FALSE
        /\ egress = <<>>

SendToMemory(s, m) == toMemory' = [toMemory EXCEPT ![s] = Append(@, m)]

-------------------------------------------------------------------------------
(* PacketGenerator and PcapRepeater: the packets of the file, numbered in  *)
(* the order they come in                                                  *)
hasNext == count < PacketCount

getNext == count + 1

(* Splitter.  The first message it gets is the control plane's.            *)
SplitterStart == /\ splitter = "boot"
                 /\ splitter' = "ingress"
                 /\ UNCHANGED <<count, given, parservars, toMemory, memory, core,
                                replies, ordervars, toDeparser, backvars>>

(* A packet comes in; an address is asked for.                             *)
SplitterGet == /\ splitter = "ingress"
               /\ hasNext
               /\ count' = getNext
               /\ splitter' = "asked"
               /\ UNCHANGED <<given, parservars, toMemory, memory, core, replies,
                              ordervars, toDeparser, backvars>>

(* The address comes; the payload goes.                                    *)
SplitterStore == /\ splitter = "asked"
                 /\ SendToMemory("splitter", Packet(count))
                 /\ splitter' = "stored"
                 /\ UNCHANGED <<count, given, parservars, memory, core, replies,
                                ordervars, toDeparser, backvars>>

(* 1 ns later the packet descriptor goes to the parser.                    *)
SplitterForward == /\ splitter = "stored"
                   /\ toParser' = Append(toParser, count)
                   /\ splitter' = "ingress"
                   /\ UNCHANGED <<count, given, parser, toMemory, memory, core,
                                  replies, ordervars, toDeparser, backvars>>

-------------------------------------------------------------------------------
(* Parser.  When its output is full it "drops" the descriptor or waits,    *)
(* and goes on with it all the same.                                       *)
ParserGet == /\ parser = 0 /\ toParser # <<>>
             /\ parser' = Head(toParser) /\ toParser' = Tail(toParser)
             /\ UNCHANGED <<splitter, count, given, toMemory, memory, core, replies,
                            ordervars, toDeparser, backvars>>

(* PacketDescriptor::drop(): did the P4 program mark the packet?  parse()  *)
(* would take every mark back, but takes it back from a copy of the field. *)
drop(id) == id \in Marked

(* Parsed and put to the scheduler, once there is room, unless it is to be *)
(* dropped; the payload of one that is stays where it is.                  *)
ParserPut ==
    /\ parser # 0
    /\ given' = IF drop(parser) THEN given ELSE Append(given, parser)
    /\ parser' = 0
    /\ UNCHANGED <<splitter, count, toParser, toMemory, memory, core, replies,
                   ordervars, toDeparser, backvars>>

-------------------------------------------------------------------------------
(* A core: the HAL asks for the payload of the job it was given, and sends *)
(* it back before it sends the packet descriptor on.                       *)

(* The job is announced to the reorder controller as it is given out.      *)
CoreRequest(k) == LET id == Head(given) IN
                  /\ core[k].does = "idle"
                  /\ given # <<>>
                  /\ given' = Tail(given)
                  /\ announced' = announced \cup {id}
                  /\ SendToMemory(k, PD(id))
                  /\ core' = [core EXCEPT ![k] = [does |-> "waits", id |-> id]]
                  /\ UNCHANGED <<splitter, count, parservars, memory, replies, back,
                                 ordered, toDeparser, backvars>>

CoreReceive(k) == /\ <<k, core[k].id>> \in replies
                  /\ replies' = replies \ {<<k, core[k].id>>}
                  /\ core' = [core EXCEPT ![k].does = "runs"]
                  /\ UNCHANGED <<frontvars, toMemory, memory, ordervars, toDeparser,
                                 backvars>>

CoreFinish(k) == /\ core[k].does = "runs"
                 /\ SendToMemory(k, Packet(core[k].id))
                 /\ back' = back \cup {core[k].id}
                 /\ core' = [core EXCEPT ![k].does = "idle"]
                 /\ UNCHANGED <<frontvars, memory, replies, announced, ordered,
                                toDeparser, backvars>>

(* ReorderControllerThread, which OrderedDelivery stands for: the first of *)
(* those announced and not sent on goes to the traffic manager, once it is *)
(* back; the others wait for it.                                           *)
ReorderSend == \E id \in announced \cap back :
                  /\ \A other \in announced : id =< other
                  /\ announced' = announced \ {id}
                  /\ back' = back \ {id}
                  /\ ordered' = ordered \cup {id}
                  /\ UNCHANGED <<frontvars, toMemory, memory, core, replies,
                                 toDeparser, backvars>>

-------------------------------------------------------------------------------
(* MemoryControllerThread: one message at a time                           *)

Receives(s, m) == /\ toMemory[s] # <<>>
                  /\ Head(toMemory[s]) = m
                  /\ toMemory' = [toMemory EXCEPT ![s] = Tail(@)]

(* A payload, from the splitter or a core.                                 *)
MemoryStore(s, id) ==
    /\ Receives(s, Packet(id))
    /\ memory' = memory \cup {id}
    /\ UNCHANGED <<frontvars, core, replies, ordervars, toDeparser, backvars>>

(* Faulty variant: the payload is sent and stays in memory_.               *)
MemoryForCoreKeeps(k, id) ==
    /\ Receives(k, PD(id))
    /\ id \in memory
    /\ replies' = replies \cup {<<k, id>>}
    /\ UNCHANGED <<frontvars, core, ordervars, toDeparser, backvars, memory>>

(* A core's request for a payload that is not there is dropped.            *)
MemoryForCore(k, id) ==
    /\ Receives(k, PD(id))
    /\ memory' = memory \ {id}
    /\ replies' = IF id \in memory THEN replies \cup {<<k, id>>} ELSE replies
    /\ UNCHANGED <<frontvars, core, ordervars, toDeparser, backvars>>

(* Faulty variant: the deparser's request for a payload that is not there  *)
(* is dropped.                                                             *)
MemoryForDeparserDrops(id) ==
    /\ Receives("deparser", PD(id))
    /\ memory' = memory \ {id}
    /\ toDeparser' = IF id \in memory THEN Append(toDeparser, Packet(id))
                                      ELSE toDeparser
    /\ UNCHANGED <<frontvars, core, replies, ordervars, backvars>>

(* The deparser gets the payload, or its packet descriptor back.           *)
MemoryForDeparser(id) ==
    /\ Receives("deparser", PD(id))
    /\ memory' = memory \ {id}
    /\ toDeparser' = Append(toDeparser, IF id \in memory THEN Packet(id) ELSE PD(id))
    /\ UNCHANGED <<frontvars, core, replies, ordervars, backvars>>

-------------------------------------------------------------------------------
(* Deparser                                                                *)

FileIt(m) == IF m.type = "PD"
               THEN tmBuffer' = Append(tmBuffer, m.id) /\ UNCHANGED memBuffer
               ELSE memBuffer' = Append(memBuffer, m.id) /\ UNCHANGED tmBuffer

(* Deparser_PortServiceThread: from the traffic manager, from the memory.  *)
(* The notification takes effect in the next delta cycle.                  *)
DeparserFromTM(id) == /\ id \in ordered
                      /\ ordered' = ordered \ {id}
                      /\ FileIt(PD(id))
                      /\ event' = TRUE
                      /\ UNCHANGED <<frontvars, toMemory, memory, core, replies,
                                     announced, back, toDeparser, headers, service, egress>>

DeparserFromMemory == /\ toDeparser # <<>>
                      /\ toDeparser' = Tail(toDeparser)
                      /\ FileIt(Head(toDeparser))
                      /\ event' = TRUE
                      /\ UNCHANGED <<frontvars, toMemory, memory, core, replies,
                                     ordervars, headers, service, egress>>

DeltaCycle == /\ event
              /\ event' = FALSE
              /\ service' = "run"
              /\ UNCHANGED <<frontvars, toMemory, memory, core, replies, ordervars,
                             toDeparser, tmBuffer, memBuffer, headers, egress>>

(* Faulty variant: the header is not kept while the payload is fetched.    *)
DeparserFetchForgets ==
    /\ service = "run"
    /\ tmBuffer # <<>>
    /\ tmBuffer' = Tail(tmBuffer)
    /\ SendToMemory("deparser", PD(Head(tmBuffer)))
    /\ UNCHANGED <<frontvars, memory, core, replies, ordervars, toDeparser,
                   memBuffer, headers, service, event, egress>>

(* DeparserThread_QueueService: descriptors first.                         *)
DeparserFetch == /\ service = "run"
                 /\ tmBuffer # <<>>
                 /\ headers' = headers \cup {Head(tmBuffer)}
                 /\ tmBuffer' = Tail(tmBuffer)
                 /\ SendToMemory("deparser", PD(Head(tmBuffer)))
                 /\ UNCHANGED <<frontvars, memory, core, replies, ordervars,
                                toDeparser, memBuffer, service, event, egress>>

(* Logger                                                                  *)
logPacket(id) == egress' = Append(egress, id)

DeparserSend == /\ service = "run"
                /\ tmBuffer = <<>> /\ memBuffer # <<>>
                /\ logPacket(Head(memBuffer))
                /\ memBuffer' = Tail(memBuffer)
                /\ UNCHANGED <<frontvars, toMemory, memory, core, replies, ordervars,
                               toDeparser, tmBuffer, headers, service, event>>

DeparserSleep == /\ service = "run"
                 /\ tmBuffer = <<>> /\ memBuffer = <<>>
                 /\ service' = "asleep"
                 /\ UNCHANGED <<frontvars, toMemory, memory, core, replies, ordervars,
                                toDeparser, tmBuffer, memBuffer, headers, event,
                                egress>>

-------------------------------------------------------------------------------
Splitter == SplitterStart \/ SplitterGet \/ SplitterStore \/ SplitterForward

Parser == ParserGet \/ ParserPut

CoreStep(k) == CoreRequest(k) \/ CoreReceive(k) \/ CoreFinish(k)

MemoryTakes(s) == \E id \in Ids : \/ MemoryStore(s, id)
                                  \/ s \in Cores /\ MemoryForCore(s, id)
                                  \/ s = "deparser" /\ MemoryForDeparser(id)

Deparser == DeparserFetch \/ DeparserSend \/ DeparserSleep

Next == \/ Splitter
        \/ Parser
        \/ \E k \in Cores : CoreStep(k)
        \/ ReorderSend
        \/ \E s \in Senders : MemoryTakes(s)
        \/ \E id \in Ids : DeparserFromTM(id)
        \/ DeparserFromMemory
        \/ DeltaCycle
        \/ Deparser

Spec == Init /\ [][Next]_vars

(* Messages arrive, threads run, notifications take effect.                *)
Fairness == /\ WF_vars(Splitter)
            /\ WF_vars(Parser)
            /\ \A k \in Cores : WF_vars(CoreStep(k))
            /\ WF_vars(ReorderSend)
            /\ \A s \in Senders : WF_vars(MemoryTakes(s))
            /\ \A id \in Ids : WF_vars(DeparserFromTM(id))
            /\ WF_vars(DeparserFromMemory)
            /\ WF_vars(DeltaCycle)
            /\ WF_vars(Deparser)

FairSpec == Spec /\ Fairness

-------------------------------------------------------------------------------
Elements(s) == {s[i] : i \in 1..Len(s)}

Occurs(x, s) == Cardinality({i \in 1..Len(s) : s[i] = x})

TypeOK == /\ splitter \in {"boot", "ingress", "asked", "stored"}
          /\ count \in 0..PacketCount
          /\ toParser \in Seq(Ids) /\ parser \in Ids \cup {0}
          /\ toMemory \in [Senders -> Seq(Message)]
          /\ memory \in SUBSET Ids /\ given \in Seq(Ids)
          /\ core \in [Cores -> [does : {"idle", "waits", "runs"}, id : Ids \cup {0}]]
          /\ replies \in SUBSET (Cores \X Ids)
          /\ announced \in SUBSET Ids /\ back \in SUBSET Ids /\ ordered \in SUBSET Ids
          /\ toDeparser \in Seq(Message)
          /\ tmBuffer \in Seq(Ids) /\ memBuffer \in Seq(Ids)
          /\ headers \in SUBSET Ids
          /\ service \in {"run", "asleep"} /\ event \in BOOLEAN
          /\ egress \in Seq(Ids)

(* A payload is in one place, however often a request comes too early: on  *)
(* its way to the memory, in it, on its way to a core or the deparser, at  *)
(* one of them, or out.                                                    *)
OnePayload ==
    /\ TypeOK
    /\ \A id \in Ids :
           Cardinality({s \in Senders : Packet(id) \in Elements(toMemory[s])})
             + Cardinality({id} \cap memory)
             + Cardinality({k \in Cores : <<k, id>> \in replies})
             + Cardinality({k \in Cores : core[k] = [does |-> "runs", id |-> id]})
             + Occurs(Packet(id), toDeparser)
             + Occurs(id, memBuffer)
             + Occurs(id, egress)
           = IF id < count \/ (id = count /\ splitter # "asked") THEN 1 ELSE 0

(* What the deparser has received it can put together: memory_.at() finds  *)
(* the header of every payload, and the deparser does not sleep with       *)
(* something in its buffers, unless a notification is about to wake it.    *)
DeparserReady == /\ Elements(memBuffer) \subseteq headers
                 /\ service = "asleep" => event \/ tmBuffer \o memBuffer = <<>>

(* A request that overtakes its payload is dropped and the core waits for  *)
(* ever.  Its packet was announced and never comes back, so that later     *)
(* ones are held back for it.  Every packet the program does not mark gets *)
(* out, unless that happened to it or to one before it.                    *)
Starved(k) == /\ core[k].does = "waits"
              /\ <<k, core[k].id>> \notin replies
              /\ PD(core[k].id) \notin Elements(toMemory[k])

EveryPacketLeaves ==
    \A id \in Ids \ Marked :
        (count >= id) ~> \/ id \in Elements(egress)
                         \/ \E k \in Cores : core[k].id =< id /\ Starved(k)
===============================================================================
