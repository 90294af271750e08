------------------------------- MODULE Router -------------------------------
(***************************************************************************)
(* The on-chip network: routers (Router.cpp, SystemCExtensions.h) joined   *)
(* to one another and to the other modules by queues (Queue.h).            *)
(*                                                                         *)
(* A router has one thread.  It takes a packet from one of its ports,      *)
(* looks up the port its destination lies behind, and puts the packet      *)
(* there, waiting as long as that queue is full; meanwhile it takes no     *)
(* other packet.                                                           *)
(*                                                                         *)
(* A destination is the names it is made of: Mod1.Mod2 is <<Mod1, Mod2>>.  *)
(* The modules at the ends are taken as they use their ports: they put     *)
(* packets into their queue when it has room and always take what comes.   *)
(***************************************************************************)
EXTENDS Naturals, SequencesExt, FiniteSets

CONSTANTS lookuptables,    \* for each router: ConnectedNodes, the names its ports
                           \* lead to, and NextNodes, the far names each leads to
          Bound,           \* what is behind the ports that are named otherwise
          Flows,           \* who sends how many packets to whom, under which
                           \* destination, first to which router
          FifoSize,        \* room in a queue
          InFlight         \* packets in the network at a time

Routers == DOMAIN lookuptables
ConnectedNodes(r) == lookuptables[r].ConnectedNodes
NextNodes(r) == lookuptables[r].NextNodes
Ports(r) == DOMAIN ConnectedNodes(r)

\* The router or module at a port
Behind(r, i) ==
  IF ConnectedNodes(r)[i] \in DOMAIN Bound THEN Bound[ConnectedNodes(r)[i]]
  ELSE ConnectedNodes(r)[i]

\* Routers are joined both ways, and ports, numbered from 1, lead to different
\* places.
ASSUME NetworkAssumption ==
  /\ FifoSize \in Nat \ {0}
  /\ \A r \in Routers :
       /\ Len(ConnectedNodes(r)) \in Nat /\ Ports(r) = 1 .. Len(ConnectedNodes(r))
       /\ IsInjective([i \in Ports(r) |-> Behind(r, i)])
       /\ \A i \in Ports(r) : Behind(r, i) \in Routers =>
            \E j \in Ports(Behind(r, i)) : Behind(Behind(r, i), j) = r

VARIABLES ocn_rd_if,   \* of each router, the queues it reads, port by port
          ocn_wr_if,   \* of each router, the queues to modules, port by port
          readport,    \* readportnumber of each router
          held,        \* the packet a router's thread has in its hands, if any
          sent, received,  \* number of the last packet of each flow
          failed       \* has a router met a destination it does not know?

networkvars == <<ocn_rd_if, ocn_wr_if, readport, held, sent, received, failed>>

None == [none |-> TRUE]

NetworkInit ==
  /\ ocn_rd_if = [r \in Routers |-> [i \in Ports(r) |-> <<>>]]
  /\ ocn_wr_if = [r \in Routers |-> [i \in Ports(r) |-> <<>>]]
  /\ readport = [r \in Routers |-> 1]
  /\ held = [r \in Routers |-> None]
  /\ sent = [f \in DOMAIN Flows |-> 0]
  /\ received = [f \in DOMAIN Flows |-> 0]
  /\ failed = FALSE

\* Faulty variant: a full port loses the packet.
PutInOrDrop(from, r, packet) ==
  \E i \in Ports(r) :
    /\ Behind(r, i) = from
    /\ ocn_rd_if' = IF Len(ocn_rd_if[r][i]) < FifoSize
                    THEN [ocn_rd_if EXCEPT ![r][i] = Append(@, packet)] ELSE ocn_rd_if
    /\ UNCHANGED ocn_wr_if

\* put() to a Queue, possible when it has room: from a neighbour or a module to
\* the port of a router, and from a router to the module at a port.
PutIn(from, r, packet) ==
  \E i \in Ports(r) :
    /\ Behind(r, i) = from
    /\ Len(ocn_rd_if[r][i]) < FifoSize
    /\ ocn_rd_if' = [ocn_rd_if EXCEPT ![r][i] = Append(@, packet)]
    /\ UNCHANGED ocn_wr_if

PutToModule(r, i, packet) ==
  /\ Len(ocn_wr_if[r][i]) < FifoSize
  /\ ocn_wr_if' = [ocn_wr_if EXCEPT ![r][i] = Append(@, packet)]
  /\ UNCHANGED ocn_rd_if

TotalInFlight ==
  LET total[f \in 0 .. Len(Flows)] ==
        IF f = 0 THEN 0 ELSE total[f - 1] + sent[f] - received[f]
  IN  total[Len(Flows)]

Send(f) ==
  /\ sent[f] < Flows[f].packets /\ TotalInFlight < InFlight
  /\ PutIn(Flows[f].from, Flows[f].first,
           [flow |-> f, number |-> sent[f] + 1, destination |-> Flows[f].destination])
  /\ sent' = [sent EXCEPT ![f] = @ + 1]
  /\ UNCHANGED <<readport, held, received, failed>>

-----------------------------------------------------------------------------
(* Router_PortServiceThread *)

nb_can_get(r, i) == ocn_rd_if[r][i] # <<>>

\* Faulty variant: readportnumber moves on by one port and stays there when it
\* is empty.
NextPortOnly(r, i) ==
  /\ nb_can_get(r, i)
  /\ i = (readport[r] % Len(ConnectedNodes(r))) + 1

\* Round robin from readportnumber on, which moves only past empty ports
NextPort(r, i) ==
  LET n == Len(ConnectedNodes(r))
      after(j) == (j + n - readport[r]) % n
  IN  /\ nb_can_get(r, i)
      /\ \A j \in Ports(r) : after(j) < after(i) => ~ nb_can_get(r, j)

\* The first name of a destination, and what is left after it, the whole
\* destination when it has but one name
EvaluateHierarchicalDestination(destination) ==
  [sendto |-> Head(destination),
   setdestinationto |-> IF Len(destination) > 1 THEN Tail(destination) ELSE destination]

\* Faulty variant: the ports are counted one too far.
SearchinConnectedNodesOff(r, name) ==
  { i \in Ports(r) : i > 1 /\ ConnectedNodes(r)[i - 1] = name }

SearchinConnectedNodes(r, name) == { i \in Ports(r) : ConnectedNodes(r)[i] = name }

SearchinNextNodes(r, name) == { n \in DOMAIN NextNodes(r) : name \in NextNodes(r)[n] }

\* The ports to a node: its own, else that of the next node for it
DetermineOutputPortNumber(r, name) ==
  IF SearchinConnectedNodes(r, name) # {} THEN SearchinConnectedNodes(r, name)
  ELSE UNION { SearchinConnectedNodes(r, n) : n \in SearchinNextNodes(r, name) }

\* The look-up.  Only the router a name is connected to strips it from the
\* destination.
Route(r, packet) ==
  \E dest \in { EvaluateHierarchicalDestination(packet.destination) } :
    \/ /\ DetermineOutputPortNumber(r, dest.sendto) = {}
       /\ failed' = TRUE
       /\ UNCHANGED held
    \/ \E port \in DetermineOutputPortNumber(r, dest.sendto) :
         /\ \A other \in DetermineOutputPortNumber(r, dest.sendto) : port <= other
         /\ held' = [held EXCEPT ![r] =
              [port   |-> port,
               packet |-> IF SearchinConnectedNodes(r, dest.sendto) # {}
                          THEN [packet EXCEPT !.destination = dest.setdestinationto]
                          ELSE packet]]
         /\ UNCHANGED failed

\* get()
Get(r) ==
  /\ held[r] = None /\ ~ failed
  /\ \E i \in Ports(r) :
       /\ NextPort(r, i)
       /\ readport' = [readport EXCEPT ![r] = i]
       /\ ocn_rd_if' = [ocn_rd_if EXCEPT ![r][i] = Tail(@)]
       /\ Route(r, Head(ocn_rd_if[r][i]))
  /\ UNCHANGED <<ocn_wr_if, sent, received>>

\* put() to the output port, after 1 ns
PutOut(r) ==
  /\ held[r] # None
  /\ \/ Behind(r, held[r].port) \in Routers
          /\ PutIn(r, Behind(r, held[r].port), held[r].packet)
     \/ Behind(r, held[r].port) \notin Routers
          /\ PutToModule(r, held[r].port, held[r].packet)
  /\ held' = [held EXCEPT ![r] = None]
  /\ UNCHANGED <<readport, sent, received, failed>>

-----------------------------------------------------------------------------
Receive(r, i) ==
  /\ ocn_wr_if[r][i] # <<>>
  /\ received' = [received EXCEPT ![Head(ocn_wr_if[r][i]).flow] = Head(ocn_wr_if[r][i]).number]
  /\ ocn_wr_if' = [ocn_wr_if EXCEPT ![r][i] = Tail(@)]
  /\ UNCHANGED <<ocn_rd_if, readport, held, sent, failed>>

ReceiveAt(r) == \E i \in Ports(r) : Receive(r, i)

NetworkNext ==
  \/ \E f \in DOMAIN Flows : Send(f)
  \/ \E r \in Routers : Get(r) \/ PutOut(r) \/ ReceiveAt(r)

Fairness ==
  /\ \A r \in Routers : WF_networkvars(Get(r) \/ PutOut(r))
  /\ WF_networkvars(\E r \in Routers : ReceiveAt(r))

NetworkSpec == NetworkInit /\ [][NetworkNext]_networkvars /\ Fairness

-----------------------------------------------------------------------------
\* Every name that is sent to has a way from everywhere its packets come by: no
\* router stops the simulation over a destination, and a packet leaves the
\* network at the module it was sent to, however many routers and levels of
\* names lie between.
RightModule ==
  /\ ~ failed
  /\ \A r \in Routers : \A i \in Ports(r) : \A packet \in ToSet(ocn_wr_if[r][i]) :
       Flows[packet.flow].to = Behind(r, i) /\ Len(packet.destination) = 1

\* The packets of one sender to one receiver stay in order and none is lost on
\* the way.
InOrder ==
  [][\A f \in DOMAIN Flows :
       received'[f] # received[f] => received'[f] = received[f] + 1]_networkvars

\* Every packet arrives, as long as no more than 2 * FifoSize + 1 are in the
\* network at a time.  With one more, two neighbours may each hold a packet
\* for the other whose queues are full, and neither goes on.
Arrives == \A f \in DOMAIN Flows : \A n \in 1 .. Flows[f].packets : (sent[f] >= n) ~> (received[f] >= n)
==============================================================================
