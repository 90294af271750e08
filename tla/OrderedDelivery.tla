---------------------------- MODULE OrderedDelivery ----------------------------
(***************************************************************************)
(* What the reorder stage promises to the traffic manager: of the packets  *)
(* of one context, it delivers each once, in the order of their ids, and   *)
(* only after it has come back from a core.  ReorderController implements  *)
(* this module as long as one cluster announces the packets and they are   *)
(* not of both contexts 0 and 1.                                           *)
(***************************************************************************)
EXTENDS Naturals, Sequences

CONSTANTS Ids,        \* packet ids, numbered in arrival order
          Contexts,   \* packet contexts
          ContextOf   \* the context of each packet

VARIABLES registered, \* announced by the cluster scheduler
          arrived,    \* come back from a core
          sent        \* per context, the packets delivered so far

vars == <<registered, arrived, sent>>

Delivered(c) == {sent[c][i] : i \in 1..Len(sent[c])}

Init == /\ registered = {}
        /\ arrived = {}
        /\ sent = [c \in Contexts |-> <<>>]

Register(id) == /\ id \notin registered
                /\ registered' = registered \cup {id}
                /\ UNCHANGED <<arrived, sent>>

Arrive(id) == /\ id \in registered \ arrived
              /\ arrived' = arrived \cup {id}
              /\ UNCHANGED <<registered, sent>>

(* The packet with the smallest id of those announced and not yet          *)
(* delivered is delivered; later ones wait for it.                         *)
Deliver(id) ==
    LET c == ContextOf[id] IN
    /\ id \in arrived \ Delivered(c)
    /\ \A j \in registered \ Delivered(c) : ContextOf[j] = c => id =< j
    /\ sent' = [sent EXCEPT ![c] = Append(@, id)]
    /\ UNCHANGED <<registered, arrived>>

Next == \E id \in Ids : Register(id) \/ Arrive(id) \/ Deliver(id)

Spec == Init /\ [][Next]_vars
===============================================================================
