-------------------------- MODULE MCReorderController --------------------------
(* The packet generator gives every packet context 1.                      *)
EXTENDS ReorderController

CONSTANTS PacketCount

MCIds == 1..PacketCount
MCContextOf == [id \in MCIds |-> 1]

(* One cluster runs everything; or packets alternate between two clusters. *)
MCOneCluster == [id \in MCIds |-> 1]
MCTwoClusters == [id \in MCIds |-> 1 + (id % 2)]
===============================================================================
