------------------------------ MODULE MCRouter ------------------------------
(***************************************************************************)
(* The network of build_static/Configs, cut to what the flows pass by:     *)
(* five of the nine routers of the chip and the local switch of cluster 5, *)
(* the modules that send and receive here, and their names.                *)
(***************************************************************************)
EXTENDS Router

MCLookuptables ==
  [cluster_local_switch |->
     [ConnectedNodes |-> <<"core0", "cluster_scheduler", "cluster">>,
      NextNodes |-> [cluster |-> {"scheduler", "mct_0_mem"}]],
   ocn_02 |->
     [ConnectedNodes |-> <<"mct_0_mem", "ocn_12">>,
      NextNodes |-> [ocn_12 |-> {"cluster5"}]],
   ocn_11 |->
     [ConnectedNodes |-> <<"scheduler", "ocn_21", "ocn_12">>,
      NextNodes |-> [ocn_21 |-> {"cluster5"}]],
   ocn_12 |->
     [ConnectedNodes |-> <<"ocn_02", "ocn_11", "ocn_22">>,
      NextNodes |-> [ocn_02 |-> {"mct_0_mem"},
                    ocn_11 |-> {"scheduler"},
                    ocn_22 |-> {"cluster5"}]],
   ocn_21 |->
     [ConnectedNodes |-> <<"ocn_11", "ocn_22">>,
      NextNodes |-> [ocn_11 |-> {"scheduler"},
                    ocn_22 |-> {"cluster5", "mct_0_mem"}]],
   ocn_22 |->
     [ConnectedNodes |-> <<"ocn_12", "ocn_21", "cluster5">>,
      NextNodes |-> [ocn_12 |-> {"mct_0_mem"},
                    ocn_21 |-> {"scheduler"}]]]

\* Cluster binds its ports to those of its local switch.
MCBound == [cluster5 |-> "cluster_local_switch", cluster |-> "ocn_22"]

Flow(packets, from, first, to, destination) ==
  [packets |-> packets, from |-> from, first |-> first, to |-> to, destination |-> destination]

\* Jobs to the scheduler of a cluster, its requests for more, and the answer to a
\* read of table memory: they meet head on between ocn_11, ocn_21, ocn_22 and
\* the local switch.
MCFlows ==
  << Flow(2, "scheduler", "ocn_11", "cluster_scheduler", <<"cluster5", "cluster_scheduler">>),
     Flow(2, "cluster_scheduler", "cluster_local_switch", "scheduler", <<"scheduler">>),
     Flow(1, "mct_0_mem", "ocn_02", "core0", <<"cluster5", "core0">>) >>
==============================================================================
