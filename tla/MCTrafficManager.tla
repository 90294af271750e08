---------------------------- MODULE MCTrafficManager ----------------------------
(* Packets 1, 2, 3, ... have priorities 1, 0, 1, 0, ...                    *)
EXTENDS TrafficManager

MCPriorityOf == [p \in Packets |-> p % Priorities]

(* The code's weights are 5 3 2 2 2 1 1 1 and max_buffer is the first one. *)
MCWeights == [i \in Levels |-> IF i = 0 THEN 2 ELSE 1]

(* The two policies with queues per priority, under a small channel, and   *)
(* the parameters in the repository, whose channel never fills up.         *)
MCSettings ==
    {[POLICY |-> "FIXED_PRIORITY", NO_PRIORITY |-> TRUE, drop |-> TRUE,
      fifo_size |-> 2, burst |-> TRUE],
     [POLICY |-> "WEIGHTED_ROUND_ROBIN", NO_PRIORITY |-> TRUE, drop |-> FALSE,
      fifo_size |-> 2, burst |-> TRUE],
     [POLICY |-> "NO_PRIORITY", NO_PRIORITY |-> FALSE, drop |-> FALSE,
      fifo_size |-> 16000, burst |-> FALSE]}
===============================================================================
