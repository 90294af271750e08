----------------------------- MODULE MCTableMemory -----------------------------
(* The layout of the configuration, scaled down: a small memory on the     *)
(* chip, a large one off it and a third one.                               *)
EXTENDS TableMemory

CONSTANTS ChipWords, TableWords

MCLayout == <<[name |-> "ClusterMemory", size |-> ChipWords],
              [name |-> "mct_0_mem", size |-> 600],
              [name |-> "edram_payload_mem", size |-> 16]>>

MCRegion == [kind \in {"TRIE", "Payload"} |->
                IF kind = "TRIE" THEN [first |-> 0, last |-> TableWords - 1]
                ELSE [first |-> TableWords, last |-> TableWords + 99]]
===============================================================================
