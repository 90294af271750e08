----------------------------- MODULE MCJobDispatch -----------------------------
(* Cores 1 and 2 belong to cluster "a", core 3 to cluster "b".             *)
EXTENDS JobDispatch

MCClusterOf == [k \in Cores |-> IF k = 3 THEN "b" ELSE "a"]
===============================================================================
