------------------------------- MODULE MCStores -------------------------------
EXTENDS Stores

MCBackoffAfter == [n \in 0 .. MaxAttempts |-> IF n = 0 THEN 1 ELSE n]
MCPatch == {[status |-> "done", sha |-> "c1"], [red |-> TRUE], [green |-> TRUE]}
=============================================================================
