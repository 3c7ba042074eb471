---------------------------- MODULE MCPandaDemo -----------------------------
(* The demo with the two kinds of trajectory its planner can hand over.       *)
EXTENDS PandaDemo

MCTrajs    == {"plan", "empty"}
MCEmpty    == {"empty"}
MCDuration == [t \in MCTrajs |-> IF t = "plan" THEN 2 ELSE 0]
=============================================================================
