---------------------------- MODULE MCRTExecutor ----------------------------
(* Small instances of RTExecutor: one trajectory per interesting relation of   *)
(* its duration to the period.                                                 *)
EXTENDS RTExecutor

\* The duration is no multiple of the period; a multiple; zero, without joints.
MCTrajs    == {"odd", "even", "empty"}
MCEmpty    == {"empty"}
MCDuration == [t \in MCTrajs |-> CASE t = "odd"   -> 3
                                   [] t = "even"  -> 2
                                   [] t = "empty" -> 0]
=============================================================================
