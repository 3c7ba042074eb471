-------------------------- MODULE MCUBSanCountPass --------------------------
(***************************************************************************)
(* Loops with the check before or behind the test of the loop, handlers    *)
(* that return, that do not, and one into which the test was copied; and   *)
(* functions without a loop that check the result pointer.                 *)
(***************************************************************************)
EXTENDS UBSanCountPass

Block(wo, icmps, tests, succ, site) ==
    [wo |-> wo, icmps |-> icmps, tests |-> tests, succ |-> succ, site |-> site]

Jump(b) == Block(FALSE, {}, {}, <<b>>, "none")
Branch(tests, b, c) == Block(FALSE, {}, tests, <<b, c>>, "none")
Check(b, c) == Block(TRUE, {}, {"overflow"}, <<b, c>>, "none")
Handler(kind, succ) == Block(FALSE, {}, {}, succ, kind)
Ret == Block(FALSE, {}, {}, <<>>, "none")

\* while (count--), with the successors of the handler.
CheckFirst(handler) ==
    [entry |-> Jump("header"), header |-> Check("handler", "cont"), handler |-> handler,
     cont |-> Branch({"exit"}, "exit", "latch"), latch |-> Jump("header"), exit |-> Ret]

\* for (; i != bound; i += step) behind the null check of an argument.
TestFirst ==
    [entry |-> Block(FALSE, {"argnull"}, {"argnull"}, <<"ht", "header">>, "none"),
     ht |-> Handler("type_mismatch", <<"header">>),
     header |-> Branch({"exit"}, "exit", "body"), body |-> Check("handler", "latch"),
     handler |-> Handler("overflow", <<"latch">>), latch |-> Jump("header"), exit |-> Ret]

LoopShapes ==
    {CheckFirst(Handler("overflow", <<"cont">>)),
     CheckFirst(Handler("overflow", <<>>)),
     CheckFirst([Branch({"exit"}, "exit", "latch") EXCEPT !.site = "overflow"])}

\* A null and alignment check of the result, then a sum.
Aligned ==
    [entry |-> Block(FALSE, {"null"}, {"null", "misaligned"}, <<"ht", "sum">>, "none"),
     ht |-> Handler("type_mismatch", <<"sum">>),
     sum |-> Check("handler", "exit"), handler |-> Handler("overflow", <<>>), exit |-> Ret]

\* The comparison is made once and used again further down.
Reused ==
    [entry |-> Block(TRUE, {"null"}, {"overflow"}, <<"handler", "check">>, "none"),
     handler |-> Handler("overflow", <<"check">>),
     check |-> Branch({"argnull"}, "ha", "again"), ha |-> Handler("type_mismatch", <<"again">>),
     again |-> Branch({"null"}, "ht", "exit"), ht |-> Handler("type_mismatch", <<"exit">>),
     exit |-> Ret]

\* Two checks with one handler.
SharedHandler ==
    [entry |-> Check("handler", "second"), second |-> Check("handler", "exit"),
     handler |-> Handler("overflow", <<"exit">>), exit |-> Ret]

\* No arithmetic at all.
OnlyNull ==
    [entry |-> Block(FALSE, {"null"}, {"null"}, <<"ht", "exit">>, "none"),
     ht |-> Handler("type_mismatch", <<>>), exit |-> Ret]

Constants == {[constant |-> TRUE, starts |-> {c}] : c \in Word}
Arguments == {[constant |-> FALSE, starts |-> s] : s \in {Word, 0 .. Hi, 1 .. 2, Word \ {0}}}

Counters(steps, bounds, exits) ==
    {[constant |-> s.constant, starts |-> s.starts, step |-> d, bound |-> b, exit |-> x] :
        s \in Constants \cup Arguments, d \in steps, b \in bounds, x \in exits}

MCPrograms ==
    [blocks : LoopShapes \cup {TestFirst},
     counter : Counters({-1, 1, -2, 3}, {Lo, -3, 0, Hi}, {"ne", "ordered"})]
    \cup
    [blocks : {Aligned, Reused, SharedHandler, OnlyNull},
     counter : Counters({-1, 1}, {0}, {"ne"})]
=============================================================================
