--------------------------- MODULE UBSanCountPass ---------------------------
(***************************************************************************)
(* llvm/ubsan_count/UBSanCountPass.cpp: the compiler plugin that removes   *)
(* the UBSan checks which cannot fire and counts those that remain.  One   *)
(* function is compiled and then run.                                      *)
(*                                                                         *)
(* A function is its control flow graph.  A block may hold an overflow     *)
(* intrinsic (wo), comparisons with null (icmps) and a call of a handler   *)
(* (site); with two successors it branches to the first when one of the    *)
(* conditions in tests is true.  The only arithmetic is on a counter: the  *)
(* intrinsic adds step to it.  If the function has a block "header" that   *)
(* is the head of its loop, whose block "latch" goes back to it, and there *)
(* the counter takes the sum.                                              *)
(*                                                                         *)
(* The clone is straightened, ScalarEvolution and LazyValueInfo are asked  *)
(* about it, and only then is the function itself changed.  The two        *)
(* analyses are external: they answer exactly, or not at all.              *)
(***************************************************************************)
EXTENDS Integers, Sequences, FiniteSets

CONSTANTS
    Half,       \* half the number of words (2^(w-1) for a counter of w bits)
    Programs    \* [blocks: the graph, counter: how the counter moves]

Lo == -Half
Hi == Half - 1
Word == Lo .. Hi
Wrap(n) == ((n + Half) % (2 * Half)) - Half

Succs(C, b) == {C[b].succ[i] : i \in DOMAIN C[b].succ}

Blocks(names) ==
    [wo : BOOLEAN, icmps : SUBSET STRING, tests : SUBSET STRING, succ : Seq(names), site : STRING]

\* Every block leads to blocks of the same function.
Closed(C) == C \in [DOMAIN C -> Blocks(DOMAIN C)]

HasLoop(C) == "header" \in DOMAIN C

\* The blocks P of the loop come after its test: into them leads the way on from a
\* test of the exit only, which nothing else is mixed up with.
AfterTest(C, P) ==
    /\ "latch" \in P /\ "entry" \notin P /\ "header" \notin P
    /\ \A b \in DOMAIN C \ P : Succs(C, b) \cap P # {} =>
          /\ C[b].tests = {"exit"} /\ "null" \notin C[b].icmps
          /\ Len(C[b].succ) = 2 /\ C[b].succ[1] \notin P

\* A function as the front end makes it: a handler's block has the call and no
\* check, and every round of the loop, if there is one, passes the test.
WellFormed(C) ==
    /\ Closed(C) /\ IsFiniteSet(DOMAIN C)
    /\ "entry" \in DOMAIN C /\ C["entry"].site = "none"
    /\ \A b \in DOMAIN C : C[b].site # "none" => ~ C[b].wo /\ C[b].icmps = {}
    /\ HasLoop(C) <=> "latch" \in DOMAIN C
    /\ HasLoop(C) =>
          /\ C["header"].site = "none" /\ C["latch"].succ = <<"header">>
          /\ \E P \in SUBSET DOMAIN C : AfterTest(C, P)

ASSUME UBSanAssumption ==
    /\ Half \in Nat \ {0}
    /\ \A p \in Programs :
          /\ WellFormed(p.blocks)
          /\ p.counter.starts \subseteq Word /\ p.counter.starts # {}
          /\ p.counter.constant \in BOOLEAN /\ p.counter.exit \in {"ne", "ordered"}
          /\ p.counter.constant => Cardinality(p.counter.starts) = 1
          /\ p.counter.bound \in Word /\ p.counter.step \in Word \ {0}

\* The checks as the front end writes them: a handler is where a branch goes when its
\* condition holds, while the way on goes past the handler; overflow is tested alone;
\* a comparison is made before it is tested; and every other block can be reached
\* without a handler.
ChecksGuarded(C) ==
    LET plain == {b \in DOMAIN C : C[b].site = "none"}
    IN  /\ \A b \in DOMAIN C : \A i \in DOMAIN C[b].succ :
              C[b].succ[i] \notin plain =>
                  /\ b \in plain /\ i = 1 /\ Len(C[b].succ) = 2 /\ C[b].succ[2] \in plain
        /\ \A b \in DOMAIN C :
              /\ Len(C[b].succ) = 2 => C[b].tests # {}
              /\ C[b].tests \cap {"overflow", "null"} # {} => ~ Succs(C, b) \subseteq plain
              /\ "overflow" \in C[b].tests => C[b].tests = {"overflow"}
              /\ "null" \in C[b].tests => \E x \in DOMAIN C : "null" \in C[x].icmps
        /\ \A S \in SUBSET plain :
              /\ "entry" \in S
              /\ \A x \in S : Succs(C, x) \cap plain \subseteq S
              => plain \subseteq S

ASSUME FrontEndAssumption == \A p \in Programs : ChecksGuarded(p.blocks)

VARIABLES
    pc,         \* pass being run, then the run of the result
    program,    \* the function as it came from the front end
    F,          \* its blocks as they are now
    Clone,      \* the clone's blocks, NoFunction when there is no clone
    todo,       \* blocks whose terminator is still to be looked at
    Removable,  \* blocks whose overflow check was found removable
    counted,    \* result of the cached count analysis, NotCounted before
    early,      \* whether it was asked for before the optimisations
    printed,    \* count printed after all other passes
    at,         \* run: the block
    counter,    \* run: the counter
    faults      \* run: conditions that are true of its arguments

passVars == <<program, F, Clone, todo, Removable>>
countVars == <<counted, early, printed>>
runVars == <<at, counter, faults>>
vars == <<pc, passVars, countVars, runVars>>

NoFunction == <<>>
NotCounted == -1

ctr == program.counter

-----------------------------------------------------------------------------
(* ConstantRange: an interval of words, which may go on from Hi to Lo.     *)

Circle(first, n) == {Wrap(first + k) : k \in 0 .. n - 1}
Ranges == {Circle(first, n) : first \in Word, n \in 0 .. 2 * Half}

\* The smallest range that holds all of S.
Cover(S) ==
    CHOOSE r \in Ranges :
        S \subseteq r /\ \A s \in Ranges : S \subseteq s => Cardinality(r) <= Cardinality(s)

UnionWith(r, s) == Cover(r \cup s)
IntersectWith(r, s) == Cover(r \cap s)

Least(r) == CHOOSE x \in r : \A y \in r : x <= y
Greatest(r) == CHOOSE x \in r : \A y \in r : y <= x

\* rangesProveNoOverflow for the addition of step, which the front end writes as
\* an addition or as a subtraction of its negative.
RangesProveNoOverflow(lhs, step) ==
    lhs # {} /\ Least(lhs) + step >= Lo /\ Greatest(lhs) + step <= Hi

-----------------------------------------------------------------------------
(* Control flow.                                                           *)

Preds(C, b) == {p \in DOMAIN C : b \in Succs(C, p)}

\* Following branches from a one comes to b: b is wherever they cannot leave.
Reaches(C, a, b) ==
    \A S \in SUBSET DOMAIN C : a \in S /\ (\A x \in S : Succs(C, x) \subseteq S) => b \in S

LoopBlocks(C) == {b \in DOMAIN C : Reaches(C, "header", b) /\ Reaches(C, b, "header")}

Exiting(C) ==
    LET loop == LoopBlocks(C) IN {b \in loop : Succs(C, b) \ loop # {}}

IsUBSanSite(C, b) == C[b].site # "none"

\* The successor that calls a handler is told from the other one; neither is
\* when both or none do.
HandlerSuccs(C, b) == {i \in DOMAIN C[b].succ : IsUBSanSite(C, C[b].succ[i])}

\* Without the test whether something else still branches to the handler.
StraightenAndDelete(C, b) ==
    IF Len(C[b].succ) # 2 \/ Cardinality(HandlerSuccs(C, b)) # 1 THEN C
    ELSE LET i == CHOOSE i \in HandlerSuccs(C, b) : TRUE
             D == [C EXCEPT ![b].succ = <<C[b].succ[3 - i]>>, ![b].tests = {}]
         IN  [x \in DOMAIN D \ {C[b].succ[i]} |-> D[x]]

\* straightenOverflowBranches for one block, and straightenHandlerBranch: jump
\* to the block that is not the handler, which is deleted if nothing else
\* branches to it.
Straighten(C, b) ==
    IF Len(C[b].succ) # 2 \/ Cardinality(HandlerSuccs(C, b)) # 1 THEN C
    ELSE LET i == CHOOSE i \in HandlerSuccs(C, b) : TRUE
             handler == C[b].succ[i]
             D == [C EXCEPT ![b].succ = <<C[b].succ[3 - i]>>, ![b].tests = {}]
         IN  IF Preds(D, handler) # {} THEN D
             ELSE [x \in DOMAIN D \ {handler} |-> D[x]]

-----------------------------------------------------------------------------
(* What the analyses know of the counter in the clone.                     *)

\* The loop is left when the counter is the bound, or has passed it.
Exits(i) ==
    CASE ctr.exit = "ne" -> i = ctr.bound
      [] ctr.exit = "ordered" /\ ctr.step > 0 -> i >= ctr.bound
      [] ctr.exit = "ordered" /\ ctr.step < 0 -> i <= ctr.bound

\* Values that the counter may have on entry as far as ScalarEvolution knows,
\* which does not see the guards before the loop.
Starts == IF ctr.constant THEN ctr.starts ELSE Word

Iterate(s, k) == Wrap(s + k * ctr.step)

\* A single branch leaves the loop.
SingleExit(C) ==
    LET exiting == Exiting(C)
    IN  \E x \in exiting : exiting = {x} /\ C[x].tests = {"exit"}

\* The backedge-taken count: a single branch leaves the loop, on a comparison
\* that is met, and an ordered one before the counter wraps.
BTCComputable(C) ==
    /\ SingleExit(C)
    /\ \A s \in Starts : \E k \in 0 .. 2 * Half : Exits(Iterate(s, k))
    /\ ctr.exit = "ordered" =>
          IF ctr.step > 0 THEN ctr.bound + ctr.step - 1 <= Hi ELSE ctr.bound + ctr.step + 1 >= Lo

BTC(s) ==
    CHOOSE k \in 0 .. 2 * Half :
        Exits(Iterate(s, k)) /\ \A j \in 0 .. k - 1 : ~ Exits(Iterate(s, j))

\* getSignedRange of the counter, with the guards of the loop applied.
SignedRange(C, known) ==
    CASE ~ HasLoop(C) -> Starts
      [] HasLoop(C) /\ "range" \in known /\ BTCComputable(C) ->
            Cover(UNION {{Iterate(s, k) : k \in 0 .. BTC(s)} : s \in ctr.starts})
      [] OTHER -> Word

\* The range of the start: by LazyValueInfo on the edge into the loop when
\* ScalarEvolution knows nothing.
StartRange(known) ==
    IF Starts = Word /\ "edge" \in known THEN Cover(ctr.starts) ELSE Starts

EndRange == Cover({Iterate(s, BTC(s)) : s \in Starts})

\* Start and end are taken for the extremes without looking which is which.
BoundWithoutMonotone(C, known) ==
    IF /\ HasLoop(C) /\ "end" \in known /\ BTCComputable(C)
       /\ StartRange(known) # Word /\ EndRange # Word
    THEN IntersectWith(SignedRange(C, known), UnionWith(StartRange(known), EndRange))
    ELSE SignedRange(C, known)

\* As if every counter went up.
MonotoneUp(start, end) == Greatest(start) <= Least(end)

\* From the start to the end in the direction of the step.
Monotone(start, end) ==
    IF ctr.step < 0 THEN Least(start) >= Greatest(end) ELSE Greatest(start) <= Least(end)

\* boundOverflowOperand for the counter; the other operand is a constant.
BoundOverflowOperand(C, known) ==
    IF /\ HasLoop(C) /\ "end" \in known /\ BTCComputable(C)
       /\ StartRange(known) # Word /\ EndRange # Word
       /\ Monotone(StartRange(known), EndRange)
    THEN IntersectWith(SignedRange(C, known), UnionWith(StartRange(known), EndRange))
    ELSE SignedRange(C, known)

-----------------------------------------------------------------------------
(* The count of the handler calls.                                         *)

Sites(C) == {b \in DOMAIN C : IsUBSanSite(C, b)}

\* Overflow handlers only (IsSignedOverflowSite).
CountOverflows(C) == Cardinality({b \in DOMAIN C : C[b].site = "overflow"})

\* UBSanCountAnalysis::run and total: the calls of every kind, added up.
Count(C) ==
    LET kinds == {C[b].site : b \in Sites(C)}
        CountsByKind == [k \in kinds |-> Cardinality({b \in Sites(C) : C[b].site = k})]
        total[K \in SUBSET kinds] ==
            IF K = {} THEN 0
            ELSE LET k == CHOOSE k \in K : TRUE IN CountsByKind[k] + total[K \ {k}]
    IN  total[kinds]

\* The printer asks for the analysis, whose result is never invalidated.
GetResult == IF counted = NotCounted THEN Count(F) ELSE counted

-----------------------------------------------------------------------------
Init ==
    /\ pc = "begin"
    /\ program \in Programs
    /\ F = program.blocks
    /\ Clone = NoFunction
    /\ todo = {}
    /\ Removable = {}
    /\ counted = NotCounted
    /\ early = FALSE
    /\ printed = NotCounted
    /\ at = "entry"
    /\ counter = 0
    /\ faults = {}

\* "print<ubsan-count>" before the other passes of a pipeline.
PrintEarly ==
    /\ pc = "begin" /\ ~ early
    /\ early' = TRUE
    /\ counted' = GetResult
    /\ UNCHANGED <<pc, passVars, printed, runVars>>

\* CollectOverflowInstructions and CloneFunction.
Collect ==
    /\ pc = "begin"
    /\ todo' = {b \in DOMAIN F : F[b].wo}
    /\ IF todo' = {} THEN Clone' = NoFunction /\ pc' = "optimised"
       ELSE Clone' = F /\ pc' = "clone"
    /\ UNCHANGED <<program, F, Removable, countVars, runVars>>

\* One turn of straightenOverflowBranches, on the clone.
StraightenClone(b) ==
    /\ pc = "clone" /\ b \in todo
    /\ Clone' = Straighten(Clone, b)
    /\ todo' = todo \ {b}
    /\ UNCHANGED <<pc, program, F, Removable, countVars, runVars>>

\* CollectRemovableFromClone, with the questions that the analyses can answer.
\* A check whose twin was deleted from the clone is kept.
Decide ==
    /\ pc = "clone" /\ todo = {}
    /\ \E known \in SUBSET {"range", "edge", "end"} :
          Removable' = {b \in DOMAIN Clone :
              Clone[b].wo /\ RangesProveNoOverflow(BoundOverflowOperand(Clone, known), ctr.step)}
    /\ Clone' = NoFunction
    /\ pc' = "decided"
    /\ UNCHANGED <<program, F, todo, countVars, runVars>>

\* Every use of the flag of a removable check becomes false.
Optimize ==
    /\ pc = "decided"
    /\ F' = [b \in DOMAIN F |->
                IF b \in Removable THEN [F[b] EXCEPT !.tests = @ \ {"overflow"}] ELSE F[b]]
    /\ pc' = "optimised"
    /\ UNCHANGED <<program, Clone, todo, Removable, countVars, runVars>>

\* The comparison of any pointer with null.
ComparesToNull(C, b) == C[b].icmps # {}

\* comparesSretToNull for a comparison in block b.
ComparesSretToNull(C, b) == "null" \in C[b].icmps

\* The null checks that UBSanOptimizeSretNullChecks finds.
CollectNullChecks ==
    /\ pc = "optimised"
    /\ todo' = {b \in DOMAIN F : ComparesSretToNull(F, b)}
    /\ pc' = "sret"
    /\ UNCHANGED <<program, F, Clone, Removable, countVars, runVars>>

\* The branch at the end of the comparison's block is straightened, whatever it
\* tests, and every use of the comparison becomes false.
OptimizeNullCheck(b) ==
    /\ pc = "sret" /\ b \in todo
    /\ LET D == Straighten(F, b)
       IN  F' = [x \in DOMAIN D |-> [D[x] EXCEPT !.tests = @ \ {"null"}]]
    /\ todo' = todo \ {b}
    /\ UNCHANGED <<pc, program, Clone, Removable, countVars, runVars>>

\* SimplifyCFG: a branch without a condition is a jump, and what cannot be
\* reached is dropped.
SimplifyCFG ==
    /\ pc = "sret" /\ todo = {}
    /\ LET D == [b \in DOMAIN F |->
                    IF Len(F[b].succ) = 2 /\ F[b].tests = {}
                    THEN [F[b] EXCEPT !.succ = <<F[b].succ[2]>>] ELSE F[b]]
       IN  F' = [b \in {x \in DOMAIN D : Reaches(D, "entry", x)} |-> D[b]]
    /\ pc' = "simplified"
    /\ UNCHANGED <<program, Clone, todo, Removable, countVars, runVars>>

\* The printer at the very end of the pipeline.
PrintRemaining ==
    /\ pc = "simplified"
    /\ counted' = GetResult
    /\ printed' = GetResult
    /\ pc' = "compiled"
    /\ UNCHANGED <<passVars, early, runVars>>

-----------------------------------------------------------------------------
\* What a branch of the function tests.
Tests == UNION {program.blocks[b].tests : b \in DOMAIN program.blocks}

\* The function is called.  Its counter starts with what the guards before the
\* loop let through; the result pointer is never null.
Call ==
    /\ pc = "compiled"
    /\ counter' \in ctr.starts
    /\ faults' \in SUBSET (Tests \cap {"misaligned", "argnull"})
    /\ pc' = "run"
    /\ UNCHANGED <<passVars, countVars, at>>

Overflows(i) == i + ctr.step \notin Word

Holds(test) ==
    \/ test = "overflow" /\ Overflows(counter)
    \/ test = "exit" /\ Exits(counter)
    \/ test \in faults

\* Where block b of function C branches to.
Target(C, b) ==
    IF Len(C[b].succ) = 2 /\ ~ \E t \in C[b].tests : Holds(t) THEN C[b].succ[2]
    ELSE C[b].succ[1]

Step ==
    /\ pc = "run"
    /\ IF F[at].succ = <<>> THEN pc' = "done" /\ UNCHANGED <<at, counter>>
       ELSE /\ at' = Target(F, at)
            /\ counter' = IF at = "latch" THEN Wrap(counter + ctr.step) ELSE counter
            /\ UNCHANGED pc
    /\ UNCHANGED <<passVars, countVars, faults>>

Next ==
    \/ PrintEarly \/ Collect \/ Decide \/ Optimize \/ CollectNullChecks
    \/ SimplifyCFG \/ PrintRemaining \/ Call \/ Step
    \/ \E b \in todo : StraightenClone(b) \/ OptimizeNullCheck(b)

Spec == Init /\ [][Next]_vars

-----------------------------------------------------------------------------
(* Properties. *)

\* Variables keep their types, and no branch of the function or of its clone
\* leads to a block that was deleted.
TypeOK ==
    /\ pc \in {"begin", "clone", "decided", "optimised", "sret", "simplified",
               "compiled", "run", "done"}
    /\ program \in Programs
    /\ \A C \in {F, Clone} : \A b \in DOMAIN C :
          b \in DOMAIN program.blocks /\ Succs(C, b) \subseteq DOMAIN C
    /\ todo \subseteq DOMAIN program.blocks /\ Removable \subseteq DOMAIN program.blocks
    /\ counted \in Nat \cup {NotCounted} /\ printed \in Nat \cup {NotCounted}
    /\ early \in BOOLEAN
    /\ at \in DOMAIN program.blocks /\ counter \in Word /\ faults \subseteq Tests

\* A loop that is left only when the counter is equal to the bound, in steps of more
\* than one: some of them step over the bound, wrap and arrive all the same.
MayStepOver == HasLoop(program.blocks) /\ ctr.exit = "ne" /\ ctr.step \notin {-1, 1}

\* "Returns true when the overflow is provably impossible, i.e. the UBSan check
\* is dead and removable" (UBSanCountPass.cpp:100): the sum of a check that was
\* removed never overflows, in the function as it runs, whatever the analyses
\* could answer.  A counter that may step over its bound is the exception, for which
\* the code breaks that promise: its start and end need not bound what is in between.
NoSilentOverflow ==
    (pc = "run" /\ at \in Removable) => MayStepOver \/ ~ Overflows(counter)

\* The compiled function branches as the one the front end made does, and so
\* reports what that one reports.  The exceptions are the check of a counter that
\* may step over its bound, and a branch at the end of a block in which the
\* result pointer is compared with null, which goes whatever else it tests: the
\* handler is not, as UBSanCountPass.cpp:411-412 says, unreachable then.
ReportsKept ==
    (pc = "run" /\ F[at].succ # <<>>) =>
        \/ Target(F, at) = Target(program.blocks, at)
        \/ at \in Removable /\ MayStepOver
        \/ "null" \in program.blocks[at].icmps

\* The loops the pass was written for (test/test.cpp: testRotation and
\* testCopyOptimized): the check of a counter that is counted down to zero from a
\* start known not to be negative is found removable, wherever in the loop the
\* check is and whether its handler returns, when the analyses answer.
CountdownFreed ==
    (/\ pc = "clone" /\ todo = {} /\ HasLoop(Clone)
     /\ ctr.step = -1 /\ ctr.exit = "ne" /\ ctr.bound = 0 /\ ctr.starts \subseteq Nat)
    => RangesProveNoOverflow(BoundOverflowOperand(Clone, {"edge", "end"}), ctr.step)

\* A branch that still leads to its handler in the compiled function.
StillGuards(b) ==
    /\ "null" \notin program.blocks[b].icmps
    /\ program.blocks[b].tests \ {"null"} # {}
    /\ b \in Removable => program.blocks[b].tests # {"overflow"}

\* The handlers some branch to which was neither removed nor straightened.
Survivors ==
    {h \in Sites(program.blocks) : \E b \in Preds(program.blocks, h) : StillGuards(b)}

\* "Report the surviving UBSan site count at the very end of the pipeline (after
\* everything else has run)" (UBSanCountPass.cpp:575-576): the count is that of the
\* survivors, in a pipeline that prints no count before.  One that does prints the
\* old number again, which the code keeps (UBSanCountPass.h:20) against that comment.
SurvivorsReported ==
    printed # NotCounted /\ ~ early => printed = Cardinality(Survivors)
-----------------------------------------------------------------------------
(* What holds in every reachable state, and so makes TypeOK, NoSilentOverflow
   and ReportsKept hold. *)

\* Blocks that no pass takes for the handler of a check.
Plain == {b \in DOMAIN program.blocks : program.blocks[b].site = "none"}

\* The function and its clone are graphs; only handlers are deleted from them until
\* SimplifyCFG, so what is still to be looked at is there.
GraphsOK ==
    /\ Closed(F) /\ Closed(Clone)
    /\ DOMAIN F \cup DOMAIN Clone \subseteq DOMAIN program.blocks
    /\ "entry" \in DOMAIN F
    /\ todo \subseteq Plain
    /\ pc \in {"begin", "clone", "decided"} => F = program.blocks
    /\ pc \in {"optimised", "sret"} => Plain \subseteq DOMAIN F
    /\ pc = "clone" => Plain \subseteq DOMAIN Clone
    /\ pc = "sret" => \A b \in todo : "null" \in program.blocks[b].icmps
    /\ \A b \in DOMAIN Clone : Clone[b].site = program.blocks[b].site

\* Conditions that the passes may take out of what block b tests.
Lost(b) == {"null"} \cup (IF b \in Removable THEN {"overflow"} ELSE {})

\* Block b branches as before, or jumps where it went when nothing it tested held.
SameBranch(b) ==
    /\ program.blocks[b].tests \ Lost(b) \subseteq F[b].tests
    /\ F[b].tests \subseteq program.blocks[b].tests
    /\ \/ F[b].succ = program.blocks[b].succ
       \/ /\ F[b].tests = {} /\ Len(program.blocks[b].succ) = 2
          /\ F[b].succ = <<program.blocks[b].succ[2]>>

\* The function's blocks against those of the front end.
BranchesOK ==
    \A b \in DOMAIN F :
        /\ F[b].icmps = program.blocks[b].icmps /\ F[b].site = program.blocks[b].site
        /\ Succs(F, b) \subseteq Succs(program.blocks, b)
        /\ "null" \notin program.blocks[b].icmps => SameBranch(b)

\* What the counter can be: as many steps from a start as no test forbade.
Visited ==
    IF HasLoop(program.blocks)
    THEN {i \in Word : \E s \in ctr.starts, k \in 0 .. 2 * Half :
             i = Iterate(s, k) /\ \A j \in 0 .. k - 1 : ~ Exits(Iterate(s, j))}
    ELSE ctr.starts

\* A check is found removable only if its sum cannot overflow.
RemovableOK ==
    /\ Removable \subseteq DOMAIN program.blocks
    /\ pc \in {"begin", "clone"} => Removable = {}
    /\ Removable # {} => MayStepOver \/ \A i \in Visited : ~ Overflows(i)

\* The blocks of the loop after its test.
Past == CHOOSE P \in SUBSET DOMAIN program.blocks : AfterTest(program.blocks, P)

\* The run: the counter is what it can be, and past the test it does not exit.
RunOK ==
    /\ pc \in {"run", "done"} =>
          /\ counter \in Visited
          /\ faults \subseteq {"misaligned", "argnull"}
          /\ HasLoop(program.blocks) /\ at \in Past => ~ Exits(counter)
    /\ pc \notin {"run", "done"} => at = "entry"
    /\ at \in DOMAIN F

Inductive == TypeOK /\ GraphsOK /\ BranchesOK /\ RemovableOK /\ RunOK
=============================================================================
