------------------------------ MODULE FuncRun ------------------------------
(***************************************************************************)
(* ClacState::exec_function (src/src/lib.rs): the interpreter's loop over  *)
(* the instructions of one function.  The slice on the call stack is the   *)
(* rest of the function, so it is the position pc; a function that calls   *)
(* returns to the same slice, whatever the callee made of the stack.       *)
(***************************************************************************)
EXTENDS BlockGraph, ClacExec

CONSTANTS
    Names,          \* function names
    Codes,          \* functions to run
    Defined,        \* names of the functions that exist
    InitStacks,     \* stacks to run them on
    CalleeStacks    \* stacks a callee may leave

\* A function that has no graph is a program's error that stops the analysis.
ASSUME GraphAssumption == \A f \in Codes : GraphExists(f)
ASSUME CodesAssumption == Codes \subseteq Seq(ParsedInstr(Names, Int))
ASSUME StacksAssumption == InitStacks \cup CalleeStacks \subseteq Seq(Int)

VARIABLES
    func,
    graph,          \* its block graph, which the loop does not use (auxiliary)
    pc,             \* instructions before the remaining slice
    st,             \* the stack
    status          \* "run", "returned", or how it ended

vars == <<func, graph, pc, st, status>>

Init ==
    /\ func \in Codes
    /\ graph = GraphOf(func)
    /\ st \in InitStacks
    /\ pc = 0
    /\ status = "run"

Running  == status = "run" /\ pc < Len(func)
Here     == At(func, pc)
Rest     == Len(func) - pc - 1      \* xs.len()

Continue(next, stack) == pc' = next /\ st' = stack /\ UNCHANGED <<func, graph, status>>
Stop(tag, stack)      == status' = tag /\ st' = stack /\ UNCHANGED <<func, graph, pc>>

\* `ExecRes::Executed'
StepExecuted ==
    /\ Running /\ Here.op # "call"
    /\ \E o \in Exec(Here, st) : o.tag = "executed" /\ Continue(pc + 1, o.st)

\* Mutants of StepSkip: no bound, and a skip counted from the instruction itself.
StepSkipUnchecked ==
    /\ Running /\ Here.op # "call"
    /\ \E o \in Exec(Here, st) : o.tag = "skip" /\ Continue(pc + 1 + o.n, o.st)

StepSkipShort ==
    /\ Running /\ Here.op # "call"
    /\ \E o \in Exec(Here, st) :
         /\ o.tag = "skip"
         /\ IF o.n <= Rest THEN Continue(pc + o.n, o.st) ELSE Stop("badskip", o.st)

\* `ExecRes::Skip(n)' with xs.split_at_checked(n)
StepSkip ==
    /\ Running /\ Here.op # "call"
    /\ \E o \in Exec(Here, st) :
         /\ o.tag = "skip"
         /\ IF o.n <= Rest THEN Continue(pc + 1 + o.n, o.st) ELSE Stop("badskip", o.st)

\* `execute(...)?' returns an error, or does not return
StepFails ==
    /\ Running /\ Here.op # "call"
    /\ \E o \in Exec(Here, st) : o.tag \notin {"executed", "skip"} /\ Stop(o.tag, o.st)

\* Mutant of StepCall: the call stays on the slice.
StepCallAgain ==
    /\ Running /\ Here.op = "call" /\ Here.f \in Defined
    /\ \E new \in CalleeStacks : Continue(pc, new)

StepCall ==
    /\ Running /\ Here.op = "call" /\ Here.f \in Defined
    /\ \E new \in CalleeStacks : Continue(pc + 1, new)

\* UnknownFunction
StepUnknown ==
    /\ Running /\ Here.op = "call" /\ Here.f \notin Defined
    /\ Stop("unknown", st)

\* The remaining slice is empty.
Return == status = "run" /\ pc = Len(func) /\ Stop("returned", st)

Next == StepExecuted \/ StepSkip \/ StepFails \/ StepCall \/ StepUnknown \/ Return

Spec     == Init /\ [][Next]_vars
FairSpec == Spec /\ WF_vars(Next)

-----------------------------------------------------------------------------
\* Types.
TypeOK ==
    /\ func \in Codes
    /\ pc \in 0..Len(func)
    /\ st \in Seq(Int)
    /\ status \in {"run", "returned", "missing", "badskip", "badpick", "baddrop",
                   "badexponent", "unknown", "quit", "panic", "wild"}

\* "it is impossible for a clac program to jump backward" (analysis.rs:594):
\* each step leaves its instruction behind.
ForwardOnly == [][status' = "run" => pc' > pc]_vars

\* A function whose callees return ends: the loop cannot run forever.
Terminates == <>(status # "run")

-----------------------------------------------------------------------------
(***************************************************************************)
(* The refinement.  The block machine is at the first position not folded  *)
(* away at or after pc, and its stack lacks the literals that were pushed  *)
(* but will be consumed there.                                             *)
(***************************************************************************)
BlockStart == CHOOSE s \in DOMAIN graph : s <= pc /\ pc < graph[s].end
Block      == graph[BlockStart]

LocsHere ==
    DOMAIN Block.code
    \cup (IF At(func, Block.end - 1).op \in ControlOps THEN {Block.end - 1} ELSE {})

Loc ==
    IF pc = Len(func) THEN pc
    ELSE CHOOSE l \in LocsHere : l >= pc /\ \A m \in LocsHere : m >= pc => l <= m

\* How many literals are folded into what happens at l.
Folded(l) ==
    CASE l \notin DOMAIN Block.code ->
            IF EndsInConstSkip(func, BlockStart, Block.end) THEN 1 ELSE 0
      [] l \in DOMAIN Block.code /\ Block.code[l].op = "rpick" -> 1
      [] l \in DOMAIN Block.code /\ Block.code[l].op = "rdrop" -> 2
      [] l \in DOMAIN Block.code /\ Block.code[l].op \notin {"rpick", "rdrop"} -> 0

Pending ==
    IF status # "run" \/ pc = Len(func) THEN 0
    ELSE Folded(Loc) - (Loc - pc)

Blocks == INSTANCE BlockMachine WITH loc <- Loc, st <- Pop(st, Pending)

\* The interpreter implements the block machine: the graph executes the same
\* instructions on the same stack, in the same order, to the same end.
ImplementsBlocks == Blocks!Spec

\* What folding relies on (TODO at analysis.rs:211): whenever control is
\* between folded literals and their consumer, those literals are on top.
LiteralsOnTop ==
    \A k \in 1..Pending :
        /\ Len(st) >= k
        /\ FromTop(st, k) = At(func, pc - k).n
=============================================================================
