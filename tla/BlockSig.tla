------------------------------ MODULE BlockSig ------------------------------
(***************************************************************************)
(* get_delta_and_reach (src/src/jit/analysis.rs): the loop that gives a    *)
(* basic block its signature.  One action per kind of iteration.           *)
(*                                                                         *)
(* The code computes with Z3 terms.  A term is modelled by its value under *)
(* an assignment to the solver's variables: `scc' assigns the callees of   *)
(* the component being solved, and each fresh "anything" constant takes a  *)
(* value of FreshValues.  What holds for every assignment holds for the    *)
(* term.                                                                   *)
(***************************************************************************)
EXTENDS ClacInstr

CONSTANTS
    Names,          \* function names
    Blocks,         \* resolved blocks the loop is run on
    Known,          \* signatures of the components solved before
    Assignments,    \* assignments to the variables of this component
    FreshValues     \* values of the fresh constants

ASSUME BlocksAssumption == Blocks \subseteq Seq(Instr(Names))

SigsTyped(sigs) ==
    /\ DOMAIN sigs \subseteq Names
    /\ \A f \in DOMAIN sigs : sigs[f] \in Sig

ASSUME KnownAssumption == SigsTyped(Known)
ASSUME AssignmentsAssumption ==
    \A scc \in Assignments :
        /\ SigsTyped(scc)
        /\ \A f \in DOMAIN scc : ~ scc[f].never
ASSUME FreshAssumption == FreshValues \subseteq Int

VARIABLES
    block,      \* the argument
    scc,        \* the assignment
    k,          \* instructions processed
    cur,        \* cur_stack
    peak,       \* peak_reach
    result,     \* "running", "some" or "none"
    anything,   \* a fresh constant went into cur_stack (history)
    trace       \* <<reach, cur_stack before>> of each instruction (history)

vars == <<block, scc, k, cur, peak, result, anything, trace>>

\* Mutant of MaxInt: the last reach counts, not the greatest.
LatterInt(a, b) == b

MaxInt(a, b) == IF a > b THEN a ELSE b

Init ==
    /\ block \in Blocks
    /\ scc \in Assignments
    /\ k = 0 /\ cur = 0 /\ peak = 0
    /\ result = "running"
    /\ anything = FALSE /\ trace = << >>

\* The instruction this iteration looks at.
Here == block[k + 1]

\* Mutant of Resolvable: callees of this component count as unresolved.
ResolvableBefore(x) ==
    /\ Reach(x, Known).tag \notin {"notdeterminable", "unresolved"}
    /\ Delta(x, Known).tag # "notdeterminable"

\* `.or_else(...)?' : a callee that is neither solved nor of this component.
Resolvable(x) ==
    /\ Reach(x, Known).tag # "notdeterminable"
    /\ Delta(x, Known).tag # "notdeterminable"
    /\ Reach(x, Known).tag = "unresolved" => x.f \in DOMAIN scc

ReachOf(x) == IF Reach(x, Known).tag = "ok" THEN Reach(x, Known).val ELSE scc[x.f].reach
DeltaOf(x) == IF Delta(x, Known).tag = "ok" THEN Delta(x, Known).val ELSE scc[x.f].delta

\* Mutants of Look: cur_stack added, or forgotten.
LookAdding ==
    /\ peak' = MaxInt(peak, ReachOf(Here) + cur)
    /\ trace' = Append(trace, [need |-> ReachOf(Here), at |-> cur])
    /\ k' = k + 1
    /\ UNCHANGED <<block, scc, result>>

LookAbsolute ==
    /\ peak' = MaxInt(peak, ReachOf(Here))
    /\ trace' = Append(trace, [need |-> ReachOf(Here), at |-> cur])
    /\ k' = k + 1
    /\ UNCHANGED <<block, scc, result>>

\* The part of an iteration that comes before cur_stack is updated.
Look ==
    /\ peak' = MaxInt(peak, ReachOf(Here) - cur)
    /\ trace' = Append(trace, [need |-> ReachOf(Here), at |-> cur])
    /\ k' = k + 1
    /\ UNCHANGED <<block, scc, result>>

StepKnown ==
    /\ result = "running" /\ k < Len(block)
    /\ Resolvable(Here) /\ Delta(Here, Known).tag # "anything"
    /\ Look
    /\ cur' = cur + DeltaOf(Here)
    /\ UNCHANGED anything

StepAnything ==
    /\ result = "running" /\ k < Len(block)
    /\ Resolvable(Here) /\ Delta(Here, Known).tag = "anything"
    /\ Look
    /\ \E d \in FreshValues : cur' = cur + d
    /\ anything' = TRUE

GiveUp ==
    /\ result = "running" /\ k < Len(block)
    /\ ~ Resolvable(Here)
    /\ result' = "none"
    /\ UNCHANGED <<block, scc, k, cur, peak, anything, trace>>

Finish ==
    /\ result = "running" /\ k = Len(block)
    /\ result' = "some"
    /\ UNCHANGED <<block, scc, k, cur, peak, anything, trace>>

Next == StepKnown \/ StepAnything \/ GiveUp \/ Finish

Spec == Init /\ [][Next]_vars

-----------------------------------------------------------------------------
\* Types: the loop counter stays in the block, the reach is a natural number
\* (so solve_reach's "Reach should be non-negative" cannot fail).
TypeOK ==
    /\ block \in Blocks
    /\ scc \in Assignments
    /\ k \in 0..Len(block)
    /\ cur \in Int
    /\ peak \in Nat
    /\ result \in {"running", "some", "none"}
    /\ anything \in BOOLEAN
    /\ trace \in Seq([need : Nat, at : Int])
    /\ Len(trace) = k

\* The Lemma of theorem/main.typ, of the callees met so far: none pops below its
\* reach.  The solver does not ensure it (run analyze_endless).
CalleesKeepReach ==
    \A j \in 1..k : block[j].op = "call" => DeltaOf(block[j]) >= - ReachOf(block[j])

\* Clac++ theorem (types.rs, "total delta >= -(peak reach)"): as long as no
\* never-typed instruction was met, and callees keep to it, the block pops no
\* deeper than its reach.
ClacTheorem == ~ anything /\ CalleesKeepReach => cur >= -peak

\* The reach is enough: a stack that starts peak_reach high holds, before each
\* instruction, at least the elements that instruction looks at.
ReachSuffices == \A j \in DOMAIN trace : peak + trace[j].at >= trace[j].need

\* The reach is needed: with one element less some instruction would look
\* below the bottom of the stack.
ReachNeeded ==
    peak > 0 => \E j \in DOMAIN trace : peak + trace[j].at = trace[j].need

\* A block has no signature only when an instruction really has no static
\* effect: a dynamic pick or drop_range, or a callee nobody could resolve.
NoneIsHonest ==
    result = "none" =>
        \E j \in DOMAIN block :
            \/ block[j].op \in {"pick", "droprange"}
            \/ /\ block[j].op = "call"
               /\ block[j].f \notin DOMAIN Known \cup DOMAIN scc

\* ... and a block with a signature has no such instruction anywhere.
SomeIsHonest ==
    result = "some" =>
        \A j \in DOMAIN block :
            /\ block[j].op \notin {"pick", "droprange"}
            /\ block[j].op = "call" => block[j].f \in DOMAIN Known \cup DOMAIN scc
=============================================================================
