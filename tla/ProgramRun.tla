----------------------------- MODULE ProgramRun -----------------------------
(***************************************************************************)
(* What the signatures that analyze solves promise of a running program.   *)
(* After the analysis of Analyze, one of the solved functions is entered   *)
(* on a stack exactly as high as its reach, as its compiled signature has  *)
(* that many parameters (to_cranelift_signature), and runs, block by block *)
(* and call by call.  Of the stack only the depth is kept; an if or a      *)
(* dynamic skip takes any of its edges.                                    *)
(***************************************************************************)
EXTENDS Analyze

CONSTANT MaxFrames      \* bound on nested calls

ASSUME FramesAssumption == MaxFrames \in Nat \ {0}

VARIABLES
    status,     \* "ready", "running", "returned", "trapped" or "quit"
    frames,     \* the calls in progress, innermost last
    depth       \* height of the stack

\* A frame: function f, at position pos of the block that starts at start
\* (which is Len of the code when the function is over), entered at depth base.
Frame(f, base) == [f |-> f, start |-> 0, pos |-> 0, base |-> base]

run == <<status, frames, depth>>

Top == frames[Len(frames)]

Under == SubSeq(frames, 1, Len(frames) - 1)

InBlock == status = "running" /\ Top.start < Len(prog[Top.f])

BlockOfTop == graphs[Top.f][Top.start]

\* An instruction of the block is next; the folded literals are gone from it.
AtInstr == InBlock /\ Top.pos < BlockOfTop.end

Here == Resolved(prog[Top.f], Top.start, Top.pos)

Folded == Eaten(prog[Top.f], Top.start, BlockOfTop.end, Top.pos)

Advance == [frames EXCEPT ![Len(frames)].pos = @ + 1]

-----------------------------------------------------------------------------
RunInit == Init /\ status = "ready" /\ frames = << >> /\ depth = 0

Analyzing == status = "ready" /\ Next /\ UNCHANGED run

Enter ==
    /\ status = "ready" /\ phase = "done"
    /\ \E f \in DOMAIN sigs :
         /\ frames' = <<Frame(f, sigs[f].reach)>>
         /\ depth' = sigs[f].reach
    /\ status' = "running"
    /\ UNCHANGED vars

\* A literal that a pick or drop_range of the block holds: no instruction.
StepOver ==
    /\ AtInstr /\ Folded
    /\ frames' = Advance
    /\ UNCHANGED <<vars, status, depth>>

StepExecuted ==
    /\ AtInstr /\ ~ Folded
    /\ Here.op \notin {"call", "quit"}
    /\ depth' = depth + Delta(Here, sigs).val
    /\ frames' = Advance
    /\ UNCHANGED <<vars, status>>

StepQuit ==
    /\ AtInstr /\ ~ Folded /\ Here.op = "quit"
    /\ status' = "quit"
    /\ UNCHANGED <<vars, frames, depth>>

StepCall ==
    /\ AtInstr /\ ~ Folded /\ Here.op = "call"
    /\ Len(frames) < MaxFrames
    /\ frames' = Append(Advance, Frame(Here.f, depth))
    /\ UNCHANGED <<vars, status, depth>>

\* The terminator's edges.
Leave(t) ==
    /\ InBlock /\ Top.pos = BlockOfTop.end
    /\ t \in Range(BlockOfTop.term.targets)

\* Mutant of Jump: a trapping edge is taken for a block.
JumpAnywhere ==
    /\ \E t \in 0..(Len(prog[Top.f]) + 1) :
         /\ Leave(t)
         /\ frames' = [frames EXCEPT ![Len(frames)].start = t, ![Len(frames)].pos = t]
    /\ UNCHANGED <<vars, status, depth>>

Jump ==
    /\ \E t \in 0..Len(prog[Top.f]) :
         /\ Leave(t)
         /\ frames' = [frames EXCEPT ![Len(frames)].start = t, ![Len(frames)].pos = t]
    /\ UNCHANGED <<vars, status, depth>>

Trap ==
    /\ Leave(Len(prog[Top.f]) + 1)
    /\ status' = "trapped"
    /\ UNCHANGED <<vars, frames, depth>>

AtReturn == status = "running" /\ Top.start = Len(prog[Top.f])

Return ==
    /\ AtReturn
    /\ frames' = Under
    /\ status' = IF Under = << >> THEN "returned" ELSE status
    /\ UNCHANGED <<vars, depth>>

RunNext ==
    \/ Analyzing \/ Enter
    \/ StepOver \/ StepExecuted \/ StepQuit \/ StepCall
    \/ status = "running" /\ Jump
    \/ status = "running" /\ Trap
    \/ Return

RunSpec == RunInit /\ [][RunNext]_<<vars, run>>

-----------------------------------------------------------------------------
\* Types.
RunTypeOK ==
    /\ TypeOK
    /\ status \in {"ready", "running", "returned", "trapped", "quit"}
    /\ depth \in Int
    /\ Len(frames) <= MaxFrames
    /\ \A i \in DOMAIN frames :
         /\ frames[i].f \in DOMAIN prog
         /\ frames[i].start \in DOMAIN graphs[frames[i].f] \cup {Len(prog[frames[i].f])}

\* Only solved functions run: whoever has a signature calls nothing without.
CalleesSolved == \A i \in DOMAIN frames : frames[i].f \in DOMAIN sigs

\* The reach is deep enough on every path and through every call: no
\* instruction looks below the parameters of the function it stands in, and a
\* callee's parameters are all there.
StaysAboveReach ==
    AtInstr /\ ~ Folded =>
        depth - Reach(Here, sigs).val >= Top.base - sigs[Top.f].reach

\* The delta is right on every path: a function that returns has a delta, and
\* leaves the stack exactly that much higher.
ReturnsDelta ==
    AtReturn => /\ ~ sigs[Top.f].never
                /\ depth = Top.base + sigs[Top.f].delta

\* "TODO: prove theorem where in all well defined functions, all entrypoints
\* to any given block must have the same stack delta" (analysis.rs:288): the
\* depth at a block is fixed by the deltas of the paths from it.
EntriesAgree ==
    InBlock /\ Top.pos = Top.start =>
        depth - Top.base = paths[Top.f][0] - paths[Top.f][Top.start]
=============================================================================
