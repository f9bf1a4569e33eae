----------------------------- MODULE BlockGraph -----------------------------
(***************************************************************************)
(* The block graph of one function (src/src/jit/analysis.rs) as operators  *)
(* on its code f: what resolve_drops_and_picks folds, the terminator of a  *)
(* block, and the whole graph in closed form.  FuncGraph has the loops     *)
(* that build it.  Positions count from 0, as in the code.                 *)
(*                                                                         *)
(* A block's resolved code is a function from positions to instructions:   *)
(* the literals that are folded into a pick or a drop_range have no        *)
(* position, everything else keeps its own.  A Next is a position too: a   *)
(* block's start, Len(f) for Terminate, Len(f) + 1 for Trap.               *)
(***************************************************************************)
EXTENDS ClacInstr

At(f, j) == f[j + 1]

MinInt(a, b) == IF a < b THEN a ELSE b

ConstLitAt(f, j) == j >= 0 /\ IsLit(At(f, j)) /\ IsUsize(At(f, j).n)

\* resolve_drops_and_picks, in the block that starts at s.
FoldsPick(f, s, j) == At(f, j).op = "pick" /\ j - 1 >= s /\ ConstLitAt(f, j - 1)
FoldsDrop(f, s, j) ==
    At(f, j).op = "droprange" /\ j - 2 >= s
    /\ ConstLitAt(f, j - 2) /\ ConstLitAt(f, j - 1)

Eaten(f, s, e, j) ==
    \/ j + 1 < e /\ (FoldsPick(f, s, j + 1) \/ FoldsDrop(f, s, j + 1))
    \/ j + 2 < e /\ FoldsDrop(f, s, j + 2)

Kept(f, s, e) == {j \in s..(e - 1) : ~ Eaten(f, s, e, j)}

Resolved(f, s, j) ==
    IF FoldsPick(f, s, j) THEN Pick(At(f, j - 1).n)
    ELSE IF FoldsDrop(f, s, j) THEN DropRange(At(f, j - 2).n, At(f, j - 1).n)
    ELSE At(f, j)

\* The two assert!s on what was folded.
AssertsHold(f, s, e) ==
    \A j \in s..(e - 1) :
        /\ FoldsPick(f, s, j) => At(f, j - 1).n >= 1
        /\ FoldsDrop(f, s, j) => At(f, j - 2).n >= At(f, j - 1).n

\* Mutant of EndsInConstSkip: the literal may stand in the block before.
EndsAfterConst(f, s, e) == At(f, e - 1).op = "skip" /\ ConstLitAt(f, e - 2)

\* A skip whose literal stands before it in its own block.  (Nothing folds
\* that literal: the instruction after it is the skip.)
EndsInConstSkip(f, s, e) ==
    At(f, e - 1).op = "skip" /\ e - 2 >= s /\ ConstLitAt(f, e - 2)

\* Mutant of Target: a jump too far terminates instead of trapping.
TargetClipped(f, idx) == MinInt(idx, Len(f))

\* What get_next makes of a position.
Target(f, idx) == MinInt(idx, Len(f) + 1)

Terminator(f, s, e) ==
    CASE At(f, e - 1).op = "if" ->
            [kind |-> "if", targets |-> <<Target(f, e), Target(f, e + 3)>>]
      [] EndsInConstSkip(f, s, e) ->
            [kind |-> "jump", targets |-> <<Target(f, e + At(f, e - 2).n)>>]
      [] At(f, e - 1).op = "skip" /\ ~ EndsInConstSkip(f, s, e) ->
            [kind |-> "skip", targets |-> [t \in 1..(Len(f) - e + 1) |-> e + t - 1]]
      [] At(f, e - 1).op \notin ControlOps ->
            [kind |-> "jump", targets |-> <<Target(f, e)>>]

\* The block without its terminator (and without a constant skip's literal).
BodyOf(f, s, e) ==
    Kept(f, s, e) \ (IF EndsInConstSkip(f, s, e) THEN {e - 1, e - 2}
                     ELSE IF At(f, e - 1).op \in ControlOps THEN {e - 1} ELSE {})

BlockAt(f, s, e) ==
    [end |-> e, code |-> [j \in BodyOf(f, s, e) |-> Resolved(f, s, j)],
     term |-> Terminator(f, s, e)]

-----------------------------------------------------------------------------
(***************************************************************************)
(* The graph in closed form.  BreaksUpTo(f)[n] are the breaks known after  *)
(* scanning n instructions; the blocks start at 0 and at the breaks inside *)
(* the function.                                                           *)
(***************************************************************************)
NewBreaks(f, old, j) ==
    CASE At(f, j).op = "if" -> {j + 1, j + 4}
      [] At(f, j).op = "skip" ->
            IF j \notin old /\ ConstLitAt(f, j - 1)
            THEN {j + 1, j + 1 + At(f, j - 1).n} ELSE (j + 1)..Len(f)
      [] At(f, j).op \notin ControlOps -> {}

BreaksUpTo(f) ==
    LET breaksUpTo[n \in 0..Len(f)] ==
            IF n = 0 THEN {}
            ELSE breaksUpTo[n - 1] \cup NewBreaks(f, breaksUpTo[n - 1], n - 1)
    IN breaksUpTo

StartsOf(f) == {b \in {0} \cup BreaksUpTo(f)[Len(f)] : b < Len(f)}

EndIn(f, starts, s) ==
    CHOOSE e \in starts \cup {Len(f)} :
        s < e /\ \A t \in starts : t > s => e <= t

GraphOf(f) ==
    LET starts == StartsOf(f)
    IN [s \in starts |-> BlockAt(f, s, EndIn(f, starts, s))]

\* No pick of 0 and no drop_range of more than its start is folded.
GraphExists(f) ==
    LET starts == StartsOf(f)
    IN \A s \in starts : AssertsHold(f, s, EndIn(f, starts, s))
=============================================================================
