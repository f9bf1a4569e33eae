--------------------------- MODULE FuncRunProofs ---------------------------
(***************************************************************************)
(* Proofs about FuncRun, for every function that has a graph: the loop of  *)
(* the interpreter implements the block machine.                           *)
(*                                                                         *)
(* A position of a block is hidden when nothing happens there in the       *)
(* graph: it is a literal folded into a pick, a drop_range or a constant   *)
(* skip that follows.  The interpreter pushes hidden literals and the      *)
(* block machine stands still (HiddenStep); at any other position both do  *)
(* the same, because the literals the block machine has folded are those   *)
(* on top of the interpreter's stack (LiteralsOnTop, SameOutcomes).        *)
(***************************************************************************)
EXTENDS FuncRun, ClacLemmas

-----------------------------------------------------------------------------
(* The block machine's operators are those of this module.                 *)

LEMMA SameExec == \A x, s : Blocks!Exec(x, s) = Exec(x, s)
BY DEF Blocks!Exec, Blocks!FailsEarly, Blocks!ArithOutcomes, Blocks!DropRangeFrom,
  Blocks!PickFrom, Blocks!RemoveRange, Blocks!Pops, Blocks!Push, Blocks!FromTop, Blocks!Pop,
  Blocks!SkipBy, Blocks!Executed, Blocks!Outcome, Blocks!ArithResult, Blocks!Overflows,
  Blocks!Power, Blocks!Exponents, Blocks!Quotient, Blocks!Magnitude, Blocks!Wrap, Blocks!Word,
  Blocks!LeastValue, Blocks!TwoTo, Blocks!Byte, Blocks!WidthNative, Blocks!IsUsize,
  Exec, FailsEarly, ArithOutcomes, DropRangeFrom, PickFrom, RemoveRange, Pops, Push,
  FromTop, Pop, SkipBy, Executed, Outcome, ArithResult, Overflows, Power, Exponents,
  Quotient, Magnitude, Wrap, Word, LeastValue, TwoTo, Byte, WidthNative, IsUsize

LEMMA SameGraph == \A f : Blocks!GraphOf(f) = GraphOf(f)
BY DEF Blocks!GraphOf, Blocks!BlockAt, Blocks!EndIn, Blocks!StartsOf, Blocks!BreaksUpTo,
  Blocks!NewBreaks, Blocks!BodyOf, Blocks!Terminator, Blocks!Target, Blocks!EndsInConstSkip,
  Blocks!Resolved, Blocks!Kept, Blocks!Eaten, Blocks!FoldsDrop, Blocks!FoldsPick,
  Blocks!ConstLitAt, Blocks!MinInt, Blocks!At, Blocks!ControlOps, Blocks!IsLit,
  Blocks!IsUsize, Blocks!Pick, Blocks!DropRange,
  GraphOf, BlockAt, EndIn, StartsOf, BreaksUpTo, NewBreaks, BodyOf, Terminator, Target,
  EndsInConstSkip, Resolved, Kept, Eaten, FoldsDrop, FoldsPick, ConstLitAt, MinInt, At,
  ControlOps, IsLit, IsUsize, Pick, DropRange

LEMMA SameStackOps ==
    /\ \A s, k : Blocks!Pop(s, k) = Pop(s, k)
    /\ \A s, k : Blocks!FromTop(s, k) = FromTop(s, k)
    /\ \A f, j : Blocks!At(f, j) = At(f, j)
    /\ Blocks!ControlOps = ControlOps
BY DEF Blocks!Pop, Blocks!FromTop, Blocks!At, Blocks!ControlOps, Pop, FromTop, At, ControlOps

-----------------------------------------------------------------------------
(* Where the block machine is.                                             *)

GraphBuilt == func \in Codes /\ graph = GraphOf(func)

LEMMA CodeTypes == ASSUME NEW f \in Codes PROVE IsCode(f) /\ Len(f) \in Nat
BY CodesAssumption DEF IsCode

LEMMA SamePositions ==
    /\ \A j : Blocks!BlockOf(j) = BlockIn(graph, j)
    /\ \A s : Blocks!Locs(s) = LocsOf(func, graph, s)
    /\ \A t : Blocks!Entry(t) = EntryOf(func, graph, t)
    /\ \A j : Blocks!After(j) = AfterOf(func, graph, j)
<1>1. \A j : Blocks!BlockOf(j) = BlockIn(graph, j)
  BY DEF Blocks!BlockOf, BlockIn
<1>2. \A s : Blocks!Locs(s) = LocsOf(func, graph, s)
  BY SameStackOps DEF Blocks!Locs, LocsOf
<1>3. \A S : Blocks!FirstOf(S) = FirstAmong(S)
  BY DEF Blocks!FirstOf, FirstAmong
<1>4. \A t : Blocks!Entry(t) = EntryOf(func, graph, t)
  BY <1>2, <1>3 DEF Blocks!Entry, EntryOf
<1>5. ASSUME NEW j PROVE Blocks!After(j) = AfterOf(func, graph, j)
  BY <1>1, <1>2, <1>3, <1>4 DEF Blocks!After, AfterOf
<1> QED
  BY <1>1, <1>2, <1>4, <1>5

LEMMA BlockOfGraph ==
    ASSUME GraphBuilt, NEW s, NEW e, IsBlock(func, s, e)
    PROVE  /\ DOMAIN graph = StartsOf(func) /\ s \in DOMAIN graph
           /\ graph[s].end = e /\ graph[s].term = Terminator(func, s, e)
           /\ DOMAIN graph[s].code = BodyOf(func, s, e)
           /\ \A j \in BodyOf(func, s, e) : graph[s].code[j] = Resolved(func, s, j)
           /\ Blocks!Locs(s) = LocsIn(func, s, e)
BY CodeTypes, GraphHasBlock, SamePositions DEF GraphBuilt

LEMMA BlockFound ==
    ASSUME GraphBuilt, NEW j \in 0..(Len(func) - 1),
           NEW x, x = CHOOSE s \in DOMAIN graph : s <= j /\ j < graph[s].end
    PROVE  x = StartAt(func, j)
BY CodeTypes, GraphFindsBlock DEF GraphBuilt

LEMMA BlockOfIs ==
    ASSUME GraphBuilt, NEW s, NEW e, IsBlock(func, s, e), NEW j \in s..(e - 1)
    PROVE  Blocks!BlockOf(j) = s
BY CodeTypes, BlockInIs, SamePositions DEF GraphBuilt

\* The mapping of the refinement as functions of the position.
LEMMA View ==
    GraphBuilt /\ pc \in 0..Len(func) =>
        /\ Loc = LocAt(func, pc)
        /\ Pending = IF status # "run" THEN 0 ELSE PendingAt(func, pc)
<1> SUFFICES ASSUME GraphBuilt, pc \in 0..Len(func)
             PROVE  /\ Loc = LocAt(func, pc)
                    /\ Pending = IF status # "run" THEN 0 ELSE PendingAt(func, pc)
  OBVIOUS
<1>1. CASE pc = Len(func)
  BY <1>1 DEF Loc, Pending, LocAt, PendingAt
<1>2. CASE pc # Len(func)
  <2> DEFINE s == StartAt(func, pc)
             e == EndAt(func, pc)
  <2>1. pc \in 0..(Len(func) - 1) /\ IsCode(func)
    BY <1>2, CodeTypes DEF GraphBuilt
  <2>2. IsBlock(func, s, e) /\ s <= pc /\ pc < e
    BY <2>1, BlockAtPosition
  <2>3. BlockStart = s
    BY <2>1, BlockFound DEF BlockStart
  <2> HIDE DEF s, e
  <2>4. /\ Block.end = e /\ DOMAIN Block.code = BodyOf(func, s, e)
        /\ \A j \in BodyOf(func, s, e) : Block.code[j] = Resolved(func, s, j)
    BY <2>2, <2>3, BlockOfGraph DEF Block
  <2>5. LocsHere = LocsIn(func, s, e)
    BY <2>4 DEF LocsHere, LocsIn
  <2>6. Loc = LocAt(func, pc)
    BY <1>2, <2>5 DEF Loc, LocAt, FirstFrom, s, e
  <2>7. ASSUME NEW l PROVE Folded(l) = FoldedAt(func, s, e, l)
    <3>1. CASE l \notin BodyOf(func, s, e)
      BY <2>3, <2>4, <3>1 DEF Folded, FoldedAt
    <3>2. CASE l \in BodyOf(func, s, e)
      <4>0. l \in DOMAIN Block.code /\ Block.code[l] = Resolved(func, s, l)
        BY <2>4, <3>2
      <4>1. CASE FoldsPick(func, s, l)
        <5>1. Block.code[l].op = "rpick"
          BY <4>0, <4>1 DEF Resolved, Pick
        <5> QED
          BY <3>2, <4>0, <4>1, <5>1 DEF Folded, FoldedAt
      <4>2. CASE FoldsDrop(func, s, l) /\ ~ FoldsPick(func, s, l)
        <5>1. Block.code[l].op = "rdrop"
          BY <4>0, <4>2 DEF Resolved, DropRange
        <5> QED
          BY <3>2, <4>0, <4>2, <5>1 DEF Folded, FoldedAt
      <4>3. CASE ~ FoldsDrop(func, s, l) /\ ~ FoldsPick(func, s, l)
        <5>1. l \in 0..(Len(func) - 1)
          <6>1. l \in s..(e - 1)
            BY <3>2 DEF BodyOf, Kept
          <6> QED
            BY <2>1, <2>2, <6>1, PositionInBlock
        <5>2. At(func, l) \in ParsedInstr(Names, Int)
          BY <5>1, ParsedAt, CodesAssumption DEF GraphBuilt
        <5>3. Block.code[l].op \notin {"rpick", "rdrop"}
          BY <4>0, <4>3, <5>2 DEF Resolved, ParsedInstr, FixedOps
        <5> QED
          BY <3>2, <4>0, <4>3, <5>3 DEF Folded, FoldedAt
      <4> QED
        BY <4>1, <4>2, <4>3
    <3> QED
      BY <3>1, <3>2
  <2> QED
    BY <1>2, <2>6, <2>7 DEF Pending, PendingAt, s, e
<1> QED
  BY <1>1, <1>2

LEMMA ViewNext ==
    (GraphBuilt /\ pc \in 0..Len(func) =>
        /\ Loc = LocAt(func, pc)
        /\ Pending = IF status # "run" THEN 0 ELSE PendingAt(func, pc))'
BY View, PTL
-----------------------------------------------------------------------------
(* Where the block machine goes.                                           *)

LEMMA EntryIs ==
    ASSUME GraphBuilt, NEW t \in Places(func), t <= Len(func)
    PROVE  /\ Blocks!Entry(t) = LocAt(func, t) /\ LocAt(func, t) \in 0..Len(func)
           /\ t \in 0..Len(func) /\ PendingAt(func, t) = 0
<1>1. IsCode(func) /\ graph = GraphOf(func)
  BY CodeTypes DEF GraphBuilt
<1>2. /\ EntryOf(func, graph, t) = LocAt(func, t) /\ LocAt(func, t) \in t..Len(func)
      /\ t \in 0..Len(func) /\ PendingAt(func, t) = 0
  BY <1>1, EntryOfIs
<1> QED
  BY <1>2, SamePositions

LEMMA TrapIs ==
    ASSUME GraphBuilt PROVE Blocks!Entry(Len(func) + 1) = Len(func) + 1
BY CodeTypes, TrapOfIs, SamePositions DEF GraphBuilt

LEMMA AfterIs ==
    ASSUME GraphBuilt, NEW s, NEW e, IsBlock(func, s, e), NEW j \in BodyOf(func, s, e)
    PROVE  /\ Blocks!After(j) = LocAt(func, j + 1) /\ LocAt(func, j + 1) \in 0..Len(func)
           /\ j + 1 \in 0..Len(func) /\ PendingAt(func, j + 1) = 0
<1>1. IsCode(func) /\ graph = GraphOf(func)
  BY CodeTypes DEF GraphBuilt
<1>2. /\ AfterOf(func, graph, j) = LocAt(func, j + 1) /\ LocAt(func, j + 1) \in (j + 1)..Len(func)
      /\ j + 1 \in 0..Len(func) /\ PendingAt(func, j + 1) = 0
  BY <1>1, AfterOfIs
<1> QED
  BY <1>2, SamePositions

-----------------------------------------------------------------------------
(* The invariant, and the two ways a step of both machines ends.           *)

IInv == TypeOK /\ graph = GraphOf(func) /\ LiteralsOnTop

Ends == {"returned", "missing", "badskip", "badpick", "baddrop", "badexponent",
         "unknown", "quit", "panic", "wild"}

LEMMA GoesTo ==
    ASSUME IInv, status = "run", NEW t, t \in 0..Len(func), NEW stack, stack \in Seq(Int),
           Continue(t, stack), PendingAt(func, t) = 0, LocAt(func, t) \in 0..Len(func)
    PROVE  IInv' /\ Blocks!GoTo(LocAt(func, t), stack)
<1>0. /\ pc' = t /\ st' = stack /\ func' = func /\ graph' = graph /\ status' = status
      /\ func \in Codes /\ graph = GraphOf(func) /\ Len(func) \in Nat
  BY CodeTypes DEF Continue, IInv, TypeOK
<1>1. Loc' = LocAt(func, t) /\ Pending' = 0
  BY <1>0, ViewNext DEF GraphBuilt
<1>2. TypeOK'
  BY <1>0 DEF IInv, TypeOK
<1>3. LiteralsOnTop'
  BY <1>1 DEF LiteralsOnTop
<1>4. (Pop(st, Pending))' = stack
  BY <1>0, <1>1, StackLemma
<1>5. ~ (LocAt(func, t) > Len(func))
  BY <1>0
<1> QED
  BY <1>0, <1>1, <1>2, <1>3, <1>4, <1>5 DEF IInv, Blocks!GoTo

LEMMA StopsWith ==
    ASSUME IInv, NEW tag, tag \in Ends, NEW stack, stack \in Seq(Int), Stop(tag, stack)
    PROVE  IInv' /\ Blocks!Stop(tag, stack)
<1>0. /\ pc' = pc /\ st' = stack /\ func' = func /\ graph' = graph /\ status' = tag
      /\ func \in Codes /\ graph = GraphOf(func) /\ pc \in 0..Len(func) /\ tag # "run"
  BY DEF Stop, IInv, TypeOK, Ends
<1>1. Loc = LocAt(func, pc) /\ Loc' = LocAt(func, pc) /\ Pending' = 0
  BY <1>0, View, ViewNext DEF GraphBuilt
<1>2. TypeOK'
  BY <1>0 DEF IInv, TypeOK, Ends
<1>3. LiteralsOnTop'
  BY <1>1 DEF LiteralsOnTop
<1>4. (Pop(st, Pending))' = stack
  BY <1>0, <1>1, StackLemma
<1> QED
  BY <1>0, <1>1, <1>2, <1>3, <1>4 DEF IInv, Blocks!Stop
-----------------------------------------------------------------------------
(* One step.                                                               *)

\* What the loop does with an outcome of `execute'.
Takes(o) ==
    \/ o.tag = "executed" /\ Continue(pc + 1, o.st)
    \/ o.tag = "skip" /\ o.n <= Rest /\ Continue(pc + 1 + o.n, o.st)
    \/ o.tag = "skip" /\ ~ (o.n <= Rest) /\ Stop("badskip", o.st)
    \/ o.tag \notin {"executed", "skip"} /\ Stop(o.tag, o.st)

LEMMA StepTakes ==
    ASSUME StepExecuted \/ StepSkip \/ StepFails
    PROVE  /\ Running /\ Here.op # "call"
           /\ \E o \in Exec(Here, st) : Takes(o)
<1>1. CASE StepExecuted
  BY <1>1 DEF StepExecuted, Takes
<1>2. CASE StepSkip
  <2>1. PICK o \in Exec(Here, st) :
           /\ o.tag = "skip"
           /\ IF o.n <= Rest THEN Continue(pc + 1 + o.n, o.st) ELSE Stop("badskip", o.st)
    BY <1>2 DEF StepSkip
  <2>2. Takes(o)
    BY <2>1 DEF Takes
  <2> QED
    BY <1>2, <2>2 DEF StepSkip
<1>3. CASE StepFails
  BY <1>3 DEF StepFails, Takes
<1> QED
  BY <1>1, <1>2, <1>3

\* The state of both machines at an instruction.
LEMMA RunningAt ==
    ASSUME IInv, Running
    PROVE  /\ GraphBuilt /\ IsCode(func) /\ Len(func) \in Nat
           /\ pc \in 0..(Len(func) - 1) /\ pc + 1 \in 0..Len(func)
           /\ st \in Seq(Int) /\ status = "run"
           /\ Here \in ParsedInstr(Names, Int) /\ Here \in Instr(Names)
           /\ IsBlock(func, StartAt(func, pc), EndAt(func, pc))
           /\ pc \in StartAt(func, pc)..(EndAt(func, pc) - 1)
           /\ Loc = LocAt(func, pc) /\ Pending = PendingAt(func, pc)
           /\ Pending \in {0, 1, 2} /\ Pending \in 0..Len(st)
           /\ \A k \in 1..Pending : FromTop(st, k) = At(func, pc - k).n
<1>1. /\ GraphBuilt /\ IsCode(func) /\ Len(func) \in Nat
      /\ pc \in 0..(Len(func) - 1) /\ pc + 1 \in 0..Len(func)
      /\ st \in Seq(Int) /\ status = "run" /\ Len(st) \in Nat
  BY CodeTypes DEF IInv, TypeOK, Running, GraphBuilt
<1>2. Here \in ParsedInstr(Names, Int)
  BY <1>1, ParsedAt, CodesAssumption DEF Here, GraphBuilt
<1>3. IsBlock(func, StartAt(func, pc), EndAt(func, pc))
      /\ StartAt(func, pc) <= pc /\ pc < EndAt(func, pc)
  BY <1>1, BlockAtPosition
<1>4. pc \in StartAt(func, pc)..(EndAt(func, pc) - 1)
  BY <1>1, <1>3, BlockBounds
<1>5. Loc = LocAt(func, pc) /\ Pending = PendingAt(func, pc)
  BY <1>1, View
<1>6. Pending \in {0, 1, 2}
  BY <1>1, <1>3, <1>4, <1>5, HiddenPosition, VisiblePosition
<1>7. \A k \in 1..Pending : Len(st) >= k /\ FromTop(st, k) = At(func, pc - k).n
  BY DEF IInv, LiteralsOnTop
<1>8. Pending \in 0..Len(st)
  <2>1. CASE Pending = 0
    BY <1>1, <2>1
  <2>2. CASE Pending # 0
    <3>1. Pending \in 1..Pending
      BY <1>6, <2>2
    <3>2. Len(st) >= Pending
      BY <1>7, <3>1
    <3> QED
      BY <1>1, <1>6, <3>2
  <2> QED
    BY <2>1, <2>2
<1> QED
  BY <1>1, <1>2, <1>3, <1>4, <1>5, <1>6, <1>7, <1>8 DEF Instr

\* A hidden literal: the interpreter pushes it, the block machine waits.
LEMMA HiddenStep ==
    ASSUME IInv, Running, Hidden(func, StartAt(func, pc), EndAt(func, pc), pc),
           NEW o, o \in Exec(Here, st), Takes(o)
    PROVE  IInv' /\ UNCHANGED Blocks!vars
<1> DEFINE s == StartAt(func, pc)
           e == EndAt(func, pc)
           k == Pending
<1>1. /\ IsCode(func) /\ Len(func) \in Nat /\ pc \in 0..(Len(func) - 1)
      /\ pc + 1 \in 0..Len(func) /\ st \in Seq(Int) /\ status = "run"
      /\ Here \in ParsedInstr(Names, Int) /\ IsBlock(func, s, e) /\ pc \in s..(e - 1)
      /\ Loc = LocAt(func, pc) /\ k = PendingAt(func, pc) /\ k \in 0..Len(st)
      /\ \A i \in 1..k : FromTop(st, i) = At(func, pc - i).n
  BY RunningAt
<1>2. /\ Here.op = "lit" /\ LocAt(func, pc + 1) = LocAt(func, pc)
      /\ PendingAt(func, pc + 1) = k + 1
  BY <1>1, HiddenPosition DEF Here
<1> HIDE DEF s, e, k
<1>3. Here.n \in Int
  BY <1>1, <1>2 DEF ParsedInstr, FixedOps
<1>4. o = Executed(Push(st, Here.n))
  BY <1>2 DEF Exec, FailsEarly, Pops
<1>5. Continue(pc + 1, Push(st, Here.n))
  BY <1>4 DEF Takes, Executed, Outcome
<1>6. /\ pc' = pc + 1 /\ st' = Push(st, Here.n) /\ func' = func /\ graph' = graph
      /\ status' = status /\ func \in Codes /\ graph = GraphOf(func)
  BY <1>5 DEF Continue, IInv, TypeOK
<1>7. Loc' = Loc /\ Pending' = k + 1
  BY <1>1, <1>2, <1>6, ViewNext DEF GraphBuilt
<1>8. (Pop(st, Pending))' = Pop(st, k)
  BY <1>1, <1>3, <1>6, <1>7, StackLemma
<1>9. TypeOK'
  BY <1>1, <1>3, <1>6, StackLemma DEF IInv, TypeOK
<1>10. ASSUME NEW i \in 1..(k + 1)
       PROVE  Len(st') >= i /\ FromTop(st', i) = At(func, pc' - i).n
  <2>0. Len(st') = Len(st) + 1 /\ FromTop(st', 1) = Here.n
    BY <1>1, <1>3, <1>6, StackLemma, Zenon
  <2>1. Len(st) \in Nat /\ k \in Nat /\ k <= Len(st) /\ Len(st') = Len(st) + 1
    <3>1. Len(st) \in Nat
      BY <1>1
    <3> QED
      BY <1>1, <2>0, <3>1
  <2>2. CASE i = 1
    <3>1. pc' - i = pc
      BY <1>1, <1>6, <2>2
    <3>2. Len(st') >= i
      BY <2>1, <2>2
    <3> QED
      BY <2>0, <2>2, <3>1, <3>2 DEF Here
  <2>3. CASE i # 1
    <3>1. PICK h \in 1..k : i = h + 1
      <4>1. i - 1 \in 1..k /\ i = (i - 1) + 1
        BY <2>1, <2>3
      <4> QED
        BY <4>1
    <3>2. h \in 1..Len(st) /\ pc' - i = pc - h
      BY <1>1, <1>6, <2>1, <3>1
    <3>3. FromTop(st', h + 1) = FromTop(st, h)
      BY <1>1, <1>3, <1>6, <3>2, StackLemma
    <3>4. FromTop(st, h) = At(func, pc - h).n
      BY <1>1, <3>1
    <3> QED
      BY <2>1, <3>1, <3>2, <3>3, <3>4
  <2> QED
    BY <2>2, <2>3
<1>11. LiteralsOnTop'
  BY <1>6, <1>7, <1>10 DEF LiteralsOnTop
<1>12. Loc' = Loc /\ (Pop(st, Pending))' = Pop(st, Pending)
  BY <1>7, <1>8 DEF k
<1> QED
  BY <1>6, <1>9, <1>11, <1>12 DEF IInv, Blocks!vars

\* At a visible position with nothing folded both machines are there.
LEMMA VisibleState ==
    ASSUME IInv, Running, ~ Hidden(func, StartAt(func, pc), EndAt(func, pc), pc)
    PROVE  /\ Loc = pc /\ Blocks!Running
           /\ Blocks!Block = graph[StartAt(func, pc)]
           /\ Pending = FoldedAt(func, StartAt(func, pc), EndAt(func, pc), pc)
           /\ pc \in LocsIn(func, StartAt(func, pc), EndAt(func, pc))
<1> DEFINE s == StartAt(func, pc)
           e == EndAt(func, pc)
<1>1. /\ GraphBuilt /\ IsCode(func) /\ Len(func) \in Nat /\ pc \in 0..(Len(func) - 1)
      /\ status = "run" /\ IsBlock(func, s, e) /\ pc \in s..(e - 1)
      /\ Loc = LocAt(func, pc) /\ Pending = PendingAt(func, pc)
  BY RunningAt
<1>2. LocAt(func, pc) = pc /\ PendingAt(func, pc) = FoldedAt(func, s, e, pc)
      /\ pc \in LocsIn(func, s, e)
  BY <1>1, VisiblePosition
<1> HIDE DEF s, e
<1>3. Blocks!BlockOf(pc) = s
  BY <1>1, BlockOfIs
<1>4. Blocks!Running
  BY <1>1, <1>2 DEF Blocks!Running
<1> QED
  BY <1>1, <1>2, <1>3, <1>4 DEF Blocks!Block, s, e

\* Only control flow skips.
LEMMA NoSkip ==
    ASSUME NEW x \in Instr(Names), x.op # "call", x.op \notin ControlOps,
           NEW stack \in Seq(Int), NEW o \in Exec(x, stack)
    PROVE  o.tag # "skip"
<1>1. CASE FailsEarly(x, stack) \/ Len(stack) < Pops[x.op]
  BY <1>1 DEF Exec, Outcome
<1>2. CASE ~ FailsEarly(x, stack) /\ ~ (Len(stack) < Pops[x.op])
  <2>0. \A s : Executed(s).tag # "skip" /\ Outcome("quit", s).tag # "skip"
              /\ Outcome("badpick", s).tag # "skip" /\ Outcome("baddrop", s).tag # "skip"
              /\ Outcome("panic", s).tag # "skip" /\ Outcome("badexponent", s).tag # "skip"
    BY DEF Executed, Outcome
  <2>1. CASE x.op \in {"lit", "width", "quit", "print", "drop", "swap", "rot", "read",
                       "write", "write8", "syscall"}
    BY <1>2, <2>0, <2>1 DEF Exec
  <2>2. CASE x.op = "arith"
    <3>1. o \in ArithOutcomes(x, Pop(stack, 2), FromTop(stack, 2), FromTop(stack, 1))
      BY <1>2, <2>2 DEF Exec
    <3>2. "it" \in DOMAIN x => x.it \in ArithOps
      BY <2>2 DEF Instr, ParsedInstr, ResolvedInstr, FixedOps, ArithOps
    <3> QED
      BY <2>0, <3>1, <3>2 DEF ArithOutcomes, ArithOps
  <2>3. CASE x.op \in {"rpick", "pick"}
    <3>1. \A s, n : PickFrom(s, n).tag # "skip"
      BY DEF PickFrom, Executed, Outcome
    <3> QED
      BY <1>2, <2>0, <2>3, <3>1 DEF Exec
  <2>4. CASE x.op \in {"rdrop", "droprange"}
    <3>1. \A s, n, a : DropRangeFrom(s, n, a).tag # "skip"
      BY DEF DropRangeFrom, Executed, Outcome
    <3> QED
      BY <1>2, <2>0, <2>4, <3>1 DEF Exec
  <2> QED
    BY <2>1, <2>2, <2>3, <2>4
    DEF Instr, ParsedInstr, ResolvedInstr, FixedOps, ArithOps, ControlOps
<1> QED
  BY <1>1, <1>2

\* The code of a block does to the shorter stack what the instructions do.
LEMMA SameOutcomes ==
    ASSUME IInv, Running, Here.op # "call",
           pc \in BodyOf(func, StartAt(func, pc), EndAt(func, pc)),
           NEW x, x = Resolved(func, StartAt(func, pc), pc)
    PROVE  /\ Exec(x, Pop(st, Pending)) = Exec(Here, st) /\ x.op # "call"
           /\ \A o \in Exec(Here, st) : OutcomeOK(o) /\ o.tag # "skip"
<1> DEFINE s == StartAt(func, pc)
           e == EndAt(func, pc)
<1>1. /\ IsCode(func) /\ Len(func) \in Nat /\ pc \in 0..(Len(func) - 1)
      /\ st \in Seq(Int) /\ Here \in ParsedInstr(Names, Int) /\ Here \in Instr(Names)
      /\ IsBlock(func, s, e) /\ pc \in s..(e - 1)
      /\ Pending \in 0..Len(st) /\ \A k \in 1..Pending : FromTop(st, k) = At(func, pc - k).n
  BY RunningAt
<1>2. pc \in LocsIn(func, s, e)
  BY DEF LocsIn
<1>3. Pending = FoldedAt(func, s, e, pc)
  BY <1>1, <1>2, LocsAreNotHidden, VisibleState
<1>4. AssertsHold(func, s, e)
  BY <1>1, GraphAssumption DEF GraphExists, IsBlock, IInv, TypeOK
<1>5. Here.op \notin ControlOps
  <2>1. s \in Nat /\ e \in Nat /\ s < e
    BY <1>1, BlockBounds
  <2>2. CASE pc = e - 1
    BY <2>2 DEF BodyOf, Here, EndsInConstSkip, ControlOps
  <2>3. CASE pc # e - 1
    BY <1>1, <2>3, ControlEndsBlock DEF Here, IsBlock, IsCode
  <2> QED
    BY <2>2, <2>3
<1>6. \A o \in Exec(Here, st) : OutcomeOK(o)
  BY <1>1, ExecOK
<1> HIDE DEF s, e
<1>7. CASE FoldsPick(func, s, pc)
  <2>1. /\ Here.op = "pick" /\ Pending = 1 /\ x = Pick(At(func, pc - 1).n)
        /\ At(func, pc - 1).n >= 1
    BY <1>1, <1>3, <1>4, <1>7 DEF FoldsPick, Here, FoldedAt, Resolved, AssertsHold, s, e
  <2>2. Len(st) >= 1 /\ FromTop(st, 1) = At(func, pc - 1).n /\ FromTop(st, 1) \in Int
    <3>1. 1 \in 1..Pending /\ 1 \in 1..Len(st)
      BY <1>1, <2>1
    <3> QED
      BY <1>1, <3>1, FromTopIsInt
  <2>3. Exec(Here, st) = {PickFrom(Pop(st, 1), FromTop(st, 1))}
    <3>1. ~ FailsEarly(Here, st) /\ ~ (Len(st) < Pops[Here.op])
      BY <2>1, <2>2 DEF FailsEarly, Pops
    <3>2. ~ (FromTop(st, 1) <= 0)
      BY <2>1, <2>2
    <3> QED
      BY <2>1, <3>1, <3>2 DEF Exec
  <2>4. Exec(x, Pop(st, 1)) = {PickFrom(Pop(st, 1), FromTop(st, 1))}
    <3>1. x.op = "rpick" /\ x.n = FromTop(st, 1)
      BY <2>1, <2>2 DEF Pick
    <3>2. Len(Pop(st, 1)) \in Nat
      BY <1>1, <2>1, PopIsSeq
    <3>3. ~ FailsEarly(x, Pop(st, 1)) /\ ~ (Len(Pop(st, 1)) < Pops[x.op])
      BY <3>1, <3>2 DEF FailsEarly, Pops
    <3> QED
      BY <3>1, <3>3 DEF Exec
  <2>5. PickFrom(Pop(st, 1), FromTop(st, 1)).tag # "skip"
    BY DEF PickFrom, Executed, Outcome
  <2> QED
    BY <1>6, <2>1, <2>3, <2>4, <2>5 DEF Pick
<1>8. CASE FoldsDrop(func, s, pc)
  <2>0. (pc - 2 = pc - 2) /\ Here.op = "droprange"
    BY <1>8 DEF FoldsDrop, Here
  <2>1. /\ Pending = 2 /\ x = DropRange(At(func, pc - 2).n, At(func, pc - 1).n)
        /\ At(func, pc - 2).n >= At(func, pc - 1).n /\ At(func, pc - 1).n >= 0
    <3>1. ~ FoldsPick(func, s, pc)
      BY <2>0 DEF FoldsPick, Here
    <3>2. Pending = 2 /\ x = DropRange(At(func, pc - 2).n, At(func, pc - 1).n)
      BY <1>3, <1>8, <3>1 DEF FoldedAt, Resolved, s, e
    <3>3. At(func, pc - 2).n >= At(func, pc - 1).n
      BY <1>1, <1>4, <1>8 DEF AssertsHold
    <3>4. At(func, pc - 1).n >= 0
      BY <1>8 DEF FoldsDrop, ConstLitAt, IsUsize
    <3> QED
      BY <3>2, <3>3, <3>4
  <2>2. /\ Len(st) >= 2 /\ FromTop(st, 1) = At(func, pc - 1).n /\ FromTop(st, 1) \in Int
        /\ FromTop(st, 2) = At(func, pc - 2).n /\ FromTop(st, 2) \in Int
    <3>1. 1 \in 1..Pending /\ 1 \in 1..Len(st) /\ 2 \in 1..Pending /\ 2 \in 1..Len(st)
      BY <1>1, <2>1
    <3> QED
      BY <1>1, <3>1, FromTopIsInt
  <2>3. Exec(Here, st) = {DropRangeFrom(Pop(st, 2), FromTop(st, 2), FromTop(st, 1))}
    <3>1. ~ FailsEarly(Here, st) /\ ~ (Len(st) < Pops[Here.op])
      BY <2>0, <2>1, <2>2 DEF FailsEarly, Pops, IsUsize
    <3>2. ~ (FromTop(st, 2) < 0 \/ FromTop(st, 1) > FromTop(st, 2))
      BY <2>1, <2>2
    <3> QED
      BY <2>0, <3>1, <3>2 DEF Exec
  <2>4. Exec(x, Pop(st, 2)) = {DropRangeFrom(Pop(st, 2), FromTop(st, 2), FromTop(st, 1))}
    <3>1. x.op = "rdrop" /\ x.s = FromTop(st, 2) /\ x.a = FromTop(st, 1)
      BY <2>1, <2>2 DEF DropRange
    <3>2. Len(Pop(st, 2)) \in Nat
      BY <1>1, <2>1, PopIsSeq
    <3>3. ~ FailsEarly(x, Pop(st, 2)) /\ ~ (Len(Pop(st, 2)) < Pops[x.op])
      BY <3>1, <3>2 DEF FailsEarly, Pops
    <3> QED
      BY <3>1, <3>3 DEF Exec
  <2>5. DropRangeFrom(Pop(st, 2), FromTop(st, 2), FromTop(st, 1)).tag # "skip"
    BY DEF DropRangeFrom, Executed, Outcome
  <2> QED
    BY <1>6, <2>1, <2>3, <2>4, <2>5 DEF DropRange
<1>9. CASE ~ FoldsPick(func, s, pc) /\ ~ FoldsDrop(func, s, pc)
  <2>1. x = Here /\ Pending = 0
    BY <1>3, <1>9 DEF Resolved, FoldedAt, Here, s, e
  <2>2. Pop(st, Pending) = st
    BY <1>1, <2>1, StackLemma
  <2>3. ASSUME NEW o \in Exec(Here, st) PROVE o.tag # "skip"
    BY <1>1, <1>5, NoSkip, <2>3
  <2> QED
    BY <1>6, <2>1, <2>2, <2>3
<1> QED
  BY <1>7, <1>8, <1>9
LEMMA BodyStep ==
    ASSUME IInv, Running, Here.op # "call",
           pc \in BodyOf(func, StartAt(func, pc), EndAt(func, pc)),
           NEW o, o \in Exec(Here, st), Takes(o)
    PROVE  IInv' /\ Blocks!Body
<1> DEFINE s == StartAt(func, pc)
           e == EndAt(func, pc)
           x == Resolved(func, s, pc)
<1>1. /\ GraphBuilt /\ IsCode(func) /\ pc \in s..(e - 1) /\ IsBlock(func, s, e)
      /\ status = "run"
  BY RunningAt
<1>2. ~ Hidden(func, s, e, pc)
  <2>1. pc \in LocsIn(func, s, e)
    BY DEF LocsIn
  <2> QED
    BY <1>1, <2>1, LocsAreNotHidden
<1>3. Loc = pc /\ Blocks!Running /\ Blocks!Block = graph[s]
  BY <1>2, VisibleState
<1>4. pc \in DOMAIN graph[s].code /\ graph[s].code[pc] = x
  BY <1>1, BlockOfGraph
<1>5. Exec(x, Pop(st, Pending)) = Exec(Here, st) /\ x.op # "call"
      /\ OutcomeOK(o) /\ o.tag # "skip"
  BY SameOutcomes
<1>6. /\ Blocks!After(pc) = LocAt(func, pc + 1) /\ LocAt(func, pc + 1) \in 0..Len(func)
      /\ pc + 1 \in 0..Len(func) /\ PendingAt(func, pc + 1) = 0
  BY <1>1, AfterIs
<1> HIDE DEF s, e, x
<1>7. CASE o.tag = "executed"
  <2>1. Continue(pc + 1, o.st) /\ o.st \in Seq(Int)
    BY <1>5, <1>7 DEF Takes, OutcomeOK
  <2>2. IInv' /\ Blocks!GoTo(Blocks!After(Loc), o.st)
    BY <1>1, <1>3, <1>6, <2>1, GoesTo
  <2> QED
    BY <1>3, <1>4, <1>5, <1>7, <2>2, SameExec DEF Blocks!Body
<1>8. CASE o.tag # "executed"
  <2>1. Stop(o.tag, o.st) /\ o.st \in Seq(Int) /\ o.tag \in Ends
    BY <1>5, <1>8 DEF Takes, OutcomeOK, Tags, Ends
  <2>2. IInv' /\ Blocks!Stop(o.tag, o.st)
    BY <2>1, StopsWith
  <2> QED
    BY <1>3, <1>4, <1>5, <1>8, <2>2, SameExec DEF Blocks!Body
<1> QED
  BY <1>7, <1>8

LEMMA CallSteps ==
    ASSUME IInv, StepCall \/ StepUnknown
    PROVE  IInv' /\ (Blocks!CallBody \/ Blocks!CallUnknown)
<1> DEFINE s == StartAt(func, pc)
           e == EndAt(func, pc)
<1>0. Running /\ Here.op = "call"
  BY DEF StepCall, StepUnknown
<1>1. /\ GraphBuilt /\ IsCode(func) /\ pc \in s..(e - 1) /\ IsBlock(func, s, e)
      /\ status = "run" /\ st \in Seq(Int)
  BY <1>0, RunningAt
<1>2. ~ Hidden(func, s, e, pc)
  BY <1>0, <1>1, HiddenPosition DEF Here
<1>3. /\ Loc = pc /\ Blocks!Running /\ Blocks!Block = graph[s] /\ pc \in LocsIn(func, s, e)
      /\ Pending = FoldedAt(func, s, e, pc)
  BY <1>0, <1>2, VisibleState
<1>4. pc \in BodyOf(func, s, e)
  BY <1>0, <1>3 DEF LocsIn, Here, ControlOps
<1>5. Resolved(func, s, pc) = Here /\ Pending = 0
  BY <1>0, <1>3, <1>4 DEF Resolved, FoldedAt, FoldsPick, FoldsDrop, Here
<1>6. pc \in DOMAIN graph[s].code /\ graph[s].code[pc] = Here
  BY <1>1, <1>4, <1>5, BlockOfGraph
<1>7. /\ Blocks!After(pc) = LocAt(func, pc + 1) /\ LocAt(func, pc + 1) \in 0..Len(func)
      /\ pc + 1 \in 0..Len(func) /\ PendingAt(func, pc + 1) = 0
  BY <1>1, <1>4, AfterIs
<1>8. Pop(st, Pending) = st
  BY <1>1, <1>5, StackLemma
<1> HIDE DEF s, e
<1>9. CASE StepCall
  <2>1. PICK new \in CalleeStacks : Continue(pc + 1, new)
    BY <1>9 DEF StepCall
  <2>2. new \in Seq(Int)
    BY StacksAssumption
  <2>3. IInv' /\ Blocks!GoTo(Blocks!After(Loc), new)
    BY <1>1, <1>3, <1>7, <2>1, <2>2, GoesTo
  <2> QED
    BY <1>0, <1>3, <1>6, <1>9, <2>3 DEF StepCall, Blocks!CallBody
<1>10. CASE StepUnknown
  <2>1. IInv' /\ Blocks!Stop("unknown", st)
    BY <1>1, <1>10, StopsWith DEF StepUnknown, Ends
  <2> QED
    BY <1>0, <1>3, <1>6, <1>8, <1>10, <2>1 DEF StepUnknown, Blocks!CallUnknown
<1> QED
  BY <1>9, <1>10

\* The terminators: the state of both machines at the end of a block.
LEMMA AtControl ==
    ASSUME IInv, Running, Here.op \in ControlOps,
           NEW s, NEW e, s = StartAt(func, pc), e = EndAt(func, pc)
    PROVE  /\ GraphBuilt /\ IsCode(func) /\ Len(func) \in Nat /\ IsBlock(func, s, e)
           /\ s \in Nat /\ e \in Nat /\ e <= Len(func) /\ pc = e - 1 /\ Rest = Len(func) - e
           /\ pc + 1 = e /\ st \in Seq(Int) /\ Len(st) \in Nat /\ status = "run"
           /\ Loc = pc /\ Blocks!Running /\ Loc \notin DOMAIN Blocks!Block.code
           /\ Blocks!Block.term = Terminator(func, s, e)
           /\ Pending = IF EndsInConstSkip(func, s, e) THEN 1 ELSE 0
           /\ \A k \in 1..Pending : Len(st) >= k /\ FromTop(st, k) = At(func, pc - k).n
<1>1. /\ GraphBuilt /\ IsCode(func) /\ pc \in s..(e - 1) /\ IsBlock(func, s, e)
      /\ status = "run" /\ st \in Seq(Int) /\ Len(func) \in Nat
      /\ Here \in ParsedInstr(Names, Int)
  BY RunningAt
<1>2. ~ Hidden(func, s, e, pc)
  BY <1>1, HiddenPosition DEF Here, ControlOps
<1>3. /\ Loc = pc /\ Blocks!Running /\ Blocks!Block = graph[s] /\ pc \in LocsIn(func, s, e)
      /\ Pending = FoldedAt(func, s, e, pc)
  BY <1>2, VisibleState
<1>4. s \in Nat /\ e \in Nat /\ e <= Len(func) /\ s < e
  BY <1>1, BlockBounds
<1>5. pc = e - 1 /\ pc + 1 = e /\ Rest = Len(func) - e
  <2>1. pc = e - 1
    BY <1>1, ControlEndsBlock DEF Here, IsBlock, IsCode
  <2> QED
    BY <1>1, <1>4, <2>1 DEF Rest
<1>6. pc \notin BodyOf(func, s, e)
  BY <1>5 DEF BodyOf, Here
<1>7. Loc \notin DOMAIN Blocks!Block.code /\ Blocks!Block.term = Terminator(func, s, e)
  BY <1>1, <1>3, <1>6, BlockOfGraph
<1>8. Pending = IF EndsInConstSkip(func, s, e) THEN 1 ELSE 0
  BY <1>3, <1>6 DEF FoldedAt
<1>9. \A k \in 1..Pending : Len(st) >= k /\ FromTop(st, k) = At(func, pc - k).n
  BY DEF IInv, LiteralsOnTop
<1>10. Len(st) \in Nat
  BY <1>1
<1> QED
  BY <1>1, <1>3, <1>4, <1>5, <1>7, <1>8, <1>9, <1>10

\* Both machines go to position idx, or both stop.
LEMMA BothGo ==
    ASSUME IInv, status = "run", NEW idx, idx \in Nat, Target(func, idx) \in Places(func),
           NEW stack, stack \in Seq(Int),
           \/ idx <= Len(func) /\ Continue(idx, stack)
           \/ ~ (idx <= Len(func)) /\ Stop("badskip", stack)
    PROVE  IInv' /\ Blocks!GoTo(Blocks!Entry(Target(func, idx)), stack)
<1>0. GraphBuilt /\ Len(func) \in Nat
  BY CodeTypes DEF IInv, TypeOK, GraphBuilt
<1>1. CASE idx <= Len(func)
  <2>1. Target(func, idx) = idx
    BY <1>0, <1>1 DEF Target, MinInt
  <2>2. /\ Blocks!Entry(idx) = LocAt(func, idx) /\ LocAt(func, idx) \in 0..Len(func)
        /\ idx \in 0..Len(func) /\ PendingAt(func, idx) = 0
    BY <1>0, <1>1, <2>1, EntryIs
  <2> QED
    BY <1>1, <2>1, <2>2, GoesTo
<1>2. CASE ~ (idx <= Len(func))
  <2>1. Target(func, idx) = Len(func) + 1
    BY <1>0, <1>2 DEF Target, MinInt
  <2>2. Blocks!Entry(Len(func) + 1) > Len(func)
    BY <1>0, TrapIs
  <2>3. IInv' /\ Blocks!Stop("badskip", stack)
    BY <1>2, StopsWith DEF Ends
  <2> QED
    BY <2>1, <2>2, <2>3 DEF Blocks!GoTo
<1> QED
  BY <1>1, <1>2

\* The condition or the distance is missing.
LEMMA EmptyStep ==
    ASSUME IInv, Running, Here.op \in ControlOps, st = << >>,
           NEW o, o \in Exec(Here, st), Takes(o)
    PROVE  IInv' /\ Blocks!Branch
<1> DEFINE s == StartAt(func, pc)
           e == EndAt(func, pc)
<1>1. /\ Pending = IF EndsInConstSkip(func, s, e) THEN 1 ELSE 0
      /\ \A k \in 1..Pending : Len(st) >= k /\ FromTop(st, k) = At(func, pc - k).n
      /\ Blocks!Running /\ Loc \notin DOMAIN Blocks!Block.code
      /\ Blocks!Block.term = Terminator(func, s, e) /\ pc = e - 1 /\ st \in Seq(Int)
  BY AtControl
<1>2. ~ EndsInConstSkip(func, s, e)
  <2> SUFFICES ASSUME EndsInConstSkip(func, s, e) PROVE FALSE
    OBVIOUS
  <2>1. 1 \in 1..Pending
    BY <1>1
  <2>2. Len(st) >= 1
    BY <1>1, <2>1
  <2> QED
    BY <2>2
<1> HIDE DEF s, e
<1>3. Blocks!Block.term.kind = Here.op
  <2>1. Here.op = At(func, e - 1).op
    BY <1>1 DEF Here
  <2>2. CASE Here.op = "if"
    BY <1>1, <1>2, <2>1, <2>2 DEF Terminator, ControlOps
  <2>3. CASE Here.op = "skip"
    BY <1>1, <1>2, <2>1, <2>3 DEF Terminator, ControlOps
  <2> QED
    BY <2>2, <2>3 DEF ControlOps
<1>4. o = Outcome("missing", << >>)
  <2>1. Pops[Here.op] = 1 /\ ~ FailsEarly(Here, st) /\ Len(st) = 0
    BY DEF Pops, ControlOps, FailsEarly
  <2> QED
    BY <2>1 DEF Exec
<1>5. Stop("missing", << >>) /\ "missing" \in Ends
  BY <1>4 DEF Takes, Outcome, Ends
<1>6. IInv' /\ Blocks!Stop("missing", << >>)
  <2>1. << >> \in Seq(Int)
    OBVIOUS
  <2> QED
    BY <1>5, <2>1, StopsWith
<1>7. Pop(st, Pending) = << >>
  <2>1. Pending = 0
    BY <1>1, <1>2
  <2> QED
    BY <1>1, <2>1, StackLemma
<1> QED
  BY <1>1, <1>3, <1>6, <1>7 DEF Blocks!Branch, Blocks!AtTerminator, ControlOps

LEMMA IfStep ==
    ASSUME IInv, Running, Here.op = "if", st # << >>,
           NEW o, o \in Exec(Here, st), Takes(o)
    PROVE  IInv' /\ Blocks!Branch
<1> DEFINE s == StartAt(func, pc)
           e == EndAt(func, pc)
           v == FromTop(st, 1)
           rest == Pop(st, 1)
<1>1. /\ GraphBuilt /\ IsCode(func) /\ Len(func) \in Nat /\ IsBlock(func, s, e)
      /\ e \in Nat /\ e <= Len(func) /\ pc = e - 1 /\ Rest = Len(func) - e /\ pc + 1 = e
      /\ st \in Seq(Int) /\ Len(st) \in Nat /\ status = "run" /\ Blocks!Running
      /\ Loc \notin DOMAIN Blocks!Block.code /\ Blocks!Block.term = Terminator(func, s, e)
      /\ Pending = IF EndsInConstSkip(func, s, e) THEN 1 ELSE 0
  BY AtControl DEF ControlOps
<1>2. At(func, e - 1).op = "if" /\ ~ EndsInConstSkip(func, s, e)
  BY <1>1 DEF Here, EndsInConstSkip
<1>3. Terminator(func, s, e) = [kind |-> "if",
                                targets |-> <<Target(func, e), Target(func, e + 3)>>]
  BY <1>2 DEF Terminator, ControlOps
<1>4. Target(func, e) \in Places(func) /\ Target(func, e + 3) \in Places(func)
  <2>1. 1 \in DOMAIN Terminator(func, s, e).targets /\ 2 \in DOMAIN Terminator(func, s, e).targets
    BY <1>3
  <2>2. s \in StartsOf(func) /\ e = EndIn(func, StartsOf(func), s)
    BY <1>1 DEF IsBlock
  <2>3. /\ Terminator(func, s, e).targets[1] \in Places(func)
        /\ Terminator(func, s, e).targets[2] \in Places(func)
    BY <1>1, <2>1, <2>2, TargetsArePlaces DEF IsCode
  <2> QED
    BY <1>3, <2>3
<1>5. Len(st) >= 1 /\ v \in Int /\ rest \in Seq(Int) /\ Pop(st, Pending) = st
  <2>1. Len(st) # 0
    BY <1>1, EmptySeq
  <2>2. 1 \in 1..Len(st) /\ 1 \in 0..Len(st) /\ Pending = 0
    BY <1>1, <1>2, <2>1
  <2> QED
    BY <1>1, <2>2, FromTopIsInt, PopIsSeq, StackLemma
<1> HIDE DEF s, e, v, rest
<1>6. o = IF v = 0 THEN SkipBy(3, rest) ELSE Executed(rest)
  <2>1. ~ FailsEarly(Here, st) /\ ~ (Len(st) < Pops[Here.op])
    BY <1>5 DEF FailsEarly, Pops
  <2> QED
    BY <2>1 DEF Exec, v, rest
<1>7. /\ Blocks!Pop(Pop(st, Pending), 1) = rest /\ Blocks!FromTop(Pop(st, Pending), 1) = v
      /\ Pop(st, Pending) # << >>
  BY <1>5, SameStackOps DEF v, rest
<1>8. CASE v = 0
  <2>1. \/ e + 3 <= Len(func) /\ Continue(e + 3, rest)
        \/ ~ (e + 3 <= Len(func)) /\ Stop("badskip", rest)
    <3>1. o.tag = "skip" /\ o.n = 3 /\ o.st = rest
      BY <1>6, <1>8 DEF SkipBy
    <3>2. (3 <= Rest <=> e + 3 <= Len(func)) /\ pc + 1 + 3 = e + 3
      BY <1>1
    <3> QED
      BY <3>1, <3>2 DEF Takes
  <2>2. IInv' /\ Blocks!GoTo(Blocks!Entry(Target(func, e + 3)), rest)
    <3>1. e + 3 \in Nat
      BY <1>1
    <3> QED
      BY <1>1, <1>4, <1>5, <2>1, <3>1, BothGo
  <2>3. 2 \in DOMAIN Blocks!Block.term.targets
        /\ Blocks!Block.term.targets[2] = Target(func, e + 3) /\ Blocks!Block.term.kind = "if"
    BY <1>1, <1>3
  <2> QED
    BY <1>1, <1>7, <1>8, <2>2, <2>3 DEF Blocks!Branch, Blocks!AtTerminator
<1>9. CASE v # 0
  <2>1. Continue(e, rest)
    <3>1. o.tag = "executed" /\ o.st = rest
      BY <1>6, <1>9 DEF Executed, Outcome
    <3> QED
      BY <1>1, <3>1 DEF Takes
  <2>2. IInv' /\ Blocks!GoTo(Blocks!Entry(Target(func, e)), rest)
    BY <1>1, <1>4, <1>5, <2>1, BothGo
  <2>3. 1 \in DOMAIN Blocks!Block.term.targets
        /\ Blocks!Block.term.targets[1] = Target(func, e) /\ Blocks!Block.term.kind = "if"
    BY <1>1, <1>3
  <2> QED
    BY <1>1, <1>7, <1>9, <2>2, <2>3 DEF Blocks!Branch, Blocks!AtTerminator
<1> QED
  BY <1>8, <1>9

\* A skip whose literal was folded: the block machine jumps.
LEMMA ConstSkipStep ==
    ASSUME IInv, Running, Here.op = "skip",
           EndsInConstSkip(func, StartAt(func, pc), EndAt(func, pc)),
           NEW o, o \in Exec(Here, st), Takes(o)
    PROVE  IInv' /\ Blocks!Jump
<1> DEFINE s == StartAt(func, pc)
           e == EndAt(func, pc)
           k == At(func, e - 2).n
           rest == Pop(st, 1)
<1>1. /\ GraphBuilt /\ IsCode(func) /\ Len(func) \in Nat /\ IsBlock(func, s, e)
      /\ s \in Nat /\ e \in Nat /\ e <= Len(func) /\ pc = e - 1 /\ Rest = Len(func) - e
      /\ pc + 1 = e /\ st \in Seq(Int) /\ Len(st) \in Nat /\ status = "run"
      /\ Blocks!Running /\ Loc \notin DOMAIN Blocks!Block.code
      /\ Blocks!Block.term = Terminator(func, s, e) /\ Pending = 1
      /\ \A i \in 1..Pending : Len(st) >= i /\ FromTop(st, i) = At(func, pc - i).n
  BY AtControl DEF ControlOps
<1>2. /\ At(func, e - 1).op = "skip" /\ EndsInConstSkip(func, s, e)
      /\ e - 2 >= s /\ ConstLitAt(func, e - 2)
  BY DEF EndsInConstSkip
<1>3. k \in Nat
  <2>1. e - 2 \in 0..(Len(func) - 1)
    BY <1>1, <1>2
  <2> QED
    BY <1>1, <1>2, <2>1, ParsedAt DEF IsCode
<1>4. Terminator(func, s, e) = [kind |-> "jump", targets |-> <<Target(func, e + k)>>]
  BY <1>2 DEF Terminator, ControlOps
<1>5. Target(func, e + k) \in Places(func)
  <2>1. 1 \in DOMAIN Terminator(func, s, e).targets
    BY <1>4
  <2>2. s \in StartsOf(func) /\ e = EndIn(func, StartsOf(func), s)
    BY <1>1 DEF IsBlock
  <2>3. Terminator(func, s, e).targets[1] \in Places(func)
    BY <1>1, <2>1, <2>2, TargetsArePlaces DEF IsCode
  <2> QED
    BY <1>4, <2>3
<1>6. Len(st) >= 1 /\ FromTop(st, 1) = k /\ rest \in Seq(Int)
  <2>1. 1 \in 1..Pending /\ pc - 1 = e - 2
    BY <1>1
  <2>2. Len(st) >= 1 /\ FromTop(st, 1) = k
    BY <1>1, <2>1
  <2>3. 1 \in 0..Len(st)
    BY <1>1, <2>2
  <2> QED
    BY <1>1, <2>2, <2>3, PopIsSeq
<1> HIDE DEF s, e, k, rest
<1>7. o = SkipBy(k, rest)
  <2>1. ~ FailsEarly(Here, st) /\ ~ (Len(st) < Pops[Here.op])
    BY <1>6 DEF FailsEarly, Pops
  <2>2. IsUsize(FromTop(st, 1))
    BY <1>3, <1>6 DEF IsUsize
  <2> QED
    BY <1>6, <2>1, <2>2 DEF Exec, rest
<1>8. \/ e + k <= Len(func) /\ Continue(e + k, rest)
      \/ ~ (e + k <= Len(func)) /\ Stop("badskip", rest)
  <2>1. o.tag = "skip" /\ o.n = k /\ o.st = rest
    BY <1>7 DEF SkipBy
  <2>2. (k <= Rest <=> e + k <= Len(func)) /\ pc + 1 + k = e + k
    BY <1>1, <1>3
  <2> QED
    BY <2>1, <2>2 DEF Takes
<1>9. IInv' /\ Blocks!GoTo(Blocks!Entry(Target(func, e + k)), rest)
  <2>1. e + k \in Nat
    BY <1>1, <1>3
  <2> QED
    BY <1>1, <1>5, <1>6, <1>8, <2>1, BothGo
<1>10. Blocks!Block.term.targets[1] = Target(func, e + k) /\ Blocks!Block.term.kind = "jump"
  BY <1>1, <1>4
<1> QED
  BY <1>1, <1>9, <1>10 DEF Blocks!Jump, Blocks!AtTerminator, rest

\* A skip whose distance is only known when it is executed.
LEMMA DynamicSkipStep ==
    ASSUME IInv, Running, Here.op = "skip", st # << >>,
           ~ EndsInConstSkip(func, StartAt(func, pc), EndAt(func, pc)),
           NEW o, o \in Exec(Here, st), Takes(o)
    PROVE  IInv' /\ Blocks!Branch
<1> DEFINE s == StartAt(func, pc)
           e == EndAt(func, pc)
           v == FromTop(st, 1)
           rest == Pop(st, 1)
           n == Len(func)
<1>1. /\ GraphBuilt /\ IsCode(func) /\ n \in Nat /\ IsBlock(func, s, e)
      /\ e \in Nat /\ e <= n /\ pc = e - 1 /\ Rest = n - e /\ pc + 1 = e
      /\ st \in Seq(Int) /\ Len(st) \in Nat /\ status = "run" /\ Blocks!Running
      /\ Loc \notin DOMAIN Blocks!Block.code /\ Blocks!Block.term = Terminator(func, s, e)
      /\ Pending = 0
  BY AtControl DEF ControlOps
<1>2. At(func, e - 1).op = "skip" /\ ~ EndsInConstSkip(func, s, e)
  BY <1>1 DEF Here
<1>3. Terminator(func, s, e) = [kind |-> "skip", targets |-> [t \in 1..(n - e + 1) |-> e + t - 1]]
  BY <1>2 DEF Terminator, ControlOps
<1>4. \A t \in 1..(n - e + 1) : e + t - 1 \in Places(func)
  <2>1. s \in StartsOf(func) /\ e = EndIn(func, StartsOf(func), s)
    BY <1>1 DEF IsBlock
  <2>2. \A t \in DOMAIN Terminator(func, s, e).targets :
           Terminator(func, s, e).targets[t] \in Places(func)
    BY <1>1, <2>1, TargetsArePlaces DEF IsCode
  <2> QED
    BY <1>3, <2>2
<1>5. Len(st) >= 1 /\ v \in Int /\ rest \in Seq(Int) /\ Pop(st, Pending) = st
  <2>1. Len(st) # 0
    BY <1>1, EmptySeq
  <2>2. 1 \in 1..Len(st) /\ 1 \in 0..Len(st)
    BY <1>1, <2>1
  <2> QED
    BY <1>1, <2>2, FromTopIsInt, PopIsSeq, StackLemma
<1> HIDE DEF s, e, v, rest, n
<1>6. o = IF IsUsize(v) THEN SkipBy(v, rest) ELSE Outcome("badskip", rest)
  <2>1. ~ FailsEarly(Here, st) /\ ~ (Len(st) < Pops[Here.op])
    BY <1>5 DEF FailsEarly, Pops
  <2> QED
    BY <2>1 DEF Exec, v, rest
<1>7. /\ Blocks!Pop(Pop(st, Pending), 1) = rest /\ Blocks!FromTop(Pop(st, Pending), 1) = v
      /\ Pop(st, Pending) # << >>
  BY <1>5, SameStackOps DEF v, rest
<1>8. /\ Blocks!Block.term.kind = "skip" /\ DOMAIN Blocks!Block.term.targets = 1..(n - e + 1)
      /\ \A t \in 1..(n - e + 1) : Blocks!Block.term.targets[t] = e + t - 1
  BY <1>1, <1>3
<1>9. CASE v + 1 \in 1..(n - e + 1)
  <2>1. v \in Nat /\ e + v <= n /\ e + v \in Nat /\ e + (v + 1) - 1 = e + v
    BY <1>1, <1>5, <1>9
  <2>2. Continue(e + v, rest)
    <3>1. o.tag = "skip" /\ o.n = v /\ o.st = rest
      BY <1>6, <2>1 DEF SkipBy, IsUsize
    <3>2. v <= Rest /\ pc + 1 + v = e + v
      BY <1>1, <2>1
    <3> QED
      BY <3>1, <3>2 DEF Takes
  <2>3. Target(func, e + v) = e + v
    BY <1>1, <2>1 DEF Target, MinInt, n
  <2>4. IInv' /\ Blocks!GoTo(Blocks!Entry(e + v), rest)
    <3>1. Target(func, e + v) \in Places(func)
      BY <1>4, <1>9, <2>1, <2>3
    <3>2. e + v <= Len(func)
      BY <2>1 DEF n
    <3>3. IInv' /\ Blocks!GoTo(Blocks!Entry(Target(func, e + v)), rest)
      BY <1>1, <1>5, <2>1, <2>2, <3>1, <3>2, BothGo
    <3> QED
      BY <2>3, <3>3
  <2>5. Blocks!Block.term.targets[v + 1] = e + v
    BY <1>8, <1>9, <2>1
  <2>6. v + 1 \in DOMAIN Blocks!Block.term.targets
    BY <1>8, <1>9
  <2> QED
    BY <1>1, <1>7, <1>8, <2>4, <2>5, <2>6 DEF Blocks!Branch, Blocks!AtTerminator
<1>10. CASE v + 1 \notin 1..(n - e + 1)
  <2>1. Stop("badskip", rest)
    <3>1. CASE IsUsize(v)
      <4>1. ~ (v <= Rest)
        BY <1>1, <1>5, <1>10, <3>1 DEF IsUsize
      <4>2. o.tag = "skip" /\ o.n = v /\ o.st = rest
        BY <1>6, <3>1 DEF SkipBy
      <4> QED
        BY <4>1, <4>2 DEF Takes
    <3>2. CASE ~ IsUsize(v)
      BY <1>6, <3>2 DEF Takes, Outcome
    <3> QED
      BY <3>1, <3>2
  <2>2. IInv' /\ Blocks!Stop("badskip", rest)
    BY <1>5, <2>1, StopsWith DEF Ends
  <2>3. v + 1 \notin DOMAIN Blocks!Block.term.targets
    BY <1>8, <1>10
  <2> QED
    BY <1>1, <1>7, <1>8, <2>2, <2>3 DEF Blocks!Branch, Blocks!AtTerminator
<1> QED
  BY <1>9, <1>10

LEMMA ReturnStep ==
    ASSUME IInv, Return PROVE IInv' /\ Blocks!Return
<1>1. status = "run" /\ pc = Len(func) /\ Stop("returned", st) /\ st \in Seq(Int)
  BY DEF Return, IInv, TypeOK
<1>2. Loc = Len(func) /\ Pending = 0
  BY <1>1 DEF Loc, Pending
<1>3. IInv' /\ Blocks!Stop("returned", st)
  BY <1>1, StopsWith DEF Ends
<1>4. Pop(st, Pending) = st
  BY <1>1, <1>2, StackLemma
<1> QED
  BY <1>1, <1>2, <1>3, <1>4 DEF Blocks!Return
-----------------------------------------------------------------------------
(* The theorems.                                                           *)

LEMMA StepKeeps ==
    ASSUME IInv, [Next]_vars PROVE IInv' /\ [Blocks!Next]_(Blocks!vars)
<1>1. CASE StepExecuted \/ StepSkip \/ StepFails
  <2>1. Running /\ Here.op # "call"
    BY <1>1, StepTakes
  <2>2. PICK o \in Exec(Here, st) : Takes(o)
    BY <1>1, StepTakes
  <2> DEFINE s == StartAt(func, pc)
             e == EndAt(func, pc)
  <2>3. CASE Hidden(func, s, e, pc)
    BY <2>1, <2>2, <2>3, HiddenStep
  <2>4. CASE ~ Hidden(func, s, e, pc) /\ pc \in BodyOf(func, s, e)
    <3>1. IInv' /\ Blocks!Body
      BY <2>1, <2>2, <2>4, BodyStep
    <3> QED
      BY <3>1 DEF Blocks!Next
  <2>5. CASE ~ Hidden(func, s, e, pc) /\ pc \notin BodyOf(func, s, e)
    <3>1. pc \in LocsIn(func, s, e)
      BY <2>1, <2>5, VisibleState
    <3>2. Here.op \in ControlOps
      BY <2>5, <3>1 DEF LocsIn, Here
    <3>3. IInv' /\ (Blocks!Branch \/ Blocks!Jump)
      <4>1. CASE EndsInConstSkip(func, s, e)
        <5>1. Here.op = "skip"
          <6>1. pc = e - 1
            BY <2>1, <3>2, AtControl
          <6> QED
            BY <4>1, <6>1 DEF EndsInConstSkip, Here
        <5> QED
          BY <2>1, <2>2, <4>1, <5>1, ConstSkipStep
      <4>2. CASE ~ EndsInConstSkip(func, s, e) /\ st = << >>
        BY <2>1, <2>2, <3>2, <4>2, EmptyStep
      <4>3. CASE ~ EndsInConstSkip(func, s, e) /\ st # << >> /\ Here.op = "if"
        BY <2>1, <2>2, <4>3, IfStep
      <4>4. CASE ~ EndsInConstSkip(func, s, e) /\ st # << >> /\ Here.op = "skip"
        BY <2>1, <2>2, <4>4, DynamicSkipStep
      <4> QED
        BY <3>2, <4>1, <4>2, <4>3, <4>4 DEF ControlOps
    <3> QED
      BY <3>3 DEF Blocks!Next
  <2> QED
    BY <2>3, <2>4, <2>5
<1>2. CASE StepCall \/ StepUnknown
  BY <1>2, CallSteps DEF Blocks!Next
<1>3. CASE Return
  BY <1>3, ReturnStep DEF Blocks!Next
<1>4. CASE UNCHANGED vars
  <2>1. func' = func /\ graph' = graph /\ pc' = pc /\ st' = st /\ status' = status
    BY <1>4 DEF vars
  <2>2. GraphBuilt /\ pc \in 0..Len(func)
    BY DEF IInv, TypeOK, GraphBuilt
  <2>3. /\ Loc = LocAt(func, pc)
        /\ Pending = IF status # "run" THEN 0 ELSE PendingAt(func, pc)
    BY <2>2, View
  <2>4. Loc' = Loc /\ Pending' = Pending
    BY <2>1, <2>2, <2>3, ViewNext DEF GraphBuilt
  <2>5. IInv'
    BY <2>1, <2>4 DEF IInv, TypeOK, LiteralsOnTop
  <2>6. UNCHANGED Blocks!vars
    BY <2>1, <2>4 DEF Blocks!vars
  <2> QED
    BY <2>5, <2>6
<1> QED
  BY <1>1, <1>2, <1>3, <1>4 DEF Next

LEMMA InitKeeps == Init => IInv /\ Blocks!Init
<1> SUFFICES ASSUME Init PROVE IInv /\ Blocks!Init
  OBVIOUS
<1>1. /\ func \in Codes /\ graph = GraphOf(func) /\ st \in InitStacks /\ pc = 0
      /\ status = "run" /\ GraphBuilt /\ IsCode(func) /\ Len(func) \in Nat
  BY CodeTypes DEF Init, GraphBuilt
<1>2. 0 \in Places(func) /\ 0 <= Len(func)
  BY <1>1, StartsAreInside DEF Places, IsCode
<1>3. Blocks!Entry(0) = LocAt(func, 0) /\ PendingAt(func, 0) = 0
  BY <1>1, <1>2, EntryIs
<1>4. Loc = LocAt(func, 0) /\ Pending = 0
  BY <1>1, <1>2, <1>3, View
<1>5. st \in Seq(Int) /\ Pop(st, Pending) = st
  BY <1>1, <1>4, StacksAssumption, StackLemma
<1>6. IInv
  BY <1>1, <1>4, <1>5 DEF IInv, TypeOK, LiteralsOnTop
<1>7. Blocks!Init
  BY <1>1, <1>3, <1>4, <1>5, SameGraph DEF Blocks!Init
<1> QED
  BY <1>6, <1>7

LEMMA IInvHolds == Spec => []IInv
<1>1. IInv /\ [Next]_vars => IInv'
  BY StepKeeps
<1>2. Init => IInv
  BY InitKeeps
<1> QED
  BY <1>1, <1>2, PTL DEF Spec

\* The slice is always a suffix of the function, and the loop ends in one of
\* the ways the code knows.
THEOREM TypeOKHolds == Spec => []TypeOK
<1>1. IInv => TypeOK
  BY DEF IInv
<1> QED
  BY <1>1, IInvHolds, PTL

\* What folding relies on (the TODO at analysis.rs:211), for every function:
\* between folded literals and their consumer the literals are on top of the
\* interpreter's stack.
THEOREM LiteralsOnTopHolds == Spec => []LiteralsOnTop
<1>1. IInv => LiteralsOnTop
  BY DEF IInv
<1> QED
  BY <1>1, IInvHolds, PTL

\* Each step of the loop leaves its instruction behind: "it is impossible for
\* a clac program to jump backward" (analysis.rs:594).
THEOREM ForwardOnlyHolds == Spec => ForwardOnly
<1>1. IInv /\ [Next]_vars => [status' = "run" => pc' > pc]_vars
  <2> SUFFICES ASSUME IInv, Next, status' = "run" PROVE pc' > pc
    OBVIOUS
  <2>1. pc \in Nat /\ Len(func) \in Nat
    BY CodeTypes DEF IInv, TypeOK
  <2>2. ASSUME NEW tag, NEW stack, Stop(tag, stack) PROVE tag = "run"
    BY <2>2 DEF Stop
  <2>3. CASE StepExecuted \/ StepSkip \/ StepFails
    <3>1. Running /\ Here.op # "call"
      BY <2>3, StepTakes
    <3>2. PICK o \in Exec(Here, st) : Takes(o)
      BY <2>3, StepTakes
    <3>3. OutcomeOK(o)
      BY <3>1, RunningAt, ExecOK
    <3>4. o.n \in Nat /\ o.tag # "run"
      BY <3>3 DEF OutcomeOK, Tags
    <3>5. Continue(pc + 1, o.st) \/ Continue(pc + 1 + o.n, o.st)
      BY <2>2, <3>2, <3>4 DEF Takes
    <3> QED
      BY <2>1, <3>4, <3>5 DEF Continue
  <2>4. CASE StepCall
    BY <2>1, <2>4 DEF StepCall, Continue
  <2>5. CASE StepUnknown \/ Return
    BY <2>2, <2>5 DEF StepUnknown, Return
  <2> QED
    BY <2>3, <2>4, <2>5 DEF Next
<1> QED
  BY <1>1, IInvHolds, PTL DEF Spec, ForwardOnly

\* The interpreter implements the block machine: for every function that has
\* a graph, every stack and every callee, the graph's blocks and terminators
\* execute the same instructions on the same stack to the same end.
THEOREM ImplementsBlocksHolds == Spec => ImplementsBlocks
<1>1. IInv /\ [Next]_vars => [Blocks!Next]_(Blocks!vars)
  BY StepKeeps
<1>2. Init => Blocks!Init
  BY InitKeeps
<1> QED
  BY <1>1, <1>2, IInvHolds, PTL DEF Spec, ImplementsBlocks, Blocks!Spec
=============================================================================
