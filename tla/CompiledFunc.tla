---------------------------- MODULE CompiledFunc ----------------------------
(***************************************************************************)
(* A compiled function (src/src/jit/jit.rs): what the instructions do that *)
(* compile_block emits for the blocks of its graph.                        *)
(*                                                                         *)
(* The stack has two levels.  The real one is memory with a pointer `stack'*)
(* into it; while a block is compiled, values that need not be there yet   *)
(* are kept in tmp, and have to be flushed to memory before whatever looks *)
(* at it: a call, a dynamic pick or drop_range, the end of the block.      *)
(* A block is straight-line code, so each value in tmp is one number per   *)
(* execution: the model runs what is emitted where it is emitted, and tmp  *)
(* holds the numbers.                                                      *)
(*                                                                         *)
(* Compiled code makes few checks.  Where the interpreter fails and it does *)
(* not, it goes on with what it finds: below the elements there are, or    *)
(* below the base.  Only an access outside the mapping stops the model     *)
(* ("wild").  Addresses count elements from the base of the stack; that    *)
(* they wrap at 2^64 is not modelled.                                      *)
(***************************************************************************)
EXTENDS BlockGraph, ClacExec, SequencesExt

CONSTANTS
    Names,          \* function names
    Codes,          \* functions to compile
    Defined,        \* names of the functions that exist
    InitStacks,     \* stacks to run them on
    CalleeStacks,   \* stacks a callee may leave
    Wrecks,         \* pointer and memory that a callee gone astray may leave
    MemSize,        \* bound on the stack's memory
    Stale           \* what is in memory that holds no element

\* A function is compiled when it has a graph, and says which ArithOps it does.
Compilable == {x \in ParsedInstr(Names, Int) : x.op = "arith" => "it" \in DOMAIN x}

ASSUME GraphAssumption == \A f \in Codes : GraphExists(f)
ASSUME CodesAssumption == Codes \subseteq Seq(Compilable)
ASSUME StacksAssumption == InitStacks \cup CalleeStacks \subseteq Seq(Int)
ASSUME MemoryAssumption == MemSize \in Nat /\ Stale \in Int
ASSUME WrecksAssumption == Wrecks \subseteq [sp : Int, mem : [0..(MemSize - 1) -> Int]]

\* There is room for one more element for each instruction: the end of the
\* mapping is not reached by pushing.
ASSUME RoomAssumption ==
    \A f \in Codes : \A stack \in InitStacks \cup CalleeStacks : Len(stack) + Len(f) <= MemSize

VARIABLES
    func,
    graph,          \* GraphOf(func), by block start
    loc,            \* position of the next instruction or terminator
    tmp,            \* values on the compile-time stack
    sp,             \* the variable `stack'
    mem,            \* the real stack
    status,         \* "run", "returned", or how it ended
    foot,           \* lowest address used since the block's entry (history)
    astray          \* has gone on where the interpreter fails (history)

vars == <<func, graph, loc, tmp, sp, mem, status, foot, astray>>

\* The stack as the interpreter has it.
View == [i \in 1..sp |-> mem[i - 1]] \o tmp

\* The machine that executes the graph, whose positions are those here.
Blocks == INSTANCE UncheckedMachine
            WITH st <- View, status <- IF astray THEN "astray" ELSE status

-----------------------------------------------------------------------------
(* What is emitted: operators on the state s of tmp, sp, mem, low (the     *)
(* lowest address used) and wild (there was an access outside the mapping). *)
(* got are the values popped, in that order.                               *)

Load(s, a) == IF a \in DOMAIN s.mem THEN s.mem[a] ELSE Stale

Loaded(s, a) ==
    [s EXCEPT !.low = MinInt(@, a), !.got = Append(@, Load(s, a)),
              !.wild = @ \/ a \notin DOMAIN s.mem]

EmitPopLoadless(s) == [s EXCEPT !.sp = @ - 1]

EmitPop(s) == Loaded(EmitPopLoadless(s), s.sp - 1)

EmitPush(s, v) ==
    [s EXCEPT !.mem = [a \in DOMAIN @ |-> IF a = s.sp THEN v ELSE @[a]],
              !.sp = @ + 1, !.low = MinInt(@, s.sp), !.wild = @ \/ s.sp \notin DOMAIN s.mem]

\* vs[1] is pushed first.
Pushed(s, vs) ==
    LET pushed[i \in 0..Len(vs)] == IF i = 0 THEN s ELSE EmitPush(pushed[i - 1], vs[i])
    IN pushed[Len(vs)]

\* Mutant of Flush: the top first.
FlushReversed(s) == [Pushed(s, Reverse(s.tmp)) EXCEPT !.tmp = << >>]

Flush(s) == [Pushed(s, s.tmp) EXCEPT !.tmp = << >>]

XPop(s) ==
    IF s.tmp = << >> THEN EmitPop(s)
    ELSE [s EXCEPT !.tmp = Front(@), !.got = Append(@, Last(s.tmp))]

\* Mutant of XPopNoValue: only memory is popped.
XPopMemory(s) == EmitPopLoadless(s)

XPopNoValue(s) ==
    IF s.tmp = << >> THEN EmitPopLoadless(s) ELSE [s EXCEPT !.tmp = Front(@)]

Times(n, Emit(_), s) ==
    LET times[i \in 0..n] == IF i = 0 THEN s ELSE Emit(times[i - 1]) IN times[n]

XPops(s, n) == Times(n, XPop, s)

\* tmp.push, of each of vs.
PushTmp(s, vs) == [s EXCEPT !.tmp = @ \o vs]

\* Mutant of PickConst: the load does not count what tmp holds.
PickFromMemory(s, n) ==
    IF n <= Len(s.tmp) THEN PushTmp(s, <<FromTop(s.tmp, n)>>)
    ELSE LET t == Loaded(s, s.sp - n) IN PushTmp(t, <<Last(t.got)>>)

\* ResolvedPick: from tmp, or past what of it lies in memory.
PickConst(s, n) ==
    IF n <= Len(s.tmp) THEN PushTmp(s, <<FromTop(s.tmp, n)>>)
    ELSE LET t == Loaded(s, s.sp - (n - Len(s.tmp))) IN PushTmp(t, <<Last(t.got)>>)

\* BadPick, emit_pick
PickDynamic(s) ==
    LET t == Flush(XPop(s))
        u == Loaded(t, t.sp - t.got[1])
    IN EmitPush(u, Last(u.got))

\* ResolvedDropRange: the kept elements are popped and pushed again.
DropRangeConst(s, start, amt) ==
    LET t == XPops(s, start - amt)
    IN PushTmp(Times(amt, XPopNoValue, t), Reverse(t.got))

\* BadDropRange, call_memmove (of a size without sign)
DropRangeDynamic(s) ==
    LET t      == Flush(XPops(s, 2))
        amount == t.got[1]
        start  == t.got[2]
        dst    == t.sp - start
        moved  == dst..(t.sp - amount - 1)
    IN [t EXCEPT !.sp = @ - amount, !.low = MinInt(@, MinInt(dst, dst + amount)),
                 !.mem = [a \in DOMAIN @ |-> IF a \in moved THEN Load(t, a + amount) ELSE @[a]],
                 !.wild = @ \/ start < amount
                            \/ \E a \in moved : {a, a + amount} \ DOMAIN t.mem # {}]

\* What the operands are known to allow; a division traps, rpow exits.
ArithEnds(it, a, b) ==
    CASE it \in {"div", "rem"} /\ (b = 0 \/ (it = "div" /\ Overflows(it, a, b))) -> "panic"
      [] it = "pow" /\ b \notin Exponents -> "badexponent"
      [] OTHER -> "executed"

EmitArith(s, it) ==
    LET t == XPops(s, 2)
        b == t.got[1]
        a == t.got[2]
        tag == ArithEnds(it, a, b)
    IN [tag |-> tag, s |-> IF tag = "executed" THEN PushTmp(t, <<ArithResult(it, a, b)>>) ELSE t]

\* The ways x can end, each with the state it leaves.
Emitted(x, s) ==
    LET p     == XPops(s, Pops[x.op])
        ok(t) == {[tag |-> "executed", s |-> t]}
    IN CASE x.op = "lit"       -> ok(PushTmp(s, <<x.n>>))
         [] x.op = "width"     -> ok(PushTmp(s, <<WidthNative>>))
         [] x.op = "arith"     -> {EmitArith(s, x.it)}
         [] x.op = "swap"      -> ok(PushTmp(p, <<p.got[1], p.got[2]>>))
         [] x.op = "rot"       -> ok(PushTmp(p, <<p.got[2], p.got[1], p.got[3]>>))
         [] x.op = "drop"      -> ok(XPopNoValue(s))
         [] x.op \in {"print", "write", "write8"} -> ok(p)
         [] x.op \in {"read", "syscall"} ->
                {[tag |-> "executed", s |-> PushTmp(p, <<v>>)] : v \in Values}
         [] x.op = "quit"      -> {[tag |-> "quit", s |-> s]}
         [] x.op = "rpick"     -> ok(PickConst(s, x.n))
         [] x.op = "pick"      -> ok(PickDynamic(s))
         [] x.op = "rdrop"     -> ok(DropRangeConst(s, x.s, x.a))
         [] x.op = "droprange" -> ok(DropRangeDynamic(s))

-----------------------------------------------------------------------------
Init ==
    /\ func \in Codes
    /\ graph = GraphOf(func)
    /\ loc = Blocks!Entry(0)
    /\ \E st \in InitStacks :
         /\ sp = Len(st)
         /\ mem = [a \in 0..(MemSize - 1) |-> IF a < Len(st) THEN st[a + 1] ELSE Stale]
    /\ tmp = << >> /\ status = "run" /\ astray = FALSE
    /\ foot = [block |-> Len(func), entry |-> sp, low |-> sp]

Running == status = "run" /\ loc < Len(func)
Start   == Blocks!BlockOf(loc)
Block   == graph[Start]
AtInstr == Running /\ loc \in DOMAIN Block.code
Here    == Block.code[loc]

Foot  == IF foot.block = Start THEN foot ELSE [block |-> Start, entry |-> sp, low |-> sp]
State == [tmp |-> tmp, sp |-> sp, mem |-> mem, low |-> Foot.low, got |-> << >>, wild |-> FALSE]

Becomes(s) ==
    /\ tmp' = s.tmp /\ sp' = s.sp /\ mem' = s.mem
    /\ foot' = [Foot EXCEPT !.low = s.low]
    /\ UNCHANGED <<func, graph>>

End(tag, s) ==
    /\ Becomes(s)
    /\ status' = IF s.wild THEN "wild" ELSE tag
    /\ UNCHANGED loc

GoTo(l, s) ==
    IF s.wild THEN End("wild", s) ELSE Becomes(s) /\ loc' = l /\ UNCHANGED status

\* Out of the block: to another, to term_block, or to trap_block.
Leave(l, s) ==
    IF l > Len(func) THEN End("badskip", Flush(s)) ELSE GoTo(l, Flush(s))

\* To the next instruction or terminator of the block, or by its jump.
Proceed(s) ==
    IF Blocks!After(loc) < Block.end THEN GoTo(Blocks!After(loc), s)
    ELSE Leave(Blocks!After(loc), s)

\* Operands that are not there are popped all the same.
StepInstr ==
    /\ AtInstr /\ Here.op # "call"
    /\ \E e \in Emitted(Here, State) :
         IF e.tag = "executed" THEN Proceed(e.s) ELSE End(e.tag, e.s)
    /\ astray' = (astray \/ Blocks!Unnoticed)

\* A callee is given the real stack and returns it.  (return_call, if nothing
\* but the function's end follows, differs in the machine stack only.)
StepCall ==
    /\ AtInstr /\ Here.op = "call" /\ Here.f \in Defined
    /\ \E new \in CalleeStacks :
         Proceed([Flush(State) EXCEPT !.sp = Len(new),
                     !.mem = [a \in DOMAIN @ |-> IF a < Len(new) THEN new[a + 1] ELSE Stale]])
    /\ UNCHANGED astray

\* Nor is anything noticed of what has gone wrong in the callee.
StepCallAstray ==
    /\ AtInstr /\ Here.op = "call" /\ Here.f \in Defined
    /\ \E wreck \in Wrecks : Proceed([Flush(State) EXCEPT !.sp = wreck.sp, !.mem = wreck.mem])
    /\ astray' = TRUE

\* The rest of the block is not compiled.
StepUnknown ==
    /\ AtInstr /\ Here.op = "call" /\ Here.f \notin Defined
    /\ End("unknown", State) /\ UNCHANGED astray

AtTerminator(kind) == Running /\ loc \notin DOMAIN Block.code /\ Block.term.kind = kind

Jump ==
    /\ AtTerminator("jump") /\ Leave(Blocks!Entry(Block.term.targets[1]), State)
    /\ UNCHANGED astray

\* brif and the switch, whose default is trap_block.
Branch ==
    /\ AtTerminator("if") \/ AtTerminator("skip")
    /\ LET s    == XPop(State)
           v    == s.got[1]
           next == IF Block.term.kind = "if" THEN (IF v # 0 THEN 1 ELSE 2) ELSE v + 1
       IN Leave(IF next \in DOMAIN Block.term.targets
                THEN Blocks!Entry(Block.term.targets[next]) ELSE Len(func) + 1, s)
    /\ astray' = (astray \/ Blocks!Unnoticed)

Return ==
    /\ status = "run" /\ loc = Len(func)
    /\ status' = "returned"
    /\ UNCHANGED <<func, graph, loc, tmp, sp, mem, foot, astray>>

Next ==
    \/ StepInstr \/ StepCall \/ StepCallAstray \/ StepUnknown
    \/ Jump \/ Branch \/ Return

Spec == Init /\ [][Next]_vars

-----------------------------------------------------------------------------
\* Types.  Until the interpreter would have failed unnoticed, the pointer and
\* every access stay in the mapping.
TypeOK ==
    /\ func \in Codes /\ loc \in 0..Len(func)
    /\ tmp \in Seq(Int)
    /\ sp \in Int
    /\ mem \in [0..(MemSize - 1) -> Int]
    /\ status \in {"run", "returned", "badskip", "badexponent", "unknown", "quit", "panic", "wild"}
    /\ astray \in BOOLEAN
    /\ ~ astray => sp \in 0..MemSize /\ status # "wild"

\* Compiled code does what the block graph means, and so what the interpreter
\* does, up to the first failure it does not check for: memory below sp and tmp
\* together are the stack at every instruction, memory alone between blocks and
\* for callees ("we commit/flush the build function stack", jit.rs:107), and it
\* ends as the interpreter, but for bytes cut off and a remainder of 0.
ImplementsBlocks == Blocks!UncheckedSpec

\* The reach that get_delta_and_reach finds for the block that starts at s, if
\* it is static and without calls.
NoSigs == << >>
Static(block) == \A j \in DOMAIN block.code : Reach(block.code[j], NoSigs).tag = "ok"

Gain(block, j) ==
    IF j \in DOMAIN block.code /\ block.code[j].op # "quit"
    THEN Delta(block.code[j], NoSigs).val ELSE 0

DepthIn(s, block) ==
    LET depth[j \in s..block.end] == IF j = s THEN 0 ELSE depth[j - 1] + Gain(block, j - 1)
    IN depth

PeakReach(s, block) ==
    LET depth == DepthIn(s, block)
        ends  == IF block.term.kind = "jump" THEN 0 ELSE 1 - depth[block.end]
    IN Max({0, ends} \cup {Reach(block.code[j], NoSigs).val - depth[j] : j \in DOMAIN block.code})

\* A block's code touches no element below the reach of its signature, be it
\* there or not: the elements under it may belong to whoever called.
FootprintWithinReach ==
    foot.block < Len(func) /\ Static(graph[foot.block]) =>
        foot.low >= foot.entry - PeakReach(foot.block, graph[foot.block])
=============================================================================
