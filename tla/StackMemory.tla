---------------------------- MODULE StackMemory ----------------------------
(***************************************************************************)
(* The Clac stack as it is (src/src/types.rs, Stack; src/src/lib.rs,       *)
(* execute): mapped memory and a pointer rsp into it, addresses counting   *)
(* elements from the base.  push stores and steps up without a look at the *)
(* capacity; pop knows the base only by equality with it; a pick loads     *)
(* relative to rsp, and a drop_range moves memory that overlaps, and rsp,  *)
(* below the base if its start is higher than the stack.                   *)
(*                                                                         *)
(* Nothing is modelled after an access outside the mapping.  Counts too    *)
(* large for it stay so: that an address, eight times a count, wraps at    *)
(* 2^64 is not modelled.                                                   *)
(***************************************************************************)
EXTENDS ClacExec

CONSTANTS
    Instrs,         \* instructions that may be executed, none a call
    Capacity,       \* elements mapped
    Lowest          \* bound: how far below the base rsp is followed

ASSUME InstrsAssumption == Instrs \subseteq Instr({})
ASSUME CapacityAssumption == Capacity \in Nat
ASSUME LowestAssumption == Lowest \in Int /\ Lowest < 0

VARIABLES
    data,           \* the mapped memory
    rsp,
    status          \* tag of the last instruction, "overrun" or "wild"

vars == <<data, rsp, status>>

\* The elements from address lo up to hi.
Elements(lo, hi) == [i \in 1..(hi - lo) |-> data[lo + i - 1]]

\* Pushing vs at address p.
Stored(mem, p, vs) ==
    [a \in DOMAIN mem |-> IF a \in p..(p + Len(vs) - 1) THEN vs[a - p + 1] ELSE mem[a]]

\* Mutant of Copied: one element after the other from the end, over its source.
CopiedDown(mem, src, dst, n) ==
    [a \in DOMAIN mem |->
        IF a \in dst..(dst + n - 1) /\ src > dst
        THEN mem[dst + n + ((a - dst - n) % (src - dst))] ELSE mem[a]]

\* std::ptr::copy, which is memmove.
Copied(mem, src, dst, n) ==
    [a \in DOMAIN mem |-> IF a \in dst..(dst + n - 1) THEN mem[src + a - dst] ELSE mem[a]]

-----------------------------------------------------------------------------
Init ==
    /\ data = [a \in 0..(Capacity - 1) |-> 0]
    /\ rsp = 0
    /\ status = "executed"

Final == {"quit", "panic", "wild", "overrun"}

Defined == status \notin Final /\ rsp >= Lowest

Ends(tag, p) == status' = tag /\ rsp' = p /\ UNCHANGED data

\* An access past the end of the mapping, or before its base.
Overruns == Ends("overrun", rsp)
Wild     == Ends("wild", rsp)

PointerOps == {"pick", "droprange", "rpick", "rdrop"}

\* The instructions that only pop and push: as many pops as there are
\* elements, then their results.
StepPlain(x) ==
    /\ Defined /\ rsp >= 0 /\ x.op \notin PointerOps
    /\ LET pops  == IF Pops[x.op] <= rsp THEN Pops[x.op] ELSE rsp
           under == rsp - pops
       IN \E o \in Exec(x, Elements(under, rsp)) :
            IF under + Len(o.st) > Capacity THEN Overruns
            ELSE /\ data' = Stored(data, under, o.st)
                 /\ rsp' = under + Len(o.st)
                 /\ status' = o.tag

\* With the pointer at p after the pops.  The element is loaded first.
PickAt(p, n) ==
    IF n > p THEN Wild
    ELSE IF p = Capacity THEN Overruns
    ELSE /\ data' = Stored(data, p, <<data[p - n]>>)
         /\ rsp' = p + 1
         /\ status' = "executed"

\* With nothing to keep nothing is accessed, wherever the pointer goes.
DropRangeAt(p, start, amount) ==
    LET drop_start  == p - start
        drop_end    == drop_start + amount
        keep_amount == start - amount
    IN IF keep_amount > 0 /\ drop_start < 0 THEN Wild
       ELSE /\ data' = Copied(data, drop_end, drop_start, keep_amount)
            /\ rsp' = p - amount
            /\ status' = "executed"

\* ResolvedPick and ResolvedDropRange
StepResolved(x) ==
    /\ Defined
    /\ \/ x.op = "rpick" /\ PickAt(rsp, x.n)
       \/ x.op = "rdrop" /\ DropRangeAt(rsp, x.s, x.a)

\* BadPick
StepPick(x) ==
    /\ Defined /\ rsp >= 0 /\ x.op = "pick"
    /\ IF rsp = 0 THEN Ends("missing", 0)
       ELSE IF data[rsp - 1] <= 0 THEN Ends("badpick", rsp - 1)
       ELSE PickAt(rsp - 1, data[rsp - 1])

\* Mutant of StepDropRange: the operands are compared, but not converted.
StepDropSigned(x) ==
    /\ Defined /\ rsp > 1 /\ x.op = "droprange"
    /\ data[rsp - 1] <= data[rsp - 2]
    /\ DropRangeAt(rsp - 2, data[rsp - 2], data[rsp - 1])

\* BadDropRange: the amount is converted before the start is popped.
StepDropRange(x) ==
    /\ Defined /\ rsp >= 0 /\ x.op = "droprange"
    /\ IF rsp = 0 THEN Ends("missing", 0)
       ELSE IF ~ IsUsize(data[rsp - 1]) THEN Ends("baddrop", rsp - 1)
       ELSE IF rsp = 1 THEN Ends("missing", 0)
       ELSE LET amount == data[rsp - 1]
                start  == data[rsp - 2]
            IN IF ~ IsUsize(start) \/ amount > start THEN Ends("baddrop", rsp - 2)
               ELSE DropRangeAt(rsp - 2, start, amount)

\* Below the base pop finds no end of the stack: what it loads, and what a push
\* stores, lies before the mapping.
StepBelow(x) ==
    /\ Defined /\ rsp < 0 /\ x.op \notin {"rpick", "rdrop"}
    /\ IF x.op = "quit" THEN Ends("quit", rsp) ELSE Wild

Next ==
    \E x \in Instrs :
        \/ StepPlain(x) \/ StepResolved(x) \/ StepPick(x) \/ StepDropRange(x)
        \/ StepBelow(x)

Spec == Init /\ [][Next]_vars

-----------------------------------------------------------------------------
\* Types.  In particular rsp never gets above the mapping.
TypeOK ==
    /\ data \in [0..(Capacity - 1) -> Int]
    /\ rsp \in Int /\ rsp <= Capacity
    /\ status \in {"executed", "skip", "missing", "badskip", "badpick", "baddrop",
                   "badexponent"} \cup Final

\* The memory below rsp is a stack: each sequence of instructions does to it
\* what it does to a sequence, also after failures and with stale elements
\* above rsp; the mapping is overrun by an instruction that leaves more than
\* Capacity elements and by no other, not even on the way.  rsp goes below the
\* base, where pop's comparison does not stop it any more (types.rs:365), by a
\* drop_range whose start is higher than the stack and by nothing else, and
\* never comes back.
Sequence == INSTANCE SequenceStack WITH
                st <- Elements(0, rsp),
                status <- IF rsp < 0 THEN "wild" ELSE status
ImplementsSequence == Sequence!Spec
=============================================================================
