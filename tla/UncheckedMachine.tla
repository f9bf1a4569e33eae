-------------------------- MODULE UncheckedMachine --------------------------
(***************************************************************************)
(* What compiled code promises (src/src/jit/jit.rs): the block machine,    *)
(* without most of its checks.  Where the interpreter panics because a     *)
(* value is no byte or a remainder overflows, compiled code has a result   *)
(* and goes on.  Where it misses elements, or a pick or drop_range is out  *)
(* of range, nothing is noticed: compiled code is "astray", and the        *)
(* machine promises nothing any more.                                      *)
(***************************************************************************)
EXTENDS BlockMachine

\* istore8 discards the other bits; the smallest number % -1 is 0.
Outcomes(x, stack) ==
    IF x.op = "write8" /\ Len(stack) >= 2 THEN {Executed(Pop(stack, 2))}
    ELSE IF /\ x = Arith("rem") /\ Len(stack) >= 2
            /\ Overflows("rem", FromTop(stack, 2), FromTop(stack, 1))
    THEN {Executed(Push(Pop(stack, 2), 0))}
    ELSE Exec(x, stack)

\* (A write8 fails at a value before it finds no address.)
Unchecked(x, o) ==
    o.tag \in {"missing", "badpick", "baddrop", "wild"} \/ (x.op = "write8" /\ o.tag = "panic")

AtBody == Running /\ loc \in DOMAIN Block.code /\ Block.code[loc].op # "call"

\* The interpreter fails at the next step, and compiled code does not notice.
Unnoticed ==
    \/ AtBody /\ \E o \in Outcomes(Block.code[loc], st) : Unchecked(Block.code[loc], o)
    \/ (AtTerminator("if") \/ AtTerminator("skip")) /\ st = << >>

UncheckedBody ==
    /\ AtBody
    /\ \E o \in Outcomes(Block.code[loc], st) :
         IF o.tag = "executed" THEN GoTo(After(loc), o.st) ELSE Stop(o.tag, o.st)

\* A callee is compiled code, too.
CalleeFails ==
    /\ Running /\ loc \in DOMAIN Block.code
    /\ Block.code[loc].op = "call" /\ Block.code[loc].f \in Defined

Astray == status' = "astray" /\ UNCHANGED <<func, graph>>

UncheckedNext ==
    \/ /\ ~ Unnoticed
       /\ UncheckedBody \/ CallBody \/ CallUnknown \/ Jump \/ Branch \/ Return
    \/ (Unnoticed \/ CalleeFails \/ status = "astray") /\ Astray

UncheckedSpec == Init /\ [][UncheckedNext]_vars
=============================================================================
