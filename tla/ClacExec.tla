------------------------------ MODULE ClacExec ------------------------------
(***************************************************************************)
(* ClacState::execute (src/src/lib.rs): what one instruction does to the   *)
(* stack.  A stack is a sequence with its top at the end.                  *)
(*                                                                         *)
(* Exec(x, st) is the set of outcomes of x on st.  The tags:               *)
(*   executed   ExecRes::Executed                                          *)
(*   skip       ExecRes::Skip(n)                                           *)
(*   missing, badskip, badpick, baddrop, badexponent, quit                 *)
(*              the ExecErrors; what was popped before the error is gone   *)
(*   panic      the process panics (overflow, division by zero, write8 of  *)
(*              a value that is no byte)                                   *)
(*   wild       a pick or drop_range reaches below the stack, which is not *)
(*              checked: there is no sequence any more (StackMemory has    *)
(*              what becomes of the pointer)                               *)
(* The result of a read or of a syscall is any member of Values, and so is *)
(* that of an "arith" that does not say which ArithOp it is.               *)
(***************************************************************************)
EXTENDS ClacInstr

CONSTANTS
    Values,     \* the numbers results are drawn from
    Bits        \* width of a Value (64)

ASSUME ValuesAssumption == Values \subseteq Int
ASSUME BitsAssumption == Bits \in Nat \ {0}

WidthNative == 64
Byte == 0..255

-----------------------------------------------------------------------------
(* Arithmetic on Values.  The division of TLA+ rounds down, that of Rust   *)
(* towards zero.                                                           *)

\* 2^n, by a recursion that can be reasoned about.
TwoTo(n) == LET to[i \in 0..n] == IF i = 0 THEN 1 ELSE 2 * to[i - 1] IN to[n]

LeastValue == -TwoTo(Bits - 1)
Word     == LeastValue..(-LeastValue - 1)

Wrap(n) == ((n - LeastValue) % TwoTo(Bits)) + LeastValue

Magnitude(n) == IF n < 0 THEN -n ELSE n

Quotient(a, b) ==
    LET q == Magnitude(a) \div Magnitude(b) IN IF (a < 0) = (b < 0) THEN q ELSE -q

\* The u32 exponents: half as wide as a Value.
Exponents == 0..(TwoTo(Bits \div 2) - 1)

\* wrapping_pow
Power(a, n) ==
    LET power[i \in 0..n] == IF i = 0 THEN 1 ELSE Wrap(a * power[i - 1]) IN power[n]

\* Where + - * and / % leave the range of a Value.
Overflows(it, a, b) ==
    CASE it = "add" -> a + b \notin Word
      [] it = "sub" -> a - b \notin Word
      [] it = "mul" -> a * b \notin Word
      [] it \in {"div", "rem"} -> a = LeastValue /\ b = -1
      [] it \in {"lt", "pow"} -> FALSE

\* The result where there is one, wrapped.
ArithResult(it, a, b) ==
    CASE it = "add" -> Wrap(a + b)
      [] it = "sub" -> Wrap(a - b)
      [] it = "mul" -> Wrap(a * b)
      [] it = "div" -> Quotient(a, b)
      [] it = "rem" -> a - b * Quotient(a, b)
      [] it = "lt"  -> IF a < b THEN 1 ELSE 0
      [] it = "pow" -> Power(a, b)

-----------------------------------------------------------------------------

Outcome(tag, st)  == [tag |-> tag, st |-> st, n |-> 0]
Executed(st)      == Outcome("executed", st)
SkipBy(n, st)     == [tag |-> "skip", st |-> st, n |-> n]

Pop(st, k)     == SubSeq(st, 1, Len(st) - k)
FromTop(st, k) == st[Len(st) - k + 1]
Push(st, v)    == Append(st, v)

\* How many xpop()? an instruction makes; the first that finds the stack
\* empty ends it with MissingArguments, and the stack stays empty.
Pops == [lit |-> 0, quit |-> 0, width |-> 0, rpick |-> 0, rdrop |-> 0,
         print |-> 1, drop |-> 1, if |-> 1, skip |-> 1, read |-> 1, pick |-> 1,
         swap |-> 2, arith |-> 2, write |-> 2, write8 |-> 2, droprange |-> 2,
         rot |-> 3, syscall |-> 7]

\* Copying the kept elements down over the dropped ones.
RemoveRange(st, start, amt) ==
    Pop(st, start) \o SubSeq(st, Len(st) - start + amt + 1, Len(st))

PickFrom(st, n) ==
    IF n > Len(st) THEN Outcome("wild", << >>) ELSE Executed(Push(st, FromTop(st, n)))

DropRangeFrom(st, start, amt) ==
    IF start > Len(st) THEN Outcome("wild", << >>)
    ELSE Executed(RemoveRange(st, start, amt))

\* What is left of the operation's operands a and b is st.  An overflow of
\* + - * panics in a debug build and wraps in a release build.
ArithOutcomes(x, st, a, b) ==
    LET panic    == Outcome("panic", st)
        exponent == Outcome("badexponent", st)
    IN IF "it" \notin DOMAIN x
       THEN {Executed(Push(st, v)) : v \in Values} \cup {panic, exponent}
       ELSE LET result == Executed(Push(st, ArithResult(x.it, a, b)))
            IN CASE x.it \in {"add", "sub", "mul"} ->
                        {result} \cup (IF Overflows(x.it, a, b) THEN {panic} ELSE {})
                 [] x.it \in {"div", "rem"} ->
                        IF b = 0 \/ Overflows(x.it, a, b) THEN {panic} ELSE {result}
                 [] x.it = "lt"  -> {result}
                 [] x.it = "pow" -> IF b \in Exponents THEN {result} ELSE {exponent}

\* The conversions that fail before the next pop is tried.
FailsEarly(x, st) ==
    /\ Len(st) > 0
    /\ \/ x.op = "write8" /\ FromTop(st, 1) \notin Byte
       \/ x.op = "droprange" /\ ~ IsUsize(FromTop(st, 1))

Exec(x, st) ==
    IF FailsEarly(x, st)
    THEN {Outcome(IF x.op = "write8" THEN "panic" ELSE "baddrop", Pop(st, 1))}
    ELSE IF Len(st) < Pops[x.op] THEN {Outcome("missing", << >>)}
    ELSE LET b   == FromTop(st, 1)
             a   == FromTop(st, 2)
             st1 == Pop(st, 1)
             st2 == Pop(st, 2)
         IN CASE x.op = "lit"   -> {Executed(Push(st, x.n))}
              [] x.op = "width" -> {Executed(Push(st, WidthNative))}
              [] x.op = "quit"  -> {Outcome("quit", st)}
              [] x.op \in {"print", "drop"} -> {Executed(st1)}
              [] x.op = "if"    -> {IF b = 0 THEN SkipBy(3, st1) ELSE Executed(st1)}
              [] x.op = "skip"  -> {IF IsUsize(b) THEN SkipBy(b, st1)
                                    ELSE Outcome("badskip", st1)}
              [] x.op = "swap"  -> {Executed(st2 \o <<b, a>>)}
              [] x.op = "rot"   -> {Executed(Pop(st, 3) \o <<a, b, FromTop(st, 3)>>)}
              [] x.op = "arith" -> ArithOutcomes(x, st2, a, b)
              [] x.op = "read"  -> {Executed(Push(st1, v)) : v \in Values}
              [] x.op \in {"write", "write8"} -> {Executed(st2)}
              [] x.op = "syscall" -> {Executed(Push(Pop(st, 7), v)) : v \in Values}
              [] x.op = "rpick" -> {PickFrom(st, x.n)}
              [] x.op = "rdrop" -> {DropRangeFrom(st, x.s, x.a)}
              [] x.op = "pick"  -> {IF b <= 0 THEN Outcome("badpick", st1)
                                    ELSE PickFrom(st1, b)}
              [] x.op = "droprange" ->
                    {IF a < 0 \/ b > a THEN Outcome("baddrop", st2)
                     ELSE DropRangeFrom(st2, a, b)}
=============================================================================
