----------------------------- MODULE ClacLemmas -----------------------------
(***************************************************************************)
(* Facts about the operators of ClacExec and BlockGraph that the proofs    *)
(* about the machines share: induction, what an instruction leaves on the  *)
(* stack, and the recursive functions of both modules unfolded.            *)
(***************************************************************************)
EXTENDS BlockGraph, ClacExec, SequenceTheorems, WellFoundedInduction, TLAPS

-----------------------------------------------------------------------------
(* Induction, over sets of numbers instead of predicates: no prover        *)
(* instantiates an operator, but each knows what it is to be in a set.     *)

\* A set of natural numbers has a least one.
LEMMA LeastNumber ==
    ASSUME NEW T, T \subseteq Nat, T # {}
    PROVE  \E x \in T : \A y \in T : x <= y
<1> DEFINE R == {ss \in Nat \X Nat : ss[1] < ss[2]}
<1>1. IsWellFoundedOn(R, Nat)
  BY NatLessThanWellFounded DEF OpToRel
<1>2. PICK x \in T : \A y \in T : ~ (<<y, x>> \in R)
  <2> HIDE DEF R
  <2> QED
    BY <1>1, WFMin
<1>3. ASSUME NEW y \in T PROVE x <= y
  <2>1. x \in Nat /\ y \in Nat /\ ~ (<<y, x>> \in R)
    BY <1>2
  <2> QED
    BY <2>1
<1> QED
  BY <1>3

\* Induction up to a bound: S holds the numbers for which something is true.
LEMMA InductionUpTo ==
    ASSUME NEW m \in Nat, NEW S, 0 \in S, \A n \in 0..(m - 1) : n \in S => n + 1 \in S
    PROVE  \A n \in 0..m : n \in S
<1> DEFINE T == (0..m) \ S
<1> SUFFICES ASSUME T # {} PROVE FALSE
  OBVIOUS
<1>1. PICK x \in T : \A y \in T : x <= y
  <2>1. T \subseteq Nat
    OBVIOUS
  <2> HIDE DEF T
  <2> QED
    BY <2>1, LeastNumber
<1>2. x # 0 /\ x - 1 \in 0..(m - 1)
  BY <1>1
<1>3. x - 1 \in S
  BY <1>1, <1>2
<1> QED
  BY <1>1, <1>2, <1>3

LEMMA NatInductionBySet ==
    ASSUME NEW S, 0 \in S, \A n \in Nat : n \in S => n + 1 \in S
    PROVE  Nat \subseteq S
<1> SUFFICES ASSUME NEW m \in Nat PROVE m \in S
  OBVIOUS
<1> QED
  BY InductionUpTo

\* f obeys a recursion up to m; f and g obey the same one; they agree.
Obeys(f, start, step, m) == f[0] = start /\ \A i \in 1..m : f[i] = step[i][f[i - 1]]
SameRecursion(f, g, m) ==
    f[0] = g[0] /\ \A i \in 1..m : f[i - 1] = g[i - 1] => f[i] = g[i]
Agree(f, g, m) == \A i \in 0..m : f[i] = g[i]

\* A recursion over 0..m that stays in V has a solution.
LEMMA RecursionHasSolution ==
    ASSUME NEW V, NEW start \in V, NEW step \in [Nat -> [V -> V]], NEW m \in Nat
    PROVE  \E f \in [0..m -> V] : Obeys(f, start, step, m)
<1> DEFINE Solves(f, n) == /\ f \in [0..n -> V] /\ f[0] = start
                           /\ \A i \in 1..n : f[i] = step[i][f[i - 1]]
           S == {n \in Nat : \E f : Solves(f, n)}
<1>1. 0 \in S
  <2>1. Solves([i \in 0..0 |-> start], 0)
    OBVIOUS
  <2> QED
    BY <2>1
<1>2. ASSUME NEW n \in Nat, n \in S PROVE n + 1 \in S
  <2>1. PICK f : Solves(f, n)
    BY <1>2
  <2> DEFINE g == [i \in 0..(n + 1) |-> IF i = n + 1 THEN step[n + 1][f[n]] ELSE f[i]]
  <2>2. step[n + 1][f[n]] \in V
    BY <2>1
  <2>3. g \in [0..(n + 1) -> V] /\ g[0] = start
    BY <2>1, <2>2
  <2>4. ASSUME NEW i \in 1..(n + 1) PROVE g[i] = step[i][g[i - 1]]
    BY <2>1
  <2> HIDE DEF g
  <2>5. Solves(g, n + 1)
    BY <2>3, <2>4
  <2> HIDE DEF Solves
  <2> QED
    BY <2>5
<1>3. m \in S
  <2>1. 0 \in S /\ \A n \in Nat : n \in S => n + 1 \in S
    BY <1>1, <1>2
  <2> HIDE DEF S
  <2> QED
    BY <2>1, NatInductionBySet
<1> QED
  BY <1>3 DEF Obeys

\* Two solutions of a recursion agree where both are defined.
LEMMA RecursionIsUnique ==
    ASSUME NEW m \in Nat, NEW f, NEW g, SameRecursion(f, g, m) PROVE Agree(f, g, m)
<1> DEFINE S == {i \in 0..m : f[i] = g[i]}
<1>1. 0 \in S
  BY DEF SameRecursion
<1>2. ASSUME NEW n \in 0..(m - 1), n \in S PROVE n + 1 \in S
  <2>1. n + 1 \in 1..m /\ (n + 1) - 1 = n
    OBVIOUS
  <2> QED
    BY <1>2, <2>1 DEF SameRecursion
<1>3. \A n \in 0..m : n \in S
  <2> HIDE DEF S
  <2> QED
    BY <1>1, <1>2, InductionUpTo
<1> QED
  BY <1>3 DEF Agree

-----------------------------------------------------------------------------
(* One instruction.                                                        *)

LEMMA TwoToIsPositive ==
    ASSUME NEW n \in Nat PROVE TwoTo(n) \in Nat \ {0}
<1> DEFINE to == CHOOSE f : f = [i \in 0..n |-> IF i = 0 THEN 1 ELSE 2 * f[i - 1]]
           V == Nat \ {0}
           step == [i \in Nat |-> [v \in V |-> 2 * v]]
<1>1. PICK f \in [0..n -> V] : Obeys(f, 1, step, n)
  <2>1. 1 \in V /\ step \in [Nat -> [V -> V]]
    OBVIOUS
  <2> HIDE DEF step, V
  <2> QED
    BY <2>1, RecursionHasSolution
<1>2. f = [i \in 0..n |-> IF i = 0 THEN 1 ELSE 2 * f[i - 1]]
  <2>1. ASSUME NEW i \in 1..n PROVE f[i] = 2 * f[i - 1]
    <3>1. i \in Nat /\ f[i - 1] \in V /\ f[i] = step[i][f[i - 1]]
      BY <1>1 DEF Obeys
    <3> QED
      BY <3>1
  <2> QED
    BY <1>1, <2>1 DEF Obeys
<1>3. to = [i \in 0..n |-> IF i = 0 THEN 1 ELSE 2 * to[i - 1]]
  BY <1>2
<1>4. Agree(to, f, n)
  <2> HIDE DEF to
  <2>1. SameRecursion(to, f, n)
    BY <1>2, <1>3 DEF SameRecursion
  <2> QED
    BY <2>1, RecursionIsUnique
<1>5. TwoTo(n) = to[n]
  BY DEF TwoTo
<1> QED
  BY <1>4, <1>5 DEF Agree

LEMMA WrapIsInt == ASSUME NEW n \in Int PROVE Wrap(n) \in Int
<1>1. TwoTo(Bits) \in Nat \ {0} /\ TwoTo(Bits - 1) \in Nat
  BY BitsAssumption, TwoToIsPositive
<1> QED
  BY <1>1 DEF Wrap, LeastValue

\* wrapping_pow.
LEMMA PowerIsInt ==
    ASSUME NEW a \in Int, NEW n \in Nat PROVE Power(a, n) \in Int
<1> DEFINE power == CHOOSE f : f = [i \in 0..n |-> IF i = 0 THEN 1 ELSE Wrap(a * f[i - 1])]
           times == [v \in Int |-> Wrap(a * v)]
           step == [i \in Nat |-> times]
<1>1. PICK f \in [0..n -> Int] : Obeys(f, 1, step, n)
  <2>1. times \in [Int -> Int]
    <3>1. \A v \in Int : a * v \in Int
      OBVIOUS
    <3>2. \A v \in Int : Wrap(a * v) \in Int
      BY <3>1, WrapIsInt
    <3> QED
      BY <3>2, Zenon
  <2> HIDE DEF times
  <2>2. 1 \in Int /\ step \in [Nat -> [Int -> Int]]
    BY <2>1
  <2> HIDE DEF step
  <2> QED
    BY <2>2, RecursionHasSolution
<1>2. f = [i \in 0..n |-> IF i = 0 THEN 1 ELSE Wrap(a * f[i - 1])]
  <2>1. ASSUME NEW i \in 1..n PROVE f[i] = Wrap(a * f[i - 1])
    <3>1. i \in Nat /\ f[i - 1] \in Int
      OBVIOUS
    <3>2. f[i] = step[i][f[i - 1]]
      BY <1>1 DEF Obeys
    <3>3. step[i] = times
      BY <3>1, Zenon
    <3>4. times[f[i - 1]] = Wrap(a * f[i - 1])
      BY <3>1, Zenon
    <3> QED
      BY <3>2, <3>3, <3>4, Zenon
  <2> QED
    BY <1>1, <2>1 DEF Obeys
<1>3. power = [i \in 0..n |-> IF i = 0 THEN 1 ELSE Wrap(a * power[i - 1])]
  BY <1>2
<1>4. Agree(power, f, n)
  <2> HIDE DEF power
  <2>1. SameRecursion(power, f, n)
    BY <1>2, <1>3 DEF SameRecursion
  <2> QED
    BY <2>1, RecursionIsUnique
<1>5. Power(a, n) = power[n]
  BY DEF Power
<1> QED
  BY <1>4, <1>5 DEF Agree

\* Popping k of at least k elements, and the k-th from the top.
LEMMA PopIsSeq ==
    ASSUME NEW st \in Seq(Int), NEW k \in 0..Len(st)
    PROVE  /\ Pop(st, k) \in Seq(Int) /\ Len(Pop(st, k)) = Len(st) - k
           /\ \A i \in 1..(Len(st) - k) : Pop(st, k)[i] = st[i]
<1>1. 1 \in Int /\ Len(st) - k \in Int /\ \A i \in 1..(Len(st) - k) : st[i] \in Int
  OBVIOUS
<1> QED
  BY <1>1, SubSeqProperties DEF Pop

LEMMA FromTopIsInt ==
    ASSUME NEW st \in Seq(Int), NEW k \in 1..Len(st)
    PROVE  FromTop(st, k) \in Int
BY DEF FromTop

LEMMA PushIsSeq ==
    ASSUME NEW st \in Seq(Int), NEW v \in Int PROVE Push(st, v) \in Seq(Int)
BY DEF Push

LEMMA RemoveRangeIsSeq ==
    ASSUME NEW st \in Seq(Int), NEW start \in 0..Len(st), NEW amt \in 0..start
    PROVE  /\ RemoveRange(st, start, amt) \in Seq(Int)
           /\ Len(RemoveRange(st, start, amt)) = Len(st) - amt
           /\ \A i \in 1..(Len(st) - amt) :
                 RemoveRange(st, start, amt)[i] = IF i <= Len(st) - start THEN st[i] ELSE st[i + amt]
<1> DEFINE n == Len(st)
           dst == n - start
           m == start - amt
           from == n - start + amt + 1
           below == Pop(st, start)
           kept == SubSeq(st, from, n)
<1>1. n \in Nat /\ start \in Nat /\ amt \in Nat /\ dst \in Nat /\ m \in Nat /\ dst + m = n - amt
  OBVIOUS
<1>2. below \in Seq(Int) /\ Len(below) = dst /\ \A i \in 1..dst : below[i] = st[i]
  BY PopIsSeq
<1>3. kept \in Seq(Int) /\ Len(kept) = m /\ \A i \in 1..m : kept[i] = st[dst + amt + i]
  <2>1. from \in Int /\ n \in Int /\ \A i \in from..n : st[i] \in Int
    OBVIOUS
  <2>2. n - from + 1 = m /\ (~ (from <= n) => m = 0)
        /\ \A i \in 1..m : from + i - 1 = dst + amt + i
    BY <1>1
  <2> HIDE DEF from
  <2>3. /\ kept \in Seq(Int)
        /\ Len(kept) = IF from <= n THEN n - from + 1 ELSE 0
        /\ \A i \in 1..(n - from + 1) : kept[i] = st[from + i - 1]
    BY <2>1, SubSeqProperties
  <2> HIDE DEF kept, m, n
  <2> QED
    BY <2>2, <2>3
<1>4. RemoveRange(st, start, amt) = below \o kept
  BY DEF RemoveRange
<1> HIDE DEF below, kept, dst, m
<1>5. /\ below \o kept \in Seq(Int) /\ Len(below \o kept) = dst + m
      /\ \A i \in 1..(dst + m) : (below \o kept)[i] = IF i <= dst THEN below[i] ELSE kept[i - dst]
  BY <1>2, <1>3, ConcatProperties
<1>6. ASSUME NEW i \in 1..(n - amt)
      PROVE  (below \o kept)[i] = IF i <= dst THEN st[i] ELSE st[i + amt]
  <2>1. i \in 1..(dst + m)
    BY <1>1, <1>6
  <2>2. CASE i <= dst
    BY <1>2, <1>5, <2>1, <2>2
  <2>3. CASE ~ (i <= dst)
    <3>1. i - dst \in 1..m /\ dst + amt + (i - dst) = i + amt
      BY <1>1, <2>1, <2>3
    <3> QED
      BY <1>3, <1>5, <2>1, <2>3, <3>1
  <2> QED
    BY <2>2, <2>3
<1> QED
  BY <1>1, <1>4, <1>5, <1>6 DEF dst

LEMMA PickFromIsSeq ==
    ASSUME NEW st \in Seq(Int), NEW n \in Nat \ {0}
    PROVE  /\ PickFrom(st, n).tag \in {"executed", "wild"} /\ PickFrom(st, n).n \in Nat
           /\ PickFrom(st, n).st \in Seq(Int)
<1>1. CASE n > Len(st)
  BY <1>1 DEF PickFrom, Outcome
<1>2. CASE ~ n > Len(st)
  <2>1. Push(st, FromTop(st, n)) \in Seq(Int)
    <3>1. n \in 1..Len(st)
      BY <1>2
    <3> QED
      BY <3>1, FromTopIsInt, PushIsSeq
  <2> QED
    BY <1>2, <2>1 DEF PickFrom, Executed, Outcome
<1> QED
  BY <1>1, <1>2

LEMMA DropRangeFromIsSeq ==
    ASSUME NEW st \in Seq(Int), NEW start \in Nat, NEW amt \in 0..start
    PROVE  /\ DropRangeFrom(st, start, amt).tag \in {"executed", "wild"}
           /\ DropRangeFrom(st, start, amt).n \in Nat
           /\ DropRangeFrom(st, start, amt).st \in Seq(Int)
<1>1. CASE start > Len(st)
  BY <1>1 DEF DropRangeFrom, Outcome
<1>2. CASE ~ start > Len(st)
  <2>1. start \in 0..Len(st)
    BY <1>2
  <2>2. RemoveRange(st, start, amt) \in Seq(Int)
    BY <2>1, RemoveRangeIsSeq
  <2> QED
    BY <1>2, <2>2 DEF DropRangeFrom, Executed, Outcome
<1> QED
  BY <1>1, <1>2

\* Arithmetic on any operands gives a number, or fails.
LEMMA QuotientIsInt ==
    ASSUME NEW a \in Int, NEW b \in Int, b # 0 PROVE Quotient(a, b) \in Int
<1>1. Magnitude(a) \in Nat /\ Magnitude(b) \in Nat /\ Magnitude(b) > 0
  BY DEF Magnitude
<1>2. Magnitude(a) \div Magnitude(b) \in Int
  BY <1>1
<1> QED
  BY <1>2 DEF Quotient

LEMMA ResultIsInt ==
    ASSUME NEW it \in ArithOps, NEW a \in Int, NEW b \in Int,
           it \in {"div", "rem"} => b # 0, it = "pow" => b \in Nat
    PROVE  ArithResult(it, a, b) \in Int
<1>1. CASE it \in {"add", "sub", "mul"}
  <2>1. a + b \in Int /\ a - b \in Int /\ a * b \in Int
    OBVIOUS
  <2>2. Wrap(a + b) \in Int /\ Wrap(a - b) \in Int /\ Wrap(a * b) \in Int
    BY <2>1, WrapIsInt
  <2> QED
    BY <1>1, <2>2 DEF ArithResult
<1>2. CASE it \in {"div", "rem"}
  <2>1. Quotient(a, b) \in Int
    BY <1>2, QuotientIsInt
  <2>2. b * Quotient(a, b) \in Int
    BY <2>1
  <2>3. a - b * Quotient(a, b) \in Int
    BY <2>2
  <2> QED
    BY <1>2, <2>1, <2>3 DEF ArithResult
<1>3. CASE it = "lt"
  BY <1>3 DEF ArithResult
<1>4. CASE it = "pow"
  BY <1>4, PowerIsInt DEF ArithResult
<1> QED
  BY <1>1, <1>2, <1>3, <1>4 DEF ArithOps

\* How an instruction can end.
Tags == {"executed", "skip", "missing", "badskip", "badpick", "baddrop", "badexponent",
         "quit", "panic", "wild"}

OutcomeOK(o) == o.tag \in Tags /\ o.st \in Seq(Int) /\ o.n \in Nat

LEMMA ArithOutcomesOK ==
    ASSUME NEW x, "it" \in DOMAIN x => x.it \in ArithOps,
           NEW st \in Seq(Int), NEW a \in Int, NEW b \in Int,
           NEW o \in ArithOutcomes(x, st, a, b)
    PROVE  OutcomeOK(o)
<1>1. OutcomeOK(Outcome("panic", st)) /\ OutcomeOK(Outcome("badexponent", st))
  BY DEF OutcomeOK, Outcome, Tags
<1>2. ASSUME NEW v \in Int PROVE OutcomeOK(Executed(Push(st, v)))
  BY PushIsSeq DEF OutcomeOK, Executed, Outcome, Tags
<1>3. CASE "it" \notin DOMAIN x
  BY <1>1, <1>2, <1>3, ValuesAssumption DEF ArithOutcomes
<1>4. CASE "it" \in DOMAIN x
  <2> DEFINE result == Executed(Push(st, ArithResult(x.it, a, b)))
  <2>1. x.it \in ArithOps
    BY <1>4
  <2>2. CASE x.it \in {"add", "sub", "mul", "lt"}
    <3>1. OutcomeOK(result)
      BY <1>2, <2>1, <2>2, ResultIsInt
    <3> QED
      BY <1>1, <1>4, <2>2, <3>1 DEF ArithOutcomes
  <2>3. CASE x.it \in {"div", "rem"}
    <3>1. b # 0 => OutcomeOK(result)
      BY <1>2, <2>1, <2>3, ResultIsInt
    <3> QED
      BY <1>1, <1>4, <2>3, <3>1 DEF ArithOutcomes
  <2>4. CASE x.it = "pow"
    <3>1. Exponents \subseteq Nat
      BY DEF Exponents
    <3>2. b \in Exponents => OutcomeOK(result)
      BY <1>2, <2>1, <2>4, <3>1, ResultIsInt
    <3> QED
      BY <1>1, <1>4, <2>4, <3>2 DEF ArithOutcomes
  <2> QED
    BY <2>1, <2>2, <2>3, <2>4 DEF ArithOps
<1> QED
  BY <1>3, <1>4


\* Any instruction leaves a stack of numbers, also when it fails.
LEMMA ExecOK ==
    ASSUME NEW names, NEW x \in Instr(names), x.op # "call",
           NEW st \in Seq(Int), NEW o \in Exec(x, st)
    PROVE  OutcomeOK(o)
<1>0. /\ Len(st) \in Nat
      /\ \A k \in 0..Len(st) : Pop(st, k) \in Seq(Int)
      /\ \A k \in 1..Len(st) : FromTop(st, k) \in Int
  BY PopIsSeq, FromTopIsInt
<1>1. CASE FailsEarly(x, st)
  <2>1. Pop(st, 1) \in Seq(Int)
    BY <1>0, <1>1 DEF FailsEarly
  <2>2. o.tag \in {"panic", "baddrop"} /\ o.st = Pop(st, 1) /\ o.n = 0
    BY <1>1 DEF Exec, Outcome
  <2> QED
    BY <2>1, <2>2 DEF OutcomeOK, Tags
<1>2. CASE ~ FailsEarly(x, st) /\ Len(st) < Pops[x.op]
  <2>1. o = Outcome("missing", << >>)
    BY <1>2 DEF Exec
  <2>2. << >> \in Seq(Int)
    OBVIOUS
  <2> QED
    BY <2>1, <2>2 DEF Outcome, OutcomeOK, Tags
<1>3. CASE ~ FailsEarly(x, st) /\ ~ (Len(st) < Pops[x.op])
  <2>1. /\ \A s \in Seq(Int) : OutcomeOK(Executed(s))
        /\ \A s \in Seq(Int), v \in Int : OutcomeOK(Executed(Push(s, v)))
    BY PushIsSeq DEF OutcomeOK, Executed, Outcome, Tags
  <2>2. CASE x.op = "lit"
    <3>1. x.n \in Int /\ o = Executed(Push(st, x.n))
      BY <1>3, <2>2 DEF Exec, Instr, ParsedInstr, ResolvedInstr, FixedOps, ArithOps
    <3> QED
      BY <2>1, <3>1
  <2>3. CASE x.op = "width"
    BY <1>3, <2>1, <2>3 DEF Exec, WidthNative
  <2>4. CASE x.op = "quit"
    BY <1>3, <2>4 DEF Exec, OutcomeOK, Outcome, Tags
  <2>5. CASE x.op \in {"print", "drop", "if", "skip", "read", "pick"}
    <3>1. Len(st) >= 1 /\ Pop(st, 1) \in Seq(Int) /\ FromTop(st, 1) \in Int
      BY <1>0, <1>3, <2>5 DEF Pops
    <3>2. CASE x.op \in {"print", "drop"}
      BY <1>3, <2>1, <3>1, <3>2 DEF Exec
    <3>3. CASE x.op = "if"
      <4>1. o = SkipBy(3, Pop(st, 1)) \/ o = Executed(Pop(st, 1))
        BY <1>3, <3>3 DEF Exec
      <4>2. OutcomeOK(SkipBy(3, Pop(st, 1)))
        BY <3>1 DEF SkipBy, OutcomeOK, Tags
      <4> QED
        BY <2>1, <3>1, <4>1, <4>2
    <3>4. CASE x.op = "skip"
      BY <1>3, <3>1, <3>4 DEF Exec, SkipBy, OutcomeOK, Outcome, IsUsize, Tags
    <3>5. CASE x.op = "read"
      BY <1>3, <2>1, <3>1, <3>5, ValuesAssumption DEF Exec
    <3>6. CASE x.op = "pick"
      <4>1. CASE FromTop(st, 1) <= 0
        BY <1>3, <3>1, <3>6, <4>1 DEF Exec, OutcomeOK, Outcome, Tags
      <4>2. CASE ~ FromTop(st, 1) <= 0
        <5>1. o = PickFrom(Pop(st, 1), FromTop(st, 1))
          BY <1>3, <3>6, <4>2 DEF Exec
        <5>2. FromTop(st, 1) \in Nat \ {0}
          BY <3>1, <4>2
        <5> QED
          BY <3>1, <5>1, <5>2, PickFromIsSeq DEF OutcomeOK, Tags
      <4> QED
        BY <4>1, <4>2
    <3> QED
      BY <2>5, <3>2, <3>3, <3>4, <3>5, <3>6
  <2>6. CASE x.op \in {"swap", "arith", "write", "write8", "droprange"}
    <3>1. Len(st) >= 2 /\ Pop(st, 2) \in Seq(Int) /\ FromTop(st, 1) \in Int
          /\ FromTop(st, 2) \in Int
      BY <1>0, <1>3, <2>6 DEF Pops
    <3>2. CASE x.op = "swap"
      <4>1. o = Executed(Pop(st, 2) \o <<FromTop(st, 1), FromTop(st, 2)>>)
        BY <1>3, <3>2 DEF Exec
      <4>2. <<FromTop(st, 1), FromTop(st, 2)>> \in Seq(Int)
        BY <3>1
      <4>3. Pop(st, 2) \o <<FromTop(st, 1), FromTop(st, 2)>> \in Seq(Int)
        BY <3>1, <4>2, ConcatProperties
      <4> QED
        BY <2>1, <4>1, <4>3
    <3>3. CASE x.op = "arith"
      <4>1. o \in ArithOutcomes(x, Pop(st, 2), FromTop(st, 2), FromTop(st, 1))
        BY <1>3, <3>3 DEF Exec
      <4>2. "it" \in DOMAIN x => x.it \in ArithOps
        BY <3>3 DEF Instr, ParsedInstr, ResolvedInstr, FixedOps, ArithOps
      <4> QED
        BY <3>1, <4>1, <4>2, ArithOutcomesOK
    <3>4. CASE x.op \in {"write", "write8"}
      BY <1>3, <2>1, <3>1, <3>4 DEF Exec
    <3>5. CASE x.op = "droprange"
      <4>1. FromTop(st, 1) >= 0
        BY <1>3, <3>1, <3>5 DEF FailsEarly, IsUsize
      <4>2. CASE FromTop(st, 2) < 0 \/ FromTop(st, 1) > FromTop(st, 2)
        BY <1>3, <3>1, <3>5, <4>2 DEF Exec, OutcomeOK, Outcome, Tags
      <4>3. CASE ~ (FromTop(st, 2) < 0 \/ FromTop(st, 1) > FromTop(st, 2))
        <5>1. o = DropRangeFrom(Pop(st, 2), FromTop(st, 2), FromTop(st, 1))
          BY <1>3, <3>5, <4>3 DEF Exec
        <5>2. FromTop(st, 2) \in Nat /\ FromTop(st, 1) \in 0..FromTop(st, 2)
          BY <3>1, <4>1, <4>3
        <5> QED
          BY <3>1, <5>1, <5>2, DropRangeFromIsSeq DEF OutcomeOK, Tags
      <4> QED
        BY <4>2, <4>3
    <3> QED
      BY <2>6, <3>2, <3>3, <3>4, <3>5
  <2>7. CASE x.op = "rot"
    <3>1. Pop(st, 3) \in Seq(Int) /\ FromTop(st, 1) \in Int /\ FromTop(st, 2) \in Int
          /\ FromTop(st, 3) \in Int
      BY <1>0, <1>3, <2>7 DEF Pops
    <3> DEFINE top == <<FromTop(st, 2), FromTop(st, 1), FromTop(st, 3)>>
    <3>2. o = Executed(Pop(st, 3) \o top)
      BY <1>3, <2>7 DEF Exec
    <3>3. top \in Seq(Int)
      BY <3>1
    <3> HIDE DEF top
    <3>4. Pop(st, 3) \o top \in Seq(Int)
      BY <3>1, <3>3, ConcatProperties
    <3> QED
      BY <2>1, <3>2, <3>4
  <2>8. CASE x.op = "syscall"
    <3>1. Pop(st, 7) \in Seq(Int)
      BY <1>0, <1>3, <2>8 DEF Pops
    <3> QED
      BY <1>3, <2>1, <2>8, <3>1, ValuesAssumption DEF Exec
  <2>9. CASE x.op = "rpick"
    <3>1. o = PickFrom(st, x.n) /\ x.n \in Nat \ {0}
      BY <1>3, <2>9 DEF Exec, Instr, ParsedInstr, ResolvedInstr, FixedOps, ArithOps
    <3> QED
      BY <3>1, PickFromIsSeq DEF OutcomeOK, Tags
  <2>10. CASE x.op = "rdrop"
    <3>1. o = DropRangeFrom(st, x.s, x.a)
      BY <1>3, <2>10 DEF Exec
    <3>2. x.s \in Nat /\ x.a \in 0..x.s
      BY <2>10 DEF Instr, ParsedInstr, ResolvedInstr, FixedOps, ArithOps
    <3> QED
      BY <3>1, <3>2, DropRangeFromIsSeq DEF OutcomeOK, Tags
  <2> QED
    BY <2>2, <2>3, <2>4, <2>5, <2>6, <2>7, <2>8, <2>9, <2>10
    DEF Instr, ParsedInstr, ResolvedInstr, FixedOps, ArithOps
<1> QED
  BY <1>1, <1>2, <1>3

-----------------------------------------------------------------------------
(* The block graph of a function.                                          *)

LEMMA ParsedAt ==
    ASSUME NEW names, NEW f \in Seq(ParsedInstr(names, Int)), NEW j \in 0..(Len(f) - 1)
    PROVE  /\ Len(f) \in Nat
           /\ At(f, j) \in ParsedInstr(names, Int)
           /\ ConstLitAt(f, j) => At(f, j).n \in Nat
<1>1. At(f, j) \in ParsedInstr(names, Int)
  BY DEF At
<1>2. ConstLitAt(f, j) => At(f, j).n \in Int /\ At(f, j).n >= 0
  BY <1>1 DEF ConstLitAt, IsLit, IsUsize, ParsedInstr, FixedOps
<1> QED
  BY <1>1, <1>2

\* A break that an instruction makes lies behind it.
LEMMA NewBreaksBehind ==
    ASSUME NEW names, NEW f \in Seq(ParsedInstr(names, Int)),
           NEW j \in 0..(Len(f) - 1), NEW old
    PROVE  NewBreaks(f, old, j) \subseteq {b \in Nat : b > j}
<1>0. Len(f) \in Nat
  OBVIOUS
<1>1. CASE At(f, j).op = "if"
  <2>1. NewBreaks(f, old, j) = {j + 1, j + 4}
    BY <1>1 DEF NewBreaks, ControlOps
  <2> QED
    BY <2>1
<1>2. CASE At(f, j).op = "skip" /\ ~ (j \notin old /\ ConstLitAt(f, j - 1))
  <2>1. NewBreaks(f, old, j) = (j + 1)..Len(f)
    BY <1>2 DEF NewBreaks, ControlOps
  <2> QED
    BY <1>0, <2>1
<1>3. CASE At(f, j).op = "skip" /\ j \notin old /\ ConstLitAt(f, j - 1)
  <2>1. NewBreaks(f, old, j) = {j + 1, j + 1 + At(f, j - 1).n}
    BY <1>3 DEF NewBreaks, ControlOps
  <2>2. At(f, j - 1).n \in Nat
    <3>1. j - 1 \in 0..(Len(f) - 1)
      BY <1>3 DEF ConstLitAt
    <3> QED
      BY <1>3, <3>1, ParsedAt
  <2> QED
    BY <2>1, <2>2
<1>4. CASE At(f, j).op \notin ControlOps
  BY <1>4 DEF NewBreaks, ControlOps
<1> QED
  BY <1>1, <1>2, <1>3, <1>4 DEF ControlOps

LEMMA BreaksRecursion ==
    ASSUME NEW names, NEW f \in Seq(ParsedInstr(names, Int))
    PROVE  /\ BreaksUpTo(f)[0] = {}
           /\ \A n \in 0..Len(f) : BreaksUpTo(f)[n] \subseteq Nat
           /\ \A n \in 0..(Len(f) - 1) : BreaksUpTo(f)[n + 1]
                   = BreaksUpTo(f)[n] \cup NewBreaks(f, BreaksUpTo(f)[n], n)
<1> DEFINE m == Len(f)
           to == CHOOSE g : g = [n \in 0..m |->
                     IF n = 0 THEN {} ELSE g[n - 1] \cup NewBreaks(f, g[n - 1], n - 1)]
           V == SUBSET Nat
           add(i) == [v \in V |-> IF i - 1 \in 0..(m - 1)
                                  THEN v \cup NewBreaks(f, v, i - 1) ELSE v]
           step == [i \in Nat |-> add(i)]
<1>0. m \in Nat
  OBVIOUS
<1>1. PICK g \in [0..m -> V] : Obeys(g, {}, step, m)
  <2>1. ASSUME NEW i \in Nat PROVE add(i) \in [V -> V]
    <3>1. ASSUME NEW v \in V PROVE add(i)[v] \in V
      <4>1. CASE i - 1 \in 0..(m - 1)
        <5>1. NewBreaks(f, v, i - 1) \subseteq Nat
          BY <4>1, NewBreaksBehind
        <5> HIDE DEF m
        <5> QED
          BY <4>1, <5>1
      <4>2. CASE i - 1 \notin 0..(m - 1)
        <5> HIDE DEF m
        <5> QED
          BY <4>2
      <4> QED
        BY <4>1, <4>2
    <3> QED
      BY <3>1
  <2> HIDE DEF m, add
  <2>2. step \in [Nat -> [V -> V]] /\ {} \in V
    BY <2>1
  <2> HIDE DEF step, V
  <2> QED
    BY <1>0, <2>2, RecursionHasSolution
<1>2. ASSUME NEW i \in 1..m PROVE g[i] = g[i - 1] \cup NewBreaks(f, g[i - 1], i - 1)
  <2>1. i \in Nat /\ i - 1 \in 0..(m - 1) /\ i - 1 \in 0..m
    BY <1>0
  <2> HIDE DEF m
  <2>2. g[i - 1] \in V
    BY <2>1
  <2>3. g[i] = step[i][g[i - 1]]
    BY <1>1 DEF Obeys
  <2>4. step[i] = add(i)
    BY <2>1, Zenon
  <2>5. add(i)[g[i - 1]] = g[i - 1] \cup NewBreaks(f, g[i - 1], i - 1)
    BY <2>1, <2>2
  <2> QED
    BY <2>3, <2>4, <2>5
<1>3. g = [n \in 0..m |->
              IF n = 0 THEN {} ELSE g[n - 1] \cup NewBreaks(f, g[n - 1], n - 1)]
  <2> HIDE DEF m
  <2>1. g[0] = {}
    BY <1>1 DEF Obeys
  <2> QED
    BY <1>0, <1>2, <2>1
<1>4. to = [n \in 0..m |->
              IF n = 0 THEN {} ELSE to[n - 1] \cup NewBreaks(f, to[n - 1], n - 1)]
  BY <1>3
<1>5. Agree(to, g, m)
  <2> HIDE DEF m, to
  <2>1. to[0] = g[0]
    BY <1>0, <1>3, <1>4
  <2>2. ASSUME NEW i \in 1..m PROVE to[i - 1] = g[i - 1] => to[i] = g[i]
    <3>1. i \in 0..m /\ i # 0
      BY <1>0
    <3>2. g[i] = g[i - 1] \cup NewBreaks(f, g[i - 1], i - 1)
      BY <1>2
    <3>3. to[i] = to[i - 1] \cup NewBreaks(f, to[i - 1], i - 1)
      BY <1>4, <3>1, Zenon
    <3> QED
      BY <3>2, <3>3, Zenon
  <2>3. SameRecursion(to, g, m)
    BY <2>1, <2>2 DEF SameRecursion
  <2> QED
    BY <1>0, <2>3, RecursionIsUnique
<1>6. BreaksUpTo(f) = to
  BY DEF BreaksUpTo
<1> HIDE DEF to
<1>7. \A n \in 0..m : BreaksUpTo(f)[n] = g[n]
  BY <1>5, <1>6 DEF Agree
<1> HIDE DEF m
<1>8. BreaksUpTo(f)[0] = {} /\ \A n \in 0..m : BreaksUpTo(f)[n] \subseteq Nat
  BY <1>0, <1>1, <1>7 DEF Obeys
<1>9. ASSUME NEW n \in 0..(m - 1)
      PROVE  BreaksUpTo(f)[n + 1] = BreaksUpTo(f)[n] \cup NewBreaks(f, BreaksUpTo(f)[n], n)
  <2>1. n + 1 \in 1..m /\ (n + 1) - 1 = n /\ n \in 0..m /\ n + 1 \in 0..m
    BY <1>0
  <2> QED
    BY <1>2, <1>7, <2>1
<1> QED
  BY <1>8, <1>9 DEF m

\* The end of a block is the first start behind it, or the function's end.
LEMMA EndIsUnique ==
    ASSUME NEW f, Len(f) \in Nat, NEW starts, starts \subseteq 0..(Len(f) - 1),
           NEW s \in Nat, NEW e \in starts \cup {Len(f)}, s < e,
           \A t \in starts : ~ (s < t /\ t < e)
    PROVE  EndIn(f, starts, s) = e
<1>1. \A t \in starts : t > s => e <= t
  OBVIOUS
<1>2. ASSUME NEW x \in starts \cup {Len(f)}, s < x, \A t \in starts : t > s => x <= t
      PROVE  x = e
  BY <1>1, <1>2
<1> QED
  BY <1>1, <1>2 DEF EndIn
LEMMA NewBreaksDependOn ==
    ASSUME NEW f, NEW j, NEW old, NEW new, j \in old <=> j \in new
    PROVE  NewBreaks(f, old, j) = NewBreaks(f, new, j)
BY DEF NewBreaks

\* Every instruction's breaks are among the breaks that are found in the end:
\* what was found after it lies behind it and changes nothing for it.
LEMMA BreaksAreClosed ==
    ASSUME NEW names, NEW f \in Seq(ParsedInstr(names, Int)), NEW j \in 0..(Len(f) - 1)
    PROVE  NewBreaks(f, BreaksUpTo(f)[Len(f)], j) \subseteq BreaksUpTo(f)[Len(f)]
<1> DEFINE m == Len(f)
           B(n) == BreaksUpTo(f)[n]
           closed(n) == \A k \in 0..(n - 1) : NewBreaks(f, B(n), k) \subseteq B(n)
           S == {n \in 0..m : closed(n)}
<1>0. m \in Nat
  OBVIOUS
<1>1. 0 \in S
  OBVIOUS
<1>2. ASSUME NEW n \in 0..(m - 1), n \in S PROVE n + 1 \in S
  <2> DEFINE new == NewBreaks(f, B(n), n)
  <2>1. B(n + 1) = B(n) \cup new
    BY BreaksRecursion
  <2>2. new \subseteq {b \in Nat : b > n}
    BY NewBreaksBehind
  <2>3. \A k \in 0..(n - 1) : NewBreaks(f, B(n), k) \subseteq B(n)
    BY <1>2
  <2> HIDE DEF B, new
  <2>4. ASSUME NEW k \in 0..n PROVE k \in B(n + 1) <=> k \in B(n)
    <3>1. k \notin new
      BY <2>2
    <3> QED
      BY <2>1, <3>1
  <2>5. ASSUME NEW k \in 0..n PROVE NewBreaks(f, B(n + 1), k) \subseteq B(n + 1)
    <3>1. NewBreaks(f, B(n + 1), k) = NewBreaks(f, B(n), k)
      BY <2>4, NewBreaksDependOn
    <3>2. CASE k = n
      BY <2>1, <3>1, <3>2 DEF new
    <3>3. CASE k # n
      <4>1. k \in 0..(n - 1)
        BY <3>3
      <4>2. NewBreaks(f, B(n), k) \subseteq B(n)
        BY <2>3, <4>1
      <4> QED
        BY <2>1, <3>1, <4>2
    <3> QED
      BY <3>2, <3>3
  <2>6. closed(n + 1)
    <3>1. 0..((n + 1) - 1) = 0..n
      OBVIOUS
    <3> QED
      BY <2>5, <3>1
  <2>7. n + 1 \in 0..m
    BY <1>0
  <2> HIDE DEF closed
  <2> QED
    BY <2>6, <2>7
<1>3. m \in S
  <2> HIDE DEF S, m
  <2>1. \A n \in 0..(m - 1) : n \in S => n + 1 \in S
    BY <1>2
  <2>2. \A n \in 0..m : n \in S
    BY <1>0, <1>1, <2>1, InductionUpTo
  <2> QED
    BY <1>0, <2>2
<1>4. closed(m)
  <2> HIDE DEF closed
  <2> QED
    BY <1>3
<1> QED
  BY <1>4

\* Positions that control can be handed to.
Places(f) == StartsOf(f) \cup {Len(f), Len(f) + 1}

LEMMA BreaksArePlaces ==
    ASSUME NEW names, NEW f \in Seq(ParsedInstr(names, Int)), NEW j \in 0..(Len(f) - 1),
           NEW b \in NewBreaks(f, BreaksUpTo(f)[Len(f)], j)
    PROVE  b < Len(f) => b \in StartsOf(f)
<1>1. b \in BreaksUpTo(f)[Len(f)]
  BY BreaksAreClosed
<1> QED
  BY <1>1 DEF StartsOf

LEMMA StartsAreInside ==
    ASSUME NEW names, NEW f \in Seq(ParsedInstr(names, Int))
    PROVE  /\ Len(f) \in Nat
           /\ StartsOf(f) \subseteq 0..(Len(f) - 1)
           /\ Len(f) > 0 => 0 \in StartsOf(f)
<1>1. Len(f) \in Nat /\ Len(f) \in 0..Len(f)
  OBVIOUS
<1>2. BreaksUpTo(f)[Len(f)] \subseteq Nat
  BY <1>1, BreaksRecursion
<1>3. ASSUME NEW b \in StartsOf(f) PROVE b \in 0..(Len(f) - 1)
  <2>1. b \in {0} \cup BreaksUpTo(f)[Len(f)] /\ b < Len(f)
    BY Zenon DEF StartsOf
  <2> QED
    BY <1>1, <1>2, <2>1
<1> QED
  BY <1>1, <1>3 DEF StartsOf

LEMMA BlockEnds ==
    ASSUME NEW names, NEW f \in Seq(ParsedInstr(names, Int)), NEW s \in StartsOf(f),
           NEW e, e = EndIn(f, StartsOf(f), s)
    PROVE  /\ s \in Nat /\ e \in Nat /\ s < e /\ e <= Len(f)
           /\ e \in StartsOf(f) \cup {Len(f)}
           /\ \A t \in StartsOf(f) : ~ (s < t /\ t < e)
<1> DEFINE n == Len(f)
           starts == StartsOf(f)
           T == {t \in starts \cup {n} : s < t}
<1>1. n \in Nat /\ starts \subseteq 0..(n - 1)
  BY StartsAreInside
<1> HIDE DEF n, starts
<1>2. s \in Nat /\ s < n
  <2>1. s \in starts
    BY DEF starts
  <2> QED
    BY <1>1, <2>1
<1>3. PICK x \in T : \A y \in T : x <= y
  <2>1. ASSUME NEW y \in T PROVE y \in Nat
    <3>1. y \in starts \/ y = n
      OBVIOUS
    <3> QED
      BY <1>1, <3>1
  <2>2. n \in T
    BY <1>2
  <2> HIDE DEF T
  <2> QED
    BY <2>1, <2>2, LeastNumber
<1>4. x \in starts \cup {n} /\ s < x /\ x \in Nat /\ x <= n
      /\ \A t \in starts : ~ (s < t /\ t < x)
  <2>1. x \in Nat /\ x <= n
    BY <1>1
  <2>2. \A t \in starts : t > s => x <= t
    BY <1>1, <1>2, <1>3
  <2> QED
    BY <1>1, <1>2, <2>1, <2>2
<1>5. EndIn(f, starts, s) = x
  BY <1>1, <1>2, <1>4, EndIsUnique DEF n
<1> QED
  BY <1>2, <1>4, <1>5 DEF n, starts

\* Every instruction is in one block.
LEMMA BlockAround ==
    ASSUME NEW names, NEW f \in Seq(ParsedInstr(names, Int)), NEW j \in 0..(Len(f) - 1)
    PROVE  \E s \in StartsOf(f) : s <= j /\ j < EndIn(f, StartsOf(f), s)
<1> DEFINE starts == StartsOf(f)
           back == {t \in 0..j : j - t \in starts}
<1>1. Len(f) \in Nat /\ starts \subseteq 0..(Len(f) - 1) /\ 0 \in starts
  BY StartsAreInside
<1> HIDE DEF starts
<1>2. PICK t \in back : \A u \in back : t <= u
  <2>1. back \subseteq Nat /\ j \in back
    BY <1>1
  <2> HIDE DEF back
  <2> QED
    BY <2>1, LeastNumber
<1>3. PICK s \in starts : s = j - t
  BY <1>2
<1>4. s \in Nat /\ s <= j
  BY <1>1, <1>2, <1>3
<1>5. ASSUME NEW u \in starts, u <= j PROVE u <= s
  <2>1. u \in Nat /\ j - u \in 0..j /\ j - (j - u) = u
    BY <1>1, <1>5
  <2>2. j - u \in back
    BY <2>1
  <2>3. t <= j - u /\ t \in Nat
    BY <1>2, <2>2
  <2> QED
    BY <1>3, <2>1, <2>3
<1>6. PICK e : e = EndIn(f, starts, s)
  OBVIOUS
<1>7. e \in starts \cup {Len(f)} /\ e \in Nat /\ s < e
  BY <1>6, BlockEnds DEF starts
<1>8. j < e
  BY <1>1, <1>4, <1>5, <1>7
<1> QED
  BY <1>4, <1>6, <1>8 DEF starts

LEMMA BlockIsUnique ==
    ASSUME NEW names, NEW f \in Seq(ParsedInstr(names, Int)), NEW j \in Nat,
           NEW s \in StartsOf(f), s <= j, j < EndIn(f, StartsOf(f), s),
           NEW t \in StartsOf(f), t <= j, j < EndIn(f, StartsOf(f), t)
    PROVE  s = t
<1> DEFINE e == EndIn(f, StartsOf(f), s)
           d == EndIn(f, StartsOf(f), t)
<1> HIDE DEF e, d
<1>1. s \in Nat /\ e \in Nat /\ \A u \in StartsOf(f) : ~ (s < u /\ u < e)
  BY BlockEnds DEF e
<1>2. t \in Nat /\ d \in Nat /\ \A u \in StartsOf(f) : ~ (t < u /\ u < d)
  BY BlockEnds DEF d
<1>3. j < e /\ j < d
  BY DEF e, d
<1>4. ~ s < t /\ ~ t < s
  BY <1>1, <1>2, <1>3
<1> QED
  BY <1>1, <1>2, <1>4

\* Control flow only ends blocks.
LEMMA ControlEndsBlock ==
    ASSUME NEW names, NEW f \in Seq(ParsedInstr(names, Int)), NEW s \in StartsOf(f),
           NEW e, e = EndIn(f, StartsOf(f), s), NEW j \in s..(e - 1),
           At(f, j).op \in ControlOps
    PROVE  j = e - 1
<1>1. /\ s \in Nat /\ e \in Nat /\ e <= Len(f) /\ Len(f) \in Nat
      /\ \A t \in StartsOf(f) : ~ (s < t /\ t < e)
  BY BlockEnds, StartsAreInside
<1>2. j \in 0..(Len(f) - 1) /\ j + 1 \in (j + 1)..Len(f) /\ s < j + 1
  BY <1>1
<1>3. j + 1 \in NewBreaks(f, BreaksUpTo(f)[Len(f)], j)
  BY <1>2 DEF NewBreaks, ControlOps
<1>4. j + 1 < Len(f) => j + 1 \in StartsOf(f)
  BY <1>2, <1>3, BreaksArePlaces
<1>5. ~ (j + 1 < e)
  BY <1>1, <1>2, <1>4
<1> QED
  BY <1>1, <1>5

\* A terminator's targets are blocks, the end or the trap.
LEMMA TargetsArePlaces ==
    ASSUME NEW names, NEW f \in Seq(ParsedInstr(names, Int)), NEW s \in StartsOf(f),
           NEW e, e = EndIn(f, StartsOf(f), s),
           NEW t \in DOMAIN Terminator(f, s, e).targets
    PROVE  Terminator(f, s, e).targets[t] \in Places(f)
<1> DEFINE B == BreaksUpTo(f)[Len(f)]
           n == Len(f)
<1>1. /\ s \in Nat /\ e \in Nat /\ s < e /\ e <= n /\ n \in Nat
      /\ e \in StartsOf(f) \cup {n}
      /\ \A u \in StartsOf(f) : ~ (s < u /\ u < e)
  BY BlockEnds, StartsAreInside
<1>2. e - 1 \in 0..(n - 1) /\ (e - 1) + 1 = e
  BY <1>1
<1>3. ASSUME NEW b \in NewBreaks(f, B, e - 1) PROVE Target(f, b) \in Places(f)
  <2>1. b < n => b \in StartsOf(f)
    BY <1>2, BreaksArePlaces
  <2>2. b \in Nat
    BY <1>2, NewBreaksBehind
  <2> HIDE DEF n
  <2> QED
    BY <1>1, <2>1, <2>2 DEF Target, MinInt, Places, n
<1>4. Target(f, e) \in Places(f)
  BY <1>1 DEF Target, MinInt, Places
<1>5. CASE At(f, e - 1).op = "if"
  <2>1. Terminator(f, s, e).targets = <<Target(f, e), Target(f, e + 3)>>
    BY <1>5 DEF Terminator, ControlOps, EndsInConstSkip
  <2>2. e + 3 = (e - 1) + 4
    BY <1>1
  <2>3. e + 3 \in NewBreaks(f, B, e - 1)
    BY <1>5, <2>2 DEF NewBreaks, ControlOps
  <2> QED
    BY <1>3, <1>4, <2>1, <2>3
<1>6. CASE EndsInConstSkip(f, s, e)
  <2>1. /\ At(f, e - 1).op = "skip" /\ e - 2 >= s /\ ConstLitAt(f, e - 2)
    BY <1>6 DEF EndsInConstSkip
  <2>2. e - 1 \notin B
    <3>1. e - 1 \notin StartsOf(f) /\ e - 1 < n
      BY <1>1, <2>1
    <3> QED
      BY <3>1 DEF StartsOf
  <2>3. (e - 1) - 1 = e - 2 /\ (e - 1) + 1 + At(f, e - 2).n = e + At(f, e - 2).n
    <3>1. At(f, e - 2).n \in Nat
      <4>1. e - 2 \in 0..(n - 1)
        BY <1>1, <2>1
      <4> QED
        BY <2>1, <4>1, ParsedAt
    <3> QED
      BY <1>1, <3>1
  <2>4. e + At(f, e - 2).n \in NewBreaks(f, B, e - 1)
    BY <2>1, <2>2, <2>3 DEF NewBreaks, ControlOps
  <2>5. Terminator(f, s, e).targets = <<Target(f, e + At(f, e - 2).n)>>
    BY <1>6, <2>1 DEF Terminator, ControlOps
  <2> QED
    BY <1>3, <2>4, <2>5
<1>7. CASE At(f, e - 1).op = "skip" /\ ~ EndsInConstSkip(f, s, e)
  <2>1. Terminator(f, s, e).targets = [u \in 1..(n - e + 1) |-> e + u - 1]
    BY <1>7 DEF Terminator, ControlOps
  <2>2. ~ (e - 1 \notin B /\ ConstLitAt(f, (e - 1) - 1))
    <3>1. SUFFICES ASSUME e - 1 \notin B, ConstLitAt(f, e - 2) PROVE FALSE
      BY <1>1
    <3>2. e - 1 # s
      <4>1. e - 2 >= 0
        BY <3>1 DEF ConstLitAt
      <4>2. e - 1 # 0
        BY <1>1, <4>1
      <4>3. s \in {0} \cup B
        BY DEF StartsOf
      <4> QED
        BY <3>1, <4>2, <4>3
    <3>3. e - 2 >= s
      BY <1>1, <3>2
    <3> QED
      BY <1>7, <3>1, <3>3 DEF EndsInConstSkip
  <2>3. NewBreaks(f, B, e - 1) = e..n
    BY <1>2, <1>7, <2>2 DEF NewBreaks, ControlOps
  <2>4. t \in 1..(n - e + 1)
    BY <2>1
  <2>5. Terminator(f, s, e).targets[t] = e + t - 1 /\ e + t - 1 \in e..n
    BY <1>1, <2>1, <2>4
  <2>6. e + t - 1 \in NewBreaks(f, B, e - 1)
    BY <2>3, <2>5
  <2>7. Target(f, e + t - 1) = e + t - 1
    BY <1>1, <2>5 DEF Target, MinInt
  <2> QED
    BY <1>3, <2>5, <2>6, <2>7
<1>8. CASE At(f, e - 1).op \notin ControlOps
  <2>1. Terminator(f, s, e).targets = <<Target(f, e)>>
    BY <1>8 DEF Terminator, ControlOps, EndsInConstSkip
  <2> QED
    BY <1>4, <2>1
<1> QED
  BY <1>5, <1>6, <1>7, <1>8 DEF ControlOps
-----------------------------------------------------------------------------
(* Positions of a block.                                                   *)
\* Some tokens become f.
IsCode(f) == \E names : f \in Seq(ParsedInstr(names, Int))

\* The instructions from s up to e are a block of f.
IsBlock(f, s, e) == s \in StartsOf(f) /\ e = EndIn(f, StartsOf(f), s)

StartAt(f, j) == CHOOSE s \in StartsOf(f) : s <= j /\ j < EndIn(f, StartsOf(f), s)
EndAt(f, j)   == EndIn(f, StartsOf(f), StartAt(f, j))

LocsIn(f, s, e) ==
    BodyOf(f, s, e) \cup (IF At(f, e - 1).op \in ControlOps THEN {e - 1} ELSE {})

FirstFrom(S, j) == CHOOSE l \in S : l >= j /\ \A m \in S : m >= j => l <= m

\* Loc, Folded and Pending as functions of the position.
LocAt(f, j) ==
    IF j = Len(f) THEN j ELSE FirstFrom(LocsIn(f, StartAt(f, j), EndAt(f, j)), j)

FoldedAt(f, s, e, l) ==
    IF l \notin BodyOf(f, s, e) THEN (IF EndsInConstSkip(f, s, e) THEN 1 ELSE 0)
    ELSE IF FoldsPick(f, s, l) THEN 1 ELSE IF FoldsDrop(f, s, l) THEN 2 ELSE 0

PendingAt(f, j) ==
    IF j = Len(f) THEN 0
    ELSE FoldedAt(f, StartAt(f, j), EndAt(f, j), LocAt(f, j)) - (LocAt(f, j) - j)

Hidden(f, s, e, j) == Eaten(f, s, e, j) \/ (EndsInConstSkip(f, s, e) /\ j = e - 2)

LEMMA BlockBounds ==
    ASSUME NEW f, IsCode(f), NEW s, NEW e, IsBlock(f, s, e)
    PROVE  /\ s \in Nat /\ e \in Nat /\ s < e /\ e <= Len(f) /\ Len(f) \in Nat
           /\ e \in StartsOf(f) \cup {Len(f)}
BY BlockEnds, StartsAreInside DEF IsCode, IsBlock

LEMMA BlockAtPosition ==
    ASSUME NEW f, IsCode(f), NEW j \in 0..(Len(f) - 1)
    PROVE  /\ IsBlock(f, StartAt(f, j), EndAt(f, j))
           /\ StartAt(f, j) <= j /\ j < EndAt(f, j)
<1>1. \E s \in StartsOf(f) : s <= j /\ j < EndIn(f, StartsOf(f), s)
  BY BlockAround DEF IsCode
<1> QED
  BY <1>1 DEF StartAt, EndAt, IsBlock

LEMMA PositionInBlock ==
    ASSUME NEW f, IsCode(f), NEW s, NEW e, IsBlock(f, s, e), NEW j \in s..(e - 1)
    PROVE  StartAt(f, j) = s /\ EndAt(f, j) = e /\ j \in 0..(Len(f) - 1)
<1>1. /\ s \in Nat /\ e \in Nat /\ s < e /\ e <= Len(f) /\ Len(f) \in Nat
  BY BlockBounds
<1>2. j \in 0..(Len(f) - 1) /\ j \in Nat /\ s <= j /\ j < e
  BY <1>1
<1>3. /\ StartAt(f, j) \in StartsOf(f) /\ StartAt(f, j) <= j
      /\ j < EndIn(f, StartsOf(f), StartAt(f, j))
  BY <1>2, BlockAtPosition DEF IsBlock, EndAt
<1>4. s \in StartsOf(f) /\ e = EndIn(f, StartsOf(f), s)
  BY DEF IsBlock
<1>5. StartAt(f, j) = s
  BY <1>2, <1>3, <1>4, BlockIsUnique DEF IsCode
<1> QED
  BY <1>2, <1>4, <1>5 DEF EndAt

\* Something happens in the graph at exactly the positions not hidden.
LEMMA LocsAreNotHidden ==
    ASSUME NEW f, IsCode(f), NEW s, NEW e, IsBlock(f, s, e), NEW j \in s..(e - 1)
    PROVE  j \in LocsIn(f, s, e) <=> ~ Hidden(f, s, e, j)
<1>1. s \in Nat /\ e \in Nat /\ s < e
  BY BlockBounds
<1>2. CASE j = e - 1
  <2>1. ~ Eaten(f, s, e, j) /\ j # e - 2
    BY <1>1, <1>2 DEF Eaten
  <2>2. j \in LocsIn(f, s, e)
    <3>1. CASE At(f, e - 1).op \in ControlOps
      BY <1>2, <3>1 DEF LocsIn
    <3>2. CASE At(f, e - 1).op \notin ControlOps
      <4>1. ~ EndsInConstSkip(f, s, e)
        BY <3>2 DEF EndsInConstSkip, ControlOps
      <4> QED
        BY <2>1, <3>2, <4>1 DEF LocsIn, BodyOf, Kept
    <3> QED
      BY <3>1, <3>2
  <2> QED
    BY <2>1, <2>2 DEF Hidden
<1>3. CASE j # e - 1
  <2>1. j \in LocsIn(f, s, e) <=> j \in BodyOf(f, s, e)
    BY <1>3 DEF LocsIn
  <2>2. j \in Kept(f, s, e) <=> ~ Eaten(f, s, e, j)
    BY DEF Kept
  <2>3. j \in BodyOf(f, s, e)
           <=> j \in Kept(f, s, e) /\ ~ (EndsInConstSkip(f, s, e) /\ j = e - 2)
    BY <1>1, <1>3 DEF BodyOf
  <2> QED
    BY <2>1, <2>2, <2>3 DEF Hidden
<1> QED
  BY <1>2, <1>3

LEMMA LocsAreInBlock ==
    ASSUME NEW f, IsCode(f), NEW s, NEW e, IsBlock(f, s, e), NEW l \in LocsIn(f, s, e)
    PROVE  l \in s..(e - 1)
<1>1. s \in Nat /\ e \in Nat /\ s < e
  BY BlockBounds
<1> QED
  BY <1>1 DEF LocsIn, BodyOf, Kept

\* The first position not hidden is where the block machine is.
LEMMA LocAtIs ==
    ASSUME NEW f, IsCode(f), NEW s, NEW e, IsBlock(f, s, e), NEW j \in s..(e - 1),
           NEW l \in j..(e - 1), ~ Hidden(f, s, e, l),
           \A m \in j..(l - 1) : Hidden(f, s, e, m)
    PROVE  /\ LocAt(f, j) = l /\ l \in LocsIn(f, s, e)
           /\ FirstFrom(LocsIn(f, s, e), j) = l
           /\ PendingAt(f, j) = FoldedAt(f, s, e, l) - (l - j)
<1>1. s \in Nat /\ e \in Nat /\ s < e /\ j \in Nat /\ l \in Nat
  BY BlockBounds
<1>2. l \in s..(e - 1) /\ l >= j
  BY <1>1
<1>3. l \in LocsIn(f, s, e)
  BY <1>2, LocsAreNotHidden
<1>4. ASSUME NEW m \in LocsIn(f, s, e), m >= j PROVE l <= m
  <2>1. m \in s..(e - 1)
    BY LocsAreInBlock
  <2>2. ~ Hidden(f, s, e, m)
    BY <2>1, LocsAreNotHidden
  <2>3. m \notin j..(l - 1)
    BY <2>2
  <2> QED
    BY <1>1, <1>4, <2>1, <2>3
<1>5. ASSUME NEW x \in LocsIn(f, s, e), x >= j, \A m \in LocsIn(f, s, e) : m >= j => x <= m
      PROVE  x = l
  <2>1. x \in s..(e - 1) /\ x <= l /\ l <= x
    BY <1>2, <1>3, <1>4, <1>5, LocsAreInBlock
  <2> QED
    BY <1>1, <2>1
<1>6. FirstFrom(LocsIn(f, s, e), j) = l
  <2> DEFINE S == LocsIn(f, s, e)
  <2>1. l \in S /\ l >= j /\ \A m \in S : m >= j => l <= m
    BY <1>2, <1>3, <1>4
  <2>2. \A x \in S : x >= j /\ (\A m \in S : m >= j => x <= m) => x = l
    BY <1>5
  <2> HIDE DEF S
  <2>3. FirstFrom(S, j) = l
    BY <2>1, <2>2 DEF FirstFrom
  <2> QED
    BY <2>3 DEF S
<1>7. StartAt(f, j) = s /\ EndAt(f, j) = e /\ j # Len(f)
  <2>1. j \in 0..(Len(f) - 1) /\ Len(f) \in Nat
    BY PositionInBlock, BlockBounds
  <2> QED
    BY <2>1, PositionInBlock
<1>8. LocAt(f, j) = l
  BY <1>6, <1>7 DEF LocAt
<1> QED
  BY <1>3, <1>6, <1>7, <1>8 DEF PendingAt

\* The position after a hidden one leads to the same place, with one literal
\* more on the stack.
LEMMA HiddenPosition ==
    ASSUME NEW f, IsCode(f), NEW s, NEW e, IsBlock(f, s, e), NEW j \in s..(e - 1),
           Hidden(f, s, e, j)
    PROVE  /\ j + 1 \in s..(e - 1) /\ At(f, j).op = "lit"
           /\ LocAt(f, j + 1) = LocAt(f, j)
           /\ PendingAt(f, j) \in {0, 1} /\ PendingAt(f, j + 1) = PendingAt(f, j) + 1
           /\ j = s \/ ~ Hidden(f, s, e, j - 1) => PendingAt(f, j) = 0
<1>1. s \in Nat /\ e \in Nat /\ s < e /\ j \in Nat /\ s <= j /\ j < e
  BY BlockBounds
\* A position that is no literal is not hidden.
<1>2. ASSUME NEW k \in s..(e - 1), Hidden(f, s, e, k) PROVE At(f, k).op = "lit"
  <2>1. (k + 1) - 1 = k /\ (k + 2) - 2 = k /\ (k + 1) - 2 = k - 1
    BY <1>1
  <2> QED
    BY <1>2, <2>1 DEF Hidden, Eaten, FoldsPick, FoldsDrop, EndsInConstSkip, ConstLitAt, IsLit
<1>3. CASE j + 1 < e /\ (FoldsPick(f, s, j + 1) \/ FoldsDrop(f, s, j + 1))
  <2>1. At(f, j + 1).op \in {"pick", "droprange"} /\ j + 1 \in s..(e - 1)
    BY <1>1, <1>3 DEF FoldsPick, FoldsDrop
  <2>2. ~ Hidden(f, s, e, j + 1)
    BY <1>2, <2>1
  <2>3. At(f, e - 1).op \in ControlOps => j + 1 # e - 1
    BY <2>1 DEF ControlOps
  <2>4. j + 1 \in BodyOf(f, s, e)
    <3>1. j + 1 \in LocsIn(f, s, e)
      BY <2>1, <2>2, LocsAreNotHidden
    <3> QED
      BY <2>3, <3>1 DEF LocsIn
  <2>5. /\ LocAt(f, j) = j + 1 /\ LocAt(f, j + 1) = j + 1
        /\ PendingAt(f, j) = FoldedAt(f, s, e, j + 1) - 1
        /\ PendingAt(f, j + 1) = FoldedAt(f, s, e, j + 1) - 0
    <3>1. /\ j + 1 \in j..(e - 1) /\ j + 1 \in (j + 1)..(e - 1)
          /\ j..((j + 1) - 1) = {j} /\ (j + 1)..((j + 1) - 1) = {}
          /\ (j + 1) - j = 1 /\ (j + 1) - (j + 1) = 0
      BY <1>1, <2>1
    <3>2. \A m \in j..((j + 1) - 1) : Hidden(f, s, e, m)
      BY <3>1
    <3> QED
      BY <2>1, <2>2, <3>1, <3>2, LocAtIs
  <2>6. CASE FoldsPick(f, s, j + 1)
    <3>1. FoldedAt(f, s, e, j + 1) = 1
      BY <2>4, <2>6 DEF FoldedAt
    <3> QED
      BY <1>2, <2>1, <2>5, <3>1
  <2>7. CASE FoldsDrop(f, s, j + 1)
    <3>1. FoldedAt(f, s, e, j + 1) = 2
      BY <2>4, <2>7 DEF FoldedAt, FoldsDrop, FoldsPick
    <3>2. ~ (j = s \/ ~ Hidden(f, s, e, j - 1))
      <4>1. (j + 1) - 2 = j - 1 /\ (j - 1) + 2 = j + 1
        BY <1>1
      <4>2. j - 1 >= s
        BY <2>7, <4>1 DEF FoldsDrop
      <4>3. Eaten(f, s, e, j - 1)
        BY <1>3, <2>7, <4>1 DEF Eaten
      <4> QED
        BY <1>1, <4>2, <4>3 DEF Hidden
    <3> QED
      BY <1>2, <2>1, <2>5, <3>1, <3>2
  <2> QED
    BY <1>3, <2>6, <2>7
<1>4. CASE j + 2 < e /\ FoldsDrop(f, s, j + 2)
  <2>1. At(f, j + 2).op = "droprange" /\ j + 2 \in s..(e - 1) /\ j + 1 \in s..(e - 1)
    BY <1>1, <1>4 DEF FoldsDrop
  <2>2. ~ Hidden(f, s, e, j + 2)
    BY <1>2, <2>1
  <2>3. Hidden(f, s, e, j + 1)
    <3>1. (j + 1) + 1 = j + 2
      BY <1>1
    <3> QED
      BY <1>4, <3>1 DEF Hidden, Eaten
  <2>4. j + 2 \in BodyOf(f, s, e)
    <3>1. j + 2 \in LocsIn(f, s, e)
      BY <2>1, <2>2, LocsAreNotHidden
    <3>2. At(f, e - 1).op \in ControlOps => j + 2 # e - 1
      BY <2>1 DEF ControlOps
    <3> QED
      BY <3>1, <3>2 DEF LocsIn
  <2>5. /\ LocAt(f, j) = j + 2 /\ LocAt(f, j + 1) = j + 2
        /\ PendingAt(f, j) = FoldedAt(f, s, e, j + 2) - 2
        /\ PendingAt(f, j + 1) = FoldedAt(f, s, e, j + 2) - 1
    <3>1. /\ j + 2 \in j..(e - 1) /\ j + 2 \in (j + 1)..(e - 1)
          /\ j..((j + 2) - 1) = {j, j + 1} /\ (j + 1)..((j + 2) - 1) = {j + 1}
          /\ (j + 2) - j = 2 /\ (j + 2) - (j + 1) = 1
      BY <1>1, <2>1
    <3>2. \A m \in j..((j + 2) - 1) : Hidden(f, s, e, m)
      BY <2>3, <3>1
    <3>3. \A m \in (j + 1)..((j + 2) - 1) : Hidden(f, s, e, m)
      BY <2>3, <3>1
    <3> QED
      BY <2>1, <2>2, <3>1, <3>2, <3>3, LocAtIs
  <2>6. FoldedAt(f, s, e, j + 2) = 2
    BY <1>4, <2>4 DEF FoldedAt, FoldsDrop, FoldsPick
  <2> QED
    BY <1>2, <2>1, <2>5, <2>6
<1>5. CASE EndsInConstSkip(f, s, e) /\ j = e - 2
  <2>1. At(f, e - 1).op = "skip" /\ j + 1 \in s..(e - 1) /\ j + 1 = e - 1
    BY <1>1, <1>5 DEF EndsInConstSkip
  <2>2. ~ Hidden(f, s, e, j + 1)
    BY <1>2, <2>1
  <2>3. j + 1 \notin BodyOf(f, s, e)
    BY <1>5, <2>1 DEF BodyOf
  <2>4. FoldedAt(f, s, e, j + 1) = 1
    BY <1>5, <2>3 DEF FoldedAt
  <2>5. /\ LocAt(f, j) = j + 1 /\ LocAt(f, j + 1) = j + 1
        /\ PendingAt(f, j) = FoldedAt(f, s, e, j + 1) - 1
        /\ PendingAt(f, j + 1) = FoldedAt(f, s, e, j + 1) - 0
    <3>1. /\ j + 1 \in j..(e - 1) /\ j + 1 \in (j + 1)..(e - 1)
          /\ j..((j + 1) - 1) = {j} /\ (j + 1)..((j + 1) - 1) = {}
          /\ (j + 1) - j = 1 /\ (j + 1) - (j + 1) = 0
      BY <1>1, <2>1
    <3>2. \A m \in j..((j + 1) - 1) : Hidden(f, s, e, m)
      BY <3>1
    <3> QED
      BY <2>1, <2>2, <3>1, <3>2, LocAtIs
  <2> QED
    BY <1>2, <2>1, <2>4, <2>5
<1> QED
  BY <1>3, <1>4, <1>5 DEF Hidden, Eaten

\* At a position not hidden, what is folded is what is pending.
LEMMA VisiblePosition ==
    ASSUME NEW f, IsCode(f), NEW s, NEW e, IsBlock(f, s, e), NEW j \in s..(e - 1),
           ~ Hidden(f, s, e, j)
    PROVE  /\ LocAt(f, j) = j /\ PendingAt(f, j) = FoldedAt(f, s, e, j)
           /\ j \in LocsIn(f, s, e) /\ PendingAt(f, j) \in {0, 1, 2}
           /\ j = s \/ ~ Hidden(f, s, e, j - 1) => PendingAt(f, j) = 0
<1>1. s \in Nat /\ e \in Nat /\ s < e /\ j \in Nat /\ s <= j /\ j < e
  BY BlockBounds
<1>2. FoldedAt(f, s, e, j) \in {0, 1, 2}
  BY DEF FoldedAt
<1>3. /\ LocAt(f, j) = j /\ PendingAt(f, j) = FoldedAt(f, s, e, j) - (j - j)
      /\ j \in LocsIn(f, s, e)
  <2>1. j \in j..(e - 1) /\ \A m \in j..(j - 1) : Hidden(f, s, e, m)
    BY <1>1
  <2> QED
    BY <2>1, LocAtIs
<1>4. ASSUME j = s \/ ~ Hidden(f, s, e, j - 1) PROVE FoldedAt(f, s, e, j) = 0
  <2>1. (j - 1) + 1 = j
    BY <1>1
  <2>2. CASE FoldsPick(f, s, j) \/ FoldsDrop(f, s, j)
    <3>1. j # s
      BY <1>1, <2>2 DEF FoldsPick, FoldsDrop
    <3>2. Eaten(f, s, e, j - 1)
      BY <1>1, <2>1, <2>2 DEF Eaten
    <3> QED
      BY <1>4, <3>1, <3>2 DEF Hidden
  <2>3. CASE j \notin BodyOf(f, s, e) /\ EndsInConstSkip(f, s, e)
    <3>1. j = e - 1
      BY <1>3, <2>3 DEF LocsIn
    <3>2. j - 1 = e - 2 /\ j # s
      BY <1>1, <2>3, <3>1 DEF EndsInConstSkip
    <3> QED
      BY <1>4, <2>3, <3>2 DEF Hidden
  <2> QED
    BY <2>2, <2>3 DEF FoldedAt
<1> QED
  BY <1>2, <1>3, <1>4

\* Nothing is pending at the start of a block or after a visible position.
LEMMA NothingPending ==
    ASSUME NEW f, IsCode(f), NEW s, NEW e, IsBlock(f, s, e), NEW j \in s..(e - 1),
           j = s \/ ~ Hidden(f, s, e, j - 1)
    PROVE  PendingAt(f, j) = 0
BY HiddenPosition, VisiblePosition
LEMMA LocAtIsFirst ==
    ASSUME NEW f, IsCode(f), NEW s, NEW e, IsBlock(f, s, e), NEW j \in s..(e - 1)
    PROVE  /\ LocAt(f, j) \in LocsIn(f, s, e) /\ LocAt(f, j) \in j..(e - 1)
           /\ \A m \in LocsIn(f, s, e) : m >= j => LocAt(f, j) <= m
<1> DEFINE T == {m \in j..(e - 1) : ~ Hidden(f, s, e, m)}
<1>1. s \in Nat /\ e \in Nat /\ s < e /\ j \in Nat /\ s <= j /\ j < e
  BY BlockBounds
<1>2. PICK l \in T : \A m \in T : l <= m
  <2>1. ~ Hidden(f, s, e, e - 1)
    <3>1. e - 1 \in s..(e - 1)
      BY <1>1
    <3>2. ~ ((e - 1) + 1 \in s..(e - 1))
      BY <1>1
    <3> QED
      BY <3>1, <3>2, HiddenPosition
  <2>2. T \subseteq Nat /\ e - 1 \in T
    BY <1>1, <2>1
  <2> HIDE DEF T
  <2> QED
    BY <2>2, LeastNumber
<1>3. l \in j..(e - 1) /\ ~ Hidden(f, s, e, l)
  OBVIOUS
<1>4. \A m \in j..(l - 1) : Hidden(f, s, e, m)
  <2> SUFFICES ASSUME NEW m \in j..(l - 1), ~ Hidden(f, s, e, m) PROVE FALSE
    OBVIOUS
  <2>1. m \in T
    BY <1>1, <1>3
  <2>2. l <= m
    BY <1>2, <2>1
  <2> QED
    BY <1>1, <1>3, <2>2
<1>5. LocAt(f, j) = l /\ l \in LocsIn(f, s, e)
  BY <1>3, <1>4, LocAtIs
<1>6. ASSUME NEW m \in LocsIn(f, s, e), m >= j PROVE l <= m
  <2>1. m \in s..(e - 1) /\ ~ Hidden(f, s, e, m)
    BY LocsAreInBlock, LocsAreNotHidden
  <2>2. m \in T
    BY <1>1, <1>6, <2>1
  <2> QED
    BY <1>2, <2>2
<1> QED
  BY <1>3, <1>5, <1>6

-----------------------------------------------------------------------------
(* The block machine's positions, for any graph g of a function f.         *)

BlockIn(g, j) == CHOOSE s \in DOMAIN g : s <= j /\ j < g[s].end

LocsOf(f, g, s) ==
    DOMAIN g[s].code
    \cup (IF At(f, g[s].end - 1).op \in ControlOps THEN {g[s].end - 1} ELSE {})

FirstAmong(S) == CHOOSE x \in S : \A y \in S : x <= y

EntryOf(f, g, t) == IF t < Len(f) THEN FirstAmong(LocsOf(f, g, t)) ELSE t

AfterOf(f, g, j) ==
    LET s     == BlockIn(g, j)
        later == {l \in LocsOf(f, g, s) : l > j}
    IN IF later # {} THEN FirstAmong(later) ELSE EntryOf(f, g, g[s].term.targets[1])

LEMMA LenOfCode == ASSUME NEW f, IsCode(f) PROVE Len(f) \in Nat
BY DEF IsCode

LEMMA GraphHasBlock ==
    ASSUME NEW f, IsCode(f), NEW g, g = GraphOf(f), NEW s, NEW e, IsBlock(f, s, e)
    PROVE  /\ DOMAIN g = StartsOf(f) /\ s \in DOMAIN g
           /\ g[s].end = e /\ g[s].term = Terminator(f, s, e)
           /\ DOMAIN g[s].code = BodyOf(f, s, e)
           /\ \A j \in BodyOf(f, s, e) : g[s].code[j] = Resolved(f, s, j)
           /\ LocsOf(f, g, s) = LocsIn(f, s, e)
<1>1. /\ DOMAIN g = StartsOf(f)
      /\ \A t \in StartsOf(f) : g[t] = BlockAt(f, t, EndIn(f, StartsOf(f), t))
  BY DEF GraphOf
<1>2. s \in DOMAIN g /\ g[s] = BlockAt(f, s, e)
  BY <1>1 DEF IsBlock
<1>3. /\ g[s].end = e /\ g[s].term = Terminator(f, s, e)
      /\ g[s].code = [j \in BodyOf(f, s, e) |-> Resolved(f, s, j)]
  BY <1>2 DEF BlockAt
<1>4. LocsOf(f, g, s) = LocsIn(f, s, e)
  BY <1>3 DEF LocsOf, LocsIn
<1> QED
  BY <1>1, <1>2, <1>3, <1>4

LEMMA GraphFindsBlock ==
    ASSUME NEW f, IsCode(f), NEW g, g = GraphOf(f), NEW j \in 0..(Len(f) - 1),
           NEW x, x = CHOOSE s \in DOMAIN g : s <= j /\ j < g[s].end
    PROVE  x = StartAt(f, j)
<1>1. IsCode(f)
  BY LenOfCode
<1>2. IsBlock(f, StartAt(f, j), EndAt(f, j))
      /\ StartAt(f, j) <= j /\ j < EndAt(f, j)
  BY <1>1, BlockAtPosition
<1>3. StartAt(f, j) \in DOMAIN g /\ g[StartAt(f, j)].end = EndAt(f, j)
  BY <1>2, GraphHasBlock
<1>4. x \in DOMAIN g /\ x <= j /\ j < g[x].end
  BY <1>2, <1>3
<1>5. x \in StartsOf(f)
  BY <1>2, <1>4, GraphHasBlock
<1>6. IsBlock(f, x, EndIn(f, StartsOf(f), x))
  BY <1>5 DEF IsBlock
<1>7. g[x].end = EndIn(f, StartsOf(f), x)
  BY <1>6, GraphHasBlock
<1> QED
  <2>1. j \in Nat
    OBVIOUS
  <2> QED
    BY <1>1, <1>2, <1>4, <1>5, <1>7, <2>1, BlockIsUnique DEF IsBlock, EndAt, IsCode

LEMMA BlockInIs ==
    ASSUME NEW f, IsCode(f), NEW g, g = GraphOf(f), NEW s, NEW e, IsBlock(f, s, e),
           NEW j \in s..(e - 1)
    PROVE  BlockIn(g, j) = s
<1>1. StartAt(f, j) = s /\ j \in 0..(Len(f) - 1)
  BY PositionInBlock
<1> QED
  BY <1>1, GraphFindsBlock DEF BlockIn

LEMMA FirstAmongIs ==
    ASSUME NEW S, S \subseteq Nat, NEW l \in S, \A m \in S : l <= m
    PROVE  FirstAmong(S) = l
<1>1. ASSUME NEW x \in S, \A m \in S : x <= m PROVE x = l
  <2>1. x <= l /\ l <= x /\ x \in Nat /\ l \in Nat
    BY <1>1
  <2> QED
    BY <2>1
<1> QED
  BY <1>1 DEF FirstAmong

LEMMA EntryOfIs ==
    ASSUME NEW f, IsCode(f), NEW g, g = GraphOf(f), NEW t \in Places(f), t <= Len(f)
    PROVE  /\ EntryOf(f, g, t) = LocAt(f, t) /\ LocAt(f, t) \in t..Len(f)
           /\ t \in 0..Len(f) /\ PendingAt(f, t) = 0
<1>0. IsCode(f) /\ Len(f) \in Nat
  BY LenOfCode
<1>1. CASE t = Len(f)
  BY <1>0, <1>1 DEF EntryOf, LocAt, PendingAt
<1>2. CASE t # Len(f)
  <2> DEFINE e == EndIn(f, StartsOf(f), t)
             S == LocsIn(f, t, e)
  <2>1. IsBlock(f, t, e)
    <3>1. t # Len(f) + 1
      BY <1>0
    <3> QED
      BY <1>2, <3>1 DEF Places, IsBlock
  <2> HIDE DEF e
  <2>2. t \in Nat /\ e \in Nat /\ t < e /\ e <= Len(f) /\ t \in t..(e - 1)
    BY <1>0, <2>1, BlockBounds
  <2>3. /\ LocAt(f, t) \in S /\ LocAt(f, t) \in t..(e - 1)
        /\ \A m \in S : m >= t => LocAt(f, t) <= m
    BY <1>0, <2>1, <2>2, LocAtIsFirst
  <2>4. ASSUME NEW m \in S PROVE m \in Nat /\ m >= t
    <3>1. m \in t..(e - 1)
      BY <1>0, <2>1, LocsAreInBlock
    <3> QED
      BY <2>2, <3>1
  <2>5. LocsOf(f, g, t) = S
    BY <2>1, GraphHasBlock
  <2> HIDE DEF S
  <2>6. FirstAmong(S) = LocAt(f, t)
    <3>1. S \subseteq Nat /\ \A m \in S : LocAt(f, t) <= m
      BY <2>3, <2>4
    <3> QED
      BY <2>3, <3>1, FirstAmongIs
  <2>7. EntryOf(f, g, t) = LocAt(f, t)
    BY <1>0, <2>2, <2>5, <2>6 DEF EntryOf
  <2>8. PendingAt(f, t) = 0
    BY <1>0, <2>1, <2>2, NothingPending
  <2> QED
    BY <1>0, <2>2, <2>3, <2>7, <2>8
<1> QED
  BY <1>1, <1>2

LEMMA TrapOfIs ==
    ASSUME NEW f, IsCode(f), NEW g, g = GraphOf(f)
    PROVE  EntryOf(f, g, Len(f) + 1) = Len(f) + 1
<1>1. Len(f) \in Nat
  BY LenOfCode
<1> QED
  BY <1>1 DEF EntryOf

LEMMA AfterOfIs ==
    ASSUME NEW f, IsCode(f), NEW g, g = GraphOf(f), NEW s, NEW e, IsBlock(f, s, e),
           NEW j \in BodyOf(f, s, e)
    PROVE  /\ AfterOf(f, g, j) = LocAt(f, j + 1) /\ LocAt(f, j + 1) \in (j + 1)..Len(f)
           /\ j + 1 \in 0..Len(f) /\ PendingAt(f, j + 1) = 0
<1> DEFINE S == LocsIn(f, s, e)
           later == {l \in S : l > j}
<1>0. IsCode(f) /\ Len(f) \in Nat
  BY LenOfCode
<1>1. s \in Nat /\ e \in Nat /\ s < e /\ e <= Len(f) /\ e \in StartsOf(f) \cup {Len(f)}
  BY <1>0, BlockBounds
<1>2. j \in s..(e - 1) /\ j \in S
  BY DEF BodyOf, Kept, LocsIn
<1>3. ~ Hidden(f, s, e, j)
  BY <1>0, <1>2, LocsAreNotHidden
<1>4. /\ BlockIn(g, j) = s /\ LocsOf(f, g, s) = S
      /\ g[s].term = Terminator(f, s, e)
  BY <1>2, BlockInIs, GraphHasBlock
<1>5. AfterOf(f, g, j) = IF later # {} THEN FirstAmong(later)
                        ELSE EntryOf(f, g, Terminator(f, s, e).targets[1])
  BY <1>4 DEF AfterOf
<1>6. CASE j + 1 < e
  <2>1. j + 1 \in s..(e - 1) /\ (j + 1) - 1 = j
    BY <1>1, <1>2, <1>6
  <2>2. /\ LocAt(f, j + 1) \in S /\ LocAt(f, j + 1) \in (j + 1)..(e - 1)
        /\ \A m \in S : m >= j + 1 => LocAt(f, j + 1) <= m
    BY <1>0, <2>1, LocAtIsFirst
  <2>3. ASSUME NEW m \in later PROVE m \in Nat /\ LocAt(f, j + 1) <= m
    <3>1. m \in S /\ m > j /\ m \in s..(e - 1)
      BY <1>0, LocsAreInBlock
    <3>2. m \in Nat /\ m >= j + 1
      BY <1>1, <1>2, <3>1
    <3> QED
      BY <2>2, <3>1, <3>2
  <2>4. LocAt(f, j + 1) \in later
    BY <1>1, <1>2, <2>2
  <2>5. PendingAt(f, j + 1) = 0
    BY <1>0, <1>3, <2>1, NothingPending
  <2>6. LocAt(f, j + 1) \in (j + 1)..Len(f) /\ j + 1 \in 0..Len(f)
    BY <1>1, <1>2, <1>6, <2>2
  <2> HIDE DEF later
  <2>7. FirstAmong(later) = LocAt(f, j + 1)
    <3>1. later \subseteq Nat /\ \A m \in later : LocAt(f, j + 1) <= m
      BY <2>3
    <3> QED
      BY <2>4, <3>1, FirstAmongIs
  <2> QED
    BY <1>5, <2>4, <2>5, <2>6, <2>7
<1>7. CASE ~ (j + 1 < e)
  <2>1. j = e - 1 /\ j + 1 = e
    BY <1>1, <1>2, <1>7
  <2>2. later = {}
    <3> SUFFICES ASSUME NEW l \in S, l > j PROVE FALSE
      OBVIOUS
    <3>1. l \in s..(e - 1)
      BY <1>0, LocsAreInBlock
    <3> QED
      BY <1>1, <2>1, <3>1
  <2>3. At(f, e - 1).op \notin ControlOps
    BY <2>1 DEF BodyOf
  <2>4. Terminator(f, s, e).targets[1] = Target(f, e)
    BY <2>3 DEF Terminator, ControlOps, EndsInConstSkip
  <2>5. Target(f, e) = e
    BY <1>0, <1>1 DEF Target, MinInt
  <2>6. e \in Places(f)
    BY <1>1 DEF Places
  <2>7. AfterOf(f, g, j) = EntryOf(f, g, e)
    BY <1>5, <2>2, <2>4, <2>5
  <2> QED
    BY <1>1, <2>1, <2>6, <2>7, EntryOfIs
<1> QED
  BY <1>6, <1>7

-----------------------------------------------------------------------------
(* Stacks on top of each other.                                           *)

LEMMA SameInts ==
    ASSUME NEW s \in Seq(Int), NEW t \in Seq(Int), Len(s) = Len(t),
           \A i \in 1..Len(s) : s[i] = t[i]
    PROVE  s = t
BY SeqEqual

LEMMA ConcatInts ==
    /\ \A s, t \in Seq(Int) : s \o t \in Seq(Int)
    /\ \A s, t, w \in Seq(Int) : (s \o t) \o w = s \o (t \o w)
BY ConcatProperties, ConcatAssociative

LEMMA StackLemma ==
    ASSUME NEW stack \in Seq(Int)
    PROVE  /\ Pop(stack, 0) = stack
           /\ \A v \in Int, k \in 0..Len(stack) :
                 Pop(Push(stack, v), k + 1) = Pop(stack, k)
           /\ \A v \in Int : FromTop(Push(stack, v), 1) = v
           /\ \A v \in Int, k \in 1..Len(stack) :
                 FromTop(Push(stack, v), k + 1) = FromTop(stack, k)
           /\ \A v \in Int : Push(stack, v) \in Seq(Int) /\ Len(Push(stack, v)) = Len(stack) + 1
<1>1. Pop(stack, 0) = stack
  BY DEF Pop
<1>2. ASSUME NEW v \in Int
      PROVE  /\ Push(stack, v) \in Seq(Int) /\ Len(Push(stack, v)) = Len(stack) + 1
             /\ Push(stack, v)[Len(stack) + 1] = v
             /\ \A i \in 1..Len(stack) : Push(stack, v)[i] = stack[i]
  BY DEF Push
<1>3. ASSUME NEW v \in Int, NEW k \in 0..Len(stack)
      PROVE  Pop(Push(stack, v), k + 1) = Pop(stack, k)
  <2> DEFINE a == Pop(Push(stack, v), k + 1)
             b == Pop(stack, k)
  <2>1. k + 1 \in 0..Len(Push(stack, v)) /\ Len(Push(stack, v)) - (k + 1) = Len(stack) - k
    <3>0. Len(Push(stack, v)) = Len(stack) + 1
      BY <1>2, Zenon
    <3>1. Len(stack) \in Nat /\ Len(Push(stack, v)) = Len(stack) + 1 /\ k \in 0..Len(stack)
      BY <3>0
    <3>2. \A n, m \in Nat : m = n + 1 /\ k \in 0..n => k + 1 \in 0..m /\ m - (k + 1) = n - k
      OBVIOUS
    <3> QED
      BY <3>1, <3>2
  <2>2. /\ a \in Seq(Int) /\ Len(a) = Len(stack) - k
        /\ \A i \in 1..(Len(stack) - k) : a[i] = Push(stack, v)[i]
    <3> DEFINE p == Push(stack, v)
    <3>1. p \in Seq(Int) /\ k + 1 \in 0..Len(p)
      BY <1>2, <2>1
    <3> HIDE DEF p
    <3>2. /\ Pop(p, k + 1) \in Seq(Int) /\ Len(Pop(p, k + 1)) = Len(p) - (k + 1)
          /\ \A i \in 1..(Len(p) - (k + 1)) : Pop(p, k + 1)[i] = p[i]
      BY <3>1, PopIsSeq
    <3> QED
      BY <2>1, <3>2 DEF p
  <2>3. /\ b \in Seq(Int) /\ Len(b) = Len(stack) - k
        /\ \A i \in 1..(Len(stack) - k) : b[i] = stack[i]
    BY PopIsSeq
  <2>4. \A i \in 1..(Len(stack) - k) : i \in 1..Len(stack)
    OBVIOUS
  <2> HIDE DEF a, b
  <2>5. \A i \in 1..Len(a) : a[i] = b[i]
    BY <1>2, <2>2, <2>3, <2>4
  <2> QED
    BY <2>2, <2>3, <2>5, SeqEqual DEF a, b
<1>4. ASSUME NEW v \in Int PROVE FromTop(Push(stack, v), 1) = v
  <2>1. Len(Push(stack, v)) - 1 + 1 = Len(stack) + 1
    BY <1>2
  <2> QED
    BY <1>2, <2>1 DEF FromTop
<1>5. ASSUME NEW v \in Int, NEW k \in 1..Len(stack)
      PROVE  FromTop(Push(stack, v), k + 1) = FromTop(stack, k)
  <2>1. /\ Len(Push(stack, v)) - (k + 1) + 1 = Len(stack) - k + 1
        /\ Len(stack) - k + 1 \in 1..Len(stack)
    BY <1>2
  <2> QED
    BY <1>2, <2>1 DEF FromTop
<1> QED
  BY <1>1, <1>2, <1>3, <1>4, <1>5

\* Popping, reading and pushing above u.
LEMMA TopIsLocal ==
    ASSUME NEW u \in Seq(Int), NEW v \in Seq(Int)
    PROVE  /\ u \o v \in Seq(Int) /\ Len(u \o v) = Len(u) + Len(v)
           /\ \A k \in 0..Len(v) : Pop(u \o v, k) = u \o Pop(v, k)
           /\ \A k \in 1..Len(v) : FromTop(u \o v, k) = FromTop(v, k)
           /\ \A w \in Int : Push(u \o v, w) = u \o Push(v, w)
<1> DEFINE uv == u \o v
<1>1. /\ uv \in Seq(Int) /\ Len(uv) = Len(u) + Len(v) /\ Len(u) \in Nat /\ Len(v) \in Nat
      /\ \A i \in 1..(Len(u) + Len(v)) : uv[i] = IF i <= Len(u) THEN u[i] ELSE v[i - Len(u)]
  BY ConcatProperties
<1> HIDE DEF uv
<1>2. ASSUME NEW k \in 0..Len(v) PROVE Pop(uv, k) = u \o Pop(v, k)
  <2> DEFINE p == Pop(uv, k)
             q == Pop(v, k)
  <2>1. /\ p \in Seq(Int) /\ Len(p) = Len(uv) - k
        /\ \A i \in 1..(Len(uv) - k) : p[i] = uv[i]
    <3>1. k \in 0..Len(uv)
      BY <1>1
    <3> QED
      BY <1>1, <3>1, PopIsSeq
  <2>2. /\ q \in Seq(Int) /\ Len(q) = Len(v) - k
        /\ \A i \in 1..(Len(v) - k) : q[i] = v[i]
    BY PopIsSeq
  <2> HIDE DEF p, q
  <2>3. /\ u \o q \in Seq(Int) /\ Len(u \o q) = Len(u) + Len(q)
        /\ \A i \in 1..(Len(u) + Len(q)) : (u \o q)[i] = IF i <= Len(u) THEN u[i] ELSE q[i - Len(u)]
    BY <2>2, ConcatProperties
  <2>4. Len(p) = Len(u \o q)
    BY <1>1, <2>1, <2>2, <2>3
  <2>5. ASSUME NEW i \in 1..Len(p) PROVE p[i] = (u \o q)[i]
    <3>1. i \in 1..(Len(u) + Len(q)) /\ i \in 1..(Len(u) + Len(v)) /\ i \in 1..(Len(uv) - k)
      <4>1. i \in 1..(Len(u) + Len(v) - k)
        BY <1>1, <2>1
      <4> QED
        BY <1>1, <2>2, <4>1
    <3>3. p[i] = uv[i]
      BY <2>1, <3>1
    <3>2. ~ (i <= Len(u)) => i - Len(u) \in 1..(Len(v) - k)
      BY <1>1, <2>1, <2>2
    <3> QED
      BY <1>1, <2>2, <2>3, <3>1, <3>2, <3>3
  <2>6. p = u \o q
    BY <2>1, <2>3, <2>4, <2>5, SameInts
  <2> QED
    BY <2>6 DEF p, q
<1>3. ASSUME NEW k \in 1..Len(v) PROVE FromTop(uv, k) = FromTop(v, k)
  <2>1. Len(uv) - k + 1 \in 1..(Len(u) + Len(v)) /\ ~ (Len(uv) - k + 1 <= Len(u))
        /\ (Len(uv) - k + 1) - Len(u) = Len(v) - k + 1
    BY <1>1
  <2> DEFINE i == Len(uv) - k + 1
  <2>2. uv[i] = v[i - Len(u)]
    BY <1>1, <2>1
  <2> QED
    BY <2>1, <2>2 DEF FromTop
<1>4. ASSUME NEW w \in Int PROVE Push(uv, w) = u \o Push(v, w)
  <2>1. Push(uv, w) = uv \o <<w>> /\ Push(v, w) = v \o <<w>> /\ <<w>> \in Seq(Int)
    BY <1>1, AppendIsConcat DEF Push
  <2> QED
    BY <2>1, ConcatAssociative DEF uv
<1> QED
  BY <1>1, <1>2, <1>3, <1>4 DEF uv

\* Popping twice, and what is on top in between.
LEMMA PopTwice ==
    ASSUME NEW s \in Seq(Int), NEW n \in 0..Len(s), NEW m \in 0..(Len(s) - n)
    PROVE  /\ Pop(Pop(s, n), m) = Pop(s, n + m)
           /\ m > 0 => FromTop(Pop(s, n), m) = FromTop(s, n + m)
<1> DEFINE p == Pop(s, n)
           q == Pop(p, m)
           r == Pop(s, n + m)
<1>1. Len(s) \in Nat /\ n \in Nat /\ m \in Nat /\ n + m \in 0..Len(s)
  OBVIOUS
<1>2. p \in Seq(Int) /\ Len(p) = Len(s) - n /\ \A i \in 1..(Len(s) - n) : p[i] = s[i]
  BY PopIsSeq
<1>3. r \in Seq(Int) /\ Len(r) = Len(s) - (n + m) /\ \A i \in 1..(Len(s) - (n + m)) : r[i] = s[i]
  BY <1>1, PopIsSeq
<1> HIDE DEF p
<1>4. m \in 0..Len(p)
  BY <1>2
<1>5. q \in Seq(Int) /\ Len(q) = Len(p) - m /\ \A i \in 1..(Len(p) - m) : q[i] = p[i]
  BY <1>2, <1>4, PopIsSeq
<1> HIDE DEF q, r
<1>6. Len(q) = Len(r) /\ Len(r) <= Len(s) - n
  BY <1>1, <1>2, <1>3, <1>5
<1>7. ASSUME NEW i \in 1..Len(q) PROVE q[i] = r[i]
  <2>1. i \in 1..(Len(s) - n) /\ i \in 1..(Len(s) - (n + m)) /\ i \in 1..(Len(p) - m)
    BY <1>1, <1>2, <1>3, <1>5, <1>6
  <2> QED
    BY <1>2, <1>3, <1>5, <2>1
<1>8. q = r
  BY <1>3, <1>5, <1>6, <1>7, SameInts
<1>9. ASSUME m > 0 PROVE FromTop(p, m) = FromTop(s, n + m)
  <2>1. /\ Len(p) - m + 1 = Len(s) - (n + m) + 1
        /\ Len(p) - m + 1 \in 1..(Len(s) - n)
    BY <1>1, <1>2, <1>9
  <2> QED
    BY <1>2, <2>1 DEF FromTop
<1> QED
  BY <1>8, <1>9 DEF p, q, r

-----------------------------------------------------------------------------
(* The memory.                                                             *)

Memories(size) == [0..(size - 1) -> Int]

\* The elements of mem from address lo up to hi.
Held(mem, lo, hi) == [i \in 1..(hi - lo) |-> mem[lo + i - 1]]

LEMMA HeldIsSeq ==
    ASSUME NEW size \in Nat, NEW mem \in Memories(size), NEW lo \in Nat, NEW hi \in lo..size
    PROVE  /\ Held(mem, lo, hi) \in Seq(Int) /\ Len(Held(mem, lo, hi)) = hi - lo
           /\ \A i \in 1..(hi - lo) : Held(mem, lo, hi)[i] = mem[lo + i - 1]
<1>1. size \in Nat /\ hi - lo \in Nat /\ hi <= size
  OBVIOUS
<1>2. ASSUME NEW i \in 1..(hi - lo) PROVE mem[lo + i - 1] \in Int
  <2>1. lo + i - 1 \in 0..(size - 1)
    BY <1>1
  <2> QED
    BY <2>1 DEF Memories
<1> QED
  BY <1>1, <1>2 DEF Held

LEMMA HeldFromBase ==
    ASSUME NEW size \in Nat, NEW mem \in Memories(size), NEW hi \in 0..size
    PROVE  /\ Held(mem, 0, hi) \in Seq(Int) /\ Len(Held(mem, 0, hi)) = hi
           /\ \A i \in 1..hi : Held(mem, 0, hi)[i] = mem[i - 1]
<1>1. 0 \in Nat /\ hi - 0 = hi /\ \A i \in 1..hi : 0 + i - 1 = i - 1
  OBVIOUS
<1>2. /\ Held(mem, 0, hi) \in Seq(Int) /\ Len(Held(mem, 0, hi)) = hi - 0
      /\ \A i \in 1..(hi - 0) : Held(mem, 0, hi)[i] = mem[0 + i - 1]
  BY <1>1, HeldIsSeq
<1> QED
  BY <1>1, <1>2

LEMMA HeldSplits ==
    ASSUME NEW size \in Nat, NEW mem \in Memories(size), NEW mid \in Nat, NEW hi \in mid..size
    PROVE  Held(mem, 0, hi) = Held(mem, 0, mid) \o Held(mem, mid, hi)
<1> DEFINE s == Held(mem, 0, hi)
           t == Held(mem, 0, mid)
           w == Held(mem, mid, hi)
<1>1. mid \in 0..size /\ hi \in 0..size /\ 0 \in Nat /\ size \in Nat
  OBVIOUS
<1>2. s \in Seq(Int) /\ Len(s) = hi /\ \A i \in 1..hi : s[i] = mem[i - 1]
  BY <1>1, HeldFromBase
<1>3. t \in Seq(Int) /\ Len(t) = mid /\ \A i \in 1..mid : t[i] = mem[i - 1]
  BY <1>1, HeldFromBase
<1>4. w \in Seq(Int) /\ Len(w) = hi - mid /\ \A i \in 1..(hi - mid) : w[i] = mem[mid + i - 1]
  BY HeldIsSeq
<1> HIDE DEF s, t, w
<1>5. /\ t \o w \in Seq(Int) /\ Len(t \o w) = Len(t) + Len(w)
      /\ \A i \in 1..(Len(t) + Len(w)) : (t \o w)[i] = IF i <= Len(t) THEN t[i] ELSE w[i - Len(t)]
  BY <1>3, <1>4, ConcatProperties
<1>6. ASSUME NEW i \in 1..hi PROVE s[i] = (t \o w)[i]
  <2>1. (t \o w)[i] = IF i <= mid THEN t[i] ELSE w[i - mid]
    <3>1. Len(t) = mid /\ Len(t) + Len(w) = hi
      <4>1. mid + (hi - mid) = hi
        BY <1>1
      <4> QED
        BY <1>3, <1>4, <4>1, Zenon
    <3>2. i \in 1..(Len(t) + Len(w))
      BY <3>1, Zenon
    <3>3. (t \o w)[i] = IF i <= Len(t) THEN t[i] ELSE w[i - Len(t)]
      BY <1>5, <3>2, Zenon
    <3> QED
      BY <3>1, <3>3, Zenon
  <2>2. ~ (i <= mid) => i - mid \in 1..(hi - mid) /\ mid + (i - mid) - 1 = i - 1
    BY <1>1
  <2>3. CASE i <= mid
    <3>1. i \in 1..mid
      BY <1>1, <2>3
    <3> QED
      BY <1>2, <1>3, <2>1, <2>3, <3>1
  <2>4. CASE ~ (i <= mid)
    <3>1. w[i - mid] = mem[mid + (i - mid) - 1]
      BY <1>4, <2>2, <2>4
    <3> QED
      BY <1>2, <2>1, <2>2, <2>4, <3>1
  <2> QED
    BY <2>3, <2>4
<1>7. Len(s) = Len(t \o w)
  BY <1>1, <1>2, <1>3, <1>4, <1>5
<1>8. s = t \o w
  BY <1>2, <1>5, <1>6, <1>7, SameInts
<1> QED
  BY <1>8 DEF s, t, w

\* Popping and reading the top of what is held.
LEMMA HeldTop ==
    ASSUME NEW size \in Nat, NEW mem \in Memories(size), NEW p \in 0..size
    PROVE  /\ \A k \in 0..p : Pop(Held(mem, 0, p), k) = Held(mem, 0, p - k)
           /\ \A k \in 1..p : FromTop(Held(mem, 0, p), k) = mem[p - k] /\ mem[p - k] \in Int
<1>1. 0 \in Nat /\ size \in Nat /\ p \in Nat
  OBVIOUS
<1> DEFINE s == Held(mem, 0, p)
<1>2. s \in Seq(Int) /\ Len(s) = p /\ \A i \in 1..p : s[i] = mem[i - 1]
  BY <1>1, HeldFromBase
<1>3. ASSUME NEW k \in 0..p PROVE Pop(s, k) = Held(mem, 0, p - k)
  <2> DEFINE t == Held(mem, 0, p - k)
             r == Pop(s, k)
  <2>1. p - k \in 0..size
    BY <1>1
  <2>2. t \in Seq(Int) /\ Len(t) = p - k /\ \A i \in 1..(p - k) : t[i] = mem[i - 1]
    BY <2>1, HeldFromBase
  <2>3. r \in Seq(Int) /\ Len(r) = p - k /\ \A i \in 1..(p - k) : r[i] = s[i]
    <3>1. k \in 0..Len(s)
      BY <1>2
    <3> HIDE DEF s
    <3> QED
      BY <1>2, <3>1, PopIsSeq
  <2> HIDE DEF r, s, t
  <2>4. \A i \in 1..(p - k) : r[i] = t[i]
    <3>1. ASSUME NEW i \in 1..(p - k) PROVE r[i] = t[i]
      <4>1. i \in 1..p
        BY <1>1
      <4> QED
        BY <1>2, <2>2, <2>3, <4>1
    <3> QED
      BY <3>1
  <2>5. r = t
    BY <2>2, <2>3, <2>4, SameInts
  <2> QED
    BY <2>5 DEF r, t
<1>4. ASSUME NEW k \in 1..p PROVE FromTop(s, k) = mem[p - k] /\ mem[p - k] \in Int
  <2>1. p - k + 1 \in 1..p /\ (p - k + 1) - 1 = p - k /\ p - k \in 0..(size - 1)
    BY <1>1
  <2> HIDE DEF s
  <2> QED
    BY <1>2, <2>1 DEF FromTop, Memories
<1> QED
  BY <1>3, <1>4

\* Moving elements down over dropped ones, wherever it is done.
LEMMA MovedDown ==
    ASSUME NEW size \in Nat, NEW mem \in Memories(size), NEW new \in Memories(size),
           NEW p \in 0..size, NEW start \in 0..p, NEW amount \in 0..start,
           \A a \in 0..(p - amount - 1) :
              new[a] = IF a < p - start THEN mem[a] ELSE mem[a + amount]
    PROVE  Held(new, 0, p - amount) = RemoveRange(Held(mem, 0, p), start, amount)
<1> DEFINE dst == p - start
           s == Held(mem, 0, p)
           t == Held(new, 0, p - amount)
           kept == RemoveRange(s, start, amount)
<1>1. p \in Nat /\ dst \in Nat /\ start \in Nat /\ amount \in Nat /\ p - amount \in 0..size
  OBVIOUS
<1>2. s \in Seq(Int) /\ Len(s) = p /\ \A i \in 1..p : s[i] = mem[i - 1]
  BY HeldFromBase
<1>3. t \in Seq(Int) /\ Len(t) = p - amount /\ \A i \in 1..(p - amount) : t[i] = new[i - 1]
  BY <1>1, HeldFromBase
<1> HIDE DEF s, t
<1>4. /\ kept \in Seq(Int) /\ Len(kept) = p - amount
      /\ \A i \in 1..(p - amount) : kept[i] = IF i <= dst THEN s[i] ELSE s[i + amount]
  <2>1. start \in 0..Len(s) /\ Len(s) - start = dst
    BY <1>2
  <2> QED
    BY <1>2, <2>1, RemoveRangeIsSeq
<1> HIDE DEF kept
<1>5. ASSUME NEW i \in 1..(p - amount) PROVE t[i] = kept[i]
  <2>1. /\ i - 1 \in 0..(p - amount - 1) /\ i \in 1..p
        /\ ~ (i <= dst) => i + amount \in 1..p
        /\ i - 1 < dst <=> i <= dst
        /\ (i - 1) + amount = (i + amount) - 1
    BY <1>1
  <2>2. t[i] = IF i - 1 < dst THEN mem[i - 1] ELSE mem[(i - 1) + amount]
    BY <1>3, <2>1
  <2> HIDE DEF dst
  <2> QED
    BY <1>2, <1>4, <2>1, <2>2
<1> QED
  BY <1>3, <1>4, <1>5, SameInts DEF s, t, kept

-----------------------------------------------------------------------------
(* Where a block's terminator leads.                                       *)

LEMMA TargetsAhead ==
    ASSUME NEW f, IsCode(f), NEW s, NEW e, IsBlock(f, s, e),
           NEW t \in DOMAIN Terminator(f, s, e).targets
    PROVE  /\ Terminator(f, s, e).targets[t] \in Places(f)
           /\ Terminator(f, s, e).targets[t] \in e..(Len(f) + 1)
<1> DEFINE n == Len(f)
           targets == Terminator(f, s, e).targets
<1>1. s \in Nat /\ e \in Nat /\ s < e /\ e <= n /\ n \in Nat
  BY BlockBounds
<1>2. targets[t] \in Places(f)
  BY TargetsArePlaces DEF IsCode, IsBlock
<1>3. \A k \in Nat : Target(f, e + k) \in e..(n + 1)
  BY <1>1 DEF Target, MinInt
<1>4. Target(f, e) \in e..(n + 1)
  BY <1>1 DEF Target, MinInt
<1>5. CASE At(f, e - 1).op = "if"
  <2>1. targets = <<Target(f, e), Target(f, e + 3)>>
    BY <1>5 DEF Terminator, ControlOps, EndsInConstSkip
  <2> HIDE DEF targets
  <2> QED
    BY <1>2, <1>3, <1>4, <2>1 DEF targets
<1>6. CASE EndsInConstSkip(f, s, e)
  <2>1. At(f, e - 1).op = "skip" /\ e - 2 >= s /\ ConstLitAt(f, e - 2)
    BY <1>6 DEF EndsInConstSkip
  <2>2. At(f, e - 2).n \in Nat
    <3>1. e - 2 \in 0..(n - 1)
      BY <1>1, <2>1
    <3> QED
      BY <2>1, <3>1, ParsedAt DEF IsCode
  <2>3. targets = <<Target(f, e + At(f, e - 2).n)>>
    BY <1>6, <2>1 DEF Terminator, ControlOps
  <2> HIDE DEF targets
  <2> QED
    BY <1>2, <1>3, <2>2, <2>3 DEF targets
<1>7. CASE At(f, e - 1).op = "skip" /\ ~ EndsInConstSkip(f, s, e)
  <2>1. targets = [u \in 1..(n - e + 1) |-> e + u - 1]
    BY <1>7 DEF Terminator, ControlOps
  <2>2. t \in 1..(n - e + 1)
    BY <2>1
  <2>3. e + t - 1 \in e..(n + 1)
    BY <1>1, <2>2
  <2> HIDE DEF targets
  <2> QED
    BY <1>2, <2>1, <2>2, <2>3 DEF targets
<1>8. CASE At(f, e - 1).op \notin ControlOps
  <2>1. targets = <<Target(f, e)>>
    BY <1>8 DEF Terminator, ControlOps, EndsInConstSkip
  <2> HIDE DEF targets
  <2> QED
    BY <1>2, <1>4, <2>1 DEF targets
<1> QED
  BY <1>5, <1>6, <1>7, <1>8 DEF ControlOps

\* A block falls through to the one behind it, or ends in its control op.
LEMMA JumpHasTarget ==
    ASSUME NEW f, NEW s, NEW e, Terminator(f, s, e).kind = "jump"
    PROVE  1 \in DOMAIN Terminator(f, s, e).targets
<1>1. CASE At(f, e - 1).op = "if"
  BY <1>1 DEF Terminator, ControlOps, EndsInConstSkip
<1>2. CASE EndsInConstSkip(f, s, e)
  BY <1>2 DEF Terminator, ControlOps, EndsInConstSkip
<1>3. CASE At(f, e - 1).op = "skip" /\ ~ EndsInConstSkip(f, s, e)
  BY <1>3 DEF Terminator, ControlOps
<1>4. CASE At(f, e - 1).op \notin ControlOps
  BY <1>4 DEF Terminator, ControlOps, EndsInConstSkip
<1> QED
  BY <1>1, <1>2, <1>3, <1>4 DEF ControlOps

\* Where LocAt is, the next thing to do of a block is.
LEMMA LocAtIsPlaced ==
    ASSUME NEW f, IsCode(f), NEW g, g = GraphOf(f), NEW j \in 0..Len(f),
           NEW l, l = LocAt(f, j), l < Len(f)
    PROVE  /\ l \in LocsOf(f, g, BlockIn(g, l)) /\ BlockIn(g, l) = StartAt(f, j)
           /\ j < Len(f)
<1> DEFINE s == StartAt(f, j)
           e == EndAt(f, j)
<1>1. Len(f) \in Nat
  BY LenOfCode
<1>2. j \in 0..(Len(f) - 1)
  BY <1>1 DEF LocAt
<1>3. IsBlock(f, s, e) /\ s <= j /\ j < e
  BY <1>2, BlockAtPosition
<1> HIDE DEF s, e
<1>4. j \in s..(e - 1) /\ s \in Nat
  BY <1>2, <1>3, BlockBounds
<1>5. l \in LocsIn(f, s, e) /\ l \in j..(e - 1)
  BY <1>3, <1>4, LocAtIsFirst
<1>6. l \in s..(e - 1)
  BY <1>4, <1>5
<1>7. BlockIn(g, l) = s /\ LocsOf(f, g, s) = LocsIn(f, s, e)
  BY <1>3, <1>6, BlockInIs, GraphHasBlock
<1> QED
  BY <1>2, <1>5, <1>7 DEF s

=============================================================================
