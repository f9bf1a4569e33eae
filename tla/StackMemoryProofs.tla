------------------------- MODULE StackMemoryProofs -------------------------
(***************************************************************************)
(* The mapped memory is a stack: for any instructions and any capacity     *)
(* StackMemory implements SequenceStack.                                   *)
(*                                                                         *)
(* An instruction that only pops and pushes does the same on its operands  *)
(* alone and on a stack that ends in them (PlainIsLocal); what the memory  *)
(* holds between two addresses is a sequence, and storing and copying are  *)
(* operations on it.                                                       *)
(***************************************************************************)
EXTENDS StackMemory, ClacLemmas

-----------------------------------------------------------------------------
(* Instructions that only pop and push.                                    *)

\* The outcome o on a stack that continues below with u.
Above(u, o) == [tag |-> o.tag, st |-> u \o o.st, n |-> o.n]

LEMMA ArithIsLocal ==
    ASSUME NEW x, "it" \in DOMAIN x => x.it \in ArithOps,
           NEW u \in Seq(Int), NEW v \in Seq(Int), NEW a \in Int, NEW b \in Int,
           NEW o \in ArithOutcomes(x, v, a, b)
    PROVE  Above(u, o) \in ArithOutcomes(x, u \o v, a, b)
<1>1. /\ Above(u, Outcome("panic", v)) = Outcome("panic", u \o v)
      /\ Above(u, Outcome("badexponent", v)) = Outcome("badexponent", u \o v)
  BY DEF Above, Outcome
<1>2. ASSUME NEW w \in Int
      PROVE  Above(u, Executed(Push(v, w))) = Executed(Push(u \o v, w))
  BY TopIsLocal DEF Above, Executed, Outcome
<1>3. CASE "it" \notin DOMAIN x
  <2>1. CASE o \in {Outcome("panic", v), Outcome("badexponent", v)}
    BY <1>1, <1>3, <2>1 DEF ArithOutcomes
  <2>2. CASE \E w \in Values : o = Executed(Push(v, w))
    <3>1. PICK w \in Values : o = Executed(Push(v, w))
      BY <2>2
    <3>2. Above(u, o) = Executed(Push(u \o v, w))
      BY <1>2, <3>1, ValuesAssumption
    <3> QED
      BY <1>3, <3>2 DEF ArithOutcomes
  <2> QED
    BY <1>3, <2>1, <2>2 DEF ArithOutcomes
<1>4. CASE "it" \in DOMAIN x
  <2> DEFINE r == ArithResult(x.it, a, b)
  <2>1. x.it \in ArithOps
    BY <1>4
  <2>2. CASE o = Outcome("panic", v) \/ o = Outcome("badexponent", v)
    <3>1. Outcome("panic", u \o v) # Executed(Push(u \o v, r))
          /\ Outcome("badexponent", u \o v) # Executed(Push(u \o v, r))
          /\ Outcome("panic", v) # Executed(Push(v, r))
          /\ Outcome("badexponent", v) # Executed(Push(v, r))
          /\ Outcome("panic", v) # Outcome("badexponent", v)
      BY DEF Outcome, Executed
    <3> HIDE DEF r
    <3> QED
      BY <1>1, <1>4, <2>1, <2>2, <3>1 DEF ArithOutcomes, ArithOps, r
  <2>3. CASE o = Executed(Push(v, r)) /\ o # Outcome("panic", v) /\ o # Outcome("badexponent", v)
    <3>1. r \in Int
      <4>1. x.it \in {"div", "rem"} => b # 0
        BY <1>4, <2>3 DEF ArithOutcomes
      <4>2. x.it = "pow" => b \in Nat
        <5>1. Exponents \subseteq Nat
          BY DEF Exponents
        <5> QED
          BY <1>4, <2>3, <5>1 DEF ArithOutcomes
      <4> QED
        BY <2>1, <4>1, <4>2, ResultIsInt
    <3>2. Above(u, o) = Executed(Push(u \o v, r))
      BY <1>2, <2>3, <3>1
    <3>3. Executed(Push(u \o v, r)) \in ArithOutcomes(x, u \o v, a, b)
      <4> HIDE DEF r
      <4> QED
        BY <1>4, <2>1, <2>3 DEF ArithOutcomes, ArithOps, r
    <3> QED
      BY <3>2, <3>3
  <2> QED
    BY <1>4, <2>1, <2>2, <2>3 DEF ArithOutcomes, ArithOps
<1> QED
  BY <1>3, <1>4

\* An instruction that only pops and pushes does on u \o v what it does on v,
\* where v has the operands it pops.
LEMMA PlainIsLocal ==
    ASSUME NEW x \in Instr({}), x.op \notin PointerOps,
           NEW u \in Seq(Int), NEW v \in Seq(Int), Len(v) = Pops[x.op],
           NEW o \in Exec(x, v)
    PROVE  Above(u, o) \in Exec(x, u \o v)
<1> DEFINE uv == u \o v
<1>1. /\ uv \in Seq(Int) /\ Len(uv) = Len(u) + Len(v) /\ Len(u) \in Nat /\ Len(v) \in Nat
      /\ \A k \in 0..Len(v) : Pop(uv, k) = u \o Pop(v, k) /\ Pop(v, k) \in Seq(Int)
      /\ \A k \in 1..Len(v) : FromTop(uv, k) = FromTop(v, k) /\ FromTop(v, k) \in Int
      /\ ~ (Len(uv) < Pops[x.op]) /\ ~ (Len(v) < Pops[x.op])
  <2>1. uv \in Seq(Int) /\ Len(uv) = Len(u) + Len(v) /\ Len(u) \in Nat /\ Len(v) \in Nat
    BY TopIsLocal
  <2>2. \A k \in 0..Len(v) : Pop(uv, k) = u \o Pop(v, k) /\ Pop(v, k) \in Seq(Int)
    BY TopIsLocal, PopIsSeq
  <2>3. \A k \in 1..Len(v) : FromTop(uv, k) = FromTop(v, k) /\ FromTop(v, k) \in Int
    BY TopIsLocal, FromTopIsInt
  <2> HIDE DEF uv
  <2>4. ~ (Len(uv) < Len(v)) /\ ~ (Len(v) < Len(v))
    BY <2>1
  <2> QED
    BY <2>1, <2>2, <2>3, <2>4, Zenon
<1> HIDE DEF uv
<1>2. /\ \A s \in Seq(Int) : Above(u, Executed(s)) = Executed(u \o s)
      /\ \A s \in Seq(Int), w \in Int : Above(u, Executed(Push(s, w))) = Executed(Push(u \o s, w))
      /\ \A t : \A s \in Seq(Int) : Above(u, Outcome(t, s)) = Outcome(t, u \o s)
      /\ \A s \in Seq(Int), n \in Int : Above(u, SkipBy(n, s)) = SkipBy(n, u \o s)
  BY TopIsLocal DEF Above, Executed, Outcome, SkipBy
<1>3. CASE x.op \in {"lit", "width", "quit"}
  <2>1. ~ FailsEarly(x, v) /\ ~ FailsEarly(x, uv)
    BY <1>3 DEF FailsEarly
  <2>2. Push(uv, WidthNative) = u \o Push(v, WidthNative) /\ WidthNative \in Int
    BY TopIsLocal DEF uv, WidthNative
  <2>3. CASE x.op = "lit"
    <3>1. x.n \in Int
      BY <2>3 DEF Instr, ParsedInstr, ResolvedInstr, FixedOps, ArithOps
    <3> QED
      BY <1>1, <1>2, <2>1, <2>3, <3>1 DEF Exec, uv
  <2>4. CASE x.op = "width"
    BY <1>1, <1>2, <2>1, <2>2, <2>4 DEF Exec, uv
  <2>5. CASE x.op = "quit"
    BY <1>1, <1>2, <2>1, <2>5 DEF Exec, uv
  <2> QED
    BY <1>3, <2>3, <2>4, <2>5
<1>4. CASE x.op \in {"print", "drop", "if", "skip", "read"}
  <2>1. ~ FailsEarly(x, v) /\ ~ FailsEarly(x, uv)
    BY <1>4 DEF FailsEarly
  <2>2. /\ Pop(uv, 1) = u \o Pop(v, 1) /\ Pop(v, 1) \in Seq(Int)
        /\ FromTop(uv, 1) = FromTop(v, 1) /\ FromTop(v, 1) \in Int
    <3>1. Len(v) = 1
      BY <1>4 DEF Pops
    <3> QED
      BY <1>1, <3>1
  <2>3. CASE x.op \in {"print", "drop"}
    BY <1>1, <1>2, <2>1, <2>2, <2>3 DEF Exec, uv
  <2>4. CASE x.op = "if"
    <3>1. Exec(x, v) = {IF FromTop(v, 1) = 0 THEN SkipBy(3, Pop(v, 1)) ELSE Executed(Pop(v, 1))}
      BY <1>1, <2>1, <2>4 DEF Exec
    <3>2. Exec(x, uv) = {IF FromTop(v, 1) = 0 THEN SkipBy(3, Pop(uv, 1)) ELSE Executed(Pop(uv, 1))}
      BY <1>1, <2>1, <2>2, <2>4 DEF Exec
    <3>3. Above(u, SkipBy(3, Pop(v, 1))) = SkipBy(3, Pop(uv, 1))
      BY <2>2 DEF Above, SkipBy
    <3> QED
      BY <1>2, <2>2, <3>1, <3>2, <3>3 DEF uv
  <2>5. CASE x.op = "skip"
    BY <1>1, <1>2, <2>1, <2>2, <2>5 DEF Exec, uv
  <2>6. CASE x.op = "read"
    <3>1. PICK w \in Values : o = Executed(Push(Pop(v, 1), w))
      BY <1>1, <2>1, <2>6 DEF Exec
    <3>2. Above(u, o) = Executed(Push(Pop(uv, 1), w))
      BY <1>2, <2>2, <3>1, ValuesAssumption
    <3> QED
      BY <1>1, <2>1, <2>6, <3>2 DEF Exec, uv
  <2> QED
    BY <1>4, <2>3, <2>4, <2>5, <2>6
<1>5. CASE x.op \in {"swap", "arith", "write", "write8"}
  <2>1. /\ Len(v) = 2
        /\ Pop(uv, 1) = u \o Pop(v, 1) /\ Pop(v, 1) \in Seq(Int)
        /\ Pop(uv, 2) = u \o Pop(v, 2) /\ Pop(v, 2) \in Seq(Int)
        /\ FromTop(uv, 1) = FromTop(v, 1) /\ FromTop(v, 1) \in Int
        /\ FromTop(uv, 2) = FromTop(v, 2) /\ FromTop(v, 2) \in Int
    <3>1. Len(v) = 2
      BY <1>5 DEF Pops
    <3>2. 1 \in 0..Len(v) /\ 2 \in 0..Len(v) /\ 1 \in 1..Len(v) /\ 2 \in 1..Len(v)
      BY <3>1
    <3> QED
      BY <1>1, <3>1, <3>2, Zenon
  <2>2. FailsEarly(x, uv) <=> FailsEarly(x, v)
    BY <1>1, <1>5, <2>1 DEF FailsEarly
  <2>3. CASE FailsEarly(x, v)
    <3>1. x.op = "write8"
      BY <1>5, <2>3 DEF FailsEarly
    <3> QED
      BY <1>2, <2>1, <2>2, <2>3, <3>1 DEF Exec, uv
  <2>4. CASE ~ FailsEarly(x, v) /\ x.op \in {"write", "write8"}
    BY <1>1, <1>2, <2>1, <2>2, <2>4 DEF Exec, uv
  <2>5. CASE ~ FailsEarly(x, v) /\ x.op = "swap"
    <3> DEFINE top == <<FromTop(v, 1), FromTop(v, 2)>>
    <3>1. top \in Seq(Int)
      BY <2>1
    <3>2. o = Executed(Pop(v, 2) \o top)
      BY <1>1, <2>5 DEF Exec
    <3>3. Exec(x, uv) = {Executed(Pop(uv, 2) \o top)}
      BY <1>1, <2>1, <2>2, <2>5 DEF Exec
    <3> HIDE DEF top
    <3>4. Pop(v, 2) \o top \in Seq(Int) /\ Pop(uv, 2) \o top = u \o (Pop(v, 2) \o top)
      <4> DEFINE q == Pop(v, 2)
      <4>1. q \in Seq(Int) /\ Pop(uv, 2) = u \o q
        BY <2>1
      <4> HIDE DEF q
      <4>2. q \o top \in Seq(Int) /\ (u \o q) \o top = u \o (q \o top)
        BY <3>1, <4>1, ConcatInts
      <4> QED
        BY <4>1, <4>2 DEF q
    <3> QED
      BY <1>2, <3>2, <3>3, <3>4 DEF uv
  <2>6. CASE ~ FailsEarly(x, v) /\ x.op = "arith"
    <3>1. o \in ArithOutcomes(x, Pop(v, 2), FromTop(v, 2), FromTop(v, 1))
      BY <1>1, <2>6 DEF Exec
    <3>2. "it" \in DOMAIN x => x.it \in ArithOps
      BY <2>6 DEF Instr, ParsedInstr, ResolvedInstr, FixedOps, ArithOps
    <3>3. Above(u, o) \in ArithOutcomes(x, Pop(uv, 2), FromTop(uv, 2), FromTop(uv, 1))
      BY <2>1, <3>1, <3>2, ArithIsLocal
    <3> QED
      BY <1>1, <2>2, <2>6, <3>3 DEF Exec, uv
  <2> QED
    BY <1>5, <2>3, <2>4, <2>5, <2>6
<1>6. CASE x.op = "rot"
  <2>1. ~ FailsEarly(x, v) /\ ~ FailsEarly(x, uv) /\ Len(v) = 3
    BY <1>6 DEF FailsEarly, Pops
  <2>2. /\ Pop(uv, 3) = u \o Pop(v, 3) /\ Pop(v, 3) \in Seq(Int)
        /\ FromTop(uv, 1) = FromTop(v, 1) /\ FromTop(v, 1) \in Int
        /\ FromTop(uv, 2) = FromTop(v, 2) /\ FromTop(v, 2) \in Int
        /\ FromTop(uv, 3) = FromTop(v, 3) /\ FromTop(v, 3) \in Int
    <3>1. 3 \in 0..Len(v) /\ 1 \in 1..Len(v) /\ 2 \in 1..Len(v) /\ 3 \in 1..Len(v)
      BY <2>1
    <3> QED
      BY <1>1, <3>1, Zenon
  <2> DEFINE top == <<FromTop(v, 2), FromTop(v, 1), FromTop(v, 3)>>
  <2>3. top \in Seq(Int)
    BY <2>2
  <2>4. o = Executed(Pop(v, 3) \o top)
    BY <1>1, <1>6, <2>1 DEF Exec
  <2>5. Exec(x, uv) = {Executed(Pop(uv, 3) \o top)}
    BY <1>1, <1>6, <2>1, <2>2 DEF Exec
  <2> HIDE DEF top
  <2>6. Pop(v, 3) \o top \in Seq(Int) /\ Pop(uv, 3) \o top = u \o (Pop(v, 3) \o top)
    <3> DEFINE q == Pop(v, 3)
    <3>1. q \in Seq(Int) /\ Pop(uv, 3) = u \o q
      BY <2>2
    <3> HIDE DEF q
    <3>2. q \o top \in Seq(Int) /\ (u \o q) \o top = u \o (q \o top)
      BY <2>3, <3>1, ConcatInts
    <3> QED
      BY <3>1, <3>2 DEF q
  <2> QED
    BY <1>2, <2>4, <2>5, <2>6 DEF uv
<1>7. CASE x.op = "syscall"
  <2>1. ~ FailsEarly(x, v) /\ ~ FailsEarly(x, uv) /\ Len(v) = 7
    BY <1>7 DEF FailsEarly, Pops
  <2>2. Pop(uv, 7) = u \o Pop(v, 7) /\ Pop(v, 7) \in Seq(Int)
    <3>1. 7 \in 0..Len(v)
      BY <2>1
    <3> QED
      BY <1>1, <3>1, Zenon
  <2>3. PICK w \in Values : o = Executed(Push(Pop(v, 7), w))
    BY <1>1, <1>7, <2>1 DEF Exec
  <2>4. Above(u, o) = Executed(Push(Pop(uv, 7), w))
    BY <1>2, <2>2, <2>3, ValuesAssumption
  <2> QED
    BY <1>1, <1>7, <2>1, <2>4 DEF Exec, uv
<1> QED
  BY <1>3, <1>4, <1>5, <1>6, <1>7
  DEF Instr, ParsedInstr, ResolvedInstr, FixedOps, ArithOps, PointerOps

-----------------------------------------------------------------------------
(* The memory.                                                             *)

Memory == Memories(Capacity)

LEMMA StoredIsPushed ==
    ASSUME NEW mem \in Memory, NEW p \in Nat, NEW vs \in Seq(Int), p + Len(vs) <= Capacity
    PROVE  /\ Stored(mem, p, vs) \in Memory
           /\ Held(Stored(mem, p, vs), 0, p + Len(vs)) = Held(mem, 0, p) \o vs
<1> DEFINE new == Stored(mem, p, vs)
           n == Len(vs)
<1>1. n \in Nat /\ Capacity \in Nat /\ p \in 0..Capacity /\ p + n \in 0..Capacity /\ 0 \in Nat
  BY CapacityAssumption
<1>2. \A a \in 0..(Capacity - 1) :
         new[a] = IF a \in p..(p + n - 1) THEN vs[a - p + 1] ELSE mem[a]
  BY DEF Stored, Memory, Memories
<1>3. new \in Memory
  <2>1. ASSUME NEW a \in p..(p + n - 1) PROVE vs[a - p + 1] \in Int
    <3>1. a - p + 1 \in 1..n
      BY <1>1
    <3> QED
      BY <3>1
  <2> QED
    BY <2>1 DEF Stored, Memory, Memories
<1> HIDE DEF new
<1> DEFINE s == Held(new, 0, p + n)
           t == Held(mem, 0, p)
<1>4. s \in Seq(Int) /\ Len(s) = p + n /\ \A i \in 1..(p + n) : s[i] = new[i - 1]
  BY <1>1, <1>3, HeldFromBase, CapacityAssumption DEF Memory
<1>5. t \in Seq(Int) /\ Len(t) = p /\ \A i \in 1..p : t[i] = mem[i - 1]
  BY <1>1, HeldFromBase, CapacityAssumption DEF Memory
<1> HIDE DEF s, t
<1>6. /\ t \o vs \in Seq(Int) /\ Len(t \o vs) = p + n
      /\ \A i \in 1..(p + n) : (t \o vs)[i] = IF i <= p THEN t[i] ELSE vs[i - p]
  BY <1>5, ConcatProperties
<1> HIDE DEF n
<1>7. ASSUME NEW i \in 1..(p + n) PROVE s[i] = (t \o vs)[i]
  <2>1. s[i] = IF i - 1 \in p..(p + n - 1) THEN vs[(i - 1) - p + 1] ELSE mem[i - 1]
    <3>1. i - 1 \in 0..(Capacity - 1)
      BY <1>1
    <3> QED
      BY <1>2, <1>4, <3>1
  <2>2. CASE i <= p
    BY <1>1, <1>5, <1>6, <2>1, <2>2
  <2>3. CASE ~ (i <= p)
    <3>1. i - 1 \in p..(p + n - 1) /\ (i - 1) - p + 1 = i - p
      BY <1>1, <2>3
    <3> QED
      BY <1>6, <2>1, <2>3, <3>1
  <2> QED
    BY <2>2, <2>3
<1>8. s = t \o vs
  BY <1>4, <1>6, <1>7, SameInts
<1> QED
  BY <1>3, <1>8 DEF s, t, n, new

\* The memmove of a drop_range.
LEMMA CopiedIsRemoved ==
    ASSUME NEW mem \in Memory, NEW p \in 0..Capacity, NEW start \in 0..p, NEW amount \in 0..start
    PROVE  LET new == Copied(mem, p - start + amount, p - start, start - amount)
           IN /\ new \in Memory
              /\ Held(new, 0, p - amount) = RemoveRange(Held(mem, 0, p), start, amount)
<1> DEFINE dst == p - start
           src == dst + amount
           new == Copied(mem, src, dst, start - amount)
           s == Held(mem, 0, p)
<1>1. Capacity \in Nat /\ p \in Nat /\ dst \in Nat /\ src \in Nat /\ 0 \in Nat
      /\ start \in Nat /\ amount \in Nat /\ p - amount \in 0..Capacity
  BY CapacityAssumption
<1>2. \A a \in 0..(Capacity - 1) :
         new[a] = IF a \in dst..(dst + (start - amount) - 1) THEN mem[src + a - dst] ELSE mem[a]
  BY DEF Copied, Memory, Memories
<1>3. new \in Memory
  <2>1. ASSUME NEW a \in dst..(dst + (start - amount) - 1) PROVE mem[src + a - dst] \in Int
    <3>1. src + a - dst \in 0..(Capacity - 1)
      BY <1>1
    <3> QED
      BY <3>1 DEF Memory, Memories
  <2> HIDE DEF src, dst
  <2> QED
    BY <2>1 DEF Copied, Memory, Memories
<1> HIDE DEF new
<1>4. ASSUME NEW a \in 0..(p - amount - 1)
      PROVE  new[a] = IF a < p - start THEN mem[a] ELSE mem[a + amount]
  <2>1. /\ a \in 0..(Capacity - 1)
        /\ a \in dst..(dst + (start - amount) - 1) <=> ~ (a < p - start)
        /\ src + a - dst = a + amount
    BY <1>1
  <2> HIDE DEF src, dst
  <2> QED
    BY <1>2, <2>1
<1>5. Held(new, 0, p - amount) = RemoveRange(s, start, amount)
  BY <1>3, <1>4, MovedDown, CapacityAssumption DEF Memory
<1> QED
  BY <1>3, <1>5 DEF new

-----------------------------------------------------------------------------
(* The steps.                                                              *)

\* What an instruction x may leave is reached: by the memory, or by overrunning
\* the mapping where it does not fit, or by an access before the mapping or a
\* pointer below it where x goes below the stack.
LEMMA StepReaches ==
    ASSUME Defined, rsp \in Nat, NEW x \in Instrs, NEW q \in Exec(x, Held(data, 0, rsp)),
           \/ /\ Len(q.st) > Capacity
              /\ Overruns
           \/ /\ ~ (Len(q.st) > Capacity) /\ rsp' \in Nat
              /\ status' = q.tag /\ Held(data', 0, rsp') = q.st
           \/ /\ ~ (Len(q.st) > Capacity) /\ q.tag = "wild"
              /\ status' = "wild" \/ (rsp' \in Int /\ rsp' < 0)
    PROVE  Sequence!Step
<1> DEFINE mapped == IF rsp < 0 THEN "wild" ELSE status
<1>1. mapped = status /\ mapped \notin Final
  BY DEF Defined
<1>2. CASE Len(q.st) > Capacity /\ Overruns
  <2>1. status' = "overrun" /\ rsp' = rsp /\ data' = data
    BY <1>2 DEF Overruns, Ends
  <2>2. mapped' = "overrun"
    BY <2>1
  <2> QED
    BY <1>1, <1>2, <2>1, <2>2 DEF Sequence!Step, Sequence!Final, Final, Elements, Held
<1>3. CASE ~ (Len(q.st) > Capacity) /\ rsp' \in Nat /\ status' = q.tag /\ Held(data', 0, rsp') = q.st
  <2>1. mapped' = q.tag
    BY <1>3
  <2> QED
    BY <1>1, <1>3, <2>1 DEF Sequence!Step, Sequence!Final, Final, Elements, Held
<1>4. CASE /\ ~ (Len(q.st) > Capacity) /\ q.tag = "wild"
           /\ status' = "wild" \/ (rsp' \in Int /\ rsp' < 0)
  <2>1. mapped' = "wild"
    BY <1>4
  <2> QED
    BY <1>1, <1>4, <2>1 DEF Sequence!Step, Sequence!Final, Final, Elements, Held
<1> QED
  BY <1>2, <1>3, <1>4

\* From below the base no sequence is reached again.
LEMMA StaysBelow ==
    ASSUME rsp \in Int, rsp < 0, rsp' \in Int, rsp' < 0
    PROVE  UNCHANGED Sequence!vars
<1>1. 1..(rsp - 0) = {} /\ 1..(rsp' - 0) = {}
  <2>1. \A k \in Int : k < 0 => 1..(k - 0) = {}
    OBVIOUS
  <2> QED
    BY <2>1
<1>2. Elements(0, rsp) = [i \in {} |-> data[0 + i - 1]] /\ Elements(0, rsp)' = [i \in {} |-> data'[0 + i - 1]]
  BY <1>1 DEF Elements
<1>3. Elements(0, rsp)' = Elements(0, rsp)
  BY <1>2
<1> QED
  BY <1>3 DEF Sequence!vars

LEMMA StatusTypes ==
    \A t \in Tags : t \in {"executed", "skip", "missing", "badskip", "badpick", "baddrop",
                           "badexponent"} \cup Final
BY DEF Tags, Final

LEMMA PlainStep ==
    ASSUME TypeOK, NEW x \in Instrs, StepPlain(x) PROVE TypeOK' /\ Sequence!Step
<1> DEFINE pops  == IF Pops[x.op] <= rsp THEN Pops[x.op] ELSE rsp
           under == rsp - pops
           u == Held(data, 0, under)
           v == Held(data, under, rsp)
<1>1. PICK o \in Exec(x, v) :
         IF under + Len(o.st) > Capacity THEN Overruns
         ELSE /\ data' = Stored(data, under, o.st)
              /\ rsp' = under + Len(o.st)
              /\ status' = o.tag
  BY DEF StepPlain, Elements, Held
<1>2. x \in Instr({}) /\ x.op # "call" /\ x.op \notin PointerOps /\ Pops[x.op] \in Nat
  <2>1. x \in Instr({}) /\ x.op \notin PointerOps
    BY InstrsAssumption DEF StepPlain
  <2> QED
    BY <2>1 DEF Instr, ParsedInstr, ResolvedInstr, FixedOps, ArithOps, PointerOps, Pops
<1>3. /\ data \in Memory /\ data \in Memories(Capacity)
      /\ rsp \in 0..Capacity /\ rsp \in Nat /\ Capacity \in Nat
      /\ under \in 0..rsp /\ under \in Nat /\ rsp \in under..Capacity
      /\ under \in 0..Capacity
  BY <1>2, CapacityAssumption DEF StepPlain, TypeOK, Memory, Memories
<1>4. /\ u \in Seq(Int) /\ Len(u) = under /\ v \in Seq(Int) /\ Len(v) = rsp - under
      /\ Held(data, 0, rsp) = u \o v
  <2>1. u \in Seq(Int) /\ Len(u) = under
    BY <1>3, HeldFromBase
  <2>2. v \in Seq(Int) /\ Len(v) = rsp - under
    BY <1>3, HeldIsSeq
  <2>3. Held(data, 0, rsp) = u \o v
    BY <1>3, HeldSplits
  <2> QED
    BY <2>1, <2>2, <2>3
<1>5. OutcomeOK(o)
  <2> HIDE DEF v
  <2> QED
    BY <1>2, <1>4, ExecOK
<1>6. o.st \in Seq(Int) /\ Len(o.st) \in Nat /\ o.tag \in Tags
  BY <1>5 DEF OutcomeOK
<1>7. \E q \in Exec(x, Held(data, 0, rsp)) : q.tag = o.tag /\ q.st = u \o o.st
  <2>1. CASE Pops[x.op] <= rsp
    <3>1. Len(v) = Pops[x.op]
      BY <1>2, <1>3, <1>4, <2>1
    <3> HIDE DEF u, v
    <3>2. Above(u, o) \in Exec(x, u \o v)
      BY <1>2, <1>4, <3>1, PlainIsLocal
    <3>3. Above(u, o).tag = o.tag /\ Above(u, o).st = u \o o.st
      BY DEF Above
    <3> QED
      BY <1>4, <3>2, <3>3
  <2>2. CASE ~ (Pops[x.op] <= rsp)
    <3>1. under = 0
      BY <1>3, <2>2
    <3>2. u = << >>
      BY <1>4, <3>1, EmptySeq
    <3>3. v = Held(data, 0, rsp) /\ u \o o.st = o.st
      BY <1>6, <3>1, <3>2, ConcatEmptySeq
    <3> HIDE DEF u, v
    <3> QED
      BY <3>3
  <2> QED
    BY <2>1, <2>2
<1>8. PICK q \in Exec(x, Held(data, 0, rsp)) : q.tag = o.tag /\ q.st = u \o o.st
  BY <1>7
<1> HIDE DEF u, v
<1>9. Len(q.st) = under + Len(o.st)
  <2>1. Len(u \o o.st) = Len(u) + Len(o.st)
    BY <1>4, <1>6, ConcatProperties
  <2> QED
    BY <1>4, <1>8, <2>1
<1> HIDE DEF under, pops
<1>10. CASE under + Len(o.st) > Capacity
  <2>1. Overruns
    BY <1>1, <1>10
  <2>2. Sequence!Step
    BY <1>3, <1>8, <1>9, <1>10, <2>1, StepReaches DEF StepPlain
  <2>3. TypeOK'
    BY <2>1 DEF TypeOK, Overruns, Ends, Final
  <2> QED
    BY <2>2, <2>3
<1>11. CASE ~ (under + Len(o.st) > Capacity)
  <2>1. /\ data' = Stored(data, under, o.st) /\ rsp' = under + Len(o.st) /\ status' = o.tag
        /\ under + Len(o.st) \in 0..Capacity /\ rsp' \in Nat
    BY <1>1, <1>3, <1>6, <1>11
  <2>2. /\ Stored(data, under, o.st) \in Memory
        /\ Held(Stored(data, under, o.st), 0, under + Len(o.st)) = u \o o.st
    <3>1. under + Len(o.st) <= Capacity
      BY <1>3, <2>1
    <3> QED
      BY <1>3, <1>6, <3>1, StoredIsPushed DEF u
  <2>3. Sequence!Step
    BY <1>3, <1>8, <1>9, <1>11, <2>1, <2>2, StepReaches DEF StepPlain
  <2>4. TypeOK'
    BY <1>6, <2>1, <2>2, StatusTypes DEF TypeOK, Memory, Memories
  <2> QED
    BY <2>3, <2>4
<1> QED
  BY <1>10, <1>11

\* A pick and a drop_range of what is below the pointer p, where that is what
\* the instruction x comes to.
LEMMA PickStep ==
    ASSUME TypeOK, Defined, rsp \in Nat, NEW x \in Instrs, NEW p \in 0..Capacity,
           NEW n \in Nat \ {0},
           PickAt(p, n), PickFrom(Held(data, 0, p), n) \in Exec(x, Held(data, 0, rsp))
    PROVE  TypeOK' /\ Sequence!Step
<1> DEFINE st == Held(data, 0, p)
           q == PickFrom(st, n)
<1>1. data \in Memory /\ p \in Nat /\ Capacity \in Nat /\ 0 \in 0..Capacity
  BY CapacityAssumption DEF TypeOK, Memory, Memories
<1>2. st \in Seq(Int) /\ Len(st) = p
  BY <1>1, HeldFromBase, CapacityAssumption DEF Memory
<1>3. CASE n > p
  <2>1. q.tag = "wild" /\ q.st = << >>
    BY <1>2, <1>3 DEF PickFrom, Outcome
  <2>2. status' = "wild" /\ rsp' = rsp /\ data' = data
    BY <1>3 DEF PickAt, Wild, Ends
  <2>3. ~ (Len(<< >>) > Capacity)
    BY <1>1
  <2> HIDE DEF q
  <2>4. Sequence!Step
    BY <2>1, <2>2, <2>3, StepReaches DEF q
  <2>5. TypeOK'
    BY <1>1, <2>2 DEF TypeOK, Final, Memory, Memories
  <2> QED
    BY <2>4, <2>5
<1>4. CASE ~ (n > p)
  <2> DEFINE w == FromTop(st, n)
  <2>1. w = data[p - n] /\ w \in Int
    <3>1. n \in 1..p
      BY <1>1, <1>4
    <3> QED
      BY <1>1, <3>1, HeldTop, CapacityAssumption DEF Memory
  <2>2. q.tag = "executed" /\ q.st = Append(st, w)
    BY <1>2, <1>4 DEF PickFrom, Executed, Outcome, Push
  <2> HIDE DEF st, w, q
  <2>3. q.st = st \o <<w>> /\ Len(q.st) = p + 1 /\ <<w>> \in Seq(Int) /\ Len(<<w>>) = 1
    <3>1. Append(st, w) = st \o <<w>> /\ Len(Append(st, w)) = Len(st) + 1
      BY <1>2, <2>1, AppendIsConcat, AppendProperties
    <3>2. <<w>> \in Seq(Int) /\ Len(<<w>>) = 1
      BY <2>1
    <3> QED
      BY <1>2, <2>2, <3>1, <3>2
  <2>4. CASE p = Capacity
    <3>1. Overruns /\ Len(q.st) > Capacity
      BY <1>1, <1>4, <2>3, <2>4 DEF PickAt
    <3>2. Sequence!Step
      BY <3>1, StepReaches DEF q, st
    <3>3. TypeOK'
      BY <3>1 DEF TypeOK, Overruns, Ends, Final
    <3> QED
      BY <3>2, <3>3
  <2>5. CASE p # Capacity
    <3>1. data' = Stored(data, p, <<w>>) /\ rsp' = p + 1 /\ status' = "executed"
      BY <1>4, <2>1, <2>5 DEF PickAt
    <3>2. /\ p + 1 \in 0..Capacity /\ p + 1 \in Nat
          /\ ~ (Len(q.st) > Capacity) /\ p + Len(<<w>>) <= Capacity
      BY <1>1, <2>3, <2>5
    <3>3. /\ Stored(data, p, <<w>>) \in Memory
          /\ Held(Stored(data, p, <<w>>), 0, p + Len(<<w>>)) = st \o <<w>>
      BY <1>1, <2>3, <3>2, StoredIsPushed DEF st
    <3>4. Held(data', 0, rsp') = q.st
      BY <2>3, <3>1, <3>3
    <3>5. Sequence!Step
      BY <2>2, <3>1, <3>2, <3>4, StepReaches DEF q, st
    <3>6. TypeOK'
      BY <3>1, <3>2, <3>3 DEF TypeOK, Memory, Memories
    <3> QED
      BY <3>5, <3>6
  <2> QED
    BY <2>4, <2>5
<1> QED
  BY <1>3, <1>4

\* A copy of no elements, wherever from and to.
LEMMA NothingCopied ==
    ASSUME NEW mem \in Memory, NEW src, NEW dst \in Int, NEW n \in Int, ~ (n > 0)
    PROVE  Copied(mem, src, dst, n) \in Memory
<1>1. dst..(dst + n - 1) = {}
  OBVIOUS
<1> QED
  BY <1>1 DEF Copied, Memory, Memories

LEMMA DropRangeStep ==
    ASSUME TypeOK, Defined, rsp \in Nat, NEW x \in Instrs, NEW p \in 0..Capacity,
           NEW start \in Nat, NEW amount \in 0..start, DropRangeAt(p, start, amount),
           DropRangeFrom(Held(data, 0, p), start, amount) \in Exec(x, Held(data, 0, rsp))
    PROVE  TypeOK' /\ Sequence!Step
<1> DEFINE st == Held(data, 0, p)
           q == DropRangeFrom(st, start, amount)
<1>1. data \in Memory /\ p \in Nat /\ Capacity \in Nat /\ 0 \in 0..Capacity
  BY CapacityAssumption DEF TypeOK, Memory, Memories
<1>2. st \in Seq(Int) /\ Len(st) = p
  BY <1>1, HeldFromBase, CapacityAssumption DEF Memory
<1>3. CASE start > p
  <2>1. q.tag = "wild" /\ q.st = << >>
    BY <1>2, <1>3 DEF DropRangeFrom, Outcome
  <2>2. status' = "wild" \/ (rsp' \in Int /\ rsp' < 0)
    <3>1. p - start < 0
      BY <1>1, <1>3
    <3>2. CASE start - amount > 0
      BY <3>1, <3>2 DEF DropRangeAt, Wild, Ends
    <3>3. CASE ~ (start - amount > 0)
      <4>1. rsp' = p - amount /\ start = amount
        BY <3>3 DEF DropRangeAt
      <4> QED
        BY <3>1, <4>1
    <3> QED
      BY <3>2, <3>3
  <2>3. ~ (Len(<< >>) > Capacity)
    BY <1>1
  <2> HIDE DEF q
  <2>4. Sequence!Step
    BY <2>1, <2>2, <2>3, StepReaches DEF q
  <2>5. TypeOK'
    <3>1. CASE Wild
      BY <3>1 DEF TypeOK, Wild, Ends, Final
    <3>2. CASE ~ Wild
      <4>1. ~ (start - amount > 0 /\ p - start < 0)
        BY <3>2 DEF DropRangeAt
      <4>2. /\ data' = Copied(data, p - start + amount, p - start, start - amount)
            /\ rsp' = p - amount /\ status' = "executed" /\ start = amount
        BY <1>1, <1>3, <4>1 DEF DropRangeAt
      <4>3. data' \in Memory
        BY <1>1, <4>2, NothingCopied
      <4>4. rsp' \in Int /\ rsp' <= Capacity
        BY <1>1, <4>2
      <4> QED
        BY <4>2, <4>3, <4>4 DEF TypeOK, Memory, Memories
    <3> QED
      BY <3>1, <3>2
  <2> QED
    BY <2>4, <2>5
<1>4. CASE ~ (start > p)
  <2> DEFINE new == Copied(data, p - start + amount, p - start, start - amount)
  <2>1. start \in 0..p /\ p - amount \in 0..Capacity /\ start \in 0..Len(st)
    BY <1>1, <1>2, <1>4
  <2>2. q.tag = "executed" /\ q.st = RemoveRange(st, start, amount)
    BY <1>2, <1>4 DEF DropRangeFrom, Executed, Outcome
  <2>3. data' = new /\ rsp' = p - amount /\ status' = "executed" /\ rsp' \in Nat
    BY <1>1, <1>4, <2>1 DEF DropRangeAt
  <2>4. new \in Memory /\ Held(new, 0, p - amount) = RemoveRange(st, start, amount)
    BY <1>1, <2>1, CopiedIsRemoved
  <2> HIDE DEF st, q, new
  <2>5. Len(q.st) = p - amount
    BY <1>2, <2>1, <2>2, RemoveRangeIsSeq
  <2>6. ~ (Len(q.st) > Capacity)
    BY <1>1, <2>1, <2>5
  <2>7. Sequence!Step
    BY <2>2, <2>3, <2>4, <2>6, StepReaches DEF q, st
  <2>8. TypeOK'
    BY <2>1, <2>3, <2>4 DEF TypeOK, Memory, Memories
  <2> QED
    BY <2>7, <2>8
<1> QED
  BY <1>3, <1>4

LEMMA ResolvedStep ==
    ASSUME TypeOK, NEW x \in Instrs, StepResolved(x), rsp >= 0 PROVE TypeOK' /\ Sequence!Step
<1> DEFINE st == Held(data, 0, rsp)
<1>1. /\ Defined /\ x \in Instr({}) /\ x.op \in {"rpick", "rdrop"} /\ rsp \in 0..Capacity
      /\ data \in Memory /\ ~ FailsEarly(x, st) /\ rsp \in Nat /\ Len(st) \in Nat
  <2>1. Defined /\ x \in Instr({}) /\ x.op \in {"rpick", "rdrop"}
    BY InstrsAssumption DEF StepResolved
  <2>2. data \in Memory /\ rsp \in 0..Capacity /\ rsp \in Nat
    BY CapacityAssumption DEF TypeOK, Memory, Memories
  <2>3. ~ FailsEarly(x, st)
    BY <2>1 DEF FailsEarly
  <2>4. Len(st) \in Nat
    BY <2>2, HeldFromBase, CapacityAssumption DEF Memory
  <2> QED
    BY <2>1, <2>2, <2>3, <2>4
<1> HIDE DEF st
<1>2. CASE x.op = "rpick"
  <2>1. x.n \in Nat \ {0} /\ PickAt(rsp, x.n)
    BY <1>1, <1>2 DEF StepResolved, Instr, ParsedInstr, ResolvedInstr, FixedOps, ArithOps
  <2>2. PickFrom(st, x.n) \in Exec(x, st)
    BY <1>1, <1>2 DEF Exec, Pops
  <2> QED
    BY <1>1, <2>1, <2>2, PickStep DEF st
<1>3. CASE x.op = "rdrop"
  <2>1. x.s \in Nat /\ x.a \in 0..x.s /\ DropRangeAt(rsp, x.s, x.a)
    BY <1>1, <1>3 DEF StepResolved, Instr, ParsedInstr, ResolvedInstr, FixedOps, ArithOps
  <2>2. DropRangeFrom(st, x.s, x.a) \in Exec(x, st)
    BY <1>1, <1>3 DEF Exec, Pops
  <2> QED
    BY <1>1, <2>1, <2>2, DropRangeStep DEF st
<1> QED
  BY <1>1, <1>2, <1>3

\* An instruction that fails after its pops leaves what is below the pointer p.
LEMMA FailingStep ==
    ASSUME TypeOK, Defined, rsp \in Nat, NEW x \in Instrs, NEW p \in 0..Capacity, NEW tag \in Tags,
           Ends(tag, p), Outcome(tag, Held(data, 0, p)) \in Exec(x, Held(data, 0, rsp))
    PROVE  TypeOK' /\ Sequence!Step
<1> DEFINE q == Outcome(tag, Held(data, 0, p))
<1>1. status' = tag /\ rsp' = p /\ data' = data /\ p \in Nat /\ p <= Capacity
  BY CapacityAssumption DEF Ends
<1>2. q.tag = tag /\ q.st = Held(data, 0, p)
  BY DEF Outcome
<1>3. ~ (Len(q.st) > Capacity)
  <2>1. data \in Memory /\ Capacity \in Nat
    BY CapacityAssumption DEF TypeOK, Memory, Memories
  <2>2. Len(q.st) = p
    BY <1>2, <2>1, HeldFromBase, CapacityAssumption DEF Memory
  <2> QED
    BY <2>1, <2>2
<1> HIDE DEF q
<1>4. Sequence!Step
  BY <1>1, <1>2, <1>3, StepReaches DEF q
<1>5. TypeOK'
  BY <1>1, StatusTypes DEF TypeOK
<1> QED
  BY <1>4, <1>5

\* The stack of the machine, its pops and its top elements in memory.
LEMMA TopInMemory ==
    ASSUME TypeOK, rsp >= 0
    PROVE  /\ data \in Memory /\ rsp \in 0..Capacity /\ rsp \in Nat /\ Capacity \in Nat
           /\ Len(Held(data, 0, rsp)) = rsp /\ Held(data, 0, 0) = << >>
           /\ rsp > 0 => /\ rsp - 1 \in 0..Capacity /\ data[rsp - 1] \in Int
                         /\ Pop(Held(data, 0, rsp), 1) = Held(data, 0, rsp - 1)
                         /\ FromTop(Held(data, 0, rsp), 1) = data[rsp - 1]
           /\ rsp > 1 => /\ rsp - 2 \in 0..Capacity /\ data[rsp - 2] \in Int
                         /\ Pop(Held(data, 0, rsp), 2) = Held(data, 0, rsp - 2)
                         /\ FromTop(Held(data, 0, rsp), 2) = data[rsp - 2]
<1>1. data \in Memory /\ rsp \in 0..Capacity /\ rsp \in Nat /\ Capacity \in Nat /\ 0 \in 0..Capacity
  BY CapacityAssumption DEF TypeOK, Memory, Memories
<1>2. Len(Held(data, 0, rsp)) = rsp
  BY <1>1, HeldFromBase, CapacityAssumption DEF Memory
<1>3. Held(data, 0, 0) = << >>
  <2>1. Held(data, 0, 0) \in Seq(Int) /\ Len(Held(data, 0, 0)) = 0
    BY <1>1, HeldFromBase, CapacityAssumption DEF Memory
  <2> QED
    BY <2>1, EmptySeq
<1>4. rsp > 0 => 1 \in 0..rsp /\ 1 \in 1..rsp /\ rsp - 1 \in 0..Capacity
  BY <1>1
<1>5. rsp > 1 => 2 \in 0..rsp /\ 2 \in 1..rsp /\ rsp - 2 \in 0..Capacity
  BY <1>1
<1> QED
  BY <1>1, <1>2, <1>3, <1>4, <1>5, HeldTop, CapacityAssumption DEF Memory

LEMMA DynamicPickStep ==
    ASSUME TypeOK, NEW x \in Instrs, StepPick(x) PROVE TypeOK' /\ Sequence!Step
<1> DEFINE st == Held(data, 0, rsp)
<1>1. Defined /\ x.op = "pick" /\ ~ FailsEarly(x, st)
  BY DEF StepPick, FailsEarly
<1> rsp >= 0 /\ rsp \in Nat
  BY DEF StepPick, TypeOK
<1>2. CASE rsp = 0
  <2>1. Ends("missing", 0) /\ 0 \in 0..Capacity /\ "missing" \in Tags
    BY <1>2, TopInMemory DEF StepPick, Tags
  <2>2. Outcome("missing", << >>) \in Exec(x, st)
    <3>1. Len(st) < Pops[x.op]
      BY <1>1, <1>2, TopInMemory DEF Pops
    <3> HIDE DEF st
    <3> QED
      BY <1>1, <3>1 DEF Exec
  <2> QED
    BY <1>1, <2>1, <2>2, TopInMemory, FailingStep
<1>3. CASE rsp # 0
  <2> DEFINE b == data[rsp - 1]
             below == Held(data, 0, rsp - 1)
  <2>1. /\ rsp - 1 \in 0..Capacity /\ b \in Int /\ Pop(st, 1) = below /\ FromTop(st, 1) = b
        /\ ~ (Len(st) < Pops[x.op])
    <3>1. rsp > 0
      BY <1>3, TopInMemory
    <3>2. ~ (Len(st) < Pops[x.op])
      BY <1>1, <3>1, TopInMemory DEF Pops
    <3> QED
      BY <3>1, <3>2, TopInMemory
  <2>2. Exec(x, st) = {IF b <= 0 THEN Outcome("badpick", below) ELSE PickFrom(below, b)}
    <3> HIDE DEF st, b, below
    <3> QED
      BY <1>1, <2>1 DEF Exec
  <2>3. CASE b <= 0
    <3>1. Ends("badpick", rsp - 1) /\ "badpick" \in Tags
      BY <1>3, <2>3 DEF StepPick, Tags
    <3> QED
      BY <1>1, <2>1, <2>2, <2>3, <3>1, FailingStep
  <2>4. CASE ~ (b <= 0)
    <3>1. PickAt(rsp - 1, b) /\ b \in Nat \ {0}
      BY <1>3, <2>1, <2>4 DEF StepPick
    <3> QED
      BY <1>1, <2>1, <2>2, <2>4, <3>1, PickStep
  <2> QED
    BY <2>3, <2>4
<1> QED
  BY <1>2, <1>3

LEMMA DynamicDropRangeStep ==
    ASSUME TypeOK, NEW x \in Instrs, StepDropRange(x) PROVE TypeOK' /\ Sequence!Step
<1> DEFINE st == Held(data, 0, rsp)
           b == data[rsp - 1]
           a == data[rsp - 2]
<1>1. Defined /\ x.op = "droprange"
  BY DEF StepDropRange
<1> rsp >= 0 /\ rsp \in Nat
  BY DEF StepDropRange, TypeOK
<1>2. CASE rsp = 0
  <2>1. Ends("missing", 0) /\ 0 \in 0..Capacity /\ "missing" \in Tags
    BY <1>2, TopInMemory DEF StepDropRange, Tags
  <2>2. Outcome("missing", << >>) \in Exec(x, st)
    <3>1. Len(st) < Pops[x.op] /\ ~ (Len(st) > 0)
      BY <1>1, <1>2, TopInMemory DEF Pops
    <3> HIDE DEF st
    <3> QED
      BY <1>1, <3>1 DEF Exec, FailsEarly
  <2> QED
    BY <1>1, <2>1, <2>2, TopInMemory, FailingStep
<1>3. ASSUME rsp # 0
      PROVE  /\ rsp - 1 \in 0..Capacity /\ b \in Int /\ Pop(st, 1) = Held(data, 0, rsp - 1)
             /\ FromTop(st, 1) = b /\ Len(st) > 0
  <2>1. rsp > 0
    BY <1>3, TopInMemory
  <2> QED
    BY <2>1, TopInMemory
<1>4. CASE rsp # 0 /\ ~ IsUsize(b)
  <2>1. Ends("baddrop", rsp - 1) /\ "baddrop" \in Tags
    BY <1>4 DEF StepDropRange, Tags
  <2>2. Outcome("baddrop", Held(data, 0, rsp - 1)) \in Exec(x, st)
    <3> HIDE DEF st, b
    <3> QED
      BY <1>1, <1>3, <1>4 DEF Exec, FailsEarly
  <2> QED
    BY <1>1, <1>3, <1>4, <2>1, <2>2, FailingStep
<1>5. CASE rsp = 1 /\ IsUsize(b)
  <2>1. Ends("missing", 0) /\ 0 \in 0..Capacity /\ "missing" \in Tags
    BY <1>5, TopInMemory DEF StepDropRange, Tags
  <2>2. Outcome("missing", << >>) \in Exec(x, st)
    <3>1. Len(st) < Pops[x.op] /\ FromTop(st, 1) = b
      <4>1. FromTop(st, 1) = b /\ Len(st) = 1
        BY <1>3, <1>5, TopInMemory
      <4> HIDE DEF st
      <4> QED
        BY <1>1, <4>1 DEF Pops
    <3> HIDE DEF st, b
    <3> QED
      BY <1>1, <1>5, <3>1 DEF Exec, FailsEarly
  <2> QED
    BY <1>1, <2>1, <2>2, TopInMemory, FailingStep
<1>6. CASE rsp # 0 /\ rsp # 1 /\ IsUsize(b)
  <2> DEFINE below == Held(data, 0, rsp - 2)
  <2>1. /\ rsp - 2 \in 0..Capacity /\ a \in Int /\ b \in Nat /\ Pop(st, 2) = below
        /\ FromTop(st, 1) = b /\ FromTop(st, 2) = a /\ ~ (Len(st) < Pops[x.op])
    <3>1. rsp > 1
      BY <1>6, TopInMemory
    <3>2. ~ (Len(st) < Pops[x.op])
      BY <1>1, <3>1, TopInMemory DEF Pops
    <3>3. b \in Nat
      BY <1>3, <1>6 DEF IsUsize
    <3> QED
      BY <1>3, <3>1, <3>2, <3>3, TopInMemory
  <2>2. Exec(x, st) = {IF a < 0 \/ b > a THEN Outcome("baddrop", below)
                       ELSE DropRangeFrom(below, a, b)}
    <3> HIDE DEF st, b, a, below
    <3> QED
      BY <1>1, <1>6, <2>1 DEF Exec, FailsEarly
  <2>3. CASE a < 0 \/ b > a
    <3>1. Ends("baddrop", rsp - 2) /\ "baddrop" \in Tags
      BY <1>6, <2>1, <2>3 DEF StepDropRange, Tags, IsUsize
    <3> QED
      BY <1>1, <2>1, <2>2, <2>3, <3>1, FailingStep
  <2>4. CASE ~ (a < 0 \/ b > a)
    <3>1. DropRangeAt(rsp - 2, a, b) /\ a \in Nat /\ b \in 0..a
      BY <1>6, <2>1, <2>4 DEF StepDropRange, IsUsize
    <3> QED
      BY <1>1, <2>1, <2>2, <2>4, <3>1, DropRangeStep
  <2> QED
    BY <2>3, <2>4
<1> QED
  BY <1>2, <1>4, <1>5, <1>6

-----------------------------------------------------------------------------
(* The theorems.                                                           *)

\* Below the base no instruction brings the pointer back.
LEMMA BelowStep ==
    ASSUME TypeOK, NEW x \in Instrs, rsp < 0, StepResolved(x) \/ StepBelow(x)
    PROVE  TypeOK' /\ UNCHANGED Sequence!vars
<1>1. x \in Instr({}) /\ rsp \in Int /\ data \in Memory /\ Capacity \in Nat
  BY InstrsAssumption, CapacityAssumption DEF TypeOK, Memory, Memories
<1>2. CASE \E tag \in {"quit", "wild"} : Ends(tag, rsp)
  <2>1. data' = data /\ rsp' = rsp /\ status' \in {"quit", "wild"}
    BY <1>2 DEF Ends
  <2> QED
    BY <1>1, <2>1, StaysBelow DEF TypeOK, Final
<1>3. CASE StepBelow(x)
  BY <1>2, <1>3 DEF StepBelow, Wild
<1>4. CASE StepResolved(x) /\ x.op = "rpick"
  <2>1. x.n \in Nat \ {0} /\ PickAt(rsp, x.n)
    BY <1>1, <1>4 DEF StepResolved, Instr, ParsedInstr, ResolvedInstr, FixedOps, ArithOps
  <2>2. x.n > rsp
    BY <1>1, <2>1
  <2> QED
    BY <1>2, <2>1, <2>2 DEF PickAt, Wild
<1>5. CASE StepResolved(x) /\ x.op = "rdrop"
  <2> DEFINE keep == x.s - x.a
  <2>1. x.s \in Nat /\ x.a \in 0..x.s /\ DropRangeAt(rsp, x.s, x.a)
    BY <1>1, <1>5 DEF StepResolved, Instr, ParsedInstr, ResolvedInstr, FixedOps, ArithOps
  <2>2. rsp - x.s < 0
    BY <1>1, <2>1
  <2>3. CASE keep > 0
    BY <1>2, <2>1, <2>2, <2>3 DEF DropRangeAt, Wild
  <2>4. CASE ~ (keep > 0)
    <3>1. /\ data' = Copied(data, rsp - x.s + x.a, rsp - x.s, keep)
          /\ rsp' = rsp - x.a /\ status' = "executed"
      BY <2>1, <2>4 DEF DropRangeAt
    <3>2. rsp' \in Int /\ rsp' < 0 /\ rsp' <= Capacity
      BY <1>1, <2>1, <3>1
    <3>3. data' \in Memory
      <4>1. rsp - x.s \in Int /\ keep \in Int
        BY <1>1, <2>1
      <4> HIDE DEF keep
      <4> QED
        BY <1>1, <2>4, <3>1, <4>1, NothingCopied
    <3> QED
      BY <1>1, <3>1, <3>2, <3>3, StaysBelow DEF TypeOK, Memory, Memories
  <2> QED
    BY <2>3, <2>4
<1> QED
  BY <1>3, <1>4, <1>5 DEF StepResolved

LEMMA StepKeeps ==
    ASSUME TypeOK, [Next]_vars PROVE TypeOK' /\ [Sequence!Step]_(Sequence!vars)
<1>1. CASE Next
  <2>1. PICK x \in Instrs :
           StepPlain(x) \/ StepResolved(x) \/ StepPick(x) \/ StepDropRange(x) \/ StepBelow(x)
    BY <1>1 DEF Next
  <2>2. CASE rsp >= 0
    <3>1. ~ StepBelow(x)
      BY <2>2 DEF StepBelow, TypeOK
    <3> QED
      BY <2>1, <2>2, <3>1, PlainStep, ResolvedStep, DynamicPickStep, DynamicDropRangeStep
  <2>3. CASE ~ (rsp >= 0)
    <3>1. StepResolved(x) \/ StepBelow(x)
      BY <2>1, <2>3 DEF StepPlain, StepPick, StepDropRange
    <3>2. rsp < 0
      BY <2>3 DEF TypeOK
    <3> QED
      BY <3>1, <3>2, BelowStep
  <2> QED
    BY <2>2, <2>3
<1>2. CASE UNCHANGED vars
  BY <1>2 DEF vars, TypeOK, Sequence!vars, Elements
<1> QED
  BY <1>1, <1>2

LEMMA InitKeeps == Init => TypeOK /\ Sequence!Init
<1> SUFFICES ASSUME Init PROVE TypeOK /\ Sequence!Init
  OBVIOUS
<1>1. TypeOK
  BY CapacityAssumption DEF Init, TypeOK
<1>2. rsp >= 0 /\ ~ (rsp < 0)
  BY DEF Init
<1>3. Elements(0, rsp) = << >>
  <2>1. Elements(0, rsp) = Held(data, 0, 0)
    BY DEF Init, Elements, Held
  <2> QED
    BY <1>1, <2>1, <1>2, TopInMemory
<1> QED
  BY <1>1, <1>2, <1>3 DEF Init, Sequence!Init

\* Whatever is executed, the memory and the status have their types and the
\* pointer never gets above the mapping.
THEOREM TypeOKHolds == Spec => []TypeOK
<1>1. Init => TypeOK
  BY InitKeeps
<1>2. TypeOK /\ [Next]_vars => TypeOK'
  BY StepKeeps
<1> QED
  BY <1>1, <1>2, PTL DEF Spec

\* The memory below the pointer is a stack of at most Capacity elements: each
\* instruction does to it what it does to a sequence, or overruns the mapping
\* where the sequence would not fit.  The pointer goes below the base where the
\* instruction goes below the bottom of the sequence, and not otherwise.
THEOREM ImplementsSequenceHolds == Spec => ImplementsSequence
<1>1. Init => Sequence!Init
  BY InitKeeps
<1>2. TypeOK /\ [Next]_vars => [Sequence!Step]_(Sequence!vars)
  BY StepKeeps
<1> QED
  BY <1>1, <1>2, TypeOKHolds, PTL DEF Spec, ImplementsSequence, Sequence!Spec
=============================================================================
