------------------------- MODULE CompiledFuncProofs -------------------------
(***************************************************************************)
(* Proofs about CompiledFunc, for every function that has a graph and      *)
(* every stack with room for what it pushes.  Until the interpreter would  *)
(* have failed unnoticed, compiled code implements the block machine,      *)
(* wherever it keeps its values; and, astray or not, it touches nothing    *)
(* below the reach of the block it is in.                                  *)
(*                                                                         *)
(* The first part takes the emitted code apart: what each of its operators *)
(* does to the stack it stands for (ViewOf), while there are elements to   *)
(* do it to (EmitState).  The second is about what it touches (AnyState):  *)
(* reading the k-th element from the top looks no lower than Depth(s) - k, *)
(* so that an operator keeps to the elements from b upwards (KeepsTo) when *)
(* the elements it asks for would lie there, whether they do or not.       *)
(***************************************************************************)
EXTENDS CompiledFunc, ClacLemmas

\* States of the emitted code while nothing has gone wrong, and the stacks they
\* stand for.
EmitState == [tmp : Seq(Int), sp : 0..MemSize, mem : Memories(MemSize), low : Int, got : Seq(Int),
              wild : {FALSE}]

Depth(s)  == s.sp + Len(s.tmp)
ViewOf(s) == [i \in 1..s.sp |-> s.mem[i - 1]] \o s.tmp

-----------------------------------------------------------------------------
(* Memory and the values above it.                                         *)

LEMMA EmitIs ==
    ASSUME NEW s \in EmitState
    PROVE  /\ s.tmp \in Seq(Int) /\ s.sp \in 0..MemSize /\ s.sp \in Nat /\ s.low \in Int
           /\ s.mem \in Memories(MemSize) /\ DOMAIN s.mem = 0..(MemSize - 1)
           /\ s.got \in Seq(Int) /\ s.wild = FALSE /\ MemSize \in Nat
<1>1. s.wild = FALSE
  BY DEF EmitState
<1>2. /\ s.tmp \in Seq(Int) /\ s.sp \in 0..MemSize /\ s.low \in Int /\ s.got \in Seq(Int)
      /\ s.mem \in Memories(MemSize)
  BY DEF EmitState
<1>3. DOMAIN s.mem = 0..(MemSize - 1)
  BY <1>2 DEF Memories
<1> QED
  BY <1>1, <1>2, <1>3, MemoryAssumption

LEMMA ViewIs ==
    ASSUME NEW s \in EmitState
    PROVE  /\ ViewOf(s) = Held(s.mem, 0, s.sp) \o s.tmp
           /\ Held(s.mem, 0, s.sp) \in Seq(Int) /\ Len(Held(s.mem, 0, s.sp)) = s.sp
           /\ ViewOf(s) \in Seq(Int) /\ Len(ViewOf(s)) = Depth(s)
           /\ s.sp \in Nat /\ Len(s.tmp) \in Nat /\ Depth(s) \in Nat
           /\ s.tmp = << >> => ViewOf(s) = Held(s.mem, 0, s.sp)
<1> DEFINE p == s.sp
           t == s.tmp
           u == [i \in 1..p |-> s.mem[i - 1]]
           h == Held(s.mem, 0, p)
<1>1. /\ p \in 0..MemSize /\ MemSize \in Nat /\ p \in Nat /\ s.mem \in Memories(MemSize)
      /\ t \in Seq(Int) /\ Len(t) \in Nat
  BY MemoryAssumption DEF EmitState
<1>2. h \in Seq(Int) /\ Len(h) = p /\ \A i \in 1..p : h[i] = s.mem[i - 1]
  BY <1>1, HeldFromBase
<1>3. u \in Seq(Int) /\ Len(u) = p /\ \A i \in 1..p : u[i] = s.mem[i - 1]
  <2>1. ASSUME NEW i \in 1..p PROVE s.mem[i - 1] \in Int
    <3>1. i - 1 \in 0..(MemSize - 1)
      BY <1>1
    <3> QED
      BY <1>1, <3>1 DEF Memories
  <2> QED
    BY SMTT(30), <1>1, <2>1
<1> HIDE DEF u, h
<1>4. u = h
  BY <1>2, <1>3, SameInts
<1>5. h \o t \in Seq(Int) /\ Len(h \o t) = p + Len(t) /\ h \o << >> = h
  <2>1. h \o t \in Seq(Int) /\ Len(h \o t) = Len(h) + Len(t)
    BY <1>1, <1>2, ConcatProperties
  <2>2. h \o << >> = h
    BY <1>2, ConcatEmptySeq
  <2> QED
    BY <1>2, <2>1, <2>2
<1>6. ViewOf(s) = u \o t
  BY DEF ViewOf, u
<1>7. p + Len(t) \in Nat
  BY <1>1
<1> QED
  BY <1>1, <1>2, <1>4, <1>5, <1>6, <1>7 DEF Depth, h

\* The k-th element from the top, wherever it is.
LEMMA TopOfView ==
    ASSUME NEW s \in EmitState, NEW k \in 1..Depth(s)
    PROVE  FromTop(ViewOf(s), k) = IF k <= Len(s.tmp) THEN FromTop(s.tmp, k)
                                   ELSE s.mem[Depth(s) - k]
<1> DEFINE h == Held(s.mem, 0, s.sp)
           t == s.tmp
           p == s.sp
<1>1. /\ ViewOf(s) = h \o t /\ h \in Seq(Int) /\ Len(h) = p /\ p \in Nat /\ t \in Seq(Int)
      /\ Len(t) \in Nat /\ p \in 0..MemSize /\ s.mem \in Memories(MemSize) /\ MemSize \in Nat
      /\ Depth(s) = p + Len(t)
  BY ViewIs, MemoryAssumption DEF EmitState, Depth
<1> HIDE DEF h, t, p
<1>2. CASE k <= Len(t)
  <2>1. k \in 1..Len(t)
    BY <1>1, <1>2
  <2>2. FromTop(h \o t, k) = FromTop(t, k)
    BY <1>1, <2>1, TopIsLocal
  <2> QED
    BY <1>1, <1>2, <2>2 DEF t
<1>3. CASE ~ (k <= Len(t))
  <2>1. /\ p - (k - Len(t)) = Depth(s) - k /\ k - Len(t) \in 1..p
        /\ Depth(s) - k + 1 \in 1..p /\ (Depth(s) - k + 1) - 1 = Depth(s) - k
        /\ Len(h) + Len(t) - k + 1 = Depth(s) - k + 1
    BY <1>1, <1>3
  <2>2. /\ Len(h \o t) = Len(h) + Len(t)
        /\ \A i \in 1..(Len(h) + Len(t)) :
              (h \o t)[i] = IF i <= Len(h) THEN h[i] ELSE t[i - Len(h)]
    BY <1>1, ConcatProperties
  <2>3. \A i \in 1..p : h[i] = s.mem[i - 1]
    BY <1>1, HeldFromBase DEF h, p
  <2>4. (h \o t)[Depth(s) - k + 1] = h[Depth(s) - k + 1]
    <3>1. /\ Depth(s) - k + 1 \in 1..(Len(h) + Len(t)) /\ Depth(s) - k + 1 <= Len(h)
      BY <1>1, <2>1
    <3> QED
      BY <2>2, <3>1
  <2>5. h[Depth(s) - k + 1] = s.mem[Depth(s) - k]
    BY <2>1, <2>3
  <2>6. FromTop(h \o t, k) = (h \o t)[Depth(s) - k + 1]
    BY <2>1, <2>2 DEF FromTop
  <2> QED
    BY <1>1, <1>3, <2>4, <2>5, <2>6 DEF t, p
<1> QED
  BY <1>2, <1>3

-----------------------------------------------------------------------------
(* Popping.                                                                *)

\* t stands for the stack of s without its top.
PopsOne(s, t) ==
    t \in EmitState /\ ViewOf(t) = Pop(ViewOf(s), 1) /\ Depth(t) = Depth(s) - 1

LEMMA XPopNoValueIs ==
    ASSUME NEW s \in EmitState, Depth(s) # 0
    PROVE  PopsOne(s, XPopNoValue(s)) /\ XPopNoValue(s).got = s.got
<1> DEFINE h == Held(s.mem, 0, s.sp)
           n == Len(s.tmp)
<1>1. /\ ViewOf(s) = h \o s.tmp /\ h \in Seq(Int) /\ s.sp \in 0..MemSize /\ s.sp \in Nat
      /\ s.tmp \in Seq(Int) /\ s.mem \in Memories(MemSize) /\ n \in Nat /\ Len(h) = s.sp
      /\ s.low \in Int /\ s.got \in Seq(Int) /\ MemSize \in Nat /\ Depth(s) = s.sp + n
  BY ViewIs, MemoryAssumption DEF EmitState, Depth
<1>2. CASE s.tmp = << >>
  <2> DEFINE t == [s EXCEPT !.sp = @ - 1]
  <2>1. XPopNoValue(s) = t
    BY <1>2 DEF XPopNoValue, EmitPopLoadless
  <2>2. n = 0 /\ s.sp > 0 /\ s.sp - 1 \in 0..MemSize
    BY <1>1, <1>2
  <2>3. /\ t \in EmitState /\ t.sp = s.sp - 1 /\ t.mem = s.mem /\ t.tmp = << >>
        /\ t.low = s.low /\ t.got = s.got
    BY <1>2, <2>2 DEF EmitState
  <2> HIDE DEF t
  <2>4. ViewOf(t) = Held(s.mem, 0, s.sp - 1) /\ ViewOf(s) = h
    BY <1>2, <2>3, ViewIs
  <2>5. Held(s.mem, 0, s.sp - 1) = Pop(h, 1)
    <3>1. 1 \in 0..s.sp
      BY <1>1, <2>2
    <3> QED
      BY <1>1, <3>1, HeldTop
  <2>6. Depth(t) = Depth(s) - 1 /\ Depth(s) = s.sp
    BY <1>1, <1>2, <2>2, <2>3 DEF Depth
  <2> QED
    BY <2>1, <2>3, <2>4, <2>5, <2>6 DEF PopsOne
<1>3. CASE s.tmp # << >>
  <2> DEFINE t == [s EXCEPT !.tmp = Front(@)]
  <2>1. XPopNoValue(s) = t
    BY <1>3 DEF XPopNoValue
  <2>2. n > 0 /\ 1 \in 0..n
    <3>1. s.tmp \in Seq(Int) /\ n \in Nat
      BY <1>1
    <3>2. n # 0
      BY <1>3, <3>1, EmptySeq
    <3> QED
      BY <3>1, <3>2
  <2>3. Front(s.tmp) = Pop(s.tmp, 1)
    BY DEF Front, Pop
  <2>4. Pop(s.tmp, 1) \in Seq(Int) /\ Len(Pop(s.tmp, 1)) = n - 1
    BY <1>1, <2>2, PopIsSeq
  <2>5. /\ t \in EmitState /\ t.sp = s.sp /\ t.mem = s.mem /\ t.tmp = Pop(s.tmp, 1)
        /\ t.low = s.low /\ t.got = s.got
    BY <2>3, <2>4 DEF EmitState
  <2> HIDE DEF t
  <2>6. ViewOf(t) = h \o Pop(s.tmp, 1)
    BY <2>5, ViewIs
  <2>7. Pop(h \o s.tmp, 1) = h \o Pop(s.tmp, 1)
    BY <1>1, <2>2, TopIsLocal
  <2>8. Depth(t) = Depth(s) - 1
    <3>1. Depth(t) = s.sp + Len(Pop(s.tmp, 1))
      BY <2>5 DEF Depth
    <3>2. \A a, c \in Nat : a + (c - 1) = (a + c) - 1
      OBVIOUS
    <3> QED
      BY <1>1, <2>4, <3>1, <3>2, Zenon
  <2> QED
    BY <1>1, <2>1, <2>5, <2>6, <2>7, <2>8 DEF PopsOne
<1> QED
  BY <1>2, <1>3

LEMMA XPopIs ==
    ASSUME NEW s \in EmitState, Depth(s) # 0
    PROVE  PopsOne(s, XPop(s)) /\ XPop(s).got = Append(s.got, FromTop(ViewOf(s), 1))
<1> DEFINE t == XPopNoValue(s)
           top == FromTop(ViewOf(s), 1)
           low == IF s.tmp = << >> THEN MinInt(s.low, s.sp - 1) ELSE s.low
           u == XPop(s)
<1>1. /\ ViewOf(s) \in Seq(Int) /\ Len(ViewOf(s)) = Depth(s) /\ Depth(s) \in Nat
      /\ s.sp \in Nat /\ Len(s.tmp) \in Nat /\ s.got \in Seq(Int) /\ s.low \in Int
      /\ s.tmp \in Seq(Int) /\ s.mem \in Memories(MemSize) /\ s.sp <= MemSize
      /\ MemSize \in Nat /\ 1 \in 1..Depth(s)
  <2>1. /\ ViewOf(s) \in Seq(Int) /\ Len(ViewOf(s)) = Depth(s) /\ Depth(s) \in Nat
        /\ s.sp \in Nat /\ Len(s.tmp) \in Nat
    BY ViewIs
  <2>2. 1 \in 1..Depth(s)
    BY <2>1
  <2> QED
    BY <2>1, <2>2, MemoryAssumption DEF EmitState
<1>2. PopsOne(s, t) /\ t.got = s.got
  BY XPopNoValueIs
<1>3. top = (IF s.tmp = << >> THEN s.mem[s.sp - 1] ELSE Last(s.tmp)) /\ top \in Int
  <2>1. top \in Int
    BY <1>1, FromTopIsInt
  <2>2. top = IF 1 <= Len(s.tmp) THEN FromTop(s.tmp, 1) ELSE s.mem[Depth(s) - 1]
    BY <1>1, TopOfView
  <2>3. CASE s.tmp = << >>
    BY <1>1, <2>1, <2>2, <2>3 DEF Depth
  <2>4. CASE s.tmp # << >>
    <3>1. Len(s.tmp) # 0
      BY <1>1, <2>4, EmptySeq
    <3>2. FromTop(s.tmp, 1) = Last(s.tmp)
      BY <1>1 DEF FromTop, Last
    <3> QED
      BY <1>1, <2>1, <2>2, <2>4, <3>1, <3>2
  <2> QED
    BY <2>3, <2>4
<1>4. u = [t EXCEPT !.low = low, !.got = Append(@, top)]
  <2>1. CASE s.tmp = << >>
    <3>1. s.sp - 1 \in 0..(MemSize - 1)
      BY <1>1, <2>1 DEF Depth
    <3>2. s.sp - 1 \in DOMAIN s.mem
      BY <1>1, <3>1 DEF Memories
    <3>3. Load(t, s.sp - 1) = top /\ t.low = s.low
      BY <1>3, <2>1, <3>2 DEF XPopNoValue, EmitPopLoadless, Load, EmitState
    <3>4. u = Loaded(t, s.sp - 1)
      BY <2>1 DEF XPop, XPopNoValue, EmitPop
    <3>5. t.wild = FALSE
      BY <2>1 DEF XPopNoValue, EmitPopLoadless, EmitState
    <3>6. t.mem = s.mem
      BY <2>1 DEF XPopNoValue, EmitPopLoadless, EmitState
    <3>7. u = [t EXCEPT !.low = low, !.got = Append(@, top), !.wild = FALSE]
      BY <2>1, <3>2, <3>3, <3>4, <3>5, <3>6 DEF Loaded
    <3>8. t \in EmitState
      BY <1>2 DEF PopsOne
    <3> QED
      BY <3>5, <3>7, <3>8 DEF EmitState
  <2>2. CASE s.tmp # << >>
    BY <1>3, <2>2 DEF XPop, XPopNoValue, EmitState
  <2> QED
    BY <2>1, <2>2
<1>5. low \in Int /\ t.low = s.low
  BY <1>1 DEF MinInt, XPopNoValue, EmitPopLoadless, EmitState
<1> HIDE DEF top, t, low, u
<1>6. t \in EmitState
  BY <1>2 DEF PopsOne
<1>7. /\ u \in EmitState /\ u.sp = t.sp /\ u.tmp = t.tmp /\ u.mem = t.mem
      /\ u.low = low /\ u.got = Append(s.got, top)
  <2>1. Append(s.got, top) \in Seq(Int)
    BY <1>1, <1>3
  <2> QED
    BY <1>2, <1>4, <1>5, <1>6, <2>1 DEF EmitState
<1>8. ViewOf(u) = ViewOf(t) /\ Depth(u) = Depth(t)
  BY <1>7 DEF ViewOf, Depth
<1> QED
  BY <1>2, <1>7, <1>8 DEF PopsOne, top, u

\* t stands for the stack of s without its n top elements.
PopsMany(s, t, n) ==
    t \in EmitState /\ ViewOf(t) = Pop(ViewOf(s), n) /\ Depth(t) = Depth(s) - n

LEMMA PopsNone ==
    ASSUME NEW s \in EmitState PROVE PopsMany(s, s, 0)
<1>1. ViewOf(s) \in Seq(Int) /\ Depth(s) \in Nat
  BY ViewIs
<1>2. Pop(ViewOf(s), 0) = ViewOf(s) /\ Depth(s) = Depth(s) - 0
  BY <1>1, StackLemma
<1> QED
  BY <1>2 DEF PopsMany

LEMMA PopsOneMore ==
    ASSUME NEW s \in EmitState, NEW n \in 0..(Depth(s) - 1), NEW t, PopsMany(s, t, n),
           NEW u, PopsOne(t, u)
    PROVE  PopsMany(s, u, n + 1) /\ FromTop(ViewOf(t), 1) = FromTop(ViewOf(s), n + 1)
<1> DEFINE v == ViewOf(s)
<1>1. v \in Seq(Int) /\ Len(v) = Depth(s) /\ Depth(s) \in Nat
  BY ViewIs
<1>2. /\ t \in EmitState /\ ViewOf(t) = Pop(v, n) /\ Depth(t) = Depth(s) - n
      /\ u \in EmitState /\ ViewOf(u) = Pop(Pop(v, n), 1) /\ Depth(u) = Depth(t) - 1
  BY DEF PopsMany, PopsOne
<1> HIDE DEF v
<1>3. n \in 0..Len(v) /\ 1 \in 0..(Len(v) - n) /\ 1 > 0
  BY <1>1
<1>4. Pop(Pop(v, n), 1) = Pop(v, n + 1) /\ FromTop(Pop(v, n), 1) = FromTop(v, n + 1)
  BY <1>1, <1>3, PopTwice
<1>5. Depth(u) = Depth(s) - (n + 1)
  BY <1>1, <1>2
<1> QED
  BY <1>2, <1>4, <1>5 DEF PopsMany, v

-----------------------------------------------------------------------------
(* Repeating: the recursions unfolded.  They are defined for all states of *)
(* these types, also where the stack is too short.                         *)

AnyState == [tmp : Seq(Int), sp : Int, mem : Memories(MemSize), low : Int, got : Seq(Int),
             wild : BOOLEAN]


LEMMA EmitStateIsAny == EmitState \subseteq AnyState
<1>1. 0..MemSize \subseteq Int
  OBVIOUS
<1> QED
  BY <1>1 DEF EmitState, AnyState

LEMMA PopsStayTyped ==
    ASSUME NEW s \in AnyState PROVE XPop(s) \in AnyState /\ XPopNoValue(s) \in AnyState
<1>1. /\ s.tmp \in Seq(Int) /\ s.sp \in Int /\ s.mem \in Memories(MemSize) /\ s.low \in Int
      /\ s.got \in Seq(Int) /\ s.wild \in BOOLEAN
  BY DEF AnyState
<1>2. ASSUME s.tmp # << >> PROVE Front(s.tmp) \in Seq(Int) /\ Last(s.tmp) \in Int
  <2>1. Len(s.tmp) \in Nat \ {0}
    BY <1>1, <1>2, EmptySeq
  <2>2. 1 \in 0..Len(s.tmp) /\ Len(s.tmp) \in 1..Len(s.tmp)
    BY <2>1
  <2>3. Pop(s.tmp, 1) \in Seq(Int)
    BY <1>1, <2>2, PopIsSeq
  <2>4. s.tmp[Len(s.tmp)] \in Int
    BY <1>1, <2>2
  <2> QED
    BY <2>3, <2>4 DEF Front, Last, Pop
<1>3. ASSUME NEW a, NEW t \in AnyState PROVE Load(t, a) \in Int
  BY MemoryAssumption DEF Load, AnyState, Memories
<1>4. CASE s.tmp = << >>
  <2> DEFINE t == [s EXCEPT !.sp = @ - 1]
  <2>1. XPopNoValue(s) = t /\ XPop(s) = Loaded(t, s.sp - 1)
    BY <1>4 DEF XPopNoValue, XPop, EmitPop, EmitPopLoadless
  <2>2. t \in AnyState
    <3>1. s.sp - 1 \in Int
      BY <1>1
    <3> QED
      BY <3>1 DEF AnyState
  <2> HIDE DEF t
  <2>3. /\ MinInt(t.low, s.sp - 1) \in Int /\ Append(t.got, Load(t, s.sp - 1)) \in Seq(Int)
    <3>1. t.low \in Int /\ t.got \in Seq(Int) /\ Load(t, s.sp - 1) \in Int /\ s.sp - 1 \in Int
      BY <1>1, <1>3, <2>2 DEF AnyState
    <3> QED
      BY <3>1 DEF MinInt
  <2>4. Loaded(t, s.sp - 1) \in AnyState
    <3>1. (t.wild \/ s.sp - 1 \notin DOMAIN t.mem) \in BOOLEAN
      OBVIOUS
    <3> QED
      BY <2>2, <2>3, <3>1 DEF Loaded, AnyState
  <2> QED
    BY <2>1, <2>2, <2>4
<1>5. CASE s.tmp # << >>
  <2>1. Append(s.got, Last(s.tmp)) \in Seq(Int)
    BY <1>1, <1>2, <1>5
  <2> QED
    BY <1>1, <1>2, <1>5, <2>1 DEF XPop, XPopNoValue, AnyState
<1> QED
  BY <1>4, <1>5

LEMMA XPopsUnfold ==
    ASSUME NEW s \in AnyState, NEW n \in Nat
    PROVE  \E f : /\ f[0] = s /\ \A i \in 1..n : f[i] = XPop(f[i - 1])
                  /\ XPops(s, n) = f[n]
<1> DEFINE once == [t \in AnyState |-> XPop(t)]
           step == [i \in Nat |-> once]
           times == CHOOSE f : f = [i \in 0..n |-> IF i = 0 THEN s ELSE XPop(f[i - 1])]
<1>1. PICK f \in [0..n -> AnyState] : Obeys(f, s, step, n)
  <2>1. once \in [AnyState -> AnyState]
    BY PopsStayTyped
  <2> HIDE DEF once
  <2>2. step \in [Nat -> [AnyState -> AnyState]]
    BY <2>1
  <2> HIDE DEF step
  <2> QED
    BY <2>2, RecursionHasSolution
<1>2. ASSUME NEW i \in 1..n PROVE f[i] = XPop(f[i - 1])
  <2>1. i \in Nat /\ f[i - 1] \in AnyState
    OBVIOUS
  <2>2. f[i] = step[i][f[i - 1]]
    BY <1>1 DEF Obeys
  <2>3. step[i] = once
    BY <2>1, Zenon
  <2>4. once[f[i - 1]] = XPop(f[i - 1])
    BY <2>1, Zenon
  <2> QED
    BY <2>2, <2>3, <2>4, Zenon
<1>3. f = [i \in 0..n |-> IF i = 0 THEN s ELSE XPop(f[i - 1])]
  BY <1>1, <1>2 DEF Obeys
<1>4. times = [i \in 0..n |-> IF i = 0 THEN s ELSE XPop(times[i - 1])]
  BY <1>3
<1>5. XPops(s, n) = times[n]
  BY DEF XPops, Times
<1> HIDE DEF times
<1>6. times[0] = s /\ \A i \in 1..n : times[i] = XPop(times[i - 1])
  BY <1>4
<1> QED
  BY <1>5, <1>6

LEMMA DropsUnfold ==
    ASSUME NEW s \in AnyState, NEW n \in Nat
    PROVE  \E f : /\ f[0] = s /\ \A i \in 1..n : f[i] = XPopNoValue(f[i - 1])
                  /\ Times(n, XPopNoValue, s) = f[n]
<1> DEFINE once == [t \in AnyState |-> XPopNoValue(t)]
           step == [i \in Nat |-> once]
           times == CHOOSE f : f = [i \in 0..n |-> IF i = 0 THEN s ELSE XPopNoValue(f[i - 1])]
<1>1. PICK f \in [0..n -> AnyState] : Obeys(f, s, step, n)
  <2>1. once \in [AnyState -> AnyState]
    BY PopsStayTyped
  <2> HIDE DEF once
  <2>2. step \in [Nat -> [AnyState -> AnyState]]
    BY <2>1
  <2> HIDE DEF step
  <2> QED
    BY <2>2, RecursionHasSolution
<1>2. ASSUME NEW i \in 1..n PROVE f[i] = XPopNoValue(f[i - 1])
  <2>1. i \in Nat /\ f[i - 1] \in AnyState
    OBVIOUS
  <2>2. f[i] = step[i][f[i - 1]]
    BY <1>1 DEF Obeys
  <2>3. step[i] = once
    BY <2>1, Zenon
  <2>4. once[f[i - 1]] = XPopNoValue(f[i - 1])
    BY <2>1, Zenon
  <2> QED
    BY <2>2, <2>3, <2>4, Zenon
<1>3. f = [i \in 0..n |-> IF i = 0 THEN s ELSE XPopNoValue(f[i - 1])]
  BY <1>1, <1>2 DEF Obeys
<1>4. times = [i \in 0..n |-> IF i = 0 THEN s ELSE XPopNoValue(times[i - 1])]
  BY <1>3
<1>5. Times(n, XPopNoValue, s) = times[n]
  BY DEF Times
<1> HIDE DEF times
<1>6. times[0] = s /\ \A i \in 1..n : times[i] = XPopNoValue(times[i - 1])
  BY <1>4
<1> QED
  BY <1>5, <1>6

\* After n pops, got holds the n elements from the top down.
LEMMA XPopsIs ==
    ASSUME NEW s \in EmitState, s.got = << >>, NEW n \in 0..Depth(s)
    PROVE  /\ PopsMany(s, XPops(s, n), n)
           /\ XPops(s, n).got \in Seq(Int) /\ Len(XPops(s, n).got) = n
           /\ \A i \in 1..n : XPops(s, n).got[i] = FromTop(ViewOf(s), i)
<1> DEFINE v == ViewOf(s)
           Done(t, k) == /\ PopsMany(s, t, k) /\ t.got \in Seq(Int) /\ Len(t.got) = k
                         /\ \A i \in 1..k : t.got[i] = FromTop(v, i)
<1>0. Depth(s) \in Nat /\ n \in Nat /\ s \in AnyState
  <2>1. Depth(s) \in Nat /\ s \in AnyState
    BY ViewIs, EmitStateIsAny, Zenon
  <2> QED
    BY <2>1
<1>1. PICK f : /\ f[0] = s /\ \A i \in 1..n : f[i] = XPop(f[i - 1])
               /\ XPops(s, n) = f[n]
  BY <1>0, XPopsUnfold
<1> DEFINE S == {k \in 0..n : Done(f[k], k)}
<1>2. Done(s, 0)
  BY PopsNone
<1>3. ASSUME NEW k \in 0..(n - 1), Done(f[k], k) PROVE Done(f[k + 1], k + 1)
  <2> DEFINE t == f[k]
             u == f[k + 1]
  <2>1. u = XPop(t)
    <3>1. k + 1 \in 1..n /\ (k + 1) - 1 = k
      BY <1>0
    <3> QED
      BY <1>1, <3>1
  <2>2. PopsMany(s, t, k) /\ t.got \in Seq(Int) /\ Len(t.got) = k
        /\ \A i \in 1..k : t.got[i] = FromTop(v, i)
    BY <1>3
  <2> HIDE DEF t, u
  <2>3. t \in EmitState /\ Depth(t) # 0 /\ k \in 0..(Depth(s) - 1) /\ k \in Nat
    BY <1>0, <2>2 DEF PopsMany
  <2>4. PopsOne(t, u) /\ u.got = Append(t.got, FromTop(ViewOf(t), 1))
    BY <2>1, <2>3, XPopIs
  <2>5. PopsMany(s, u, k + 1) /\ FromTop(ViewOf(t), 1) = FromTop(v, k + 1)
    BY <2>2, <2>3, <2>4, PopsOneMore
  <2>6. FromTop(v, k + 1) \in Int
    <3>1. v \in Seq(Int) /\ Len(v) = Depth(s)
      BY ViewIs
    <3>2. k + 1 \in 1..Depth(s)
      BY <1>0, <2>3
    <3> HIDE DEF v
    <3> QED
      BY <3>1, <3>2, FromTopIsInt
  <2> HIDE DEF v
  <2>7. /\ u.got \in Seq(Int) /\ Len(u.got) = k + 1
        /\ \A i \in 1..(k + 1) : u.got[i] = FromTop(v, i)
    <3>1. u.got = Append(t.got, FromTop(v, k + 1))
      BY <2>4, <2>5
    <3> QED
      BY SMTT(30), <2>2, <2>3, <2>6, <3>1
  <2> QED
    BY <2>5, <2>7 DEF t, u
<1>4. \A k \in 0..n : k \in S
  <2>1. 0 \in S /\ \A k \in 0..(n - 1) : k \in S => k + 1 \in S
    <3> HIDE DEF Done
    <3>1. 0 \in S
      BY <1>0, <1>1, <1>2
    <3>2. ASSUME NEW k \in 0..(n - 1), k \in S PROVE k + 1 \in S
      BY <1>0, <1>3, <3>2
    <3> QED
      BY <3>1, <3>2
  <2> HIDE DEF S
  <2> QED
    BY <1>0, <2>1, InductionUpTo
<1>5. Done(f[n], n)
  <2> HIDE DEF Done
  <2> QED
    BY <1>0, <1>4
<1> QED
  BY <1>1, <1>5

LEMMA DropsIs ==
    ASSUME NEW s \in EmitState, NEW n \in 0..Depth(s)
    PROVE  PopsMany(s, Times(n, XPopNoValue, s), n) /\ Times(n, XPopNoValue, s).got = s.got
<1> DEFINE Done(t, k) == PopsMany(s, t, k) /\ t.got = s.got
<1>0. Depth(s) \in Nat /\ n \in Nat /\ s \in AnyState
  <2>1. Depth(s) \in Nat /\ s \in AnyState
    BY ViewIs, EmitStateIsAny, Zenon
  <2> QED
    BY <2>1
<1>1. PICK f : /\ f[0] = s /\ \A i \in 1..n : f[i] = XPopNoValue(f[i - 1])
               /\ Times(n, XPopNoValue, s) = f[n]
  BY <1>0, DropsUnfold
<1> DEFINE S == {k \in 0..n : Done(f[k], k)}
<1>2. Done(s, 0)
  BY PopsNone
<1>3. ASSUME NEW k \in 0..(n - 1), Done(f[k], k) PROVE Done(f[k + 1], k + 1)
  <2> DEFINE t == f[k]
             u == f[k + 1]
  <2>1. u = XPopNoValue(t)
    <3>1. k + 1 \in 1..n /\ (k + 1) - 1 = k
      BY <1>0
    <3> QED
      BY <1>1, <3>1
  <2>2. PopsMany(s, t, k) /\ t.got = s.got
    BY <1>3
  <2> HIDE DEF t, u
  <2>3. t \in EmitState /\ Depth(t) # 0 /\ k \in 0..(Depth(s) - 1)
    BY <1>0, <2>2 DEF PopsMany
  <2>4. PopsOne(t, u) /\ u.got = t.got
    BY <2>1, <2>3, XPopNoValueIs
  <2>5. PopsMany(s, u, k + 1)
    BY <2>2, <2>3, <2>4, PopsOneMore
  <2> QED
    BY <2>2, <2>4, <2>5 DEF t, u
<1>4. \A k \in 0..n : k \in S
  <2>1. 0 \in S /\ \A k \in 0..(n - 1) : k \in S => k + 1 \in S
    <3> HIDE DEF Done
    <3>1. 0 \in S
      BY <1>0, <1>1, <1>2
    <3>2. ASSUME NEW k \in 0..(n - 1), k \in S PROVE k + 1 \in S
      BY <1>0, <1>3, <3>2
    <3> QED
      BY <3>1, <3>2
  <2> HIDE DEF S
  <2> QED
    BY <1>0, <2>1, InductionUpTo
<1>5. Done(f[n], n)
  <2> HIDE DEF Done
  <2> QED
    BY <1>0, <1>4
<1> QED
  BY <1>1, <1>5

-----------------------------------------------------------------------------
(* Pushing.                                                                *)

LEMMA PushTmpIs ==
    ASSUME NEW s \in EmitState, NEW vs \in Seq(Int)
    PROVE  /\ PushTmp(s, vs) \in EmitState /\ ViewOf(PushTmp(s, vs)) = ViewOf(s) \o vs
           /\ Depth(PushTmp(s, vs)) = Depth(s) + Len(vs)
           /\ PushTmp(s, vs).got = s.got
<1> DEFINE t == PushTmp(s, vs)
           h == Held(s.mem, 0, s.sp)
<1>1. /\ ViewOf(s) = h \o s.tmp /\ h \in Seq(Int) /\ s.tmp \in Seq(Int)
      /\ s.sp \in Nat /\ Len(s.tmp) \in Nat /\ Len(vs) \in Nat
  <2>1. ViewOf(s) = h \o s.tmp /\ h \in Seq(Int) /\ s.sp \in Nat /\ Len(s.tmp) \in Nat
    BY ViewIs, Zenon
  <2>2. s.tmp \in Seq(Int)
    BY DEF EmitState
  <2>3. Len(vs) \in Nat
    OBVIOUS
  <2> QED
    BY <2>1, <2>2, <2>3
<1>2. s.tmp \o vs \in Seq(Int) /\ Len(s.tmp \o vs) = Len(s.tmp) + Len(vs)
  BY <1>1, ConcatProperties
<1>3. /\ t \in EmitState /\ t.tmp = s.tmp \o vs /\ t.sp = s.sp /\ t.mem = s.mem
      /\ t.low = s.low /\ t.got = s.got
  BY <1>2 DEF PushTmp, EmitState
<1> HIDE DEF t
<1>4. ViewOf(t) = h \o (s.tmp \o vs)
  BY <1>3, ViewIs
<1> HIDE DEF h
<1>5. (h \o s.tmp) \o vs = h \o (s.tmp \o vs)
  BY <1>1, ConcatInts
<1>6. Depth(t) = Depth(s) + Len(vs)
  <2>1. \A a, c, d \in Nat : a + (c + d) = (a + c) + d
    OBVIOUS
  <2>2. Depth(t) = s.sp + (Len(s.tmp) + Len(vs))
    BY <1>2, <1>3 DEF Depth
  <2> QED
    BY <1>1, <2>1, <2>2 DEF Depth
<1> QED
  BY <1>1, <1>3, <1>4, <1>5, <1>6 DEF t

LEMMA EmitPushIs ==
    ASSUME NEW s \in EmitState, s.sp < MemSize, NEW v \in Int
    PROVE  LET t == EmitPush(s, v)
           IN /\ t \in EmitState /\ t.sp = s.sp + 1 /\ t.tmp = s.tmp /\ t.got = s.got
              /\ \A a \in 0..(MemSize - 1) : t.mem[a] = IF a = s.sp THEN v ELSE s.mem[a]
<1> DEFINE new == [a \in DOMAIN s.mem |-> IF a = s.sp THEN v ELSE s.mem[a]]
           t == EmitPush(s, v)
<1>1. /\ s.sp + 1 \in 0..MemSize /\ s.mem \in Memories(MemSize) /\ s.low \in Int /\ s.sp \in Int
      /\ s.sp \in DOMAIN s.mem /\ s.wild = FALSE
  <2>3. s.sp \in Nat /\ MemSize \in Nat
    BY EmitIs, Zenon
  <2>1. s.sp \in 0..(MemSize - 1) /\ s.sp + 1 \in 0..MemSize /\ s.sp \in Int
    BY <2>3
  <2>2. s.mem \in Memories(MemSize) /\ s.low \in Int /\ s.wild = FALSE /\ DOMAIN s.mem = 0..(MemSize - 1)
    BY EmitIs, Zenon
  <2> QED
    BY <2>1, <2>2, Zenon
<1>2. new \in Memories(MemSize) /\ \A a \in 0..(MemSize - 1) : new[a] = IF a = s.sp THEN v ELSE s.mem[a]
  BY <1>1 DEF Memories
<1>3. MinInt(s.low, s.sp) \in Int
  BY <1>1 DEF MinInt
<1>4. t = [s EXCEPT !.mem = new, !.sp = @ + 1, !.low = MinInt(@, s.sp), !.wild = FALSE]
  BY <1>1 DEF EmitPush
<1> HIDE DEF new, t
<1>5. t \in EmitState /\ t.sp = s.sp + 1 /\ t.tmp = s.tmp /\ t.got = s.got /\ t.mem = new
  BY <1>1, <1>2, <1>3, <1>4 DEF EmitState
<1> QED
  BY <1>2, <1>5 DEF t

LEMMA PushesStayTyped ==
    ASSUME NEW s \in AnyState, NEW v \in Int PROVE EmitPush(s, v) \in AnyState
<1> DEFINE new == [a \in DOMAIN s.mem |-> IF a = s.sp THEN v ELSE s.mem[a]]
<1>1. s.mem \in Memories(MemSize) /\ s.low \in Int /\ s.sp \in Int /\ s.sp + 1 \in Int
  BY DEF AnyState
<1>2. new \in Memories(MemSize)
  BY <1>1 DEF Memories
<1>3. MinInt(s.low, s.sp) \in Int
  BY <1>1 DEF MinInt
<1> DEFINE out == s.wild \/ s.sp \notin DOMAIN s.mem
<1>4. EmitPush(s, v) = [s EXCEPT !.mem = new, !.sp = @ + 1, !.low = MinInt(@, s.sp), !.wild = out]
  BY DEF EmitPush
<1>5. out \in BOOLEAN
  BY DEF AnyState
<1> HIDE DEF new, out
<1> QED
  BY <1>1, <1>2, <1>3, <1>4, <1>5 DEF AnyState

LEMMA PushedUnfold ==
    ASSUME NEW s \in AnyState, NEW vs \in Seq(Int)
    PROVE  \E f : /\ f[0] = s /\ \A i \in 1..Len(vs) : f[i] = EmitPush(f[i - 1], vs[i])
                  /\ Pushed(s, vs) = f[Len(vs)]
<1> DEFINE n == Len(vs)
           once(i) == [t \in AnyState |-> IF i \in 1..n THEN EmitPush(t, vs[i]) ELSE t]
           step == [i \in Nat |-> once(i)]
           pushed == CHOOSE f : f = [i \in 0..n |-> IF i = 0 THEN s ELSE EmitPush(f[i - 1], vs[i])]
<1>0. n \in Nat /\ \A i \in 1..n : vs[i] \in Int
  OBVIOUS
<1>1. PICK f \in [0..n -> AnyState] : Obeys(f, s, step, n)
  <2>1. ASSUME NEW i PROVE once(i) \in [AnyState -> AnyState]
    <3> HIDE DEF n
    <3> QED
      BY <1>0, PushesStayTyped
  <2> HIDE DEF once
  <2>2. step \in [Nat -> [AnyState -> AnyState]]
    BY <2>1
  <2> HIDE DEF step, n
  <2> QED
    BY <1>0, <2>2, RecursionHasSolution
<1>2. ASSUME NEW i \in 1..n PROVE f[i] = EmitPush(f[i - 1], vs[i])
  <2>1. i \in Nat /\ f[i - 1] \in AnyState
    BY <1>0
  <2>2. f[i] = step[i][f[i - 1]]
    BY <1>1 DEF Obeys
  <2>3. step[i] = once(i)
    BY <2>1, Zenon
  <2>4. once(i)[f[i - 1]] = EmitPush(f[i - 1], vs[i])
    BY <2>1, Zenon
  <2> QED
    BY <2>2, <2>3, <2>4, Zenon
<1>3. f = [i \in 0..n |-> IF i = 0 THEN s ELSE EmitPush(f[i - 1], vs[i])]
  BY <1>1, <1>2 DEF Obeys
<1>4. pushed = [i \in 0..n |-> IF i = 0 THEN s ELSE EmitPush(pushed[i - 1], vs[i])]
  BY <1>3
<1>5. Pushed(s, vs) = pushed[n]
  BY DEF Pushed
<1> HIDE DEF pushed
<1>6. pushed[0] = s /\ \A i \in 1..n : pushed[i] = EmitPush(pushed[i - 1], vs[i])
  BY <1>0, <1>4
<1> QED
  BY <1>5, <1>6

\* Flushing moves what the stack consists of, and not the stack.
LEMMA FlushIs ==
    ASSUME NEW s \in EmitState, Depth(s) <= MemSize
    PROVE  /\ Flush(s) \in EmitState /\ ViewOf(Flush(s)) = ViewOf(s)
           /\ Flush(s).tmp = << >> /\ Flush(s).sp = Depth(s) /\ Depth(Flush(s)) = Depth(s)
           /\ Flush(s).got = s.got
<1> DEFINE vs == s.tmp
           n == Len(vs)
           p == s.sp
           Done(t, k) == /\ t \in EmitState /\ t.sp = p + k /\ t.tmp = s.tmp /\ t.got = s.got
                         /\ \A a \in 0..(MemSize - 1) :
                               t.mem[a] = IF a \in p..(p + k - 1) THEN vs[a - p + 1] ELSE s.mem[a]
<1>0. /\ n \in Nat /\ p \in Nat /\ MemSize \in Nat /\ p + n <= MemSize /\ vs \in Seq(Int)
      /\ Depth(s) = p + n /\ s \in AnyState /\ s.mem \in Memories(MemSize)
      /\ \A i \in 1..n : vs[i] \in Int
  <2>1. vs \in Seq(Int) /\ s.mem \in Memories(MemSize)
    BY DEF EmitState
  <2>2. n \in Nat /\ p \in Nat /\ s \in AnyState
    BY ViewIs, EmitStateIsAny, Zenon
  <2> QED
    BY <2>1, <2>2, MemoryAssumption DEF Depth
<1>1. PICK f : /\ f[0] = s /\ \A i \in 1..n : f[i] = EmitPush(f[i - 1], vs[i])
               /\ Pushed(s, vs) = f[n]
  BY <1>0, PushedUnfold
<1> DEFINE S == {k \in 0..n : Done(f[k], k)}
<1>2. Done(s, 0)
  <2>1. s.sp = p + 0 /\ \A a \in Int : ~ (a \in p..(p + 0 - 1))
    BY <1>0
  <2> HIDE DEF p
  <2> QED
    BY <2>1
<1> HIDE DEF n, vs, p
<1>3. ASSUME NEW k \in 0..(n - 1), Done(f[k], k) PROVE Done(f[k + 1], k + 1)
  <2> DEFINE t == f[k]
             u == f[k + 1]
  <2>1. u = EmitPush(t, vs[k + 1]) /\ vs[k + 1] \in Int
    <3>1. k + 1 \in 1..n /\ (k + 1) - 1 = k
      BY <1>0
    <3> QED
      BY <1>0, <1>1, <3>1
  <2>2. /\ t \in EmitState /\ t.sp = p + k /\ t.tmp = s.tmp /\ t.got = s.got
        /\ \A a \in 0..(MemSize - 1) :
              t.mem[a] = IF a \in p..(p + k - 1) THEN vs[a - p + 1] ELSE s.mem[a]
    BY <1>3
  <2> HIDE DEF t, u
  <2>3. t.sp < MemSize
    BY <1>0, <2>2
  <2>4. /\ u \in EmitState /\ u.sp = t.sp + 1 /\ u.tmp = t.tmp /\ u.got = t.got
        /\ \A a \in 0..(MemSize - 1) : u.mem[a] = IF a = t.sp THEN vs[k + 1] ELSE t.mem[a]
    BY <2>1, <2>2, <2>3, EmitPushIs
  <2>5. ASSUME NEW a \in 0..(MemSize - 1)
        PROVE  u.mem[a] = IF a \in p..(p + (k + 1) - 1) THEN vs[a - p + 1] ELSE s.mem[a]
    <3>1. CASE a = p + k
      <4>1. a - p + 1 = k + 1 /\ a \in p..(p + (k + 1) - 1)
        BY <1>0, <3>1
      <4> QED
        BY <2>2, <2>4, <3>1, <4>1
    <3>2. CASE a # p + k
      <4>1. a \in p..(p + (k + 1) - 1) <=> a \in p..(p + k - 1)
        BY <1>0, <3>2
      <4> QED
        BY <2>2, <2>4, <3>2, <4>1
    <3> QED
      BY <3>1, <3>2
  <2>6. u.sp = p + (k + 1)
    BY <1>0, <2>2, <2>4
  <2> QED
    BY <2>2, <2>4, <2>5, <2>6 DEF u
<1>4. Done(f[n], n)
  <2> HIDE DEF Done
  <2>1. 0 \in S /\ \A k \in 0..(n - 1) : k \in S => k + 1 \in S
    <3>1. 0 \in S
      BY <1>0, <1>1, <1>2
    <3>2. ASSUME NEW k \in 0..(n - 1), k \in S PROVE k + 1 \in S
      BY <1>0, <1>3, <3>2
    <3> QED
      BY <3>1, <3>2
  <2> HIDE DEF S
  <2>2. \A k \in 0..n : k \in S
    BY <1>0, <2>1, InductionUpTo
  <2>3. n \in 0..n
    BY <1>0
  <2>4. n \in S
    BY <2>2, <2>3
  <2> QED
    BY <2>4 DEF S
<1> DEFINE t == f[n]
           u == Flush(s)
<1>5. u = [t EXCEPT !.tmp = << >>]
  BY <1>1 DEF Flush, vs
<1>6. /\ t \in EmitState /\ t.sp = p + n /\ t.got = s.got
      /\ \A a \in 0..(MemSize - 1) :
            t.mem[a] = IF a \in p..(p + n - 1) THEN vs[a - p + 1] ELSE s.mem[a]
  BY <1>4
<1> HIDE DEF t, u
<1>7. u \in EmitState /\ u.sp = p + n /\ u.tmp = << >> /\ u.got = s.got /\ u.mem = t.mem
  <2>1. << >> \in Seq(Int)
    OBVIOUS
  <2>2. t \in EmitState
    BY <1>6
  <2>3. u \in EmitState /\ u.sp = t.sp /\ u.tmp = << >> /\ u.got = t.got /\ u.mem = t.mem
    BY <1>5, <2>1, <2>2 DEF EmitState
  <2> QED
    BY <1>6, <2>3
<1> DEFINE h == Held(s.mem, 0, p)
           w == Held(t.mem, 0, p + n)
<1>8. h \in Seq(Int) /\ Len(h) = p /\ \A i \in 1..p : h[i] = s.mem[i - 1]
  <2>1. p \in 0..MemSize
    BY <1>0
  <2> QED
    BY <1>0, <2>1, HeldFromBase
<1>9. w \in Seq(Int) /\ Len(w) = p + n /\ \A i \in 1..(p + n) : w[i] = t.mem[i - 1]
  <2>1. p + n \in 0..MemSize /\ t.mem \in Memories(MemSize)
    BY <1>0, <1>6 DEF EmitState
  <2> QED
    BY <1>0, <2>1, HeldFromBase
<1>10. ViewOf(s) = h \o vs /\ ViewOf(u) = w
  BY <1>7, ViewIs DEF vs, p
<1> HIDE DEF h, w
<1>11. h \o vs = w
  <2>1. /\ h \o vs \in Seq(Int) /\ Len(h \o vs) = p + n
        /\ \A i \in 1..(p + n) : (h \o vs)[i] = IF i <= p THEN h[i] ELSE vs[i - p]
    BY <1>0, <1>8, ConcatProperties DEF n
  <2>2. ASSUME NEW i \in 1..(p + n) PROVE (h \o vs)[i] = w[i]
    <3>1. i - 1 \in 0..(MemSize - 1)
      BY <1>0
    <3>2. w[i] = IF i - 1 \in p..(p + n - 1) THEN vs[(i - 1) - p + 1] ELSE s.mem[i - 1]
      BY <1>6, <1>9, <3>1
    <3>3. CASE i <= p
      BY <1>0, <1>8, <2>1, <3>2, <3>3
    <3>4. CASE ~ (i <= p)
      <4>1. i - 1 \in p..(p + n - 1) /\ (i - 1) - p + 1 = i - p
        BY <1>0, <3>4
      <4> QED
        BY <2>1, <3>2, <3>4, <4>1
    <3> QED
      BY <3>3, <3>4
  <2> QED
    BY <1>9, <2>1, <2>2, SameInts
<1>12. Depth(u) = Depth(s)
  BY <1>0, <1>7 DEF Depth
<1> QED
  BY <1>0, <1>7, <1>10, <1>11, <1>12 DEF u

-----------------------------------------------------------------------------
(* Picks and drop_ranges.                                                  *)

\* t stands for stack.
Makes(t, stack) == t \in EmitState /\ ViewOf(t) = stack

LEMMA PopsMake ==
    ASSUME NEW s, NEW t, NEW n, PopsMany(s, t, n) PROVE Makes(t, Pop(ViewOf(s), n))
BY DEF PopsMany, Makes

\* What t stands for, with pushes on top.
LEMMA MakesAndPushes ==
    ASSUME NEW t, NEW stack, Makes(t, stack), NEW vs \in Seq(Int)
    PROVE  Makes(PushTmp(t, vs), stack \o vs)
BY PushTmpIs DEF Makes

LEMMA PushIsConcat ==
    ASSUME NEW stack \in Seq(Int), NEW v \in Int
    PROVE  Push(stack, v) = stack \o <<v>> /\ <<v>> \in Seq(Int)
<1>1. <<v>> \in Seq(Int) /\ Push(<< >>, v) = <<v>> /\ << >> \in Seq(Int)
  BY DEF Push
<1>2. Push(stack \o << >>, v) = stack \o Push(<< >>, v)
  BY <1>1, TopIsLocal
<1>3. stack \o << >> = stack
  BY ConcatEmptySeq
<1> QED
  BY <1>1, <1>2, <1>3

LEMMA LoadedIs ==
    ASSUME NEW s \in EmitState, NEW a \in 0..(s.sp - 1)
    PROVE  LET t == Loaded(s, a)
           IN /\ t \in EmitState /\ t.tmp = s.tmp /\ t.sp = s.sp /\ t.mem = s.mem
              /\ t.got = Append(s.got, s.mem[a]) /\ s.mem[a] \in Int /\ Last(t.got) = s.mem[a]
<1> DEFINE t == Loaded(s, a)
<1>1. /\ s.mem \in Memories(MemSize) /\ s.low \in Int /\ s.got \in Seq(Int) /\ s.sp \in 0..MemSize
      /\ MemSize \in Nat
  BY MemoryAssumption DEF EmitState
<1>2. a \in 0..(MemSize - 1) /\ a \in Int
  BY <1>1
<1>3. /\ Load(s, a) = s.mem[a] /\ s.mem[a] \in Int
      /\ (s.wild \/ a \notin DOMAIN s.mem) = FALSE
  BY <1>1, <1>2 DEF Load, Memories, EmitState
<1>4. Append(s.got, s.mem[a]) \in Seq(Int) /\ Last(Append(s.got, s.mem[a])) = s.mem[a]
  BY <1>1, <1>3 DEF Last
<1>5. MinInt(s.low, a) \in Int
  BY <1>1, <1>2 DEF MinInt
<1>6. t = [s EXCEPT !.low = MinInt(@, a), !.got = Append(@, s.mem[a]), !.wild = FALSE]
  BY <1>3 DEF Loaded
<1> HIDE DEF t
<1>7. /\ t \in EmitState /\ t.tmp = s.tmp /\ t.sp = s.sp /\ t.mem = s.mem
      /\ t.got = Append(s.got, s.mem[a])
  BY <1>4, <1>5, <1>6 DEF EmitState
<1> QED
  BY <1>3, <1>4, <1>7 DEF t

LEMMA PickConstIs ==
    ASSUME NEW s \in EmitState, NEW n \in 1..Depth(s)
    PROVE  Makes(PickConst(s, n), Push(ViewOf(s), FromTop(ViewOf(s), n)))
<1> DEFINE top == FromTop(ViewOf(s), n)
           d == Depth(s)
           m == Len(s.tmp)
<1>1. ViewOf(s) \in Seq(Int) /\ Len(ViewOf(s)) = d /\ d \in Nat /\ m \in Nat /\ s.sp \in Nat
      /\ d = s.sp + m
  BY ViewIs DEF Depth
<1>2. top \in Int
  BY <1>1, FromTopIsInt
<1>3. top = IF n <= m THEN FromTop(s.tmp, n) ELSE s.mem[d - n]
  BY TopOfView
<1> HIDE DEF top, d, m
<1>4. Push(ViewOf(s), top) = ViewOf(s) \o <<top>> /\ <<top>> \in Seq(Int)
  BY <1>1, <1>2, PushIsConcat
<1>0. n \in 1..d
  BY DEF d
<1> SUFFICES Makes(PickConst(s, n), Push(ViewOf(s), top))
  BY DEF top
<1>5. CASE n <= m
  <2>1. PickConst(s, n) = PushTmp(s, <<top>>)
    BY <1>3, <1>5 DEF PickConst, m
  <2>2. Makes(s, ViewOf(s))
    BY DEF Makes
  <2> QED
    BY <1>4, <2>1, <2>2, MakesAndPushes
<1>6. CASE ~ (n <= m)
  <2>1. s.sp - (n - m) = d - n /\ d - n \in 0..(s.sp - 1)
    <3>1. n \in Int /\ n <= s.sp + m /\ n > m
      BY <1>0, <1>1, <1>6
    <3> QED
      BY <1>1, <3>1
  <2> DEFINE t == Loaded(s, d - n)
  <2>2. /\ t \in EmitState /\ t.tmp = s.tmp /\ t.sp = s.sp /\ t.mem = s.mem
        /\ Last(t.got) = s.mem[d - n]
    BY <2>1, LoadedIs
  <2>3. PickConst(s, n) = PushTmp(t, <<top>>)
    BY <1>3, <1>6, <2>1, <2>2 DEF PickConst, m
  <2> HIDE DEF t
  <2>4. ViewOf(t) = ViewOf(s)
    BY <2>2 DEF ViewOf
  <2>5. Makes(t, ViewOf(s))
    BY <2>2, <2>4 DEF Makes
  <2> QED
    BY <1>4, <2>3, <2>5, MakesAndPushes
<1> QED
  BY <1>5, <1>6

LEMMA EmitPushView ==
    ASSUME NEW s \in EmitState, s.tmp = << >>, s.sp < MemSize, NEW v \in Int
    PROVE  EmitPush(s, v) \in EmitState /\ ViewOf(EmitPush(s, v)) = Push(ViewOf(s), v)
<1> DEFINE t == EmitPush(s, v)
           p == s.sp
           u == Held(t.mem, 0, p)
           w == Held(t.mem, p, p + 1)
<1>1. /\ t \in EmitState /\ t.sp = p + 1 /\ t.tmp = << >>
      /\ \A a \in 0..(MemSize - 1) : t.mem[a] = IF a = p THEN v ELSE s.mem[a]
  BY EmitPushIs
<1> HIDE DEF t
<1>2. /\ p \in Nat /\ p \in 0..MemSize /\ p + 1 \in p..MemSize /\ MemSize \in Nat
      /\ t.mem \in Memories(MemSize) /\ s.mem \in Memories(MemSize)
  BY <1>1, MemoryAssumption DEF EmitState
<1>3. ViewOf(t) = Held(t.mem, 0, p + 1) /\ ViewOf(s) = Held(s.mem, 0, p)
  BY <1>1, ViewIs
<1>4. Held(t.mem, 0, p + 1) = u \o w
  BY <1>2, HeldSplits
<1>5. u = Held(s.mem, 0, p) /\ u \in Seq(Int)
  <2>1. /\ u \in Seq(Int) /\ Len(u) = p /\ \A i \in 1..p : u[i] = t.mem[i - 1]
    BY <1>2, HeldFromBase
  <2> DEFINE h == Held(s.mem, 0, p)
  <2>2. h \in Seq(Int) /\ Len(h) = p /\ \A i \in 1..p : h[i] = s.mem[i - 1]
    BY <1>2, HeldFromBase
  <2>3. ASSUME NEW i \in 1..p PROVE t.mem[i - 1] = s.mem[i - 1]
    <3>1. i - 1 \in 0..(MemSize - 1) /\ i - 1 # p
      BY <1>2
    <3> QED
      BY <1>1, <3>1
  <2> HIDE DEF u, h
  <2>4. \A i \in 1..p : u[i] = h[i]
    BY <2>1, <2>2, <2>3
  <2>5. u = h
    BY <2>1, <2>2, <2>4, SameInts
  <2> QED
    BY <2>1, <2>5 DEF h
<1>6. w = <<v>>
  <2>1. /\ w \in Seq(Int) /\ Len(w) = (p + 1) - p
        /\ \A i \in 1..((p + 1) - p) : w[i] = t.mem[p + i - 1]
    BY <1>2, HeldIsSeq
  <2>2. (p + 1) - p = 1 /\ p + 1 - 1 = p /\ p \in 0..(MemSize - 1)
    BY <1>2
  <2> HIDE DEF w
  <2>3. w[1] = t.mem[p] /\ t.mem[p] = v
    <3>1. 1 \in 1..((p + 1) - p)
      BY <2>2
    <3>2. w[1] = t.mem[p + 1 - 1]
      BY <2>1, <3>1
    <3> QED
      BY <1>1, <2>2, <3>2
  <2>4. Len(w) = 1 /\ w \in Seq(Int)
    BY <2>1, <2>2
  <2> QED
    BY <2>3, <2>4
<1> QED
  BY ZenonT(40), <1>1, <1>3, <1>4, <1>5, <1>6, PushIsConcat DEF t

LEMMA PickDynamicIs ==
    ASSUME NEW s \in EmitState, s.got = << >>, Depth(s) \in 1..MemSize,
           NEW b \in 1..(Depth(s) - 1), b = FromTop(ViewOf(s), 1)
    PROVE  /\ PickDynamic(s) \in EmitState
           /\ ViewOf(PickDynamic(s)) = Push(Pop(ViewOf(s), 1), FromTop(Pop(ViewOf(s), 1), b))
<1> DEFINE t == Flush(XPop(s))
           d == Depth(s)
           p == d - 1
           u == Loaded(t, p - b)
           v == t.mem[p - b]
<1>1. d \in Nat /\ d <= MemSize /\ d # 0 /\ MemSize \in Nat /\ b \in Nat \ {0} /\ b <= p
  BY MemoryAssumption
<1>2. /\ XPop(s) \in EmitState /\ ViewOf(XPop(s)) = Pop(ViewOf(s), 1) /\ Depth(XPop(s)) = p
      /\ XPop(s).got = Append(<< >>, b)
  BY <1>1, XPopIs DEF PopsOne
<1>3. /\ t \in EmitState /\ ViewOf(t) = Pop(ViewOf(s), 1) /\ t.tmp = << >> /\ t.sp = p
      /\ Depth(t) = p /\ t.got = Append(<< >>, b)
  <2>1. p <= MemSize
    BY <1>1
  <2> HIDE DEF p
  <2> QED
    BY <1>2, <2>1, FlushIs
<1>4. t.got[1] = b
  BY <1>1, <1>3
<1> HIDE DEF t
<1>5. p - b \in 0..(t.sp - 1) /\ p < MemSize /\ b \in 1..p
  BY <1>1, <1>3
<1>6. v = FromTop(ViewOf(t), b)
  <2>1. FromTop(ViewOf(t), b) = IF b <= Len(t.tmp) THEN FromTop(t.tmp, b) ELSE t.mem[Depth(t) - b]
    BY <1>3, <1>5, TopOfView
  <2>2. ~ (b <= Len(t.tmp))
    BY <1>1, <1>3
  <2> QED
    BY <1>3, <2>1, <2>2
<1> HIDE DEF p
<1>7. /\ u \in EmitState /\ u.tmp = << >> /\ u.sp = p /\ u.mem = t.mem /\ Last(u.got) = v
      /\ v \in Int
  BY <1>3, <1>5, LoadedIs
<1>8. PickDynamic(s) = EmitPush(u, v)
  BY <1>3, <1>4, <1>7 DEF PickDynamic, t, u
<1> HIDE DEF u, v
<1>9. ViewOf(u) = ViewOf(t)
  BY <1>3, <1>7 DEF ViewOf
<1>10. EmitPush(u, v) \in EmitState /\ ViewOf(EmitPush(u, v)) = Push(ViewOf(u), v)
  BY <1>5, <1>7, EmitPushView
<1> QED
  BY <1>3, <1>6, <1>8, <1>9, <1>10

LEMMA ReverseIs ==
    ASSUME NEW vs \in Seq(Int)
    PROVE  /\ Reverse(vs) \in Seq(Int) /\ Len(Reverse(vs)) = Len(vs)
           /\ \A i \in 1..Len(vs) : Reverse(vs)[i] = vs[Len(vs) - i + 1]
<1> DEFINE n == Len(vs)
           rev == [i \in 1..n |-> vs[(n - i) + 1]]
<1>1. n \in Nat
  OBVIOUS
<1>2. ASSUME NEW i \in 1..n PROVE vs[(n - i) + 1] \in Int
  <2>1. (n - i) + 1 \in 1..n
    BY <1>1
  <2> QED
    BY <2>1
<1>3. Reverse(vs) = rev
  BY DEF Reverse
<1> HIDE DEF n
<1>4. rev \in Seq(Int) /\ Len(rev) = n /\ \A i \in 1..n : rev[i] = vs[(n - i) + 1]
  BY <1>1, <1>2
<1> QED
  BY <1>3, <1>4 DEF n

LEMMA DropRangeConstIs ==
    ASSUME NEW s \in EmitState, s.got = << >>,
           NEW start \in 0..Depth(s), NEW amt \in 0..start
    PROVE  Makes(DropRangeConst(s, start, amt), RemoveRange(ViewOf(s), start, amt))
<1> DEFINE v == ViewOf(s)
           d == Depth(s)
           m == start - amt
           t == XPops(s, m)
           u == Times(amt, XPopNoValue, t)
           below == Pop(v, start)
           kept == Reverse(t.got)
<1>1. /\ v \in Seq(Int) /\ Len(v) = d /\ d \in Nat /\ start \in Nat /\ amt \in Nat
      /\ m \in Nat /\ m + amt = start /\ m \in 0..d /\ amt \in 0..(d - m) /\ start <= d
  <2>1. v \in Seq(Int) /\ Len(v) = d /\ d \in Nat
    BY ViewIs
  <2> QED
    BY <2>1
<1>2. /\ PopsMany(s, t, m) /\ t.got \in Seq(Int) /\ Len(t.got) = m
      /\ \A i \in 1..m : t.got[i] = FromTop(v, i)
  <2> HIDE DEF m
  <2> QED
    BY <1>1, XPopsIs
<1> HIDE DEF t, v
<1>3. t \in EmitState /\ ViewOf(t) = Pop(v, m) /\ Depth(t) = d - m
  BY <1>2 DEF PopsMany, v
<1>4. PopsMany(t, u, amt)
  <2> HIDE DEF u, d, m
  <2>1. amt \in 0..Depth(t)
    BY <1>1, <1>3
  <2> QED
    BY <1>3, <2>1, DropsIs DEF u
<1> HIDE DEF u
<1>5. Makes(u, below)
  <2>1. u \in EmitState /\ ViewOf(u) = Pop(ViewOf(t), amt)
    BY <1>4 DEF PopsMany
  <2>2. Pop(Pop(v, m), amt) = Pop(v, m + amt)
    <3>1. m \in 0..Len(v) /\ amt \in 0..(Len(v) - m)
      BY <1>1
    <3> HIDE DEF m
    <3> QED
      BY <1>1, <3>1, PopTwice
  <2>3. ViewOf(u) = below
    BY <1>1, <1>3, <2>1, <2>2
  <2> QED
    BY <2>1, <2>3 DEF Makes
<1>6. /\ kept \in Seq(Int) /\ Len(kept) = m /\ \A i \in 1..m : kept[i] = t.got[m - i + 1]
  BY <1>2, ReverseIs
<1>7. Makes(PushTmp(u, kept), below \o kept)
  <2> HIDE DEF kept, below
  <2> QED
    BY <1>5, <1>6, MakesAndPushes
<1>8. DropRangeConst(s, start, amt) = PushTmp(u, kept)
  BY DEF DropRangeConst, u, t, kept
<1> DEFINE all == RemoveRange(v, start, amt)
<1>9. /\ all \in Seq(Int) /\ Len(all) = d - amt
      /\ \A i \in 1..(d - amt) : all[i] = IF i <= d - start THEN v[i] ELSE v[i + amt]
  <2>1. start \in 0..Len(v)
    BY <1>1
  <2> QED
    BY <1>1, <2>1, RemoveRangeIsSeq
<1>10. below \in Seq(Int) /\ Len(below) = d - start /\ \A i \in 1..(d - start) : below[i] = v[i]
  <2>1. start \in 0..Len(v)
    BY <1>1
  <2> QED
    BY <1>1, <2>1, PopIsSeq
<1> HIDE DEF kept, below, all, d
<1>11. /\ below \o kept \in Seq(Int) /\ Len(below \o kept) = d - amt
       /\ \A i \in 1..(d - amt) :
             (below \o kept)[i] = IF i <= d - start THEN below[i] ELSE kept[i - (d - start)]
  <2>1. (d - start) + m = d - amt
    BY <1>1
  <2> DEFINE l == d - start
             n == d - amt
  <2>2. Len(below) = l /\ Len(kept) = m /\ l + m = n /\ below \in Seq(Int) /\ kept \in Seq(Int)
    BY <1>6, <1>10, <2>1
  <2> HIDE DEF m, l, n
  <2>3. /\ below \o kept \in Seq(Int) /\ Len(below \o kept) = Len(below) + Len(kept)
        /\ \A i \in 1..(Len(below) + Len(kept)) :
              (below \o kept)[i] = IF i <= Len(below) THEN below[i] ELSE kept[i - Len(below)]
    BY <2>2, ConcatProperties
  <2>4. /\ below \o kept \in Seq(Int) /\ Len(below \o kept) = n
        /\ \A i \in 1..n : (below \o kept)[i] = IF i <= l THEN below[i] ELSE kept[i - l]
    BY <2>2, <2>3
  <2> QED
    BY <2>4 DEF l, n
<1>12. ASSUME NEW i \in 1..(d - amt) PROVE (below \o kept)[i] = all[i]
  <2>1. CASE i <= d - start
    <3>1. i \in 1..(d - start)
      BY <1>1, <2>1
    <3> QED
      BY <1>9, <1>10, <1>11, <2>1, <3>1
  <2>2. CASE ~ (i <= d - start)
    <3> DEFINE j == i - (d - start)
               k == m - j + 1
    <3>1. j \in 1..m /\ k \in 1..m /\ d - k + 1 = i + amt
      BY <1>1, <2>2
    <3> HIDE DEF j, m
    <3>2. kept[j] = t.got[k] /\ t.got[k] = FromTop(v, k)
      BY <1>2, <1>6, <3>1
    <3>3. FromTop(v, k) = v[i + amt]
      BY <1>1, <3>1 DEF FromTop
    <3> QED
      BY <1>9, <1>11, <2>2, <3>2, <3>3 DEF j
  <2> QED
    BY <2>1, <2>2
<1>13. below \o kept = all
  BY <1>9, <1>11, <1>12, SameInts
<1> QED
  BY <1>7, <1>8, <1>13 DEF all, v

LEMMA DropRangeDynamicIs ==
    ASSUME NEW s \in EmitState, s.got = << >>, Depth(s) \in 2..MemSize,
           NEW start \in 0..(Depth(s) - 2), start = FromTop(ViewOf(s), 2),
           NEW amount \in 0..start, amount = FromTop(ViewOf(s), 1)
    PROVE  /\ DropRangeDynamic(s) \in EmitState
           /\ ViewOf(DropRangeDynamic(s)) = RemoveRange(Pop(ViewOf(s), 2), start, amount)
<1> DEFINE q == XPops(s, 2)
           t == Flush(q)
           p == Depth(s) - 2
           dst == p - start
           moved == dst..(p - amount - 1)
           new == [a \in DOMAIN t.mem |-> IF a \in moved THEN Load(t, a + amount) ELSE t.mem[a]]
           low == MinInt(t.low, MinInt(dst, dst + amount))
           r == [t EXCEPT !.sp = @ - amount, !.low = low, !.mem = new, !.wild = FALSE]
<1>1. /\ Depth(s) \in Nat /\ Depth(s) <= MemSize /\ MemSize \in Nat /\ p \in Nat /\ p <= MemSize
      /\ start \in Nat /\ amount \in Nat /\ dst \in Nat /\ 2 \in 0..Depth(s)
      /\ p \in 0..MemSize /\ start \in 0..p /\ amount \in 0..start
  BY MemoryAssumption
<1>2. /\ q \in EmitState /\ ViewOf(q) = Pop(ViewOf(s), 2) /\ Depth(q) = p
      /\ q.got[1] = amount /\ q.got[2] = start
  BY SMTT(30), <1>1, XPopsIs DEF PopsMany
<1> HIDE DEF q, p
<1>3. /\ t \in EmitState /\ ViewOf(t) = Pop(ViewOf(s), 2) /\ t.tmp = << >> /\ t.sp = p
      /\ t.got = q.got
  BY <1>1, <1>2, FlushIs
<1>4. DropRangeDynamic(s) = r
  <2>1. t.wild = FALSE /\ t.mem \in [0..(MemSize - 1) -> Int]
    BY <1>3 DEF EmitState, Memories
  <2>2. ~ (start < amount)
    BY <1>1
  <2>3. ASSUME NEW a \in moved PROVE {a, a + amount} \ DOMAIN t.mem = {}
    <3>1. a \in 0..(MemSize - 1) /\ a + amount \in 0..(MemSize - 1)
      BY SMTT(30), <1>1
    <3> QED
      BY <2>1, <3>1
  <2>4. /\ t.got[1] = amount /\ t.got[2] = start /\ t.sp - start = dst
        /\ t.sp - amount - 1 = p - amount - 1
    BY <1>2, <1>3
  <2> DEFINE out == t.wild \/ start < amount \/ \E a \in moved : {a, a + amount} \ DOMAIN t.mem # {}
  <2>5. out = FALSE
    <3> HIDE DEF moved, dst
    <3> QED
      BY <2>1, <2>2, <2>3
  <2>6. DropRangeDynamic(s) = [t EXCEPT !.sp = @ - amount, !.low = low, !.mem = new, !.wild = out]
    <3>1. t = Flush(XPops(s, 2))
      BY DEF q
    <3> HIDE DEF t
    <3> QED
      BY <2>1, <2>4, <3>1 DEF DropRangeDynamic
  <2> QED
    BY <2>5, <2>6
<1> HIDE DEF t
<1>5. t.mem \in Memories(MemSize) /\ t.low \in Int
  BY <1>3 DEF EmitState
<1>6. new \in Memories(MemSize)
  <2>1. ASSUME NEW a PROVE Load(t, a) \in Int
    BY <1>5, MemoryAssumption DEF Load, Memories
  <2> HIDE DEF moved
  <2> QED
    BY <1>5, <2>1 DEF Memories
<1>7. ASSUME NEW a \in 0..(p - amount - 1)
      PROVE  new[a] = IF a < p - start THEN t.mem[a] ELSE t.mem[a + amount]
  <2>1. a \in Nat /\ a <= p - amount - 1
    BY <1>1
  <2>2. a \in 0..(MemSize - 1) /\ a + amount \in 0..(MemSize - 1)
    BY SMTT(30), <1>1, <2>1
  <2>3. (a \in moved) <=> ~ (a < p - start)
    BY SMTT(30), <1>1, <2>1
  <2> HIDE DEF moved
  <2>4. new[a] = IF a \in moved THEN Load(t, a + amount) ELSE t.mem[a]
    BY <1>5, <2>2 DEF Memories
  <2>5. Load(t, a + amount) = t.mem[a + amount]
    BY <1>5, <2>2 DEF Load, Memories
  <2> QED
    BY <2>3, <2>4, <2>5
<1>11. low \in Int
  BY <1>1, <1>5 DEF MinInt
<1> HIDE DEF new, dst, low
<1>8. /\ r \in EmitState /\ r.sp = p - amount /\ r.tmp = << >> /\ r.mem = new
  <2>1. p - amount \in 0..MemSize
    BY <1>1
  <2> QED
    BY <1>3, <1>6, <1>11, <2>1 DEF EmitState
<1> HIDE DEF r
<1>9. ViewOf(r) = Held(new, 0, p - amount) /\ ViewOf(t) = Held(t.mem, 0, p)
  <2>1. ViewOf(r) = Held(r.mem, 0, r.sp)
    BY <1>8, ViewIs, Zenon
  <2>2. ViewOf(t) = Held(t.mem, 0, t.sp)
    BY <1>3, ViewIs, Zenon
  <2> QED
    BY <1>3, <1>8, <2>1, <2>2, Zenon
<1>10. Held(new, 0, p - amount) = RemoveRange(Held(t.mem, 0, p), start, amount)
  <2> DEFINE m == t.mem
  <2>1. /\ MemSize \in Nat /\ m \in Memories(MemSize) /\ new \in Memories(MemSize)
        /\ p \in 0..MemSize /\ start \in 0..p /\ amount \in 0..start
    BY <1>1, <1>5, <1>6, Zenon
  <2>2. \A a \in 0..(p - amount - 1) : new[a] = IF a < p - start THEN m[a] ELSE m[a + amount]
    BY <1>7
  <2> HIDE DEF m
  <2>3. Held(new, 0, p - amount) = RemoveRange(Held(m, 0, p), start, amount)
    BY ZenonT(60), <2>1, <2>2, MovedDown
  <2> QED
    BY <2>3 DEF m
<1> QED
  BY <1>3, <1>4, <1>8, <1>9, <1>10

-----------------------------------------------------------------------------
(* What is emitted for an instruction does what the instruction does.      *)

\* The instructions in a block, calls apart.
InBody == {x \in Instr(Names) : /\ x.op \notin ControlOps \cup {"call"}
                                /\ x.op = "arith" => "it" \in DOMAIN x}

\* What they do when compiled (Outcomes), and where they make a failure noticed.
Compiled(x, stack) ==
    IF x.op = "write8" /\ Len(stack) >= 2 THEN {Executed(Pop(stack, 2))}
    ELSE IF /\ x = Arith("rem") /\ Len(stack) >= 2
            /\ Overflows("rem", FromTop(stack, 2), FromTop(stack, 1))
    THEN {Executed(Push(Pop(stack, 2), 0))}
    ELSE Exec(x, stack)

NoneMissing(x, o) ==
    o.tag \notin {"missing", "badpick", "baddrop", "wild"} /\ ~ (x.op = "write8" /\ o.tag = "panic")

Checked(x, stack) == \A o \in Compiled(x, stack) : NoneMissing(x, o)

\* e is what x does to the stack of s.
Does(x, s, e) ==
    \E o \in Compiled(x, ViewOf(s)) : o.tag = e.tag /\ e.s \in EmitState /\ ViewOf(e.s) = o.st

BodyOps == {"lit", "width", "arith", "swap", "rot", "drop", "print", "write", "write8",
            "read", "syscall", "quit", "rpick", "pick", "rdrop", "droprange"}

LEMMA BodyFields ==
    ASSUME NEW x \in InBody
    PROVE  /\ x.op \in BodyOps
           /\ x.op = "lit" => x.n \in Int
           /\ x.op = "rpick" => x.n \in Nat \ {0}
           /\ x.op = "rdrop" => x.s \in Nat /\ x.a \in 0..x.s
           /\ x.op = "arith" => "it" \in DOMAIN x /\ x.it \in ArithOps /\ x = Arith(x.it)
<1>1. CASE x.op = "arith"
  <2>1. x \in [op : {"arith"}, it : ArithOps]
    BY <1>1 DEF InBody, Instr, ParsedInstr, ResolvedInstr, FixedOps
  <2> QED
    BY <1>1, <2>1 DEF Arith, BodyOps
<1>2. CASE x.op # "arith"
  BY <1>2 DEF InBody, Instr, ParsedInstr, ResolvedInstr, FixedOps, ControlOps, BodyOps
<1> QED
  BY <1>1, <1>2

LEMMA CheckedIs ==
    ASSUME NEW x \in InBody, NEW stack \in Seq(Int), Checked(x, stack)
    PROVE  /\ ~ (Len(stack) < Pops[x.op])
           /\ x.op = "write8" => Compiled(x, stack) = {Executed(Pop(stack, 2))}
           /\ x.op # "write8" => ~ FailsEarly(x, stack)
           /\ x.op \notin {"write8", "arith"} => Compiled(x, stack) = Exec(x, stack)
<1> DEFINE failed == Outcome(IF x.op = "write8" THEN "panic" ELSE "baddrop", Pop(stack, 1))
           missing == Outcome("missing", << >>)
<1>1. /\ failed.tag = (IF x.op = "write8" THEN "panic" ELSE "baddrop")
      /\ missing.tag = "missing"
  BY DEF Outcome
<1>2. /\ FailsEarly(x, stack) => failed \in Exec(x, stack)
      /\ ~ FailsEarly(x, stack) /\ Len(stack) < Pops[x.op] => missing \in Exec(x, stack)
  BY DEF Exec
<1> HIDE DEF failed, missing
<1>3. Len(stack) \in Nat
  OBVIOUS
<1>4. ASSUME Compiled(x, stack) = Exec(x, stack)
      PROVE  ~ FailsEarly(x, stack) /\ ~ (Len(stack) < Pops[x.op])
  BY <1>1, <1>2, <1>4 DEF Checked, NoneMissing
<1>5. CASE x.op = "write8"
  <2>1. Pops[x.op] = 2 /\ x # Arith("rem")
    BY <1>5 DEF Pops, Arith
  <2>2. CASE Len(stack) >= 2
    BY <1>3, <1>5, <2>1, <2>2 DEF Compiled
  <2>3. CASE ~ (Len(stack) >= 2)
    <3>1. Compiled(x, stack) = Exec(x, stack)
      BY <2>1, <2>3 DEF Compiled
    <3> QED
      BY <1>3, <1>4, <2>1, <2>3, <3>1
  <2> QED
    BY <2>2, <2>3
<1>6. CASE x.op = "arith"
  <2>1. Pops[x.op] = 2 /\ ~ FailsEarly(x, stack)
    BY <1>6 DEF Pops, FailsEarly
  <2>2. ~ (Len(stack) < 2)
    <3> SUFFICES ASSUME Len(stack) < 2 PROVE FALSE
      OBVIOUS
    <3>1. Compiled(x, stack) = Exec(x, stack)
      BY <1>3, <1>6 DEF Compiled
    <3> QED
      BY <1>4, <2>1, <3>1
  <2> QED
    BY <1>6, <2>1, <2>2
<1>7. CASE x.op \notin {"write8", "arith"}
  <2>1. Compiled(x, stack) = Exec(x, stack)
    BY <1>7 DEF Compiled, Arith
  <2> QED
    BY <1>4, <1>7, <2>1
<1> QED
  BY <1>5, <1>6, <1>7

\* The operands of x are there, in the order they are popped.
LEMMA OperandsPopped ==
    ASSUME NEW s \in EmitState, s.got = << >>, NEW x \in InBody, Checked(x, ViewOf(s))
    PROVE  LET n == Pops[x.op]
               t == XPops(s, n)
           IN /\ n \in 0..Depth(s) /\ n \in Nat
              /\ Makes(t, Pop(ViewOf(s), n)) /\ Makes(s, ViewOf(s))
              /\ \A i \in 1..n : t.got[i] = FromTop(ViewOf(s), i) /\ t.got[i] \in Int
              /\ ViewOf(s) \in Seq(Int) /\ Len(ViewOf(s)) = Depth(s) /\ Depth(s) \in Nat
              /\ Pop(ViewOf(s), n) \in Seq(Int)
<1> DEFINE n == Pops[x.op]
<1>1. ViewOf(s) \in Seq(Int) /\ Len(ViewOf(s)) = Depth(s) /\ Depth(s) \in Nat
  BY ViewIs
<1>2. n \in Nat
  BY BodyFields DEF BodyOps, Pops
<1>3. n <= Depth(s)
  <2>1. ~ (Len(ViewOf(s)) < n)
    BY <1>1, CheckedIs
  <2> HIDE DEF n
  <2> QED
    BY <1>1, <1>2, <2>1
<1> HIDE DEF n
<1>4. n \in 0..Depth(s)
  BY <1>1, <1>2, <1>3
<1>5. /\ PopsMany(s, XPops(s, n), n)
      /\ \A i \in 1..n : XPops(s, n).got[i] = FromTop(ViewOf(s), i)
  BY <1>4, XPopsIs
<1>6. ASSUME NEW i \in 1..n PROVE FromTop(ViewOf(s), i) \in Int
  <2>1. i \in 1..Len(ViewOf(s))
    BY <1>1, <1>4
  <2> QED
    BY <1>1, <2>1, FromTopIsInt
<1>7. Makes(XPops(s, n), Pop(ViewOf(s), n))
  BY <1>5, PopsMake
<1>8. Makes(s, ViewOf(s))
  BY DEF Makes
<1>9. Pop(ViewOf(s), n) \in Seq(Int)
  <2>1. n \in 0..Len(ViewOf(s))
    BY <1>1, <1>4
  <2> QED
    BY <1>1, <2>1, PopIsSeq
<1> QED
  BY <1>1, <1>2, <1>4, <1>5, <1>6, <1>7, <1>8, <1>9 DEF n

\* How an outcome is reached: s is made into e.s.
LEMMA DoneByMaking ==
    ASSUME NEW x, NEW s, NEW e, NEW o \in Compiled(x, ViewOf(s)), o.tag = e.tag, Makes(e.s, o.st)
    PROVE  Does(x, s, e)
BY DEF Does, Makes

\* ... by popping the operands and pushing vs.
LEMMA DoneByPushing ==
    ASSUME NEW s, NEW x, NEW e, NEW t, NEW stack, Makes(t, stack),
           NEW vs \in Seq(Int), e.s = PushTmp(t, vs), e.tag = "executed",
           Executed(stack \o vs) \in Compiled(x, ViewOf(s))
    PROVE  Does(x, s, e)
<1> DEFINE o == Executed(stack \o vs)
<1>1. o.tag = e.tag /\ o.st = stack \o vs
  BY DEF Executed, Outcome
<1> HIDE DEF o
<1>2. Makes(e.s, o.st)
  BY <1>1, MakesAndPushes
<1> QED
  BY <1>1, <1>2, DoneByMaking DEF o

LEMMA PushersDo ==
    ASSUME NEW s \in EmitState, s.got = << >>, NEW x \in InBody, Checked(x, ViewOf(s)),
           NEW e \in Emitted(x, s), x.op \in {"lit", "width", "read", "syscall"}
    PROVE  Does(x, s, e)
<1> DEFINE v == ViewOf(s)
           n == Pops[x.op]
           t == XPops(s, n)
           u == Pop(v, n)
<1>1. /\ Makes(t, u) /\ Makes(s, v) /\ v \in Seq(Int) /\ u \in Seq(Int)
      /\ ~ FailsEarly(x, v) /\ ~ (Len(v) < n)
  BY OperandsPopped, CheckedIs
<1>2. Compiled(x, v) = Exec(x, v)
  BY <1>1, CheckedIs
<1>4. \A w \in Int : Push(u, w) = u \o <<w>> /\ <<w>> \in Seq(Int)
  BY <1>1, PushIsConcat
<1>5. CASE x.op \in {"lit", "width"}
  <2> DEFINE w == IF x.op = "lit" THEN x.n ELSE WidthNative
  <2>1. w \in Int /\ e = [tag |-> "executed", s |-> PushTmp(s, <<w>>)]
    BY <1>5, BodyFields DEF Emitted, WidthNative
  <2>2. Executed(Push(v, w)) \in Exec(x, v)
    BY <1>1, <1>5 DEF Exec
  <2> HIDE DEF w, v, u, n
  <2>3. Push(v, w) = v \o <<w>> /\ <<w>> \in Seq(Int)
    BY <1>1, <2>1, PushIsConcat
  <2>4. e.s = PushTmp(s, <<w>>) /\ e.tag = "executed"
    BY <2>1
  <2>5. Executed(v \o <<w>>) \in Exec(x, v)
    BY <2>2, <2>3
  <2> QED
    BY <1>1, <1>2, <2>3, <2>4, <2>5, DoneByPushing DEF v
<1>6. CASE x.op \in {"read", "syscall"}
  <2>1. PICK w \in Values : e = [tag |-> "executed", s |-> PushTmp(t, <<w>>)]
    BY <1>6 DEF Emitted
  <2>2. w \in Int
    BY ValuesAssumption
  <2>3. Executed(Push(u, w)) \in Exec(x, v)
    BY <1>1, <1>6 DEF Exec, Pops
  <2> HIDE DEF v, u, t, n
  <2>4. e.s = PushTmp(t, <<w>>) /\ e.tag = "executed"
    BY <2>1
  <2>5. Executed(u \o <<w>>) \in Exec(x, v) /\ <<w>> \in Seq(Int)
    BY <1>4, <2>2, <2>3
  <2> QED
    BY <1>1, <1>2, <2>4, <2>5, DoneByPushing DEF v
<1> QED
  BY <1>5, <1>6

LEMMA PoppersDo ==
    ASSUME NEW s \in EmitState, s.got = << >>, NEW x \in InBody, Checked(x, ViewOf(s)),
           NEW e \in Emitted(x, s), x.op \in {"print", "write", "write8", "drop", "quit"}
    PROVE  Does(x, s, e)
<1> DEFINE v == ViewOf(s)
           n == Pops[x.op]
           t == XPops(s, n)
           u == Pop(v, n)
<1>1. /\ Makes(t, u) /\ Makes(s, v) /\ v \in Seq(Int)
      /\ ~ (Len(v) < n) /\ n \in 0..Depth(s)
  BY OperandsPopped, CheckedIs
<1>2. x.op # "write8" => Compiled(x, v) = Exec(x, v) /\ ~ FailsEarly(x, v)
  BY <1>1, CheckedIs
<1>3. CASE x.op \in {"print", "write", "write8"}
  <2>1. e = [tag |-> "executed", s |-> t]
    BY <1>3 DEF Emitted
  <2> DEFINE o == Executed(u)
  <2>2. o \in Compiled(x, v)
    <3>1. CASE x.op = "write8"
      <4>1. Compiled(x, v) = {Executed(Pop(v, 2))} /\ n = 2
        BY <1>1, <3>1, CheckedIs DEF Pops
      <4> HIDE DEF n
      <4> QED
        BY <4>1
    <3>2. CASE x.op # "write8"
      <4>1. o \in Exec(x, v)
        BY <1>1, <1>2, <1>3, <3>2 DEF Exec, Pops
      <4> QED
        BY <1>2, <3>2, <4>1
    <3> QED
      BY <3>1, <3>2
  <2>3. o.tag = e.tag /\ e.s = t /\ o.st = u
    BY <2>1 DEF Executed, Outcome
  <2> HIDE DEF v, u, t, n, o
  <2> QED
    BY <1>1, <2>2, <2>3, DoneByMaking DEF v
<1>4. CASE x.op = "drop"
  <2> DEFINE r == XPopNoValue(s)
  <2>1. e = [tag |-> "executed", s |-> r]
    BY <1>4 DEF Emitted
  <2>2. n = 1 /\ Depth(s) # 0
    BY <1>1, <1>4 DEF Pops
  <2> DEFINE o == Executed(u)
  <2>3. o \in Compiled(x, v)
    <3>1. o \in Exec(x, v)
      BY <1>1, <1>2, <1>4 DEF Exec, Pops
    <3> QED
      BY <1>2, <1>4, <3>1
  <2>4. o.tag = e.tag /\ e.s = r /\ o.st = u
    BY <2>1 DEF Executed, Outcome
  <2>5. Makes(r, u)
    <3>1. PopsOne(s, r)
      BY <2>2, XPopNoValueIs
    <3> HIDE DEF r, n
    <3> QED
      BY <2>2, <3>1 DEF PopsOne, Makes
  <2> HIDE DEF v, u, t, n, o, r
  <2> QED
    BY <2>3, <2>4, <2>5, DoneByMaking DEF v
<1>5. CASE x.op = "quit"
  <2>1. e = [tag |-> "quit", s |-> s] /\ n = 0
    BY <1>5 DEF Emitted, Pops
  <2> DEFINE o == Outcome("quit", v)
  <2>2. o \in Compiled(x, v)
    <3>1. o \in Exec(x, v)
      BY <1>1, <1>2, <1>5 DEF Exec
    <3> QED
      BY <1>2, <1>5, <3>1
  <2>3. o.tag = e.tag /\ e.s = s /\ o.st = v
    BY <2>1 DEF Outcome
  <2> HIDE DEF v, u, t, n, o
  <2> QED
    BY <1>1, <2>1, <2>2, <2>3, DoneByMaking DEF v
<1> QED
  BY <1>3, <1>4, <1>5

LEMMA ShufflersDo ==
    ASSUME NEW s \in EmitState, s.got = << >>, NEW x \in InBody, Checked(x, ViewOf(s)),
           NEW e \in Emitted(x, s), x.op \in {"swap", "rot"}
    PROVE  Does(x, s, e)
<1> DEFINE v == ViewOf(s)
           n == Pops[x.op]
           t == XPops(s, n)
           u == Pop(v, n)
           a == FromTop(v, 2)
           b == FromTop(v, 1)
           c == FromTop(v, 3)
           vs == IF x.op = "swap" THEN <<b, a>> ELSE <<a, b, c>>
<1>9. v \in Seq(Int)
  BY OperandsPopped
<1>1. /\ Makes(t, u) /\ ~ FailsEarly(x, v) /\ ~ (Len(v) < n)
      /\ \A i \in 1..n : t.got[i] = FromTop(v, i) /\ t.got[i] \in Int
  BY <1>9, OperandsPopped, CheckedIs
<1>2. Compiled(x, v) = Exec(x, v)
  BY <1>9, CheckedIs
<1>3. n = IF x.op = "swap" THEN 2 ELSE 3
  BY DEF Pops
<1>4. /\ t.got[1] = b /\ t.got[2] = a /\ a \in Int /\ b \in Int
      /\ x.op = "rot" => t.got[3] = c /\ c \in Int
  <2> HIDE DEF n, t, v
  <2> QED
    BY <1>1, <1>3
<1>5. vs \in Seq(Int)
  <2> HIDE DEF a, b, c
  <2> QED
    BY <1>4
<1>6. Executed(u \o vs) \in Exec(x, v)
  <2>1. CASE x.op = "swap"
    BY <1>1, <2>1 DEF Exec, Pops
  <2>2. CASE x.op = "rot"
    BY <1>1, <2>2 DEF Exec, Pops
  <2> QED
    BY <2>1, <2>2
<1>7. e = [tag |-> "executed", s |-> PushTmp(t, vs)]
  <2>1. CASE x.op = "swap"
    <3>1. e = [tag |-> "executed", s |-> PushTmp(t, <<t.got[1], t.got[2]>>)]
      BY <2>1 DEF Emitted
    <3> HIDE DEF t, a, b, c
    <3> QED
      BY <1>4, <2>1, <3>1
  <2>2. CASE x.op = "rot"
    <3>1. e = [tag |-> "executed", s |-> PushTmp(t, <<t.got[2], t.got[1], t.got[3]>>)]
      BY <2>2 DEF Emitted
    <3> HIDE DEF t, a, b, c
    <3> QED
      BY <1>4, <2>2, <3>1
  <2> QED
    BY <2>1, <2>2
<1> HIDE DEF v, t, u, vs, n
<1>8. e.s = PushTmp(t, vs) /\ e.tag = "executed"
  BY <1>7
<1> QED
  BY <1>1, <1>2, <1>5, <1>6, <1>8, DoneByPushing DEF v

\* An operation that is Checked ends as the compiled one, which leaves the
\* cases out that no operands it is given can have.
LEMMA ArithEndsAs ==
    ASSUME NEW it \in ArithOps, NEW stack, NEW a \in Int, NEW b \in Int,
           it = "rem" => b = 0 \/ ~ Overflows("rem", a, b)
    PROVE  LET outcomes == ArithOutcomes(Arith(it), stack, a, b)
               tag == ArithEnds(it, a, b)
           IN /\ tag = "executed" => Executed(Push(stack, ArithResult(it, a, b))) \in outcomes
                                     /\ ArithResult(it, a, b) \in Int
              /\ tag # "executed" => Outcome(tag, stack) \in outcomes
<1> DEFINE x == Arith(it)
           tag == ArithEnds(it, a, b)
           result == Executed(Push(stack, ArithResult(it, a, b)))
<1>1. "it" \in DOMAIN x /\ x.it = it
  BY DEF Arith
<1>2. CASE it \in {"add", "sub", "mul", "lt"}
  <2>1. tag = "executed"
    BY <1>2 DEF ArithEnds
  <2>2. result \in ArithOutcomes(x, stack, a, b)
    BY <1>1, <1>2 DEF ArithOutcomes
  <2>3. ArithResult(it, a, b) \in Int
    BY <1>2, ResultIsInt
  <2> QED
    BY <2>1, <2>2, <2>3
<1>3. CASE it \in {"div", "rem"}
  <2>1. CASE b = 0 \/ Overflows(it, a, b)
    <3>1. tag = "panic"
      BY <1>3, <2>1 DEF ArithEnds
    <3>2. Outcome("panic", stack) \in ArithOutcomes(x, stack, a, b)
      BY <1>1, <1>3, <2>1 DEF ArithOutcomes
    <3> QED
      BY <3>1, <3>2
  <2>2. CASE ~ (b = 0 \/ Overflows(it, a, b))
    <3>1. tag = "executed"
      BY <1>3, <2>2 DEF ArithEnds
    <3>2. result \in ArithOutcomes(x, stack, a, b)
      BY <1>1, <1>3, <2>2 DEF ArithOutcomes
    <3>3. ArithResult(it, a, b) \in Int
      BY <1>3, <2>2, ResultIsInt
    <3> QED
      BY <3>1, <3>2, <3>3
  <2> QED
    BY <2>1, <2>2
<1>4. CASE it = "pow"
  <2>1. Exponents \subseteq Nat
    BY DEF Exponents
  <2>2. CASE b \in Exponents
    <3>1. tag = "executed"
      BY <1>4, <2>2 DEF ArithEnds
    <3>2. result \in ArithOutcomes(x, stack, a, b)
      BY <1>1, <1>4, <2>2 DEF ArithOutcomes
    <3>3. ArithResult(it, a, b) \in Int
      BY <1>4, <2>1, <2>2, ResultIsInt
    <3> QED
      BY <3>1, <3>2, <3>3
  <2>3. CASE b \notin Exponents
    <3>1. tag = "badexponent"
      BY <1>4, <2>3 DEF ArithEnds
    <3>2. Outcome("badexponent", stack) \in ArithOutcomes(x, stack, a, b)
      BY <1>1, <1>4, <2>3 DEF ArithOutcomes
    <3> QED
      BY <3>1, <3>2
  <2> QED
    BY <2>2, <2>3
<1> QED
  BY <1>2, <1>3, <1>4 DEF ArithOps

\* The smallest number % -1, by a division that does not overflow.
LEMMA RemOfLeast ==
    ASSUME NEW a \in Int, NEW b \in Int, Overflows("rem", a, b)
    PROVE  b # 0 /\ ArithResult("rem", a, b) = 0
<1>1. a = LeastValue /\ b = -1
  BY DEF Overflows
<1>2. a < 0
  <2>1. Bits - 1 \in Nat
    BY BitsAssumption
  <2> DEFINE n == TwoTo(Bits - 1)
  <2>2. n \in Nat \ {0} /\ LeastValue = -n
    BY <2>1, TwoToIsPositive DEF LeastValue
  <2> HIDE DEF n
  <2>3. n \in Int /\ n > 0
    BY <2>2
  <2> QED
    BY <1>1, <2>2, <2>3
<1>3. Quotient(a, b) = -a
  <2>3. b = -1
    BY <1>1
  <2>4. b < 0
    BY <2>3
  <2>5. -b = 1
    <3>1. b + 1 = 0
      BY <2>3
    <3> QED
      BY <3>1
  <2>1. Magnitude(a) = -a /\ Magnitude(b) = 1
    BY <1>2, <2>4, <2>5 DEF Magnitude
  <2>2. (-a) \div 1 = -a
    OBVIOUS
  <2> QED
    BY <1>1, <1>2, <2>1, <2>2 DEF Quotient
<1>4. ArithResult("rem", a, b) = a - b * Quotient(a, b)
  BY DEF ArithResult
<1>5. a - b * (-a) = 0
  BY <1>1
<1> QED
  BY <1>1, <1>3, <1>4, <1>5

LEMMA ArithDoes ==
    ASSUME NEW s \in EmitState, s.got = << >>, NEW x \in InBody, Checked(x, ViewOf(s)),
           NEW e \in Emitted(x, s), x.op = "arith"
    PROVE  Does(x, s, e)
<1> DEFINE v == ViewOf(s)
           n == 2
           t == XPops(s, n)
           u == Pop(v, n)
           a == FromTop(v, 2)
           b == FromTop(v, 1)
           it == x.it
           tag == ArithEnds(it, a, b)
           r == ArithResult(it, a, b)
<1>2. v \in Seq(Int) /\ Len(v) \in Nat
  BY OperandsPopped
<1>1. /\ Makes(t, u) /\ ~ FailsEarly(x, v) /\ ~ (Len(v) < 2) /\ u \in Seq(Int)
      /\ \A i \in 1..n : t.got[i] = FromTop(v, i) /\ t.got[i] \in Int
  <2>1. Pops[x.op] = n
    BY DEF Pops
  <2> QED
    BY <1>2, <2>1, OperandsPopped, CheckedIs
<1>3. t.got[1] = b /\ t.got[2] = a /\ a \in Int /\ b \in Int
  <2> HIDE DEF t, v
  <2> QED
    BY <1>1
<1>4. it \in ArithOps /\ x = Arith(it)
  BY BodyFields
<1>5. Exec(x, v) = ArithOutcomes(x, u, a, b)
  BY <1>1 DEF Exec, Pops
<1> DEFINE zero == x = Arith("rem") /\ Overflows("rem", a, b)
<1>11. Compiled(x, v) = IF zero THEN {Executed(Push(u, 0))} ELSE Exec(x, v)
  <2>1. Len(v) >= 2
    BY <1>1, <1>2
  <2> QED
    BY <2>1 DEF Compiled
<1>6. e = [tag |-> tag, s |-> IF tag = "executed" THEN PushTmp(t, <<r>>) ELSE t]
  <2>1. e = EmitArith(s, it)
    BY DEF Emitted
  <2>2. EmitArith(s, it)
          = [tag |-> ArithEnds(it, t.got[2], t.got[1]),
             s |-> IF ArithEnds(it, t.got[2], t.got[1]) = "executed"
                   THEN PushTmp(t, <<ArithResult(it, t.got[2], t.got[1])>>) ELSE t]
    BY DEF EmitArith
  <2> HIDE DEF t, a, b
  <2> QED
    BY <1>3, <2>1, <2>2
<1>7. ~ zero => (it = "rem" => b = 0 \/ ~ Overflows("rem", a, b))
  BY <1>4
<1>12. zero => tag = "executed" /\ r = 0
  <2> SUFFICES ASSUME zero PROVE tag = "executed" /\ r = 0
    OBVIOUS
  <2>1. it = "rem"
    BY <1>4 DEF Arith
  <2> HIDE DEF a, b, it
  <2> QED
    BY <1>3, <2>1, RemOfLeast DEF ArithEnds
<1> HIDE DEF v, t, u, a, b, r, tag, it, zero
<1>8. /\ tag = "executed" => Executed(Push(u, r)) \in Compiled(x, v) /\ r \in Int
      /\ tag # "executed" => Outcome(tag, u) \in Compiled(x, v)
  <2>1. CASE zero
    BY <1>11, <1>12, <2>1
  <2>2. CASE ~ zero
    <3>1. /\ tag = "executed" => Executed(Push(u, r)) \in ArithOutcomes(x, u, a, b) /\ r \in Int
          /\ tag # "executed" => Outcome(tag, u) \in ArithOutcomes(x, u, a, b)
      BY <1>3, <1>4, <1>7, <2>2, ArithEndsAs DEF tag, r
    <3> QED
      BY <1>5, <1>11, <2>2, <3>1
  <2> QED
    BY <2>1, <2>2
<1>9. CASE tag = "executed"
  <2>1. Push(u, r) = u \o <<r>> /\ <<r>> \in Seq(Int)
    BY <1>1, <1>8, <1>9, PushIsConcat
  <2>2. Executed(u \o <<r>>) \in Compiled(x, v)
    BY <1>8, <1>9, <2>1
  <2>3. e.s = PushTmp(t, <<r>>) /\ e.tag = "executed"
    BY <1>6, <1>9
  <2> QED
    BY <1>1, <2>1, <2>2, <2>3, DoneByPushing DEF v
<1>10. CASE tag # "executed"
  <2> DEFINE o == Outcome(tag, u)
  <2>1. o \in Compiled(x, v) /\ o.tag = e.tag /\ e.s = t /\ o.st = u
    BY <1>6, <1>8, <1>10 DEF Outcome
  <2> HIDE DEF o
  <2> QED
    BY <1>1, <2>1, DoneByMaking DEF v
<1> QED
  BY <1>9, <1>10

LEMMA ResolvedDo ==
    ASSUME NEW s \in EmitState, s.got = << >>, NEW x \in InBody, Checked(x, ViewOf(s)),
           NEW e \in Emitted(x, s), x.op \in {"rpick", "rdrop"}
    PROVE  Does(x, s, e)
<1> DEFINE v == ViewOf(s)
<1>4. v \in Seq(Int)
  BY OperandsPopped
<1>1. /\ ~ FailsEarly(x, v) /\ ~ (Len(v) < Pops[x.op]) /\ Len(v) = Depth(s) /\ Depth(s) \in Nat
      /\ Compiled(x, v) = Exec(x, v)
  BY <1>4, OperandsPopped, CheckedIs
<1>2. CASE x.op = "rpick"
  <2>1. x.n \in Nat \ {0} /\ Exec(x, v) = {PickFrom(v, x.n)}
    BY <1>1, <1>2, BodyFields DEF Exec
  <2>2. ~ (x.n > Len(v))
    <3> SUFFICES ASSUME x.n > Len(v) PROVE FALSE
      OBVIOUS
    <3>1. PickFrom(v, x.n).tag = "wild"
      BY DEF PickFrom, Outcome
    <3> QED
      BY <1>1, <2>1, <3>1 DEF Checked, NoneMissing
  <2> DEFINE o == Executed(Push(v, FromTop(v, x.n)))
             r == PickConst(s, x.n)
  <2>3. o \in Exec(x, v)
    BY <2>1, <2>2 DEF PickFrom
  <2>4. e = [tag |-> "executed", s |-> r]
    BY <1>2 DEF Emitted
  <2>5. o.tag = e.tag /\ e.s = r /\ o.st = Push(v, FromTop(v, x.n))
    BY <2>4 DEF Executed, Outcome
  <2>6. x.n \in 1..Depth(s)
    BY <1>1, <2>1, <2>2
  <2>7. Makes(r, Push(v, FromTop(v, x.n)))
    BY <2>6, PickConstIs
  <2> HIDE DEF v, o, r
  <2> QED
    BY <1>1, <2>3, <2>5, <2>7, DoneByMaking DEF v
<1>3. CASE x.op = "rdrop"
  <2>1. x.s \in Nat /\ x.a \in 0..x.s /\ Exec(x, v) = {DropRangeFrom(v, x.s, x.a)}
    BY <1>1, <1>3, BodyFields DEF Exec
  <2>2. ~ (x.s > Len(v))
    <3> SUFFICES ASSUME x.s > Len(v) PROVE FALSE
      OBVIOUS
    <3>1. DropRangeFrom(v, x.s, x.a).tag = "wild"
      BY DEF DropRangeFrom, Outcome
    <3> QED
      BY <1>1, <2>1, <3>1 DEF Checked, NoneMissing
  <2> DEFINE o == Executed(RemoveRange(v, x.s, x.a))
             r == DropRangeConst(s, x.s, x.a)
  <2>3. o \in Exec(x, v)
    BY <2>1, <2>2 DEF DropRangeFrom
  <2>4. e = [tag |-> "executed", s |-> r]
    BY <1>3 DEF Emitted
  <2>5. o.tag = e.tag /\ e.s = r /\ o.st = RemoveRange(v, x.s, x.a)
    BY <2>4 DEF Executed, Outcome
  <2>6. x.s \in 0..Depth(s)
    BY <1>1, <2>1, <2>2
  <2>7. Makes(r, RemoveRange(v, x.s, x.a))
    BY <2>1, <2>6, DropRangeConstIs
  <2> HIDE DEF v, o, r
  <2> QED
    BY <1>1, <2>3, <2>5, <2>7, DoneByMaking DEF v
<1> QED
  BY <1>2, <1>3

LEMMA DynamicDo ==
    ASSUME NEW s \in EmitState, s.got = << >>, NEW x \in InBody, Checked(x, ViewOf(s)),
           NEW e \in Emitted(x, s), x.op \in {"pick", "droprange"}, Depth(s) <= MemSize
    PROVE  Does(x, s, e)
<1> DEFINE v == ViewOf(s)
           d == Depth(s)
           b == FromTop(v, 1)
           a == FromTop(v, 2)
<1>2. v \in Seq(Int)
  BY OperandsPopped
<1>5. Compiled(x, v) = Exec(x, v)
  BY <1>2, CheckedIs
<1>1. /\ ~ FailsEarly(x, v) /\ ~ (Len(v) < Pops[x.op]) /\ Len(v) = d /\ d \in Nat
      /\ \A i \in 1..Pops[x.op] : FromTop(v, i) \in Int
      /\ Makes(XPops(s, Pops[x.op]), Pop(v, Pops[x.op])) /\ v \in Seq(Int)
  BY <1>2, OperandsPopped, CheckedIs
<1>3. CASE x.op = "pick"
  <2> DEFINE st1 == Pop(v, 1)
             r == PickDynamic(s)
  <2>1. b \in Int /\ Pops[x.op] = 1
    BY <1>1, <1>3 DEF Pops
  <2>2. Exec(x, v) = {IF b <= 0 THEN Outcome("badpick", st1) ELSE PickFrom(st1, b)}
    BY <1>1, <1>3 DEF Exec
  <2>3. ~ (b <= 0)
    <3> SUFFICES ASSUME b <= 0 PROVE FALSE
      OBVIOUS
    <3>1. Outcome("badpick", st1) \in Exec(x, v) /\ Outcome("badpick", st1).tag = "badpick"
      BY <2>2 DEF Outcome
    <3> QED
      BY <1>5, <3>1 DEF Checked, NoneMissing
  <2>4. Len(st1) = d - 1 /\ d >= 1
    <3>1. d >= 1 /\ 1 \in 0..Len(v)
      BY <1>1, <2>1
    <3> HIDE DEF v
    <3> QED
      BY <1>1, <3>1, PopIsSeq
  <2>5. ~ (b > Len(st1))
    <3> SUFFICES ASSUME b > Len(st1) PROVE FALSE
      OBVIOUS
    <3>1. PickFrom(st1, b).tag = "wild" /\ PickFrom(st1, b) \in Exec(x, v)
      BY <2>2, <2>3 DEF PickFrom, Outcome
    <3> QED
      BY <1>5, <3>1 DEF Checked, NoneMissing
  <2> DEFINE o == Executed(Push(st1, FromTop(st1, b)))
  <2>6. o \in Exec(x, v)
    BY <2>2, <2>3, <2>5 DEF PickFrom
  <2>7. e = [tag |-> "executed", s |-> r]
    BY <1>3 DEF Emitted
  <2>8. o.tag = e.tag /\ e.s = r /\ o.st = Push(st1, FromTop(st1, b))
    BY <2>7 DEF Executed, Outcome
  <2>9. r \in EmitState /\ ViewOf(r) = Push(st1, FromTop(st1, b))
    <3>1. d \in 1..MemSize /\ b \in 1..(d - 1)
      BY <1>1, <2>1, <2>3, <2>4, <2>5, MemoryAssumption
    <3> QED
      BY <3>1, PickDynamicIs
  <2> HIDE DEF v, o, r
  <2> QED
    BY <1>5, <2>6, <2>8, <2>9 DEF Does, v
<1>4. CASE x.op = "droprange"
  <2> DEFINE st2 == Pop(v, 2)
             r == DropRangeDynamic(s)
  <2>1. b \in Int /\ a \in Int /\ Pops[x.op] = 2
    BY <1>1, <1>4 DEF Pops
  <2>2. Exec(x, v) = {IF a < 0 \/ b > a THEN Outcome("baddrop", st2) ELSE DropRangeFrom(st2, a, b)}
    BY <1>1, <1>4 DEF Exec
  <2>3. ~ (a < 0 \/ b > a)
    <3> SUFFICES ASSUME a < 0 \/ b > a PROVE FALSE
      OBVIOUS
    <3>1. Outcome("baddrop", st2) \in Exec(x, v) /\ Outcome("baddrop", st2).tag = "baddrop"
      BY <2>2 DEF Outcome
    <3> QED
      BY <1>5, <3>1 DEF Checked, NoneMissing
  <2>4. Len(st2) = d - 2 /\ d >= 2
    BY <1>1, <2>1, PopIsSeq
  <2>5. ~ (a > Len(st2))
    <3> SUFFICES ASSUME a > Len(st2) PROVE FALSE
      OBVIOUS
    <3>1. DropRangeFrom(st2, a, b).tag = "wild" /\ DropRangeFrom(st2, a, b) \in Exec(x, v)
      BY <2>2, <2>3 DEF DropRangeFrom, Outcome
    <3> QED
      BY <1>5, <3>1 DEF Checked, NoneMissing
  <2>6. b >= 0
    BY <1>1, <1>4, <2>1, <2>4 DEF FailsEarly, IsUsize
  <2> DEFINE o == Executed(RemoveRange(st2, a, b))
  <2>7. o \in Exec(x, v)
    BY <2>2, <2>3, <2>5 DEF DropRangeFrom
  <2>8. e = [tag |-> "executed", s |-> r]
    BY <1>4 DEF Emitted
  <2>9. o.tag = e.tag /\ e.s = r /\ o.st = RemoveRange(st2, a, b)
    BY <2>8 DEF Executed, Outcome
  <2>10. r \in EmitState /\ ViewOf(r) = RemoveRange(st2, a, b)
    <3>1. d \in 2..MemSize /\ a \in 0..(d - 2) /\ b \in 0..a
      BY <1>1, <2>1, <2>3, <2>4, <2>5, <2>6, MemoryAssumption
    <3> QED
      BY <3>1, DropRangeDynamicIs
  <2> HIDE DEF v, o, r
  <2> QED
    BY <1>5, <2>7, <2>9, <2>10 DEF Does, v
<1> QED
  BY <1>3, <1>4

LEMMA EmittedDoes ==
    ASSUME NEW s \in EmitState, s.got = << >>, Depth(s) <= MemSize,
           NEW x \in InBody, Checked(x, ViewOf(s)), NEW e \in Emitted(x, s)
    PROVE  Does(x, s, e)
BY BodyFields, PushersDo, PoppersDo, ShufflersDo, ArithDoes, ResolvedDo, DynamicDo DEF BodyOps

\* How an instruction that is Checked ends, and how deep the stack can be then.
LEMMA OutcomeIs ==
    ASSUME NEW x \in InBody, NEW stack \in Seq(Int), Checked(x, stack),
           NEW o \in Compiled(x, stack)
    PROVE  /\ o.st \in Seq(Int) /\ Len(o.st) <= Len(stack) + 1
           /\ o.tag \in {"executed", "quit", "panic", "badexponent"}
<1> DEFINE n == Len(stack)
           k == Pops[x.op]
           u == Pop(stack, k)
<1>0. /\ n \in Nat /\ k \in Nat /\ ~ (n < k) /\ (x.op # "write8" => ~ FailsEarly(x, stack))
      /\ x.op \notin {"write8", "arith"} => o \in Exec(x, stack)
  BY BodyFields, CheckedIs DEF BodyOps, Pops
<1>1. u \in Seq(Int) /\ Len(u) = n - k
  <2>1. k \in 0..Len(stack)
    BY <1>0
  <2> HIDE DEF k
  <2> QED
    BY <2>1, PopIsSeq
<1>2. ASSUME NEW v \in Int PROVE Push(u, v) \in Seq(Int) /\ Len(Push(u, v)) = n - k + 1
  BY <1>1, <1>2, StackLemma
<1>3. \A st : Executed(st).tag = "executed" /\ Executed(st).st = st
  BY DEF Executed, Outcome
<1>4. \A tag, st : Outcome(tag, st).tag = tag /\ Outcome(tag, st).st = st
  BY DEF Outcome
<1>5. \A i \in 1..k : FromTop(stack, i) \in Int
  <2>1. ASSUME NEW i \in 1..k PROVE i \in 1..Len(stack)
    BY <1>0
  <2> HIDE DEF k
  <2> QED
    BY <2>1, FromTopIsInt
<1>6. CASE x.op \in {"lit", "width", "read", "syscall"}
  <2>1. k = (IF x.op = "read" THEN 1 ELSE IF x.op = "syscall" THEN 7 ELSE 0) /\ x.op # "quit"
    BY <1>6 DEF Pops
  <2>2. Pop(stack, 0) = stack
    BY StackLemma
  <2>3. \E v \in Int : o = Executed(Push(u, v))
    <3>1. CASE x.op \in {"lit", "width"}
      <4>1. o = Executed(Push(stack, IF x.op = "lit" THEN x.n ELSE WidthNative))
        BY <1>0, <3>1 DEF Exec
      <4>2. u = stack
        BY <2>1, <2>2, <3>1
      <4>3. (IF x.op = "lit" THEN x.n ELSE WidthNative) \in Int
        BY BodyFields DEF WidthNative
      <4> HIDE DEF u
      <4> QED
        BY <4>1, <4>2, <4>3
    <3>2. CASE x.op \in {"read", "syscall"}
      BY <1>0, <3>2, ValuesAssumption DEF Exec, Pops
    <3> QED
      BY <1>6, <3>1, <3>2
  <2> HIDE DEF u, k, n
  <2>4. o.tag = "executed" /\ o.st \in Seq(Int) /\ Len(o.st) = n - k + 1
    BY <1>2, <1>3, <2>3
  <2> QED
    BY <1>0, <2>4 DEF n
<1>7. CASE x.op \in {"print", "write", "write8", "drop"}
  <2>1. k = (IF x.op \in {"print", "drop"} THEN 1 ELSE 2) /\ x.op # "quit"
    BY <1>7 DEF Pops
  <2>2. o = Executed(u)
    <3>1. CASE x.op = "write8"
      <4>1. o = Executed(Pop(stack, 2)) /\ k = 2
        BY <2>1, <3>1, CheckedIs
      <4> HIDE DEF k
      <4> QED
        BY <4>1
    <3>2. CASE x.op # "write8"
      BY <1>0, <1>7, <3>2 DEF Exec, Pops
    <3> QED
      BY <3>1, <3>2
  <2> HIDE DEF u, k, n
  <2>3. o.tag = "executed" /\ o.st \in Seq(Int) /\ Len(o.st) = n - k
    BY <1>1, <1>3, <2>2
  <2> QED
    BY <1>0, <2>3 DEF n
<1>8. CASE x.op = "quit"
  <2>1. o = Outcome("quit", stack)
    BY <1>0, <1>8 DEF Exec
  <2> QED
    BY <1>0, <1>4, <1>8, <2>1
<1>9. CASE x.op \in {"swap", "rot"}
  <2>1. k = (IF x.op = "swap" THEN 2 ELSE 3)
    BY <1>9 DEF Pops
  <2> DEFINE a == FromTop(stack, 2)
             b == FromTop(stack, 1)
             c == FromTop(stack, 3)
             vs == IF x.op = "swap" THEN <<b, a>> ELSE <<a, b, c>>
  <2>2. o = Executed(u \o vs)
    BY <1>0, <1>9 DEF Exec, Pops
  <2>3. a \in Int /\ b \in Int /\ (x.op = "rot" => c \in Int)
    <3> HIDE DEF k
    <3> QED
      BY <1>5, <1>9, <2>1
  <2>4. vs \in Seq(Int) /\ Len(vs) = k
    <3> HIDE DEF a, b, c, k
    <3> QED
      BY <1>9, <2>1, <2>3
  <2> HIDE DEF u, k, n, vs
  <2>5. u \o vs \in Seq(Int) /\ Len(u \o vs) = (n - k) + k
    BY <1>1, <2>4, ConcatProperties
  <2> DEFINE w == u \o vs
  <2>8. (n - k) + k = n
    BY <1>0
  <2>6. o.tag = "executed" /\ o.st \in Seq(Int) /\ Len(o.st) = n
    <3>1. w \in Seq(Int) /\ Len(w) = n /\ o = Executed(w)
      BY <2>2, <2>5, <2>8
    <3> HIDE DEF w
    <3> QED
      BY <1>3, <3>1
  <2> QED
    BY <1>0, <2>6 DEF n
<1>10. CASE x.op = "arith"
  <2> DEFINE it == x.it
             a == FromTop(stack, 2)
             b == FromTop(stack, 1)
             r == ArithResult(it, a, b)
  <2>1. k = 2 /\ it \in ArithOps /\ "it" \in DOMAIN x
    BY <1>10, BodyFields DEF Pops
  <2>2. a \in Int /\ b \in Int
    <3> HIDE DEF k
    <3> QED
      BY <1>5, <2>1
  <2>3. o = Executed(Push(u, 0)) \/ o \in ArithOutcomes(x, u, a, b)
    <3>1. o = Executed(Push(u, 0)) \/ o \in Exec(x, stack)
      BY <1>10, <2>1 DEF Compiled
    <3>2. Exec(x, stack) = ArithOutcomes(x, u, a, b)
      BY <1>0, <1>10, <2>1 DEF Exec, Pops
    <3> QED
      BY <3>1, <3>2
  <2>4. ASSUME o \in ArithOutcomes(x, u, a, b)
        PROVE  \/ o = Executed(Push(u, r)) /\ r \in Int
               \/ o = Outcome("panic", u) \/ o = Outcome("badexponent", u)
    <3> HIDE DEF u, a, b, it
    <3>1. CASE it \in {"add", "sub", "mul", "lt"}
      <4>1. r \in Int
        BY <2>2, <3>1, ResultIsInt DEF ArithOps
      <4> HIDE DEF r
      <4> QED
        BY <2>1, <2>4, <3>1, <4>1 DEF ArithOutcomes, r, it
    <3>2. CASE it \in {"div", "rem"}
      <4>1. b # 0 => r \in Int
        BY <2>2, <3>2, ResultIsInt DEF ArithOps
      <4> HIDE DEF r
      <4> QED
        BY <2>1, <2>4, <3>2, <4>1 DEF ArithOutcomes, r, it
    <3>3. CASE it = "pow"
      <4>1. Exponents \subseteq Nat
        BY DEF Exponents
      <4>2. b \in Exponents => r \in Int
        BY <2>2, <3>3, <4>1, ResultIsInt DEF ArithOps
      <4> HIDE DEF r
      <4> QED
        BY <2>1, <2>4, <3>3, <4>2 DEF ArithOutcomes, r, it
    <3> QED
      BY <2>1, <3>1, <3>2, <3>3 DEF ArithOps
  <2> HIDE DEF u, r, k, n
  <2>5. ASSUME NEW w \in Int, o = Executed(Push(u, w))
        PROVE  o.tag = "executed" /\ o.st \in Seq(Int) /\ Len(o.st) <= n + 1
    <3>1. o.tag = "executed" /\ o.st \in Seq(Int) /\ Len(o.st) = n - k + 1
      BY <1>2, <1>3, <2>5
    <3> QED
      BY <1>0, <3>1
  <2>6. CASE o = Outcome("panic", u) \/ o = Outcome("badexponent", u)
    <3>1. o.tag \in {"panic", "badexponent"} /\ o.st \in Seq(Int) /\ Len(o.st) = n - k
      BY <1>1, <1>4, <2>6
    <3> QED
      BY <1>0, <3>1 DEF n
  <2> QED
    BY <2>3, <2>4, <2>5, <2>6 DEF n
<1>11. CASE x.op \in {"rpick", "pick"}
  <2> DEFINE m == IF x.op = "rpick" THEN x.n ELSE FromTop(stack, 1)
  <2>1. k = (IF x.op = "rpick" THEN 0 ELSE 1)
    BY <1>11 DEF Pops
  <2>2. m \in Int
    <3> HIDE DEF k
    <3> QED
      BY <1>5, <1>11, <2>1, BodyFields
  <2>3. Pop(stack, 0) = stack
    BY StackLemma
  <2>4. o.tag # "badpick" => o = PickFrom(u, m) /\ m > 0
    <3>1. CASE x.op = "rpick"
      <4>1. u = stack
        BY <2>1, <2>3, <3>1
      <4>2. o = PickFrom(stack, x.n)
        BY <1>0, <3>1 DEF Exec
      <4> HIDE DEF u
      <4> QED
        BY <3>1, <4>1, <4>2, BodyFields
    <3>2. CASE x.op = "pick"
      <4>1. o = IF FromTop(stack, 1) <= 0 THEN Outcome("badpick", u)
                ELSE PickFrom(u, FromTop(stack, 1))
        BY <1>0, <3>2 DEF Exec, Pops
      <4>2. m = FromTop(stack, 1)
        BY <3>2
      <4> HIDE DEF u, m
      <4> QED
        BY <1>4, <2>2, <4>1, <4>2
    <3> QED
      BY <1>11, <3>1, <3>2
  <2>5. o.tag \notin {"badpick", "wild"}
    BY DEF Checked, NoneMissing
  <2> HIDE DEF u, m, k, n
  <2>6. o = Executed(Push(u, FromTop(u, m))) /\ m \in 1..Len(u)
    <3>1. ~ (m > Len(u))
      BY <1>4, <2>4, <2>5 DEF PickFrom
    <3> QED
      BY <1>0, <1>1, <2>2, <2>4, <2>5, <3>1 DEF PickFrom
  <2>7. FromTop(u, m) \in Int
    BY <1>1, <2>6, FromTopIsInt
  <2>8. o.tag = "executed" /\ o.st \in Seq(Int) /\ Len(o.st) = n - k + 1
    BY <1>2, <1>3, <2>6, <2>7
  <2> QED
    BY <1>0, <2>8 DEF n
<1>12. CASE x.op \in {"rdrop", "droprange"}
  <2> DEFINE start == IF x.op = "rdrop" THEN x.s ELSE FromTop(stack, 2)
             amt == IF x.op = "rdrop" THEN x.a ELSE FromTop(stack, 1)
  <2>1. k = (IF x.op = "rdrop" THEN 0 ELSE 2)
    BY <1>12 DEF Pops
  <2>2. start \in Int /\ amt \in Int /\ amt >= 0
    <3>1. CASE x.op = "rdrop"
      BY <3>1, BodyFields
    <3>2. CASE x.op = "droprange"
      <4>1. FromTop(stack, 2) \in Int /\ FromTop(stack, 1) \in Int
        <5> HIDE DEF k
        <5> QED
          BY <1>5, <2>1, <3>2
      <4>2. Len(stack) > 0
        BY <1>0, <2>1, <3>2
      <4> QED
        BY <1>0, <3>2, <4>1, <4>2 DEF FailsEarly, IsUsize
    <3> QED
      BY <1>12, <3>1, <3>2
  <2>3. Pop(stack, 0) = stack
    BY StackLemma
  <2>4. o.tag # "baddrop" => o = DropRangeFrom(u, start, amt) /\ start >= 0 /\ amt <= start
    <3>1. CASE x.op = "rdrop"
      <4>1. u = stack
        BY <2>1, <2>3, <3>1
      <4>2. o = DropRangeFrom(stack, x.s, x.a)
        BY <1>0, <3>1 DEF Exec
      <4> HIDE DEF u
      <4> QED
        BY <3>1, <4>1, <4>2, BodyFields
    <3>2. CASE x.op = "droprange"
      <4>1. o = IF FromTop(stack, 2) < 0 \/ FromTop(stack, 1) > FromTop(stack, 2)
                THEN Outcome("baddrop", u) ELSE DropRangeFrom(u, FromTop(stack, 2), FromTop(stack, 1))
        BY <1>0, <3>2 DEF Exec, Pops
      <4> HIDE DEF u
      <4>2. start = FromTop(stack, 2) /\ amt = FromTop(stack, 1)
        BY <3>2
      <4> HIDE DEF start, amt
      <4> QED
        BY <1>4, <2>2, <4>1, <4>2
    <3> QED
      BY <1>12, <3>1, <3>2
  <2>5. o.tag \notin {"baddrop", "wild"}
    BY DEF Checked, NoneMissing
  <2> HIDE DEF u, start, amt, k, n
  <2>7. /\ o = Executed(RemoveRange(u, start, amt)) /\ start \in 0..Len(u) /\ amt \in 0..start
        /\ Len(u) \in Nat
    <3>1. ~ (start > Len(u))
      BY <1>4, <2>4, <2>5 DEF DropRangeFrom
    <3> QED
      BY <1>0, <1>1, <2>2, <2>4, <2>5, <3>1 DEF DropRangeFrom
  <2>8. RemoveRange(u, start, amt) \in Seq(Int) /\ Len(RemoveRange(u, start, amt)) = Len(u) - amt
    BY <1>1, <2>7, RemoveRangeIsSeq
  <2>9. o.tag = "executed" /\ o.st \in Seq(Int) /\ Len(o.st) = (n - k) - amt
    BY <1>1, <1>3, <2>7, <2>8
  <2> QED
    BY <1>0, <2>2, <2>9 DEF n
<1> QED
  BY <1>6, <1>7, <1>8, <1>9, <1>10, <1>11, <1>12, BodyFields DEF BodyOps

-----------------------------------------------------------------------------
(* What emitted code touches, whatever it finds on the stack, and if there *)
(* is nothing.                                                             *)

\* What was touched, and what will be, lies at or above b.
KeepsTo(s, b) == s.low >= b /\ s.sp >= b

\* s became t with no look below the k-th element; the depth changed by d.
Keeps(s, t, k, d) ==
    /\ t \in AnyState /\ Depth(t) = Depth(s) + d
    /\ \A b \in Int : KeepsTo(s, b) /\ Depth(s) - k >= b => KeepsTo(t, b)

LEMMA AnyIs ==
    ASSUME NEW s \in AnyState
    PROVE  /\ s.tmp \in Seq(Int) /\ s.sp \in Int /\ s.mem \in Memories(MemSize) /\ s.low \in Int
           /\ s.got \in Seq(Int) /\ s.wild \in BOOLEAN
           /\ Len(s.tmp) \in Nat /\ Len(s.got) \in Nat /\ Depth(s) \in Int
<1>1. /\ s.tmp \in Seq(Int) /\ s.sp \in Int /\ s.mem \in Memories(MemSize) /\ s.low \in Int
      /\ s.got \in Seq(Int)
  BY DEF AnyState
<1>2. s.wild \in BOOLEAN
  BY DEF AnyState
<1>3. Len(s.tmp) \in Nat /\ Len(s.got) \in Nat
  BY <1>1
<1>4. Depth(s) \in Int
  BY <1>1, <1>3 DEF Depth
<1> QED
  BY <1>1, <1>2, <1>3, <1>4

LEMMA KeepsTwice ==
    ASSUME NEW s \in AnyState, NEW t, NEW u, NEW k \in Int, NEW d \in Int,
           NEW l \in Int, NEW e \in Int, Keeps(s, t, k, d), Keeps(t, u, l, e),
           NEW m \in Int, m >= k, m >= l - d
    PROVE  Keeps(s, u, m, d + e)
<1>1. /\ t \in AnyState /\ u \in AnyState /\ Depth(t) = Depth(s) + d /\ Depth(u) = Depth(t) + e
      /\ Depth(s) \in Int
  BY AnyIs DEF Keeps
<1>2. Depth(u) = Depth(s) + (d + e)
  BY <1>1
<1>3. ASSUME NEW b \in Int, KeepsTo(s, b), Depth(s) - m >= b PROVE KeepsTo(u, b)
  <2>1. Depth(s) - k >= b /\ Depth(t) - l >= b
    BY <1>1, <1>3
  <2>2. KeepsTo(t, b)
    BY <1>3, <2>1 DEF Keeps
  <2> QED
    BY <2>1, <2>2 DEF Keeps
<1> QED
  BY <1>1, <1>2, <1>3 DEF Keeps

LEMMA KeepsSame ==
    ASSUME NEW s \in AnyState, NEW k \in Int PROVE Keeps(s, s, k, 0)
BY AnyIs DEF Keeps

LEMMA LoadedStays ==
    ASSUME NEW s \in AnyState, NEW a \in Int
    PROVE  LET t == Loaded(s, a)
           IN /\ t \in AnyState /\ t.tmp = s.tmp /\ t.sp = s.sp /\ t.low = MinInt(s.low, a)
              /\ Load(s, a) \in Int /\ t.got = Append(s.got, Load(s, a)) /\ Last(t.got) = Load(s, a)
<1> DEFINE v == Load(s, a)
           low == MinInt(s.low, a)
           got == Append(s.got, v)
           out == s.wild \/ a \notin DOMAIN s.mem
           t == Loaded(s, a)
<1>1. v \in Int
  BY AnyIs, MemoryAssumption DEF Load, Memories
<1>2. low \in Int
  BY AnyIs DEF MinInt
<1>3. s.got \in Seq(Int)
  BY AnyIs
<1> HIDE DEF v
<1>4. got \in Seq(Int) /\ Last(got) = v
  BY <1>1, <1>3 DEF Last
<1>5. out \in BOOLEAN
  BY AnyIs
<1>6. t = [s EXCEPT !.low = low, !.got = got, !.wild = out]
  BY DEF Loaded, v
<1> HIDE DEF low, got, out, t
<1>7. t \in AnyState /\ t.tmp = s.tmp /\ t.sp = s.sp /\ t.low = low /\ t.got = got
  BY <1>2, <1>4, <1>5, <1>6 DEF AnyState
<1> QED
  BY <1>1, <1>4, <1>7 DEF t, v, low, got

LEMMA PopKeeps ==
    ASSUME NEW s \in AnyState
    PROVE  /\ Keeps(s, XPop(s), 1, -1) /\ Keeps(s, XPopNoValue(s), 1, -1)
           /\ XPopNoValue(s).got = s.got
           /\ \E v \in Int : XPop(s).got = Append(s.got, v)
<1> DEFINE t == XPop(s)
           u == XPopNoValue(s)
<1>1. /\ t \in AnyState /\ u \in AnyState
  BY PopsStayTyped
<1>2. /\ s.tmp \in Seq(Int) /\ s.sp \in Int /\ s.low \in Int /\ Len(s.tmp) \in Nat
      /\ Depth(s) = s.sp + Len(s.tmp)
  BY AnyIs DEF Depth
<1>3. CASE s.tmp = << >>
  <2>1. u = [s EXCEPT !.sp = @ - 1] /\ t = Loaded(u, s.sp - 1)
    BY <1>3 DEF XPop, XPopNoValue, EmitPop, EmitPopLoadless
  <2>2. u.sp = s.sp - 1 /\ u.low = s.low /\ u.tmp = s.tmp /\ u.got = s.got
    BY <2>1 DEF AnyState
  <2> HIDE DEF t, u
  <2>3. s.sp - 1 \in Int
    BY <1>2
  <2>4. /\ t.sp = u.sp /\ t.low = MinInt(u.low, s.sp - 1) /\ t.tmp = u.tmp
        /\ t.got = Append(u.got, Load(u, s.sp - 1)) /\ Load(u, s.sp - 1) \in Int
    BY <1>1, <2>1, <2>3, LoadedStays
  <2>5. Len(s.tmp) = 0 /\ Depth(s) = s.sp
    BY <1>2, <1>3
  <2>6. Depth(u) = Depth(s) + (-1) /\ Depth(t) = Depth(s) + (-1)
    BY <1>2, <2>2, <2>4, <2>5 DEF Depth
  <2>7. ASSUME NEW b \in Int, KeepsTo(s, b), Depth(s) - 1 >= b PROVE KeepsTo(u, b) /\ KeepsTo(t, b)
    <3>1. u.sp >= b /\ u.low >= b /\ t.sp >= b
      BY <1>2, <2>2, <2>4, <2>5, <2>7 DEF KeepsTo
    <3>2. t.low >= b
      BY <1>2, <2>2, <2>4, <2>5, <2>7, <3>1 DEF MinInt
    <3> QED
      BY <3>1, <3>2 DEF KeepsTo
  <2>8. \E v \in Int : t.got = Append(s.got, v)
    BY <2>2, <2>4
  <2> QED
    BY <1>1, <2>2, <2>6, <2>7, <2>8 DEF Keeps, t, u
<1>4. CASE s.tmp # << >>
  <2>1. u = [s EXCEPT !.tmp = Front(@)] /\ t = [u EXCEPT !.got = Append(@, Last(s.tmp))]
    BY <1>4 DEF XPop, XPopNoValue, AnyState
  <2>2. u.sp = s.sp /\ u.low = s.low /\ u.tmp = Front(s.tmp) /\ u.got = s.got
    BY <2>1 DEF AnyState
  <2> HIDE DEF u
  <2>3. t.sp = s.sp /\ t.low = s.low /\ t.tmp = Front(s.tmp) /\ t.got = Append(s.got, Last(s.tmp))
    BY <1>1, <2>1, <2>2 DEF AnyState
  <2> HIDE DEF t
  <2>4. Len(s.tmp) \in Nat \ {0}
    BY <1>2, <1>4, EmptySeq
  <2>5. Len(Front(s.tmp)) = Len(s.tmp) - 1 /\ Last(s.tmp) \in Int
    <3>1. 1 \in 0..Len(s.tmp) /\ Len(s.tmp) \in 1..Len(s.tmp)
      BY <2>4
    <3>2. Len(Pop(s.tmp, 1)) = Len(s.tmp) - 1
      BY <1>2, <3>1, PopIsSeq
    <3>3. s.tmp[Len(s.tmp)] \in Int
      BY <1>2, <3>1
    <3> QED
      BY <3>2, <3>3 DEF Front, Last, Pop
  <2>6. Depth(u) = Depth(s) + (-1) /\ Depth(t) = Depth(s) + (-1)
    BY <1>2, <2>2, <2>3, <2>5 DEF Depth
  <2>7. \A b \in Int : KeepsTo(s, b) => KeepsTo(u, b) /\ KeepsTo(t, b)
    BY <2>2, <2>3 DEF KeepsTo
  <2> QED
    BY <1>1, <2>2, <2>3, <2>5, <2>6, <2>7 DEF Keeps, t, u
<1> QED
  BY <1>3, <1>4

LEMMA XPopsKeep ==
    ASSUME NEW s \in AnyState, NEW n \in Nat
    PROVE  Keeps(s, XPops(s, n), n, -n) /\ Len(XPops(s, n).got) = Len(s.got) + n
<1>1. PICK f : /\ f[0] = s /\ \A i \in 1..n : f[i] = XPop(f[i - 1])
               /\ XPops(s, n) = f[n]
  BY XPopsUnfold
<1> DEFINE Done(t, k) == Keeps(s, t, k, 0 - k) /\ Len(t.got) = Len(s.got) + k
           S == {k \in 0..n : Done(f[k], k)}
<1>2. Done(f[0], 0)
  BY <1>1, KeepsSame, AnyIs
<1>3. ASSUME NEW k \in 0..(n - 1), Done(f[k], k) PROVE Done(f[k + 1], k + 1)
  <2> DEFINE t == f[k]
             u == f[k + 1]
  <2>1. u = XPop(t) /\ k \in Int
    <3>1. k + 1 \in 1..n /\ (k + 1) - 1 = k
      OBVIOUS
    <3> QED
      BY <1>1, <3>1
  <2>2. Keeps(s, t, k, 0 - k) /\ Len(t.got) = Len(s.got) + k
    BY <1>3
  <2> HIDE DEF t, u
  <2>3. t \in AnyState /\ t.got \in Seq(Int)
    BY <2>2, AnyIs DEF Keeps
  <2>4. Keeps(t, u, 1, -1) /\ \E v \in Int : u.got = Append(t.got, v)
    BY <2>1, <2>3, PopKeeps
  <2>5. Len(u.got) = Len(t.got) + 1
    BY <2>3, <2>4
  <2>6. /\ 0 - k \in Int /\ k + 1 \in Int /\ k + 1 >= k /\ k + 1 >= 1 - (0 - k)
        /\ (0 - k) + (-1) = 0 - (k + 1)
    BY <2>1
  <2>7. Keeps(s, u, k + 1, (0 - k) + (-1))
    BY <2>1, <2>2, <2>4, <2>6, KeepsTwice
  <2>8. Len(u.got) = Len(s.got) + (k + 1)
    <3>1. Len(s.got) \in Int /\ \A a, b \in Int : (a + b) + 1 = a + (b + 1)
      BY AnyIs
    <3> QED
      BY <2>1, <2>2, <2>5, <3>1, Zenon
  <2> QED
    BY <2>6, <2>7, <2>8 DEF u
<1>4. Done(f[n], n)
  <2> HIDE DEF Done
  <2>1. 0 \in S /\ \A k \in 0..(n - 1) : k \in S => k + 1 \in S
    BY <1>2, <1>3
  <2> HIDE DEF S
  <2>2. n \in S
    BY <2>1, InductionUpTo
  <2> QED
    BY <2>2 DEF S
<1>5. 0 - n = -n
  OBVIOUS
<1> QED
  BY <1>1, <1>4, <1>5

LEMMA DropsKeep ==
    ASSUME NEW s \in AnyState, NEW n \in Nat
    PROVE  LET t == Times(n, XPopNoValue, s) IN Keeps(s, t, n, -n) /\ t.got = s.got
<1>1. PICK f : /\ f[0] = s /\ \A i \in 1..n : f[i] = XPopNoValue(f[i - 1])
               /\ Times(n, XPopNoValue, s) = f[n]
  BY DropsUnfold
<1> DEFINE Done(t, k) == Keeps(s, t, k, 0 - k) /\ t.got = s.got
           S == {k \in 0..n : Done(f[k], k)}
<1>2. Done(f[0], 0)
  BY <1>1, KeepsSame
<1>3. ASSUME NEW k \in 0..(n - 1), Done(f[k], k) PROVE Done(f[k + 1], k + 1)
  <2> DEFINE t == f[k]
             u == f[k + 1]
  <2>1. u = XPopNoValue(t) /\ k \in Int
    <3>1. k + 1 \in 1..n /\ (k + 1) - 1 = k
      OBVIOUS
    <3> QED
      BY <1>1, <3>1
  <2>2. Keeps(s, t, k, 0 - k) /\ t.got = s.got
    BY <1>3
  <2> HIDE DEF t, u
  <2>3. t \in AnyState
    BY <2>2 DEF Keeps
  <2>4. Keeps(t, u, 1, -1) /\ u.got = t.got
    BY <2>1, <2>3, PopKeeps
  <2>5. /\ 0 - k \in Int /\ k + 1 \in Int /\ k + 1 >= k /\ k + 1 >= 1 - (0 - k)
        /\ (0 - k) + (-1) = 0 - (k + 1)
    BY <2>1
  <2>6. Keeps(s, u, k + 1, (0 - k) + (-1))
    BY <2>1, <2>2, <2>4, <2>5, KeepsTwice
  <2> QED
    BY <2>2, <2>4, <2>5, <2>6 DEF u
<1>4. Done(f[n], n)
  <2> HIDE DEF Done
  <2>1. 0 \in S /\ \A k \in 0..(n - 1) : k \in S => k + 1 \in S
    BY <1>2, <1>3
  <2> HIDE DEF S
  <2>2. n \in S
    BY <2>1, InductionUpTo
  <2> QED
    BY <2>2 DEF S
<1>5. 0 - n = -n
  OBVIOUS
<1> QED
  BY <1>1, <1>4, <1>5

LEMMA PushTmpKeeps ==
    ASSUME NEW s \in AnyState, NEW vs \in Seq(Int)
    PROVE  LET t == PushTmp(s, vs) IN Keeps(s, t, 0, Len(vs)) /\ t.got = s.got
<1> DEFINE t == PushTmp(s, vs)
           tmps == s.tmp \o vs
<1>1. s.tmp \in Seq(Int) /\ s.sp \in Int /\ Len(s.tmp) \in Nat /\ Len(vs) \in Nat
  BY AnyIs
<1>2. tmps \in Seq(Int) /\ Len(tmps) = Len(s.tmp) + Len(vs)
  BY <1>1, ConcatProperties
<1>3. t = [s EXCEPT !.tmp = tmps]
  BY DEF PushTmp
<1> HIDE DEF tmps, t
<1>4. /\ t \in AnyState /\ t.tmp = tmps /\ t.sp = s.sp /\ t.low = s.low /\ t.got = s.got
  BY <1>2, <1>3 DEF AnyState
<1>5. Depth(t) = Depth(s) + Len(vs)
  <2>1. Depth(t) = s.sp + (Len(s.tmp) + Len(vs)) /\ Depth(s) = s.sp + Len(s.tmp)
    BY <1>2, <1>4 DEF Depth
  <2>2. \A a \in Int : \A b, c \in Nat : a + (b + c) = (a + b) + c
    OBVIOUS
  <2> QED
    BY <1>1, <2>1, <2>2, Zenon
<1>6. \A b \in Int : KeepsTo(s, b) => KeepsTo(t, b)
  BY <1>4 DEF KeepsTo
<1> QED
  BY <1>4, <1>5, <1>6 DEF Keeps, t

LEMMA EmitPushStays ==
    ASSUME NEW s \in AnyState, NEW v \in Int
    PROVE  LET t == EmitPush(s, v)
           IN /\ t \in AnyState /\ t.tmp = s.tmp /\ t.sp = s.sp + 1 /\ t.low = MinInt(s.low, s.sp)
              /\ t.got = s.got
<1> DEFINE t == EmitPush(s, v)
<1>1. t \in AnyState
  BY PushesStayTyped
<1>2. t.tmp = s.tmp /\ t.sp = s.sp + 1 /\ t.low = MinInt(s.low, s.sp) /\ t.got = s.got
  BY DEF EmitPush, AnyState
<1> QED
  BY <1>1, <1>2

LEMMA FlushKeeps ==
    ASSUME NEW s \in AnyState
    PROVE  Keeps(s, Flush(s), 0, 0) /\ Flush(s).tmp = << >> /\ Flush(s).got = s.got
<1> DEFINE vs == s.tmp
           n == Len(vs)
<1>0. /\ vs \in Seq(Int) /\ n \in Nat /\ s.sp \in Int /\ s.low \in Int /\ Depth(s) = s.sp + n
      /\ \A i \in 1..n : vs[i] \in Int
  <2>1. vs \in Seq(Int) /\ n \in Nat /\ s.sp \in Int /\ s.low \in Int
    BY AnyIs
  <2> QED
    BY <2>1 DEF Depth
<1>1. PICK f : /\ f[0] = s /\ \A i \in 1..n : f[i] = EmitPush(f[i - 1], vs[i])
               /\ Pushed(s, vs) = f[n]
  BY <1>0, PushedUnfold
<1> HIDE DEF n, vs
<1> DEFINE Done(t, k) == /\ t \in AnyState /\ t.sp = s.sp + k /\ t.got = s.got
                         /\ \A b \in Int : KeepsTo(s, b) => KeepsTo(t, b)
           S == {k \in 0..n : Done(f[k], k)}
<1>2. Done(f[0], 0)
  BY <1>0, <1>1
<1>3. ASSUME NEW k \in 0..(n - 1), Done(f[k], k) PROVE Done(f[k + 1], k + 1)
  <2> DEFINE t == f[k]
             u == f[k + 1]
  <2>1. u = EmitPush(t, vs[k + 1]) /\ vs[k + 1] \in Int /\ k \in Int
    <3>1. k + 1 \in 1..n /\ (k + 1) - 1 = k
      BY <1>0
    <3> QED
      BY <1>0, <1>1, <3>1
  <2>2. /\ t \in AnyState /\ t.sp = s.sp + k /\ t.got = s.got
        /\ \A b \in Int : KeepsTo(s, b) => KeepsTo(t, b)
    BY <1>3
  <2> HIDE DEF t, u
  <2>3. /\ u \in AnyState /\ u.sp = t.sp + 1 /\ u.low = MinInt(t.low, t.sp) /\ u.got = t.got
    BY <2>1, <2>2, EmitPushStays
  <2>4. ASSUME NEW b \in Int, KeepsTo(s, b) PROVE KeepsTo(u, b)
    <3>1. t.low >= b /\ t.sp >= b /\ t.low \in Int /\ t.sp \in Int
      BY <2>2, <2>4, AnyIs DEF KeepsTo
    <3> QED
      BY <2>3, <3>1 DEF KeepsTo, MinInt
  <2>5. u.sp = s.sp + (k + 1)
    <3>1. \A a, b \in Int : (a + b) + 1 = a + (b + 1)
      OBVIOUS
    <3> QED
      BY <1>0, <2>1, <2>2, <2>3, <3>1, Zenon
  <2> QED
    BY <2>2, <2>3, <2>4, <2>5 DEF u
<1>4. Done(f[n], n)
  <2> HIDE DEF Done
  <2>1. 0 \in S /\ \A k \in 0..(n - 1) : k \in S => k + 1 \in S
    <3>1. 0 \in S
      BY <1>0, <1>2
    <3>2. ASSUME NEW k \in 0..(n - 1), k \in S PROVE k + 1 \in S
      BY <1>0, <1>3, <3>2
    <3> QED
      BY <3>1, <3>2
  <2> HIDE DEF S
  <2>3. \A k \in 0..n : k \in S
    BY <1>0, <2>1, InductionUpTo
  <2>2. n \in S
    BY <1>0, <2>3
  <2> QED
    BY <2>2 DEF S
<1> DEFINE t == f[n]
           u == Flush(s)
<1>5. u = [t EXCEPT !.tmp = << >>]
  BY <1>1 DEF Flush, vs
<1>6. /\ t \in AnyState /\ t.sp = s.sp + n /\ t.got = s.got
      /\ \A b \in Int : KeepsTo(s, b) => KeepsTo(t, b)
  BY <1>4
<1> HIDE DEF t, u
<1>7. u \in AnyState /\ u.sp = t.sp /\ u.tmp = << >> /\ u.got = t.got /\ u.low = t.low
  <2>1. << >> \in Seq(Int) /\ t \in AnyState
    BY <1>6
  <2> QED
    BY <1>5, <2>1 DEF AnyState
<1>8. Depth(u) = Depth(s) + 0
  <2>1. Len(u.tmp) = 0
    BY <1>7
  <2> QED
    BY <1>0, <1>6, <1>7, <2>1 DEF Depth
<1>9. \A b \in Int : KeepsTo(s, b) => KeepsTo(u, b)
  BY <1>6, <1>7 DEF KeepsTo
<1> QED
  BY <1>6, <1>7, <1>8, <1>9 DEF Keeps, u

LEMMA PickConstKeeps ==
    ASSUME NEW s \in AnyState, NEW n \in Nat \ {0} PROVE Keeps(s, PickConst(s, n), n, 1)
<1> DEFINE m == Len(s.tmp)
<1>1. /\ s.tmp \in Seq(Int) /\ s.sp \in Int /\ s.low \in Int /\ m \in Nat
      /\ Depth(s) = s.sp + m /\ Depth(s) \in Int
  BY AnyIs DEF Depth
<1>2. ASSUME NEW v \in Int PROVE <<v>> \in Seq(Int) /\ Len(<<v>>) = 1
  OBVIOUS
<1>3. CASE n <= m
  <2> DEFINE v == FromTop(s.tmp, n)
  <2>1. v \in Int
    <3>1. n \in 1..m
      BY <1>1, <1>3
    <3> QED
      BY <1>1, <3>1, FromTopIsInt
  <2>2. PickConst(s, n) = PushTmp(s, <<v>>)
    BY <1>3 DEF PickConst
  <2> HIDE DEF v
  <2>3. Keeps(s, PickConst(s, n), 0, 1)
    BY <1>2, <2>1, <2>2, PushTmpKeeps
  <2>4. \A b \in Int : Depth(s) - n >= b => Depth(s) - 0 >= b
    BY <1>1
  <2> QED
    BY <2>3, <2>4 DEF Keeps
<1>4. CASE ~ (n <= m)
  <2> DEFINE a == s.sp - (n - m)
             t == Loaded(s, a)
             v == Last(t.got)
  <2>1. a \in Int /\ a = Depth(s) - n
    BY <1>1
  <2>2. PickConst(s, n) = PushTmp(t, <<v>>)
    BY <1>4 DEF PickConst
  <2> HIDE DEF a
  <2>3. /\ t \in AnyState /\ t.tmp = s.tmp /\ t.sp = s.sp /\ t.low = MinInt(s.low, a) /\ v \in Int
    BY <2>1, LoadedStays
  <2> HIDE DEF t, v
  <2>4. ASSUME NEW b \in Int, KeepsTo(s, b), Depth(s) - n >= b PROVE KeepsTo(t, b)
    BY <1>1, <2>1, <2>3, <2>4 DEF KeepsTo, MinInt
  <2>5. Depth(t) = Depth(s)
    BY <2>3 DEF Depth
  <2>6. Keeps(t, PushTmp(t, <<v>>), 0, 1)
    BY <1>2, <2>3, PushTmpKeeps
  <2>7. ASSUME NEW b \in Int, KeepsTo(s, b), Depth(s) - n >= b PROVE KeepsTo(PushTmp(t, <<v>>), b)
    <3>1. KeepsTo(t, b) /\ Depth(t) - 0 >= b
      BY <1>1, <2>4, <2>5, <2>7
    <3> QED
      BY <2>6, <3>1 DEF Keeps
  <2> QED
    BY <2>2, <2>5, <2>6, <2>7 DEF Keeps
<1> QED
  BY <1>3, <1>4

LEMMA DropRangeConstKeeps ==
    ASSUME NEW s \in AnyState, s.got = << >>, NEW start \in Nat, NEW amt \in 0..start
    PROVE  Keeps(s, DropRangeConst(s, start, amt), start, -amt)
<1> DEFINE m == start - amt
           t == XPops(s, m)
           u == Times(amt, XPopNoValue, t)
           kept == Reverse(t.got)
<1>1. m \in Nat /\ amt \in Nat /\ Len(s.got) = 0
  BY AnyIs
<1> HIDE DEF m
<1>2. Keeps(s, t, m, -m) /\ Len(t.got) = m
  <2>1. Keeps(s, t, m, -m) /\ Len(t.got) = 0 + m
    BY <1>1, XPopsKeep
  <2> QED
    BY <1>1, <2>1
<1> HIDE DEF t
<1>3. t \in AnyState /\ t.got \in Seq(Int)
  BY <1>2, AnyIs DEF Keeps
<1>4. Keeps(t, u, amt, -amt)
  BY <1>1, <1>3, DropsKeep
<1> HIDE DEF u
<1>5. kept \in Seq(Int) /\ Len(kept) = m
  BY <1>2, <1>3, ReverseIs
<1>6. Keeps(u, PushTmp(u, kept), 0, m)
  <2>1. u \in AnyState
    BY <1>4 DEF Keeps
  <2> HIDE DEF kept
  <2> QED
    BY <1>5, <2>1, PushTmpKeeps
<1>7. Keeps(s, u, start, (-m) + (-amt))
  <2>1. -m \in Int /\ -amt \in Int /\ start \in Int /\ start >= m /\ start >= amt - (-m)
    BY <1>1 DEF m
  <2> QED
    BY <1>1, <1>2, <1>4, <2>1, KeepsTwice
<1>8. Keeps(s, PushTmp(u, kept), start, ((-m) + (-amt)) + m)
  <2>1. (-m) + (-amt) \in Int /\ start \in Int /\ start >= 0 - ((-m) + (-amt)) /\ start >= start
    BY <1>1 DEF m
  <2> HIDE DEF kept
  <2>2. 0 \in Int /\ m \in Int
    BY <1>1
  <2> QED
    BY <1>6, <1>7, <2>1, <2>2, KeepsTwice
<1>9. ((-m) + (-amt)) + m = -amt
  BY <1>1
<1>10. DropRangeConst(s, start, amt) = PushTmp(u, kept)
  BY DEF DropRangeConst, u, t, m, kept
<1> QED
  BY <1>8, <1>9, <1>10

LEMMA PickDynamicStays ==
    ASSUME NEW s \in AnyState, s.got = << >> PROVE PickDynamic(s) \in AnyState
<1> DEFINE t == Flush(XPop(s))
           u == Loaded(t, t.sp - t.got[1])
<1>1. XPop(s) \in AnyState /\ \E v \in Int : XPop(s).got = Append(<< >>, v)
  BY PopKeeps DEF Keeps
<1>2. t \in AnyState /\ t.got = XPop(s).got
  BY <1>1, FlushKeeps DEF Keeps
<1> HIDE DEF t
<1>3. t.got[1] \in Int
  BY <1>1, <1>2
<1>4. t.sp - t.got[1] \in Int
  BY <1>2, <1>3, AnyIs
<1>5. u \in AnyState /\ Last(u.got) \in Int
  BY <1>2, <1>4, LoadedStays
<1> HIDE DEF u
<1>6. EmitPush(u, Last(u.got)) \in AnyState
  BY <1>5, PushesStayTyped
<1>7. PickDynamic(s) = EmitPush(u, Last(u.got))
  BY DEF PickDynamic, u, t
<1> QED
  BY <1>6, <1>7

LEMMA GotTyped ==
    ASSUME NEW s \in AnyState, s.got = << >>, NEW n \in Nat
    PROVE  \A i \in 1..n : XPops(s, n).got[i] \in Int
<1> DEFINE t == XPops(s, n)
<1>1. t \in AnyState /\ Len(t.got) = Len(s.got) + n /\ Len(s.got) = 0
  BY XPopsKeep DEF Keeps
<1>2. t.got \in Seq(Int)
  BY <1>1, AnyIs
<1> HIDE DEF t
<1>3. Len(t.got) = n
  BY <1>1
<1> QED
  BY <1>2, <1>3 DEF t

LEMMA DropRangeDynamicStays ==
    ASSUME NEW s \in AnyState, s.got = << >> PROVE DropRangeDynamic(s) \in AnyState
<1> DEFINE t == Flush(XPops(s, 2))
           amount == t.got[1]
           start == t.got[2]
           dst == t.sp - start
           moved == dst..(t.sp - amount - 1)
           low == MinInt(t.low, MinInt(dst, dst + amount))
           new == [a \in DOMAIN t.mem |-> IF a \in moved THEN Load(t, a + amount) ELSE t.mem[a]]
           out == t.wild \/ start < amount \/ \E a \in moved : {a, a + amount} \ DOMAIN t.mem # {}
<1>1. XPops(s, 2) \in AnyState /\ \A i \in 1..2 : XPops(s, 2).got[i] \in Int
  <2>1. 2 \in Nat
    OBVIOUS
  <2> QED
    BY <2>1, XPopsKeep, GotTyped DEF Keeps
<1>2. t \in AnyState /\ t.got = XPops(s, 2).got
  BY <1>1, FlushKeeps DEF Keeps
<1> HIDE DEF t
<1>3. amount \in Int /\ start \in Int /\ t.sp \in Int /\ t.low \in Int /\ t.mem \in Memories(MemSize)
  BY <1>1, <1>2, AnyIs
<1> HIDE DEF amount, start
<1>4. low \in Int /\ t.sp - amount \in Int
  BY <1>3 DEF MinInt
<1> HIDE DEF moved
<1>5. new \in Memories(MemSize)
  <2>1. ASSUME NEW a PROVE Load(t, a) \in Int
    BY <1>3, MemoryAssumption DEF Load, Memories
  <2> QED
    BY <1>3, <2>1 DEF Memories
<1>6. out \in BOOLEAN
  BY <1>2, AnyIs
<1>7. DropRangeDynamic(s) = [t EXCEPT !.sp = @ - amount, !.low = low, !.mem = new, !.wild = out]
  BY DEF DropRangeDynamic, t, amount, start, moved
<1> HIDE DEF low, new, out
<1> QED
  BY <1>2, <1>3, <1>4, <1>5, <1>6, <1>7 DEF AnyState

\* s is e.s after x, which looked no lower than its reach tells, if it has one.
Accounted(x, s, e) ==
    Reach(x, << >>).tag = "ok" =>
      /\ \A b \in Int : KeepsTo(s, b) /\ Depth(s) - Reach(x, << >>).val >= b => KeepsTo(e.s, b)
      /\ e.tag = "executed" => Depth(e.s) = Depth(s) + Delta(x, << >>).val

LEMMA KeepsAccounts ==
    ASSUME NEW s, NEW x, NEW e, NEW k, NEW d, Keeps(s, e.s, k, d), Reach(x, << >>).val = k,
           e.tag = "executed" => Delta(x, << >>).val = d
    PROVE  e.s \in AnyState /\ Accounted(x, s, e)
BY DEF Keeps, Accounted

\* n operands are popped and vs are pushed.
LEMMA PopsAndPushesKeep ==
    ASSUME NEW s \in AnyState, NEW n \in Nat, NEW vs \in Seq(Int), NEW m, m = Len(vs)
    PROVE  Keeps(s, PushTmp(XPops(s, n), vs), n, (0 - n) + m)
<1> DEFINE t == XPops(s, n)
<1>1. Keeps(s, t, n, 0 - n)
  <2>1. -n = 0 - n
    OBVIOUS
  <2> QED
    BY <2>1, XPopsKeep
<1>2. t \in AnyState
  BY <1>1 DEF Keeps
<1> HIDE DEF t
<1>3. Keeps(t, PushTmp(t, vs), 0, m)
  BY <1>2, PushTmpKeeps
<1>4. n \in Int /\ 0 - n \in Int /\ m \in Int /\ 0 \in Int /\ n >= n /\ n >= 0 - (0 - n)
  OBVIOUS
<1> QED
  BY <1>1, <1>3, <1>4, KeepsTwice DEF t

LEMMA EmitArithStays ==
    ASSUME NEW s \in AnyState, s.got = << >>, NEW x \in InBody, x.op = "arith",
           NEW e, e = EmitArith(s, x.it)
    PROVE  /\ e.s \in AnyState /\ Accounted(x, s, e)
           /\ e.tag \in {"executed", "panic", "badexponent"}
<1> DEFINE it == x.it
           n == 2
           t == XPops(s, n)
           b == t.got[1]
           a == t.got[2]
           r == ArithResult(it, a, b)
<1>1. it \in ArithOps /\ n \in Nat
  BY BodyFields
<1>2. a \in Int /\ b \in Int
  <2>1. \A i \in 1..n : t.got[i] \in Int
    BY <1>1, GotTyped
  <2> HIDE DEF t
  <2> QED
    BY <2>1
<1>3. /\ e.tag = ArithEnds(it, a, b)
      /\ e.s = IF e.tag = "executed" THEN PushTmp(t, <<r>>) ELSE t
  BY DEF EmitArith
<1>4. Keeps(s, t, n, -n)
  BY <1>1, XPopsKeep
<1> HIDE DEF t, a, b
<1>5. e.tag \in {"executed", "panic", "badexponent"}
  BY <1>3 DEF ArithEnds
<1>6. Reach(x, << >>).val = 2 /\ Delta(x, << >>).val = -1
  BY DEF Reach, Delta, Ok, FixedOps, FixedReach, FixedDelta
<1>7. CASE e.tag = "executed"
  <2>1. r \in Int
    <3>1. it \in {"div", "rem"} => b # 0
      BY <1>3, <1>7 DEF ArithEnds
    <3>2. it = "pow" => b \in Nat
      BY <1>3, <1>7 DEF ArithEnds, Exponents
    <3> HIDE DEF it
    <3> QED
      BY <1>1, <1>2, <3>1, <3>2, ResultIsInt
  <2> HIDE DEF r
  <2>2. <<r>> \in Seq(Int) /\ Len(<<r>>) = 1
    BY <2>1
  <2>3. Keeps(s, PushTmp(t, <<r>>), n, (0 - n) + 1)
    BY <1>1, <2>2, PopsAndPushesKeep DEF t
  <2>4. Keeps(s, e.s, 2, -1)
    <3>1. (0 - n) + 1 = -1
      OBVIOUS
    <3> QED
      BY <1>3, <1>7, <2>3, <3>1
  <2> QED
    BY <1>5, <1>6, <2>4, KeepsAccounts
<1>8. CASE e.tag # "executed"
  BY <1>3, <1>4, <1>5, <1>6, <1>8, KeepsAccounts
<1> QED
  BY <1>7, <1>8

\* An instruction that pops its operands and pushes vs.
LEMMA FixedStays ==
    ASSUME NEW s \in AnyState, s.got = << >>, NEW x \in InBody, NEW e \in Emitted(x, s),
           x.op \in {"lit", "width", "swap", "rot", "read", "syscall"}
    PROVE  e.s \in AnyState /\ Accounted(x, s, e) /\ e.tag = "executed"
<1> DEFINE n == Pops[x.op]
           t == XPops(s, n)
<1>1. n \in Nat
  BY BodyFields DEF BodyOps, Pops
<1>2. \A i \in 1..n : t.got[i] \in Int
  BY <1>1, GotTyped
<1> DEFINE Result(vs) == e = [tag |-> "executed", s |-> PushTmp(t, vs)]
<1>3. ASSUME NEW vs \in Seq(Int), Result(vs), NEW m \in Nat, Len(vs) = m,
             Reach(x, << >>).val = n, Delta(x, << >>).val = (0 - n) + m
      PROVE  e.s \in AnyState /\ Accounted(x, s, e) /\ e.tag = "executed"
  <2>1. e.s = PushTmp(t, vs) /\ e.tag = "executed"
    BY <1>3
  <2>2. Keeps(s, e.s, n, (0 - n) + m)
    BY <1>1, <1>3, <2>1, PopsAndPushesKeep
  <2> HIDE DEF n, Result
  <2> QED
    BY <1>3, <2>1, <2>2, KeepsAccounts
<1>4. CASE x.op \in {"lit", "width"}
  <2> DEFINE v == IF x.op = "lit" THEN x.n ELSE WidthNative
  <2>1. n = 0 /\ t = s
    <3>1. n = 0
      BY <1>4 DEF Pops
    <3>2. XPops(s, 0) = s
      <4>1. 0 \in Nat
        OBVIOUS
      <4> QED
        BY <4>1, XPopsUnfold
    <3> QED
      BY <3>1, <3>2
  <2>2. v \in Int
    BY BodyFields DEF WidthNative
  <2>3. e = [tag |-> "executed", s |-> PushTmp(s, <<v>>)]
    BY <1>4 DEF Emitted
  <2>4. Reach(x, << >>).val = 0 /\ Delta(x, << >>).val = 1
    BY <1>4 DEF Reach, Delta, Ok, FixedOps, FixedReach, FixedDelta
  <2> HIDE DEF v, n, t
  <2>5. <<v>> \in Seq(Int) /\ Len(<<v>>) = 1 /\ 1 \in Nat /\ (0 - n) + 1 = 1
    BY <2>1, <2>2
  <2>6. Result(<<v>>)
    BY <2>1, <2>3
  <2> HIDE DEF Result
  <2> QED
    BY <1>3, <2>1, <2>4, <2>5, <2>6
<1>5. CASE x.op \in {"read", "syscall"}
  <2>1. PICK v \in Values : e = [tag |-> "executed", s |-> PushTmp(t, <<v>>)]
    BY <1>5 DEF Emitted
  <2>2. Reach(x, << >>).val = n /\ Delta(x, << >>).val = (0 - n) + 1
    BY <1>5 DEF Reach, Delta, Ok, FixedOps, FixedReach, FixedDelta, Pops
  <2>3. Result(<<v>>)
    BY <2>1
  <2> HIDE DEF n, t, Result
  <2>4. <<v>> \in Seq(Int) /\ Len(<<v>>) = 1 /\ 1 \in Nat
    BY ValuesAssumption
  <2> QED
    BY <1>3, <2>2, <2>3, <2>4
<1>6. CASE x.op = "swap"
  <2> DEFINE b == t.got[1]
             a == t.got[2]
  <2>1. n = 2
    BY <1>6 DEF Pops
  <2>2. Reach(x, << >>).val = 2 /\ Delta(x, << >>).val = 0
    BY <1>6 DEF Reach, Delta, Ok, FixedOps, FixedReach, FixedDelta
  <2>3. Result(<<b, a>>)
    BY <1>6 DEF Emitted
  <2> HIDE DEF n, t, Result
  <2>4. a \in Int /\ b \in Int /\ (0 - n) + 2 = 0
    BY <1>2, <2>1
  <2> HIDE DEF a, b
  <2>5. <<b, a>> \in Seq(Int) /\ Len(<<b, a>>) = 2 /\ 2 \in Nat
    BY <2>4
  <2> QED
    BY <1>3, <2>1, <2>2, <2>3, <2>4, <2>5
<1>7. CASE x.op = "rot"
  <2> DEFINE a == t.got[1]
             b == t.got[2]
             c == t.got[3]
  <2>1. n = 3
    BY <1>7 DEF Pops
  <2>2. Reach(x, << >>).val = 3 /\ Delta(x, << >>).val = 0
    BY <1>7 DEF Reach, Delta, Ok, FixedOps, FixedReach, FixedDelta
  <2>3. Result(<<b, a, c>>)
    BY <1>7 DEF Emitted
  <2> HIDE DEF n, t, Result
  <2>4. a \in Int /\ b \in Int /\ c \in Int /\ (0 - n) + 3 = 0
    BY <1>2, <2>1
  <2> HIDE DEF a, b, c
  <2>5. <<b, a, c>> \in Seq(Int) /\ Len(<<b, a, c>>) = 3 /\ 3 \in Nat
    BY <2>4
  <2> QED
    BY <1>3, <2>1, <2>2, <2>3, <2>4, <2>5
<1> QED
  BY <1>4, <1>5, <1>6, <1>7

LEMMA EmittedStays ==
    ASSUME NEW s \in AnyState, s.got = << >>, NEW x \in InBody, NEW e \in Emitted(x, s)
    PROVE  /\ e.s \in AnyState /\ Accounted(x, s, e)
           /\ e.tag \in {"executed", "quit", "panic", "badexponent"}
           /\ e.tag = "executed" => x.op # "quit"
<1> DEFINE n == Pops[x.op]
           t == XPops(s, n)
<1>1. n \in Nat
  BY BodyFields DEF BodyOps, Pops
<1>2. Keeps(s, t, n, -n)
  BY <1>1, XPopsKeep
<1>3. CASE x.op \in {"lit", "width", "swap", "rot", "read", "syscall"}
  BY <1>3, FixedStays
<1>4. CASE x.op = "arith"
  <2>1. e = EmitArith(s, x.it)
    BY <1>4 DEF Emitted
  <2> QED
    BY <1>4, <2>1, EmitArithStays
<1>5. CASE x.op \in {"print", "write", "write8"}
  <2>1. e = [tag |-> "executed", s |-> t]
    BY <1>5 DEF Emitted
  <2>2. Reach(x, << >>).val = n /\ Delta(x, << >>).val = -n
    BY <1>5 DEF Reach, Delta, Ok, FixedOps, FixedReach, FixedDelta, Pops
  <2> HIDE DEF n, t
  <2>3. e.tag = "executed" /\ Keeps(s, e.s, n, -n)
    BY <1>2, <2>1
  <2> QED
    BY <1>5, <2>2, <2>3, KeepsAccounts
<1>6. CASE x.op = "drop"
  <2>1. e = [tag |-> "executed", s |-> XPopNoValue(s)]
    BY <1>6 DEF Emitted
  <2>2. Reach(x, << >>).val = 1 /\ Delta(x, << >>).val = -1
    BY <1>6 DEF Reach, Delta, Ok, FixedOps, FixedReach, FixedDelta
  <2>3. e.tag = "executed" /\ Keeps(s, e.s, 1, -1)
    BY <2>1, PopKeeps
  <2> QED
    BY <1>6, <2>2, <2>3, KeepsAccounts
<1>7. CASE x.op = "quit"
  <2>1. e = [tag |-> "quit", s |-> s]
    BY <1>7 DEF Emitted
  <2>2. Reach(x, << >>).val = 0
    BY <1>7 DEF Reach, Ok, FixedOps
  <2>3. e.tag = "quit" /\ Keeps(s, e.s, 0, 0)
    <3>1. 0 \in Int
      OBVIOUS
    <3> QED
      BY <2>1, <3>1, KeepsSame
  <2> QED
    BY <2>2, <2>3, KeepsAccounts
<1>8. CASE x.op = "rpick"
  <2>1. e = [tag |-> "executed", s |-> PickConst(s, x.n)]
    BY <1>8 DEF Emitted
  <2>2. Reach(x, << >>).val = x.n /\ Delta(x, << >>).val = 1
    BY <1>8 DEF Reach, Delta, Ok, FixedOps
  <2>3. e.tag = "executed" /\ Keeps(s, e.s, x.n, 1)
    BY <1>8, <2>1, BodyFields, PickConstKeeps
  <2> QED
    BY <1>8, <2>2, <2>3, KeepsAccounts
<1>9. CASE x.op = "rdrop"
  <2>1. e = [tag |-> "executed", s |-> DropRangeConst(s, x.s, x.a)]
    BY <1>9 DEF Emitted
  <2>2. Reach(x, << >>).val = x.s /\ Delta(x, << >>).val = -x.a
    BY <1>9 DEF Reach, Delta, Ok, FixedOps
  <2>3. e.tag = "executed" /\ Keeps(s, e.s, x.s, -x.a)
    BY <1>9, <2>1, BodyFields, DropRangeConstKeeps
  <2> QED
    BY <1>9, <2>2, <2>3, KeepsAccounts
<1>10. CASE x.op \in {"pick", "droprange"}
  <2>1. Accounted(x, s, e)
    BY <1>10 DEF Accounted, Reach, Err, FixedOps
  <2>2. CASE x.op = "pick"
    <3>1. e = [tag |-> "executed", s |-> PickDynamic(s)]
      BY <2>2 DEF Emitted
    <3>2. e.tag = "executed" /\ e.s = PickDynamic(s)
      BY <3>1
    <3> QED
      BY <2>1, <2>2, <3>2, PickDynamicStays
  <2>3. CASE x.op = "droprange"
    <3>1. e = [tag |-> "executed", s |-> DropRangeDynamic(s)]
      BY <2>3 DEF Emitted
    <3>2. e.tag = "executed" /\ e.s = DropRangeDynamic(s)
      BY <3>1
    <3> QED
      BY <2>1, <2>3, <3>2, DropRangeDynamicStays
  <2> QED
    BY <1>10, <2>2, <2>3
<1> QED
  BY <1>3, <1>4, <1>5, <1>6, <1>7, <1>8, <1>9, <1>10, BodyFields DEF BodyOps

-----------------------------------------------------------------------------
(* The block machine's operators are those of this module.                 *)

LEMMA SameExec == \A x, s : Blocks!Exec(x, s) = Exec(x, s)
BY SMTT(30) DEF Blocks!Exec, Blocks!FailsEarly, Blocks!ArithOutcomes, Blocks!DropRangeFrom,
  Blocks!PickFrom, Blocks!RemoveRange, Blocks!Pops, Blocks!Push, Blocks!FromTop, Blocks!Pop,
  Blocks!SkipBy, Blocks!Executed, Blocks!Outcome, Blocks!ArithResult, Blocks!Overflows,
  Blocks!Power, Blocks!Exponents, Blocks!Quotient, Blocks!Magnitude, Blocks!Wrap, Blocks!Word,
  Blocks!LeastValue, Blocks!TwoTo, Blocks!Byte, Blocks!WidthNative, Blocks!IsUsize,
  Exec, FailsEarly, ArithOutcomes, DropRangeFrom, PickFrom, RemoveRange, Pops, Push,
  FromTop, Pop, SkipBy, Executed, Outcome, ArithResult, Overflows, Power, Exponents,
  Quotient, Magnitude, Wrap, Word, LeastValue, TwoTo, Byte, WidthNative, IsUsize

LEMMA SameOutcomes ==
    /\ \A x, s : Blocks!Outcomes(x, s) = Compiled(x, s)
    /\ \A x, o : Blocks!Unchecked(x, o) <=> ~ NoneMissing(x, o)
<1>1. /\ \A s, k : Blocks!Pop(s, k) = Pop(s, k)
      /\ \A s, k : Blocks!FromTop(s, k) = FromTop(s, k)
      /\ \A s, v : Blocks!Push(s, v) = Push(s, v)
      /\ \A s : Blocks!Executed(s) = Executed(s)
      /\ \A it : Blocks!Arith(it) = Arith(it)
  BY DEF Blocks!Pop, Blocks!FromTop, Blocks!Push, Blocks!Executed, Blocks!Outcome, Blocks!Arith,
    Pop, FromTop, Push, Executed, Outcome, Arith
<1>2. \A a, b : Blocks!Overflows("rem", a, b) <=> Overflows("rem", a, b)
  BY DEF Blocks!Overflows, Blocks!LeastValue, Blocks!TwoTo, Blocks!Word,
    Overflows, LeastValue, TwoTo, Word
<1>3. \A x, s : Blocks!Outcomes(x, s) = Compiled(x, s)
  BY <1>1, <1>2, SameExec, Zenon DEF Blocks!Outcomes, Compiled
<1>4. \A x, o : Blocks!Unchecked(x, o) <=> ~ NoneMissing(x, o)
  BY DEF Blocks!Unchecked, NoneMissing
<1> QED
  BY <1>3, <1>4

LEMMA SameGraph == \A f : Blocks!GraphOf(f) = GraphOf(f)
BY DEF Blocks!GraphOf, Blocks!BlockAt, Blocks!EndIn, Blocks!StartsOf, Blocks!BreaksUpTo,
  Blocks!NewBreaks, Blocks!BodyOf, Blocks!Terminator, Blocks!Target, Blocks!EndsInConstSkip,
  Blocks!Resolved, Blocks!Kept, Blocks!Eaten, Blocks!FoldsDrop, Blocks!FoldsPick,
  Blocks!ConstLitAt, Blocks!MinInt, Blocks!At, Blocks!ControlOps, Blocks!IsLit,
  Blocks!IsUsize, Blocks!Pick, Blocks!DropRange,
  GraphOf, BlockAt, EndIn, StartsOf, BreaksUpTo, NewBreaks, BodyOf, Terminator, Target,
  EndsInConstSkip, Resolved, Kept, Eaten, FoldsDrop, FoldsPick, ConstLitAt, MinInt, At,
  ControlOps, IsLit, IsUsize, Pick, DropRange

LEMMA SameStackOps ==
    /\ \A s, k : Blocks!Pop(s, k) = Pop(s, k)
    /\ \A s, k : Blocks!FromTop(s, k) = FromTop(s, k)
    /\ \A f, j : Blocks!At(f, j) = At(f, j)
    /\ Blocks!ControlOps = ControlOps
BY DEF Blocks!Pop, Blocks!FromTop, Blocks!At, Blocks!ControlOps, Pop, FromTop, At, ControlOps

LEMMA SamePositions ==
    /\ \A j : Blocks!BlockOf(j) = BlockIn(graph, j)
    /\ \A s : Blocks!Locs(s) = LocsOf(func, graph, s)
    /\ \A t : Blocks!Entry(t) = EntryOf(func, graph, t)
    /\ \A j : Blocks!After(j) = AfterOf(func, graph, j)
<1>1. \A j : Blocks!BlockOf(j) = BlockIn(graph, j)
  BY DEF Blocks!BlockOf, BlockIn
<1>2. \A s : Blocks!Locs(s) = LocsOf(func, graph, s)
  BY SameStackOps DEF Blocks!Locs, LocsOf
<1>3. \A S : Blocks!FirstOf(S) = FirstAmong(S)
  BY DEF Blocks!FirstOf, FirstAmong
<1>4. \A t : Blocks!Entry(t) = EntryOf(func, graph, t)
  BY <1>2, <1>3 DEF Blocks!Entry, EntryOf
<1>5. ASSUME NEW j PROVE Blocks!After(j) = AfterOf(func, graph, j)
  BY <1>1, <1>2, <1>3, <1>4 DEF Blocks!After, AfterOf
<1> QED
  BY <1>1, <1>2, <1>4, <1>5

-----------------------------------------------------------------------------
(* The invariant.  The code stands at an instruction or a terminator of    *)
(* its block; and until it is astray, there is room for one more element   *)
(* for each instruction to come.                                           *)

Placed(l) == l < Len(func) => l \in LocsOf(func, graph, BlockIn(graph, l))

FootOK == foot \in [block : Nat, entry : Int, low : Int]

Ends == {"returned", "badskip", "badexponent", "unknown", "quit", "panic", "wild"}

Typed ==
    /\ func \in Codes /\ loc \in 0..Len(func) /\ tmp \in Seq(Int) /\ sp \in Int
    /\ mem \in Memories(MemSize) /\ status \in {"run"} \cup Ends /\ astray \in BOOLEAN
    /\ graph = GraphOf(func) /\ FootOK /\ Placed(loc)

Sound ==
    /\ sp \in 0..MemSize /\ status # "wild"
    /\ status = "run" => sp + Len(tmp) + (Len(func) - loc) <= MemSize

IInv == Typed /\ (~ astray => Sound)

\* Neither before nor after the step has a failure gone unnoticed.
Straight == ~ astray /\ ~ astray'

LEMMA CodeTypes ==
    ASSUME NEW f \in Codes
    PROVE  /\ IsCode(f) /\ Len(f) \in Nat /\ f \in Seq(ParsedInstr(Names, Int))
           /\ \A j \in 0..(Len(f) - 1) : At(f, j) \in Compilable
<1>1. f \in Seq(Compilable)
  BY CodesAssumption
<1>2. f \in Seq(ParsedInstr(Names, Int))
  BY <1>1 DEF Compilable
<1>3. Len(f) \in Nat
  BY <1>1
<1>4. ASSUME NEW j \in 0..(Len(f) - 1) PROVE At(f, j) \in Compilable
  BY <1>1, <1>3 DEF At
<1> QED
  BY <1>2, <1>3, <1>4 DEF IsCode

\* A stack in memory, as a callee or the caller left it.
LEMMA MemoryHolds ==
    ASSUME NEW stack \in InitStacks \cup CalleeStacks, NEW f \in Codes,
           NEW m, m = [a \in 0..(MemSize - 1) |-> IF a < Len(stack) THEN stack[a + 1] ELSE Stale]
    PROVE  /\ m \in Memories(MemSize) /\ stack \in Seq(Int)
           /\ Len(stack) \in 0..MemSize /\ Len(stack) + Len(f) <= MemSize
           /\ Held(m, 0, Len(stack)) = stack
<1>1. /\ stack \in Seq(Int) /\ Len(stack) \in Nat /\ Len(stack) + Len(f) <= MemSize
      /\ Len(f) \in Nat /\ MemSize \in Nat /\ Stale \in Int
  BY StacksAssumption, RoomAssumption, MemoryAssumption, CodeTypes
<1>2. Len(stack) \in 0..MemSize
  BY <1>1
<1>3. m \in Memories(MemSize)
  <2>1. ASSUME NEW a \in 0..(MemSize - 1), a < Len(stack) PROVE stack[a + 1] \in Int
    BY <1>1, <2>1
  <2> QED
    BY <1>1, <2>1 DEF Memories
<1> DEFINE h == Held(m, 0, Len(stack))
<1>4. h \in Seq(Int) /\ Len(h) = Len(stack) /\ \A i \in 1..Len(stack) : h[i] = m[i - 1]
  BY <1>1, <1>2, <1>3, HeldFromBase
<1>5. ASSUME NEW i \in 1..Len(stack) PROVE h[i] = stack[i]
  <2>1. i - 1 \in 0..(MemSize - 1) /\ i - 1 < Len(stack) /\ (i - 1) + 1 = i
    BY <1>1
  <2> HIDE DEF h
  <2> QED
    BY <1>4, <2>1
<1> HIDE DEF h
<1>6. h = stack
  BY <1>1, <1>4, <1>5, SameInts
<1> QED
  BY <1>1, <1>2, <1>3, <1>6 DEF h

\* Where the code is, and what it runs on.
LEMMA HereIs ==
    ASSUME Typed, Running
    PROVE  /\ State \in AnyState /\ State.got = << >> /\ Depth(State) = sp + Len(tmp)
           /\ sp \in Int /\ Len(tmp) \in Nat
           /\ func \in Codes /\ IsCode(func) /\ graph = GraphOf(func) /\ status = "run"
           /\ Len(func) \in Nat /\ loc \in 0..(Len(func) - 1)
           /\ Foot \in [block : Nat, entry : Int, low : Int] /\ Foot.block = Start
           /\ IsBlock(func, Start, graph[Start].end) /\ Start = StartAt(func, loc)
           /\ loc \in Start..(graph[Start].end - 1)
           /\ loc \in LocsIn(func, Start, graph[Start].end)
<1>1. /\ func \in Codes /\ IsCode(func) /\ graph = GraphOf(func) /\ status = "run"
      /\ Len(func) \in Nat /\ loc \in 0..(Len(func) - 1) /\ tmp \in Seq(Int) /\ sp \in Int
      /\ mem \in Memories(MemSize) /\ FootOK /\ Len(tmp) \in Nat
  BY CodeTypes DEF Typed, Running
<1> DEFINE s == StartAt(func, loc)
           e == EndAt(func, loc)
<1>2. IsBlock(func, s, e) /\ s <= loc /\ loc < e
  BY <1>1, BlockAtPosition
<1> HIDE DEF s, e
<1>3. loc \in s..(e - 1) /\ s \in Nat
  BY <1>1, <1>2, BlockBounds
<1>4. Start = s
  BY <1>1, <1>2, <1>3, BlockInIs, SamePositions DEF Start
<1>5. graph[s].end = e /\ LocsOf(func, graph, s) = LocsIn(func, s, e)
  BY <1>1, <1>2, GraphHasBlock
<1>6. loc \in LocsIn(func, s, e)
  <2>1. loc < Len(func)
    BY <1>1
  <2>2. BlockIn(graph, loc) = s
    BY <1>1, <1>2, <1>3, BlockInIs
  <2> QED
    BY <1>5, <2>1, <2>2 DEF Typed, Placed
<1>7. Foot \in [block : Nat, entry : Int, low : Int] /\ Foot.block = Start
  BY <1>1, <1>3, <1>4 DEF Foot, FootOK
<1>8. State \in AnyState /\ State.got = << >> /\ State.sp = sp /\ State.tmp = tmp
  <2>1. << >> \in Seq(Int) /\ Foot.low \in Int /\ FALSE \in BOOLEAN
    BY <1>7
  <2> QED
    BY <1>1, <2>1 DEF State, AnyState
<1>9. Depth(State) = sp + Len(tmp)
  BY <1>8 DEF Depth
<1> QED
  BY <1>1, <1>2, <1>3, <1>4, <1>5, <1>6, <1>7, <1>8, <1>9 DEF s

\* Until it is astray, the state stands for a stack that there is room for.
LEMMA StateIs ==
    ASSUME Typed, Sound, Running
    PROVE  /\ State \in EmitState /\ State.got = << >> /\ View = ViewOf(State)
           /\ View \in Seq(Int) /\ Len(View) = Depth(State) /\ Depth(State) \in Nat
           /\ Depth(State) + (Len(func) - loc) <= MemSize /\ Depth(State) <= MemSize
<1>1. /\ tmp \in Seq(Int) /\ mem \in Memories(MemSize) /\ sp \in 0..MemSize
      /\ sp + Len(tmp) + (Len(func) - loc) <= MemSize /\ MemSize \in Nat
  BY MemoryAssumption DEF Typed, Sound, Running
<1>2. /\ Foot.low \in Int /\ Depth(State) = sp + Len(tmp)
      /\ Len(func) \in Nat /\ loc \in 0..(Len(func) - 1)
  BY HereIs
<1>3. State \in EmitState /\ State.got = << >> /\ State.sp = sp /\ State.tmp = tmp
      /\ State.mem = mem
  <2>1. << >> \in Seq(Int) /\ FALSE \in {FALSE}
    OBVIOUS
  <2> QED
    BY <1>1, <1>2, <2>1 DEF State, EmitState
<1>4. View = ViewOf(State)
  BY <1>3 DEF View, ViewOf
<1>5. View \in Seq(Int) /\ Len(View) = Depth(State) /\ Depth(State) \in Nat
  BY <1>3, <1>4, ViewIs
<1>6. Depth(State) + (Len(func) - loc) <= MemSize
  BY <1>1, <1>2
<1>7. Depth(State) <= MemSize
  BY <1>1, <1>2, <1>5, <1>6
<1> QED
  BY <1>3, <1>4, <1>5, <1>6, <1>7

\* Once the state is s, it stands for the stack of s.
LEMMA BecomesIs ==
    ASSUME Typed, Running, NEW s \in AnyState, Becomes(s)
    PROVE  /\ View' = ViewOf(s) /\ tmp' = s.tmp /\ tmp' \in Seq(Int) /\ sp' = s.sp
           /\ sp' \in Int /\ mem' \in Memories(MemSize)
           /\ sp' + Len(tmp') = Depth(s) /\ func' = func /\ graph' = graph
           /\ FootOK' /\ foot'.block = Start /\ foot'.entry = Foot.entry /\ foot'.low = s.low
<1>1. /\ tmp' = s.tmp /\ sp' = s.sp /\ mem' = s.mem /\ func' = func /\ graph' = graph
      /\ s.tmp \in Seq(Int) /\ s.sp \in Int /\ s.mem \in Memories(MemSize) /\ s.low \in Int
      /\ foot' = [Foot EXCEPT !.low = s.low]
  BY AnyIs DEF Becomes
<1>2. View' = ViewOf(s)
  BY <1>1 DEF View, ViewOf
<1>3. FootOK' /\ foot'.block = Start /\ foot'.entry = Foot.entry /\ foot'.low = s.low
  BY <1>1, HereIs DEF FootOK
<1> QED
  BY <1>1, <1>2, <1>3 DEF Depth

LEMMA EndsWith ==
    ASSUME Typed, Running, NEW s \in AnyState, NEW tag \in Ends, End(tag, s),
           astray' \in BOOLEAN
    PROVE  /\ Typed' /\ status' # "run"
           /\ s \in EmitState /\ tag # "wild" /\ Straight =>
                Sound' /\ Blocks!Stop(tag, ViewOf(s))
<1>1. /\ Becomes(s) /\ loc' = loc /\ status' = IF s.wild THEN "wild" ELSE tag
  BY DEF End
<1>2. /\ View' = ViewOf(s) /\ tmp' \in Seq(Int) /\ sp' \in Int /\ sp' = s.sp
      /\ mem' \in Memories(MemSize) /\ func' = func /\ graph' = graph /\ FootOK'
  BY <1>1, BecomesIs
<1>3. status' \in Ends /\ status' # "run"
  BY <1>1 DEF Ends
<1>4. Placed(loc)'
  BY <1>1, <1>2 DEF Typed, Placed
<1>5. Typed'
  BY <1>1, <1>2, <1>3, <1>4 DEF Typed
<1>6. ASSUME s \in EmitState, tag # "wild", Straight
      PROVE  Sound' /\ Blocks!Stop(tag, ViewOf(s))
  <2>1. status' = tag
    BY <1>1, <1>6, EmitIs
  <2>2. Sound'
    BY <1>2, <1>3, <1>6, <2>1, EmitIs DEF Sound
  <2> QED
    BY <1>1, <1>2, <1>6, <2>1, <2>2 DEF Blocks!Stop, Straight
<1> QED
  BY <1>3, <1>5, <1>6

LEMMA GoesTo ==
    ASSUME Typed, Running, NEW s \in AnyState, NEW l \in 0..Len(func), Placed(l), GoTo(l, s),
           astray' \in BOOLEAN
    PROVE  /\ Typed'
           /\ s \in EmitState /\ Depth(s) + (Len(func) - l) <= MemSize /\ Straight =>
                Sound' /\ Blocks!GoTo(l, ViewOf(s))
<1>1. CASE s.wild
  <2>1. End("wild", s) /\ "wild" \in Ends
    BY <1>1 DEF GoTo, Ends
  <2> QED
    BY <1>1, <2>1, EndsWith, EmitIs
<1>2. CASE ~ s.wild
  <2>1. Becomes(s) /\ loc' = l /\ status' = status /\ status = "run"
    BY <1>2 DEF GoTo, Running
  <2>2. /\ View' = ViewOf(s) /\ tmp' \in Seq(Int) /\ sp' \in Int /\ sp' = s.sp
        /\ mem' \in Memories(MemSize) /\ func' = func /\ graph' = graph /\ FootOK'
        /\ sp' + Len(tmp') = Depth(s)
    BY <2>1, BecomesIs
  <2>3. Placed(loc)'
    BY <2>1, <2>2 DEF Placed
  <2>4. Typed'
    BY <2>1, <2>2, <2>3 DEF Typed
  <2>5. ASSUME s \in EmitState, Depth(s) + (Len(func) - l) <= MemSize, Straight
        PROVE  Sound' /\ Blocks!GoTo(l, ViewOf(s))
    <3>1. Sound'
      BY <2>1, <2>2, <2>5, EmitIs DEF Sound
    <3>2. ~ (l > Len(func))
      BY HereIs
    <3> QED
      BY <2>1, <2>2, <2>5, <3>1, <3>2 DEF Blocks!GoTo, Straight
  <2> QED
    BY <2>4, <2>5
<1> QED
  BY <1>1, <1>2

\* Out of the block: what is in tmp is flushed.
LEMMA Leaves ==
    ASSUME Typed, Running, NEW s \in AnyState, NEW l, Leave(l, s), astray' \in BOOLEAN,
           (l \in 0..Len(func) /\ Placed(l)) \/ l = Len(func) + 1
    PROVE  /\ Typed'
           /\ /\ s \in EmitState /\ Depth(s) <= MemSize /\ Straight
              /\ l # Len(func) + 1 => Depth(s) + (Len(func) - l) <= MemSize
              => Sound' /\ Blocks!GoTo(l, ViewOf(s))
<1> DEFINE t == Flush(s)
<1>1. t \in AnyState
  BY FlushKeeps DEF Keeps
<1>2. ASSUME s \in EmitState, Depth(s) <= MemSize
      PROVE  t \in EmitState /\ ViewOf(t) = ViewOf(s) /\ Depth(t) = Depth(s)
  BY <1>2, FlushIs
<1> HIDE DEF t
<1>3. Len(func) \in Nat
  BY HereIs
<1>4. CASE l \in 0..Len(func) /\ Placed(l)
  <2>1. GoTo(l, t) /\ l # Len(func) + 1
    BY <1>3, <1>4 DEF Leave, t
  <2> QED
    BY <1>1, <1>2, <1>4, <2>1, GoesTo
<1>5. CASE l = Len(func) + 1
  <2>1. l > Len(func)
    BY <1>3, <1>5
  <2>2. End("badskip", t) /\ "badskip" \in Ends /\ "badskip" # "wild"
    BY <2>1 DEF Leave, t, Ends
  <2>3. /\ Typed'
        /\ t \in EmitState /\ Straight => Sound' /\ Blocks!Stop("badskip", ViewOf(t))
    BY <1>1, <2>2, EndsWith
  <2> QED
    BY <1>2, <2>1, <2>3 DEF Blocks!GoTo
<1> QED
  BY <1>4, <1>5

-----------------------------------------------------------------------------
(* The instruction the code stands at.                                     *)

LEMMA BodyInstr ==
    ASSUME NEW f \in Codes, NEW s, NEW e, IsBlock(f, s, e), NEW j \in BodyOf(f, s, e),
           NEW x, x = Resolved(f, s, j), x.op # "call"
    PROVE  x \in InBody
<1>1. IsCode(f) /\ Len(f) \in Nat
  BY CodeTypes
<1>2. s \in Nat /\ e \in Nat /\ s < e /\ e <= Len(f)
  BY <1>1, BlockBounds
<1>3. AssertsHold(f, s, e)
  BY GraphAssumption DEF GraphExists, IsBlock
<1>4. j \in s..(e - 1) /\ j \in 0..(Len(f) - 1)
  BY <1>1, <1>2 DEF BodyOf, Kept
<1>5. At(f, j) \in Compilable
  BY <1>4, CodeTypes
<1>6. At(f, j).op \notin ControlOps
  <2>1. CASE j = e - 1
    BY <2>1 DEF BodyOf, EndsInConstSkip, ControlOps
  <2>2. CASE j # e - 1
    BY <1>1, <1>4, <2>2, ControlEndsBlock DEF IsBlock, IsCode
  <2> QED
    BY <2>1, <2>2
<1>7. CASE FoldsPick(f, s, j)
  <2>1. x = Pick(At(f, j - 1).n) /\ At(f, j - 1).n >= 1
    BY <1>3, <1>4, <1>7 DEF Resolved, AssertsHold
  <2>2. j - 1 \in 0..(Len(f) - 1) /\ ConstLitAt(f, j - 1)
    BY <1>1, <1>2, <1>4, <1>7 DEF FoldsPick
  <2>3. At(f, j - 1).n \in Nat
    BY <2>2, <1>1, ParsedAt DEF IsCode
  <2> QED
    BY <2>1, <2>3 DEF InBody, Instr, ResolvedInstr, Pick, ControlOps
<1>8. CASE FoldsDrop(f, s, j) /\ ~ FoldsPick(f, s, j)
  <2>1. x = DropRange(At(f, j - 2).n, At(f, j - 1).n) /\ At(f, j - 2).n >= At(f, j - 1).n
    BY <1>3, <1>4, <1>8 DEF Resolved, AssertsHold
  <2>2. /\ j - 1 \in 0..(Len(f) - 1) /\ ConstLitAt(f, j - 1)
        /\ j - 2 \in 0..(Len(f) - 1) /\ ConstLitAt(f, j - 2)
    BY <1>1, <1>2, <1>4, <1>8 DEF FoldsDrop
  <2>3. At(f, j - 1).n \in Nat /\ At(f, j - 2).n \in Nat
    BY <2>2, <1>1, ParsedAt DEF IsCode
  <2> QED
    BY <2>1, <2>3 DEF InBody, Instr, ResolvedInstr, DropRange, ControlOps
<1>9. CASE ~ FoldsDrop(f, s, j) /\ ~ FoldsPick(f, s, j)
  <2>1. x = At(f, j)
    BY <1>9 DEF Resolved
  <2> QED
    BY <1>5, <1>6, <2>1 DEF InBody, Instr, Compilable
<1> QED
  BY <1>7, <1>8, <1>9

LEMMA AtInstrIs ==
    ASSUME Typed, AtInstr
    PROVE  /\ loc \in BodyOf(func, Start, graph[Start].end)
           /\ Here.op # "call" => Here \in InBody
<1>1. /\ func \in Codes /\ IsCode(func) /\ graph = GraphOf(func)
      /\ IsBlock(func, Start, graph[Start].end)
  BY HereIs DEF AtInstr
<1>2. /\ loc \in BodyOf(func, Start, graph[Start].end)
      /\ Here = Resolved(func, Start, loc)
  BY <1>1, GraphHasBlock DEF AtInstr, Here, Block
<1> QED
  BY <1>1, <1>2, BodyInstr

\* To the next instruction, within the block or out of it.
LEMMA Proceeds ==
    ASSUME Typed, AtInstr, NEW s \in AnyState, Proceed(s), astray' \in BOOLEAN
    PROVE  /\ Typed'
           /\ s \in EmitState /\ Depth(s) + (Len(func) - (loc + 1)) <= MemSize /\ Straight =>
                Sound' /\ Blocks!GoTo(Blocks!After(loc), ViewOf(s))
<1> DEFINE e == graph[Start].end
           l == Blocks!After(loc)
           n == Len(func)
           Fits == s \in EmitState /\ Depth(s) + (n - (loc + 1)) <= MemSize /\ Straight
<1>1. /\ IsCode(func) /\ graph = GraphOf(func) /\ Running
      /\ n \in Nat /\ loc \in 0..(n - 1)
      /\ IsBlock(func, Start, e) /\ loc \in BodyOf(func, Start, e)
  BY HereIs, AtInstrIs DEF AtInstr
<1>2. l = LocAt(func, loc + 1) /\ l \in (loc + 1)..n /\ loc + 1 \in 0..n
  BY <1>1, AfterOfIs, SamePositions
<1>3. Proceed(s) <=> IF l < e THEN GoTo(l, s) ELSE Leave(l, s)
  BY DEF Proceed, Block
<1> HIDE DEF l, n
<1>4. Placed(l)
  BY <1>1, <1>2, LocAtIsPlaced DEF Placed, n
<1>5. l \in 0..n /\ l # n + 1
  BY <1>1, <1>2
<1>6. Fits => Depth(s) + (n - l) <= MemSize /\ Depth(s) <= MemSize
  <2> SUFFICES ASSUME Fits PROVE Depth(s) + (n - l) <= MemSize /\ Depth(s) <= MemSize
    OBVIOUS
  <2>1. Depth(s) \in Nat
    BY ViewIs
  <2> QED
    BY <1>1, <1>2, <2>1, MemoryAssumption
<1>7. CASE l < e
  <2>1. GoTo(l, s)
    BY <1>3, <1>7
  <2> QED
    BY <1>1, <1>4, <1>5, <1>6, <2>1, GoesTo DEF l, n
<1>8. CASE ~ (l < e)
  <2>1. Leave(l, s)
    BY <1>3, <1>8
  <2> QED
    BY <1>1, <1>4, <1>5, <1>6, <2>1, Leaves DEF l, n
<1> QED
  BY <1>7, <1>8

\* Where the terminator's targets lead.
LEMMA TargetIs ==
    ASSUME Typed, Running, loc \notin DOMAIN Block.code,
           NEW t \in DOMAIN Block.term.targets, NEW l, l = Blocks!Entry(Block.term.targets[t])
    PROVE  \/ /\ l \in 0..Len(func) /\ Placed(l) /\ loc < l
              /\ \E x \in Places(func) :
                    graph[Start].end <= x /\ x <= Len(func) /\ l = LocAt(func, x)
           \/ l = Len(func) + 1
<1> DEFINE e == graph[Start].end
           x == Block.term.targets[t]
           n == Len(func)
<1>1. /\ IsCode(func) /\ graph = GraphOf(func) /\ n \in Nat /\ loc \in 0..(n - 1)
      /\ IsBlock(func, Start, e) /\ loc \in Start..(e - 1) /\ loc \in LocsIn(func, Start, e)
  BY HereIs
<1>2. /\ Block.term = Terminator(func, Start, e) /\ DOMAIN Block.code = BodyOf(func, Start, e)
  BY <1>1, GraphHasBlock DEF Block
<1>3. loc = e - 1
  BY <1>1, <1>2 DEF LocsIn
<1>4. x \in Places(func) /\ x \in e..(n + 1)
  BY <1>1, <1>2, TargetsAhead
<1>5. e \in Nat
  BY <1>1, BlockBounds
<1> HIDE DEF x, e, n
<1>6. l = EntryOf(func, graph, x)
  BY SamePositions DEF x
<1>7. CASE x <= n
  <2>1. l = LocAt(func, x) /\ l \in x..n /\ x \in 0..n
    BY <1>1, <1>4, <1>6, <1>7, EntryOfIs DEF n
  <2>2. Placed(l)
    BY <1>1, <2>1, LocAtIsPlaced DEF Placed, n
  <2>3. l \in 0..n /\ loc < l /\ e <= x
    BY <1>1, <1>3, <1>4, <1>5, <2>1
  <2> QED
    BY <1>4, <1>7, <2>1, <2>2, <2>3 DEF n, e
<1>8. CASE ~ (x <= n)
  <2>1. x = n + 1
    BY <1>1, <1>4, <1>5, <1>8
  <2> QED
    BY <1>1, <1>6, <2>1, TrapOfIs DEF n
<1> QED
  BY <1>7, <1>8

\* Out of a block that ends in a control instruction, by one of its targets.
LEMMA Follows ==
    ASSUME Typed, Running, loc \notin DOMAIN Block.code,
           NEW t \in DOMAIN Block.term.targets, NEW l, l = Blocks!Entry(Block.term.targets[t]),
           NEW s \in AnyState, Leave(l, s), astray' \in BOOLEAN
    PROVE  /\ Typed'
           /\ Sound /\ s \in EmitState /\ Depth(s) <= Depth(State) /\ Straight =>
                Sound' /\ Blocks!GoTo(l, ViewOf(s))
<1> DEFINE n == Len(func)
<1>1. n \in Nat /\ loc \in 0..(n - 1)
  BY HereIs
<1>2. (l \in 0..n /\ Placed(l) /\ loc < l) \/ l = n + 1
  BY TargetIs
<1>3. ASSUME Sound, s \in EmitState, Depth(s) <= Depth(State)
      PROVE  /\ Depth(s) <= MemSize
             /\ l # n + 1 => Depth(s) + (n - l) <= MemSize
  <2>1. /\ Depth(s) \in Nat /\ Depth(State) \in Nat /\ Depth(State) + (n - loc) <= MemSize
        /\ Depth(State) <= MemSize /\ MemSize \in Nat
    BY <1>3, ViewIs, StateIs, MemoryAssumption
  <2> HIDE DEF n
  <2> QED
    BY <1>1, <1>2, <1>3, <2>1
<1> HIDE DEF n
<1> QED
  BY <1>1, <1>2, <1>3, Leaves DEF n

-----------------------------------------------------------------------------
(* Every step keeps the types; and until a failure goes unnoticed, it is   *)
(* one of the block machine's.                                             *)

LEMMA SameBlock ==
    /\ Blocks!Block = Block
    /\ AtInstr => Blocks!Block.code[loc] = Here
    /\ ~ astray => (Blocks!Running <=> Running)
    /\ ~ astray => (Blocks!AtBody <=> AtInstr /\ Here.op # "call")
    /\ ~ astray => \A kind : Blocks!AtTerminator(kind) <=> AtTerminator(kind)
<1>1. Blocks!Block = Block
  BY DEF Blocks!Block, Block, Start
<1>2. ~ astray => (Blocks!Running <=> Running)
  BY DEF Blocks!Running, Running
<1>3. AtInstr => Blocks!Block.code[loc] = Here
  BY <1>1 DEF Here
<1>4. ~ astray => (Blocks!AtBody <=> AtInstr /\ Here.op # "call")
  BY <1>1, <1>2 DEF Blocks!AtBody, AtInstr, Here
<1>5. ~ astray => \A kind : Blocks!AtTerminator(kind) <=> AtTerminator(kind)
  BY <1>1, <1>2 DEF Blocks!AtTerminator, AtTerminator
<1> QED
  BY <1>1, <1>2, <1>3, <1>4, <1>5

LEMMA CheckedHere ==
    ASSUME ~ astray, ~ Blocks!Unnoticed, AtInstr, Here.op # "call"
    PROVE  Checked(Here, View)
<1>1. \A o \in Blocks!Outcomes(Here, View) : ~ Blocks!Unchecked(Here, o)
  BY SameBlock DEF Blocks!Unnoticed
<1> QED
  BY <1>1, SameOutcomes DEF Checked

\* What is no body instruction but a call or a jump fails in no such way.
LEMMA NotUnnoticed ==
    ASSUME ~ astray,
           \/ AtInstr /\ Here.op = "call"
           \/ AtTerminator("jump")
           \/ ~ Running
    PROVE  ~ Blocks!Unnoticed
<1>1. ~ Blocks!AtBody
  BY SameBlock DEF AtTerminator, AtInstr
<1>2. ~ AtTerminator("if") /\ ~ AtTerminator("skip")
  BY DEF AtTerminator, AtInstr
<1> QED
  BY <1>1, <1>2, SameBlock DEF Blocks!Unnoticed

LEMMA InstrStep ==
    ASSUME Typed, StepInstr
    PROVE  /\ Typed'
           /\ Sound /\ Straight => Sound' /\ ~ Blocks!Unnoticed /\ Blocks!UncheckedBody
<1>1. /\ AtInstr /\ Running /\ Here.op # "call" /\ Here \in InBody
      /\ astray' = (astray \/ Blocks!Unnoticed) /\ astray' \in BOOLEAN
  BY AtInstrIs DEF StepInstr, AtInstr
<1>2. PICK e \in Emitted(Here, State) :
         IF e.tag = "executed" THEN Proceed(e.s) ELSE End(e.tag, e.s)
  BY DEF StepInstr
<1>3. e.s \in AnyState /\ e.tag \in {"executed", "quit", "panic", "badexponent"}
  BY <1>1, <1>2, HereIs, EmittedStays
<1>4. CASE ~ (Sound /\ Straight)
  <2>1. CASE e.tag = "executed"
    BY <1>1, <1>2, <1>3, <1>4, <2>1, Proceeds
  <2>2. CASE e.tag # "executed"
    <3>1. e.tag \in Ends
      BY <1>3, <2>2 DEF Ends
    <3> QED
      BY <1>1, <1>2, <1>3, <1>4, <2>2, <3>1, EndsWith
  <2> QED
    BY <2>1, <2>2
<1>5. CASE Sound /\ Straight
  <2>1. ~ Blocks!Unnoticed /\ Checked(Here, View) /\ ~ astray
    BY <1>1, <1>5, CheckedHere DEF Straight
  <2>2. /\ State \in EmitState /\ State.got = << >> /\ View = ViewOf(State)
        /\ View \in Seq(Int) /\ Len(View) = Depth(State) /\ Depth(State) \in Nat
        /\ Depth(State) + (Len(func) - loc) <= MemSize /\ Depth(State) <= MemSize
        /\ Len(func) \in Nat /\ loc \in 0..(Len(func) - 1)
    BY <1>1, <1>5, StateIs, HereIs
  <2>3. Does(Here, State, e)
    BY <1>1, <1>2, <2>1, <2>2, EmittedDoes
  <2>4. PICK o \in Compiled(Here, View) :
           o.tag = e.tag /\ e.s \in EmitState /\ ViewOf(e.s) = o.st
    BY <2>2, <2>3 DEF Does
  <2>5. Len(o.st) <= Len(View) + 1
    BY <1>1, <2>1, <2>2, OutcomeIs
  <2>6. Depth(e.s) = Len(o.st) /\ Depth(e.s) \in Nat
    BY <2>4, ViewIs
  <2>7. /\ Blocks!AtBody /\ Blocks!Block.code[loc] = Here
        /\ o \in Blocks!Outcomes(Blocks!Block.code[loc], View)
    BY <1>1, <2>1, <2>4, SameBlock, SameOutcomes
  <2>8. CASE e.tag = "executed"
    <3>1. Depth(e.s) + (Len(func) - (loc + 1)) <= MemSize
      BY <2>2, <2>5, <2>6, MemoryAssumption
    <3>2. Typed' /\ Sound' /\ Blocks!GoTo(Blocks!After(loc), o.st)
      BY <1>1, <1>2, <1>3, <1>5, <2>4, <2>8, <3>1, Proceeds
    <3> QED
      BY <2>1, <2>4, <2>7, <2>8, <3>2 DEF Blocks!UncheckedBody
  <2>9. CASE e.tag # "executed"
    <3>1. e.tag \in Ends /\ e.tag # "wild"
      BY <1>3, <2>9 DEF Ends
    <3>2. Typed' /\ Sound' /\ Blocks!Stop(o.tag, o.st)
      BY <1>1, <1>2, <1>3, <1>5, <2>4, <2>9, <3>1, EndsWith
    <3> QED
      BY <2>1, <2>4, <2>7, <2>9, <3>2 DEF Blocks!UncheckedBody
  <2> QED
    BY <2>8, <2>9
<1> QED
  BY <1>4, <1>5

\* The stack that a callee returns.
LEMMA CalleeState ==
    ASSUME Typed, Running, NEW new \in CalleeStacks,
           NEW s, s = [Flush(State) EXCEPT !.sp = Len(new),
                         !.mem = [a \in DOMAIN @ |-> IF a < Len(new) THEN new[a + 1] ELSE Stale]]
    PROVE  /\ s \in AnyState
           /\ Sound => /\ s \in EmitState /\ ViewOf(s) = new
                       /\ Depth(s) + (Len(func) - (loc + 1)) <= MemSize
<1> DEFINE m == [a \in 0..(MemSize - 1) |-> IF a < Len(new) THEN new[a + 1] ELSE Stale]
           t == Flush(State)
<1>1. /\ State \in AnyState /\ func \in Codes
      /\ Len(func) \in Nat /\ loc \in 0..(Len(func) - 1)
  BY HereIs
<1>2. t \in AnyState /\ t.tmp = << >> /\ DOMAIN t.mem = 0..(MemSize - 1)
  BY <1>1, FlushKeeps, AnyIs DEF Keeps, Memories
<1>3. Sound => t \in EmitState
  BY StateIs, FlushIs
<1>4. s = [t EXCEPT !.sp = Len(new), !.mem = m]
  BY <1>2 DEF AnyState
<1> HIDE DEF t
<1>5. /\ m \in Memories(MemSize) /\ new \in Seq(Int) /\ Len(new) \in 0..MemSize
      /\ Len(new) + Len(func) <= MemSize /\ Held(m, 0, Len(new)) = new
  BY <1>1, MemoryHolds
<1> HIDE DEF m
<1>6. Len(new) \in Int
  BY <1>5
<1>7. s \in AnyState /\ s.sp = Len(new) /\ s.tmp = << >> /\ s.mem = m
  BY ZenonT(40), <1>2, <1>4, <1>5, <1>6 DEF AnyState
<1>8. ASSUME Sound
      PROVE  /\ s \in EmitState /\ ViewOf(s) = new
             /\ Depth(s) + (Len(func) - (loc + 1)) <= MemSize
  <2>1. s \in EmitState
    BY ZenonT(40), <1>3, <1>4, <1>5, <1>8 DEF EmitState
  <2>2. ViewOf(s) = new /\ Depth(s) = Len(new)
    BY <1>5, <1>7, <2>1, ViewIs DEF Depth
  <2> DEFINE d == Len(new)
             n == Len(func)
  <2>3. d \in 0..MemSize /\ d + n <= MemSize /\ Depth(s) = d
    BY <1>5, <2>2
  <2>4. n \in Nat /\ loc \in 0..(n - 1)
    BY <1>1
  <2> HIDE DEF d, n
  <2>5. d + (n - (loc + 1)) <= MemSize
    BY <2>3, <2>4, MemoryAssumption
  <2> QED
    BY <2>1, <2>2, <2>3, <2>5 DEF n
<1> QED
  BY <1>7, <1>8

\* ... and what one gone astray may leave.
LEMMA WreckState ==
    ASSUME Typed, Running, NEW wreck \in Wrecks,
           NEW s, s = [Flush(State) EXCEPT !.sp = wreck.sp, !.mem = wreck.mem]
    PROVE  s \in AnyState
<1> DEFINE t == Flush(State)
<1>1. t \in AnyState
  BY HereIs, FlushKeeps DEF Keeps
<1>2. wreck.sp \in Int /\ wreck.mem \in Memories(MemSize)
  BY WrecksAssumption DEF Memories
<1> HIDE DEF t
<1>3. s = [t EXCEPT !.sp = wreck.sp, !.mem = wreck.mem]
  BY DEF t
<1> QED
  BY <1>1, <1>2, <1>3 DEF AnyState

LEMMA CallStep ==
    ASSUME Typed, StepCall
    PROVE  /\ Typed'
           /\ Sound /\ Straight => Sound' /\ ~ Blocks!Unnoticed /\ Blocks!CallBody
<1>1. /\ AtInstr /\ Running /\ Here.op = "call" /\ Here.f \in Defined /\ astray' = astray
      /\ astray' \in BOOLEAN
  BY DEF StepCall, AtInstr, Typed
<1>2. PICK new \in CalleeStacks :
         Proceed([Flush(State) EXCEPT !.sp = Len(new),
                    !.mem = [a \in DOMAIN @ |-> IF a < Len(new) THEN new[a + 1] ELSE Stale]])
  BY DEF StepCall
<1> DEFINE s == [Flush(State) EXCEPT !.sp = Len(new),
                   !.mem = [a \in DOMAIN @ |-> IF a < Len(new) THEN new[a + 1] ELSE Stale]]
<1>3. Proceed(s)
  BY <1>2
<1>4. /\ s \in AnyState
      /\ Sound => /\ s \in EmitState /\ ViewOf(s) = new
                  /\ Depth(s) + (Len(func) - (loc + 1)) <= MemSize
  BY <1>1, CalleeState
<1> HIDE DEF s
<1>5. /\ Typed'
      /\ Sound /\ Straight => Sound' /\ Blocks!GoTo(Blocks!After(loc), new)
  BY <1>1, <1>3, <1>4, Proceeds
<1>6. ASSUME Sound, Straight PROVE ~ Blocks!Unnoticed /\ Blocks!CallBody
  BY <1>1, <1>5, <1>6, SameBlock, NotUnnoticed DEF Blocks!CallBody, AtInstr, Straight
<1> QED
  BY <1>5, <1>6

LEMMA CallAstrayStep ==
    ASSUME Typed, StepCallAstray
    PROVE  /\ Typed' /\ astray' /\ (~ astray => Blocks!CalleeFails)
<1>1. /\ AtInstr /\ Running /\ Here.op = "call" /\ Here.f \in Defined /\ astray' = TRUE
  BY DEF StepCallAstray, AtInstr
<1>2. PICK wreck \in Wrecks :
         Proceed([Flush(State) EXCEPT !.sp = wreck.sp, !.mem = wreck.mem])
  BY DEF StepCallAstray
<1> DEFINE s == [Flush(State) EXCEPT !.sp = wreck.sp, !.mem = wreck.mem]
<1>3. Proceed(s) /\ s \in AnyState
  BY <1>1, <1>2, WreckState
<1> HIDE DEF s
<1>4. Typed'
  BY <1>1, <1>3, Proceeds
<1>5. ~ astray => Blocks!CalleeFails
  BY <1>1, SameBlock DEF Blocks!CalleeFails, AtInstr
<1> QED
  BY <1>1, <1>4, <1>5

LEMMA UnknownStep ==
    ASSUME Typed, StepUnknown
    PROVE  /\ Typed'
           /\ Sound /\ Straight => Sound' /\ ~ Blocks!Unnoticed /\ Blocks!CallUnknown
<1>1. /\ AtInstr /\ Running /\ Here.op = "call" /\ Here.f \notin Defined /\ End("unknown", State)
      /\ astray' \in BOOLEAN
  BY DEF StepUnknown, AtInstr, Typed
<1>2. "unknown" \in Ends /\ "unknown" # "wild" /\ State \in AnyState
  BY <1>1, HereIs DEF Ends
<1>3. /\ Typed'
      /\ Sound /\ Straight => Sound' /\ Blocks!Stop("unknown", View)
  BY <1>1, <1>2, StateIs, EndsWith
<1>4. ASSUME Sound, Straight PROVE ~ Blocks!Unnoticed /\ Blocks!CallUnknown
  BY <1>1, <1>3, <1>4, SameBlock, NotUnnoticed DEF Blocks!CallUnknown, AtInstr, Straight
<1> QED
  BY <1>3, <1>4

LEMMA JumpStep ==
    ASSUME Typed, Jump
    PROVE  /\ Typed'
           /\ Sound /\ Straight => Sound' /\ ~ Blocks!Unnoticed /\ Blocks!Jump
<1> DEFINE l == Blocks!Entry(Block.term.targets[1])
<1>1. /\ Running /\ loc \notin DOMAIN Block.code /\ AtTerminator("jump") /\ Leave(l, State)
      /\ Block.term.kind = "jump" /\ astray' \in BOOLEAN
  BY DEF Jump, AtTerminator, Typed
<1>2. 1 \in DOMAIN Block.term.targets
  <2>1. Block.term = Terminator(func, Start, graph[Start].end)
    BY <1>1, HereIs, GraphHasBlock DEF Block
  <2> QED
    BY <1>1, <2>1, JumpHasTarget
<1>3. State \in AnyState
  BY <1>1, HereIs
<1>4. Sound => State \in EmitState /\ View = ViewOf(State) /\ Depth(State) <= Depth(State)
  <2> SUFFICES ASSUME Sound
               PROVE  State \in EmitState /\ View = ViewOf(State) /\ Depth(State) <= Depth(State)
    OBVIOUS
  <2>1. State \in EmitState /\ View = ViewOf(State) /\ Depth(State) \in Nat
    BY <1>1, StateIs
  <2>2. Depth(State) <= Depth(State)
    BY <2>1
  <2> QED
    BY <2>1, <2>2
<1> HIDE DEF l
<1>5. /\ Typed'
      /\ Sound /\ Straight => Sound' /\ Blocks!GoTo(l, View)
  BY <1>1, <1>2, <1>3, <1>4, Follows DEF l
<1>6. ASSUME Sound, Straight PROVE ~ Blocks!Unnoticed /\ Blocks!Jump
  BY <1>1, <1>5, <1>6, SameBlock, NotUnnoticed DEF Blocks!Jump, Straight, l
<1> QED
  BY <1>5, <1>6

LEMMA BranchStep ==
    ASSUME Typed, Branch
    PROVE  /\ Typed'
           /\ Sound /\ Straight => Sound' /\ ~ Blocks!Unnoticed /\ Blocks!Branch
<1> DEFINE s == XPop(State)
           v == s.got[1]
           next == IF Block.term.kind = "if" THEN (IF v # 0 THEN 1 ELSE 2) ELSE v + 1
           targets == Block.term.targets
<1>1. /\ Running /\ loc \notin DOMAIN Block.code
      /\ AtTerminator("if") \/ AtTerminator("skip")
      /\ astray' = (astray \/ Blocks!Unnoticed) /\ astray' \in BOOLEAN
  BY DEF Branch, AtTerminator
<1>2. Leave(IF next \in DOMAIN targets THEN Blocks!Entry(targets[next]) ELSE Len(func) + 1, s)
  BY DEF Branch
<1>3. s \in AnyState
  BY <1>1, HereIs, PopsStayTyped
<1>4. ASSUME Sound, Straight
      PROVE  /\ ~ Blocks!Unnoticed /\ View # << >> /\ v = FromTop(View, 1)
             /\ s \in EmitState /\ ViewOf(s) = Pop(View, 1)
             /\ Depth(s) <= Depth(State) /\ Depth(s) <= MemSize
  <2>1. ~ Blocks!Unnoticed /\ View # << >>
    BY <1>1, <1>4, SameBlock DEF Blocks!Unnoticed, Straight
  <2>2. /\ State \in EmitState /\ State.got = << >> /\ View = ViewOf(State) /\ View \in Seq(Int)
        /\ Len(View) = Depth(State) /\ Depth(State) \in Nat /\ Depth(State) <= MemSize
    BY <1>1, <1>4, StateIs
  <2>3. Depth(State) > 0
    BY <2>1, <2>2, EmptySeq
  <2>4. PopsOne(State, s) /\ s.got = Append(State.got, FromTop(View, 1))
    BY <2>2, <2>3, XPopIs
  <2>5. /\ s \in EmitState /\ ViewOf(s) = Pop(View, 1) /\ Depth(s) = Depth(State) - 1
        /\ v = FromTop(View, 1)
    BY <2>2, <2>4 DEF PopsOne
  <2> HIDE DEF s, v
  <2> QED
    BY <2>1, <2>2, <2>5, MemoryAssumption
<1>5. ~ astray => (Blocks!AtTerminator("if") \/ Blocks!AtTerminator("skip"))
  BY <1>1, SameBlock
<1> HIDE DEF s, v
<1>6. CASE next \in DOMAIN targets
  <2> DEFINE l == Blocks!Entry(targets[next])
  <2>1. Leave(l, s)
    BY <1>2, <1>6
  <2> HIDE DEF l, next
  <2>2. /\ Typed'
        /\ Sound /\ s \in EmitState /\ Depth(s) <= Depth(State) /\ Straight =>
             Sound' /\ Blocks!GoTo(l, ViewOf(s))
    BY <1>1, <1>3, <1>6, <2>1, Follows DEF l
  <2>3. ASSUME Sound, Straight PROVE Blocks!Branch
    BY <1>4, <1>5, <1>6, <2>2, <2>3, SameBlock, SameStackOps DEF Blocks!Branch, Straight, l, next
  <2> QED
    BY <1>4, <2>2, <2>3
<1>7. CASE next \notin DOMAIN targets
  <2>1. Leave(Len(func) + 1, s)
    BY <1>2, <1>7
  <2> HIDE DEF next
  <2>2. /\ Typed'
        /\ Sound /\ Straight => Sound' /\ Blocks!GoTo(Len(func) + 1, ViewOf(s))
    BY <1>1, <1>3, <1>4, <2>1, Leaves
  <2>3. ASSUME Sound, Straight PROVE Blocks!Branch
    <3>1. Len(func) + 1 > Len(func)
      BY <1>1, HereIs
    <3>2. Blocks!Stop("badskip", Pop(View, 1))
      BY <1>4, <2>2, <2>3, <3>1 DEF Blocks!GoTo
    <3> QED
      BY <1>4, <1>5, <1>7, <2>3, <3>2, SameBlock, SameStackOps DEF Blocks!Branch, Straight, next
  <2> QED
    BY <1>4, <2>2, <2>3
<1> QED
  BY <1>6, <1>7

LEMMA ReturnStep ==
    ASSUME Typed, Return
    PROVE  /\ Typed'
           /\ Sound /\ Straight => Sound' /\ ~ Blocks!Unnoticed /\ Blocks!Return
<1>1. /\ status = "run" /\ loc = Len(func) /\ status' = "returned"
      /\ func' = func /\ graph' = graph /\ loc' = loc /\ tmp' = tmp /\ sp' = sp
      /\ mem' = mem /\ foot' = foot /\ astray' = astray
  BY DEF Return
<1>2. View' = View
  BY <1>1 DEF View
<1>3. Typed'
  BY <1>1 DEF Typed, FootOK, Placed, Ends
<1>4. ~ Running
  <2>1. Len(func) \in Nat
    BY CodeTypes DEF Typed
  <2> QED
    BY <1>1, <2>1 DEF Running
<1>5. ASSUME Sound, Straight PROVE Sound' /\ ~ Blocks!Unnoticed /\ Blocks!Return
  <2>1. Sound'
    BY <1>1, <1>5 DEF Sound
  <2>2. ~ Blocks!Unnoticed
    BY <1>4, <1>5, NotUnnoticed DEF Straight
  <2> QED
    BY <1>1, <1>2, <1>5, <2>1, <2>2 DEF Blocks!Return, Blocks!Stop, Straight
<1> QED
  BY <1>3, <1>5

\* Astray it stays, and comes to be by a failure of its own or of a callee.
LEMMA StepAstray ==
    ASSUME Typed, Next
    PROVE  /\ func' = func /\ graph' = graph /\ (astray => astray')
           /\ ~ astray /\ astray' => Blocks!Unnoticed \/ Blocks!CalleeFails
<1>1. \A s : Becomes(s) => func' = func /\ graph' = graph
  BY DEF Becomes
<1>2. \A tag, s : End(tag, s) => func' = func /\ graph' = graph
  BY <1>1 DEF End
<1>3. \A l, s : GoTo(l, s) => func' = func /\ graph' = graph
  BY <1>1, <1>2 DEF GoTo
<1>4. \A l, s : Leave(l, s) => func' = func /\ graph' = graph
  BY <1>2, <1>3 DEF Leave
<1>5. \A s : Proceed(s) => func' = func /\ graph' = graph
  BY <1>3, <1>4 DEF Proceed
<1>6. CASE StepInstr
  BY <1>2, <1>5, <1>6 DEF StepInstr
<1>7. CASE StepCall
  BY <1>5, <1>7 DEF StepCall
<1>8. CASE StepCallAstray
  BY <1>5, <1>8, CallAstrayStep DEF StepCallAstray
<1>9. CASE StepUnknown
  BY <1>2, <1>9 DEF StepUnknown
<1>10. CASE Jump
  BY <1>4, <1>10 DEF Jump
<1>11. CASE Branch
  BY <1>4, <1>11 DEF Branch
<1>12. CASE Return
  BY <1>12 DEF Return
<1> QED
  BY <1>6, <1>7, <1>8, <1>9, <1>10, <1>11, <1>12 DEF Next

LEMMA StepKeeps == IInv /\ [Next]_vars => IInv' /\ [Blocks!UncheckedNext]_(Blocks!vars)
<1> SUFFICES ASSUME IInv, [Next]_vars
             PROVE  IInv' /\ [Blocks!UncheckedNext]_(Blocks!vars)
  OBVIOUS
<1> DEFINE Act == \/ Blocks!UncheckedBody \/ Blocks!CallBody \/ Blocks!CallUnknown
                  \/ Blocks!Jump \/ Blocks!Branch \/ Blocks!Return
<1>0. Typed /\ (~ astray => Sound)
  BY DEF IInv
<1>1. CASE Next
  <2>1. /\ Typed'
        /\ Sound /\ Straight => Sound' /\ ~ Blocks!Unnoticed /\ Act
    <3>1. CASE StepInstr
      BY <1>0, <3>1, InstrStep
    <3>2. CASE StepCall
      BY <1>0, <3>2, CallStep
    <3>3. CASE StepCallAstray
      BY <1>0, <3>3, CallAstrayStep DEF Straight
    <3>4. CASE StepUnknown
      BY <1>0, <3>4, UnknownStep
    <3>5. CASE Jump
      BY <1>0, <3>5, JumpStep
    <3>6. CASE Branch
      BY <1>0, <3>6, BranchStep
    <3>7. CASE Return
      BY <1>0, <3>7, ReturnStep
    <3> QED
      BY <1>1, <3>1, <3>2, <3>3, <3>4, <3>5, <3>6, <3>7 DEF Next
  <2>2. /\ func' = func /\ graph' = graph /\ (astray => astray')
        /\ ~ astray /\ astray' => Blocks!Unnoticed \/ Blocks!CalleeFails
    BY <1>0, <1>1, StepAstray
  <2>3. CASE Straight
    <3>1. Sound' /\ ~ Blocks!Unnoticed /\ Act
      BY <1>0, <2>1, <2>3 DEF Straight
    <3>2. Blocks!UncheckedNext
      BY <3>1 DEF Blocks!UncheckedNext
    <3> QED
      BY <2>1, <3>1, <3>2 DEF IInv
  <2>4. CASE ~ Straight
    <3>1. astray'
      BY <2>2, <2>4 DEF Straight
    <3>2. Blocks!Astray
      BY <2>2, <3>1 DEF Blocks!Astray
    <3>3. Blocks!UncheckedNext
      BY <2>2, <3>1, <3>2 DEF Blocks!UncheckedNext
    <3> QED
      BY <2>1, <3>1, <3>3 DEF IInv
  <2> QED
    BY <2>3, <2>4
<1>2. CASE UNCHANGED vars
  <2>1. /\ func' = func /\ graph' = graph /\ loc' = loc /\ tmp' = tmp /\ sp' = sp
        /\ mem' = mem /\ status' = status /\ foot' = foot /\ astray' = astray
    BY <1>2 DEF vars
  <2>2. View' = View
    BY <2>1 DEF View
  <2>3. IInv'
    BY <1>0, <2>1 DEF IInv, Typed, Sound, FootOK, Placed
  <2> QED
    BY <2>1, <2>2, <2>3 DEF Blocks!vars
<1> QED
  BY <1>1, <1>2

LEMMA InitKeeps == Init => IInv /\ Blocks!Init
<1> SUFFICES ASSUME Init PROVE IInv /\ Blocks!Init
  OBVIOUS
<1> DEFINE n == Len(func)
<1>1. /\ func \in Codes /\ graph = GraphOf(func) /\ loc = Blocks!Entry(0) /\ tmp = << >>
      /\ status = "run" /\ foot = [block |-> n, entry |-> sp, low |-> sp] /\ astray = FALSE
      /\ IsCode(func) /\ n \in Nat
  BY CodeTypes DEF Init
<1>2. PICK stack \in InitStacks :
         sp = Len(stack)
         /\ mem = [a \in 0..(MemSize - 1) |-> IF a < Len(stack) THEN stack[a + 1] ELSE Stale]
  BY DEF Init
<1>3. /\ mem \in Memories(MemSize) /\ stack \in Seq(Int) /\ sp \in 0..MemSize
      /\ sp + n <= MemSize /\ Held(mem, 0, sp) = stack
  BY <1>1, <1>2, MemoryHolds
<1>4. 0 \in Places(func) /\ 0 <= n
  BY <1>1, StartsAreInside DEF Places, IsCode
<1>5. loc = LocAt(func, 0) /\ loc \in 0..n
  BY <1>1, <1>4, EntryOfIs, SamePositions
<1>6. Placed(loc)
  BY <1>1, <1>4, <1>5, LocAtIsPlaced DEF Placed
<1>7. << >> \in Seq(Int) /\ Len(<< >>) = 0
  OBVIOUS
<1>8. Sound
  BY <1>1, <1>3, <1>5, <1>7, MemoryAssumption DEF Sound
<1>9. IInv
  <2>1. FootOK
    BY <1>1, <1>3, MemoryAssumption DEF FootOK
  <2>2. sp \in Int /\ status \in {"run"} \cup Ends /\ astray \in BOOLEAN
    <3>1. sp \in 0..MemSize
      BY <1>3
    <3>2. sp \in Int
      BY <3>1
    <3>3. status \in {"run"} \cup Ends /\ astray \in BOOLEAN
      BY <1>1
    <3> QED
      BY <3>2, <3>3
  <2>3. Typed
    BY <1>1, <1>3, <1>5, <1>6, <1>7, <2>1, <2>2, Zenon DEF Typed
  <2> QED
    BY <1>8, <2>3 DEF IInv
<1>10. View = stack
  <2>1. View = Held(mem, 0, sp) \o tmp
    <3>1. \A i \in 1..sp : 0 + i - 1 = i - 1
      BY <1>3
    <3>2. sp - 0 = sp
      BY <1>3
    <3> QED
      BY <3>1, <3>2 DEF View, Held
  <2> QED
    BY <1>1, <1>3, <2>1, ConcatEmptySeq
<1>11. Blocks!Init
  BY <1>1, <1>2, <1>10, SameGraph DEF Blocks!Init
<1> QED
  BY <1>9, <1>11

LEMMA IInvHolds == Spec => []IInv
<1>1. IInv /\ [Next]_vars => IInv'
  BY StepKeeps
<1>2. Init => IInv
  BY InitKeeps
<1> QED
  BY <1>1, <1>2, PTL DEF Spec

\* The compile-time stack, the stack pointer and the memory stay what they
\* are; and until the interpreter would have failed and compiled code does not,
\* the pointer and every access stay in the mapping, though nothing checks it.
THEOREM TypeOKHolds == Spec => []TypeOK
<1>1. IInv => TypeOK
  BY DEF IInv, Typed, Sound, TypeOK, Ends, Memories
<1> QED
  BY <1>1, IInvHolds, PTL

\* Compiled code implements the block machine without its checks, and with
\* FuncRun's ImplementsBlocks does what the interpreter does, until the first
\* failure that goes unnoticed: keeping values in tmp, the flushes and the loads
\* past tmp are never seen.
THEOREM ImplementsBlocksHolds == Spec => ImplementsBlocks
<1>1. IInv /\ [Next]_vars => [Blocks!UncheckedNext]_(Blocks!vars)
  BY StepKeeps
<1>2. Init => Blocks!Init
  BY InitKeeps
<1> QED
  BY <1>1, <1>2, IInvHolds, PTL DEF Spec, ImplementsBlocks, Blocks!UncheckedSpec

-----------------------------------------------------------------------------
(* The depth of the stack in a block, and the reach of the block.          *)

LEMMA StaticTypes ==
    ASSUME NEW x \in InBody, Reach(x, NoSigs).tag = "ok"
    PROVE  /\ Reach(x, NoSigs).val \in Nat
           /\ x.op # "quit" => Delta(x, NoSigs).val \in Int
<1>1. CASE x.op \in {"lit", "quit", "rpick", "rdrop"}
  BY <1>1, BodyFields DEF Reach, Delta, Ok, FixedOps
<1>2. CASE x.op \in {"pick", "droprange"}
  BY <1>2 DEF Reach, Err, FixedOps
<1>3. CASE x.op \in {"width", "arith", "swap", "rot", "drop", "print", "write", "write8",
                     "read", "syscall"}
  BY <1>3 DEF Reach, Delta, Ok, FixedOps, FixedReach, FixedDelta
<1> QED
  BY <1>1, <1>2, <1>3, BodyFields DEF BodyOps

\* The depth is the sum of what the instructions before gain.
LEMMA DepthAddsUp ==
    ASSUME NEW s \in Nat, NEW block, block.end \in Nat, s <= block.end,
           \A j \in s..(block.end - 1) : Gain(block, j) \in Int
    PROVE  /\ DepthIn(s, block)[s] = 0
           /\ \A j \in s..block.end : DepthIn(s, block)[j] \in Int
           /\ \A j \in s..(block.end - 1) :
                 DepthIn(s, block)[j + 1] = DepthIn(s, block)[j] + Gain(block, j)
<1> DEFINE e == block.end
           m == e - s
           G(i) == IF s + i - 1 \in s..(e - 1) THEN Gain(block, s + i - 1) ELSE 0
           add(i) == [v \in Int |-> v + G(i)]
           step == [i \in Nat |-> add(i)]
           depth == CHOOSE g : g = [j \in s..e |-> IF j = s THEN 0
                                                   ELSE g[j - 1] + Gain(block, j - 1)]
<1>1. e \in Nat /\ m \in Nat /\ s + m = e
  OBVIOUS
<1>2. ASSUME NEW i \in Nat PROVE add(i) \in [Int -> Int]
  <2>1. G(i) \in Int
    OBVIOUS
  <2> HIDE DEF G
  <2> QED
    BY <2>1
<1>3. step \in [Nat -> [Int -> Int]] /\ 0 \in Int
  <2> HIDE DEF add
  <2> QED
    BY <1>2
<1>4. ASSUME NEW i \in Nat, NEW v \in Int PROVE step[i][v] = v + G(i)
  <2> HIDE DEF G
  <2> QED
    OBVIOUS
<1> HIDE DEF step
<1>5. PICK h \in [0..m -> Int] : Obeys(h, 0, step, m)
  BY <1>1, <1>3, RecursionHasSolution
<1> DEFINE d == [j \in s..e |-> h[j - s]]
<1>6. ASSUME NEW j \in s..e
      PROVE  d[j] = IF j = s THEN 0 ELSE d[j - 1] + Gain(block, j - 1)
  <2>1. CASE j = s
    <3>1. j - s = 0
      BY <2>1
    <3>2. h[0] = 0
      BY <1>5 DEF Obeys
    <3> QED
      BY <2>1, <3>1, <3>2
  <2>2. CASE j # s
    <3>1. /\ j - s \in 1..m /\ (j - s) - 1 = (j - 1) - s /\ j - 1 \in s..(e - 1)
          /\ s + (j - s) - 1 = j - 1 /\ j - s \in Nat /\ (j - 1) - s \in 0..m
          /\ j - 1 \in s..e
      BY <1>1, <2>2
    <3>2. h[j - s] = step[j - s][h[(j - s) - 1]]
      BY <1>5, <3>1 DEF Obeys
    <3>3. h[(j - 1) - s] \in Int /\ G(j - s) = Gain(block, j - 1)
      BY <3>1
    <3> HIDE DEF G
    <3>4. h[j - s] = h[(j - 1) - s] + Gain(block, j - 1)
      BY <1>4, <3>1, <3>2, <3>3
    <3> QED
      BY <2>2, <3>1, <3>4
  <2> QED
    BY <2>1, <2>2
<1>7. \A j \in s..e : d[j] \in Int
  BY <1>1
<1>8. d = [j \in s..e |-> IF j = s THEN 0 ELSE d[j - 1] + Gain(block, j - 1)]
  <2>1. d = [j \in s..e |-> d[j]]
    OBVIOUS
  <2> HIDE DEF d
  <2> QED
    BY <1>6, <2>1
<1> HIDE DEF d
<1>9. depth = [j \in s..e |-> IF j = s THEN 0 ELSE depth[j - 1] + Gain(block, j - 1)]
  BY <1>8
<1>10. DepthIn(s, block) = depth
  BY DEF DepthIn
<1> HIDE DEF depth
<1>11. depth[s] = 0
  <2>1. s \in s..e
    BY <1>1
  <2> QED
    BY <1>9, <2>1
<1>12. ASSUME NEW j \in s..(e - 1) PROVE depth[j + 1] = depth[j] + Gain(block, j)
  <2>1. j + 1 \in s..e /\ j + 1 # s /\ (j + 1) - 1 = j
    BY <1>1
  <2> QED
    BY <1>9, <2>1
<1> DEFINE S == {i \in 0..m : depth[s + i] \in Int}
<1>13. 0 \in S /\ \A i \in 0..(m - 1) : i \in S => i + 1 \in S
  <2>1. 0 \in S
    BY <1>1, <1>11
  <2>2. ASSUME NEW i \in 0..(m - 1), i \in S PROVE i + 1 \in S
    <3>1. s + i \in s..(e - 1) /\ s + (i + 1) = (s + i) + 1 /\ i + 1 \in 0..m
      BY <1>1
    <3>2. depth[s + i] \in Int
      BY <2>2
    <3>3. depth[s + (i + 1)] \in Int
      BY <1>12, <3>1, <3>2
    <3> QED
      BY <3>1, <3>3
  <2> QED
    BY <2>1, <2>2
<1>14. ASSUME NEW j \in s..e PROVE depth[j] \in Int
  <2>1. j - s \in 0..m /\ s + (j - s) = j
    BY <1>1
  <2> HIDE DEF S
  <2>2. j - s \in S
    BY <1>1, <1>13, <2>1, InductionUpTo
  <2> QED
    BY <2>1, <2>2 DEF S
<1> QED
  BY <1>10, <1>11, <1>12, <1>14

\* Where there is no instruction, the depth stays the same.
LEMMA DepthStays ==
    ASSUME NEW s \in Nat, NEW block, block.end \in Nat, s <= block.end,
           \A j \in s..(block.end - 1) : Gain(block, j) \in Int,
           NEW a \in s..block.end, NEW b \in a..block.end,
           \A j \in a..(b - 1) : j \notin DOMAIN block.code
    PROVE  DepthIn(s, block)[b] = DepthIn(s, block)[a]
<1> DEFINE depth == DepthIn(s, block)
           m == b - a
           S == {i \in 0..m : depth[a + i] = depth[a]}
<1>1. /\ a \in Nat /\ b \in Nat /\ m \in Nat /\ a + m = b /\ b <= block.end /\ s <= a
      /\ block.end \in Nat /\ a + 0 = a
  OBVIOUS
<1>2. \A j \in s..block.end : depth[j] \in Int
  BY DepthAddsUp
<1>3. \A j \in s..(block.end - 1) : depth[j + 1] = depth[j] + Gain(block, j)
  BY DepthAddsUp
<1> HIDE DEF depth
<1>4. 0 \in S /\ \A i \in 0..(m - 1) : i \in S => i + 1 \in S
  <2>1. 0 \in S
    BY <1>1
  <2>2. ASSUME NEW i \in 0..(m - 1), i \in S PROVE i + 1 \in S
    <3>1. /\ a + i \in s..(block.end - 1) /\ a + (i + 1) = (a + i) + 1 /\ i + 1 \in 0..m
          /\ a + i \in a..(b - 1) /\ a + i \in s..block.end
      BY <1>1
    <3>2. Gain(block, a + i) = 0
      BY <3>1 DEF Gain
    <3>3. depth[a + i] = depth[a] /\ depth[a + i] \in Int
      BY <1>2, <2>2, <3>1
    <3>4. depth[(a + i) + 1] = depth[a + i] + Gain(block, a + i)
      BY <1>3, <3>1
    <3>5. depth[a + (i + 1)] = depth[a]
      BY <3>1, <3>2, <3>3, <3>4
    <3> QED
      BY <3>1, <3>5
  <2> QED
    BY <2>1, <2>2
<1> HIDE DEF S
<1>5. m \in S
  <2>1. m \in 0..m
    BY <1>1
  <2> QED
    BY <1>1, <1>4, <2>1, InductionUpTo
<1> QED
  BY <1>1, <1>5 DEF S, depth

\* A set of integers with an upper bound has a maximum.
LEMMA MaxIs ==
    ASSUME NEW S, S \subseteq Int, 0 \in S, NEW bound \in Nat, \A x \in S : x <= bound
    PROVE  Max(S) \in S /\ \A x \in S : x <= Max(S)
<1> DEFINE T == {n \in Nat : bound - n \in S}
<1>1. T \subseteq Nat /\ bound \in T
  OBVIOUS
<1>2. PICK n \in T : \A y \in T : n <= y
  <2> HIDE DEF T
  <2> QED
    BY <1>1, LeastNumber
<1>3. bound - n \in S /\ n \in Nat
  OBVIOUS
<1>4. ASSUME NEW x \in S PROVE x <= bound - n
  <2>1. x \in Int /\ x <= bound
    OBVIOUS
  <2>2. bound - x \in T
    BY <2>1
  <2>3. n <= bound - x
    BY <1>2, <2>2
  <2> QED
    BY <1>3, <2>1, <2>3
<1> QED
  BY <1>3, <1>4 DEF Max

\* Finitely many integers have an upper bound.
LEMMA HasBound ==
    ASSUME NEW s \in Nat, NEW e \in Nat, s <= e, NEW v, \A j \in s..(e - 1) : v[j] \in Int
    PROVE  \E bound \in Nat : \A j \in s..(e - 1) : v[j] <= bound
<1> DEFINE m == e - s
           Bounds(n, b) == \A j \in s..(s + n - 1) : v[j] <= b
           S == {n \in 0..m : \E b \in Nat : Bounds(n, b)}
<1>1. m \in Nat /\ s + m = e
  OBVIOUS
<1>2. 0 \in S
  <2>1. Bounds(0, 0)
    OBVIOUS
  <2> HIDE DEF Bounds
  <2> QED
    BY <1>1, <2>1
<1>3. ASSUME NEW n \in 0..(m - 1), n \in S PROVE n + 1 \in S
  <2>1. PICK b \in Nat : Bounds(n, b)
    BY <1>3
  <2> DEFINE c == IF v[s + n] <= b THEN b ELSE v[s + n]
  <2>2. v[s + n] \in Int /\ n + 1 \in 0..m /\ s + n \in Nat /\ n \in Nat
    <3>1. s + n \in s..(e - 1) /\ n + 1 \in 0..m /\ s + n \in Nat /\ n \in Nat
      BY <1>1
    <3> QED
      BY <3>1
  <2>3. c \in Nat /\ b <= c /\ v[s + n] <= c
    BY <2>2
  <2> HIDE DEF c
  <2>4. ASSUME NEW j \in s..(s + (n + 1) - 1) PROVE v[j] <= c
    <3>1. CASE j = s + n
      BY <2>3, <3>1
    <3>2. CASE j # s + n
      <4>1. j \in s..(s + n - 1) /\ j \in s..(e - 1)
        BY <1>1, <2>2, <3>2
      <4>2. v[j] <= b /\ v[j] \in Int
        BY <2>1, <4>1
      <4> QED
        BY <2>3, <4>2
    <3> QED
      BY <3>1, <3>2
  <2>5. Bounds(n + 1, c)
    BY <2>4
  <2> HIDE DEF Bounds
  <2> QED
    BY <2>2, <2>3, <2>5
<1> HIDE DEF S
<1>4. m \in S
  <2>1. m \in 0..m
    BY <1>1
  <2> QED
    BY <1>1, <1>2, <1>3, <2>1, InductionUpTo
<1> QED
  BY <1>1, <1>4 DEF S

\* What a static block is: the depth before each of its instructions, and the
\* reach that covers them all and its branch.
Accounts(s, e, block, depth, peak) ==
    /\ depth[s] = 0 /\ \A j \in s..e : depth[j] \in Int
    /\ \A j \in DOMAIN block.code :
          /\ j \in s..(e - 1) /\ block.code[j].op # "call"
          /\ Reach(block.code[j], NoSigs).tag = "ok" /\ Reach(block.code[j], NoSigs).val \in Nat
          /\ Reach(block.code[j], NoSigs).val - depth[j] <= peak
          /\ block.code[j].op # "quit" =>
                depth[j + 1] = depth[j] + Delta(block.code[j], NoSigs).val
    /\ \A a \in s..e : \A b \in a..e :
          (\A j \in a..(b - 1) : j \notin DOMAIN block.code) => depth[b] = depth[a]
    /\ peak \in Nat
    /\ block.term.kind # "jump" => 1 - depth[e] <= peak

LEMMA StaticBlock ==
    ASSUME NEW f \in Codes, NEW g, g = GraphOf(f), NEW s, NEW e, IsBlock(f, s, e),
           NEW block, block = g[s], Static(block),
           NEW depth, depth = DepthIn(s, block), NEW peak, peak = PeakReach(s, block)
    PROVE  Accounts(s, e, block, depth, peak)
<1> DEFINE code == block.code
           r(j) == Reach(code[j], NoSigs)
<1>1. IsCode(f) /\ s \in Nat /\ e \in Nat /\ s < e /\ s <= e
  BY CodeTypes, BlockBounds
<1>2. /\ block.end = e /\ DOMAIN code = BodyOf(f, s, e)
      /\ \A j \in BodyOf(f, s, e) : code[j] = Resolved(f, s, j)
  BY <1>1, GraphHasBlock
<1>3. ASSUME NEW j \in DOMAIN code
      PROVE  /\ j \in s..(e - 1) /\ code[j].op # "call" /\ code[j] \in InBody /\ r(j).tag = "ok"
             /\ r(j).val \in Nat
             /\ code[j].op # "quit" => Delta(code[j], NoSigs).val \in Int
  <2>1. r(j).tag = "ok"
    BY DEF Static
  <2>2. code[j].op # "call"
    BY <2>1 DEF Reach, NoSigs, Err, FixedOps
  <2>3. code[j] \in InBody
    BY <1>2, <2>2, BodyInstr
  <2>4. j \in s..(e - 1)
    BY <1>2 DEF BodyOf, Kept
  <2> QED
    BY <2>1, <2>2, <2>3, <2>4, StaticTypes
<1>4. \A j \in s..(block.end - 1) : Gain(block, j) \in Int
  BY <1>3 DEF Gain
<1>5. /\ depth[s] = 0 /\ \A j \in s..e : depth[j] \in Int
      /\ \A j \in s..(e - 1) : depth[j + 1] = depth[j] + Gain(block, j)
  BY <1>1, <1>2, <1>4, DepthAddsUp
<1>6. ASSUME NEW a \in s..e, NEW b \in a..e, \A j \in a..(b - 1) : j \notin DOMAIN code
      PROVE  depth[b] = depth[a]
  BY <1>1, <1>2, <1>4, <1>6, DepthStays
<1>7. ASSUME NEW j \in DOMAIN code, code[j].op # "quit"
      PROVE  depth[j + 1] = depth[j] + Delta(code[j], NoSigs).val
  <2>1. Gain(block, j) = Delta(code[j], NoSigs).val
    BY <1>7 DEF Gain
  <2> QED
    BY <1>3, <1>5, <2>1
<1> DEFINE need == [j \in s..(e - 1) |-> IF j \in DOMAIN code THEN r(j).val - depth[j] ELSE 0]
           ends == IF block.term.kind = "jump" THEN 0 ELSE 1 - depth[e]
           all  == {0, ends} \cup {r(j).val - depth[j] : j \in DOMAIN code}
<1>8. peak = Max(all)
  BY <1>2 DEF PeakReach
<1>9. ends \in Int /\ depth[e] \in Int
  <2>1. e \in s..e
    BY <1>1
  <2> QED
    BY <1>5, <2>1
<1> HIDE DEF ends
<1>10. ASSUME NEW j \in DOMAIN code
       PROVE  j \in s..(e - 1) /\ r(j).val - depth[j] \in Int /\ depth[j] \in Int
  <2>1. j \in s..e
    BY <1>1, <1>3
  <2> QED
    BY <1>3, <1>5, <2>1
<1> HIDE DEF r
<1>11. PICK c \in Nat : \A j \in s..(e - 1) : need[j] <= c
  <2>1. \A j \in s..(e - 1) : need[j] \in Int
    BY <1>10
  <2> HIDE DEF need
  <2> QED
    BY <1>1, <2>1, HasBound
<1> DEFINE bound == IF ends <= c THEN c ELSE ends
<1>12. bound \in Nat /\ ends <= bound /\ c <= bound
  BY <1>9
<1> HIDE DEF bound
<1>13. ASSUME NEW x \in all PROVE x \in Int /\ x <= bound
  <2>1. CASE x \in {0, ends}
    BY <1>9, <1>12, <2>1
  <2>2. CASE x \notin {0, ends}
    <3>1. PICK j \in DOMAIN code : x = r(j).val - depth[j]
      BY <2>2
    <3>2. need[j] = x
      BY <1>10, <3>1
    <3>3. x <= c /\ x \in Int
      BY <1>10, <1>11, <3>1, <3>2
    <3> QED
      BY <1>12, <3>3
  <2> QED
    BY <2>1, <2>2
<1>14. 0 \in all /\ ends \in all /\ \A j \in DOMAIN code : r(j).val - depth[j] \in all
  OBVIOUS
<1> HIDE DEF all
<1>15. Max(all) \in all /\ \A x \in all : x <= Max(all)
  <2>1. all \subseteq Int /\ \A x \in all : x <= bound
    BY <1>13
  <2> QED
    BY <1>12, <1>14, <2>1, MaxIs
<1>16. /\ peak \in Int /\ 0 <= peak /\ ends <= peak
       /\ \A j \in DOMAIN code : r(j).val - depth[j] <= peak
  BY <1>8, <1>13, <1>14, <1>15
<1>17. block.term.kind # "jump" => 1 - depth[e] <= peak
  BY <1>16 DEF ends
<1> QED
  BY <1>3, <1>5, <1>6, <1>7, <1>16, <1>17 DEF r, Accounts

-----------------------------------------------------------------------------
(* How low the code of a block looks.  While the code stands in the block  *)
(* that foot speaks of, the stack is as deep as the instructions so far    *)
(* make it; and a block is entered with nothing in tmp, at its beginning.  *)

FootInv ==
    /\ FootprintWithinReach
    /\ Running =>
         IF foot.block = Start
         THEN Static(Block) => /\ sp + Len(tmp) = foot.entry + DepthIn(Start, Block)[loc]
                               /\ sp >= foot.entry - PeakReach(Start, Block)
         ELSE tmp = << >> /\ loc = LocAt(func, Start)

\* The lowest element that the block may touch.
Base == Foot.entry - PeakReach(Start, Block)

\* A static block, where the code is.
LEMMA StaticHere ==
    ASSUME Typed, Running, Static(Block)
    PROVE  Accounts(Start, graph[Start].end, Block, DepthIn(Start, Block), PeakReach(Start, Block))
<1> DEFINE s == Start
           e == graph[s].end
           block == Block
<1>1. func \in Codes /\ graph = GraphOf(func) /\ IsBlock(func, s, e)
  BY HereIs
<1>2. block = graph[s] /\ Static(block)
  BY DEF Block
<1> DEFINE depth == DepthIn(s, block)
           peak == PeakReach(s, block)
<1> HIDE DEF s, block, e
<1>3. depth = DepthIn(s, block) /\ peak = PeakReach(s, block)
  OBVIOUS
<1> HIDE DEF depth, peak
<1>4. Accounts(s, e, block, depth, peak)
  BY <1>1, <1>2, <1>3, StaticBlock
<1> QED
  BY <1>4 DEF s, e, block, depth, peak

LEMMA SoFar ==
    ASSUME Typed, FootInv, Running, Static(Block)
    PROVE  /\ Base \in Int /\ Foot.entry \in Int /\ KeepsTo(State, Base)
           /\ Depth(State) = Foot.entry + DepthIn(Start, Block)[loc]
           /\ DepthIn(Start, Block)[loc] \in Int
<1> DEFINE e == graph[Start].end
           depth == DepthIn(Start, Block)
           peak == PeakReach(Start, Block)
<1>1. /\ IsCode(func) /\ graph = GraphOf(func) /\ IsBlock(func, Start, e)
      /\ loc \in Start..(e - 1) /\ loc \in LocsIn(func, Start, e) /\ Start \in Nat /\ e \in Nat
      /\ Depth(State) = sp + Len(tmp) /\ sp \in Int /\ Len(tmp) \in Nat
      /\ Foot \in [block : Nat, entry : Int, low : Int] /\ loc \in 0..(Len(func) - 1)
      /\ Len(func) \in Nat
  BY HereIs, BlockBounds
<1>2. Accounts(Start, e, Block, depth, peak)
  BY StaticHere
<1>3. State.low = Foot.low /\ State.sp = sp
  BY DEF State
<1>4. Base = Foot.entry - peak
  BY DEF Base
<1> HIDE DEF e, depth, peak
<1>5. depth[Start] = 0 /\ peak \in Nat /\ \A j \in Start..e : depth[j] \in Int
  BY <1>2 DEF Accounts
<1>6. CASE foot.block = Start
  <2>1. Foot = foot
    BY <1>6 DEF Foot
  <2>2. sp + Len(tmp) = foot.entry + depth[loc] /\ sp >= foot.entry - peak
    BY <1>6 DEF FootInv, depth, peak
  <2>3. foot.low >= foot.entry - peak
    <3>1. foot.block < Len(func)
      BY <1>1, <1>6
    <3>2. graph[foot.block] = Block
      BY <1>6 DEF Block
    <3> QED
      BY <1>6, <3>1, <3>2 DEF FootInv, FootprintWithinReach, peak
  <2> QED
    BY <1>1, <1>5, <1>3, <1>4, <2>1, <2>2, <2>3 DEF KeepsTo, depth
<1>7. CASE foot.block # Start
  <2>1. Foot.entry = sp /\ Foot.low = sp
    BY <1>7 DEF Foot
  <2>2. tmp = << >> /\ loc = LocAt(func, Start)
    BY <1>7 DEF FootInv
  <2>3. Len(tmp) = 0
    BY <2>2
  <2>4. depth[loc] = 0
    <3>1. Start \in Start..(e - 1) /\ Start \in Start..e /\ loc \in Start..e
      BY <1>1
    <3>2. \A m \in LocsIn(func, Start, e) : m >= Start => loc <= m
      BY <1>1, <2>2, <3>1, LocAtIsFirst
    <3>3. DOMAIN Block.code \subseteq LocsIn(func, Start, e)
      BY <1>1, GraphHasBlock DEF Block, LocsIn
    <3>4. ASSUME NEW j \in Start..(loc - 1) PROVE j \notin DOMAIN Block.code
      BY <1>1, <3>2, <3>3
    <3> QED
      BY <1>2, <1>5, <3>1, <3>4 DEF Accounts
  <2> QED
    BY <1>1, <1>5, <1>3, <1>4, <2>1, <2>3, <2>4 DEF KeepsTo, depth
<1> QED
  BY <1>6, <1>7

LEMMA StartIs == Start = BlockIn(graph, loc)
BY SamePositions DEF Start

LEMMA StartNext == (Start = BlockIn(graph, loc))'
BY StartIs, PTL

LEMMA FootKept ==
    ASSUME Typed, Running, NEW s \in AnyState, Becomes(s), Static(Block) => s.low >= Base
    PROVE  FootprintWithinReach' /\ foot'.block = Start /\ foot'.entry = Foot.entry
<1>1. /\ foot'.block = Start /\ foot'.entry = Foot.entry /\ foot'.low = s.low
      /\ graph' = graph /\ func' = func
  BY BecomesIs
<1>2. graph'[foot'.block] = Block
  BY <1>1 DEF Block
<1> QED
  BY <1>1, <1>2 DEF FootprintWithinReach, Base

LEMMA EndsFoot ==
    ASSUME Typed, Running, NEW s \in AnyState, NEW tag \in Ends, End(tag, s),
           Static(Block) => s.low >= Base
    PROVE  FootInv'
<1>1. Becomes(s) /\ status' # "run"
  BY DEF End, Ends
<1> QED
  BY <1>1, FootKept DEF FootInv, Running

\* To another place of the same block.
LEMMA StaysInside ==
    ASSUME Typed, Running, NEW s \in AnyState, NEW l, GoTo(l, s),
           NEW e, e = graph[Start].end, l \in Start..(e - 1),
           Static(Block) => /\ KeepsTo(s, Base)
                            /\ Depth(s) = Foot.entry + DepthIn(Start, Block)[l]
    PROVE  FootInv'
<1>1. CASE s.wild
  <2>1. End("wild", s) /\ "wild" \in Ends
    BY <1>1 DEF GoTo, Ends
  <2> QED
    BY <2>1, EndsFoot DEF KeepsTo
<1>2. CASE ~ s.wild
  <2>1. Becomes(s) /\ loc' = l
    BY <1>2 DEF GoTo
  <2>2. FootprintWithinReach' /\ foot'.block = Start /\ foot'.entry = Foot.entry
    BY <2>1, FootKept DEF KeepsTo
  <2>3. /\ graph' = graph /\ func' = func /\ sp' + Len(tmp') = Depth(s) /\ sp' = s.sp
    BY <2>1, BecomesIs
  <2>4. IsCode(func) /\ graph = GraphOf(func) /\ IsBlock(func, Start, e)
    BY HereIs
  <2>5. Start' = Start
    BY <2>1, <2>3, <2>4, BlockInIs, StartNext
  <2>6. Block' = Block
    BY <2>3, <2>5 DEF Block
  <2> QED
    BY <2>1, <2>2, <2>3, <2>5, <2>6 DEF FootInv, KeepsTo, Base
<1> QED
  BY <1>1, <1>2

\* Out of the block, to the beginning of one behind it.
LEMMA LeavesFoot ==
    ASSUME Typed, Running, NEW s \in AnyState, NEW l, Leave(l, s),
           Static(Block) => KeepsTo(s, Base),
           \/ l = Len(func) + 1
           \/ \E x \in Places(func) : graph[Start].end <= x /\ x <= Len(func) /\ l = LocAt(func, x)
    PROVE  FootInv'
<1> DEFINE t == Flush(s)
           n == Len(func)
<1>1. /\ IsCode(func) /\ graph = GraphOf(func) /\ IsBlock(func, Start, graph[Start].end)
      /\ n \in Nat /\ Foot.entry \in Int
  BY HereIs
<1>2. Start \in Nat /\ graph[Start].end \in Nat /\ Start < graph[Start].end
  BY <1>1, BlockBounds
<1>3. Keeps(s, t, 0, 0) /\ t.tmp = << >> /\ t \in AnyState
  BY FlushKeeps DEF Keeps
<1>4. ASSUME Static(Block) PROVE t.low >= Base
  <2>1. Base \in Int
    BY <1>1, <1>4, StaticHere DEF Base, Accounts
  <2>2. KeepsTo(s, Base) /\ Depth(s) - 0 >= Base
    <3>1. KeepsTo(s, Base) /\ s.sp \in Int /\ Len(s.tmp) \in Nat
      BY <1>4, AnyIs
    <3> QED
      BY <2>1, <3>1 DEF KeepsTo, Depth
  <2>3. KeepsTo(t, Base)
    BY <1>3, <2>1, <2>2 DEF Keeps
  <2> QED
    BY <2>3 DEF KeepsTo
<1> HIDE DEF t
<1>5. CASE l > n
  <2>1. End("badskip", t) /\ "badskip" \in Ends
    BY <1>5 DEF Leave, t, Ends
  <2> QED
    BY <1>3, <1>4, <2>1, EndsFoot
<1>6. CASE ~ (l > n) /\ t.wild
  <2>1. End("wild", t) /\ "wild" \in Ends
    BY <1>6 DEF Leave, GoTo, t, Ends
  <2> QED
    BY <1>3, <1>4, <2>1, EndsFoot
<1>7. CASE ~ (l > n) /\ ~ t.wild
  <2>1. GoTo(l, t)
    BY <1>7 DEF Leave, t
  <2>2. Becomes(t) /\ loc' = l
    BY <1>7, <2>1 DEF GoTo
  <2>3. FootprintWithinReach' /\ foot'.block = Start
    BY <1>3, <1>4, <2>2, FootKept
  <2>4. graph' = graph /\ func' = func /\ tmp' = << >>
    BY <1>3, <2>2 DEF Becomes
  <2>5. PICK x \in Places(func) : graph[Start].end <= x /\ x <= n /\ l = LocAt(func, x)
    <3>1. l # n + 1
      BY <1>1, <1>7
    <3> QED
      BY <3>1
  <2>6. CASE l = n
    <3>1. ~ Running'
      BY <1>1, <2>2, <2>4, <2>6 DEF Running
    <3> QED
      BY <2>3, <3>1 DEF FootInv
  <2>7. CASE l # n
    <3>1. x # n /\ x \in StartsOf(func)
      BY <1>1, <2>5, <2>7 DEF Places, LocAt
    <3> DEFINE d == EndIn(func, StartsOf(func), x)
    <3>2. IsBlock(func, x, d) /\ x \in Nat /\ d \in Nat /\ x < d
      BY <1>1, <3>1, BlockBounds DEF IsBlock
    <3> HIDE DEF d
    <3>3. x \in x..(d - 1)
      BY <3>2
    <3>4. l \in x..(d - 1)
      BY <1>1, <2>5, <3>2, <3>3, LocAtIsFirst
    <3>5. Start' = x
      BY <1>1, <2>2, <2>4, <3>2, <3>4, BlockInIs, StartNext
    <3>6. x # Start
      BY <1>2, <2>5, <3>2
    <3> QED
      BY <2>2, <2>3, <2>4, <2>5, <3>5, <3>6 DEF FootInv
  <2> QED
    BY <2>6, <2>7
<1> QED
  BY <1>5, <1>6, <1>7

LEMMA ProceedsFoot ==
    ASSUME Typed, AtInstr, NEW s \in AnyState, Proceed(s),
           Static(Block) => /\ KeepsTo(s, Base)
                            /\ Depth(s) = Foot.entry + DepthIn(Start, Block)[loc + 1]
    PROVE  FootInv'
<1> DEFINE e == graph[Start].end
           l == Blocks!After(loc)
           depth == DepthIn(Start, Block)
<1>1. /\ IsCode(func) /\ graph = GraphOf(func) /\ Running /\ IsBlock(func, Start, e)
      /\ loc \in BodyOf(func, Start, e) /\ loc \in Start..(e - 1) /\ Len(func) \in Nat
  BY HereIs, AtInstrIs DEF AtInstr
<1>2. Start \in Nat /\ e \in Nat /\ e <= Len(func) /\ e \in Places(func)
  BY <1>1, BlockBounds DEF Places
<1>3. l = LocAt(func, loc + 1) /\ l \in (loc + 1)..Len(func)
  BY <1>1, AfterOfIs, SamePositions
<1>4. DOMAIN Block.code \subseteq LocsIn(func, Start, e)
  BY <1>1, GraphHasBlock DEF Block, LocsIn
<1>5. Proceed(s) <=> IF l < e THEN GoTo(l, s) ELSE Leave(l, s)
  BY DEF Proceed, Block
<1> HIDE DEF l, depth, e
<1>6. CASE loc + 1 < e
  <2>1. loc + 1 \in Start..(e - 1)
    BY <1>1, <1>2, <1>6
  <2>2. /\ l \in (loc + 1)..(e - 1)
        /\ \A m \in LocsIn(func, Start, e) : m >= loc + 1 => l <= m
    BY <1>1, <1>3, <2>1, LocAtIsFirst
  <2>3. l \in Start..(e - 1) /\ l < e
    BY <1>1, <1>2, <2>2
  <2>4. ASSUME Static(Block)
        PROVE  KeepsTo(s, Base) /\ Depth(s) = Foot.entry + depth[l]
    <3>1. loc + 1 \in Start..e /\ l \in (loc + 1)..e
      BY <1>1, <1>2, <2>1, <2>2
    <3>2. ASSUME NEW j \in (loc + 1)..(l - 1) PROVE j \notin DOMAIN Block.code
      BY <1>1, <1>2, <1>4, <2>2
    <3>3. Accounts(Start, e, Block, depth, PeakReach(Start, Block))
      BY <1>1, <2>4, StaticHere DEF e, depth
    <3>4. depth[l] = depth[loc + 1]
      BY <3>1, <3>2, <3>3 DEF Accounts
    <3> QED
      BY <2>4, <3>4 DEF depth
  <2>5. GoTo(l, s)
    BY <1>5, <2>3
  <2> QED
    BY <1>1, <2>3, <2>4, <2>5, StaysInside DEF e, depth
<1>7. CASE ~ (loc + 1 < e)
  <2>1. loc + 1 = e
    BY <1>1, <1>2, <1>7
  <2>2. Leave(l, s) /\ l = LocAt(func, e) /\ e <= e
    BY <1>1, <1>2, <1>3, <1>5, <2>1
  <2> QED
    BY <1>1, <1>2, <2>2, LeavesFoot DEF e
<1> QED
  BY <1>6, <1>7

\* By a target of a terminator.
LEMMA FollowsFoot ==
    ASSUME Typed, Running, loc \notin DOMAIN Block.code,
           NEW t \in DOMAIN Block.term.targets, NEW l, l = Blocks!Entry(Block.term.targets[t]),
           NEW s \in AnyState, Leave(l, s), Static(Block) => KeepsTo(s, Base)
    PROVE  FootInv'
BY TargetIs, LeavesFoot

LEMMA InstrFoot ==
    ASSUME Typed, FootInv, StepInstr
    PROVE  FootInv'
<1> DEFINE depth == DepthIn(Start, Block)
           reach == Reach(Here, NoSigs)
           delta == Delta(Here, NoSigs).val
<1>1. AtInstr /\ Running /\ Here \in InBody /\ loc \in DOMAIN Block.code
  BY AtInstrIs DEF StepInstr, AtInstr
<1>2. PICK e \in Emitted(Here, State) :
         IF e.tag = "executed" THEN Proceed(e.s) ELSE End(e.tag, e.s)
  BY DEF StepInstr
<1>3. /\ e.s \in AnyState /\ Accounted(Here, State, e)
      /\ e.tag \in {"executed", "quit", "panic", "badexponent"}
      /\ e.tag = "executed" => Here.op # "quit"
  BY <1>1, <1>2, HereIs, EmittedStays
<1>4. reach.tag = "ok" =>
        /\ \A b \in Int : KeepsTo(State, b) /\ Depth(State) - reach.val >= b => KeepsTo(e.s, b)
        /\ e.tag = "executed" => Depth(e.s) = Depth(State) + delta
  BY <1>3 DEF Accounted, NoSigs
<1>5. reach.tag = "ok" /\ Here.op # "quit" => delta \in Int
  BY <1>1, StaticTypes
<1> HIDE DEF depth, reach, delta
<1>6. ASSUME Static(Block)
      PROVE  /\ reach.tag = "ok" /\ KeepsTo(e.s, Base)
             /\ Depth(State) = Foot.entry + depth[loc] /\ Foot.entry \in Int /\ depth[loc] \in Int
             /\ Here.op # "quit" => depth[loc + 1] = depth[loc] + delta
  <2>1. /\ Base \in Int /\ Foot.entry \in Int /\ KeepsTo(State, Base)
        /\ Depth(State) = Foot.entry + depth[loc] /\ depth[loc] \in Int
    BY <1>1, <1>6, SoFar DEF depth
  <2> DEFINE peak == PeakReach(Start, Block)
  <2>2. /\ reach.tag = "ok" /\ reach.val \in Nat /\ reach.val - depth[loc] <= peak
        /\ Here.op # "quit" => depth[loc + 1] = depth[loc] + delta
        /\ peak \in Nat
    BY <1>1, <1>6, StaticHere DEF Accounts, Here, depth, reach, delta
  <2>3. Base = Foot.entry - peak
    BY DEF Base
  <2> HIDE DEF peak
  <2>4. Depth(State) - reach.val >= Base
    BY <2>1, <2>2, <2>3
  <2>5. KeepsTo(e.s, Base)
    BY <1>4, <2>1, <2>2, <2>4
  <2> QED
    BY <2>1, <2>2, <2>5
<1>7. CASE e.tag = "executed"
  <2>1. ASSUME Static(Block)
        PROVE  KeepsTo(e.s, Base) /\ Depth(e.s) = Foot.entry + depth[loc + 1]
    <3>1. /\ Depth(e.s) = Depth(State) + delta /\ delta \in Int
          /\ depth[loc + 1] = depth[loc] + delta
      BY <1>3, <1>4, <1>5, <1>6, <1>7, <2>1
    <3>2. Depth(e.s) = Foot.entry + depth[loc + 1]
      BY <1>6, <2>1, <3>1
    <3> QED
      BY <1>6, <2>1, <3>2
  <2> QED
    BY <1>1, <1>2, <1>3, <1>7, <2>1, ProceedsFoot DEF depth
<1>8. CASE e.tag # "executed"
  <2>1. End(e.tag, e.s) /\ e.tag \in Ends
    BY <1>2, <1>3, <1>8 DEF Ends
  <2> QED
    BY <1>1, <1>3, <1>6, <2>1, EndsFoot DEF KeepsTo
<1> QED
  BY <1>7, <1>8

\* A block with a call is not static.
LEMMA CallFoot ==
    ASSUME Typed, StepCall \/ StepCallAstray
    PROVE  FootInv'
<1>1. AtInstr /\ Running /\ Here.op = "call"
  BY DEF StepCall, StepCallAstray, AtInstr
<1>2. ~ Static(Block)
  BY <1>1, StaticHere DEF AtInstr, Here, Accounts
<1>3. CASE StepCall
  <2>1. PICK new \in CalleeStacks :
           Proceed([Flush(State) EXCEPT !.sp = Len(new),
                       !.mem = [a \in DOMAIN @ |-> IF a < Len(new) THEN new[a + 1] ELSE Stale]])
    BY <1>3 DEF StepCall
  <2> DEFINE s == [Flush(State) EXCEPT !.sp = Len(new),
                      !.mem = [a \in DOMAIN @ |-> IF a < Len(new) THEN new[a + 1] ELSE Stale]]
  <2>2. s \in AnyState /\ Proceed(s)
    BY <1>1, <2>1, CalleeState
  <2> HIDE DEF s
  <2> QED
    BY <1>1, <1>2, <2>2, ProceedsFoot
<1>4. CASE StepCallAstray
  <2>1. PICK wreck \in Wrecks :
           Proceed([Flush(State) EXCEPT !.sp = wreck.sp, !.mem = wreck.mem])
    BY <1>4 DEF StepCallAstray
  <2> DEFINE s == [Flush(State) EXCEPT !.sp = wreck.sp, !.mem = wreck.mem]
  <2>2. s \in AnyState /\ Proceed(s)
    BY <1>1, <2>1, WreckState
  <2> HIDE DEF s
  <2> QED
    BY <1>1, <1>2, <2>2, ProceedsFoot
<1> QED
  BY <1>3, <1>4

LEMMA BranchFoot ==
    ASSUME Typed, FootInv, Branch
    PROVE  FootInv'
<1> DEFINE s == XPop(State)
           v == s.got[1]
           next == IF Block.term.kind = "if" THEN (IF v # 0 THEN 1 ELSE 2) ELSE v + 1
           targets == Block.term.targets
           depth == DepthIn(Start, Block)
           peak == PeakReach(Start, Block)
           e == graph[Start].end
<1>1. /\ Running /\ loc \notin DOMAIN Block.code /\ Block.term.kind # "jump"
  BY DEF Branch, AtTerminator
<1>2. Leave(IF next \in DOMAIN targets THEN Blocks!Entry(targets[next]) ELSE Len(func) + 1, s)
  BY DEF Branch
<1>3. Keeps(State, s, 1, -1) /\ s \in AnyState
  BY <1>1, HereIs, PopKeeps DEF Keeps
<1> HIDE DEF s
<1>4. ASSUME Static(Block) PROVE KeepsTo(s, Base)
  <2>1. /\ Base \in Int /\ Foot.entry \in Int /\ KeepsTo(State, Base)
        /\ Depth(State) = Foot.entry + depth[loc] /\ depth[loc] \in Int
    BY <1>1, <1>4, SoFar
  <2>2. Accounts(Start, e, Block, depth, peak)
    BY <1>1, <1>4, StaticHere
  <2>3. Base = Foot.entry - peak
    BY DEF Base
  <2>4. /\ IsCode(func) /\ graph = GraphOf(func) /\ IsBlock(func, Start, e)
        /\ loc \in Start..(e - 1) /\ loc \in LocsIn(func, Start, e) /\ Start \in Nat /\ e \in Nat
    BY <1>1, HereIs, BlockBounds
  <2>5. loc = e - 1
    BY <1>1, <2>4, GraphHasBlock DEF Block, LocsIn
  <2> HIDE DEF depth, peak, e
  <2>6. depth[e] = depth[loc]
    <3>1. loc \in Start..e /\ e \in loc..e /\ \A j \in loc..(e - 1) : j = loc
      BY <2>4, <2>5
    <3> QED
      BY <1>1, <2>2, <3>1 DEF Accounts
  <2>7. peak \in Nat /\ 1 - depth[e] <= peak
    BY <1>1, <2>2 DEF Accounts
  <2>8. Depth(State) - 1 >= Base
    BY <2>1, <2>3, <2>6, <2>7
  <2> QED
    BY <1>3, <2>1, <2>8 DEF Keeps
<1>5. CASE next \in DOMAIN targets
  <2> DEFINE l == Blocks!Entry(targets[next])
  <2>1. Leave(l, s)
    BY <1>2, <1>5
  <2> HIDE DEF l, next
  <2> QED
    BY <1>1, <1>3, <1>4, <1>5, <2>1, FollowsFoot DEF l
<1>6. CASE next \notin DOMAIN targets
  <2>1. Leave(Len(func) + 1, s)
    BY <1>2, <1>6
  <2> QED
    BY <1>1, <1>3, <1>4, <2>1, LeavesFoot
<1> QED
  BY <1>5, <1>6

LEMMA JumpFoot ==
    ASSUME Typed, FootInv, Jump
    PROVE  FootInv'
<1> DEFINE l == Blocks!Entry(Block.term.targets[1])
<1>1. Running /\ loc \notin DOMAIN Block.code /\ Block.term.kind = "jump" /\ Leave(l, State)
  BY DEF Jump, AtTerminator
<1>2. 1 \in DOMAIN Block.term.targets
  <2>1. Block.term = Terminator(func, Start, graph[Start].end)
    BY <1>1, HereIs, GraphHasBlock DEF Block
  <2> QED
    BY <1>1, <2>1, JumpHasTarget
<1>3. State \in AnyState
  BY <1>1, HereIs
<1>4. Static(Block) => KeepsTo(State, Base)
  BY <1>1, SoFar
<1> HIDE DEF l
<1> QED
  BY <1>1, <1>2, <1>3, <1>4, FollowsFoot DEF l

\* What ends at once has touched nothing more.
LEMMA UnknownFoot ==
    ASSUME Typed, FootInv, StepUnknown
    PROVE  FootInv'
<1>1. Running /\ End("unknown", State) /\ "unknown" \in Ends
  BY DEF StepUnknown, AtInstr, Ends
<1>2. Static(Block) => State.low >= Base
  BY <1>1, SoFar DEF KeepsTo
<1>3. State \in AnyState
  BY <1>1, HereIs
<1> QED
  BY <1>1, <1>2, <1>3, EndsFoot

LEMMA FootStep == IInv /\ FootInv /\ [Next]_vars => FootInv'
<1> SUFFICES ASSUME IInv, FootInv, [Next]_vars PROVE FootInv'
  OBVIOUS
<1>0. Typed
  BY DEF IInv
<1>1. CASE StepUnknown
  BY <1>0, <1>1, UnknownFoot
<1>2. CASE StepInstr
  BY <1>0, <1>2, InstrFoot
<1>3. CASE StepCall \/ StepCallAstray
  BY <1>0, <1>3, CallFoot
<1>4. CASE Jump
  BY <1>0, <1>4, JumpFoot
<1>5. CASE Branch
  BY <1>0, <1>5, BranchFoot
<1>6. CASE Return
  <2>1. foot' = foot /\ graph' = graph /\ func' = func /\ status' = "returned"
    BY <1>6 DEF Return
  <2>2. FootprintWithinReach'
    BY <2>1 DEF FootInv, FootprintWithinReach
  <2> QED
    BY <2>1, <2>2 DEF FootInv, Running
<1>7. CASE UNCHANGED vars
  <2>1. /\ func' = func /\ graph' = graph /\ loc' = loc /\ tmp' = tmp /\ sp' = sp
        /\ status' = status /\ foot' = foot
    BY <1>7 DEF vars
  <2>2. Start' = Start
    BY <2>1, StartIs, StartNext
  <2>3. Block' = Block /\ Running' = Running /\ FootprintWithinReach'
    BY <2>1, <2>2 DEF Block, Running, FootInv, FootprintWithinReach
  <2> QED
    BY <2>1, <2>2, <2>3 DEF FootInv
<1> QED
  BY <1>1, <1>2, <1>3, <1>4, <1>5, <1>6, <1>7 DEF Next

LEMMA FootInit == Init => FootInv
<1> SUFFICES ASSUME Init PROVE FootInv
  OBVIOUS
<1> DEFINE n == Len(func)
<1>1. Typed
  BY InitKeeps DEF IInv
<1>2. foot.block = n /\ tmp = << >> /\ loc = Blocks!Entry(0) /\ func \in Codes /\ graph = GraphOf(func)
  BY DEF Init
<1>3. IsCode(func) /\ n \in Nat
  BY <1>2, CodeTypes
<1>4. 0 \in Places(func) /\ 0 <= n
  BY <1>3, StartsAreInside DEF Places, IsCode
<1>5. loc = LocAt(func, 0)
  BY <1>2, <1>3, <1>4, EntryOfIs, SamePositions
<1>6. FootprintWithinReach
  BY <1>2, <1>3 DEF FootprintWithinReach
<1>7. ASSUME Running PROVE foot.block # Start /\ loc = LocAt(func, Start)
  <2>1. Start = StartAt(func, loc) /\ loc \in 0..(n - 1) /\ IsBlock(func, Start, graph[Start].end)
    BY <1>1, <1>7, HereIs
  <2>2. n > 0 /\ 0 \in StartsOf(func)
    BY <1>3, <2>1, StartsAreInside DEF IsCode
  <2> DEFINE d == EndIn(func, StartsOf(func), 0)
  <2>3. IsBlock(func, 0, d) /\ d \in Nat /\ 0 < d /\ d <= n
    BY <1>3, <2>2, BlockBounds DEF IsBlock
  <2> HIDE DEF d
  <2>4. 0 \in 0..(d - 1)
    BY <2>3
  <2>5. loc \in 0..(d - 1)
    BY <1>3, <1>5, <2>3, <2>4, LocAtIsFirst
  <2>6. Start = 0
    BY <1>3, <2>1, <2>3, <2>5, PositionInBlock
  <2> QED
    BY <1>2, <1>5, <2>2, <2>6
<1> QED
  BY <1>2, <1>6, <1>7 DEF FootInv

\* The code of a block touches no element below the block's reach, in memory
\* or by a load past tmp, whatever block control comes from, and whatever went
\* wrong before: this holds of code that is astray, too.
THEOREM FootprintWithinReachHolds == Spec => []FootprintWithinReach
<1>1. IInv /\ FootInv /\ [Next]_vars => FootInv'
  BY FootStep
<1>2. Init => FootInv
  BY FootInit
<1>3. FootInv => FootprintWithinReach
  BY DEF FootInv
<1> QED
  BY <1>1, <1>2, <1>3, IInvHolds, PTL DEF Spec

=============================================================================
