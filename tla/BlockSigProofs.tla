--------------------------- MODULE BlockSigProofs ---------------------------
(***************************************************************************)
(* Proofs about BlockSig: the Clac++ theorem of types.rs and of            *)
(* theorem/main.typ for every block, whatever the signatures of its        *)
(* callees, as long as these keep to it.                                   *)
(***************************************************************************)
EXTENDS BlockSig, TLAPS

\* The tables of types.rs: an instruction with a static effect has an integer
\* delta and a natural reach, and, a call aside, never removes more than it looks
\* at.
LEMMA EffectBounds ==
    ASSUME NEW known, SigsTyped(known), NEW x \in Instr(Names)
    PROVE  /\ Reach(x, known).tag = "ok" => Reach(x, known).val \in Nat
           /\ Delta(x, known).tag = "ok" => Delta(x, known).val \in Int
           /\ (x.op # "call" /\ Reach(x, known).tag = "ok" /\ Delta(x, known).tag = "ok")
                => Delta(x, known).val >= - Reach(x, known).val
<1>1. CASE x.op \in FixedOps
  <2>1. x.op \in FixedOps
    BY <1>1
  <2>2. /\ Reach(x, known) = Ok(FixedReach[x.op])
        /\ Delta(x, known) = Ok(FixedDelta[x.op])
    BY <2>1 DEF Reach, Delta, FixedOps
  <2>3. /\ FixedReach[x.op] \in Nat
        /\ FixedDelta[x.op] \in Int
        /\ FixedDelta[x.op] >= - FixedReach[x.op]
    BY <2>1 DEF FixedOps, FixedReach, FixedDelta
  <2> QED
    BY <2>2, <2>3 DEF Ok
<1>2. CASE x \in [op : {"lit"}, n : Int] \cup [op : {"quit", "pick", "droprange"}]
  BY <1>2 DEF Reach, Delta, Ok, Err, FixedOps
<1>3. CASE x \in [op : {"call"}, f : Names]
  BY <1>3 DEF Reach, Delta, Ok, Err, FixedOps, SigsTyped, Sig
<1>4. CASE x \in ResolvedInstr
  BY <1>4 DEF ResolvedInstr, Reach, Delta, Ok, Err, FixedOps
<1> QED
  BY <1>1, <1>2, <1>3, <1>4 DEF Instr, ParsedInstr, FixedOps

\* What reach() and delta() leave unresolved is a call of an unsolved callee,
\* and they agree on it.
LEMMA UnresolvedIsCall ==
    ASSUME NEW x \in Instr(Names)
    PROVE  /\ Reach(x, Known).tag \in {"ok", "unresolved", "notdeterminable"}
           /\ Delta(x, Known).tag \in {"ok", "unresolved", "notdeterminable", "anything"}
           /\ Reach(x, Known).tag = "unresolved" <=> Delta(x, Known).tag = "unresolved"
           /\ Reach(x, Known).tag = "unresolved" => x.op = "call"
<1>1. CASE x.op \in FixedOps
  <2>1. x.op \in FixedOps
    BY <1>1
  <2>2. /\ Reach(x, Known) = Ok(FixedReach[x.op])
        /\ Delta(x, Known) = Ok(FixedDelta[x.op])
    BY <2>1 DEF Reach, Delta, FixedOps
  <2> QED
    BY <2>2 DEF Ok
<1>2. CASE x \in [op : {"lit"}, n : Int] \cup [op : {"quit", "pick", "droprange"}]
  BY <1>2 DEF Reach, Delta, Ok, Err, FixedOps
<1>3. CASE x \in [op : {"call"}, f : Names]
  BY <1>3 DEF Reach, Delta, Ok, Err, FixedOps
<1>4. CASE x \in ResolvedInstr
  BY <1>4 DEF ResolvedInstr, Reach, Delta, Ok, Err, FixedOps
<1> QED
  BY <1>1, <1>2, <1>3, <1>4 DEF Instr, ParsedInstr, FixedOps

\* Appending changes no earlier element.
LEMMA EarlierElements ==
    ASSUME NEW S, NEW s \in Seq(S), NEW e \in S,
           NEW j \in DOMAIN Append(s, e), j # Len(s) + 1
    PROVE  j \in DOMAIN s /\ Append(s, e)[j] = s[j] /\ s[j] \in S
OBVIOUS

\* What an iteration adds.
LEMMA IterationBounds ==
    ASSUME TypeOK, k < Len(block), Resolvable(Here)
    PROVE  /\ ReachOf(Here) \in Nat
           /\ Delta(Here, Known).tag # "anything" =>
                /\ DeltaOf(Here) \in Int
                /\ Here.op # "call" => DeltaOf(Here) >= - ReachOf(Here)
<1>1. Here \in Instr(Names)
  BY BlocksAssumption DEF TypeOK, Here
<1>2. SigsTyped(scc) /\ \A f \in DOMAIN scc : ~ scc[f].never
  BY AssignmentsAssumption DEF TypeOK
<1>3. CASE Reach(Here, Known).tag = "ok"
  BY <1>1, <1>3, EffectBounds, UnresolvedIsCall, KnownAssumption
  DEF ReachOf, DeltaOf, Resolvable
<1>4. CASE Reach(Here, Known).tag = "unresolved"
  <2>1. Here.f \in DOMAIN scc
    BY <1>4 DEF Resolvable
  <2>2. ReachOf(Here) = scc[Here.f].reach /\ DeltaOf(Here) = scc[Here.f].delta
    BY <1>1, <1>4, UnresolvedIsCall DEF ReachOf, DeltaOf
  <2>3. Here.op = "call"
    BY <1>1, <1>4, UnresolvedIsCall
  <2> QED
    BY <1>2, <2>1, <2>2, <2>3 DEF SigsTyped, Sig
<1> QED
  BY <1>1, <1>3, <1>4, UnresolvedIsCall DEF Resolvable

-----------------------------------------------------------------------------
\* Type correctness: every step keeps the loop's variables in their types.
THEOREM TypeCorrect == Spec => []TypeOK
<1>1. Init => TypeOK
  <2> SUFFICES ASSUME Init PROVE TypeOK
    OBVIOUS
  <2>1. Len(block) \in Nat
    BY BlocksAssumption DEF Init
  <2>2. << >> \in Seq([need : Nat, at : Int]) /\ Len(<< >>) = 0
    OBVIOUS
  <2>3. trace \in Seq([need : Nat, at : Int]) /\ Len(trace) = k
    BY <2>2, Zenon DEF Init
  <2>4. anything \in BOOLEAN /\ result \in {"running", "some", "none"}
    BY DEF Init
  <2>5. k \in 0..Len(block) /\ cur \in Int /\ peak \in Nat
    BY <2>1 DEF Init
  <2> QED
    BY <2>3, <2>4, <2>5 DEF Init, TypeOK
<1>2. TypeOK /\ [Next]_vars => TypeOK'
  <2> SUFFICES ASSUME TypeOK, [Next]_vars PROVE TypeOK'
    OBVIOUS
  <2>0. Len(block) \in Nat
    BY BlocksAssumption DEF TypeOK
  <2>1. ASSUME k < Len(block), Resolvable(Here), Look PROVE
          /\ k' \in 0..Len(block) /\ peak' \in Nat
          /\ trace' \in Seq([need : Nat, at : Int]) /\ Len(trace') = k'
    <3>1. ReachOf(Here) \in Nat
      BY <2>1, IterationBounds
    <3> DEFINE e == [need |-> ReachOf(Here), at |-> cur]
    <3>2. e \in [need : Nat, at : Int]
      BY <3>1 DEF TypeOK
    <3>3. trace' \in Seq([need : Nat, at : Int]) /\ Len(trace') = k'
      <4> HIDE DEF e
      <4>1. trace' = Append(trace, e) /\ k' = k + 1
        BY <2>1 DEF Look, e
      <4> QED
        BY <3>2, <4>1 DEF TypeOK
    <3> QED
      BY <2>0, <2>1, <3>1, <3>3 DEF TypeOK, Look, MaxInt
  <2>2. CASE StepKnown
    <3>1. DeltaOf(Here) \in Int
      BY <2>2, IterationBounds DEF StepKnown
    <3> QED
      BY <2>1, <2>2, <3>1 DEF StepKnown, Look, TypeOK
  <2>3. CASE StepAnything
    BY <2>1, <2>3, FreshAssumption DEF StepAnything, Look, TypeOK
  <2>4. CASE GiveUp
    BY <2>4 DEF GiveUp, TypeOK
  <2>5. CASE Finish
    BY <2>5 DEF Finish, TypeOK
  <2>6. CASE UNCHANGED vars
    BY <2>6 DEF vars, TypeOK
  <2> QED
    BY <2>2, <2>3, <2>4, <2>5, <2>6 DEF Next
<1> QED
  BY <1>1, <1>2, PTL DEF Spec

\* The Clac++ theorem: total delta >= -(peak reach), for every block whose
\* callees keep to it.
THEOREM TotalDelta == Spec => []ClacTheorem
<1>1. Init => ClacTheorem
  BY DEF Init, ClacTheorem
<1>2. TypeOK /\ ClacTheorem /\ [Next]_vars => ClacTheorem'
  <2> SUFFICES ASSUME TypeOK, ClacTheorem, [Next]_vars PROVE ClacTheorem'
    OBVIOUS
  <2>1. CASE StepKnown
    <3> SUFFICES ASSUME ~ anything, CalleesKeepReach' PROVE cur' >= -peak'
      BY <2>1 DEF StepKnown, ClacTheorem
    <3>1. /\ k' = k + 1 /\ k \in Nat /\ UNCHANGED <<block, scc>>
      BY <2>1 DEF StepKnown, Look, TypeOK
    <3>2. ASSUME NEW j \in 1..(k + 1), block[j].op = "call"
          PROVE  DeltaOf(block[j]) >= - ReachOf(block[j])
      BY <3>1, <3>2 DEF CalleesKeepReach, DeltaOf, ReachOf
    <3>3. CalleesKeepReach /\ (Here.op = "call" => DeltaOf(Here) >= - ReachOf(Here))
      <4>1. k + 1 \in 1..(k + 1) /\ \A j \in 1..k : j \in 1..(k + 1)
        BY <3>1
      <4> QED
        BY <3>2, <4>1 DEF CalleesKeepReach, Here
    <3>4. /\ ReachOf(Here) \in Nat /\ DeltaOf(Here) \in Int
          /\ DeltaOf(Here) >= - ReachOf(Here)
      BY <2>1, <3>3, IterationBounds DEF StepKnown
    <3>5. cur >= -peak
      BY <3>3 DEF ClacTheorem
    <3> QED
      BY <2>1, <3>4, <3>5 DEF StepKnown, Look, MaxInt, TypeOK
  <2>2. CASE StepAnything
    BY <2>2 DEF StepAnything, ClacTheorem
  <2>3. CASE GiveUp \/ Finish \/ UNCHANGED vars
    BY <2>3 DEF GiveUp, Finish, vars, ClacTheorem, CalleesKeepReach, DeltaOf, ReachOf
  <2> QED
    BY <2>1, <2>2, <2>3 DEF Next
<1> QED
  BY <1>1, <1>2, TypeCorrect, PTL DEF Spec

\* The reach is enough: nothing below peak_reach is ever looked at.
THEOREM ReachIsEnough == Spec => []ReachSuffices
<1>1. Init => ReachSuffices
  BY DEF Init, ReachSuffices
<1>2. TypeOK /\ ReachSuffices /\ [Next]_vars => ReachSuffices'
  <2> SUFFICES ASSUME TypeOK, ReachSuffices, [Next]_vars PROVE ReachSuffices'
    OBVIOUS
  <2>1. ASSUME k < Len(block), Resolvable(Here), Look PROVE ReachSuffices'
    <3> DEFINE e == [need |-> ReachOf(Here), at |-> cur]
    <3>1. ReachOf(Here) \in Nat
      BY <2>1, IterationBounds
    <3>2. e \in [need : Nat, at : Int]
      BY <3>1 DEF TypeOK
    <3>3. /\ peak' \in Nat /\ peak' >= peak /\ peak' + e.at >= e.need
      BY <2>1, <3>1 DEF Look, MaxInt, TypeOK
    <3>4. trace' = Append(trace, e)
      BY <2>1 DEF Look
    <3> HIDE DEF e
    <3>5. ASSUME NEW j \in DOMAIN trace' PROVE peak' + trace'[j].at >= trace'[j].need
      <4>1. CASE j = Len(trace) + 1
        BY <3>3, <3>4, <4>1 DEF TypeOK
      <4>2. CASE j # Len(trace) + 1
        <5> DEFINE T == [need : Nat, at : Int]
        <5>1. trace \in Seq(T) /\ e \in T
          BY <3>2 DEF TypeOK
        <5>2. \A t \in T : t.need \in Nat /\ t.at \in Int
          OBVIOUS
        <5> HIDE DEF T
        <5>3. j \in DOMAIN Append(trace, e)
          BY <3>4, <3>5
        <5>4. j \in DOMAIN trace /\ Append(trace, e)[j] = trace[j] /\ trace[j] \in T
          BY <4>2, <5>1, <5>3, EarlierElements
        <5> QED
          BY <3>3, <3>4, <5>2, <5>4 DEF ReachSuffices, TypeOK
      <4> QED
        BY <4>1, <4>2
    <3> QED
      BY <3>5 DEF ReachSuffices
  <2>2. CASE StepKnown
    BY <2>1, <2>2 DEF StepKnown
  <2>3. CASE StepAnything
    BY <2>1, <2>3 DEF StepAnything
  <2>4. CASE GiveUp \/ Finish \/ UNCHANGED vars
    BY <2>4 DEF GiveUp, Finish, vars, ReachSuffices
  <2> QED
    BY <2>2, <2>3, <2>4 DEF Next
<1> QED
  BY <1>1, <1>2, TypeCorrect, PTL DEF Spec

\* ... and no element too much: some instruction looks as far as it.
THEOREM ReachIsTight == Spec => []ReachNeeded
<1>1. Init => ReachNeeded
  BY DEF Init, ReachNeeded
<1>2. TypeOK /\ ReachNeeded /\ [Next]_vars => ReachNeeded'
  <2> SUFFICES ASSUME TypeOK, ReachNeeded, [Next]_vars PROVE ReachNeeded'
    OBVIOUS
  <2>1. ASSUME k < Len(block), Resolvable(Here), Look PROVE ReachNeeded'
    <3> DEFINE e == [need |-> ReachOf(Here), at |-> cur]
               T == [need : Nat, at : Int]
    <3>1. ReachOf(Here) \in Nat
      BY <2>1, IterationBounds
    <3>2. trace \in Seq(T) /\ e \in T /\ trace' = Append(trace, e)
      BY <2>1, <3>1 DEF Look, TypeOK
    <3>3. /\ e.need = ReachOf(Here) /\ e.at = cur
          /\ cur \in Int /\ peak \in Nat /\ peak' = MaxInt(peak, ReachOf(Here) - cur)
      BY <2>1 DEF Look, TypeOK
    <3> HIDE DEF e, T
    <3>4. CASE ReachOf(Here) - cur > peak
      <4>1. peak' + e.at = e.need
        BY <3>1, <3>3, <3>4 DEF MaxInt
      <4>2. Len(trace) + 1 \in DOMAIN trace' /\ trace'[Len(trace) + 1] = e
        BY <3>2
      <4> QED
        BY <4>1, <4>2 DEF ReachNeeded
    <3>5. CASE ~ ReachOf(Here) - cur > peak
      <4>1. peak' = peak
        BY <3>1, <3>3, <3>5 DEF MaxInt
      <4>2. \A j \in DOMAIN trace : j \in DOMAIN trace' /\ trace'[j] = trace[j]
        BY <3>2
      <4> QED
        BY <4>1, <4>2 DEF ReachNeeded
    <3> QED
      BY <3>4, <3>5
  <2>2. CASE StepKnown
    BY <2>1, <2>2 DEF StepKnown
  <2>3. CASE StepAnything
    BY <2>1, <2>3 DEF StepAnything
  <2>4. CASE GiveUp \/ Finish \/ UNCHANGED vars
    BY <2>4 DEF GiveUp, Finish, vars, ReachNeeded
  <2> QED
    BY <2>2, <2>3, <2>4 DEF Next
<1> QED
  BY <1>1, <1>2, TypeCorrect, PTL DEF Spec

-----------------------------------------------------------------------------
\* An instruction with a static effect, or whose effect the solver has a
\* variable for.
HasEffect(x) ==
    /\ x.op \notin {"pick", "droprange"}
    /\ x.op = "call" => x.f \in DOMAIN Known \cup DOMAIN scc

LEMMA ResolvableMeaning ==
    ASSUME NEW x \in Instr(Names) PROVE Resolvable(x) <=> HasEffect(x)
<1>1. CASE x.op \in FixedOps
  <2>1. x.op \in FixedOps
    BY <1>1
  <2>2. /\ Reach(x, Known) = Ok(FixedReach[x.op])
        /\ Delta(x, Known) = Ok(FixedDelta[x.op])
    BY <2>1 DEF Reach, Delta, FixedOps
  <2>3. Reach(x, Known).tag = "ok" /\ Delta(x, Known).tag = "ok"
    BY <2>2 DEF Ok
  <2> QED
    BY <2>1, <2>3 DEF Resolvable, HasEffect, FixedOps
<1>2. CASE x \in [op : {"lit"}, n : Int] \cup [op : {"quit", "pick", "droprange"}]
  BY <1>2 DEF Resolvable, HasEffect, Reach, Delta, Ok, Err, FixedOps
<1>3. CASE x \in [op : {"call"}, f : Names]
  BY <1>3 DEF Resolvable, HasEffect, Reach, Delta, Ok, Err, FixedOps
<1>4. CASE x \in ResolvedInstr
  BY <1>4 DEF ResolvedInstr, Resolvable, HasEffect, Reach, Delta, Ok, Err, FixedOps
<1> QED
  BY <1>1, <1>2, <1>3, <1>4 DEF Instr, ParsedInstr, FixedOps

\* The instructions processed have an effect, and one that has none ended the
\* loop.
Passed ==
    /\ \A j \in 1..k : HasEffect(block[j])
    /\ result = "some" => k = Len(block)
    /\ result = "none" => \E j \in DOMAIN block : ~ HasEffect(block[j])

LEMMA PassedInvariant == Spec => []Passed
<1>1. Init => Passed
  BY DEF Init, Passed
<1>2. TypeOK /\ Passed /\ [Next]_vars => Passed'
  <2> SUFFICES ASSUME TypeOK, Passed, [Next]_vars PROVE Passed'
    OBVIOUS
  <2>0. block \in Seq(Instr(Names)) /\ k \in Nat
    BY BlocksAssumption DEF TypeOK
  <2>1. ASSUME k < Len(block) PROVE Here \in Instr(Names) /\ k + 1 \in DOMAIN block
    BY <2>0, <2>1 DEF Here
  <2>2. ASSUME result = "running", k < Len(block), Resolvable(Here), Look PROVE Passed'
    <3>1. HasEffect(block[k + 1])
      BY <2>1, <2>2, ResolvableMeaning DEF Here
    <3>2. k' = k + 1 /\ UNCHANGED <<block, scc, result>>
      BY <2>2 DEF Look
    <3>3. ASSUME NEW j \in 1..k' PROVE HasEffect(block[j])'
      <4>1. j \in 1..k \/ j = k + 1
        BY <2>0, <3>2
      <4> QED
        BY <3>1, <3>2, <4>1 DEF Passed, HasEffect
    <3> QED
      BY <2>2, <3>2, <3>3 DEF Passed
  <2>3. CASE StepKnown
    BY <2>2, <2>3 DEF StepKnown
  <2>4. CASE StepAnything
    BY <2>2, <2>4 DEF StepAnything
  <2>5. CASE GiveUp
    <3>1. ~ HasEffect(block[k + 1]) /\ k + 1 \in DOMAIN block
      BY <2>1, <2>5, ResolvableMeaning DEF GiveUp, Here
    <3> QED
      BY <2>5, <3>1 DEF GiveUp, Passed, HasEffect
  <2>6. CASE Finish \/ UNCHANGED vars
    BY <2>6 DEF Finish, vars, Passed, HasEffect
  <2> QED
    BY <2>3, <2>4, <2>5, <2>6 DEF Next
<1> QED
  BY <1>1, <1>2, TypeCorrect, PTL DEF Spec

\* A block is without a signature only because of an instruction without a
\* static effect (get_delta_and_reach returns None, analysis.rs:151).
THEOREM NoneForAReason == Spec => []NoneIsHonest
<1>1. Passed => NoneIsHonest
  BY DEF Passed, HasEffect, NoneIsHonest
<1> QED
  BY <1>1, PassedInvariant, PTL

\* ... and a block with a signature has no such instruction.
THEOREM SomeForAll == Spec => []SomeIsHonest
<1>1. TypeOK /\ Passed => SomeIsHonest
  <2> SUFFICES ASSUME TypeOK, Passed, result = "some", NEW j \in DOMAIN block
               PROVE  HasEffect(block[j])
    BY DEF SomeIsHonest, HasEffect
  <2>1. j \in 1..k
    BY BlocksAssumption DEF TypeOK, Passed
  <2> QED
    BY <2>1 DEF Passed
<1> QED
  BY <1>1, TypeCorrect, PassedInvariant, PTL
=============================================================================
