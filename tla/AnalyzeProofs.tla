--------------------------- MODULE AnalyzeProofs ---------------------------
(***************************************************************************)
(* Proofs about Analyze, Compile and ProgramRun, for every program,        *)
(* whatever the solver answers.  The argument has these parts:             *)
(*   1. sums, linear terms and their values;                               *)
(*   2. which terms the analysis builds for blocks, paths and functions;   *)
(*   3. that a solution of the equations is an account of the depths in    *)
(*      each block (Explains) and of its reach (Fits), in numbers, and     *)
(*      that the analysis keeps one for each function it has solved;       *)
(*   4. the Clac++ theorem and the never type, from the accounts, by       *)
(*      induction over the calls and paths that return; and which of the   *)
(*      functions that cannot return are found, from a second solution;    *)
(*   5. the compiler, for which the analysis is one of its loops;          *)
(*   6. the analysed program, whose frames are where the accounts have     *)
(*      them.                                                              *)
(***************************************************************************)
EXTENDS Compile, ProgramRun, ClacLemmas, FiniteSetTheorems

-----------------------------------------------------------------------------
(* 1. Sums over finite sets.  Value sums in an order that CHOOSE fixes; a sum *)
(* does not depend on it.                                                  *)

\* g holds the sum of h over each subset of its domain.
IsSum(g, h) ==
    /\ g \in [SUBSET DOMAIN h -> Int]
    /\ g[{}] = 0
    /\ \A s \in SUBSET DOMAIN h : \A x \in s : g[s] = h[x] + g[s \ {x}]

\* Induction over the subsets of a finite set.
LEMMA SubsetInduction ==
    ASSUME NEW S, IsFiniteSet(S), NEW P, {} \in P,
           \A s \in SUBSET S : s # {} /\ (\A x \in s : s \ {x} \in P) => s \in P
    PROVE  \A s \in SUBSET S : s \in P
<1> DEFINE Q == {n \in Nat : \A s \in SUBSET S : Cardinality(s) = n => s \in P}
<1>1. \A s \in SUBSET S : IsFiniteSet(s) /\ Cardinality(s) \in Nat
  BY FS_Subset, FS_CardinalityType
<1>2. 0 \in Q
  BY <1>1, FS_EmptySet
<1>3. ASSUME NEW n \in Nat, n \in Q PROVE n + 1 \in Q
  <2> SUFFICES ASSUME NEW s \in SUBSET S, Cardinality(s) = n + 1 PROVE s \in P
    OBVIOUS
  <2>1. s # {}
    BY FS_EmptySet
  <2>2. ASSUME NEW x \in s PROVE s \ {x} \in P
    <3>1. s \ {x} \in SUBSET S /\ Cardinality(s \ {x}) = n
      BY <1>1, FS_RemoveElement
    <3> QED
      BY <1>3, <3>1
  <2> QED
    BY <2>1, <2>2
<1>4. Nat \subseteq Q
  <2> HIDE DEF Q
  <2> QED
    BY <1>2, <1>3, NatInductionBySet
<1> QED
  BY <1>1, <1>4

\* The order in which a set is emptied.
Chosen(s) == CHOOSE x \in s : TRUE

\* g holds the sum of h over each subset of its domain, taken in that order.
IsChosenSum(g, h) ==
    /\ g \in [SUBSET DOMAIN h -> Int]
    /\ \A s \in SUBSET DOMAIN h :
          g[s] = IF s = {} THEN 0 ELSE h[Chosen(s)] + g[s \ {Chosen(s)}]

\* The sum in that order exists, ...
LEMMA SumExists ==
    ASSUME NEW S, IsFiniteSet(S), NEW h \in [S -> Int]
    PROVE  \E g : IsChosenSum(g, h)
<1> DEFINE Rec(g, s) == g[s] = IF s = {} THEN 0 ELSE h[Chosen(s)] + g[s \ {Chosen(s)}]
           Up(g, n) == \A s \in SUBSET S : Cardinality(s) <= n => Rec(g, s)
           Q == {n \in Nat : \E g \in [SUBSET S -> Int] : Up(g, n)}
<1>1. \A s \in SUBSET S : IsFiniteSet(s) /\ Cardinality(s) \in Nat
  BY FS_Subset, FS_CardinalityType
<1>2. 0 \in Q
  <2> DEFINE z == [s \in SUBSET S |-> 0]
  <2>1. z \in [SUBSET S -> Int] /\ Up(z, 0)
    BY <1>1, FS_EmptySet
  <2> HIDE DEF z
  <2> QED
    BY <2>1
<1>3. ASSUME NEW n \in Nat, n \in Q PROVE n + 1 \in Q
  <2>1. PICK g \in [SUBSET S -> Int] : Up(g, n)
    BY <1>3
  <2> DEFINE k == [s \in SUBSET S |-> IF s = {} THEN 0 ELSE h[Chosen(s)] + g[s \ {Chosen(s)}]]
  <2>2. \A s \in SUBSET S : s # {} => Chosen(s) \in s
    BY DEF Chosen
  <2>3. ASSUME NEW s \in SUBSET S, s # {}
        PROVE  h[Chosen(s)] + g[s \ {Chosen(s)}] \in Int
    BY <2>2, <2>3
  <2>4. k \in [SUBSET S -> Int]
    BY <2>3
  <2>5. ASSUME NEW s \in SUBSET S, Cardinality(s) <= n PROVE k[s] = g[s]
    BY <2>1, <2>5
  <2>6. ASSUME NEW s \in SUBSET S, Cardinality(s) <= n + 1 PROVE Rec(k, s)
    <3>1. CASE s = {}
      BY <3>1
    <3>2. CASE s # {}
      <4>1. Chosen(s) \in s /\ s \ {Chosen(s)} \in SUBSET S
        BY <2>2, <3>2
      <4>2. Cardinality(s \ {Chosen(s)}) = Cardinality(s) - 1
        BY <1>1, <4>1, FS_RemoveElement
      <4>3. Cardinality(s \ {Chosen(s)}) <= n
        BY <1>1, <2>6, <4>2
      <4> QED
        BY <2>5, <3>2, <4>1, <4>3
    <3> QED
      BY <3>1, <3>2
  <2> HIDE DEF k, Rec
  <2> QED
    BY <2>4, <2>6
<1>4. Cardinality(S) \in Q
  <2> HIDE DEF Q
  <2> QED
    BY <1>1, <1>2, <1>3, NatInductionBySet
<1>5. PICK g \in [SUBSET S -> Int] : Up(g, Cardinality(S))
  BY <1>4
<1>6. \A s \in SUBSET S : Cardinality(s) <= Cardinality(S)
  BY FS_Subset
<1> QED
  BY <1>5, <1>6 DEF IsChosenSum

\* ... and is the sum in every order.
LEMMA OrderIsFree ==
    ASSUME NEW S, IsFiniteSet(S), NEW h \in [S -> Int], NEW g, IsChosenSum(g, h)
    PROVE  IsSum(g, h)
<1> DEFINE P == {s \in SUBSET S : \A x \in s : g[s] = h[x] + g[s \ {x}]}
<1>0. /\ g \in [SUBSET S -> Int] /\ g[{}] = 0
      /\ \A s \in SUBSET S : s # {} => g[s] = h[Chosen(s)] + g[s \ {Chosen(s)}]
  BY DEF IsChosenSum
<1>1. {} \in P
  OBVIOUS
<1>2. ASSUME NEW s \in SUBSET S, s # {}, \A x \in s : s \ {x} \in P PROVE s \in P
  <2> SUFFICES ASSUME NEW x \in s PROVE g[s] = h[x] + g[s \ {x}]
    OBVIOUS
  <2> DEFINE c == Chosen(s)
  <2>1. c \in s /\ g[s] = h[c] + g[s \ {c}]
    BY <1>0, <1>2 DEF Chosen
  <2> HIDE DEF c
  <2>2. CASE x = c
    BY <2>1, <2>2
  <2>3. CASE x # c
    <3>1. g[s \ {c}] = h[x] + g[(s \ {c}) \ {x}]
      BY <1>2, <2>1, <2>3
    <3>2. g[s \ {x}] = h[c] + g[(s \ {x}) \ {c}]
      BY <1>2, <2>1, <2>3
    <3>3. (s \ {c}) \ {x} = (s \ {x}) \ {c}
      OBVIOUS
    <3> DEFINE z == g[(s \ {x}) \ {c}]
    <3>4. h[x] \in Int /\ h[c] \in Int /\ z \in Int
      BY <1>0, <2>1
    <3>5. g[s] = h[c] + (h[x] + z) /\ g[s \ {x}] = h[c] + z
      BY <2>1, <3>1, <3>2, <3>3
    <3> HIDE DEF z
    <3> QED
      BY <3>4, <3>5
  <2> QED
    BY <2>2, <2>3
<1>3. \A s \in SUBSET S : s \in P
  <2> HIDE DEF P
  <2> QED
    BY <1>1, <1>2, SubsetInduction
<1> QED
  BY <1>0, <1>3 DEF IsSum

\* A linear term, and the assignments that give its variables numbers.
IsTerm(t) == IsFiniteSet(DOMAIN t) /\ t \in [DOMAIN t -> Int]
Assigns(asg, t) == \A v \in DOMAIN t : asg[v] \in Int

LEMMA ValueIsSum ==
    ASSUME NEW t, IsTerm(t), NEW asg, Assigns(asg, t)
    PROVE  \E g : IsSum(g, [v \in DOMAIN t |-> t[v] * asg[v]]) /\ Value(t, asg) = g[DOMAIN t]
<1> DEFINE S == DOMAIN t
           h == [v \in S |-> t[v] * asg[v]]
           body(g) == [s \in SUBSET S |->
                         IF s = {} THEN 0
                         ELSE LET x == CHOOSE x \in s : TRUE IN (t[x] * asg[x]) + g[s \ {x}]]
           iter == CHOOSE g : g = body(g)
           Rec(g) == \A s \in SUBSET S :
                        g[s] = IF s = {} THEN 0 ELSE h[Chosen(s)] + g[s \ {Chosen(s)}]
<1>1. IsFiniteSet(S) /\ h \in [S -> Int]
  BY DEF IsTerm, Assigns
<1>2. PICK g : IsChosenSum(g, h)
  <2> HIDE DEF h, S
  <2> QED
    BY <1>1, SumExists
<1>3. \A s \in SUBSET S : s # {} => Chosen(s) \in s
  BY DEF Chosen
<1>4. g = body(g)
  BY <1>2, <1>3 DEF Chosen, IsChosenSum
<1>5. iter = body(iter)
  <2> HIDE DEF body
  <2> QED
    BY <1>4
<1> HIDE DEF iter
<1>6. /\ iter[{}] = 0
      /\ \A s \in SUBSET S : s # {} => iter[s] = h[Chosen(s)] + iter[s \ {Chosen(s)}]
  <2>1. {} \in SUBSET S
    OBVIOUS
  <2>2. \A s \in SUBSET S : iter[s] = body(iter)[s]
    BY <1>5
  <2> QED
    BY <1>3, <2>1, <2>2 DEF Chosen
<1>7. \A s \in SUBSET S : iter[s] \in Int
  <2> DEFINE P == {s \in SUBSET S : iter[s] \in Int}
  <2>1. {} \in P
    BY <1>6
  <2>2. ASSUME NEW s \in SUBSET S, s # {}, \A x \in s : s \ {x} \in P PROVE s \in P
    <3>1. iter[s] = h[Chosen(s)] + iter[s \ {Chosen(s)}] /\ Chosen(s) \in s
      BY <1>3, <1>6, <2>2
    <3>2. h[Chosen(s)] \in Int /\ iter[s \ {Chosen(s)}] \in Int
      BY <1>1, <2>2, <3>1
    <3> QED
      BY <3>1, <3>2
  <2>3. \A s \in SUBSET S : s \in P
    <3> HIDE DEF P, S
    <3> QED
      BY <1>1, <2>1, <2>2, SubsetInduction
  <2> QED
    BY <2>3
<1>8. IsChosenSum(iter, h)
  <2>1. iter \in [SUBSET S -> Int]
    BY <1>5, <1>7
  <2> QED
    BY <1>6, <2>1 DEF IsChosenSum
<1>9. Value(t, asg) = iter[S]
  BY DEF Value, MapThenSumSet, MapThenFoldSet, iter
<1>10. IsSum(iter, h)
  <2> HIDE DEF h, S
  <2> QED
    BY <1>1, <1>8, OrderIsFree
<1> QED
  BY <1>9, <1>10

\* t and k times u: Plus and Minus are the cases of 1 and -1.
Combined(t, k, u) == [v \in DOMAIN t \cup DOMAIN u |-> Coef(t, v) + k * Coef(u, v)]

LEMMA ValueOfCombined ==
    ASSUME NEW t, IsTerm(t), NEW u, IsTerm(u), NEW k \in {1, -1},
           NEW asg, Assigns(asg, t), Assigns(asg, u)
    PROVE  /\ IsTerm(Combined(t, k, u)) /\ Assigns(asg, Combined(t, k, u))
           /\ Value(t, asg) \in Int /\ Value(u, asg) \in Int
           /\ Value(Combined(t, k, u), asg) = Value(t, asg) + k * Value(u, asg)
<1> DEFINE p == Combined(t, k, u)
<1>p. p = [v \in DOMAIN t \cup DOMAIN u |-> Coef(t, v) + k * Coef(u, v)]
  BY DEF Combined
<1> HIDE DEF p
<1> DEFINE D == DOMAIN p
           ht == [v \in DOMAIN t |-> t[v] * asg[v]]
           hu == [v \in DOMAIN u |-> u[v] * asg[v]]
           hp == [v \in DOMAIN p |-> p[v] * asg[v]]
<1>1. /\ D = DOMAIN t \cup DOMAIN u /\ IsFiniteSet(D)
      /\ \A v \in D : Coef(t, v) \in Int /\ Coef(u, v) \in Int /\ asg[v] \in Int
  <2>1. D = DOMAIN t \cup DOMAIN u
    BY <1>p
  <2>2. IsFiniteSet(D)
    BY <2>1, FS_Union DEF IsTerm
  <2>3. ASSUME NEW v \in D PROVE Coef(t, v) \in Int /\ Coef(u, v) \in Int /\ asg[v] \in Int
    BY <2>1 DEF IsTerm, Coef, Assigns
  <2> QED
    BY <2>1, <2>2, <2>3
<1>0. IsFiniteSet(D)
  BY <1>1
<1>2. IsTerm(p) /\ Assigns(asg, p)
  <2>1. \A v \in D : p[v] \in Int
    BY <1>p, <1>1
  <2>2. p \in [DOMAIN p -> Int]
    BY <1>p, <2>1
  <2> QED
    BY <1>1, <2>1, <2>2 DEF IsTerm, Assigns
<1>3. PICK gt : IsSum(gt, ht) /\ Value(t, asg) = gt[DOMAIN t]
  BY ValueIsSum
<1>4. PICK gu : IsSum(gu, hu) /\ Value(u, asg) = gu[DOMAIN u]
  BY ValueIsSum
<1>5. PICK gp : IsSum(gp, hp) /\ Value(p, asg) = gp[DOMAIN p]
  BY <1>2, ValueIsSum
<1> DEFINE P == {s \in SUBSET D : gp[s] = gt[s \cap DOMAIN t] + k * gu[s \cap DOMAIN u]}
<1>6. /\ gt \in [SUBSET DOMAIN t -> Int] /\ gt[{}] = 0
      /\ \A s \in SUBSET DOMAIN t : \A x \in s : gt[s] = t[x] * asg[x] + gt[s \ {x}]
  BY <1>3 DEF IsSum
<1>7. /\ gu \in [SUBSET DOMAIN u -> Int] /\ gu[{}] = 0
      /\ \A s \in SUBSET DOMAIN u : \A x \in s : gu[s] = u[x] * asg[x] + gu[s \ {x}]
  BY <1>4 DEF IsSum
<1>8. /\ gp \in [SUBSET D -> Int] /\ gp[{}] = 0
      /\ \A s \in SUBSET D : \A x \in s : gp[s] = p[x] * asg[x] + gp[s \ {x}]
  <2>1. DOMAIN hp = D /\ \A x \in D : hp[x] = p[x] * asg[x]
    OBVIOUS
  <2>2. IsSum(gp, hp)
    BY <1>5
  <2> HIDE DEF hp, D
  <2> QED
    BY <2>1, <2>2 DEF IsSum
<1>9. {} \in P
  <2>1. {} \cap DOMAIN t = {} /\ {} \cap DOMAIN u = {}
    OBVIOUS
  <2> QED
    BY <1>6, <1>7, <1>8, <2>1
<1>10. ASSUME NEW s \in SUBSET D, s # {}, \A x \in s : s \ {x} \in P PROVE s \in P
  <2> PICK x \in s : TRUE
    BY <1>10
  <2> DEFINE r == s \ {x}
             a == asg[x]
             ct == Coef(t, x)
             cu == Coef(u, x)
  <2>1. gt[s \cap DOMAIN t] = ct * a + gt[r \cap DOMAIN t]
    <3>1. CASE x \in DOMAIN t
      <4>1. (s \cap DOMAIN t) \ {x} = r \cap DOMAIN t /\ x \in s \cap DOMAIN t
        BY <3>1
      <4>2. gt[s \cap DOMAIN t] = t[x] * asg[x] + gt[r \cap DOMAIN t]
        BY <1>6, <4>1
      <4>3. ct = t[x]
        BY <3>1 DEF Coef
      <4> QED
        BY <4>2, <4>3
    <3>2. CASE x \notin DOMAIN t
      <4> DEFINE z == gt[r \cap DOMAIN t]
      <4>1. s \cap DOMAIN t = r \cap DOMAIN t /\ z \in Int /\ ct = 0 /\ a \in Int
        BY <1>1, <1>6, <3>2 DEF Coef
      <4>2. gt[s \cap DOMAIN t] = z
        BY <4>1
      <4> HIDE DEF z, ct, a
      <4>3. ct * a + z = z
        BY <4>1
      <4> QED
        BY <4>2, <4>3 DEF z
    <3> QED
      BY <3>1, <3>2
  <2>2. gu[s \cap DOMAIN u] = cu * a + gu[r \cap DOMAIN u]
    <3>1. CASE x \in DOMAIN u
      <4>1. (s \cap DOMAIN u) \ {x} = r \cap DOMAIN u /\ x \in s \cap DOMAIN u
        BY <3>1
      <4>2. gu[s \cap DOMAIN u] = u[x] * asg[x] + gu[r \cap DOMAIN u]
        BY <1>7, <4>1
      <4>3. cu = u[x]
        BY <3>1 DEF Coef
      <4> QED
        BY <4>2, <4>3
    <3>2. CASE x \notin DOMAIN u
      <4> DEFINE z == gu[r \cap DOMAIN u]
      <4>1. s \cap DOMAIN u = r \cap DOMAIN u /\ z \in Int /\ cu = 0 /\ a \in Int
        BY <1>1, <1>7, <3>2 DEF Coef
      <4>2. gu[s \cap DOMAIN u] = z
        BY <4>1
      <4> HIDE DEF z, cu, a
      <4>3. cu * a + z = z
        BY <4>1
      <4> QED
        BY <4>2, <4>3 DEF z
    <3> QED
      BY <3>1, <3>2
  <2>3. gp[s] = (ct + k * cu) * a + gp[r]
    <3>1. gp[s] = p[x] * asg[x] + gp[r] /\ x \in DOMAIN t \cup DOMAIN u
      BY <1>1, <1>8
    <3>2. p[x] = ct + k * cu
      BY <1>p, <3>1
    <3> QED
      BY <3>1, <3>2
  <2> DEFINE vt == gt[r \cap DOMAIN t]
             vu == gu[r \cap DOMAIN u]
  <2>4. gp[r] = vt + k * vu
    BY <1>10
  <2>5. vt \in Int /\ vu \in Int /\ ct \in Int /\ cu \in Int /\ a \in Int
    BY <1>1, <1>6, <1>7
  <2> HIDE DEF vt, vu, ct, cu, a
  <2>6. (ct + k * cu) * a + (vt + k * vu) = (ct * a + vt) + k * (cu * a + vu)
    <3>1. CASE k = 1
      BY <2>5, <3>1
    <3>2. CASE k = -1
      BY <2>5, <3>2
    <3> QED
      BY <3>1, <3>2
  <2> QED
    BY <2>1, <2>2, <2>3, <2>4, <2>6 DEF vt, vu
<1>11. \A s \in SUBSET D : s \in P
  <2> HIDE DEF P, D
  <2> QED
    BY <1>0, <1>9, <1>10, SubsetInduction
<1>12. D \in P /\ D \cap DOMAIN t = DOMAIN t /\ D \cap DOMAIN u = DOMAIN u
  BY <1>1, <1>11
<1>13. Value(t, asg) \in Int /\ Value(u, asg) \in Int
  BY <1>3, <1>4, <1>6, <1>7
<1> QED
  BY <1>2, <1>3, <1>4, <1>5, <1>12, <1>13 DEF p

LEMMA ValueOfPlus ==
    ASSUME NEW t, IsTerm(t), NEW u, IsTerm(u), NEW asg, Assigns(asg, t), Assigns(asg, u)
    PROVE  /\ IsTerm(Plus(t, u)) /\ Assigns(asg, Plus(t, u))
           /\ Value(t, asg) \in Int /\ Value(u, asg) \in Int
           /\ Value(Plus(t, u), asg) = Value(t, asg) + Value(u, asg)
<1>1. \A v : Coef(t, v) \in Int /\ Coef(u, v) \in Int
  BY DEF IsTerm, Coef
<1>2. Combined(t, 1, u) = Plus(t, u)
  BY <1>1 DEF Plus, Combined
<1>3. /\ IsTerm(Combined(t, 1, u)) /\ Assigns(asg, Combined(t, 1, u))
      /\ Value(t, asg) \in Int /\ Value(u, asg) \in Int
      /\ Value(Combined(t, 1, u), asg) = Value(t, asg) + 1 * Value(u, asg)
  <2>1. 1 \in {1, -1}
    OBVIOUS
  <2> QED
    BY <2>1, ValueOfCombined
<1> QED
  BY <1>2, <1>3

LEMMA ValueOfMinus ==
    ASSUME NEW t, IsTerm(t), NEW u, IsTerm(u), NEW asg, Assigns(asg, t), Assigns(asg, u)
    PROVE  /\ IsTerm(Minus(t, u)) /\ Assigns(asg, Minus(t, u))
           /\ Value(t, asg) \in Int /\ Value(u, asg) \in Int
           /\ Value(Minus(t, u), asg) = Value(t, asg) - Value(u, asg)
<1>1. \A v : Coef(t, v) \in Int /\ Coef(u, v) \in Int
  BY DEF IsTerm, Coef
<1>2. Combined(t, (-1), u) = Minus(t, u)
  BY <1>1 DEF Minus, Combined
<1>3. /\ IsTerm(Combined(t, (-1), u)) /\ Assigns(asg, Combined(t, (-1), u))
      /\ Value(t, asg) \in Int /\ Value(u, asg) \in Int
      /\ Value(Combined(t, (-1), u), asg) = Value(t, asg) + (-1) * Value(u, asg)
  <2>1. (-1) \in {1, -1}
    OBVIOUS
  <2> QED
    BY <2>1, ValueOfCombined
<1> QED
  BY <1>2, <1>3

\* A term of one variable.
LEMMA ValueOfSingle ==
    ASSUME NEW v, NEW n \in Int, NEW asg, asg[v] \in Int
    PROVE  /\ IsTerm([w \in {v} |-> n]) /\ Assigns(asg, [w \in {v} |-> n])
           /\ Value([w \in {v} |-> n], asg) = n * asg[v]
<1> DEFINE t == [w \in {v} |-> n]
<1>1. IsTerm(t) /\ Assigns(asg, t) /\ DOMAIN t = {v} /\ t[v] = n
  BY FS_Singleton DEF IsTerm, Assigns
<1>2. PICK g : IsSum(g, [w \in DOMAIN t |-> t[w] * asg[w]]) /\ Value(t, asg) = g[DOMAIN t]
  BY <1>1, ValueIsSum
<1> HIDE DEF t
<1>3. g[{v}] = n * asg[v] + g[{v} \ {v}] /\ g[{}] = 0 /\ {v} \ {v} = {}
  BY <1>1, <1>2 DEF IsSum
<1>4. Value(t, asg) = n * asg[v]
  <2> DEFINE z == n * asg[v]
  <2>1. z \in Int
    OBVIOUS
  <2>2. Value(t, asg) = z + 0
    BY <1>1, <1>2, <1>3
  <2> HIDE DEF z
  <2>3. z + 0 = z
    BY <2>1
  <2> QED
    BY <2>2, <2>3 DEF z
<1> QED
  BY <1>1, <1>4 DEF t

LEMMA ValueOfConst ==
    ASSUME NEW n \in Int, NEW asg, asg[One] = 1
    PROVE  IsTerm(Const(n)) /\ Assigns(asg, Const(n)) /\ Value(Const(n), asg) = n
<1>1. n * asg[One] = n /\ asg[One] \in Int
  OBVIOUS
<1>2. /\ IsTerm([w \in {One} |-> n]) /\ Assigns(asg, [w \in {One} |-> n])
      /\ Value([w \in {One} |-> n], asg) = n * asg[One]
  BY <1>1, ValueOfSingle
<1> QED
  BY <1>1, <1>2 DEF Const

LEMMA ValueOfVar ==
    ASSUME NEW v, NEW asg, asg[v] \in Int
    PROVE  IsTerm(Var(v)) /\ Assigns(asg, Var(v)) /\ Value(Var(v), asg) = asg[v]
<1>1. 1 * asg[v] = asg[v] /\ 1 \in Int
  OBVIOUS
<1>2. /\ IsTerm([w \in {v} |-> 1]) /\ Assigns(asg, [w \in {v} |-> 1])
      /\ Value([w \in {v} |-> 1], asg) = 1 * asg[v]
  BY <1>1, ValueOfSingle
<1> QED
  BY <1>1, <1>2 DEF Var

\* The value of a term depends on its variables only.
LEMMA ValueDependsOn ==
    ASSUME NEW t, IsTerm(t), NEW asg, Assigns(asg, t), NEW bsg,
           \A v \in DOMAIN t : bsg[v] = asg[v]
    PROVE  Value(t, bsg) = Value(t, asg) /\ Assigns(bsg, t)
<1> DEFINE S == DOMAIN t
           h == [v \in S |-> t[v] * asg[v]]
<1>1. Assigns(bsg, t) /\ h = [v \in S |-> t[v] * bsg[v]] /\ IsFiniteSet(S)
  BY DEF Assigns, IsTerm
<1>2. PICK g : IsSum(g, h) /\ Value(t, asg) = g[S]
  BY ValueIsSum
<1>3. PICK k : IsSum(k, h) /\ Value(t, bsg) = k[S]
  BY <1>1, ValueIsSum
<1> DEFINE P == {s \in SUBSET S : g[s] = k[s]}
<1>4. /\ g[{}] = k[{}]
      /\ \A s \in SUBSET S : \A x \in s : g[s] = h[x] + g[s \ {x}] /\ k[s] = h[x] + k[s \ {x}]
  <2>1. DOMAIN h = S
    OBVIOUS
  <2> HIDE DEF h, S
  <2> QED
    BY <1>2, <1>3, <2>1 DEF IsSum
<1>5. \A s \in SUBSET S : s \in P
  <2>1. {} \in P
    BY <1>4
  <2>2. ASSUME NEW s \in SUBSET S, s # {}, \A x \in s : s \ {x} \in P PROVE s \in P
    <3>1. PICK x \in s : TRUE
      BY <2>2
    <3>2. s \ {x} \in P /\ s \in SUBSET S
      BY <2>2, <3>1
    <3> HIDE DEF h
    <3>3. g[s] = h[x] + g[s \ {x}] /\ k[s] = h[x] + k[s \ {x}]
      BY <1>4, <3>1, <3>2
    <3> QED
      BY <3>2, <3>3
  <2>3. IsFiniteSet(S)
    BY <1>1
  <2> HIDE DEF P, S, h
  <2> QED
    BY <2>1, <2>2, <2>3, SubsetInduction
<1> QED
  BY <1>1, <1>2, <1>3, <1>5

\* A finite set of numbers has a greatest one.
LEMMA MaxIsGreatest ==
    ASSUME NEW S, IsFiniteSet(S), S # {}, S \subseteq Int
    PROVE  Max(S) \in S /\ \A x \in S : Max(S) >= x
<1> DEFINE Greatest(m, s) == m \in s /\ \A x \in s : m >= x
           P == {s \in SUBSET S : s # {} => \E m : Greatest(m, s)}
<1>1. {} \in P
  OBVIOUS
<1>2. ASSUME NEW s \in SUBSET S, s # {}, \A x \in s : s \ {x} \in P PROVE s \in P
  <2>1. PICK x \in s : TRUE
    BY <1>2
  <2>2. CASE s \ {x} = {}
    <3>1. s = {x} /\ x \in Int
      BY <2>1, <2>2
    <3>2. Greatest(x, s)
      BY <3>1
    <3> QED
      BY <3>2
  <2>3. CASE s \ {x} # {}
    <3>1. PICK m : Greatest(m, s \ {x})
      BY <1>2, <2>1, <2>3
    <3>2. m \in Int /\ x \in Int
      BY <2>1, <3>1
    <3>3. CASE m >= x
      <4>1. Greatest(m, s)
        BY <2>1, <3>1, <3>3
      <4> QED
        BY <4>1
    <3>4. CASE ~ (m >= x)
      <4>1. Greatest(x, s)
        BY <2>1, <3>1, <3>2, <3>4
      <4> QED
        BY <4>1
    <3> QED
      BY <3>3, <3>4
  <2> QED
    BY <2>2, <2>3
<1>3. \A s \in SUBSET S : s \in P
  <2> HIDE DEF P
  <2> QED
    BY <1>1, <1>2, SubsetInduction
<1> QED
  BY <1>3 DEF Max

\* The values of a function on a finite set are finite many.
LEMMA ImageIsFinite ==
    ASSUME NEW S, IsFiniteSet(S), NEW g
    PROVE  IsFiniteSet({g[x] : x \in S})
<1> DEFINE P == {s \in SUBSET S : IsFiniteSet({g[x] : x \in s})}
<1>1. {} \in P
  <2>1. {g[x] : x \in {}} = {}
    OBVIOUS
  <2> QED
    BY <2>1, FS_EmptySet
<1>2. ASSUME NEW s \in SUBSET S, s # {}, \A x \in s : s \ {x} \in P PROVE s \in P
  <2>1. PICK x \in s : TRUE
    BY <1>2
  <2> DEFINE T == {g[y] : y \in s \ {x}}
  <2>2. {g[y] : y \in s} = T \cup {g[x]}
    BY <2>1
  <2>3. IsFiniteSet(T)
    BY <1>2, <2>1
  <2>4. IsFiniteSet(T \cup {g[x]})
    <3> HIDE DEF T
    <3> QED
      BY <2>3, FS_AddElement
  <2> QED
    BY <2>2, <2>4
<1>3. \A s \in SUBSET S : s \in P
  <2> HIDE DEF P
  <2> QED
    BY <1>1, <1>2, SubsetInduction
<1> QED
  BY <1>3

\* A set that grows inside of a finite one for as many rounds as it has
\* elements has stopped growing.
LEMMA GrowthStops ==
    ASSUME NEW S, IsFiniteSet(S), NEW step \in [SUBSET S -> SUBSET S],
           \A X \in SUBSET S : X \subseteq step[X],
           NEW f \in [0..Cardinality(S) -> SUBSET S],
           \A i \in 1..Cardinality(S) : f[i] = step[f[i - 1]]
    PROVE  step[f[Cardinality(S)]] = f[Cardinality(S)]
<1> DEFINE m == Cardinality(S)
           Q == {n \in 0..m : step[f[n]] = f[n] \/ Cardinality(f[n]) >= n}
<1>1. m \in Nat
  BY FS_CardinalityType
<1>2. ASSUME NEW X \in SUBSET S PROVE IsFiniteSet(X) /\ Cardinality(X) \in Nat
  BY FS_Subset, FS_CardinalityType
<1> HIDE DEF m
<1>0. f \in [0..m -> SUBSET S] /\ \A i \in 1..m : f[i] = step[f[i - 1]]
  BY DEF m
<1>3. 0 \in Q
  <2>1. f[0] \in SUBSET S
    <3>1. 0 \in 0..m
      BY <1>1
    <3> QED
      BY <1>0, <3>1
  <2> QED
    BY <1>1, <1>2, <2>1
<1>4. ASSUME NEW n \in 0..(m - 1), n \in Q PROVE n + 1 \in Q
  <2>1. n \in 0..m /\ n + 1 \in 0..m /\ n + 1 \in 1..m /\ (n + 1) - 1 = n
    BY <1>1
  <2>2. f[n] \in SUBSET S /\ f[n + 1] \in SUBSET S /\ f[n + 1] = step[f[n]] /\ f[n] \subseteq f[n + 1]
    BY <1>0, <2>1
  <2>3. CASE step[f[n]] = f[n]
    BY <2>1, <2>2, <2>3
  <2>4. CASE step[f[n]] # f[n]
    <3>1. Cardinality(f[n]) >= n
      BY <1>4, <2>4
    <3>2. Cardinality(f[n]) < Cardinality(f[n + 1])
      <4>1. /\ Cardinality(f[n]) <= Cardinality(f[n + 1])
            /\ Cardinality(f[n + 1]) = Cardinality(f[n]) => f[n + 1] = f[n]
        BY <1>2, <2>2, FS_Subset
      <4> QED
        BY <1>2, <2>2, <2>4, <4>1
    <3>3. Cardinality(f[n + 1]) >= n + 1
      BY <1>2, <2>1, <2>2, <3>1, <3>2
    <3> QED
      BY <2>1, <3>3
  <2> QED
    BY <2>3, <2>4
<1>5. m \in Q
  <2>1. \A n \in 0..m : n \in Q
    <3> HIDE DEF Q
    <3> QED
      BY <1>1, <1>3, <1>4, InductionUpTo
  <2> QED
    BY <1>1, <2>1
<1>6. CASE Cardinality(f[m]) >= m
  <2>1. f[m] \in SUBSET S /\ Cardinality(f[m]) \in Nat
    BY <1>0, <1>1, <1>2
  <2>2. Cardinality(f[m]) <= m /\ (m = Cardinality(f[m]) => S = f[m])
    BY <2>1, FS_Subset DEF m
  <2>3. S = f[m]
    BY <1>1, <1>6, <2>1, <2>2
  <2> QED
    BY <2>1, <2>3 DEF m
<1> QED
  BY <1>5, <1>6 DEF m

\* Where the edges of the blocks X lead.
LedTo(g, X) == {t \in DOMAIN g : \E s \in X : \E x \in DOMAIN g[s].term.targets :
                                     g[s].term.targets[x] = t}

LEMMA ReachableIsClosed ==
    ASSUME NEW g, IsFiniteSet(DOMAIN g)
    PROVE  /\ ReachableBlocks(g) \subseteq DOMAIN g
           /\ 0 \in DOMAIN g => 0 \in ReachableBlocks(g)
           /\ LedTo(g, ReachableBlocks(g)) \subseteq ReachableBlocks(g)
<1> DEFINE S == DOMAIN g
           m == Cardinality(S)
           base == {0} \cap S
           step == [X \in SUBSET S |-> X \cup LedTo(g, X)]
           steps == [n \in Nat |-> step]
           body(r) == [n \in 0..m |-> IF n = 0 THEN base
                         ELSE r[n - 1] \cup
                              {t \in DOMAIN g : \E s \in r[n - 1] :
                                  \E x \in DOMAIN g[s].term.targets : g[s].term.targets[x] = t}]
           reachable == CHOOSE r : r = body(r)
<1>1. m \in Nat
  BY FS_CardinalityType
<1>2. base \in SUBSET S /\ step \in [SUBSET S -> SUBSET S] /\ steps \in [Nat -> [SUBSET S -> SUBSET S]]
  BY DEF LedTo
<1>3. PICK f \in [0..m -> SUBSET S] : Obeys(f, base, steps, m)
  <2> HIDE DEF S, m, base, steps
  <2> QED
    BY <1>1, <1>2, RecursionHasSolution
<1>4. f[0] = base /\ \A i \in 1..m : f[i] = f[i - 1] \cup LedTo(g, f[i - 1])
  <2>1. ASSUME NEW i \in 1..m PROVE i \in Nat /\ f[i - 1] \in SUBSET S
    BY <1>1, <1>3
  <2> QED
    BY <1>3, <2>1 DEF Obeys
<1>5. f = body(f)
  <2> HIDE DEF S, m, base
  <2>1. ASSUME NEW n \in 0..m PROVE f[n] = body(f)[n]
    <3>1. CASE n = 0
      BY <1>4, <3>1
    <3>2. CASE n # 0
      <4>1. n \in 1..m
        BY <1>1, <3>2
      <4> QED
        BY <1>4, <3>2, <4>1 DEF LedTo
    <3> QED
      BY <3>1, <3>2
  <2> QED
    BY <1>3, <2>1
<1>6. reachable = body(reachable)
  <2> HIDE DEF body
  <2> QED
    BY <1>5
<1> HIDE DEF reachable
<1>7. /\ reachable[0] = base
      /\ \A i \in 1..m : reachable[i] = reachable[i - 1] \cup LedTo(g, reachable[i - 1])
  <2> HIDE DEF S, m, base
  <2>1. \A n \in 0..m : reachable[n] = body(reachable)[n]
    BY <1>6
  <2>2. ASSUME NEW i \in 1..m PROVE i \in 0..m /\ i # 0
    BY <1>1
  <2>3. 0 \in 0..m
    BY <1>1
  <2> QED
    BY <2>1, <2>2, <2>3 DEF LedTo
<1>8. Agree(reachable, f, m)
  <2> HIDE DEF S, m, base
  <2> QED
    BY <1>1, <1>4, <1>7, RecursionIsUnique DEF SameRecursion
<1>9. ReachableBlocks(g) = reachable[m]
  BY DEF ReachableBlocks, reachable
<1>10. ReachableBlocks(g) = f[m] /\ m \in 0..m
  BY <1>1, <1>8, <1>9 DEF Agree
<1>11. step[f[m]] = f[m]
  <2>1. ASSUME NEW i \in 1..m PROVE f[i] = step[f[i - 1]]
    <3> HIDE DEF m, S
    <3>1. i - 1 \in 0..m
      BY <1>1
    <3>2. f[i - 1] \in SUBSET S
      BY <1>3, <3>1
    <3> QED
      BY <1>4, <3>2 DEF S
  <2>2. \A X \in SUBSET S : X \subseteq step[X]
    OBVIOUS
  <2>3. f \in [0..m -> SUBSET S] /\ step \in [SUBSET S -> SUBSET S] /\ IsFiniteSet(S)
    BY <1>2, <1>3
  <2> HIDE DEF S, step
  <2> QED
    BY <2>1, <2>2, <2>3, GrowthStops
<1>12. f[m] \in SUBSET S
  BY <1>3, <1>10
<1>13. LedTo(g, f[m]) \subseteq f[m]
  BY <1>11, <1>12
<1>14. 0 \in S => 0 \in f[m]
  <2> DEFINE Q == {n \in 0..m : base \subseteq f[n]}
  <2> HIDE DEF m, base
  <2>1. 0 \in Q
    BY <1>1, <1>4
  <2>2. ASSUME NEW n \in 0..(m - 1), n \in Q PROVE n + 1 \in Q
    <3>1. n + 1 \in 1..m /\ n + 1 \in 0..m /\ (n + 1) - 1 = n
      BY <1>1
    <3> QED
      BY <1>4, <2>2, <3>1
  <2>3. \A n \in 0..m : n \in Q
    <3> HIDE DEF Q
    <3> QED
      BY <1>1, <2>1, <2>2, InductionUpTo
  <2> QED
    BY <1>10, <2>3 DEF base
<1> QED
  BY <1>10, <1>12, <1>13, <1>14

-----------------------------------------------------------------------------
(* 2. The terms the analysis builds.  First the blocks on a path from the  *)
(* entry, what they consist of and where they lead.                        *)

LEMMA IntervalsAreFinite == \A a, b \in Int : IsFiniteSet(a..b)
BY FS_Interval

\* The graphs are those of the program.
GraphsInv ==
    /\ prog \in Programs
    /\ graphs = [name \in DOMAIN prog |-> GraphOf(prog[name])]

LEMMA ProgramIsCode ==
    ASSUME GraphsInv, NEW h \in DOMAIN prog
    PROVE  IsCode(prog[h]) /\ graphs[h] = GraphOf(prog[h])
BY CodeAssumption DEF GraphsInv, IsCode

\* Blocks on a path from the entry, and where they lead.
LEMMA BlocksOnPaths ==
    ASSUME GraphsInv, NEW h \in DOMAIN prog, NEW R, R = ReachableBlocks(graphs[h])
    PROVE  /\ Len(prog[h]) \in Nat
           /\ IsFiniteSet(R) /\ R \subseteq 0..(Len(prog[h]) - 1)
           /\ R # {} => 0 \in R
           /\ R = {} <=> Len(prog[h]) = 0
           /\ \A s \in R : /\ IsBlock(prog[h], s, graphs[h][s].end)
                           /\ graphs[h][s].end \in Nat /\ s < graphs[h][s].end
                           /\ graphs[h][s].end <= Len(prog[h])
                           /\ graphs[h][s].term = Terminator(prog[h], s, graphs[h][s].end)
<1> DEFINE f == prog[h]
           g == graphs[h]
<1>1. IsCode(f) /\ g = GraphOf(f)
  BY ProgramIsCode
<1>2. /\ Len(f) \in Nat /\ StartsOf(f) \subseteq 0..(Len(f) - 1)
      /\ Len(f) > 0 => 0 \in StartsOf(f)
  BY <1>1, StartsAreInside DEF IsCode
<1>3. DOMAIN g = StartsOf(f)
  BY <1>1 DEF GraphOf
<1>4. IsFiniteSet(DOMAIN g)
  <2>1. IsFiniteSet(0..(Len(f) - 1))
    BY <1>2, IntervalsAreFinite
  <2> QED
    BY <1>2, <1>3, <2>1, FS_Subset
<1>5. R \subseteq DOMAIN g /\ (0 \in DOMAIN g => 0 \in R)
  BY <1>4, ReachableIsClosed
<1>6. IsFiniteSet(R)
  BY <1>4, <1>5, FS_Subset
<1>7. ASSUME NEW s \in R
      PROVE  /\ IsBlock(f, s, g[s].end) /\ g[s].end \in Nat /\ s < g[s].end /\ g[s].end <= Len(f)
             /\ g[s].term = Terminator(f, s, g[s].end)
  <2> DEFINE e == EndIn(f, StartsOf(f), s)
  <2>1. IsBlock(f, s, e)
    BY <1>3, <1>5 DEF IsBlock
  <2> HIDE DEF e, f, g
  <2>2. g[s].end = e /\ g[s].term = Terminator(f, s, e)
    BY <1>1, <2>1, GraphHasBlock
  <2>3. e \in Nat /\ s < e /\ e <= Len(f)
    BY <1>1, <2>1, BlockBounds
  <2> QED
    BY <2>1, <2>2, <2>3
<1>8. R # {} => Len(f) > 0
  BY <1>2, <1>3, <1>5
<1> QED
  BY <1>2, <1>3, <1>5, <1>6, <1>7, <1>8

\* The edges that do not trap lead to the end or to blocks on a path.
LEMMA EdgesOnward ==
    ASSUME GraphsInv, NEW h \in DOMAIN prog, NEW s \in ReachableBlocks(graphs[h]),
           NEW x \in Onward(h, s), NEW t, t = graphs[h][s].term.targets[x]
    PROVE  /\ x \in DOMAIN graphs[h][s].term.targets
           /\ t \in graphs[h][s].end..Len(prog[h]) /\ s < t
           /\ t # Len(prog[h]) => t \in ReachableBlocks(graphs[h])
<1> DEFINE f == prog[h]
           g == graphs[h]
           e == g[s].end
<1>1. IsCode(f) /\ g = GraphOf(f)
  BY ProgramIsCode
<1>2. /\ Len(f) \in Nat /\ IsBlock(f, s, e) /\ e \in Nat /\ s < e /\ s \in Nat
      /\ g[s].term = Terminator(f, s, e)
  BY BlocksOnPaths
<1>3. x \in DOMAIN g[s].term.targets /\ t <= Len(f)
  BY DEF Onward
<1>4. t \in Places(f) /\ t \in e..(Len(f) + 1)
  <2>1. x \in DOMAIN Terminator(f, s, e).targets /\ t = Terminator(f, s, e).targets[x]
    BY <1>2, <1>3
  <2> HIDE DEF f, g, e
  <2> QED
    BY <1>1, <1>2, <2>1, TargetsAhead
<1>5. DOMAIN g = StartsOf(f) /\ IsFiniteSet(DOMAIN g)
  <2>1. StartsOf(f) \subseteq 0..(Len(f) - 1) /\ IsFiniteSet(0..(Len(f) - 1))
    <3>1. Len(f) - 1 \in Int
      BY <1>2
    <3> HIDE DEF f
    <3>2. IsFiniteSet(0..(Len(f) - 1))
      BY <3>1, IntervalsAreFinite
    <3>3. PICK names : f \in Seq(ParsedInstr(names, Int))
      BY <1>1 DEF IsCode
    <3>4. StartsOf(f) \subseteq 0..(Len(f) - 1)
      BY <3>3, StartsAreInside
    <3> QED
      BY <3>2, <3>4
  <2>2. DOMAIN g = StartsOf(f)
    BY <1>1 DEF GraphOf
  <2> QED
    BY <2>1, <2>2, FS_Subset
<1>6. t # Len(f) => t \in DOMAIN g
  BY <1>2, <1>3, <1>4, <1>5 DEF Places
<1>7. t \in DOMAIN g => t \in ReachableBlocks(g)
  <2>1. t \in DOMAIN g => t \in LedTo(g, ReachableBlocks(g))
    BY <1>3 DEF LedTo
  <2> QED
    BY <1>5, <2>1, ReachableIsClosed
<1> QED
  BY <1>2, <1>3, <1>4, <1>6, <1>7

\* There are finitely many, and so a first one.
LEMMA OnwardIsFinite ==
    ASSUME GraphsInv, NEW h \in DOMAIN prog, NEW s \in ReachableBlocks(graphs[h])
    PROVE  /\ IsFiniteSet(Onward(h, s))
           /\ Onward(h, s) # {} => Min(Onward(h, s)) \in Onward(h, s)
<1> DEFINE f == prog[h]
           e == graphs[h][s].end
           term == graphs[h][s].term
<1>1. /\ Len(f) \in Nat /\ e \in Nat /\ s < e /\ e <= Len(f) /\ s \in Nat
      /\ term = Terminator(f, s, e)
  BY BlocksOnPaths
<1>2. DOMAIN term.targets \subseteq Nat /\ IsFiniteSet(DOMAIN term.targets)
  <2> HIDE DEF term, f, e
  <2>1. IsFiniteSet(1..(Len(f) - e + 1)) /\ IsFiniteSet(1..1) /\ IsFiniteSet(1..2)
    <3>1. Len(f) - e + 1 \in Int /\ 1 \in Int /\ 2 \in Int
      BY <1>1
    <3> QED
      BY <3>1, IntervalsAreFinite
  <2>2. CASE At(f, e - 1).op = "if"
    BY <1>1, <2>1, <2>2 DEF Terminator
  <2>3. CASE At(f, e - 1).op # "if" /\ EndsInConstSkip(f, s, e)
    BY <1>1, <2>1, <2>3 DEF Terminator, EndsInConstSkip
  <2>4. CASE At(f, e - 1).op = "skip" /\ ~ EndsInConstSkip(f, s, e)
    BY <1>1, <2>1, <2>4 DEF Terminator
  <2>5. CASE At(f, e - 1).op \notin ControlOps
    BY <1>1, <2>1, <2>5 DEF Terminator, ControlOps, EndsInConstSkip
  <2> QED
    BY <2>2, <2>3, <2>4, <2>5 DEF ControlOps
<1>3. Onward(h, s) \subseteq DOMAIN term.targets
  BY DEF Onward
<1>4. IsFiniteSet(Onward(h, s))
  BY <1>2, <1>3, FS_Subset
<1>5. ASSUME Onward(h, s) # {} PROVE Min(Onward(h, s)) \in Onward(h, s)
  <2>1. PICK x \in Onward(h, s) : \A y \in Onward(h, s) : x <= y
    BY <1>2, <1>3, <1>5, LeastNumber
  <2> QED
    BY <2>1 DEF Min
<1> QED
  BY <1>4, <1>5

\* What a block consists of.
BodyInstrs(names) ==
    ParsedInstr(names, Int) \cup [op : {"rdrop"}, s : Nat, a : Nat] \cup [op : {"rpick"}, n : Nat]

LEMMA CodeIsTyped ==
    ASSUME GraphsInv, NEW h \in DOMAIN prog, NEW s \in ReachableBlocks(graphs[h])
    PROVE  /\ DOMAIN CodeOf(h, s) \subseteq s..(graphs[h][s].end - 1)
           /\ \E names : \A j \in DOMAIN CodeOf(h, s) : CodeOf(h, s)[j] \in BodyInstrs(names)
<1> DEFINE f == prog[h]
           e == graphs[h][s].end
<1>1. Len(f) \in Nat /\ e \in Nat /\ s < e /\ e <= Len(f) /\ s \in Nat
  BY BlocksOnPaths
<1>2. PICK names : f \in Seq(ParsedInstr(names, Int))
  BY ProgramIsCode DEF IsCode
<1>3. DOMAIN CodeOf(h, s) \subseteq s..(e - 1)
  BY DEF CodeOf, Kept
<1>4. ASSUME NEW j \in DOMAIN CodeOf(h, s) PROVE CodeOf(h, s)[j] \in BodyInstrs(names)
  <2>1. CodeOf(h, s)[j] = Resolved(f, s, j) /\ j \in s..(e - 1)
    BY <1>3 DEF CodeOf
  <2>2. \A i \in 0..(Len(f) - 1) :
           At(f, i) \in ParsedInstr(names, Int) /\ (ConstLitAt(f, i) => At(f, i).n \in Nat)
    BY <1>2, ParsedAt
  <2> HIDE DEF f, e
  <2>3. CASE FoldsPick(f, s, j)
    <3>1. j - 1 \in 0..(Len(f) - 1) /\ At(f, j - 1).n \in Nat
      BY <1>1, <2>1, <2>2, <2>3 DEF FoldsPick
    <3> QED
      BY <2>1, <2>3, <3>1 DEF Resolved, Pick, BodyInstrs
  <2>4. CASE ~ FoldsPick(f, s, j) /\ FoldsDrop(f, s, j)
    <3>1. j - 1 \in 0..(Len(f) - 1) /\ j - 2 \in 0..(Len(f) - 1)
      BY <1>1, <2>1, <2>4 DEF FoldsDrop
    <3>2. At(f, j - 1).n \in Nat /\ At(f, j - 2).n \in Nat
      BY <2>2, <2>4, <3>1 DEF FoldsDrop
    <3> QED
      BY <2>1, <2>4, <3>2 DEF Resolved, DropRange, BodyInstrs
  <2>5. CASE ~ FoldsPick(f, s, j) /\ ~ FoldsDrop(f, s, j)
    <3>1. j \in 0..(Len(f) - 1)
      BY <1>1, <2>1
    <3> QED
      BY <2>1, <2>2, <2>5, <3>1 DEF Resolved, BodyInstrs
  <2> QED
    BY <2>3, <2>4, <2>5
<1> QED
  BY <1>3, <1>4

\* The effect of an instruction, given typed signatures.
LEMMA EffectIsTyped ==
    ASSUME NEW names, NEW x \in BodyInstrs(names), \A g \in DOMAIN sigs : sigs[g] \in Sig
    PROVE  /\ Delta(x, sigs).tag = "ok" => Delta(x, sigs).val \in Int
           /\ Delta(x, sigs).tag \in {"ok", "anything", "unresolved", "notdeterminable"}
           /\ Delta(x, sigs).tag = "unresolved" => x.op = "call" /\ x.f \notin DOMAIN sigs
           /\ Reach(x, sigs).tag = "ok" => Reach(x, sigs).val \in Nat
           /\ Reach(x, sigs).tag \in {"ok", "unresolved", "notdeterminable"}
           /\ Reach(x, sigs).tag = "unresolved" => x.op = "call" /\ x.f \notin DOMAIN sigs
<1>1. CASE x.op \in FixedOps
  <2>1. Delta(x, sigs) = Ok(FixedDelta[x.op]) /\ Reach(x, sigs) = Ok(FixedReach[x.op])
    BY <1>1 DEF Delta, Reach, FixedOps
  <2>2. FixedDelta[x.op] \in Int /\ FixedReach[x.op] \in Nat
    BY <1>1 DEF FixedOps, FixedDelta, FixedReach
  <2> QED
    BY <2>1, <2>2 DEF Ok
<1>2. CASE x.op = "call"
  <2>1. /\ Delta(x, sigs) = IF x.f \notin DOMAIN sigs THEN Err("unresolved")
                            ELSE IF sigs[x.f].never THEN Err("anything") ELSE Ok(sigs[x.f].delta)
        /\ Reach(x, sigs) = IF x.f \notin DOMAIN sigs THEN Err("unresolved")
                            ELSE Ok(sigs[x.f].reach)
    BY <1>2 DEF Delta, Reach, FixedOps
  <2> QED
    BY <1>2, <2>1 DEF Ok, Err, Sig
<1>3. CASE x.op \in {"lit", "quit", "pick", "droprange"}
  BY <1>3 DEF Delta, Reach, FixedOps, Ok, Err
<1>4. CASE x.op = "rpick"
  <2>1. x.n \in Nat
    BY <1>4 DEF BodyInstrs, ParsedInstr, FixedOps
  <2> QED
    BY <1>4, <2>1 DEF Delta, Reach, FixedOps, Ok, Err
<1>5. CASE x.op = "rdrop"
  <2>1. x.s \in Nat /\ x.a \in Nat
    BY <1>5 DEF BodyInstrs, ParsedInstr, FixedOps
  <2> QED
    BY <1>5, <2>1 DEF Delta, Reach, FixedOps, Ok, Err
<1>6. x.op \in FixedOps \cup {"call", "lit", "quit", "pick", "droprange", "rpick", "rdrop"}
  BY DEF BodyInstrs, ParsedInstr, FixedOps
<1> QED
  BY <1>1, <1>2, <1>3, <1>4, <1>5, <1>6

\* The terms for the depth in a block, unfolded.
AreDepths(h, s, depths) ==
    /\ depths[s] = Const(0)
    /\ \A j \in s..(graphs[h][s].end - 1) :
          depths[j + 1] = IF j \in DOMAIN CodeOf(h, s)
                         THEN Plus(depths[j], DeltaTerm(h, j, CodeOf(h, s)[j]))
                         ELSE depths[j]

LEMMA BlockTermsAre ==
    ASSUME NEW h, NEW s \in Int, graphs[h][s].end \in Int, s <= graphs[h][s].end
    PROVE  \E depths :
              /\ AreDepths(h, s, depths)
              /\ BlockTerms(h, s).delta = depths[graphs[h][s].end]
              /\ BlockTerms(h, s).reach =
                    {Const(0)} \cup {Minus(ReachTerm(CodeOf(h, s)[j]), depths[j]) :
                                        j \in DOMAIN CodeOf(h, s)}
<1> DEFINE e == graphs[h][s].end
           code == CodeOf(h, s)
           body(d) == [j \in s..e |->
                         IF j = s THEN Const(0)
                         ELSE IF j - 1 \in DOMAIN code
                              THEN Plus(d[j - 1], DeltaTerm(h, j - 1, code[j - 1]))
                              ELSE d[j - 1]]
           Up(d, n) == \A j \in s..(s + n) : d[j] = body(d)[j]
           Q == {n \in 0..(e - s) : \E d : Up(d, n)}
           depths == CHOOSE d : d = body(d)
<1>0. e \in Int /\ s \in Int /\ e - s \in Nat
  OBVIOUS
<1> HIDE DEF e, code
<1>1. 0 \in Q
  <2> DEFINE z == [j \in s..e |-> Const(0)]
  <2>1. Up(z, 0)
    BY <1>0
  <2> QED
    BY <1>0, <2>1
<1>2. ASSUME NEW n \in 0..(e - s - 1), n \in Q PROVE n + 1 \in Q
  <2>1. PICK d : Up(d, n)
    BY <1>2
  <2> DEFINE k == body(d)
  <2>2. \A j \in s..(s + n) : k[j] = d[j]
    BY <2>1
  <2>3. ASSUME NEW j \in s..(s + (n + 1)) PROVE k[j] = body(k)[j]
    <3>1. j \in s..e
      BY <1>0
    <3>2. CASE j = s
      BY <3>1, <3>2
    <3>3. CASE j # s
      <4>1. j - 1 \in s..(s + n)
        BY <1>0, <3>3
      <4>2. k[j - 1] = d[j - 1]
        BY <2>2, <4>1
      <4> QED
        BY <3>1, <3>3, <4>2
    <3> QED
      BY <3>2, <3>3
  <2>4. Up(k, n + 1)
    BY <2>3
  <2> HIDE DEF Up, k
  <2>5. n + 1 \in 0..(e - s)
    BY <1>0
  <2> QED
    BY <2>4, <2>5
<1>3. e - s \in Q
  <2>1. \A n \in 0..((e - s) - 1) : n \in Q => n + 1 \in Q
    BY <1>2
  <2> HIDE DEF Q
  <2> QED
    BY <1>0, <1>1, <2>1, InductionUpTo
<1>4. PICK d : Up(d, e - s)
  BY <1>3
<1>5. body(d) = body(body(d))
  <2>1. \A j \in s..e : d[j] = body(d)[j]
    <3>1. s + (e - s) = e
      BY <1>0
    <3> HIDE DEF body
    <3> QED
      BY <1>4, <3>1
  <2>2. ASSUME NEW j \in s..e, j # s PROVE d[j - 1] = body(d)[j - 1]
    <3>1. j - 1 \in s..e
      BY <1>0, <2>2
    <3> QED
      BY <2>1, <3>1
  <2> DEFINE k == body(d)
  <2>3. \A j \in s..e : j # s => d[j - 1] = k[j - 1]
    BY <2>2
  <2>4. k = body(d)
    OBVIOUS
  <2> HIDE DEF k
  <2>5. body(d) = body(k)
    BY <2>3
  <2> QED
    BY <2>4, <2>5
<1>6. depths = body(depths)
  <2> HIDE DEF body
  <2> QED
    BY <1>5
<1> HIDE DEF depths
<1>7. \A j \in s..e : depths[j] = body(depths)[j]
  BY <1>6
<1>8. depths[s] = Const(0)
  <2>1. s \in s..e
    BY <1>0
  <2> QED
    BY <1>7, <2>1
<1>9. ASSUME NEW j \in s..(e - 1)
      PROVE  depths[j + 1] = IF j \in DOMAIN code THEN Plus(depths[j], DeltaTerm(h, j, code[j]))
                            ELSE depths[j]
  <2>1. j + 1 \in s..e /\ j + 1 # s /\ (j + 1) - 1 = j
    BY <1>0
  <2> QED
    BY <1>7, <2>1
<1>10. BlockTerms(h, s) =
         [delta |-> depths[e],
          reach |-> {Const(0)} \cup {Minus(ReachTerm(code[j]), depths[j]) : j \in DOMAIN code}]
  BY DEF BlockTerms, depths, e, code
<1> QED
  BY <1>8, <1>9, <1>10 DEF AreDepths, e, code

\* What a path through an edge gains.
EdgeDelta(h, p, s, x) ==
    LET t == graphs[h][s].term.targets[x]
    IN IF t = Len(prog[h]) THEN BlockTerms(h, s).delta
       ELSE Plus(BlockTerms(h, s).delta, p[t].delta)

\* The reaches beyond a block.
Beyond(h, p, s) ==
    UNION {p[graphs[h][s].term.targets[x]].reach :
             x \in {y \in Onward(h, s) : graphs[h][s].term.targets[y] < Len(prog[h])}}

\* One step of the recursion in PathTerms.
PathStep(h, p, s) ==
    [delta |-> IF Onward(h, s) = {} THEN Var(Anything(h, graphs[h][s].end - 1))
               ELSE EdgeDelta(h, p, s, Min(Onward(h, s))),
     reach |-> BlockTerms(h, s).reach \cup
               {Minus(t, BlockTerms(h, s).delta) : t \in Beyond(h, p, s)},
     zero  |-> {Minus(EdgeDelta(h, p, s, x), EdgeDelta(h, p, s, Min(Onward(h, s)))) :
                  x \in Onward(h, s)}]

\* It needs the blocks ahead only.
LEMMA PathStepDependsOn ==
    ASSUME GraphsInv, NEW h \in DOMAIN prog, NEW s \in ReachableBlocks(graphs[h]), NEW p, NEW q,
           \A t \in ReachableBlocks(graphs[h]) : s < t => p[t] = q[t]
    PROVE  PathStep(h, p, s) = PathStep(h, q, s)
<1> DEFINE T(x) == graphs[h][s].term.targets[x]
           n == Len(prog[h])
<1>1. ASSUME NEW x \in Onward(h, s), T(x) # n PROVE p[T(x)] = q[T(x)]
  <2>1. T(x) \in ReachableBlocks(graphs[h]) /\ s < T(x)
    BY <1>1, EdgesOnward
  <2> QED
    BY <2>1
<1>2. ASSUME NEW x \in Onward(h, s) PROVE EdgeDelta(h, p, s, x) = EdgeDelta(h, q, s, x)
  BY <1>1 DEF EdgeDelta
<1>3. Beyond(h, p, s) = Beyond(h, q, s)
  <2>1. ASSUME NEW x \in Onward(h, s), T(x) < n PROVE p[T(x)].reach = q[T(x)].reach
    <3>1. n \in Nat
      BY BlocksOnPaths
    <3>2. T(x) # n
      BY <2>1, <3>1
    <3> QED
      BY <1>1, <3>2
  <2> QED
    BY <2>1 DEF Beyond
<1>4. Onward(h, s) # {} => Min(Onward(h, s)) \in Onward(h, s)
  BY OnwardIsFinite
<1>5. Onward(h, s) # {} =>
        EdgeDelta(h, p, s, Min(Onward(h, s))) = EdgeDelta(h, q, s, Min(Onward(h, s)))
  BY <1>2, <1>4
<1>6. ASSUME NEW x \in Onward(h, s)
      PROVE  Minus(EdgeDelta(h, p, s, x), EdgeDelta(h, p, s, Min(Onward(h, s))))
             = Minus(EdgeDelta(h, q, s, x), EdgeDelta(h, q, s, Min(Onward(h, s))))
  BY <1>2, <1>5
<1> QED
  BY <1>3, <1>5, <1>6 DEF PathStep

LEMMA PathTermsAre ==
    ASSUME GraphsInv, NEW h \in DOMAIN prog
    PROVE  /\ DOMAIN PathTerms(h) = ReachableBlocks(graphs[h])
           /\ \A s \in ReachableBlocks(graphs[h]) :
                 PathTerms(h)[s] = PathStep(h, PathTerms(h), s)
<1> DEFINE R == ReachableBlocks(graphs[h])
           n == Len(prog[h])
           body(p) == [s \in R |-> PathStep(h, p, s)]
           Up(p, m) == \A s \in R : s >= n - m => p[s] = PathStep(h, p, s)
           Q == {m \in 0..n : \E p : Up(p, m)}
           path == CHOOSE p : p = body(p)
<1>0. n \in Nat /\ R \subseteq 0..(n - 1)
  BY BlocksOnPaths
<1> HIDE DEF R, n
<1>1. 0 \in Q
  <2>1. \A p : Up(p, 0)
    BY <1>0
  <2> QED
    BY <1>0, <2>1
<1>2. ASSUME NEW m \in 0..(n - 1), m \in Q PROVE m + 1 \in Q
  <2>1. PICK p : Up(p, m)
    BY <1>2
  <2> DEFINE q == body(p)
  <2>2. ASSUME NEW s \in R, s >= n - (m + 1) PROVE q[s] = PathStep(h, q, s)
    <3>1. ASSUME NEW t \in R, s < t PROVE p[t] = q[t]
      <4>1. t >= n - m
        BY <1>0, <2>2, <3>1
      <4> QED
        BY <2>1, <4>1
    <3>2. q[s] = PathStep(h, p, s)
      OBVIOUS
    <3> HIDE DEF q
    <3>3. PathStep(h, p, s) = PathStep(h, q, s)
      BY <3>1, PathStepDependsOn DEF R
    <3> QED
      BY <3>2, <3>3
  <2>3. Up(q, m + 1)
    BY <2>2
  <2> HIDE DEF Up, q
  <2>4. m + 1 \in 0..n
    BY <1>0
  <2> QED
    BY <2>3, <2>4
<1>3. n \in Q
  <2> HIDE DEF Q
  <2> QED
    BY <1>0, <1>1, <1>2, InductionUpTo
<1>4. PICK p : Up(p, n)
  BY <1>3
<1>5. ASSUME NEW s \in R PROVE p[s] = PathStep(h, p, s)
  <2>1. s >= n - n
    BY <1>0
  <2> QED
    BY <1>4, <2>1
<1> DEFINE k == body(p)
<1>6. k = body(k)
  <2>1. \A s \in R : k[s] = p[s]
    BY <1>5
  <2>2. k = [s \in R |-> PathStep(h, p, s)]
    OBVIOUS
  <2> HIDE DEF k
  <2>3. ASSUME NEW s \in R PROVE PathStep(h, p, s) = PathStep(h, k, s)
    BY <2>1, PathStepDependsOn DEF R
  <2> QED
    BY <2>2, <2>3
<1>7. path = body(path)
  <2> HIDE DEF body, k
  <2> QED
    BY <1>6
<1>8. PathTerms(h) = path
  BY DEF PathTerms, path, PathStep, EdgeDelta, Beyond, R, n
<1> HIDE DEF path
<1>9. DOMAIN path = R /\ \A s \in R : path[s] = PathStep(h, path, s)
  BY <1>7
<1> QED
  BY <1>8, <1>9 DEF R

\* The variables of the equations for component C, and terms over some.
DeltaVars(C) == {One} \cup {DeltaOf(f) : f \in C} \cup {Anything(f, j) : f \in C, j \in Nat}
AllVars(C)   == DeltaVars(C) \cup {ReachOf(f) : f \in C}
TermOver(t, V) == IsTerm(t) /\ DOMAIN t \subseteq V

\* A component that can be solved.
Solvable(C) ==
    /\ GraphsInv /\ C \subseteq DOMAIN prog /\ Determinable(C)
    /\ \A g \in DOMAIN sigs : sigs[g] \in Sig

LEMMA SinglesAreTerms ==
    /\ \A n \in Int : IsTerm(Const(n)) /\ DOMAIN Const(n) = {One}
    /\ \A v : IsTerm(Var(v)) /\ DOMAIN Var(v) = {v}
<1>1. ASSUME NEW v, NEW n \in Int
      PROVE  IsTerm([w \in {v} |-> n]) /\ DOMAIN [w \in {v} |-> n] = {v}
  <2>1. IsFiniteSet({v})
    BY FS_Singleton
  <2> QED
    BY <2>1 DEF IsTerm
<1>2. ASSUME NEW n \in Int PROVE IsTerm(Const(n)) /\ DOMAIN Const(n) = {One}
  BY <1>1 DEF Const
<1>3. ASSUME NEW v PROVE IsTerm(Var(v)) /\ DOMAIN Var(v) = {v}
  <2>1. 1 \in Int
    OBVIOUS
  <2> QED
    BY <1>1, <2>1 DEF Var
<1> QED
  BY <1>2, <1>3

LEMMA VarsOfComponent ==
    ASSUME NEW C
    PROVE  /\ One \in DeltaVars(C) /\ DeltaVars(C) \subseteq AllVars(C)
           /\ \A f \in C : DeltaOf(f) \in DeltaVars(C) /\ ReachOf(f) \in AllVars(C)
           /\ \A f \in C : \A j \in Nat : Anything(f, j) \in DeltaVars(C)
BY DEF DeltaVars, AllVars

LEMMA TermsCombine ==
    ASSUME NEW V, NEW t, TermOver(t, V), NEW u, TermOver(u, V)
    PROVE  /\ TermOver(Plus(t, u), V) /\ DOMAIN Plus(t, u) = DOMAIN t \cup DOMAIN u
           /\ TermOver(Minus(t, u), V) /\ DOMAIN Minus(t, u) = DOMAIN t \cup DOMAIN u
<1>1. /\ \A v : Coef(t, v) \in Int /\ Coef(u, v) \in Int
      /\ IsFiniteSet(DOMAIN t \cup DOMAIN u) /\ DOMAIN t \cup DOMAIN u \subseteq V
  <2>1. \A v : Coef(t, v) \in Int /\ Coef(u, v) \in Int
    BY DEF TermOver, IsTerm, Coef
  <2>2. IsFiniteSet(DOMAIN t) /\ IsFiniteSet(DOMAIN u)
    BY DEF TermOver, IsTerm
  <2>3. IsFiniteSet(DOMAIN t \cup DOMAIN u)
    BY <2>2, FS_Union
  <2> QED
    BY <2>1, <2>3 DEF TermOver
<1>2. \A v : Coef(t, v) + Coef(u, v) \in Int /\ Coef(t, v) - Coef(u, v) \in Int
  BY <1>1
<1> QED
  BY <1>1, <1>2 DEF TermOver, IsTerm, Plus, Minus

\* What a determinable instruction is.
LEMMA CodeIsDeterminable ==
    ASSUME NEW C, Solvable(C), NEW h \in C, NEW s \in ReachableBlocks(graphs[h]),
           NEW j \in DOMAIN CodeOf(h, s), NEW x, x = CodeOf(h, s)[j]
    PROVE  /\ \/ Delta(x, sigs).tag = "ok" /\ Delta(x, sigs).val \in Int
              \/ Delta(x, sigs).tag = "anything"
              \/ Delta(x, sigs).tag = "unresolved" /\ x.op = "call" /\ x.f \in C
           /\ \/ Reach(x, sigs).tag = "ok" /\ Reach(x, sigs).val \in Nat
              \/ Reach(x, sigs).tag = "unresolved" /\ x.op = "call" /\ x.f \in C
           /\ x.op = "call" => x.f \in C \cup DOMAIN sigs
           /\ x.op = "call" /\ x.f \notin DOMAIN sigs => Delta(x, sigs).tag = "unresolved"
           /\ j \in Nat
<1>1. h \in DOMAIN prog
  BY DEF Solvable
<1>2. PICK names : x \in BodyInstrs(names)
  BY <1>1, CodeIsTyped DEF Solvable
<1>3. /\ Reach(x, sigs).tag # "notdeterminable" /\ Delta(x, sigs).tag # "notdeterminable"
      /\ Reach(x, sigs).tag = "unresolved" => x.f \in C
  BY DEF Solvable, Determinable
<1>4. x.op = "call" =>
        /\ x.f \notin DOMAIN sigs => Reach(x, sigs).tag = "unresolved" /\ Delta(x, sigs).tag = "unresolved"
  BY DEF Reach, Delta, FixedOps, Err
<1>5. j \in Nat
  <2>1. s \in Nat /\ graphs[h][s].end \in Nat
    BY <1>1, BlocksOnPaths DEF Solvable
  <2>2. j \in s..(graphs[h][s].end - 1)
    BY <1>1, CodeIsTyped DEF Solvable
  <2> QED
    BY <2>1, <2>2
<1>6. /\ Delta(x, sigs).tag = "ok" => Delta(x, sigs).val \in Int
      /\ Delta(x, sigs).tag \in {"ok", "anything", "unresolved", "notdeterminable"}
      /\ Delta(x, sigs).tag = "unresolved" => x.op = "call" /\ x.f \notin DOMAIN sigs
      /\ Reach(x, sigs).tag = "ok" => Reach(x, sigs).val \in Nat
      /\ Reach(x, sigs).tag \in {"ok", "unresolved", "notdeterminable"}
      /\ Reach(x, sigs).tag = "unresolved" => x.op = "call" /\ x.f \notin DOMAIN sigs
  BY <1>2, EffectIsTyped DEF Solvable
<1> QED
  BY <1>3, <1>4, <1>5, <1>6

\* The variables of the equations of the functions C when they call only D
\* and what is solved.
DeltasOf(C, D) == {One} \cup {DeltaOf(f) : f \in D} \cup {Anything(f, j) : f \in C, j \in Nat}
VarsFor(C, D)  == DeltasOf(C, D) \cup {ReachOf(f) : f \in D}

CallsOnly(C, D) ==
    \A h \in C : \A s \in ReachableBlocks(graphs[h]) : \A j \in DOMAIN CodeOf(h, s) :
        LET x == CodeOf(h, s)[j]
        IN x.op = "call" => x.f \in D \cup DOMAIN sigs

LEMMA VarsOfEquations ==
    ASSUME NEW C, NEW D
    PROVE  /\ One \in DeltasOf(C, D) /\ DeltasOf(C, D) \subseteq VarsFor(C, D)
           /\ \A f \in D : DeltaOf(f) \in DeltasOf(C, D) /\ ReachOf(f) \in VarsFor(C, D)
           /\ \A f \in C : \A j \in Nat : Anything(f, j) \in DeltasOf(C, D)
BY DEF DeltasOf, VarsFor

LEMMA InstrTermsOn ==
    ASSUME NEW C, Solvable(C), NEW D, CallsOnly(C, D), NEW h \in C, NEW s \in ReachableBlocks(graphs[h]),
           NEW j \in DOMAIN CodeOf(h, s)
    PROVE  /\ TermOver(DeltaTerm(h, j, CodeOf(h, s)[j]), DeltasOf(C, D))
           /\ TermOver(ReachTerm(CodeOf(h, s)[j]), VarsFor(C, D))
<1> DEFINE x == CodeOf(h, s)[j]
<1>1. /\ \/ Delta(x, sigs).tag = "ok" /\ Delta(x, sigs).val \in Int
         \/ Delta(x, sigs).tag = "anything"
         \/ Delta(x, sigs).tag = "unresolved" /\ x.f \in D
      /\ \/ Reach(x, sigs).tag = "ok" /\ Reach(x, sigs).val \in Nat
         \/ Reach(x, sigs).tag = "unresolved" /\ x.f \in D
      /\ j \in Nat
  <2>1. x.op = "call" => x.f \in D \cup DOMAIN sigs
    BY DEF CallsOnly
  <2>2. x.op = "call" /\ (Delta(x, sigs).tag = "unresolved" \/ Reach(x, sigs).tag = "unresolved") =>
          x.f \notin DOMAIN sigs
    BY DEF Delta, Reach, Ok, Err, FixedOps
  <2>3. PICK y : y = CodeOf(h, s)[j]
    OBVIOUS
  <2>4. /\ \/ Delta(y, sigs).tag = "ok" /\ Delta(y, sigs).val \in Int
           \/ Delta(y, sigs).tag = "anything"
           \/ Delta(y, sigs).tag = "unresolved" /\ y.op = "call" /\ y.f \in C
        /\ \/ Reach(y, sigs).tag = "ok" /\ Reach(y, sigs).val \in Nat
           \/ Reach(y, sigs).tag = "unresolved" /\ y.op = "call" /\ y.f \in C
        /\ j \in Nat
    BY <2>3, CodeIsDeterminable
  <2> QED
    BY <2>1, <2>2, <2>3, <2>4
<1> HIDE DEF x
<1>2. TermOver(DeltaTerm(h, j, x), DeltasOf(C, D))
  <2>0. h \in C
    OBVIOUS
  <2>1. CASE Delta(x, sigs).tag = "ok"
    <3>1. DeltaTerm(h, j, x) = Const(Delta(x, sigs).val)
      BY <2>1 DEF DeltaTerm
    <3> QED
      BY <1>1, <2>1, <3>1, SinglesAreTerms, VarsOfEquations DEF TermOver
  <2>2. CASE Delta(x, sigs).tag = "anything"
    <3>1. DeltaTerm(h, j, x) = Var(Anything(h, j))
      BY <2>2 DEF DeltaTerm
    <3>2. Anything(h, j) \in DeltasOf(C, D)
      BY <1>1, <2>0, VarsOfEquations
    <3> HIDE DEF Anything
    <3> QED
      BY <3>1, <3>2, SinglesAreTerms DEF TermOver
  <2>3. CASE Delta(x, sigs).tag = "unresolved"
    <3>1. DeltaTerm(h, j, x) = Var(DeltaOf(x.f))
      BY <2>3 DEF DeltaTerm
    <3>2. DeltaOf(x.f) \in DeltasOf(C, D)
      BY <1>1, <2>3, VarsOfEquations
    <3> QED
      BY <3>1, <3>2, SinglesAreTerms DEF TermOver
  <2> QED
    BY <1>1, <2>1, <2>2, <2>3
<1>3. TermOver(ReachTerm(x), VarsFor(C, D))
  <2>1. CASE Reach(x, sigs).tag = "ok"
    <3>1. ReachTerm(x) = Const(Reach(x, sigs).val)
      BY <2>1 DEF ReachTerm
    <3> QED
      BY <1>1, <2>1, <3>1, SinglesAreTerms, VarsOfEquations DEF TermOver
  <2>2. CASE Reach(x, sigs).tag # "ok"
    <3>1. ReachTerm(x) = Var(ReachOf(x.f))
      BY <2>2 DEF ReachTerm
    <3>2. ReachOf(x.f) \in VarsFor(C, D)
      BY <1>1, <2>2, VarsOfEquations
    <3> QED
      BY <3>1, <3>2, SinglesAreTerms DEF TermOver
  <2> QED
    BY <2>1, <2>2
<1> QED
  BY <1>2, <1>3 DEF x

LEMMA DepthTermsOn ==
    ASSUME NEW C, Solvable(C), NEW D, CallsOnly(C, D), NEW h \in C, NEW s \in ReachableBlocks(graphs[h]),
           NEW depths, AreDepths(h, s, depths)
    PROVE  \A j \in s..graphs[h][s].end : TermOver(depths[j], DeltasOf(C, D))
<1> DEFINE e == graphs[h][s].end
           m == e - s
           Q == {i \in 0..m : TermOver(depths[s + i], DeltasOf(C, D))}
<1>1. s \in Nat /\ e \in Nat /\ s < e
  <2>1. h \in DOMAIN prog
    BY DEF Solvable
  <2> QED
    BY <2>1, BlocksOnPaths DEF Solvable
<1>2. /\ depths[s] = Const(0)
      /\ \A j \in s..(e - 1) :
            depths[j + 1] = IF j \in DOMAIN CodeOf(h, s)
                           THEN Plus(depths[j], DeltaTerm(h, j, CodeOf(h, s)[j]))
                           ELSE depths[j]
  BY DEF AreDepths
<1> HIDE DEF e
<1>3. 0 \in Q
  <2>1. TermOver(Const(0), DeltasOf(C, D))
    BY SinglesAreTerms DEF TermOver, DeltasOf
  <2>2. s + 0 = s /\ 0 \in 0..m
    BY <1>1
  <2> QED
    BY <1>2, <2>1, <2>2
<1>4. ASSUME NEW i \in 0..(m - 1), i \in Q PROVE i + 1 \in Q
  <2>1. s + i \in s..(e - 1) /\ s + (i + 1) = (s + i) + 1 /\ i + 1 \in 0..m
    BY <1>1
  <2>2. CASE (s + i) \in DOMAIN CodeOf(h, s)
    <3>1. TermOver(DeltaTerm(h, s + i, CodeOf(h, s)[s + i]), DeltasOf(C, D))
      BY <2>2, InstrTermsOn
    <3>2. TermOver(Plus(depths[s + i], DeltaTerm(h, s + i, CodeOf(h, s)[s + i])), DeltasOf(C, D))
      BY <1>4, <3>1, TermsCombine
    <3> QED
      BY <1>2, <2>1, <2>2, <3>2
  <2>3. CASE (s + i) \notin DOMAIN CodeOf(h, s)
    BY <1>2, <1>4, <2>1, <2>3
  <2> QED
    BY <2>2, <2>3
<1>5. \A i \in 0..m : i \in Q
  <2>1. m \in Nat
    BY <1>1
  <2> HIDE DEF Q, m
  <2> QED
    BY <1>3, <1>4, <2>1, InductionUpTo
<1>6. ASSUME NEW j \in s..e PROVE TermOver(depths[j], DeltasOf(C, D))
  <2>1. j - s \in 0..m /\ s + (j - s) = j
    BY <1>1
  <2> QED
    BY <1>5, <2>1
<1> QED
  BY <1>6 DEF e

LEMMA OverAllOn == ASSUME NEW C, NEW D, NEW t, TermOver(t, DeltasOf(C, D)) PROVE TermOver(t, VarsFor(C, D))
BY DEF TermOver, VarsFor

\* A reach is a finite set of terms, among them 0.
ReachOn(T, C, D) == IsFiniteSet(T) /\ Const(0) \in T /\ \A t \in T : TermOver(t, VarsFor(C, D))

LEMMA BlockTermsOn ==
    ASSUME NEW C, Solvable(C), NEW D, CallsOnly(C, D), NEW h \in C, NEW s \in ReachableBlocks(graphs[h])
    PROVE  /\ TermOver(BlockTerms(h, s).delta, DeltasOf(C, D))
           /\ ReachOn(BlockTerms(h, s).reach, C, D)
<1> DEFINE e == graphs[h][s].end
           code == CodeOf(h, s)
<1>1. /\ s \in Nat /\ e \in Nat /\ s < e /\ DOMAIN code \subseteq s..(e - 1)
  <2>1. h \in DOMAIN prog
    BY DEF Solvable
  <2> QED
    BY <2>1, BlocksOnPaths, CodeIsTyped DEF Solvable
<1>2. PICK depths :
         /\ AreDepths(h, s, depths)
         /\ BlockTerms(h, s).delta = depths[e]
         /\ BlockTerms(h, s).reach =
               {Const(0)} \cup {Minus(ReachTerm(code[j]), depths[j]) : j \in DOMAIN code}
  BY <1>1, BlockTermsAre
<1>3. \A j \in s..e : TermOver(depths[j], DeltasOf(C, D))
  BY <1>2, DepthTermsOn
<1> DEFINE g == [j \in DOMAIN code |-> Minus(ReachTerm(code[j]), depths[j])]
<1>4. {g[j] : j \in DOMAIN code} = {Minus(ReachTerm(code[j]), depths[j]) : j \in DOMAIN code}
  OBVIOUS
<1>5. ASSUME NEW j \in DOMAIN code PROVE TermOver(g[j], VarsFor(C, D))
  <2>1. TermOver(depths[j], VarsFor(C, D))
    <3>1. j \in s..e
      BY <1>1
    <3> QED
      BY <1>3, <3>1, OverAllOn
  <2>2. TermOver(ReachTerm(code[j]), VarsFor(C, D))
    BY InstrTermsOn
  <2>3. TermOver(Minus(ReachTerm(code[j]), depths[j]), VarsFor(C, D))
    BY <2>1, <2>2, TermsCombine
  <2> QED
    BY <2>3
<1>6. IsFiniteSet(DOMAIN code)
  <2>1. IsFiniteSet(s..(e - 1))
    BY <1>1, IntervalsAreFinite
  <2> QED
    BY <1>1, <2>1, FS_Subset
<1>7. IsFiniteSet({g[j] : j \in DOMAIN code} \cup {Const(0)})
  <2> HIDE DEF g
  <2>1. IsFiniteSet({g[j] : j \in DOMAIN code})
    BY <1>6, ImageIsFinite
  <2> QED
    BY <2>1, FS_AddElement
<1>8. TermOver(Const(0), VarsFor(C, D))
  BY SinglesAreTerms DEF TermOver, VarsFor, DeltasOf
<1>9. BlockTerms(h, s).reach = {g[j] : j \in DOMAIN code} \cup {Const(0)}
  BY <1>2, <1>4
<1>10. TermOver(BlockTerms(h, s).delta, DeltasOf(C, D))
  <2>1. e \in s..e
    BY <1>1
  <2> QED
    BY <1>2, <1>3, <2>1
<1> HIDE DEF g
<1> QED
  BY <1>5, <1>7, <1>8, <1>9, <1>10 DEF ReachOn

\* What the terms of block s of h are.
TypedOn(C, D, path) ==
    TermOver(path.delta, DeltasOf(C, D)) /\ ReachOn(path.reach, C, D)

LEMMA EdgeTermsOn ==
    ASSUME NEW C, Solvable(C), NEW D, CallsOnly(C, D), NEW h \in C, NEW s \in ReachableBlocks(graphs[h]), NEW p,
           \A t \in ReachableBlocks(graphs[h]) : s < t => TypedOn(C, D, p[t]),
           NEW x \in Onward(h, s)
    PROVE  /\ TermOver(EdgeDelta(h, p, s, x), DeltasOf(C, D))
           /\ DOMAIN BlockTerms(h, s).delta \subseteq DOMAIN EdgeDelta(h, p, s, x)
           /\ LET t == graphs[h][s].term.targets[x]
              IN /\ t = Len(prog[h]) => EdgeDelta(h, p, s, x) = BlockTerms(h, s).delta
                 /\ t # Len(prog[h]) =>
                      /\ t \in ReachableBlocks(graphs[h]) /\ s < t
                      /\ EdgeDelta(h, p, s, x) = Plus(BlockTerms(h, s).delta, p[t].delta)
                      /\ DOMAIN EdgeDelta(h, p, s, x) =
                            DOMAIN BlockTerms(h, s).delta \cup DOMAIN p[t].delta
<1> DEFINE own == BlockTerms(h, s).delta
           t == graphs[h][s].term.targets[x]
           n == Len(prog[h])
<1>1. TermOver(own, DeltasOf(C, D))
  BY BlockTermsOn
<1>2. t # n => t \in ReachableBlocks(graphs[h]) /\ s < t
  <2>1. h \in DOMAIN prog /\ GraphsInv
    BY DEF Solvable
  <2> QED
    BY <2>1, EdgesOnward
<1>3. EdgeDelta(h, p, s, x) = IF t = n THEN own ELSE Plus(own, p[t].delta)
  BY DEF EdgeDelta
<1> HIDE DEF own, t, n
<1>4. CASE t = n
  BY <1>1, <1>3, <1>4 DEF own, t, n
<1>5. CASE t # n
  <2>1. TermOver(p[t].delta, DeltasOf(C, D))
    BY <1>2, <1>5 DEF TypedOn
  <2>2. TermOver(Plus(own, p[t].delta), DeltasOf(C, D))
        /\ DOMAIN Plus(own, p[t].delta) = DOMAIN own \cup DOMAIN p[t].delta
    BY <1>1, <2>1, TermsCombine
  <2> QED
    BY <1>2, <1>3, <1>5, <2>2 DEF own, t, n
<1> QED
  BY <1>4, <1>5

\* The same, in the form the later proofs cite: what a path already knows of the
\* blocks behind s, and what that makes of an edge of s.
AheadTyped(C, D, h, s, p) == \A t \in ReachableBlocks(graphs[h]) : s < t => TypedOn(C, D, p[t])

EdgeIs(C, D, h, s, p, x) ==
    LET own == BlockTerms(h, s).delta
        t == graphs[h][s].term.targets[x]
        e == EdgeDelta(h, p, s, x)
    IN /\ TermOver(e, DeltasOf(C, D)) /\ DOMAIN own \subseteq DOMAIN e
       /\ t = Len(prog[h]) => e = own
       /\ t # Len(prog[h]) =>
             /\ t \in ReachableBlocks(graphs[h]) /\ s < t
             /\ e = Plus(own, p[t].delta) /\ DOMAIN e = DOMAIN own \cup DOMAIN p[t].delta

LEMMA EdgeKnown ==
    ASSUME NEW C, Solvable(C), NEW D, CallsOnly(C, D), NEW h \in C,
           NEW s \in ReachableBlocks(graphs[h]), NEW p, AheadTyped(C, D, h, s, p),
           NEW x \in Onward(h, s)
    PROVE  EdgeIs(C, D, h, s, p, x)
BY EdgeTermsOn DEF AheadTyped, EdgeIs

LEMMA BeyondTermsOn ==
    ASSUME NEW C, Solvable(C), NEW D, CallsOnly(C, D), NEW h \in C, NEW s \in ReachableBlocks(graphs[h]), NEW p,
           \A t \in ReachableBlocks(graphs[h]) : s < t => TypedOn(C, D, p[t])
    PROVE  /\ IsFiniteSet(Beyond(h, p, s))
           /\ \A t \in Beyond(h, p, s) : TermOver(t, VarsFor(C, D))
<1> DEFINE T(x) == graphs[h][s].term.targets[x]
           n == Len(prog[h])
           X == {y \in Onward(h, s) : T(y) < n}
           g == [x \in X |-> p[T(x)].reach]
<1>1. h \in DOMAIN prog /\ GraphsInv /\ n \in Nat
  <2>1. h \in DOMAIN prog /\ GraphsInv
    BY DEF Solvable
  <2> QED
    BY <2>1, BlocksOnPaths
<1>2. ASSUME NEW x \in X PROVE ReachOn(g[x], C, D)
  <2>1. T(x) \in graphs[h][s].end..n /\ s < T(x) /\ (T(x) # n => T(x) \in ReachableBlocks(graphs[h]))
    BY <1>1, EdgesOnward
  <2>2. T(x) # n
    BY <1>1
  <2>3. TypedOn(C, D, p[T(x)])
    BY <2>1, <2>2
  <2> QED
    BY <2>3 DEF TypedOn
<1>3. IsFiniteSet(X)
  <2>1. IsFiniteSet(Onward(h, s))
    BY <1>1, OnwardIsFinite
  <2> QED
    BY <2>1, FS_Subset
<1>4. Beyond(h, p, s) = UNION {g[x] : x \in X}
  BY DEF Beyond
<1> HIDE DEF g, X
<1>5. IsFiniteSet({g[x] : x \in X})
  BY <1>3, ImageIsFinite
<1>6. \A S \in {g[x] : x \in X} : IsFiniteSet(S)
  BY <1>2 DEF ReachOn
<1>7. IsFiniteSet(UNION {g[x] : x \in X})
  BY <1>5, <1>6, FS_UNION
<1> QED
  BY <1>2, <1>4, <1>7 DEF ReachOn

LEMMA PathTermsOn ==
    ASSUME NEW C, Solvable(C), NEW D, CallsOnly(C, D), NEW h \in C
    PROVE  \A s \in ReachableBlocks(graphs[h]) : TypedOn(C, D, PathTerms(h)[s])
<1> DEFINE R == ReachableBlocks(graphs[h])
           p == PathTerms(h)
           n == Len(prog[h])
           Q == {m \in 0..n : \A s \in R : s >= n - m => TypedOn(C, D, p[s])}
<1>1. /\ h \in DOMAIN prog /\ GraphsInv /\ n \in Nat /\ R \subseteq 0..(n - 1)
      /\ \A s \in R : graphs[h][s].end \in Nat /\ s < graphs[h][s].end
  <2>1. h \in DOMAIN prog /\ GraphsInv
    BY DEF Solvable
  <2> QED
    BY <2>1, BlocksOnPaths
<1>2. \A s \in R : p[s] = PathStep(h, p, s)
  BY <1>1, PathTermsAre
<1> HIDE DEF p, n
<1>3. ASSUME NEW s \in R, \A t \in R : s < t => TypedOn(C, D, p[t]) PROVE TypedOn(C, D, p[s])
  <2> DEFINE own == BlockTerms(h, s)
             B == Beyond(h, p, s)
             g == [t \in B |-> Minus(t, own.delta)]
  <2>1. TermOver(own.delta, DeltasOf(C, D)) /\ ReachOn(own.reach, C, D)
    BY BlockTermsOn
  <2>2. IsFiniteSet(B) /\ \A t \in B : TermOver(t, VarsFor(C, D))
    BY <1>3, BeyondTermsOn
  <2>3. /\ p[s].delta = IF Onward(h, s) = {} THEN Var(Anything(h, graphs[h][s].end - 1))
                        ELSE EdgeDelta(h, p, s, Min(Onward(h, s)))
        /\ p[s].reach = own.reach \cup {Minus(t, own.delta) : t \in B}
    <3>1. p[s] = PathStep(h, p, s)
      BY <1>2
    <3>2. PathStep(h, p, s).delta = IF Onward(h, s) = {} THEN Var(Anything(h, graphs[h][s].end - 1))
                                    ELSE EdgeDelta(h, p, s, Min(Onward(h, s)))
      BY DEF PathStep
    <3>3. PathStep(h, p, s).reach = own.reach \cup {Minus(t, own.delta) : t \in B}
      BY DEF PathStep
    <3> QED
      BY <3>1, <3>2, <3>3
  <2> HIDE DEF own, B
  <2>6. {Minus(t, own.delta) : t \in B} = {g[t] : t \in B}
    OBVIOUS
  <2> HIDE DEF g
  <2>4. TermOver(p[s].delta, DeltasOf(C, D))
    <3>1. CASE Onward(h, s) = {}
      <4>0. s \in Nat /\ graphs[h][s].end \in Nat /\ s < graphs[h][s].end
        BY <1>1
      <4>1. Anything(h, graphs[h][s].end - 1) \in DeltasOf(C, D)
        BY <4>0, VarsOfEquations
      <4>2. p[s].delta = Var(Anything(h, graphs[h][s].end - 1))
        BY <2>3, <3>1
      <4>3. \A v \in DeltasOf(C, D) : TermOver(Var(v), DeltasOf(C, D))
        <5> TAKE v \in DeltasOf(C, D)
        <5>1. IsTerm(Var(v)) /\ DOMAIN Var(v) = {v}
          BY SinglesAreTerms
        <5> HIDE DEF Var
        <5> QED
          BY <5>1 DEF TermOver
      <4> QED
        BY <4>1, <4>2, <4>3
    <3>2. CASE Onward(h, s) # {}
      <4>1. Min(Onward(h, s)) \in Onward(h, s)
        BY <1>1, <3>2, OnwardIsFinite
      <4>2. p[s].delta = EdgeDelta(h, p, s, Min(Onward(h, s)))
        BY <2>3, <3>2
      <4>3. \A x \in Onward(h, s) : TermOver(EdgeDelta(h, p, s, x), DeltasOf(C, D))
        BY <1>3, EdgeTermsOn
      <4> QED
        BY <4>1, <4>2, <4>3
    <3> QED
      BY <3>1, <3>2
  <2>5. ReachOn(p[s].reach, C, D)
    <3>1. ASSUME NEW t \in B PROVE TermOver(g[t], VarsFor(C, D))
      <4>1. TermOver(t, VarsFor(C, D)) /\ TermOver(own.delta, VarsFor(C, D))
        BY <2>1, <2>2, OverAllOn
      <4>2. TermOver(Minus(t, own.delta), VarsFor(C, D))
        BY <4>1, TermsCombine
      <4> QED
        BY <4>2 DEF g
    <3>2. IsFiniteSet({g[t] : t \in B})
      BY <2>2, ImageIsFinite
    <3>3. IsFiniteSet(own.reach)
      BY <2>1 DEF ReachOn
    <3>4. IsFiniteSet(own.reach \cup {g[t] : t \in B})
      BY <3>2, <3>3, FS_Union
    <3> QED
      BY <2>1, <2>3, <2>6, <3>1, <3>4 DEF ReachOn
  <2> QED
    BY <2>4, <2>5 DEF TypedOn
<1> HIDE DEF R
<1>4. 0 \in Q
  BY <1>1
<1>5. ASSUME NEW m \in 0..(n - 1), m \in Q PROVE m + 1 \in Q
  <2>1. ASSUME NEW s \in R, s >= n - (m + 1) PROVE TypedOn(C, D, p[s])
    <3>1. ASSUME NEW t \in R, s < t PROVE TypedOn(C, D, p[t])
      <4>1. t >= n - m
        BY <1>1, <2>1, <3>1
      <4> QED
        BY <1>5, <4>1
    <3> QED
      BY <1>3, <3>1
  <2>2. m + 1 \in 0..n
    BY <1>1
  <2> QED
    BY <2>1, <2>2
<1>6. n \in Q
  <2>1. n \in 0..n /\ \A m \in 0..n : m \in Q
    <3> HIDE DEF Q
    <3> QED
      BY <1>1, <1>4, <1>5, InductionUpTo
  <2> QED
    BY <2>1
<1>7. ASSUME NEW s \in R PROVE TypedOn(C, D, p[s])
  <2>1. s >= n - n
    BY <1>1
  <2> QED
    BY <1>6, <2>1
<1> QED
  BY <1>7 DEF R, p

\* The component that is being solved calls itself and what is solved.
ReachOver(T, C) == IsFiniteSet(T) /\ Const(0) \in T /\ \A t \in T : TermOver(t, AllVars(C))

TypedPath(C, path) ==
    TermOver(path.delta, DeltaVars(C)) /\ ReachOver(path.reach, C)

LEMMA ComponentVars ==
    ASSUME NEW C
    PROVE  /\ DeltaVars(C) = DeltasOf(C, C) /\ AllVars(C) = VarsFor(C, C)
           /\ \A T : ReachOver(T, C) <=> ReachOn(T, C, C)
           /\ \A path : TypedPath(C, path) <=> TypedOn(C, C, path)
<1>1. DeltaVars(C) = DeltasOf(C, C) /\ AllVars(C) = VarsFor(C, C)
  BY DEF DeltaVars, AllVars, DeltasOf, VarsFor
<1>2. \A T : ReachOver(T, C) <=> ReachOn(T, C, C)
  BY <1>1 DEF ReachOver, ReachOn
<1> QED
  BY <1>1, <1>2 DEF TypedPath, TypedOn

LEMMA ComponentCalls ==
    ASSUME NEW C, Solvable(C)
    PROVE  CallsOnly(C, C)
BY CodeIsDeterminable DEF CallsOnly

LEMMA OverAll == ASSUME NEW C, NEW t, TermOver(t, DeltaVars(C)) PROVE TermOver(t, AllVars(C))
BY DEF TermOver, AllVars

LEMMA InstrTerms ==
    ASSUME NEW C, Solvable(C), NEW h \in C, NEW s \in ReachableBlocks(graphs[h]),
           NEW j \in DOMAIN CodeOf(h, s)
    PROVE  /\ TermOver(DeltaTerm(h, j, CodeOf(h, s)[j]), DeltaVars(C))
           /\ TermOver(ReachTerm(CodeOf(h, s)[j]), AllVars(C))
BY ComponentVars, ComponentCalls, InstrTermsOn

LEMMA DepthTerms ==
    ASSUME NEW C, Solvable(C), NEW h \in C, NEW s \in ReachableBlocks(graphs[h]),
           NEW depths, AreDepths(h, s, depths)
    PROVE  \A j \in s..graphs[h][s].end : TermOver(depths[j], DeltaVars(C))
BY ComponentVars, ComponentCalls, DepthTermsOn

LEMMA TermsOfBlock ==
    ASSUME NEW C, Solvable(C), NEW h \in C, NEW s \in ReachableBlocks(graphs[h])
    PROVE  /\ TermOver(BlockTerms(h, s).delta, DeltaVars(C))
           /\ ReachOver(BlockTerms(h, s).reach, C)
BY ComponentVars, ComponentCalls, BlockTermsOn

LEMMA EdgeTerms ==
    ASSUME NEW C, Solvable(C), NEW h \in C, NEW s \in ReachableBlocks(graphs[h]), NEW p,
           \A t \in ReachableBlocks(graphs[h]) : s < t => TypedPath(C, p[t]),
           NEW x \in Onward(h, s)
    PROVE  /\ TermOver(EdgeDelta(h, p, s, x), DeltaVars(C))
           /\ DOMAIN BlockTerms(h, s).delta \subseteq DOMAIN EdgeDelta(h, p, s, x)
           /\ LET t == graphs[h][s].term.targets[x]
              IN /\ t = Len(prog[h]) => EdgeDelta(h, p, s, x) = BlockTerms(h, s).delta
                 /\ t # Len(prog[h]) =>
                      /\ t \in ReachableBlocks(graphs[h]) /\ s < t
                      /\ EdgeDelta(h, p, s, x) = Plus(BlockTerms(h, s).delta, p[t].delta)
                      /\ DOMAIN EdgeDelta(h, p, s, x) =
                            DOMAIN BlockTerms(h, s).delta \cup DOMAIN p[t].delta
<1>1. AheadTyped(C, C, h, s, p)
  BY ComponentVars DEF AheadTyped
<1>2. EdgeIs(C, C, h, s, p, x)
  BY <1>1, ComponentCalls, EdgeKnown
<1>3. DeltaVars(C) = DeltasOf(C, C)
  BY ComponentVars
<1> QED
  BY <1>2, <1>3 DEF EdgeIs

LEMMA PathsAreTyped ==
    ASSUME NEW C, Solvable(C), NEW h \in C
    PROVE  \A s \in ReachableBlocks(graphs[h]) : TypedPath(C, PathTerms(h)[s])
BY ComponentVars, ComponentCalls, PathTermsOn

\* The variables the solver has values for.
UsedVars(sys) == UNION {DOMAIN t : t \in Terms(sys)}

\* The equations only mention these.
LEMMA EquationsUse ==
    ASSUME NEW C, Solvable(C), NEW sys, sys = [h \in C |-> PathTerms(h)],
           NEW h \in C, NEW s \in ReachableBlocks(graphs[h])
    PROVE  /\ DOMAIN sys[h] = ReachableBlocks(graphs[h])
           /\ TypedPath(C, sys[h][s])
           /\ DOMAIN sys[h][s].delta \subseteq UsedVars(sys)
           /\ \A t \in sys[h][s].reach : DOMAIN t \subseteq UsedVars(sys)
           /\ \A x \in Onward(h, s) :
                 DOMAIN EdgeDelta(h, sys[h], s, x) \subseteq UsedVars(sys)
<1> DEFINE p == PathTerms(h)
           R == ReachableBlocks(graphs[h])
<1>1. h \in DOMAIN prog /\ GraphsInv
  BY DEF Solvable
<1>2. DOMAIN p = R /\ \A t \in R : p[t] = PathStep(h, p, t)
  BY <1>1, PathTermsAre
<1>3. \A t \in R : TypedPath(C, p[t])
  BY PathsAreTyped
<1>4. sys[h] = p
  OBVIOUS
<1> HIDE DEF p
<1>5. ASSUME NEW t \in R
      PROVE  {p[t].delta} \cup p[t].reach \subseteq Terms(sys)
  BY <1>2, <1>4 DEF Terms
<1>6. ASSUME NEW t \in R
      PROVE  /\ DOMAIN p[t].delta \subseteq UsedVars(sys)
             /\ \A u \in p[t].reach : DOMAIN u \subseteq UsedVars(sys)
  BY <1>5 DEF UsedVars
<1>7. ASSUME NEW x \in Onward(h, s) PROVE DOMAIN EdgeDelta(h, p, s, x) \subseteq UsedVars(sys)
  <2> DEFINE m == Min(Onward(h, s))
             own == BlockTerms(h, s).delta
             t == graphs[h][s].term.targets[x]
  <2>1. m \in Onward(h, s)
    BY <1>1, OnwardIsFinite
  <2>2. p[s].delta = EdgeDelta(h, p, s, m)
    BY <1>2 DEF PathStep
  <2>3. \A y \in Onward(h, s) :
          /\ DOMAIN own \subseteq DOMAIN EdgeDelta(h, p, s, y)
          /\ LET u == graphs[h][s].term.targets[y]
             IN /\ u = Len(prog[h]) => EdgeDelta(h, p, s, y) = own
                /\ u # Len(prog[h]) =>
                     u \in R /\ DOMAIN EdgeDelta(h, p, s, y) = DOMAIN own \cup DOMAIN p[u].delta
    BY <1>3, EdgeTerms
  <2> HIDE DEF m, own
  <2>4. DOMAIN own \subseteq UsedVars(sys)
    BY <1>6, <2>1, <2>2, <2>3
  <2>5. CASE t = Len(prog[h])
    BY <2>3, <2>4, <2>5
  <2>6. CASE t # Len(prog[h])
    BY <1>6, <2>3, <2>4, <2>6
  <2> QED
    BY <2>5, <2>6
<1> QED
  BY <1>2, <1>3, <1>4, <1>6, <1>7

\* The system of equations of component C.
IsSystem(C, sys) == Solvable(C) /\ sys = [h \in C |-> PathTerms(h)]

\* Assignment c solves the equations about deltas, ...
SolvesDeltas(C, sys, c) ==
    /\ c[One] = 1 /\ \A v \in DeltaVars(C) : c[v] \in Int
    /\ \A h \in C : c[DeltaOf(h)] = Value(FuncDelta(sys[h]), c)
    /\ \A h \in C : \A s \in ReachableBlocks(graphs[h]) :
          \A t \in sys[h][s].zero : Value(t, c) = 0

\* ... and those about reaches.
SolvesReaches(C, sys, c) ==
    /\ \A v \in AllVars(C) : c[v] \in Int
    /\ \A h \in C : c[ReachOf(h)] = MaxValue(FuncReach(sys[h]), c)

\* What an assignment to the variables that occur has to satisfy.
FitsDeltas(C, sys, a) ==
    /\ a[One] = 1 /\ \A v \in UsedVars(sys) \cap DeltaVars(C) : a[v] \in Int
    /\ \A h \in C : DeltaOf(h) \in UsedVars(sys) => a[DeltaOf(h)] = Value(FuncDelta(sys[h]), a)
    /\ \A h \in C : \A s \in ReachableBlocks(graphs[h]) :
          \A t \in sys[h][s].zero : Value(t, a) = 0

FitsReaches(C, sys, a) ==
    /\ \A v \in UsedVars(sys) \cap AllVars(C) : a[v] \in Int
    /\ \A h \in C : ReachOf(h) \in UsedVars(sys) => a[ReachOf(h)] = MaxValue(FuncReach(sys[h]), a)

\* It gets a value for each variable that occurs in no equation.
Completed(C, sys, a) ==
    [v \in AllVars(C) |->
        IF v \in UsedVars(sys) \cup {One} THEN a[v]
        ELSE IF \E h \in C : v = DeltaOf(h)
             THEN Value(FuncDelta(sys[CHOOSE h \in C : v = DeltaOf(h)]), a)
        ELSE IF \E h \in C : v = ReachOf(h)
             THEN MaxValue(FuncReach(sys[CHOOSE h \in C : v = ReachOf(h)]), a)
        ELSE 0]

Completes(C, sys, a, c) ==
    /\ c[One] = a[One]
    /\ \A v \in UsedVars(sys) \cap AllVars(C) : c[v] = a[v]
    /\ \A h \in C : DeltaOf(h) \notin UsedVars(sys) => c[DeltaOf(h)] = Value(FuncDelta(sys[h]), a)
    /\ \A h \in C : ReachOf(h) \notin UsedVars(sys) => c[ReachOf(h)] = MaxValue(FuncReach(sys[h]), a)
    /\ \A v \in AllVars(C) : \/ v \in UsedVars(sys) \cup {One}
                             \/ \E h \in C : v = DeltaOf(h)
                             \/ \E h \in C : v = ReachOf(h)
                             \/ c[v] = 0

LEMMA Completion ==
    ASSUME NEW C, NEW sys, NEW a
    PROVE  \E c : Completes(C, sys, a, c)
<1> DEFINE c == Completed(C, sys, a)
<1>1. One \in AllVars(C) /\ \A h \in C : DeltaOf(h) \in AllVars(C) /\ ReachOf(h) \in AllVars(C)
  BY VarsOfComponent
<1>2. ASSUME NEW h \in C
      PROVE  /\ DeltaOf(h) # One /\ ReachOf(h) # One
             /\ \A g : DeltaOf(h) # ReachOf(g)
             /\ \A g : (DeltaOf(h) = DeltaOf(g) => g = h) /\ (ReachOf(h) = ReachOf(g) => g = h)
  BY DEF One, DeltaOf, ReachOf
<1>3. ASSUME NEW h \in C
      PROVE  /\ (CHOOSE g \in C : DeltaOf(h) = DeltaOf(g)) = h
             /\ (CHOOSE g \in C : ReachOf(h) = ReachOf(g)) = h
  BY <1>2
<1>4. ASSUME NEW v \in AllVars(C)
      PROVE  c[v] = IF v \in UsedVars(sys) \cup {One} THEN a[v]
                    ELSE IF \E h \in C : v = DeltaOf(h)
                         THEN Value(FuncDelta(sys[CHOOSE h \in C : v = DeltaOf(h)]), a)
                    ELSE IF \E h \in C : v = ReachOf(h)
                         THEN MaxValue(FuncReach(sys[CHOOSE h \in C : v = ReachOf(h)]), a)
                    ELSE 0
  BY <1>4 DEF Completed
<1> HIDE DEF c
<1> HIDE DEF One, DeltaOf, ReachOf
<1>5. ASSUME NEW h \in C, DeltaOf(h) \notin UsedVars(sys)
      PROVE  c[DeltaOf(h)] = Value(FuncDelta(sys[h]), a)
  <2>1. c[DeltaOf(h)] = Value(FuncDelta(sys[CHOOSE g \in C : DeltaOf(h) = DeltaOf(g)]), a)
    BY <1>1, <1>2, <1>4, <1>5
  <2> QED
    BY <1>3, <2>1
<1>6. ASSUME NEW h \in C, ReachOf(h) \notin UsedVars(sys)
      PROVE  c[ReachOf(h)] = MaxValue(FuncReach(sys[h]), a)
  <2>1. c[ReachOf(h)] = MaxValue(FuncReach(sys[CHOOSE g \in C : ReachOf(h) = ReachOf(g)]), a)
    <3>1. ~ \E g \in C : ReachOf(h) = DeltaOf(g)
      BY <1>2
    <3> QED
      BY <1>1, <1>2, <1>4, <1>6, <3>1
  <2> QED
    BY <1>3, <2>1
<1>7. \A v \in AllVars(C) : v \in UsedVars(sys) \cup {One} => c[v] = a[v]
  BY <1>4
<1>8. \A v \in AllVars(C) : \/ v \in UsedVars(sys) \cup {One}
                            \/ \E h \in C : v = DeltaOf(h)
                            \/ \E h \in C : v = ReachOf(h)
                            \/ c[v] = 0
  BY <1>4
<1> QED
  BY <1>1, <1>5, <1>6, <1>7, <1>8 DEF Completes

LEMMA ZeroTerms ==
    ASSUME NEW C, NEW sys, IsSystem(C, sys), NEW h \in C, NEW s \in ReachableBlocks(graphs[h])
    PROVE  /\ sys[h][s].zero = {Minus(EdgeDelta(h, sys[h], s, x),
                                      EdgeDelta(h, sys[h], s, Min(Onward(h, s)))) : x \in Onward(h, s)}
           /\ \A t \in sys[h][s].zero : TermOver(t, DeltaVars(C)) /\ DOMAIN t \subseteq UsedVars(sys)
<1> DEFINE m == Min(Onward(h, s))
           e(x) == EdgeDelta(h, sys[h], s, x)
<1>1. h \in DOMAIN prog /\ GraphsInv /\ Solvable(C) /\ sys = [g \in C |-> PathTerms(g)]
  BY DEF IsSystem, Solvable
<1>2. sys[h] = PathTerms(h)
  BY <1>1
<1>3. sys[h][s] = PathStep(h, sys[h], s)
  BY <1>1, <1>2, PathTermsAre
<1>4. sys[h][s].zero = {Minus(e(x), e(m)) : x \in Onward(h, s)}
  BY <1>3 DEF PathStep
<1>5. \A t \in ReachableBlocks(graphs[h]) : TypedPath(C, sys[h][t])
  BY <1>1, <1>2, PathsAreTyped
<1>6. \A x \in Onward(h, s) : DOMAIN e(x) \subseteq UsedVars(sys)
  BY <1>1, EquationsUse
<1>7. \A x \in Onward(h, s) : TermOver(e(x), DeltaVars(C))
  BY <1>1, <1>5, EdgeTerms
<1> HIDE DEF e, m
<1>8. ASSUME NEW x \in Onward(h, s)
      PROVE  TermOver(Minus(e(x), e(m)), DeltaVars(C)) /\ DOMAIN Minus(e(x), e(m)) \subseteq UsedVars(sys)
  <2>1. m \in Onward(h, s)
    BY <1>1, <1>8, OnwardIsFinite DEF m
  <2>4. TermOver(e(x), DeltaVars(C)) /\ TermOver(e(m), DeltaVars(C))
    BY <1>7, <1>8, <2>1
  <2>5. \A t, u : TermOver(t, DeltaVars(C)) /\ TermOver(u, DeltaVars(C)) =>
           /\ DOMAIN Minus(t, u) = DOMAIN t \cup DOMAIN u
           /\ TermOver(Minus(t, u), DeltaVars(C))
    BY TermsCombine
  <2>2. DOMAIN Minus(e(x), e(m)) = DOMAIN e(x) \cup DOMAIN e(m)
    BY <2>4, <2>5
  <2>3. TermOver(Minus(e(x), e(m)), DeltaVars(C))
    BY <2>4, <2>5
  <2> QED
    BY <1>6, <2>1, <2>2, <2>3
<1>9. \A t \in sys[h][s].zero : TermOver(t, DeltaVars(C)) /\ DOMAIN t \subseteq UsedVars(sys)
  BY <1>4, <1>8
<1> QED
  BY <1>4, <1>9 DEF e, m

\* A term has the same value under assignments that agree on what occurs.
AgreeOn(V, U, a, c) ==
    a[One] = 1 /\ c[One] = 1 /\ \A v \in U \cap V : a[v] \in Int /\ c[v] = a[v]

LEMMA ValueKept ==
    ASSUME NEW V, NEW U, NEW a, NEW c, AgreeOn(V, U, a, c)
    PROVE  \A t : TermOver(t, V) /\ DOMAIN t \subseteq U \cup {One} =>
               Value(t, c) = Value(t, a) /\ Value(t, a) \in Int
<1> SUFFICES ASSUME NEW t, TermOver(t, V), DOMAIN t \subseteq U \cup {One}
             PROVE  Value(t, c) = Value(t, a) /\ Value(t, a) \in Int
  OBVIOUS
<1>1. \A v \in DOMAIN t : a[v] \in Int /\ c[v] = a[v]
  BY DEF TermOver, AgreeOn
<1>2. IsTerm(t) /\ Assigns(a, t)
  BY <1>1 DEF TermOver, Assigns
<1>3. Value(t, c) = Value(t, a) /\ Assigns(c, t)
  BY <1>1, <1>2, ValueDependsOn
<1>4. Value(t, a) \in Int
  BY <1>2, ValueOfPlus
<1> QED
  BY <1>2, <1>3, <1>4

\* The delta of a function is a term over what occurs, and 1.
LEMMA FuncTerms ==
    ASSUME NEW C, NEW sys, IsSystem(C, sys), NEW h \in C
    PROVE  /\ TermOver(FuncDelta(sys[h]), DeltaVars(C))
           /\ DOMAIN FuncDelta(sys[h]) \subseteq UsedVars(sys) \cup {One}
           /\ ReachOver(FuncReach(sys[h]), C)
           /\ \A t \in FuncReach(sys[h]) : DOMAIN t \subseteq UsedVars(sys) \cup {One}
<1>1. h \in DOMAIN prog /\ GraphsInv /\ Solvable(C) /\ sys = [g \in C |-> PathTerms(g)]
  BY DEF IsSystem, Solvable
<1>2. DOMAIN sys[h] = ReachableBlocks(graphs[h])
  BY <1>1, PathTermsAre
<1>3. CASE DOMAIN sys[h] = {}
  <2>1. FuncDelta(sys[h]) = Const(0) /\ FuncReach(sys[h]) = {Const(0)}
    BY <1>3 DEF FuncDelta, FuncReach
  <2>2. IsTerm(Const(0)) /\ DOMAIN Const(0) = {One} /\ One \in DeltaVars(C)
    BY SinglesAreTerms, VarsOfComponent
  <2>3. TermOver(Const(0), DeltaVars(C)) /\ TermOver(Const(0), AllVars(C))
    BY <2>2, OverAll DEF TermOver
  <2>4. IsFiniteSet({Const(0)})
    BY FS_Singleton
  <2> HIDE DEF Const
  <2> QED
    BY <2>1, <2>2, <2>3, <2>4 DEF ReachOver
<1>4. CASE DOMAIN sys[h] # {}
  <2>1. 0 \in ReachableBlocks(graphs[h])
    BY <1>1, <1>2, <1>4, BlocksOnPaths
  <2>2. FuncDelta(sys[h]) = sys[h][0].delta /\ FuncReach(sys[h]) = sys[h][0].reach
    BY <1>4 DEF FuncDelta, FuncReach
  <2>3. /\ TypedPath(C, sys[h][0])
        /\ DOMAIN sys[h][0].delta \subseteq UsedVars(sys)
        /\ \A t \in sys[h][0].reach : DOMAIN t \subseteq UsedVars(sys)
    BY <1>1, <2>1, EquationsUse
  <2> QED
    BY <2>2, <2>3 DEF TypedPath
<1> QED
  BY <1>3, <1>4

LEMMA DeltasCompleted ==
    ASSUME NEW C, NEW sys, IsSystem(C, sys), NEW a, FitsDeltas(C, sys, a),
           NEW c, Completes(C, sys, a, c)
    PROVE  /\ SolvesDeltas(C, sys, c)
           /\ \A h \in C : /\ Value(FuncDelta(sys[h]), c) = Value(FuncDelta(sys[h]), a)
                           /\ Value(FuncDelta(sys[h]), a) \in Int
                           /\ \A s \in ReachableBlocks(graphs[h]) :
                                 Value(sys[h][s].delta, c) = Value(sys[h][s].delta, a)
<1> DEFINE U == UsedVars(sys)
           V == DeltaVars(C)
<1>1. /\ c[One] = a[One]
      /\ \A v \in U \cap AllVars(C) : c[v] = a[v]
      /\ \A h \in C : DeltaOf(h) \notin U => c[DeltaOf(h)] = Value(FuncDelta(sys[h]), a)
      /\ \A v \in AllVars(C) : \/ v \in U \cup {One}
                               \/ \E h \in C : v = DeltaOf(h)
                               \/ \E h \in C : v = ReachOf(h)
                               \/ c[v] = 0
  BY DEF Completes
<1>2. a[One] = 1 /\ c[One] = 1
  BY <1>1 DEF FitsDeltas
<1>3. V \subseteq AllVars(C) /\ \A h \in C : DeltaOf(h) \in V
  BY VarsOfComponent
<1>4. \A v \in U \cap V : a[v] \in Int /\ c[v] = a[v]
  BY <1>1, <1>3 DEF FitsDeltas
<1>5. \A t : TermOver(t, V) /\ DOMAIN t \subseteq U \cup {One} =>
           Value(t, c) = Value(t, a) /\ Value(t, a) \in Int
  <2>1. AgreeOn(V, U, a, c)
    BY <1>2, <1>4 DEF AgreeOn
  <2> HIDE DEF U, V
  <2> QED
    BY <2>1, ValueKept
<1>6. \A h \in C : /\ Value(FuncDelta(sys[h]), c) = Value(FuncDelta(sys[h]), a)
                   /\ Value(FuncDelta(sys[h]), a) \in Int
  BY <1>5, FuncTerms
<1>7. ASSUME NEW h \in C, NEW s \in ReachableBlocks(graphs[h])
      PROVE  /\ Value(sys[h][s].delta, c) = Value(sys[h][s].delta, a)
             /\ \A t \in sys[h][s].zero : Value(t, c) = 0
  <2>1. Solvable(C) /\ sys = [g \in C |-> PathTerms(g)]
    BY DEF IsSystem
  <2>2. TypedPath(C, sys[h][s]) /\ DOMAIN sys[h][s].delta \subseteq U
    BY <2>1, EquationsUse
  <2>3. \A t \in sys[h][s].zero : TermOver(t, V) /\ DOMAIN t \subseteq U
    BY ZeroTerms
  <2>4. \A t \in sys[h][s].zero : Value(t, a) = 0
    BY DEF FitsDeltas
  <2>5. Value(sys[h][s].delta, c) = Value(sys[h][s].delta, a)
    BY <1>5, <2>2 DEF TypedPath
  <2> HIDE DEF U, V
  <2> QED
    BY <1>5, <2>3, <2>4, <2>5
<1>8. \A h \in C : c[DeltaOf(h)] = Value(FuncDelta(sys[h]), c)
  <2> SUFFICES ASSUME NEW h \in C PROVE c[DeltaOf(h)] = Value(FuncDelta(sys[h]), c)
    OBVIOUS
  <2>1. CASE DeltaOf(h) \in U
    <3>1. a[DeltaOf(h)] = Value(FuncDelta(sys[h]), a)
      BY <2>1 DEF FitsDeltas
    <3> QED
      BY <1>3, <1>4, <1>6, <2>1, <3>1
  <2>2. CASE DeltaOf(h) \notin U
    BY <1>1, <1>6, <2>2
  <2> QED
    BY <2>1, <2>2
<1>9. ASSUME NEW v \in V PROVE c[v] \in Int
  <2>1. CASE v \in U \cup {One}
    BY <1>2, <1>4, <2>1
  <2>2. CASE \E h \in C : v = DeltaOf(h)
    <3> PICK h \in C : v = DeltaOf(h)
      BY <2>2
    <3> QED
      BY <1>6, <1>8
  <2>3. ~ \E h \in C : v = ReachOf(h)
    BY DEF DeltaVars, One, DeltaOf, ReachOf, Anything
  <2> QED
    BY <1>1, <1>3, <2>1, <2>2, <2>3
<1> QED
  BY <1>2, <1>6, <1>7, <1>8, <1>9 DEF SolvesDeltas

LEMMA MaxValueIs ==
    ASSUME NEW C, NEW T, ReachOver(T, C), NEW c, \A t \in T : Value(t, c) \in Int
    PROVE  /\ MaxValue(T, c) \in Int
           /\ \A t \in T : MaxValue(T, c) >= Value(t, c)
<1> DEFINE S == {Value(t, c) : t \in T}
<1>1. IsFiniteSet(S)
  <2> DEFINE g == [t \in T |-> Value(t, c)]
  <2>1. S = {g[t] : t \in T}
    OBVIOUS
  <2> HIDE DEF g, S
  <2>2. IsFiniteSet(T)
    BY DEF ReachOver
  <2> QED
    BY <2>1, <2>2, ImageIsFinite
<1>2. S # {} /\ S \subseteq Int
  BY DEF ReachOver
<1>3. MaxValue(T, c) = Max(S)
  BY DEF MaxValue
<1>4. \A t \in T : Value(t, c) \in S
  OBVIOUS
<1> HIDE DEF S
<1> QED
  BY <1>1, <1>2, <1>3, <1>4, MaxIsGreatest

LEMMA ReachesCompleted ==
    ASSUME NEW C, NEW sys, IsSystem(C, sys), NEW a, FitsDeltas(C, sys, a), FitsReaches(C, sys, a),
           NEW c, Completes(C, sys, a, c)
    PROVE  /\ SolvesReaches(C, sys, c)
           /\ \A h \in C : MaxValue(FuncReach(sys[h]), c) = MaxValue(FuncReach(sys[h]), a)
<1> DEFINE U == UsedVars(sys)
           V == AllVars(C)
<1>1. /\ c[One] = a[One]
      /\ \A v \in U \cap V : c[v] = a[v]
      /\ \A h \in C : ReachOf(h) \notin U => c[ReachOf(h)] = MaxValue(FuncReach(sys[h]), a)
      /\ \A v \in V : \/ v \in U \cup {One}
                      \/ \E h \in C : v = DeltaOf(h)
                      \/ \E h \in C : v = ReachOf(h)
                      \/ c[v] = 0
  BY DEF Completes
<1>2. a[One] = 1 /\ c[One] = 1
  BY <1>1 DEF FitsDeltas
<1>3. \A h \in C : DeltaOf(h) \in DeltaVars(C) /\ ReachOf(h) \in V
  BY VarsOfComponent
<1>4. \A v \in U \cap V : a[v] \in Int /\ c[v] = a[v]
  BY <1>1 DEF FitsReaches
<1>5. \A t : TermOver(t, V) /\ DOMAIN t \subseteq U \cup {One} =>
           Value(t, c) = Value(t, a) /\ Value(t, a) \in Int
  <2>1. AgreeOn(V, U, a, c)
    BY <1>2, <1>4 DEF AgreeOn
  <2> HIDE DEF U, V
  <2> QED
    BY <2>1, ValueKept
<1>6. ASSUME NEW h \in C
      PROVE  /\ MaxValue(FuncReach(sys[h]), c) = MaxValue(FuncReach(sys[h]), a)
             /\ MaxValue(FuncReach(sys[h]), a) \in Int
  <2>1. /\ ReachOver(FuncReach(sys[h]), C)
        /\ \A t \in FuncReach(sys[h]) : DOMAIN t \subseteq U \cup {One}
    BY FuncTerms
  <2>2. \A t \in FuncReach(sys[h]) : TermOver(t, V)
    BY <2>1 DEF ReachOver
  <2>3. \A t \in FuncReach(sys[h]) : Value(t, c) = Value(t, a) /\ Value(t, a) \in Int
    BY <1>5, <2>1, <2>2
  <2>4. {Value(t, c) : t \in FuncReach(sys[h])} = {Value(t, a) : t \in FuncReach(sys[h])}
    BY <2>3
  <2>5. MaxValue(FuncReach(sys[h]), a) \in Int
    BY <2>1, <2>3, MaxValueIs
  <2> QED
    BY <2>4, <2>5 DEF MaxValue
<1>7. \A h \in C : c[ReachOf(h)] = MaxValue(FuncReach(sys[h]), c)
  <2> SUFFICES ASSUME NEW h \in C PROVE c[ReachOf(h)] = MaxValue(FuncReach(sys[h]), c)
    OBVIOUS
  <2>1. CASE ReachOf(h) \in U
    <3>1. a[ReachOf(h)] = MaxValue(FuncReach(sys[h]), a)
      BY <2>1 DEF FitsReaches
    <3> QED
      BY <1>3, <1>4, <1>6, <2>1, <3>1
  <2>2. CASE ReachOf(h) \notin U
    BY <1>1, <1>6, <2>2
  <2> QED
    BY <2>1, <2>2
<1>8. ASSUME NEW v \in V PROVE c[v] \in Int
  <2>1. CASE v \in U \cup {One}
    BY <1>2, <1>4, <2>1
  <2>2. CASE \E h \in C : v = DeltaOf(h)
    <3>1. PICK h \in C : v = DeltaOf(h)
      BY <2>2
    <3>2. SolvesDeltas(C, sys, c)
      BY DeltasCompleted
    <3> QED
      BY <1>3, <3>1, <3>2 DEF SolvesDeltas
  <2>3. CASE \E h \in C : v = ReachOf(h)
    <3>1. PICK h \in C : v = ReachOf(h)
      BY <2>3
    <3> QED
      BY <1>6, <1>7, <3>1
  <2> QED
    BY <1>1, <2>1, <2>2, <2>3
<1> QED
  BY <1>6, <1>7, <1>8 DEF SolvesReaches

\* The kinds of variables.
LEMMA VarKinds ==
    ASSUME NEW C
    PROVE  /\ One[1] = "one"
           /\ \A v \in DeltaVars(C) : v = One \/ v[1] \in {"delta", "anything"}
           /\ \A v \in AllVars(C) : v \in DeltaVars(C) \/ v[1] = "reach"
           /\ \A h : DeltaOf(h)[1] = "delta" /\ ReachOf(h)[1] = "reach"
BY DEF One, DeltaVars, AllVars, DeltaOf, ReachOf, Anything

LEMMA VarsOfUsed == ASSUME NEW sys, NEW kinds
                    PROVE  VarsOf(sys, kinds) = {v \in UsedVars(sys) : v[1] \in kinds}
BY DEF VarsOf, UsedVars

LEMMA WithOne ==
    ASSUME NEW d
    PROVE  /\ DOMAIN With(Const(1), d) = {One} \cup DOMAIN d
           /\ With(Const(1), d)[One] = 1
           /\ \A v \in DOMAIN d : v # One => With(Const(1), d)[v] = d[v]
BY DEF With, Const

\* What the solver answers to the equations about deltas satisfies them.
LEMMA DeltaSolutionsFit ==
    ASSUME NEW C, NEW sys, IsSystem(C, sys), NEW Nums, Nums \subseteq Int,
           NEW asg \in DeltaSolutions(sys, Nums)
    PROVE  /\ FitsDeltas(C, sys, asg)
           /\ DOMAIN asg = {One} \cup VarsOf(sys, {"delta", "anything"})
<1>1. PICK d \in [VarsOf(sys, {"delta", "anything"}) -> Nums] : asg = With(Const(1), d)
  BY DEF DeltaSolutions
<1>2. /\ DOMAIN asg = {One} \cup VarsOf(sys, {"delta", "anything"}) /\ asg[One] = 1
      /\ \A v \in VarsOf(sys, {"delta", "anything"}) : v # One => asg[v] \in Int
  <2>1. DOMAIN d = VarsOf(sys, {"delta", "anything"})
    OBVIOUS
  <2>2. \A v \in DOMAIN d : d[v] \in Int
    OBVIOUS
  <2> QED
    BY <1>1, <2>1, <2>2, WithOne
<1>3. DOMAIN sys = C /\ \A h \in C : DOMAIN sys[h] = ReachableBlocks(graphs[h])
  <2>1. sys = [g \in C |-> PathTerms(g)] /\ Solvable(C)
    BY DEF IsSystem
  <2> QED
    BY <2>1, EquationsUse, PathTermsAre DEF Solvable
<1>4. \A f \in C :
        /\ \A s \in ReachableBlocks(graphs[f]) : \A t \in sys[f][s].zero : Value(t, asg) = 0
        /\ DeltaOf(f) \in DOMAIN asg => asg[DeltaOf(f)] = Value(FuncDelta(sys[f]), asg)
  BY <1>3 DEF DeltaSolutions
<1>5. \A v \in UsedVars(sys) \cap DeltaVars(C) : v = One \/ v \in VarsOf(sys, {"delta", "anything"})
  BY VarKinds, VarsOfUsed
<1>6. \A f \in C : DeltaOf(f) \in UsedVars(sys) => DeltaOf(f) \in VarsOf(sys, {"delta", "anything"})
  BY VarKinds, VarsOfUsed
<1>7. \A v \in UsedVars(sys) \cap DeltaVars(C) : asg[v] \in Int
  BY <1>2, <1>5
<1>8. \A f \in C : DeltaOf(f) \in UsedVars(sys) => asg[DeltaOf(f)] = Value(FuncDelta(sys[f]), asg)
  BY <1>2, <1>4, <1>6
<1> QED
  BY <1>2, <1>4, <1>7, <1>8 DEF FitsDeltas

\* ... and so does its answer to those about reaches.
LEMMA ReachSolutionsFit ==
    ASSUME NEW C, NEW sys, IsSystem(C, sys), NEW Nums, Nums \subseteq Int,
           NEW asg \in DeltaSolutions(sys, Nums), NEW all \in ReachSolutions(sys, asg)
    PROVE  FitsDeltas(C, sys, all) /\ FitsReaches(C, sys, all)
<1> DEFINE U == UsedVars(sys)
           V == DeltaVars(C)
<1>1. PICK r \in [VarsOf(sys, {"reach"}) -> Reaches] : all = With(asg, r)
  BY DEF ReachSolutions
<1>2. /\ FitsDeltas(C, sys, asg)
      /\ DOMAIN asg = {One} \cup VarsOf(sys, {"delta", "anything"})
  BY DeltaSolutionsFit
<1>3. /\ DOMAIN all = DOMAIN asg \cup VarsOf(sys, {"reach"})
      /\ \A v \in DOMAIN asg : all[v] = asg[v]
      /\ \A v \in VarsOf(sys, {"reach"}) : v \notin DOMAIN asg => all[v] \in Int
  <2>1. DOMAIN r = VarsOf(sys, {"reach"}) /\ \A v \in DOMAIN r : r[v] \in Int
    <3>1. Reaches \subseteq Int
      BY SolverAssumption
    <3> QED
      BY <1>1, <3>1
  <2> QED
    BY <1>1, <2>1 DEF With
<1>4. DOMAIN sys = C
  BY DEF IsSystem
<1>5. \A f \in C : ReachOf(f) \in DOMAIN all => all[ReachOf(f)] = MaxValue(FuncReach(sys[f]), all)
  BY <1>4 DEF ReachSolutions
<1>6. \A v \in U \cap V : v \in DOMAIN asg
  BY <1>2, VarKinds, VarsOfUsed
<1>7. \A v \in VarsOf(sys, {"reach"}) : v \notin DOMAIN asg
  <2>1. \A v \in VarsOf(sys, {"reach"}) : v[1] = "reach"
    BY VarsOfUsed
  <2>2. \A v \in DOMAIN asg : v[1] # "reach"
    BY <1>2, VarKinds, VarsOfUsed
  <2> QED
    BY <2>1, <2>2
<1>8. AgreeOn(V, U, asg, all)
  <2>1. One \in DOMAIN asg /\ asg[One] = 1
    BY <1>2 DEF FitsDeltas
  <2>2. \A v \in U \cap V : asg[v] \in Int
    BY <1>2 DEF FitsDeltas
  <2> QED
    BY <1>3, <1>6, <2>1, <2>2 DEF AgreeOn
<1>9. \A t : TermOver(t, V) /\ DOMAIN t \subseteq U \cup {One} => Value(t, all) = Value(t, asg)
  <2> HIDE DEF U, V
  <2> QED
    BY <1>8, ValueKept
<1>10. FitsDeltas(C, sys, all)
  <2>1. all[One] = 1 /\ \A v \in U \cap V : all[v] \in Int /\ all[v] = asg[v]
    BY <1>8 DEF AgreeOn
  <2>2. ASSUME NEW h \in C, DeltaOf(h) \in U PROVE all[DeltaOf(h)] = Value(FuncDelta(sys[h]), all)
    <3>1. asg[DeltaOf(h)] = Value(FuncDelta(sys[h]), asg)
      BY <1>2, <2>2 DEF FitsDeltas
    <3>2. Value(FuncDelta(sys[h]), all) = Value(FuncDelta(sys[h]), asg)
      BY <1>9, FuncTerms
    <3>3. DeltaOf(h) \in U \cap V
      BY <2>2, VarsOfComponent
    <3> QED
      BY <2>1, <3>1, <3>2, <3>3
  <2>3. ASSUME NEW h \in C, NEW s \in ReachableBlocks(graphs[h]), NEW t \in sys[h][s].zero
        PROVE  Value(t, all) = 0
    <3>1. Value(t, asg) = 0
      BY <1>2 DEF FitsDeltas
    <3>2. TermOver(t, V) /\ DOMAIN t \subseteq U
      BY ZeroTerms
    <3> HIDE DEF U, V
    <3> QED
      BY <1>9, <3>1, <3>2
  <2> QED
    BY <2>1, <2>2, <2>3 DEF FitsDeltas
<1>11. FitsReaches(C, sys, all)
  <2>1. ASSUME NEW v \in U \cap AllVars(C) PROVE all[v] \in Int
    <3>1. CASE v \in V
      BY <1>8, <2>1, <3>1 DEF AgreeOn
    <3>2. CASE v \notin V
      <4>1. v \in VarsOf(sys, {"reach"})
        BY <2>1, <3>2, VarKinds, VarsOfUsed
      <4> QED
        BY <1>3, <1>7, <4>1
    <3> QED
      BY <3>1, <3>2
  <2>2. \A h \in C : ReachOf(h) \in U => ReachOf(h) \in DOMAIN all
    BY <1>3, VarKinds, VarsOfUsed
  <2> QED
    BY <1>5, <2>1, <2>2 DEF FitsReaches
<1> QED
  BY <1>10, <1>11

-----------------------------------------------------------------------------
(* 3. What a solution says about depths, in numbers.                       *)

\* The delta of h, when p holds the deltas of the paths from each block.
NumOf(p, h) == IF ReachableBlocks(graphs[h]) = {} THEN 0 ELSE p[h][0]

\* Instruction x may add n to the depth, where p holds for the functions C.
Adds(C, p, x, n) ==
    /\ n \in Int
    /\ x.op = "call" /\ x.f \in C => n = NumOf(p, x.f)
    /\ ~ (x.op = "call" /\ x.f \in C) /\ Delta(x, sigs).tag = "ok" => n = Delta(x, sigs).val

\* d holds the depth in block s of h, relative to its start.
DepthsIn(C, p, d, h, s) ==
    /\ \A j \in s..graphs[h][s].end : d[j] \in Int
    /\ d[s] = 0
    /\ \A j \in s..(graphs[h][s].end - 1) :
          /\ j \in DOMAIN CodeOf(h, s) => Adds(C, p, CodeOf(h, s)[j], d[j + 1] - d[j])
          /\ j \notin DOMAIN CodeOf(h, s) => d[j + 1] = d[j]

\* The delta of the paths from s is the same through every edge.
EdgesAgree(p, d, h, s) ==
    \A x \in Onward(h, s) :
        LET t == graphs[h][s].term.targets[x]
        IN p[h][s] = d[graphs[h][s].end] + (IF t = Len(prog[h]) THEN 0 ELSE p[h][t])

\* p and d are a consistent account of depths in the functions C.
Explains(C, p, d) ==
    \A h \in C : \A s \in ReachableBlocks(graphs[h]) :
        /\ p[h][s] \in Int
        /\ DepthsIn(C, p, d[h][s], h, s)
        /\ EdgesAgree(p, d[h][s], h, s)

-----------------------------------------------------------------------------
\* The account that assignment c gives.
PathsOf(C, sys, c) ==
    [h \in C |-> [s \in ReachableBlocks(graphs[h]) |-> Value(sys[h][s].delta, c)]]

LEMMA NumOfIs ==
    ASSUME NEW C, NEW sys, IsSystem(C, sys), NEW c, NEW h \in C
    PROVE  Value(FuncDelta(sys[h]), c) = IF ReachableBlocks(graphs[h]) = {} THEN Value(Const(0), c)
                                         ELSE PathsOf(C, sys, c)[h][0]
<1>1. h \in DOMAIN prog /\ GraphsInv /\ sys[h] = PathTerms(h)
  BY DEF IsSystem, Solvable
<1>2. DOMAIN sys[h] = ReachableBlocks(graphs[h])
  BY <1>1, PathTermsAre
<1>3. ReachableBlocks(graphs[h]) # {} => 0 \in ReachableBlocks(graphs[h])
  BY <1>1, BlocksOnPaths
<1> QED
  BY <1>2, <1>3 DEF FuncDelta, PathsOf

LEMMA InstrAdds ==
    ASSUME NEW C, NEW sys, IsSystem(C, sys), C \cap DOMAIN sigs = {},
           NEW c, SolvesDeltas(C, sys, c),
           NEW h \in C, NEW s \in ReachableBlocks(graphs[h]), NEW j \in DOMAIN CodeOf(h, s)
    PROVE  Adds(C, PathsOf(C, sys, c), CodeOf(h, s)[j], Value(DeltaTerm(h, j, CodeOf(h, s)[j]), c))
<1> DEFINE x == CodeOf(h, s)[j]
           t == DeltaTerm(h, j, x)
<1>1. Solvable(C)
  BY DEF IsSystem
<1>2. /\ \/ Delta(x, sigs).tag = "ok" /\ Delta(x, sigs).val \in Int
         \/ Delta(x, sigs).tag = "anything"
         \/ Delta(x, sigs).tag = "unresolved" /\ x.op = "call" /\ x.f \in C
      /\ x.op = "call" => x.f \in C \cup DOMAIN sigs
      /\ x.op = "call" /\ x.f \notin DOMAIN sigs => Delta(x, sigs).tag = "unresolved"
      /\ j \in Nat
  BY <1>1, CodeIsDeterminable
<1>3. /\ Delta(x, sigs).tag = "ok" => t = Const(Delta(x, sigs).val)
      /\ Delta(x, sigs).tag = "anything" => t = Var(Anything(h, j))
      /\ Delta(x, sigs).tag = "unresolved" => t = Var(DeltaOf(x.f))
  BY DEF DeltaTerm
<1>4. c[One] = 1 /\ \A v \in DeltaVars(C) : c[v] \in Int
  BY DEF SolvesDeltas
<1>5. /\ Anything(h, j) \in DeltaVars(C) /\ \A f \in C : DeltaOf(f) \in DeltaVars(C)
  BY <1>2, VarsOfComponent
<1> HIDE DEF x, t
<1>6. CASE Delta(x, sigs).tag = "ok"
  <2>1. Value(t, c) = Delta(x, sigs).val
    BY <1>2, <1>3, <1>4, <1>6, ValueOfConst
  <2>2. ~ (x.op = "call" /\ x.f \in C)
    BY <1>2, <1>6
  <2> QED
    BY <1>2, <1>6, <2>1, <2>2 DEF Adds, x, t
<1>7. CASE Delta(x, sigs).tag = "anything"
  <2>1. Value(t, c) = c[Anything(h, j)] /\ c[Anything(h, j)] \in Int
    BY <1>3, <1>4, <1>5, <1>7, ValueOfVar
  <2>2. ~ (x.op = "call" /\ x.f \in C)
    BY <1>2, <1>7
  <2> QED
    BY <1>7, <2>1, <2>2 DEF Adds, x, t
<1>8. CASE Delta(x, sigs).tag = "unresolved"
  <2>1. x.op = "call" /\ x.f \in C
    BY <1>2, <1>8
  <2>2. Value(t, c) = c[DeltaOf(x.f)] /\ c[DeltaOf(x.f)] \in Int
    BY <1>3, <1>4, <1>5, <1>8, <2>1, ValueOfVar
  <2>3. c[DeltaOf(x.f)] = Value(FuncDelta(sys[x.f]), c)
    BY <2>1 DEF SolvesDeltas
  <2>4. Value(Const(0), c) = 0
    BY <1>4, ValueOfConst
  <2>5. c[DeltaOf(x.f)] = NumOf(PathsOf(C, sys, c), x.f)
    BY <2>1, <2>3, <2>4, NumOfIs DEF NumOf
  <2> QED
    BY <2>1, <2>2, <2>5 DEF Adds, x, t
<1> QED
  BY <1>2, <1>6, <1>7, <1>8

\* The depths in a block.
LEMMA DepthsSolved ==
    ASSUME NEW C, NEW sys, IsSystem(C, sys), C \cap DOMAIN sigs = {},
           NEW c, SolvesDeltas(C, sys, c),
           NEW h \in C, NEW s \in ReachableBlocks(graphs[h]),
           NEW depths, AreDepths(h, s, depths),
           NEW d, d = [j \in s..graphs[h][s].end |-> Value(depths[j], c)]
    PROVE  DepthsIn(C, PathsOf(C, sys, c), d, h, s)
<1>1. Solvable(C) /\ h \in DOMAIN prog /\ GraphsInv
  BY DEF IsSystem, Solvable
<1>2. graphs[h][s].end \in Nat /\ s < graphs[h][s].end /\ s \in Nat
  BY <1>1, BlocksOnPaths
<1>3. \A j \in s..graphs[h][s].end : TermOver(depths[j], DeltaVars(C))
  BY <1>1, DepthTerms
<1>4. c[One] = 1 /\ \A v \in DeltaVars(C) : c[v] \in Int
  BY DEF SolvesDeltas
<1>5. \A t : TermOver(t, DeltaVars(C)) => IsTerm(t) /\ Assigns(c, t)
  BY <1>4 DEF TermOver, Assigns
<1>6. \A t : TermOver(t, DeltaVars(C)) => Value(t, c) \in Int
  BY <1>5, ValueOfPlus
<1>7. /\ depths[s] = Const(0)
      /\ \A j \in s..(graphs[h][s].end - 1) :
          depths[j + 1] = IF j \in DOMAIN CodeOf(h, s)
                          THEN Plus(depths[j], DeltaTerm(h, j, CodeOf(h, s)[j]))
                          ELSE depths[j]
  BY DEF AreDepths
<1>8. \A j \in s..graphs[h][s].end : d[j] \in Int /\ d[j] = Value(depths[j], c)
  BY <1>3, <1>6
<1>9. d[s] = 0
  <2>1. Value(Const(0), c) = 0
    BY <1>4, ValueOfConst
  <2> QED
    BY <1>2, <1>7, <1>8, <2>1
<1>10. ASSUME NEW j \in s..(graphs[h][s].end - 1), j \in DOMAIN CodeOf(h, s)
       PROVE  Adds(C, PathsOf(C, sys, c), CodeOf(h, s)[j], d[j + 1] - d[j])
  <2> DEFINE u == DeltaTerm(h, j, CodeOf(h, s)[j])
  <2>1. j \in s..graphs[h][s].end /\ j + 1 \in s..graphs[h][s].end
    BY <1>2
  <2>2. TermOver(u, DeltaVars(C))
    BY <1>1, <1>10, InstrTerms
  <2>3. Adds(C, PathsOf(C, sys, c), CodeOf(h, s)[j], Value(u, c))
    BY <1>10, InstrAdds
  <2>4. depths[j + 1] = Plus(depths[j], u)
    BY <1>7, <1>10
  <2> HIDE DEF u
  <2>5. Value(Plus(depths[j], u), c) = Value(depths[j], c) + Value(u, c)
    BY <1>3, <1>5, <2>1, <2>2, ValueOfPlus
  <2>6. Value(u, c) \in Int
    BY <1>6, <2>2
  <2>7. d[j + 1] - d[j] = Value(u, c)
    <3>1. d[j + 1] = Value(depths[j + 1], c) /\ d[j] = Value(depths[j], c) /\ d[j] \in Int
      BY <1>8, <2>1
    <3>2. d[j + 1] = d[j] + Value(u, c)
      BY <2>4, <2>5, <3>1
    <3> QED
      BY <2>6, <3>1, <3>2
  <2> QED
    BY <2>3, <2>7
<1>11. ASSUME NEW j \in s..(graphs[h][s].end - 1), j \notin DOMAIN CodeOf(h, s)
       PROVE  d[j + 1] = d[j]
  <2>1. j \in s..graphs[h][s].end /\ j + 1 \in s..graphs[h][s].end
    BY <1>2
  <2>2. depths[j + 1] = depths[j]
    BY <1>7, <1>11
  <2> QED
    BY <1>8, <2>1, <2>2
<1> QED
  BY <1>8, <1>9, <1>10, <1>11 DEF DepthsIn

\* The terms for the depths in block s of h, and the numbers they stand for.
BlockDepths(h, s, depths) ==
    /\ AreDepths(h, s, depths)
    /\ BlockTerms(h, s).delta = depths[graphs[h][s].end]
    /\ BlockTerms(h, s).reach =
          {Const(0)} \cup {Minus(ReachTerm(CodeOf(h, s)[j]), depths[j]) : j \in DOMAIN CodeOf(h, s)}

DepthsOf(C, c) ==
    [h \in C |-> [s \in ReachableBlocks(graphs[h]) |->
        [j \in s..graphs[h][s].end |-> Value((CHOOSE depths : BlockDepths(h, s, depths))[j], c)]]]

LEMMA DepthsOfBlock ==
    ASSUME NEW C, Solvable(C), NEW h \in C, NEW s \in ReachableBlocks(graphs[h]), NEW c
    PROVE  \E depths : /\ BlockDepths(h, s, depths)
                       /\ DepthsOf(C, c)[h][s] = [j \in s..graphs[h][s].end |-> Value(depths[j], c)]
<1>1. h \in DOMAIN prog /\ GraphsInv
  BY DEF Solvable
<1>2. graphs[h][s].end \in Nat /\ s < graphs[h][s].end /\ s \in Nat
  BY <1>1, BlocksOnPaths
<1>3. \E depths : BlockDepths(h, s, depths)
  <2>1. s \in Int /\ graphs[h][s].end \in Int /\ s <= graphs[h][s].end
    BY <1>2
  <2> QED
    BY <2>1, BlockTermsAre DEF BlockDepths
<1> DEFINE ds == CHOOSE depths : BlockDepths(h, s, depths)
<1>4. BlockDepths(h, s, ds)
  BY <1>3
<1>5. DepthsOf(C, c)[h][s] = [j \in s..graphs[h][s].end |-> Value(ds[j], c)]
  BY DEF DepthsOf
<1> HIDE DEF ds
<1> QED
  BY <1>4, <1>5

LEMMA EdgesAgreeSolved ==
    ASSUME NEW C, NEW sys, IsSystem(C, sys), NEW c, SolvesDeltas(C, sys, c),
           NEW h \in C, NEW s \in ReachableBlocks(graphs[h]), NEW d,
           d[graphs[h][s].end] = Value(BlockTerms(h, s).delta, c)
    PROVE  EdgesAgree(PathsOf(C, sys, c), d, h, s)
<1> DEFINE p == PathsOf(C, sys, c)
           R == ReachableBlocks(graphs[h])
           own == BlockTerms(h, s).delta
           e(x) == EdgeDelta(h, sys[h], s, x)
           m == Min(Onward(h, s))
           T(x) == graphs[h][s].term.targets[x]
<1>1. h \in DOMAIN prog /\ GraphsInv /\ Solvable(C) /\ sys[h] = PathTerms(h)
  BY DEF IsSystem, Solvable
<1>2. sys[h][s] = PathStep(h, sys[h], s)
  BY <1>1, PathTermsAre
<1>3. \A t \in R : TypedPath(C, sys[h][t])
  BY <1>1, PathsAreTyped
<1>4. c[One] = 1 /\ \A v \in DeltaVars(C) : c[v] \in Int
  BY DEF SolvesDeltas
<1>5. \A t : TermOver(t, DeltaVars(C)) => IsTerm(t) /\ Assigns(c, t)
  BY <1>4 DEF TermOver, Assigns
<1>6. \A t \in R : p[h][t] = Value(sys[h][t].delta, c)
  BY DEF PathsOf
<1>7. TermOver(own, DeltaVars(C))
  BY <1>1, TermsOfBlock
<1>8. \A x \in Onward(h, s) :
        /\ TermOver(e(x), DeltaVars(C))
        /\ T(x) = Len(prog[h]) => e(x) = own
        /\ T(x) # Len(prog[h]) => T(x) \in R /\ e(x) = Plus(own, sys[h][T(x)].delta)
  <2> TAKE x \in Onward(h, s)
  <2>1. AheadTyped(C, C, h, s, sys[h]) /\ DeltaVars(C) = DeltasOf(C, C)
    BY <1>3, ComponentVars DEF AheadTyped
  <2>2. Solvable(C) /\ CallsOnly(C, C)
    BY <1>1, ComponentCalls
  <2>3. EdgeIs(C, C, h, s, sys[h], x)
    BY <2>1, <2>2, EdgeKnown
  <2> QED
    BY <2>1, <2>3 DEF EdgeIs
<1>9. \A x \in Onward(h, s) : Value(Minus(e(x), e(m)), c) = 0
  <2>1. sys[h][s].zero = {Minus(e(x), e(m)) : x \in Onward(h, s)}
    BY ZeroTerms
  <2>2. \A t \in sys[h][s].zero : Value(t, c) = 0
    BY DEF SolvesDeltas
  <2> HIDE DEF e, m
  <2> QED
    BY <2>1, <2>2
<1>10. ASSUME NEW x \in Onward(h, s)
       PROVE  p[h][s] = d[graphs[h][s].end] + (IF T(x) = Len(prog[h]) THEN 0 ELSE p[h][T(x)])
  <2>1. m \in Onward(h, s)
    BY <1>1, <1>10, OnwardIsFinite
  <2>2. sys[h][s].delta = e(m)
    BY <1>2, <1>10 DEF PathStep
  <2>3. p[h][s] = Value(e(m), c)
    BY <1>6, <2>2
  <2> HIDE DEF e, m, own, p, R, T
  <2>4. IsTerm(e(x)) /\ Assigns(c, e(x)) /\ IsTerm(e(m)) /\ Assigns(c, e(m))
    BY <1>5, <1>8, <1>10, <2>1
  <2>5. /\ Value(e(x), c) \in Int /\ Value(e(m), c) \in Int
        /\ Value(Minus(e(x), e(m)), c) = Value(e(x), c) - Value(e(m), c)
    BY <2>4, ValueOfMinus
  <2>6. Value(Minus(e(x), e(m)), c) = 0
    BY <1>9, <1>10
  <2>7. p[h][s] = Value(e(x), c)
    BY <2>3, <2>5, <2>6
  <2>8. CASE T(x) = Len(prog[h])
    <3>1. e(x) = own
      BY <1>8, <1>10, <2>8
    <3>2. d[graphs[h][s].end] = Value(own, c)
      BY DEF own
    <3>3. Value(own, c) \in Int
      BY <2>5, <3>1
    <3> QED
      BY <2>7, <2>8, <3>1, <3>2, <3>3
  <2>9. CASE T(x) # Len(prog[h])
    <3>1. T(x) \in R /\ e(x) = Plus(own, sys[h][T(x)].delta)
      BY <1>8, <1>10, <2>9
    <3>2. IsTerm(own) /\ Assigns(c, own)
      BY <1>5, <1>7
    <3>3. IsTerm(sys[h][T(x)].delta) /\ Assigns(c, sys[h][T(x)].delta)
      BY <1>3, <1>5, <3>1 DEF TypedPath
    <3>4. Value(e(x), c) = Value(own, c) + Value(sys[h][T(x)].delta, c)
      BY <3>1, <3>2, <3>3, ValueOfPlus
    <3>5. p[h][T(x)] = Value(sys[h][T(x)].delta, c)
      BY <1>6, <3>1
    <3>6. d[graphs[h][s].end] = Value(own, c)
      BY DEF own
    <3> QED
      BY <2>7, <2>9, <3>4, <3>5, <3>6
  <2> QED
    BY <2>8, <2>9
<1> QED
  BY <1>10 DEF EdgesAgree

\* A solution is a consistent account of depths.
LEMMA SolutionExplains ==
    ASSUME NEW C, NEW sys, IsSystem(C, sys), C \cap DOMAIN sigs = {},
           NEW c, SolvesDeltas(C, sys, c)
    PROVE  Explains(C, PathsOf(C, sys, c), DepthsOf(C, c))
<1> SUFFICES ASSUME NEW h \in C, NEW s \in ReachableBlocks(graphs[h])
             PROVE  /\ PathsOf(C, sys, c)[h][s] \in Int
                    /\ DepthsIn(C, PathsOf(C, sys, c), DepthsOf(C, c)[h][s], h, s)
                    /\ EdgesAgree(PathsOf(C, sys, c), DepthsOf(C, c)[h][s], h, s)
  BY DEF Explains
<1> DEFINE d == DepthsOf(C, c)[h][s]
           e == graphs[h][s].end
<1>1. h \in DOMAIN prog /\ GraphsInv /\ Solvable(C) /\ sys[h] = PathTerms(h)
  BY DEF IsSystem, Solvable
<1>2. PICK depths : /\ BlockDepths(h, s, depths)
                    /\ d = [j \in s..e |-> Value(depths[j], c)]
  BY <1>1, DepthsOfBlock
<1>3. AreDepths(h, s, depths) /\ BlockTerms(h, s).delta = depths[e]
  BY <1>2 DEF BlockDepths
<1>4. e \in Nat /\ s < e /\ s \in Nat
  BY <1>1, BlocksOnPaths
<1>5. d[e] = Value(BlockTerms(h, s).delta, c)
  <2> HIDE DEF d, e
  <2>1. e \in s..e
    BY <1>4
  <2> QED
    BY <1>2, <1>3, <2>1
<1>6. PathsOf(C, sys, c)[h][s] \in Int
  <2>1. TypedPath(C, sys[h][s])
    BY <1>1, PathsAreTyped
  <2>2. TermOver(sys[h][s].delta, DeltaVars(C))
    BY <2>1 DEF TypedPath
  <2>3. IsTerm(sys[h][s].delta) /\ Assigns(c, sys[h][s].delta)
    BY <2>2 DEF TermOver, Assigns, SolvesDeltas
  <2>4. Value(sys[h][s].delta, c) \in Int
    BY <2>3, ValueOfPlus
  <2> QED
    BY <2>4 DEF PathsOf
<1> HIDE DEF d
<1>7. DepthsIn(C, PathsOf(C, sys, c), d, h, s)
  BY <1>2, <1>3, DepthsSolved
<1>8. EdgesAgree(PathsOf(C, sys, c), d, h, s)
  BY <1>5, EdgesAgreeSolved
<1> QED
  BY <1>6, <1>7, <1>8 DEF d

-----------------------------------------------------------------------------
(* What it says about reaches, in numbers.                                 *)

\* How far instruction x looks, where reach holds for the functions C.
Looks(C, reach, x) == IF x.op = "call" /\ x.f \in C THEN reach[x.f] ELSE Reach(x, sigs).val

\* r is deep enough in block s of h, and in what follows.
BlockFits(C, reach, d, r, h, s) ==
    /\ r[s] \in Int /\ r[s] >= 0
    /\ \A j \in DOMAIN CodeOf(h, s) :
          /\ Looks(C, reach, CodeOf(h, s)[j]) \in Int
          /\ r[s] >= Looks(C, reach, CodeOf(h, s)[j]) - d[j]
    /\ \A x \in Onward(h, s) :
          LET t == graphs[h][s].term.targets[x]
          IN t # Len(prog[h]) => r[s] >= r[t] - d[graphs[h][s].end]

\* reach, with r for each block, is deep enough for the depths d in C.
Fits(C, reach, d, r) ==
    \A h \in C :
        /\ reach[h] \in Int
        /\ reach[h] = IF ReachableBlocks(graphs[h]) = {} THEN 0 ELSE r[h][0]
        /\ \A s \in ReachableBlocks(graphs[h]) : BlockFits(C, reach, d[h][s], r[h], h, s)

-----------------------------------------------------------------------------
\* The reaches that assignment c gives.
ReachesOf(C, sys, c) == [h \in C |-> MaxValue(FuncReach(sys[h]), c)]
PathReaches(C, sys, c) ==
    [h \in C |-> [s \in ReachableBlocks(graphs[h]) |-> MaxValue(sys[h][s].reach, c)]]

LEMMA MaxValueReached ==
    ASSUME NEW C, NEW T, ReachOver(T, C), NEW c, \A t \in T : Value(t, c) \in Int
    PROVE  \E t \in T : MaxValue(T, c) = Value(t, c)
<1> DEFINE S == {Value(t, c) : t \in T}
<1>1. IsFiniteSet(S)
  <2> DEFINE g == [t \in T |-> Value(t, c)]
  <2>1. S = {g[t] : t \in T}
    OBVIOUS
  <2> HIDE DEF g, S
  <2>2. IsFiniteSet(T)
    BY DEF ReachOver
  <2> QED
    BY <2>1, <2>2, ImageIsFinite
<1>2. S # {} /\ S \subseteq Int
  BY DEF ReachOver
<1>3. Max(S) \in S
  <2> HIDE DEF S
  <2> QED
    BY <1>1, <1>2, MaxIsGreatest
<1> QED
  BY <1>3 DEF MaxValue

LEMMA InstrLooks ==
    ASSUME NEW C, NEW sys, IsSystem(C, sys), C \cap DOMAIN sigs = {},
           NEW c, SolvesDeltas(C, sys, c), SolvesReaches(C, sys, c),
           NEW h \in C, NEW s \in ReachableBlocks(graphs[h]), NEW j \in DOMAIN CodeOf(h, s)
    PROVE  Value(ReachTerm(CodeOf(h, s)[j]), c) = Looks(C, ReachesOf(C, sys, c), CodeOf(h, s)[j])
<1> DEFINE x == CodeOf(h, s)[j]
           t == ReachTerm(x)
<1>1. Solvable(C)
  BY DEF IsSystem
<1>2. \/ Reach(x, sigs).tag = "ok" /\ Reach(x, sigs).val \in Nat
      \/ Reach(x, sigs).tag = "unresolved" /\ x.op = "call" /\ x.f \in C
  BY <1>1, CodeIsDeterminable
<1>3. t = IF Reach(x, sigs).tag = "ok" THEN Const(Reach(x, sigs).val) ELSE Var(ReachOf(x.f))
  BY DEF ReachTerm
<1>4. c[One] = 1 /\ \A v \in AllVars(C) : c[v] \in Int
  BY DEF SolvesDeltas, SolvesReaches
<1>5. \A f \in C : ReachOf(f) \in AllVars(C)
  BY VarsOfComponent
<1> HIDE DEF x, t
<1>6. x.op = "call" /\ x.f \in C => Reach(x, sigs).tag = "unresolved"
  <2> SUFFICES ASSUME x.op = "call", x.f \in C PROVE Reach(x, sigs).tag = "unresolved"
    OBVIOUS
  <2>1. Reach(x, sigs) = IF x.f \notin DOMAIN sigs THEN Err("unresolved") ELSE Ok(sigs[x.f].reach)
    BY DEF Reach, FixedOps
  <2> QED
    BY <2>1 DEF Err
<1>7. CASE Reach(x, sigs).tag = "ok"
  <2>1. Value(t, c) = Reach(x, sigs).val
    BY <1>2, <1>3, <1>4, <1>7, ValueOfConst
  <2>2. ~ (x.op = "call" /\ x.f \in C)
    BY <1>6, <1>7
  <2> QED
    BY <2>1, <2>2 DEF Looks, x, t
<1>8. CASE Reach(x, sigs).tag = "unresolved"
  <2>1. x.op = "call" /\ x.f \in C
    BY <1>2, <1>8
  <2>2. Value(t, c) = c[ReachOf(x.f)]
    BY <1>3, <1>4, <1>5, <1>8, <2>1, ValueOfVar
  <2>3. c[ReachOf(x.f)] = ReachesOf(C, sys, c)[x.f]
    BY <2>1 DEF SolvesReaches, ReachesOf
  <2> QED
    BY <2>1, <2>2, <2>3 DEF Looks, x, t
<1> QED
  BY <1>2, <1>7, <1>8

LEMMA BlockFitsSolved ==
    ASSUME NEW C, NEW sys, IsSystem(C, sys), C \cap DOMAIN sigs = {},
           NEW c, SolvesDeltas(C, sys, c), SolvesReaches(C, sys, c),
           NEW h \in C, NEW s \in ReachableBlocks(graphs[h])
    PROVE  BlockFits(C, ReachesOf(C, sys, c), DepthsOf(C, c)[h][s], PathReaches(C, sys, c)[h], h, s)
<1> DEFINE d == DepthsOf(C, c)[h][s]
           e == graphs[h][s].end
           R == ReachableBlocks(graphs[h])
           r == PathReaches(C, sys, c)[h]
           code == CodeOf(h, s)
           own == BlockTerms(h, s)
           T(x) == graphs[h][s].term.targets[x]
<1>1. h \in DOMAIN prog /\ GraphsInv /\ Solvable(C) /\ sys[h] = PathTerms(h)
  BY DEF IsSystem, Solvable
<1>2. PICK depths : /\ BlockDepths(h, s, depths)
                    /\ d = [j \in s..e |-> Value(depths[j], c)]
  BY <1>1, DepthsOfBlock
<1>3. /\ AreDepths(h, s, depths) /\ own.delta = depths[e]
      /\ own.reach = {Const(0)} \cup {Minus(ReachTerm(code[j]), depths[j]) : j \in DOMAIN code}
  BY <1>2 DEF BlockDepths
<1>4. /\ e \in Nat /\ s < e /\ s \in Nat /\ DOMAIN code \subseteq s..(e - 1)
  BY <1>1, BlocksOnPaths, CodeIsTyped
<1>5. sys[h][s] = PathStep(h, sys[h], s)
  BY <1>1, PathTermsAre
<1>6. sys[h][s].reach = own.reach \cup {Minus(t, own.delta) : t \in Beyond(h, sys[h], s)}
  BY <1>5 DEF PathStep
<1>7. \A t \in R : ReachOver(sys[h][t].reach, C)
  BY <1>1, PathsAreTyped DEF TypedPath
<1>8. c[One] = 1 /\ \A v \in AllVars(C) : c[v] \in Int
  BY DEF SolvesDeltas, SolvesReaches
<1>9. \A t : TermOver(t, AllVars(C)) => IsTerm(t) /\ Assigns(c, t)
  BY <1>8 DEF TermOver, Assigns
<1>10. \A t : TermOver(t, AllVars(C)) => Value(t, c) \in Int
  BY <1>9, ValueOfPlus
<1>11. \A t \in R : \A u \in sys[h][t].reach : IsTerm(u) /\ Assigns(c, u) /\ Value(u, c) \in Int
  BY <1>7, <1>9, <1>10 DEF ReachOver
<1>12. \A t \in R : /\ r[t] = MaxValue(sys[h][t].reach, c) /\ r[t] \in Int
                    /\ \A u \in sys[h][t].reach : r[t] >= Value(u, c)
                    /\ \E u \in sys[h][t].reach : r[t] = Value(u, c)
  <2> TAKE t \in R
  <2>1. r[t] = MaxValue(sys[h][t].reach, c)
    BY DEF PathReaches
  <2> HIDE DEF r, R
  <2>2. ReachOver(sys[h][t].reach, C) /\ \A u \in sys[h][t].reach : Value(u, c) \in Int
    BY <1>7, <1>11
  <2> QED
    BY <2>1, <2>2, MaxValueIs, MaxValueReached
<1>13. TermOver(own.delta, AllVars(C))
  BY <1>1, TermsOfBlock, OverAll
<1>14. IsTerm(own.delta) /\ Assigns(c, own.delta) /\ Value(own.delta, c) \in Int
  BY <1>9, <1>10, <1>13
<1>15. d[e] = Value(own.delta, c)
  <2> HIDE DEF d, e
  <2>1. e \in s..e
    BY <1>4
  <2> QED
    BY <1>2, <1>3, <2>1
<1>16. r[s] >= 0
  <2>1. Const(0) \in sys[h][s].reach
    BY <1>7 DEF ReachOver
  <2>2. Value(Const(0), c) = 0
    BY <1>8, ValueOfConst
  <2> HIDE DEF r
  <2> QED
    BY <1>12, <2>1, <2>2
<1>17. ASSUME NEW j \in DOMAIN code
       PROVE  /\ Looks(C, ReachesOf(C, sys, c), code[j]) \in Int
              /\ r[s] >= Looks(C, ReachesOf(C, sys, c), code[j]) - d[j]
  <2> DEFINE u == ReachTerm(code[j])
  <2>1. j \in s..e
    BY <1>4, <1>17
  <2>2. TermOver(u, AllVars(C))
    BY <1>1, <1>17, InstrTerms
  <2>3. TermOver(depths[j], AllVars(C))
    BY <1>1, <1>3, <2>1, DepthTerms, OverAll
  <2>4. Value(u, c) = Looks(C, ReachesOf(C, sys, c), code[j])
    BY <1>17, InstrLooks
  <2>5. Minus(u, depths[j]) \in sys[h][s].reach
    BY <1>3, <1>6
  <2>6. d[j] = Value(depths[j], c)
    BY <1>2, <2>1
  <2> HIDE DEF u, r, d
  <2>7. IsTerm(u) /\ Assigns(c, u) /\ IsTerm(depths[j]) /\ Assigns(c, depths[j])
    BY <1>9, <2>2, <2>3
  <2>8. /\ Value(u, c) \in Int /\ Value(depths[j], c) \in Int
        /\ Value(Minus(u, depths[j]), c) = Value(u, c) - Value(depths[j], c)
    BY <2>7, ValueOfMinus
  <2>9. r[s] >= Value(Minus(u, depths[j]), c)
    BY <1>12, <2>5
  <2> QED
    BY <2>4, <2>6, <2>8, <2>9
<1>18. ASSUME NEW x \in Onward(h, s), T(x) # Len(prog[h])
       PROVE  r[s] >= r[T(x)] - d[e]
  <2>1. T(x) \in R /\ T(x) < Len(prog[h])
    <3>1. T(x) \in e..Len(prog[h]) /\ T(x) \in R
      BY <1>1, <1>18, EdgesOnward
    <3>2. Len(prog[h]) \in Nat
      BY <1>1, BlocksOnPaths
    <3> QED
      BY <1>4, <1>18, <3>1, <3>2
  <2>2. sys[h][T(x)].reach \subseteq Beyond(h, sys[h], s)
    BY <1>18, <2>1 DEF Beyond
  <2>3. PICK u \in sys[h][T(x)].reach : r[T(x)] = Value(u, c)
    BY <1>12, <2>1
  <2>4. Minus(u, own.delta) \in sys[h][s].reach
    BY <1>6, <2>2
  <2> HIDE DEF own, r, d, R, T, e
  <2>5. IsTerm(u) /\ Assigns(c, u)
    BY <1>11, <2>1
  <2>6. Value(u, c) \in Int /\ Value(Minus(u, own.delta), c) = Value(u, c) - Value(own.delta, c)
    BY <1>14, <2>5, ValueOfMinus
  <2>7. r[s] >= Value(Minus(u, own.delta), c)
    BY <1>12, <2>4 DEF R
  <2> QED
    BY <1>15, <2>3, <2>6, <2>7
<1>19. r[s] \in Int
  BY <1>12
<1>20. BlockFits(C, ReachesOf(C, sys, c), d, r, h, s)
  <2> HIDE DEF r, d
  <2> QED
    BY <1>16, <1>17, <1>18, <1>19 DEF BlockFits
<1> QED
  BY <1>20

\* The reaches of a solution are deep enough for its depths.
LEMMA SolutionFits ==
    ASSUME NEW C, NEW sys, IsSystem(C, sys), C \cap DOMAIN sigs = {},
           NEW c, SolvesDeltas(C, sys, c), SolvesReaches(C, sys, c)
    PROVE  Fits(C, ReachesOf(C, sys, c), DepthsOf(C, c), PathReaches(C, sys, c))
<1> SUFFICES ASSUME NEW h \in C
             PROVE  /\ ReachesOf(C, sys, c)[h] \in Int
                    /\ ReachesOf(C, sys, c)[h] = IF ReachableBlocks(graphs[h]) = {} THEN 0
                                                 ELSE PathReaches(C, sys, c)[h][0]
  BY BlockFitsSolved DEF Fits
<1>1. h \in DOMAIN prog /\ GraphsInv /\ Solvable(C) /\ sys[h] = PathTerms(h)
  BY DEF IsSystem, Solvable
<1>2. DOMAIN sys[h] = ReachableBlocks(graphs[h])
  BY <1>1, PathTermsAre
<1>3. ReachableBlocks(graphs[h]) # {} => 0 \in ReachableBlocks(graphs[h])
  BY <1>1, BlocksOnPaths
<1>4. c[One] = 1 /\ \A v \in AllVars(C) : c[v] \in Int
  BY DEF SolvesDeltas, SolvesReaches
<1>5. \A t \in FuncReach(sys[h]) : Value(t, c) \in Int
  <2>1. \A t : TermOver(t, AllVars(C)) => IsTerm(t) /\ Assigns(c, t)
    BY <1>4 DEF TermOver, Assigns
  <2>2. \A t : TermOver(t, AllVars(C)) => Value(t, c) \in Int
    BY <2>1, ValueOfPlus
  <2> QED
    BY <2>2, FuncTerms DEF ReachOver
<1>6. ReachesOf(C, sys, c)[h] \in Int
  <2>1. MaxValue(FuncReach(sys[h]), c) \in Int
    BY <1>5, FuncTerms, MaxValueIs
  <2> QED
    BY <2>1 DEF ReachesOf
<1>7. CASE ReachableBlocks(graphs[h]) = {}
  <2>1. FuncReach(sys[h]) = {Const(0)}
    BY <1>2, <1>7 DEF FuncReach
  <2>2. PICK t \in FuncReach(sys[h]) : MaxValue(FuncReach(sys[h]), c) = Value(t, c)
    BY <1>5, FuncTerms, MaxValueReached
  <2>3. Value(Const(0), c) = 0
    BY <1>4, ValueOfConst
  <2>4. ReachesOf(C, sys, c)[h] = 0
    <3> HIDE DEF Const
    <3> QED
      BY <2>1, <2>2, <2>3 DEF ReachesOf
  <2> QED
    BY <1>6, <1>7, <2>4
<1>8. CASE ReachableBlocks(graphs[h]) # {}
  <2>1. FuncReach(sys[h]) = sys[h][0].reach
    BY <1>2, <1>8 DEF FuncReach
  <2>2. ReachesOf(C, sys, c)[h] = PathReaches(C, sys, c)[h][0]
    BY <1>3, <1>8, <2>1 DEF ReachesOf, PathReaches
  <2> QED
    BY <1>6, <1>8, <2>2
<1> QED
  BY <1>7, <1>8

-----------------------------------------------------------------------------
(* The analysis: a component that is being solved was found determinable,  *)
(* and nothing is solved in between.                                       *)

\* What Determinable says of the callees of component C.
CalleesKnown(C) ==
    \A name \in C : \A s \in ReachableBlocks(graphs[name]) :
        \A j \in DOMAIN CodeOf(name, s) :
            LET x == CodeOf(name, s)[j]
            IN x.op = "call" => x.f \in C \cup DOMAIN sigs

SolvingInv ==
    /\ phase = "solve" => CalleesKnown(DOMAIN system)
    /\ SolvedCallsSolved

LEMMA DeterminableKnows ==
    ASSUME NEW C, Determinable(C)
    PROVE  CalleesKnown(C)
<1> SUFFICES ASSUME NEW name \in C, NEW s \in ReachableBlocks(graphs[name]),
                    NEW j \in DOMAIN CodeOf(name, s), CodeOf(name, s)[j].op = "call"
             PROVE  CodeOf(name, s)[j].f \in C \cup DOMAIN sigs
  BY DEF CalleesKnown
<1> DEFINE x == CodeOf(name, s)[j]
<1>1. Reach(x, sigs).tag = "unresolved" => x.f \in C
  BY DEF Determinable
<1> HIDE DEF x
<1>2. x.op = "call"
  BY DEF x
<1>3. Reach(x, sigs) = IF x.f \notin DOMAIN sigs THEN Err("unresolved") ELSE Ok(sigs[x.f].reach)
  BY <1>2 DEF Reach, FixedOps
<1>4. x.f \notin DOMAIN sigs => Reach(x, sigs).tag = "unresolved"
  BY <1>3 DEF Err
<1> QED
  BY <1>1, <1>4 DEF x

\* The code of a block depends on the program only.
LEMMA SameCode ==
    ASSUME UNCHANGED <<prog, graphs>>, NEW name, NEW s
    PROVE  CodeOf(name, s)' = CodeOf(name, s)
BY DEF CodeOf

LEMMA SolvingKept ==
    ASSUME SolvingInv, UNCHANGED <<prog, graphs, sigs>>,
           phase' = "solve" => phase = "solve" /\ system' = system
    PROVE  SolvingInv'
BY SameCode DEF SolvingInv, CalleesKnown, SolvedCallsSolved

LEMMA BuildKnows ==
    ASSUME SolvingInv, NEW C, Build(C)
    PROVE  SolvingInv'
<1>1. /\ UNCHANGED <<prog, graphs, sigs>> /\ DOMAIN system' = C /\ CalleesKnown(C)
  BY DeterminableKnows DEF Build
<1> QED
  BY <1>1, SameCode DEF SolvingInv, CalleesKnown, SolvedCallsSolved

LEMMA SolveKnows ==
    ASSUME SolvingInv, Solve
    PROVE  SolvingInv'
<1>1. /\ UNCHANGED <<prog, graphs>> /\ phase = "solve" /\ phase' = "sort"
      /\ DOMAIN sigs' = DOMAIN sigs \cup DOMAIN system
  BY DEF Solve, With
<1>2. CalleesKnown(DOMAIN system) /\ SolvedCallsSolved
  BY <1>1 DEF SolvingInv
<1>3. SolvedCallsSolved'
  <2> SUFFICES ASSUME NEW name \in DOMAIN sigs', NEW s \in ReachableBlocks(graphs[name]),
                      NEW j \in DOMAIN CodeOf(name, s), CodeOf(name, s)[j].op = "call"
               PROVE  CodeOf(name, s)[j].f \in DOMAIN sigs'
    BY <1>1, SameCode DEF SolvedCallsSolved
  <2>1. CASE name \in DOMAIN sigs
    BY <1>1, <1>2, <2>1 DEF SolvedCallsSolved
  <2>2. CASE name \in DOMAIN system
    BY <1>1, <1>2, <2>2 DEF CalleesKnown
  <2> QED
    BY <1>1, <2>1, <2>2
<1> QED
  BY <1>1, <1>3 DEF SolvingInv

\* Abandoning a function abandons its callers, for every program and whatever
\* the solver answers: nothing is solved on top of a function without a
\* signature.
THEOREM AbandonedReachCallers == Spec => []SolvedCallsSolved
<1>1. Init => SolvingInv
  BY DEF Init, SolvingInv, SolvedCallsSolved
<1>2. SolvingInv /\ [Next]_vars => SolvingInv'
  <2> SUFFICES ASSUME SolvingInv, [Next]_vars PROVE SolvingInv'
    OBVIOUS
  <2>1. ASSUME NEW C, PanicOn(C) \/ Abandon(C) PROVE SolvingInv'
    BY <2>1, SolvingKept DEF PanicOn, Abandon, Ready
  <2>2. CASE Unsat \/ Finish \/ UNCHANGED vars
    BY <2>2, SolvingKept DEF Unsat, Finish, vars
  <2> QED
    BY <2>1, <2>2, BuildKnows, SolveKnows DEF Next
<1>3. SolvingInv => SolvedCallsSolved
  BY DEF SolvingInv
<1> QED
  BY <1>1, <1>2, <1>3, PTL DEF Spec

-----------------------------------------------------------------------------
(* What was found out about a component stays true as others are solved.   *)

LEMMA SameBlocks ==
    ASSUME UNCHANGED <<prog, graphs>>, NEW name, NEW s
    PROVE  CodeOf(name, s)' = CodeOf(name, s) /\ Onward(name, s)' = Onward(name, s)
BY DEF CodeOf, Onward

\* A step that leaves functions alone and forgets no signature.
Grows == UNCHANGED <<prog, graphs>> /\ \A g \in DOMAIN sigs : g \in DOMAIN sigs' /\ sigs'[g] = sigs[g]

LEMMA EffectStays ==
    ASSUME Grows, NEW C, NEW x, x.op = "call" => x.f \in C \cup DOMAIN sigs,
           ~ (x.op = "call" /\ x.f \in C)
    PROVE  Delta(x, sigs') = Delta(x, sigs) /\ Reach(x, sigs') = Reach(x, sigs)
<1>1. CASE x.op = "call"
  <2>1. x.f \in DOMAIN sigs /\ x.f \in DOMAIN sigs' /\ sigs'[x.f] = sigs[x.f]
    BY <1>1 DEF Grows
  <2> QED
    BY <1>1, <2>1 DEF Delta, Reach, FixedOps
<1>2. CASE x.op # "call"
  BY <1>2 DEF Delta, Reach
<1> QED
  BY <1>1, <1>2

LEMMA ExplainsStays ==
    ASSUME Grows, NEW C, CalleesKnown(C), NEW p, NEW d, Explains(C, p, d)
    PROVE  Explains(C, p, d)'
<1>1. prog' = prog /\ graphs' = graphs /\ \A h, s : CodeOf(h, s)' = CodeOf(h, s) /\ Onward(h, s)' = Onward(h, s)
  BY SameBlocks DEF Grows
<1> SUFFICES ASSUME NEW h \in C, NEW s \in ReachableBlocks(graphs[h])
             PROVE  /\ p[h][s] \in Int
                    /\ DepthsIn(C, p, d[h][s], h, s)'
                    /\ EdgesAgree(p, d[h][s], h, s)'
  BY <1>1 DEF Explains
<1>2. p[h][s] \in Int /\ DepthsIn(C, p, d[h][s], h, s) /\ EdgesAgree(p, d[h][s], h, s)
  BY DEF Explains
<1>3. EdgesAgree(p, d[h][s], h, s)'
  BY <1>1, <1>2 DEF EdgesAgree
<1>4. \A j \in DOMAIN CodeOf(h, s) : CodeOf(h, s)[j].op = "call" => CodeOf(h, s)[j].f \in C \cup DOMAIN sigs
  BY DEF CalleesKnown
<1>5. \A j \in DOMAIN CodeOf(h, s) :
        ~ (CodeOf(h, s)[j].op = "call" /\ CodeOf(h, s)[j].f \in C)
            => Delta(CodeOf(h, s)[j], sigs') = Delta(CodeOf(h, s)[j], sigs)
  BY <1>4, EffectStays
<1>7. \A f : NumOf(p, f)' = NumOf(p, f)
  BY <1>1 DEF NumOf
<1>6. DepthsIn(C, p, d[h][s], h, s)'
  BY <1>1, <1>2, <1>5, <1>7 DEF DepthsIn, Adds
<1> QED
  BY <1>2, <1>3, <1>6

LEMMA FitsStays ==
    ASSUME Grows, NEW C, CalleesKnown(C), NEW reach, NEW d, NEW r, Fits(C, reach, d, r)
    PROVE  Fits(C, reach, d, r)'
<1>1. prog' = prog /\ graphs' = graphs /\ \A h, s : CodeOf(h, s)' = CodeOf(h, s) /\ Onward(h, s)' = Onward(h, s)
  BY SameBlocks DEF Grows
<1>2. ASSUME NEW h \in C, NEW s \in ReachableBlocks(graphs[h])
      PROVE  BlockFits(C, reach, d[h][s], r[h], h, s)'
  <2>1. BlockFits(C, reach, d[h][s], r[h], h, s)
    BY DEF Fits
  <2>2. \A j \in DOMAIN CodeOf(h, s) : Looks(C, reach, CodeOf(h, s)[j])' = Looks(C, reach, CodeOf(h, s)[j])
    <3> TAKE j \in DOMAIN CodeOf(h, s)
    <3>1. CodeOf(h, s)[j].op = "call" => CodeOf(h, s)[j].f \in C \cup DOMAIN sigs
      BY DEF CalleesKnown
    <3>2. ~ (CodeOf(h, s)[j].op = "call" /\ CodeOf(h, s)[j].f \in C)
            => Reach(CodeOf(h, s)[j], sigs') = Reach(CodeOf(h, s)[j], sigs)
      BY <3>1, EffectStays
    <3> QED
      BY <1>1, <3>2 DEF Looks
  <2> QED
    BY <1>1, <2>1, <2>2 DEF BlockFits
<1> QED
  BY <1>1, <1>2 DEF Fits

-----------------------------------------------------------------------------
(* The analysis keeps an account of each function it has solved.           *)

\* CalledFrom is the least set with name that is closed under calls.
LEMMA CalledFromIs ==
    ASSUME NEW p, IsFiniteSet(DOMAIN p), NEW name \in DOMAIN p
    PROVE  /\ CalledFrom(p, name) \subseteq DOMAIN p
           /\ name \in CalledFrom(p, name)
           /\ \A g \in CalledFrom(p, name) : Callees(p, g) \subseteq CalledFrom(p, name)
           /\ \A X : name \in X /\ (\A g \in X : Callees(p, g) \subseteq X) =>
                        CalledFrom(p, name) \subseteq X
<1> DEFINE S == DOMAIN p
           m == Cardinality(S)
           step == [X \in SUBSET S |-> X \cup UNION {Callees(p, g) : g \in X}]
           steps == [n \in Nat |-> step]
           body(r) == [n \in 0..m |-> IF n = 0 THEN {name}
                         ELSE r[n - 1] \cup UNION {Callees(p, g) : g \in r[n - 1]}]
           called == CHOOSE r : r = body(r)
<1>1. m \in Nat
  BY FS_CardinalityType
<1>2. {name} \in SUBSET S /\ step \in [SUBSET S -> SUBSET S] /\ steps \in [Nat -> [SUBSET S -> SUBSET S]]
  BY DEF Callees
<1>3. PICK f \in [0..m -> SUBSET S] : Obeys(f, {name}, steps, m)
  <2> HIDE DEF S, m, steps
  <2> QED
    BY <1>1, <1>2, RecursionHasSolution
<1>4. f[0] = {name} /\ \A i \in 1..m : f[i] = f[i - 1] \cup UNION {Callees(p, g) : g \in f[i - 1]}
  <2>1. ASSUME NEW i \in 1..m PROVE i \in Nat /\ f[i - 1] \in SUBSET S
    BY <1>1, <1>3
  <2> QED
    BY <1>3, <2>1 DEF Obeys
<1>5. f = body(f)
  <2> HIDE DEF S, m
  <2>1. ASSUME NEW n \in 0..m PROVE f[n] = body(f)[n]
    <3>1. CASE n = 0
      BY <1>4, <3>1
    <3>2. CASE n # 0
      <4>1. n \in 1..m
        BY <1>1, <3>2
      <4> QED
        BY <1>4, <3>2, <4>1
    <3> QED
      BY <3>1, <3>2
  <2> QED
    BY <1>3, <2>1
<1>6. called = body(called)
  <2> HIDE DEF body
  <2> QED
    BY <1>5
<1> HIDE DEF called
<1>7. /\ called[0] = {name}
      /\ \A i \in 1..m : called[i] = called[i - 1] \cup UNION {Callees(p, g) : g \in called[i - 1]}
  <2> HIDE DEF S, m
  <2>1. \A n \in 0..m : called[n] = body(called)[n]
    BY <1>6
  <2>2. ASSUME NEW i \in 1..m PROVE i \in 0..m /\ i # 0
    BY <1>1
  <2>3. 0 \in 0..m
    BY <1>1
  <2> QED
    BY <2>1, <2>2, <2>3
<1>8. Agree(called, f, m)
  <2> HIDE DEF S, m
  <2> QED
    BY <1>1, <1>4, <1>7, RecursionIsUnique DEF SameRecursion
<1>9. CalledFrom(p, name) = called[m]
  BY DEF CalledFrom, called
<1>10. CalledFrom(p, name) = f[m] /\ m \in 0..m
  BY <1>1, <1>8, <1>9 DEF Agree
<1>11. step[f[m]] = f[m]
  <2>1. ASSUME NEW i \in 1..m PROVE f[i] = step[f[i - 1]]
    <3> HIDE DEF m, S
    <3>1. i - 1 \in 0..m
      BY <1>1
    <3>2. f[i - 1] \in SUBSET S
      BY <1>3, <3>1
    <3> QED
      BY <1>4, <3>2 DEF S
  <2>2. \A X \in SUBSET S : X \subseteq step[X]
    OBVIOUS
  <2> HIDE DEF step
  <2> QED
    BY <1>2, <1>3, <2>1, <2>2, GrowthStops
<1>12. f[m] \in SUBSET S
  BY <1>3, <1>10
<1>13. \A g \in f[m] : Callees(p, g) \subseteq f[m]
  BY <1>11, <1>12
<1>14. ASSUME NEW X, name \in X, \A g \in X : Callees(p, g) \subseteq X
       PROVE  \A i \in 0..m : f[i] \subseteq X
  <2> DEFINE Q == {i \in 0..m : f[i] \subseteq X}
  <2>1. 0 \in Q
    BY <1>1, <1>4, <1>14
  <2>2. ASSUME NEW i \in 0..(m - 1), i \in Q PROVE i + 1 \in Q
    <3> HIDE DEF m
    <3>1. i + 1 \in 1..m /\ i + 1 \in 0..m /\ (i + 1) - 1 = i
      BY <1>1
    <3>2. f[i + 1] = f[i] \cup UNION {Callees(p, g) : g \in f[i]}
      BY <1>4, <3>1
    <3>3. f[i] \subseteq X
      BY <2>2
    <3>4. f[i + 1] \subseteq X
      BY <1>14, <3>2, <3>3
    <3> QED
      BY <3>1, <3>4
  <2> HIDE DEF Q, m
  <2>3. \A i \in 0..m : i \in Q
    BY <1>1, <2>1, <2>2, InductionUpTo
  <2> QED
    BY <2>3 DEF Q
<1>15. \A i \in 0..m : name \in f[i]
  <2> DEFINE Q == {i \in 0..m : name \in f[i]}
  <2>1. 0 \in Q
    BY <1>1, <1>4
  <2>2. ASSUME NEW i \in 0..(m - 1), i \in Q PROVE i + 1 \in Q
    <3> HIDE DEF m
    <3>1. i + 1 \in 1..m /\ i + 1 \in 0..m /\ (i + 1) - 1 = i
      BY <1>1
    <3> QED
      BY <1>4, <2>2, <3>1
  <2> HIDE DEF Q, m
  <2>3. \A i \in 0..m : i \in Q
    BY <1>1, <2>1, <2>2, InductionUpTo
  <2> QED
    BY <2>3 DEF Q
<1> HIDE DEF m
<1> QED
  BY <1>10, <1>12, <1>13, <1>14, <1>15

LEMMA ComponentsAreFunctions ==
    ASSUME prog \in Programs, NEW name \in DOMAIN prog
    PROVE  Component(prog, name) \subseteq DOMAIN prog
<1>1. IsFiniteSet(DOMAIN prog)
  BY ProgramsAssumption
<1> QED
  BY <1>1, CalledFromIs DEF Component

-----------------------------------------------------------------------------
\* The account of the solved function h in component C: depths d and the deltas
\* p of the paths, which paths holds; a second account shows that a function
\* has no delta; reaches r and reach.
AccountOf(h, C, p, d, r, reach) ==
    /\ h \in C /\ C \subseteq DOMAIN sigs
    /\ \A g \in C : \A s \in ReachableBlocks(graphs[g]) : p[g][s] = paths[g][s]
    /\ Explains(C, p, d)
    /\ Fits(C, reach, d, r)
    /\ \A g \in C : reach[g] = sigs[g].reach
    /\ ~ sigs[h].never => sigs[h].delta = NumOf(p, h)
    /\ sigs[h].never => \E q, e : Explains(C, q, e) /\ NumOf(q, h) # NumOf(p, h)

Accounted(h) == \E C, p, d, r, reach : AccountOf(h, C, p, d, r, reach)

\* A component being solved has the equations it was built with.
BuiltInv ==
    phase = "solve" =>
        /\ IsSystem(DOMAIN system, system)
        /\ DOMAIN system \subseteq analyzed /\ DOMAIN system \cap DOMAIN sigs = {}

\* The invariant of the analysis.
AnalysisInv ==
    /\ TypeOK /\ GraphsInv /\ SolvingInv /\ BuiltInv
    /\ \A h \in DOMAIN sigs : Accounted(h)

\* The numbers of a solution.
LEMMA SolutionNumbers ==
    ASSUME NEW C, NEW sys, IsSystem(C, sys), C \cap DOMAIN sigs = {},
           NEW c, SolvesDeltas(C, sys, c), NEW h \in C
    PROVE  NumOf(PathsOf(C, sys, c), h) = Value(FuncDelta(sys[h]), c)
<1>1. Value(Const(0), c) = 0
  BY ValueOfConst DEF SolvesDeltas
<1> QED
  BY <1>1, NumOfIs DEF NumOf

LEMMA AnswerAccounts ==
    ASSUME NEW C, NEW sys, IsSystem(C, sys), C \cap DOMAIN sigs = {}, NEW Nums \in SUBSET Int
    PROVE  \A asg \in DeltaSolutions(sys, Nums) : \A h \in C :
              \E q, e : Explains(C, q, e) /\ NumOf(q, h) = Value(FuncDelta(sys[h]), asg)
<1> SUFFICES ASSUME NEW asg \in DeltaSolutions(sys, Nums), NEW h \in C
             PROVE  \E q, e : Explains(C, q, e) /\ NumOf(q, h) = Value(FuncDelta(sys[h]), asg)
  OBVIOUS
<1>1. FitsDeltas(C, sys, asg)
  BY DeltaSolutionsFit
<1>2. PICK c : Completes(C, sys, asg, c)
  BY Completion
<1>3. SolvesDeltas(C, sys, c) /\ Value(FuncDelta(sys[h]), c) = Value(FuncDelta(sys[h]), asg)
  BY <1>1, <1>2, DeltasCompleted
<1>4. Explains(C, PathsOf(C, sys, c), DepthsOf(C, c))
  BY <1>3, SolutionExplains
<1>5. NumOf(PathsOf(C, sys, c), h) = Value(FuncDelta(sys[h]), asg)
  BY <1>3, SolutionNumbers
<1> QED
  BY <1>4, <1>5

LEMMA SolutionAccounts ==
    ASSUME NEW C, NEW sys, IsSystem(C, sys), C \cap DOMAIN sigs = {},
           NEW Nums, Nums \subseteq Int, NEW asg \in Solutions(sys, Nums)
    PROVE  \E p, d, r, reach :
              /\ \A h \in C : \A s \in ReachableBlocks(graphs[h]) : p[h][s] = Value(sys[h][s].delta, asg)
              /\ \A h \in C : /\ NumOf(p, h) = Value(FuncDelta(sys[h]), asg)
                              /\ Value(FuncDelta(sys[h]), asg) \in Int
              /\ \A h \in C : reach[h] = MaxValue(FuncReach(sys[h]), asg)
              /\ Explains(C, p, d) /\ Fits(C, reach, d, r)
<1>1. PICK a \in DeltaSolutions(sys, Nums) : asg \in ReachSolutions(sys, a)
  BY DEF Solutions
<1>2. FitsDeltas(C, sys, asg) /\ FitsReaches(C, sys, asg)
  BY <1>1, ReachSolutionsFit
<1>3. PICK c : Completes(C, sys, asg, c)
  BY Completion
<1>4. /\ SolvesDeltas(C, sys, c)
      /\ \A h \in C : /\ Value(FuncDelta(sys[h]), c) = Value(FuncDelta(sys[h]), asg)
                      /\ Value(FuncDelta(sys[h]), asg) \in Int
                      /\ \A s \in ReachableBlocks(graphs[h]) :
                            Value(sys[h][s].delta, c) = Value(sys[h][s].delta, asg)
  BY <1>2, <1>3, DeltasCompleted
<1>5. /\ SolvesReaches(C, sys, c)
      /\ \A h \in C : MaxValue(FuncReach(sys[h]), c) = MaxValue(FuncReach(sys[h]), asg)
  BY <1>2, <1>3, ReachesCompleted
<1> DEFINE p == PathsOf(C, sys, c)
           d == DepthsOf(C, c)
           r == PathReaches(C, sys, c)
           reach == ReachesOf(C, sys, c)
<1>6. \A h \in C : \A s \in ReachableBlocks(graphs[h]) : p[h][s] = Value(sys[h][s].delta, asg)
  BY <1>4 DEF PathsOf
<1>7. \A h \in C : NumOf(p, h) = Value(FuncDelta(sys[h]), asg)
  BY <1>4, SolutionNumbers
<1>8. \A h \in C : reach[h] = MaxValue(FuncReach(sys[h]), asg)
  BY <1>5 DEF ReachesOf
<1>9. Explains(C, p, d)
  BY <1>4, SolutionExplains
<1>10. Fits(C, reach, d, r)
  BY <1>4, <1>5, SolutionFits
<1> HIDE DEF p, d, r, reach
<1> QED
  BY <1>4, <1>6, <1>7, <1>8, <1>9, <1>10

LEMMA ReachIsNat ==
    ASSUME GraphsInv, NEW C, C \subseteq DOMAIN prog, NEW reach, NEW d, NEW r, Fits(C, reach, d, r),
           NEW h \in C
    PROVE  reach[h] \in Nat
<1>1. ReachableBlocks(graphs[h]) # {} => 0 \in ReachableBlocks(graphs[h])
  BY BlocksOnPaths
<1>2. reach[h] \in Int /\ reach[h] = IF ReachableBlocks(graphs[h]) = {} THEN 0 ELSE r[h][0]
  BY DEF Fits
<1>3. 0 \in ReachableBlocks(graphs[h]) => r[h][0] >= 0
  BY DEF Fits, BlockFits
<1> QED
  BY <1>1, <1>2, <1>3

\* An account stays one as others are solved.
LEMMA AccountStays ==
    ASSUME Grows, NEW C, CalleesKnown(C), C \subseteq DOMAIN sigs,
           \A g \in C : paths'[g] = paths[g],
           NEW h, NEW p, NEW d, NEW r, NEW reach, AccountOf(h, C, p, d, r, reach)
    PROVE  AccountOf(h, C, p, d, r, reach)'
<1>1. prog' = prog /\ graphs' = graphs /\ \A g \in C : g \in DOMAIN sigs' /\ sigs'[g] = sigs[g]
  BY DEF Grows
<1>2. \A q : NumOf(q, h)' = NumOf(q, h)
  BY <1>1 DEF NumOf
<1>3. Explains(C, p, d)' /\ Fits(C, reach, d, r)'
  BY ExplainsStays, FitsStays DEF AccountOf
<1>4. \A q, e : Explains(C, q, e) => Explains(C, q, e)'
  BY ExplainsStays
<1>5. h \in C /\ \A g \in C : \A s \in ReachableBlocks(graphs[g]) : p[g][s] = paths[g][s]
  BY DEF AccountOf
<1>6. \A g \in C : reach[g] = sigs[g].reach
  BY DEF AccountOf
<1>7. ~ sigs[h].never => sigs[h].delta = NumOf(p, h)
  BY DEF AccountOf
<1>8. sigs[h].never => \E q, e : Explains(C, q, e) /\ NumOf(q, h) # NumOf(p, h)
  BY DEF AccountOf
<1>9. sigs'[h].never => \E q, e : Explains(C, q, e)' /\ NumOf(q, h)' # NumOf(p, h)'
  <2> SUFFICES ASSUME sigs'[h].never PROVE \E q, e : Explains(C, q, e)' /\ NumOf(q, h)' # NumOf(p, h)'
    OBVIOUS
  <2>1. PICK q, e : Explains(C, q, e) /\ NumOf(q, h) # NumOf(p, h)
    BY <1>1, <1>5, <1>8
  <2>2. Explains(C, q, e)'
    BY <1>4, <2>1
  <2>3. NumOf(q, h)' # NumOf(p, h)'
    BY <1>2, <2>1
  <2> QED
    BY <2>2, <2>3
<1> QED
  BY <1>1, <1>2, <1>3, <1>5, <1>6, <1>7, <1>9 DEF AccountOf

LEMMA SolvedAreKnown ==
    ASSUME SolvedCallsSolved, NEW C, C \subseteq DOMAIN sigs
    PROVE  CalleesKnown(C)
BY DEF SolvedCallsSolved, CalleesKnown

LEMMA AccountsStay ==
    ASSUME AnalysisInv, Grows, \A g \in DOMAIN sigs : paths'[g] = paths[g],
           NEW h \in DOMAIN sigs
    PROVE  Accounted(h)'
<1>1. PICK C, p, d, r, reach : AccountOf(h, C, p, d, r, reach)
  BY DEF AnalysisInv, Accounted
<1>2. C \subseteq DOMAIN sigs
  BY <1>1 DEF AccountOf
<1>3. CalleesKnown(C)
  BY <1>2, SolvedAreKnown DEF AnalysisInv, SolvingInv
<1>4. AccountOf(h, C, p, d, r, reach)'
  BY <1>1, <1>2, <1>3, AccountStays
<1> QED
  BY <1>4 DEF Accounted

LEMMA SolveAccounts ==
    ASSUME AnalysisInv, Solve
    PROVE  /\ Grows /\ \A g \in DOMAIN sigs : paths'[g] = paths[g]
           /\ DOMAIN sigs' = DOMAIN sigs \cup DOMAIN system /\ DOMAIN paths' = DOMAIN sigs'
           /\ \A h \in DOMAIN sigs' : sigs'[h] \in Sig
           /\ \A h \in DOMAIN system : Accounted(h)'
<1>0. PICK C : C = DOMAIN system
  OBVIOUS
<1>1. /\ phase = "solve" /\ prog' = prog /\ graphs' = graphs
      /\ \E asg \in Solutions(system, Small) :
         /\ sigs' = With(sigs, [name \in C |-> SolvedSig(name, asg)])
         /\ paths' = With(paths, [name \in C |->
                [s \in DOMAIN system[name] |-> Value(system[name][s].delta, asg)]])
  BY <1>0 DEF Solve
<1>2. PICK asg \in Solutions(system, Small) :
         /\ sigs' = With(sigs, [name \in C |-> SolvedSig(name, asg)])
         /\ paths' = With(paths, [name \in C |->
                [s \in DOMAIN system[name] |-> Value(system[name][s].delta, asg)]])
  BY <1>1
<1>3. /\ IsSystem(C, system) /\ C \cap DOMAIN sigs = {} /\ CalleesKnown(C)
      /\ DOMAIN paths = DOMAIN sigs /\ (\A g \in DOMAIN sigs : sigs[g] \in Sig) /\ GraphsInv
  BY <1>0, <1>1 DEF AnalysisInv, BuiltInv, SolvingInv, TypeOK
<1>4. Small \subseteq Int /\ Probe \in Nat \ {0}
  BY SolverAssumption
<1>5. PICK p, d, r, reach :
              /\ \A h \in C : \A s \in ReachableBlocks(graphs[h]) : p[h][s] = Value(system[h][s].delta, asg)
              /\ \A h \in C : /\ NumOf(p, h) = Value(FuncDelta(system[h]), asg)
                              /\ Value(FuncDelta(system[h]), asg) \in Int
              /\ \A h \in C : reach[h] = MaxValue(FuncReach(system[h]), asg)
              /\ Explains(C, p, d) /\ Fits(C, reach, d, r)
  BY <1>3, <1>4, SolutionAccounts
<1>6. C \subseteq DOMAIN prog /\ \A h \in C : DOMAIN system[h] = ReachableBlocks(graphs[h])
  <2>1. C \subseteq DOMAIN prog /\ GraphsInv /\ system = [h \in C |-> PathTerms(h)]
    BY <1>3 DEF IsSystem, Solvable
  <2> QED
    BY <2>1, PathTermsAre
<1>7. \A h \in C : reach[h] \in Nat
  BY <1>3, <1>5, <1>6, ReachIsNat
<1>8. /\ DOMAIN sigs' = DOMAIN sigs \cup C /\ \A g \in DOMAIN sigs : sigs'[g] = sigs[g]
      /\ \A g \in C : sigs'[g] = SolvedSig(g, asg)
  BY <1>2, <1>3 DEF With
<1>9. /\ DOMAIN paths' = DOMAIN sigs \cup C /\ \A g \in DOMAIN sigs : paths'[g] = paths[g]
      /\ \A g \in C : \A s \in ReachableBlocks(graphs[g]) : paths'[g][s] = Value(system[g][s].delta, asg)
  BY <1>2, <1>3, <1>6 DEF With
<1>10. Grows
  BY <1>1, <1>8 DEF Grows
<1>11. ASSUME NEW h \in C
       PROVE  /\ SolvedSig(h, asg) \in Sig
              /\ SolvedSig(h, asg).reach = reach[h]
              /\ ~ SolvedSig(h, asg).never => SolvedSig(h, asg).delta = NumOf(p, h)
              /\ SolvedSig(h, asg).never <=> Unbounded(h, NumOf(p, h))
  <2>1. SolvedSig(h, asg) = [never |-> Unbounded(h, NumOf(p, h)),
                             delta |-> IF Unbounded(h, NumOf(p, h)) THEN 0 ELSE NumOf(p, h),
                             reach |-> reach[h]]
    BY <1>5, <1>11 DEF SolvedSig
  <2>2. NumOf(p, h) \in Int /\ reach[h] \in Nat
    BY <1>5, <1>7, <1>11
  <2>3. Unbounded(h, NumOf(p, h)) \in BOOLEAN
    BY DEF Unbounded
  <2> QED
    BY <2>1, <2>2, <2>3 DEF Sig
<1>12. ASSUME NEW h \in C, Unbounded(h, NumOf(p, h))
       PROVE  \E q, e : Explains(C, q, e) /\ NumOf(q, h) # NumOf(p, h)
  <2>6. PICK Nums : Nums = Small \cup {n + Probe : n \in Small}
    OBVIOUS
  <2>1. PICK b \in DeltaSolutions(system, Nums) : Value(FuncDelta(system[h]), b) = NumOf(p, h) + Probe
    BY <1>12, <2>6 DEF Unbounded
  <2>2. Nums \in SUBSET Int
    <3>1. \A n \in Small : n \in Int /\ n + Probe \in Int
      BY <1>4
    <3> QED
      BY <2>6, <3>1
  <2>3. PICK q, e : Explains(C, q, e) /\ NumOf(q, h) = Value(FuncDelta(system[h]), b)
    <3>1. IsSystem(C, system) /\ C \cap DOMAIN sigs = {}
      BY <1>3
    <3>2. \A a \in DeltaSolutions(system, Nums) : \A g \in C :
             \E q, e : Explains(C, q, e) /\ NumOf(q, g) = Value(FuncDelta(system[g]), a)
      <4>1. IsSystem(C, system)
        BY <3>1
      <4>2. C \cap DOMAIN sigs = {}
        BY <3>1
      <4> QED
        BY <2>2, <4>1, <4>2, AnswerAccounts
    <3> QED
      BY <1>12, <2>1, <3>2
  <2>4. NumOf(p, h) \in Int
    BY <1>5, <1>12
  <2>5. NumOf(q, h) # NumOf(p, h)
    BY <1>4, <2>1, <2>3, <2>4
  <2> QED
    BY <2>3, <2>5
<1>13. ASSUME NEW h \in C PROVE Accounted(h)'
  <2>1. Explains(C, p, d)' /\ Fits(C, reach, d, r)'
    BY <1>3, <1>5, <1>10, ExplainsStays, FitsStays
  <2>2. \A q : NumOf(q, h)' = NumOf(q, h)
    BY <1>1 DEF NumOf
  <2>3. \A g \in C : reach[g] = sigs'[g].reach
    BY <1>8, <1>11
  <2>4. \A g \in C : \A s \in ReachableBlocks(graphs'[g]) : p[g][s] = paths'[g][s]
    BY <1>1, <1>5, <1>9
  <2>5. ~ sigs'[h].never => sigs'[h].delta = NumOf(p, h)'
    BY <1>8, <1>11, <1>13, <2>2
  <2>6. sigs'[h].never => \E q, e : Explains(C, q, e)' /\ NumOf(q, h)' # NumOf(p, h)'
    <3> SUFFICES ASSUME sigs'[h].never PROVE \E q, e : Explains(C, q, e)' /\ NumOf(q, h)' # NumOf(p, h)'
      OBVIOUS
    <3>1. PICK q, e : Explains(C, q, e) /\ NumOf(q, h) # NumOf(p, h)
      BY <1>8, <1>11, <1>12, <1>13
    <3>2. Explains(C, q, e)'
      BY <1>3, <1>10, <3>1, ExplainsStays
    <3> QED
      BY <2>2, <3>1, <3>2
  <2>7. AccountOf(h, C, p, d, r, reach)'
    BY <1>8, <1>13, <2>1, <2>3, <2>4, <2>5, <2>6 DEF AccountOf
  <2> QED
    BY <2>7 DEF Accounted
<1>14. \A h \in DOMAIN sigs' : sigs'[h] \in Sig
  BY <1>3, <1>8, <1>11
<1> QED
  BY <1>0, <1>8, <1>9, <1>10, <1>13, <1>14

LEMMA SameTerms ==
    ASSUME UNCHANGED <<prog, graphs, sigs>>, NEW h
    PROVE  PathTerms(h)' = PathTerms(h)
<1>1. prog' = prog /\ graphs' = graphs /\ sigs' = sigs
  OBVIOUS
<1> QED
  BY <1>1 DEF PathTerms, BlockTerms, DeltaTerm, ReachTerm, CodeOf, Onward

LEMMA AnalysisStarts == Init => AnalysisInv
<1> SUFFICES ASSUME Init PROVE AnalysisInv
  OBVIOUS
<1>1. /\ prog \in Programs /\ graphs = [name \in DOMAIN prog |-> GraphOf(prog[name])]
      /\ phase = "sort" /\ analyzed = {} /\ sigs = << >> /\ paths = << >>
  BY DEF Init
<1>2. DOMAIN << >> = {}
  OBVIOUS
<1> QED
  BY <1>1, <1>2 DEF AnalysisInv, TypeOK, GraphsInv, SolvingInv, BuiltInv, SolvedCallsSolved

\* Steps that solve nothing.
LEMMA AnalysisKept ==
    ASSUME AnalysisInv, UNCHANGED <<prog, graphs, sigs, paths>>, TypeOK', SolvingInv', BuiltInv'
    PROVE  AnalysisInv'
<1>1. Grows /\ \A g \in DOMAIN sigs : paths'[g] = paths[g]
  BY DEF Grows
<1>2. \A h \in DOMAIN sigs : Accounted(h)'
  BY <1>1, AccountsStay
<1> QED
  BY <1>2 DEF AnalysisInv, GraphsInv

LEMMA BuildAccounts ==
    ASSUME AnalysisInv, NEW name \in DOMAIN prog, Build(Component(prog, name))
    PROVE  AnalysisInv'
<1>0. PICK C : C = Component(prog, name)
  OBVIOUS
<1>1. /\ phase = "sort" /\ C \cap analyzed = {} /\ Determinable(C) /\ phase' = "solve"
      /\ system' = [h \in C |-> PathTerms(h)] /\ analyzed' = analyzed \cup C
      /\ UNCHANGED <<prog, graphs, sigs, paths>>
  BY <1>0 DEF Build, Ready
<1>2. C \subseteq DOMAIN prog
  BY <1>0, ComponentsAreFunctions DEF AnalysisInv, TypeOK
<1>3. TypeOK'
  BY <1>1, <1>2 DEF AnalysisInv, TypeOK
<1>4. SolvingInv'
  BY <1>0, BuildKnows DEF AnalysisInv
<1>5. Solvable(C)'
  <2>1. GraphsInv'
    BY <1>1 DEF AnalysisInv, GraphsInv
  <2>2. Determinable(C)'
    <3>1. \A h, s : CodeOf(h, s)' = CodeOf(h, s)
      BY <1>1, SameCode
    <3> QED
      BY <1>1, <3>1 DEF Determinable
  <2> QED
    BY <1>1, <1>2, <1>3, <2>1, <2>2 DEF Solvable, TypeOK
<1>6. IsSystem(C, system)'
  <2>1. \A h \in C : PathTerms(h)' = PathTerms(h)
    BY <1>1, SameTerms
  <2> QED
    BY <1>1, <1>5, <2>1 DEF IsSystem
<1>7. DOMAIN system' = C
  BY <1>1
<1>8. BuiltInv'
  BY <1>1, <1>6, <1>7 DEF BuiltInv, AnalysisInv, TypeOK
<1> QED
  BY <1>1, <1>3, <1>4, <1>8, AnalysisKept

LEMMA SolveKeeps == ASSUME AnalysisInv, Solve PROVE AnalysisInv'
<1>1. /\ Grows /\ \A g \in DOMAIN sigs : paths'[g] = paths[g]
      /\ DOMAIN sigs' = DOMAIN sigs \cup DOMAIN system /\ DOMAIN paths' = DOMAIN sigs'
      /\ \A h \in DOMAIN sigs' : sigs'[h] \in Sig
      /\ \A h \in DOMAIN system : Accounted(h)'
  BY SolveAccounts
<1>2. phase = "solve" /\ phase' = "sort" /\ UNCHANGED <<prog, graphs, analyzed>>
  BY DEF Solve
<1>3. TypeOK'
  <2>1. DOMAIN system \subseteq analyzed
    BY <1>2 DEF AnalysisInv, BuiltInv
  <2> QED
    BY <1>1, <1>2, <2>1 DEF AnalysisInv, TypeOK
<1>4. SolvingInv'
  BY SolveKnows DEF AnalysisInv
<1>5. \A h \in DOMAIN sigs : Accounted(h)'
  BY <1>1, AccountsStay
<1>6. GraphsInv'
  BY <1>2 DEF AnalysisInv, GraphsInv
<1>7. BuiltInv'
  BY <1>2 DEF BuiltInv
<1>8. \A h \in DOMAIN sigs' : Accounted(h)'
  BY <1>1, <1>5
<1> QED
  BY <1>3, <1>4, <1>6, <1>7, <1>8 DEF AnalysisInv

LEMMA AnalysisStepKeeps == AnalysisInv /\ [Next]_vars => AnalysisInv'
<1> SUFFICES ASSUME AnalysisInv, [Next]_vars PROVE AnalysisInv'
  OBVIOUS
<1>1. ASSUME NEW name \in DOMAIN prog,
             PanicOn(Component(prog, name)) \/ Abandon(Component(prog, name))
      PROVE  AnalysisInv'
  <2>1. /\ phase = "sort" /\ phase' # "solve" /\ UNCHANGED <<prog, graphs, sigs, paths>>
        /\ phase' \in {"sort", "panic"} /\ analyzed' \in {analyzed, analyzed \cup Component(prog, name)}
    BY <1>1 DEF PanicOn, Abandon, Ready
  <2>2. Component(prog, name) \subseteq DOMAIN prog
    BY ComponentsAreFunctions DEF AnalysisInv, TypeOK
  <2>3. TypeOK'
    BY <2>1, <2>2 DEF AnalysisInv, TypeOK
  <2>4. SolvingInv'
    BY <2>1, SolvingKept DEF AnalysisInv
  <2>5. BuiltInv'
    BY <2>1 DEF BuiltInv
  <2> QED
    BY <2>1, <2>3, <2>4, <2>5, AnalysisKept
<1>2. CASE Unsat \/ Finish
  <2>1. phase' \in {"sort", "done"} /\ UNCHANGED <<prog, graphs, analyzed, sigs, paths>>
    BY <1>2 DEF Unsat, Finish
  <2>3. TypeOK'
    BY <2>1 DEF AnalysisInv, TypeOK
  <2>4. SolvingInv'
    BY <2>1, SolvingKept DEF AnalysisInv
  <2>5. BuiltInv'
    BY <2>1 DEF BuiltInv
  <2> QED
    BY <2>1, <2>3, <2>4, <2>5, AnalysisKept
<1>3. CASE UNCHANGED vars
  <2>1. UNCHANGED <<prog, graphs, phase, analyzed, system, sigs, paths>>
    BY <1>3 DEF vars
  <2>3. TypeOK'
    BY <2>1 DEF AnalysisInv, TypeOK
  <2>4. SolvingInv'
    BY <2>1, SolvingKept DEF AnalysisInv
  <2>5. BuiltInv'
    <3> SUFFICES ASSUME phase = "solve"
                 PROVE  /\ IsSystem(DOMAIN system, system)'
                        /\ (DOMAIN system \subseteq analyzed /\ DOMAIN system \cap DOMAIN sigs = {})'
      BY <2>1 DEF BuiltInv
    <3>1. /\ IsSystem(DOMAIN system, system)
          /\ DOMAIN system \subseteq analyzed /\ DOMAIN system \cap DOMAIN sigs = {}
      BY DEF AnalysisInv, BuiltInv
    <3>2. \A h : PathTerms(h)' = PathTerms(h)
      BY <2>1, SameTerms
    <3>3. \A h, s : CodeOf(h, s)' = CodeOf(h, s)
      BY <2>1, SameCode
    <3>4. IsSystem(DOMAIN system, system)'
      BY <2>1, <3>1, <3>2, <3>3 DEF IsSystem, Solvable, GraphsInv, Determinable
    <3> QED
      BY <2>1, <3>1, <3>4
  <2> QED
    BY <2>1, <2>3, <2>4, <2>5, AnalysisKept
<1> QED
  BY <1>1, <1>2, <1>3, BuildAccounts, SolveKeeps DEF Next

\* Every step of the analysis keeps an account of each solved function.
LEMMA AnalysisInvariant == Spec => []AnalysisInv
BY AnalysisStarts, AnalysisStepKeeps, PTL DEF Spec

-----------------------------------------------------------------------------
(* 4. Functions that return.                                               *)

\* What the analysis has seen to before it solves the functions C.
Sound(C) ==
    \A h \in C : /\ GraphExists(prog[h])
                 /\ \A s \in ReachableBlocks(graphs[h]) : \A j \in DOMAIN CodeOf(h, s) :
                       CodeOf(h, s)[j].op \notin {"pick", "droprange"}

\* What is solved, or about to be, has passed these checks.
SoundInv == Sound(DOMAIN sigs) /\ (phase = "solve" => Sound(DOMAIN system))

LEMMA SoundKept ==
    ASSUME SoundInv, UNCHANGED <<prog, graphs>>,
           \A h \in DOMAIN sigs' : h \in DOMAIN sigs \/ (phase = "solve" /\ h \in DOMAIN system),
           phase' = "solve" => phase = "solve" /\ system' = system
    PROVE  SoundInv'
<1>1. \A C : Sound(C)' <=> Sound(C)
  BY SameCode DEF Sound
<1>2. \A C, D : Sound(C) /\ Sound(D) => Sound(C \cup D)
  BY DEF Sound
<1>3. \A C, D : Sound(D) /\ C \subseteq D => Sound(C)
  BY DEF Sound
<1>4. Sound(DOMAIN sigs')
  <2>1. CASE phase = "solve"
    BY <1>2, <1>3, <2>1 DEF SoundInv
  <2>2. CASE phase # "solve"
    BY <1>3, <2>2 DEF SoundInv
  <2> QED
    BY <2>1, <2>2
<1>5. \A C : C = DOMAIN sigs' => Sound(C)'
  BY <1>1, <1>4
<1>6. phase' = "solve" => \A C : C = DOMAIN system' => Sound(C)'
  BY <1>1 DEF SoundInv
<1> QED
  BY <1>4, <1>5, <1>6, SameCode DEF SoundInv, Sound

\* Nothing is solved that was not checked.
LEMMA SoundInvariant == Spec => []SoundInv
<1>1. Init => SoundInv
  BY DEF Init, SoundInv, Sound
<1>2. SoundInv /\ [Next]_vars => SoundInv'
  <2> SUFFICES ASSUME SoundInv, [Next]_vars PROVE SoundInv'
    OBVIOUS
  <2>1. ASSUME NEW C, PanicOn(C) \/ Abandon(C) PROVE SoundInv'
    <3>1. UNCHANGED <<prog, graphs, sigs>> /\ phase' # "solve"
      BY <2>1 DEF PanicOn, Abandon, Ready
    <3>2. \A h \in DOMAIN sigs' : h \in DOMAIN sigs \/ (phase = "solve" /\ h \in DOMAIN system)
      BY <3>1
    <3> QED
      BY <3>1, <3>2, SoundKept
  <2>2. CASE Unsat \/ Finish \/ UNCHANGED vars
    <3>1. /\ UNCHANGED <<prog, graphs, sigs>>
          /\ phase' = "solve" => phase = "solve" /\ system' = system
      BY <2>2 DEF Unsat, Finish, vars
    <3>2. \A h \in DOMAIN sigs' : h \in DOMAIN sigs \/ (phase = "solve" /\ h \in DOMAIN system)
      BY <3>1
    <3> QED
      BY <3>1, <3>2, SoundKept
  <2>3. ASSUME NEW C, Build(C) PROVE SoundInv'
    <3>1. UNCHANGED <<prog, graphs, sigs>> /\ DOMAIN system' = C /\ Graphs(C) /\ Determinable(C)
      BY <2>3 DEF Build
    <3>2. Sound(C)
      <4>1. ASSUME NEW h \in C, NEW s \in ReachableBlocks(graphs[h]), NEW j \in DOMAIN CodeOf(h, s)
            PROVE  CodeOf(h, s)[j].op \notin {"pick", "droprange"}
        <5> DEFINE x == CodeOf(h, s)[j]
        <5>1. Reach(x, sigs).tag # "notdeterminable"
          BY <3>1 DEF Determinable
        <5> HIDE DEF x
        <5>2. x.op \in {"pick", "droprange"} => Reach(x, sigs).tag = "notdeterminable"
          BY DEF Reach, FixedOps, Err
        <5> QED
          BY <5>1, <5>2 DEF x
      <4> QED
        BY <3>1, <4>1 DEF Sound, Graphs
    <3>3. Sound(DOMAIN sigs)
      BY DEF SoundInv
    <3> QED
      BY <3>1, <3>2, <3>3, SameCode DEF SoundInv, Sound
  <2>4. CASE Solve
    <3>1. UNCHANGED <<prog, graphs>> /\ phase = "solve" /\ phase' # "solve"
          /\ DOMAIN sigs' = DOMAIN sigs \cup DOMAIN system
      BY <2>4 DEF Solve, With
    <3>2. \A h \in DOMAIN sigs' : h \in DOMAIN sigs \/ (phase = "solve" /\ h \in DOMAIN system)
      BY <3>1
    <3> HIDE DEF Sound, SoundInv
    <3> QED
      BY <3>1, <3>2, SoundKept
  <2> QED
    BY <2>1, <2>2, <2>3, <2>4 DEF Next
<1> QED
  BY <1>1, <1>2, PTL DEF Spec

-----------------------------------------------------------------------------
\* A function whose calls return adds a determined number.
Good(f) ==
    /\ ~ sigs[f].never /\ sigs[f].delta >= - sigs[f].reach
    /\ \A C, p, d : f \in C /\ Explains(C, p, d) => NumOf(p, f) = sigs[f].delta

\* Instruction x has an effect, and looks as far as it removes.
Steady(x) ==
    /\ Delta(x, sigs).tag = "ok" /\ Delta(x, sigs).val \in Int
    /\ Reach(x, sigs).val \in Int /\ Delta(x, sigs).val >= - Reach(x, sigs).val
    /\ x.op = "call" => x.f \in DOMAIN sigs /\ Good(x.f)

LEMMA PassedIsSteady ==
    ASSUME GraphsInv, \A g \in DOMAIN sigs : sigs[g] \in Sig, SolvedCallsSolved,
           SoundInv, NEW h \in DOMAIN sigs \cap DOMAIN prog,
           NEW s \in ReachableBlocks(graphs[h]), NEW j \in DOMAIN CodeOf(h, s), NEW x,
           x = CodeOf(h, s)[j], x.op # "quit",
           x.op = "call" => (x.f \in DOMAIN sigs => Good(x.f))
    PROVE  Steady(x)
<1>1. x.op \notin {"pick", "droprange"} /\ (x.op = "call" => x.f \in DOMAIN sigs)
  BY DEF SoundInv, Sound, SolvedCallsSolved
<1>2. PICK names : x \in BodyInstrs(names)
  BY CodeIsTyped
<1>3. CASE x.op \in FixedOps
  <2>1. Delta(x, sigs) = Ok(FixedDelta[x.op]) /\ Reach(x, sigs) = Ok(FixedReach[x.op])
    BY <1>3 DEF Delta, Reach, FixedOps
  <2>2. FixedDelta[x.op] \in Int /\ FixedReach[x.op] \in Int /\ FixedDelta[x.op] >= - FixedReach[x.op]
    BY <1>3 DEF FixedOps, FixedDelta, FixedReach
  <2>3. x.op # "call"
    BY <1>3 DEF FixedOps
  <2> QED
    BY <2>1, <2>2, <2>3 DEF Ok, Steady
<1>4. CASE x.op = "call"
  <2>1. Good(x.f) /\ sigs[x.f] \in Sig /\ x.f \in DOMAIN sigs
    BY <1>1, <1>4
  <2>2. Delta(x, sigs) = Ok(sigs[x.f].delta) /\ Reach(x, sigs) = Ok(sigs[x.f].reach)
    BY <1>4, <2>1 DEF Delta, Reach, FixedOps, Good
  <2>3. sigs[x.f].delta \in Int /\ sigs[x.f].reach \in Int /\ sigs[x.f].delta >= - sigs[x.f].reach
    BY <2>1 DEF Sig, Good
  <2> QED
    BY <2>1, <2>2, <2>3 DEF Ok, Steady
<1>5. CASE x.op = "lit"
  BY <1>5 DEF Delta, Reach, FixedOps, Ok, Steady
<1>6. CASE x.op = "rpick"
  <2>1. x.n \in Nat
    BY <1>2, <1>6 DEF BodyInstrs, ParsedInstr, FixedOps
  <2> QED
    BY <1>6, <2>1 DEF Delta, Reach, FixedOps, Ok, Steady
<1>7. CASE x.op = "rdrop"
  <2>1. x.s \in Nat /\ x.a \in Nat
    BY <1>2, <1>7 DEF BodyInstrs, ParsedInstr, FixedOps
  <2>2. x.s >= x.a
    <3> DEFINE f == prog[h]
               e == graphs[h][s].end
    <3>1. IsCode(f) /\ IsBlock(f, s, e) /\ GraphExists(f)
      BY ProgramIsCode, BlocksOnPaths DEF SoundInv, Sound
    <3>2. x = Resolved(f, s, j) /\ j \in s..(e - 1)
      BY DEF CodeOf, Kept
    <3>3. s \in StartsOf(f) /\ e = EndIn(f, StartsOf(f), s) /\ s \in Nat /\ e \in Nat /\ e <= Len(f)
          /\ Len(f) \in Nat
      BY <3>1, BlockBounds DEF IsBlock
    <3>4. AssertsHold(f, s, e)
      BY <3>1, <3>3 DEF GraphExists
    <3>5. At(f, j).op # "rdrop"
      <4>1. PICK nm : f \in Seq(ParsedInstr(nm, Int))
        BY <3>1 DEF IsCode
      <4>2. j \in 0..(Len(f) - 1)
        BY <3>2, <3>3
      <4>3. At(f, j) \in ParsedInstr(nm, Int)
        BY <4>1, <4>2, ParsedAt
      <4> QED
        BY <4>3 DEF ParsedInstr, FixedOps
    <3>6. ~ FoldsPick(f, s, j)
      BY <1>7, <3>2 DEF Resolved, Pick
    <3>7. FoldsDrop(f, s, j) /\ x = DropRange(At(f, j - 2).n, At(f, j - 1).n)
      BY <1>7, <3>2, <3>5, <3>6 DEF Resolved
    <3>8. At(f, j - 2).n >= At(f, j - 1).n
      BY <3>2, <3>4, <3>7 DEF AssertsHold
    <3> QED
      BY <3>7, <3>8 DEF DropRange
  <2>3. Delta(x, sigs) = Ok(-x.a) /\ Reach(x, sigs) = Ok(x.s)
    BY <1>7 DEF Delta, Reach, FixedOps
  <2> QED
    BY <1>7, <2>1, <2>2, <2>3 DEF Ok, Steady
<1>8. x.op \in FixedOps \cup {"call", "lit", "quit", "pick", "droprange", "rpick", "rdrop"}
  BY <1>2 DEF BodyInstrs, ParsedInstr, FixedOps
<1> QED
  BY <1>1, <1>3, <1>4, <1>5, <1>6, <1>7, <1>8

\* Its number is the same in every account.
LEMMA SteadyAdds ==
    ASSUME NEW x, Steady(x), NEW C, NEW p, NEW d, Explains(C, p, d), NEW n, Adds(C, p, x, n)
    PROVE  n = Delta(x, sigs).val
<1>1. CASE x.op = "call" /\ x.f \in C
  <2>1. n = NumOf(p, x.f) /\ Good(x.f) /\ x.f \in DOMAIN sigs
    BY <1>1 DEF Adds, Steady
  <2>2. NumOf(p, x.f) = sigs[x.f].delta /\ ~ sigs[x.f].never
    BY <1>1, <2>1 DEF Good
  <2>3. Delta(x, sigs) = Ok(sigs[x.f].delta)
    BY <1>1, <2>1, <2>2 DEF Delta, FixedOps
  <2> QED
    BY <2>1, <2>2, <2>3 DEF Ok
<1>2. CASE ~ (x.op = "call" /\ x.f \in C)
  BY <1>2 DEF Adds, Steady
<1> QED
  BY <1>1, <1>2

SteadyBlock(h, s) == \A j \in DOMAIN CodeOf(h, s) : Steady(CodeOf(h, s)[j])

LEMMA SteadyDepths ==
    ASSUME GraphsInv, NEW h \in DOMAIN prog, NEW s \in ReachableBlocks(graphs[h]), SteadyBlock(h, s),
           NEW C, NEW p, NEW d, Explains(C, p, d), h \in C,
           NEW D, NEW q, NEW b, Explains(D, q, b), h \in D
    PROVE  d[h][s][graphs[h][s].end] = b[h][s][graphs[h][s].end]
<1> DEFINE e == graphs[h][s].end
           u == d[h][s]
           v == b[h][s]
           S == {n \in 0..(e - s) : u[s + n] = v[s + n]}
<1>1. e \in Nat /\ s \in Nat /\ s < e
  BY BlocksOnPaths
<1>2. DepthsIn(C, p, u, h, s) /\ DepthsIn(D, q, v, h, s)
  BY DEF Explains
<1> HIDE DEF u, v
<1>3. 0 \in S
  BY <1>1, <1>2 DEF DepthsIn
<1>4. ASSUME NEW n \in 0..((e - s) - 1), n \in S PROVE n + 1 \in S
  <2> DEFINE j == s + n
  <2>1. j \in s..(e - 1) /\ n + 1 \in 0..(e - s) /\ s + (n + 1) = j + 1 /\ j \in s..e /\ j + 1 \in s..e
    BY <1>1
  <2>2. u[j] = v[j]
    BY <1>4
  <2> HIDE DEF j, e
  <2>3. u[j] \in Int /\ v[j] \in Int /\ u[j + 1] \in Int /\ v[j + 1] \in Int
    BY <1>2, <2>1 DEF DepthsIn, e
  <2>4. u[j + 1] = v[j + 1]
    <3>1. CASE j \in DOMAIN CodeOf(h, s)
      <4> DEFINE x == CodeOf(h, s)[j]
      <4>1. Steady(x)
        BY <3>1 DEF SteadyBlock
      <4>2. Adds(C, p, x, u[j + 1] - u[j]) /\ Adds(D, q, x, v[j + 1] - v[j])
        BY <1>2, <2>1, <3>1 DEF DepthsIn, e
      <4> HIDE DEF x
      <4>3. u[j + 1] - u[j] = Delta(x, sigs).val
        BY <4>1, <4>2, SteadyAdds
      <4>4. v[j + 1] - v[j] = Delta(x, sigs).val
        BY <4>1, <4>2, SteadyAdds
      <4> QED
        BY <2>2, <2>3, <4>3, <4>4
    <3>2. CASE j \notin DOMAIN CodeOf(h, s)
      BY <1>2, <2>1, <2>2, <3>2 DEF DepthsIn, e
    <3> QED
      BY <3>1, <3>2
  <2> QED
    BY <2>1, <2>4
<1>5. e - s \in Nat /\ s + (e - s) = e /\ e - s \in 0..(e - s)
  BY <1>1
<1>6. \A n \in 0..(e - s) : n \in S
  <2> HIDE DEF S, e
  <2> QED
    BY <1>3, <1>4, <1>5, InductionUpTo
<1>7. u[e] = v[e]
  BY <1>5, <1>6
<1> QED
  BY <1>7 DEF u, v

\* It never goes deeper than its reach.
LEMMA SteadyReach ==
    ASSUME GraphsInv, NEW h \in DOMAIN prog, NEW s \in ReachableBlocks(graphs[h]), SteadyBlock(h, s),
           NEW C, NEW p, NEW d, Explains(C, p, d), h \in C,
           NEW r, NEW reach, Fits(C, reach, d, r),
           \A g \in C : reach[g] = sigs[g].reach
    PROVE  /\ d[h][s][graphs[h][s].end] \in Int /\ r[h][s] \in Int
           /\ d[h][s][graphs[h][s].end] >= - r[h][s]
<1> DEFINE e == graphs[h][s].end
           u == d[h][s]
           deep == r[h][s]
           S == {n \in 0..(e - s) : u[s + n] >= - deep}
<1>1. e \in Nat /\ s \in Nat /\ s < e
  BY BlocksOnPaths
<1>2. DepthsIn(C, p, u, h, s) /\ BlockFits(C, reach, u, r[h], h, s)
  BY DEF Explains, Fits
<1>3. deep \in Int /\ deep >= 0
  BY <1>2 DEF BlockFits
<1>4. \A j \in DOMAIN CodeOf(h, s) :
         /\ Looks(C, reach, CodeOf(h, s)[j]) \in Int
         /\ deep >= Looks(C, reach, CodeOf(h, s)[j]) - u[j]
  BY <1>2 DEF BlockFits
<1> HIDE DEF u, deep
<1>5. 0 \in S
  BY <1>1, <1>2, <1>3 DEF DepthsIn
<1>6. ASSUME NEW n \in 0..((e - s) - 1), n \in S PROVE n + 1 \in S
  <2> DEFINE j == s + n
  <2>1. j \in s..(e - 1) /\ n + 1 \in 0..(e - s) /\ s + (n + 1) = j + 1 /\ j \in s..e /\ j + 1 \in s..e
    BY <1>1
  <2>2. u[j] >= - deep
    BY <1>6
  <2> HIDE DEF j, e
  <2>3. u[j] \in Int /\ u[j + 1] \in Int
    BY <1>2, <2>1 DEF DepthsIn, e
  <2>4. u[j + 1] >= - deep
    <3>1. CASE j \in DOMAIN CodeOf(h, s)
      <4> DEFINE x == CodeOf(h, s)[j]
                 look == Looks(C, reach, x)
      <4>1. Steady(x)
        BY <3>1 DEF SteadyBlock
      <4>2. Adds(C, p, x, u[j + 1] - u[j])
        BY <1>2, <2>1, <3>1 DEF DepthsIn, e
      <4>3. look \in Int /\ deep >= look - u[j]
        BY <1>4, <3>1
      <4> HIDE DEF x
      <4>4. u[j + 1] - u[j] = Delta(x, sigs).val
        BY <4>1, <4>2, SteadyAdds
      <4>5. look = Reach(x, sigs).val
        <5>1. CASE x.op = "call" /\ x.f \in C
          <6>1. x.f \in DOMAIN sigs /\ look = sigs[x.f].reach
            BY <4>1, <5>1 DEF Looks, Steady
          <6>2. Reach(x, sigs) = Ok(sigs[x.f].reach)
            BY <5>1, <6>1 DEF Reach, FixedOps
          <6> QED
            BY <6>1, <6>2 DEF Ok
        <5>2. CASE ~ (x.op = "call" /\ x.f \in C)
          BY <5>2 DEF Looks
        <5> QED
          BY <5>1, <5>2
      <4> HIDE DEF look
      <4>6. Delta(x, sigs).val \in Int /\ Delta(x, sigs).val >= - look
        BY <4>1, <4>5 DEF Steady
      <4> QED
        BY <1>3, <2>3, <4>3, <4>4, <4>6
    <3>2. CASE j \notin DOMAIN CodeOf(h, s)
      BY <1>2, <2>1, <2>2, <3>2 DEF DepthsIn, e
    <3> QED
      BY <3>1, <3>2
  <2> QED
    BY <2>1, <2>4
<1>7. e - s \in Nat /\ s + (e - s) = e /\ e - s \in 0..(e - s)
  BY <1>1
<1>8. \A n \in 0..(e - s) : n \in S
  <2> HIDE DEF S, e
  <2> QED
    BY <1>5, <1>6, <1>7, InductionUpTo
<1>9. u[e] >= - deep
  BY <1>7, <1>8
<1>10. u[e] \in Int
  BY <1>1, <1>2 DEF DepthsIn
<1> QED
  BY <1>3, <1>9, <1>10 DEF u, deep

\* Returning, unfolded: its recursion over the blocks ...
Leaves(name, ret) ==
    CHOOSE leaves : leaves =
        [s \in DOMAIN graphs[name] |->
            /\ Passes(name, s, ret)
            /\ \E x \in Onward(name, s) :
                 LET t == graphs[name][s].term.targets[x]
                 IN t = Len(prog[name]) \/ leaves[t]]

ReturnsIn(name, ret) == DOMAIN graphs[name] = {} \/ Leaves(name, ret)[0]

\* ... and the one over the calls.
Returners ==
    CHOOSE returning : returning =
        [n \in 0..Cardinality(DOMAIN prog) |->
            IF n = 0 THEN {} ELSE {name \in DOMAIN prog : ReturnsIn(name, returning[n - 1])}]

LEMMA ReturningIs == Returning = Returners[Cardinality(DOMAIN prog)]
BY DEF Returning, Returners, ReturnsIn, Leaves, Passes

LEMMA ReturnersObey ==
    ASSUME IsFiniteSet(DOMAIN prog)
    PROVE  /\ Cardinality(DOMAIN prog) \in Nat
           /\ Returners[0] = {}
           /\ \A i \in 1..Cardinality(DOMAIN prog) :
                 Returners[i] = {name \in DOMAIN prog : ReturnsIn(name, Returners[i - 1])}
<1> DEFINE S == DOMAIN prog
           m == Cardinality(S)
           step == [X \in SUBSET S |-> {name \in S : ReturnsIn(name, X)}]
           steps == [n \in Nat |-> step]
           body(r) == [n \in 0..m |-> IF n = 0 THEN {} ELSE {name \in S : ReturnsIn(name, r[n - 1])}]
           none == {}
<1>1. m \in Nat
  BY FS_CardinalityType
<1>2. none \in SUBSET S /\ step \in [SUBSET S -> SUBSET S] /\ steps \in [Nat -> [SUBSET S -> SUBSET S]]
  OBVIOUS
<1>3. PICK f \in [0..m -> SUBSET S] : Obeys(f, none, steps, m)
  <2> HIDE DEF S, m, steps, none
  <2> QED
    BY <1>1, <1>2, RecursionHasSolution
<1>4. f[0] = {} /\ \A i \in 1..m : f[i] = {name \in S : ReturnsIn(name, f[i - 1])}
  <2>1. ASSUME NEW i \in 1..m PROVE i \in Nat /\ f[i - 1] \in SUBSET S
    BY <1>1, <1>3
  <2> QED
    BY <1>3, <2>1 DEF Obeys
<1>5. f = body(f)
  <2> HIDE DEF S, m
  <2>1. ASSUME NEW n \in 0..m PROVE f[n] = body(f)[n]
    <3>1. CASE n = 0
      BY <1>4, <3>1
    <3>2. CASE n # 0
      <4>1. n \in 1..m
        BY <1>1, <3>2
      <4> QED
        BY <1>4, <3>2, <4>1
    <3> QED
      BY <3>1, <3>2
  <2> QED
    BY <1>3, <2>1
<1>6. Returners = CHOOSE r : r = body(r)
  BY DEF Returners
<1>7. Returners = body(Returners)
  <2> HIDE DEF body
  <2> QED
    BY <1>5, <1>6
<1>8. \A n \in 0..m : Returners[n] = body(Returners)[n]
  BY <1>7
<1>9. 0 \in 0..m /\ \A i \in 1..m : i \in 0..m /\ i # 0
  BY <1>1
<1> HIDE DEF S, m
<1>10. Returners[0] = {} /\ \A i \in 1..m : Returners[i] = {name \in S : ReturnsIn(name, Returners[i - 1])}
  BY <1>8, <1>9
<1> QED
  BY <1>1, <1>10 DEF S, m

-----------------------------------------------------------------------------
\* The edges of any block lead to blocks.
LEMMA EdgesInside ==
    ASSUME GraphsInv, NEW h \in DOMAIN prog, NEW s \in DOMAIN graphs[h],
           NEW x \in Onward(h, s), NEW t, t = graphs[h][s].term.targets[x], t # Len(prog[h])
    PROVE  t \in DOMAIN graphs[h]
<1> DEFINE f == prog[h]
           g == graphs[h]
           e == EndIn(f, StartsOf(f), s)
<1>1. IsCode(f) /\ g = GraphOf(f)
  BY ProgramIsCode
<1>2. DOMAIN g = StartsOf(f)
  BY <1>1 DEF GraphOf
<1>3. IsBlock(f, s, e)
  BY <1>2 DEF IsBlock
<1> HIDE DEF e
<1>4. Len(f) \in Nat /\ e \in Nat
  BY <1>1, <1>3, BlockBounds
<1>5. g[s].term = Terminator(f, s, e)
  BY <1>1, <1>3, GraphHasBlock
<1>6. x \in DOMAIN g[s].term.targets /\ t <= Len(f)
  BY DEF Onward
<1>7. t \in Places(f) /\ t \in e..(Len(f) + 1)
  <2>1. x \in DOMAIN Terminator(f, s, e).targets /\ t = Terminator(f, s, e).targets[x]
    BY <1>5, <1>6
  <2> HIDE DEF f, g
  <2> QED
    BY <1>1, <1>3, <2>1, TargetsAhead
<1> QED
  BY <1>2, <1>4, <1>6, <1>7 DEF Places

\* A block leaves if it passes and an edge leads out or to one that leaves.
\* The blocks from which a path of passing blocks leads out, or nowhere, are
\* a solution.
LEMMA LeavesIs ==
    ASSUME GraphsInv, NEW h \in DOMAIN prog, NEW ret
    PROVE  \A s \in DOMAIN graphs[h] :
              Leaves(h, ret)[s] =>
                 /\ Passes(h, s, ret)
                 /\ \E x \in Onward(h, s) :
                      LET t == graphs[h][s].term.targets[x]
                      IN t = Len(prog[h]) \/ (t \in DOMAIN graphs[h] /\ Leaves(h, ret)[t])
<1> DEFINE D == DOMAIN graphs[h]
           T(s, x) == graphs[h][s].term.targets[x]
           Step(U, s) == Passes(h, s, ret) /\ \E x \in Onward(h, s) : T(s, x) = Len(prog[h]) \/ T(s, x) \in U
           Kin == {U \in SUBSET D : \A s \in U : Step(U, s)}
           All == UNION Kin
           f == [s \in D |-> s \in All]
           body(leaves) == [s \in D |-> /\ Passes(h, s, ret)
                                        /\ \E x \in Onward(h, s) :
                                             T(s, x) = Len(prog[h]) \/ leaves[T(s, x)]]
<1>1. \A s \in D : \A x \in Onward(h, s) : T(s, x) # Len(prog[h]) => T(s, x) \in D
  BY EdgesInside
<1>2. \A U, W, s : U \subseteq W /\ Step(U, s) => Step(W, s)
  OBVIOUS
<1>3. All \subseteq D /\ \A s \in All : Step(All, s)
  <2> HIDE DEF Step
  <2>1. ASSUME NEW s \in All PROVE Step(All, s)
    <3>1. PICK U \in Kin : s \in U
      OBVIOUS
    <3>2. Step(U, s) /\ U \subseteq All
      BY <3>1
    <3> QED
      BY <1>2, <3>2
  <2> QED
    BY <2>1
<1>4. ASSUME NEW s \in D, Step(All, s) PROVE s \in All
  <2> DEFINE W == All \cup {s}
  <2>1. ASSUME NEW u \in W PROVE Step(W, u)
    <3>1. Step(All, u)
      BY <1>3, <1>4
    <3> HIDE DEF Step, Kin
    <3>2. All \subseteq W
      OBVIOUS
    <3> QED
      BY <1>2, <3>1, <3>2
  <2>2. W \in SUBSET D
    BY <1>3
  <2>3. W \in Kin
    <3> HIDE DEF Step, W, All
    <3> QED
      BY <2>1, <2>2
  <2> HIDE DEF Kin
  <2> QED
    BY <2>3
<1> HIDE DEF Kin, All
<1>5. f = body(f)
  <2>1. ASSUME NEW s \in D PROVE f[s] = body(f)[s]
    <3>1. \A x \in Onward(h, s) : T(s, x) # Len(prog[h]) => f[T(s, x)] = (T(s, x) \in All)
      BY <1>1
    <3>2. (s \in All) <=> Step(All, s)
      BY <1>3, <1>4
    <3>3. body(f)[s] = (/\ Passes(h, s, ret)
                        /\ \E x \in Onward(h, s) : T(s, x) = Len(prog[h]) \/ f[T(s, x)])
      OBVIOUS
    <3>4. f[s] = (s \in All)
      OBVIOUS
    <3> HIDE DEF f, body, T
    <3>5. (\E x \in Onward(h, s) : T(s, x) = Len(prog[h]) \/ f[T(s, x)])
            <=> (\E x \in Onward(h, s) : T(s, x) = Len(prog[h]) \/ T(s, x) \in All)
      BY <3>1
    <3> DEFINE E1 == \E x \in Onward(h, s) : T(s, x) = Len(prog[h]) \/ f[T(s, x)]
               E2 == \E x \in Onward(h, s) : T(s, x) = Len(prog[h]) \/ T(s, x) \in All
    <3>6. (s \in All) <=> (Passes(h, s, ret) /\ E2)
      BY <3>2 DEF T
    <3>7. E1 <=> E2
      BY <3>5
    <3>8. body(f)[s] = (Passes(h, s, ret) /\ E1)
      BY <3>3
    <3> HIDE DEF E1, E2
    <3>9. (s \in All) = (Passes(h, s, ret) /\ E1)
      BY <3>6, <3>7
    <3> QED
      BY <3>4, <3>8, <3>9
  <2> QED
    BY <2>1
<1>6. Leaves(h, ret) = CHOOSE leaves : leaves = body(leaves)
  BY DEF Leaves
<1>7. Leaves(h, ret) = body(Leaves(h, ret))
  <2> HIDE DEF body, f
  <2> QED
    BY <1>5, <1>6
<1> SUFFICES ASSUME NEW s \in D, Leaves(h, ret)[s]
             PROVE  /\ Passes(h, s, ret)
                    /\ \E x \in Onward(h, s) :
                         T(s, x) = Len(prog[h]) \/ (T(s, x) \in D /\ Leaves(h, ret)[T(s, x)])
  OBVIOUS
<1>8. body(Leaves(h, ret))[s]
  BY <1>7
<1> HIDE DEF D
<1>9. /\ Passes(h, s, ret)
      /\ \E x \in Onward(h, s) : T(s, x) = Len(prog[h]) \/ Leaves(h, ret)[T(s, x)]
  BY <1>8
<1> HIDE DEF T
<1> QED
  BY <1>1, <1>9

\* Those that return, when the functions ret do, are good.
GoodIn(ret) == \A f \in ret \cap DOMAIN sigs : Good(f)

LEMMA PassingIsSteady ==
    ASSUME AnalysisInv, SoundInv, NEW h \in DOMAIN sigs, NEW ret, GoodIn(ret),
           NEW s \in ReachableBlocks(graphs[h]), Passes(h, s, ret)
    PROVE  SteadyBlock(h, s)
<1>1. /\ GraphsInv /\ (\A g \in DOMAIN sigs : sigs[g] \in Sig) /\ SolvedCallsSolved
      /\ h \in DOMAIN prog
  BY DEF AnalysisInv, TypeOK, SolvingInv
<1> SUFFICES ASSUME NEW j \in DOMAIN CodeOf(h, s) PROVE Steady(CodeOf(h, s)[j])
  BY DEF SteadyBlock
<1>2. /\ CodeOf(h, s)[j].op # "quit"
      /\ CodeOf(h, s)[j].op = "call" => CodeOf(h, s)[j].f \in ret
  BY DEF Passes
<1>3. CodeOf(h, s)[j].op = "call" => (CodeOf(h, s)[j].f \in DOMAIN sigs => Good(CodeOf(h, s)[j].f))
  BY <1>2 DEF GoodIn
<1> QED
  BY <1>1, <1>2, <1>3, PassedIsSteady

\* What is determined of a block that leaves.
Determined(h, s, p, q, r) == p[h][s] = q[h][s] /\ p[h][s] >= - r[h][s]

LEMMA LeavingIsDetermined ==
    ASSUME AnalysisInv, SoundInv, NEW h \in DOMAIN sigs, NEW ret, GoodIn(ret),
           NEW C, NEW p, NEW d, Explains(C, p, d), h \in C,
           NEW r, NEW reach, Fits(C, reach, d, r), \A g \in C : reach[g] = sigs[g].reach,
           NEW D, NEW q, NEW b, Explains(D, q, b), h \in D
    PROVE  \A s \in ReachableBlocks(graphs[h]) : Leaves(h, ret)[s] => Determined(h, s, p, q, r)
<1> DEFINE R == ReachableBlocks(graphs[h])
           n0 == Len(prog[h])
           e(s) == graphs[h][s].end
           T(s, x) == graphs[h][s].term.targets[x]
           S == {n \in 0..n0 : \A s \in R : s >= n0 - n /\ Leaves(h, ret)[s] => Determined(h, s, p, q, r)}
<1>1. /\ GraphsInv /\ h \in DOMAIN prog
  BY DEF AnalysisInv, TypeOK
<1>2. /\ n0 \in Nat /\ R \subseteq 0..(n0 - 1)
      /\ \A s \in R : e(s) \in Nat /\ s < e(s)
  BY <1>1, BlocksOnPaths
<1>3. R \subseteq DOMAIN graphs[h]
  <2>1. IsCode(prog[h]) /\ graphs[h] = GraphOf(prog[h])
    BY <1>1, ProgramIsCode
  <2>2. \A s \in R : IsBlock(prog[h], s, e(s))
    BY <1>1, BlocksOnPaths
  <2>3. \A s \in R : s \in StartsOf(prog[h])
    BY <2>2 DEF IsBlock
  <2> QED
    BY <2>1, <2>3 DEF GraphOf
<1>4. ASSUME NEW s \in R, Leaves(h, ret)[s],
             \A t \in R : s < t /\ Leaves(h, ret)[t] => Determined(h, t, p, q, r)
      PROVE  Determined(h, s, p, q, r)
  <2>1. Passes(h, s, ret) /\ \E x \in Onward(h, s) :
           T(s, x) = n0 \/ (T(s, x) \in DOMAIN graphs[h] /\ Leaves(h, ret)[T(s, x)])
    BY <1>1, <1>3, <1>4, LeavesIs
  <2>2. PICK x \in Onward(h, s) :
           T(s, x) = n0 \/ (T(s, x) \in DOMAIN graphs[h] /\ Leaves(h, ret)[T(s, x)])
    BY <2>1
  <2> DEFINE t == T(s, x)
  <2>3. s < t /\ (t # n0 => t \in R)
    BY <1>1, EdgesOnward
  <2>4. SteadyBlock(h, s)
    BY <2>1, PassingIsSteady
  <2>5. d[h][s][e(s)] = b[h][s][e(s)]
    BY <1>1, <2>4, SteadyDepths
  <2>6. /\ d[h][s][e(s)] \in Int /\ r[h][s] \in Int
        /\ d[h][s][e(s)] >= - r[h][s]
    BY <1>1, <2>4, SteadyReach
  <2>7. /\ p[h][s] \in Int /\ q[h][s] \in Int
        /\ \A u \in R : p[h][u] \in Int /\ q[h][u] \in Int /\ r[h][u] \in Int
    BY DEF Explains, Fits, BlockFits
  <2>8. /\ p[h][s] = d[h][s][e(s)] + (IF t = n0 THEN 0 ELSE p[h][t])
        /\ q[h][s] = b[h][s][e(s)] + (IF t = n0 THEN 0 ELSE q[h][t])
    BY DEF Explains, EdgesAgree
  <2>9. t # n0 => r[h][s] >= r[h][t] - d[h][s][e(s)]
    <3>1. BlockFits(C, reach, d[h][s], r[h], h, s)
      BY DEF Fits
    <3> QED
      BY <3>1 DEF BlockFits
  <2>10. t # n0 => p[h][t] = q[h][t] /\ p[h][t] >= - r[h][t] /\ t \in R
    BY <1>4, <2>2, <2>3 DEF Determined
  <2> HIDE DEF t, n0, R, e
  <2>11. CASE t = n0
    BY <2>5, <2>6, <2>7, <2>8, <2>11 DEF Determined
  <2>12. CASE t # n0
    <3>1. p[h][t] \in Int /\ q[h][t] \in Int /\ r[h][t] \in Int
      BY <2>7, <2>10, <2>12
    <3> QED
      BY <2>5, <2>6, <2>7, <2>8, <2>9, <2>10, <2>12, <3>1 DEF Determined
  <2> QED
    BY <2>11, <2>12
<1> HIDE DEF n0, R
<1>5. 0 \in S
  <2>1. \A s \in R : ~ (s >= n0 - 0)
    BY <1>2
  <2> HIDE DEF Determined
  <2> QED
    BY <1>2, <2>1
<1>6. ASSUME NEW n \in 0..(n0 - 1), n \in S PROVE n + 1 \in S
  <2>1. n + 1 \in 0..n0
    BY <1>2
  <2>2. ASSUME NEW s \in R, s >= n0 - (n + 1), Leaves(h, ret)[s]
        PROVE  Determined(h, s, p, q, r)
    <3>1. ASSUME NEW t \in R, s < t, Leaves(h, ret)[t] PROVE Determined(h, t, p, q, r)
      <4>1. s \in Int /\ t \in Int /\ n0 \in Int /\ n \in Int
        BY <1>2
      <4>2. t >= n0 - n
        BY <2>2, <3>1, <4>1
      <4> QED
        BY <1>6, <3>1, <4>2
    <3> QED
      BY <1>4, <2>2, <3>1
  <2> QED
    BY <2>1, <2>2
<1>7. \A n \in 0..n0 : n \in S
  <2> HIDE DEF S
  <2> QED
    BY <1>2, <1>5, <1>6, InductionUpTo
<1>8. n0 \in S
  BY <1>2, <1>7
<1>9. \A s \in R : s >= n0 - n0
  BY <1>2
<1> QED
  BY <1>8, <1>9 DEF R

\* A function whose path to the end passes only good functions is good.
LEMMA LeavingIsGood ==
    ASSUME AnalysisInv, SoundInv, NEW h \in DOMAIN sigs, NEW ret, GoodIn(ret), ReturnsIn(h, ret)
    PROVE  Good(h)
<1>1. /\ GraphsInv /\ h \in DOMAIN prog /\ sigs[h] \in Sig
  BY DEF AnalysisInv, TypeOK
<1>2. PICK C, p, d, r, reach : AccountOf(h, C, p, d, r, reach)
  BY DEF AnalysisInv, Accounted
<1>3. /\ h \in C /\ C \subseteq DOMAIN sigs /\ Explains(C, p, d) /\ Fits(C, reach, d, r)
      /\ \A g \in C : reach[g] = sigs[g].reach
      /\ ~ sigs[h].never => sigs[h].delta = NumOf(p, h)
      /\ sigs[h].never => \E q, e : Explains(C, q, e) /\ NumOf(q, h) # NumOf(p, h)
  BY <1>2 DEF AccountOf
<1> DEFINE R == ReachableBlocks(graphs[h])
<1>4. R # {} => 0 \in R /\ Leaves(h, ret)[0]
  <2>1. R # {} => 0 \in R
    BY <1>1, BlocksOnPaths
  <2>2. R = {} <=> Len(prog[h]) = 0
    BY <1>1, BlocksOnPaths
  <2>3. R # {} => DOMAIN graphs[h] # {}
    <3>1. IsCode(prog[h]) /\ graphs[h] = GraphOf(prog[h])
      BY <1>1, ProgramIsCode
    <3>2. \A s \in R : IsBlock(prog[h], s, graphs[h][s].end)
      BY <1>1, BlocksOnPaths
    <3>3. \A s \in R : s \in StartsOf(prog[h])
      BY <3>2 DEF IsBlock
    <3> QED
      BY <3>1, <3>3 DEF GraphOf
  <2> QED
    BY <2>1, <2>3 DEF ReturnsIn
<1>5. ASSUME NEW D, NEW q, NEW b, Explains(D, q, b), h \in D
      PROVE  NumOf(q, h) = NumOf(p, h) /\ NumOf(p, h) >= - reach[h]
  <2>1. CASE R = {}
    <3>1. reach[h] = 0
      BY <1>3, <2>1 DEF Fits
    <3> QED
      BY <2>1, <3>1 DEF NumOf
  <2>2. CASE R # {}
    <3>1. \A s \in R : Leaves(h, ret)[s] => Determined(h, s, p, q, r)
      BY <1>3, <1>5, LeavingIsDetermined
    <3>2. Determined(h, 0, p, q, r)
      BY <1>4, <2>2, <3>1
    <3>3. reach[h] = r[h][0]
      BY <1>3, <2>2 DEF Fits
    <3> QED
      BY <2>2, <3>2, <3>3 DEF NumOf, Determined
  <2> QED
    BY <2>1, <2>2
<1>6. ~ sigs[h].never
  BY <1>3, <1>5
<1>7. sigs[h].delta = NumOf(p, h) /\ NumOf(p, h) >= - sigs[h].reach
  BY <1>3, <1>5, <1>6
<1> QED
  BY <1>5, <1>6, <1>7 DEF Good

\* So every function that returns is good, by induction over Returning.
LEMMA ReturningIsGood ==
    ASSUME AnalysisInv, SoundInv
    PROVE  GoodIn(Returning)
<1> DEFINE m == Cardinality(DOMAIN prog)
           S == {n \in 0..m : GoodIn(Returners[n])}
<1>1. IsFiniteSet(DOMAIN prog)
  BY ProgramsAssumption DEF AnalysisInv, TypeOK
<1>2. /\ m \in Nat /\ Returners[0] = {}
      /\ \A i \in 1..m : Returners[i] = {name \in DOMAIN prog : ReturnsIn(name, Returners[i - 1])}
  BY <1>1, ReturnersObey
<1> HIDE DEF m
<1>3. 0 \in S
  BY <1>2 DEF GoodIn
<1>4. ASSUME NEW n \in 0..(m - 1), n \in S PROVE n + 1 \in S
  <2>1. n + 1 \in 1..m /\ n + 1 \in 0..m /\ (n + 1) - 1 = n
    BY <1>2
  <2>2. GoodIn(Returners[n])
    BY <1>4
  <2>3. ASSUME NEW f \in Returners[n + 1] \cap DOMAIN sigs PROVE Good(f)
    <3>1. ReturnsIn(f, Returners[n])
      BY <1>2, <2>1
    <3> QED
      BY <2>2, <3>1, LeavingIsGood
  <2> QED
    BY <2>1, <2>3 DEF GoodIn
<1>5. \A n \in 0..m : n \in S
  <2> HIDE DEF S
  <2> QED
    BY <1>2, <1>3, <1>4, InductionUpTo
<1> QED
  BY <1>2, <1>5, ReturningIs DEF m

-----------------------------------------------------------------------------
\* The theorem types.rs:162 states, "total delta >= -(peak reach)", of every
\* solved function that can return, with any recursion and any solution that
\* the solver may give.
THEOREM TheoremOfClac == Spec => []ClacTheorem
<1>1. AnalysisInv /\ SoundInv => ClacTheorem
  BY ReturningIsGood DEF ClacTheorem, GoodIn, Good
<1> QED
  BY <1>1, AnalysisInvariant, SoundInvariant, PTL

\* A function whose delta the solver finds ambiguous, and which gets the never
\* type for it, has no path that returns, through whatever it calls.
THEOREM NeverTypeIsRight == Spec => []NeverIsRight
<1>1. AnalysisInv /\ SoundInv => NeverIsRight
  BY ReturningIsGood DEF NeverIsRight, GoodIn, Good
<1> QED
  BY <1>1, AnalysisInvariant, SoundInvariant, PTL

-----------------------------------------------------------------------------
\* Functions that cannot return.  The constants of h, when all that it calls is
\* solved, are its only variables.
Constants(h) == DeltasOf({h}, {})

\* Assignment k is c with the constants at the positions P of h raised by K.
Raises(h, P, K, c, k) ==
    /\ c[One] = 1 /\ K \in Int
    /\ \A v \in Constants(h) : c[v] \in Int
    /\ k[One] = 1
    /\ \A j \in Nat : k[Anything(h, j)] = c[Anything(h, j)] + (IF j \in P THEN K ELSE 0)

\* Of the blocks of h those in runs are run, and no others: stops are those of
\* them that do not pass, each with a never-typed instruction, the one `at'.
Stuck(h, runs, stops, at) ==
    /\ runs \subseteq ReachableBlocks(graphs[h]) /\ stops \subseteq runs
    /\ \A s \in stops : /\ at[s] \in DOMAIN CodeOf(h, s)
                        /\ Delta(CodeOf(h, s)[at[s]], sigs).tag = "anything"
    /\ \A s \in ReachableBlocks(graphs[h]) : \A x \in Onward(h, s) :
          graphs[h][s].term.targets[x] \in runs <=> s \in runs \ stops

\* Where the constants are that give the blocks that run their deltas.
Opened(h, runs, stops, at) ==
    {at[s] : s \in stops} \cup {graphs[h][s].end - 1 : s \in {u \in runs : Onward(h, u) = {}}}

\* A function that calls nothing but what is solved.
Alone(h) == Solvable({h}) /\ CallsOnly({h}, {})

LEMMA BlocksDisjoint ==
    ASSUME GraphsInv, NEW h \in DOMAIN prog,
           NEW s \in ReachableBlocks(graphs[h]), NEW u \in ReachableBlocks(graphs[h]),
           NEW j \in s..(graphs[h][s].end - 1), j \in u..(graphs[h][u].end - 1)
    PROVE  s = u
<1>1. IsCode(prog[h])
  BY ProgramIsCode
<1>2. IsBlock(prog[h], s, graphs[h][s].end) /\ IsBlock(prog[h], u, graphs[h][u].end)
  BY BlocksOnPaths
<1>3. StartAt(prog[h], j) = s
  BY <1>1, <1>2, PositionInBlock
<1>4. StartAt(prog[h], j) = u
  BY <1>1, <1>2, PositionInBlock
<1> QED
  BY <1>3, <1>4

\* In a block that leads on, only the instruction `at' is opened.
LEMMA OpenedInBlock ==
    ASSUME GraphsInv, NEW h \in DOMAIN prog, NEW runs, NEW stops, NEW at, Stuck(h, runs, stops, at),
           NEW s \in ReachableBlocks(graphs[h]), Onward(h, s) # {},
           NEW j \in s..(graphs[h][s].end - 1)
    PROVE  j \in Opened(h, runs, stops, at) <=> s \in stops /\ j = at[s]
<1>1. ASSUME NEW u \in stops, j = at[u] PROVE u = s
  <2>1. u \in ReachableBlocks(graphs[h]) /\ at[u] \in DOMAIN CodeOf(h, u)
    BY DEF Stuck
  <2>2. j \in u..(graphs[h][u].end - 1)
    BY <1>1, <2>1, CodeIsTyped
  <2> QED
    BY <2>1, <2>2, BlocksDisjoint
<1>2. ASSUME NEW u \in runs, Onward(h, u) = {} PROVE j # graphs[h][u].end - 1
  <2>1. u \in ReachableBlocks(graphs[h])
    BY DEF Stuck
  <2>2. graphs[h][u].end \in Nat /\ u < graphs[h][u].end /\ u \in Nat
    BY <2>1, BlocksOnPaths
  <2>3. graphs[h][u].end - 1 \in u..(graphs[h][u].end - 1)
    BY <2>2
  <2>4. u # s
    BY <1>2
  <2> QED
    BY <2>1, <2>3, <2>4, BlocksDisjoint
<1> QED
  BY <1>1, <1>2 DEF Opened

\* Terms over the constants have values.
LEMMA ConstantsAssign ==
    ASSUME NEW h, NEW P, NEW K, NEW c, NEW k, Raises(h, P, K, c, k),
           NEW t, TermOver(t, Constants(h))
    PROVE  /\ IsTerm(t) /\ Assigns(c, t) /\ Assigns(k, t)
           /\ Value(t, c) \in Int /\ Value(t, k) \in Int
<1>1. \A v \in Constants(h) : v = One \/ \E j \in Nat : v = Anything(h, j)
  BY DEF Constants, DeltasOf
<1>2. \A j \in Nat : Anything(h, j) \in Constants(h)
  BY DEF Constants, DeltasOf
<1>3. \A v \in Constants(h) : c[v] \in Int /\ k[v] \in Int
  <2> TAKE v \in Constants(h)
  <2>1. CASE v = One
    BY <2>1 DEF Raises
  <2>2. CASE \E j \in Nat : v = Anything(h, j)
    <3>1. PICK j \in Nat : v = Anything(h, j)
      BY <2>2
    <3>2. k[v] = c[v] + (IF j \in P THEN K ELSE 0) /\ c[v] \in Int /\ K \in Int
      BY <3>1 DEF Raises
    <3> QED
      BY <3>2
  <2> QED
    BY <1>1, <2>1, <2>2
<1>4. IsTerm(t) /\ Assigns(c, t) /\ Assigns(k, t)
  BY <1>3 DEF TermOver, Assigns
<1> QED
  BY <1>4, ValueOfPlus

LEMMA InstrRaised ==
    ASSUME NEW h, Alone(h), NEW runs, NEW stops, NEW at, Stuck(h, runs, stops, at),
           NEW K, NEW c, NEW k, Raises(h, Opened(h, runs, stops, at), K, c, k),
           NEW s \in ReachableBlocks(graphs[h]), Onward(h, s) # {}, NEW j \in DOMAIN CodeOf(h, s)
    PROVE  /\ TermOver(DeltaTerm(h, j, CodeOf(h, s)[j]), Constants(h))
           /\ Value(DeltaTerm(h, j, CodeOf(h, s)[j]), k)
                = Value(DeltaTerm(h, j, CodeOf(h, s)[j]), c)
                  + (IF s \in stops /\ j = at[s] THEN K ELSE 0)
<1> DEFINE x == CodeOf(h, s)[j]
           P == Opened(h, runs, stops, at)
<1>1. GraphsInv /\ h \in DOMAIN prog /\ Solvable({h}) /\ CallsOnly({h}, {})
  BY DEF Alone, Solvable
<1>2. TermOver(DeltaTerm(h, j, x), Constants(h))
  BY <1>1, InstrTermsOn DEF Constants
<1>3. j \in s..(graphs[h][s].end - 1)
  BY <1>1, CodeIsTyped
<1>4. j \in P <=> s \in stops /\ j = at[s]
  BY <1>1, <1>3, OpenedInBlock
<1>5. /\ c[One] = 1 /\ k[One] = 1 /\ K \in Int
      /\ \A v \in Constants(h) : c[v] \in Int
      /\ \A i \in Nat : k[Anything(h, i)] = c[Anything(h, i)] + (IF i \in P THEN K ELSE 0)
  BY DEF Raises
<1>6. \A y : y = CodeOf(h, s)[j] =>
        /\ \/ Delta(y, sigs).tag = "ok" /\ Delta(y, sigs).val \in Int
           \/ Delta(y, sigs).tag = "anything"
           \/ Delta(y, sigs).tag = "unresolved" /\ y.op = "call"
        /\ j \in Nat
  BY <1>1, CodeIsDeterminable
<1>7. s \in stops /\ j = at[s] => Delta(x, sigs).tag = "anything"
  BY DEF Stuck
<1>8. x.op = "call" => x.f \in DOMAIN sigs
  BY <1>1 DEF CallsOnly
<1>9. x.op = "call" /\ Delta(x, sigs).tag = "unresolved" => x.f \notin DOMAIN sigs
  BY DEF Delta, Ok, Err, FixedOps
<1>10. /\ \/ Delta(x, sigs).tag = "ok" /\ Delta(x, sigs).val \in Int
          \/ Delta(x, sigs).tag = "anything"
       /\ j \in Nat
  BY <1>6, <1>8, <1>9
<1> HIDE DEF x, P
<1>11. CASE Delta(x, sigs).tag = "ok" /\ Delta(x, sigs).val \in Int
  <2>1. DeltaTerm(h, j, x) = Const(Delta(x, sigs).val)
    BY <1>11 DEF DeltaTerm
  <2>2. /\ Value(Const(Delta(x, sigs).val), c) = Delta(x, sigs).val
        /\ Value(Const(Delta(x, sigs).val), k) = Delta(x, sigs).val
    BY <1>5, <1>11, ValueOfConst
  <2>3. ~ (s \in stops /\ j = at[s])
    BY <1>7, <1>11
  <2> QED
    BY <1>2, <1>11, <2>1, <2>2, <2>3 DEF x
<1>12. CASE Delta(x, sigs).tag = "anything"
  <2>1. DeltaTerm(h, j, x) = Var(Anything(h, j))
    BY <1>12 DEF DeltaTerm
  <2>2. Anything(h, j) \in Constants(h)
    BY <1>10 DEF Constants, DeltasOf
  <2>3. c[Anything(h, j)] \in Int /\ k[Anything(h, j)] = c[Anything(h, j)] + (IF j \in P THEN K ELSE 0)
    BY <1>5, <1>10, <2>2
  <2>4. k[Anything(h, j)] \in Int
    BY <1>5, <2>3
  <2>5. /\ Value(Var(Anything(h, j)), c) = c[Anything(h, j)]
        /\ Value(Var(Anything(h, j)), k) = k[Anything(h, j)]
    BY <2>3, <2>4, ValueOfVar
  <2> QED
    BY <1>2, <1>4, <2>1, <2>3, <2>5 DEF x
<1> QED
  BY <1>10, <1>11, <1>12

\* A block that stops adds K more.
LEMMA BlockRaised ==
    ASSUME NEW h, Alone(h), NEW runs, NEW stops, NEW at, Stuck(h, runs, stops, at),
           NEW K, NEW c, NEW k, Raises(h, Opened(h, runs, stops, at), K, c, k),
           NEW s \in ReachableBlocks(graphs[h]), Onward(h, s) # {}
    PROVE  Value(BlockTerms(h, s).delta, k) = Value(BlockTerms(h, s).delta, c)
                                              + (IF s \in stops THEN K ELSE 0)
<1> DEFINE e == graphs[h][s].end
           Gain(j) == IF s \in stops /\ at[s] < j THEN K ELSE 0
<1>1. GraphsInv /\ h \in DOMAIN prog /\ Solvable({h}) /\ CallsOnly({h}, {})
  BY DEF Alone, Solvable
<1>2. s \in Nat /\ e \in Nat /\ s < e
  BY <1>1, BlocksOnPaths
<1>3. PICK depths : AreDepths(h, s, depths) /\ BlockTerms(h, s).delta = depths[e]
  BY <1>2, BlockTermsAre
<1>4. \A j \in s..e : TermOver(depths[j], Constants(h))
  BY <1>1, <1>3, DepthTermsOn DEF Constants
<1>5. /\ depths[s] = Const(0)
      /\ \A j \in s..(e - 1) :
            depths[j + 1] = IF j \in DOMAIN CodeOf(h, s)
                           THEN Plus(depths[j], DeltaTerm(h, j, CodeOf(h, s)[j]))
                           ELSE depths[j]
  BY <1>3 DEF AreDepths
<1>6. K \in Int /\ c[One] = 1 /\ k[One] = 1
  BY DEF Raises
<1>7. s \in stops => at[s] \in s..(e - 1) /\ at[s] \in DOMAIN CodeOf(h, s)
  BY <1>1, CodeIsTyped DEF Stuck
<1> HIDE DEF e
<1> DEFINE Q == {i \in 0..(e - s) :
                   Value(depths[s + i], k) = Value(depths[s + i], c) + Gain(s + i)}
<1>8. 0 \in Q
  <2>1. Value(Const(0), c) = 0 /\ Value(Const(0), k) = 0
    BY <1>6, ValueOfConst
  <2>2. Gain(s) = 0
    BY <1>2, <1>7
  <2>3. s + 0 = s /\ 0 \in 0..(e - s)
    BY <1>2
  <2> HIDE DEF Gain
  <2> QED
    BY <1>5, <2>1, <2>2, <2>3
<1>9. ASSUME NEW i \in 0..((e - s) - 1), i \in Q PROVE i + 1 \in Q
  <2> DEFINE j == s + i
             T == DeltaTerm(h, j, CodeOf(h, s)[j])
  <2>1. j \in s..(e - 1) /\ j \in s..e /\ j + 1 \in s..e /\ s + (i + 1) = j + 1 /\ i + 1 \in 0..(e - s)
    BY <1>2
  <2>2. Value(depths[j], k) = Value(depths[j], c) + Gain(j)
    BY <1>9
  <2>3. TermOver(depths[j], Constants(h))
    BY <1>4, <2>1
  <2>4. IsTerm(depths[j]) /\ Assigns(c, depths[j]) /\ Assigns(k, depths[j])
        /\ Value(depths[j], c) \in Int /\ Value(depths[j], k) \in Int
    BY <2>3, ConstantsAssign
  <2> HIDE DEF j, T
  <2>5. CASE j \in DOMAIN CodeOf(h, s)
    <3>1. /\ TermOver(T, Constants(h))
          /\ Value(T, k) = Value(T, c) + (IF s \in stops /\ j = at[s] THEN K ELSE 0)
      BY <2>5, InstrRaised DEF T
    <3>2. IsTerm(T) /\ Assigns(c, T) /\ Assigns(k, T) /\ Value(T, c) \in Int /\ Value(T, k) \in Int
      BY <3>1, ConstantsAssign
    <3>3. depths[j + 1] = Plus(depths[j], T)
      BY <1>5, <2>1, <2>5 DEF T
    <3>4. /\ Value(Plus(depths[j], T), c) = Value(depths[j], c) + Value(T, c)
          /\ Value(Plus(depths[j], T), k) = Value(depths[j], k) + Value(T, k)
      BY <2>4, <3>2, ValueOfPlus
    <3>5. Gain(j + 1) = Gain(j) + (IF s \in stops /\ j = at[s] THEN K ELSE 0)
      BY <1>2, <1>6, <1>7, <2>1
    <3>6. Gain(j) \in Int
      BY <1>6
    <3> HIDE DEF Gain
    <3>7. Value(depths[j + 1], k) = Value(depths[j + 1], c) + Gain(j + 1)
      BY <1>6, <2>2, <2>4, <3>1, <3>2, <3>3, <3>4, <3>5, <3>6
    <3> QED
      BY <2>1, <3>7
  <2>6. CASE j \notin DOMAIN CodeOf(h, s)
    <3>1. depths[j + 1] = depths[j]
      BY <1>5, <2>1, <2>6
    <3>2. s \in stops => j # at[s]
      BY <1>7, <2>6
    <3>3. Gain(j + 1) = Gain(j)
      BY <1>2, <1>7, <2>1, <3>2
    <3> HIDE DEF Gain
    <3> QED
      BY <2>1, <2>2, <3>1, <3>3
  <2> QED
    BY <2>5, <2>6
<1>10. e - s \in Q
  <2>1. \A i \in 0..((e - s) - 1) : i \in Q => i + 1 \in Q
    BY <1>9
  <2>2. e - s \in Nat /\ e - s \in 0..(e - s)
    BY <1>2
  <2> HIDE DEF Q
  <2> QED
    BY <1>8, <2>1, <2>2, InductionUpTo
<1>11. Value(depths[e], k) = Value(depths[e], c) + Gain(e)
  <2>1. s + (e - s) = e
    BY <1>2
  <2> HIDE DEF Gain
  <2> QED
    BY <1>10, <2>1
<1>12. Gain(e) = IF s \in stops THEN K ELSE 0
  BY <1>2, <1>7
<1> HIDE DEF Gain
<1> QED
  BY <1>3, <1>11, <1>12 DEF e

\* Induction over the blocks of a function from its end.
LEMMA BlocksBackward ==
    ASSUME GraphsInv, NEW h \in DOMAIN prog, NEW P,
           \A s \in ReachableBlocks(graphs[h]) :
               (\A t \in ReachableBlocks(graphs[h]) : s < t => t \in P) => s \in P
    PROVE  ReachableBlocks(graphs[h]) \subseteq P
<1> DEFINE R == ReachableBlocks(graphs[h])
           n == Len(prog[h])
           Q == {m \in 0..n : \A s \in R : s >= n - m => s \in P}
<1>1. n \in Nat /\ R \subseteq 0..(n - 1)
  BY BlocksOnPaths
<1>2. \A s \in R : (\A t \in R : s < t => t \in P) => s \in P
  OBVIOUS
<1> HIDE DEF R, n
<1>3. 0 \in Q
  BY <1>1
<1>4. ASSUME NEW m \in 0..(n - 1), m \in Q PROVE m + 1 \in Q
  <2>1. ASSUME NEW s \in R, s >= n - (m + 1) PROVE s \in P
    <3>1. ASSUME NEW t \in R, s < t PROVE t \in P
      <4>1. t >= n - m
        BY <1>1, <2>1, <3>1
      <4> QED
        BY <1>4, <4>1
    <3> QED
      BY <1>2, <3>1
  <2>2. m + 1 \in 0..n
    BY <1>1
  <2> QED
    BY <2>1, <2>2
<1>5. n \in 0..n /\ \A m \in 0..n : m \in Q
  <2> HIDE DEF Q
  <2> QED
    BY <1>1, <1>3, <1>4, InductionUpTo
<1>6. ASSUME NEW s \in R PROVE s \in P
  <2>1. s >= n - n
    BY <1>1
  <2> QED
    BY <1>5, <2>1
<1> QED
  BY <1>6 DEF R

\* Two assignments to the constants of a function that cannot return, the second
\* with those raised that the blocks that run depend on.
Setting(h, runs, stops, at, K, c, k) ==
    Alone(h) /\ Stuck(h, runs, stops, at) /\ Raises(h, Opened(h, runs, stops, at), K, c, k)

\* The paths from a block that runs gain K more.
Gains(runs, K, c, k, s, t) == Value(t, k) = Value(t, c) + (IF s \in runs THEN K ELSE 0)

\* The terms of its paths.
LEMMA ConstantPaths ==
    ASSUME NEW h, Alone(h), NEW s \in ReachableBlocks(graphs[h])
    PROVE  /\ TermOver(PathTerms(h)[s].delta, Constants(h))
           /\ PathTerms(h)[s] = PathStep(h, PathTerms(h), s)
           /\ \A x \in Onward(h, s) :
                 LET t == graphs[h][s].term.targets[x]
                     e == EdgeDelta(h, PathTerms(h), s, x)
                 IN /\ TermOver(e, Constants(h))
                    /\ t = Len(prog[h]) => e = BlockTerms(h, s).delta
                    /\ t # Len(prog[h]) =>
                         /\ t \in ReachableBlocks(graphs[h]) /\ s < t
                         /\ e = Plus(BlockTerms(h, s).delta, PathTerms(h)[t].delta)
<1>1. /\ Solvable({h}) /\ CallsOnly({h}, {}) /\ GraphsInv /\ h \in DOMAIN prog
  BY DEF Alone, Solvable
<1> DEFINE p == PathTerms(h)
<1>2. \A u \in ReachableBlocks(graphs[h]) : TypedOn({h}, {}, p[u])
  BY <1>1, PathTermsOn
<1>3. TermOver(p[s].delta, Constants(h))
  BY <1>2 DEF TypedOn, Constants
<1>4. p[s] = PathStep(h, p, s)
  BY <1>1, PathTermsAre
<1> HIDE DEF p
<1>5. AheadTyped({h}, {}, h, s, p)
  BY <1>2 DEF AheadTyped
<1>6. \A x \in Onward(h, s) : EdgeIs({h}, {}, h, s, p, x)
  BY <1>1, <1>5, EdgeKnown
<1> QED
  BY <1>3, <1>4, <1>6 DEF EdgeIs, Constants, p

LEMMA EdgeRaised ==
    ASSUME NEW h, NEW runs, NEW stops, NEW at, NEW K, NEW c, NEW k,
           Setting(h, runs, stops, at, K, c, k),
           NEW s \in ReachableBlocks(graphs[h]), NEW x \in Onward(h, s),
           \A t \in ReachableBlocks(graphs[h]) : s < t => Gains(runs, K, c, k, t, PathTerms(h)[t].delta)
    PROVE  Gains(runs, K, c, k, s, EdgeDelta(h, PathTerms(h), s, x))
<1> DEFINE own == BlockTerms(h, s).delta
           t == graphs[h][s].term.targets[x]
           e == EdgeDelta(h, PathTerms(h), s, x)
           u == PathTerms(h)[t].delta
           P == Opened(h, runs, stops, at)
<1>1. /\ Alone(h) /\ Stuck(h, runs, stops, at) /\ Raises(h, P, K, c, k) /\ K \in Int
  BY DEF Setting, Raises
<1>2. /\ GraphsInv /\ h \in DOMAIN prog /\ Onward(h, s) # {}
  BY <1>1 DEF Alone, Solvable
<1>3. Value(own, k) = Value(own, c) + (IF s \in stops THEN K ELSE 0)
  BY <1>1, <1>2, BlockRaised
<1>4. /\ TermOver(e, Constants(h))
      /\ t = Len(prog[h]) => e = own
      /\ t # Len(prog[h]) => t \in ReachableBlocks(graphs[h]) /\ s < t /\ e = Plus(own, u)
  BY <1>1, ConstantPaths
<1>5. TermOver(own, Constants(h))
  <2>1. Solvable({h}) /\ CallsOnly({h}, {})
    BY <1>1 DEF Alone
  <2> QED
    BY <2>1, BlockTermsOn DEF Constants
<1>6. t \in runs <=> s \in runs \ stops
  BY <1>1 DEF Stuck
<1>7. stops \subseteq runs /\ runs \subseteq ReachableBlocks(graphs[h])
  BY <1>1 DEF Stuck
<1>8. IsTerm(own) /\ Assigns(c, own) /\ Assigns(k, own) /\ Value(own, c) \in Int /\ Value(own, k) \in Int
  BY <1>1, <1>5, ConstantsAssign
<1>9. CASE t = Len(prog[h])
  <2>1. t \notin runs
    <3>1. ReachableBlocks(graphs[h]) \subseteq 0..(Len(prog[h]) - 1) /\ Len(prog[h]) \in Nat
      BY <1>2, BlocksOnPaths
    <3> HIDE DEF t
    <3> QED
      BY <1>7, <1>9, <3>1
  <2>2. s \in runs <=> s \in stops
    BY <1>6, <1>7, <2>1
  <2> HIDE DEF own, t, e
  <2> QED
    BY <1>3, <1>4, <1>9, <2>2 DEF Gains, e
<1>10. CASE t # Len(prog[h])
  <2>1. TermOver(u, Constants(h)) /\ Gains(runs, K, c, k, t, u)
    BY <1>1, <1>4, <1>10, ConstantPaths
  <2>2. IsTerm(u) /\ Assigns(c, u) /\ Assigns(k, u) /\ Value(u, c) \in Int /\ Value(u, k) \in Int
    BY <1>1, <2>1, ConstantsAssign
  <2> HIDE DEF own, t, u, P
  <2>3. /\ Value(Plus(own, u), c) = Value(own, c) + Value(u, c)
        /\ Value(Plus(own, u), k) = Value(own, k) + Value(u, k)
    BY <1>8, <2>2, ValueOfPlus
  <2>4. Value(u, k) = Value(u, c) + (IF t \in runs THEN K ELSE 0)
    BY <2>1 DEF Gains
  <2>5. (IF s \in stops THEN K ELSE 0) + (IF t \in runs THEN K ELSE 0) = IF s \in runs THEN K ELSE 0
    BY <1>1, <1>6, <1>7
  <2>6. Value(Plus(own, u), k) = Value(Plus(own, u), c) + (IF s \in runs THEN K ELSE 0)
    BY <1>1, <1>3, <1>8, <2>2, <2>3, <2>4, <2>5
  <2>7. e = Plus(own, u)
    BY <1>4, <1>10
  <2> HIDE DEF e
  <2> QED
    BY <2>6, <2>7 DEF Gains, e
<1> QED
  BY <1>9, <1>10

\* A block whose edges all trap has one constant for its paths.
LEMMA TrapRaised ==
    ASSUME NEW h, NEW runs, NEW stops, NEW at, NEW K, NEW c, NEW k,
           Setting(h, runs, stops, at, K, c, k),
           NEW s \in ReachableBlocks(graphs[h]), Onward(h, s) = {}
    PROVE  Gains(runs, K, c, k, s, PathTerms(h)[s].delta)
<1> DEFINE j == graphs[h][s].end - 1
           P == Opened(h, runs, stops, at)
<1>1. /\ Alone(h) /\ Stuck(h, runs, stops, at) /\ Raises(h, P, K, c, k)
      /\ GraphsInv /\ h \in DOMAIN prog
  BY DEF Setting, Alone, Solvable
<1>2. /\ \A u \in ReachableBlocks(graphs[h]) :
           u \in Nat /\ graphs[h][u].end \in Nat /\ u < graphs[h][u].end
      /\ stops \subseteq runs /\ runs \subseteq ReachableBlocks(graphs[h])
  BY <1>1, BlocksOnPaths DEF Stuck
<1>3. j \in Nat /\ j \in s..(graphs[h][s].end - 1)
  BY <1>2
<1>4. ASSUME NEW u \in stops, j = at[u] PROVE u = s
  <2>1. u \in ReachableBlocks(graphs[h]) /\ at[u] \in DOMAIN CodeOf(h, u)
    BY <1>1, <1>2 DEF Stuck
  <2>2. j \in u..(graphs[h][u].end - 1)
    BY <1>1, <1>4, <2>1, CodeIsTyped
  <2> HIDE DEF j
  <2> QED
    BY <1>1, <1>3, <2>1, <2>2, BlocksDisjoint
<1>5. ASSUME NEW u \in runs, j = graphs[h][u].end - 1 PROVE u = s
  <2>1. u \in ReachableBlocks(graphs[h])
    BY <1>2
  <2>2. j \in u..(graphs[h][u].end - 1)
    BY <1>2, <1>5, <2>1
  <2> HIDE DEF j
  <2> QED
    BY <1>1, <1>3, <2>1, <2>2, BlocksDisjoint
<1>6. j \in P <=> s \in runs
  BY <1>2, <1>4, <1>5 DEF Opened
<1>7. PathTerms(h)[s].delta = Var(Anything(h, j))
  <2>1. PathTerms(h)[s] = PathStep(h, PathTerms(h), s)
    BY <1>1, ConstantPaths
  <2> QED
    BY <2>1 DEF PathStep
<1> HIDE DEF j, P
<1>8. /\ k[Anything(h, j)] = c[Anything(h, j)] + (IF j \in P THEN K ELSE 0)
      /\ c[Anything(h, j)] \in Int /\ K \in Int
  BY <1>1, <1>3 DEF Raises, Constants, DeltasOf
<1>9. k[Anything(h, j)] \in Int
  BY <1>8
<1>10. /\ Value(Var(Anything(h, j)), c) = c[Anything(h, j)]
       /\ Value(Var(Anything(h, j)), k) = k[Anything(h, j)]
  BY <1>8, <1>9, ValueOfVar
<1> QED
  BY <1>6, <1>7, <1>8, <1>10 DEF Gains

LEMMA PathsRaised ==
    ASSUME NEW h, NEW runs, NEW stops, NEW at, NEW K, NEW c, NEW k,
           Setting(h, runs, stops, at, K, c, k)
    PROVE  \A s \in ReachableBlocks(graphs[h]) :
              /\ Gains(runs, K, c, k, s, PathTerms(h)[s].delta)
              /\ \A x \in Onward(h, s) : Gains(runs, K, c, k, s, EdgeDelta(h, PathTerms(h), s, x))
<1> DEFINE R == ReachableBlocks(graphs[h])
           P == {s \in R : Gains(runs, K, c, k, s, PathTerms(h)[s].delta)}
<1>1. Alone(h) /\ GraphsInv /\ h \in DOMAIN prog
  BY DEF Setting, Alone, Solvable
<1>2. ASSUME NEW s \in R, \A t \in R : s < t => t \in P
      PROVE  /\ s \in P
             /\ \A x \in Onward(h, s) : Gains(runs, K, c, k, s, EdgeDelta(h, PathTerms(h), s, x))
  <2>1. ASSUME NEW x \in Onward(h, s)
        PROVE  Gains(runs, K, c, k, s, EdgeDelta(h, PathTerms(h), s, x))
    BY <1>2, EdgeRaised
  <2>2. CASE Onward(h, s) = {}
    BY <2>2, <2>1, TrapRaised
  <2>3. CASE Onward(h, s) # {}
    <3>1. Min(Onward(h, s)) \in Onward(h, s)
      BY <1>1, <2>3, OnwardIsFinite
    <3>2. PathTerms(h)[s] = PathStep(h, PathTerms(h), s)
      BY <1>1, ConstantPaths
    <3>3. PathTerms(h)[s].delta = EdgeDelta(h, PathTerms(h), s, Min(Onward(h, s)))
      BY <2>3, <3>2 DEF PathStep
    <3> QED
      BY <2>1, <3>1, <3>3
  <2> QED
    BY <2>1, <2>2, <2>3
<1> HIDE DEF P
<1>3. R \subseteq P
  <2>1. \A s \in R : (\A t \in R : s < t => t \in P) => s \in P
    BY <1>2
  <2> QED
    BY <1>1, <2>1, BlocksBackward
<1>4. \A s \in R : \A x \in Onward(h, s) : Gains(runs, K, c, k, s, EdgeDelta(h, PathTerms(h), s, x))
  BY <1>2, <1>3
<1> QED
  BY <1>3, <1>4 DEF P

-----------------------------------------------------------------------------
\* A component that calls nothing of itself.
LEMMA ComponentIsAlone ==
    ASSUME NEW C, Solvable(C), CallsOnly(C, {}), NEW f \in C
    PROVE  Alone(f)
<1>1. CallsOnly({f}, {})
  BY DEF CallsOnly
<1>2. Determinable({f})
  <2> SUFFICES ASSUME NEW s \in ReachableBlocks(graphs[f]), NEW j \in DOMAIN CodeOf(f, s),
                      NEW x, x = CodeOf(f, s)[j]
               PROVE  /\ Reach(x, sigs).tag # "notdeterminable"
                      /\ Delta(x, sigs).tag # "notdeterminable"
                      /\ Reach(x, sigs).tag = "unresolved" => x.f \in {f}
    BY DEF Determinable
  <2>1. x.op = "call" => x.f \in DOMAIN sigs
    BY <1>1 DEF CallsOnly
  <2>2. /\ Reach(x, sigs).tag # "notdeterminable"
        /\ Delta(x, sigs).tag # "notdeterminable"
    BY DEF Solvable, Determinable
  <2>3. Reach(x, sigs).tag = "unresolved" => x.op = "call"
    BY CodeIsDeterminable DEF Ok
  <2>4. x.op = "call" /\ Reach(x, sigs).tag = "unresolved" => x.f \notin DOMAIN sigs
    BY DEF Reach, Ok, Err, FixedOps
  <2> QED
    BY <2>1, <2>2, <2>3, <2>4
<1> QED
  BY <1>1, <1>2 DEF Alone, Solvable

\* Its equations have constants only.
LEMMA OnlyConstants ==
    ASSUME NEW C, NEW sys, IsSystem(C, sys), CallsOnly(C, {})
    PROVE  UsedVars(sys) \subseteq {One} \cup {Anything(f, j) : f \in C, j \in Nat}
<1>1. Solvable(C) /\ sys = [h \in C |-> PathTerms(h)] /\ GraphsInv /\ C \subseteq DOMAIN prog
  BY DEF IsSystem, Solvable
<1>2. DOMAIN sys = C /\ \A f \in C : DOMAIN sys[f] = ReachableBlocks(graphs[f])
  BY <1>1, PathTermsAre
<1>3. ASSUME NEW f \in C, NEW s \in ReachableBlocks(graphs[f]),
             NEW t \in {sys[f][s].delta} \cup sys[f][s].reach
      PROVE  DOMAIN t \subseteq {One} \cup {Anything(g, j) : g \in C, j \in Nat}
  <2>1. Alone(f)
    BY <1>1, ComponentIsAlone
  <2>2. Solvable({f}) /\ CallsOnly({f}, {})
    BY <2>1 DEF Alone
  <2>3. \A u \in ReachableBlocks(graphs[f]) : TypedOn({f}, {}, PathTerms(f)[u])
    BY <2>2, PathTermsOn
  <2>4. TypedOn({f}, {}, sys[f][s])
    BY <1>1, <2>3
  <2>5. TermOver(t, VarsFor({f}, {}))
    <3>1. TermOver(sys[f][s].delta, DeltasOf({f}, {})) /\ ReachOn(sys[f][s].reach, {f}, {})
      BY <2>4 DEF TypedOn
    <3>2. CASE t = sys[f][s].delta
      BY <3>1, <3>2, VarsOfEquations DEF TermOver
    <3>3. CASE t \in sys[f][s].reach
      BY <3>1, <3>3 DEF ReachOn
    <3> QED
      BY <1>3, <3>2, <3>3
  <2>6. VarsFor({f}, {}) \subseteq {One} \cup {Anything(g, j) : g \in C, j \in Nat}
    BY DEF VarsFor, DeltasOf
  <2> QED
    BY <2>5, <2>6 DEF TermOver
<1> QED
  BY <1>2, <1>3 DEF UsedVars, Terms

\* The terms that the equations of f compare.
LEMMA ConstantTerms ==
    ASSUME NEW C, NEW sys, IsSystem(C, sys), CallsOnly(C, {}), NEW f \in C
    PROVE  /\ \A s \in ReachableBlocks(graphs[f]) : \A t \in sys[f][s].zero :
                 TermOver(t, Constants(f)) /\ DOMAIN t \subseteq UsedVars(sys)
           /\ TermOver(FuncDelta(sys[f]), Constants(f))
           /\ DOMAIN FuncDelta(sys[f]) \subseteq UsedVars(sys) \cup {One}
<1>1. Solvable(C) /\ sys[f] = PathTerms(f) /\ GraphsInv /\ f \in DOMAIN prog
  BY DEF IsSystem, Solvable
<1>2. Alone(f)
  BY <1>1, ComponentIsAlone
<1>3. ASSUME NEW s \in ReachableBlocks(graphs[f]), NEW t \in sys[f][s].zero
      PROVE  TermOver(t, Constants(f)) /\ DOMAIN t \subseteq UsedVars(sys)
  <2> DEFINE e(x) == EdgeDelta(f, PathTerms(f), s, x)
             m == Min(Onward(f, s))
  <2>1. /\ sys[f][s].zero = {Minus(e(x), e(m)) : x \in Onward(f, s)}
        /\ DOMAIN t \subseteq UsedVars(sys)
    BY <1>1, <1>3, ZeroTerms
  <2>2. PICK x \in Onward(f, s) : t = Minus(e(x), e(m))
    BY <1>3, <2>1
  <2>3. m \in Onward(f, s)
    BY <1>1, <2>2, OnwardIsFinite
  <2>4. \A y \in Onward(f, s) : TermOver(e(y), Constants(f))
    BY <1>2, ConstantPaths
  <2> HIDE DEF e, m
  <2>5. TermOver(Minus(e(x), e(m)), Constants(f))
    BY <2>3, <2>4, TermsCombine
  <2> QED
    BY <2>1, <2>2, <2>5
<1>4. TermOver(FuncDelta(sys[f]), Constants(f))
  <2>1. CASE DOMAIN sys[f] = {}
    <3>1. FuncDelta(sys[f]) = Const(0)
      BY <2>1 DEF FuncDelta
    <3>2. One \in Constants(f) /\ IsTerm(Const(0)) /\ DOMAIN Const(0) = {One}
      BY SinglesAreTerms DEF Constants, DeltasOf
    <3> QED
      BY <3>1, <3>2 DEF TermOver
  <2>2. CASE DOMAIN sys[f] # {}
    <3>1. DOMAIN sys[f] = ReachableBlocks(graphs[f])
      BY <1>1, PathTermsAre
    <3>2. 0 \in ReachableBlocks(graphs[f])
      BY <1>1, <2>2, <3>1, BlocksOnPaths
    <3>3. TermOver(PathTerms(f)[0].delta, Constants(f))
      BY <1>2, <3>2, ConstantPaths
    <3> QED
      BY <1>1, <2>2, <3>3 DEF FuncDelta
  <2> QED
    BY <2>1, <2>2
<1> QED
  BY <1>3, <1>4, FuncTerms

\* Assignment b to the variables U is a with the constants of name at P raised.
Shifts(name, P, U, a, b) ==
    /\ a[One] = 1 /\ b[One] = 1
    /\ \A v \in U : v # One =>
          /\ a[v] \in Int
          /\ b[v] = a[v] + (IF \E j \in P : v = Anything(name, j) THEN Probe ELSE 0)

LEMMA ShiftedElsewhere ==
    ASSUME NEW name, NEW P, NEW U, NEW a, NEW b, Shifts(name, P, U, a, b), NEW f, f # name
    PROVE  AgreeOn(Constants(f), U, a, b)
<1>1. ASSUME NEW v \in U \cap Constants(f) PROVE a[v] \in Int /\ b[v] = a[v]
  <2>1. CASE v = One
    BY <2>1 DEF Shifts
  <2>2. CASE v # One
    <3>1. PICK i \in Nat : v = Anything(f, i)
      BY <1>1, <2>2 DEF Constants, DeltasOf
    <3>2. \A j : v # Anything(name, j)
      BY <3>1 DEF Anything
    <3>3. a[v] \in Int /\ b[v] = a[v] + 0
      BY <1>1, <2>2, <3>2 DEF Shifts
    <3> QED
      BY <3>3
  <2> QED
    BY <2>1, <2>2
<1> QED
  BY <1>1 DEF AgreeOn, Shifts

\* In name itself, with 0 for the constants that do not occur.
LEMMA ShiftedHere ==
    ASSUME NEW name, NEW P, NEW U, NEW a, NEW b, Shifts(name, P, U, a, b)
    PROVE  \E c, k : /\ Raises(name, P, Probe, c, k)
                     /\ AgreeOn(Constants(name), U, a, c)
                     /\ AgreeOn(Constants(name), U, b, k)
<1> DEFINE V == Constants(name)
           extra(v) == IF \E j \in P : v = Anything(name, j) THEN Probe ELSE 0
           c == [v \in V |-> IF v = One THEN 1 ELSE IF v \in U THEN a[v] ELSE 0]
           k == [v \in V |-> IF v = One THEN 1 ELSE c[v] + extra(v)]
<1>1. /\ One \in V /\ \A j \in Nat : Anything(name, j) \in V /\ Anything(name, j) # One
      /\ \A v \in V : v = One \/ \E j \in Nat : v = Anything(name, j)
  BY DEF Constants, DeltasOf, Anything, One
<1>2. /\ a[One] = 1 /\ b[One] = 1
      /\ \A v \in U : v # One => a[v] \in Int /\ b[v] = a[v] + extra(v)
  BY DEF Shifts
<1>3. Probe \in Int
  BY SolverAssumption
<1>4. \A v : extra(v) \in Int
  BY <1>3
<1>5. \A j : extra(Anything(name, j)) = IF j \in P THEN Probe ELSE 0
  BY DEF Anything
<1> HIDE DEF V, extra
<1>6. /\ c[One] = 1 /\ k[One] = 1 /\ \A v \in V : c[v] \in Int
      /\ \A v \in V : v # One => k[v] = c[v] + extra(v)
  BY <1>1, <1>2
<1>7. \A v \in U \cap V : a[v] \in Int /\ c[v] = a[v]
  BY <1>1, <1>2
<1>8. \A v \in U \cap V : b[v] \in Int /\ k[v] = b[v]
  <2> TAKE v \in U \cap V
  <2>1. CASE v = One
    BY <1>2, <1>6, <2>1
  <2>2. CASE v # One
    <3>1. k[v] = c[v] + extra(v) /\ b[v] = a[v] + extra(v) /\ c[v] = a[v] /\ a[v] \in Int
      BY <1>2, <1>6, <1>7, <2>2
    <3> QED
      BY <1>4, <3>1
  <2> QED
    BY <2>1, <2>2
<1> HIDE DEF c, k
<1>9. Raises(name, P, Probe, c, k)
  BY <1>1, <1>3, <1>5, <1>6 DEF Raises, V
<1>10. AgreeOn(V, U, a, c) /\ AgreeOn(V, U, b, k)
  BY <1>2, <1>6, <1>7, <1>8 DEF AgreeOn
<1> QED
  BY <1>9, <1>10 DEF V

\* The raised assignment solves the equations of name if the other does, with
\* Probe more for the function.
LEMMA RaisedSolves ==
    ASSUME NEW C, NEW sys, IsSystem(C, sys), CallsOnly(C, {}), NEW name \in C,
           NEW runs, NEW stops, NEW at, Stuck(name, runs, stops, at), 0 \in runs,
           NEW a, NEW b, Shifts(name, Opened(name, runs, stops, at), UsedVars(sys), a, b),
           \A s \in ReachableBlocks(graphs[name]) : \A t \in sys[name][s].zero : Value(t, a) = 0
    PROVE  /\ \A s \in ReachableBlocks(graphs[name]) : \A t \in sys[name][s].zero : Value(t, b) = 0
           /\ Value(FuncDelta(sys[name]), a) \in Int
           /\ Value(FuncDelta(sys[name]), b) = Value(FuncDelta(sys[name]), a) + Probe
<1> DEFINE P == Opened(name, runs, stops, at)
           U == UsedVars(sys)
           V == Constants(name)
           R == ReachableBlocks(graphs[name])
<1>1. PICK c, k : Raises(name, P, Probe, c, k) /\ AgreeOn(V, U, a, c) /\ AgreeOn(V, U, b, k)
  BY ShiftedHere
<1>2. Solvable(C) /\ sys[name] = PathTerms(name) /\ GraphsInv /\ name \in DOMAIN prog
  BY DEF IsSystem, Solvable
<1>3. Alone(name) /\ Setting(name, runs, stops, at, Probe, c, k)
  BY <1>1, <1>2, ComponentIsAlone DEF Setting
<1>4. \A t : TermOver(t, V) /\ DOMAIN t \subseteq U \cup {One} =>
          Value(t, c) = Value(t, a) /\ Value(t, a) \in Int /\ Value(t, k) = Value(t, b)
  <2> HIDE DEF U, V
  <2> QED
    BY <1>1, ValueKept
<1>5. \A s \in R : /\ Gains(runs, Probe, c, k, s, PathTerms(name)[s].delta)
                   /\ \A x \in Onward(name, s) :
                         Gains(runs, Probe, c, k, s, EdgeDelta(name, PathTerms(name), s, x))
  BY <1>3, PathsRaised
<1>6. Probe \in Int
  BY SolverAssumption
<1>7. ASSUME NEW s \in R, NEW t \in sys[name][s].zero PROVE Value(t, b) = 0
  <2> DEFINE e(x) == EdgeDelta(name, PathTerms(name), s, x)
             m == Min(Onward(name, s))
             G == IF s \in runs THEN Probe ELSE 0
  <2>1. sys[name][s].zero = {Minus(e(x), e(m)) : x \in Onward(name, s)}
    BY <1>2, ZeroTerms
  <2>2. PICK x \in Onward(name, s) : t = Minus(e(x), e(m))
    BY <1>7, <2>1
  <2>3. m \in Onward(name, s)
    BY <1>2, <2>2, OnwardIsFinite
  <2>4. TermOver(e(x), V) /\ TermOver(e(m), V)
    BY <1>3, <2>3, ConstantPaths
  <2>5. Value(e(x), k) = Value(e(x), c) + G /\ Value(e(m), k) = Value(e(m), c) + G
    BY <1>5, <2>3 DEF Gains
  <2>6. TermOver(t, V) /\ DOMAIN t \subseteq U
    BY <1>7, ConstantTerms
  <2>7. Value(t, c) = 0 /\ Value(t, k) = Value(t, b)
    BY <1>4, <1>7, <2>6
  <2>8. G \in Int
    BY <1>6
  <2> HIDE DEF e, m, G
  <2>9. /\ IsTerm(e(x)) /\ Assigns(c, e(x)) /\ Assigns(k, e(x))
        /\ IsTerm(e(m)) /\ Assigns(c, e(m)) /\ Assigns(k, e(m))
    BY <1>1, <2>4, ConstantsAssign
  <2>10. /\ Value(e(x), c) \in Int /\ Value(e(m), c) \in Int
         /\ Value(Minus(e(x), e(m)), c) = Value(e(x), c) - Value(e(m), c)
         /\ Value(Minus(e(x), e(m)), k) = Value(e(x), k) - Value(e(m), k)
    BY <2>9, ValueOfMinus
  <2>11. Value(Minus(e(x), e(m)), k) = Value(Minus(e(x), e(m)), c)
    BY <2>5, <2>8, <2>10
  <2> QED
    BY <2>2, <2>7, <2>11
<1>8. 0 \in R /\ FuncDelta(sys[name]) = PathTerms(name)[0].delta
  <2>1. 0 \in R
    BY DEF Stuck
  <2>2. DOMAIN sys[name] = R
    BY <1>2, PathTermsAre
  <2> QED
    BY <1>2, <2>1, <2>2 DEF FuncDelta
<1>9. Value(FuncDelta(sys[name]), k) = Value(FuncDelta(sys[name]), c) + Probe
  BY <1>5, <1>8 DEF Gains
<1>10. TermOver(FuncDelta(sys[name]), V) /\ DOMAIN FuncDelta(sys[name]) \subseteq U \cup {One}
  BY ConstantTerms
<1>11. /\ Value(FuncDelta(sys[name]), c) = Value(FuncDelta(sys[name]), a)
       /\ Value(FuncDelta(sys[name]), k) = Value(FuncDelta(sys[name]), b)
       /\ Value(FuncDelta(sys[name]), a) \in Int
  BY <1>4, <1>10
<1> QED
  BY <1>7, <1>9, <1>11

\* So the probe for a second solution finds one.
LEMMA SecondSolution ==
    ASSUME NEW C, NEW sys, IsSystem(C, sys), CallsOnly(C, {}), NEW name \in C,
           NEW runs, NEW stops, NEW at, Stuck(name, runs, stops, at), 0 \in runs,
           NEW asg \in Solutions(sys, Small)
    PROVE  \E b \in DeltaSolutions(sys, Small \cup {n + Probe : n \in Small}) :
              /\ Value(FuncDelta(sys[name]), b) = Value(FuncDelta(sys[name]), asg) + Probe
              /\ ReachSolutions(sys, b) # {}
<1> DEFINE U == UsedVars(sys)
           P == Opened(name, runs, stops, at)
           W == VarsOf(sys, {"delta", "anything"})
           Nums == Small \cup {n + Probe : n \in Small}
<1>1. PICK a \in DeltaSolutions(sys, Small) : asg \in ReachSolutions(sys, a)
  BY DEF Solutions
<1>2. PICK d \in [W -> Small] : a = With(Const(1), d)
  BY <1>1 DEF DeltaSolutions
<1>3. Small \subseteq Int /\ Probe \in Int
  BY SolverAssumption
<1>4. U \subseteq {One} \cup {Anything(f, j) : f \in C, j \in Nat}
  BY OnlyConstants
<1>5. /\ VarsOf(sys, {"reach"}) = {}
      /\ \A v \in U : v # One => v \in W
      /\ \A f : DeltaOf(f) \notin W /\ DeltaOf(f) # One /\ ReachOf(f) \notin W /\ ReachOf(f) # One
      /\ One \notin W
  <2>1. \A v \in U : v = One \/ v[1] = "anything"
    BY <1>4 DEF Anything
  <2>2. One[1] = "one" /\ \A f : DeltaOf(f)[1] = "delta" /\ ReachOf(f)[1] = "reach"
    BY VarKinds
  <2>3. \A kinds : VarsOf(sys, kinds) = {v \in U : v[1] \in kinds}
    BY VarsOfUsed
  <2> HIDE DEF U
  <2> QED
    BY <2>1, <2>2, <2>3
<1> DEFINE e == [v \in W |-> d[v] + (IF \E j \in P : v = Anything(name, j) THEN Probe ELSE 0)]
           b == With(Const(1), e)
<1>6. e \in [W -> Nums]
  <2> HIDE DEF W, P
  <2>2. \A v \in W : d[v] \in Small
    BY <1>2
  <2>3. \A n \in Small : n \in Int /\ n + 0 = n
    BY <1>3
  <2>1. \A v \in W : d[v] \in Small /\ d[v] + 0 = d[v]
    BY <2>2, <2>3
  <2> QED
    BY <2>1
<1>7. /\ a[One] = 1 /\ b[One] = 1 /\ DOMAIN b = {One} \cup W /\ DOMAIN a = {One} \cup W
      /\ \A v \in W : a[v] = d[v] /\ b[v] = e[v]
  BY <1>2, <1>5, <1>6, WithOne
<1>8. Shifts(name, P, U, a, b)
  <2>1. ASSUME NEW v \in U, v # One
        PROVE  a[v] \in Int /\ b[v] = a[v] + (IF \E j \in P : v = Anything(name, j) THEN Probe ELSE 0)
    <3>1. v \in W
      BY <1>5, <2>1
    <3>2. a[v] = d[v] /\ b[v] = e[v] /\ d[v] \in Int
      BY <1>2, <1>3, <1>7, <3>1
    <3> HIDE DEF W, P, b
    <3> QED
      BY <3>1, <3>2
  <2> HIDE DEF U, P, b
  <2> QED
    BY <1>7, <2>1 DEF Shifts
<1> HIDE DEF e, b, W, P
<1>9. DOMAIN sys = C /\ \A f \in C : DOMAIN sys[f] = ReachableBlocks(graphs[f])
  <2>1. sys = [g \in C |-> PathTerms(g)] /\ GraphsInv /\ C \subseteq DOMAIN prog
    BY DEF IsSystem, Solvable
  <2> QED
    BY <2>1, PathTermsAre
<1>10. \A f \in C : \A s \in ReachableBlocks(graphs[f]) : \A t \in sys[f][s].zero : Value(t, a) = 0
  BY <1>1, <1>9 DEF DeltaSolutions
<1>11. /\ \A s \in ReachableBlocks(graphs[name]) : \A t \in sys[name][s].zero : Value(t, b) = 0
       /\ Value(FuncDelta(sys[name]), b) = Value(FuncDelta(sys[name]), a) + Probe
  BY <1>8, <1>10, RaisedSolves DEF P
<1>12. ASSUME NEW f \in C, NEW s \in ReachableBlocks(graphs[f]), NEW t \in sys[f][s].zero
       PROVE  Value(t, b) = 0
  <2>1. CASE f = name
    BY <1>11, <1>12, <2>1
  <2>2. CASE f # name
    <3>1. AgreeOn(Constants(f), U, a, b)
      BY <1>8, <2>2, ShiftedElsewhere
    <3>2. TermOver(t, Constants(f)) /\ DOMAIN t \subseteq U \cup {One}
      BY <1>12, ConstantTerms
    <3>3. Value(t, b) = Value(t, a)
      BY <3>1, <3>2, ValueKept
    <3> QED
      BY <1>10, <1>12, <3>3
  <2> QED
    BY <2>1, <2>2
<1>13. \A f : DeltaOf(f) \notin DOMAIN b /\ ReachOf(f) \notin DOMAIN b
  BY <1>5, <1>7
<1>14. b \in DeltaSolutions(sys, Nums)
  <2>1. b \in {With(Const(1), r) : r \in [VarsOf(sys, {"delta", "anything"}) -> Nums]}
    BY <1>6 DEF b, W
  <2> HIDE DEF Nums
  <2> QED
    BY <1>9, <1>12, <1>13, <2>1 DEF DeltaSolutions
<1>15. ReachSolutions(sys, b) # {}
  <2> DEFINE r == [v \in {} |-> 0]
             all == With(b, r)
  <2>1. r \in [VarsOf(sys, {"reach"}) -> Reaches]
    BY <1>5
  <2>2. DOMAIN all = DOMAIN b
    BY DEF With
  <2>3. \A f : ReachOf(f) \notin DOMAIN all
    BY <1>13, <2>2
  <2> HIDE DEF r
  <2>4. all \in {With(b, q) : q \in [VarsOf(sys, {"reach"}) -> Reaches]}
    BY <2>1
  <2> HIDE DEF all
  <2>5. all \in ReachSolutions(sys, b)
    BY <2>3, <2>4 DEF ReachSolutions
  <2> QED
    BY <2>5
<1>16. Value(FuncDelta(sys[name]), asg) = Value(FuncDelta(sys[name]), a)
  <2>1. PICK q \in [{} -> Reaches] : asg = With(a, q)
    BY <1>1, <1>5 DEF ReachSolutions
  <2>2. /\ \A v \in DOMAIN a : asg[v] = a[v]
    BY <2>1 DEF With
  <2>3. \A v \in U : v # One => a[v] \in Int /\ asg[v] = a[v]
    BY <1>5, <1>7, <1>8, <2>2 DEF Shifts
  <2>4. a[One] = 1 /\ asg[One] = 1
    BY <1>7, <2>2
  <2>5. AgreeOn(Constants(name), U, a, asg)
    BY <2>3, <2>4 DEF AgreeOn
  <2>6. TermOver(FuncDelta(sys[name]), Constants(name)) /\ DOMAIN FuncDelta(sys[name]) \subseteq U \cup {One}
    BY ConstantTerms
  <2> HIDE DEF U
  <2> QED
    BY <2>5, <2>6, ValueKept
<1> QED
  BY <1>11, <1>14, <1>15, <1>16

-----------------------------------------------------------------------------
LEMMA CalledFromCalled ==
    ASSUME NEW p, IsFiniteSet(DOMAIN p), NEW name \in DOMAIN p, NEW g \in CalledFrom(p, name)
    PROVE  CalledFrom(p, g) \subseteq CalledFrom(p, name)
<1>1. g \in DOMAIN p /\ \A f \in CalledFrom(p, name) : Callees(p, f) \subseteq CalledFrom(p, name)
  BY CalledFromIs
<1> QED
  BY <1>1, CalledFromIs

\* A function is in the component of each function of its component.
LEMMA ComponentIsShared ==
    ASSUME NEW p, IsFiniteSet(DOMAIN p), NEW n \in DOMAIN p, NEW name \in Component(p, n)
    PROVE  Component(p, n) \subseteq Component(p, name)
<1>1. name \in CalledFrom(p, n) /\ n \in CalledFrom(p, name) /\ name \in DOMAIN p
  BY CalledFromIs DEF Component
<1>2. ASSUME NEW g \in Component(p, n) PROVE g \in CalledFrom(p, name) /\ name \in CalledFrom(p, g)
  <2>1. g \in CalledFrom(p, n) /\ n \in CalledFrom(p, g) /\ g \in DOMAIN p
    BY <1>2, CalledFromIs DEF Component
  <2>2. CalledFrom(p, n) \subseteq CalledFrom(p, name)
    BY <1>1, CalledFromCalled
  <2>3. CalledFrom(p, n) \subseteq CalledFrom(p, g)
    BY <2>1, CalledFromCalled
  <2> QED
    BY <1>1, <2>1, <2>2, <2>3
<1> QED
  BY <1>2 DEF Component

\* The calls in a block are calls of the function.
LEMMA BlockCalls ==
    ASSUME GraphsInv, NEW h \in DOMAIN prog, NEW s \in ReachableBlocks(graphs[h]),
           NEW j \in DOMAIN CodeOf(h, s), CodeOf(h, s)[j].op = "call"
    PROVE  CodeOf(h, s)[j].f \in CallsIn(prog[h])
<1> DEFINE f == prog[h]
<1>1. Len(f) \in Nat /\ graphs[h][s].end <= Len(f) /\ graphs[h][s].end \in Nat /\ s \in Nat
  BY BlocksOnPaths
<1>2. j \in s..(graphs[h][s].end - 1)
  BY CodeIsTyped
<1>3. CodeOf(h, s)[j] = Resolved(f, s, j)
  BY DEF CodeOf
<1>4. Resolved(f, s, j) = At(f, j)
  BY <1>3 DEF Resolved, Pick, DropRange
<1>5. \E names : f \in Seq(ParsedInstr(names, Int))
  BY ProgramIsCode DEF IsCode
<1>6. DOMAIN f = 1..Len(f)
  BY <1>5
<1>7. j + 1 \in 1..Len(f)
  BY <1>1, <1>2
<1> HIDE DEF f
<1>8. At(f, j) = f[j + 1]
  BY DEF At
<1>9. j + 1 \in {i \in DOMAIN f : f[i].op = "call"}
  BY <1>3, <1>4, <1>6, <1>7, <1>8
<1> QED
  BY <1>3, <1>4, <1>8, <1>9 DEF CallsIn, f

\* A component without recursion calls nothing of itself.
LEMMA UnrecursiveIsAlone ==
    ASSUME GraphsInv, NEW C, C \subseteq DOMAIN prog, CalleesKnown(C),
           NEW D, C \subseteq D, ~ Recursive(prog, D)
    PROVE  CallsOnly(C, {})
<1> SUFFICES ASSUME NEW h \in C, NEW s \in ReachableBlocks(graphs[h]), NEW j \in DOMAIN CodeOf(h, s),
                    CodeOf(h, s)[j].op = "call"
             PROVE  CodeOf(h, s)[j].f \in DOMAIN sigs
  BY DEF CallsOnly
<1>1. CodeOf(h, s)[j].f \in C \cup DOMAIN sigs
  BY DEF CalleesKnown
<1>2. CodeOf(h, s)[j].f \in CallsIn(prog[h])
  BY BlockCalls
<1>3. Callees(prog, h) \cap D = {}
  BY DEF Recursive
<1> QED
  BY <1>1, <1>2, <1>3 DEF Callees

\* The functions for which the equations may fix a delta although they cannot
\* return, and those that do not call one or are found.
Blurred(g) == Recursive(prog, Component(prog, g)) \/ ~ Separated(g, Returning)

Found(name) ==
    \/ sigs[name].never
    \/ \E g \in CalledFrom(prog, name) \ Returning : Blurred(g)

FoundInv ==
    /\ phase = "solve" => \E n \in DOMAIN prog : DOMAIN system = Component(prog, n)
    /\ \A name \in DOMAIN sigs \ Returning : Found(name)

\* The blocks that run, and stop, in a function that cannot return.
LEMMA SeparatedIsStuck ==
    ASSUME NEW name, Separated(name, Returning),
           \A s \in ReachableBlocks(graphs[name]) : \A j \in DOMAIN CodeOf(name, s) :
               LET x == CodeOf(name, s)[j]
               IN x.op = "quit" \/ (x.op = "call" /\ x.f \notin Returning) =>
                      Delta(x, sigs).tag = "anything"
    PROVE  \E runs, stops, at : Stuck(name, runs, stops, at) /\ 0 \in runs
<1> DEFINE R == ReachableBlocks(graphs[name])
           T(s, x) == graphs[name][s].term.targets[x]
           passing == {s \in R : Passes(name, s, Returning)}
           edges == UNION {{<<s, T(s, x)>> : x \in Onward(name, s)} : s \in R}
<1>1. PICK runs \in SUBSET R :
         0 \in runs /\ \A e \in edges : e[2] \in runs <=> e[1] \in runs \cap passing
  BY DEF Separated
<1>2. \A s \in R : \A x \in Onward(name, s) : T(s, x) \in runs <=> s \in runs \cap passing
  <2> TAKE s \in R
  <2> TAKE x \in Onward(name, s)
  <2>1. <<s, T(s, x)>> \in edges
    OBVIOUS
  <2> HIDE DEF edges, T, passing
  <2> QED
    BY <1>1, <2>1
<1> DEFINE stops == runs \ passing
           stop(s, j) == j \in DOMAIN CodeOf(name, s) /\ Delta(CodeOf(name, s)[j], sigs).tag = "anything"
           at == [s \in stops |-> CHOOSE j : stop(s, j)]
<1>3. ASSUME NEW s \in stops PROVE stop(s, at[s])
  <2>1. s \in R /\ ~ Passes(name, s, Returning)
    BY <1>1, <1>3
  <2>2. PICK j \in DOMAIN CodeOf(name, s) :
            LET x == CodeOf(name, s)[j] IN x.op = "quit" \/ (x.op = "call" /\ x.f \notin Returning)
    BY <2>1 DEF Passes
  <2>3. stop(s, j)
    BY <2>1, <2>2
  <2> HIDE DEF stop, stops
  <2> QED
    BY <1>3, <2>3
<1>4. \A s \in R : \A x \in Onward(name, s) : T(s, x) \in runs <=> s \in runs \ stops
  BY <1>2
<1>5. runs \subseteq R /\ stops \subseteq runs
  BY <1>1
<1> HIDE DEF at, stops
<1>6. Stuck(name, runs, stops, at)
  BY <1>3, <1>4, <1>5 DEF Stuck
<1> QED
  BY <1>1, <1>6

\* Solving a function that cannot return finds that it has no delta, unless the
\* function or one that it calls is blurred.
LEMMA SolvingFinds ==
    ASSUME AnalysisInv, FoundInv, phase = "solve", NEW asg \in Solutions(system, Small),
           NEW name \in DOMAIN system, name \notin Returning,
           \A g \in CalledFrom(prog, name) \ Returning : ~ Blurred(g)
    PROVE  Unbounded(name, Value(FuncDelta(system[name]), asg))
<1>0. PICK C : C = DOMAIN system
  OBVIOUS
<1>1. /\ IsSystem(C, system) /\ CalleesKnown(C) /\ DOMAIN sigs \subseteq DOMAIN prog
      /\ prog \in Programs
  BY <1>0 DEF AnalysisInv, BuiltInv, SolvingInv, TypeOK
<1>2. /\ Solvable(C) /\ C \subseteq DOMAIN prog /\ GraphsInv /\ IsFiniteSet(DOMAIN prog)
  BY <1>1, ProgramsAssumption DEF IsSystem, Solvable
<1>3. PICK n \in DOMAIN prog : C = Component(prog, n)
  BY <1>0 DEF FoundInv
<1>4. name \in DOMAIN prog /\ name \in CalledFrom(prog, name)
      /\ \A g \in CalledFrom(prog, name) : Callees(prog, g) \subseteq CalledFrom(prog, name)
  BY <1>0, <1>2, CalledFromIs
<1>5. ~ Recursive(prog, Component(prog, name)) /\ Separated(name, Returning)
  BY <1>4 DEF Blurred
<1>6. C \subseteq Component(prog, name)
  BY <1>0, <1>2, <1>3, ComponentIsShared
<1>7. CallsOnly(C, {})
  BY <1>1, <1>2, <1>5, <1>6, UnrecursiveIsAlone
<1>8. ASSUME NEW s \in ReachableBlocks(graphs[name]), NEW j \in DOMAIN CodeOf(name, s),
             NEW x, x = CodeOf(name, s)[j], x.op = "quit" \/ (x.op = "call" /\ x.f \notin Returning)
      PROVE  Delta(x, sigs).tag = "anything"
  <2>1. CASE x.op = "quit"
    BY <2>1 DEF Delta, Err, FixedOps
  <2>2. CASE x.op = "call" /\ x.f \notin Returning
    <3>1. x.f \in DOMAIN sigs
      BY <1>0, <1>7, <1>8, <2>2 DEF CallsOnly
    <3>2. x.f \in DOMAIN prog
      BY <1>1, <3>1
    <3>3. x.f \in CallsIn(prog[name])
      BY <1>2, <1>4, <1>8, <2>2, BlockCalls
    <3>4. x.f \in CalledFrom(prog, name)
      BY <1>4, <3>2, <3>3 DEF Callees
    <3>5. CalledFrom(prog, x.f) \subseteq CalledFrom(prog, name)
      BY <1>2, <1>4, <3>4, CalledFromCalled
    <3>6. Found(x.f)
      BY <2>2, <3>1 DEF FoundInv
    <3>7. sigs[x.f].never
      BY <3>5, <3>6 DEF Found
    <3> QED
      BY <2>2, <3>1, <3>7 DEF Delta, Err, FixedOps
  <2> QED
    BY <1>8, <2>1, <2>2
<1>9. PICK runs, stops, at : Stuck(name, runs, stops, at) /\ 0 \in runs
  BY <1>5, <1>8, SeparatedIsStuck
<1>10. name \in C
  BY <1>0
<1>11. PICK sys : sys = system
  OBVIOUS
<1>12. \E b \in DeltaSolutions(sys, Small \cup {i + Probe : i \in Small}) :
          /\ Value(FuncDelta(sys[name]), b) = Value(FuncDelta(sys[name]), asg) + Probe
          /\ ReachSolutions(sys, b) # {}
  BY <1>1, <1>7, <1>9, <1>10, <1>11, SecondSolution
<1> QED
  BY <1>11, <1>12 DEF Unbounded

-----------------------------------------------------------------------------
LEMMA SameReturning ==
    ASSUME UNCHANGED <<prog, graphs>>
    PROVE  Returning' = Returning
<1>1. prog' = prog /\ graphs' = graphs
  OBVIOUS
<1> QED
  BY <1>1 DEF Returning, Passes, Onward, CodeOf

LEMMA SameSeparated ==
    ASSUME UNCHANGED <<prog, graphs>>, NEW name, NEW ret
    PROVE  Separated(name, ret)' <=> Separated(name, ret)
<1>1. prog' = prog /\ graphs' = graphs
  OBVIOUS
<1> QED
  BY <1>1 DEF Separated, Passes, Onward, CodeOf

LEMMA SameBlurred ==
    ASSUME UNCHANGED <<prog, graphs>>
    PROVE  \A g : Blurred(g)' <=> Blurred(g)
<1> TAKE g
<1>1. Returning' = Returning
  BY SameReturning
<1>2. \A ret : Separated(g, ret)' <=> Separated(g, ret)
  BY SameSeparated
<1>3. prog' = prog
  OBVIOUS
<1>4. Separated(g, Returning)' <=> Separated(g, Returning)
  BY <1>1, <1>2
<1> QED
  BY <1>3, <1>4 DEF Blurred

\* What was found stays found.
LEMMA FoundStays ==
    ASSUME Grows, NEW name \in DOMAIN sigs, Found(name)
    PROVE  Found(name)'
<1>1. prog' = prog /\ sigs'[name] = sigs[name] /\ Returning' = Returning
  BY SameReturning DEF Grows
<1>2. \A g : Blurred(g)' <=> Blurred(g)
  BY SameBlurred DEF Grows
<1>3. CalledFrom(prog', name) = CalledFrom(prog, name)
  BY <1>1
<1> QED
  BY <1>1, <1>2, <1>3 DEF Found

LEMMA FoundKept ==
    ASSUME FoundInv, UNCHANGED <<prog, graphs, sigs>>,
           phase' = "solve" => \E n \in DOMAIN prog : DOMAIN system' = Component(prog, n)
    PROVE  FoundInv'
<1>1. Grows /\ prog' = prog /\ sigs' = sigs /\ Returning' = Returning
  BY SameReturning DEF Grows
<1>2. \A name \in DOMAIN sigs' \ Returning' : Found(name)'
  <2>1. \A name \in DOMAIN sigs \ Returning : Found(name)
    BY DEF FoundInv
  <2> QED
    BY <1>1, <2>1, FoundStays
<1> QED
  BY <1>1, <1>2 DEF FoundInv

LEMMA SolveFinds ==
    ASSUME AnalysisInv, FoundInv, Solve
    PROVE  FoundInv'
<1>0. PICK C : C = DOMAIN system
  OBVIOUS
<1>1. Grows /\ DOMAIN sigs' = DOMAIN sigs \cup DOMAIN system
  BY SolveAccounts
<1>2. phase = "solve" /\ phase' # "solve" /\ prog' = prog /\ graphs' = graphs
  BY DEF Solve
<1>3. PICK asg \in Solutions(system, Small) :
         sigs' = With(sigs, [name \in C |-> SolvedSig(name, asg)])
  BY <1>0 DEF Solve
<1>4. Returning' = Returning /\ \A g : Blurred(g)' <=> Blurred(g)
  BY <1>2, SameReturning, SameBlurred
<1>5. ASSUME NEW name \in C, name \notin Returning, name \notin DOMAIN sigs PROVE Found(name)'
  <2>1. sigs'[name] = SolvedSig(name, asg)
    BY <1>3, <1>5 DEF With
  <2>2. CASE \E g \in CalledFrom(prog, name) \ Returning : Blurred(g)
    BY <1>2, <1>4, <2>2 DEF Found
  <2>3. CASE \A g \in CalledFrom(prog, name) \ Returning : ~ Blurred(g)
    <3>1. Unbounded(name, Value(FuncDelta(system[name]), asg))
      BY <1>0, <1>2, <1>5, <2>3, SolvingFinds
    <3>2. SolvedSig(name, asg).never
      BY <3>1 DEF SolvedSig
    <3> QED
      BY <2>1, <3>2 DEF Found
  <2> QED
    BY <2>2, <2>3
<1>6. ASSUME NEW name \in DOMAIN sigs, name \notin Returning PROVE Found(name)'
  BY <1>1, <1>6, FoundStays DEF FoundInv
<1>7. \A name \in DOMAIN sigs' \ Returning' : Found(name)'
  BY <1>0, <1>1, <1>4, <1>5, <1>6
<1> QED
  BY <1>2, <1>7 DEF FoundInv

LEMMA FoundInvariant == Spec => [](AnalysisInv /\ FoundInv)
<1>1. Init => FoundInv
  <2> SUFFICES ASSUME Init PROVE FoundInv
    OBVIOUS
  <2>1. phase = "sort" /\ DOMAIN sigs = {}
    BY DEF Init
  <2> QED
    BY <2>1 DEF FoundInv
<1>2. AnalysisInv /\ FoundInv /\ [Next]_vars => FoundInv'
  <2> SUFFICES ASSUME AnalysisInv, FoundInv, [Next]_vars PROVE FoundInv'
    OBVIOUS
  <2>1. ASSUME NEW C, PanicOn(C) \/ Abandon(C) PROVE FoundInv'
    <3>1. UNCHANGED <<prog, graphs, sigs>> /\ phase' # "solve"
      BY <2>1 DEF PanicOn, Abandon, Ready
    <3> QED
      BY <3>1, FoundKept
  <2>2. CASE Unsat \/ Finish
    <3>1. UNCHANGED <<prog, graphs, sigs>> /\ phase' # "solve"
      BY <2>2 DEF Unsat, Finish
    <3> QED
      BY <3>1, FoundKept
  <2>3. CASE UNCHANGED vars
    <3>1. UNCHANGED <<prog, graphs, sigs>> /\ phase' = phase /\ system' = system
      BY <2>3 DEF vars
    <3> QED
      BY <3>1, FoundKept DEF FoundInv
  <2>4. ASSUME NEW name \in DOMAIN prog, Build(Component(prog, name)) PROVE FoundInv'
    <3>1. UNCHANGED <<prog, graphs, sigs>> /\ DOMAIN system' = Component(prog, name)
      BY <2>4 DEF Build
    <3> QED
      BY <3>1, FoundKept
  <2>5. CASE Solve
    BY <2>5, SolveFinds
  <2> QED
    BY <2>1, <2>2, <2>3, <2>4, <2>5 DEF Next
<1> QED
  BY <1>1, <1>2, AnalysisStarts, AnalysisStepKeeps, PTL DEF Spec

\* Every function that cannot return is found out, for any program and any
\* choice the solver makes, but for those that the theorem excepts: the probe
\* succeeds, because raising the constants that the running blocks depend on
\* gives a second solution.
THEOREM NeverTypeIsFound == Spec => []NeverIsFound
<1>1. FoundInv => NeverIsFound
  BY DEF FoundInv, Found, Blurred, NeverIsFound
<1> QED
  BY <1>1, FoundInvariant, PTL

-----------------------------------------------------------------------------
(* 5. The compiler.  Ids, references, translations and bodies are tied together *)
(* by the declared ids, which are distinct and final once the analysis is  *)
(* done; nothing else is needed of the analysis.                           *)

\* Ids are counted up, so no two functions have the same.
IdsInv ==
    /\ DOMAIN declared \subseteq Names
    /\ IsFiniteSet(DOMAIN declared)
    /\ \A g \in DOMAIN declared : declared[g] \in 0..(Cardinality(DOMAIN declared) - 1)
    /\ \A g, h \in DOMAIN declared : declared[g] = declared[h] => g = h

\* The analysis comes after the declarations and before the rest.
OrderInv ==
    /\ phase = "done" => DOMAIN declared = Names /\ analyzed = Names
    /\ phase # "done" =>
          /\ DOMAIN refs = {} /\ DOMAIN translated = {} /\ DOMAIN bodies = {}
          /\ DOMAIN wrappers = {} /\ stage # "done"
    /\ DOMAIN refs \subseteq Names

RefsInv ==
    \A g \in DOMAIN refs :
        /\ DOMAIN refs[g] = Callees(prog, g)
        /\ \A c \in Callees(prog, g) : refs[g][c] = declared[c]

TranslatedInv ==
    /\ DOMAIN translated # {} => DOMAIN refs = Names
    /\ \A g \in DOMAIN translated : translated[g].code = prog[g] /\ translated[g].calls = refs[g]

BodiesInv ==
    /\ DOMAIN bodies # {} => DOMAIN translated = Names
    /\ \A g \in DOMAIN declared :
          declared[g] \in DOMAIN bodies => bodies[declared[g]] = translated[g]

WrappersInv ==
    /\ DOMAIN wrappers # {} => DOMAIN bodies = {declared[g] : g \in Names}
    /\ \A g \in DOMAIN wrappers : wrappers[g] = declared[g]
    /\ stage = "done" => DOMAIN wrappers = Names

LinkedInv ==
    /\ IdsInv /\ OrderInv /\ RefsInv /\ TranslatedInv /\ BodiesInv /\ WrappersInv
    /\ prog \in Programs /\ NoLookupFails

-----------------------------------------------------------------------------
LEMMA InitLinked == CInit => LinkedInv
<1> SUFFICES ASSUME CInit PROVE LinkedInv
  OBVIOUS
<1>1. DOMAIN << >> = {} /\ IsFiniteSet({})
  BY FS_EmptySet
<1> QED
  BY <1>1 DEF CInit, Init, LinkedInv, IdsInv, OrderInv, RefsInv, TranslatedInv, BodiesInv,
              WrappersInv, NoLookupFails

\* A step of the analysis leaves the program alone; when it ends, all of it is
\* analyzed.
LEMMA AnalysisStep ==
    ASSUME Next
    PROVE  prog' = prog /\ phase # "done" /\ (phase' = "done" => analyzed' = Names)
<1>1. ASSUME NEW name \in DOMAIN prog,
             PanicOn(Component(prog, name)) \/ Abandon(Component(prog, name))
                \/ Build(Component(prog, name))
      PROVE  prog' = prog /\ phase # "done" /\ phase' # "done"
  BY <1>1 DEF PanicOn, Abandon, Build, Ready
<1>2. CASE Unsat \/ Solve
  BY <1>2 DEF Unsat, Solve
<1>3. CASE Finish
  BY <1>3 DEF Finish, Names
<1> QED
  BY <1>1, <1>2, <1>3 DEF Next

LEMMA DeclareStep ==
    ASSUME LinkedInv, NEW name \in Names, Declare(name) PROVE LinkedInv'
<1> DEFINE n == Cardinality(DOMAIN declared)
<1>1. /\ stage = "work" /\ name \notin DOMAIN declared
      /\ declared' = Put(declared, name, n)
      /\ UNCHANGED <<vars, stage, refs, translated, bodies, wrappers>>
  BY DEF Declare, Working
<1>2. phase # "done" /\ UNCHANGED <<prog, phase, analyzed>> /\ Names' = Names
  BY <1>1 DEF LinkedInv, OrderInv, vars, Names
<1>3. /\ DOMAIN declared' = DOMAIN declared \cup {name}
      /\ \A g \in DOMAIN declared : declared'[g] = declared[g]
      /\ declared'[name] = n
  BY <1>1 DEF Put
<1>4. /\ n \in Nat /\ IsFiniteSet(DOMAIN declared')
      /\ Cardinality(DOMAIN declared') = n + 1
  BY <1>1, <1>3, FS_AddElement, FS_CardinalityType DEF LinkedInv, IdsInv
<1>5. \A g \in DOMAIN declared : declared[g] \in 0..(n - 1)
  BY DEF LinkedInv, IdsInv
<1> HIDE DEF n
<1>6. IdsInv'
  <2>1. DOMAIN declared' \subseteq Names'
    BY <1>2, <1>3 DEF LinkedInv, IdsInv
  <2>2. ASSUME NEW g \in DOMAIN declared'
        PROVE  declared'[g] \in 0..(Cardinality(DOMAIN declared') - 1)
    BY <1>3, <1>4, <1>5
  <2>3. ASSUME NEW g \in DOMAIN declared', NEW h \in DOMAIN declared',
               declared'[g] = declared'[h]
        PROVE  g = h
    BY <1>3, <1>4, <1>5, <2>3 DEF LinkedInv, IdsInv
  <2> QED
    BY <1>4, <2>1, <2>2, <2>3 DEF IdsInv
<1>7. DOMAIN refs = {} /\ DOMAIN translated = {} /\ DOMAIN bodies = {} /\ DOMAIN wrappers = {}
  BY <1>2 DEF LinkedInv, OrderInv
<1> QED
  BY <1>1, <1>2, <1>6, <1>7
  DEF LinkedInv, OrderInv, RefsInv, TranslatedInv, BodiesInv, WrappersInv, NoLookupFails

LEMMA AnalysisKeeps == ASSUME LinkedInv, Analysis PROVE LinkedInv'
<1>1. /\ stage = "work" /\ DOMAIN declared = Names
      /\ prog' = prog /\ phase # "done" /\ (phase' = "done" => analyzed' = Names)
      /\ Names' = Names
  BY AnalysisStep DEF Analysis, Working, Names
<1>2. /\ UNCHANGED <<declared, refs, translated, bodies, wrappers>>
      /\ stage' = "work" \/ stage' = "analysis"
  BY <1>1 DEF Analysis, Panic, compiler
<1>3. DOMAIN refs = {} /\ DOMAIN translated = {} /\ DOMAIN bodies = {} /\ DOMAIN wrappers = {}
  BY <1>1 DEF LinkedInv, OrderInv
<1> QED
  BY <1>1, <1>2, <1>3
  DEF LinkedInv, IdsInv, OrderInv, RefsInv, TranslatedInv, BodiesInv, WrappersInv, NoLookupFails

-----------------------------------------------------------------------------
\* After the analysis.
LEMMA AfterAnalysis ==
    ASSUME LinkedInv, phase = "done"
    PROVE  DOMAIN declared = Names /\ analyzed = Names
BY DEF LinkedInv, OrderInv

LEMMA ImportStep ==
    ASSUME LinkedInv, NEW name \in Names, Import(name) PROVE LinkedInv'
<1>1. /\ stage = "work" /\ phase = "done" /\ name \notin DOMAIN refs
      /\ UNCHANGED vars
  BY DEF Import, Working
<1>2. UNCHANGED <<prog, phase, analyzed>> /\ Names' = Names /\ DOMAIN declared = Names
  BY <1>1, AfterAnalysis DEF vars, Names
<1>3. Callees(prog, name) \subseteq DOMAIN declared
  BY <1>2 DEF Callees, Names
<1>4. /\ refs' = Put(refs, name, [c \in Callees(prog, name) |-> declared[c]])
      /\ UNCHANGED <<stage, declared, translated, bodies, wrappers>>
  BY <1>3 DEF Import
<1>5. /\ DOMAIN refs' = DOMAIN refs \cup {name}
      /\ \A g \in DOMAIN refs : refs'[g] = refs[g]
      /\ refs'[name] = [c \in Callees(prog, name) |-> declared[c]]
  BY <1>1, <1>4 DEF Put
<1>6. DOMAIN translated = {}
  BY <1>1 DEF LinkedInv, TranslatedInv
<1>7. RefsInv'
  <2>1. ASSUME NEW g \in DOMAIN refs'
        PROVE  /\ DOMAIN refs'[g] = Callees(prog, g)
               /\ \A c \in Callees(prog, g) : refs'[g][c] = declared[c]
    BY <1>5 DEF LinkedInv, RefsInv
  <2> QED
    BY <1>2, <1>4, <2>1 DEF RefsInv
<1> QED
  BY <1>1, <1>2, <1>4, <1>5, <1>6, <1>7
  DEF LinkedInv, IdsInv, OrderInv, TranslatedInv, BodiesInv, WrappersInv, NoLookupFails

\* A panic other than of a lookup.
LEMMA PanicKeeps ==
    ASSUME LinkedInv, UNCHANGED vars, NEW why, why \notin {"lookup", "done"}, Panic(why)
    PROVE  LinkedInv'
<1>1. /\ stage' = why /\ Names' = Names
      /\ UNCHANGED <<prog, phase, analyzed, declared, refs, translated, bodies, wrappers>>
  BY DEF Panic, vars, Names
<1> QED
  BY <1>1 DEF LinkedInv, IdsInv, OrderInv, RefsInv, TranslatedInv, BodiesInv, WrappersInv,
              NoLookupFails

LEMMA TranslateStep ==
    ASSUME LinkedInv, NEW name \in Names, Translate(name) PROVE LinkedInv'
<1> DEFINE unit == [code |-> prog[name], calls |-> refs[name], sig |-> Signature(name)]
<1>1. /\ stage = "work" /\ phase = "done" /\ DOMAIN refs = Names
      /\ name \notin DOMAIN translated /\ UNCHANGED vars
  BY DEF Translate, Working
<1>2. /\ UNCHANGED <<prog, phase, analyzed>> /\ Names' = Names
      /\ DOMAIN declared = Names /\ analyzed = Names
  BY <1>1, AfterAnalysis DEF vars, Names
<1>3. name \in analyzed /\ Bound(name)
  BY <1>1, <1>2 DEF Bound, Callees, Names, LinkedInv, RefsInv
<1>4. \/ Panic("theorem") \/ Panic("signature")
      \/ /\ translated' = Put(translated, name, unit)
         /\ UNCHANGED <<stage, declared, refs, bodies, wrappers>>
  BY <1>3 DEF Translate
<1> HIDE DEF unit
<1>5. CASE Panic("theorem") \/ Panic("signature")
  BY <1>1, <1>5, PanicKeeps
<1>6. CASE /\ translated' = Put(translated, name, unit)
           /\ UNCHANGED <<stage, declared, refs, bodies, wrappers>>
  <2>1. /\ DOMAIN translated' = DOMAIN translated \cup {name}
        /\ \A g \in DOMAIN translated : translated'[g] = translated[g]
        /\ translated'[name] = unit
    BY <1>1, <1>6 DEF Put
  <2>2. unit.code = prog[name] /\ unit.calls = refs[name]
    BY DEF unit
  <2>3. DOMAIN bodies = {}
    BY <1>1 DEF LinkedInv, BodiesInv
  <2>4. TranslatedInv'
    BY <1>1, <1>2, <1>6, <2>1, <2>2 DEF LinkedInv, TranslatedInv
  <2>5. BodiesInv'
    BY <1>6, <2>3 DEF BodiesInv
  <2>6. IdsInv' /\ OrderInv' /\ RefsInv'
    BY <1>1, <1>2, <1>6 DEF LinkedInv, IdsInv, OrderInv, RefsInv
  <2>7. WrappersInv' /\ NoLookupFails'
    BY <1>1, <1>2, <1>6 DEF LinkedInv, WrappersInv, NoLookupFails
  <2> QED
    BY <1>2, <2>4, <2>5, <2>6, <2>7 DEF LinkedInv
<1> QED
  BY <1>4, <1>5, <1>6

LEMMA DefineStep ==
    ASSUME LinkedInv, NEW name \in Names, Define(name) PROVE LinkedInv'
<1>1. /\ stage = "work" /\ phase = "done" /\ DOMAIN translated = Names
      /\ declared[name] \notin DOMAIN bodies
      /\ bodies' = Put(bodies, declared[name], translated[name])
      /\ UNCHANGED <<vars, stage, declared, refs, translated, wrappers>>
  BY DEF Define, Working
<1>2. /\ UNCHANGED <<prog, phase, analyzed>> /\ Names' = Names /\ DOMAIN declared = Names
  BY <1>1, AfterAnalysis DEF vars, Names
<1>3. /\ DOMAIN bodies' = DOMAIN bodies \cup {declared[name]}
      /\ \A id \in DOMAIN bodies : bodies'[id] = bodies[id]
      /\ bodies'[declared[name]] = translated[name]
  BY <1>1 DEF Put
<1>4. \A g \in DOMAIN declared : declared[g] = declared[name] => g = name
  BY <1>2 DEF LinkedInv, IdsInv
<1>5. BodiesInv'
  <2>1. ASSUME NEW g \in DOMAIN declared, declared[g] \in DOMAIN bodies'
        PROVE  bodies'[declared[g]] = translated[g]
    <3>1. CASE declared[g] \in DOMAIN bodies
      BY <1>3, <3>1 DEF LinkedInv, BodiesInv
    <3>2. CASE declared[g] = declared[name]
      BY <1>3, <1>4, <3>2
    <3> QED
      BY <1>3, <2>1, <3>1, <3>2
  <2> QED
    BY <1>1, <1>2, <2>1 DEF BodiesInv
<1>6. DOMAIN wrappers = {}
  BY <1>1, <1>2 DEF LinkedInv, WrappersInv
<1> QED
  BY <1>1, <1>2, <1>5, <1>6
  DEF LinkedInv, IdsInv, OrderInv, RefsInv, TranslatedInv, WrappersInv, NoLookupFails

LEMMA WrapStep ==
    ASSUME LinkedInv, NEW name \in Names, DefineWrapper(name) PROVE LinkedInv'
<1>1. /\ stage = "work" /\ phase = "done" /\ DOMAIN bodies = {declared[g] : g \in Names}
      /\ name \notin DOMAIN wrappers /\ UNCHANGED vars
  BY DEF DefineWrapper, Working
<1>2. UNCHANGED <<prog, phase, analyzed>> /\ Names' = Names
  BY <1>1 DEF vars, Names
<1>3. CASE name \in Imports
  BY <1>1, <1>3, PanicKeeps DEF DefineWrapper
<1>4. CASE name \notin Imports
  <2>1. /\ wrappers' = Put(wrappers, name, declared[name])
        /\ UNCHANGED <<stage, declared, refs, translated, bodies>>
    BY <1>4 DEF DefineWrapper
  <2>2. WrappersInv'
    BY <1>1, <1>2, <2>1 DEF Put, LinkedInv, WrappersInv
  <2> QED
    BY <1>1, <1>2, <2>1, <2>2
    DEF LinkedInv, IdsInv, OrderInv, RefsInv, TranslatedInv, BodiesInv, NoLookupFails
<1> QED
  BY <1>3, <1>4

LEMMA DeliverStep == ASSUME LinkedInv, Deliver PROVE LinkedInv'
<1>1. /\ phase = "done" /\ DOMAIN wrappers = Names /\ stage' = "done" /\ Names' = Names
      /\ UNCHANGED <<prog, phase, analyzed, declared, refs, translated, bodies, wrappers>>
  BY DEF Deliver, vars, Names
<1> QED
  BY <1>1 DEF LinkedInv, IdsInv, OrderInv, RefsInv, TranslatedInv, BodiesInv, WrappersInv,
              NoLookupFails

LEMMA LinkedInvariant == CSpec => []LinkedInv
<1>1. LinkedInv /\ [CNext]_<<vars, compiler>> => LinkedInv'
  <2> SUFFICES ASSUME LinkedInv, [CNext]_<<vars, compiler>> PROVE LinkedInv'
    OBVIOUS
  <2>1. CASE CNext
    BY <2>1, DeclareStep, AnalysisKeeps, ImportStep, TranslateStep, DefineStep, WrapStep,
       DeliverStep DEF CNext
  <2>2. CASE UNCHANGED <<vars, compiler>>
    <3>1. /\ Names' = Names
          /\ UNCHANGED <<prog, phase, analyzed, stage, declared, refs, translated, bodies,
                         wrappers>>
      BY <2>2 DEF vars, compiler, Names
    <3> QED
      BY <3>1 DEF LinkedInv, IdsInv, OrderInv, RefsInv, TranslatedInv, BodiesInv,
                  WrappersInv, NoLookupFails
  <2> QED
    BY <2>1, <2>2
<1> QED
  BY InitLinked, <1>1, PTL DEF CSpec

-----------------------------------------------------------------------------
\* None of compile's expects and unwraps about its own maps fails, for any
\* program and any answer of the analysis.
THEOREM LookupsSucceed == CSpec => []NoLookupFails
<1>1. LinkedInv => NoLookupFails
  BY DEF LinkedInv
<1> QED
  BY LinkedInvariant, <1>1, PTL

\* Under each exported name there is the code of that function, its calls bound
\* to the bodies of the functions they name.
THEOREM ModuleIsLinked == CSpec => []Delivered
<1>1. LinkedInv => Delivered
  <2> SUFFICES ASSUME LinkedInv, stage = "done", NEW name \in Names
               PROVE  LET body == bodies[wrappers[name]]
                      IN /\ body.code = prog[name]
                         /\ \A c \in Callees(prog, name) : bodies[body.calls[c]].code = prog[c]
    BY DEF Delivered
  <2>1. phase = "done" /\ DOMAIN declared = Names /\ DOMAIN wrappers = Names
    BY DEF LinkedInv, OrderInv, WrappersInv
  <2>2. /\ DOMAIN bodies = {declared[g] : g \in Names} /\ wrappers[name] = declared[name]
    BY <2>1 DEF LinkedInv, WrappersInv
  <2>3. DOMAIN translated = Names /\ DOMAIN refs = Names
    BY <2>2 DEF LinkedInv, BodiesInv, TranslatedInv
  <2>4. ASSUME NEW g \in Names PROVE bodies[declared[g]].code = prog[g]
    BY <2>1, <2>2, <2>3 DEF LinkedInv, BodiesInv, TranslatedInv
  <2>5. bodies[declared[name]].calls = refs[name]
    BY <2>1, <2>2, <2>3 DEF LinkedInv, BodiesInv, TranslatedInv
  <2>6. ASSUME NEW c \in Callees(prog, name) PROVE bodies[refs[name][c]].code = prog[c]
    <3>1. refs[name][c] = declared[c] /\ c \in Names
      BY <2>3 DEF LinkedInv, RefsInv, Callees, Names
    <3> QED
      BY <2>4, <3>1
  <2> QED
    BY <2>2, <2>4, <2>5, <2>6
<1> QED
  BY LinkedInvariant, <1>1, PTL

-----------------------------------------------------------------------------
\* The analysis runs inside of the compiler as it does alone.
LEMMA CompilerAnalyzes == CSpec => Spec
<1>1. [CNext]_<<vars, compiler>> => [Next]_vars
  BY DEF CNext, Declare, Import, Translate, Define, DefineWrapper, Analysis, Deliver
<1>2. CInit => Init
  BY DEF CInit
<1> QED
  BY <1>1, <1>2, PTL DEF CSpec, Spec

\* So the compiler finds no solved function that calls one it had to abandon.
COROLLARY CompiledCallsSolved == CSpec => []SolvedCallsSolved
BY AbandonedReachCallers, CompilerAnalyzes, PTL

\* The part of the compiler's types that LinkedInv does not have.
StageInv ==
    /\ stage \in {"work", "done", "analysis", "lookup", "theorem", "signature", "name"}
    /\ \A name \in DOMAIN refs : refs[name] \in [Callees(prog, name) -> 0..(Cardinality(Names) - 1)]
    /\ DOMAIN wrappers \subseteq Names

LEMMA StageStep ==
    ASSUME LinkedInv, StageInv, [CNext]_<<vars, compiler>>
    PROVE  StageInv'
<1>0. ASSUME prog' = prog, UNCHANGED <<refs, wrappers>>,
             stage' \in {"work", "done", "analysis", "lookup", "theorem", "signature", "name"}
      PROVE  StageInv'
  BY <1>0 DEF StageInv, Names
<1>1. CASE UNCHANGED <<vars, compiler>>
  <2>1. UNCHANGED <<prog, stage, refs, wrappers>>
    BY <1>1 DEF vars, compiler
  <2> QED
    BY <1>0, <2>1 DEF StageInv
<1>2. ASSUME NEW name \in Names, Declare(name) \/ Translate(name) \/ Define(name)
      PROVE  StageInv'
  <2>1. /\ prog' = prog /\ UNCHANGED <<refs, wrappers>>
        /\ stage' \in {stage, "lookup", "theorem", "signature"}
    BY <1>2 DEF Declare, Translate, Define, vars, Panic
  <2> QED
    BY <1>0, <2>1 DEF StageInv
<1>3. ASSUME NEW name \in Names, Import(name) PROVE StageInv'
  <2>1. /\ phase = "done" /\ prog' = prog /\ wrappers' = wrappers
        /\ \/ stage' = "lookup" /\ refs' = refs
           \/ /\ stage' = stage
              /\ refs' = Put(refs, name, [c \in Callees(prog, name) |-> declared[c]])
    BY <1>3 DEF Import, vars, Panic
  <2>2. DOMAIN declared = Names
    BY <2>1, AfterAnalysis
  <2>3. [c \in Callees(prog, name) |-> declared[c]] \in [Callees(prog, name) -> 0..(Cardinality(Names) - 1)]
    BY <2>2 DEF LinkedInv, IdsInv, Callees, Names
  <2>4. CASE stage' = "lookup" /\ refs' = refs
    BY <1>0, <2>1, <2>4
  <2>5. CASE /\ stage' = stage
             /\ refs' = Put(refs, name, [c \in Callees(prog, name) |-> declared[c]])
    <3>1. \A g \in DOMAIN refs' :
             refs'[g] \in [Callees(prog, g) -> 0..(Cardinality(Names) - 1)]
      <4> DEFINE ids == [c \in Callees(prog, name) |-> declared[c]]
      <4>1. /\ DOMAIN refs' = DOMAIN refs \cup {name} /\ refs'[name] = ids
            /\ \A g \in DOMAIN refs : g # name => refs'[g] = refs[g]
        BY <2>5 DEF Put
      <4> HIDE DEF ids
      <4> QED
        BY <2>3, <4>1 DEF StageInv, ids
    <3> QED
      BY <2>1, <2>5, <3>1 DEF StageInv, Names
  <2> QED
    BY <2>1, <2>4, <2>5
<1>4. ASSUME NEW name \in Names, DefineWrapper(name) PROVE StageInv'
  <2>1. /\ prog' = prog /\ refs' = refs
        /\ \/ stage' = "name" /\ wrappers' = wrappers
           \/ stage' = stage /\ DOMAIN wrappers' = DOMAIN wrappers \cup {name}
    BY <1>4 DEF DefineWrapper, vars, Panic, Put
  <2> QED
    BY <2>1 DEF StageInv, Names
<1>5. CASE Analysis
  <2>1. prog' = prog
    BY <1>5, AnalysisStep DEF Analysis
  <2>2. UNCHANGED <<refs, wrappers>> /\ stage' \in {stage, "analysis"}
    BY <1>5 DEF Analysis, Panic, compiler
  <2> QED
    BY <1>0, <2>1, <2>2 DEF StageInv
<1>6. CASE Deliver
  <2>1. prog' = prog /\ UNCHANGED <<refs, wrappers>> /\ stage' = "done"
    BY <1>6 DEF Deliver, vars
  <2> QED
    BY <1>0, <2>1
<1> QED
  BY <1>1, <1>2, <1>3, <1>4, <1>5, <1>6 DEF CNext

\* The compiler's maps: ids are distinct and in range, references of a function
\* are to its callees, wrappers are for its names (declare_functions and the
\* loops after it).
THEOREM CompilerTypes == CSpec => []CTypeOK
<1>1. CInit => StageInv
  BY DEF CInit, StageInv
<1>2. AnalysisInv /\ LinkedInv /\ StageInv => CTypeOK
  BY DEF AnalysisInv, LinkedInv, IdsInv, StageInv, CTypeOK, IsInjective
<1>3. Spec => []AnalysisInv
  BY AnalysisInvariant
<1>4. LinkedInv /\ StageInv /\ [CNext]_<<vars, compiler>> => StageInv'
  BY StageStep
<1> QED
  BY <1>1, <1>2, <1>3, <1>4, CompilerAnalyzes, LinkedInvariant, PTL DEF CSpec

\* So the compiler is only given signatures that keep to the theorem, and
\* never types that are right.
COROLLARY CompiledTheorem == CSpec => [](ClacTheorem /\ NeverIsRight)
BY TheoremOfClac, NeverTypeIsRight, CompilerAnalyzes, PTL

-----------------------------------------------------------------------------
(* 6. The program that runs.                                               *)

\* What a frame holds.
FrameRec == [f : DOMAIN prog, start : Nat, pos : Nat, base : Int]

\* The frame is at the end of its function, about to return.
Over(fr) == fr.start = Len(prog[fr.f])

\* Every account of the frame's function has it at depth D when at pos.
Reached(fr, D, pos) ==
    \A C, p, d : fr.f \in C /\ Explains(C, p, d) =>
        D = fr.base + NumOf(p, fr.f)
              - (IF Over(fr) THEN 0 ELSE p[fr.f][fr.start] - d[fr.f][fr.start][pos])

\* What is left of the function's reach is enough for the block and what
\* follows it.
Deep(fr) ==
    \A C, p, d, r, reach :
        /\ fr.f \in C /\ Explains(C, p, d) /\ Fits(C, reach, d, r)
        /\ \A g \in C : reach[g] = sigs[g].reach
        => reach[fr.f] + NumOf(p, fr.f) - p[fr.f][fr.start] >= r[fr.f][fr.start]

\* Frame fr is in a block on a path from the entry, of a solved function.
Placed(fr) ==
    /\ fr \in FrameRec /\ fr.f \in DOMAIN sigs
    /\ Over(fr) \/ /\ fr.start \in ReachableBlocks(graphs[fr.f])
                   /\ fr.pos \in fr.start..graphs[fr.f][fr.start].end
                   /\ Deep(fr)

\* Frame fr waits for frame next, which it has called.
Waits(fr, next) ==
    /\ ~ Over(fr)
    /\ fr.pos - 1 \in DOMAIN CodeOf(fr.f, fr.start)
    /\ CodeOf(fr.f, fr.start)[fr.pos - 1].op = "call"
    /\ CodeOf(fr.f, fr.start)[fr.pos - 1].f = next.f
    /\ Reached(fr, next.base, fr.pos - 1)

\* Frames fs with the stack at depth D: each is placed and waits for the next.
RunsAt(fs, D) ==
    /\ fs \in Seq(FrameRec) /\ D \in Int /\ Len(fs) <= MaxFrames
    /\ \A i \in 1..Len(fs) : Placed(fs[i])
    /\ \A i \in 1..(Len(fs) - 1) : Waits(fs[i], fs[i + 1])
    /\ fs # << >> => Reached(fs[Len(fs)], D, fs[Len(fs)].pos)

\* What is known of an analysis.
Known == AnalysisInv /\ SoundInv

LEMMA KnownFacts ==
    ASSUME Known
    PROVE  /\ GraphsInv /\ SolvedCallsSolved /\ DOMAIN sigs \subseteq DOMAIN prog
           /\ \A g \in DOMAIN sigs : sigs[g] \in Sig /\ Accounted(g)
BY DEF Known, AnalysisInv, TypeOK, SolvingInv

\* Accounts are in numbers.
LEMMA AccountsAreInts ==
    ASSUME GraphsInv, NEW C, NEW p, NEW d, Explains(C, p, d), NEW f \in C, f \in DOMAIN prog
    PROVE  /\ NumOf(p, f) \in Int
           /\ \A s \in ReachableBlocks(graphs[f]) :
                 /\ p[f][s] \in Int
                 /\ \A j \in s..graphs[f][s].end : d[f][s][j] \in Int
<1>1. ReachableBlocks(graphs[f]) # {} => 0 \in ReachableBlocks(graphs[f])
  BY BlocksOnPaths
<1> QED
  BY <1>1 DEF Explains, DepthsIn, NumOf

\* A call begins.
LEMMA EnteredIsPlaced ==
    ASSUME Known, NEW f \in DOMAIN sigs, NEW D \in Int
    PROVE  Placed(Frame(f, D)) /\ Reached(Frame(f, D), D, 0)
<1> DEFINE fr == Frame(f, D)
           R == ReachableBlocks(graphs[f])
<1>1. GraphsInv /\ f \in DOMAIN prog
  BY KnownFacts
<1>2. fr \in FrameRec /\ fr.f = f /\ fr.start = 0 /\ fr.pos = 0 /\ fr.base = D
  BY <1>1 DEF Frame, FrameRec
<1>3. /\ R # {} => 0 \in R
      /\ R = {} <=> Len(prog[f]) = 0
      /\ \A s \in R : graphs[f][s].end \in Nat /\ s < graphs[f][s].end
  BY <1>1, BlocksOnPaths
<1>4. \A C, p, d : f \in C /\ Explains(C, p, d) => NumOf(p, f) \in Int
  BY <1>1, AccountsAreInts
<1> HIDE DEF fr
<1>5. CASE R = {}
  <2>1. Over(fr)
    BY <1>2, <1>3, <1>5 DEF Over
  <2>2. Reached(fr, D, 0)
    <3> SUFFICES ASSUME NEW C, NEW p, NEW d, f \in C, Explains(C, p, d)
                 PROVE  D = D + NumOf(p, f) - 0
      BY <1>2, <2>1 DEF Reached
    <3> QED
      BY <1>5 DEF NumOf
  <2> QED
    BY <1>2, <2>1, <2>2 DEF Placed, fr
<1>6. CASE R # {}
  <2>1. ~ Over(fr) /\ 0 \in R
    BY <1>2, <1>3, <1>6 DEF Over
  <2>2. Reached(fr, D, 0)
    <3> SUFFICES ASSUME NEW C, NEW p, NEW d, f \in C, Explains(C, p, d)
                 PROVE  D = D + NumOf(p, f) - (p[f][0] - d[f][0][0])
      BY <1>2, <2>1 DEF Reached
    <3>1. d[f][0][0] = 0
      BY <2>1 DEF Explains, DepthsIn
    <3>2. NumOf(p, f) = p[f][0] /\ p[f][0] \in Int
      BY <1>4, <1>6 DEF NumOf
    <3> QED
      BY <3>1, <3>2
  <2>3. Deep(fr)
    <3> SUFFICES ASSUME NEW C, NEW p, NEW d, NEW r, NEW reach,
                        f \in C, Explains(C, p, d), Fits(C, reach, d, r)
                 PROVE  reach[f] + NumOf(p, f) - p[f][0] >= r[f][0]
      BY <1>2 DEF Deep
    <3>1. reach[f] = r[f][0] /\ reach[f] \in Int
      BY <1>6 DEF Fits
    <3>2. NumOf(p, f) = p[f][0] /\ p[f][0] \in Int
      BY <1>4, <1>6 DEF NumOf
    <3> QED
      BY <3>1, <3>2
  <2>4. 0 \in 0..graphs[f][0].end
    BY <1>3, <2>1
  <2> QED
    BY <1>2, <2>1, <2>2, <2>3, <2>4 DEF Placed, fr
<1> QED
  BY <1>5, <1>6

\* The frame goes on in its block.
LEMMA AdvancedIsPlaced ==
    ASSUME Known, NEW fr, Placed(fr), ~ Over(fr), fr.pos < graphs[fr.f][fr.start].end,
           NEW gr \in FrameRec, gr.f = fr.f, gr.base = fr.base, gr.start = fr.start,
           gr.pos = fr.pos + 1
    PROVE  Placed(gr) /\ ~ Over(gr)
<1>1. /\ fr \in FrameRec /\ fr.f \in DOMAIN sigs /\ fr.start \in ReachableBlocks(graphs[fr.f])
      /\ fr.pos \in fr.start..graphs[fr.f][fr.start].end /\ Deep(fr)
  BY DEF Placed
<1>2. GraphsInv /\ fr.f \in DOMAIN prog
  BY <1>1, KnownFacts
<1>3. graphs[fr.f][fr.start].end \in Nat
  BY <1>1, <1>2, BlocksOnPaths
<1>4. gr \in FrameRec /\ gr.f = fr.f /\ gr.base = fr.base /\ gr.start = fr.start /\ gr.pos = fr.pos + 1
  BY <1>1 DEF FrameRec
<1>5. Deep(gr) /\ ~ Over(gr)
  BY <1>1, <1>4 DEF Deep, Over
<1>6. gr.pos \in gr.start..graphs[gr.f][gr.start].end
  BY <1>1, <1>3, <1>4 DEF FrameRec
<1> QED
  BY <1>1, <1>4, <1>5, <1>6 DEF Placed

LEMMA AdvancedHasReached ==
    ASSUME Known, NEW fr, Placed(fr), ~ Over(fr), NEW j \in fr.start..(graphs[fr.f][fr.start].end - 1),
           NEW gr, gr.f = fr.f, gr.base = fr.base, gr.start = fr.start,
           NEW D \in Int, Reached(fr, D, j), NEW E \in Int,
           \A C, p, d : fr.f \in C /\ Explains(C, p, d) =>
               E - D = d[fr.f][fr.start][j + 1] - d[fr.f][fr.start][j]
    PROVE  Reached(gr, E, j + 1)
<1> DEFINE f == fr.f
           s == fr.start
<1>1. f \in DOMAIN sigs /\ s \in ReachableBlocks(graphs[f]) /\ fr.base \in Int
  BY DEF Placed, FrameRec
<1>2. GraphsInv /\ f \in DOMAIN prog
  BY <1>1, KnownFacts
<1>3. graphs[f][s].end \in Nat /\ s \in Nat
  BY <1>1, <1>2, BlocksOnPaths
<1>4. ~ Over(gr)
  BY DEF Over
<1> SUFFICES ASSUME NEW C, NEW p, NEW d, f \in C, Explains(C, p, d)
             PROVE  E = fr.base + NumOf(p, f) - (p[f][s] - d[f][s][j + 1])
  BY <1>4 DEF Reached
<1>5. D = fr.base + NumOf(p, f) - (p[f][s] - d[f][s][j])
  BY DEF Reached
<1>6. E - D = d[f][s][j + 1] - d[f][s][j]
  OBVIOUS
<1>7. NumOf(p, f) \in Int /\ p[f][s] \in Int /\ \A i \in s..graphs[f][s].end : d[f][s][i] \in Int
  BY <1>1, <1>2, AccountsAreInts
<1>8. j \in s..graphs[f][s].end /\ j + 1 \in s..graphs[f][s].end
  BY <1>3
<1> HIDE DEF f, s
<1>9. d[f][s][j] \in Int /\ d[f][s][j + 1] \in Int
  BY <1>7, <1>8
<1> QED
  BY <1>1, <1>5, <1>6, <1>7, <1>9

LEMMA RangeEnds == \A a, b \in Int : a <= b => a \in a..b /\ b \in a..b
OBVIOUS

LEMMA MovedDepth ==
    \A D, b, n, ps, dd, pt \in Int :
        D = b + n - (ps - dd) /\ ps = dd + pt => D = b + n - pt
OBVIOUS

LEMMA MovedReach ==
    \A r, n, ps, dd, pt, rs, rt \in Int :
        r + n - ps >= rs /\ rs >= rt - dd /\ ps = dd + pt => r + n - pt >= rt
OBVIOUS

\* The frame takes an edge.
LEMMA JumpedIsPlaced ==
    ASSUME Known, NEW fr, Placed(fr), ~ Over(fr), fr.pos = graphs[fr.f][fr.start].end,
           NEW x \in Onward(fr.f, fr.start), NEW t, t = graphs[fr.f][fr.start].term.targets[x],
           NEW gr \in FrameRec, gr.f = fr.f, gr.base = fr.base, gr.start = t, gr.pos = t,
           NEW D \in Int, Reached(fr, D, fr.pos)
    PROVE  Placed(gr) /\ Reached(gr, D, t)
<1> DEFINE f == fr.f
           s == fr.start
           e == graphs[f][s].end
           R == ReachableBlocks(graphs[f])
<1>1. /\ fr \in FrameRec /\ f \in DOMAIN sigs /\ s \in R /\ Deep(fr)
  BY DEF Placed
<1>2. GraphsInv /\ f \in DOMAIN prog
  BY <1>1, KnownFacts
<1>3. /\ t \in e..Len(prog[f]) /\ s < t /\ (t # Len(prog[f]) => t \in R)
      /\ e \in Nat /\ Len(prog[f]) \in Nat /\ s < e /\ s \in Nat
      /\ \A u \in R : graphs[f][u].end \in Nat /\ u < graphs[f][u].end /\ u \in Nat
  <2>1. t \in e..Len(prog[f]) /\ s < t /\ (t # Len(prog[f]) => t \in R)
    BY <1>1, <1>2, EdgesOnward
  <2>2. /\ Len(prog[f]) \in Nat /\ R \subseteq 0..(Len(prog[f]) - 1)
        /\ \A u \in R : graphs[f][u].end \in Nat /\ u < graphs[f][u].end
    BY <1>2, BlocksOnPaths
  <2>3. \A u \in R : u \in Nat
    BY <2>2
  <2> QED
    BY <1>1, <2>1, <2>2, <2>3
<1>31. \A u \in R : graphs[f][u].end \in Int /\ u \in Int /\ u <= graphs[f][u].end
  <2>1. \A u \in R : graphs[f][u].end \in Nat /\ u < graphs[f][u].end /\ u \in Nat
    BY <1>3
  <2> HIDE DEF R, f
  <2>2. \A a, b \in Nat : a < b => a \in Int /\ b \in Int /\ a <= b
    OBVIOUS
  <2> QED
    BY <2>1, <2>2
<1>32. e \in Int /\ s \in Int /\ s <= e
  BY <1>1, <1>31
<1>4. t \in Nat
  BY <1>3
<1>5. gr \in FrameRec /\ gr.f = f /\ gr.base = fr.base /\ gr.start = t /\ gr.pos = t /\ fr.base \in Int
  BY <1>1, <1>4 DEF FrameRec
<1>6. ASSUME NEW C, NEW p, NEW d, f \in C, Explains(C, p, d)
      PROVE  /\ NumOf(p, f) \in Int /\ p[f][s] \in Int /\ d[f][s][e] \in Int
             /\ t # Len(prog[f]) => p[f][t] \in Int /\ d[f][t][t] = 0
             /\ p[f][s] = d[f][s][e] + (IF t = Len(prog[f]) THEN 0 ELSE p[f][t])
  <2>1. /\ NumOf(p, f) \in Int
        /\ \A u \in R : p[f][u] \in Int /\ \A j \in u..graphs[f][u].end : d[f][u][j] \in Int
    BY <1>2, <1>6, AccountsAreInts
  <2>2. e \in s..e
    <3>1. e \in Int /\ s \in Int /\ s <= e
      BY <1>32
    <3> HIDE DEF e
    <3> QED
      BY <3>1, RangeEnds
  <2>3. t # Len(prog[f]) => d[f][t][t] = 0
    BY <1>3, <1>6 DEF Explains, DepthsIn
  <2>4. p[f][s] = d[f][s][e] + (IF t = Len(prog[f]) THEN 0 ELSE p[f][t])
    BY <1>1, <1>6 DEF Explains, EdgesAgree
  <2> QED
    BY <1>1, <1>3, <2>1, <2>2, <2>3, <2>4
<1>7. Reached(gr, D, t)
  <2> SUFFICES ASSUME NEW C, NEW p, NEW d, f \in C, Explains(C, p, d)
               PROVE  D = fr.base + NumOf(p, f)
                            - (IF t = Len(prog[f]) THEN 0 ELSE p[f][t] - d[f][t][t])
    BY <1>5 DEF Reached, Over
  <2>1. D = fr.base + NumOf(p, f) - (p[f][s] - d[f][s][e])
    BY DEF Reached
  <2>2. /\ NumOf(p, f) \in Int /\ p[f][s] \in Int /\ d[f][s][e] \in Int
        /\ t # Len(prog[f]) => p[f][t] \in Int /\ d[f][t][t] = 0
        /\ p[f][s] = d[f][s][e] + (IF t = Len(prog[f]) THEN 0 ELSE p[f][t])
    BY <1>6
  <2> HIDE DEF f, s, e
  <2> DEFINE n == NumOf(p, f)
             ps == p[f][s]
             dd == d[f][s][e]
  <2>3. CASE t = Len(prog[f])
    <3>1. ps = dd + 0 /\ n \in Int /\ ps \in Int /\ dd \in Int /\ D = fr.base + n - (ps - dd)
      BY <2>1, <2>2, <2>3
    <3> HIDE DEF n, ps, dd
    <3>2. D = fr.base + n - 0
      BY <1>5, <3>1
    <3> QED
      BY <2>3, <3>2 DEF n
  <2>4. CASE t # Len(prog[f])
    <3> DEFINE pt == p[f][t]
               b == fr.base
    <3>1. d[f][t][t] = 0
      BY <2>2, <2>4
    <3>7. ps = dd + pt
      BY <2>2, <2>4
    <3>2. D \in Int /\ b \in Int /\ n \in Int /\ ps \in Int /\ dd \in Int /\ pt \in Int
      BY <1>5, <2>2, <2>4
    <3>3. D = b + n - (ps - dd)
      BY <2>1
    <3> HIDE DEF n, ps, dd, pt, b
    <3>4. D = b + n - pt
      BY <3>2, <3>3, <3>7
    <3>5. pt - 0 = pt
      BY <3>2
    <3>6. D = b + n - (pt - d[f][t][t])
      BY <3>1, <3>4, <3>5
    <3> QED
      BY <2>4, <3>6 DEF n, pt, b
  <2> QED
    BY <2>3, <2>4
<1>8. t # Len(prog[f]) => Deep(gr)
  <2> SUFFICES ASSUME t # Len(prog[f]),
                      NEW C, NEW p, NEW d, NEW r, NEW reach, f \in C, Explains(C, p, d),
                      Fits(C, reach, d, r), \A g \in C : reach[g] = sigs[g].reach
               PROVE  reach[f] + NumOf(p, f) - p[f][t] >= r[f][t]
    BY <1>5 DEF Deep
  <2>1. reach[f] + NumOf(p, f) - p[f][s] >= r[f][s]
    BY <1>1 DEF Deep
  <2>2. BlockFits(C, reach, d[f][s], r[f], f, s) /\ BlockFits(C, reach, d[f][t], r[f], f, t)
    BY <1>1, <1>3 DEF Fits
  <2>3. r[f][s] \in Int /\ r[f][t] \in Int /\ r[f][s] >= r[f][t] - d[f][s][e]
    BY <2>2 DEF BlockFits
  <2>4. reach[f] \in Int
    BY DEF Fits
  <2>5. /\ NumOf(p, f) \in Int /\ p[f][s] \in Int /\ d[f][s][e] \in Int
        /\ p[f][t] \in Int
        /\ p[f][s] = d[f][s][e] + p[f][t]
    BY <1>6
  <2> DEFINE n == NumOf(p, f)
             ps == p[f][s]
             dd == d[f][s][e]
             pt == p[f][t]
             rs == r[f][s]
             rt == r[f][t]
             rf == reach[f]
  <2>6. /\ rf \in Int /\ n \in Int /\ ps \in Int /\ dd \in Int /\ pt \in Int
        /\ rs \in Int /\ rt \in Int
        /\ rf + n - ps >= rs /\ rs >= rt - dd /\ ps = dd + pt
    BY <2>1, <2>3, <2>4, <2>5
  <2> HIDE DEF n, ps, dd, pt, rs, rt, rf
  <2>7. rf + n - pt >= rt
    BY <2>6, MovedReach
  <2> QED
    BY <2>7 DEF n, pt, rt, rf
<1>9. t # Len(prog[f]) => t \in t..graphs[f][t].end
  <2> SUFFICES ASSUME t # Len(prog[f]) PROVE t \in t..graphs[f][t].end
    OBVIOUS
  <2>1. graphs[f][t].end \in Int /\ t \in Int /\ t <= graphs[f][t].end
    <3>1. t \in R
      BY <1>3
    <3> QED
      BY <1>31, <3>1
  <2> QED
    BY <2>1, RangeEnds
<1> QED
  BY <1>1, <1>3, <1>5, <1>7, <1>8, <1>9 DEF Placed, Over

\* The innermost frame becomes gr.
LEMMA TopMoves ==
    ASSUME NEW fs, NEW D, RunsAt(fs, D), fs # << >>, NEW n, n = Len(fs),
           NEW gr, Placed(gr), gr.f = fs[n].f, gr.base = fs[n].base,
           NEW E \in Int, Reached(gr, E, gr.pos), NEW hs, hs = [fs EXCEPT ![n] = gr]
    PROVE  RunsAt(hs, E)
<1>1. /\ fs \in Seq(FrameRec) /\ n <= MaxFrames
      /\ \A i \in 1..n : Placed(fs[i])
      /\ \A i \in 1..(n - 1) : Waits(fs[i], fs[i + 1])
  BY DEF RunsAt
<1>2. gr \in FrameRec
  BY DEF Placed
<1>3. n \in Nat /\ n # 0
  BY <1>1
<1>4. hs \in Seq(FrameRec) /\ Len(hs) = n /\ hs[n] = gr /\ \A i \in 1..n : i # n => hs[i] = fs[i]
  BY <1>1, <1>2, <1>3
<1>5. \A i \in 1..n : Placed(hs[i])
  BY <1>1, <1>4
<1>6. ASSUME NEW i \in 1..(n - 1) PROVE Waits(hs[i], hs[i + 1])
  <2>1. hs[i] = fs[i] /\ Waits(fs[i], fs[i + 1])
    BY <1>1, <1>3, <1>4
  <2>2. hs[i + 1].f = fs[i + 1].f /\ hs[i + 1].base = fs[i + 1].base
    <3>1. CASE i + 1 = n
      BY <1>4, <3>1
    <3>2. CASE i + 1 # n
      <4>1. i + 1 \in 1..n
        BY <1>3
      <4> QED
        BY <1>4, <3>2, <4>1
    <3> QED
      BY <3>1, <3>2
  <2> QED
    BY <2>1, <2>2 DEF Waits
<1> QED
  BY <1>1, <1>4, <1>5, <1>6 DEF RunsAt

\* ... and calls nr.
LEMMA TopCalls ==
    ASSUME NEW fs, NEW D, RunsAt(fs, D), fs # << >>, NEW n, n = Len(fs), n < MaxFrames,
           NEW gr, Placed(gr), gr.f = fs[n].f, gr.base = fs[n].base,
           NEW nr, Placed(nr), Waits(gr, nr), Reached(nr, D, nr.pos),
           NEW hs, hs = Append([fs EXCEPT ![n] = gr], nr)
    PROVE  RunsAt(hs, D)
<1>1. /\ fs \in Seq(FrameRec) /\ D \in Int
      /\ \A i \in 1..n : Placed(fs[i])
      /\ \A i \in 1..(n - 1) : Waits(fs[i], fs[i + 1])
  BY DEF RunsAt
<1>2. gr \in FrameRec /\ nr \in FrameRec /\ MaxFrames \in Nat
  BY FramesAssumption DEF Placed
<1>3. n \in Nat /\ n # 0
  BY <1>1
<1> DEFINE gs == [fs EXCEPT ![n] = gr]
<1>4. gs \in Seq(FrameRec) /\ Len(gs) = n /\ gs[n] = gr /\ \A i \in 1..n : i # n => gs[i] = fs[i]
  BY <1>1, <1>2, <1>3
<1> HIDE DEF gs
<1>5. hs = Append(gs, nr)
  BY DEF gs
<1>6. /\ hs \in Seq(FrameRec) /\ Len(hs) = n + 1 /\ hs[n + 1] = nr
      /\ \A i \in 1..n : hs[i] = gs[i]
  <2>1. gs \in Seq(FrameRec) /\ nr \in FrameRec /\ hs = Append(gs, nr)
    BY <1>2, <1>4, <1>5
  <2>2. /\ hs \in Seq(FrameRec) /\ Len(hs) = Len(gs) + 1 /\ hs[Len(gs) + 1] = nr
        /\ \A i \in 1..Len(gs) : hs[i] = gs[i]
    <3>1. /\ Append(gs, nr) \in Seq(FrameRec)
          /\ Len(Append(gs, nr)) = Len(gs) + 1
          /\ \A i \in 1..Len(gs) : Append(gs, nr)[i] = gs[i]
          /\ Append(gs, nr)[Len(gs) + 1] = nr
      BY <2>1, AppendProperties
    <3> QED
      BY <2>1, <3>1
  <2> QED
    BY <1>4, <2>2
<1>7. ASSUME NEW i \in 1..(n + 1) PROVE Placed(hs[i])
  <2>1. CASE i = n + 1
    BY <1>6, <2>1
  <2>2. CASE i = n
    BY <1>3, <1>4, <1>6, <2>2
  <2>3. CASE i \in 1..n /\ i # n
    BY <1>1, <1>4, <1>6, <2>3
  <2> QED
    BY <1>3, <2>1, <2>2, <2>3
<1>8. ASSUME NEW i \in 1..n PROVE Waits(hs[i], hs[i + 1])
  <2>1. CASE i = n
    BY <1>3, <1>4, <1>6, <2>1
  <2>2. CASE i # n
    <3>1. i \in 1..(n - 1) /\ i + 1 \in 1..n /\ i \in 1..n
      BY <1>3, <2>2
    <3>2. hs[i] = fs[i] /\ hs[i + 1] = gs[i + 1]
      BY <1>4, <1>6, <2>2, <3>1
    <3>3. gs[i + 1].f = fs[i + 1].f /\ gs[i + 1].base = fs[i + 1].base
      <4>1. CASE i + 1 = n
        BY <1>4, <4>1
      <4>2. CASE i + 1 # n
        BY <1>4, <3>1, <4>2
      <4> QED
        BY <4>1, <4>2
    <3>4. Waits(fs[i], fs[i + 1])
      BY <1>1, <3>1
    <3> QED
      BY <3>2, <3>3, <3>4 DEF Waits
  <2> QED
    BY <2>1, <2>2
<1>9. n + 1 <= MaxFrames /\ (n + 1) - 1 = n
  BY <1>2, <1>3
<1> QED
  BY <1>1, <1>6, <1>7, <1>8, <1>9 DEF RunsAt

\* A function that returns has a delta, and its caller is where every account
\* has it.
LEMMA ReturnedDelta ==
    ASSUME Known, NEW nr, Placed(nr), Over(nr), NEW D \in Int, Reached(nr, D, nr.pos)
    PROVE  ~ sigs[nr.f].never /\ D = nr.base + sigs[nr.f].delta
<1> DEFINE g == nr.f
           b == nr.base
<1>1. g \in DOMAIN sigs /\ b \in Int
  BY DEF Placed, FrameRec
<1>2. GraphsInv /\ DOMAIN sigs \subseteq DOMAIN prog /\ sigs[g] \in Sig /\ Accounted(g)
  BY <1>1, KnownFacts
<1>3. PICK C, p, d, r, reach : AccountOf(g, C, p, d, r, reach)
  BY <1>2 DEF Accounted
<1>4. /\ g \in C /\ Explains(C, p, d)
      /\ ~ sigs[g].never => sigs[g].delta = NumOf(p, g)
      /\ sigs[g].never => \E q, e : Explains(C, q, e) /\ NumOf(q, g) # NumOf(p, g)
  BY <1>3 DEF AccountOf
<1>5. ASSUME NEW q, NEW e, Explains(C, q, e)
      PROVE  NumOf(q, g) \in Int /\ D = b + NumOf(q, g)
  <2>1. NumOf(q, g) \in Int
    BY <1>1, <1>2, <1>4, <1>5, AccountsAreInts
  <2>2. D = b + NumOf(q, g) - 0
    BY <1>4, <1>5 DEF Reached
  <2> HIDE DEF g, b
  <2> QED
    BY <1>1, <2>1, <2>2
<1> HIDE DEF g, b
<1>6. ~ sigs[g].never
  <2> SUFFICES ASSUME sigs[g].never PROVE FALSE
    OBVIOUS
  <2>1. PICK q, e : Explains(C, q, e) /\ NumOf(q, g) # NumOf(p, g)
    BY <1>4
  <2>2. D = b + NumOf(q, g) /\ D = b + NumOf(p, g) /\ NumOf(q, g) \in Int /\ NumOf(p, g) \in Int
    BY <1>4, <1>5, <2>1
  <2>3. \A u, v \in Int : D = b + u /\ D = b + v => u = v
    BY <1>1
  <2> QED
    BY <2>1, <2>2, <2>3
<1>7. D = b + sigs[g].delta
  BY <1>4, <1>5, <1>6
<1> QED
  BY <1>6, <1>7 DEF g, b

LEMMA ReturnReached ==
    ASSUME Known, NEW fr, Placed(fr), NEW nr, Placed(nr), Waits(fr, nr), Over(nr),
           NEW D \in Int, Reached(nr, D, nr.pos)
    PROVE  Reached(fr, D, fr.pos)
<1> DEFINE f == fr.f
           s == fr.start
           j == fr.pos - 1
           x == CodeOf(f, s)[j]
           g == nr.f
           b == nr.base
<1>1. /\ ~ Over(fr) /\ j \in DOMAIN CodeOf(f, s) /\ x.op = "call" /\ x.f = g
      /\ Reached(fr, b, j)
  BY DEF Waits
<1>2. /\ f \in DOMAIN sigs /\ s \in ReachableBlocks(graphs[f]) /\ fr \in FrameRec
      /\ g \in DOMAIN sigs /\ nr \in FrameRec
  BY <1>1 DEF Placed
<1>3. b \in Int /\ fr.pos \in Nat /\ fr.pos - 1 + 1 = fr.pos
  BY <1>2 DEF FrameRec
<1>4. GraphsInv /\ f \in DOMAIN prog /\ g \in DOMAIN prog /\ sigs[g] \in Sig
  BY <1>2, KnownFacts
<1>5. j \in s..(graphs[f][s].end - 1)
  BY <1>1, <1>2, <1>4, CodeIsTyped
<1>6. ~ sigs[g].never /\ D = b + sigs[g].delta
  BY ReturnedDelta
<1>7. sigs[g].delta \in Int
  BY <1>4 DEF Sig
<1>8. Delta(x, sigs) = Ok(sigs[g].delta)
  <2> HIDE DEF x, g
  <2> QED
    BY <1>1, <1>2, <1>6 DEF Delta, FixedOps
<1>9. ASSUME NEW C, NEW p, NEW d, f \in C, Explains(C, p, d)
      PROVE  D - b = d[f][s][j + 1] - d[f][s][j]
  <2>1. Adds(C, p, x, d[f][s][j + 1] - d[f][s][j])
    BY <1>1, <1>2, <1>5, <1>9 DEF Explains, DepthsIn
  <2> DEFINE dd == d[f][s][j + 1] - d[f][s][j]
  <2>2. CASE g \in C
    <3>1. dd = NumOf(p, g)
      BY <1>1, <2>1, <2>2 DEF Adds
    <3>2. D = b + NumOf(p, g) - 0
      BY <1>9, <2>2 DEF Reached
    <3>3. NumOf(p, g) \in Int
      BY <1>4, <1>9, <2>2, AccountsAreInts
    <3> HIDE DEF dd, g, b
    <3>4. D - b = dd
      BY <1>3, <3>1, <3>2, <3>3
    <3> QED
      BY <3>4 DEF dd, b
  <2>3. CASE g \notin C
    <3>1. dd = sigs[g].delta
      BY <1>1, <1>8, <2>1, <2>3 DEF Adds, Ok
    <3> HIDE DEF dd, g, b
    <3>2. D - b = dd
      BY <1>3, <1>6, <1>7, <3>1
    <3> QED
      BY <3>2 DEF dd, b
  <2> QED
    BY <2>2, <2>3
<1>10. Reached(fr, D, j + 1)
  <2> HIDE DEF j, b
  <2>1. Reached(fr, b, j) /\ b \in Int
    BY <1>1, <1>3
  <2>2. \A C, p, d : fr.f \in C /\ Explains(C, p, d) =>
               D - b = d[fr.f][fr.start][j + 1] - d[fr.f][fr.start][j]
    BY <1>9
  <2>3. j \in fr.start..(graphs[fr.f][fr.start].end - 1)
    BY <1>5
  <2> QED
    BY <1>1, <2>1, <2>2, <2>3, AdvancedHasReached
<1> QED
  BY <1>3, <1>10

LEMMA TopReturns ==
    ASSUME Known, NEW fs, NEW D, RunsAt(fs, D), fs # << >>, Over(fs[Len(fs)]),
           NEW hs, hs = SubSeq(fs, 1, Len(fs) - 1)
    PROVE  RunsAt(hs, D)
<1> DEFINE n == Len(fs)
           m == n - 1
<1>1. /\ fs \in Seq(FrameRec) /\ D \in Int /\ n <= MaxFrames
      /\ \A i \in 1..n : Placed(fs[i])
      /\ \A i \in 1..(n - 1) : Waits(fs[i], fs[i + 1])
      /\ Reached(fs[n], D, fs[n].pos)
  BY DEF RunsAt
<1>2. n \in Nat /\ n # 0 /\ MaxFrames \in Nat
  BY <1>1, FramesAssumption
<1>3. hs \in Seq(FrameRec) /\ Len(hs) = m /\ \A i \in 1..m : hs[i] = fs[i]
  <2>1. fs \in Seq(FrameRec) /\ 1 \in 1..(Len(fs) + 1) /\ m \in 0..Len(fs)
    BY <1>1, <1>2
  <2>2. \A i \in 1..m : fs[i] \in FrameRec
    BY <1>1, <1>2
  <2>3. hs = SubSeq(fs, 1, m) /\ m \in Nat
    BY <1>2
  <2> HIDE DEF m, n
  <2> QED
    BY <2>1, <2>2, <2>3, SubSeqProperties
<1> HIDE DEF n
<1>4. ASSUME hs # << >> PROVE Reached(hs[m], D, hs[m].pos)
  <2>1. m \in 1..(n - 1) /\ m + 1 = n /\ m \in 1..n /\ n \in 1..n
    BY <1>2, <1>3, <1>4
  <2>2. Placed(fs[m]) /\ Placed(fs[n]) /\ Waits(fs[m], fs[n]) /\ Over(fs[n])
    BY <1>1, <2>1 DEF n
  <2>3. Reached(fs[m], D, fs[m].pos)
    BY <1>1, <2>2, ReturnReached
  <2>4. hs[m] = fs[m]
    BY <1>3, <2>1
  <2> QED
    BY <2>3, <2>4
<1>5. \A i \in 1..m : Placed(hs[i])
  BY <1>1, <1>2, <1>3
<1>6. \A i \in 1..(m - 1) : Waits(hs[i], hs[i + 1])
  <2> SUFFICES ASSUME NEW i \in 1..(m - 1) PROVE Waits(hs[i], hs[i + 1])
    OBVIOUS
  <2>1. i \in 1..m /\ i + 1 \in 1..m /\ i \in 1..(n - 1)
    BY <1>2
  <2> QED
    BY <1>1, <1>3, <2>1
<1>7. m <= MaxFrames
  BY <1>1, <1>2
<1> QED
  BY <1>1, <1>3, <1>4, <1>5, <1>6, <1>7 DEF RunsAt

\* The invariant of the running program.
RunInv ==
    /\ status \in {"ready", "running", "returned", "trapped", "quit"}
    /\ status = "ready" => frames = << >>
    /\ status = "running" => frames # << >>
    /\ RunsAt(frames, depth)

LEMMA TopIs ==
    ASSUME Known, RunInv, status = "running", NEW fr, fr = Top
    PROVE  /\ frames # << >> /\ frames \in Seq(FrameRec) /\ Len(frames) \in Nat \ {0}
           /\ Placed(fr) /\ fr \in FrameRec /\ fr.f \in DOMAIN sigs
           /\ Reached(fr, depth, fr.pos) /\ depth \in Int
           /\ fr.start < Len(prog[fr.f]) => ~ Over(fr)
<1>1. /\ frames # << >> /\ frames \in Seq(FrameRec) /\ depth \in Int
      /\ \A i \in 1..Len(frames) : Placed(frames[i])
      /\ Reached(frames[Len(frames)], depth, frames[Len(frames)].pos)
  BY DEF RunInv, RunsAt
<1>2. Len(frames) \in Nat \ {0}
  BY <1>1
<1>3. Placed(fr)
  BY <1>1, <1>2 DEF Top
<1>4. fr \in FrameRec /\ fr.f \in DOMAIN sigs /\ fr.start \in Nat
  BY <1>3 DEF Placed, FrameRec
<1>5. fr.start < Len(prog[fr.f]) => ~ Over(fr)
  <2>1. fr.f \in DOMAIN prog /\ GraphsInv
    BY <1>4, KnownFacts
  <2>2. Len(prog[fr.f]) \in Nat
    BY <2>1, BlocksOnPaths
  <2> QED
    BY <1>4, <2>2 DEF Over
<1> QED
  BY <1>1, <1>2, <1>3, <1>4, <1>5 DEF Top

LEMMA AtInstrIs ==
    ASSUME Known, RunInv, AtInstr, NEW fr, fr = Top
    PROVE  /\ ~ Over(fr) /\ fr.start \in ReachableBlocks(graphs[fr.f])
           /\ fr.pos \in fr.start..(graphs[fr.f][fr.start].end - 1)
           /\ fr.pos < graphs[fr.f][fr.start].end
           /\ Folded <=> fr.pos \notin DOMAIN CodeOf(fr.f, fr.start)
           /\ ~ Folded => Here = CodeOf(fr.f, fr.start)[fr.pos]
<1>1. /\ status = "running" /\ fr.start < Len(prog[fr.f])
      /\ fr.pos < graphs[fr.f][fr.start].end
  BY DEF AtInstr, InBlock, BlockOfTop
<1>2. ~ Over(fr) /\ Placed(fr) /\ fr \in FrameRec /\ fr.f \in DOMAIN sigs
  BY <1>1, TopIs
<1>3. /\ fr.start \in ReachableBlocks(graphs[fr.f])
      /\ fr.pos \in fr.start..graphs[fr.f][fr.start].end
  BY <1>2 DEF Placed
<1>4. fr.f \in DOMAIN prog /\ GraphsInv
  BY <1>2, KnownFacts
<1>5. graphs[fr.f][fr.start].end \in Nat /\ fr.start \in Nat
  BY <1>2, <1>3, <1>4, BlocksOnPaths DEF FrameRec
<1>6. fr.pos \in fr.start..(graphs[fr.f][fr.start].end - 1)
  BY <1>1, <1>3, <1>5
<1>7. Folded <=> fr.pos \notin DOMAIN CodeOf(fr.f, fr.start)
  <2>1. Folded <=> Eaten(prog[fr.f], fr.start, graphs[fr.f][fr.start].end, fr.pos)
    BY DEF Folded, BlockOfTop
  <2> QED
    BY <1>6, <2>1 DEF CodeOf, Kept
<1>8. ~ Folded => Here = CodeOf(fr.f, fr.start)[fr.pos]
  <2>1. Here = Resolved(prog[fr.f], fr.start, fr.pos)
    BY DEF Here
  <2> QED
    BY <1>7, <2>1 DEF CodeOf
<1> QED
  BY <1>1, <1>2, <1>3, <1>6, <1>7, <1>8

LEMMA FrameMoves ==
    ASSUME NEW fr \in FrameRec, NEW gr, gr = [fr EXCEPT !.pos = @ + 1]
    PROVE  gr \in FrameRec /\ gr.f = fr.f /\ gr.base = fr.base /\ gr.start = fr.start /\ gr.pos = fr.pos + 1
BY DEF FrameRec

LEMMA AdvanceIs ==
    ASSUME Known, RunInv, AtInstr, NEW fr, fr = Top, NEW gr, gr = [fr EXCEPT !.pos = @ + 1]
    PROVE  /\ Advance = [frames EXCEPT ![Len(frames)] = gr]
           /\ gr \in FrameRec /\ gr.f = fr.f /\ gr.base = fr.base /\ gr.start = fr.start
           /\ gr.pos = fr.pos + 1
           /\ Placed(gr) /\ ~ Over(gr)
<1>1. status = "running"
  BY DEF AtInstr, InBlock
<1>2. /\ frames \in Seq(FrameRec) /\ Len(frames) \in Nat \ {0} /\ fr \in FrameRec /\ Placed(fr)
      /\ ~ Over(fr) /\ fr.pos < graphs[fr.f][fr.start].end
  BY <1>1, TopIs, AtInstrIs
<1>3. Advance = [frames EXCEPT ![Len(frames)] = gr]
  BY <1>2 DEF Advance, Top
<1>4. gr \in FrameRec /\ gr.f = fr.f /\ gr.base = fr.base /\ gr.start = fr.start /\ gr.pos = fr.pos + 1
  <2> HIDE DEF FrameRec
  <2> QED
    BY <1>2, FrameMoves
<1>5. Placed(gr) /\ ~ Over(gr)
  <2> HIDE DEF Placed, Over
  <2> QED
    BY <1>2, <1>4, AdvancedIsPlaced
<1> QED
  BY <1>3, <1>4, <1>5

-----------------------------------------------------------------------------
LEMMA StepOverRuns ==
    ASSUME Known, RunInv, StepOver
    PROVE  RunsAt(frames', depth')
<1> DEFINE fr == Top
           gr == [fr EXCEPT !.pos = @ + 1]
           f == fr.f
           s == fr.start
<1>1. AtInstr /\ Folded /\ frames' = Advance /\ depth' = depth /\ status = "running"
  BY DEF StepOver, AtInstr, InBlock
<1>2. /\ Placed(fr) /\ ~ Over(fr) /\ Reached(fr, depth, fr.pos) /\ depth \in Int
      /\ f \in DOMAIN sigs /\ s \in ReachableBlocks(graphs[f])
      /\ fr.pos \in s..(graphs[f][s].end - 1) /\ fr.pos \notin DOMAIN CodeOf(f, s)
  BY <1>1, TopIs, AtInstrIs
<1>3. /\ Advance = [frames EXCEPT ![Len(frames)] = gr]
      /\ gr.f = f /\ gr.base = fr.base /\ gr.start = s /\ gr.pos = fr.pos + 1 /\ Placed(gr)
  BY <1>1, AdvanceIs
<1>4. ASSUME NEW C, NEW p, NEW d, f \in C, Explains(C, p, d)
      PROVE  depth - depth = d[f][s][fr.pos + 1] - d[f][s][fr.pos]
  <2>1. GraphsInv /\ f \in DOMAIN prog
    BY <1>2, KnownFacts
  <2>2. d[f][s][fr.pos + 1] = d[f][s][fr.pos]
    BY <1>2, <1>4 DEF Explains, DepthsIn
  <2>3. d[f][s][fr.pos] \in Int
    <3>1. fr.pos \in s..graphs[f][s].end
      BY <1>2 DEF Placed
    <3> QED
      BY <1>2, <1>4, <2>1, <3>1, AccountsAreInts
  <2> QED
    BY <1>2, <2>2, <2>3
<1>5. Reached(gr, depth, fr.pos + 1)
  <2> HIDE DEF fr, gr
  <2> QED
    BY <1>2, <1>3, <1>4, AdvancedHasReached
<1>6. /\ RunsAt(frames, depth) /\ frames # << >>
      /\ fr = frames[Len(frames)]
  BY <1>1, TopIs DEF RunInv, Top
<1> HIDE DEF fr, gr
<1> QED
  BY <1>1, <1>2, <1>3, <1>5, <1>6, TopMoves

LEMMA StepExecutedRuns ==
    ASSUME Known, RunInv, StepExecuted
    PROVE  RunsAt(frames', depth')
<1> DEFINE fr == Top
           gr == [fr EXCEPT !.pos = @ + 1]
           f == fr.f
           s == fr.start
           x == CodeOf(f, s)[fr.pos]
           E == depth + Delta(x, sigs).val
<1>1. /\ AtInstr /\ ~ Folded /\ Here.op \notin {"call", "quit"} /\ frames' = Advance
      /\ depth' = depth + Delta(Here, sigs).val /\ status = "running"
  BY DEF StepExecuted, AtInstr, InBlock
<1>2. /\ Placed(fr) /\ ~ Over(fr) /\ Reached(fr, depth, fr.pos) /\ depth \in Int
      /\ f \in DOMAIN sigs /\ s \in ReachableBlocks(graphs[f])
      /\ fr.pos \in s..(graphs[f][s].end - 1) /\ fr.pos \in DOMAIN CodeOf(f, s)
      /\ Here = x
  BY <1>1, TopIs, AtInstrIs
<1>3. /\ Advance = [frames EXCEPT ![Len(frames)] = gr]
      /\ gr.f = f /\ gr.base = fr.base /\ gr.start = s /\ gr.pos = fr.pos + 1 /\ Placed(gr)
  BY <1>1, AdvanceIs
<1>4. /\ GraphsInv /\ f \in DOMAIN sigs \cap DOMAIN prog /\ SolvedCallsSolved /\ SoundInv
      /\ \A g \in DOMAIN sigs : sigs[g] \in Sig
  BY <1>2, KnownFacts DEF Known
<1>5. Steady(x)
  <2>1. x.op # "quit" /\ x.op # "call"
    BY <1>1, <1>2
  <2> QED
    BY <1>2, <1>4, <2>1, PassedIsSteady
<1>6. Delta(x, sigs).val \in Int
  BY <1>5 DEF Steady
<1>7. ASSUME NEW C, NEW p, NEW d, f \in C, Explains(C, p, d)
      PROVE  E - depth = d[f][s][fr.pos + 1] - d[f][s][fr.pos]
  <2>1. Adds(C, p, x, d[f][s][fr.pos + 1] - d[f][s][fr.pos])
    BY <1>2, <1>7 DEF Explains, DepthsIn
  <2> DEFINE dd == d[f][s][fr.pos + 1] - d[f][s][fr.pos]
             v == Delta(x, sigs).val
  <2>2. dd = v
    BY <1>5, <1>7, <2>1, SteadyAdds
  <2>3. v \in Int /\ depth \in Int /\ E = depth + v
    BY <1>2, <1>6
  <2> HIDE DEF dd, v, E
  <2>4. E - depth = dd
    BY <2>2, <2>3
  <2> QED
    BY <2>4 DEF dd
<1>8. E \in Int /\ E = depth'
  BY <1>1, <1>2, <1>6
<1>9. Reached(gr, E, fr.pos + 1)
  <2> HIDE DEF fr, gr, E
  <2> QED
    BY <1>2, <1>3, <1>7, <1>8, AdvancedHasReached
<1>10. /\ RunsAt(frames, depth) /\ frames # << >>
       /\ fr = frames[Len(frames)]
  BY <1>1, TopIs DEF RunInv, Top
<1>11. RunsAt(frames', E)
  <2> HIDE DEF fr, gr, E
  <2> QED
    BY <1>1, <1>3, <1>8, <1>9, <1>10, TopMoves
<1> HIDE DEF E
<1> QED
  BY <1>8, <1>11

LEMMA StepCallRuns ==
    ASSUME Known, RunInv, StepCall
    PROVE  RunsAt(frames', depth')
<1> DEFINE fr == Top
           gr == [fr EXCEPT !.pos = @ + 1]
           f == fr.f
           s == fr.start
           x == CodeOf(f, s)[fr.pos]
           nr == Frame(x.f, depth)
<1>1. /\ AtInstr /\ ~ Folded /\ Here.op = "call" /\ Len(frames) < MaxFrames
      /\ frames' = Append(Advance, Frame(Here.f, depth)) /\ depth' = depth /\ status = "running"
  BY DEF StepCall, AtInstr, InBlock
<1>2. /\ Placed(fr) /\ ~ Over(fr) /\ Reached(fr, depth, fr.pos) /\ depth \in Int
      /\ f \in DOMAIN sigs /\ s \in ReachableBlocks(graphs[f])
      /\ fr.pos \in s..(graphs[f][s].end - 1) /\ fr.pos \in DOMAIN CodeOf(f, s)
      /\ Here = x /\ fr \in FrameRec
  BY <1>1, TopIs, AtInstrIs
<1>3. /\ Advance = [frames EXCEPT ![Len(frames)] = gr]
      /\ gr.f = f /\ gr.base = fr.base /\ gr.start = s /\ gr.pos = fr.pos + 1
      /\ Placed(gr) /\ ~ Over(gr)
  BY <1>1, AdvanceIs
<1>4. x.op = "call" /\ x.f \in DOMAIN sigs
  BY <1>1, <1>2, KnownFacts DEF SolvedCallsSolved
<1>5. Placed(nr) /\ Reached(nr, depth, 0) /\ nr.pos = 0 /\ nr.f = x.f /\ nr.base = depth
  BY <1>2, <1>4, EnteredIsPlaced DEF Frame
<1>6. Waits(gr, nr)
  <2>1. gr.pos - 1 = fr.pos
    BY <1>2, <1>3 DEF FrameRec
  <2>2. Reached(gr, depth, fr.pos)
    <3> HIDE DEF gr, fr
    <3> QED
      BY <1>2, <1>3 DEF Reached, Over
  <2> HIDE DEF gr, nr
  <2> QED
    BY <1>2, <1>3, <1>4, <1>5, <2>1, <2>2 DEF Waits
<1>7. /\ RunsAt(frames, depth) /\ frames # << >>
      /\ fr = frames[Len(frames)]
  BY <1>1, TopIs DEF RunInv, Top
<1>8. frames' = Append([frames EXCEPT ![Len(frames)] = gr], nr)
  BY <1>1, <1>2, <1>3
<1>9. nr.pos = 0 /\ Reached(nr, depth, nr.pos)
  <2> HIDE DEF nr
  <2> QED
    BY <1>5
<1> HIDE DEF fr, gr, nr
<1>10. RunsAt(frames', depth)
  <2>1. gr.f = frames[Len(frames)].f /\ gr.base = frames[Len(frames)].base
    BY <1>3, <1>7
  <2>2. Len(frames) < MaxFrames
    BY <1>1
  <2>3. Placed(gr) /\ Placed(nr)
    BY <1>3, <1>5
  <2>4. \A hs : hs = Append([frames EXCEPT ![Len(frames)] = gr], nr) => RunsAt(hs, depth)
    BY <1>6, <1>7, <1>9, <2>1, <2>2, <2>3, TopCalls
  <2> QED
    BY <1>8, <2>4
<1> QED
  BY <1>1, <1>10

LEMMA JumpRuns ==
    ASSUME Known, RunInv, status = "running", Jump
    PROVE  RunsAt(frames', depth')
<1> DEFINE fr == Top
           f == fr.f
           s == fr.start
<1>1. PICK t \in 0..Len(prog[Top.f]) :
         /\ Leave(t)
         /\ frames' = [frames EXCEPT ![Len(frames)].start = t, ![Len(frames)].pos = t]
  BY DEF Jump
<1>2. depth' = depth /\ s < Len(prog[f]) /\ fr.pos = graphs[f][s].end
      /\ t \in Range(graphs[f][s].term.targets)
  BY <1>1 DEF Jump, Leave, InBlock, BlockOfTop
<1>3. /\ Placed(fr) /\ ~ Over(fr) /\ Reached(fr, depth, fr.pos) /\ depth \in Int
      /\ f \in DOMAIN sigs /\ fr \in FrameRec
      /\ frames \in Seq(FrameRec) /\ Len(frames) \in Nat \ {0}
  BY <1>2, TopIs
<1>4. f \in DOMAIN prog /\ GraphsInv
  BY <1>3, KnownFacts
<1>5. PICK x \in DOMAIN graphs[f][s].term.targets : graphs[f][s].term.targets[x] = t
  BY <1>2 DEF Range
<1>6. Len(prog[f]) \in Nat
  BY <1>4, BlocksOnPaths
<1>7. x \in Onward(f, s) /\ t \in Nat
  BY <1>1, <1>5, <1>6 DEF Onward
<1> DEFINE gr == [fr EXCEPT !.start = t, !.pos = t]
<1>8. gr \in FrameRec /\ gr.f = f /\ gr.base = fr.base /\ gr.start = t /\ gr.pos = t
  BY <1>3, <1>7 DEF FrameRec
<1>9. frames' = [frames EXCEPT ![Len(frames)] = gr]
  BY <1>1, <1>3 DEF Top
<1>10. /\ RunsAt(frames, depth) /\ frames # << >>
       /\ fr = frames[Len(frames)]
  BY <1>3 DEF RunInv, Top
<1> HIDE DEF fr, gr
<1>11. Placed(gr) /\ Reached(gr, depth, t)
  BY <1>2, <1>3, <1>5, <1>7, <1>8, JumpedIsPlaced
<1> QED
  BY <1>2, <1>3, <1>8, <1>9, <1>10, <1>11, TopMoves

\* Where the frames are depends on the analysis only.
LEMMA SameRuns ==
    ASSUME UNCHANGED vars
    PROVE  RunsAt(frames, depth)' <=> RunsAt(frames', depth')
<1>1. UNCHANGED <<prog, graphs, sigs, paths>>
  BY DEF vars
<1> QED
  BY <1>1 DEF RunsAt, Placed, FrameRec, Over, Deep, Waits, Reached, Explains, Fits, BlockFits, Looks,
              DepthsIn, EdgesAgree, NumOf, Adds, CodeOf, Onward

LEMMA EnterRuns ==
    ASSUME Known, RunInv, Enter
    PROVE  RunsAt(frames', depth') /\ frames' # << >>
<1>1. PICK f \in DOMAIN sigs :
         frames' = <<Frame(f, sigs[f].reach)>> /\ depth' = sigs[f].reach
  BY DEF Enter
<1>2. sigs[f].reach \in Int
  BY KnownFacts DEF Sig
<1> DEFINE nr == Frame(f, sigs[f].reach)
<1>3. Placed(nr) /\ Reached(nr, sigs[f].reach, 0) /\ nr.pos = 0
  BY <1>2, EnteredIsPlaced DEF Frame
<1>4. nr \in FrameRec
  BY <1>3 DEF Placed
<1>5. frames' = <<nr>>
  BY <1>1
<1> HIDE DEF nr
<1>6. /\ frames' \in Seq(FrameRec) /\ Len(frames') = 1 /\ frames'[1] = nr /\ frames' # << >>
  BY <1>4, <1>5
<1>7. 1 <= MaxFrames
  BY FramesAssumption
<1> QED
  BY <1>1, <1>2, <1>3, <1>6, <1>7 DEF RunsAt

LEMMA RunStepKeeps ==
    ASSUME Known, RunInv, [RunNext]_<<vars, run>>
    PROVE  RunInv'
<1>1. CASE Analyzing
  <2>1. status = "ready" /\ status' = "ready" /\ frames = << >> /\ frames' = << >> /\ depth' = depth
        /\ depth \in Int
    BY <1>1 DEF Analyzing, run, RunInv, RunsAt
  <2>2. RunsAt(frames, depth)'
    <3>1. << >> \in Seq([f : DOMAIN prog', start : Nat, pos : Nat, base : Int]) /\ Len(<< >>) = 0
      OBVIOUS
    <3>2. 0 <= MaxFrames /\ 1..0 = {} /\ 1..(0 - 1) = {}
      BY FramesAssumption
    <3> QED
      BY <2>1, <3>1, <3>2 DEF RunsAt, FrameRec
  <2> QED
    BY <2>1, <2>2 DEF RunInv
<1>2. ASSUME UNCHANGED vars, RunsAt(frames', depth'),
             status' \in {"ready", "running", "returned", "trapped", "quit"},
             status' = "ready" => frames' = << >>, status' = "running" => frames' # << >>
      PROVE  RunInv'
  BY <1>2, SameRuns DEF RunInv
<1>3. CASE Enter
  <2>1. UNCHANGED vars /\ status' = "running"
    BY <1>3 DEF Enter
  <2> QED
    BY <1>2, <1>3, <2>1, EnterRuns
<1>4. CASE StepOver \/ StepExecuted \/ StepCall \/ (status = "running" /\ Jump)
  <2>1. UNCHANGED vars /\ status' = status /\ status = "running"
    BY <1>4 DEF StepOver, StepExecuted, StepCall, Jump, AtInstr, InBlock
  <2>2. RunsAt(frames', depth')
    BY <1>4, StepOverRuns, StepExecutedRuns, StepCallRuns, JumpRuns
  <2>3. frames' # << >>
    <3>1. frames \in Seq(FrameRec) /\ Len(frames) \in Nat \ {0}
      BY <2>1, TopIs
    <3>2. CASE StepCall
      <4>1. AtInstr /\ frames' = Append(Advance, Frame(Here.f, depth))
        BY <3>2 DEF StepCall
      <4>2. Advance = [frames EXCEPT ![Len(frames)] = [Top EXCEPT !.pos = @ + 1]]
            /\ [Top EXCEPT !.pos = @ + 1] \in FrameRec
        BY <4>1, AdvanceIs
      <4>3. Advance \in Seq(FrameRec)
        BY <3>1, <4>2
      <4> QED
        BY <4>1, <4>3
    <3>3. CASE StepOver \/ StepExecuted \/ Jump
      <4>1. DOMAIN frames' = DOMAIN frames
        BY <3>3 DEF StepOver, StepExecuted, Jump, Advance
      <4>2. 1 \in DOMAIN frames
        BY <3>1
      <4> QED
        BY <4>1, <4>2
    <3> QED
      BY <1>4, <3>2, <3>3
  <2> QED
    BY <1>2, <2>1, <2>2, <2>3
<1>5. CASE StepQuit \/ (status = "running" /\ Trap)
  <2>1. UNCHANGED <<vars, frames, depth>> /\ status' \in {"quit", "trapped"}
    BY <1>5 DEF StepQuit, Trap
  <2>2. RunsAt(frames', depth')
    BY <2>1 DEF RunInv
  <2> QED
    BY <1>2, <2>1, <2>2
<1>6. CASE Return
  <2>1. /\ UNCHANGED vars /\ status = "running" /\ Over(Top) /\ frames' = Under /\ depth' = depth
        /\ status' = IF Under = << >> THEN "returned" ELSE status
    BY <1>6 DEF Return, AtReturn, Over
  <2>2. RunsAt(frames', depth')
    BY <2>1, TopReturns DEF RunInv, Top, Under
  <2> QED
    BY <1>2, <2>1, <2>2
<1>7. CASE UNCHANGED <<vars, run>>
  <2>1. UNCHANGED <<vars, status, frames, depth>>
    BY <1>7 DEF run
  <2>2. RunsAt(frames', depth')
    BY <2>1 DEF RunInv
  <2> QED
    BY <1>2, <2>1, <2>2 DEF RunInv
<1> QED
  BY <1>1, <1>3, <1>4, <1>5, <1>6, <1>7 DEF RunNext

\* The analysis of a program that then runs.
LEMMA RunsAfterAnalysis == RunSpec => Spec
<1>1. [RunNext]_<<vars, run>> => [Next]_vars
  BY DEF RunNext, Analyzing, Enter, StepOver, StepExecuted, StepQuit, StepCall, Jump, Trap, Return
<1>2. RunInit => Init
  BY DEF RunInit
<1> QED
  BY <1>1, <1>2, PTL DEF RunSpec, Spec

\* After any analysis, the frames stay where the accounts have them.
LEMMA RunInvariant == RunSpec => [](Known /\ RunInv)
<1>1. RunInit => RunInv
  <2> SUFFICES ASSUME RunInit PROVE RunInv
    OBVIOUS
  <2>1. status = "ready" /\ frames = << >> /\ depth = 0
    BY DEF RunInit
  <2>2. 0 <= MaxFrames /\ 1..0 = {} /\ 1..(0 - 1) = {}
    BY FramesAssumption
  <2>3. << >> \in Seq(FrameRec) /\ Len(<< >>) = 0
    OBVIOUS
  <2> QED
    BY <2>1, <2>2, <2>3 DEF RunInv, RunsAt
<1>2. Known /\ RunInv /\ [RunNext]_<<vars, run>> => RunInv'
  BY RunStepKeeps
<1>3. RunSpec => []Known
  <2>1. AnalysisInv /\ SoundInv => Known
    BY DEF Known
  <2> QED
    BY <2>1, RunsAfterAnalysis, AnalysisInvariant, SoundInvariant, PTL
<1> QED
  BY <1>1, <1>2, <1>3, PTL DEF RunSpec

-----------------------------------------------------------------------------
\* An analysed program runs from block to block of its functions, never between.
THEOREM RunTypes == RunSpec => []RunTypeOK
<1>1. Known /\ RunInv => RunTypeOK
  <2> SUFFICES ASSUME Known, RunInv PROVE RunTypeOK
    OBVIOUS
  <2>1. TypeOK
    BY DEF Known, AnalysisInv
  <2>2. frames \in Seq(FrameRec) /\ depth \in Int /\ Len(frames) <= MaxFrames
    BY DEF RunInv, RunsAt
  <2>3. ASSUME NEW i \in DOMAIN frames
        PROVE  /\ frames[i].f \in DOMAIN prog
               /\ frames[i].start \in DOMAIN graphs[frames[i].f] \cup {Len(prog[frames[i].f])}
    <3>1. i \in 1..Len(frames)
      BY <2>2, <2>3
    <3>2. Placed(frames[i])
      BY <3>1 DEF RunInv, RunsAt
    <3> DEFINE fr == frames[i]
    <3>3. fr.f \in DOMAIN sigs /\ (Over(fr) \/ fr.start \in ReachableBlocks(graphs[fr.f]))
      BY <3>2 DEF Placed
    <3>4. fr.f \in DOMAIN prog /\ GraphsInv
      BY <3>3, KnownFacts
    <3> HIDE DEF fr
    <3>5. ReachableBlocks(graphs[fr.f]) \subseteq DOMAIN graphs[fr.f]
      <4>1. IsCode(prog[fr.f]) /\ graphs[fr.f] = GraphOf(prog[fr.f])
        BY <3>4, ProgramIsCode
      <4>2. \A s \in ReachableBlocks(graphs[fr.f]) : IsBlock(prog[fr.f], s, graphs[fr.f][s].end)
        BY <3>4, BlocksOnPaths
      <4>3. \A s \in ReachableBlocks(graphs[fr.f]) : s \in StartsOf(prog[fr.f])
        BY <4>2 DEF IsBlock
      <4> QED
        BY <4>1, <4>3 DEF GraphOf
    <3>6. fr.start \in DOMAIN graphs[fr.f] \cup {Len(prog[fr.f])}
      BY <3>3, <3>5 DEF Over
    <3> QED
      BY <3>4, <3>6 DEF fr
  <2> QED
    BY <2>1, <2>2, <2>3 DEF RunTypeOK, RunInv
<1> QED
  BY <1>1, RunInvariant, PTL

\* A function with a signature only ever calls functions that have one, at any
\* depth of calls: compiled code needs no other.
THEOREM OnlySolvedRun == RunSpec => []CalleesSolved
<1>1. Known /\ RunInv => CalleesSolved
  <2> SUFFICES ASSUME Known, RunInv, NEW i \in DOMAIN frames PROVE frames[i].f \in DOMAIN sigs
    BY DEF CalleesSolved
  <2>1. frames \in Seq(FrameRec)
    BY DEF RunInv, RunsAt
  <2>2. i \in 1..Len(frames)
    BY <2>1
  <2> QED
    BY <2>2 DEF RunInv, RunsAt, Placed
<1> QED
  BY <1>1, RunInvariant, PTL

\* No instruction looks below the parameters of the function it is in, whatever
\* path was taken and whatever was called: the reach solve_sig found is enough,
\* so what the caller keeps under them is safe.
THEOREM ReachIsDeepEnough == RunSpec => []StaysAboveReach
<1>1. Known /\ RunInv => StaysAboveReach
  <2> SUFFICES ASSUME Known, RunInv, AtInstr, ~ Folded
               PROVE  depth - Reach(Here, sigs).val >= Top.base - sigs[Top.f].reach
    BY DEF StaysAboveReach
  <2> DEFINE fr == Top
             f == fr.f
             s == fr.start
             j == fr.pos
             x == CodeOf(f, s)[j]
  <2>1. status = "running"
    BY DEF AtInstr, InBlock
  <2>2. /\ Placed(fr) /\ ~ Over(fr) /\ Reached(fr, depth, j) /\ depth \in Int
        /\ f \in DOMAIN sigs /\ s \in ReachableBlocks(graphs[f]) /\ fr \in FrameRec
        /\ j \in s..(graphs[f][s].end - 1) /\ j \in DOMAIN CodeOf(f, s) /\ Here = x
    BY <2>1, TopIs, AtInstrIs
  <2>3. /\ GraphsInv /\ f \in DOMAIN prog /\ Accounted(f) /\ fr.base \in Int
        /\ Deep(fr)
    BY <2>2, KnownFacts DEF FrameRec, Placed
  <2>4. PICK C, p, d, r, reach : AccountOf(f, C, p, d, r, reach)
    BY <2>3 DEF Accounted
  <2>5. /\ f \in C /\ C \subseteq DOMAIN sigs /\ Explains(C, p, d) /\ Fits(C, reach, d, r)
        /\ \A g \in C : reach[g] = sigs[g].reach
    BY <2>4 DEF AccountOf
  <2>6. depth = fr.base + NumOf(p, f) - (p[f][s] - d[f][s][j])
    BY <2>2, <2>5 DEF Reached
  <2>7. reach[f] + NumOf(p, f) - p[f][s] >= r[f][s]
    BY <2>3, <2>5 DEF Deep
  <2>8. BlockFits(C, reach, d[f][s], r[f], f, s)
    BY <2>2, <2>5 DEF Fits
  <2>9. /\ r[f][s] \in Int /\ Looks(C, reach, x) \in Int
        /\ r[f][s] >= Looks(C, reach, x) - d[f][s][j]
    BY <2>2, <2>8 DEF BlockFits
  <2>10. Looks(C, reach, x) = Reach(x, sigs).val
    <3>1. CASE x.op = "call" /\ x.f \in C
      <4>1. x.f \in DOMAIN sigs /\ Looks(C, reach, x) = sigs[x.f].reach
        BY <2>5, <3>1 DEF Looks
      <4> HIDE DEF x
      <4>2. Reach(x, sigs) = Ok(sigs[x.f].reach)
        BY <3>1, <4>1 DEF Reach, FixedOps
      <4> QED
        BY <4>1, <4>2 DEF Ok
    <3>2. CASE ~ (x.op = "call" /\ x.f \in C)
      BY <3>2 DEF Looks
    <3> QED
      BY <3>1, <3>2
  <2>11. /\ NumOf(p, f) \in Int /\ p[f][s] \in Int /\ d[f][s][j] \in Int
    <3>1. j \in s..graphs[f][s].end
      BY <2>2 DEF Placed
    <3> QED
      BY <2>2, <2>3, <2>5, <3>1, AccountsAreInts
  <2>12. reach[f] \in Int /\ reach[f] = sigs[f].reach
    BY <2>5 DEF Fits
  <2> DEFINE n == NumOf(p, f)
             ps == p[f][s]
             dd == d[f][s][j]
             rs == r[f][s]
             rf == reach[f]
             look == Looks(C, reach, x)
             b == fr.base
  <2>13. /\ depth \in Int /\ b \in Int /\ n \in Int /\ ps \in Int /\ dd \in Int /\ rs \in Int
         /\ rf \in Int /\ look \in Int
    BY <2>2, <2>3, <2>9, <2>11, <2>12
  <2>14. depth = b + n - (ps - dd) /\ rf + n - ps >= rs /\ rs >= look - dd
    BY <2>6, <2>7, <2>9
  <2> HIDE DEF n, ps, dd, rs, rf, look, b
  <2>15. depth - look >= b - rf
    BY <2>13, <2>14
  <2>16. depth - Reach(x, sigs).val >= fr.base - sigs[f].reach
    BY <2>10, <2>12, <2>15 DEF look, b, rf
  <2> QED
    BY <2>2, <2>16
<1> QED
  BY <1>1, RunInvariant, PTL

\* Every return, through whatever calls and recursion, finds the stack exactly
\* delta higher than the call did, and a function of the never type does not
\* return.
THEOREM DeltaIsRight == RunSpec => []ReturnsDelta
<1>1. Known /\ RunInv => ReturnsDelta
  <2> SUFFICES ASSUME Known, RunInv, AtReturn
               PROVE  ~ sigs[Top.f].never /\ depth = Top.base + sigs[Top.f].delta
    BY DEF ReturnsDelta
  <2>1. status = "running" /\ Over(Top)
    BY DEF AtReturn, Over
  <2>2. Placed(Top) /\ Reached(Top, depth, Top.pos) /\ depth \in Int
    BY <2>1, TopIs
  <2> QED
    BY <2>1, <2>2, ReturnedDelta
<1> QED
  BY <1>1, RunInvariant, PTL

\* The theorem the TODO at analysis.rs:288 asks for: the depth on entering a
\* block is the same on every path, the one its path's delta leaves to the end.
THEOREM EntriesHaveOneDepth == RunSpec => []EntriesAgree
<1>1. Known /\ RunInv => EntriesAgree
  <2> SUFFICES ASSUME Known, RunInv, InBlock, Top.pos = Top.start
               PROVE  depth - Top.base = paths[Top.f][0] - paths[Top.f][Top.start]
    BY DEF EntriesAgree
  <2> DEFINE fr == Top
             f == fr.f
             s == fr.start
             R == ReachableBlocks(graphs[f])
  <2>1. /\ Placed(fr) /\ ~ Over(fr) /\ Reached(fr, depth, s) /\ depth \in Int
        /\ f \in DOMAIN sigs /\ fr \in FrameRec
    BY TopIs DEF InBlock
  <2>2. s \in R /\ fr.base \in Int
    BY <2>1 DEF Placed, FrameRec
  <2>3. GraphsInv /\ f \in DOMAIN prog /\ Accounted(f)
    BY <2>1, KnownFacts
  <2>4. 0 \in R
    BY <2>2, <2>3, BlocksOnPaths
  <2>5. PICK C, p, d, r, reach : AccountOf(f, C, p, d, r, reach)
    BY <2>3 DEF Accounted
  <2>6. /\ f \in C /\ Explains(C, p, d) /\ p[f][0] = paths[f][0] /\ p[f][s] = paths[f][s]
    BY <2>2, <2>4, <2>5 DEF AccountOf
  <2>7. depth = fr.base + NumOf(p, f) - (p[f][s] - d[f][s][s])
    BY <2>1, <2>6 DEF Reached
  <2>8. NumOf(p, f) = p[f][0]
    BY <2>4 DEF NumOf
  <2>9. p[f][0] \in Int /\ p[f][s] \in Int /\ d[f][s][s] = 0
    BY <2>2, <2>4, <2>6 DEF Explains, DepthsIn
  <2> DEFINE p0 == p[f][0]
             ps == p[f][s]
             b == fr.base
  <2>10. depth = b + p0 - (ps - 0) /\ p0 \in Int /\ ps \in Int /\ b \in Int /\ depth \in Int
    BY <2>1, <2>2, <2>7, <2>8, <2>9
  <2> HIDE DEF p0, ps, b
  <2>11. depth - b = p0 - ps
    BY <2>10
  <2> QED
    BY <2>6, <2>11 DEF p0, ps, b
<1> QED
  BY <1>1, RunInvariant, PTL
=============================================================================
