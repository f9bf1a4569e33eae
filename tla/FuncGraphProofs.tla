-------------------------- MODULE FuncGraphProofs --------------------------
(***************************************************************************)
(* Proofs about FuncGraph, for every function: create_graph's assertions   *)
(* never fail.  The argument follows the three loops.  The scan only adds  *)
(* breaks behind the position it is at, so what it decided about a skip    *)
(* stays true (Seen).  The cut leaves no break inside a block and makes    *)
(* every break in the function a block's start (CutInv).  The link goes    *)
(* from the last block to the first, so every start behind the current     *)
(* block is linked already (LinkInv).                                      *)
(***************************************************************************)
EXTENDS FuncGraph, ClacLemmas

Starts == {p[1] : p \in pieces}

\* What the scan has ensured about a position it has passed.
Seen(j) ==
    /\ At(func, j).op = "if" => j + 1 \in breaks /\ j + 4 \in breaks
    /\ At(func, j).op = "skip" =>
          IF j \notin breaks /\ j > 0 /\ ConstLitAt(func, j - 1)
          THEN j + 1 \in breaks /\ j + 1 + At(func, j - 1).n \in breaks
          ELSE \A b \in (j + 1)..Len(func) : b \in breaks

ScanInv ==
    /\ \A j \in 0..(i - 1) : Seen(j)
    /\ phase = "scan" => last = 0 /\ pieces = {} /\ out = << >>
    /\ phase # "scan" => i = Len(func)

PieceOK(p) ==
    /\ p[1] < p[2]
    /\ p[1] \in breaks \cup {0}
    /\ p[2] \in breaks \cup {Len(func)}
    /\ \A b \in breaks : ~ (p[1] < b /\ b < p[2])

CutInv ==
    /\ \A p \in pieces : PieceOK(p)
    /\ phase = "cut" =>
          /\ last \in breaks \cup {0, Len(func)}
          /\ \A b \in breaks \cup {0} : b < last => b \in Starts
          /\ last # Len(func) => \A b \in breaks : b \in todo <=> b > last
          /\ out = << >>
    /\ phase \in {"link", "done"} =>
          \A b \in breaks \cup {0} : b < Len(func) => b \in Starts

LinkInv ==
    \A p \in pieces : \A s \in DOMAIN out : p[1] \notin DOMAIN out => p[1] < s

IInv == TypeOK /\ ScanInv /\ CutInv /\ LinkInv /\ NoInternalPanic

-----------------------------------------------------------------------------
\* Instructions of the function.
LEMMA InstrAt ==
    ASSUME func \in Codes, NEW j \in Nat, j < Len(func)
    PROVE  At(func, j) \in ParsedInstr(Names, Int)
BY CodesAssumption DEF At

\* A constant literal is a natural number.
LEMMA ConstLitIsNat ==
    ASSUME func \in Codes, NEW j \in Int, j < Len(func), ConstLitAt(func, j)
    PROVE  At(func, j).n \in Nat
<1>1. At(func, j) \in ParsedInstr(Names, Int) /\ j >= 0
  BY InstrAt DEF ConstLitAt
<1>2. At(func, j).n \in Int
  BY <1>1 DEF ParsedInstr, ConstLitAt, IsLit, FixedOps
<1> QED
  BY <1>2 DEF ConstLitAt, IsUsize

LEMMA LenIsNat == ASSUME func \in Codes PROVE Len(func) \in Nat
BY CodesAssumption

\* Breaks inserted at position i lie behind it, so nothing decided before
\* changes, and the new position is decided as the scan decides it.
LEMMA InsertKeepsSeen ==
    ASSUME TypeOK, NEW new, new \subseteq Nat, \A b \in new : b > i, Insert(new),
           UNCHANGED func, NEW j \in 0..(i - 1), Seen(j)
    PROVE  Seen(j)'
<1>1. j \in breaks' <=> j \in breaks
  BY DEF Insert, TypeOK
<1>2. breaks \subseteq breaks'
  BY DEF Insert
<1> QED
  BY <1>1, <1>2 DEF Seen

-----------------------------------------------------------------------------
\* Type correctness is inductive by itself.
LEMMA TypeStep == TypeOK /\ [Next]_vars => TypeOK'
<1> SUFFICES ASSUME TypeOK, [Next]_vars PROVE TypeOK'
  OBVIOUS
<1>0. Len(func) \in Nat
  BY LenIsNat DEF TypeOK
<1>1. CASE ScanIf
  BY <1>0, <1>1 DEF ScanIf, Scanning, Insert, TypeOK
<1>2. CASE ScanConstSkip
  <2>1. At(func, i - 1).n \in Nat
    BY <1>0, <1>2, ConstLitIsNat DEF ScanConstSkip, Scanning, TakenForConst, TypeOK
  <2>2. breaks' \subseteq Nat \ {0} /\ breaks \subseteq breaks'
    <3> DEFINE n == At(func, i - 1).n
    <3>1. i \in Nat /\ breaks \subseteq Nat \ {0} /\ n \in Nat
      BY <1>0, <2>1 DEF TypeOK
    <3>2. breaks' = breaks \cup {i + 1, i + n + 1}
      BY <1>2 DEF ScanConstSkip, Insert
    <3> HIDE DEF n
    <3> QED
      BY <3>1, <3>2
  <2> QED
    BY <1>0, <1>2, <2>2 DEF ScanConstSkip, Scanning, TypeOK
<1>3. CASE ScanDynamicSkip
  <2>1. breaks' \subseteq Nat \ {0} /\ breaks \subseteq breaks'
    <3>1. i \in Nat /\ breaks \subseteq Nat \ {0}
      BY <1>0 DEF TypeOK
    <3>2. breaks' = breaks \cup ((i + 1)..Len(func))
      BY <1>3 DEF ScanDynamicSkip, Insert
    <3>3. (i + 1)..Len(func) \subseteq Nat \ {0}
      BY <1>0, <3>1
    <3> HIDE <1>0
    <3> QED
      BY <3>1, <3>2, <3>3, Zenon
  <2> QED
    BY <1>0, <1>3, <2>1 DEF ScanDynamicSkip, Scanning, TypeOK
<1>4. CASE ScanOther
  BY <1>0, <1>4 DEF ScanOther, Scanning, TypeOK
<1>5. CASE ScanEnd
  BY <1>5 DEF ScanEnd, TypeOK, Phases
<1>6. ASSUME NEW br \in todo, CutAt(br) PROVE TypeOK'
  <2>1. MinInt(br, Len(func)) \in 0..Len(func)
    BY <1>0, <1>6 DEF MinInt, TypeOK
  <2> QED
    BY <1>6, <2>1 DEF CutAt, TypeOK
<1>7. CASE CutRest
  <2>1. pieces' \subseteq (0..Len(func)) \X (0..Len(func)) /\ pieces \subseteq pieces'
    BY <1>0, <1>7 DEF CutRest, TypeOK
  <2> QED
    BY <1>7, <2>1 DEF CutRest, TypeOK, Phases
<1>8. ASSUME NEW p \in pieces, Link(p) PROVE TypeOK'
  <2>1. DOMAIN out' \subseteq {q[1] : q \in pieces}
    BY <1>8 DEF Link, TypeOK
  <2> QED
    BY <1>8, <2>1 DEF Link, TypeOK, Phases
<1>9. CASE LinkEnd
  BY <1>9 DEF LinkEnd, TypeOK, Phases
<1>10. CASE UNCHANGED vars
  BY <1>10 DEF vars, TypeOK
<1> QED
  BY <1>1, <1>2, <1>3, <1>4, <1>5, <1>6, <1>7, <1>8, <1>9, <1>10 DEF Next

LEMMA ScanStep == TypeOK /\ ScanInv /\ [Next]_vars => ScanInv'
<1> SUFFICES ASSUME TypeOK, ScanInv, [Next]_vars PROVE ScanInv'
  OBVIOUS
<1>0. Len(func) \in Nat /\ i \in Nat
  BY LenIsNat DEF TypeOK
<1>p. PICK pos \in Nat : pos = i
  BY <1>0
<1>1. ASSUME phase = "scan", i < Len(func), i' = i + 1,
             UNCHANGED <<func, phase, last, pieces, out>>,
             NEW new, new \subseteq Nat, \A b \in new : b > i, Insert(new),
             Seen(pos)'
      PROVE  ScanInv'
  <2>1. ASSUME NEW j \in 0..(i - 1) PROVE Seen(j)'
    BY <1>1, <2>1, InsertKeepsSeen DEF ScanInv
  <2>2. \A j \in 0..(i' - 1) : Seen(j)'
    BY <1>0, <1>p, <1>1, <2>1
  <2> QED
    BY <1>1, <2>2 DEF ScanInv
<1>2. CASE ScanIf
  <2>1. Seen(pos)'
    <3>1. At(func, pos).op = "if" /\ func' = func
          /\ pos + 1 \in breaks' /\ pos + 4 \in breaks'
      BY <1>p, <1>2 DEF ScanIf, Scanning, Insert
    <3> QED
      BY <3>1 DEF Seen
  <2> DEFINE new == {i + 4, i + 1}
  <2>2. new \subseteq Nat /\ \A b \in new : b > i
    BY <1>0
  <2> QED
    BY <1>1, <1>2, <2>1, <2>2 DEF ScanIf, Scanning
<1>3. CASE ScanConstSkip
  <2>1. At(func, i - 1).n \in Nat
    BY <1>0, <1>3, ConstLitIsNat DEF ScanConstSkip, Scanning, TakenForConst, TypeOK
  <2> DEFINE new == {i + 1, i + At(func, i - 1).n + 1}
  <2>2. new \subseteq Nat /\ \A b \in new : b > i
    BY <1>0, <2>1
  <2>3. Seen(pos)'
    <3>1. At(func, pos).op = "skip" /\ func' = func /\ pos \notin breaks
          /\ pos > 0 /\ ConstLitAt(func, pos - 1)
      BY <1>p, <1>3 DEF ScanConstSkip, Scanning, TakenForConst
    <3>2. breaks' = breaks \cup new
      BY <1>3 DEF ScanConstSkip, Insert
    <3>3. pos \notin breaks' /\ pos + 1 \in breaks'
          /\ pos + 1 + At(func, pos - 1).n \in breaks'
      BY <1>0, <1>p, <2>1, <2>2, <3>1, <3>2
    <3> QED
      BY <3>1, <3>3 DEF Seen
  <2> QED
    BY <1>1, <1>3, <2>2, <2>3 DEF ScanConstSkip, Scanning
<1>4. CASE ScanDynamicSkip
  <2> DEFINE new == (i + 1)..Len(func)
  <2>1. new \subseteq Nat /\ \A b \in new : b > i
    BY <1>0
  <2>2. Seen(pos)'
    <3>1. At(func, pos).op = "skip" /\ func' = func
          /\ ~ (pos \notin breaks /\ pos > 0 /\ ConstLitAt(func, pos - 1))
      BY <1>p, <1>4 DEF ScanDynamicSkip, Scanning, TakenForConst
    <3>2. breaks' = breaks \cup new
      BY <1>4 DEF ScanDynamicSkip, Insert
    <3>3. pos \in breaks => pos \in breaks'
      BY <3>2
    <3>4. \A b \in (pos + 1)..Len(func) : b \in breaks'
      BY <1>p, <3>2
    <3>5. ~ (pos \notin breaks' /\ pos > 0 /\ ConstLitAt(func', pos - 1))
      BY <3>1, <3>3
    <3> QED
      BY <3>1, <3>4, <3>5 DEF Seen
  <2> QED
    BY <1>1, <1>4, <2>1, <2>2 DEF ScanDynamicSkip, Scanning
<1>5. CASE ScanOther
  <2>1. At(func, pos).op \notin {"if", "skip"}
    BY <1>p, <1>5 DEF ScanOther, Scanning, ControlOps
  <2>2. Seen(pos)'
    BY <1>5, <2>1 DEF ScanOther, Scanning, Seen
  <2>3. Insert({})
    BY <1>5 DEF ScanOther, Insert
  <2> QED
    BY <1>1, <1>5, <2>2, <2>3 DEF ScanOther, Scanning
<1>6. ASSUME UNCHANGED <<func, i, breaks>>, phase' # "scan", i = Len(func) PROVE ScanInv'
  BY <1>6 DEF ScanInv, Seen
<1>7. CASE ScanEnd
  BY <1>6, <1>7 DEF ScanEnd
<1>8. ASSUME NEW br \in todo, CutAt(br) PROVE ScanInv'
  BY <1>6, <1>8 DEF CutAt, ScanInv
<1>9. CASE CutRest
  BY <1>6, <1>9 DEF CutRest, ScanInv
<1>10. ASSUME NEW p \in pieces, Link(p) PROVE ScanInv'
  BY <1>6, <1>10 DEF Link, ScanInv
<1>11. CASE LinkEnd
  BY <1>6, <1>11 DEF LinkEnd, ScanInv
<1>12. CASE UNCHANGED vars
  BY <1>12 DEF vars, ScanInv, Seen
<1> QED
  BY <1>2, <1>3, <1>4, <1>5, <1>7, <1>8, <1>9, <1>10, <1>11, <1>12 DEF Next

LEMMA CutStep == TypeOK /\ ScanInv /\ CutInv /\ [Next]_vars => CutInv'
<1> SUFFICES ASSUME TypeOK, ScanInv, CutInv, [Next]_vars PROVE CutInv'
  OBVIOUS
<1>0. Len(func) \in Nat /\ last \in Nat /\ breaks \subseteq Nat \ {0}
      /\ todo \subseteq breaks
  BY LenIsNat DEF TypeOK
<1>1. ASSUME UNCHANGED <<func, last, pieces, out>>, phase = "scan", phase' = "scan"
      PROVE  CutInv'
  BY <1>1 DEF CutInv, ScanInv
<1>2. CASE ScanEnd
  <2>1. pieces = {} /\ last = 0 /\ out = << >>
    BY <1>2 DEF ScanEnd, ScanInv
  <2>2. \A b \in breaks : b > 0
    BY <1>0
  <2> QED
    BY <1>0, <1>2, <2>1, <2>2 DEF ScanEnd, CutInv
<1>3. ASSUME NEW br \in todo, CutAt(br) PROVE CutInv'
  <2> DEFINE p == <<last, MinInt(br, Len(func))>>
  <2>0. /\ phase = "cut" /\ last # Len(func) /\ \A b \in todo : br <= b
        /\ todo' = todo \ {br} /\ pieces' = pieces \cup {p}
        /\ last' = MinInt(br, Len(func))
        /\ UNCHANGED <<func, phase, breaks, out>>
    BY <1>3 DEF CutAt
  <2>1. /\ \A b \in breaks : b \in todo <=> b > last
        /\ last \in breaks \cup {0, Len(func)}
        /\ \A b \in breaks \cup {0} : b < last => b \in Starts
        /\ \A q \in pieces : PieceOK(q)
        /\ out = << >>
    BY <2>0 DEF CutInv
  <2>2. br \in Nat /\ br \in breaks /\ br > last /\ last < Len(func)
    BY <1>0, <2>0, <2>1 DEF TypeOK
  <2>3. \A b \in breaks : ~ (last < b /\ b < br)
    BY <1>0, <2>0, <2>1, <2>2
  <2>4. last' \in breaks \cup {Len(func)} /\ last' > last /\ last' <= br /\ last' \in Nat
    BY <1>0, <2>0, <2>2 DEF MinInt
  <2>5. PieceOK(p)
    <3>1. p[1] = last /\ p[2] = last'
      BY <2>0
    <3>2. last \in breaks \cup {0} /\ last < last'
      BY <1>0, <2>0, <2>1, <2>4
    <3>3. \A b \in breaks : ~ (last < b /\ b < last')
      BY <1>0, <2>2, <2>3, <2>4
    <3> HIDE DEF p
    <3> QED
      BY <2>4, <3>1, <3>2, <3>3 DEF PieceOK
  <2>6. \A q \in pieces' : PieceOK(q)'
    BY <2>0, <2>1, <2>5 DEF PieceOK
  <2>7. ASSUME NEW b \in breaks \cup {0}, b < last' PROVE b \in Starts'
    <3>1. CASE b < last
      BY <2>0, <2>1, <3>1 DEF Starts
    <3>2. CASE b = last
      <4>1. p \in pieces' /\ p[1] = last
        BY <2>0
      <4> HIDE DEF p
      <4> QED
        BY <3>2, <4>1 DEF Starts
    <3>3. CASE b > last
      <4>1. b \in breaks
        BY <1>0, <3>3
      <4> QED
        BY <1>0, <2>2, <2>3, <2>4, <2>7, <3>3, <4>1
    <3> QED
      BY <1>0, <3>1, <3>2, <3>3
  <2>8. last' # Len(func) => \A b \in breaks : b \in todo' <=> b > last'
    <3> SUFFICES ASSUME last' # Len(func), NEW b \in breaks
                 PROVE  b \in todo' <=> b > last'
      OBVIOUS
    <3>1. last' = br
      BY <2>0 DEF MinInt
    <3> QED
      BY <1>0, <2>0, <2>1, <2>2, <3>1
  <2> QED
    BY <2>0, <2>1, <2>4, <2>6, <2>7, <2>8 DEF CutInv
<1>4. CASE CutRest
  <2>0. /\ phase = "cut" /\ (last = Len(func) \/ todo = {}) /\ phase' = "link"
        /\ UNCHANGED <<func, breaks, out>>
        /\ pieces \subseteq pieces'
        /\ last # Len(func) => pieces' = pieces \cup {<<last, Len(func)>>}
        /\ last = Len(func) => pieces' = pieces
    BY <1>4 DEF CutRest
  <2>1. /\ last # Len(func) => \A b \in breaks : b \in todo <=> b > last
        /\ last \in breaks \cup {0, Len(func)}
        /\ \A b \in breaks \cup {0} : b < last => b \in Starts
        /\ \A q \in pieces : PieceOK(q)
    BY <2>0 DEF CutInv
  <2>2. CASE last = Len(func)
    BY <2>0, <2>1, <2>2 DEF CutInv, PieceOK, Starts
  <2>3. CASE last # Len(func)
    <3> DEFINE p == <<last, Len(func)>>
    <3>1. last < Len(func) /\ last \in breaks \cup {0} /\ \A b \in breaks : b <= last
      BY <1>0, <2>0, <2>1, <2>3 DEF TypeOK
    <3>2. PieceOK(p)
      BY <1>0, <3>1 DEF PieceOK
    <3>3. \A q \in pieces' : PieceOK(q)'
      BY <2>0, <2>1, <2>3, <3>2 DEF PieceOK
    <3>4. \A b \in breaks \cup {0} : b \in Starts'
      <4> TAKE b \in breaks \cup {0}
      <4>1. b < last \/ b = last
        BY <1>0, <3>1
      <4> QED
        BY <2>0, <2>1, <2>3, <4>1 DEF Starts
    <3> QED
      BY <2>0, <3>3, <3>4 DEF CutInv
  <2> QED
    BY <2>2, <2>3
<1>5. ASSUME UNCHANGED <<func, breaks, pieces>>, phase = "link",
             phase' \in {"link", "done", "panic"}
      PROVE  CutInv'
  BY <1>5 DEF CutInv, PieceOK, Starts
<1>6. ASSUME NEW p \in pieces, Link(p) PROVE CutInv'
  BY <1>5, <1>6 DEF Link
<1>7. CASE LinkEnd
  BY <1>5, <1>7 DEF LinkEnd
<1>8. CASE UNCHANGED vars
  BY <1>8 DEF vars, CutInv, PieceOK, Starts
<1>9. CASE ScanIf \/ ScanConstSkip \/ ScanDynamicSkip \/ ScanOther
  BY <1>1, <1>9 DEF ScanIf, ScanConstSkip, ScanDynamicSkip, ScanOther, Scanning
<1> QED
  BY <1>2, <1>3, <1>4, <1>6, <1>7, <1>8, <1>9 DEF Next

-----------------------------------------------------------------------------
\* The heart of the argument: whatever block is linked next, none of the
\* loop's own assertions fails.
LEMMA NoFault ==
    ASSUME TypeOK, ScanInv, CutInv, LinkInv, phase = "link",
           NEW p \in pieces, p[1] \notin DOMAIN out,
           \A q \in pieces : q[1] \notin DOMAIN out => q[1] <= p[1]
    PROVE  Fault(func, p[1], p[2], DOMAIN out) \in {"none", "precondition"}
<1> DEFINE s == p[1]
           e == p[2]
           linked == DOMAIN out \cup {Len(func), Len(func) + 1}
<1>0. /\ Len(func) \in Nat /\ breaks \subseteq Nat \ {0}
      /\ s \in 0..Len(func) /\ e \in 0..Len(func) /\ DOMAIN out \subseteq Starts
  BY LenIsNat DEF TypeOK, Starts
<1>1. /\ s < e /\ e \in breaks \cup {Len(func)} /\ s \in breaks \cup {0}
      /\ \A b \in breaks : ~ (s < b /\ b < e)
  BY DEF CutInv, PieceOK
<1>2. /\ \A b \in breaks : b < Len(func) => b \in Starts
      /\ \A j \in 0..(Len(func) - 1) : Seen(j)
  BY DEF CutInv, ScanInv
<1> HIDE DEF s, e
<1>3. ASSUME NEW b \in breaks, b > s PROVE Target(func, b) \in linked
  <2>1. CASE b < Len(func)
    <3>1. PICK q \in pieces : q[1] = b
      BY <1>2, <2>1 DEF Starts
    <3>2. b \in DOMAIN out
      BY <1>0, <1>3, <3>1 DEF s
    <3> QED
      BY <1>0, <2>1, <3>2 DEF Target, MinInt
  <2>2. CASE b >= Len(func)
    BY <1>0, <2>2 DEF Target, MinInt
  <2> QED
    BY <1>0, <2>1, <2>2
<1>4. Target(func, e) \in linked
  BY <1>0, <1>1, <1>3 DEF Target, MinInt
<1>5. Seen(e - 1) /\ e - 1 \in Nat /\ e - 1 < Len(func)
  BY <1>0, <1>1, <1>2
<1>6. \A t \in DOMAIN Terminator(func, s, e).targets :
          Terminator(func, s, e).targets[t] \in linked
  <2>1. CASE At(func, e - 1).op = "if"
    <3>1. e + 3 \in breaks
      BY <1>0, <1>5, <2>1 DEF Seen
    <3>2. Target(func, e + 3) \in linked
      BY <1>0, <1>1, <1>3, <3>1
    <3>3. Terminator(func, s, e).targets = <<Target(func, e), Target(func, e + 3)>>
      BY <2>1 DEF Terminator, EndsInConstSkip, ControlOps
    <3> HIDE DEF linked
    <3> QED
      BY <1>4, <3>2, <3>3
  <2>2. CASE EndsInConstSkip(func, s, e)
    <3> DEFINE n == At(func, e - 2).n
    <3>1. At(func, e - 1).op = "skip" /\ e - 2 >= s /\ ConstLitAt(func, e - 2)
      BY <2>2 DEF EndsInConstSkip
    <3>2. n \in Nat
      BY <1>0, <1>1, <3>1, ConstLitIsNat DEF TypeOK
    <3>3. e - 1 \notin breaks
      BY <1>0, <1>1, <3>1
    <3>4. e - 1 > 0 /\ (e - 1) - 1 = e - 2 /\ e - 1 + 1 + n = e + n
      BY <1>0, <3>1, <3>2
    <3>5. e + n \in breaks
      <4> HIDE DEF n
      <4>1. e - 1 + 1 + At(func, (e - 1) - 1).n \in breaks
        BY <1>5, <3>1, <3>3, <3>4 DEF Seen
      <4> QED
        BY <3>4, <4>1 DEF n
    <3>6. Target(func, e + n) \in linked
      BY <1>0, <1>1, <1>3, <3>2, <3>5
    <3>7. Terminator(func, s, e).targets = <<Target(func, e + n)>>
      BY <3>1, <2>2 DEF Terminator, ControlOps
    <3> HIDE DEF linked, n
    <3> QED
      BY <3>6, <3>7
  <2>3. CASE At(func, e - 1).op = "skip" /\ ~ EndsInConstSkip(func, s, e)
    <3>1. ~ (e - 1 \notin breaks /\ e - 1 > 0 /\ ConstLitAt(func, (e - 1) - 1))
      <4> SUFFICES ASSUME e - 1 \notin breaks, e - 1 > 0, ConstLitAt(func, (e - 1) - 1)
                   PROVE  FALSE
        OBVIOUS
      <4>1. s # e - 1
        BY <1>0, <1>1
      <4>2. e - 2 >= s /\ (e - 1) - 1 = e - 2
        BY <1>0, <1>1, <4>1
      <4> QED
        BY <2>3, <4>2 DEF EndsInConstSkip
    <3>2. \A b \in e..Len(func) : b \in breaks
      <4>1. \A b \in ((e - 1) + 1)..Len(func) : b \in breaks
        BY <1>5, <2>3, <3>1 DEF Seen
      <4> QED
        BY <1>0, <4>1
    <3>3. \A b \in e..Len(func) : b \in linked
      <4> TAKE b \in e..Len(func)
      <4>1. Target(func, b) = b /\ b > s
        BY <1>0, <1>1 DEF Target, MinInt
      <4> QED
        BY <1>3, <3>2, <4>1
    <3>4. Terminator(func, s, e).targets = [t \in 1..(Len(func) - e + 1) |-> e + t - 1]
      BY <2>3 DEF Terminator, ControlOps
    <3>5. \A t \in 1..(Len(func) - e + 1) : e + t - 1 \in e..Len(func)
      BY <1>0
    <3> HIDE DEF linked
    <3> QED
      BY <3>3, <3>4, <3>5
  <2>4. CASE At(func, e - 1).op \notin ControlOps
    <3>1. Terminator(func, s, e).targets = <<Target(func, e)>>
      BY <2>4 DEF Terminator, ControlOps, EndsInConstSkip
    <3> HIDE DEF linked
    <3> QED
      BY <1>4, <3>1
  <2> QED
    BY <2>1, <2>2, <2>3, <2>4 DEF ControlOps
<1>7. \A j \in BodyOf(func, s, e) : At(func, j).op \notin ControlOps
  <2> TAKE j \in BodyOf(func, s, e)
  <2>1. j \in s..(e - 1)
    BY DEF BodyOf, Kept
  <2>2. CASE j = e - 1
    BY <2>2 DEF BodyOf, EndsInConstSkip, ControlOps
  <2>3. CASE j < e - 1
    <3>1. j + 1 \notin breaks
      BY <1>0, <1>1, <2>1, <2>3
    <3>2. Seen(j)
      BY <1>0, <1>2, <2>1
    <3>3. j + 1 \in (j + 1)..Len(func)
      BY <1>0, <2>1
    <3> QED
      BY <3>1, <3>2, <3>3 DEF Seen, ControlOps
  <2> QED
    BY <1>0, <2>1, <2>2, <2>3
<1> QED
  <2>1. s # e
    BY <1>0, <1>1
  <2>2. Fault(func, s, e, DOMAIN out) \in {"none", "precondition"}
    BY <1>6, <1>7, <2>1 DEF Fault
  <2> QED
    BY <2>2 DEF s, e

LEMMA LinkStep ==
    IInv /\ [Next]_vars => LinkInv' /\ NoInternalPanic'
<1> SUFFICES ASSUME IInv, [Next]_vars PROVE LinkInv' /\ NoInternalPanic'
  OBVIOUS
<1>1. ASSUME UNCHANGED <<pieces, out, err>> PROVE LinkInv' /\ NoInternalPanic'
  BY <1>1 DEF IInv, LinkInv, NoInternalPanic
<1>2. ASSUME out = << >>, UNCHANGED <<out, err>> PROVE LinkInv' /\ NoInternalPanic'
  BY <1>2 DEF IInv, LinkInv, NoInternalPanic
<1>3. CASE ScanIf \/ ScanConstSkip \/ ScanDynamicSkip \/ ScanOther
  BY <1>1, <1>3 DEF ScanIf, ScanConstSkip, ScanDynamicSkip, ScanOther, Scanning
<1>4. CASE ScanEnd \/ LinkEnd \/ UNCHANGED vars
  BY <1>1, <1>4 DEF ScanEnd, LinkEnd, vars
<1>5. ASSUME NEW br \in todo, CutAt(br) PROVE LinkInv' /\ NoInternalPanic'
  BY <1>2, <1>5 DEF CutAt, IInv, CutInv
<1>6. CASE CutRest
  BY <1>2, <1>6 DEF CutRest, IInv, CutInv
<1>7. ASSUME NEW p \in pieces, Link(p) PROVE LinkInv' /\ NoInternalPanic'
  <2>1. err' \in {"none", "precondition"}
    <3>1. err' = Fault(func, p[1], p[2], DOMAIN out)
      BY <1>7 DEF Link
    <3> QED
      BY <1>7, <3>1, NoFault DEF Link, IInv
  <2>2. CASE err' = "none"
    <3>1. DOMAIN out' = DOMAIN out \cup {p[1]} /\ pieces' = pieces
      BY <1>7, <2>2 DEF Link
    <3>2. \A q \in pieces : q[1] \in Int
      BY LenIsNat DEF IInv, TypeOK
    <3>3. ASSUME NEW q \in pieces, NEW t \in DOMAIN out', q[1] \notin DOMAIN out'
          PROVE  q[1] < t
      <4>1. q[1] \notin DOMAIN out /\ q[1] # p[1]
        BY <3>1, <3>3
      <4>2. CASE t = p[1]
        BY <1>7, <3>2, <4>1, <4>2 DEF Link
      <4>3. CASE t \in DOMAIN out
        BY <4>1, <4>3 DEF IInv, LinkInv
      <4> QED
        BY <3>1, <4>2, <4>3
    <3> QED
      BY <2>1, <3>1, <3>3 DEF LinkInv, NoInternalPanic
  <2>3. CASE err' # "none"
    BY <1>7, <2>1, <2>3 DEF Link, IInv, LinkInv, NoInternalPanic
  <2> QED
    BY <2>2, <2>3
<1> QED
  BY <1>3, <1>4, <1>5, <1>6, <1>7 DEF Next

-----------------------------------------------------------------------------
LEMMA InitIInv == Init => IInv
<1> SUFFICES ASSUME Init PROVE IInv
  OBVIOUS
<1>1. Len(func) \in Nat
  BY LenIsNat DEF Init
<1>2. TypeOK
  BY <1>1 DEF Init, TypeOK, Phases
<1>3. ScanInv /\ CutInv /\ LinkInv /\ NoInternalPanic
  BY DEF Init, ScanInv, CutInv, LinkInv, NoInternalPanic
<1> QED
  BY <1>2, <1>3 DEF IInv

\* Type correctness of the construction.
THEOREM TypeCorrect == Spec => []TypeOK
<1>1. Init => TypeOK
  BY InitIInv DEF IInv
<1> QED
  BY <1>1, TypeStep, PTL DEF Spec

LEMMA Inductive == Spec => []IInv
<1>1. IInv /\ [Next]_vars => IInv'
  BY TypeStep, ScanStep, CutStep, LinkStep DEF IInv
<1> QED
  BY InitIInv, <1>1, PTL DEF Spec

\* create_graph never fails on its own assertions, for any function.
THEOREM GraphNeverFails == Spec => []NoInternalPanic
<1>1. IInv => NoInternalPanic
  BY DEF IInv
<1> QED
  BY Inductive, <1>1, PTL

-----------------------------------------------------------------------------
\* The cutting loop has covered what lies before `last'.
Covers(j) == \E p \in pieces : p[1] <= j /\ j < p[2]

CoverInv ==
    /\ phase = "cut" => \A j \in 0..(last - 1) : Covers(j)
    /\ phase \in {"link", "done"} => \A j \in 0..(Len(func) - 1) : Covers(j)
    /\ phase = "done" => \A p \in pieces : p[1] \in DOMAIN out

LEMMA CoverStep == IInv /\ CoverInv /\ [Next]_vars => CoverInv'
<1> SUFFICES ASSUME IInv, CoverInv, [Next]_vars PROVE CoverInv'
  OBVIOUS
<1>0. Len(func) \in Nat /\ last \in Nat /\ last <= Len(func)
  BY LenIsNat DEF IInv, TypeOK
<1>1. CASE ScanIf \/ ScanConstSkip \/ ScanDynamicSkip \/ ScanOther
  BY <1>1 DEF ScanIf, ScanConstSkip, ScanDynamicSkip, ScanOther, Scanning, CoverInv
<1>2. CASE ScanEnd
  BY <1>2 DEF ScanEnd, CoverInv, IInv, ScanInv
<1>3. ASSUME NEW br \in todo, CutAt(br) PROVE CoverInv'
  <2> DEFINE p == <<last, MinInt(br, Len(func))>>
  <2>1. /\ phase = "cut" /\ phase' = "cut" /\ pieces' = pieces \cup {p}
        /\ last' = p[2] /\ p[1] = last
    BY <1>3 DEF CutAt
  <2>2. last' \in Nat
    BY <1>0, <1>3 DEF CutAt, MinInt, IInv, TypeOK
  <2> HIDE DEF p
  <2>3. ASSUME NEW j \in 0..(last' - 1) PROVE Covers(j)'
    <3>1. CASE j < last
      BY <1>0, <2>1, <2>2, <3>1 DEF CoverInv, Covers
    <3>2. CASE j >= last
      BY <1>0, <2>1, <2>2, <3>2 DEF Covers
    <3> QED
      BY <1>0, <2>2, <3>1, <3>2
  <2> QED
    BY <2>1, <2>3 DEF CoverInv
<1>4. CASE CutRest
  <2>1. /\ phase = "cut" /\ phase' = "link" /\ UNCHANGED func
        /\ pieces' = IF last # Len(func) THEN pieces \cup {<<last, Len(func)>>} ELSE pieces
    BY <1>4 DEF CutRest
  <2>2. ASSUME NEW j \in 0..(Len(func) - 1) PROVE Covers(j)'
    <3>1. CASE j < last
      BY <1>0, <2>1, <3>1 DEF CoverInv, Covers
    <3>2. CASE j >= last
      <4> DEFINE p == <<last, Len(func)>>
      <4>1. p \in pieces' /\ p[1] = last /\ p[2] = Len(func)
        BY <1>0, <2>1, <3>2
      <4> HIDE DEF p
      <4> QED
        BY <1>0, <3>2, <4>1 DEF Covers
    <3> QED
      BY <1>0, <3>1, <3>2
  <2> QED
    BY <2>1, <2>2 DEF CoverInv
<1>5. ASSUME NEW p \in pieces, Link(p) PROVE CoverInv'
  <2>1. phase = "link" /\ phase' \in {"link", "panic"} /\ UNCHANGED <<func, pieces>>
    BY <1>5 DEF Link
  <2> QED
    BY <2>1 DEF CoverInv, Covers
<1>6. CASE LinkEnd
  BY <1>6 DEF LinkEnd, CoverInv, Covers
<1>7. CASE UNCHANGED vars
  BY <1>7 DEF vars, CoverInv, Covers
<1> QED
  BY <1>1, <1>2, <1>3, <1>4, <1>5, <1>6, <1>7 DEF Next

\* Pieces that overlap are the same: none has a break inside.
LEMMA PiecesDisjoint ==
    ASSUME TypeOK, CutInv, NEW p \in pieces, NEW q \in pieces,
           p[2] > q[1], q[2] > p[1]
    PROVE  p = q
<1>1. /\ Len(func) \in Nat /\ breaks \subseteq Nat
      /\ p \in (0..Len(func)) \X (0..Len(func)) /\ q \in (0..Len(func)) \X (0..Len(func))
  BY LenIsNat DEF TypeOK
<1>2. PieceOK(p) /\ PieceOK(q)
  BY DEF CutInv
<1>3. ~ p[1] < q[1] /\ ~ q[1] < p[1]
  BY <1>1, <1>2 DEF PieceOK
<1>4. ~ p[2] < q[2] /\ ~ q[2] < p[2]
  BY <1>1, <1>2 DEF PieceOK
<1>5. p[1] = q[1] /\ p[2] = q[2]
  BY <1>1, <1>3, <1>4
<1> QED
  BY <1>1, <1>5

\* The blocks partition every function, and all of them are linked.
THEOREM CodeIsPartitioned == Spec => []BlocksPartition
<1>1. Init => CoverInv
  BY DEF Init, CoverInv
<1>2. IInv /\ CoverInv => BlocksPartition
  <2> SUFFICES ASSUME IInv, CoverInv, phase = "done" PROVE BlocksPartition
    BY DEF BlocksPartition
  <2>1. \A j \in 0..(Len(func) - 1) : \E p \in pieces : p[1] <= j /\ j < p[2]
    BY DEF CoverInv, Covers
  <2>2. ASSUME NEW p \in pieces, NEW q \in pieces, p # q
        PROVE  p[2] <= q[1] \/ q[2] <= p[1]
    <3>1. p[1] \in Int /\ p[2] \in Int /\ q[1] \in Int /\ q[2] \in Int
      BY LenIsNat DEF IInv, TypeOK
    <3> QED
      BY <2>2, <3>1, PiecesDisjoint DEF IInv
  <2>3. DOMAIN out = {p[1] : p \in pieces}
    BY DEF CoverInv, IInv, TypeOK
  <2> QED
    BY <2>1, <2>2, <2>3 DEF BlocksPartition
<1> QED
  BY Inductive, <1>1, CoverStep, <1>2, PTL DEF Spec

-----------------------------------------------------------------------------
\* What the scan decided about a skip is what can still be seen of it, and
\* what is linked is the block of a piece.
Decided(j) ==
    At(func, j).op = "skip" =>
        (j \in consts <=> j \notin breaks /\ j > 0 /\ ConstLitAt(func, j - 1))

OutInv ==
    /\ \A j \in 0..(i - 1) : Decided(j)
    /\ \A j \in consts : j < i
    /\ \A s \in DOMAIN out : \E p \in pieces : p[1] = s /\ out[s] = BlockAt(func, s, p[2])

LEMMA OutStep == IInv /\ OutInv /\ [Next]_vars => OutInv'
<1> SUFFICES ASSUME IInv, OutInv, [Next]_vars PROVE OutInv'
  OBVIOUS
<1>0. Len(func) \in Nat /\ i \in Nat /\ consts \subseteq Nat
  BY LenIsNat DEF IInv, TypeOK
<1>p. PICK pos \in Nat : pos = i
  BY <1>0
<1>1. ASSUME i' = i + 1, UNCHANGED <<func, out>>, out = << >>,
             NEW new, new \subseteq Nat, \A b \in new : b > i, Insert(new),
             consts' = consts \/ consts' = consts \cup {i}, Decided(pos)'
      PROVE  OutInv'
  <2>1. ASSUME NEW j \in 0..(i - 1) PROVE Decided(j)'
    <3>1. (j \in breaks' <=> j \in breaks) /\ (j \in consts' <=> j \in consts)
      BY <1>0, <1>1, <2>1 DEF Insert
    <3> QED
      BY <1>1, <2>1, <3>1 DEF OutInv, Decided
  <2>2. \A j \in 0..(i' - 1) : Decided(j)'
    BY <1>0, <1>p, <1>1, <2>1
  <2>3. ASSUME NEW j \in consts' PROVE j < i'
    <3>1. j \in consts \/ j = i
      BY <1>1, <2>3
    <3>2. j \in consts => j \in Nat /\ j < i
      BY <1>0 DEF OutInv
    <3> QED
      BY <1>0, <1>1, <3>1, <3>2
  <2> QED
    BY <1>1, <2>2, <2>3 DEF OutInv
<1>2. ASSUME phase = "scan" PROVE out = << >> /\ pos \notin consts
  BY <1>0, <1>p, <1>2 DEF IInv, ScanInv, OutInv
<1>3. CASE ScanIf
  <2>1. Decided(pos)'
    BY <1>p, <1>3 DEF ScanIf, Scanning, Decided
  <2> DEFINE new == {i + 4, i + 1}
  <2>2. new \subseteq Nat /\ \A b \in new : b > i
    BY <1>0
  <2> QED
    BY <1>1, <1>2, <1>3, <2>1, <2>2 DEF ScanIf, Scanning
<1>4. CASE ScanConstSkip
  <2>1. At(func, i - 1).n \in Nat
    BY <1>0, <1>4, ConstLitIsNat DEF ScanConstSkip, Scanning, TakenForConst, IInv, TypeOK
  <2> DEFINE new == {i + 1, i + At(func, i - 1).n + 1}
  <2>2. new \subseteq Nat /\ \A b \in new : b > i
    BY <1>0, <2>1
  <2>3. breaks' = breaks \cup new /\ consts' = consts \cup {i} /\ UNCHANGED func
        /\ pos \notin breaks /\ pos > 0 /\ ConstLitAt(func, pos - 1)
    BY <1>p, <1>4 DEF ScanConstSkip, Scanning, Insert, TakenForConst
  <2>4. pos \notin breaks' /\ pos \in consts'
    BY <1>0, <1>p, <2>2, <2>3
  <2>5. Decided(pos)'
    BY <2>3, <2>4 DEF Decided
  <2> QED
    BY <1>1, <1>2, <1>4, <2>2, <2>5 DEF ScanConstSkip, Scanning
<1>5. CASE ScanDynamicSkip
  <2> DEFINE new == (i + 1)..Len(func)
  <2>1. new \subseteq Nat /\ \A b \in new : b > i
    BY <1>0
  <2>2. breaks' = breaks \cup new /\ consts' = consts /\ UNCHANGED func
        /\ ~ (pos \notin breaks /\ pos > 0 /\ ConstLitAt(func, pos - 1))
    BY <1>p, <1>5 DEF ScanDynamicSkip, Scanning, Insert, TakenForConst
  <2>3. pos \notin consts'
    BY <1>2, <1>5, <2>2 DEF ScanDynamicSkip, Scanning
  <2>4. Decided(pos)'
    BY <2>2, <2>3 DEF Decided
  <2> QED
    BY <1>1, <1>2, <1>5, <2>1, <2>2, <2>4 DEF ScanDynamicSkip, Scanning
<1>6. CASE ScanOther
  <2>1. Decided(pos)'
    BY <1>p, <1>6 DEF ScanOther, Scanning, Decided, ControlOps
  <2>2. Insert({})
    BY <1>6 DEF ScanOther, Insert
  <2> QED
    BY <1>1, <1>2, <1>6, <2>1, <2>2 DEF ScanOther, Scanning
<1>7. ASSUME UNCHANGED <<func, i, breaks, consts, out>>, pieces \subseteq pieces'
      PROVE  OutInv'
  BY <1>7 DEF OutInv, Decided
<1>8. ASSUME NEW br \in todo, CutAt(br) PROVE OutInv'
  BY <1>7, <1>8 DEF CutAt
<1>9. CASE CutRest
  BY <1>7, <1>9 DEF CutRest
<1>10. CASE ScanEnd \/ LinkEnd \/ UNCHANGED vars
  BY <1>7, <1>10 DEF ScanEnd, LinkEnd, vars
<1>11. ASSUME NEW p \in pieces, Link(p) PROVE OutInv'
  <2>1. CASE err' # "none"
    BY <1>7, <1>11, <2>1 DEF Link
  <2>2. CASE err' = "none"
    <3>1. /\ out' = [s \in DOMAIN out \cup {p[1]} |->
                        IF s = p[1] THEN BlockAt(func, p[1], p[2]) ELSE out[s]]
          /\ UNCHANGED <<func, i, breaks, consts, pieces>>
      BY <1>11, <2>2 DEF Link
    <3>2. ASSUME NEW s \in DOMAIN out'
          PROVE  \E q \in pieces : q[1] = s /\ out'[s] = BlockAt(func, s, q[2])
      BY <3>1, <3>2 DEF OutInv
    <3> QED
      BY <3>1, <3>2 DEF OutInv, Decided
  <2> QED
    BY <2>1, <2>2
<1> QED
  BY <1>3, <1>4, <1>5, <1>6, <1>8, <1>9, <1>10, <1>11 DEF Next

\* The TODO at analysis.rs:211: a skip that was constant to the scan is a jump
\* to the linker, and no other is, for every function.
THEOREM SkipsAgree == Spec => []LinkAgreesWithScan
<1>1. Init => OutInv
  BY DEF Init, OutInv
<1>2. IInv /\ OutInv => LinkAgreesWithScan
  <2> SUFFICES ASSUME IInv, OutInv, NEW s \in DOMAIN out, NEW e, e = out[s].end,
                      At(func, e - 1).op = "skip"
               PROVE  e - 1 \in consts <=> out[s].term.kind = "jump"
    BY DEF LinkAgreesWithScan
  <2>1. PICK p \in pieces : p[1] = s /\ out[s] = BlockAt(func, s, p[2])
    BY DEF OutInv
  <2>2. e = p[2] /\ out[s].term = Terminator(func, s, e)
    BY <2>1 DEF BlockAt
  <2>3. /\ Len(func) \in Nat /\ s \in 0..Len(func) /\ e \in 0..Len(func)
        /\ s < e /\ s \in breaks \cup {0} /\ \A b \in breaks : ~ (s < b /\ b < e)
    BY <2>1, <2>2, LenIsNat DEF IInv, TypeOK, CutInv, PieceOK
  <2>4. i = Len(func)
    BY DEF IInv, ScanInv
  <2>5. e - 1 \in consts <=> e - 1 \notin breaks /\ e - 1 > 0 /\ ConstLitAt(func, e - 2)
    <3>1. e - 1 \in 0..(i - 1) /\ (e - 1) - 1 = e - 2
      BY <2>3, <2>4
    <3> QED
      BY <3>1 DEF OutInv, Decided
  <2>6. out[s].term.kind = "jump" <=> EndsInConstSkip(func, s, e)
    <3>1. CASE EndsInConstSkip(func, s, e)
      BY <2>2, <3>1 DEF Terminator, ControlOps
    <3>2. CASE ~ EndsInConstSkip(func, s, e)
      BY <2>2, <3>2 DEF Terminator, ControlOps
    <3> QED
      BY <3>1, <3>2
  <2>7. EndsInConstSkip(func, s, e) <=> e - 2 >= s /\ ConstLitAt(func, e - 2)
    BY DEF EndsInConstSkip
  <2>8. (e - 1 \notin breaks /\ e - 1 > 0) <=> e - 2 >= s
    <3>1. CASE e - 1 = s
      BY <2>3, <3>1
    <3>2. CASE e - 1 > s
      BY <2>3, <3>2
    <3> QED
      BY <2>3, <3>1, <3>2
  <2> QED
    BY <2>5, <2>6, <2>7, <2>8
<1> QED
  BY Inductive, <1>1, OutStep, <1>2, PTL DEF Spec

-----------------------------------------------------------------------------
\* The scan computes the recursion of BreaksUpTo, and a block is linked when
\* its assertions hold.
ResultInv ==
    /\ breaks = BreaksUpTo(func)[i]
    /\ out = [s \in DOMAIN out |-> out[s]]
    /\ \A s \in DOMAIN out : AssertsHold(func, s, out[s].end)
    /\ phase = "panic" => \E p \in pieces : ~ AssertsHold(func, p[1], p[2])

LEMMA ResultStep == IInv /\ ResultInv /\ [Next]_vars => ResultInv'
<1> SUFFICES ASSUME IInv, ResultInv, [Next]_vars PROVE ResultInv'
  OBVIOUS
<1>0. Len(func) \in Nat /\ i \in 0..Len(func) /\ func \in Seq(ParsedInstr(Names, Int))
  BY LenIsNat, CodesAssumption DEF IInv, TypeOK
<1>1. ASSUME NEW op, Scanning(op), breaks' = breaks \cup NewBreaks(func, breaks, i)
      PROVE  ResultInv'
  <2>1. /\ phase = "scan" /\ i \in 0..(Len(func) - 1) /\ i' = i + 1
        /\ UNCHANGED <<func, phase, pieces, out>>
    BY <1>0, <1>1 DEF Scanning
  <2>2. BreaksUpTo(func)[i + 1] = breaks \cup NewBreaks(func, breaks, i)
    BY <1>0, <2>1, BreaksRecursion DEF ResultInv
  <2> QED
    BY <1>1, <2>1, <2>2 DEF ResultInv
<1>2. CASE ScanIf
  <2>1. NewBreaks(func, breaks, i) = {i + 4, i + 1}
    BY <1>2 DEF ScanIf, Scanning, NewBreaks, ControlOps
  <2> QED
    BY <1>1, <1>2, <2>1 DEF ScanIf, Insert
<1>3. CASE ScanConstSkip
  <2>0. At(func, i - 1).n \in Nat
    BY <1>0, <1>3, ConstLitIsNat DEF ScanConstSkip, Scanning, TakenForConst, IInv, TypeOK
  <2>1. NewBreaks(func, breaks, i) = {i + 1, i + 1 + At(func, i - 1).n}
    BY <1>3 DEF ScanConstSkip, Scanning, TakenForConst, NewBreaks, ControlOps
  <2>2. i + 1 + At(func, i - 1).n = i + At(func, i - 1).n + 1
    BY <1>0, <2>0
  <2>3. Scanning("skip") /\ Insert({i + 1, i + At(func, i - 1).n + 1})
    BY <1>3 DEF ScanConstSkip
  <2> QED
    BY <1>1, <2>1, <2>2, <2>3 DEF Insert
<1>4. CASE ScanDynamicSkip
  <2>1. ~ (i \notin breaks /\ ConstLitAt(func, i - 1))
    BY <1>0, <1>4 DEF ScanDynamicSkip, TakenForConst, ConstLitAt
  <2>2. Scanning("skip") /\ Insert((i + 1)..Len(func))
    BY <1>4 DEF ScanDynamicSkip
  <2>3. NewBreaks(func, breaks, i) = (i + 1)..Len(func)
    BY <2>1, <2>2 DEF Scanning, NewBreaks, ControlOps
  <2> QED
    BY <1>1, <2>2, <2>3 DEF Insert
<1>5. CASE ScanOther
  <2>1. PICK op \in {"lit", "call", "pick", "droprange", "quit"}
                        \cup (FixedOps \ ControlOps) : Scanning(op)
    BY <1>5 DEF ScanOther
  <2>2. op \notin ControlOps /\ At(func, i).op = op
    BY <2>1 DEF Scanning, ControlOps
  <2>3. NewBreaks(func, breaks, i) = {}
    BY <2>2 DEF NewBreaks, ControlOps
  <2> QED
    BY <1>1, <1>5, <2>1, <2>3 DEF ScanOther
<1>6. ASSUME UNCHANGED <<func, i, breaks, out>>, phase' # "panic" \/ UNCHANGED <<phase, pieces>>
      PROVE  ResultInv'
  BY <1>6 DEF ResultInv
<1>7. CASE ScanEnd
  BY <1>6, <1>7 DEF ScanEnd
<1>8. ASSUME NEW br \in todo, CutAt(br) PROVE ResultInv'
  BY <1>6, <1>8 DEF CutAt
<1>9. CASE CutRest
  BY <1>6, <1>9 DEF CutRest
<1>10. CASE LinkEnd \/ UNCHANGED vars
  BY <1>6, <1>10 DEF LinkEnd, vars
<1>11. ASSUME NEW p \in pieces, Link(p) PROVE ResultInv'
  <2>1. err' = Fault(func, p[1], p[2], DOMAIN out) /\ UNCHANGED <<func, i, breaks, pieces>>
    BY <1>11 DEF Link
  <2>2. CASE err' = "none"
    <3>1. /\ out' = [s \in DOMAIN out \cup {p[1]} |->
                        IF s = p[1] THEN BlockAt(func, p[1], p[2]) ELSE out[s]]
          /\ UNCHANGED phase
      BY <1>11, <2>2 DEF Link
    <3>2. AssertsHold(func, p[1], p[2])
      BY <2>1, <2>2 DEF Fault
    <3>3. out' = [s \in DOMAIN out' |-> out'[s]]
      BY <3>1
    <3>4. ASSUME NEW s \in DOMAIN out' PROVE AssertsHold(func, s, out'[s].end)
      <4>1. BlockAt(func, p[1], p[2]).end = p[2]
        BY DEF BlockAt
      <4> QED
        BY <3>1, <3>2, <3>4, <4>1 DEF ResultInv
    <3> QED
      BY <2>1, <3>1, <3>3, <3>4 DEF ResultInv
  <2>3. CASE err' # "none"
    <3>1. phase' = "panic" /\ UNCHANGED out
      BY <1>11, <2>3 DEF Link
    <3>2. err' = "precondition"
      BY <1>11, <2>1, <2>3, NoFault DEF Link, IInv
    <3>3. ~ AssertsHold(func, p[1], p[2])
      BY <2>1, <3>2 DEF Fault
    <3> QED
      BY <2>1, <3>1, <3>3 DEF ResultInv
  <2> QED
    BY <2>2, <2>3
<1> QED
  BY <1>2, <1>3, <1>4, <1>5, <1>7, <1>8, <1>9, <1>10, <1>11 DEF Next

\* Once the scan is over, a piece is a block of the closed form.
LEMMA PieceIsBlock ==
    ASSUME IInv, ResultInv, phase # "scan", NEW p \in pieces
    PROVE  p[1] \in StartsOf(func) /\ EndIn(func, StartsOf(func), p[1]) = p[2]
<1>1. /\ Len(func) \in Nat /\ breaks \subseteq Nat
      /\ p[1] \in 0..Len(func) /\ p[2] \in 0..Len(func)
  BY LenIsNat DEF IInv, TypeOK
<1>2. StartsOf(func) = {b \in {0} \cup breaks : b < Len(func)}
  BY DEF StartsOf, ResultInv, IInv, ScanInv
<1>3. /\ p[1] < p[2] /\ p[1] \in breaks \cup {0} /\ p[2] \in breaks \cup {Len(func)}
      /\ \A b \in breaks : ~ (p[1] < b /\ b < p[2])
  BY DEF IInv, CutInv, PieceOK
<1> DEFINE n == Len(func)
           s == p[1]
           e == p[2]
<1> HIDE DEF n, s, e
<1>4. s < n /\ s \in {0} \cup breaks
  BY <1>1, <1>3 DEF n, s, e
<1>5. /\ e \in {b \in {0} \cup breaks : b < n} \cup {n}
      /\ \A t \in {b \in {0} \cup breaks : b < n} : ~ (s < t /\ t < e)
  <2>1. e \in Nat /\ s \in Nat /\ n \in Nat /\ e <= n /\ e \in breaks \cup {n}
    BY <1>1, <1>3 DEF n, s, e
  <2>2. \A b \in breaks : ~ (s < b /\ b < e)
    BY <1>3 DEF s, e
  <2> QED
    BY <2>1, <2>2
<1>7. ASSUME NEW b \in StartsOf(func) PROVE b \in 0..(n - 1)
  <2>1. b \in Nat /\ b < n /\ n \in Nat
    <3>1. b \in {0} \cup breaks /\ b < n
      BY <1>2, Zenon DEF n
    <3> QED
      BY <1>1, <3>1 DEF n
  <2> QED
    BY <2>1
<1>6. EndIn(func, StartsOf(func), p[1]) = p[2]
  BY <1>1, <1>2, <1>3, <1>5, <1>7, EndIsUnique DEF n, s, e
<1> QED
  BY <1>2, <1>4, <1>6 DEF n, s

\* The loops compute the graph that the closed form describes, and stop with
\* a panic exactly on the functions that have none, for every function.
THEOREM GraphIsBuilt == Spec => []BuildsGraph
<1>1. Init => OutInv /\ CoverInv /\ ResultInv
  <2> SUFFICES ASSUME Init PROVE OutInv /\ CoverInv /\ ResultInv
    OBVIOUS
  <2>1. BreaksUpTo(func)[0] = {}
    BY CodesAssumption, BreaksRecursion DEF Init
  <2>2. << >> = [s \in DOMAIN << >> |-> << >>[s]] /\ DOMAIN << >> = {}
    OBVIOUS
  <2> QED
    BY <2>1, <2>2 DEF Init, OutInv, CoverInv, ResultInv
<1>2. IInv /\ OutInv /\ CoverInv /\ ResultInv => BuildsGraph
  <2> SUFFICES ASSUME IInv, OutInv, CoverInv, ResultInv PROVE BuildsGraph
    OBVIOUS
  <2> DEFINE starts == StartsOf(func)
             end(s) == EndIn(func, starts, s)
  <2>1. ASSUME phase = "done" PROVE GraphExists(func) /\ out = GraphOf(func)
    <3>1. DOMAIN out = starts
      <4>1. \A b \in breaks \cup {0} : b < Len(func) => b \in Starts
        BY <2>1 DEF IInv, CutInv
      <4>2. starts = {b \in {0} \cup breaks : b < Len(func)}
        BY <2>1 DEF StartsOf, ResultInv, IInv, ScanInv
      <4>3. starts \subseteq DOMAIN out
        BY <2>1, <4>1, <4>2 DEF Starts, CoverInv
      <4>4. \A s \in DOMAIN out : \E p \in pieces : p[1] = s
        BY DEF OutInv
      <4>5. \A p \in pieces : p[1] \in starts
        BY <2>1, PieceIsBlock
      <4> HIDE DEF starts
      <4> QED
        BY <4>3, <4>4, <4>5
    <3>2. ASSUME NEW s \in starts
          PROVE  out[s] = BlockAt(func, s, end(s)) /\ AssertsHold(func, s, end(s))
      <4>1. PICK p \in pieces : p[1] = s /\ out[s] = BlockAt(func, s, p[2])
        BY <3>1, <3>2 DEF OutInv
      <4>2. end(s) = p[2]
        BY <2>1, <4>1, PieceIsBlock
      <4>3. out[s].end = p[2]
        BY <4>1 DEF BlockAt
      <4>4. AssertsHold(func, s, out[s].end)
        BY <3>1, <3>2 DEF ResultInv
      <4> QED
        BY <4>1, <4>2, <4>3, <4>4
    <3>3. out = [s \in starts |-> BlockAt(func, s, end(s))]
      <4>1. out = [s \in DOMAIN out |-> out[s]]
        BY DEF ResultInv
      <4> HIDE DEF starts, end
      <4> QED
        BY <3>1, <3>2, <4>1
    <3> QED
      BY <3>2, <3>3 DEF GraphExists, GraphOf
  <2>2. ASSUME phase = "panic" PROVE ~ GraphExists(func)
    <3>1. PICK p \in pieces : ~ AssertsHold(func, p[1], p[2])
      BY <2>2 DEF ResultInv
    <3>2. p[1] \in starts /\ end(p[1]) = p[2]
      BY <2>2, PieceIsBlock
    <3> QED
      BY <3>1, <3>2 DEF GraphExists
  <2> QED
    BY <2>1, <2>2 DEF BuildsGraph
<1> QED
  BY Inductive, <1>1, OutStep, CoverStep, ResultStep, <1>2, PTL DEF Spec
=============================================================================
