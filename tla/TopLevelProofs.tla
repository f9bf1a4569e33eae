--------------------------- MODULE TopLevelProofs ---------------------------
(***************************************************************************)
(* What holds of every session: for all lines, all stacks a compiled       *)
(* function may leave, and all ends of the compiler.  The proofs unfold    *)
(* the two folds of TopLevel (InsertAll and Extraction) by induction.      *)
(***************************************************************************)
EXTENDS TopLevel, ClacLemmas

DefNames   == Names \cup BuiltinOps
Definition == DefNames \X Seq(Code)
Open       == Definition \cup {<< >>}
CodeMaps   == UNION {[D -> Seq(Code)] : D \in SUBSET DefNames}

Ends       == {"no", "ok", "baddefinition", "toplevel"}
Extractions == [rest : Seq(Token), cur : Open, funcs : CodeMaps, end : Ends]

-----------------------------------------------------------------------------
(* The inductive invariant.                                                *)

Types ==
    /\ funcmap \in CodeMaps /\ latest \in CodeMaps
    /\ undefined_functions \in Seq(Definition)
    /\ stack \in Seq(Int)
    /\ line \in Seq(Token)
    /\ cur_func \in Open
    /\ status \in {"idle", "running", "panic", "exit"}
    /\ entered \in Seq(Lines) /\ Len(entered) <= MaxLines

\* What is compiled is what the compiler was last given.
Compiles ==
    /\ status # "panic" => jit.map = Compiled(funcmap, funcmap)
    /\ ~ jit.on => jit.map = << >>

\* While the first line runs, extract_functions has got as far with it, unless
\* it finds that something stands outside of the definitions.
Follows(toks) ==
    \/ Extracted(toks).end = "toplevel"
    \/ /\ status = "idle"
       /\ outcome = Extracted(toks).end /\ latest = Extracted(toks).funcs
    \/ /\ status = "running"
       /\ \E k \in 0..Len(toks) :
            /\ k + Len(line) <= Len(toks)
            /\ Extraction(toks)[k] = Extracting(line, cur_func, latest, "no")

FollowsAot ==
    /\ entered = << >> => status = "idle" /\ latest = << >>
    /\ Len(entered) = 1 => Follows(entered[1])

IInv == Types /\ DefinitionsKept /\ Compiles /\ FollowsAot

-----------------------------------------------------------------------------
(* Tokens and maps.                                                        *)

LEMMA CodeIsNoSyntax == ASSUME NEW t \in Code PROVE ~ IsSyntax(t)
BY DEF Code, ParsedInstr, FixedOps, IsSyntax, SyntaxOps

LEMMA TokenKinds ==
    ASSUME NEW t \in Token
    PROVE  /\ IsSyntax(t) \/ t \in Code
           /\ IsIdentifier(t) => NameOf(t) \in DefNames
<1>1. IsSyntax(t) \/ t \in Code
  BY DEF Token, IsSyntax
<1>2. ASSUME t.op = "call" PROVE t.f \in Names
  <2>1. t \in [op : {"call"}, f : Names]
    BY <1>2 DEF Token, Code, ParsedInstr, FixedOps, SyntaxOps
  <2> QED
    BY <2>1
<1>3. t.op # "call" /\ IsIdentifier(t) => t.op \in BuiltinOps
  BY DEF IsIdentifier
<1> QED
  BY <1>1, <1>2, <1>3 DEF NameOf, DefNames

\* An open definition, and one that an instruction is added to.
LEMMA OpenDefinition ==
    /\ \A n \in DefNames : <<n, << >>>> \in Open /\ <<n, << >>>> # << >>
    /\ \A d \in Definition, t \in Code :
         <<d[1], Append(d[2], t)>> \in Open /\ <<d[1], Append(d[2], t)>> # << >>
<1>1. << >> \in Seq(Code)
  OBVIOUS
<1>2. \A d \in Definition : d[1] \in DefNames /\ d[2] \in Seq(Code)
  BY DEF Definition
<1>3. \A c \in Seq(Code), t \in Code : Append(c, t) \in Seq(Code)
  OBVIOUS
<1>4. \A n \in DefNames, c \in Seq(Code) : <<n, c>> \in Open /\ <<n, c>> # << >>
  BY DEF Open, Definition
<1> QED
  BY <1>1, <1>2, <1>3, <1>4

LEMMA IsCodeMap ==
    ASSUME NEW map
    PROVE  map \in CodeMaps <=> DOMAIN map \subseteq DefNames /\ map \in [DOMAIN map -> Seq(Code)]
<1>1. ASSUME map \in CodeMaps
      PROVE  DOMAIN map \subseteq DefNames /\ map \in [DOMAIN map -> Seq(Code)]
  <2>1. PICK D \in SUBSET DefNames : map \in [D -> Seq(Code)]
    BY <1>1 DEF CodeMaps
  <2> QED
    BY <2>1
<1>2. ASSUME DOMAIN map \subseteq DefNames, map \in [DOMAIN map -> Seq(Code)]
      PROVE  map \in CodeMaps
  BY <1>2 DEF CodeMaps
<1> QED
  BY <1>1, <1>2

LEMMA NoCodeMap == << >> \in CodeMaps
<1>1. DOMAIN << >> = {} /\ << >> \in [{} -> Seq(Code)]
  OBVIOUS
<1> QED
  BY <1>1, IsCodeMap

LEMMA InsertIsCodeMap ==
    ASSUME NEW map \in CodeMaps, NEW def \in Definition
    PROVE  Insert(map, def) \in CodeMaps
<1>1. DOMAIN map \subseteq DefNames /\ map \in [DOMAIN map -> Seq(Code)]
  BY IsCodeMap
<1>2. def[1] \in DefNames /\ def[2] \in Seq(Code)
  BY DEF Definition
<1>3. DOMAIN Insert(map, def) = DOMAIN map \cup {def[1]}
  BY DEF Insert
<1>4. Insert(map, def) \in [DOMAIN map \cup {def[1]} -> Seq(Code)]
  BY <1>1, <1>2 DEF Insert
<1> QED
  BY <1>1, <1>2, <1>3, <1>4, IsCodeMap

-----------------------------------------------------------------------------
(* InsertAll inserts one definition after the other.                       *)

LEMMA InsertAllObeys ==
    ASSUME NEW map \in CodeMaps, NEW defs \in Seq(Definition)
    PROVE  \E f \in [0..Len(defs) -> CodeMaps] :
              /\ f[0] = map /\ \A i \in 1..Len(defs) : f[i] = Insert(f[i - 1], defs[i])
              /\ InsertAll(map, defs) = f[Len(defs)]
<1> DEFINE n == Len(defs)
           after == CHOOSE f : f = [i \in 0..n |->
                                      IF i = 0 THEN map ELSE Insert(f[i - 1], defs[i])]
           row(i) == [v \in CodeMaps |-> IF i \in 1..n THEN Insert(v, defs[i]) ELSE v]
           step == [i \in Nat |-> row(i)]
<1>1. n \in Nat /\ \A i \in 1..n : defs[i] \in Definition
  OBVIOUS
<1>2. PICK f \in [0..n -> CodeMaps] : Obeys(f, map, step, n)
  <2>1. ASSUME NEW i \in Nat PROVE row(i) \in [CodeMaps -> CodeMaps]
    BY <1>1, InsertIsCodeMap
  <2> HIDE DEF row
  <2>2. step \in [Nat -> [CodeMaps -> CodeMaps]]
    BY <2>1
  <2> HIDE DEF step, n
  <2> QED
    BY <1>1, <2>2, RecursionHasSolution
<1>3. /\ f[0] = map
      /\ \A i \in 1..n : f[i] = Insert(f[i - 1], defs[i])
  <2>1. f[0] = map
    BY <1>2 DEF Obeys
  <2>2. ASSUME NEW i \in 1..n PROVE f[i] = Insert(f[i - 1], defs[i])
    <3>1. i \in Nat /\ f[i - 1] \in CodeMaps
      BY <1>1
    <3>2. f[i] = step[i][f[i - 1]]
      BY <1>2 DEF Obeys
    <3>3. step[i] = row(i)
      BY <3>1, Zenon
    <3>4. row(i)[f[i - 1]] = Insert(f[i - 1], defs[i])
      BY <3>1, Zenon
    <3> QED
      BY <3>2, <3>3, <3>4, Zenon
  <2> QED
    BY <2>1, <2>2
<1>4. f = [i \in 0..n |-> IF i = 0 THEN map ELSE Insert(f[i - 1], defs[i])]
  BY <1>1, <1>3
<1>5. after = [i \in 0..n |-> IF i = 0 THEN map ELSE Insert(after[i - 1], defs[i])]
  BY <1>4
<1>6. Agree(after, f, n)
  <2> HIDE DEF after
  <2>1. SameRecursion(after, f, n)
    BY <1>1, <1>3, <1>5 DEF SameRecursion
  <2> HIDE DEF n
  <2> QED
    BY <1>1, <2>1, RecursionIsUnique
<1>7. InsertAll(map, defs) = after[n]
  BY DEF InsertAll
<1> QED
  BY <1>1, <1>3, <1>6, <1>7 DEF Agree

LEMMA InsertAllNone ==
    ASSUME NEW map \in CodeMaps PROVE InsertAll(map, << >>) = map
<1> DEFINE none == << >>
<1>1. none \in Seq(Definition) /\ Len(none) = 0
  OBVIOUS
<1> HIDE DEF none
<1>2. InsertAll(map, none) = map
  <2>1. PICK f \in [0..Len(none) -> CodeMaps] : f[0] = map /\ InsertAll(map, none) = f[Len(none)]
    BY <1>1, InsertAllObeys
  <2> QED
    BY <1>1, <2>1
<1> QED
  BY <1>2 DEF none

LEMMA InsertAllMore ==
    ASSUME NEW map \in CodeMaps, NEW defs \in Seq(Definition), NEW def \in Definition
    PROVE  InsertAll(map, Append(defs, def)) = Insert(InsertAll(map, defs), def)
<1> DEFINE more == Append(defs, def)
           n == Len(defs)
<1>1. more \in Seq(Definition) /\ Len(more) = n + 1 /\ more[n + 1] = def
      /\ n \in Nat /\ \A i \in 1..n : more[i] = defs[i]
  OBVIOUS
<1>2. PICK f : /\ f[0] = map /\ \A i \in 1..n : f[i] = Insert(f[i - 1], defs[i])
               /\ InsertAll(map, defs) = f[n]
  BY InsertAllObeys
<1> HIDE DEF more
<1>3. PICK g : /\ g[0] = map /\ \A i \in 1..(n + 1) : g[i] = Insert(g[i - 1], more[i])
               /\ InsertAll(map, more) = g[n + 1]
  <2>1. PICK g \in [0..Len(more) -> CodeMaps] :
           /\ g[0] = map /\ \A i \in 1..Len(more) : g[i] = Insert(g[i - 1], more[i])
           /\ InsertAll(map, more) = g[Len(more)]
    BY <1>1, InsertAllObeys
  <2>2. Len(more) = n + 1
    BY <1>1
  <2> HIDE DEF n
  <2> QED
    BY <2>1, <2>2, Zenon
<1>4. Agree(f, g, n)
  <2>1. SameRecursion(f, g, n)
    BY <1>1, <1>2, <1>3 DEF SameRecursion
  <2> HIDE DEF n
  <2> QED
    BY <1>1, <2>1, RecursionIsUnique
<1>5. f[n] = g[n] /\ g[n + 1] = Insert(g[n], def)
  BY <1>1, <1>3, <1>4 DEF Agree
<1> QED
  BY <1>2, <1>3, <1>5 DEF more

-----------------------------------------------------------------------------
(* The loop of extract_functions.                                          *)

\* The first token of a line, and what is left of the line.
LEMMA LineParts ==
    ASSUME NEW toks \in Seq(Token), toks # << >>
    PROVE  /\ toks[1] \in Token /\ Tail(toks) \in Seq(Token)
           /\ Len(Tail(toks)) = Len(toks) - 1 /\ Len(toks) \in Nat \ {0}
BY EmptySeq, HeadTailProperties

LEMMA ExtractionStepStays ==
    ASSUME NEW s \in Extractions PROVE ExtractionStep(s) \in Extractions
<1>1. CASE s.end # "no"
  BY <1>1 DEF ExtractionStep
<1>2. CASE s.end = "no" /\ s.rest = << >>
  BY <1>2 DEF ExtractionStep, Extracting, Extractions, Ends
<1>3. CASE s.end = "no" /\ s.rest # << >>
  <2> DEFINE tok == s.rest[1]
             rest == Tail(s.rest)
  <2>1. tok \in Token /\ rest \in Seq(Token)
    BY <1>3, LineParts DEF Extractions
  <2>2. CASE tok.op = ":" /\ s.cur = << >> /\ rest # << >> /\ IsIdentifier(rest[1])
    <3>1. Tail(rest) \in Seq(Token) /\ NameOf(rest[1]) \in DefNames
      BY <2>1, <2>2, LineParts, TokenKinds
    <3>2. <<NameOf(rest[1]), << >>>> \in Open
      BY <3>1, OpenDefinition
    <3>3. ExtractionStep(s) = Extracting(Tail(rest), <<NameOf(rest[1]), << >>>>, s.funcs, "no")
      BY <1>3, <2>2 DEF ExtractionStep, IsSyntax, SyntaxOps
    <3> HIDE DEF tok, rest
    <3> QED
      BY <3>1, <3>2, <3>3 DEF Extracting, Extractions, Ends
  <2>3. CASE tok.op = ";" /\ s.cur # << >>
    <3>1. << >> \in Open /\ s.cur \in Definition /\ s.funcs \in CodeMaps
      BY <2>3 DEF Extractions, Open
    <3>2. Insert(s.funcs, s.cur) \in CodeMaps
      BY <3>1, InsertIsCodeMap
    <3>3. ExtractionStep(s) = Extracting(rest, << >>, Insert(s.funcs, s.cur), "no")
      BY <1>3, <2>3 DEF ExtractionStep, IsSyntax, SyntaxOps
    <3> QED
      BY <2>1, <3>1, <3>2, <3>3 DEF Extracting, Extractions, Ends
  <2>4. CASE ~ IsSyntax(tok) /\ s.cur # << >>
    <3>1. s.cur \in Definition /\ tok \in Code
      BY <2>1, <2>4, TokenKinds DEF Extractions, Open
    <3>2. <<s.cur[1], Append(s.cur[2], tok)>> \in Open
      BY <3>1, OpenDefinition
    <3>3. ExtractionStep(s) = Extracting(rest, <<s.cur[1], Append(s.cur[2], tok)>>, s.funcs, "no")
      BY <1>3, <2>4 DEF ExtractionStep, IsSyntax, SyntaxOps
    <3> QED
      BY <2>1, <3>2, <3>3 DEF Extracting, Extractions, Ends
  <2>5. CASE ~ IsSyntax(tok) /\ s.cur = << >>
    BY <1>3, <2>5 DEF ExtractionStep, Extracting, Extractions, Ends, IsSyntax, SyntaxOps
  <2>6. CASE /\ ~ (tok.op = ":" /\ s.cur = << >> /\ rest # << >> /\ IsIdentifier(rest[1]))
             /\ ~ (tok.op = ";" /\ s.cur # << >>) /\ IsSyntax(tok)
    <3>1. ExtractionStep(s) = Extracting(s.rest, s.cur, s.funcs, "baddefinition")
      BY <1>3, <2>6 DEF ExtractionStep
    <3> QED
      BY <3>1 DEF Extracting, Extractions, Ends
  <2> QED
    BY <2>2, <2>3, <2>4, <2>5, <2>6
<1> QED
  BY <1>1, <1>2, <1>3

LEMMA ExtractionObeys ==
    ASSUME NEW toks \in Seq(Token)
    PROVE  /\ Len(toks) \in Nat /\ Extraction(toks)[0] = Extracting(toks, << >>, << >>, "no")
           /\ \A i \in 0..(Len(toks) + 1) : Extraction(toks)[i] \in Extractions
           /\ \A i \in 1..(Len(toks) + 1) :
                 Extraction(toks)[i] = ExtractionStep(Extraction(toks)[i - 1])
<1> DEFINE m == Len(toks) + 1
           start == Extracting(toks, << >>, << >>, "no")
           state == CHOOSE f : f = [i \in 0..m |->
                                      IF i = 0 THEN start ELSE ExtractionStep(f[i - 1])]
           row == [s \in Extractions |-> ExtractionStep(s)]
           step == [i \in Nat |-> row]
<1>1. m \in Nat /\ Len(toks) \in Nat
  OBVIOUS
<1>2. PICK f \in [0..m -> Extractions] : Obeys(f, start, step, m)
  <2>1. start \in Extractions
    BY NoCodeMap DEF Extracting, Extractions, Open, Ends
  <2>2. row \in [Extractions -> Extractions]
    BY ExtractionStepStays, Zenon
  <2> HIDE DEF row
  <2>3. step \in [Nat -> [Extractions -> Extractions]]
    BY <2>2
  <2> HIDE DEF step, start, m
  <2> QED
    BY <1>1, <2>1, <2>3, RecursionHasSolution
<1>3. f[0] = start /\ \A i \in 1..m : f[i] = ExtractionStep(f[i - 1])
  <2>1. f[0] = start
    BY <1>2 DEF Obeys
  <2>2. ASSUME NEW i \in 1..m PROVE f[i] = ExtractionStep(f[i - 1])
    <3>1. i \in Nat /\ f[i - 1] \in Extractions
      BY <1>1
    <3>2. f[i] = step[i][f[i - 1]]
      BY <1>2 DEF Obeys
    <3>3. step[i] = row
      BY <3>1, Zenon
    <3>4. row[f[i - 1]] = ExtractionStep(f[i - 1])
      BY <3>1, Zenon
    <3> QED
      BY <3>2, <3>3, <3>4, Zenon
  <2> QED
    BY <2>1, <2>2
<1> HIDE DEF start
<1>4. f = [i \in 0..m |-> IF i = 0 THEN start ELSE ExtractionStep(f[i - 1])]
  BY <1>1, <1>3
<1>5. state = [i \in 0..m |-> IF i = 0 THEN start ELSE ExtractionStep(state[i - 1])]
  BY <1>4
<1>6. Extraction(toks) = state
  BY DEF Extraction, start
<1> HIDE DEF state
<1>7. state[0] = start /\ \A i \in 1..m : state[i] = ExtractionStep(state[i - 1])
  BY <1>1, <1>5
<1>8. Agree(state, f, m)
  <2>1. SameRecursion(state, f, m)
    BY <1>3, <1>7 DEF SameRecursion
  <2> HIDE DEF m
  <2> QED
    BY <1>1, <2>1, RecursionIsUnique
<1>9. \A i \in 0..m : state[i] \in Extractions
  BY <1>8 DEF Agree
<1> QED
  BY <1>1, <1>6, <1>7, <1>9 DEF start

\* An end is an end.
LEMMA ExtractionEnds ==
    ASSUME NEW toks \in Seq(Token), NEW k \in 0..(Len(toks) + 1),
           Extraction(toks)[k].end # "no"
    PROVE  Extracted(toks) = Extraction(toks)[k]
<1> DEFINE m == Len(toks) + 1
           S == {j \in 0..m : j >= k => Extraction(toks)[j] = Extraction(toks)[k]}
<1>1. m \in Nat
  BY ExtractionObeys
<1>2. 0 \in S
  BY <1>1
<1>3. ASSUME NEW j \in 0..(m - 1), j \in S PROVE j + 1 \in S
  <2>1. CASE j < k
    BY <1>1, <2>1
  <2>2. CASE j >= k
    <3>1. Extraction(toks)[j] = Extraction(toks)[k]
      BY <1>3, <2>2
    <3>2. j + 1 \in 1..m /\ (j + 1) - 1 = j
      BY <1>1
    <3>3. Extraction(toks)[j + 1] = ExtractionStep(Extraction(toks)[j])
      BY <3>2, ExtractionObeys
    <3>4. ExtractionStep(Extraction(toks)[j]) = Extraction(toks)[j]
      BY <3>1 DEF ExtractionStep
    <3> QED
      BY <1>1, <3>1, <3>3, <3>4
  <2> QED
    BY <1>1, <2>1, <2>2
<1>4. \A j \in 0..m : j \in S
  <2> HIDE DEF S, m
  <2> QED
    BY <1>1, <1>2, <1>3, InductionUpTo
<1> QED
  BY <1>1, <1>4 DEF Extracted

-----------------------------------------------------------------------------
(* The invariant.                                                          *)

LEMMA RestOfLine ==
    ASSUME NEW toks \in Seq(Token), NEW k \in 1..(Len(toks) + 1)
    PROVE  /\ SubSeq(toks, k, Len(toks)) \in Seq(Token)
           /\ Len(SubSeq(toks, k, Len(toks))) = Len(toks) - k + 1
<1>1. k \in Int /\ Len(toks) \in Int /\ \A i \in k..Len(toks) : toks[i] \in Token
  OBVIOUS
<1> QED
  BY <1>1, SubSeqProperties

LEMMA InitIInv == Init => IInv
<1> SUFFICES ASSUME Init PROVE IInv
  OBVIOUS
<1>1. Types
  BY NoCodeMap, MaxLinesAssumption DEF Init, Types, Open
<1>2. DefinitionsKept
  BY NoCodeMap, InsertAllNone DEF Init, DefinitionsKept
<1>3. Compiles
  <2>1. Compiled(<< >>, << >>) = << >>
    BY DEF Compiled
  <2> QED
    BY <2>1 DEF Init, Compiles, NoJit
<1>4. FollowsAot
  BY DEF Init, FollowsAot
<1> QED
  BY <1>1, <1>2, <1>3, <1>4 DEF IInv

LEMMA TypesStep ==
    ASSUME IInv, [Next]_vars PROVE Types'
<1> USE DEF IInv, Types
<1>0. << >> \in Seq(Token) /\ << >> \in Open
  BY DEF Open
<1>1. CASE EnterLine
  BY <1>1, LinesAssumption, MaxLinesAssumption DEF EnterLine, machine, Open
<1>2. CASE StartDefinition
  <2>1. Len(line) > 1 /\ line[2] \in Token /\ IsIdentifier(line[2])
    BY <1>2 DEF StartDefinition, NameFollows
  <2>2. cur_func' \in Open
    BY <1>2, <2>1, TokenKinds, OpenDefinition DEF StartDefinition
  <2>3. line' \in Seq(Token)
    <3>1. line # << >> /\ Tail(line) \in Seq(Token) /\ Len(Tail(line)) # 0
      BY <1>2, <2>1, LineParts DEF StartDefinition
    <3>2. Tail(line) # << >>
      BY <3>1, EmptySeq
    <3> QED
      BY <1>2, <3>1, <3>2, LineParts DEF StartDefinition
  <2> QED
    BY <1>2, <2>2, <2>3 DEF StartDefinition, machine
<1>3. CASE EndDefinition
  <2>1. cur_func \in Definition /\ << >> \in Open
    BY <1>3 DEF EndDefinition, Open
  <2>2. latest' \in CodeMaps
    BY <1>3, <2>1, InsertIsCodeMap DEF EndDefinition
  <2>3. line' \in Seq(Token)
    BY <1>3, LineParts DEF EndDefinition
  <2>4. undefined_functions' \in Seq(Definition)
    <3>1. Append(undefined_functions, cur_func) \in Seq(Definition)
      BY <2>1, AppendProperties
    <3> QED
      BY <1>3, <3>1 DEF EndDefinition
  <2> QED
    BY <1>3, <2>1, <2>2, <2>3, <2>4 DEF EndDefinition
<1>4. CASE AddInstruction
  <2>1. cur_func \in Definition /\ Tok \in Code /\ line' \in Seq(Token)
    BY <1>4, LineParts, TokenKinds DEF AddInstruction, Open, Tok
  <2>2. cur_func' \in Open
    BY <1>4, <2>1, OpenDefinition DEF AddInstruction
  <2> QED
    BY <1>4, <2>1, <2>2 DEF AddInstruction, machine
<1>5. CASE BadDefinition
  BY <1>0, <1>5 DEF BadDefinition, Fails, machine
<1>6. CASE EndLine
  BY <1>6 DEF EndLine, machine
<1>7. CASE Recompile
  <2>1. funcmap' = latest
    BY <1>7 DEF Recompile, DefinitionsKept
  <2>2. undefined_functions' \in Seq(Definition)
    BY <1>7 DEF Recompile
  <2>3. status' \in {"running", "panic"}
    BY <1>7 DEF Recompile, AtTopLevel, Running
  <2> QED
    BY <1>7, <2>1, <2>2, <2>3 DEF Recompile
<1>8. CASE ExecuteInstr
  <2>1. /\ line # << >> /\ cur_func = << >> /\ status = "running"
        /\ Tok \in Instr(Names) /\ Tok.op # "call"
    <3>1. Tok \in Code
      BY <1>8, LineParts, TokenKinds DEF ExecuteInstr, AtTopLevel, Tok
    <3> QED
      BY <1>8, <3>1 DEF ExecuteInstr, AtTopLevel, Running, Code, Instr
  <2>2. PICK o \in Exec(Tok, stack) :
           /\ stack' = o.st
           /\ \/ line' = Tail(line) /\ UNCHANGED <<status, outcome, cur_func>>
              \/ /\ o.n <= Len(line) - 1 /\ line' = SubSeq(line, o.n + 2, Len(line))
                 /\ UNCHANGED <<status, outcome, cur_func>>
              \/ \E error : Fails(error)
              \/ status' = "panic" /\ UNCHANGED <<line, outcome, cur_func>>
    BY <1>8 DEF ExecuteInstr
  <2>3. OutcomeOK(o)
    BY <2>1, <2>2, ExecOK
  <2>4. Tail(line) \in Seq(Token) /\ Len(line) \in Nat \ {0}
    BY <2>1, LineParts
  <2>5. o.n <= Len(line) - 1 => SubSeq(line, o.n + 2, Len(line)) \in Seq(Token)
    BY <2>3, <2>4, RestOfLine DEF OutcomeOK
  <2>6. line' \in Seq(Token) /\ cur_func' = << >> /\ status' \in {"running", "idle", "panic"}
    <3>1. CASE \E error : Fails(error)
      BY <1>0, <3>1 DEF Fails
    <3> QED
      BY <2>1, <2>2, <2>4, <2>5, <3>1
  <2> QED
    BY <1>8, <2>2, <2>3, <2>6 DEF ExecuteInstr, OutcomeOK, Open
<1>9. CASE CallCompiled
  <2>1. Tail(line) \in Seq(Token)
    BY <1>9, LineParts DEF CallCompiled, AtTopLevel
  <2>2. stack' \in Seq(Int)
    BY <1>9, CalleeStacksAssumption DEF CallCompiled
  <2> QED
    BY <1>9, <2>1, <2>2 DEF CallCompiled
<1>10. CASE CallUnknown
  BY <1>0, <1>10 DEF CallUnknown, Fails, machine
<1>11. CASE CallWithoutJit
  BY <1>11 DEF CallWithoutJit, machine
<1>12. CASE UNCHANGED vars
  BY <1>12 DEF vars
<1> QED
  BY <1>1, <1>2, <1>3, <1>4, <1>5, <1>6, <1>7, <1>8, <1>9, <1>10, <1>11, <1>12 DEF Next

LEMMA DefinitionsKeptStep ==
    ASSUME IInv, [Next]_vars PROVE DefinitionsKept'
<1>1. CASE EndDefinition
  <2>1. cur_func \in Definition
    BY <1>1 DEF EndDefinition, IInv, Types, Open
  <2>2. InsertAll(funcmap, Append(undefined_functions, cur_func))
           = Insert(InsertAll(funcmap, undefined_functions), cur_func)
    BY <2>1, InsertAllMore DEF IInv, Types
  <2> QED
    BY <1>1, <2>2 DEF EndDefinition, IInv, DefinitionsKept
<1>2. CASE Recompile
  <2>1. funcmap' = latest /\ undefined_functions' = << >> /\ latest' = latest
    BY <1>2 DEF Recompile, IInv, DefinitionsKept
  <2> QED
    BY <2>1, InsertAllNone DEF IInv, Types, DefinitionsKept
<1>3. ASSUME UNCHANGED <<funcmap, undefined_functions, latest>> PROVE DefinitionsKept'
  BY <1>3 DEF IInv, DefinitionsKept
<1> QED
  BY <1>1, <1>2, <1>3
  DEF Next, vars, machine, EnterLine, StartDefinition, AddInstruction, BadDefinition, EndLine,
      ExecuteInstr, CallCompiled, CallUnknown, CallWithoutJit

LEMMA CompilesStep ==
    ASSUME IInv, [Next]_vars PROVE Compiles'
<1>1. CASE Recompile
  <2>1. \/ jit'.map = Compiled(funcmap', funcmap') /\ jit'.on
        \/ status' = "panic" /\ jit' = jit
    BY <1>1 DEF Recompile
  <2> QED
    BY <2>1 DEF IInv, Compiles
<1>2. ASSUME UNCHANGED <<funcmap, jit>>, status = "panic" => status' = "panic" PROVE Compiles'
  BY <1>2 DEF IInv, Compiles
<1> QED
  BY <1>1, <1>2
  DEF Next, vars, machine, EnterLine, StartDefinition, EndDefinition, AddInstruction, BadDefinition,
      EndLine, ExecuteInstr, CallCompiled, CallUnknown, CallWithoutJit, AtTopLevel, Running

LEMMA FollowsAotStep ==
    ASSUME IInv, [Next]_vars PROVE FollowsAot'
<1>1. CASE EnterLine
  <2>1. PICK new \in Lines : line' = new /\ entered' = Append(entered, new)
    BY <1>1 DEF EnterLine
  <2>2. /\ entered \in Seq(Lines) /\ new \in Seq(Token) /\ Len(entered) \in Nat
        /\ Len(entered') = Len(entered) + 1 /\ entered'[Len(entered) + 1] = new
    <3>1. entered \in Seq(Lines) /\ new \in Seq(Token)
      BY LinesAssumption DEF IInv, Types
    <3> QED
      BY <2>1, <3>1, AppendProperties
  <2>3. ASSUME Len(entered') = 1 PROVE entered'[1] = new /\ Follows(new)'
    <3>1. entered = << >> /\ entered'[1] = new
      <4>1. Len(entered) + 1 = 1
        BY <2>2, <2>3, Zenon
      <4>2. Len(entered) = 0
        BY <2>2, <4>1
      <4> QED
        BY <2>2, <4>1, <4>2, EmptySeq
    <3>2. status' = "running" /\ cur_func' = << >> /\ latest' = << >>
      BY <1>1, <3>1 DEF EnterLine, IInv, FollowsAot
    <3>3. Len(new) \in Nat /\ Extraction(new)[0] = Extracting(new, << >>, << >>, "no")
      BY <2>2, ExtractionObeys
    <3>4. 0 \in 0..Len(new) /\ 0 + Len(new) <= Len(new)
      BY <3>3
    <3> QED
      BY <2>1, <3>1, <3>2, <3>3, <3>4 DEF Follows
  <2>4. entered' # << >>
    <3>1. Len(entered') # 0
      BY <2>2
    <3> QED
      BY <3>1
  <2> QED
    BY <2>3, <2>4 DEF FollowsAot, Follows
<1>2. CASE UNCHANGED vars
  <2>1. UNCHANGED <<entered, status, outcome, latest, line, cur_func>>
    BY <1>2 DEF vars
  <2> QED
    BY <2>1 DEF IInv, FollowsAot, Follows
<1>3. CASE Next /\ ~ EnterLine
  <2>1. Running /\ entered' = entered
    BY <1>3 DEF Next, StartDefinition, EndDefinition, AddInstruction, BadDefinition, EndLine,
                Recompile, ExecuteInstr, CallCompiled, CallUnknown, CallWithoutJit, AtTopLevel
  <2>2. entered # << >>
    BY <2>1 DEF IInv, FollowsAot, Running
  <2> SUFFICES ASSUME NEW CONSTANT toks, toks = entered[1], Len(entered) = 1
               PROVE  Follows(toks)'
    BY <2>1, <2>2 DEF FollowsAot, Follows
  <2>3. toks \in Seq(Token)
    <3>1. entered \in Seq(Lines)
      BY DEF IInv, Types
    <3>2. toks \in Lines
      BY <3>1
    <3> QED
      BY <3>2, LinesAssumption
  <2> SUFFICES ASSUME Extracted(toks).end # "toplevel" PROVE Follows(toks)'
    BY <2>1 DEF Follows
  <2>4. PICK k \in 0..Len(toks) :
           /\ k + Len(line) <= Len(toks)
           /\ Extraction(toks)[k] = Extracting(line, cur_func, latest, "no")
    BY <2>1 DEF IInv, FollowsAot, Follows, Running
  <2> DEFINE now == Extracting(line, cur_func, latest, "no")
             next == Extraction(toks)[k + 1]
  <2>5. /\ Len(toks) \in Nat /\ line \in Seq(Token) /\ Len(line) \in Nat
        /\ k + 1 \in 0..(Len(toks) + 1) /\ next = ExtractionStep(now)
    <3>1. Len(toks) \in Nat /\ k + 1 \in 1..(Len(toks) + 1) /\ (k + 1) - 1 = k
      BY <2>3, <2>4, ExtractionObeys
    <3> QED
      BY <2>3, <2>4, <3>1, ExtractionObeys DEF IInv, Types
  <2>6. now.rest = line /\ now.cur = cur_func /\ now.funcs = latest /\ now.end = "no"
    BY DEF Extracting
  <2>7. next.end # "no" => Extracted(toks) = next
    BY <2>3, <2>5, ExtractionEnds
  <2>8. line # << >> => /\ Len(Tail(line)) = Len(line) - 1 /\ Tail(line) \in Seq(Token)
                        /\ Len(line) \in Nat \ {0} /\ Len(line) - 1 \in Nat
    BY <2>5, LineParts
  <2> HIDE DEF now, next
  <2>9. ASSUME status' = "running", k + 1 + Len(line') <= Len(toks), Len(line') \in Nat,
               next = Extracting(line', cur_func', latest', "no")
        PROVE  Follows(toks)'
    <3>1. k + 1 \in 0..Len(toks)
      BY <2>5, <2>9
    <3> QED
      BY <2>9, <3>1 DEF Follows, next
  <2>10. CASE StartDefinition
    <3>1. /\ line # << >> /\ cur_func = << >> /\ Tok = line[1] /\ NameFollows
          /\ line' = Tail(Tail(line)) /\ cur_func' = <<NameOf(line[2]), << >>>>
          /\ latest' = latest /\ status' = "running"
      BY <2>10 DEF StartDefinition, Running, Tok
    <3>2. Tok.op = ":" /\ Len(line) > 1 /\ IsIdentifier(line[2])
      BY <3>1 DEF NameFollows
    <3>3. Tail(line) # << >> /\ Tail(line)[1] = line[2] /\ Len(line') = Len(line) - 2
      <4>1. Len(Tail(line)) # 0 /\ Tail(line)[1] = line[2]
        BY <2>5, <2>8, <3>1, <3>2, HeadTailProperties
      <4>2. Tail(line) # << >>
        BY <2>8, <3>1, <4>1, EmptySeq
      <4> QED
        BY <2>8, <3>1, <4>1, <4>2, LineParts
    <3>4. next = Extracting(line', cur_func', latest', "no")
      BY <2>5, <2>6, <3>1, <3>2, <3>3 DEF ExtractionStep, IsSyntax, SyntaxOps
    <3>5. Len(line') \in Nat /\ k + 1 + Len(line') <= Len(toks)
      BY <2>4, <2>5, <3>2, <3>3
    <3> QED
      BY <2>9, <3>1, <3>4, <3>5
  <2>11. CASE EndDefinition
    <3>1. /\ line # << >> /\ cur_func # << >> /\ Tok = line[1] /\ Tok.op = ";"
          /\ line' = Tail(line) /\ cur_func' = << >>
          /\ latest' = Insert(latest, cur_func) /\ status' = "running"
      BY <2>11 DEF EndDefinition, Running, Tok
    <3>2. next = Extracting(line', cur_func', latest', "no")
      BY <2>5, <2>6, <3>1 DEF ExtractionStep, IsSyntax, SyntaxOps
    <3>3. Len(line') = Len(line) - 1 /\ Len(line') \in Nat
      <4>1. line # << >> /\ line' = Tail(line)
        BY <3>1
      <4> QED
        BY <2>8, <4>1, Zenon
    <3>4. k + 1 + Len(line') <= Len(toks)
      BY <2>4, <2>5, <3>3
    <3> QED
      BY <2>9, <3>1, <3>2, <3>3, <3>4
  <2>12. CASE AddInstruction
    <3>1. /\ line # << >> /\ cur_func # << >> /\ Tok = line[1] /\ ~ IsSyntax(Tok)
          /\ line' = Tail(line) /\ cur_func' = <<cur_func[1], Append(cur_func[2], Tok)>>
          /\ latest' = latest /\ status' = "running"
      BY <2>12 DEF AddInstruction, Running, Tok
    <3>2. next = Extracting(line', cur_func', latest', "no")
      BY <2>5, <2>6, <3>1 DEF ExtractionStep, IsSyntax, SyntaxOps
    <3>3. Len(line') = Len(line) - 1 /\ Len(line') \in Nat
      <4>1. line # << >> /\ line' = Tail(line)
        BY <3>1
      <4> QED
        BY <2>8, <4>1, Zenon
    <3>4. k + 1 + Len(line') <= Len(toks)
      BY <2>4, <2>5, <3>3
    <3> QED
      BY <2>9, <3>1, <3>2, <3>3, <3>4
  <2>13. ASSUME NEW e \in {"ok", "baddefinition"}, status' = "idle", outcome' = e, latest' = latest,
                next = Extracting(line, cur_func, latest, e)
         PROVE  Follows(toks)'
    <3>1. Extracted(toks) = Extracting(line, cur_func, latest, e)
      BY <2>7, <2>13 DEF Extracting
    <3> QED
      BY <2>13, <3>1 DEF Follows, Extracting
  <2>14. CASE BadDefinition
    <3>1. status' = "idle" /\ outcome' = "baddefinition" /\ latest' = latest
      BY <2>14 DEF BadDefinition, Fails
    <3>2. next = Extracting(line, cur_func, latest, "baddefinition")
      <4>1. CASE line = << >>
        BY <2>5, <2>6, <2>14, <4>1 DEF BadDefinition, ExtractionStep
      <4>2. CASE line # << >>
        <5>1. Tail(line) # << >> /\ IsIdentifier(Tail(line)[1]) /\ Tok.op = ":" => NameFollows
          <6>1. ASSUME Tail(line) # << >> PROVE Len(line) > 1 /\ Tail(line)[1] = line[2]
            <7>1. Len(Tail(line)) # 0 /\ Len(line) # 0
              BY <2>5, <2>8, <4>2, <6>1, EmptySeq
            <7>2. Len(line) > 1
              <8>1. Len(line) - 1 # 0 /\ Len(line) \in Nat \ {0}
                BY <2>8, <4>2, <7>1, Zenon
              <8> QED
                BY <8>1
            <7> QED
              BY <2>5, <4>2, <7>2, HeadTailProperties
          <6> QED
            BY <6>1 DEF NameFollows
        <5>2. \/ Tok.op = ":" /\ (cur_func # << >> \/ ~ NameFollows)
              \/ Tok.op = ";" /\ cur_func = << >>
          BY <2>14, <4>2 DEF BadDefinition
        <5> QED
          BY <2>5, <2>6, <4>2, <5>1, <5>2 DEF ExtractionStep, IsSyntax, SyntaxOps, Tok
      <4> QED
        BY <4>1, <4>2
    <3> QED
      BY <2>13, <3>1, <3>2
  <2>15. CASE EndLine
    <3>1. status' = "idle" /\ outcome' = "ok" /\ latest' = latest /\ line = << >> /\ cur_func = << >>
      BY <2>15 DEF EndLine
    <3>2. next = Extracting(line, cur_func, latest, "ok")
      BY <2>5, <2>6, <3>1 DEF ExtractionStep
    <3> QED
      BY <2>13, <3>1, <3>2
  <2>16. CASE AtTopLevel
    <3>1. next = Extracting(line, cur_func, latest, "toplevel")
      BY <2>5, <2>6, <2>16 DEF AtTopLevel, ExtractionStep, IsSyntax, SyntaxOps, Tok
    <3>2. Extracted(toks).end = "toplevel"
      BY <2>7, <3>1 DEF Extracting
    <3> QED
      BY <3>2
  <2> QED
    BY <1>3, <2>10, <2>11, <2>12, <2>14, <2>15, <2>16
    DEF Next, Recompile, ExecuteInstr, CallCompiled, CallUnknown, CallWithoutJit
<1> QED
  BY <1>1, <1>2, <1>3

LEMMA IInvHolds == Spec => []IInv
<1>1. IInv /\ [Next]_vars => IInv'
  <2> SUFFICES ASSUME IInv, [Next]_vars PROVE IInv'
    OBVIOUS
  <2>1. Types' /\ DefinitionsKept' /\ Compiles' /\ FollowsAot'
    BY TypesStep, DefinitionsKeptStep, CompilesStep, FollowsAotStep
  <2> QED
    BY <2>1 DEF IInv
<1> QED
  BY <1>1, InitIInv, PTL DEF Spec

-----------------------------------------------------------------------------
(* The properties.                                                         *)

\* No definition holds a ":" or a ";", and the stack holds numbers: the
\* instructions of a line and the compiled functions it calls only leave such.
THEOREM TypeOKHolds == Spec => []TypeOK
<1>1. IInv => TypeOK
  <2> SUFFICES ASSUME IInv PROVE TypeOK
    OBVIOUS
  <2>1. ASSUME NEW map \in {funcmap, latest}, NEW f \in DOMAIN map, NEW i \in DOMAIN map[f]
        PROVE  ~ IsSyntax(map[f][i])
    <3>1. map \in CodeMaps
      BY DEF IInv, Types
    <3>2. map[f] \in Seq(Code)
      BY <3>1, IsCodeMap
    <3>3. map[f][i] \in Code
      BY <3>2
    <3> QED
      BY <3>3, CodeIsNoSyntax
  <2> QED
    BY <2>1 DEF IInv, Types, TypeOK
<1> QED
  BY <1>1, IInvHolds, PTL

\* No definition is lost or comes back, in a session of any lines, failing ones
\* included.
THEOREM DefinitionsKeptHolds == Spec => []DefinitionsKept
<1>1. IInv => DefinitionsKept
  BY DEF IInv
<1> QED
  BY <1>1, IInvHolds, PTL

\* With nothing left to compile, the two maps are one.
LEMMA NothingWaits ==
    ASSUME IInv, undefined_functions = << >> PROVE funcmap = latest
BY InsertAllNone DEF IInv, Types, DefinitionsKept

\* When nothing waits, every function is compiled from its latest definition and
\* bound to the latest definitions.
THEOREM JitCurrentHolds == Spec => []JitCurrent
<1>1. IInv => JitCurrent
  BY NothingWaits DEF IInv, Compiles, JitCurrent
<1> QED
  BY <1>1, IInvHolds, PTL

\* A call executed at the top level finds nothing waiting.
LEMMA CallIsNotStale ==
    ASSUME IInv, AtTopLevel, ~ Stale, Tok.op = "call"
    PROVE  undefined_functions = << >> /\ funcmap = latest /\ jit.map = Compiled(latest, latest)
<1>1. undefined_functions = << >>
  BY DEF Stale, IsIdentifier
<1> QED
  BY <1>1, NothingWaits DEF IInv, Compiles, AtTopLevel, Running

\* Every call at the top level runs the latest definition, also one made or
\* replaced earlier in the same line or since the last call.
THEOREM CallsLatestHolds == Spec => CallsLatest
<1>1. IInv /\ [Next]_vars
        => [CallCompiled =>
              Tok.f \in DOMAIN latest /\ called' = <<Tok.f, latest[Tok.f]>>]_vars
  <2> SUFFICES ASSUME IInv, CallCompiled
               PROVE  Tok.f \in DOMAIN latest /\ called' = <<Tok.f, latest[Tok.f]>>
    OBVIOUS
  <2>1. jit.map = Compiled(latest, latest)
    BY CallIsNotStale DEF CallCompiled
  <2>2. Tok.f \in DOMAIN jit.map /\ called' = <<Tok.f, jit.map[Tok.f].code>>
    BY DEF CallCompiled
  <2>3. Tok.f \in DOMAIN latest /\ jit.map[Tok.f].code = latest[Tok.f]
    BY <2>1, <2>2 DEF Compiled
  <2> QED
    BY <2>2, <2>3
<1> QED
  BY <1>1, IInvHolds, PTL DEF Spec, CallsLatest

\* A function that has been defined is not reported unknown.
THEOREM UnknownIsUndefinedHolds == Spec => UnknownIsUndefined
<1>1. IInv /\ [Next]_vars
        => [CallUnknown \/ CallWithoutJit => Tok.f \notin DOMAIN latest]_vars
  <2> SUFFICES ASSUME IInv, CallUnknown \/ CallWithoutJit PROVE Tok.f \notin DOMAIN latest
    OBVIOUS
  <2>1. jit.map = Compiled(latest, latest)
    BY CallIsNotStale DEF CallUnknown, CallWithoutJit
  <2>2. DOMAIN jit.map = DOMAIN latest
    BY <2>1 DEF Compiled
  <2>3. CallWithoutJit => DOMAIN jit.map = {}
    BY DEF CallWithoutJit, IInv, Compiles
  <2> QED
    BY <2>2, <2>3 DEF CallUnknown
<1> QED
  BY <1>1, IInvHolds, PTL DEF Spec, UnknownIsUndefined

\* The two parsers agree on the first line of a session: what extract_functions
\* makes of it, or how it fails, is what entering it does.
THEOREM AotAgreesHolds == Spec => []AotAgrees
<1>1. IInv => AotAgrees
  BY DEF IInv, FollowsAot, Follows, AotAgrees
<1> QED
  BY <1>1, IInvHolds, PTL
=============================================================================
