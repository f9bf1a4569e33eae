--------------------------- MODULE MCCompiledFunc ---------------------------
(***************************************************************************)
(* CompiledFunc on every function of at most MaxAny instructions over AnyInstr, *)
(* of at most MaxFlow over FlowInstr, and on every arithmetic instruction with  *)
(* operands at the edges of a 4-bit Value.                                 *)
(***************************************************************************)
EXTENDS CompiledFunc

CONSTANTS MaxAny, MaxFlow

\* "f" is defined, "u" is not.
AnyInstr ==
       {Lit(-1), Lit(1), Lit(2), Call("f"), Call("u"), Do("if"), Do("skip"),
        Do("pick"), Do("droprange"), Do("swap"), Do("rot"), Do("drop"),
        Arith("sub"), Do("write8"), Do("read"), Do("quit")}

FlowInstr == {Lit(2), Lit(3), Do("if"), Do("skip"), Do("pick"), Do("droprange")}

CodesOver(alphabet, max) == UNION {[1..m -> alphabet] : m \in 0..max}

Edges == {-8, -1, 0, 2, 3, 7}
Operations ==
    {<<Lit(a), Lit(b), Arith(it)>> : a \in Edges, b \in Edges,
        it \in {"add", "sub", "mul", "div", "rem", "lt", "pow"}}

MCCodes ==
    {f \in CodesOver(AnyInstr, MaxAny) \cup CodesOver(FlowInstr, MaxFlow) \cup Operations : GraphExists(f)}

MCInitStacks == {<< >>, <<0>>, <<1, 2>>, <<-1, 0, 1>>, <<3, 4, 5, 6>>}
MCCalleeStacks == {<< >>, <<2, 1>>}
MCStale == -3
\* Pointers below the base, inside, and at the end of the mapping.
MCWrecks == [sp : {-1, 2, MemSize}, mem : {[a \in 0..(MemSize - 1) |-> (a % 3) - 1]}]
MCNames == {"f", "u"}
MCDefined == {"f"}
MCValues == {-1, 0}
=============================================================================
