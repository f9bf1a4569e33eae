----------------------------- MODULE MCFuncRun -----------------------------
(***************************************************************************)
(* FuncRun on every function of at most MaxAny instructions over Any and   *)
(* of at most MaxFlow instructions over Flow that has a graph.             *)
(***************************************************************************)
EXTENDS FuncRun

CONSTANTS MaxAny, MaxFlow

\* "f" is defined, "u" is not.
Any == {Lit(-1), Lit(1), Lit(2), Call("f"), Call("u"), Do("if"), Do("skip"),
        Do("pick"), Do("droprange"), Do("swap"), Do("rot"), Do("arith"),
        Do("write8"), Do("quit")}

Flow == {Lit(1), Lit(2), Do("if"), Do("skip"), Do("pick"), Do("droprange")}

CodesOver(alphabet, max) == UNION {[1..m -> alphabet] : m \in 0..max}

MCCodes ==
    {f \in CodesOver(Any, MaxAny) \cup CodesOver(Flow, MaxFlow) : GraphExists(f)}

\* Enough to take both sides of an if, to skip nothing, something or too
\* far, and to underflow.
MCInitStacks == {<< >>, <<0>>, <<1, 2>>, <<-1, 0, 1>>}
MCCalleeStacks == {<< >>, <<2, 1>>}
MCNames == {"f", "u"}
MCDefined == {"f"}
MCValues == {-1, 0}
=============================================================================
