---------------------------- MODULE MCFuncGraph ----------------------------
(***************************************************************************)
(* FuncGraph on every function of at most MaxAny instructions over Any and *)
(* of at most MaxFlow instructions over Flow, which has little else than   *)
(* control flow.                                                           *)
(***************************************************************************)
EXTENDS FuncGraph

CONSTANTS MaxAny, MaxFlow   \* longest functions

MCNames == {"f"}

Any == {Lit(-1), Lit(0), Lit(1), Lit(2), Call("f"), Do("if"), Do("skip"),
        Do("pick"), Do("droprange")}

Flow == {Lit(0), Lit(2), Do("if"), Do("skip")}

CodesOver(alphabet, max) == UNION {[1..m -> alphabet] : m \in 0..max}

MCCodes == CodesOver(Any, MaxAny) \cup CodesOver(Flow, MaxFlow)
=============================================================================
