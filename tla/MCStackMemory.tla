--------------------------- MODULE MCStackMemory ---------------------------
(***************************************************************************)
(* StackMemory with room for Capacity elements.                            *)
(***************************************************************************)
EXTENDS StackMemory

MCInstrs ==
    {Lit(-5), Lit(1), Lit(3), Do("swap"), Do("rot"), Do("drop"), Do("if"), Do("skip"),
     Do("write8"), Arith("lt"), Do("pick"), Do("droprange"), Pick(1), Pick(3),
     DropRange(2, 1), DropRange(2, 2), DropRange(3, 1), DropRange(4, 2), Arith("pow"), Do("quit")}
MCValues == {0}
MCLowest == -4
=============================================================================
