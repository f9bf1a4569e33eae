----------------------------- MODULE MCBlockSig -----------------------------
(***************************************************************************)
(* BlockSig on every block of at most MaxBlock instructions over an     *)
(* alphabet with one instruction of each effect.                           *)
(***************************************************************************)
EXTENDS BlockSig

CONSTANT MaxBlock   \* longest block

\* "g" is solved, "e" is solved but as an endless recursion is, which pops below
\* its reach, "n" is solved and never returns, "h" belongs to the component being
\* solved, "u" is defined nowhere.
MCNames == {"e", "g", "h", "n", "u"}

MCKnown == [g |-> [never |-> FALSE, delta |-> -1, reach |-> 2],
            e |-> [never |-> FALSE, delta |-> -1, reach |-> 0],
            n |-> [never |-> TRUE,  delta |-> 0,  reach |-> 1]]

MCAssignments ==
    {[h |-> [never |-> FALSE, delta |-> d, reach |-> r]] :
        d \in {-2, 0, 1}, r \in {1, 2, 3}}

Alphabet ==
    {Lit(-1), Call("e"), Call("g"), Call("h"), Call("n"), Call("u"), Pick(3),
     DropRange(3, 2), Do("quit"), Do("drop"), Do("rot"), Do("write"),
     Do("syscall"), Do("pick"), Do("droprange"), Do("skip")}

\* Control flow instructions end a block.
MCBlocks ==
    {b \in UNION {[1..m -> Alphabet] : m \in 0..MaxBlock} :
        \A j \in DOMAIN b : b[j].op \in ControlOps => j = Len(b)}

MCFreshValues == {-3, 0, 2}
=============================================================================
