--------------------------- MODULE SequenceStack ---------------------------
(***************************************************************************)
(* What the Clac stack is to a program: a sequence, on which any of Instrs *)
(* is executed again and again, also after one that failed.  At most       *)
(* Capacity elements fit; what happens beyond is undefined.  So is what     *)
(* there is after an instruction has gone below the bottom ("wild"): no     *)
(* sequence, and never one again.  Exec(x, st) are the outcomes of the      *)
(* instruction x on st.                                                    *)
(***************************************************************************)
EXTENDS Naturals, Sequences

CONSTANTS Instrs, Capacity, Exec(_, _)

VARIABLES
    st,
    status      \* tag of the last instruction, or "overrun"

vars == <<st, status>>

Init == st = << >> /\ status = "executed"

\* The process is gone, or its behaviour undefined.
Final == {"quit", "panic", "wild", "overrun"}

Step ==
    /\ status \notin Final
    /\ \E x \in Instrs : \E o \in Exec(x, st) :
         IF Len(o.st) > Capacity THEN status' = "overrun" /\ UNCHANGED st
         ELSE status' = o.tag /\ (o.tag = "wild" \/ st' = o.st)

Spec == Init /\ [][Step]_vars
=============================================================================
