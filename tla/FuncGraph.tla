----------------------------- MODULE FuncGraph -----------------------------
(***************************************************************************)
(* create_graph and get_block_breaks_v2 (src/src/jit/analysis.rs): how the *)
(* instructions of one function are cut into basic blocks and the blocks   *)
(* linked.  BlockGraph has the operators on the code.                      *)
(*                                                                         *)
(*   scan   get_block_breaks_v2 collects the positions where blocks break  *)
(*   cut    the function is cut at the breaks                              *)
(*   link   the blocks get terminators, from the last block to the first   *)
(***************************************************************************)
EXTENDS BlockGraph

CONSTANTS
    Names,      \* function names
    Codes       \* the functions the algorithm is run on

ASSUME CodesAssumption == Codes \subseteq Seq(ParsedInstr(Names, Int))

VARIABLES
    func,       \* the argument
    phase,      \* "scan", "cut", "link", "done" or "panic"
    i,          \* position scanned
    breaks,     \* BTreeSet of breaks
    consts,     \* skips the scan took for constant (history)
    todo,       \* breaks the cutting loop has not seen
    last,       \* end of the last block cut
    pieces,     \* <<start, end>> of the blocks cut
    out,        \* the linked blocks, by start
    err         \* why the construction panicked, or "none"

vars == <<func, phase, i, breaks, consts, todo, last, pieces, out, err>>

-----------------------------------------------------------------------------
Init ==
    /\ func \in Codes
    /\ phase = "scan"
    /\ i = 0 /\ breaks = {} /\ consts = {}
    /\ todo = {} /\ last = 0 /\ pieces = {}
    /\ out = << >>
    /\ err = "none"

Insert(new) == breaks' = breaks \cup new

Scanning(op) ==
    /\ phase = "scan" /\ i < Len(func) /\ At(func, i).op = op
    /\ i' = i + 1
    /\ UNCHANGED <<func, phase, todo, last, pieces, out, err>>

\* Mutant of ScanIf: the false side starts one instruction early.
ScanIfShort ==
    /\ Scanning("if")
    /\ Insert({i + 3, i + 1})
    /\ UNCHANGED consts

ScanIf ==
    /\ Scanning("if")
    /\ Insert({i + 4, i + 1})
    /\ UNCHANGED consts

\* Mutant of TakenForConst: breaks are not looked at.
TakenAfterConst == i > 0 /\ ConstLitAt(func, i - 1)

\* No break here and a constant before: the skip distance is known.
TakenForConst == i \notin breaks /\ i > 0 /\ ConstLitAt(func, i - 1)

ScanConstSkip ==
    /\ Scanning("skip")
    /\ TakenForConst
    /\ Insert({i + 1, i + At(func, i - 1).n + 1})
    /\ consts' = consts \cup {i}

ScanDynamicSkip ==
    /\ Scanning("skip")
    /\ ~ TakenForConst
    /\ Insert((i + 1)..Len(func))
    /\ UNCHANGED consts

ScanOther ==
    /\ \E op \in {"lit", "call", "pick", "droprange", "quit"}
                    \cup (FixedOps \ ControlOps) : Scanning(op)
    /\ UNCHANGED <<breaks, consts>>

ScanEnd ==
    /\ phase = "scan" /\ i = Len(func)
    /\ phase' = "cut" /\ todo' = breaks
    /\ UNCHANGED <<func, i, breaks, consts, last, pieces, out, err>>

\* Mutant of CutAt: `last' is not clipped to the function.
CutAtUnclipped(br) ==
    /\ phase = "cut" /\ last # Len(func)
    /\ br \in todo /\ \A b \in todo : br <= b
    /\ todo' = todo \ {br}
    /\ pieces' = pieces \cup {<<last, MinInt(br, Len(func))>>}
    /\ last' = br
    /\ UNCHANGED <<func, phase, i, breaks, consts, out, err>>

\* One turn of `for mut br in breaks'.
CutAt(br) ==
    /\ phase = "cut" /\ last # Len(func)
    /\ br \in todo /\ \A b \in todo : br <= b
    /\ todo' = todo \ {br}
    /\ pieces' = pieces \cup {<<last, MinInt(br, Len(func))>>}
    /\ last' = MinInt(br, Len(func))
    /\ UNCHANGED <<func, phase, i, breaks, consts, out, err>>

\* Mutant of CutRest: what follows the last break is dropped.
CutNoRest ==
    /\ phase = "cut" /\ (last = Len(func) \/ todo = {})
    /\ phase' = "link"
    /\ UNCHANGED <<func, i, breaks, consts, todo, last, pieces, out, err>>

\* The loop is over; what follows the last break is a block as well.
CutRest ==
    /\ phase = "cut" /\ (last = Len(func) \/ todo = {})
    /\ phase' = "link"
    /\ pieces' = IF last # Len(func) THEN pieces \cup {<<last, Len(func)>>} ELSE pieces
    /\ UNCHANGED <<func, i, breaks, consts, todo, last, out, err>>

\* Every way the body of the linking loop can panic, in the code's order.
Fault(f, s, e, linked) ==
    IF ~ AssertsHold(f, s, e) THEN "precondition"
    ELSE IF s = e THEN "basic_block.len() >= 1"
    ELSE IF \E t \in DOMAIN Terminator(f, s, e).targets :
                Terminator(f, s, e).targets[t] \notin linked \cup {Len(f), Len(f) + 1}
         THEN "target not linked"
    ELSE IF \E j \in BodyOf(f, s, e) : At(f, j).op \in ControlOps THEN "control flow in a block"
    ELSE "none"

\* Mutant of Link: the loop is not reversed.
LinkForward(p) ==
    /\ phase = "link"
    /\ p \in pieces /\ p[1] \notin DOMAIN out
    /\ \A q \in pieces : q[1] \notin DOMAIN out => q[1] >= p[1]
    /\ err' = Fault(func, p[1], p[2], DOMAIN out)
    /\ IF err' = "none"
       THEN /\ out' = [s \in DOMAIN out \cup {p[1]} |->
                        IF s = p[1] THEN BlockAt(func, p[1], p[2]) ELSE out[s]]
            /\ UNCHANGED phase
       ELSE phase' = "panic" /\ UNCHANGED out
    /\ UNCHANGED <<func, i, breaks, consts, todo, last, pieces>>

\* One turn of the loop over `basic_blocks.into_iter().rev()'.
Link(p) ==
    /\ phase = "link"
    /\ p \in pieces /\ p[1] \notin DOMAIN out
    /\ \A q \in pieces : q[1] \notin DOMAIN out => q[1] <= p[1]
    /\ err' = Fault(func, p[1], p[2], DOMAIN out)
    /\ IF err' = "none"
       THEN /\ out' = [s \in DOMAIN out \cup {p[1]} |->
                        IF s = p[1] THEN BlockAt(func, p[1], p[2]) ELSE out[s]]
            /\ UNCHANGED phase
       ELSE phase' = "panic" /\ UNCHANGED out
    /\ UNCHANGED <<func, i, breaks, consts, todo, last, pieces>>

LinkEnd ==
    /\ phase = "link" /\ \A p \in pieces : p[1] \in DOMAIN out
    /\ phase' = "done"
    /\ UNCHANGED <<func, i, breaks, consts, todo, last, pieces, out, err>>

Next ==
    \/ ScanIf \/ ScanConstSkip \/ ScanDynamicSkip \/ ScanOther \/ ScanEnd
    \/ \E br \in todo : CutAt(br)
    \/ CutRest
    \/ \E p \in pieces : Link(p)
    \/ LinkEnd

Spec == Init /\ [][Next]_vars

-----------------------------------------------------------------------------
Phases == {"scan", "cut", "link", "done", "panic"}

\* Types: positions stay in range, a block's start is in the function.
TypeOK ==
    /\ func \in Codes
    /\ phase \in Phases
    /\ i \in 0..Len(func)
    /\ breaks \subseteq Nat \ {0} /\ todo \subseteq breaks
    /\ consts \subseteq 0..Len(func)
    /\ last \in 0..Len(func)
    /\ pieces \subseteq (0..Len(func)) \X (0..Len(func))
    /\ DOMAIN out \subseteq {p[1] : p \in pieces}

\* The assertions create_graph makes about its own work never fail: a target
\* is always linked before the block that goes there, blocks are not empty,
\* and control flow only ends blocks.  The one panic left is the program's:
\* a pick of 0, or a drop_range of more than its start.
NoInternalPanic == err \in {"none", "precondition"}

\* The blocks partition the function and every block is linked.
BlocksPartition ==
    phase = "done" =>
        /\ \A j \in 0..(Len(func) - 1) :
               \E p \in pieces : p[1] <= j /\ j < p[2]
        /\ \A p, q \in pieces : p # q => p[2] <= q[1] \/ q[2] <= p[1]
        /\ DOMAIN out = {p[1] : p \in pieces}

\* The skips the scan takes for constant are the skips the linker makes a
\* jump of: later breaks never separate a skip from its literal.  (The TODO
\* at analysis.rs:211 asks for this.)
LinkAgreesWithScan ==
    \A s \in DOMAIN out :
        LET e == out[s].end
        IN At(func, e - 1).op = "skip" =>
               (e - 1 \in consts <=> out[s].term.kind = "jump")

\* The loops compute the graph in closed form, and panic exactly on the
\* functions that have none.
BuildsGraph ==
    /\ phase = "done" => GraphExists(func) /\ out = GraphOf(func)
    /\ phase = "panic" => ~ GraphExists(func)
=============================================================================
