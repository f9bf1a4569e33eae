---------------------------- MODULE BlockMachine ----------------------------
(***************************************************************************)
(* What the block graph of a function means: the machine that the backend  *)
(* is handed in place of the instructions.  It executes the resolved code  *)
(* of a block and then its terminator, whose targets were computed when    *)
(* the graph was built; literals that were folded away or jumped over are  *)
(* never pushed.                                                           *)
(*                                                                         *)
(* A call is a step to any stack of CalleeStacks.                          *)
(***************************************************************************)
EXTENDS BlockGraph, ClacExec

CONSTANTS Codes, Defined, InitStacks, CalleeStacks

VARIABLES
    func,
    graph,      \* GraphOf(func), by block start
    loc,        \* position of the next instruction or terminator
    st,         \* the stack
    status      \* "run", "returned", or how it ended

vars == <<func, graph, loc, st, status>>

BlockOf(j) == CHOOSE s \in DOMAIN graph : s <= j /\ j < graph[s].end

\* The positions of a block that something happens at.
Locs(s) ==
    DOMAIN graph[s].code
    \cup (IF At(func, graph[s].end - 1).op \in ControlOps THEN {graph[s].end - 1} ELSE {})

FirstOf(S) == CHOOSE x \in S : \A y \in S : x <= y

\* Where a Next leads: into a block, or to Terminate or Trap.
Entry(t) == IF t < Len(func) THEN FirstOf(Locs(t)) ELSE t

\* After an instruction: the next one of the block, or its jump.
After(j) ==
    LET s     == BlockOf(j)
        later == {l \in Locs(s) : l > j}
    IN IF later # {} THEN FirstOf(later) ELSE Entry(graph[s].term.targets[1])

Init ==
    /\ func \in Codes
    /\ graph = GraphOf(func)
    /\ st \in InitStacks
    /\ loc = Entry(0)
    /\ status = "run"

Stop(tag, stack) ==
    /\ status' = tag /\ st' = stack
    /\ UNCHANGED <<func, graph, loc>>

\* Next::Trap is the interpreter's InvalidSkip.
GoTo(l, stack) ==
    IF l > Len(func) THEN Stop("badskip", stack)
    ELSE loc' = l /\ st' = stack /\ UNCHANGED <<func, graph, status>>

Running == status = "run" /\ loc < Len(func)
Block   == graph[BlockOf(loc)]

Body ==
    /\ Running /\ loc \in DOMAIN Block.code
    /\ Block.code[loc].op # "call"
    /\ \E o \in Exec(Block.code[loc], st) :
         IF o.tag = "executed" THEN GoTo(After(loc), o.st) ELSE Stop(o.tag, o.st)

CallBody ==
    /\ Running /\ loc \in DOMAIN Block.code
    /\ Block.code[loc].op = "call" /\ Block.code[loc].f \in Defined
    /\ \E new \in CalleeStacks : GoTo(After(loc), new)

CallUnknown ==
    /\ Running /\ loc \in DOMAIN Block.code
    /\ Block.code[loc].op = "call" /\ Block.code[loc].f \notin Defined
    /\ Stop("unknown", st)

AtTerminator(kind) == Running /\ loc \notin DOMAIN Block.code /\ Block.term.kind = kind

Jump == AtTerminator("jump") /\ GoTo(Entry(Block.term.targets[1]), st)

Branch ==
    /\ AtTerminator("if") \/ AtTerminator("skip")
    /\ IF st = << >> THEN Stop("missing", << >>)
       ELSE LET v    == FromTop(st, 1)
                next == IF Block.term.kind = "if" THEN (IF v # 0 THEN 1 ELSE 2) ELSE v + 1
            IN IF next \in DOMAIN Block.term.targets
               THEN GoTo(Entry(Block.term.targets[next]), Pop(st, 1))
               ELSE Stop("badskip", Pop(st, 1))

Return ==
    /\ status = "run" /\ loc = Len(func)
    /\ Stop("returned", st)

Next == Body \/ CallBody \/ CallUnknown \/ Jump \/ Branch \/ Return

Spec == Init /\ [][Next]_vars
=============================================================================
