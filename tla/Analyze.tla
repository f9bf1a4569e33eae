------------------------------ MODULE Analyze ------------------------------
(***************************************************************************)
(* analyze (src/src/jit/analysis.rs) on the call graph that compile        *)
(* (src/src/jit/jit.rs) builds: the strongly connected components are      *)
(* taken callees first; each component gives a system of equations over    *)
(* the deltas and reaches of its functions, and a solution gives their     *)
(* signatures.                                                             *)
(*                                                                         *)
(* The Z3 solver is external.  Its terms are linear in its variables: a    *)
(* delta and a reach for each function of the component, and fresh         *)
(* constants.  The constant for the effect of a never-typed instruction is *)
(* named by its position.  The constant for the delta of an edge that      *)
(* traps occurs in one equation, which it can always satisfy; so such an   *)
(* edge constrains nothing, and only a block all of whose edges trap takes *)
(* its delta from a constant, named by the position of its terminator.     *)
(* The solver may return any satisfying assignment with numbers in Small   *)
(* and reaches in Reaches.                                                 *)
(***************************************************************************)
EXTENDS BlockGraph, FiniteSets, FiniteSetsExt, Functions

CONSTANTS
    Programs,   \* FuncMaps to analyse: functions from names to code
    Small,      \* the solver's numbers ...
    Reaches,    \* ... and its reaches
    Probe       \* distance of the second solution solve_sig asks for (67)

ASSUME SolverAssumption == Small \subseteq Int /\ Reaches \subseteq Nat /\ Probe \in Nat \ {0}

VARIABLES
    prog,       \* the functions
    graphs,     \* their block graphs (see FuncGraph)
    phase,      \* "sort", "solve", "panic" or "done"
    analyzed,   \* names of the components taken
    system,     \* terms of the functions of the component being solved
    sigs,       \* `signatures': the functions resolved so far
    paths       \* delta from each block to the end, in the solution (history)

vars == <<prog, graphs, phase, analyzed, system, sigs, paths>>

\* Both maps, which have no key in common.
With(map, new) ==
    [k \in DOMAIN map \cup DOMAIN new |-> IF k \in DOMAIN map THEN map[k] ELSE new[k]]

-----------------------------------------------------------------------------
(* The call graph.                                                         *)

CallsIn(f) == {f[j].f : j \in {k \in DOMAIN f : f[k].op = "call"}}

\* get_callees, restricted to the functions that exist.
Callees(p, name) == CallsIn(p[name]) \cap DOMAIN p

\* Functions consist of what tokens become.
ASSUME CodeAssumption ==
    \A p \in Programs : \A name \in DOMAIN p :
        p[name] \in Seq(ParsedInstr(CallsIn(p[name]), Int))

\* Who is called from name in at most n calls.
CalledFrom(p, name) ==
    LET called[n \in 0..Cardinality(DOMAIN p)] ==
            IF n = 0 THEN {name}
            ELSE called[n - 1] \cup UNION {Callees(p, g) : g \in called[n - 1]}
    IN called[Cardinality(DOMAIN p)]

\* The component of name: the node condensation puts it in.
Component(p, name) == {g \in CalledFrom(p, name) : name \in CalledFrom(p, g)}

\* Whether a function of component C calls one.
Recursive(p, C) == \E g \in C : Callees(p, g) \cap C # {}

-----------------------------------------------------------------------------
(* Terms.  A delta is a linear term over the solver's variables: a function *)
(* from the variables that occur in it to their coefficients.  A reach is a *)
(* maximum of such terms: the set of them.                                 *)

One          == <<"one">>               \* the variable that is always 1
DeltaOf(f)   == <<"delta", f>>
ReachOf(f)   == <<"reach", f>>
Anything(f, j) == <<"anything", f, j>>  \* the fresh constant at position j

Const(n) == [v \in {One} |-> n]
Var(v)   == [w \in {v} |-> 1]

Coef(t, v)  == IF v \in DOMAIN t THEN t[v] ELSE 0
Plus(t, u)  == [v \in DOMAIN t \cup DOMAIN u |-> Coef(t, v) + Coef(u, v)]

\* Mutant of Minus: the operands swapped.
MinusFrom(t, u) == [v \in DOMAIN t \cup DOMAIN u |-> Coef(u, v) - Coef(t, v)]

Minus(t, u) == [v \in DOMAIN t \cup DOMAIN u |-> Coef(t, v) - Coef(u, v)]

\* Values under an assignment.
Value(t, asg)    == MapThenSumSet(LAMBDA v : t[v] * asg[v], DOMAIN t)

\* Mutant of MaxValue: the comparison of `max' reversed.
MinValue(T, asg) == Min({Value(t, asg) : t \in T})

MaxValue(T, asg) == Max({Value(t, asg) : t \in T})

-----------------------------------------------------------------------------
(* Signatures of blocks and of paths.                                      *)

\* Blocks on a path from the entry.
ReachableBlocks(g) ==
    LET reachable[n \in 0..Cardinality(DOMAIN g)] ==
            IF n = 0 THEN {0} \cap DOMAIN g
            ELSE reachable[n - 1] \cup
                 {t \in DOMAIN g : \E s \in reachable[n - 1] :
                     \E x \in DOMAIN g[s].term.targets : g[s].term.targets[x] = t}
    IN reachable[Cardinality(DOMAIN g)]

\* The instructions of block s of a function, by position.
CodeOf(name, s) ==
    LET f == prog[name]
    IN [j \in Kept(f, s, graphs[name][s].end) |-> Resolved(f, s, j)]

\* get_delta_and_reach of an instruction (BlockSig has its loop).
DeltaTerm(name, j, x) ==
    CASE Delta(x, sigs).tag = "ok"         -> Const(Delta(x, sigs).val)
      [] Delta(x, sigs).tag = "anything"   -> Var(Anything(name, j))
      [] Delta(x, sigs).tag = "unresolved" -> Var(DeltaOf(x.f))

ReachTerm(x) ==
    IF Reach(x, sigs).tag = "ok" THEN Const(Reach(x, sigs).val) ELSE Var(ReachOf(x.f))

\* ... and of the block.
BlockTerms(name, s) ==
    LET code == CodeOf(name, s)
        depth[j \in s..graphs[name][s].end] ==
            IF j = s THEN Const(0)
            ELSE IF j - 1 \in DOMAIN code
                 THEN Plus(depth[j - 1], DeltaTerm(name, j - 1, code[j - 1]))
                 ELSE depth[j - 1]
    IN [delta |-> depth[graphs[name][s].end],
        reach |-> {Const(0)} \cup {Minus(ReachTerm(code[j]), depth[j]) : j \in DOMAIN code}]

\* The edges of a block that do not trap.
Onward(name, s) ==
    LET term == graphs[name][s].term
    IN {x \in DOMAIN term.targets : term.targets[x] <= Len(prog[name])}

(***************************************************************************)
(* build_path_signatures_starting_from_here: delta and reach of the paths  *)
(* from a block to the function's end, and the terms that are zero when    *)
(* the edges agree as the assertions demand.                               *)
(***************************************************************************)
PathTerms(name) ==
    LET end  == Len(prog[name])
        path[s \in ReachableBlocks(graphs[name])] ==
            LET own     == BlockTerms(name, s)
                edge(x) == graphs[name][s].term.targets[x]
                delta(x) == IF edge(x) = end THEN own.delta
                            ELSE Plus(own.delta, path[edge(x)].delta)
                beyond  == UNION {path[edge(x)].reach :
                                    x \in {y \in Onward(name, s) : edge(y) < end}}
            IN [delta |-> IF Onward(name, s) = {}
                          THEN Var(Anything(name, graphs[name][s].end - 1))
                          ELSE delta(Min(Onward(name, s))),
                reach |-> own.reach \cup {Minus(t, own.delta) : t \in beyond},
                zero  |-> {Minus(delta(x), delta(Min(Onward(name, s)))) : x \in Onward(name, s)}]
    IN path

\* Mutant of FuncDelta: the last block's delta.
LastDelta(path) == IF DOMAIN path = {} THEN Const(0) ELSE path[Max(DOMAIN path)].delta

\* A function's own signature is that of the paths from its first block; the
\* empty function has delta and reach 0.
FuncDelta(path) == IF DOMAIN path = {} THEN Const(0) ELSE path[0].delta
FuncReach(path) == IF DOMAIN path = {} THEN {Const(0)} ELSE path[0].reach

-----------------------------------------------------------------------------
(* The solver on the component scc.  Deltas do not depend on reaches.      *)

Terms(sys) ==
    UNION {UNION {{sys[f][s].delta} \cup sys[f][s].reach : s \in DOMAIN sys[f]} : f \in DOMAIN sys}

VarsOf(sys, kinds) == {v \in UNION {DOMAIN t : t \in Terms(sys)} : v[1] \in kinds}

\* Mutant of DeltaSolutions: the edges' assertions never reach the solver.
DeltaSolutionsUnasserted(sys, Nums) ==
    {asg \in {With(Const(1), d) : d \in [VarsOf(sys, {"delta", "anything"}) -> Nums]} :
        \A f \in DOMAIN sys :
            DeltaOf(f) \in DOMAIN asg => asg[DeltaOf(f)] = Value(FuncDelta(sys[f]), asg)}

\* Assignments of numbers from Nums that satisfy the equations about deltas.
DeltaSolutions(sys, Nums) ==
    {asg \in {With(Const(1), d) : d \in [VarsOf(sys, {"delta", "anything"}) -> Nums]} :
        \A f \in DOMAIN sys :
            /\ \A s \in DOMAIN sys[f] : \A t \in sys[f][s].zero : Value(t, asg) = 0
            /\ DeltaOf(f) \in DOMAIN asg => asg[DeltaOf(f)] = Value(FuncDelta(sys[f]), asg)}

\* Those that extend asg to the reaches.
ReachSolutions(sys, asg) ==
    {all \in {With(asg, r) : r \in [VarsOf(sys, {"reach"}) -> Reaches]} :
        \A f \in DOMAIN sys :
            ReachOf(f) \in DOMAIN all => all[ReachOf(f)] = MaxValue(FuncReach(sys[f]), all)}

Solutions(sys, Nums) ==
    UNION {ReachSolutions(sys, asg) : asg \in DeltaSolutions(sys, Nums)}

-----------------------------------------------------------------------------
Init ==
    /\ prog \in Programs
    /\ graphs = [name \in DOMAIN prog |-> GraphOf(prog[name])]
    /\ phase = "sort"
    /\ analyzed = {} /\ system = << >> /\ sigs = << >> /\ paths = << >>

\* Any order that takes callees first is a topological sort.
Ready(C) ==
    /\ phase = "sort" /\ C \cap analyzed = {}
    /\ \A name \in C : Callees(prog, name) \subseteq C \cup analyzed

Graphs(C) == \A name \in C : GraphExists(prog[name])

\* Mutant of Determinable: a callee without a signature is left to the solver.
DeterminableAlone(C) ==
    \A name \in C : \A s \in ReachableBlocks(graphs[name]) :
        \A j \in DOMAIN CodeOf(name, s) :
            Reach(CodeOf(name, s)[j], sigs).tag # "notdeterminable"

\* Every block on a path from the entry has a signature.
Determinable(C) ==
    \A name \in C : \A s \in ReachableBlocks(graphs[name]) :
        \A j \in DOMAIN CodeOf(name, s) :
             LET x == CodeOf(name, s)[j]
             IN /\ Reach(x, sigs).tag # "notdeterminable"
                /\ Delta(x, sigs).tag # "notdeterminable"
                /\ Reach(x, sigs).tag = "unresolved" => x.f \in C

\* An assertion in resolve_drops_and_picks fails.
PanicOn(C) ==
    /\ Ready(C) /\ ~ Graphs(C)
    /\ phase' = "panic"
    /\ UNCHANGED <<prog, graphs, analyzed, system, sigs, paths>>

\* Mutant of Abandon: the component is taken again.
AbandonAgain(C) ==
    /\ Ready(C) /\ Graphs(C) /\ ~ Determinable(C)
    /\ UNCHANGED vars

\* "ANALYSIS FAILED. Abandoning SCC"
Abandon(C) ==
    /\ Ready(C) /\ Graphs(C) /\ ~ Determinable(C)
    /\ analyzed' = analyzed \cup C
    /\ UNCHANGED <<prog, graphs, phase, system, sigs, paths>>

\* create_graph and build_function_constraints on the whole component.
Build(C) ==
    /\ Ready(C) /\ Graphs(C) /\ Determinable(C)
    /\ phase' = "solve"
    /\ system' = [name \in C |-> PathTerms(name)]
    /\ analyzed' = analyzed \cup C
    /\ UNCHANGED <<prog, graphs, sigs, paths>>

\* "z3 COULD NOT SOLVE SCC"
Unsat ==
    /\ phase = "solve"
    /\ Solutions(system, Small) = {}
    /\ phase' = "sort" /\ system' = << >>
    /\ UNCHANGED <<prog, graphs, analyzed, sigs, paths>>

\* Mutants of Unbounded: the solution itself satisfies the probe; no probe.
UnboundedSame(name, d) ==
    \E asg \in DeltaSolutions(system, Small) : Value(FuncDelta(system[name]), asg) = d

NeverUnbounded(name, d) == FALSE

\* solve_sig: a delta that Probe more solves as well is no delta at all.
Unbounded(name, d) ==
    \E asg \in DeltaSolutions(system, Small \cup {n + Probe : n \in Small}) :
        /\ Value(FuncDelta(system[name]), asg) = d + Probe
        /\ ReachSolutions(system, asg) # {}

SolvedSig(name, asg) ==
    LET d == Value(FuncDelta(system[name]), asg)
    IN [never |-> Unbounded(name, d),
        delta |-> IF Unbounded(name, d) THEN 0 ELSE d,
        reach |-> MaxValue(FuncReach(system[name]), asg)]

Solve ==
    /\ phase = "solve"
    /\ \E asg \in Solutions(system, Small) :
         /\ sigs' = With(sigs, [name \in DOMAIN system |-> SolvedSig(name, asg)])
         /\ paths' = With(paths, [name \in DOMAIN system |->
                [s \in DOMAIN system[name] |-> Value(system[name][s].delta, asg)]])
    /\ phase' = "sort" /\ system' = << >>
    /\ UNCHANGED <<prog, graphs, analyzed>>

Finish ==
    /\ phase = "sort" /\ analyzed = DOMAIN prog
    /\ phase' = "done"
    /\ UNCHANGED <<prog, graphs, analyzed, system, sigs, paths>>

Next ==
    \/ \E name \in DOMAIN prog :
         LET C == Component(prog, name)
         IN PanicOn(C) \/ Abandon(C) \/ Build(C)
    \/ Unsat \/ Solve \/ Finish

Spec == Init /\ [][Next]_vars

-----------------------------------------------------------------------------
\* Types.
TypeOK ==
    /\ prog \in Programs
    /\ phase \in {"sort", "solve", "panic", "done"}
    /\ analyzed \subseteq DOMAIN prog
    /\ DOMAIN sigs \subseteq analyzed
    /\ \A name \in DOMAIN sigs : sigs[name] \in Sig
    /\ DOMAIN paths = DOMAIN sigs

\* Block s runs no quit, no undefined function and only calls of ret.
Passes(name, s, ret) ==
    \A j \in DOMAIN CodeOf(name, s) :
        LET x == CodeOf(name, s)[j]
        IN x.op # "quit" /\ (x.op = "call" => x.f \in ret)

\* Functions with a path from their entry to their end on which every block
\* passes, where calls are of such functions.
Returning ==
    LET ends(name, ret) ==
            LET g == graphs[name]
                leaves[s \in DOMAIN g] ==
                    /\ Passes(name, s, ret)
                    /\ \E x \in Onward(name, s) :
                         LET t == g[s].term.targets[x]
                         IN t = Len(prog[name]) \/ leaves[t]
            IN DOMAIN g = {} \/ leaves[0]
        returning[n \in 0..Cardinality(DOMAIN prog)] ==
            IF n = 0 THEN {}
            ELSE {name \in DOMAIN prog : ends(name, returning[n - 1])}
    IN returning[Cardinality(DOMAIN prog)]

\* The Clac++ theorem, "total delta >= -(peak reach)" (types.rs:162), of every
\* solved function that can return: its compiled signature has reach
\* parameters and reach + delta results, which must not be negative.
ClacTheorem ==
    phase = "done" =>
        \A name \in DOMAIN sigs \cap Returning :
            sigs[name].delta >= - sigs[name].reach

\* delta = None says that the function never returns, and it does not: the
\* probe for a second solution takes no function that returns for one that
\* does not.
NeverIsRight ==
    phase = "done" =>
        \A name \in DOMAIN sigs : sigs[name].never => name \notin Returning

\* No block of name is reached both from code that runs, when the functions
\* ret return, and from code behind a block that does not pass.
Separated(name, ret) ==
    LET g == graphs[name]
        onPath == ReachableBlocks(g)
        passing == {s \in onPath : Passes(name, s, ret)}
        edges == UNION {{<<s, g[s].term.targets[x]>> : x \in Onward(name, s)} : s \in onPath}
    IN \E runs \in SUBSET onPath :
          /\ 0 \in runs
          /\ \A e \in edges : e[2] \in runs <=> e[1] \in runs \cap passing

\* A function that cannot return and is not found out is, or calls, one that
\* cannot return and has recursion or code behind a quit that leads back into
\* code that runs: the equation of such an edge can fix the delta of both.
NeverIsFound ==
    phase = "done" =>
        LET ret == Returning
        IN \A name \in DOMAIN sigs \ ret :
              \/ sigs[name].never
              \/ \E g \in CalledFrom(prog, name) \ ret :
                    Recursive(prog, Component(prog, g)) \/ ~ Separated(g, ret)

\* Abandoning a function abandons its callers: nothing is solved on top of a
\* function without a signature.
SolvedCallsSolved ==
    \A name \in DOMAIN sigs : \A s \in ReachableBlocks(graphs[name]) :
        \A j \in DOMAIN CodeOf(name, s) :
            LET x == CodeOf(name, s)[j]
            IN x.op = "call" => x.f \in DOMAIN sigs

\* What types.rs:162 says of every function that has a delta.  It fails for
\* recursion that never ends: see the README.
ClacTheoremEverywhere ==
    \A name \in DOMAIN sigs :
        ~ sigs[name].never => sigs[name].delta >= - sigs[name].reach
=============================================================================
