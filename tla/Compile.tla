------------------------------ MODULE Compile ------------------------------
(***************************************************************************)
(* Compiler::compile (src/src/jit/jit.rs): from a map of functions to a    *)
(* module with a compiled function and an exported wrapper for each.       *)
(* Around the analysis of Analyze: ids are declared, the calls of every    *)
(* function are bound to ids, the bodies are translated in parallel, then  *)
(* defined, then wrapped.  Maps are iterated in any order.                 *)
(*                                                                         *)
(* The source stops with a todo!() at line 698, between the analysis and   *)
(* the rest; this module is the code on both sides of it.  A signature is  *)
(* only the number of its parameters and results, since a pointer and a    *)
(* Value are the same type; CompiledFunc has the body that is translated.  *)
(***************************************************************************)
EXTENDS Analyze

CONSTANT Imports    \* names of the functions imported for builtins

ASSUME ProgramsAssumption == \A p \in Programs : IsFiniteSet(DOMAIN p)

VARIABLES
    stage,      \* "work", "done", or why it panicked
    declared,   \* id of each function
    refs,       \* ids of the callees of each function
    translated, \* what compile_function made of each
    bodies,     \* id -> defined body
    wrappers    \* `out': the id each exported name calls

compiler == <<stage, declared, refs, translated, bodies, wrappers>>

Names == DOMAIN prog

\* One more entry in a map.
Put(map, key, value) == [k \in DOMAIN map \cup {key} |-> IF k = key THEN value ELSE map[k]]

StackSignature == [params |-> 1, returns |-> 1]

\* What to_cranelift_signature makes of a solved signature: values, not the
\* stack.
Signature(name) ==
    IF name \notin DOMAIN sigs THEN StackSignature
    ELSE [params  |-> sigs[name].reach,
          returns |-> IF sigs[name].never THEN 0 ELSE sigs[name].reach + sigs[name].delta]

-----------------------------------------------------------------------------
CInit ==
    /\ Init
    /\ stage = "work"
    /\ declared = << >> /\ refs = << >> /\ translated = << >>
    /\ bodies = << >> /\ wrappers = << >>

Working == stage = "work"

Panic(why) ==
    /\ stage' = why
    /\ UNCHANGED <<declared, refs, translated, bodies, wrappers>>

\* declare_anonymous_function
Declare(name) ==
    /\ Working /\ name \notin DOMAIN declared
    /\ declared' = Put(declared, name, Cardinality(DOMAIN declared))
    /\ UNCHANGED <<vars, stage, refs, translated, bodies, wrappers>>

Analysis ==
    /\ Working /\ DOMAIN declared = Names
    /\ Next
    /\ IF phase' = "panic" THEN Panic("analysis") ELSE UNCHANGED compiler

\* Mutant of Import: every call, also of a function that does not exist.
ImportAll(name) ==
    /\ Working /\ phase = "done" /\ name \notin DOMAIN refs
    /\ IF CallsIn(prog[name]) \subseteq DOMAIN declared
       THEN /\ refs' = Put(refs, name, [c \in CallsIn(prog[name]) |-> declared[c]])
            /\ UNCHANGED <<stage, declared, translated, bodies, wrappers>>
       ELSE Panic("lookup")
    /\ UNCHANGED vars

\* "callees should only have valid callees"
Import(name) ==
    /\ Working /\ phase = "done" /\ name \notin DOMAIN refs
    /\ IF Callees(prog, name) \subseteq DOMAIN declared
       THEN /\ refs' = Put(refs, name, [c \in Callees(prog, name) |-> declared[c]])
            /\ UNCHANGED <<stage, declared, translated, bodies, wrappers>>
       ELSE Panic("lookup")
    /\ UNCHANGED vars

\* compile_block of a call: a name without an id traps, else its reference must
\* have been imported.
Bound(name) == (CallsIn(prog[name]) \cap DOMAIN declared) \subseteq DOMAIN refs[name]

\* A task of the parallel iterator.  compile_function takes the stack from the
\* first parameter and returns it; anything else is an index out of bounds or
\* an error of the verifier, and unwrapped.
Translate(name) ==
    /\ Working /\ DOMAIN refs = Names /\ phase = "done" /\ name \notin DOMAIN translated
    /\ LET sig == Signature(name)
       IN IF name \notin analyzed \/ ~ Bound(name) THEN Panic("lookup")
          ELSE IF sig.returns < 0 THEN Panic("theorem")
          ELSE IF sig.params = 0 \/ sig.returns # 1 THEN Panic("signature")
          ELSE /\ translated' = Put(translated, name,
                    [code |-> prog[name], calls |-> refs[name], sig |-> sig])
               /\ UNCHANGED <<stage, declared, refs, bodies, wrappers>>
    /\ UNCHANGED vars

\* Mutant of Define: bodies go to ids in the order they come.
DefineNext(name) ==
    /\ Working /\ phase = "done" /\ DOMAIN translated = Names /\ declared[name] \notin DOMAIN bodies
    /\ bodies' = Put(bodies, Cardinality(DOMAIN bodies), translated[name])
    /\ UNCHANGED <<vars, stage, declared, refs, translated, wrappers>>

\* define_function_bytes
Define(name) ==
    /\ Working /\ phase = "done" /\ DOMAIN translated = Names
    /\ declared[name] \notin DOMAIN bodies
    /\ bodies' = Put(bodies, declared[name], translated[name])
    /\ UNCHANGED <<vars, stage, declared, refs, translated, wrappers>>

\* define_wrapper: exported under the function's name, which an import with
\* another signature may have.
DefineWrapper(name) ==
    /\ Working /\ phase = "done" /\ DOMAIN bodies = {declared[g] : g \in Names}
    /\ name \notin DOMAIN wrappers
    /\ IF name \in Imports THEN Panic("name")
       ELSE /\ wrappers' = Put(wrappers, name, declared[name])
            /\ UNCHANGED <<stage, declared, refs, translated, bodies>>
    /\ UNCHANGED vars

Deliver ==
    /\ Working /\ phase = "done" /\ DOMAIN wrappers = Names
    /\ stage' = "done"
    /\ UNCHANGED <<vars, declared, refs, translated, bodies, wrappers>>

CNext ==
    \/ \E name \in Names :
         Declare(name) \/ Import(name) \/ Translate(name) \/ Define(name) \/ DefineWrapper(name)
    \/ Analysis \/ Deliver

\* The compiler just runs: every loop and task is taken up until none is left.
CSpec == CInit /\ [][CNext]_<<vars, compiler>> /\ WF_<<vars, compiler>>(CNext)

-----------------------------------------------------------------------------
\* Types.
CTypeOK ==
    /\ TypeOK
    /\ stage \in {"work", "done", "analysis", "lookup", "theorem", "signature", "name"}
    /\ DOMAIN declared \subseteq Names
    /\ IsInjective(declared)
    /\ \A name \in DOMAIN refs : refs[name] \in [Callees(prog, name) -> 0..(Cardinality(Names) - 1)]
    /\ DOMAIN wrappers \subseteq Names

\* None of compile's own lookups fails (the expect at jit.rs:719 and the
\* unwraps at :750 and :766), whatever could not be analyzed, whoever calls a
\* function that does not exist, in any order of the maps and tasks.
NoLookupFails == stage # "lookup"

\* The module is what Compiled of TopLevel takes it for: under each name the
\* compiled code of that function, its calls bound to the functions of the
\* same map by name.
Delivered ==
    stage = "done" =>
        \A name \in Names :
            LET body == bodies[wrappers[name]]
            IN /\ body.code = prog[name]
               /\ \A c \in Callees(prog, name) : bodies[body.calls[c]].code = prog[c]

\* The compiler ends, one way or the other.
Ends == <>(stage # "work")

\* "every function is fn(*mut ClacStack) -> *mut ClacStack" (jit.rs:111).
EveryFunctionTakesTheStack ==
    \A id \in DOMAIN bodies : bodies[id].sig = StackSignature
=============================================================================
