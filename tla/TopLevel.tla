------------------------------ MODULE TopLevel ------------------------------
(***************************************************************************)
(* A session (src/src/lib.rs): lines of tokens are executed one after the  *)
(* other by execute_tokens.  A line may define functions, which are        *)
(* compiled only when the next identifier is executed, and may fail in the *)
(* middle.  One action per arm of the loop.                                *)
(*                                                                         *)
(* A token is an instruction (see ClacInstr), or [op |-> ":"], or          *)
(* [op |-> ";"].  An identifier that is no builtin is a call, and so is    *)
(* the name after a ":"; BuiltinOps are the builtin identifiers.           *)
(*                                                                         *)
(* Compiler::compile is one step here (Compiled): it returns a map from    *)
(* every name to its compiled function, which remembers the code it was    *)
(* compiled from and the functions its calls were bound to, or it panics.  *)
(* In the present source it always panics (the todo!() at jit.rs:698);     *)
(* CompileOutcomes says which ends to consider.  Compile takes compile     *)
(* apart, and Compile!Delivered is what justifies Compiled for its         *)
(* intended end.                                                           *)
(***************************************************************************)
EXTENDS ClacExec

CONSTANTS
    Names,              \* identifiers that are no builtins
    Lines,              \* lines a user may enter
    MaxLines,           \* bound on their number
    CompileOutcomes,    \* a subset of {"done", "panic"}
    CalleeStacks        \* stacks a compiled function may leave

SyntaxOps == {":", ";"}

\* What may stand in a definition, and in a line (Token).
Code  == ParsedInstr(Names, Int)
Token == Code \cup [op : SyntaxOps]

ASSUME LinesAssumption == Lines \subseteq Seq(Token)
ASSUME MaxLinesAssumption == MaxLines \in Nat
ASSUME CompileAssumption == CompileOutcomes \subseteq {"done", "panic"}
ASSUME CalleeStacksAssumption == CalleeStacks \subseteq Seq(Int)

VARIABLES
    funcmap,            \* functions handed to the compiler
    undefined_functions,\* functions defined since: <<name, code>>, in order
    jit,                \* the compiled functions; NoJit before the first
    stack,
    line,               \* rest of the line
    cur_func,           \* << >>, or <<name, code so far>>
    status,             \* "idle", "running", "panic" or "exit"
    outcome,            \* Ok or the ExecError of the last line
    entered,            \* the lines so far (history)
    latest,             \* the last completed definition of each name (history)
    called              \* the last call: << >> or <<name, its code>> (history)

vars == <<funcmap, undefined_functions, jit, stack, line, cur_func, status,
          outcome, entered, latest, called>>

machine == <<funcmap, undefined_functions, jit, stack>>

BuiltinOps == {"arith", "read", "write", "write8", "width", "syscall", "droprange"}

IsIdentifier(tok) == tok.op = "call" \/ tok.op \in BuiltinOps
IsSyntax(tok)     == tok.op \in SyntaxOps

\* The name after a ":".  A builtin's name can be given to a function; no
\* token becomes a call of it.
NameOf(tok) == IF tok.op = "call" THEN tok.f ELSE tok.op

NoJit == [on |-> FALSE, map |-> << >>]

\* What compile returns for map, the calls bound to the functions of all.
Compiled(map, all) == [f \in DOMAIN map |-> [code |-> map[f], bound |-> all]]

\* HashMap::insert of one definition.
Insert(map, def) ==
    [f \in DOMAIN map \cup {def[1]} |-> IF f = def[1] THEN def[2] ELSE map[f]]

\* A fold as a recursive function, which can be reasoned about.
InsertAll(map, defs) ==
    LET after[n \in 0..Len(defs)] ==
            IF n = 0 THEN map ELSE Insert(after[n - 1], defs[n])
    IN after[Len(defs)]

-----------------------------------------------------------------------------
Init ==
    /\ funcmap = << >> /\ undefined_functions = << >> /\ jit = NoJit /\ stack = << >>
    /\ line = << >> /\ cur_func = << >>
    /\ status = "idle" /\ outcome = "ok"
    /\ entered = << >> /\ latest = << >> /\ called = << >>

\* The caller may go on after an error (the REPL and the CLI exit).
EnterLine ==
    /\ status = "idle" /\ Len(entered) < MaxLines
    /\ \E new \in Lines : line' = new /\ entered' = Append(entered, new)
    /\ status' = "running" /\ cur_func' = << >>
    /\ UNCHANGED <<machine, outcome, latest, called>>

Running == status = "running"

Tok == line[1]

Fails(error) == status' = "idle" /\ outcome' = error /\ line' = << >> /\ cur_func' = << >>

NameFollows == Tok.op = ":" /\ Len(line) > 1 /\ IsIdentifier(line[2])

StartDefinition ==
    /\ Running /\ line # << >> /\ cur_func = << >> /\ NameFollows
    /\ cur_func' = <<NameOf(line[2]), << >>>>
    /\ line' = Tail(Tail(line))
    /\ UNCHANGED <<machine, status, outcome, entered, latest, called>>

EndDefinition ==
    /\ Running /\ line # << >> /\ cur_func # << >> /\ Tok.op = ";"
    /\ undefined_functions' = Append(undefined_functions, cur_func)
    /\ latest' = Insert(latest, cur_func)
    /\ cur_func' = << >>
    /\ line' = Tail(line)
    /\ UNCHANGED <<funcmap, jit, stack, status, outcome, entered, called>>

\* Mutant of AddInstruction: this arm before the one for syntax.
AddAnything ==
    /\ Running /\ line # << >> /\ cur_func # << >> /\ Tok.op # ";"
    /\ cur_func' = <<cur_func[1], Append(cur_func[2], Tok)>>
    /\ line' = Tail(line)
    /\ UNCHANGED <<machine, status, outcome, entered, latest, called>>

AddInstruction ==
    /\ Running /\ line # << >> /\ cur_func # << >> /\ ~ IsSyntax(Tok)
    /\ cur_func' = <<cur_func[1], Append(cur_func[2], Tok)>>
    /\ line' = Tail(line)
    /\ UNCHANGED <<machine, status, outcome, entered, latest, called>>

\* Two arms: a ":" or ";" that does not fit, and the end of the line.
BadDefinition ==
    /\ Running
    /\ IF line = << >> THEN cur_func # << >>
       ELSE \/ Tok.op = ":" /\ (cur_func # << >> \/ ~ NameFollows)
            \/ Tok.op = ";" /\ cur_func = << >>
    /\ Fails("baddefinition")
    /\ UNCHANGED <<machine, entered, latest, called>>

\* Mutant of EndLine: an open definition is forgotten in silence.
EndLineOpen ==
    /\ Running /\ line = << >>
    /\ status' = "idle" /\ outcome' = "ok" /\ cur_func' = << >>
    /\ UNCHANGED <<machine, line, entered, latest, called>>

EndLine ==
    /\ Running /\ line = << >> /\ cur_func = << >>
    /\ status' = "idle" /\ outcome' = "ok"
    /\ UNCHANGED <<machine, line, cur_func, entered, latest, called>>

AtTopLevel == Running /\ line # << >> /\ cur_func = << >> /\ ~ IsSyntax(Tok)

\* Mutant of Stale: compiled at most once.
StaleOnce == IsIdentifier(Tok) /\ undefined_functions # << >> /\ ~ jit.on

Stale == IsIdentifier(Tok) /\ undefined_functions # << >>

\* Mutants of Recompile: the old functions lost, or not compiled again.
RecompileForgetting ==
    /\ AtTopLevel /\ Stale
    /\ funcmap' = InsertAll(<< >>, undefined_functions)
    /\ undefined_functions' = << >>
    /\ jit' = [on |-> TRUE, map |-> Compiled(funcmap', funcmap')]
    /\ UNCHANGED <<stack, line, cur_func, status, outcome, entered, latest, called>>

RecompileNew ==
    /\ AtTopLevel /\ Stale
    /\ funcmap' = InsertAll(funcmap, undefined_functions)
    /\ undefined_functions' = << >>
    /\ LET new == Compiled(InsertAll(<< >>, undefined_functions), funcmap')
       IN jit' = [on |-> TRUE,
                  map |-> [f \in DOMAIN funcmap' |->
                             IF f \in DOMAIN new THEN new[f] ELSE jit.map[f]]]
    /\ UNCHANGED <<stack, line, cur_func, status, outcome, entered, latest, called>>

\* reset_module_and_recompile_all, before an identifier is executed.
Recompile ==
    /\ AtTopLevel /\ Stale
    /\ funcmap' = InsertAll(funcmap, undefined_functions)
    /\ undefined_functions' = << >>
    /\ \/ /\ "done" \in CompileOutcomes
          /\ jit' = [on |-> TRUE, map |-> Compiled(funcmap', funcmap')]
          /\ UNCHANGED status
       \/ /\ "panic" \in CompileOutcomes
          /\ status' = "panic"
          /\ UNCHANGED jit
    /\ UNCHANGED <<stack, line, cur_func, outcome, entered, latest, called>>

\* A wild instruction goes unnoticed; nothing is modelled after it.
ExecuteInstr ==
    /\ AtTopLevel /\ ~ Stale /\ Tok.op # "call"
    /\ \E o \in Exec(Tok, stack) :
         /\ stack' = o.st
         /\ \/ /\ o.tag = "executed"
               /\ line' = Tail(line)
               /\ UNCHANGED <<status, outcome, cur_func>>
            \/ /\ o.tag = "skip" /\ o.n <= Len(line) - 1
               /\ line' = SubSeq(line, o.n + 2, Len(line))
               /\ UNCHANGED <<status, outcome, cur_func>>
            \/ o.tag = "skip" /\ o.n > Len(line) - 1 /\ Fails("badskip")
            \/ /\ o.tag \in {"panic", "wild"}
               /\ status' = "panic"
               /\ UNCHANGED <<line, outcome, cur_func>>
            \/ o.tag \notin {"executed", "skip", "panic", "wild"} /\ Fails(o.tag)
    /\ UNCHANGED <<funcmap, undefined_functions, jit, entered, latest, called>>

\* A call in the JIT code may not return: it exits or traps.
CallCompiled ==
    /\ AtTopLevel /\ ~ Stale /\ Tok.op = "call" /\ jit.on
    /\ Tok.f \in DOMAIN jit.map
    /\ called' = <<Tok.f, jit.map[Tok.f].code>>
    /\ \/ stack' \in CalleeStacks /\ line' = Tail(line) /\ UNCHANGED status
       \/ status' = "exit" /\ UNCHANGED <<stack, line>>
    /\ UNCHANGED <<funcmap, undefined_functions, jit, cur_func, outcome, entered, latest>>

CallUnknown ==
    /\ AtTopLevel /\ ~ Stale /\ Tok.op = "call" /\ jit.on
    /\ Tok.f \notin DOMAIN jit.map
    /\ Fails("unknown")
    /\ UNCHANGED <<machine, entered, latest, called>>

\* panic!("No JIT")
CallWithoutJit ==
    /\ AtTopLevel /\ ~ Stale /\ Tok.op = "call" /\ ~ jit.on
    /\ status' = "panic"
    /\ UNCHANGED <<machine, line, cur_func, outcome, entered, latest, called>>

Next ==
    \/ EnterLine
    \/ StartDefinition \/ EndDefinition \/ AddInstruction \/ BadDefinition \/ EndLine
    \/ Recompile \/ ExecuteInstr
    \/ CallCompiled \/ CallUnknown \/ CallWithoutJit

Spec == Init /\ [][Next]_vars

-----------------------------------------------------------------------------
(***************************************************************************)
(* extract_functions: what ahead-of-time compilation makes of the tokens.  *)
(* The state of its loop: the rest of the line, the open definition, the   *)
(* functions, and how it ended.                                            *)
(***************************************************************************)
Extracting(rest, cur, funcs, end) == [rest |-> rest, cur |-> cur, funcs |-> funcs, end |-> end]

ExtractionStep(s) ==
    LET open    == s.cur # << >>
        tok     == s.rest[1]
        rest    == Tail(s.rest)
        Ends(e) == Extracting(s.rest, s.cur, s.funcs, e)
    IN CASE s.end # "no" -> s
         [] s.end = "no" /\ s.rest = << >> -> Ends(IF open THEN "baddefinition" ELSE "ok")
         [] s.end = "no" /\ s.rest # << >> ->
               CASE tok.op = ":" /\ ~ open /\ rest # << >> /\ IsIdentifier(rest[1]) ->
                       Extracting(Tail(rest), <<NameOf(rest[1]), << >>>>, s.funcs, "no")
                 [] tok.op = ";" /\ open ->
                       Extracting(rest, << >>, Insert(s.funcs, s.cur), "no")
                 [] ~ IsSyntax(tok) /\ open ->
                       Extracting(rest, <<s.cur[1], Append(s.cur[2], tok)>>, s.funcs, "no")
                 [] ~ IsSyntax(tok) /\ ~ open -> Ends("toplevel")
                 [] OTHER -> Ends("baddefinition")

\* The states of the loop; it ends within Len(toks) + 1 of its steps.
Extraction(toks) ==
    LET state[n \in 0..(Len(toks) + 1)] ==
            IF n = 0 THEN Extracting(toks, << >>, << >>, "no")
            ELSE ExtractionStep(state[n - 1])
    IN state

Extracted(toks) == Extraction(toks)[Len(toks) + 1]

-----------------------------------------------------------------------------
\* Types.
TypeOK ==
    /\ \A map \in {funcmap, latest} : \A f \in DOMAIN map : \A i \in DOMAIN map[f] :
         ~ IsSyntax(map[f][i])
    /\ stack \in Seq(Int)
    /\ status \in {"idle", "running", "panic", "exit"}
    /\ Len(entered) <= MaxLines

\* No definition is lost or resurrected, whatever fails around it: funcmap and
\* the functions still to be compiled are together the latest definitions.
DefinitionsKept == InsertAll(funcmap, undefined_functions) = latest

\* Compiled code is never older than the definitions the compiler was given:
\* when nothing waits, every function is compiled from its latest definition,
\* and bound to the latest definitions, also if only a callee was redefined.
JitCurrent ==
    undefined_functions = << >> /\ status # "panic" => jit.map = Compiled(latest, latest)

\* Every call at the top level runs the definition that is the latest at that
\* moment, also when it was made or replaced earlier in the same line, and when
\* the last call ran an older definition of the same name.
CallsLatest ==
    [][CallCompiled =>
         Tok.f \in DOMAIN latest /\ called' = <<Tok.f, latest[Tok.f]>>]_vars

\* A function that has been defined is not reported unknown.
UnknownIsUndefined ==
    [][CallUnknown \/ CallWithoutJit => Tok.f \notin DOMAIN latest]_vars

\* The two parsers agree: a line of definitions that ahead-of-time compilation
\* accepts defines the same functions when it is entered, and one it calls
\* bad fails, with the definitions before the fault.
AotAgrees ==
    status = "idle" /\ Len(entered) = 1 =>
        LET aot == Extracted(entered[1])
        IN aot.end # "toplevel" => outcome = aot.end /\ latest = aot.funcs

\* tests/define.clac defines a function and calls it: a program of such lines
\* runs without a panic.
DefinedCallsRun == status # "panic"

\* "Unknown function {0}" (types.rs:536): calling a function that does not
\* exist is an error of the line, not the end of the process.
UnknownIsAnError ==
    [][Running /\ line # << >> /\ Tok.op = "call" /\ Tok.f \notin DOMAIN latest
         => status' # "panic"]_vars
=============================================================================
