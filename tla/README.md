# A TLA+ model of Clac++

Clac++ (the repository beside this directory) is a stack language with a
compiler that gives every function a *signature*: how many elements it takes
from the stack (its reach) and how the depth changes (its delta).  The
interesting part is how signatures are found: functions are cut into basic
blocks, the blocks get effects, the paths through the blocks and the calls
between functions give equations, and Z3 solves them component by component of
the call graph.  Everything the compiled code does with the stack rests on
those numbers.  This project models that pipeline, the code emitted for a
function and the driver that compiles and links a program, the interpreter that
defines what programs mean, the stack in memory they share, and the top level
that collects definitions and triggers compilation.

Source paths below are relative to `src/src/`.

## Inventory

| Component | State | Operations | Hard behaviour |
|---|---|---|---|
| Instruction set (`types.rs`, `builtins.rs`) | none | `delta`, `reach`, `to_instruction` | never-typed, not-determinable and unresolved effects |
| Block signature (`jit/analysis.rs:136`) | `cur_stack`, `peak_reach` | one loop | reach is relative to a depth that changes, fresh constants |
| Block graph (`analysis.rs:75-127, 195-232, 556-662`) | `breaks`, `basic_blocks`, `out` | scan, cut, link | a skip is constant or dynamic depending on breaks found so far; off-by-one at the function's end; literals folded into their consumer |
| Whole-program analysis (`analysis.rs:234-554`, `jit/jit.rs:630-694`) | `signatures`, the solver | one turn per component of the call graph | recursion, components that fail, functions that never return |
| Interpreter (`lib.rs:43-311`) | call stack of slices, the stack | `execute`, `exec_function` | skips, failures in the middle of an instruction |
| Top level (`lib.rs:313-403`) | `funcmap`, `undefined_functions`, `jit`, `stack` | one arm per kind of token, recompilation | lazy compilation, redefinition, lines that fail half way |
| Ahead-of-time parser (`lib.rs:420-449`) | none | `extract_functions` | has to agree with the top level |
| Code generation (`jit.rs:51-429, 541-626`, `jit_builtins.rs`) | compile-time stack `tmp` over the real one | `compile_block`, `emit_*`, `compile_function` | when values are in registers and when in memory; almost no checks; not reachable in this source: `todo!()` at `jit.rs:98`, `:563` and `:698` |
| Compiler driver (`jit.rs:448-539, 630-805`) | `declared`, imports, bodies, `out` | declare, analyze, import, translate in parallel, define, `define_wrapper` | ids matched by name over maps in any order; functions without a signature; signatures that disagree |
| Stack (`types.rs:330-372`, `lib.rs:187-258`) | mapping, base, `rsp` | `push`, `pop`, and the pointer arithmetic of `execute` | no bound at the top; picks below the base; `rsp` moved below the base; overlapping moves |
| REPL, command line (`types.rs:491`, `bin/clac/main.rs`) | none | pass lines to `execute_str` | I/O |

How they interact: the REPL and the command line pass lines to
`execute_tokens`, which runs top-level instructions with `execute` and keeps
definitions aside.  The first identifier after a definition makes it move them
to `funcmap` and compile all of it: `compile` builds the call graph, `analyze`
takes its components in topological order, calls `create_graph` (which calls
`get_block_breaks_v2`, `resolve_drops_and_picks`, `get_delta_and_reach`) on each
function, and asks Z3.  `exec_function` has no caller left in this commit (its last
one, in `execute_tokens`, is commented out): it is the reference for what a function
means, which the compiler has to keep.  Nothing runs concurrently with shared state; what is
hard is ordering (callees first, targets first, flushes before branches), staleness
(breaks found so far, compiled code against definitions, memory above the
pointer), partial failure (components, lines) and boundaries.  The one parallel
loop (`jit.rs:745`) shares nothing but what it reads.  `PROJECT.json` lists these hazards line by line with the
properties that watch each.

## Modules

| Module | Models |
|---|---|
| `ClacInstr` | instructions, `delta`, `reach`, `ResolvedSig` |
| `BlockSig`, `MCBlockSig`, `BlockSigProofs` | the loop of `get_delta_and_reach` |
| `BlockGraph` | folding, terminators and the block graph as operators, and in closed form |
| `FuncGraph`, `MCFuncGraph`, `FuncGraphProofs` | the loops of `get_block_breaks_v2` and `create_graph` with each assertion and `expect` |
| `ClacExec` | `execute`: the outcomes of one instruction on a stack, arithmetic exact on values of `Bits` bits |
| `BlockMachine` | abstract specification: what the block graph of a function means |
| `FuncRun`, `MCFuncRun`, `FuncRunProofs` | `exec_function`; implements `BlockMachine` |
| `UncheckedMachine` | abstract specification: `BlockMachine` without the checks that compiled code does not make |
| `CompiledFunc`, `MCCompiledFunc`, `CompiledFuncProofs` | the code `compile_block` and `compile_function` emit; implements `UncheckedMachine` |
| `SequenceStack` | abstract specification: the stack as a bounded sequence |
| `StackMemory`, `MCStackMemory`, `StackMemoryProofs` | `Stack` and the pointers of `execute`; implements `SequenceStack` |
| `Analyze` | `analyze`, call graph, path constraints, solver, `solve_sig` |
| `Compile`, `MCCompile` | `Compiler::compile` around `Analyze` |
| `ProgramRun`, `MCProgramRun` | composes `Analyze` with the execution of the analysed program |
| `AnalyzeProofs` | the proofs about the three modules above |
| `TopLevel`, `MCTopLevel`, `TopLevelProofs` | `execute_tokens`, `reset_module_and_recompile_all`, `extract_functions` |
| `ClacLemmas` | what the proofs share: induction, and lemmas about `ClacExec` and `BlockGraph` |

`BlockSig` and `BlockGraph` extend `ClacInstr`; `FuncGraph`, `Analyze` and (with
`ClacExec`) `FuncRun` and `CompiledFunc` extend `BlockGraph`; `Compile` and
`ProgramRun` extend `Analyze`; `StackMemory` and `TopLevel` extend `ClacExec`.
The chain of refinements is this: `FuncRun` (the interpreter) implements
`BlockMachine`, and `CompiledFunc` (the compiler) `UncheckedMachine`, which extends it.
The two machines differ in three things: a `write8` of no byte is cut off, the
smallest number `%` -1 is 0, and at every other failure that compiled code has no
check for the second machine promises nothing any more (`Astray`).  Apart from
these, interpreter and compiler agree on what a function does.  Both use the
stack as a sequence, which `StackMemory` shows the mapped memory to be.  Operators commented as *mutants* are variants of
the definition after them with a plausible bug.  No specification uses them;
with one put in place of the original, the property `PROJECT.json` names fails.

### State and actions

* **BlockSig.**  `cur` and `peak` are `cur_stack` and `peak_reach`; an iteration
  is `StepKnown`, `StepAnything` (a never-typed instruction, whose delta is a
  fresh constant) or `GiveUp` (`None`).  Z3 terms are modelled by their value under
  an assignment, chosen at the start for the component's own functions and at
  each fresh constant; what holds for every assignment holds for the terms.
  `trace` is history: what each instruction needed, at which depth.
* **FuncGraph.**  `breaks` is the `BTreeSet`; one action per arm of the scan; `CutAt`
  is a turn of the cutting loop, `CutRest` the code after it, `Link` a turn of the
  linking loop.  `Fault` lists, in the code's order, how a turn can panic.
  `BlockGraph` has the same graph in closed form (`GraphOf`), used by the modules
  above; `BuildsGraph` says that the loops compute it.
* **FuncRun.**  `pc` is the remaining slice's position.  `StepExecuted`, `StepSkip`
  and `StepFails` are the three ways `execute` ends.  A call is a step to any stack
  of `CalleeStacks`.  `BlockMachine` is the abstract machine: it executes the
  resolved code of blocks and follows the targets computed in advance.  The
  refinement mapping removes the literals that the interpreter has pushed and
  the block graph has folded into their consumer.
* **StackMemory.**  `data` is the mapping, `rsp` counts elements from the base.
  Instructions that only pop and push take as many elements as there are and
  store what `Exec` leaves; the four with pointer arithmetic are written as in
  the code (`PickAt`, `DropRangeAt` with `std::ptr::copy`, `StepDropRange` with its
  order of pops and conversions).  An access past the end of the mapping ends in
  `overrun`, one before the base in `wild`; nothing is modelled after it.  A
  `drop_range` with nothing to keep makes no access: `5 5 drop_range` on an empty
  stack succeeds and leaves `rsp` 5 below the base.  It is followed there, as far
  as `Lowest`: `pop` finds no end of the stack, and its load is `wild` (`StepBelow`).
  In `SequenceStack` a `drop_range` whose start is higher than the stack, be it
  followed by an access or not, is the end, "wild", and the refinement mapping
  says so of every `rsp` below the base.
* **CompiledFunc.**  `tmp` is the compile-time stack, `sp` the pointer the emitted code
  carries from block to block, `mem` the memory, which keeps what was popped.
  Since a block is straight-line code, emitting an instruction and running it
  are one step, and `tmp` holds the numbers its Cranelift values will have.
  The operators have the names of the emitters (`EmitPop`, `Flush`, `XPop`,
  `XPopNoValue`).  Emitted code pops what is not there, cuts off what is no byte, and
  takes any number for a pick or a `drop_range`; so does the model, which stops
  (`wild`) only at an access outside of the memory.  `astray` is history: the
  interpreter would have failed, and compiled code went on (`Unnoticed`, of
  `UncheckedMachine`).  A callee may go astray as well and then return any pointer
  and memory (`StepCallAstray`, `Wrecks`).  `foot` is history: the lowest address the code of the
  current block has touched, and where the stack was when it began.  The
  refinement mapping is `View`, memory below `sp` and then `tmp`.
* **Analyze.**  `PanicOn`, `Abandon` and `Build` are what can become of the next
  component up to the solver, `Unsat` and `Solve` what the solver answers.
  `system` holds the terms: a delta is a linear term, a reach a set of terms whose
  maximum it is.  An edge that traps has a fresh constant that occurs in one
  equation; it constrains nothing and is left out.  `paths` is history.
* **Compile.**  One action per loop of `compile`, for any name not yet taken, as its
  maps have no order: `Declare`, the analysis, `Import` (which binds calls to ids),
  `Translate` (a task of the parallel iterator), `Define`, `DefineWrapper`.  `stage` says
  which `unwrap` or `expect` it panicked at.  The source has a `todo!()` after the
  analysis (`jit.rs:698`); the model is the code on both sides of it.  Signatures
  are numbers of parameters and results, since all have one type.
* **ProgramRun.**  After the analysis, a solved function is entered on a stack
  exactly as high as its reach, and runs along any path.  Frames are calls.
* **TopLevel.**  Named as in the code; one action per arm of the `match`.
  `latest` and `called` are history: the last completed definition of each name,
  and the last call with the code it ran.  A compiled function remembers the
  code it came from and the functions its calls were bound to.  `Compiled` is what
  `compile` returns, in one step: each function of the map, bound to those of the
  same map.  `Delivered` of `Compile` is the reason to take it so; the commit itself
  always panics on the way (`CompileOutcomes`).

## What the runs check

* **block_sig** - `ClacTheorem` (total delta >= -(peak reach)), that the reach
  is enough (`ReachSuffices`) and not one element too much (`ReachNeeded`), and
  that a block has no signature exactly when an instruction has no static
  effect (`NoneIsHonest`, `SomeIsHonest`).  Blocks of up to three instructions,
  one of every kind of effect, with a solved callee, a solved never-typed one,
  one of the component and an undefined one: three suffice for a value made, one
  used and one used below it.
* **func_graph** - no internal assertion fails, blocks partition the function,
  the linker makes a jump of exactly the skips the scan took for constant (the
  TODO at `analysis.rs:211`), and the loops give the closed form.  Functions of up
  to four instructions of any kind and six of control flow: enough for a skip
  onto a skip, into folded literals, over an if, exactly to the end and past it.
* **func_run** - `ImplementsBlocks`: every behaviour of the interpreter is one of
  the block machine.  `LiteralsOnTop`: whenever control is between folded literals
  and their consumer they are on top.  `ForwardOnly` and `Terminates`.  The stacks
  make an if go both ways, a skip do nothing, go in the function and too far,
  and any pop fail.
* **compiled_func** - `ImplementsBlocks`: compiled code does what the block graph
  means, so what the interpreter does, wherever its values are when a branch,
  call or dynamic pick needs them in memory, up to the first failure that it does
  not check for.  `TypeOK`: until then its pointer and accesses stay in the memory.
  `FootprintWithinReach`: the code of a block touches no element below the reach
  its signature states, so that a caller's elements are safe; this also where
  the elements are not there, and after code has gone astray.  The stacks are
  too low for many of the functions, so that all of this happens.  Functions of up to three instructions of any
  kind (`MaxAny`), four of control flow and stack access (`MaxFlow`), enough for two
  values in `tmp`, one below them in memory and a jump with them; and every
  arithmetic instruction on pairs of edges of 4-bit values (`Bits`), where
  compiled code must end in one of the ways the interpreter can (a debug build
  panics on overflow, a release build wraps), but for `%` of the smallest number
  by -1: there it gives 0 and the interpreter panics.  `MemSize` is as much as the
  functions need (`RoomAssumption`).  `Stale` = -3 is in no stack to begin with, so
  that a stale load shows; `Wrecks` has pointers below the base, inside of the
  memory and at its end.
* **stack_memory** - `ImplementsSequence`: any instructions in any order, failing
  ones included, do to the mapping what they do to a sequence, and overrun it only
  when they leave more than `Capacity` elements, not on the way.  `rsp` gets below
  the base where the sequence is wild, so by a `drop_range` whose start is higher
  than the stack and by nothing else, and never comes back.  Four elements:
  a rotation with one under it, moves that overlap, and instructions that find
  the stack exactly full or one short of it.  `Lowest` = -4 lets `rsp` go down in
  one step and in several.
* **analyze** - for every solution the solver may return: signatures of functions
  that can return satisfy the theorem; a function is never-typed only if it
  cannot return (`NeverIsRight`); nothing is solved on top of an unsolved callee.
  The converse of `NeverIsRight` does not hold.  The probe asks for a second
  delta, and a function that cannot return can have a unique one, in two ways:
  by recursion (`: f 1 f f ;`, delta -1), and by code behind a `quit` that leads
  back into code that runs.  The edges of dead code give equations as all edges
  do: in `: f if quit if swap quit swap ;` every path ends at one of the `quit`s,
  but the second `if`, which is dead, demands that going to the end and going on to
  the second `quit` come to the same, and so that -1 is the only delta.
  `NeverIsFound` says that there is no third way: the function or one it calls is
  recursive, or its dead and its live code are not `Separated`.  The code
  promises nothing else (`analysis.rs:36` says what `None` means, not when it is
  found); callers of such a function merely keep a signature.  Around it the
  compiler: whichever functions have no signature, and whoever calls an
  undefined one, none of `compile`'s own lookups fails (`NoLookupFails`); under each
  name there is that function's code with its calls bound to the functions of
  the same map (`Delivered`), which is what `TopLevel` assumes of a compilation;
  and it ends, by delivering or by a panic (`Ends`).  160 programs of a caller and
  any second body, mutual recursion included; 125 of three functions that
  compile, where the order of the maps matters most; 25 with a function named
  like an import; and the function above with dead code.  The solver's numbers are -2..1 and its reaches 0..3 for recursive
  functions; others get the numbers their terms give.  A recursive function
  whose delta or reach is outside is unsolvable in the model.  That happens to
  two of the programs: g as `drop if f g drop 1`, with an `f` that calls itself
  for ever, needs f's delta to be 2.  With -3..3 and 0..6 the
  same programs are solvable as in the code and no other changes (that run is
  too long to repeat every time).  `Small` with 67 added gives the probe its
  second solution.
* **program_run** - with any solution: no instruction looks below its
  function's parameters, callees' parameters are there (`StaysAboveReach`),
  every return leaves exactly delta (`ReturnsDelta`), and the depth on entering
  a block is the same on every path (`EntriesAgree`, the theorem the TODO at
  `analysis.rs:288` asks for).  120 programs of three functions; at most three
  nested calls (`MaxFrames`), enough for a recursive call to return into a
  caller that is itself a callee.
* **top_level** - no definition is lost or resurrected by a failing line
  (`DefinitionsKept`); compiled functions and what they call are current
  (`JitCurrent`); every call, a repeated one of a redefined function included, runs
  the latest definition (`CallsLatest`); a defined
  function is never unknown (`UnknownIsUndefined`); both parsers agree
  (`AotAgrees`).  Two lines of two segments each: define, call, redefine, call,
  with any fault between.

Four runs show disagreements of the code with its documentation:

* **analyze_endless** - `types.rs:162` states the theorem and `analysis.rs:52` relies on
  it for every solved function.  For `: f 1 f f ;` the equations have a solution
  with delta -1 and reach 0.  `theorem/main.typ` proves the theorem for code without
  recursion, where it holds (see below); the function never returns, and the
  probe does not see it since the delta is unique.
* **define_and_call** - `compile` is a `todo!()` in this source: calling a function a
  program defined panics (`tests/define.clac`, README example).  In all other runs
  `CompileOutcomes` has the intended end as well, so that the rest of the top level
  is checked as designed.
* **unknown_call** - before the first compilation the call of an undefined
  function panics (`lib.rs:68`) where later it is `UnknownFunction`.

* **compile_signature** - "every function is fn(*mut ClacStack) -> *mut ClacStack"
  (`jit.rs:111`), and so callers and wrappers call them; but a solved function is
  compiled with the signature of `to_cranelift_signature` (`jit.rs:556`), as many
  parameters as its reach: `: f + ;` gets two and one result.  (In run
  **analyze** a function whose signature does not even have one result ends in
  the panic `signature`.)

Two more, seen while modelling, have no run: the README's `./clac++ print2.clac`
is refused, since the command line has only the subcommands `compile` and `run`
(`bin/clac/main.rs:13-33`); and a function named like an import, `__rprint__`,
ends compilation in an unwrapped error (`jit.rs:799`, stage `name` of **analyze**).

`CHECK_DEADLOCK FALSE` where the system stops: a loop that has ended, a panic.

## Fairness

`FuncRun` and `Compile` have weak fairness of the whole next-state relation.
Both are loops that simply run; nothing they wait for can be late, and the tasks
of the parallel iterator are taken up until none is left.  For `FuncRun` it
includes that callees return, as `StepCall` is one step.  The other
specifications state safety only.

## What is proved

All proofs are checked by TLAPS, for every value of the constants.

* `BlockSigProofs`, from `BlocksAssumption`, `KnownAssumption`, `AssignmentsAssumption`
  and `FreshAssumption`, which only type the signatures and the assignments:
  `TypeCorrect`; `TotalDelta`, the Clac++ theorem for blocks of any length;
  `ReachIsEnough`.  The argument is that of `theorem/main.typ`: `EffectBounds` is its
  lemma for each variant, `IterationBounds` the step.  The theorem has its lemma's
  hypothesis as a part of the property: the callees met so far have
  delta >= -reach (`CalleesKeepReach`).  It is needed, as `analyze_endless` shows that
  the solver can produce others.  The invariant for `ReachIsEnough` speaks of all
  elements of `trace`, old and new, since `peak` only grows (`EarlierElements`).
  `ReachIsTight` is its converse.  `NoneForAReason` and `SomeForAll` rest on
  `ResolvableMeaning`, which says of every instruction what the tables leave
  undetermined, and on the invariant `Passed`.
* `FuncGraphProofs`, from `CodesAssumption`: `TypeCorrect` and `GraphNeverFails`
  (`NoInternalPanic`).  The latter is not inductive.  The invariant `IInv` adds
  `ScanInv` (an if and a skip scanned have a break right after them, and the
  breaks they jump to), `CutInv` (the pieces are what lies between breaks seen so
  far) and `LinkInv` (what is linked is what starts at or after some point),
  so that every target, being a break after its block or the end, is linked.
  `CodeIsPartitioned` (`BlocksPartition`) adds `CoverInv`, that the cutting loop has
  covered what lies before `last`; that pieces do not overlap follows from
  `CutInv`, as none has a break inside (`PiecesDisjoint`).  `SkipsAgree`
  (`LinkAgreesWithScan`) adds `OutInv`: what the scan decided about a skip can still
  be read off `breaks`, and what is linked is `BlockAt` of a piece, where the
  position of a skip that ends a block is a break exactly if the block has no
  room for its literal.
* `AnalyzeProofs`, about `Analyze`, `Compile` and `ProgramRun`, from `SolverAssumption`,
  `CodeAssumption` (functions consist of what tokens become), `ProgramsAssumption`
  (a program is a finite map) and `FramesAssumption`, in six parts.
  1. *Sums and terms.*  `Value` is a sum over a finite set in an order that is
     chosen; `OrderIsFree` shows that the order does not matter, and `ValueOfPlus` and
     `ValueOfMinus` that terms add up as numbers do.  `GrowthStops`: an operator that
     only adds elements has reached its fixed point after as many turns as there
     are elements, so `ReachableBlocks`, `CalledFrom` and `Returning` are closed.
  2. *What the equations are.*  `PathTermsAre` unfolds the recursion over blocks;
     `PathsAreTyped` says which variables occur.
  3. *What a solution means.*  A function is *explained* (`Explains`) by a number for
     each block and a depth for each instruction if depths add up along the block
     and the numbers along each edge, and *fits* (`Fits`) if its reach covers what
     each path looks at below its start.  `SolutionExplains` and `SolutionFits`:
     every answer of the solver is such an account.  `AnalysisInvariant`: every
     solved function keeps one, although `sigs` grows, since what is known of a
     callee does not change (`Grows`).  With it: `AbandonedReachCallers`
     (`SolvedCallsSolved`).
  4. *The Clac++ theorem for functions.*  A function is *good* if every account has the
     same delta for it, its signature's, not below minus its reach.  If what
     returns so far is good, then each block on a path that is really taken has a
     number that all accounts agree on, not below minus what is looked at from
     there on (`LeavingIsDetermined`), and so the function is good.  `SoundInv` says that
     folded instructions and graphs are as they were checked.  Induction over the
     levels of `Returning` gives `TheoremOfClac` (`ClacTheorem`) and, as a unique
     number leaves no room for a second one, `NeverTypeIsRight` (`NeverIsRight`).  This is
     `theorem/main.typ` for code with recursion, restricted to functions that can
     return; `analyze_endless` shows that the restriction is needed.
     `CompiledTheorem` is the same for what the compiler is given.
     `NeverTypeIsFound` (`NeverIsFound`) goes the other way, with `FoundInv`: a solved
     function that cannot return is found, or calls a *blurred* one, recursive or
     not `Separated`.  A function without recursion has constants only in its
     equations (`OnlyConstants`).  If its dead and its live code are apart, each block
     that runs and does not pass holds a never-typed instruction; raise the
     constants of these, and of the blocks that run into a trap, by `Probe`.  Then
     the paths from every block that runs gain `Probe`, and no others
     (`PathsRaised`), so the equations hold as before (`RaisedSolves`): the probe finds
     this `SecondSolution`.
  5. *The compiler.*  `LookupsSucceed` (`NoLookupFails`), `ModuleIsLinked` (`Delivered`) and
     `CompilerTypes` (`CTypeOK`).  Nothing is assumed of the analysis but that it leaves
     the program alone and, when it ends, has taken every function
     (`AnalysisStep`).  `LinkedInv` ties the maps together: ids are distinct, as they
     count up (`IdsInv`), and final when the analysis is done (`OrderInv`);
     references hold the ids of the callees, translations the references, bodies
     the translations, wrappers the ids.  `StageInv` says what has been filled at
     each stage.  `CompilerAnalyzes` carries what is proved of `Spec` into `CSpec`.
  6. *The running program.*  `RunTypes` (`RunTypeOK`), `OnlySolvedRun` (`CalleesSolved`),
     `ReachIsDeepEnough` (`StaysAboveReach`), `DeltaIsRight` (`ReturnsDelta`) and
     `EntriesHaveOneDepth` (`EntriesAgree`).  A frame is held against the accounts of
     part 3.  `RunInv`: every frame stands at an instruction of one of its blocks and
     enough of its function's reach is left for what follows (`Placed`); the top one
     has the depth its account says (`Reached`); each other one waits at a call, and
     the frame above was entered at the depth its account says (`Waits`).
* `FuncGraphProofs` also proves `GraphIsBuilt` (`BuildsGraph`): the loops compute the
  closed form `GraphOf`, for functions of any length.  `ResultInv` says that after
  `i` turns the scan has the set `BreaksUpTo(func)[i]`, and that a block is linked
  only when its assertions hold, so that a panic means that no graph exists.
* `FuncRunProofs`, from `GraphAssumption` (the function has a graph),
  `CodesAssumption` (it consists of what tokens become) and `StacksAssumption`:
  `TypeOKHolds`, `LiteralsOnTopHolds`, `ForwardOnlyHolds` and `ImplementsBlocksHolds`, the
  refinement.  The invariant is `TypeOK`, the graph being `GraphOf(func)`, and
  `LiteralsOnTop`, which the refinement needs: the block machine consumes a folded
  literal from its instruction, the interpreter pops it.  A position is *hidden* if
  it is a folded literal; the interpreter's step there is a stutter (`HiddenStep`),
  and every other step is one of the block machine's (`BodyStep`, `IfStep`,
  `ConstSkipStep`, `DynamicSkipStep`, `EmptyStep`, `CallSteps`, `ReturnStep`).  That
  control never enters a block between folded literals and their consumer
  follows from targets being starts of blocks (`TargetsArePlaces`).
* `CompiledFuncProofs`, from `GraphAssumption`, `CodesAssumption` (what can be compiled),
  `StacksAssumption`, `MemoryAssumption`, `WrecksAssumption` and `RoomAssumption` (the
  mapping has room for one more element per instruction, since emitted code never
  compares the pointer with its end): `TypeOKHolds`, `ImplementsBlocksHolds`, the
  refinement, and `FootprintWithinReachHolds`.  With the refinement of `FuncRun`,
  interpreter and compiled code do the same for every function, up to the
  differences of the two machines.  `ViewOf` is the stack that pointer, memory and
  compile-time stack stand for.  One lemma per emitter says what it does to this
  view if the operands are there; `EmittedDoes` concludes that emitted code has
  one of the outcomes of `UncheckedMachine` unless the failure is unnoticed.  The
  invariant is `Typed`, types and the place in the graph, and `Sound` as long as
  code is not astray: the stack and the instructions left fit into memory.
  `StepAstray` is the rest: a step of code that is astray, or that goes astray,
  keeps the types whatever it finds, and the machine allows it.
  The footprint is proved from `Typed` alone, so it holds for code astray, too:
  `EmittedStays` says, for any pointer and memory, how far each emitter moves the
  depth and how low it looks.  The invariant `FootInv` is that inside the block it
  is about the depth is that at the entry plus the deltas since (`DepthIn`), and
  what was touched is within what the instructions so far look at; `Accounts` says
  that the signature sums up exactly these.  A block is entered with nothing in
  registers, which is why no touch is charged to the block before.
* `StackMemoryProofs`, from `InstrsAssumption`, `CapacityAssumption` and
  `LowestAssumption`: `TypeOKHolds` and `ImplementsSequenceHolds`, the refinement, for
  any capacity.  `Held` is what memory holds between two addresses.  An
  instruction that only pops and pushes does not depend on what is under its
  operands (`PlainIsLocal`), so running it on the elements popped and storing what it
  leaves is running it on the whole stack (`StoredIsPushed`); a `memmove` of
  overlapping ranges removes a range from the sequence (`CopiedIsRemoved`).  A
  `drop_range` that starts below the base is wild for the sequence, whether it is
  by an access or by where it leaves `rsp`; a step below the base is a stutter.
* `TopLevelProofs`, from `LinesAssumption`, `MaxLinesAssumption`, `CompileAssumption` and
  `CalleeStacksAssumption`: all six properties of `TopLevel`, for sessions of any
  number of lines over any tokens.  `Compiles` says that what is compiled is what
  the compiler was last given, also after it failed; `CallsLatest` needs it.
  `FollowsAot` relates the session to `extract_functions` step by step: while the
  first line runs, the top level has the open definition and the definitions that
  `extract_functions` has at that token, unless something stands outside of the
  definitions.  Merging the undefined functions is a fold (`InsertAll`), unfolded
  by induction.

The two recursions the model is built on, the breaks and the arithmetic
(`TwoTo`, `Power`), are recursive functions.  What they compute is proved by
induction (`ClacLemmas`): a set of numbers without a least element is empty
(`LeastNumber`), so induction is stated over sets and not over predicates
(`InductionUpTo`), a recursion has a solution (`RecursionHasSolution`) and only one
(`RecursionIsUnique`).

## What is only model-checked, and what is not modelled

Only checked, on the instances above: liveness (`Terminates`, `Ends`), which TLAPS
cannot prove.  Every other property of a passing run is a theorem.

Not modelled:

* the order in which blocks are compiled and sealed (`jit.rs:100, 601`), a rule of
  Cranelift's builder; the iteration is a `todo!()` in this source;
* what Cranelift, the linker and Z3 do: they are external.  Z3's answers are any
  solution with small numbers, its failing to decide is not considered;
* what follows an access outside the mapped stack, the contents of memory other
  than the stack, and the results of reads and syscalls, which are any number;
* that an address, eight times a count, wraps at 2^64: a count too large for the
  mapping stays too large in the model.  What a program does when a `drop_range`
  has taken `rsp` below the base is followed in `StackMemory` only; in `FuncRun` and
  `BlockMachine` it ends there;
* how a *solved* function would pass its elements as values: the calling
  convention is being rewritten, and **compile_signature** shows that its parts do
  not fit yet.  `CompiledFunc` has the convention its comments state;
* printing, the line editor, argument parsing, exit codes and writing the object
  file: one process that does them in sequence and stops at the first failure.

## Plan

1. Done: instruction set, block signatures, block graph, interpreter and its
   refinement, analysis, running analysed programs, top level, code generation
   and its refinement, the stack in memory, the compiler driver.
2. Done: proofs about block signatures, the block graph, the driver, the
   interpreter, compiled code, the stack in memory, the top level, the analysis
   and the programs it is right about.
3. When the source has its calling convention: passing values instead of the
   stack, against `CompiledFunc`.
