----------------------------- MODULE ClacInstr -----------------------------
(***************************************************************************)
(* The instruction set of Clac++ (src/src/types.rs) and the effect each    *)
(* instruction is declared to have on the depth of the stack:              *)
(*                                                                         *)
(*   delta   how much higher (or lower) the stack is afterwards            *)
(*   reach   how far below the top the instruction looks                   *)
(*                                                                         *)
(* An instruction is a record.  Its field op names the variant; literals   *)
(* carry their value n, calls the callee's name f, resolved picks their    *)
(* distance n, resolved drop_ranges their start s and amount a.  Variants  *)
(* that the effect tables do not tell apart share an op: the seven         *)
(* ArithOps are "arith" and the two reads "read".  An "arith" that names   *)
(* its ArithOp in a field it is that one, else it stands for any of them.  *)
(***************************************************************************)
EXTENDS Integers, Sequences

Lit(n)          == [op |-> "lit", n |-> n]
Call(f)         == [op |-> "call", f |-> f]
Pick(n)         == [op |-> "rpick", n |-> n]
DropRange(s, a) == [op |-> "rdrop", s |-> s, a |-> a]
Do(op)          == [op |-> op]
Arith(it)       == [op |-> "arith", it |-> it]

ControlOps == {"if", "skip"}
ArithOps   == {"add", "sub", "mul", "div", "rem", "lt", "pow"}

\* What delta() and reach() return for the variants with a fixed effect.
FixedDelta == [print |-> -1, syscall |-> -6, drop |-> -1, swap |-> 0,
               rot |-> 0, arith |-> -1, read |-> 0, write |-> -2,
               write8 |-> -2, width |-> 1, if |-> -1, skip |-> -1]

FixedReach == [print |-> 1, syscall |-> 7, drop |-> 1, swap |-> 2,
               rot |-> 3, arith |-> 2, read |-> 1, write |-> 2,
               write8 |-> 2, width |-> 0, if |-> 1, skip |-> 1]

FixedOps == {"print", "syscall", "drop", "swap", "rot", "arith", "read",
             "write", "write8", "width", "if", "skip"}

(***************************************************************************)
(* The instructions a Token can become (Token::to_instruction): the two    *)
(* resolved variants only arise in resolve_drops_and_picks.                *)
(***************************************************************************)
ParsedInstr(Names, Values) ==
    [op : {"lit"}, n : Values] \cup [op : {"call"}, f : Names]
    \cup [op : FixedOps \cup {"quit", "pick", "droprange"}]
    \cup [op : {"arith"}, it : ArithOps]

\* The PRECONDITION comments on the two resolved variants.
ResolvedInstr ==
    {x \in [op : {"rdrop"}, s : Nat, a : Nat] : x.s >= x.a}
    \cup [op : {"rpick"}, n : Nat \ {0}]

Instr(Names) == ParsedInstr(Names, Int) \cup ResolvedInstr

IsLit(x)    == x.op = "lit"
IsUsize(n)  == n >= 0        \* usize::try_from succeeds on an i64

(***************************************************************************)
(* A ResolvedSig.  `never' stands for delta = None, the never type; the    *)
(* delta field is then meaningless.                                        *)
(***************************************************************************)
Sig == [never : BOOLEAN, delta : Int, reach : Nat]

(***************************************************************************)
(* delta() and reach() return a number or a ResolveErr.                    *)
(***************************************************************************)
Ok(v)    == [tag |-> "ok", val |-> v]
Err(tag) == [tag |-> tag, val |-> 0]

Delta(x, known) ==
    CASE x.op \in FixedOps           -> Ok(FixedDelta[x.op])
      [] x.op \in {"lit", "rpick"}   -> Ok(1)
      [] x.op = "rdrop"              -> Ok(-x.a)
      [] x.op = "pick"               -> Ok(0)
      [] x.op = "droprange"          -> Err("notdeterminable")
      [] x.op = "quit"               -> Err("anything")
      [] x.op = "call" ->
            IF x.f \notin DOMAIN known THEN Err("unresolved")
            ELSE IF known[x.f].never   THEN Err("anything")
            ELSE Ok(known[x.f].delta)

\* Mutant of Reach: a dynamic pick has a reach like its delta.
ReachOfPick(x, known) ==
    CASE x.op \in FixedOps              -> Ok(FixedReach[x.op])
      [] x.op \in {"lit", "quit", "pick"} -> Ok(0)
      [] x.op = "rpick"                 -> Ok(x.n)
      [] x.op = "rdrop"                 -> Ok(x.s)
      [] x.op = "droprange"             -> Err("notdeterminable")
      [] x.op = "call" ->
            IF x.f \notin DOMAIN known THEN Err("unresolved") ELSE Ok(known[x.f].reach)

Reach(x, known) ==
    CASE x.op \in FixedOps              -> Ok(FixedReach[x.op])
      [] x.op \in {"lit", "quit"}       -> Ok(0)
      [] x.op = "rpick"                 -> Ok(x.n)
      [] x.op = "rdrop"                 -> Ok(x.s)
      [] x.op \in {"pick", "droprange"} -> Err("notdeterminable")
      [] x.op = "call" ->
            IF x.f \notin DOMAIN known THEN Err("unresolved")
            ELSE Ok(known[x.f].reach)
=============================================================================
