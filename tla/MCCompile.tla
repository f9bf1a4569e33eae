----------------------------- MODULE MCCompile -----------------------------
(***************************************************************************)
(* Compile, and with it Analyze, on small programs: f, which calls, and g, *)
(* any body; with a third function; and with one named like an import.     *)
(***************************************************************************)
EXTENDS Compile

Calling ==
    {<<Call("f")>>, <<Call("g")>>, <<Lit(1), Call("f"), Call("f")>>,
     <<Call("g"), Call("g")>>, <<Call("f"), Lit(1), Do("skip")>>,
     <<Do("if"), Call("g"), Lit(1), Do("skip"), Do("drop")>>,
     <<Do("drop"), Do("if"), Call("f"), Call("g"), Do("drop"), Lit(1)>>,
     <<Call("u")>>}

Straight ==
    {<< >>, <<Do("drop"), Do("drop")>>, <<Do("quit"), Do("drop")>>,
     <<Do("swap"), Lit(1)>>, <<Lit(1), Do("skip")>>,
     <<Do("if"), Do("drop")>>, <<Do("skip"), Do("swap"), Do("rot")>>,
     <<Do("skip"), Do("drop")>>, <<Lit(2), Do("pick")>>, <<Do("pick")>>,
     <<Lit(0), Do("pick")>>,
     <<Lit(0), Do("if"), Call("u"), Lit(1), Do("skip"), Arith("add")>>}

Bodies == Calling \cup Straight

\* Bodies that compile: not analyzed, or with one result.
Compiling ==
    {<<Do("pick")>>, <<Arith("add")>>, <<Do("swap"), Do("droprange"), Call("f")>>,
     <<Call("g"), Do("pick"), Call("u")>>, <<Call("h"), Call("g")>>}

\* It never returns, but code behind a quit joins the code that runs, and its
\* equations have one solution.
Joining == <<Do("if"), Do("quit"), Do("if"), Do("swap"), Do("quit"), Do("swap")>>

MCPrograms ==
    {[f |-> b, g |-> c] : b \in Calling, c \in Bodies}
    \cup {[f |-> b, g |-> c, h |-> d] : b \in Compiling, c \in Compiling, d \in Compiling}
    \cup {[f |-> Joining]}
    \cup {[f |-> b, __rquit__ |-> c] : b \in Compiling, c \in Compiling}
MCSmall == -2..1
MCReaches == 0..3
MCImports == {"__rprint__", "__syscall__", "__rquit__", "__rpow__"}

\* : f 1 f f ;  -- it calls itself for ever, but its equations have a solution.
EndlessPrograms == {[f |-> <<Lit(1), Call("f"), Call("f")>>]}

\* : f + ;  -- reach 2, delta -1.
AddPrograms == {[f |-> <<Arith("add")>>]}
=============================================================================
