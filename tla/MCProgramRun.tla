---------------------------- MODULE MCProgramRun ----------------------------
(***************************************************************************)
(* ProgramRun on programs of three functions: main, which calls; help,     *)
(* which branches and may call itself or main; and leaf.                   *)
(***************************************************************************)
EXTENDS ProgramRun

MainBodies ==
    {<<Call("help"), Call("leaf"), Do("arith")>>,
     <<Do("swap"), Do("if"), Call("leaf"), Lit(1), Do("skip"), Call("help")>>,
     <<Lit(2), Do("pick"), Call("help"), Lit(2), Lit(1), Do("droprange")>>,
     <<Do("skip"), Call("leaf"), Call("help")>>}

HelpBodies ==
    {<<Do("if"), Call("leaf"), Lit(1), Do("skip"), Call("help")>>,
     <<Do("drop"), Do("if"), Call("help"), Lit(1), Do("skip"), Lit(7)>>,
     <<Do("if"), Call("main"), Lit(1), Do("skip"), Do("drop")>>,
     <<Do("skip"), Do("swap"), Do("rot")>>,
     <<Lit(1), Call("help"), Call("help")>>}

LeafBodies ==
    {<< >>, <<Do("drop"), Do("drop")>>, <<Do("quit"), Do("drop")>>,
     <<Lit(3), Do("pick")>>, <<Lit(9), Do("skip")>>, <<Do("pick")>>}

MCPrograms ==
    {[main |-> m, help |-> h, leaf |-> l] :
        m \in MainBodies, h \in HelpBodies, l \in LeafBodies}
MCSmall == -2..2
MCReaches == 0..4
=============================================================================
