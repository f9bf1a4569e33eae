----------------------------- MODULE MCTopLevel -----------------------------
(***************************************************************************)
(* TopLevel on sessions of at most MaxLines lines of at most two segments: *)
(* definitions, whole, broken or of a builtin's name, calls, and top-level *)
(* instructions that skip tokens of a definition.                          *)
(***************************************************************************)
EXTENDS TopLevel

Colon == Do(":")
Semi  == Do(";")

Segments ==
    {<< >>,
     <<Colon, Call("f"), Lit(1), Semi>>,
     <<Colon, Call("f"), Call("g"), Semi>>,
     <<Colon, Call("g"), Semi>>,
     <<Colon, Do("arith"), Lit(1), Semi>>,
     <<Colon, Do("drop"), Semi>>,
     <<Colon, Call("f"), Colon>>,
     <<Colon, Call("g"), Lit(1)>>,
     <<Semi>>,
     <<Call("f")>>, <<Call("g"), Call("f")>>, <<Do("width")>>,
     <<Lit(1), Do("skip")>>, <<Lit(3), Do("skip")>>, <<Do("drop")>>,
     <<Lit(1), Lit(0), Do("arith")>>, <<Do("quit")>>}

MCLines == {a \o b : a \in Segments, b \in Segments}
MCNames == {"f", "g"}
MCCalleeStacks == {<< >>, <<1>>}
MCValues == {0}
Both == {"done", "panic"}
Present == {"panic"}

\* : g ; g  -- lines 3 and 4 of tests/define.clac.
DefineLines == {<<Colon, Call("g"), Semi, Call("g")>>}

\* A call, and nothing defined.
UnknownLines == {<<Call("g")>>}
=============================================================================
