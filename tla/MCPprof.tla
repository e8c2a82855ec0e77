------------------------------ MODULE MCPprof ------------------------------
(* Instances of Pprof for TLC.                                              *)
EXTENDS Pprof

Symbol(name, sys_name, filename, lineno) ==
  [name |-> name, sys_name |-> sys_name, filename |-> filename, lineno |-> lineno]
Row(frames, thread, time) ==
  [frames |-> frames, thread |-> thread, sample_timestamp |-> time]

\* Two constructors demangle to the same name; "main" is sampled on two lines.
A1 == Symbol("A::A", "_ZN1AC1Ev", "a.cc", 1)
A2 == Symbol("A::A", "_ZN1AC2Ev", "a.cc", 1)
Main == Symbol("main", "main", "main.c", 4)
Main9 == Symbol("main", "main", "main.c", 9)
Leaf == Symbol("Unknown", "Unknown", "Unknown", 0)

\* A frame without a name, inlining, recursion on a thread without a name, an empty
\* stack, and a stack that was sampled at two times.
Rows == {Row(<<<<Leaf>>, <<Main>>>>, "worker", 0),
         Row(<<<<A1, Main9>>>>, "worker", 0),
         Row(<<<<A2>>, <<A1>>, <<Main>>>>, "worker", 0),
         Row(<<<<A2>>, <<A1>>, <<Main>>>>, "worker", 1),
         Row(<<<<Main>>, <<Main9>>>>, "7", 0),
         Row(<<>>, "worker", 1)}

MCReports == UNION {[S -> {1, 3}] : S \in SUBSET Rows}
=============================================================================
