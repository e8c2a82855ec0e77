----------------------------- MODULE MCPerfMap -----------------------------
(* Instances of PerfMap for TLC.                                            *)
EXTENDS PerfMap

CONSTANTS r1, r2, caller

MCRefreshers == {r1, r2}
Line(start, length, name) == [start |-> start, length |-> length, name |-> name]
\* The second function reuses an address of the first.
MCOutput == <<Line(0, 2, "f"), Line(1, 2, "g")>>
MCAddresses == 0..3
=============================================================================
