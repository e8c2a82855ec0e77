----------------------------- MODULE MCProfiler -----------------------------
(* Instances of Profiler for TLC.                                           *)
EXTENDS Profiler

CONSTANTS t1, t2

MCTwo == {t1, t2}

MCUsual == {99}          \* the default frequency
\* Refused by setitimer(), dividing by zero, with the shortest interval, with none.
MCAny == {-1, 0, 1000000, 1000001}

MCLib == {{"lib"}}       \* as the crate's documentation advises
MCNoneOrLib == {{}, {"lib"}}

MCNoFault == {}
MCAllFaults == AllFaults
=============================================================================
