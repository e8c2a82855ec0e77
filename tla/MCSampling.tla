----------------------------- MODULE MCSampling -----------------------------
(* Instances of Sampling for TLC.                                           *)
EXTENDS Sampling, TLC

CONSTANTS t1, t2, k1, k2

MCThreads == {t1, t2}
MCKeys == {k1, k2}
Symmetry == Permutations(MCThreads) \cup Permutations(MCKeys)
MCFrequencies == {0, 99}   \* dividing by zero, and the default
MCBlocklists == {{"lib"}}
\* The failures that leave a session without an owner.
MCFaults == {"unregister", "recreate"}
MCBuckets == {0}
MCHash == [k \in MCKeys |-> 0]
=============================================================================
