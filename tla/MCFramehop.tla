----------------------------- MODULE MCFramehop -----------------------------
(* Instances of Framehop for TLC.                                           *)
EXTENDS Framehop, TLC

CONSTANTS t1, t2, t3

MCThree == {t1, t2, t3}
Symmetry == Permutations(MCThree)
MCUsual == {99}      \* the default frequency
MCLib == {{"lib"}}   \* as the crate's documentation advises
MCNoFault == {}
=============================================================================
