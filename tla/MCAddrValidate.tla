--------------------------- MODULE MCAddrValidate ---------------------------
(* Instances of AddrValidate for TLC.                                       *)
EXTENDS AddrValidate, TLC

CONSTANTS t1, t2

MCThreads == {t1, t2}
MCFds == 1..6
Symmetry == Permutations(MCThreads)
=============================================================================
