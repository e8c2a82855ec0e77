---------------------------- MODULE MCCriterion ----------------------------
(* Instances of Criterion for TLC.                                          *)
EXTENDS Criterion

CONSTANTS harness, other, b1, b2

MCThreads == {harness, other}
MCBenchmarks == {b1, b2}
MCFrequencies == {0, 99}   \* dividing by zero, and the default
MCOutputs == {"flamegraph", "protobuf"}
=============================================================================
