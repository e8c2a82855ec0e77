----------------------------- MODULE MCHandler -----------------------------
(* Instances of Handler for TLC.                                            *)
EXTENDS Handler

CONSTANT Main  \* what the name of the main thread is made of

\* Two libraries away from address zero, one with two segments that touch.
MCLoaded == {
  [name |-> {"libc"}, base |-> 4,
   segments |-> {[offset |-> 1, len |-> 2], [offset |-> 3, len |-> 2]}],
  [name |-> {"libgcc", "gcc"}, base |-> 10, segments |-> {[offset |-> 0, len |-> 2]}]}
MCBlocklist == {"libc", "vdso"}

MCIps == {6, 9}              \* inside the library that is named, and just after it
MCInterrupted == 4..9        \* from before its first segment to after its last
MCIds == {1, 2, 9, 10, 11, 20, 99, 100}
MCNames == {<<>>, <<Main>>}
=============================================================================
