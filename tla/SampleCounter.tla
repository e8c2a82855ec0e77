--------------------------- MODULE SampleCounter ---------------------------
(***************************************************************************)
(* What a Collector promises the reports that read it: every sample added  *)
(* is counted, once, under its own backtrace, until a write to the         *)
(* temporary file fails; from then on nothing can be read any more, rather *)
(* than something wrong.                                                   *)
(***************************************************************************)
EXTENDS Naturals

CONSTANTS Keys, WritesMayFail

VARIABLES
  added,     \* how many samples have been added
  counted,   \* the samples counted under each key
  readable

vars == <<added, counted, readable>>
Nothing == [k \in Keys |-> {}]

Init == added = 0 /\ counted = Nothing /\ readable = TRUE

Add(k) ==
  /\ added' = added + 1
  /\ \/ readable /\ readable' = TRUE
        /\ counted' = [counted EXCEPT ![k] = @ \cup {added + 1}]
     \/ ~readable /\ UNCHANGED <<counted, readable>>

Lose ==
  /\ WritesMayFail /\ readable
  /\ added' = added + 1
  /\ readable' = FALSE
  /\ counted' = Nothing

Next == Lose \/ \E k \in Keys : Add(k)
Spec == Init /\ [][Next]_vars
=============================================================================
