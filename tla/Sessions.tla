------------------------------ MODULE Sessions ------------------------------
(***************************************************************************)
(* What the profiler promises the program that uses it: sessions, one at a *)
(* time, each of one owner, and the samples taken in each, gone when it    *)
(* ends.  How the profiler keeps it, with a lock, a timer, signal handlers *)
(* and a collector, is Profiler's and Sampling's matter.                   *)
(*                                                                         *)
(* A sample has the thread it was taken on (by) and the session in which   *)
(* its signal came (born).                                                 *)
(***************************************************************************)
EXTENDS Naturals

CONSTANTS Threads

VARIABLES
  on,       \* is a session running?
  owner,    \* whoever is to end it: at most one thread
  number,   \* how many sessions there have been
  samples,
  readable  \* FALSE once samples of this session were lost

vars == <<on, owner, number, samples, readable>>

Init == on = FALSE /\ owner = {} /\ number = 0 /\ samples = {} /\ readable = TRUE

\* A session starts with every sample that will be taken in it.
Start(t) ==
  /\ ~on /\ readable
  /\ on' = TRUE /\ owner' = {t} /\ number' = number + 1
  /\ UNCHANGED <<samples, readable>>

\* A sample may come late: once a thread, while no session runs or into the next.
InTime(x) ==
  /\ ~on => \A y \in samples : y.by # x.by
  /\ x.born < number => \A y \in samples : y.by = x.by => y.born = number

Record ==
  /\ readable
  /\ \E x \in samples' \ samples :
       samples' = samples \cup {x} /\ x.born <= number /\ InTime(x)
  /\ UNCHANGED <<on, owner, number, readable>>

\* What the collector could not keep is lost with everything it had kept.
Lose ==
  /\ readable
  /\ samples' = {} /\ readable' = FALSE
  /\ UNCHANGED <<on, owner, number>>

\* The end of a session repairs the collector.
Stop(t) ==
  /\ owner = {t}
  /\ on' = FALSE /\ owner' = {} /\ samples' = {} /\ readable' = TRUE
  /\ UNCHANGED number

\* Starting or stopping fails half way: the session goes on for ever.
Abandon ==
  /\ on /\ owner # {}
  /\ owner' = {}
  /\ UNCHANGED <<on, number, samples, readable>>

Next ==
  \/ \E t \in Threads : Start(t) \/ Stop(t)
  \/ Record \/ Lose \/ Abandon

Spec == Init /\ [][Next]_vars
=============================================================================
