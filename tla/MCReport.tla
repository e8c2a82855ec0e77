------------------------------ MODULE MCReport ------------------------------
(* Instances of Report for TLC.                                             *)
EXTENDS Report, TLC

CONSTANTS k1, k2, k3, k4

MCKeys == {k1, k2, k3, k4}
MCBuckets == {0, 1}
MCHash == [k \in MCKeys |-> IF k = k4 THEN 1 ELSE 0]

MCHandler == {"perf_signal_handler"}
MCSymbolize ==
  [handler |-> <<"perf_signal_handler">>, trampoline |-> <<"restore">>,
   main |-> <<"inlined", "main">>, work |-> <<"work">>, other |-> <<"work">>,
   none |-> <<>>]

\* Runs of one, two and three of the handler's frames, first, between and last, and
\* next to an address without a symbol.  k2 and k3 resolve alike.
Trace(k) ==
  CASE k = k1 -> <<"handler", "handler", "handler", "trampoline", "work", "main">>
    [] k = k2 -> <<"work", "none", "handler", "trampoline", "main", "handler">>
    [] k = k3 -> <<"other", "handler", "none", "main">>
    [] k = k4 -> <<"handler", "handler", "main", "handler", "handler">>

\* Here no two backtraces resolve alike.
Distinct(k) == CASE k = k1 -> <<"work", "main">> [] k = k2 -> <<"trampoline", "main">>
                 [] k = k3 -> <<"main", "main">> [] k = k4 -> <<"main">>

\* Two samples may have the same time, and a thread may change its name.
Captures(Stack(_)) ==
  [x \in MCKeys \X (1..9) |->
     [frames |-> Stack(x[1]),
      thread_id |-> IF x[1] = k4 THEN 2 ELSE 1,
      thread_name |-> IF x[2] < 4 THEN "worker" ELSE "renamed",
      sample_timestamp |-> x[2] \div 2]]
MCCaptured == Captures(Trace)
MCDistinct == Captures(Distinct)

NoProcessor(frames) == frames
\* As in examples/post_processor.rs: the thread names are made uniform.
Rename(frames) == [frames EXCEPT !.thread_name = "worker"]
=============================================================================
