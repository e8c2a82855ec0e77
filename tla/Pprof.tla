------------------------------- MODULE Pprof -------------------------------
(***************************************************************************)
(* Report::pprof (report.rs): the tables of a pprof profile are built row  *)
(* by row, in the unspecified order of a HashMap, and shared by the rows.  *)
(* A function is entered once for each demangled name, with a location of  *)
(* the same number, however many symbols bear that name.                   *)
(*                                                                         *)
(* The string table is a list of the strings of the report in any order,   *)
(* with "" first: an index in it is modelled by the string itself.         *)
(***************************************************************************)
EXTENDS Integers, SequencesExt

CONSTANTS
  Reports,         \* the reports to encode: functions from rows to counts
  Frequency,       \* timing.frequency
  NanosPerSecond   \* 10^9, or less to suit TLC's integers

\* A row has frames, each a list of symbols, a thread, its name or its id, and the
\* time of its first sample, which tells apart rows that are encoded alike.
\* A symbol has a name, a sys_name, a filename and a line number.
Symbols(row) == FlattenSeq(row.frames)

ASSUME PprofAssumption ==
  /\ \A r \in Reports :
       /\ r \in [DOMAIN r -> Nat] /\ IsFiniteSet(DOMAIN r)
       /\ \A row \in DOMAIN r : Symbols(row) \in Seq(ToSet(Symbols(row)))
  /\ Frequency \in Int \ {0}
  /\ NanosPerSecond \in Nat

VARIABLES
  data,       \* the report
  strings,    \* the strings entered by the first pass
  remaining,  \* the rows the second pass has not encoded
  functions,  \* the ids by demangled name
  fn_tbl, loc_tbl, samples

vars == <<data, strings, remaining, functions, fn_tbl, loc_tbl, samples>>

\* Mutant: the mangled names are not entered.
NamesOf(row) ==
  {row.thread} \cup UNION {{x.name, x.filename} : x \in ToSet(Symbols(row))}
StringsOf(row) ==
  {row.thread} \cup UNION {{x.name, x.sys_name, x.filename} : x \in ToSet(Symbols(row))}
Fixed == {"", "samples", "count", "cpu", "nanoseconds", "thread"}

Init ==
  /\ data \in Reports
  /\ strings = Fixed \cup UNION {StringsOf(row) : row \in DOMAIN data}
  /\ remaining = DOMAIN data
  /\ functions = <<>> /\ fn_tbl = <<>> /\ loc_tbl = <<>> /\ samples = <<>>

-----------------------------------------------------------------------------
Function(id, x) ==
  [id |-> id, name |-> x.name, system_name |-> x.sys_name, filename |-> x.filename]
Location(id, x) == [id |-> id, function_id |-> id, line |-> x.lineno]

\* Mutant: ids start from zero.
LastId(acc) == Len(acc.fn_tbl)
NextId(acc) == Len(acc.fn_tbl) + 1

AddSymbol(acc, x) ==
  IF x.name \in DOMAIN acc.functions
  THEN [acc EXCEPT !.locs = Append(@, acc.functions[x.name])]
  ELSE LET id == NextId(acc)
       IN  [functions |-> [n \in DOMAIN acc.functions \cup {x.name} |->
                             IF n = x.name THEN id ELSE acc.functions[n]],
            fn_tbl |-> Append(acc.fn_tbl, Function(id, x)),
            loc_tbl |-> Append(acc.loc_tbl, Location(id, x)),
            locs |-> Append(acc.locs, id)]

\* Mutant: the symbols are encoded from the root, as in a flamegraph.
EncodedFromRoot(row) ==
  FoldLeft(AddSymbol,
           [functions |-> functions, fn_tbl |-> fn_tbl, loc_tbl |-> loc_tbl,
            locs |-> <<>>],
           Reverse(Symbols(row)))
\* The tables and the row's locations after each of its symbols, from the leaf.
Encoded(row) ==
  LET after[n \in 0..Len(Symbols(row))] ==
        IF n = 0
        THEN [functions |-> functions, fn_tbl |-> fn_tbl, loc_tbl |-> loc_tbl,
              locs |-> <<>>]
        ELSE AddSymbol(after[n - 1], Symbols(row)[n])
  IN  after[Len(Symbols(row))]

\* Rust's division truncates toward zero.
Quotient(a, b) == IF b < 0 THEN -(a \div (-b)) ELSE a \div b
Values(count) == <<count, Quotient(count * NanosPerSecond, Frequency)>>

Encode(row) ==
  /\ row \in remaining
  /\ remaining' = remaining \ {row}
  /\ LET e == Encoded(row)
     IN  /\ functions' = e.functions
         /\ fn_tbl' = e.fn_tbl
         /\ loc_tbl' = e.loc_tbl
         /\ samples' = Append(samples, [location_id |-> e.locs, label |-> row.thread,
                                        value |-> Values(data[row])])
  /\ UNCHANGED <<data, strings>>

Done == remaining = {} /\ UNCHANGED vars

Next == Done \/ \E row \in DOMAIN data : Encode(row)
Spec == Init /\ [][Next]_vars

-----------------------------------------------------------------------------
(* Properties                                                               *)

\* The ids are those of the tables: unique, not zero and dense; each function and its
\* location describe one symbol, and no two functions have the same name.
Tables ==
  LET Met == UNION {ToSet(Symbols(row)) : row \in DOMAIN data \ remaining}
  IN  /\ Len(loc_tbl) = Len(fn_tbl)
      /\ \A i \in DOMAIN fn_tbl :
           /\ functions[fn_tbl[i].name] = i
           /\ \E x \in Met : fn_tbl[i] = Function(i, x) /\ loc_tbl[i] = Location(i, x)
      /\ \A i, j \in DOMAIN fn_tbl : fn_tbl[i].name = fn_tbl[j].name => i = j

\* The names a reader of a sample finds by following its locations.
Stack(sample) ==
  [i \in DOMAIN sample.location_id |->
     fn_tbl[loc_tbl[sample.location_id[i]].function_id].name]
Names(row) == [i \in DOMAIN Symbols(row) |-> Symbols(row)[i].name]

\* The samples give back the rows: each is the sample of exactly one row, with its
\* stack of names, its thread and its count, though the tables grow after it.
Faithful ==
  LET Decoded(x) == <<Stack(x), x.label, x.value[1]>>
      Original(row) == <<Names(row), row.thread, data[row]>>
      Encodings(rows) == {Original(row) : row \in rows}
  IN  /\ Len(samples) = Cardinality(DOMAIN data \ remaining)
      /\ {Decoded(samples[i]) : i \in DOMAIN samples}
           = Encodings(DOMAIN data \ remaining)

\* Every string a table refers to was entered before: no lookup ever panics.
StringsFound ==
  /\ \A i \in DOMAIN fn_tbl :
       {fn_tbl[i].name, fn_tbl[i].system_name, fn_tbl[i].filename} \subseteq strings
  /\ \A i \in DOMAIN samples : samples[i].label \in strings
=============================================================================
