----------------------------- MODULE PprofProofs -----------------------------
(***************************************************************************)
(* Pprof, for any reports: the tables a profile is made of are well formed *)
(* and its samples give the rows back.                                     *)
(***************************************************************************)
EXTENDS Pprof, SequenceTheorems, FiniteSetTheorems, WellFoundedInduction, TLAPS

-----------------------------------------------------------------------------
(* From one symbol to the next                                              *)

Less == {p \in Nat \X Nat : p[1] < p[2]}

\* Induction over the places of a list, for a predicate given as a function.
LEMMA UpTo ==
  ASSUME NEW N \in Nat, NEW P, P[0], \A n \in 0..N : n # N /\ P[n] => P[n + 1]
  PROVE  \A n \in 0..N : P[n]
<1> DEFINE I == {n \in 0..N : ~P[n]}
<1> SUFFICES ASSUME I # {}
             PROVE  FALSE
  OBVIOUS
<1>1. IsWellFoundedOn(Less, Nat)
  BY NatLessThanWellFounded, Zenon DEF Less, OpToRel
<1>2. I \in SUBSET Nat
  OBVIOUS
<1>3. PICK x \in I : \A y \in I : ~(<<y, x>> \in Less)
  BY <1>1, <1>2, WFMin
<1>4. x \in 0..N /\ ~P[x] /\ x # 0
  OBVIOUS
<1>5. x - 1 \in 0..N /\ x - 1 # N /\ (x - 1) + 1 = x
  BY <1>4
<1>6. P[x - 1]
  <2>1. <<x - 1, x>> \in Less
    BY <1>4, <1>5 DEF Less
  <2> QED
    BY <1>3, <1>5, <2>1
<1> QED
  BY <1>4, <1>5, <1>6

\* What has been encoded before the first symbol of a row.
Start ==
  [functions |-> functions, fn_tbl |-> fn_tbl, loc_tbl |-> loc_tbl, locs |-> <<>>]

\* acc is what has been encoded after each symbol of the row.
Folds(acc, row, n) ==
  acc = [i \in 0..n |-> IF i = 0 THEN Start ELSE AddSymbol(acc[i - 1], Symbols(row)[i])]

LEMMA Folding ==
  ASSUME NEW row, NEW N \in Nat, N = Len(Symbols(row))
  PROVE  \E acc : Folds(acc, row, N) /\ Encoded(row) = acc[N]
<1> DEFINE P == [n \in 0..N |-> \E acc : Folds(acc, row, n)]
<1>1. P[0]
  <2> DEFINE acc == [i \in 0..0 |-> Start]
  <2>1. Folds(acc, row, 0)
    BY DEF Folds
  <2> QED
    BY <2>1
<1>2. ASSUME NEW n \in 0..N, n # N, P[n]
      PROVE  P[n + 1]
  <2>1. PICK acc : Folds(acc, row, n)
    BY <1>2
  <2> DEFINE more == [i \in 0..(n + 1) |-> IF i = n + 1
                                           THEN AddSymbol(acc[n], Symbols(row)[n + 1])
                                           ELSE acc[i]]
  <2>2. \A i \in 0..n : acc[i] = IF i = 0 THEN Start
                                 ELSE AddSymbol(acc[i - 1], Symbols(row)[i])
    BY <2>1 DEF Folds
  <2>3. \A i \in 0..n : more[i] = acc[i]
    OBVIOUS
  <2>4. ASSUME NEW i \in 0..(n + 1)
        PROVE  more[i] = IF i = 0 THEN Start
                         ELSE AddSymbol(more[i - 1], Symbols(row)[i])
    <3>1. CASE i = n + 1
      <4>1. more[i - 1] = acc[n] /\ i # 0
        BY <3>1, <2>3
      <4> QED
        BY <3>1, <4>1
    <3>2. CASE i # n + 1
      <4>1. i \in 0..n /\ (i # 0 => i - 1 \in 0..n)
        BY <3>2
      <4> HIDE DEF more
      <4> QED
        BY <4>1, <2>2, <2>3
    <3> QED
      BY <3>1, <3>2
  <2>5. Folds(more, row, n + 1)
    <3>1. more = [i \in 0..(n + 1) |-> more[i]]
      OBVIOUS
    <3> HIDE DEF more
    <3> QED
      BY <2>4, <3>1 DEF Folds
  <2>6. n + 1 \in 0..N
    BY <1>2
  <2> QED
    BY <2>5, <2>6
<1>3. \E acc : Folds(acc, row, N)
  <2> HIDE DEF P
  <2>1. \A n \in 0..N : P[n]
    BY <1>1, <1>2, UpTo
  <2>2. P[N]
    BY <2>1
  <2> QED
    BY <2>2 DEF P
<1> HIDE DEF P
<1> DEFINE acc == CHOOSE acc : Folds(acc, row, N)
<1>4. Folds(acc, row, N)
  BY <1>3, Zenon
<1>5. Encoded(row) = acc[N]
  BY DEF Encoded, Folds, Start
<1> QED
  BY <1>4, <1>5, Zenon

-----------------------------------------------------------------------------
(* One symbol                                                               *)

\* The symbols of some rows, and what the entries made of them can hold.
Met(rows) == UNION {ToSet(Symbols(row)) : row \in rows}
Functions == [id : Nat, name : strings, system_name : strings, filename : strings]
Locations ==
  [id : Nat, function_id : Nat, line : {x.lineno : x \in Met(DOMAIN data)}]

\* The tables describe the symbols met, one for each name, and functions finds it.
WellFormed(ids, fns, locs, met) ==
  /\ fns \in Seq(Functions) /\ locs \in Seq(Locations)
  /\ Len(locs) = Len(fns)
  /\ \A i \in 1..Len(fns) :
       /\ \E x \in met : fns[i] = Function(i, x) /\ locs[i] = Location(i, x)
       /\ fns[i].name \in DOMAIN ids /\ ids[fns[i].name] = i
  /\ \A name \in DOMAIN ids :
       ids[name] \in 1..Len(fns) /\ fns[ids[name]].name = name

Extends(old, new) ==
  Len(old) \in 0..Len(new) /\ \A i \in 1..Len(old) : new[i] = old[i]

\* A list of locations names the first n of the symbols, by a table of functions.
NamesFirst(places, n, symbols, fns) ==
  /\ places \in Seq(Nat) /\ Len(places) = n
  /\ \A i \in 1..n :
       places[i] \in 1..Len(fns) /\ fns[places[i]].name = symbols[i].name

\* How far n symbols of a row have come.
Along(acc, n, row) ==
  /\ acc \in [functions : {acc.functions}, fn_tbl : {acc.fn_tbl},
              loc_tbl : {acc.loc_tbl}, locs : {acc.locs}]
  /\ WellFormed(acc.functions, acc.fn_tbl, acc.loc_tbl,
                Met(DOMAIN data \ remaining) \cup {Symbols(row)[i] : i \in 1..n})
  /\ Extends(fn_tbl, acc.fn_tbl) /\ Extends(loc_tbl, acc.loc_tbl)
  /\ NamesFirst(acc.locs, n, Symbols(row), acc.fn_tbl)

Reported ==
  /\ data \in Reports /\ remaining \subseteq DOMAIN data
  /\ strings = Fixed \cup UNION {StringsOf(row) : row \in DOMAIN data}

LEMMA Typed ==
  ASSUME Reported, NEW row \in DOMAIN data
  PROVE  /\ Len(Symbols(row)) \in Nat
         /\ \A i \in 1..Len(Symbols(row)) :
              /\ Symbols(row)[i] \in ToSet(Symbols(row))
              /\ Symbols(row)[i] \in Met(DOMAIN data)
         /\ ToSet(Symbols(row)) = {Symbols(row)[i] : i \in 1..Len(Symbols(row))}
         /\ DOMAIN Symbols(row) = 1..Len(Symbols(row))
         /\ row.thread \in strings /\ data[row] \in Nat /\ IsFiniteSet(DOMAIN data)
<1>1. Symbols(row) \in Seq(ToSet(Symbols(row)))
  BY PprofAssumption DEF Reported
<1>2. DOMAIN Symbols(row) = 1..Len(Symbols(row)) /\ Len(Symbols(row)) \in Nat
  BY <1>1, LenProperties
<1>3. row.thread \in strings
  BY DEF Reported, StringsOf
<1>4. data[row] \in Nat /\ IsFiniteSet(DOMAIN data)
  BY PprofAssumption DEF Reported
<1>5. ToSet(Symbols(row)) = {Symbols(row)[i] : i \in 1..Len(Symbols(row))}
  BY <1>2, Zenon DEF ToSet
<1>6. ToSet(Symbols(row)) \subseteq Met(DOMAIN data)
  BY Zenon DEF Met
<1> QED
  BY <1>2, <1>3, <1>4, <1>5, <1>6

LEMMA Described ==
  ASSUME Reported, NEW x \in Met(DOMAIN data), NEW id \in Nat
  PROVE  Function(id, x) \in Functions /\ Location(id, x) \in Locations
<1>1. {x.name, x.sys_name, x.filename} \subseteq strings
  BY DEF Reported, Met, StringsOf
<1> QED
  BY <1>1 DEF Function, Location, Functions, Locations

LEMMA Wider ==
  ASSUME NEW ids, NEW fns, NEW locs, NEW met, NEW more, met \subseteq more,
         WellFormed(ids, fns, locs, met)
  PROVE  WellFormed(ids, fns, locs, more)
BY DEF WellFormed

\* A name met before.
LEMMA AddsKnown ==
  ASSUME Reported, NEW row \in DOMAIN data, NEW n \in Nat,
         n + 1 \in 1..Len(Symbols(row)), NEW acc, Along(acc, n, row),
         Symbols(row)[n + 1].name \in DOMAIN acc.functions
  PROVE  Along(AddSymbol(acc, Symbols(row)[n + 1]), n + 1, row)
<1> DEFINE x == Symbols(row)[n + 1]
           id == acc.functions[x.name]
           next == AddSymbol(acc, x)
<1>1. next = [acc EXCEPT !.locs = Append(@, id)]
  BY DEF AddSymbol
<1>2. /\ next.functions = acc.functions /\ next.fn_tbl = acc.fn_tbl
      /\ next.loc_tbl = acc.loc_tbl /\ next.locs = Append(acc.locs, id)
      /\ next \in [functions : {next.functions}, fn_tbl : {next.fn_tbl},
                   loc_tbl : {next.loc_tbl}, locs : {next.locs}]
  BY <1>1 DEF Along
<1>3. id \in 1..Len(acc.fn_tbl) /\ acc.fn_tbl[id].name = x.name
  BY DEF Along, WellFormed
<1>4. Len(acc.fn_tbl) \in Nat
  BY LenProperties DEF Along, WellFormed
<1> HIDE DEF next, id, x
<1>5. NamesFirst(next.locs, n + 1, Symbols(row), next.fn_tbl)
  <2>1. acc.locs \in Seq(Nat) /\ id \in Nat /\ Len(acc.locs) = n
    BY <1>3, <1>4 DEF Along, NamesFirst
  <2>2. /\ next.locs \in Seq(Nat) /\ Len(next.locs) = n + 1
        /\ \A i \in 1..n : next.locs[i] = acc.locs[i]
        /\ next.locs[n + 1] = id
    BY <1>2, <2>1, AppendProperties
  <2>3. \A i \in 1..(n + 1) : i \in 1..n \/ i = n + 1
    OBVIOUS
  <2> QED
    BY <1>2, <1>3, <2>2, <2>3 DEF Along, NamesFirst, x
<1>6. {Symbols(row)[i] : i \in 1..n} \subseteq {Symbols(row)[i] : i \in 1..(n + 1)}
  OBVIOUS
<1>7. WellFormed(next.functions, next.fn_tbl, next.loc_tbl,
                 Met(DOMAIN data \ remaining)
                   \cup {Symbols(row)[i] : i \in 1..(n + 1)})
  <2> DEFINE met == Met(DOMAIN data \ remaining) \cup {Symbols(row)[i] : i \in 1..n}
             more == Met(DOMAIN data \ remaining)
                       \cup {Symbols(row)[i] : i \in 1..(n + 1)}
  <2>1. WellFormed(acc.functions, acc.fn_tbl, acc.loc_tbl, met)
    BY DEF Along
  <2>2. met \subseteq more
    BY <1>6
  <2> HIDE DEF met, more
  <2>3. WellFormed(acc.functions, acc.fn_tbl, acc.loc_tbl, more)
    BY <2>1, <2>2, Wider
  <2>4. WellFormed(next.functions, next.fn_tbl, next.loc_tbl, more)
    BY <1>2, <2>3
  <2> QED
    BY <2>4 DEF more
<1>8. Along(next, n + 1, row)
  BY <1>2, <1>5, <1>7 DEF Along
<1> QED
  BY <1>8 DEF next, x

LEMMA Fields ==
  ASSUME NEW a, NEW b, NEW c, NEW d, NEW r,
         r = [functions |-> a, fn_tbl |-> b, loc_tbl |-> c, locs |-> d]
  PROVE  /\ r.functions = a /\ r.fn_tbl = b /\ r.loc_tbl = c /\ r.locs = d
         /\ r \in [functions : {r.functions}, fn_tbl : {r.fn_tbl},
                  loc_tbl : {r.loc_tbl}, locs : {r.locs}]
OBVIOUS

\* A new name.
LEMMA AddsNew ==
  ASSUME Reported, NEW row \in DOMAIN data, NEW n \in Nat,
         n + 1 \in 1..Len(Symbols(row)), NEW acc, Along(acc, n, row),
         Symbols(row)[n + 1].name \notin DOMAIN acc.functions
  PROVE  Along(AddSymbol(acc, Symbols(row)[n + 1]), n + 1, row)
<1> DEFINE x == Symbols(row)[n + 1]
           m == Len(acc.fn_tbl)
           id == m + 1
           next == AddSymbol(acc, x)
           met == Met(DOMAIN data \ remaining) \cup {Symbols(row)[i] : i \in 1..n}
           more == Met(DOMAIN data \ remaining)
                     \cup {Symbols(row)[i] : i \in 1..(n + 1)}
<1>1. next = [functions |-> [f \in DOMAIN acc.functions \cup {x.name} |->
                               IF f = x.name THEN id ELSE acc.functions[f]],
              fn_tbl |-> Append(acc.fn_tbl, Function(id, x)),
              loc_tbl |-> Append(acc.loc_tbl, Location(id, x)),
              locs |-> Append(acc.locs, id)]
  BY DEF AddSymbol, NextId
<1> HIDE DEF next
<1>2. /\ next.functions = [f \in DOMAIN acc.functions \cup {x.name} |->
                             IF f = x.name THEN id ELSE acc.functions[f]]
      /\ next.fn_tbl = Append(acc.fn_tbl, Function(id, x))
      /\ next.loc_tbl = Append(acc.loc_tbl, Location(id, x))
      /\ next.locs = Append(acc.locs, id)
      /\ next \in [functions : {next.functions}, fn_tbl : {next.fn_tbl},
                   loc_tbl : {next.loc_tbl}, locs : {next.locs}]
  BY <1>1, Fields, Zenon
<1>3. WellFormed(acc.functions, acc.fn_tbl, acc.loc_tbl, met)
  BY DEF Along
<1>4. m \in Nat /\ Len(acc.loc_tbl) = m
  BY <1>3, LenProperties DEF WellFormed
<1>5. x \in Met(DOMAIN data) /\ x \in more
  BY Typed
<1>6. met \subseteq more
  OBVIOUS
<1>7. Function(id, x) \in Functions /\ Location(id, x) \in Locations
  BY <1>4, <1>5, Described
<1>8. Function(id, x).name = x.name
  BY DEF Function
<1> HIDE DEF x, met, more, m
<1>9. /\ next.fn_tbl \in Seq(Functions) /\ Len(next.fn_tbl) = m + 1
      /\ \A i \in 1..m : next.fn_tbl[i] = acc.fn_tbl[i]
      /\ next.fn_tbl[m + 1] = Function(id, x)
  BY <1>2, <1>3, <1>7, AppendProperties DEF WellFormed, m
<1>10. /\ next.loc_tbl \in Seq(Locations) /\ Len(next.loc_tbl) = m + 1
       /\ \A i \in 1..m : next.loc_tbl[i] = acc.loc_tbl[i]
       /\ next.loc_tbl[m + 1] = Location(id, x)
  BY <1>2, <1>3, <1>4, <1>7, AppendProperties DEF WellFormed
<1>11. \A i \in 1..(m + 1) : i \in 1..m \/ i = m + 1
  BY <1>4
<1>12. WellFormed(next.functions, next.fn_tbl, next.loc_tbl, more)
  <2>1. \A i \in 1..(m + 1) : \E y \in more :
          next.fn_tbl[i] = Function(i, y) /\ next.loc_tbl[i] = Location(i, y)
    <3>1. ASSUME NEW i \in 1..m
          PROVE  \E y \in more : /\ next.fn_tbl[i] = Function(i, y)
                                /\ next.loc_tbl[i] = Location(i, y)
      <4>1. PICK y \in met : /\ acc.fn_tbl[i] = Function(i, y)
                             /\ acc.loc_tbl[i] = Location(i, y)
        BY <1>3 DEF WellFormed, m
      <4> QED
        BY <1>6, <1>9, <1>10, <4>1
    <3>2. /\ next.fn_tbl[m + 1] = Function(m + 1, x)
          /\ next.loc_tbl[m + 1] = Location(m + 1, x)
      BY <1>9, <1>10
    <3> QED
      BY <1>5, <1>11, <3>1, <3>2
  <2>2. \A i \in 1..m : acc.fn_tbl[i].name # x.name
    BY <1>3 DEF WellFormed, m, x
  <2>3. \A i \in 1..(m + 1) :
          /\ next.fn_tbl[i].name \in DOMAIN next.functions
          /\ next.functions[next.fn_tbl[i].name] = i
    <3>1. ASSUME NEW i \in 1..m
          PROVE  /\ next.fn_tbl[i].name \in DOMAIN next.functions
                 /\ next.functions[next.fn_tbl[i].name] = i
      <4>1. next.fn_tbl[i] = acc.fn_tbl[i]
        BY <1>9
      <4>2. /\ acc.fn_tbl[i].name \in DOMAIN acc.functions
            /\ acc.functions[acc.fn_tbl[i].name] = i
        BY <1>3 DEF WellFormed, m
      <4>3. acc.fn_tbl[i].name # x.name
        BY <2>2
      <4>4. next.functions[acc.fn_tbl[i].name] = i
        BY <1>2, <4>2, <4>3
      <4> QED
        BY <1>2, <4>1, <4>2, <4>4
    <3>2. /\ next.fn_tbl[m + 1].name \in DOMAIN next.functions
          /\ next.functions[next.fn_tbl[m + 1].name] = m + 1
      BY <1>2, <1>8, <1>9
    <3> QED
      BY <1>11, <3>1, <3>2
  <2>4. \A f \in DOMAIN next.functions :
          /\ next.functions[f] \in 1..(m + 1)
          /\ next.fn_tbl[next.functions[f]].name = f
    <3>1. DOMAIN next.functions = DOMAIN acc.functions \cup {x.name}
      BY <1>2
    <3>2. ASSUME NEW f \in DOMAIN acc.functions, f # x.name
          PROVE  /\ next.functions[f] \in 1..(m + 1)
                 /\ next.fn_tbl[next.functions[f]].name = f
      <4>1. next.functions[f] = acc.functions[f]
        BY <1>2, <3>2
      <4>2. acc.functions[f] \in 1..m /\ acc.fn_tbl[acc.functions[f]].name = f
        BY <1>3 DEF WellFormed, m
      <4> QED
        BY <1>4, <1>9, <4>1, <4>2
    <3>3. /\ next.functions[x.name] = m + 1 /\ m + 1 \in 1..(m + 1)
          /\ next.fn_tbl[m + 1].name = x.name
      BY <1>2, <1>4, <1>8, <1>9
    <3> QED
      BY <3>1, <3>2, <3>3
  <2> QED
    BY <1>9, <1>10, <2>1, <2>3, <2>4 DEF WellFormed
<1>13. Extends(fn_tbl, next.fn_tbl) /\ Extends(loc_tbl, next.loc_tbl)
  <2>1. ASSUME NEW old, NEW mid, NEW new, Extends(old, mid), Len(mid) = m,
               Len(new) = m + 1, \A i \in 1..m : new[i] = mid[i]
        PROVE  Extends(old, new)
    <3>1. /\ Len(old) \in 0..m /\ \A i \in 1..Len(old) : mid[i] = old[i]
      BY <2>1 DEF Extends
    <3>2. Len(old) \in 0..(m + 1) /\ \A i \in 1..Len(old) : i \in 1..m
      BY <1>4, <3>1
    <3> QED
      BY <2>1, <3>1, <3>2 DEF Extends
  <2>2. Extends(fn_tbl, acc.fn_tbl) /\ Extends(loc_tbl, acc.loc_tbl)
    BY DEF Along
  <2>3. Len(acc.fn_tbl) = m
    BY DEF m
  <2>4. Extends(fn_tbl, next.fn_tbl)
    BY <1>9, <2>1, <2>2, <2>3
  <2>5. Extends(loc_tbl, next.loc_tbl)
    BY <1>4, <1>10, <2>1, <2>2
  <2> QED
    BY <2>4, <2>5
<1>14. NamesFirst(next.locs, n + 1, Symbols(row), next.fn_tbl)
  <2>1. /\ acc.locs \in Seq(Nat) /\ id \in Nat /\ Len(acc.locs) = n
        /\ \A i \in 1..n : /\ acc.locs[i] \in 1..m
                          /\ acc.fn_tbl[acc.locs[i]].name = Symbols(row)[i].name
    BY <1>4 DEF Along, NamesFirst, m
  <2>2. /\ next.locs \in Seq(Nat) /\ Len(next.locs) = n + 1
        /\ \A i \in 1..n : next.locs[i] = acc.locs[i]
        /\ next.locs[n + 1] = id
    BY <1>2, <2>1, AppendProperties
  <2>3. \A i \in 1..(n + 1) : i \in 1..n \/ i = n + 1
    OBVIOUS
  <2>4. ASSUME NEW i \in 1..(n + 1)
        PROVE  /\ next.locs[i] \in 1..(m + 1)
               /\ next.fn_tbl[next.locs[i]].name = Symbols(row)[i].name
    <3>1. CASE i \in 1..n
      <4>1. /\ next.locs[i] = acc.locs[i] /\ acc.locs[i] \in 1..m
            /\ acc.fn_tbl[acc.locs[i]].name = Symbols(row)[i].name
        BY <2>1, <2>2, <3>1
      <4>2. next.fn_tbl[acc.locs[i]] = acc.fn_tbl[acc.locs[i]]
        BY <1>9, <4>1
      <4> QED
        BY <1>4, <4>1, <4>2
    <3>2. CASE i = n + 1
      BY <1>4, <1>8, <1>9, <2>2, <3>2 DEF x
    <3> QED
      BY <2>3, <3>1, <3>2
  <2> QED
    BY <1>9, <2>2, <2>4 DEF NamesFirst
<1>15. Along(next, n + 1, row)
  BY <1>2, <1>12, <1>13, <1>14 DEF Along, more
<1> QED
  BY <1>15 DEF next, x

-----------------------------------------------------------------------------
(* One row                                                                  *)

LEMMA Starts ==
  ASSUME NEW row, WellFormed(functions, fn_tbl, loc_tbl, Met(DOMAIN data \ remaining))
  PROVE  Along(Start, 0, row)
<1>1. /\ Start.functions = functions /\ Start.fn_tbl = fn_tbl
      /\ Start.loc_tbl = loc_tbl /\ Start.locs = <<>>
      /\ Start \in [functions : {functions}, fn_tbl : {fn_tbl},
                    loc_tbl : {loc_tbl}, locs : {<<>>}]
  BY DEF Start
<1>2. Len(fn_tbl) \in Nat /\ Len(loc_tbl) \in Nat
  BY LenProperties DEF WellFormed
<1>3. Extends(fn_tbl, fn_tbl) /\ Extends(loc_tbl, loc_tbl)
  BY <1>2 DEF Extends
<1>4. NamesFirst(<<>>, 0, Symbols(row), fn_tbl)
  BY DEF NamesFirst
<1>5. Met(DOMAIN data \ remaining) \cup {Symbols(row)[i] : i \in 1..0}
        = Met(DOMAIN data \ remaining)
  OBVIOUS
<1> HIDE DEF Start
<1> QED
  BY <1>1, <1>3, <1>4, <1>5 DEF Along

LEMMA Encodes ==
  ASSUME Reported, NEW row \in DOMAIN data,
         WellFormed(functions, fn_tbl, loc_tbl, Met(DOMAIN data \ remaining))
  PROVE  Along(Encoded(row), Len(Symbols(row)), row)
<1> DEFINE N == Len(Symbols(row))
<1>1. N \in Nat
  BY Typed
<1>2. PICK acc : Folds(acc, row, N) /\ Encoded(row) = acc[N]
  BY <1>1, Folding
<1> DEFINE P == [n \in 0..N |-> Along(acc[n], n, row)]
<1>3. P[0]
  <2>1. acc[0] = Start
    BY <1>1, <1>2 DEF Folds
  <2>2. Along(Start, 0, row)
    BY Starts
  <2>3. 0 \in 0..N
    BY <1>1
  <2> QED
    BY <2>1, <2>2, <2>3, Zenon
<1>4. ASSUME NEW n \in 0..N, n # N, P[n]
      PROVE  P[n + 1]
  <2>1. n \in Nat /\ n + 1 \in 0..N /\ n + 1 \in 1..N /\ (n + 1) - 1 = n /\ n + 1 # 0
    BY <1>1, <1>4
  <2>2. acc[n + 1] = AddSymbol(acc[n], Symbols(row)[n + 1])
    <3>1. \A i \in 0..N : acc[i] = IF i = 0 THEN Start
                                   ELSE AddSymbol(acc[i - 1], Symbols(row)[i])
      BY <1>2 DEF Folds
    <3> HIDE DEF N
    <3> QED
      BY <2>1, <3>1
  <2>3. Along(acc[n], n, row)
    BY <1>4
  <2>4. Along(acc[n + 1], n + 1, row)
    BY <2>1, <2>2, <2>3, AddsKnown, AddsNew
  <2> QED
    BY <2>1, <2>4
<1>5. Along(acc[N], N, row)
  <2>1. P[N]
    <3> HIDE DEF P, N
    <3> QED
      BY <1>1, <1>3, <1>4, UpTo
  <2> QED
    BY <1>1, <2>1
<1> QED
  BY <1>2, <1>5

-----------------------------------------------------------------------------
(* The profile                                                              *)

Row == DOMAIN data \ remaining   \* the rows encoded so far

\* x is the sample of a row, by the tables as they are.
SampleOf(x, row) ==
  /\ NamesFirst(x.location_id, Len(Symbols(row)), Symbols(row), fn_tbl)
  /\ x.label = row.thread /\ x.value[1] = data[row]

Sample ==
  [location_id : Seq(Nat), label : strings,
   value : {Values(data[row]) : row \in DOMAIN data}]

\* The tables describe the symbols of the rows encoded, and every sample is read by
\* them as the one of its row, whenever it was encoded.
PprofInv ==
  /\ Reported
  /\ WellFormed(functions, fn_tbl, loc_tbl, Met(Row))
  /\ samples \in Seq(Sample) /\ Len(samples) = Cardinality(Row)
  /\ \A i \in 1..Len(samples) : \E row \in Row : SampleOf(samples[i], row)
  /\ \A row \in Row : \E i \in 1..Len(samples) : SampleOf(samples[i], row)

LEMMA PprofInit == Init => PprofInv
<1> SUFFICES ASSUME Init
             PROVE  PprofInv
  OBVIOUS
<1>1. /\ functions = <<>> /\ fn_tbl = <<>> /\ loc_tbl = <<>> /\ samples = <<>>
      /\ Row = {}
  BY DEF Init, Row
<1>2. Reported
  BY DEF Init, Reported
<1>3. WellFormed(functions, fn_tbl, loc_tbl, Met(Row))
  BY <1>1 DEF WellFormed
<1>4. Len(samples) = Cardinality(Row)
  BY <1>1, FS_EmptySet
<1> QED
  BY <1>1, <1>2, <1>3, <1>4 DEF PprofInv

\* The tables grow, and read as before.
LEMMA StillOf ==
  ASSUME NEW x, NEW row, SampleOf(x, row), Extends(fn_tbl, fn_tbl'), data' = data,
         Len(fn_tbl') \in Nat
  PROVE  SampleOf(x, row)'
<1>1. \A l \in 1..Len(fn_tbl) : l \in 1..Len(fn_tbl') /\ fn_tbl'[l] = fn_tbl[l]
  BY DEF Extends
<1> QED
  BY <1>1 DEF SampleOf, NamesFirst

LEMMA EncodeStep ==
  ASSUME PprofInv, NEW row \in DOMAIN data, Encode(row)
  PROVE  PprofInv'
<1> DEFINE e == Encoded(row)
           N == Len(Symbols(row))
<1> PICK x : x = [location_id |-> e.locs, label |-> row.thread,
                  value |-> Values(data[row])]
  OBVIOUS
<1>0. Reported /\ WellFormed(functions, fn_tbl, loc_tbl, Met(Row))
  BY DEF PprofInv
<1>1. Along(e, N, row)
  BY <1>0, Encodes DEF Row
<1>2. /\ row \in remaining /\ remaining' = remaining \ {row}
      /\ functions' = e.functions /\ fn_tbl' = e.fn_tbl /\ loc_tbl' = e.loc_tbl
      /\ samples' = Append(samples, x)
      /\ UNCHANGED <<data, strings>>
  BY DEF Encode
<1>3. /\ N \in Nat /\ row.thread \in strings /\ IsFiniteSet(DOMAIN data)
      /\ ToSet(Symbols(row)) = {Symbols(row)[i] : i \in 1..N}
  BY <1>0, Typed
<1> HIDE DEF e, N
<1>4. Reported'
  BY <1>0, <1>2 DEF Reported
<1>5. row \notin Row /\ Row' = Row \cup {row}
  BY <1>0, <1>2 DEF Row, Reported
<1>6. /\ WellFormed(e.functions, e.fn_tbl, e.loc_tbl,
                    Met(Row) \cup {Symbols(row)[i] : i \in 1..N})
      /\ Extends(fn_tbl, e.fn_tbl)
      /\ NamesFirst(e.locs, N, Symbols(row), e.fn_tbl)
  BY <1>1 DEF Along, Row
<1>7. Functions' = Functions /\ Locations' = Locations /\ Sample' = Sample
  BY <1>2 DEF Functions, Locations, Sample, Met
<1>8. WellFormed(functions, fn_tbl, loc_tbl, Met(Row))'
  <2>1. Met(Row)' = Met(Row) \cup {Symbols(row)[i] : i \in 1..N}
    BY <1>3, <1>5 DEF Met
  <2>2. WellFormed(e.functions, e.fn_tbl, e.loc_tbl, Met(Row)')
    BY <1>6, <2>1
  <2> QED
    BY <1>2, <1>7, <2>2 DEF WellFormed
<1>9. Extends(fn_tbl, fn_tbl') /\ Len(fn_tbl') \in Nat
  BY <1>2, <1>6, LenProperties DEF WellFormed
<1>10. x \in Sample
  BY <1>3, <1>6 DEF Sample, NamesFirst
<1>11. SampleOf(x, row)'
  <2>1. x.location_id = e.locs /\ x.label = row.thread /\ x.value[1] = data[row]
    BY DEF Values
  <2> QED
    BY <1>2, <1>6, <2>1 DEF SampleOf, NamesFirst, N
<1>12. /\ samples' \in Seq(Sample) /\ Len(samples) \in Nat
       /\ Len(samples') = Len(samples) + 1 /\ samples'[Len(samples) + 1] = x
       /\ \A i \in 1..Len(samples) : samples'[i] = samples[i]
  BY <1>2, <1>10, AppendProperties, LenProperties DEF PprofInv
<1>13. Len(samples') = Cardinality(Row')
  <2>1. IsFiniteSet(Row)
    BY <1>3, FS_Subset DEF Row
  <2>2. Cardinality(Row \cup {row}) = Cardinality(Row) + 1
    BY <1>5, <2>1, FS_AddElement
  <2> QED
    BY <1>5, <1>12, <2>2 DEF PprofInv
<1>14. \A y, r : SampleOf(y, r) => SampleOf(y, r)'
  BY <1>2, <1>9, StillOf
<1>15. ASSUME NEW i \in 1..Len(samples')
       PROVE  \E r \in Row' : SampleOf(samples[i], r)'
  <2>1. CASE i \in 1..Len(samples)
    <3>1. PICK r \in Row : SampleOf(samples[i], r)
      BY <2>1 DEF PprofInv
    <3>2. samples'[i] = samples[i]
      BY <1>12, <2>1
    <3> QED
      BY <1>5, <1>14, <3>1, <3>2
  <2>2. CASE i = Len(samples) + 1
    BY <1>5, <1>11, <1>12, <2>2
  <2> QED
    BY <1>12, <2>1, <2>2
<1>16. ASSUME NEW r \in Row'
       PROVE  \E i \in 1..Len(samples') : SampleOf(samples[i], r)'
  <2>1. CASE r \in Row
    <3>1. PICK i \in 1..Len(samples) : SampleOf(samples[i], r)
      BY <2>1 DEF PprofInv
    <3>2. samples'[i] = samples[i] /\ i \in 1..Len(samples')
      BY <1>12
    <3> QED
      BY <1>14, <3>1, <3>2
  <2>2. CASE r = row
    <3>1. PICK j \in 1..Len(samples') : samples'[j] = x
      BY <1>12
    <3>2. SampleOf(samples[j], row)'
      BY <1>11, <3>1
    <3> QED
      BY <2>2, <3>2
  <2> QED
    BY <1>5, <2>1, <2>2
<1> QED
  BY <1>4, <1>7, <1>8, <1>12, <1>13, <1>15, <1>16 DEF PprofInv

LEMMA PprofStep == PprofInv /\ [Next]_vars => PprofInv'
<1> SUFFICES ASSUME PprofInv, [Next]_vars
             PROVE  PprofInv'
  OBVIOUS
<1>1. CASE UNCHANGED vars
  <2>1. UNCHANGED <<data, strings, remaining, functions, fn_tbl, loc_tbl, samples>>
    BY <1>1 DEF vars
  <2>2. /\ Functions' = Functions /\ Locations' = Locations /\ Sample' = Sample
        /\ Row' = Row /\ Met(Row)' = Met(Row)
    BY <2>1 DEF Functions, Locations, Sample, Row, Met
  <2>3. Reported' /\ WellFormed(functions, fn_tbl, loc_tbl, Met(Row))'
    BY <2>1, <2>2 DEF PprofInv, Reported, WellFormed
  <2>4. \A x, row : SampleOf(x, row) => SampleOf(x, row)'
    BY <2>1 DEF SampleOf
  <2> QED
    BY <2>1, <2>2, <2>3, <2>4 DEF PprofInv
<1> QED
  BY <1>1, EncodeStep DEF Next, Done

LEMMA PprofInvariant == Spec => []PprofInv
BY PprofInit, PprofStep, PTL DEF Spec

\* The tables of every profile, whatever the report and the order of its rows, are
\* well formed at every point of the encoding.
THEOREM TablesRight == Spec => []Tables
<1> SUFFICES ASSUME PprofInv
             PROVE  Tables
  BY PprofInvariant, PTL
<1>1. WellFormed(functions, fn_tbl, loc_tbl, Met(Row))
  BY DEF PprofInv
<1>2. DOMAIN fn_tbl = 1..Len(fn_tbl)
  BY <1>1, LenProperties DEF WellFormed
<1>3. ASSUME NEW i \in DOMAIN fn_tbl
      PROVE  /\ functions[fn_tbl[i].name] = i
             /\ \E x \in Met(Row) : /\ fn_tbl[i] = Function(i, x)
                                    /\ loc_tbl[i] = Location(i, x)
  BY <1>1, <1>2, <1>3 DEF WellFormed
<1>4. Len(loc_tbl) = Len(fn_tbl)
  BY <1>1 DEF WellFormed
<1>5. \A i, j \in DOMAIN fn_tbl : fn_tbl[i].name = fn_tbl[j].name => i = j
  BY <1>3
<1> QED
  BY <1>3, <1>4, <1>5, Zenon DEF Tables, Met, Row

\* The first pass has entered every string the second looks up, whatever the report.
THEOREM Lookups == Spec => []StringsFound
<1> SUFFICES ASSUME PprofInv
             PROVE  StringsFound
  BY PprofInvariant, PTL
<1>1. fn_tbl \in Seq(Functions) /\ samples \in Seq(Sample)
  BY DEF PprofInv, WellFormed
<1>2. /\ \A i \in DOMAIN fn_tbl : fn_tbl[i] \in Functions
      /\ \A i \in DOMAIN samples : samples[i] \in Sample
  BY <1>1, ElementOfSeq, LenProperties
<1> QED
  BY <1>2 DEF StringsFound, Functions, Sample

\* Every row of every report is read back from its sample, and every sample is one
\* row's, whatever the tables gain after it.
THEOREM ReadBack == Spec => []Faithful
<1> SUFFICES ASSUME PprofInv
             PROVE  Faithful
  BY PprofInvariant, PTL
<1> DEFINE Decoded(x) == <<Stack(x), x.label, x.value[1]>>
           Original(row) == <<Names(row), row.thread, data[row]>>
<1>1. ASSUME NEW x, NEW row \in Row, SampleOf(x, row)
      PROVE  Decoded(x) = Original(row)
  <2>1. WellFormed(functions, fn_tbl, loc_tbl, Met(Row))
    BY DEF PprofInv
  <2>2. \A l \in 1..Len(fn_tbl) : loc_tbl[l].function_id = l
    <3>1. \A l, y : Location(l, y).function_id = l
      BY DEF Location
    <3>2. \A l \in 1..Len(fn_tbl) : \E y \in Met(Row) : loc_tbl[l] = Location(l, y)
      BY <2>1 DEF WellFormed
    <3> QED
      BY <3>1, <3>2
  <2>3. DOMAIN x.location_id = DOMAIN Symbols(row)
    <3>1. x.location_id \in Seq(Nat) /\ Len(x.location_id) = Len(Symbols(row))
      BY <1>1 DEF SampleOf, NamesFirst
    <3>2. DOMAIN Symbols(row) = 1..Len(Symbols(row))
      BY Typed DEF PprofInv, Row
    <3> QED
      BY <3>1, <3>2, LenProperties
  <2>4. DOMAIN Symbols(row) = 1..Len(Symbols(row))
    BY Typed DEF PprofInv, Row
  <2>5. \A i \in DOMAIN Symbols(row) :
          fn_tbl[loc_tbl[x.location_id[i]].function_id].name = Symbols(row)[i].name
    BY <1>1, <2>2, <2>4 DEF SampleOf, NamesFirst
  <2>6. Stack(x) = Names(row)
    BY <2>3, <2>5 DEF Stack, Names
  <2> QED
    BY <1>1, <2>6 DEF SampleOf
<1>2. samples \in Seq(Sample)
  BY DEF PprofInv
<1>3. DOMAIN samples = 1..Len(samples)
  BY <1>2, LenProperties
<1>4. {Decoded(samples[i]) : i \in DOMAIN samples} = {Original(row) : row \in Row}
  <2> HIDE DEF Decoded, Original
  <2> QED
    BY <1>1, <1>3 DEF PprofInv
<1> QED
  BY <1>4 DEF Faithful, PprofInv, Row
=============================================================================
