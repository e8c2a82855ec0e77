------------------------- MODULE AddrValidateProofs -------------------------
(***************************************************************************)
(* AddrValidate, for any threads, descriptors and pipes: that the pipe     *)
(* never fills up nor leaks, and what the answers are.                     *)
(***************************************************************************)
EXTENDS AddrValidate, FiniteSetTheorems, WellFoundedInduction, TLAPS

-----------------------------------------------------------------------------
(* Types                                                                    *)

\* The threads that may still create a pipe in the call they are in.
Creators == {t \in Threads : pc[t] \in {"validate", "reading", "open", "close_read",
                                        "between", "close_write", "create"}}

\* Every pipe was created in a call of its own, those in the descriptor table have
\* been created, and those that have not hold nothing.
KernelInv ==
  /\ pipes + Cardinality(Creators) <= calls
  /\ \A f \in Fds : fds[f] # Free => fds[f][2] <= pipes
  /\ \A p \in Pipes : p > pipes => content[p] = 0
TypeInv == TypeOK /\ KernelInv

LEMMA StepNames ==
  Steps = {"idle", "reading", "close_read", "close_write", "create", "store_read",
           "store_write", "writing", "validate", "open", "between", "drained"}
BY DEF Steps, LoadsRead, LoadsWrite

\* The four loads of a descriptor.
LEMMA LoadCases ==
  ASSUME NEW t \in Threads, Load(t)
  PROVE  \/ pc[t] = "validate" /\ fd' = [fd EXCEPT ![t] = read_fd] /\ Goto(t, "reading")
         \/ pc[t] = "open" /\ fd' = [fd EXCEPT ![t] = read_fd] /\ Goto(t, "close_read")
         \/ pc[t] = "between" /\ fd' = [fd EXCEPT ![t] = write_fd] /\ Goto(t, "close_write")
         \/ pc[t] = "drained" /\ fd' = [fd EXCEPT ![t] = write_fd] /\ Goto(t, "writing")
BY DEF Load, LoadsRead, LoadsWrite

\* A call of a null address, or of another that goes on.
LEMMA CallCases ==
  ASSUME NEW t \in Threads, Call(t)
  PROVE  /\ pc[t] = "idle" /\ calls < MaxCalls /\ calls' = calls + 1
         /\ UNCHANGED <<read_fd, write_fd, fds, content, pipes, fd, new, closes, closed>>
         /\ \/ /\ last' = [last EXCEPT ![t] = NoAnswer]
               /\ UNCHANGED <<pc, addr, raced>>
            \/ \E a \in {"mapped", "unmapped"} :
                 /\ addr' = [addr EXCEPT ![t] = a]
                 /\ last' = [last EXCEPT ![t] =
                      [addr |-> a, answer |-> FALSE, excused |-> closed]]
                 /\ raced' = (raced \/ \E v \in Others(t) : Opening(v))
                 /\ Goto(t, "validate")
<1>1. PICK a \in Addresses :
        IF a = "null"
        THEN /\ last' = [last EXCEPT ![t] = NoAnswer]
             /\ UNCHANGED <<pc, addr, raced>>
        ELSE /\ addr' = [addr EXCEPT ![t] = a]
             /\ last' = [last EXCEPT ![t] =
                  [addr |-> a, answer |-> FALSE, excused |-> closed]]
             /\ raced' = (raced \/ \E v \in Others(t) : Opening(v))
             /\ Goto(t, "validate")
  BY DEF Call
<1>2. CASE a = "null"
  BY <1>1, <1>2 DEF Call, pool
<1>3. CASE a # "null"
  <2>1. a \in {"mapped", "unmapped"}
    BY <1>3 DEF Addresses
  <2> QED
    BY <1>1, <1>3, <2>1 DEF Call, pool
<1> QED
  BY <1>2, <1>3

\* The numbers are well ordered, as a set of pairs.
Less == {ss \in Nat \X Nat : ss[1] < ss[2]}

LEMMA LeastNumber ==
  ASSUME NEW S \in SUBSET Nat, S # {}
  PROVE  \E f \in S : \A g \in S : f <= g
<1>1. IsWellFoundedOn(Less, Nat)
  BY NatLessThanWellFounded, Zenon DEF Less, OpToRel
<1>2. PICK f \in S : \A g \in S : ~(<<g, f>> \in Less)
  BY <1>1, WFMin
<1>3. ASSUME NEW g \in S
      PROVE  f <= g
  <2>1. f \in Nat /\ g \in Nat /\ <<g, f>> \in Nat \X Nat
    OBVIOUS
  <2>2. <<g, f>> \in Less <=> g < f
    BY <2>1 DEF Less
  <2> QED
    BY <1>2, <2>1, <2>2
<1> QED
  BY <1>3

\* The two descriptors that a pipe is given.
LEMMA TwoLowest ==
  ASSUME Cardinality(FreeFds) >= 2
  PROVE  LET r == Lowest(FreeFds)
             w == Lowest(FreeFds \ {r})
         IN  /\ r \in FreeFds /\ w \in FreeFds /\ r # w
             /\ r \in Fds /\ w \in Fds
<1> USE ValidateAssumption
<1> DEFINE r == Lowest(FreeFds)
           w == Lowest(FreeFds \ {r})
<1>1. IsFiniteSet(FreeFds) /\ FreeFds \subseteq Fds
  BY FS_Subset DEF FreeFds
<1>2. ASSUME NEW S \in SUBSET Fds, S # {}
      PROVE  Lowest(S) \in S
  <2>1. PICK f \in S : \A g \in S : f <= g
    BY <1>2, LeastNumber
  <2> QED
    BY <2>1 DEF Lowest
<1>3. r \in FreeFds
  BY <1>1, <1>2, FS_EmptySet
<1>4. FreeFds \ {r} # {}
  <2> HIDE DEF r, w
  <2>1. /\ Cardinality(FreeFds) \in Nat /\ IsFiniteSet(FreeFds \ {r})
        /\ Cardinality(FreeFds \ {r}) = Cardinality(FreeFds) - 1
    BY <1>1, <1>3, FS_RemoveElement, FS_CardinalityType
  <2>2. Cardinality(FreeFds \ {r}) # 0
    BY <2>1
  <2> QED
    BY <2>2, FS_EmptySet
<1>5. w \in FreeFds \ {r}
  BY <1>1, <1>2, <1>4
<1> QED
  BY <1>1, <1>3, <1>5

LEMMA TypeInit == Init => TypeInv
<1> SUFFICES ASSUME Init
             PROVE  TypeInv
  OBVIOUS
<1> USE ValidateAssumption
<1>1. TypeOK
  <2>1. /\ -1 \in Numbers /\ 0 \in 0..CAPACITY /\ 0 \in 0..MaxCalls /\ 0 \in 0..MaxCloses
        /\ "null" \in Addresses /\ "idle" \in Steps
    BY StepNames DEF Numbers, Addresses
  <2>2. NoAnswer \in [addr : Addresses, answer : BOOLEAN, excused : BOOLEAN]
    BY <2>1 DEF NoAnswer
  <2>3. <<-1, -1>> \in Numbers \X Numbers
    BY <2>1
  <2>4. pipes \in 0..calls
    BY DEF Init
  <2> QED
    BY <2>1, <2>2, <2>3, <2>4 DEF Init, TypeOK
<1>2. Creators = {}
  BY DEF Init, Creators
<1>3. KernelInv
  BY <1>2, FS_EmptySet DEF Init, KernelInv, Pipes
<1> QED
  BY <1>1, <1>3 DEF TypeInv

\* The pipes that may be created: a thread that leaves them, one that joins.
LEMMA CreatorsLeave ==
  ASSUME NEW t \in Threads, TypeOK, Creators' \subseteq Creators
  PROVE  /\ Cardinality(Creators') \in Nat /\ Cardinality(Creators) \in Nat
         /\ Cardinality(Creators') <= Cardinality(Creators)
         /\ t \in Creators /\ t \notin Creators' =>
              Cardinality(Creators') + 1 <= Cardinality(Creators)
<1>1. IsFiniteSet(Creators)
  BY ValidateAssumption, FS_Subset DEF Creators
<1>2. IsFiniteSet(Creators') /\ Cardinality(Creators') <= Cardinality(Creators)
  BY <1>1, FS_Subset
<1>3. Cardinality(Creators') \in Nat /\ Cardinality(Creators) \in Nat
  BY <1>1, <1>2, FS_CardinalityType
<1>4. ASSUME t \in Creators, t \notin Creators'
      PROVE  Cardinality(Creators') + 1 <= Cardinality(Creators)
  <2>1. /\ IsFiniteSet(Creators \ {t})
        /\ Cardinality(Creators \ {t}) = Cardinality(Creators) - 1
    BY <1>1, <1>4, FS_RemoveElement
  <2>2. Creators' \subseteq Creators \ {t}
    BY <1>4
  <2>3. Cardinality(Creators') <= Cardinality(Creators \ {t})
    BY <2>1, <2>2, FS_Subset
  <2> QED
    BY <1>3, <2>1, <2>3
<1> QED
  BY <1>2, <1>3, <1>4

LEMMA CreatorsJoin ==
  ASSUME NEW t \in Threads, TypeOK, Creators' \subseteq Creators \cup {t}
  PROVE  /\ Cardinality(Creators') \in Nat /\ Cardinality(Creators) \in Nat
         /\ Cardinality(Creators') <= Cardinality(Creators) + 1
<1>1. IsFiniteSet(Creators)
  BY ValidateAssumption, FS_Subset DEF Creators
<1>2. /\ IsFiniteSet(Creators \cup {t}) /\ Cardinality(Creators) \in Nat
      /\ Cardinality(Creators \cup {t}) <= Cardinality(Creators) + 1
  BY <1>1, FS_AddElement, FS_CardinalityType
<1>3. /\ IsFiniteSet(Creators')
      /\ Cardinality(Creators') <= Cardinality(Creators \cup {t})
  BY <1>2, FS_Subset
<1> QED
  BY <1>2, <1>3, FS_CardinalityType

\* The types of what a step changes; the pipes are counted apart.
LEMMA TypeStep ==
  ASSUME TypeInv, [Next]_vars, pipes' \in 0..calls'
  PROVE  TypeOK'
<1> USE ValidateAssumption, StepNames DEF TypeInv
<1>0. /\ Numbers = Fds \cup {-1} /\ \A p \in Pipes : p \in Nat
      /\ \A f \in Fds : fds[f] # Free => fds[f] \in Ends \X Pipes /\ PipeOf(f) \in Pipes
      /\ MaxCalls \in Nat /\ MaxCloses \in Nat /\ CAPACITY \in Nat
      /\ \A f \in Numbers, end \in Ends : Is(f, end) => PipeOf(f) \in Pipes
  BY DEF TypeOK, Numbers, Pipes, PipeOf, Is, Free, Ends
<1>1. CASE UNCHANGED vars
  BY <1>1 DEF vars, pool, history, TypeOK
<1>2. CASE CloseForeign
  <2>1. fds' \in [Fds -> {Free} \cup (Ends \X Pipes)]
    BY <1>2 DEF CloseForeign, TypeOK
  <2>2. last' \in [Threads -> [addr : Addresses, answer : BOOLEAN, excused : BOOLEAN]]
    <3>1. last \in [Threads -> [addr : Addresses, answer : BOOLEAN, excused : BOOLEAN]]
      BY DEF TypeOK
    <3>2. last' = [t \in Threads |->
                     [last[t] EXCEPT !.excused = @ \/ Calling(t)]]
      BY <1>2, Zenon DEF CloseForeign
    <3> QED
      BY <3>1, <3>2 DEF Calling
  <2>3. closes' \in 0..MaxCloses
    BY <1>2 DEF CloseForeign, TypeOK
  <2> QED
    BY <1>2, <2>1, <2>2, <2>3 DEF CloseForeign, TypeOK
<1>3. ASSUME NEW t \in Threads, Call(t)
      PROVE  TypeOK'
  <2>1. calls' \in 0..MaxCalls
    BY <1>0, <1>3, CallCases DEF TypeOK
  <2>2. UNCHANGED <<read_fd, write_fd, fds, content, pipes, fd, new, closes, closed>>
    BY <1>3, CallCases
  <2>3. CASE /\ last' = [last EXCEPT ![t] = NoAnswer]
             /\ UNCHANGED <<pc, addr, raced>>
    <3>1. NoAnswer \in [addr : Addresses, answer : BOOLEAN, excused : BOOLEAN]
      BY DEF NoAnswer, Addresses
    <3> QED
      BY <2>1, <2>2, <2>3, <3>1 DEF TypeOK
  <2>4. ASSUME NEW a \in {"mapped", "unmapped"},
               addr' = [addr EXCEPT ![t] = a],
               last' = [last EXCEPT ![t] =
                    [addr |-> a, answer |-> FALSE, excused |-> closed]],
               raced' = (raced \/ \E v \in Others(t) : Opening(v)),
               Goto(t, "validate")
        PROVE  TypeOK'
    <3>1. a \in Addresses /\ closed \in BOOLEAN
      BY DEF Addresses, TypeOK
    <3>2. [addr |-> a, answer |-> FALSE, excused |-> closed]
            \in [addr : Addresses, answer : BOOLEAN, excused : BOOLEAN]
      BY <3>1
    <3>3. last' \in [Threads -> [addr : Addresses, answer : BOOLEAN, excused : BOOLEAN]]
      BY <2>4, <3>2 DEF TypeOK
    <3>4. pc' \in [Threads -> Steps] /\ addr' \in [Threads -> Addresses]
      BY <2>4, <3>1 DEF TypeOK, Goto
    <3>5. raced' \in BOOLEAN
      BY <2>4
    <3> QED
      BY <2>1, <2>2, <3>3, <3>4, <3>5 DEF TypeOK
  <2> QED
    BY <1>3, <2>3, <2>4, CallCases
<1>4. ASSUME NEW t \in Threads, Load(t)
      PROVE  TypeOK'
  <2>1. \E step \in Steps, f \in Numbers :
          Goto(t, step) /\ fd' = [fd EXCEPT ![t] = f]
    BY <1>4, LoadCases DEF TypeOK
  <2>2. pc' \in [Threads -> Steps] /\ fd' \in [Threads -> Numbers]
    BY <2>1 DEF TypeOK, Goto
  <2> QED
    BY <1>4, <2>2 DEF Load, TypeOK, pool, history
<1>5. ASSUME NEW t \in Threads, Drain(t)
      PROVE  TypeOK'
  <2>1. pc' \in [Threads -> Steps]
    BY <1>5 DEF Drain, TypeOK, Goto
  <2>2. PipeOf(fd[t]) \in Pipes
    BY <1>0, <1>5 DEF Drain, TypeOK, Ends
  <2>3. content' \in [Pipes -> 0..CAPACITY]
    BY <1>0, <1>5, <2>2 DEF Drain, TypeOK, Left
  <2> QED
    BY <1>5, <2>1, <2>3 DEF Drain, TypeOK, history
<1>6. ASSUME NEW t \in Threads, ReadFails(t)
      PROVE  TypeOK'
  <2>1. pc' \in [Threads -> Steps] /\ raced' \in BOOLEAN
    BY <1>6 DEF ReadFails, TypeOK, Goto
  <2> QED
    BY <1>6, <2>1 DEF ReadFails, TypeOK, pool
<1>7. ASSUME NEW t \in Threads, Close(t)
      PROVE  TypeOK'
  <2>1. pc' \in [Threads -> Steps]
    BY <1>7 DEF Close, TypeOK, Goto
  <2>2. fds' \in [Fds -> {Free} \cup (Ends \X Pipes)]
    BY <1>7 DEF Close, CloseFd, TypeOK
  <2> QED
    BY <1>7, <2>1, <2>2 DEF Close, TypeOK, history
<1>8. ASSUME NEW t \in Threads, Create(t)
      PROVE  TypeOK'
  <2> DEFINE r == Lowest(FreeFds)
             w == Lowest(FreeFds \ {r})
  <2>1. /\ r \in Fds /\ w \in Fds
        /\ fds' = [fds EXCEPT ![r] = <<"read", pipes + 1>>, ![w] = <<"write", pipes + 1>>]
        /\ new' = [new EXCEPT ![t] = <<r, w>>]
    BY <1>8, TwoLowest DEF Create
  <2> HIDE DEF r, w
  <2>2. pipes + 1 \in Pipes /\ "read" \in Ends /\ "write" \in Ends
    <3>1. pipes' = pipes + 1 /\ calls' = calls /\ calls \in 0..MaxCalls /\ pipes \in Nat
      BY <1>8 DEF Create, history, TypeOK
    <3> QED
      BY <3>1 DEF Pipes, Ends
  <2>3. fds' \in [Fds -> {Free} \cup (Ends \X Pipes)]
    BY <2>1, <2>2 DEF TypeOK
  <2>4. new' \in [Threads -> Numbers \X Numbers]
    BY <1>0, <2>1 DEF TypeOK
  <2>5. pc' \in [Threads -> Steps]
    BY <1>8 DEF Create, TypeOK, Goto
  <2> QED
    BY <1>8, <2>3, <2>4, <2>5 DEF Create, TypeOK, history
<1>9. ASSUME NEW t \in Threads, CreateFails(t)
      PROVE  TypeOK'
  <2>1. pc' \in [Threads -> Steps]
    BY <1>9 DEF CreateFails, TypeOK, Goto
  <2>2. last' \in [Threads -> [addr : Addresses, answer : BOOLEAN, excused : BOOLEAN]]
    BY <1>9 DEF CreateFails, TypeOK
  <2> QED
    BY <1>9, <2>1, <2>2 DEF CreateFails, TypeOK, pool, history
<1>10. ASSUME NEW t \in Threads, StoreRead(t) \/ StoreWrite(t)
       PROVE  TypeOK'
  <2>1. pc' \in [Threads -> Steps]
    BY <1>10 DEF StoreRead, StoreWrite, TypeOK, Goto
  <2>2. new[t][1] \in Numbers /\ new[t][2] \in Numbers
    BY DEF TypeOK
  <2> QED
    BY <1>10, <2>1, <2>2 DEF StoreRead, StoreWrite, TypeOK, pool, history
<1>11. ASSUME NEW t \in Threads, Write(t)
       PROVE  TypeOK'
  <2>1. pc' \in [Threads -> Steps]
    BY <1>11 DEF Write, Return, TypeOK, Goto
  <2>2. Accepts(fd[t], addr[t]) \in BOOLEAN
    BY DEF Accepts, Is, Open
  <2>3. last' \in [Threads -> [addr : Addresses, answer : BOOLEAN, excused : BOOLEAN]]
    BY <1>11, <2>2 DEF Write, Return, TypeOK
  <2>4. content' \in [Pipes -> 0..CAPACITY]
    <3>1. CASE Accepts(fd[t], addr[t])
      <4>1. PipeOf(fd[t]) \in Pipes /\ content[PipeOf(fd[t])] < CAPACITY
        BY <1>0, <3>1 DEF Accepts, TypeOK, Ends
      <4> QED
        BY <1>0, <1>11, <3>1, <4>1 DEF Write, TypeOK
    <3>2. CASE ~Accepts(fd[t], addr[t])
      BY <1>11, <3>2 DEF Write, TypeOK
    <3> QED
      BY <3>1, <3>2
  <2> QED
    BY <1>11, <2>1, <2>3, <2>4 DEF Write, TypeOK, history
<1> QED
  BY <1>1, <1>2, <1>3, <1>4, <1>5, <1>6, <1>7, <1>8, <1>9, <1>10, <1>11
  DEF Next, Step, Ended

LEMMA KernelStep ==
  ASSUME TypeInv, [Next]_vars
  PROVE  KernelInv' /\ pipes' \in 0..calls'
<1> USE ValidateAssumption DEF TypeInv
<1>0. /\ \A p \in Pipes : p \in Nat /\ content[p] \in Nat
      /\ pipes \in Nat /\ calls \in Nat /\ MaxCalls \in Nat
      /\ \A f \in Fds : fds[f] # Free => PipeOf(f) \in Pipes /\ PipeOf(f) <= pipes
      /\ \A f \in Numbers, end \in Ends : Is(f, end) => fds[f] # Free
      /\ Cardinality(Creators) \in Nat /\ pipes + Cardinality(Creators) <= calls
      /\ pipes <= calls /\ calls <= MaxCalls
  <2>1. Cardinality(Creators) \in Nat
    BY FS_Subset, FS_CardinalityType DEF Creators
  <2> QED
    BY <2>1 DEF TypeOK, KernelInv, Pipes, PipeOf, Is, Free, Ends
<1>1. CASE UNCHANGED <<pc, fds, content, pipes, calls>>
  <2>1. Creators' = Creators
    BY <1>1 DEF Creators
  <2> QED
    BY <1>0, <1>1, <2>1 DEF KernelInv
<1>2. CASE CloseForeign
  <2>1. Creators' = Creators /\ UNCHANGED <<content, pipes, calls>>
    BY <1>2 DEF Creators, CloseForeign
  <2>2. \A f \in Fds : fds'[f] # Free => fds'[f] = fds[f]
    BY <1>2 DEF CloseForeign, TypeOK
  <2> QED
    BY <1>0, <2>1, <2>2 DEF KernelInv
<1>3. ASSUME NEW t \in Threads, Call(t)
      PROVE  KernelInv' /\ pipes' \in 0..calls'
  <2>1. Creators' \subseteq Creators \cup {t}
    BY <1>3, CallCases DEF Creators, Goto, TypeOK
  <2>2. /\ Cardinality(Creators') \in Nat
        /\ Cardinality(Creators') <= Cardinality(Creators) + 1
    BY <2>1, CreatorsJoin
  <2>3. calls' = calls + 1 /\ UNCHANGED <<fds, content, pipes>>
    BY <1>3, CallCases
  <2> QED
    BY <1>0, <2>2, <2>3 DEF KernelInv
<1>4. ASSUME NEW t \in Threads, Create(t)
      PROVE  KernelInv' /\ pipes' \in 0..calls'
  <2> DEFINE r == Lowest(FreeFds)
             w == Lowest(FreeFds \ {r})
  <2>1. /\ fds' = [fds EXCEPT ![r] = <<"read", pipes + 1>>, ![w] = <<"write", pipes + 1>>]
        /\ r \in Fds /\ w \in Fds
        /\ pipes' = pipes + 1 /\ UNCHANGED <<content, calls>> /\ Goto(t, "store_read")
        /\ pc[t] = "create"
    BY <1>4, TwoLowest DEF Create, history
  <2> HIDE DEF r, w
  <2>2. Creators' \subseteq Creators /\ t \in Creators /\ t \notin Creators'
    BY <2>1 DEF Creators, Goto, TypeOK
  <2>3. /\ Cardinality(Creators') \in Nat
        /\ Cardinality(Creators') + 1 <= Cardinality(Creators)
    BY <2>2, CreatorsLeave
  <2>4. pipes' + Cardinality(Creators') <= calls' /\ pipes' <= calls'
    BY <1>0, <2>1, <2>3
  <2>5. \A f \in Fds : fds'[f] = fds[f] \/ fds'[f][2] = pipes + 1
    BY <2>1 DEF TypeOK
  <2>6. \A f \in Fds : fds'[f] # Free => fds'[f][2] <= pipes'
    <3>1. \A f \in Fds : fds[f] # Free => fds[f][2] \in Nat /\ fds[f][2] <= pipes
      BY <1>0 DEF PipeOf
    <3>2. pipes' = pipes + 1 /\ pipes \in Nat
      BY <1>0, <2>1
    <3>3. ASSUME NEW f \in Fds, fds'[f] # Free
          PROVE  fds'[f][2] <= pipes'
      <4>1. CASE fds'[f] = fds[f]
        BY <3>1, <3>2, <3>3, <4>1
      <4>2. CASE fds'[f][2] = pipes + 1
        BY <3>2, <4>2
      <4> QED
        BY <2>5, <4>1, <4>2
    <3> QED
      BY <3>3
  <2>7. \A p \in Pipes : p > pipes' => content'[p] = 0
    BY <1>0, <2>1 DEF KernelInv
  <2> QED
    <3>1. pipes' \in 0..calls'
      BY <1>0, <2>1, <2>4
    <3> QED
      BY <2>4, <2>6, <2>7, <3>1 DEF KernelInv
<1>5. ASSUME NEW t \in Threads,
             Load(t) \/ ReadFails(t) \/ Close(t) \/ CreateFails(t) \/ StoreRead(t) \/ StoreWrite(t)
      PROVE  KernelInv' /\ pipes' \in 0..calls'
  <2>1. UNCHANGED <<content, pipes, calls>>
    BY <1>5 DEF Load, ReadFails, Close, CreateFails, StoreRead, StoreWrite, pool, history
  <2>2. Creators' \subseteq Creators
    BY <1>5, LoadCases
    DEF ReadFails, Close, CreateFails, StoreRead, StoreWrite, Creators, Goto, TypeOK
  <2>3. /\ Cardinality(Creators') \in Nat
        /\ Cardinality(Creators') <= Cardinality(Creators)
    BY <2>2, CreatorsLeave
  <2>4. \A f \in Fds : fds'[f] # Free => fds'[f] = fds[f]
    BY <1>5 DEF Load, ReadFails, Close, CloseFd, CreateFails, StoreRead, StoreWrite, pool, TypeOK
  <2> QED
    BY <1>0, <2>1, <2>3, <2>4 DEF KernelInv
<1>6. ASSUME NEW t \in Threads, Drain(t) \/ Write(t)
      PROVE  KernelInv' /\ pipes' \in 0..calls'
  <2>1. UNCHANGED <<fds, pipes, calls>>
    BY <1>6 DEF Drain, Write, history
  <2>2. Creators' \subseteq Creators
    BY <1>6 DEF Drain, Write, Return, Creators, Goto, TypeOK
  <2>3. /\ Cardinality(Creators') \in Nat
        /\ Cardinality(Creators') <= Cardinality(Creators)
    BY <2>2, CreatorsLeave
  <2>4. \A p \in Pipes : content'[p] # content[p] => p <= pipes
    <3>1. CASE Drain(t)
      <4>1. content' = [content EXCEPT ![PipeOf(fd[t])] = Left(PipeOf(fd[t]))]
            /\ PipeOf(fd[t]) <= pipes
        BY <1>0, <3>1 DEF Drain, Ends, TypeOK, Is
      <4> QED
        BY <4>1 DEF TypeOK
    <3>2. CASE Write(t) /\ Accepts(fd[t], addr[t])
      <4>1. content' = [content EXCEPT ![PipeOf(fd[t])] = @ + 1]
            /\ PipeOf(fd[t]) <= pipes
        BY <1>0, <3>2 DEF Write, Accepts, Ends, TypeOK, Is
      <4> QED
        BY <4>1 DEF TypeOK
    <3>3. CASE Write(t) /\ ~Accepts(fd[t], addr[t])
      BY <3>3 DEF Write
    <3> QED
      BY <1>6, <3>1, <3>2, <3>3
  <2> QED
    BY <1>0, <2>1, <2>3, <2>4 DEF KernelInv
<1> QED
  BY <1>1, <1>2, <1>3, <1>4, <1>5, <1>6 DEF Next, Step, Ended, vars, pool, history

LEMMA TypeAlways == Spec => []TypeInv
<1>1. TypeInv /\ [Next]_vars => TypeInv'
  BY KernelStep, TypeStep DEF TypeInv
<1> QED
  BY <1>1, TypeInit, PTL DEF Spec

\* The descriptors, the pipes and what they hold keep to their types: however the calls
\* of validate() interleave, a pipe never holds more than it can, and no call opens more
\* than one.
THEOREM ValidateTypes == Spec => []TypeOK
BY TypeAlways, PTL DEF TypeInv

-----------------------------------------------------------------------------
(* Calls of which none overlaps one that opens the pipe                     *)

NoneOpening == \A t \in Threads : ~Opening(t)
OnlyUsed(S) == \A f \in Fds : fds[f] # Free => f \in S

\* What pipe2() gave a thread, less what the program has closed of it since.
NewPipe(t) ==
  LET r == new[t][1]
      w == new[t][2]
  IN  /\ r \in Fds /\ w \in Fds /\ r # w
      /\ OnlyUsed({r, w})
      /\ fds[r] \in {Free, <<"read", pipes>>}
      /\ fds[w] \in {Free, <<"write", pipes>>}
      /\ pipes \in Pipes /\ content[pipes] = 0

\* What a thread has loaded is what is stored.  While it opens the pipe, the descriptors
\* in use are the stored ones that it has not closed yet, or the new ones.
ThreadInv(t) ==
  /\ pc[t] \in {"reading", "close_read"} => fd[t] = read_fd
  /\ pc[t] \in {"writing", "close_write"} => fd[t] = write_fd
  /\ pc[t] \in {"open", "close_read"} => OnlyUsed({read_fd, write_fd})
  /\ pc[t] \in {"between", "close_write"} => OnlyUsed({write_fd})
  /\ pc[t] = "create" => OnlyUsed({})
  /\ pc[t] \in {"store_read", "store_write"} => NewPipe(t)
  /\ pc[t] = "store_write" => read_fd = new[t][1]

\* A thread that opens the pipe is alone, and otherwise only the stored descriptors
\* are in use.
AloneInv ==
  ~raced =>
    /\ \A t, v \in Threads : Opening(t) /\ Calling(v) => v = t
    /\ NoneOpening => OnlyUsed({read_fd, write_fd})
    /\ \A t \in Threads : ThreadInv(t)

\* The two stored descriptors are never of different pipes; and NeverFills.
FullInv ==
  /\ ~raced /\ NoneOpening /\ Is(read_fd, "read") /\ Is(write_fd, "write") =>
       PipeOf(read_fd) = PipeOf(write_fd)
  /\ NeverFills

\* The stored descriptors are the two ends of one pipe.
Whole ==
  /\ Is(read_fd, "read") /\ Is(write_fd, "write")
  /\ PipeOf(read_fd) = PipeOf(write_fd)
\* Reading will tell that there is no such pipe.
Broken ==
  Is(read_fd, "read") =>
    content[PipeOf(read_fd)] = 0 /\ ~Open("write", PipeOf(read_fd))

\* A call that nothing excuses was not misled: no end has been closed since the pipe was
\* opened, and once it is drained, or opened, there is a whole one to write to.
CallInv(t) ==
  Calling(t) =>
    /\ last[t].addr = addr[t]
    /\ ~last[t].excused => ~closed
HasPipe(t) ==
  /\ pc[t] \in {"drained", "writing"} => Whole
  /\ pc[t] \in {"store_read", "store_write"} =>
       /\ fds[new[t][1]] = <<"read", pipes>>
       /\ fds[new[t][2]] = <<"write", pipes>>
PipeInv(t) == ~raced /\ ~last[t].excused => HasPipe(t)
AnswerInv ==
  /\ \A t \in Threads : CallInv(t) /\ PipeInv(t)
  /\ ~raced /\ ~closed /\ NoneOpening => Whole \/ Broken
  /\ \A t \in Threads : last[t].answer => last[t].addr = "mapped"
  /\ Exact

LEMMA AloneInit == Init => AloneInv
BY DEF Init, AloneInv, ThreadInv, Opening, Calling, OnlyUsed

LEMMA Alone ==
  ASSUME AloneInv, ~raced, NEW t \in Threads, Opening(t)
  PROVE  \A v \in Threads : v # t => pc[v] = "idle"
BY DEF AloneInv, Calling

\* A step of a thread that does not open the pipe, nor any other.
LEMMA ClosedKeeps ==
  ASSUME TypeInv, AloneInv, ~raced, ~raced', NEW t \in Threads,
         Call(t) \/ Load(t) \/ Drain(t) \/ ReadFails(t) \/ Write(t)
  PROVE  AloneInv'
<1> USE DEF TypeInv
<1>1. /\ \A v \in Threads : v # t => pc'[v] = pc[v] /\ fd'[v] = fd[v]
      /\ UNCHANGED <<read_fd, write_fd, fds, pipes, new>>
  BY CallCases, LoadCases
  DEF Call, Load, Drain, ReadFails, Write, Goto, Return, pool, history, TypeOK
<1>2. Call(t) \/ Load(t) \/ ReadFails(t) => UNCHANGED content
  BY DEF Call, Load, ReadFails, pool
<1>3. CASE Opening(t)
  <2>1. \A v \in Threads : v # t => pc[v] = "idle"
    BY <1>3, Alone
  <2>2. Load(t) /\ UNCHANGED content
    BY <1>2, <1>3 DEF Opening, Calling, Call, Drain, ReadFails, Write
  <2>3. \/ pc[t] = "open" /\ pc'[t] = "close_read" /\ fd'[t] = read_fd
        \/ pc[t] = "between" /\ pc'[t] = "close_write" /\ fd'[t] = write_fd
    BY <1>3, <2>2, LoadCases DEF Opening, Calling, Goto, TypeOK
  <2>4. ThreadInv(t)' /\ Opening(t)'
    BY <1>1, <2>2, <2>3 DEF AloneInv, ThreadInv, OnlyUsed, Opening, Calling
  <2>5. \A v \in Threads : v # t => pc'[v] = "idle"
    BY <1>1, <2>1
  <2>6. \A v \in Threads : ThreadInv(v)'
    BY <2>4, <2>5 DEF ThreadInv
  <2>7. \A u, v \in Threads : Opening(u)' /\ Calling(v)' => v = u
    BY <2>5 DEF Opening, Calling
  <2> QED
    BY <2>4, <2>6, <2>7 DEF AloneInv, NoneOpening
<1>4. CASE ~Opening(t) /\ ReadFails(t)
  <2>1. /\ \A v \in Threads : v # t => pc[v] = "idle"
        /\ pc[t] = "reading" /\ pc'[t] = "open"
    BY <1>4 DEF ReadFails, Others, Calling, Goto, TypeOK
  <2>2. NoneOpening
    BY <2>1 DEF NoneOpening, Opening, Calling
  <2>3. OnlyUsed({read_fd, write_fd})'
    BY <1>1, <2>2 DEF AloneInv, OnlyUsed
  <2>4. ThreadInv(t)' /\ Opening(t)'
    BY <2>1, <2>3 DEF ThreadInv, Opening, Calling
  <2>5. \A v \in Threads : v # t => pc'[v] = "idle"
    BY <1>1, <2>1
  <2>6. \A v \in Threads : ThreadInv(v)'
    BY <2>4, <2>5 DEF ThreadInv
  <2>7. \A u, v \in Threads : Opening(u)' /\ Calling(v)' => v = u
    BY <2>5 DEF Opening, Calling
  <2> QED
    BY <2>4, <2>6, <2>7 DEF AloneInv, NoneOpening
<1>5. CASE ~Opening(t) /\ ~ReadFails(t)
  <2>1. \/ pc[t] = "idle" /\ pc'[t] = "idle" /\ Call(t)
        \/ pc[t] = "idle" /\ pc'[t] = "validate" /\ Call(t)
           /\ \A v \in Threads : v # t => ~Opening(v)
        \/ pc[t] = "validate" /\ pc'[t] = "reading" /\ fd'[t] = read_fd
        \/ pc[t] = "drained" /\ pc'[t] = "writing" /\ fd'[t] = write_fd
        \/ pc[t] = "reading" /\ pc'[t] = "drained"
        \/ pc[t] = "writing" /\ pc'[t] = "idle"
    <3>1. CASE Call(t)
      BY <3>1, CallCases DEF Goto, Others, TypeOK
    <3>2. CASE Load(t)
      BY <1>5, <3>2, LoadCases DEF Opening, Calling, Goto, TypeOK
    <3>3. CASE Drain(t)
      BY <3>3 DEF Drain, Goto, TypeOK
    <3>4. CASE Write(t)
      BY <3>4 DEF Write, Return, Goto, TypeOK
    <3> QED
      BY <1>5, <3>1, <3>2, <3>3, <3>4
  <2>2. ~Opening(t)' /\ \A v \in Threads : v # t => (Opening(v)' <=> Opening(v))
    BY <1>1, <2>1 DEF Opening, Calling
  <2>3. \A u, v \in Threads : Opening(u)' /\ Calling(v)' => v = u
    <3> SUFFICES ASSUME NEW u \in Threads, NEW v \in Threads, Opening(u)', Calling(v)'
                 PROVE  v = u
      OBVIOUS
    <3>1. u # t /\ Opening(u)
      BY <2>2
    <3>2. Calling(t) => FALSE
      BY <3>1 DEF AloneInv
    <3>3. ~Call(t) \/ pc'[t] = "idle"
      BY <2>1, <3>1, <3>2 DEF Calling
    <3>4. v # t
      BY <2>1, <3>2, <3>3 DEF Calling
    <3>5. Calling(v)
      BY <1>1, <3>4 DEF Calling
    <3> QED
      BY <3>1, <3>5 DEF AloneInv
  <2>4. NoneOpening' => OnlyUsed({read_fd, write_fd})'
    BY <1>1, <1>5, <2>2 DEF AloneInv, NoneOpening, OnlyUsed
  <2>5. ThreadInv(t)'
    BY <1>1, <2>1 DEF AloneInv, ThreadInv
  <2>6. ASSUME NEW v \in Threads, v # t
        PROVE  ThreadInv(v)'
    <3>1. CASE Calling(t)
      <4>1. ~Opening(v)
        BY <2>6, <3>1 DEF AloneInv
      <4> QED
        BY <1>1, <2>6, <4>1 DEF AloneInv, ThreadInv, Opening, Calling
    <3>2. CASE ~Calling(t)
      <4>1. UNCHANGED content
        BY <1>2, <2>1, <3>2 DEF Calling
      <4> QED
        BY <1>1, <2>6, <4>1 DEF AloneInv, ThreadInv, NewPipe, OnlyUsed
    <3> QED
      BY <3>1, <3>2
  <2> QED
    BY <2>3, <2>4, <2>5, <2>6 DEF AloneInv
<1> QED
  BY <1>3, <1>4, <1>5

\* The descriptors that a pipe is given: all there are, when none was in use.
LEMMA Created ==
  ASSUME TypeInv, NEW t \in Threads, Create(t)
  PROVE  LET r == new'[t][1]
             w == new'[t][2]
         IN  /\ r \in Fds /\ w \in Fds /\ r # w
             /\ fds' = [fds EXCEPT ![r] = <<"read", pipes + 1>>,
                                   ![w] = <<"write", pipes + 1>>]
             /\ fds[r] = Free /\ fds[w] = Free
             /\ pipes + 1 \in Pipes /\ content[pipes + 1] = 0
<1> DEFINE r == Lowest(FreeFds)
           w == Lowest(FreeFds \ {r})
<1>1. /\ r \in Fds /\ w \in Fds /\ r # w /\ r \in FreeFds /\ w \in FreeFds
      /\ fds' = [fds EXCEPT ![r] = <<"read", pipes + 1>>, ![w] = <<"write", pipes + 1>>]
      /\ new' = [new EXCEPT ![t] = <<r, w>>]
      /\ pipes' = pipes + 1
  BY TwoLowest DEF Create
<1> HIDE DEF r, w
<1>2. new'[t] = <<r, w>>
  BY <1>1 DEF TypeInv, TypeOK
<1>3. fds[r] = Free /\ fds[w] = Free
  BY <1>1 DEF FreeFds
<1>4. pipes + 1 \in Pipes
  <2>1. pipes \in Nat /\ pipes' \in 0..calls'
    BY KernelStep DEF TypeInv, TypeOK, Next, Step
  <2>2. calls' = calls /\ calls \in 0..MaxCalls
    BY DEF Create, history, TypeInv, TypeOK
  <2> QED
    BY <1>1, <2>1, <2>2, ValidateAssumption DEF Pipes
<1>5. content[pipes + 1] = 0
  BY <1>4, ValidateAssumption DEF TypeInv, TypeOK, KernelInv
<1>6. new'[t][1] = r /\ new'[t][2] = w
  BY <1>2
<1> QED
  BY <1>1, <1>3, <1>4, <1>5, <1>6

\* A step of the thread that opens the pipe.
LEMMA OpeningKeeps ==
  ASSUME TypeInv, AloneInv, ~raced, ~raced', NEW t \in Threads,
         Close(t) \/ Create(t) \/ CreateFails(t) \/ StoreRead(t) \/ StoreWrite(t)
  PROVE  AloneInv'
<1> USE DEF TypeInv
<1>1. Opening(t)
  BY DEF Close, Create, CreateFails, StoreRead, StoreWrite, Opening, Calling
<1>2. \A v \in Threads : v # t => pc'[v] = "idle"
  BY <1>1, Alone DEF Close, Create, CreateFails, StoreRead, StoreWrite, Goto, TypeOK
<1>3. \A u, v \in Threads : Opening(u)' /\ Calling(v)' => v = u
  BY <1>2 DEF Opening, Calling
<1>4. ASSUME NEW v \in Threads, v # t
      PROVE  ThreadInv(v)'
  BY <1>2, <1>4 DEF ThreadInv
<1>5. ThreadInv(t)
  BY DEF AloneInv
<1>6. ThreadInv(t)' /\ (~Opening(t)' => OnlyUsed({read_fd, write_fd})')
  <2>1. CASE Close(t)
    <3>1. /\ \/ pc[t] = "close_read" /\ pc'[t] = "between"
             \/ pc[t] = "close_write" /\ pc'[t] = "create"
          /\ \A f \in Fds : fds'[f] # Free => fds[f] # Free /\ f # fd[t]
          /\ UNCHANGED <<read_fd, write_fd>>
      BY <2>1 DEF Close, CloseFd, Goto, TypeOK
    <3> QED
      BY <1>5, <3>1 DEF ThreadInv, OnlyUsed, Opening, Calling
  <2>2. CASE Create(t)
    <3> DEFINE r == new'[t][1]
               w == new'[t][2]
    <3>1. /\ r \in Fds /\ w \in Fds /\ r # w
          /\ fds' = [fds EXCEPT ![r] = <<"read", pipes + 1>>, ![w] = <<"write", pipes + 1>>]
          /\ pipes + 1 \in Pipes /\ content[pipes + 1] = 0
      BY <2>2, Created
    <3> HIDE DEF r, w
    <3>2. /\ pc[t] = "create" /\ pc'[t] = "store_read" /\ pipes' = pipes + 1
          /\ content' = content
      BY <2>2 DEF Create, Goto, TypeOK
    <3>3. \A f \in Fds : fds[f] = Free
      BY <1>5, <3>2 DEF ThreadInv, OnlyUsed
    <3>4. /\ fds'[r] = <<"read", pipes + 1>> /\ fds'[w] = <<"write", pipes + 1>>
          /\ \A f \in Fds : f # r /\ f # w => fds'[f] = fds[f]
      BY <3>1 DEF TypeOK
    <3>5. \A f \in Fds : fds'[f] # Free => f \in {r, w}
      BY <3>3, <3>4
    <3>6. NewPipe(t)'
      BY <3>1, <3>2, <3>4, <3>5 DEF NewPipe, OnlyUsed, Pipes, r, w
    <3> QED
      BY <3>2, <3>6 DEF ThreadInv, Opening, Calling
  <2>3. CASE CreateFails(t)
    <3>1. pc[t] = "create" /\ pc'[t] = "idle" /\ fds' = fds
      BY <2>3 DEF CreateFails, Goto, TypeOK, pool
    <3> QED
      BY <1>5, <3>1 DEF ThreadInv, OnlyUsed
  <2>4. CASE StoreRead(t)
    <3>1. /\ pc[t] = "store_read" /\ pc'[t] = "store_write"
          /\ UNCHANGED <<fds, content, pipes, new>> /\ read_fd' = new[t][1]
      BY <2>4 DEF StoreRead, Goto, TypeOK, pool
    <3>2. NewPipe(t)'
      BY <1>5, <3>1 DEF ThreadInv, NewPipe, OnlyUsed
    <3> QED
      BY <3>1, <3>2 DEF ThreadInv, Opening, Calling
  <2>5. CASE StoreWrite(t)
    <3>1. /\ pc[t] = "store_write" /\ pc'[t] = "drained"
          /\ UNCHANGED <<read_fd, fds, content, pipes, new>> /\ write_fd' = new[t][2]
      BY <2>5 DEF StoreWrite, Goto, TypeOK, pool
    <3>2. NewPipe(t) /\ read_fd' = new[t][1]
      BY <1>5, <3>1 DEF ThreadInv
    <3>3. OnlyUsed({read_fd, write_fd})'
      BY <3>1, <3>2 DEF NewPipe, OnlyUsed
    <3> QED
      BY <3>1, <3>3 DEF ThreadInv
  <2> QED
    BY <2>1, <2>2, <2>3, <2>4, <2>5
<1> QED
  BY <1>3, <1>4, <1>6 DEF AloneInv, NoneOpening

LEMMA AloneStep ==
  ASSUME TypeInv, AloneInv, [Next]_vars
  PROVE  AloneInv'
<1>1. CASE UNCHANGED vars
  <2>1. UNCHANGED <<raced, pc, fds, content, pipes, fd, new, read_fd, write_fd>>
    BY <1>1 DEF vars, pool, history
  <2> QED
    BY <2>1 DEF AloneInv, ThreadInv, NewPipe, OnlyUsed, NoneOpening, Opening, Calling
<1>2. CASE CloseForeign
  <2>1. /\ UNCHANGED <<raced, pc, content, pipes, fd, new, read_fd, write_fd>>
        /\ \A f \in Fds : fds'[f] = fds[f] \/ fds'[f] = Free
    BY <1>2 DEF CloseForeign, TypeInv, TypeOK
  <2>2. \A S : OnlyUsed(S) => OnlyUsed(S)'
    BY <2>1 DEF OnlyUsed
  <2>3. \A t \in Threads : NewPipe(t) => NewPipe(t)'
    BY <2>1 DEF NewPipe, OnlyUsed
  <2>4. \A t \in Threads : ThreadInv(t) => ThreadInv(t)'
    BY <2>1, <2>3 DEF ThreadInv, OnlyUsed
  <2>5. OnlyUsed({read_fd, write_fd}) => OnlyUsed({read_fd, write_fd})'
    BY <2>1 DEF OnlyUsed
  <2> QED
    BY <2>1, <2>4, <2>5 DEF AloneInv, NoneOpening, Opening, Calling
<1>3. ASSUME NEW t \in Threads, Step(t)
      PROVE  AloneInv'
  <2>1. raced => raced'
    BY <1>3 DEF Step, Call, Load, Drain, ReadFails, Close, Create, CreateFails,
                StoreRead, StoreWrite, Write, history
  <2>2. CASE ~raced'
    BY <1>3, <2>1, <2>2, ClosedKeeps, OpeningKeeps DEF Step
  <2> QED
    BY <2>2 DEF AloneInv
<1> QED
  BY <1>1, <1>2, <1>3 DEF Next, Ended

\* Between calls only the stored descriptors of the pipe are in use: close() is called
\* for every other before a new pipe is created, unless two calls open it at once.
THEOREM Leaks == Spec => []NoLeak
<1>1. AloneInv => NoLeak
  BY DEF AloneInv, NoLeak, Idle, NoneOpening, Opening, OnlyUsed
<1>2. TypeInv /\ AloneInv /\ [Next]_vars => AloneInv'
  BY AloneStep
<1> QED
  BY <1>1, <1>2, AloneInit, TypeAlways, PTL DEF Spec

-----------------------------------------------------------------------------
(* What the pipe holds                                                      *)

LEMMA DrainedCount ==
  /\ IsFiniteSet(Drained) /\ Cardinality(Drained) \in Nat /\ Cardinality(Threads) \in Nat
  /\ Cardinality(Drained) <= Cardinality(Threads)
  /\ \A t \in Threads : t \notin Drained =>
       Cardinality(Drained) + 1 <= Cardinality(Threads)
<1> USE ValidateAssumption
<1>1. /\ IsFiniteSet(Drained) /\ Cardinality(Drained) \in Nat /\ Cardinality(Threads) \in Nat
      /\ Cardinality(Drained) <= Cardinality(Threads)
  BY FS_Subset, FS_CardinalityType DEF Drained
<1>2. ASSUME NEW t \in Threads, t \notin Drained
      PROVE  Cardinality(Drained) + 1 <= Cardinality(Threads)
  <2>1. Drained \in SUBSET Threads /\ Drained # Threads
    BY <1>2 DEF Drained
  <2>2. Cardinality(Drained) # Cardinality(Threads)
    BY <2>1, FS_Subset
  <2> QED
    BY <1>1, <2>2
<1> QED
  BY <1>1, <1>2

LEMMA FullInit == Init => FullInv
<1> SUFFICES ASSUME Init
             PROVE  FullInv
  OBVIOUS
<1>1. ~Is(-1, "read") /\ ~Is(-1, "write")
  BY ValidateAssumption DEF Is
<1> QED
  BY <1>1 DEF Init, FullInv, NeverFills

\* The stored descriptors go on being of the same pipe.
LEMMA SameStep ==
  ASSUME TypeInv, AloneInv, FullInv, [Next]_vars, ~raced', ~raced, NoneOpening',
         Is(read_fd, "read")', Is(write_fd, "write")'
  PROVE  PipeOf(read_fd)' = PipeOf(write_fd)'
<1> USE DEF TypeInv
<1>1. CASE /\ UNCHANGED <<read_fd, write_fd>> /\ NoneOpening
           /\ \A f \in Fds : fds'[f] = fds[f] \/ fds'[f] = Free
  <2>1. /\ read_fd \in Fds /\ write_fd \in Fds
        /\ fds'[read_fd] = fds[read_fd] /\ fds'[write_fd] = fds[write_fd]
    BY <1>1 DEF Is, Free
  <2> QED
    BY <1>1, <2>1 DEF FullInv, Is, PipeOf
<1>2. CASE UNCHANGED vars
  BY <1>1, <1>2 DEF vars, pool, NoneOpening, Opening, Calling
<1>3. CASE CloseForeign
  <2>1. \A f \in Fds : fds'[f] = fds[f] \/ fds'[f] = Free
    BY <1>3 DEF CloseForeign, TypeOK
  <2> QED
    BY <1>1, <1>3, <2>1 DEF CloseForeign, NoneOpening, Opening, Calling
<1>4. ASSUME NEW t \in Threads,
             Call(t) \/ Load(t) \/ Drain(t) \/ ReadFails(t) \/ Write(t)
      PROVE  PipeOf(read_fd)' = PipeOf(write_fd)'
  <2>1. UNCHANGED <<read_fd, write_fd, fds>>
    BY <1>4, CallCases DEF Load, Drain, ReadFails, Write, pool
  <2>2. ~Opening(t)
    <3>1. CASE Load(t)
      BY <3>1, LoadCases DEF NoneOpening, Opening, Calling, Goto, TypeOK
    <3> QED
      BY <1>4, <3>1, CallCases DEF Drain, ReadFails, Write, Opening, Calling
  <2>3. \A v \in Threads : v # t => pc'[v] = pc[v]
    BY <1>4, CallCases, LoadCases DEF Drain, ReadFails, Write, Goto, Return, TypeOK
  <2>4. NoneOpening
    BY <2>2, <2>3 DEF NoneOpening, Opening, Calling
  <2> QED
    BY <1>1, <2>1, <2>4
<1>5. ASSUME NEW t \in Threads, Close(t) \/ Create(t) \/ StoreRead(t)
      PROVE  FALSE
  BY <1>5 DEF Close, Create, StoreRead, Goto, TypeOK, NoneOpening, Opening, Calling
<1>6. ASSUME NEW t \in Threads, CreateFails(t)
      PROVE  FALSE
  <2>1. pc[t] = "create" /\ fds' = fds /\ read_fd' = read_fd
    BY <1>6 DEF CreateFails, pool
  <2>2. OnlyUsed({})
    BY <2>1 DEF AloneInv, ThreadInv
  <2> QED
    BY <2>1, <2>2 DEF OnlyUsed, Is, Free
<1>7. ASSUME NEW t \in Threads, StoreWrite(t)
      PROVE  PipeOf(read_fd)' = PipeOf(write_fd)'
  <2>1. /\ pc[t] = "store_write" /\ UNCHANGED <<fds, read_fd>> /\ write_fd' = new[t][2]
    BY <1>7 DEF StoreWrite, pool
  <2>2. NewPipe(t) /\ read_fd = new[t][1]
    BY <2>1 DEF AloneInv, ThreadInv
  <2> QED
    BY <2>1, <2>2 DEF NewPipe, Is, PipeOf, Free
<1> QED
  BY <1>2, <1>3, <1>4, <1>5, <1>6, <1>7 DEF Next, Step, Ended

LEMMA FillStep ==
  ASSUME TypeInv, AloneInv, FullInv, [Next]_vars, ~raced', ~raced, Is(write_fd, "write")'
  PROVE  content'[PipeOf(write_fd)'] + Cardinality(Drained') <= Cardinality(Threads)
<1> USE DEF TypeInv
<1>0. /\ Cardinality(Drained) \in Nat /\ Cardinality(Threads) \in Nat
      /\ Cardinality(Drained) <= Cardinality(Threads) /\ IsFiniteSet(Drained)
      /\ \A p \in Pipes : content[p] \in Nat
      /\ \A f \in Numbers, end \in Ends : Is(f, end) => PipeOf(f) \in Pipes
  BY DrainedCount, ValidateAssumption DEF TypeOK, Is, Free, Ends, PipeOf, Numbers
<1>1. CASE /\ UNCHANGED <<content, write_fd>> /\ Drained' = Drained
           /\ \A f \in Fds : fds'[f] = fds[f] \/ fds'[f] = Free
  <2>1. write_fd \in Fds /\ fds'[write_fd] = fds[write_fd]
    BY <1>1 DEF Is, Free
  <2> QED
    BY <1>1, <2>1 DEF FullInv, NeverFills, Is, PipeOf
<1>2. CASE UNCHANGED vars
  BY <1>1, <1>2 DEF vars, pool, Drained
<1>3. CASE CloseForeign
  <2>1. \A f \in Fds : fds'[f] = fds[f] \/ fds'[f] = Free
    BY <1>3 DEF CloseForeign, TypeOK
  <2> QED
    BY <1>1, <1>3, <2>1 DEF CloseForeign, Drained
<1>4. ASSUME NEW t \in Threads,
             Call(t) \/ Load(t) \/ ReadFails(t) \/ Close(t) \/ CreateFails(t) \/ StoreRead(t)
      PROVE  content'[PipeOf(write_fd)'] + Cardinality(Drained') <= Cardinality(Threads)
  <2>1. UNCHANGED <<content, write_fd>>
    BY <1>4, CallCases DEF Load, ReadFails, Close, CreateFails, StoreRead, pool
  <2>2. \A f \in Fds : fds'[f] = fds[f] \/ fds'[f] = Free
    BY <1>4, CallCases DEF Load, ReadFails, Close, CloseFd, CreateFails, StoreRead, pool, TypeOK
  <2>3. Drained' = Drained
    BY <1>4, CallCases, LoadCases
    DEF ReadFails, Close, CreateFails, StoreRead, Drained, Goto, TypeOK
  <2> QED
    BY <1>1, <2>1, <2>2, <2>3
<1>5. ASSUME NEW t \in Threads, Drain(t)
      PROVE  content'[PipeOf(write_fd)'] + Cardinality(Drained') <= Cardinality(Threads)
  <2>1. /\ pc[t] = "reading" /\ Is(fd[t], "read") /\ UNCHANGED <<fds, write_fd>>
        /\ content' = [content EXCEPT ![PipeOf(fd[t])] = Left(PipeOf(fd[t]))]
        /\ pc' = [pc EXCEPT ![t] = "drained"]
    BY <1>5 DEF Drain, Goto
  <2>2. fd[t] = read_fd
    BY <2>1 DEF AloneInv, ThreadInv
  <2>3. NoneOpening
    BY <2>1 DEF AloneInv, NoneOpening, Opening, Calling
  <2>4. PipeOf(write_fd)' = PipeOf(write_fd) /\ PipeOf(write_fd) = PipeOf(fd[t])
        /\ PipeOf(write_fd) \in Pipes /\ Is(write_fd, "write")
    BY <1>0, <2>1, <2>2, <2>3 DEF FullInv, Is, PipeOf, TypeOK, Ends
  <2>5. t \notin Drained /\ Drained' = Drained \cup {t}
    BY <2>1 DEF Drained, TypeOK
  <2>6. Cardinality(Drained') = Cardinality(Drained) + 1
    BY <1>0, <2>5, FS_AddElement
  <2>7. Cardinality(Drained') <= Cardinality(Threads)
    BY <2>5, <2>6, DrainedCount
  <2>8. content'[PipeOf(write_fd)] = Left(PipeOf(write_fd))
    BY <2>1, <2>4 DEF TypeOK
  <2>9. content[PipeOf(write_fd)] + Cardinality(Drained) <= Cardinality(Threads)
    BY <2>4 DEF FullInv, NeverFills
  <2> QED
    BY <1>0, <2>4, <2>6, <2>7, <2>8, <2>9 DEF Left
<1>6. ASSUME NEW t \in Threads, Create(t)
      PROVE  content'[PipeOf(write_fd)'] + Cardinality(Drained') <= Cardinality(Threads)
  <2> DEFINE r == new'[t][1]
             w == new'[t][2]
  <2>1. /\ r \in Fds /\ w \in Fds /\ r # w
        /\ fds' = [fds EXCEPT ![r] = <<"read", pipes + 1>>, ![w] = <<"write", pipes + 1>>]
        /\ pipes + 1 \in Pipes /\ content[pipes + 1] = 0
    BY <1>6, Created
  <2>2. /\ pc[t] = "create" /\ pc' = [pc EXCEPT ![t] = "store_read"]
        /\ UNCHANGED <<content, write_fd>>
    BY <1>6 DEF Create, Goto
  <2>3. \A f \in Fds : fds[f] = Free
    BY <2>2 DEF AloneInv, ThreadInv, OnlyUsed
  <2> HIDE DEF r, w
  <2>4. /\ fds'[r] = <<"read", pipes + 1>> /\ fds'[w] = <<"write", pipes + 1>>
        /\ \A f \in Fds : f # r /\ f # w => fds'[f] = fds[f]
    BY <2>1 DEF TypeOK
  <2>5. PipeOf(write_fd)' = pipes + 1
    BY <2>2, <2>3, <2>4 DEF Is, PipeOf, Free
  <2>6. Drained' = Drained
    BY <2>2 DEF Drained, TypeOK
  <2> QED
    BY <1>0, <2>1, <2>2, <2>5, <2>6
<1>7. ASSUME NEW t \in Threads, StoreWrite(t)
      PROVE  content'[PipeOf(write_fd)'] + Cardinality(Drained') <= Cardinality(Threads)
  <2>1. /\ pc[t] = "store_write" /\ UNCHANGED <<fds, content>> /\ write_fd' = new[t][2]
        /\ pc' = [pc EXCEPT ![t] = "drained"]
    BY <1>7 DEF StoreWrite, pool, Goto
  <2>2. NewPipe(t)
    BY <2>1 DEF AloneInv, ThreadInv
  <2>3. content'[PipeOf(write_fd)'] = 0
    BY <2>1, <2>2 DEF NewPipe, Is, PipeOf, Free
  <2>4. t \notin Drained /\ Drained' = Drained \cup {t}
    BY <2>1 DEF Drained, TypeOK
  <2>5. Cardinality(Drained') = Cardinality(Drained) + 1
    BY <1>0, <2>4, FS_AddElement
  <2> QED
    BY <1>0, <2>3, <2>4, <2>5, DrainedCount
<1>8. ASSUME NEW t \in Threads, Write(t)
      PROVE  content'[PipeOf(write_fd)'] + Cardinality(Drained') <= Cardinality(Threads)
  <2>1. /\ pc[t] = "writing" /\ UNCHANGED <<fds, write_fd>>
        /\ content' = IF Accepts(fd[t], addr[t])
                      THEN [content EXCEPT ![PipeOf(fd[t])] = @ + 1] ELSE content
        /\ pc' = [pc EXCEPT ![t] = "idle"]
    BY <1>8 DEF Write, Return, Goto
  <2>2. fd[t] = write_fd
    BY <2>1 DEF AloneInv, ThreadInv
  <2>3. /\ PipeOf(write_fd)' = PipeOf(write_fd) /\ Is(write_fd, "write")
        /\ PipeOf(write_fd) \in Pipes
    BY <1>0, <2>1 DEF Is, PipeOf, TypeOK, Ends
  <2>4. t \in Drained /\ Drained' = Drained \ {t}
    BY <2>1 DEF Drained, TypeOK
  <2>5. Cardinality(Drained') = Cardinality(Drained) - 1
    BY <1>0, <2>4, FS_RemoveElement
  <2>6. content'[PipeOf(write_fd)] <= content[PipeOf(write_fd)] + 1
        /\ content'[PipeOf(write_fd)] \in Nat
    BY <1>0, <2>1, <2>2, <2>3 DEF TypeOK
  <2>7. content[PipeOf(write_fd)] + Cardinality(Drained) <= Cardinality(Threads)
    BY <2>3 DEF FullInv, NeverFills
  <2> QED
    BY <1>0, <2>3, <2>5, <2>6, <2>7
<1> QED
  BY <1>2, <1>3, <1>4, <1>5, <1>6, <1>7, <1>8 DEF Next, Step, Ended

\* Threads that have raced go on having done so.
LEMMA RacedStays ==
  ASSUME [Next]_vars, raced
  PROVE  raced'
BY DEF Next, Step, Call, Load, Drain, ReadFails, Close, Create, CreateFails, StoreRead,
       StoreWrite, Write, CloseForeign, Ended, history, vars

LEMMA FullStep ==
  ASSUME TypeInv, AloneInv, FullInv, [Next]_vars
  PROVE  FullInv'
BY SameStep, FillStep, RacedStays DEF FullInv, NeverFills

LEMMA FullAlways == Spec => [](TypeInv /\ AloneInv /\ FullInv)
<1>1. Init => TypeInv /\ AloneInv /\ FullInv
  BY TypeInit, AloneInit, FullInit
<1>2. TypeInv /\ AloneInv /\ FullInv /\ [Next]_vars => (TypeInv /\ AloneInv /\ FullInv)'
  BY KernelStep, TypeStep, AloneStep, FullStep DEF TypeInv
<1> QED
  BY <1>1, <1>2, PTL DEF Spec

\* For any number of threads the pipe holds at most a write for each: what valid_read
\* drained is what the call's write() may add, however the calls interleave.
THEOREM Fills == Spec => []NeverFills
<1>1. FullInv => NeverFills
  BY DEF FullInv
<1> QED
  BY <1>1, FullAlways, PTL

-----------------------------------------------------------------------------
(* The answers                                                              *)

LEMMA AnswerInit == Init => AnswerInv
<1> SUFFICES ASSUME Init
             PROVE  AnswerInv
  OBVIOUS
<1>1. Broken
  BY ValidateAssumption DEF Init, Broken, Is
<1>2. \A t \in Threads : /\ last[t].excused = TRUE /\ last[t].answer = FALSE
                         /\ pc[t] = "idle"
  BY DEF Init, NoAnswer
<1> QED
  BY <1>1, <1>2 DEF AnswerInv, CallInv, PipeInv, HasPipe, Calling, Exact

\* An update of an answer.
LEMMA LastFields ==
  ASSUME TypeOK, NEW t \in Threads
  PROVE  /\ \A b \in BOOLEAN :
              LET next == [last EXCEPT ![t].answer = b]
              IN  /\ next[t].answer = b /\ next[t].addr = last[t].addr
                  /\ next[t].excused = last[t].excused
                  /\ \A v \in Threads : v # t => next[v] = last[v]
         /\ LET next == [last EXCEPT ![t].excused = TRUE]
            IN  /\ next[t].excused = TRUE
                /\ \A v \in Threads : v # t => next[v] = last[v]
BY DEF TypeOK

\* Reading tells a broken pipe, and writing to another leaves it so.
LEMMA DrainsWhole ==
  ASSUME TypeInv, AloneInv, AnswerInv, ~raced, ~closed, NEW t \in Threads, Drain(t)
  PROVE  Whole /\ UNCHANGED <<read_fd, write_fd, fds>>
<1> USE DEF TypeInv
<1>1. /\ pc[t] = "reading" /\ Is(fd[t], "read")
      /\ content[PipeOf(fd[t])] > 0 \/ Open("write", PipeOf(fd[t]))
      /\ UNCHANGED <<read_fd, write_fd, fds>>
  BY DEF Drain
<1>2. fd[t] = read_fd /\ NoneOpening
  BY <1>1 DEF AloneInv, ThreadInv, NoneOpening, Opening, Calling
<1>3. ~Broken
  BY <1>1, <1>2 DEF Broken
<1> QED
  BY <1>1, <1>2, <1>3 DEF AnswerInv

\* A write whose answer nothing excuses finds the pipe whole, and with room.
LEMMA WritesRight ==
  ASSUME Cardinality(Threads) <= CAPACITY,
         TypeInv, AloneInv, FullInv, AnswerInv, ~raced, NEW t \in Threads,
         pc[t] = "writing", ~last[t].excused
  PROVE  Accepts(fd[t], addr[t]) <=> addr[t] = "mapped"
<1> USE DEF TypeInv
<1>1. fd[t] = write_fd /\ Whole
  BY DEF AloneInv, ThreadInv, AnswerInv, PipeInv, HasPipe
<1> DEFINE p == PipeOf(write_fd)
<1>2. /\ Is(write_fd, "write") /\ read_fd \in Fds
      /\ fds[read_fd][1] = "read" /\ fds[read_fd][2] = p
  BY <1>1 DEF Whole, Is, PipeOf
<1>3. p \in Pipes /\ content[p] \in Nat /\ fds[read_fd] \in Ends \X Pipes
  BY <1>2, ValidateAssumption DEF TypeOK, Is, PipeOf, Free, Ends
<1>4. Open("read", p)
  <2>1. fds[read_fd] = <<fds[read_fd][1], fds[read_fd][2]>>
    BY <1>3
  <2>2. fds[read_fd] = <<"read", p>>
    BY <1>2, <2>1
  <2> QED
    BY <1>2, <2>2 DEF Open
<1>5. content[p] + Cardinality(Drained) <= Cardinality(Threads)
  BY <1>2 DEF FullInv, NeverFills
<1>6. Cardinality(Drained) # 0
  <2>1. Drained # {}
    BY DEF Drained
  <2> QED
    BY <2>1, DrainedCount, FS_EmptySet
<1>7. content[p] < CAPACITY
  <2>1. /\ Cardinality(Drained) \in Nat /\ Cardinality(Threads) \in Nat
        /\ CAPACITY \in Nat
    BY DrainedCount, ValidateAssumption
  <2> QED
    BY <1>3, <1>5, <1>6, <2>1
<1> QED
  BY <1>1, <1>2, <1>4, <1>7 DEF Accepts

\* What a call knows of itself.
LEMMA CallStep ==
  ASSUME TypeInv, AnswerInv, [Next]_vars, NEW v \in Threads
  PROVE  CallInv(v)'
<1> USE DEF TypeInv
<1>1. CallInv(v)
  BY DEF AnswerInv
<1>2. CASE UNCHANGED <<addr, closed>> /\ last'[v] = last[v] /\ (Calling(v)' => Calling(v))
  BY <1>1, <1>2 DEF CallInv
<1>3. CASE UNCHANGED vars
  BY <1>2, <1>3 DEF vars, history, Calling
<1>4. CASE CloseForeign
  <2>1. Calling(v)' => Calling(v) /\ last'[v].excused = TRUE /\ last'[v].addr = last[v].addr
    <3>1. last'[v] = [last[v] EXCEPT !.excused = @ \/ Calling(v)] /\ pc' = pc
      BY <1>4 DEF CloseForeign
    <3>2. last[v] \in [addr : Addresses, answer : BOOLEAN, excused : BOOLEAN]
      BY DEF TypeOK
    <3>3. /\ last'[v].addr = last[v].addr
          /\ last'[v].excused = (last[v].excused \/ Calling(v))
      BY <3>1, <3>2
    <3> QED
      BY <3>1, <3>3 DEF Calling
  <2> QED
    BY <1>1, <1>4, <2>1 DEF CallInv, CloseForeign
<1>5. ASSUME NEW t \in Threads, Call(t)
      PROVE  CallInv(v)'
  <2>1. CASE v # t
    <3>1. last'[v] = last[v] /\ addr'[v] = addr[v] /\ pc'[v] = pc[v] /\ closed' = closed
      BY <1>5, <2>1, CallCases DEF Goto, TypeOK
    <3> QED
      BY <1>1, <3>1 DEF CallInv, Calling
  <2>2. CASE v = t
    <3>1. \/ ~Calling(t)'
          \/ last'[t].addr = addr'[t] /\ last'[t].excused = closed' /\ closed' = closed
      BY <1>5, CallCases DEF Calling, TypeOK
    <3> QED
      BY <2>2, <3>1 DEF CallInv
  <2> QED
    BY <2>1, <2>2
<1>6. ASSUME NEW t \in Threads,
             Load(t) \/ Drain(t) \/ ReadFails(t) \/ Close(t) \/ Create(t) \/ StoreRead(t)
      PROVE  CallInv(v)'
  <2>1. UNCHANGED <<addr, closed, last>>
    BY <1>6 DEF Load, Drain, ReadFails, Close, Create, StoreRead, history
  <2>2. Calling(v)' => Calling(v)
    BY <1>6, LoadCases
    DEF Drain, ReadFails, Close, Create, StoreRead, Goto, Calling, TypeOK
  <2> QED
    BY <1>2, <2>1, <2>2
<1>7. ASSUME NEW t \in Threads, CreateFails(t) \/ Write(t)
      PROVE  CallInv(v)'
  <2>1. pc' = [pc EXCEPT ![t] = "idle"] /\ UNCHANGED <<addr, closed>>
    BY <1>7 DEF CreateFails, Write, Return, Goto, history
  <2>2. \/ \E b : last' = [last EXCEPT ![t].answer = b]
        \/ last' = [last EXCEPT ![t].excused = TRUE]
    BY <1>7 DEF CreateFails, Write, Return
  <2>3. v # t => last'[v] = last[v]
    BY <2>2 DEF TypeOK
  <2>4. Calling(v)' => Calling(v) /\ v # t
    BY <2>1 DEF Calling, TypeOK
  <2> QED
    BY <1>1, <2>1, <2>3, <2>4 DEF CallInv
<1>8. ASSUME NEW t \in Threads, StoreWrite(t)
      PROVE  CallInv(v)'
  <2>1. closed' = FALSE /\ UNCHANGED <<addr, last>>
    BY <1>8 DEF StoreWrite
  <2>2. Calling(v)' => Calling(v)
    BY <1>8 DEF StoreWrite, Goto, Calling, TypeOK
  <2> QED
    BY <1>1, <2>1, <2>2 DEF CallInv
<1> QED
  BY <1>3, <1>4, <1>5, <1>6, <1>7, <1>8 DEF Next, Step, Ended

\* The pipe of a call that nothing excuses.
LEMMA PipeStep ==
  ASSUME TypeInv, AloneInv, AnswerInv, [Next]_vars, ~raced', ~raced, NEW v \in Threads,
         ~last'[v].excused
  PROVE  HasPipe(v)'
<1> USE DEF TypeInv, HasPipe
<1>1. PipeInv(v) /\ CallInv(v)
  BY DEF AnswerInv
<1>2. CASE /\ UNCHANGED <<read_fd, write_fd, fds, pipes, new>>
           /\ ~last[v].excused
           /\ pc'[v] \in {"drained", "writing"} => pc[v] \in {"drained", "writing"}
           /\ pc'[v] \in {"store_read", "store_write"} => pc'[v] = pc[v]
  BY <1>1, <1>2 DEF PipeInv, Whole, Is, PipeOf
<1>3. CASE UNCHANGED vars
  BY <1>2, <1>3 DEF vars, pool
<1>4. CASE CloseForeign
  <2>1. pc'[v] = "idle"
    BY <1>4 DEF CloseForeign, Calling, TypeOK
  <2> QED
    BY <2>1
<1>5. ASSUME NEW t \in Threads, Call(t)
      PROVE  HasPipe(v)'
  <2>1. UNCHANGED <<read_fd, write_fd, fds, pipes, new>>
    BY <1>5, CallCases
  <2>2. v # t => pc'[v] = pc[v] /\ last'[v] = last[v]
    BY <1>5, CallCases DEF Goto, TypeOK
  <2>3. pc'[t] \in {"idle", "validate"}
    BY <1>5, CallCases DEF Goto, TypeOK
  <2> QED
    BY <1>2, <2>1, <2>2, <2>3
<1>6. ASSUME NEW t \in Threads, Load(t) \/ ReadFails(t)
      PROVE  HasPipe(v)'
  <2>1. UNCHANGED <<read_fd, write_fd, fds, pipes, new, last>>
    BY <1>6 DEF Load, ReadFails, pool
  <2>2. /\ pc'[v] \in {"drained", "writing"} => pc[v] \in {"drained", "writing"}
        /\ pc'[v] \in {"store_read", "store_write"} => pc'[v] = pc[v]
    BY <1>6, LoadCases DEF ReadFails, Goto, TypeOK
  <2> QED
    BY <1>2, <2>1, <2>2
<1>7. ASSUME NEW t \in Threads, Drain(t)
      PROVE  HasPipe(v)'
  <2>1. UNCHANGED <<read_fd, write_fd, fds, pipes, new, last>>
        /\ pc' = [pc EXCEPT ![t] = "drained"] /\ pc[t] = "reading"
    BY <1>7 DEF Drain, Goto
  <2>2. CASE v = t
    <3>1. ~closed
      BY <1>1, <2>1, <2>2 DEF CallInv, Calling
    <3>2. Whole
      BY <1>7, <3>1, DrainsWhole
    <3> QED
      BY <2>1, <2>2, <3>2 DEF Whole, Is, PipeOf, TypeOK
  <2>3. CASE v # t
    BY <1>2, <2>1, <2>3 DEF TypeOK
  <2> QED
    BY <2>2, <2>3
<1>8. ASSUME NEW t \in Threads,
             Close(t) \/ Create(t) \/ CreateFails(t) \/ StoreRead(t) \/ StoreWrite(t)
      PROVE  HasPipe(v)'
  <2>1. Opening(t)
    BY <1>8 DEF Close, Create, CreateFails, StoreRead, StoreWrite, Opening, Calling
  <2>2. v # t => pc'[v] = "idle"
    BY <1>8, <2>1, Alone
    DEF Close, Create, CreateFails, StoreRead, StoreWrite, Goto, TypeOK
  <2>3. CASE Close(t) \/ CreateFails(t)
    <3>1. pc'[t] \in {"between", "create", "idle"}
      BY <2>3 DEF Close, CreateFails, Goto, TypeOK
    <3> QED
      BY <2>2, <3>1
  <2>4. CASE Create(t)
    <3> DEFINE r == new'[t][1]
               w == new'[t][2]
    <3>1. /\ r \in Fds /\ w \in Fds /\ r # w
          /\ fds' = [fds EXCEPT ![r] = <<"read", pipes + 1>>, ![w] = <<"write", pipes + 1>>]
      BY <2>4, Created
    <3>2. pipes' = pipes + 1 /\ pc'[t] = "store_read"
      BY <2>4 DEF Create, Goto, TypeOK
    <3> HIDE DEF r, w
    <3>3. fds'[r] = <<"read", pipes + 1>> /\ fds'[w] = <<"write", pipes + 1>>
      BY <3>1 DEF TypeOK
    <3> QED
      BY <2>2, <3>2, <3>3 DEF r, w
  <2>5. CASE StoreRead(t)
    <3>1. /\ pc[t] = "store_read" /\ pc'[t] = "store_write"
          /\ UNCHANGED <<fds, pipes, new, last>>
      BY <2>5 DEF StoreRead, pool, Goto, TypeOK
    <3> QED
      BY <1>1, <2>2, <3>1 DEF PipeInv
  <2>6. CASE StoreWrite(t)
    <3>1. /\ pc[t] = "store_write" /\ pc'[t] = "drained"
          /\ UNCHANGED <<fds, pipes, new, last, read_fd>> /\ write_fd' = new[t][2]
      BY <2>6 DEF StoreWrite, pool, Goto, TypeOK
    <3>2. NewPipe(t) /\ read_fd = new[t][1]
      BY <3>1 DEF AloneInv, ThreadInv
    <3>3. ASSUME v = t
          PROVE  Whole'
      <4>1. fds[new[t][1]] = <<"read", pipes>> /\ fds[new[t][2]] = <<"write", pipes>>
        BY <1>1, <3>1, <3>3 DEF PipeInv
      <4> QED
        BY <3>1, <3>2, <4>1 DEF Whole, Is, PipeOf, NewPipe
    <3> QED
      BY <2>2, <3>1, <3>3
  <2> QED
    BY <1>8, <2>3, <2>4, <2>5, <2>6
<1>9. ASSUME NEW t \in Threads, Write(t)
      PROVE  HasPipe(v)'
  <2>1. /\ UNCHANGED <<read_fd, write_fd, fds, pipes, new>>
        /\ pc' = [pc EXCEPT ![t] = "idle"]
        /\ \E b : last' = [last EXCEPT ![t].answer = b]
    BY <1>9 DEF Write, Return, Goto
  <2>2. v # t => pc'[v] = pc[v] /\ last'[v] = last[v]
    BY <2>1 DEF TypeOK
  <2>3. pc'[t] = "idle"
    BY <2>1 DEF TypeOK
  <2> QED
    BY <1>2, <2>1, <2>2, <2>3
<1> QED
  BY <1>3, <1>4, <1>5, <1>6, <1>7, <1>8, <1>9 DEF Next, Step, Ended

\* Between openings the pipe is whole, or the next read tells that it is not.
LEMMA BrokenStep ==
  ASSUME TypeInv, AloneInv, AnswerInv, [Next]_vars, ~raced', ~raced, ~closed', NoneOpening'
  PROVE  Whole' \/ Broken'
<1> USE DEF TypeInv
<1>1. ASSUME UNCHANGED <<read_fd, write_fd, fds>>, ~closed, NoneOpening,
             Broken /\ Is(read_fd, "read") =>
               content'[PipeOf(read_fd)] = content[PipeOf(read_fd)]
      PROVE  Whole' \/ Broken'
  BY <1>1 DEF AnswerInv, Whole, Broken, Is, PipeOf, Open
<1>2. CASE UNCHANGED vars
  BY <1>1, <1>2 DEF vars, pool, history, NoneOpening, Opening, Calling
<1>3. CASE CloseForeign
  BY <1>3 DEF CloseForeign
<1>4. ASSUME NEW t \in Threads,
             Call(t) \/ Load(t) \/ Drain(t) \/ ReadFails(t) \/ Write(t)
      PROVE  Whole' \/ Broken'
  <2>1. UNCHANGED <<read_fd, write_fd, fds, closed>>
    BY <1>4, CallCases DEF Load, Drain, ReadFails, Write, pool, history
  <2>2. ~Opening(t)
    <3>1. CASE Load(t)
      BY <3>1, LoadCases DEF NoneOpening, Opening, Calling, Goto, TypeOK
    <3> QED
      BY <1>4, <3>1, CallCases DEF Drain, ReadFails, Write, Opening, Calling
  <2>3. \A v \in Threads : v # t => pc'[v] = pc[v]
    BY <1>4, CallCases, LoadCases DEF Drain, ReadFails, Write, Goto, Return, TypeOK
  <2>4. NoneOpening
    BY <2>2, <2>3 DEF NoneOpening, Opening, Calling
  <2>5. CASE Drain(t)
    <3>1. Whole
      BY <2>1, <2>5, DrainsWhole
    <3> QED
      BY <2>1, <3>1 DEF Whole, Is, PipeOf
  <2>6. CASE Call(t) \/ Load(t) \/ ReadFails(t)
    <3>1. content' = content
      BY <2>6, CallCases DEF Load, ReadFails, pool
    <3> QED
      BY <1>1, <2>1, <2>4, <3>1
  <2>7. CASE Write(t)
    <3>1. CASE Accepts(fd[t], addr[t])
      <4> DEFINE p == PipeOf(fd[t])
      <4>1. /\ content' = [content EXCEPT ![p] = @ + 1]
            /\ fd[t] \in Fds /\ fds[fd[t]][1] = "write"
        BY <2>7, <3>1 DEF Write, Accepts, Is
      <4>2. fds[fd[t]] \in Ends \X Pipes
        BY <4>1 DEF TypeOK, Free
      <4>3. fds[fd[t]] = <<fds[fd[t]][1], fds[fd[t]][2]>>
        BY <4>2
      <4>4. fds[fd[t]] = <<"write", p>>
        BY <4>1, <4>3 DEF PipeOf
      <4>5. Open("write", p)
        BY <4>1, <4>4 DEF Open
      <4>6. Broken /\ Is(read_fd, "read") => PipeOf(read_fd) # p
        BY <4>5 DEF Broken
      <4>7. Broken /\ Is(read_fd, "read") =>
              content'[PipeOf(read_fd)] = content[PipeOf(read_fd)]
        BY <4>1, <4>6 DEF TypeOK
      <4> QED
        BY <1>1, <2>1, <2>4, <4>7
    <3>2. CASE ~Accepts(fd[t], addr[t])
      <4>1. content' = content
        BY <2>7, <3>2 DEF Write
      <4> QED
        BY <1>1, <2>1, <2>4, <4>1
    <3> QED
      BY <3>1, <3>2
  <2> QED
    BY <1>4, <2>5, <2>6, <2>7
<1>5. ASSUME NEW t \in Threads, Close(t) \/ Create(t) \/ StoreRead(t)
      PROVE  FALSE
  BY <1>5 DEF Close, Create, StoreRead, Goto, TypeOK, NoneOpening, Opening, Calling
<1>6. ASSUME NEW t \in Threads, CreateFails(t)
      PROVE  Whole' \/ Broken'
  <2>1. pc[t] = "create" /\ UNCHANGED <<fds, read_fd>>
    BY <1>6 DEF CreateFails, pool
  <2>2. OnlyUsed({})
    BY <2>1 DEF AloneInv, ThreadInv
  <2> QED
    BY <2>1, <2>2 DEF OnlyUsed, Broken, Is, Free
<1>7. ASSUME NEW t \in Threads, StoreWrite(t)
      PROVE  Whole' \/ Broken'
  <2>1. /\ pc[t] = "store_write" /\ UNCHANGED <<fds, read_fd, content>>
        /\ write_fd' = new[t][2]
    BY <1>7 DEF StoreWrite, pool
  <2>2. NewPipe(t) /\ read_fd = new[t][1]
    BY <2>1 DEF AloneInv, ThreadInv
  <2>3. CASE fds[new[t][1]] = Free
    BY <2>1, <2>2, <2>3 DEF Broken, Is, Free
  <2>4. CASE fds[new[t][1]] # Free /\ fds[new[t][2]] = Free
    <3>1. fds[new[t][1]] = <<"read", pipes>> /\ content[pipes] = 0
      BY <2>2, <2>4 DEF NewPipe
    <3>2. ~Open("write", pipes)
      BY <2>2, <2>4, <3>1 DEF NewPipe, OnlyUsed, Open, Free
    <3>3. Broken'
      BY <2>1, <2>2, <3>1, <3>2 DEF Broken, Is, PipeOf, Open
    <3> QED
      BY <3>3
  <2>5. CASE fds[new[t][1]] # Free /\ fds[new[t][2]] # Free
    BY <2>1, <2>2, <2>5 DEF NewPipe, Whole, Is, PipeOf
  <2> QED
    BY <2>3, <2>4, <2>5
<1> QED
  BY <1>2, <1>3, <1>4, <1>5, <1>6, <1>7 DEF Next, Step, Ended

LEMMA ExactStep ==
  ASSUME Cardinality(Threads) <= CAPACITY,
         TypeInv, AloneInv, FullInv, AnswerInv, [Next]_vars, ~raced', ~raced,
         NEW v \in Threads, ~Calling(v)', ~last'[v].excused
  PROVE  Right(v)'
<1> USE DEF TypeInv
<1>1. CASE ~Calling(v) /\ last'[v] = last[v]
  BY <1>1 DEF AnswerInv, Exact, Right
<1>2. CASE UNCHANGED vars
  BY <1>1, <1>2 DEF vars, Calling
<1>3. CASE CloseForeign
  <2>1. /\ pc' = pc /\ (~last'[v].excused => ~last[v].excused)
        /\ last'[v].answer = last[v].answer /\ last'[v].addr = last[v].addr
    BY <1>3 DEF CloseForeign, TypeOK
  <2> QED
    BY <2>1 DEF AnswerInv, Exact, Right, Calling
<1>4. ASSUME NEW t \in Threads, Call(t)
      PROVE  Right(v)'
  <2>1. CASE v # t
    BY <1>1, <1>4, <2>1, CallCases DEF Goto, Calling, TypeOK
  <2>2. CASE v = t
    <3>1. last'[t] = NoAnswer
      BY <1>4, <2>2, CallCases DEF Goto, Calling, TypeOK
    <3> QED
      BY <2>2, <3>1 DEF NoAnswer
  <2> QED
    BY <2>1, <2>2
<1>5. ASSUME NEW t \in Threads,
             \/ Load(t) \/ Drain(t) \/ ReadFails(t) \/ Close(t) \/ Create(t)
             \/ StoreRead(t) \/ StoreWrite(t)
      PROVE  Right(v)'
  <2>1. last' = last
    BY <1>5 DEF Load, Drain, ReadFails, Close, Create, StoreRead, StoreWrite
  <2>2. ~Calling(v)
    BY <1>5, LoadCases
    DEF Drain, ReadFails, Close, Create, StoreRead, StoreWrite, Goto, Calling, TypeOK
  <2> QED
    BY <1>1, <2>1, <2>2
<1>6. ASSUME NEW t \in Threads, CreateFails(t)
      PROVE  Right(v)'
  <2>1. v # t
    BY <1>6, LastFields DEF CreateFails
  <2>2. last'[v] = last[v] /\ pc'[v] = pc[v]
    BY <1>6, <2>1, LastFields DEF CreateFails, Goto, TypeOK
  <2> QED
    BY <1>1, <2>2 DEF Calling
<1>7. ASSUME NEW t \in Threads, Write(t)
      PROVE  Right(v)'
  <2> DEFINE b == Accepts(fd[t], addr[t])
  <2>1. /\ b \in BOOLEAN /\ last' = [last EXCEPT ![t].answer = b]
        /\ pc[t] = "writing" /\ pc' = [pc EXCEPT ![t] = "idle"]
    BY <1>7 DEF Write, Return, Goto, Accepts, Is, Open
  <2> HIDE DEF b
  <2>2. CASE v # t
    <3>1. last'[v] = last[v] /\ pc'[v] = pc[v]
      BY <2>1, <2>2 DEF TypeOK
    <3> QED
      BY <1>1, <3>1 DEF Calling
  <2>3. CASE v = t
    <3>1. /\ last'[t].answer = b /\ last'[t].addr = last[t].addr
          /\ last'[t].excused = last[t].excused
      BY <2>1 DEF TypeOK
    <3>2. b <=> addr[t] = "mapped"
      BY <2>1, <2>3, <3>1, WritesRight DEF b
    <3>3. last[t].addr = addr[t]
      BY <2>1 DEF AnswerInv, CallInv, Calling
    <3> QED
      BY <2>3, <3>1, <3>2, <3>3 DEF Right
  <2> QED
    BY <2>2, <2>3
<1> QED
  BY <1>2, <1>3, <1>4, <1>5, <1>6, <1>7 DEF Next, Step, Ended

\* An answer is yes only when the write of the address has been accepted.
LEMMA YesStep ==
  ASSUME TypeInv, AnswerInv, [Next]_vars, NEW v \in Threads, last'[v].answer
  PROVE  last'[v].addr = "mapped"
<1> USE DEF TypeInv
<1>1. CASE last'[v].answer = last[v].answer /\ last'[v].addr = last[v].addr
  BY <1>1 DEF AnswerInv
<1>2. CASE UNCHANGED vars
  BY <1>1, <1>2 DEF vars
<1>3. CASE CloseForeign
  <2>1. last'[v] = [last[v] EXCEPT !.excused = @ \/ Calling(v)]
    BY <1>3 DEF CloseForeign
  <2>2. last[v] \in [addr : Addresses, answer : BOOLEAN, excused : BOOLEAN]
    BY DEF TypeOK
  <2>3. last'[v].answer = last[v].answer /\ last'[v].addr = last[v].addr
    BY <2>1, <2>2
  <2> QED
    BY <1>1, <2>3
<1>4. ASSUME NEW t \in Threads, Call(t)
      PROVE  last'[v].addr = "mapped"
  <2>1. v # t
    BY <1>4, CallCases DEF TypeOK, NoAnswer
  <2>2. last'[v] = last[v]
    BY <1>4, <2>1, CallCases DEF TypeOK
  <2> QED
    BY <1>1, <2>2
<1>5. ASSUME NEW t \in Threads,
             \/ Load(t) \/ Drain(t) \/ ReadFails(t) \/ Close(t) \/ Create(t)
             \/ StoreRead(t) \/ StoreWrite(t)
      PROVE  last'[v].addr = "mapped"
  <2>1. last' = last
    BY <1>5 DEF Load, Drain, ReadFails, Close, Create, StoreRead, StoreWrite
  <2> QED
    BY <1>1, <2>1
<1>6. ASSUME NEW t \in Threads, CreateFails(t)
      PROVE  last'[v].addr = "mapped"
  BY <1>1, <1>6 DEF CreateFails, TypeOK
<1>7. ASSUME NEW t \in Threads, Write(t)
      PROVE  last'[v].addr = "mapped"
  <2> DEFINE b == Accepts(fd[t], addr[t])
  <2>1. /\ last' = [last EXCEPT ![t].answer = b] /\ pc[t] = "writing"
        /\ b => addr[t] = "mapped"
    BY <1>7 DEF Write, Return, Accepts
  <2>2. last[t].addr = addr[t]
    BY <2>1 DEF AnswerInv, CallInv, Calling
  <2> HIDE DEF b
  <2>3. CASE v # t
    BY <1>1, <2>1, <2>3 DEF TypeOK
  <2>4. CASE v = t
    BY <2>1, <2>2, <2>4 DEF TypeOK
  <2> QED
    BY <2>3, <2>4
<1> QED
  BY <1>2, <1>3, <1>4, <1>5, <1>6, <1>7 DEF Next, Step, Ended

LEMMA AnswerStep ==
  ASSUME Cardinality(Threads) <= CAPACITY,
         TypeInv, AloneInv, FullInv, AnswerInv, [Next]_vars
  PROVE  AnswerInv'
<1>1. \A v \in Threads : CallInv(v)'
  BY CallStep
<1>2. \A v \in Threads : PipeInv(v)'
  BY PipeStep, RacedStays DEF PipeInv
<1>3. ~raced' /\ ~closed' /\ NoneOpening' => Whole' \/ Broken'
  BY BrokenStep, RacedStays
<1>4. \A v \in Threads : last'[v].answer => last'[v].addr = "mapped"
  BY YesStep
<1>5. Exact'
  BY <1>4, ExactStep, RacedStays DEF Exact
<1> QED
  BY <1>1, <1>2, <1>3, <1>4, <1>5 DEF AnswerInv

\* validate() never says yes to an address that cannot be read.  With room in the pipe for a
\* write of every thread, it says yes to one that can, unless a call overlaps one that opens
\* the pipe (from then on that is not said), or finds it closed by others or impossible to
\* create.
THEOREM Answers ==
  ASSUME Cardinality(Threads) <= CAPACITY
  PROVE  Spec => []Exact
<1>1. TypeInv /\ AloneInv /\ FullInv /\ AnswerInv /\ [Next]_vars => AnswerInv'
  BY AnswerStep
<1>2. AnswerInv => Exact
  BY DEF AnswerInv
<1> QED
  BY <1>1, <1>2, AnswerInit, FullAlways, PTL DEF Spec
=============================================================================
