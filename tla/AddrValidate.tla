---------------------------- MODULE AddrValidate ----------------------------
(***************************************************************************)
(* addr_validate.rs: validate() asks the kernel whether an address can be  *)
(* read by writing two words from it to a pipe that every caller shares.   *)
(* Each call first drains the pipe, and opens it again when that fails.    *)
(*                                                                         *)
(* Every system call, and every load and store of the two shared file      *)
(* descriptors, is a step.  The kernel side (descriptor table, pipes that  *)
(* hold CAPACITY writes) is external; EINTR only repeats a call and is     *)
(* left out.                                                               *)
(***************************************************************************)
EXTENDS Integers, FiniteSets

CONSTANTS
  Threads,
  Fds,            \* the descriptor numbers the process may use
  CAPACITY,       \* how many two-word writes a pipe holds
  CreateMayFail,  \* may pipe2() fail?
  MaxCalls,       \* bound: how many times validate() is called
  MaxCloses       \* bound: how many times the program closes an end of the pipe

ASSUME ValidateAssumption ==
  /\ IsFiniteSet(Threads)
  /\ Fds \subseteq Nat /\ IsFiniteSet(Fds)
  /\ CAPACITY \in Nat \ {0}
  /\ CreateMayFail \in BOOLEAN
  /\ MaxCalls \in Nat /\ MaxCloses \in Nat

VARIABLES
  read_fd, write_fd,  \* MEM_VALIDATE_PIPE
  fds,                \* the descriptor table: <<end, pipe>> or Free
  content,            \* the writes each pipe holds
  pipes,              \* how many pipes have been created
  pc, addr,
  fd,                 \* the descriptor a thread has loaded
  new,                \* the descriptors pipe2() gave it
  last,               \* history: the thread's last answer
  calls, closes,
  closed,             \* history: was an end closed since the pipe was last opened?
  raced               \* history: has a call overlapped another that opens the pipe?

pool == <<fds, content, pipes>>
history == <<calls, closes, closed, raced>>
vars == <<read_fd, write_fd, pool, pc, addr, fd, new, last, history>>

Free == <<"free", 0>>
Pipes == 1..MaxCalls
Ends == {"read", "write"}
Addresses == {"null", "mapped", "unmapped"}
Numbers == Fds \cup {-1}
NoAnswer == [addr |-> "null", answer |-> FALSE, excused |-> TRUE]

\* Where a loading step goes next, and which of the two descriptors it loads.
LoadsRead == [validate |-> "reading", open |-> "close_read"]
LoadsWrite == [between |-> "close_write", drained |-> "writing"]
Steps == {"idle", "reading", "close_read", "close_write", "create", "store_read",
          "store_write", "writing"} \cup DOMAIN LoadsRead \cup DOMAIN LoadsWrite

TypeOK ==
  /\ read_fd \in Numbers /\ write_fd \in Numbers
  /\ fds \in [Fds -> {Free} \cup (Ends \X Pipes)]
  /\ content \in [Pipes -> 0..CAPACITY]
  /\ pipes \in 0..calls   \* a call opens the pipe at most once
  /\ pc \in [Threads -> Steps]
  /\ addr \in [Threads -> Addresses]
  /\ fd \in [Threads -> Numbers]
  /\ new \in [Threads -> Numbers \X Numbers]
  /\ last \in [Threads -> [addr : Addresses, answer : BOOLEAN, excused : BOOLEAN]]
  /\ calls \in 0..MaxCalls
  /\ closes \in 0..MaxCloses
  /\ closed \in BOOLEAN /\ raced \in BOOLEAN

Init ==
  /\ read_fd = -1 /\ write_fd = -1
  /\ fds = [f \in Fds |-> Free]
  /\ content = [p \in Pipes |-> 0]
  /\ pipes = 0
  /\ pc = [t \in Threads |-> "idle"]
  /\ addr = [t \in Threads |-> "null"]
  /\ fd = [t \in Threads |-> -1]
  /\ new = [t \in Threads |-> <<-1, -1>>]
  /\ last = [t \in Threads |-> NoAnswer]
  /\ calls = 0 /\ closes = 0 /\ closed = FALSE /\ raced = FALSE

Calling(t) == pc[t] # "idle"
Opening(t) == Calling(t) /\ pc[t] \notin {"validate", "reading", "drained", "writing"}
Others(t) == Threads \ {t}
Goto(t, step) == pc' = [pc EXCEPT ![t] = step]
Open(end, p) == \E f \in Fds : fds[f] = <<end, p>>
Is(f, end) == f \in Fds /\ fds[f][1] = end
PipeOf(f) == fds[f][2]
\* Mutant: nothing is closed.
CloseNothing(f) == UNCHANGED fds
CloseFd(f) == fds' = IF f \in Fds THEN [fds EXCEPT ![f] = Free] ELSE fds

Return(t, result) ==
  /\ last' = [last EXCEPT ![t].answer = result]
  /\ Goto(t, "idle")

-----------------------------------------------------------------------------
\* A call; a null address is refused at once.
Call(t) ==
  /\ pc[t] = "idle" /\ calls < MaxCalls
  /\ calls' = calls + 1
  /\ \E a \in Addresses :
       IF a = "null"
       THEN /\ last' = [last EXCEPT ![t] = NoAnswer]
            /\ UNCHANGED <<pc, addr, raced>>
       ELSE /\ addr' = [addr EXCEPT ![t] = a]
            /\ last' = [last EXCEPT ![t] =
                 [addr |-> a, answer |-> FALSE, excused |-> closed]]
            /\ raced' = (raced \/ \E v \in Others(t) : Opening(v))
            /\ Goto(t, "validate")
  /\ UNCHANGED <<read_fd, write_fd, pool, fd, new, closes, closed>>

Load(t) ==
  /\ \/ /\ pc[t] \in DOMAIN LoadsRead
        /\ fd' = [fd EXCEPT ![t] = read_fd]
        /\ Goto(t, LoadsRead[pc[t]])
     \/ /\ pc[t] \in DOMAIN LoadsWrite
        /\ fd' = [fd EXCEPT ![t] = write_fd]
        /\ Goto(t, LoadsWrite[pc[t]])
  /\ UNCHANGED <<read_fd, write_fd, pool, addr, new, last, history>>

\* Mutant: the pipe is not drained.
LeftAll(p) == content[p]
\* What a read that asks for one write leaves in the pipe.
Left(p) == IF content[p] > 0 THEN content[p] - 1 ELSE 0

\* read() drains one write, or finds the pipe empty (EAGAIN): valid_read.
Drain(t) ==
  /\ pc[t] = "reading" /\ Is(fd[t], "read")
  /\ LET p == PipeOf(fd[t])
     IN  /\ content[p] > 0 \/ Open("write", p)
         /\ content' = [content EXCEPT ![p] = Left(p)]
  /\ Goto(t, "drained")
  /\ UNCHANGED <<read_fd, write_fd, fds, pipes, addr, fd, new, last, history>>

\* End of file, or no such descriptor: open_pipe().
ReadFails(t) ==
  /\ pc[t] = "reading"
  /\ Is(fd[t], "read") => /\ content[PipeOf(fd[t])] = 0
                          /\ ~Open("write", PipeOf(fd[t]))
  /\ raced' = (raced \/ \E v \in Others(t) : Calling(v))
  /\ Goto(t, "open")
  /\ UNCHANGED <<read_fd, write_fd, pool, addr, fd, new, last, calls, closes, closed>>

\* close() of what was loaded, whatever that descriptor has become.
Close(t) ==
  /\ \/ pc[t] = "close_read" /\ Goto(t, "between")
     \/ pc[t] = "close_write" /\ Goto(t, "create")
  /\ CloseFd(fd[t])
  /\ UNCHANGED <<read_fd, write_fd, content, pipes, addr, fd, new, last, history>>

\* pipe2() takes the two lowest free numbers.
FreeFds == {f \in Fds : fds[f] = Free}
Lowest(S) == CHOOSE f \in S : \A g \in S : f <= g

Create(t) ==
  /\ pc[t] = "create" /\ Cardinality(FreeFds) >= 2
  /\ LET r == Lowest(FreeFds)
         w == Lowest(FreeFds \ {r})
     IN  /\ fds' = [fds EXCEPT ![r] = <<"read", pipes + 1>>,
                               ![w] = <<"write", pipes + 1>>]
         /\ new' = [new EXCEPT ![t] = <<r, w>>]
  /\ pipes' = pipes + 1
  /\ Goto(t, "store_read")
  /\ UNCHANGED <<read_fd, write_fd, content, addr, fd, last, history>>

\* open_pipe() fails: both descriptors are closed, and their numbers kept.
CreateFails(t) ==
  /\ pc[t] = "create" /\ CreateMayFail
  /\ last' = [last EXCEPT ![t].excused = TRUE]
  /\ Goto(t, "idle")
  /\ UNCHANGED <<read_fd, write_fd, pool, addr, fd, new, history>>

StoreRead(t) ==
  /\ pc[t] = "store_read"
  /\ read_fd' = new[t][1]
  /\ Goto(t, "store_write")
  /\ UNCHANGED <<write_fd, pool, addr, fd, new, last, history>>

\* Mutant: with the pipe open, the call starts again.
StoreWriteRetries(t) ==
  /\ pc[t] = "store_write"
  /\ write_fd' = new[t][2]
  /\ closed' = FALSE
  /\ Goto(t, "validate")
  /\ UNCHANGED <<read_fd, pool, addr, fd, new, last, calls, closes, raced>>

StoreWrite(t) ==
  /\ pc[t] = "store_write"
  /\ write_fd' = new[t][2]
  /\ closed' = FALSE
  /\ Goto(t, "drained")
  /\ UNCHANGED <<read_fd, pool, addr, fd, new, last, calls, closes, raced>>

\* write() succeeds into a pipe that has room and a reader, from a mapped address.
Accepts(f, a) ==
  /\ Is(f, "write") /\ Open("read", PipeOf(f))
  /\ content[PipeOf(f)] < CAPACITY /\ a = "mapped"

Write(t) ==
  /\ pc[t] = "writing"
  /\ Return(t, Accepts(fd[t], addr[t]))
  /\ content' = IF Accepts(fd[t], addr[t])
                THEN [content EXCEPT ![PipeOf(fd[t])] = @ + 1] ELSE content
  /\ UNCHANGED <<read_fd, write_fd, fds, pipes, addr, fd, new, history>>

\* The program closes a descriptor it does not own (a double close, a daemon that
\* closes them all): calls may be misled until the pipe is opened again.
CloseForeign ==
  /\ closes < MaxCloses
  /\ closes' = closes + 1 /\ closed' = TRUE
  /\ \E f \in Fds : fds[f] # Free /\ fds' = [fds EXCEPT ![f] = Free]
  /\ last' = [t \in Threads |-> [last[t] EXCEPT !.excused = @ \/ Calling(t)]]
  /\ UNCHANGED <<read_fd, write_fd, content, pipes, pc, addr, fd, new, calls, raced>>

Idle == \A t \in Threads : ~Calling(t)
Ended == calls = MaxCalls /\ Idle /\ UNCHANGED vars

Step(t) ==
  \/ Call(t) \/ Load(t) \/ Drain(t) \/ ReadFails(t) \/ Close(t) \/ Create(t)
  \/ CreateFails(t) \/ StoreRead(t) \/ StoreWrite(t) \/ Write(t)

Next == CloseForeign \/ Ended \/ \E t \in Threads : Step(t)
Spec == Init /\ [][Next]_vars

-----------------------------------------------------------------------------
(* Properties                                                               *)

Right(t) == last[t].answer <=> last[t].addr = "mapped"

\* No call says yes to an address that cannot be read, whatever calls overlap it, open the
\* pipe, or have it closed.  As long as no call has overlapped one that opens the pipe, each
\* says yes to a mapped address too: only a pipe that was closed and not yet opened again,
\* or that could not be created, excuses a wrong no.
Exact ==
  \A t \in Threads : ~Calling(t) =>
    /\ last[t].answer => last[t].addr = "mapped"
    /\ ~raced /\ ~last[t].excused => Right(t)

\* The threads that have drained the pipe and not yet written to it.
Drained == {t \in Threads : pc[t] \in {"drained", "writing"}}

\* What one caller drained is what it may write: the pipe holds at most a write for
\* every caller, so it never fills up, however the calls interleave.
NeverFills ==
  ~raced /\ Is(write_fd, "write") =>
    content[PipeOf(write_fd)] + Cardinality(Drained) <= Cardinality(Threads)

\* Between calls the process has no descriptor of an abandoned pipe, unless two calls
\* opened it at once.
NoLeak ==
  ~raced /\ Idle => \A f \in Fds : fds[f] # Free => f \in {read_fd, write_fd}
=============================================================================
