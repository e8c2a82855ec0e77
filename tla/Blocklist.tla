----------------------------- MODULE Blocklist -----------------------------
(***************************************************************************)
(* The addresses whose samples a builder asks to ignore:                   *)
(* ProfilerGuardBuilder::blocklist turns the names it is given into the    *)
(* segments of the libraries that are loaded at that time, and the handler *)
(* asks Profiler::is_blocklisted of an address.                            *)
(***************************************************************************)
EXTENDS Integers

CONSTANTS
  Loaded,     \* the shared libraries when the builder is made
  blocklist   \* the names the builder is given

\* A library's name is the set of the words it contains, empty when it is not
\* UTF-8; its segments are placed relative to its base.
ASSUME BlocklistAssumption ==
  \A shlib \in Loaded :
    /\ shlib.base \in Nat
    /\ \A seg \in shlib.segments : seg.offset \in Nat /\ seg.len \in Nat

InBlocklist(shlib) == shlib.name \cap blocklist # {}

\* Mutant: the segment is not moved to the base of its library.
Unbiased(shlib, seg) == [start |-> seg.offset, end |-> seg.offset + seg.len]
Segment(shlib, seg) ==
  [start |-> shlib.base + seg.offset, end |-> shlib.base + seg.offset + seg.len]

BlocklistSegments ==
  UNION {{Segment(shlib, seg) : seg \in shlib.segments} :
           shlib \in {s \in Loaded : InBlocklist(s)}}

IsBlocklisted(addr) ==
  \E segment \in BlocklistSegments : addr > segment.start /\ addr < segment.end

-----------------------------------------------------------------------------
(* What it is for, stated without ends and lengths: the addresses of the   *)
(* libraries that were named, but the first of each segment.               *)

Inside(shlib) ==
  UNION {{shlib.base + seg.offset + i : i \in 1..(seg.len - 1)} :
           seg \in shlib.segments}
Unwanted == UNION {Inside(shlib) : shlib \in {s \in Loaded : InBlocklist(s)}}
=============================================================================
