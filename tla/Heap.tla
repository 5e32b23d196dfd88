-------------------------------- MODULE Heap --------------------------------
(***************************************************************************)
(* What a memory allocator over one region of HEAP cells promises to the   *)
(* application, whatever its bookkeeping: the extents it has handed out    *)
(* and not taken back lie inside the region, never overlap, and never      *)
(* share a start address.  lmm.c implements this promise (module Lmm) for  *)
(* the pool it carves out of memtraq's own .bss.                           *)
(***************************************************************************)
EXTENDS Integers

CONSTANTS
  HEAP,    \* number of cells of the region
  Sizes    \* the request sizes, in cells

VARIABLE owned   \* the extents [at, len] the application holds

Extent(at, len) == [at |-> at, len |-> len]

Apart(b, c) == b.at + b.len <= c.at \/ c.at + c.len <= b.at

Init == owned = {}

(***************************************************************************)
(* An allocation picks any free place; a free gives one extent back.  An   *)
(* allocation that fails leaves the promise as it was: it is a stutter.    *)
(***************************************************************************)
Alloc(at, len) ==
  /\ at + len <= HEAP
  /\ \A c \in owned : c.at # at /\ Apart(Extent(at, len), c)
  /\ owned' = owned \cup {Extent(at, len)}

Free(b) == owned' = owned \ {b}

Next == \/ \E at \in 0 .. HEAP, len \in Sizes : Alloc(at, len)
        \/ \E b \in owned : Free(b)

Spec == Init /\ [][Next]_owned

(***************************************************************************)
(* No two extents the application holds share a cell or a start address.   *)
(***************************************************************************)
Disjoint ==
  \A b, c \in owned : b # c => b.at # c.at /\ Apart(b, c)
=============================================================================
