-------------------------------- MODULE Lmm ---------------------------------
(***************************************************************************)
(* lmm.c and clist.h: the allocator over memtraq's own .bss that serves    *)
(* the allocations made while a memory operation is already in progress.   *)
(*                                                                         *)
(* The region is a row of HEAP cells, addressed from 0; the list head      *)
(* bss.list sits just below it.  A clist_t header occupies HDR cells; a    *)
(* memory word read as a header is the four fields next, prev, size and    *)
(* marker at its first cell, so a stale header, or application data that   *)
(* looks like one, stays readable at every cell it was written to.  The    *)
(* circular doubly linked free list is the code's own: two pointer fields. *)
(*                                                                         *)
(* A cell is the granule of lmm_alloc's rounding: 16 bytes and HDR = 1 on  *)
(* a 32-bit target, 8 bytes and HDR = 3 on a 64-bit one.  A request that   *)
(* is no multiple of a cell is rounded by ALIGN as the next multiple is.   *)
(***************************************************************************)
EXTENDS Integers, FiniteSets

CONSTANTS
  Threads,     \* the threads that call the allocator
  NoThread,    \* owner of the mutex when it is free
  NULL,        \* the null pointer
  HDR,         \* sizeof (clist_t), in cells
  HEAP,        \* INTERNAL_HEAP_SIZE, in cells
  WORD,        \* number of values of a size_t, in cells
  Sizes,       \* the sizes the callers ask for
  BitAnd(_, _) \* bitwise and of two size_t

ASSUME HeaderAssumption == HDR \in Nat \ {0}
ASSUME HeapAssumption   == HEAP \in Nat /\ HEAP >= HDR
ASSUME SizesAssumption  == WORD \in Nat \ {0} /\ Sizes \subseteq 0 .. WORD - 1
ASSUME AndAssumption    == \A x, m \in 0 .. WORD - 1 : BitAnd(x, m) \in 0 .. m
ASSUME NamesAssumption  == NoThread \notin Threads /\ NULL \notin Int

VARIABLES
  next, prev, size, marker,   \* the memory, read as headers
  lock,                       \* owner of the mutex
  pc,                         \* where each thread is in lmm.c
  it,                         \* the block its scan looks at
  arg,                        \* the size it asked for
  ptr,                        \* the block it gives back or reallocates
  res,                        \* the block its reallocation obtained
  live,                       \* the pointers handed out and not taken back
  req,                        \* the size each was requested with
  blocks,                     \* history: where the block headers are
  merged                      \* history: did the scan coalesce anything

heapVars == <<next, prev, size, marker, blocks>>
vars == <<next, prev, size, marker, lock, pc, it, arg, ptr, res, live, req,
          blocks, merged>>

-----------------------------------------------------------------------------
(* Addresses.                                                              *)

LIST     == 0 - HDR                    \* &bss.list
Cells    == 0 .. HEAP - 1              \* the bytes of bss.region
Nodes    == {LIST} \cup Cells
Pointers == HDR .. HEAP                \* payload addresses
GOOD     == "600DBEEF"
BAD      == "BAADBEEF"
Junk     == "junk"                     \* any other marker word

EndOf(b)     == b + HDR + size[b]      \* the header that follows block b
Header(p)    == p - HDR
Payload(b)   == b + HDR

lmm_valid_Above(p) == HDR < p /\ p < HEAP
lmm_valid(p)       == 0 <= p /\ p < HEAP

(* ALIGN as written, in the arithmetic of a size_t: the mask clears the    *)
(* bits of HDR - 1, which rounds up to a multiple of HDR only when HDR is  *)
(* a power of two.                                                         *)
ALIGN_Down(x) == x - BitAnd(x, HDR - 1)
ALIGN(x) == LET y == (x + (HDR - 1)) % WORD IN y - BitAnd(y, HDR - 1)

-----------------------------------------------------------------------------
(* The circular list.  Each macro is two functions of the list before it.  *)
(* An operator named X_Y here and below is X with the slip Y: the runs     *)
(* show which property notices each of them.                               *)

UnlinkNext_Forgotten(n) == next
UnlinkNext(n) == [next EXCEPT ![prev[n]] = next[n]]

UnlinkPrev_Self(n) == [prev EXCEPT ![next[n]] = n]
UnlinkPrev(n) == [prev EXCEPT ![next[n]] = prev[n]]

AddTailNext_Head(nx, pv, n)  == [nx EXCEPT ![n] = nx[LIST], ![pv[LIST]] = n]
AddTailNext(nx, pv, n) == [nx EXCEPT ![n] = LIST, ![pv[LIST]] = n]
AddTailPrev(pv, n) == [pv EXCEPT ![n] = pv[LIST], ![LIST] = n]

-----------------------------------------------------------------------------
Init ==
  /\ next   = [n \in Nodes |-> IF n = LIST THEN 0 ELSE LIST]
  /\ prev   = [n \in Nodes |-> IF n = LIST THEN 0 ELSE LIST]
  /\ size   = [n \in Nodes |-> IF n = 0 THEN HEAP - HDR ELSE 0]
  /\ marker = [n \in Nodes |-> IF n = 0 THEN BAD ELSE Junk]
  /\ lock   = NoThread
  /\ pc     = [t \in Threads |-> "idle"]
  /\ it     = [t \in Threads |-> LIST]
  /\ arg    = [t \in Threads |-> 0]
  /\ ptr    = [t \in Threads |-> NULL]
  /\ res    = [t \in Threads |-> NULL]
  /\ live   = {}
  /\ req    = [p \in Pointers |-> 0]
  /\ blocks = {0}
  /\ merged = [t \in Threads |-> FALSE]

-----------------------------------------------------------------------------
(* The callers.  do_free and do_realloc come here only with a pointer that *)
(* lmm_valid accepts; no pointer is passed to two calls at once.           *)

Busy == {ptr[t] : t \in Threads} \cup {res[t] : t \in Threads}

CallAlloc(t, s) ==
  /\ pc[t] = "idle"
  /\ pc'  = [pc EXCEPT ![t] = "alloc"]
  /\ arg' = [arg EXCEPT ![t] = s]
  /\ UNCHANGED <<heapVars, lock, it, ptr, res, live, req, merged>>

CallFree(t, p) ==
  /\ pc[t] = "idle"
  /\ p \notin Busy
  /\ lmm_valid(p)
  /\ pc'  = [pc EXCEPT ![t] = "free"]
  /\ ptr' = [ptr EXCEPT ![t] = p]
  /\ UNCHANGED <<heapVars, lock, it, arg, res, live, req, merged>>

CallRealloc(t, p, s) ==
  /\ pc[t] = "idle"
  /\ p \notin Busy
  /\ lmm_valid(p)
  /\ pc'  = [pc EXCEPT ![t] = IF s = 0 THEN "free" ELSE "alloc"]
  /\ ptr' = [ptr EXCEPT ![t] = p]
  /\ arg' = [arg EXCEPT ![t] = s]
  /\ UNCHANGED <<heapVars, lock, it, res, live, req, merged>>

(* The application fills the cells it asked for with words that read as a  *)
(* free block of size 0: the data most likely to mislead the allocator.    *)
Fill(p) ==
  /\ p \notin Busy
  /\ LET mine == p .. p + req[p] - 1
     IN /\ next'   = [n \in Nodes |-> IF n \in mine THEN LIST ELSE next[n]]
        /\ prev'   = [n \in Nodes |-> IF n \in mine THEN LIST ELSE prev[n]]
        /\ size'   = [n \in Nodes |-> IF n \in mine THEN 0 ELSE size[n]]
        /\ marker' = [n \in Nodes |-> IF n \in mine THEN BAD ELSE marker[n]]
  /\ UNCHANGED <<lock, pc, it, arg, ptr, res, live, req, blocks, merged>>

-----------------------------------------------------------------------------
(* lmm_alloc: take the mutex, then visit the free list from its head.      *)

AllocLock(t) ==
  /\ pc[t] = "alloc"
  /\ lock = NoThread
  /\ lock'   = t
  /\ pc'     = [pc EXCEPT ![t] = "check"]
  /\ it'     = [it EXCEPT ![t] = next[LIST]]
  /\ UNCHANGED <<heapVars, arg, ptr, res, live, req, merged>>

(* check_next_block: the block that follows it in memory is absorbed when  *)
(* its marker says it is free.                                             *)
NextIsFree_Unmarked(b) == EndOf(b) < HEAP
NextIsFree_NotLast(b) ==
  EndOf(b) < HEAP /\ EndOf(EndOf(b)) < HEAP /\ marker[EndOf(b)] = BAD
NextIsFree(b) == EndOf(b) < HEAP /\ marker[EndOf(b)] = BAD

CheckNextBlock(t) ==
  LET b == it[t]
      n == EndOf(b)
  IN /\ pc[t] = "check"
     /\ b # LIST
     /\ \/ /\ NextIsFree(b)
           /\ size'   = [size EXCEPT ![b] = @ + size[n] + HDR]
           /\ next'   = UnlinkNext(n)
           /\ prev'   = UnlinkPrev(n)
           /\ blocks' = blocks \ {n}
           /\ merged' = [merged EXCEPT ![t] = TRUE]
        \/ /\ ~NextIsFree(b)
           /\ UNCHANGED <<size, next, prev, blocks, merged>>
     /\ pc' = [pc EXCEPT ![t] = "fit"]
     /\ UNCHANGED <<marker, lock, it, arg, ptr, res, live, req>>

Skip(t) ==
  /\ pc[t] = "fit"
  /\ size[it[t]] < ALIGN(arg[t])
  /\ pc' = [pc EXCEPT ![t] = "check"]
  /\ it' = [it EXCEPT ![t] = next[it[t]]]
  /\ UNCHANGED <<heapVars, lock, arg, ptr, res, live, req, merged>>

(* The pointer goes to the caller, or to lmm_realloc when that is the      *)
(* caller; the mutex is released either way.                               *)
HandOut(t) ==
  LET p == Payload(it[t])
  IN /\ live' = live \cup {p}
     /\ req'  = [req EXCEPT ![p] = arg[t]]
     /\ lock' = NoThread
     /\ it'   = [it EXCEPT ![t] = LIST]
     /\ IF ptr[t] = NULL
        THEN /\ pc'  = [pc EXCEPT ![t] = "idle"]
             /\ arg' = [arg EXCEPT ![t] = 0]
             /\ UNCHANGED res
        ELSE /\ pc'  = [pc EXCEPT ![t] = "copy"]
             /\ res' = [res EXCEPT ![t] = p]
             /\ UNCHANGED arg
     /\ merged' = [merged EXCEPT ![t] = FALSE]
     /\ UNCHANGED ptr

Left(t) == size[it[t]] - ALIGN(arg[t])

RoomForBlock_Any(t) == Left(t) > 0
RoomForBlock(t) == Left(t) >= HDR

TakeWhole(t) ==
  LET b == it[t]
  IN /\ pc[t] = "fit"
     /\ size[b] >= ALIGN(arg[t])
     /\ ~RoomForBlock(t)
     /\ marker' = [marker EXCEPT ![b] = GOOD]
     /\ next'   = UnlinkNext(b)
     /\ prev'   = UnlinkPrev(b)
     /\ HandOut(t)
     /\ UNCHANGED <<size, blocks>>

Split(t) ==
  LET b == it[t]
      r == b + HDR + ALIGN(arg[t])     \* remain
  IN /\ pc[t] = "fit"
     /\ size[b] >= ALIGN(arg[t])
     /\ RoomForBlock(t)
     /\ marker' = [marker EXCEPT ![b] = GOOD, ![r] = BAD]
     /\ size'   = [size EXCEPT ![b] = ALIGN(arg[t]), ![r] = Left(t) - HDR]
     /\ next'   = AddTailNext(UnlinkNext(b), UnlinkPrev(b), r)
     /\ prev'   = AddTailPrev(UnlinkPrev(b), r)
     /\ blocks' = blocks \cup {r}
     /\ HandOut(t)

(* The scan came back to the list head: lmm_alloc returns 0, and a caller  *)
(* lmm_realloc goes on to free the block it was given.                     *)
Fail(t) ==
  /\ pc[t] = "check"
  /\ it[t] = LIST
  /\ lock' = NoThread
  /\ pc'   = [pc EXCEPT ![t] = IF ptr[t] = NULL THEN "idle" ELSE "free"]
  /\ arg'  = [arg EXCEPT ![t] = IF ptr[t] = NULL THEN 0 ELSE @]
  /\ merged' = [merged EXCEPT ![t] = FALSE]
  /\ UNCHANGED <<heapVars, it, ptr, res, live, req>>

-----------------------------------------------------------------------------
(* lmm_realloc's memcpy, in a critical section of its own, and lmm_free.   *)

CopyLength(t) ==
  LET have == size[Header(ptr[t])] IN IF arg[t] < have THEN arg[t] ELSE have

Copied_FromHeader(t, f) ==
  LET dst == res[t] .. res[t] + CopyLength(t) - 1
  IN [n \in Nodes |-> IF n \in dst THEN f[Header(ptr[t]) + (n - res[t])] ELSE f[n]]

Copied(t, f) ==
  LET dst == res[t] .. res[t] + CopyLength(t) - 1
  IN [n \in Nodes |-> IF n \in dst THEN f[ptr[t] + (n - res[t])] ELSE f[n]]

Copy(t) ==
  /\ pc[t] = "copy"
  /\ lock = NoThread
  /\ next'   = Copied(t, next)
  /\ prev'   = Copied(t, prev)
  /\ size'   = Copied(t, size)
  /\ marker' = Copied(t, marker)
  /\ pc' = [pc EXCEPT ![t] = "free"]
  /\ UNCHANGED <<lock, it, arg, ptr, res, live, req, blocks, merged>>

FreeBlock(t) ==
  LET b == Header(ptr[t])
  IN /\ pc[t] = "free"
     /\ lock = NoThread
     /\ marker' = [marker EXCEPT ![b] = BAD]
     /\ next'   = AddTailNext(next, prev, b)
     /\ prev'   = AddTailPrev(prev, b)
     /\ live'   = live \ {ptr[t]}
     /\ req'    = [req EXCEPT ![ptr[t]] = 0]
     /\ pc'     = [pc EXCEPT ![t] = "idle"]
     /\ arg'    = [arg EXCEPT ![t] = 0]
     /\ ptr'    = [ptr EXCEPT ![t] = NULL]
     /\ res'    = [res EXCEPT ![t] = NULL]
     /\ UNCHANGED <<size, lock, it, blocks, merged>>

-----------------------------------------------------------------------------
Call(t) ==
  \/ \E s \in Sizes : CallAlloc(t, s)
  \/ \E p \in live : CallFree(t, p)
  \/ \E p \in live, s \in Sizes : CallRealloc(t, p, s)

Step(t) ==
  \/ AllocLock(t)
  \/ CheckNextBlock(t)
  \/ Skip(t)
  \/ TakeWhole(t)
  \/ Split(t)
  \/ Fail(t)
  \/ Copy(t)
  \/ FreeBlock(t)

Next ==
  \/ \E t \in Threads : Call(t) \/ Step(t)
  \/ \E p \in live : Fill(p)

Spec == Init /\ [][Next]_vars

-----------------------------------------------------------------------------
(* Invariants.                                                             *)

FreeBlocks == {b \in blocks : Payload(b) \notin live}

(* Every variable holds a value of its C type; block headers fit.          *)
TypeOK ==
  /\ next \in [Nodes -> Nodes] /\ prev \in [Nodes -> Nodes]
  /\ size \in [Nodes -> 0 .. HEAP] /\ marker \in [Nodes -> {GOOD, BAD, Junk}]
  /\ lock \in Threads \cup {NoThread}
  /\ pc \in [Threads -> {"idle", "alloc", "check", "fit", "copy", "free"}]
  /\ it \in [Threads -> Nodes] /\ arg \in [Threads -> Sizes \cup {0}]
  /\ ptr \in [Threads -> Pointers \cup {NULL}]
  /\ res \in [Threads -> Pointers \cup {NULL}]
  /\ live \subseteq Pointers /\ req \in [Pointers -> Sizes \cup {0}]
  /\ \A p \in live : req[p] \in Sizes
  /\ blocks \subseteq 0 .. HEAP - HDR /\ merged \in [Threads -> BOOLEAN]

(* The blocks cover the region from end to end and do not overlap.         *)
Tiled ==
  /\ 0 \in blocks
  /\ \A b \in blocks : EndOf(b) \in blocks \cup {HEAP}
  /\ \A b, c \in blocks : b < c => EndOf(b) <= c

(* A block's marker tells whether the application holds it.                *)
Marked ==
  /\ \A p \in live : Header(p) \in blocks
  /\ \A b \in blocks : marker[b] = IF Payload(b) \in live THEN GOOD ELSE BAD

(* The free blocks and the list head form doubly linked rings.             *)
Ring(nx, pv, S) ==
  \A n \in S : /\ nx[n] \in S /\ pv[nx[n]] = n
               /\ pv[n] \in S /\ nx[pv[n]] = n

Linked == Ring(next, prev, FreeBlocks \cup {LIST})

(* The mutex belongs to the thread that scans, whose cursor is in the list.*)
Scanning ==
  \A t \in Threads :
    /\ lock = t <=> pc[t] \in {"check", "fit"}
    /\ pc[t] = "check" => it[t] \in FreeBlocks \cup {LIST}
    /\ pc[t] = "fit" => it[t] \in FreeBlocks

(* A call holds live pointers, and no other call holds the same ones.      *)
InHand ==
  \A t \in Threads :
    /\ pc[t] = "idle" => ptr[t] = NULL
    /\ pc[t] \in {"alloc", "check", "fit"} => arg[t] \in Sizes
    /\ pc[t] \in {"copy", "free"} => ptr[t] # NULL
    /\ pc[t] = "copy" => res[t] # NULL /\ req[res[t]] = arg[t]
    /\ pc[t] \notin {"copy", "free"} => res[t] = NULL
    /\ ptr[t] \in live \cup {NULL} /\ res[t] \in live \cup {NULL}
    /\ ptr[t] # NULL => ptr[t] # res[t]
    /\ \A u \in Threads \ {t} : /\ ptr[t] # NULL => ptr[t] \notin {ptr[u], res[u]}
                                /\ res[t] # NULL => res[t] \notin {ptr[u], res[u]}

(* A block is at least as large as what its holder asked for.  This needs  *)
(* requests that ALIGN can round up in a size_t: SizesFit.                 *)
SizesFit == \A s \in Sizes \cup {0} : s + (HDR - 1) < WORD

Covers == \A p \in live : req[p] <= size[Header(p)]

(* The inductive invariant: what every step of every thread relies on.     *)
Inv == TypeOK /\ Tiled /\ Marked /\ Linked /\ Scanning /\ InHand /\ Covers

-----------------------------------------------------------------------------
(* Properties.                                                             *)

(* What a holder may write lies in the region, in no other holder's cells  *)
(* and in no header, its own included.                                     *)
PayloadsPrivate ==
  \A p \in live :
    /\ p + req[p] <= HEAP
    /\ \A q \in live \ {p} : p + req[p] <= q \/ q + req[q] <= p
    /\ \A b \in blocks : p + req[p] <= b \/ b + HDR <= p

(* S is all that the pointers f lead to from the list head: the least set  *)
(* that holds the head and that f does not leave.                          *)
Closed(f, S)  == \A n \in S : f[n] \in S
Reached(f, S) ==
  /\ LIST \in S /\ Closed(f, S)
  /\ \A R \in SUBSET S : LIST \in R /\ Closed(f, R) => R = S

(* lmm_free and the scan reach, from the list head in either direction,    *)
(* all the free blocks and nothing else.                                   *)
FreeListExact ==
  LET S == FreeBlocks \cup {LIST} IN Reached(next, S) /\ Reached(prev, S)

(* lmm_alloc gives up only when no free block is large enough; and if that *)
(* scan coalesced nothing there are no two adjacent free blocks left, so   *)
(* repeating the request before something is freed is pointless.           *)
FailureJustified ==
  \A t \in Threads :
    pc[t] = "check" /\ it[t] = LIST =>
      \A b \in FreeBlocks : /\ size[b] < ALIGN(arg[t])
                            /\ merged[t] \/ EndOf(b) \notin FreeBlocks

(* While lmm_realloc still holds both blocks, the new one starts with what *)
(* the old one held, up to the smaller of the two sizes.                   *)
ReallocKeepsData ==
  \A t \in Threads :
    pc[t] = "free" /\ res[t] # NULL =>
      \A k \in 0 .. HEAP : k < arg[t] /\ k < size[Header(ptr[t])] =>
        /\ marker[res[t] + k] = marker[ptr[t] + k]
        /\ size[res[t] + k] = size[ptr[t] + k]
        /\ next[res[t] + k] = next[ptr[t] + k]

(* do_free tells the two heaps apart with lmm_valid: every pointer this    *)
(* allocator handed out must come back to it.                              *)
RoutesBack == \A p \in live : lmm_valid(p)

(* From the moment a block is handed out until it is taken back, no step   *)
(* of any thread changes its header.                                       *)
HeadersStable ==
  [][\A p \in live \cap live' : /\ size'[Header(p)] = size[Header(p)]
                                /\ marker'[Header(p)] = marker[Header(p)]]_vars

(* lmm_realloc frees a block only once its replacement exists, or when it  *)
(* was asked for size 0.                                                   *)
ReallocFailureKeepsBlock ==
  \A t \in Threads : pc[t] = "free" /\ arg[t] # 0 => res[t] # NULL

(* What the scan of a thread at block b has ahead of it: the free blocks   *)
(* that next leads to from b before it comes back to the list head.        *)
Onward(b) ==
  {R \in SUBSET (FreeBlocks \cup {LIST}) :
     b \in R /\ \A n \in R \ {LIST} : next[n] \in R}

Ahead(b) == {n \in FreeBlocks : \A R \in Onward(b) : n \in R}

Remaining(t) == 2 * Cardinality(Ahead(it[t])) + (IF pc[t] = "check" THEN 1 ELSE 0)

(* The thread that scans can always go on, each step that it takes brings  *)
(* the end of the scan nearer, although the scan changes the list, and     *)
(* nothing that others do meanwhile puts it off.  So whoever schedules the *)
(* holder of the mutex often enough sees it released.                      *)
ScanDescends ==
  [][\A t \in Threads :
       lock = t =>
         /\ ENABLED Step(t)
         /\ lock' = t =>
              IF <<pc[t], it[t]>>' = <<pc[t], it[t]>>
              THEN Remaining(t)' = Remaining(t)
              ELSE Remaining(t)' < Remaining(t)]_vars

(* The allocator implements the promise of module Heap.                    *)
Held == {[at |-> p, len |-> req[p]] : p \in live}
H == INSTANCE Heap WITH owned <- Held
HeapSpec == H!Spec
=============================================================================
