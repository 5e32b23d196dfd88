----------------------------- MODULE LmmProofs ------------------------------
(***************************************************************************)
(* Proofs about module Lmm, for every number of threads, heap size, header *)
(* size and set of request sizes.  Inv of module Lmm is inductive as it    *)
(* stands; each action has a lemma of its own.  The requests are assumed   *)
(* to be such that ALIGN does not wrap around: SizesFit.                   *)
(***************************************************************************)
EXTENDS Lmm, TLAPS

-----------------------------------------------------------------------------
(* Operators of the code.                                                  *)

(* A request is a natural number.                                          *)
LEMMA SizesNat == \A s \in Sizes \cup {0} : s \in Nat
BY SizesAssumption

(* ALIGN never rounds down, whatever the header size: clearing the bits of *)
(* HDR - 1 takes away no more than the HDR - 1 just added.                 *)
LEMMA AlignCovers ==
  ASSUME SizesFit, NEW x \in Sizes \cup {0}
  PROVE  x \in Nat /\ ALIGN(x) \in Nat /\ ALIGN(x) >= x
<1> DEFINE y == (x + (HDR - 1)) % WORD
<1>1. x \in Nat /\ WORD \in Nat /\ HDR - 1 \in Nat /\ x + (HDR - 1) < WORD
  BY HeaderAssumption, SizesAssumption DEF SizesFit
<1>2. y = x + (HDR - 1)
  BY <1>1
<1>3. HDR - 1 \in 0 .. WORD - 1 /\ y \in 0 .. WORD - 1
  BY <1>1, <1>2
<1>4. BitAnd(y, HDR - 1) \in 0 .. HDR - 1
  BY <1>3, AndAssumption
<1>5. ALIGN(x) = y - BitAnd(y, HDR - 1)
  BY DEF ALIGN
<1> QED
  BY <1>1, <1>2, <1>4, <1>5

(* CLIST_REMOVE takes one node out of a ring and leaves a ring.            *)
LEMMA UnlinkKeepsRing ==
  ASSUME NEW S \in SUBSET Nodes, NEW n \in S,
         next \in [Nodes -> Nodes], prev \in [Nodes -> Nodes],
         Ring(next, prev, S)
  PROVE  Ring(UnlinkNext(n), UnlinkPrev(n), S \ {n})
BY DEF Ring, UnlinkNext, UnlinkPrev

(* CLIST_ADDTAIL puts a new node into a ring and leaves a ring.            *)
LEMMA AddTailKeepsRing ==
  ASSUME NEW S \in SUBSET Nodes, LIST \in S, NEW n \in Nodes \ S,
         NEW nx \in [Nodes -> Nodes], NEW pv \in [Nodes -> Nodes],
         Ring(nx, pv, S)
  PROVE  Ring(AddTailNext(nx, pv, n), AddTailPrev(pv, n), S \cup {n})
BY DEF Ring, AddTailNext, AddTailPrev

-----------------------------------------------------------------------------
(* Addresses of a well-formed heap.                                        *)

(* A block header lies inside the region and its payload starts after it.  *)
LEMMA BlockAddresses ==
  ASSUME TypeOK, Tiled, NEW b \in blocks
  PROVE  /\ b \in Cells /\ b \in Nodes /\ b # LIST /\ b \in Nat
         /\ size[b] \in Nat /\ EndOf(b) \in Nat /\ EndOf(b) <= HEAP /\ b < EndOf(b)
         /\ Payload(b) \in Pointers /\ Header(Payload(b)) = b
<1>1. HDR \in Nat \ {0} /\ HEAP \in Nat
  BY HeaderAssumption, HeapAssumption
<1>2. b \in 0 .. HEAP - HDR
  BY DEF TypeOK
<1>3. b \in Cells /\ b \in Nodes /\ b # LIST /\ b \in Nat
  BY <1>1, <1>2 DEF Cells, Nodes, LIST
<1>4. size[b] \in Nat
  BY <1>1, <1>3 DEF TypeOK
<1>5. EndOf(b) <= HEAP
  <2>1. EndOf(b) \in blocks \cup {HEAP}
    BY DEF Tiled
  <2>2. \A e \in blocks : e <= HEAP
    BY <1>1 DEF TypeOK
  <2>3. HEAP <= HEAP
    BY <1>1
  <2> QED
    BY <2>1, <2>2, <2>3
<1>6. EndOf(b) \in Nat /\ b < EndOf(b)
  BY <1>1, <1>3, <1>4 DEF EndOf
<1>7. Payload(b) \in Pointers /\ Header(Payload(b)) = b
  BY <1>1, <1>2 DEF Payload, Pointers, Header
<1> QED
  BY <1>3, <1>4, <1>5, <1>6, <1>7

(* The cells of a payload are cells of the region and hold no header.      *)
LEMMA PayloadCells ==
  ASSUME TypeOK, Tiled, Marked, NEW p \in live, NEW c \in Int,
         p <= c, c < p + size[Header(p)]
  PROVE  c \in Cells /\ c \in Nodes /\ c \notin blocks \cup {LIST}
<1> DEFINE b == Header(p)
<1>1. HDR \in Nat \ {0} /\ HEAP \in Nat /\ p \in Int
  BY HeaderAssumption, HeapAssumption DEF TypeOK, Pointers
<1>2. b \in blocks
  BY DEF Marked
<1>3. b \in Nat /\ size[b] \in Nat /\ EndOf(b) <= HEAP /\ p = b + HDR
  BY <1>1, <1>2, BlockAddresses DEF Header
<1>4. EndOf(b) = p + size[b] /\ c < EndOf(b)
  BY <1>1, <1>3 DEF EndOf
<1>5. c \in Cells /\ c \in Nodes /\ c # LIST
  BY <1>1, <1>3, <1>4 DEF Cells, Nodes, LIST
<1>6. ASSUME c \in blocks PROVE FALSE
  <2>1. b < c
    BY <1>1, <1>3
  <2>2. EndOf(b) <= c
    BY <1>2, <1>6, <2>1 DEF Tiled
  <2> QED
    BY <1>3, <1>4, <2>2, <1>2, BlockAddresses
<1> QED
  BY <1>5, <1>6

(* A step that leaves alone the headers, the holders and their requests    *)
(* leaves the heap well formed.                                            *)
LEMMA SameHeaders ==
  ASSUME TypeOK, Tiled, Marked, Linked, Covers,
         UNCHANGED <<blocks, live, req>>,
         \A n \in blocks \cup {LIST} : /\ next'[n] = next[n] /\ prev'[n] = prev[n]
                                       /\ size'[n] = size[n] /\ marker'[n] = marker[n]
  PROVE  Tiled' /\ Marked' /\ Linked' /\ Covers'
<1>1. Tiled'
  BY DEF Tiled, EndOf
<1>2. Marked'
  BY DEF Marked
<1>3. Linked'
  <2>1. FreeBlocks' = FreeBlocks /\ FreeBlocks \subseteq blocks
    BY DEF FreeBlocks
  <2> QED
    BY <2>1 DEF Linked, Ring
<1>4. Covers'
  BY DEF Covers, Marked
<1> QED
  BY <1>1, <1>2, <1>3, <1>4

-----------------------------------------------------------------------------
(* The invariant holds initially and every action preserves it.            *)

(* The statically initialised bss of lmm.c is well formed.                 *)
LEMMA InitInv ==
  ASSUME Init
  PROVE  Inv
<1>1. HDR \in Nat \ {0} /\ HEAP \in Nat /\ HEAP >= HDR
  BY HeaderAssumption, HeapAssumption
<1>2. 0 \in Nodes /\ LIST \in Nodes /\ LIST # 0 /\ LIST \notin blocks
  BY <1>1 DEF Init, Nodes, Cells, LIST
<1>3. FreeBlocks = {0} /\ Payload(0) = HDR /\ HEAP - HDR \in 0 .. HEAP
  BY <1>1 DEF Init, FreeBlocks, Payload
<1>4. TypeOK
  BY <1>1, <1>2, <1>3 DEF Init, TypeOK, GOOD, BAD, Junk
<1>5. Tiled
  BY <1>1, <1>2 DEF Init, Tiled, EndOf
<1>6. Marked
  BY <1>1, <1>2 DEF Init, Marked
<1>7. Linked
  BY <1>2, <1>3 DEF Init, Linked, Ring
<1>8. Scanning /\ InHand /\ Covers
  BY NamesAssumption DEF Init, Scanning, InHand, Covers
<1> QED
  BY <1>4, <1>5, <1>6, <1>7, <1>8 DEF Inv

(* Inv does not depend on anything but the variables of the model.         *)
LEMMA StutterInv ==
  ASSUME Inv, UNCHANGED vars
  PROVE  Inv'
<1>1. Tiled' /\ Marked' /\ Linked' /\ Covers'
  BY SameHeaders DEF Inv, vars
<1>2. TypeOK' /\ Scanning' /\ InHand'
  BY DEF Inv, vars, TypeOK, Scanning, InHand, FreeBlocks
<1> QED
  BY <1>1, <1>2 DEF Inv

(* A call to lmm_alloc only records its argument.                          *)
LEMMA CallAllocInv ==
  ASSUME Inv, NEW t \in Threads, NEW s \in Sizes, CallAlloc(t, s)
  PROVE  Inv'
<1>1. Tiled' /\ Marked' /\ Linked' /\ Covers'
  BY SameHeaders DEF Inv, CallAlloc, heapVars
<1>2. TypeOK'
  BY DEF Inv, TypeOK, CallAlloc, heapVars
<1>3. Scanning'
  BY DEF Inv, TypeOK, Scanning, FreeBlocks, CallAlloc, heapVars
<1>4. InHand'
  BY DEF Inv, TypeOK, InHand, CallAlloc, heapVars
<1> QED
  BY <1>1, <1>2, <1>3, <1>4 DEF Inv

(* A call to lmm_free takes a pointer no other call holds.                 *)
LEMMA CallFreeInv ==
  ASSUME Inv, NEW t \in Threads, NEW p \in live, CallFree(t, p)
  PROVE  Inv'
<1>1. Tiled' /\ Marked' /\ Linked' /\ Covers'
  BY SameHeaders DEF Inv, CallFree, heapVars
<1>2. TypeOK'
  BY DEF Inv, TypeOK, CallFree, heapVars
<1>3. Scanning'
  BY DEF Inv, TypeOK, Scanning, FreeBlocks, CallFree, heapVars
<1>4. p # NULL
  BY NamesAssumption DEF Inv, TypeOK, Pointers
<1>5. InHand'
  BY <1>4 DEF Inv, TypeOK, InHand, CallFree, heapVars, Busy
<1> QED
  BY <1>1, <1>2, <1>3, <1>5 DEF Inv

(* A call to lmm_realloc takes a pointer no other call holds.              *)
LEMMA CallReallocInv ==
  ASSUME Inv, NEW t \in Threads, NEW p \in live, NEW s \in Sizes,
         CallRealloc(t, p, s)
  PROVE  Inv'
<1>1. Tiled' /\ Marked' /\ Linked' /\ Covers'
  BY SameHeaders DEF Inv, CallRealloc, heapVars
<1>2. TypeOK'
  BY DEF Inv, TypeOK, CallRealloc, heapVars
<1>3. Scanning'
  BY DEF Inv, TypeOK, Scanning, FreeBlocks, CallRealloc, heapVars
<1>4. p # NULL
  BY NamesAssumption DEF Inv, TypeOK, Pointers
<1>5. InHand'
  BY <1>4 DEF Inv, TypeOK, InHand, CallRealloc, heapVars, Busy
<1> QED
  BY <1>1, <1>2, <1>3, <1>5 DEF Inv

(* The scan starts at the head of the free list, inside the ring.          *)
LEMMA AllocLockInv ==
  ASSUME Inv, NEW t \in Threads, AllocLock(t)
  PROVE  Inv'
<1>1. Tiled' /\ Marked' /\ Linked' /\ Covers'
  BY SameHeaders DEF Inv, AllocLock, heapVars
<1>2. next[LIST] \in FreeBlocks \cup {LIST} /\ next[LIST] \in Nodes
  BY DEF Inv, TypeOK, Linked, Ring, Nodes
<1>3. TypeOK'
  BY <1>2 DEF Inv, TypeOK, AllocLock, heapVars
<1>4. Scanning'
  BY <1>2, NamesAssumption DEF Inv, TypeOK, Scanning, FreeBlocks, AllocLock, heapVars
<1>5. InHand'
  BY DEF Inv, TypeOK, InHand, AllocLock, heapVars
<1> QED
  BY <1>1, <1>3, <1>4, <1>5 DEF Inv

(* CLIST_NEXT leads from a free block to a free block or the list head.    *)
LEMMA SkipInv ==
  ASSUME Inv, NEW t \in Threads, Skip(t)
  PROVE  Inv'
<1>1. Tiled' /\ Marked' /\ Linked' /\ Covers'
  BY SameHeaders DEF Inv, Skip, heapVars
<1>2. next[it[t]] \in FreeBlocks \cup {LIST} /\ next[it[t]] \in Nodes
  BY DEF Inv, TypeOK, Linked, Ring, Scanning, Skip
<1>3. TypeOK'
  BY <1>2 DEF Inv, TypeOK, Skip, heapVars
<1>4. Scanning'
  BY <1>2 DEF Inv, TypeOK, Scanning, FreeBlocks, Skip, heapVars
<1>5. InHand'
  BY DEF Inv, TypeOK, InHand, Skip, heapVars
<1> QED
  BY <1>1, <1>3, <1>4, <1>5 DEF Inv

(* Giving up releases the mutex and keeps the pointers in hand.            *)
LEMMA FailInv ==
  ASSUME Inv, NEW t \in Threads, Fail(t)
  PROVE  Inv'
<1>1. Tiled' /\ Marked' /\ Linked' /\ Covers'
  BY SameHeaders DEF Inv, Fail, heapVars
<1>2. TypeOK'
  BY DEF Inv, TypeOK, Fail, heapVars
<1>3. Scanning'
  BY NamesAssumption DEF Inv, TypeOK, Scanning, FreeBlocks, Fail, heapVars
<1>4. InHand'
  BY DEF Inv, TypeOK, InHand, Fail, heapVars
<1> QED
  BY <1>1, <1>2, <1>3, <1>4 DEF Inv

(* The header of a held block is a block header, and not of a free block.  *)
LEMMA LiveHeader ==
  ASSUME TypeOK, Marked, NEW p \in live
  PROVE  /\ p \in Int /\ p \in Pointers /\ Payload(Header(p)) = p
         /\ Header(p) \in blocks /\ Header(p) \notin FreeBlocks
<1>1. HDR \in Nat \ {0} /\ HEAP \in Nat
  BY HeaderAssumption, HeapAssumption
<1>2. p \in Int /\ p \in Pointers
  BY <1>1 DEF TypeOK, Pointers
<1>3. Payload(Header(p)) = p
  BY <1>1, <1>2 DEF Payload, Header
<1> QED
  BY <1>2, <1>3 DEF Marked, FreeBlocks

(* The scanning thread is alone between taking and releasing the mutex.    *)
LEMMA ScannerAlone ==
  ASSUME Scanning, NEW t \in Threads, pc[t] \in {"check", "fit"},
         NEW u \in Threads \ {t}
  PROVE  lock = t /\ pc[u] \notin {"check", "fit"}
BY DEF Scanning

(* Coalescing removes exactly the header of the absorbed free block.       *)
LEMMA CheckNextBlockInv ==
  ASSUME Inv, NEW t \in Threads, CheckNextBlock(t)
  PROVE  Inv'
<1> DEFINE b == it[t]
           n == EndOf(b)
<1>1. HDR \in Nat \ {0} /\ HEAP \in Nat
  BY HeaderAssumption, HeapAssumption
<1>2. TypeOK /\ Tiled /\ Marked /\ Linked /\ Scanning /\ InHand /\ Covers
  BY DEF Inv
<1>3. b \in FreeBlocks /\ b \in blocks
  BY <1>2 DEF Scanning, CheckNextBlock, FreeBlocks
<1>4. /\ b \in Nat /\ b \in Nodes /\ size[b] \in Nat /\ n \in Nat /\ b < n
      /\ b # LIST
  BY <1>2, <1>3, BlockAddresses
<1>5. CASE ~NextIsFree(b)
  <2>1. Tiled' /\ Marked' /\ Linked' /\ Covers'
    BY <1>2, <1>5, SameHeaders DEF CheckNextBlock
  <2>2. TypeOK'
    BY <1>2, <1>5 DEF TypeOK, CheckNextBlock
  <2>3. Scanning'
    BY <1>2, <1>3, <1>5 DEF TypeOK, Scanning, FreeBlocks, CheckNextBlock
  <2>4. InHand'
    BY <1>2, <1>5 DEF TypeOK, InHand, CheckNextBlock
  <2> QED
    BY <2>1, <2>2, <2>3, <2>4 DEF Inv
<1>6. CASE NextIsFree(b)
  <2>1. /\ size'   = [size EXCEPT ![b] = size[b] + size[n] + HDR]
        /\ next'   = UnlinkNext(n)
        /\ prev'   = UnlinkPrev(n)
        /\ blocks' = blocks \ {n}
        /\ pc' = [pc EXCEPT ![t] = "fit"]
        /\ merged' = [merged EXCEPT ![t] = TRUE]
        /\ UNCHANGED <<marker, lock, it, arg, ptr, res, live, req>>
    BY <1>6 DEF CheckNextBlock
  <2>2. n \in blocks
    BY <1>1, <1>2, <1>3, <1>4, <1>6 DEF Tiled, NextIsFree
  <2>3. n \in FreeBlocks /\ n # b
    BY <1>2, <1>4, <1>6, <2>2 DEF NextIsFree, Marked, FreeBlocks, GOOD, BAD
  <2>4. size[n] \in Nat /\ EndOf(n) \in Nat /\ EndOf(n) <= HEAP /\ n < EndOf(n)
    BY <1>2, <2>2, BlockAddresses
  <2>5. n = b + HDR + size[b] /\ EndOf(n) = n + HDR + size[n]
    BY DEF EndOf
  <2>6. size'[b] = size[b] + size[n] + HDR /\ \A c \in blocks \ {b} : size'[c] = size[c]
    BY <1>2, <1>4, <2>1 DEF TypeOK
  <2>7. \A c \in blocks' : EndOf(c)' = IF c = b THEN EndOf(n) ELSE EndOf(c)
    BY <1>1, <1>4, <2>1, <2>4, <2>5, <2>6 DEF EndOf
  <2>8. FreeBlocks' = FreeBlocks \ {n}
    BY <2>1 DEF FreeBlocks
  <2>9. n \in Nodes /\ n # LIST
    BY <1>2, <2>2, BlockAddresses
  <2>10. TypeOK'
    <3>1. UnlinkNext(n) \in [Nodes -> Nodes] /\ UnlinkPrev(n) \in [Nodes -> Nodes]
      BY <1>2, <2>9 DEF TypeOK, UnlinkNext, UnlinkPrev
    <3>2. size[b] + size[n] + HDR \in 0 .. HEAP
      BY <1>1, <1>4, <2>4, <2>5
    <3>3. size' \in [Nodes -> 0 .. HEAP]
      BY <1>2, <2>1, <3>2 DEF TypeOK
    <3> QED
      BY <1>2, <2>1, <3>1, <3>3 DEF TypeOK
  <2>11. Tiled'
    <3>1. 0 \in blocks'
      BY <1>2, <1>4, <2>1 DEF Tiled
    <3>2. ASSUME NEW c \in blocks' PROVE EndOf(c)' \in blocks' \cup {HEAP}
      <4>1. CASE c = b
        BY <1>2, <2>1, <2>2, <2>4, <2>7, <4>1 DEF Tiled
      <4>2. CASE c # b
        <5>1. c \in blocks /\ c \in Nat /\ EndOf(c) \in Nat /\ c < EndOf(c)
          BY <1>2, <2>1, BlockAddresses
        <5>2. EndOf(c) # n
          <6>1. CASE c < b
            BY <1>2, <1>3, <1>4, <5>1, <6>1 DEF Tiled
          <6>2. CASE b < c
            BY <1>2, <1>3, <1>4, <5>1, <6>2 DEF Tiled
          <6> QED
            BY <1>4, <4>2, <5>1, <6>1, <6>2
        <5> QED
          BY <1>2, <2>1, <2>7, <4>2, <5>1, <5>2 DEF Tiled
      <4> QED
        BY <4>1, <4>2
    <3>3. ASSUME NEW c \in blocks', NEW d \in blocks', c < d PROVE EndOf(c)' <= d
      <4>1. c \in blocks /\ d \in blocks /\ d # n /\ d \in Nat
        BY <1>2, <2>1, BlockAddresses
      <4>2. CASE c = b
        <5>1. n <= d
          BY <1>2, <1>3, <3>3, <4>1, <4>2 DEF Tiled
        <5>2. n < d
          BY <1>4, <4>1, <5>1
        <5> QED
          BY <1>2, <2>2, <2>7, <4>1, <4>2, <5>2 DEF Tiled
      <4>3. CASE c # b
        BY <1>2, <2>7, <3>3, <4>1, <4>3 DEF Tiled
      <4> QED
        BY <4>2, <4>3
    <3> QED
      BY <3>1, <3>2, <3>3 DEF Tiled
  <2>12. Marked'
    <3>1. \A p \in live : Header(p) \in blocks'
      BY <1>2, <2>1, <2>3, LiveHeader
    <3> QED
      BY <1>2, <2>1, <3>1 DEF Marked
  <2>13. Linked'
    <3>1. FreeBlocks \cup {LIST} \in SUBSET Nodes
      BY <1>2, BlockAddresses DEF FreeBlocks, Nodes
    <3>2. Ring(next', prev', (FreeBlocks \cup {LIST}) \ {n})
      BY <1>2, <2>1, <2>3, <3>1, UnlinkKeepsRing DEF Linked, TypeOK
    <3>3. (FreeBlocks \cup {LIST})' = (FreeBlocks \cup {LIST}) \ {n}
      BY <2>8, <2>9
    <3> QED
      BY <3>2, <3>3 DEF Linked
  <2>14. Scanning'
    BY <1>2, <1>3, <2>1, <2>3, <2>8, ScannerAlone DEF Scanning, TypeOK, CheckNextBlock
  <2>15. InHand'
    BY <1>2, <2>1 DEF TypeOK, InHand, CheckNextBlock
  <2>16. Covers'
    <3>1. \A p \in live : Header(p) \in blocks \ {b}
      BY <1>2, <1>3, LiveHeader
    <3> QED
      BY <1>2, <2>1, <2>6, <3>1 DEF Covers
  <2> QED
    BY <2>10, <2>11, <2>12, <2>13, <2>14, <2>15, <2>16 DEF Inv
<1> QED
  BY <1>5, <1>6

(* Handing out the block under the cursor.                                 *)
LEMMA HandOutKeeps ==
  ASSUME Inv, NEW t \in Threads, pc[t] = "fit", HandOut(t)
  PROVE  LET p == Payload(it[t])
         IN /\ it[t] \in FreeBlocks /\ it[t] \in blocks
            /\ p \notin live /\ p \in Pointers /\ arg[t] \in Sizes
            /\ live' = live \cup {p} /\ req' = [req EXCEPT ![p] = arg[t]]
            /\ Scanning' /\ InHand'
            /\ /\ next' \in [Nodes -> Nodes] /\ prev' \in [Nodes -> Nodes]
               /\ size' \in [Nodes -> 0 .. HEAP]
               /\ marker' \in [Nodes -> {GOOD, BAD, Junk}]
               /\ blocks' \subseteq 0 .. HEAP - HDR
               => TypeOK'
<1> DEFINE p == Payload(it[t])
<1>1. TypeOK /\ Tiled /\ Scanning /\ InHand
  BY DEF Inv
<1>2. it[t] \in FreeBlocks /\ it[t] \in blocks /\ p \notin live
  BY <1>1 DEF Scanning, FreeBlocks
<1>3. p \in Pointers /\ p # NULL
  BY <1>1, <1>2, BlockAddresses, HeaderAssumption, HeapAssumption, NamesAssumption
     DEF Pointers
<1>4. arg[t] \in Sizes
  BY <1>1 DEF InHand
<1>5. live' = live \cup {p} /\ req' = [req EXCEPT ![p] = arg[t]]
  BY DEF HandOut
<1>6. Scanning'
  <2>1. /\ lock' = NoThread /\ pc'[t] \in {"idle", "copy"}
        /\ \A u \in Threads \ {t} : pc'[u] = pc[u]
    BY <1>1 DEF HandOut, TypeOK
  <2>2. \A u \in Threads : pc'[u] \notin {"check", "fit"}
    BY <1>1, <2>1, ScannerAlone
  <2> QED
    BY <2>1, <2>2, NamesAssumption DEF Scanning
<1>7. InHand'
  BY <1>1, <1>2, <1>3 DEF InHand, HandOut, TypeOK
<1>8. TypeOK' \/ ~(/\ next' \in [Nodes -> Nodes] /\ prev' \in [Nodes -> Nodes]
                   /\ size' \in [Nodes -> 0 .. HEAP]
                   /\ marker' \in [Nodes -> {GOOD, BAD, Junk}]
                   /\ blocks' \subseteq 0 .. HEAP - HDR)
  <2>1. LIST \in Nodes
    BY DEF Nodes
  <2> QED
    BY <1>1, <1>3, <1>4, <2>1 DEF HandOut, TypeOK
<1> QED
  BY <1>2, <1>3, <1>4, <1>5, <1>6, <1>7, <1>8

(* A block handed out whole leaves the ring and is marked as held.         *)
LEMMA TakeWholeInv ==
  ASSUME SizesFit, Inv, NEW t \in Threads, TakeWhole(t)
  PROVE  Inv'
<1> DEFINE b == it[t]
           p == Payload(b)
<1>1. TypeOK /\ Tiled /\ Marked /\ Linked /\ Covers
  BY DEF Inv
<1>2. /\ pc[t] = "fit" /\ size[b] >= ALIGN(arg[t])
      /\ marker' = [marker EXCEPT ![b] = GOOD]
      /\ next' = UnlinkNext(b) /\ prev' = UnlinkPrev(b)
      /\ size' = size /\ blocks' = blocks /\ HandOut(t)
  BY DEF TakeWhole
<1>3. /\ b \in FreeBlocks /\ b \in blocks
      /\ p \notin live /\ p \in Pointers /\ arg[t] \in Sizes
      /\ live' = live \cup {p} /\ req' = [req EXCEPT ![p] = arg[t]]
      /\ Scanning' /\ InHand'
  BY <1>2, HandOutKeeps
<1>4. b \in Nodes /\ b # LIST /\ b \in Int /\ size[b] \in Nat /\ Header(p) = b
  BY <1>1, <1>3, BlockAddresses
<1>5. TypeOK'
  <2>1. next' \in [Nodes -> Nodes] /\ prev' \in [Nodes -> Nodes]
    BY <1>1, <1>2, <1>4 DEF TypeOK, UnlinkNext, UnlinkPrev
  <2>2. /\ size' \in [Nodes -> 0 .. HEAP]
        /\ marker' \in [Nodes -> {GOOD, BAD, Junk}]
        /\ blocks' \subseteq 0 .. HEAP - HDR
    BY <1>1, <1>2 DEF TypeOK
  <2> QED
    BY <1>2, <2>1, <2>2, HandOutKeeps
<1>6. Tiled'
  BY <1>1, <1>2 DEF Tiled, EndOf
<1>7. \A c \in blocks : Payload(c) = p => c = b
  BY <1>1, <1>3, BlockAddresses
<1>8. Marked'
  <2>1. \A q \in live' : Header(q) \in blocks'
    BY <1>1, <1>2, <1>3, <1>4 DEF Marked
  <2>2. \A c \in blocks' : marker'[c] = IF Payload(c) \in live' THEN GOOD ELSE BAD
    BY <1>1, <1>2, <1>3, <1>4, <1>7 DEF Marked, TypeOK
  <2> QED
    BY <2>1, <2>2 DEF Marked
<1>9. Linked'
  <2>1. FreeBlocks \cup {LIST} \in SUBSET Nodes
    BY <1>1, BlockAddresses DEF FreeBlocks, Nodes
  <2>2. Ring(next', prev', (FreeBlocks \cup {LIST}) \ {b})
    BY <1>1, <1>2, <1>3, <2>1, UnlinkKeepsRing DEF Linked, TypeOK
  <2>3. FreeBlocks' = FreeBlocks \ {b}
    BY <1>2, <1>3, <1>7 DEF FreeBlocks
  <2> QED
    BY <1>4, <2>2, <2>3 DEF Linked
<1>10. Covers'
  <2>1. arg[t] <= size[b]
    <3>1. /\ arg[t] \in Nat
          /\ ALIGN(arg[t]) \in Nat /\ ALIGN(arg[t]) >= arg[t]
      BY <1>3, AlignCovers
    <3> QED
      BY <1>2, <1>4, <3>1
  <2>2. req'[p] = arg[t] /\ \A q \in live : req'[q] = req[q]
    BY <1>1, <1>3 DEF TypeOK
  <2> QED
    BY <1>1, <1>2, <1>3, <1>4, <2>1, <2>2 DEF Covers
<1> QED
  BY <1>3, <1>5, <1>6, <1>8, <1>9, <1>10 DEF Inv

(* The remainder of a split is a new free block at the tail of the ring.   *)
LEMMA SplitInv ==
  ASSUME SizesFit, Inv, NEW t \in Threads, Split(t)
  PROVE  Inv'
<1> DEFINE b == it[t]
           p == Payload(b)
           a == ALIGN(arg[t])
           r == b + HDR + a
<1>1. TypeOK /\ Tiled /\ Marked /\ Linked /\ Covers
  BY DEF Inv
<1>2. /\ pc[t] = "fit" /\ size[b] >= a /\ size[b] - a >= HDR
      /\ marker' = [marker EXCEPT ![b] = GOOD, ![r] = BAD]
      /\ size'   = [size EXCEPT ![b] = a, ![r] = size[b] - a - HDR]
      /\ next'   = AddTailNext(UnlinkNext(b), UnlinkPrev(b), r)
      /\ prev'   = AddTailPrev(UnlinkPrev(b), r)
      /\ blocks' = blocks \cup {r} /\ HandOut(t)
  BY DEF Split, RoomForBlock, Left
<1>3. /\ b \in FreeBlocks /\ b \in blocks
      /\ p \notin live /\ p \in Pointers /\ arg[t] \in Sizes
      /\ live' = live \cup {p} /\ req' = [req EXCEPT ![p] = arg[t]]
      /\ Scanning' /\ InHand'
  BY <1>2, HandOutKeeps
<1>4. /\ b \in Nodes /\ b # LIST /\ b \in Nat /\ size[b] \in Nat /\ Header(p) = b
      /\ EndOf(b) \in Nat /\ EndOf(b) <= HEAP
  BY <1>1, <1>3, BlockAddresses
<1>5. HDR \in Nat \ {0} /\ HEAP \in Nat
  BY HeaderAssumption, HeapAssumption
<1>6. a \in Nat /\ a >= arg[t] /\ arg[t] \in Nat
  BY <1>3, AlignCovers
<1>7. EndOf(b) = b + HDR + size[b]
  BY DEF EndOf
<1>8. /\ r \in Nat /\ b < r /\ r < EndOf(b) /\ r + HDR <= EndOf(b)
      /\ r \in 0 .. HEAP - HDR /\ r \in Nodes /\ r # LIST /\ r # b
  BY <1>2, <1>4, <1>5, <1>6, <1>7 DEF Nodes, Cells, LIST
<1>9. r \notin blocks
  <2>1. ASSUME r \in blocks PROVE FALSE
    BY <1>1, <1>3, <1>4, <1>8, <2>1 DEF Tiled
  <2> QED
    BY <2>1
<1>10. /\ size'[b] = a /\ size'[r] = size[b] - a - HDR
       /\ marker'[b] = GOOD /\ marker'[r] = BAD
       /\ \A c \in blocks \ {b} : size'[c] = size[c] /\ marker'[c] = marker[c]
  <2>1. size \in [Nodes -> 0 .. HEAP] /\ marker \in [Nodes -> {GOOD, BAD, Junk}]
    BY <1>1 DEF TypeOK
  <2>2. blocks \subseteq Nodes
    BY <1>1, BlockAddresses
  <2> HIDE DEF r, a, b
  <2> QED
    BY <1>2, <1>4, <1>8, <1>9, <2>1, <2>2
<1>11. \A c \in blocks' :
         EndOf(c)' = IF c = b THEN r ELSE IF c = r THEN EndOf(b) ELSE EndOf(c)
  <2> SUFFICES ASSUME NEW c \in blocks'
               PROVE  EndOf(c)' = IF c = b THEN r ELSE IF c = r THEN EndOf(b) ELSE EndOf(c)
    OBVIOUS
  <2>1. EndOf(c)' = c + HDR + size'[c] /\ EndOf(c) = c + HDR + size[c]
    BY DEF EndOf
  <2>2. CASE c = b
    BY <1>10, <2>1, <2>2
  <2>3. CASE c = r
    BY <1>2, <1>4, <1>5, <1>6, <1>7, <1>8, <1>10, <2>1, <2>3
  <2>4. CASE c # b /\ c # r
    BY <1>2, <1>10, <2>1, <2>4
  <2> QED
    BY <1>8, <2>2, <2>3, <2>4
<1>12. Payload(r) \notin live' /\ \A c \in blocks : Payload(c) = p => c = b
  <2>1. \A c \in blocks : c \in Int /\ Header(Payload(c)) = c
    BY <1>1, BlockAddresses
  <2>2. Header(Payload(r)) = r
    BY <1>5, <1>8 DEF Header, Payload
  <2>3. Payload(r) \notin live
    BY <1>1, <1>9, <2>2 DEF Marked
  <2> QED
    BY <1>3, <1>4, <1>8, <2>1, <2>2, <2>3
<1>13. FreeBlocks' = (FreeBlocks \ {b}) \cup {r}
  BY <1>2, <1>3, <1>8, <1>9, <1>12 DEF FreeBlocks, Payload
<1>14. UnlinkNext(b) \in [Nodes -> Nodes] /\ UnlinkPrev(b) \in [Nodes -> Nodes]
  BY <1>1, <1>4 DEF TypeOK, UnlinkNext, UnlinkPrev
<1>15. TypeOK'
  <2>1. LIST \in Nodes
    BY DEF Nodes
  <2>2. next' \in [Nodes -> Nodes] /\ prev' \in [Nodes -> Nodes]
    BY <1>2, <1>8, <1>14, <2>1 DEF AddTailNext, AddTailPrev
  <2>3. a \in 0 .. HEAP /\ size[b] - a - HDR \in 0 .. HEAP
    BY <1>2, <1>4, <1>5, <1>6, <1>7
  <2>4. size' \in [Nodes -> 0 .. HEAP]
    BY <1>1, <1>2, <2>3 DEF TypeOK
  <2>5. marker' \in [Nodes -> {GOOD, BAD, Junk}] /\ blocks' \subseteq 0 .. HEAP - HDR
    BY <1>1, <1>2, <1>8 DEF TypeOK
  <2> QED
    BY <1>2, <2>2, <2>4, <2>5, HandOutKeeps
<1>16. Tiled'
  <2>1. 0 \in blocks'
    BY <1>1, <1>2 DEF Tiled
  <2>2. \A c \in blocks' : EndOf(c)' \in blocks' \cup {HEAP}
    BY <1>1, <1>2, <1>3, <1>9, <1>11 DEF Tiled
  <2>3. ASSUME NEW c \in blocks', NEW d \in blocks', c < d PROVE EndOf(c)' <= d
    <3>1. c \in Nat /\ d \in Nat /\ (c # r => c \in blocks) /\ (d # r => d \in blocks)
      BY <1>1, <1>2, <1>8, BlockAddresses
    <3>2. CASE c = b
      <4>1. d = r \/ (d \in blocks /\ EndOf(b) <= d)
        BY <1>1, <1>3, <2>3, <3>1, <3>2 DEF Tiled
      <4> QED
        BY <1>4, <1>8, <1>11, <3>1, <3>2, <4>1
    <3>3. CASE c = r
      <4>1. d \in blocks /\ b < d
        BY <1>4, <1>8, <2>3, <3>1, <3>3
      <4> QED
        BY <1>1, <1>3, <1>8, <1>11, <3>3, <4>1 DEF Tiled
    <3>4. CASE c # b /\ c # r
      <4>1. c \in blocks /\ EndOf(c)' = EndOf(c) /\ EndOf(c) \in Nat
        BY <1>1, <1>11, <3>1, <3>4, BlockAddresses
      <4>2. CASE d # r
        BY <1>1, <2>3, <3>1, <4>1, <4>2 DEF Tiled
      <4>3. CASE d = r
        <5>1. ~ (b < c)
          BY <1>1, <1>3, <1>4, <1>8, <2>3, <3>1, <4>1, <4>3 DEF Tiled
        <5>2. c < b
          BY <1>4, <3>1, <3>4, <5>1
        <5>3. EndOf(c) <= b
          BY <1>1, <1>3, <4>1, <5>2 DEF Tiled
        <5> QED
          BY <1>4, <1>8, <4>1, <4>3, <5>3
      <4> QED
        BY <4>2, <4>3
    <3> QED
      BY <3>2, <3>3, <3>4
  <2> QED
    BY <2>1, <2>2, <2>3 DEF Tiled
<1>17. Marked'
  <2>1. \A q \in live' : Header(q) \in blocks'
    BY <1>1, <1>2, <1>3, <1>4 DEF Marked
  <2>2. \A c \in blocks' : marker'[c] = IF Payload(c) \in live' THEN GOOD ELSE BAD
    BY <1>1, <1>2, <1>3, <1>10, <1>12 DEF Marked
  <2> QED
    BY <2>1, <2>2 DEF Marked
<1>18. Linked'
  <2> DEFINE S == (FreeBlocks \cup {LIST}) \ {b}
  <2>1. FreeBlocks \cup {LIST} \in SUBSET Nodes
    BY <1>1, BlockAddresses DEF FreeBlocks, Nodes
  <2>2. Ring(UnlinkNext(b), UnlinkPrev(b), S)
    BY <1>1, <1>3, <2>1, UnlinkKeepsRing DEF Linked, TypeOK
  <2>3. S \in SUBSET Nodes /\ LIST \in S /\ r \in Nodes \ S
    BY <1>4, <1>8, <1>9, <2>1 DEF FreeBlocks
  <2>4. Ring(next', prev', S \cup {r})
    BY <1>2, <1>14, <2>2, <2>3, AddTailKeepsRing
  <2>5. (FreeBlocks \cup {LIST})' = S \cup {r}
    BY <1>4, <1>13
  <2> QED
    BY <2>4, <2>5 DEF Linked
<1>19. Covers'
  <2>1. req'[p] = arg[t] /\ \A q \in live : req'[q] = req[q]
    BY <1>1, <1>3 DEF TypeOK
  <2>2. \A q \in live : Header(q) \in blocks \ {b}
    BY <1>1, <1>3, LiveHeader
  <2>3. req'[p] <= size'[Header(p)]
    BY <1>4, <1>6, <1>10, <2>1
  <2>4. \A q \in live : req'[q] <= size'[Header(q)]
    BY <1>1, <1>10, <2>1, <2>2 DEF Covers
  <2> QED
    BY <1>3, <2>3, <2>4 DEF Covers
<1> QED
  BY <1>3, <1>15, <1>16, <1>17, <1>18, <1>19 DEF Inv

(* The memcpy of lmm_realloc stays inside the two payloads it works on.    *)
LEMMA CopyKeepsHeaders ==
  ASSUME Inv, NEW t \in Threads, Copy(t)
  PROVE  /\ \A n \in blocks \cup {LIST} :
              /\ next'[n] = next[n] /\ prev'[n] = prev[n]
              /\ size'[n] = size[n] /\ marker'[n] = marker[n]
         /\ next' \in [Nodes -> Nodes] /\ prev' \in [Nodes -> Nodes]
         /\ size' \in [Nodes -> 0 .. HEAP] /\ marker' \in [Nodes -> {GOOD, BAD, Junk}]
<1> DEFINE p == ptr[t]
           q == res[t]
           L == CopyLength(t)
<1>1. TypeOK /\ Tiled /\ Marked /\ Linked /\ Scanning /\ InHand /\ Covers
  BY DEF Inv
<1>2. /\ pc[t] = "copy" /\ lock = NoThread
      /\ next' = Copied(t, next) /\ prev' = Copied(t, prev)
      /\ size' = Copied(t, size) /\ marker' = Copied(t, marker)
      /\ pc' = [pc EXCEPT ![t] = "free"]
      /\ UNCHANGED <<lock, it, arg, ptr, res, live, req, blocks, merged>>
  BY DEF Copy
<1>3. p \in live /\ q \in live /\ req[q] = arg[t] /\ q # NULL /\ p # NULL
  BY <1>1, <1>2 DEF InHand
<1>4. /\ p \in Int /\ q \in Int
      /\ Header(p) \in blocks /\ Header(q) \in blocks
  BY <1>1, <1>3, LiveHeader
<1>5. size[Header(p)] \in Nat /\ size[Header(q)] \in Nat
  BY <1>1, <1>4, BlockAddresses
<1>6. arg[t] \in Nat
  BY <1>1, SizesNat DEF TypeOK
<1>7. L \in Nat /\ L <= arg[t] /\ L <= size[Header(p)]
  BY <1>5, <1>6 DEF CopyLength
<1>8. L <= size[Header(q)]
  BY <1>1, <1>3, <1>5, <1>6, <1>7 DEF Covers
<1>9. \A n \in q .. q + L - 1 : n \notin blocks \cup {LIST}
  BY <1>1, <1>3, <1>4, <1>5, <1>7, <1>8, PayloadCells
<1>10. \A n \in q .. q + L - 1 : p + (n - q) \in Nodes
  <2>1. \A c \in Int : p <= c /\ c < p + size[Header(p)] => c \in Nodes
    BY <1>1, <1>3, PayloadCells
  <2> QED
    BY <1>4, <1>5, <1>7, <2>1
<1>11. blocks \cup {LIST} \subseteq Nodes
  BY <1>1, BlockAddresses DEF Nodes
<1>12. \A n \in blocks \cup {LIST} : /\ next'[n] = next[n] /\ prev'[n] = prev[n]
                                     /\ size'[n] = size[n] /\ marker'[n] = marker[n]
  BY <1>2, <1>9, <1>11 DEF Copied
<1>13. next' \in [Nodes -> Nodes] /\ prev' \in [Nodes -> Nodes]
  BY <1>1, <1>2, <1>10 DEF TypeOK, Copied
<1>14. size' \in [Nodes -> 0 .. HEAP] /\ marker' \in [Nodes -> {GOOD, BAD, Junk}]
  BY <1>1, <1>2, <1>10 DEF TypeOK, Copied
<1> QED
  BY <1>12, <1>13, <1>14

(* The memcpy of lmm_realloc keeps the heap well formed.                   *)
LEMMA CopyInv ==
  ASSUME Inv, NEW t \in Threads, Copy(t)
  PROVE  Inv'
<1>1. TypeOK /\ Tiled /\ Marked /\ Linked /\ Scanning /\ InHand /\ Covers
  BY DEF Inv
<1>2. /\ pc[t] = "copy" /\ pc' = [pc EXCEPT ![t] = "free"]
      /\ UNCHANGED <<lock, it, arg, ptr, res, live, req, blocks, merged>>
  BY DEF Copy
<1>3. Tiled' /\ Marked' /\ Linked' /\ Covers'
  BY <1>1, <1>2, CopyKeepsHeaders, SameHeaders
<1>4. TypeOK'
  BY <1>1, <1>2, CopyKeepsHeaders DEF TypeOK
<1>5. Scanning'
  BY <1>1, <1>2 DEF TypeOK, Scanning, FreeBlocks
<1>6. InHand'
  BY <1>1, <1>2 DEF TypeOK, InHand
<1> QED
  BY <1>3, <1>4, <1>5, <1>6 DEF Inv

(* What an application writes in its own cells leaves every header alone.  *)
LEMMA FillKeepsHeaders ==
  ASSUME Inv, NEW p \in live, Fill(p)
  PROVE  \A n \in blocks \cup {LIST} : /\ next'[n] = next[n] /\ prev'[n] = prev[n]
                                       /\ size'[n] = size[n] /\ marker'[n] = marker[n]
<1> DEFINE mine == p .. p + req[p] - 1
<1>1. TypeOK /\ Tiled /\ Marked /\ Linked /\ Scanning /\ InHand /\ Covers
  BY DEF Inv
<1>2. /\ next'   = [n \in Nodes |-> IF n \in mine THEN LIST ELSE next[n]]
      /\ prev'   = [n \in Nodes |-> IF n \in mine THEN LIST ELSE prev[n]]
      /\ size'   = [n \in Nodes |-> IF n \in mine THEN 0 ELSE size[n]]
      /\ marker' = [n \in Nodes |-> IF n \in mine THEN BAD ELSE marker[n]]
      /\ UNCHANGED <<lock, pc, it, arg, ptr, res, live, req, blocks, merged>>
  BY DEF Fill
<1>3. p \in Int /\ p \in Pointers /\ Header(p) \in blocks
  BY <1>1, LiveHeader
<1>4. size[Header(p)] \in Nat /\ req[p] \in Nat /\ req[p] <= size[Header(p)]
  <2>1. size[Header(p)] \in Nat
    BY <1>1, <1>3, BlockAddresses
  <2>2. req[p] \in Nat
    BY <1>1, <1>3, SizesNat DEF TypeOK
  <2> QED
    BY <1>1, <2>1, <2>2 DEF Covers
<1>5. \A n \in mine : n \notin blocks \cup {LIST}
  BY <1>1, <1>3, <1>4, PayloadCells
<1>6. blocks \cup {LIST} \subseteq Nodes
  BY <1>1, BlockAddresses DEF Nodes
<1> QED
  BY <1>2, <1>5, <1>6

(* An application that writes in its payload keeps the heap well formed.   *)
LEMMA FillInv ==
  ASSUME Inv, NEW p \in live, Fill(p)
  PROVE  Inv'
<1>1. TypeOK /\ Tiled /\ Marked /\ Linked /\ Scanning /\ InHand /\ Covers
  BY DEF Inv
<1>2. UNCHANGED <<lock, pc, it, arg, ptr, res, live, req, blocks, merged>>
  BY DEF Fill
<1>3. Tiled' /\ Marked' /\ Linked' /\ Covers'
  BY <1>1, <1>2, FillKeepsHeaders, SameHeaders
<1>4. TypeOK'
  <2>1. LIST \in Nodes /\ 0 \in 0 .. HEAP
    BY HeapAssumption DEF Nodes
  <2> QED
    BY <1>1, <1>2, <2>1 DEF TypeOK, Fill
<1>5. Scanning'
  BY <1>1, <1>2 DEF TypeOK, Scanning, FreeBlocks
<1>6. InHand'
  BY <1>1, <1>2 DEF TypeOK, InHand
<1> QED
  BY <1>3, <1>4, <1>5, <1>6 DEF Inv

(* lmm_free turns a held block into a free one at the tail of the ring.    *)
LEMMA FreeBlockInv ==
  ASSUME Inv, NEW t \in Threads, FreeBlock(t)
  PROVE  Inv'
<1> DEFINE p == ptr[t]
           b == Header(p)
           S == FreeBlocks \cup {LIST}
<1>1. TypeOK /\ Tiled /\ Marked /\ Linked /\ Scanning /\ InHand /\ Covers
  BY DEF Inv
<1>2. /\ pc[t] = "free" /\ lock = NoThread
      /\ marker' = [marker EXCEPT ![b] = BAD]
      /\ next'   = AddTailNext(next, prev, b)
      /\ prev'   = AddTailPrev(prev, b)
      /\ live'   = live \ {p}
      /\ req'    = [req EXCEPT ![p] = 0]
      /\ pc'     = [pc EXCEPT ![t] = "idle"]
      /\ arg'    = [arg EXCEPT ![t] = 0]
      /\ ptr'    = [ptr EXCEPT ![t] = NULL]
      /\ res'    = [res EXCEPT ![t] = NULL]
      /\ UNCHANGED <<size, lock, it, blocks, merged>>
  BY DEF FreeBlock
<1>3. p \in live /\ p # NULL
  BY <1>1, <1>2 DEF InHand
<1>4. /\ p \in Int /\ p \in Pointers /\ Payload(b) = p
      /\ b \in blocks /\ b \notin FreeBlocks
  BY <1>1, <1>3, LiveHeader
<1>5. b \in Nodes /\ b # LIST /\ LIST \in Nodes
  BY <1>1, <1>4, BlockAddresses DEF Nodes
<1>6. \A c \in blocks : Payload(c) = p => c = b
  BY <1>1, <1>4, BlockAddresses
<1>7. FreeBlocks' = FreeBlocks \cup {b}
  BY <1>2, <1>4, <1>6 DEF FreeBlocks
<1>8. TypeOK'
  <2>1. next' \in [Nodes -> Nodes] /\ prev' \in [Nodes -> Nodes]
    BY <1>1, <1>2, <1>5 DEF TypeOK, AddTailNext, AddTailPrev
  <2>2. req' \in [Pointers -> Sizes \cup {0}] /\ \A q \in live' : req'[q] \in Sizes
    BY <1>1, <1>2, <1>4 DEF TypeOK
  <2> QED
    BY <1>1, <1>2, <2>1, <2>2 DEF TypeOK
<1>9. Tiled'
  BY <1>1, <1>2 DEF Tiled, EndOf
<1>10. Marked'
  <2>1. \A c \in blocks' : marker'[c] = IF Payload(c) \in live' THEN GOOD ELSE BAD
    BY <1>1, <1>2, <1>4, <1>5, <1>6 DEF Marked, TypeOK
  <2> QED
    BY <1>1, <1>2, <2>1 DEF Marked
<1>11. Linked'
  <2>1. S \in SUBSET Nodes /\ LIST \in S /\ b \in Nodes \ S
    BY <1>1, <1>4, <1>5, BlockAddresses DEF FreeBlocks
  <2>2. Ring(next', prev', S \cup {b})
    BY <1>1, <1>2, <2>1, AddTailKeepsRing DEF Linked, TypeOK
  <2>3. (FreeBlocks \cup {LIST})' = S \cup {b}
    BY <1>7
  <2> QED
    BY <2>2, <2>3 DEF Linked
<1>12. Scanning'
  BY <1>1, <1>2, NamesAssumption DEF TypeOK, Scanning
<1>13. InHand'
  <2>1. /\ pc'[t] = "idle" /\ ptr'[t] = NULL /\ res'[t] = NULL
        /\ \A u \in Threads \ {t} : /\ pc'[u] = pc[u] /\ arg'[u] = arg[u]
                                    /\ ptr'[u] = ptr[u] /\ res'[u] = res[u]
    BY <1>1, <1>2 DEF TypeOK
  <2>2. \A u \in Threads \ {t} : p # ptr[u] /\ p # res[u]
    <3> SUFFICES ASSUME NEW u \in Threads \ {t} PROVE p # ptr[u] /\ p # res[u]
      OBVIOUS
    <3>1. ptr[t] # NULL => ptr[t] \notin {ptr[u], res[u]}
      BY <1>1 DEF InHand
    <3> QED
      BY <1>3, <3>1
  <2>3. \A q \in live' : req'[q] = req[q]
    BY <1>1, <1>2 DEF TypeOK
  <2>4. ASSUME NEW u \in Threads
        PROVE  /\ pc'[u] = "idle" => ptr'[u] = NULL
               /\ pc'[u] \in {"alloc", "check", "fit"} => arg'[u] \in Sizes
               /\ pc'[u] \in {"copy", "free"} => ptr'[u] # NULL
               /\ pc'[u] = "copy" => res'[u] # NULL /\ req'[res'[u]] = arg'[u]
               /\ pc'[u] \notin {"copy", "free"} => res'[u] = NULL
               /\ ptr'[u] \in live' \cup {NULL} /\ res'[u] \in live' \cup {NULL}
               /\ ptr'[u] # NULL => ptr'[u] # res'[u]
    <3>1. CASE u = t
      BY <2>1, <3>1
    <3>2. CASE u # t
      <4>1. ptr'[u] \in live' \cup {NULL} /\ res'[u] \in live' \cup {NULL}
        BY <1>1, <1>2, <2>1, <2>2, <3>2 DEF InHand
      <4> QED
        BY <1>1, <2>1, <2>3, <3>2, <4>1 DEF InHand
    <3> QED
      BY <3>1, <3>2
  <2>5. ASSUME NEW u \in Threads, NEW v \in Threads \ {u}
        PROVE  /\ ptr'[u] # NULL => ptr'[u] \notin {ptr'[v], res'[v]}
               /\ res'[u] # NULL => res'[u] \notin {ptr'[v], res'[v]}
    <3>1. CASE u = t
      BY <2>1, <3>1
    <3>2. CASE v = t
      BY <2>1, <3>2
    <3>3. CASE u # t /\ v # t
      <4>1. /\ ptr[u] # NULL => ptr[u] \notin {ptr[v], res[v]}
            /\ res[u] # NULL => res[u] \notin {ptr[v], res[v]}
        BY <1>1 DEF InHand
      <4> QED
        BY <2>1, <3>3, <4>1
    <3> QED
      BY <3>1, <3>2, <3>3
  <2> QED
    BY <2>4, <2>5 DEF InHand
<1>14. Covers'
  BY <1>1, <1>2, <1>4 DEF TypeOK, Covers
<1> QED
  BY <1>8, <1>9, <1>10, <1>11, <1>12, <1>13, <1>14 DEF Inv

(* Every step preserves the invariant.                                     *)
LEMMA NextInv ==
  ASSUME SizesFit, Inv, [Next]_vars
  PROVE  Inv'
<1>1. ASSUME NEW t \in Threads, Call(t) PROVE Inv'
  BY <1>1, CallAllocInv, CallFreeInv, CallReallocInv DEF Call
<1>2. ASSUME NEW t \in Threads, Step(t) PROVE Inv'
  <2>1. CASE AllocLock(t)
    BY <2>1, AllocLockInv
  <2>2. CASE CheckNextBlock(t)
    BY <2>2, CheckNextBlockInv
  <2>3. CASE Skip(t)
    BY <2>3, SkipInv
  <2>4. CASE TakeWhole(t)
    BY <2>4, TakeWholeInv
  <2>5. CASE Split(t)
    BY <2>5, SplitInv
  <2>6. CASE Fail(t)
    BY <2>6, FailInv
  <2>7. CASE Copy(t)
    BY <2>7, CopyInv
  <2>8. CASE FreeBlock(t)
    BY <2>8, FreeBlockInv
  <2> QED
    BY <1>2, <2>1, <2>2, <2>3, <2>4, <2>5, <2>6, <2>7, <2>8 DEF Step
<1>3. ASSUME NEW p \in live, Fill(p) PROVE Inv'
  BY <1>3, FillInv
<1>4. CASE UNCHANGED vars
  BY <1>4, StutterInv
<1> QED
  BY <1>1, <1>2, <1>3, <1>4 DEF Next

(* Whatever the threads, the heap, the header and the requests, the heap   *)
(* stays tiled, marked and linked, the mutex protects the scan, calls hold *)
(* disjoint pointers, and every block covers its request.                  *)
THEOREM Correct ==
  ASSUME SizesFit
  PROVE  Spec => []Inv
<1>1. Init => Inv
  BY InitInv
<1>2. Inv /\ [Next]_vars => Inv'
  BY NextInv
<1> QED
  BY <1>1, <1>2, PTL DEF Spec

(* The type invariant alone: it is not inductive without the rest.         *)
THEOREM TypeCorrect ==
  ASSUME SizesFit
  PROVE  Spec => []TypeOK
<1>1. Inv => TypeOK
  BY DEF Inv
<1> QED
  BY <1>1, Correct, PTL

-----------------------------------------------------------------------------
(* Consequences of the invariant.                                          *)

(* Where a held payload ends, seen from the blocks.                        *)
LEMMA PayloadEnd ==
  ASSUME Inv, NEW p \in live
  PROVE  /\ p \in Int /\ req[p] \in Nat /\ p + req[p] <= EndOf(Header(p))
         /\ Header(p) \in blocks /\ Header(p) \in Nat /\ p = Header(p) + HDR
         /\ EndOf(Header(p)) \in Nat /\ EndOf(Header(p)) <= HEAP
<1>1. TypeOK /\ Tiled /\ Marked /\ Covers
  BY DEF Inv
<1>2. p \in Int /\ Header(p) \in blocks
  BY <1>1, LiveHeader
<1>3. /\ Header(p) \in Nat /\ size[Header(p)] \in Nat
      /\ EndOf(Header(p)) \in Nat /\ EndOf(Header(p)) <= HEAP
  BY <1>1, <1>2, BlockAddresses
<1>4. p = Header(p) + HDR
  BY <1>2, HeaderAssumption DEF Header
<1>5. req[p] \in Nat
  BY <1>1, SizesNat DEF TypeOK
<1>6. req[p] <= size[Header(p)]
  BY <1>1 DEF Covers
<1>7. EndOf(Header(p)) = Header(p) + HDR + size[Header(p)]
  BY DEF EndOf
<1> QED
  BY <1>2, <1>3, <1>4, <1>5, <1>6, <1>7, HeaderAssumption

(* The tiling of the region keeps the payloads apart.                      *)
LEMMA InvPayloadsPrivate ==
  ASSUME Inv
  PROVE  PayloadsPrivate
<1>1. TypeOK /\ Tiled /\ HDR \in Nat \ {0}
  BY HeaderAssumption DEF Inv
<1>2. ASSUME NEW p \in live, NEW b \in blocks
      PROVE  p + req[p] <= b \/ b + HDR <= p
  <2> DEFINE h == Header(p)
  <2>1. b \in Nat /\ EndOf(b) \in Nat /\ b + HDR <= EndOf(b)
    BY <1>1, BlockAddresses DEF EndOf
  <2>2. CASE b = h
    BY <2>1, <2>2, <1>1, PayloadEnd
  <2>3. CASE h < b
    <3>1. EndOf(h) <= b
      BY <1>1, <2>3, PayloadEnd DEF Tiled
    <3> QED
      BY <2>1, <3>1, PayloadEnd
  <2>4. CASE b < h
    <3>1. EndOf(b) <= h
      BY <1>1, <2>4, PayloadEnd DEF Tiled
    <3> QED
      BY <1>1, <2>1, <3>1, PayloadEnd
  <2> QED
    BY <2>1, <2>2, <2>3, <2>4, PayloadEnd
<1>3. ASSUME NEW p \in live, NEW q \in live \ {p}
      PROVE  p + req[p] <= q \/ q + req[q] <= p
  <2> DEFINE h == Header(p)
             k == Header(q)
  <2>1. h # k
    BY <1>1, PayloadEnd
  <2>2. CASE h < k
    <3>1. EndOf(h) <= k
      BY <1>1, <2>2, PayloadEnd DEF Tiled
    <3> QED
      BY <1>1, <3>1, PayloadEnd
  <2>3. CASE k < h
    <3>1. EndOf(k) <= h
      BY <1>1, <2>3, PayloadEnd DEF Tiled
    <3> QED
      BY <1>1, <3>1, PayloadEnd
  <2> QED
    BY <2>1, <2>2, <2>3, PayloadEnd
<1>4. ASSUME NEW p \in live PROVE p + req[p] <= HEAP
  BY PayloadEnd, HeapAssumption
<1> QED
  BY <1>2, <1>3, <1>4 DEF PayloadsPrivate

(* No two holders share a cell, and no holder owns a cell of a header.     *)
THEOREM PrivatePayloads ==
  ASSUME SizesFit
  PROVE  Spec => []PayloadsPrivate
<1>1. Inv => PayloadsPrivate
  BY InvPayloadsPrivate
<1> QED
  BY <1>1, Correct, PTL

(* As long as nobody asks for size 0, do_free recognises every pointer of  *)
(* this allocator.                                                         *)
THEOREM RoutingCorrect ==
  ASSUME SizesFit, 0 \notin Sizes
  PROVE  Spec => []RoutesBack
<1>1. ASSUME Inv, NEW p \in live PROVE lmm_valid(p)
  <2>1. req[p] \in Nat /\ req[p] # 0
    BY <1>1, PayloadEnd DEF Inv, TypeOK
  <2> QED
    BY <1>1, <2>1, PayloadEnd, HeaderAssumption, HeapAssumption DEF lmm_valid
<1>2. Inv => RoutesBack
  BY <1>1 DEF RoutesBack
<1> QED
  BY <1>2, Correct, PTL

-----------------------------------------------------------------------------
(* The allocator implements module Heap.                                   *)

(* The step that returns a pointer is an allocation of module Heap.        *)
LEMMA HandOutIsAlloc ==
  ASSUME SizesFit, Inv, PayloadsPrivate', NEW t \in Threads, pc[t] = "fit", HandOut(t)
  PROVE  H!Next
<1> DEFINE p == Payload(it[t])
           s == arg[t]
<1>1. /\ p \notin live /\ p \in Pointers /\ s \in Sizes
      /\ live' = live \cup {p} /\ req' = [req EXCEPT ![p] = s]
  BY HandOutKeeps
<1>2. req'[p] = s /\ \A q \in live : req'[q] = req[q] /\ q # p
  BY <1>1 DEF Inv, TypeOK
<1>3. Held' = Held \cup {H!Extent(p, s)}
  BY <1>1, <1>2 DEF Held, H!Extent
<1>4. p \in 0 .. HEAP /\ p \in Int
  BY <1>1, HeaderAssumption, HeapAssumption DEF Pointers
<1>5. p + s <= HEAP
  BY <1>1, <1>2 DEF PayloadsPrivate
<1>6. ASSUME NEW c \in Held PROVE c.at # p /\ H!Apart(H!Extent(p, s), c)
  <2>1. PICK q \in live : c = [at |-> q, len |-> req[q]]
    BY DEF Held
  <2>2. p + s <= q \/ q + req[q] <= p
    BY <1>1, <1>2 DEF PayloadsPrivate
  <2> QED
    BY <1>2, <2>1, <2>2 DEF H!Apart, H!Extent
<1>7. H!Alloc(p, s)
  BY <1>3, <1>5, <1>6 DEF H!Alloc
<1> QED
  BY <1>1, <1>4, <1>7 DEF H!Next

(* The step that takes a pointer back is a free of module Heap.            *)
LEMMA FreeBlockIsFree ==
  ASSUME Inv, NEW t \in Threads, FreeBlock(t)
  PROVE  H!Next
<1> DEFINE p == ptr[t]
           e == [at |-> p, len |-> req[p]]
<1>1. p \in live
  BY DEF Inv, InHand, FreeBlock
<1>2. live' = live \ {p} /\ \A q \in live' : req'[q] = req[q]
  BY <1>1 DEF FreeBlock, Inv, TypeOK
<1>3. e \in Held /\ Held' = Held \ {e}
  BY <1>1, <1>2 DEF Held
<1> QED
  BY <1>3 DEF H!Next, H!Free

(* Every other step is invisible to the application.                       *)
LEMMA StepRefines ==
  ASSUME SizesFit, Inv, PayloadsPrivate', [Next]_vars
  PROVE  [H!Next]_Held
<1>1. CASE \E t \in Threads : TakeWhole(t)
  BY <1>1, HandOutIsAlloc DEF TakeWhole
<1>2. CASE \E t \in Threads : Split(t)
  BY <1>2, HandOutIsAlloc DEF Split
<1>3. CASE \E t \in Threads : FreeBlock(t)
  BY <1>3, FreeBlockIsFree
<1>4. CASE UNCHANGED <<live, req>>
  BY <1>4 DEF Held
<1>5. \/ \E t \in Threads : TakeWhole(t) \/ Split(t) \/ FreeBlock(t)
      \/ UNCHANGED <<live, req>>
  BY DEF Next, Call, Step, vars, CallAlloc, CallFree, CallRealloc, AllocLock,
         CheckNextBlock, Skip, Fail, Copy, Fill
<1> QED
  BY <1>1, <1>2, <1>3, <1>4, <1>5

(* Seen from outside, every behaviour of the allocator hands out and takes *)
(* back extents as module Heap allows.                                     *)
THEOREM Refinement ==
  ASSUME SizesFit
  PROVE  Spec => HeapSpec
<1>1. Init => H!Init
  BY DEF Init, H!Init, Held
<1>2. Inv => PayloadsPrivate
  BY InvPayloadsPrivate
<1>3. Inv /\ PayloadsPrivate' /\ [Next]_vars => [H!Next]_Held
  BY StepRefines
<1> QED
  BY <1>1, <1>2, <1>3, Correct, PTL DEF Spec, HeapSpec, H!Spec

-----------------------------------------------------------------------------
(* Headers in use.                                                         *)

(* No step changes the header of a block that stays in use.                *)
LEMMA StepKeepsHeaders ==
  ASSUME SizesFit, Inv, [Next]_vars, NEW p \in live, p \in live'
  PROVE  size'[Header(p)] = size[Header(p)] /\ marker'[Header(p)] = marker[Header(p)]
<1> DEFINE h == Header(p)
<1>1. TypeOK /\ Tiled /\ Marked /\ Scanning /\ InHand /\ Covers
  BY DEF Inv
<1>2. h \in blocks /\ h \in Nodes /\ h \notin FreeBlocks /\ h # LIST
  BY <1>1, LiveHeader, BlockAddresses
<1>3. CASE UNCHANGED <<size, marker>>
  BY <1>3
<1>4. ASSUME NEW t \in Threads, CheckNextBlock(t) PROVE size'[h] = size[h] /\ marker'[h] = marker[h]
  BY <1>1, <1>2, <1>4 DEF CheckNextBlock, Scanning, TypeOK
<1>5. ASSUME NEW t \in Threads, TakeWhole(t) PROVE size'[h] = size[h] /\ marker'[h] = marker[h]
  BY <1>1, <1>2, <1>5 DEF TakeWhole, Scanning, TypeOK
<1>6. ASSUME NEW t \in Threads, Split(t) PROVE size'[h] = size[h] /\ marker'[h] = marker[h]
  <2> DEFINE b == it[t]
             r == b + HDR + ALIGN(arg[t])
  <2>1. b \in FreeBlocks /\ b \in blocks /\ arg[t] \in Sizes
    BY <1>1, <1>6 DEF Split, Scanning, InHand, FreeBlocks
  <2>2. size[b] >= ALIGN(arg[t]) /\ size[b] - ALIGN(arg[t]) >= HDR
    BY <1>6 DEF Split, RoomForBlock, Left
  <2>3. ALIGN(arg[t]) \in Nat
    BY <2>1, AlignCovers
  <2>4. /\ b \in Nat /\ size[b] \in Nat
        /\ EndOf(b) \in Nat /\ EndOf(b) = b + HDR + size[b]
    BY <1>1, <2>1, BlockAddresses DEF EndOf
  <2>5. r \in Nat /\ b < r /\ r < EndOf(b)
    BY <2>2, <2>3, <2>4, HeaderAssumption
  <2>6. r \notin blocks
    <3>1. ASSUME r \in blocks PROVE EndOf(b) <= r
      BY <1>1, <2>1, <2>5, <3>1 DEF Tiled
    <3> QED
      BY <2>4, <2>5, <3>1
  <2>7. h # b /\ h # r
    BY <1>2, <2>1, <2>6
  <2>8. size \in [Nodes -> 0 .. HEAP] /\ marker \in [Nodes -> {GOOD, BAD, Junk}]
    BY <1>1 DEF TypeOK
  <2>9. /\ marker' = [marker EXCEPT ![b] = GOOD, ![r] = BAD]
        /\ size' = [size EXCEPT ![b] = ALIGN(arg[t]), ![r] = Left(t) - HDR]
    BY <1>6 DEF Split
  <2> HIDE DEF b, r, h
  <2> QED
    BY <1>2, <2>7, <2>8, <2>9
<1>7. ASSUME NEW t \in Threads, Copy(t) PROVE size'[h] = size[h] /\ marker'[h] = marker[h]
  BY <1>2, <1>7, CopyKeepsHeaders
<1>8. ASSUME NEW t \in Threads, FreeBlock(t) PROVE size'[h] = size[h] /\ marker'[h] = marker[h]
  <2>1. Payload(h) = p /\ ptr[t] \in live /\ ptr[t] # p
    BY <1>1, <1>8, LiveHeader DEF FreeBlock, InHand
  <2>2. h # Header(ptr[t])
    BY <1>1, <2>1, LiveHeader
  <2> QED
    BY <1>1, <1>2, <1>8, <2>2 DEF FreeBlock, TypeOK
<1>9. ASSUME NEW q \in live, Fill(q) PROVE size'[h] = size[h] /\ marker'[h] = marker[h]
  BY <1>2, <1>9, FillKeepsHeaders
<1>10. \/ \E t \in Threads : \/ CheckNextBlock(t) \/ TakeWhole(t) \/ Split(t)
                             \/ Copy(t) \/ FreeBlock(t)
       \/ \E q \in live : Fill(q)
       \/ UNCHANGED <<size, marker>>
  BY DEF Next, Call, Step, vars, heapVars, CallAlloc, CallFree, CallRealloc, AllocLock, Skip, Fail
<1> QED
  BY <1>3, <1>4, <1>5, <1>6, <1>7, <1>8, <1>9, <1>10

(* From the moment it is handed out until it is taken back, a block keeps  *)
(* its size and its marker, whatever the other threads do.                 *)
THEOREM StableHeaders ==
  ASSUME SizesFit
  PROVE  Spec => HeadersStable
<1>1. Inv /\ [Next]_vars =>
        [\A p \in live \cap live' : /\ size'[Header(p)] = size[Header(p)]
                                    /\ marker'[Header(p)] = marker[Header(p)]]_vars
  BY StepKeepsHeaders
<1> QED
  BY <1>1, Correct, PTL DEF Spec, HeadersStable
=============================================================================
