--------------------------- MODULE LmmListProofs ----------------------------
(***************************************************************************)
(* More about module Lmm, on top of its inductive invariant: what the scan *)
(* of the free list finds, and what lmm_realloc carries over.              *)
(*                                                                         *)
(* That the list is one cycle through all the free blocks is stated with   *)
(* the sets that a pointer does not leave, so that CLIST_REMOVE and        *)
(* CLIST_ADDTAIL preserve it without induction over the list.              *)
(***************************************************************************)
EXTENDS LmmProofs

-----------------------------------------------------------------------------
(* The list is whole.                                                      *)

(* Taking a node out of a cycle leaves a cycle, in both directions.        *)
LEMMA UnlinkKeepsCycle ==
  ASSUME NEW S \in SUBSET Nodes, NEW n \in S, n # LIST,
         next \in [Nodes -> Nodes], prev \in [Nodes -> Nodes],
         Ring(next, prev, S), Reached(next, S), Reached(prev, S)
  PROVE  Reached(UnlinkNext(n), S \ {n}) /\ Reached(UnlinkPrev(n), S \ {n})
<1>1. LIST \in S \ {n}
  BY DEF Reached
<1>2. /\ prev[n] \in S /\ next[n] \in S /\ next[prev[n]] = n /\ prev[next[n]] = n
      /\ \A m \in S : /\ next[m] \in S /\ prev[m] \in S
                      /\ next[m] = n => m = prev[n]
                      /\ prev[m] = n => m = next[n]
  BY DEF Ring
<1>3. \A m \in S : /\ UnlinkNext(n)[m] = IF m = prev[n] THEN next[n] ELSE next[m]
                   /\ UnlinkPrev(n)[m] = IF m = next[n] THEN prev[n] ELSE prev[m]
  BY <1>2 DEF UnlinkNext, UnlinkPrev
<1>4. next[n] # n /\ prev[n] # n
  <2>1. ASSUME next[n] = n \/ prev[n] = n PROVE FALSE
    <3> DEFINE R == S \ {n}
    <3>1. Closed(next, R)
      BY <1>2, <2>1 DEF Closed
    <3>2. R = S
      BY <1>1, <3>1 DEF Reached
    <3> QED
      BY <3>2
  <2> QED
    BY <2>1
<1>5. Closed(UnlinkNext(n), S \ {n}) /\ Closed(UnlinkPrev(n), S \ {n})
  BY <1>2, <1>3, <1>4 DEF Closed
<1>6. ASSUME NEW R \in SUBSET (S \ {n}), LIST \in R, Closed(UnlinkNext(n), R)
      PROVE  R = S \ {n}
  <2>1. CASE prev[n] \in R
    <3>1. next[n] \in R
      BY <1>2, <1>3, <1>6, <2>1 DEF Closed
    <3>2. Closed(next, R \cup {n})
      BY <1>2, <1>3, <1>6, <3>1 DEF Closed
    <3>3. R \cup {n} = S
      BY <1>6, <3>2 DEF Reached
    <3> QED
      BY <3>3
  <2>2. CASE prev[n] \notin R
    <3>1. Closed(next, R)
      BY <1>2, <1>3, <1>6, <2>2 DEF Closed
    <3>2. R = S
      BY <1>6, <3>1 DEF Reached
    <3> QED
      BY <3>2
  <2> QED
    BY <2>1, <2>2
<1>7. ASSUME NEW R \in SUBSET (S \ {n}), LIST \in R, Closed(UnlinkPrev(n), R)
      PROVE  R = S \ {n}
  <2>1. CASE next[n] \in R
    <3>1. prev[n] \in R
      BY <1>2, <1>3, <1>7, <2>1 DEF Closed
    <3>2. Closed(prev, R \cup {n})
      BY <1>2, <1>3, <1>7, <3>1 DEF Closed
    <3>3. R \cup {n} = S
      BY <1>7, <3>2 DEF Reached
    <3> QED
      BY <3>3
  <2>2. CASE next[n] \notin R
    <3>1. Closed(prev, R)
      BY <1>2, <1>3, <1>7, <2>2 DEF Closed
    <3>2. R = S
      BY <1>7, <3>1 DEF Reached
    <3> QED
      BY <3>2
  <2> QED
    BY <2>1, <2>2
<1> QED
  BY <1>1, <1>5, <1>6, <1>7 DEF Reached

(* A node put at the tail of a cycle is reached from both ends of it.      *)
LEMMA AddTailKeepsCycle ==
  ASSUME NEW S \in SUBSET Nodes, NEW n \in Nodes \ S,
         NEW nx \in [Nodes -> Nodes], NEW pv \in [Nodes -> Nodes],
         Ring(nx, pv, S), Reached(nx, S), Reached(pv, S)
  PROVE  /\ Reached(AddTailNext(nx, pv, n), S \cup {n})
         /\ Reached(AddTailPrev(pv, n), S \cup {n})
<1> DEFINE fx == AddTailNext(nx, pv, n)
           fv == AddTailPrev(pv, n)
           tail == pv[LIST]
<1>1. LIST \in S /\ n # LIST
  BY DEF Reached
<1>2. /\ tail \in S /\ nx[tail] = LIST
      /\ \A m \in S : /\ nx[m] \in S /\ nx[m] # n
                      /\ pv[m] \in S /\ pv[m] # n
  BY <1>1 DEF Ring
<1>3. fx[n] = LIST /\ fx[tail] = n /\ \A m \in S \ {tail} : fx[m] = nx[m]
  BY <1>1, <1>2 DEF AddTailNext
<1>4. fv[n] = tail /\ fv[LIST] = n /\ \A m \in S \ {LIST} : fv[m] = pv[m]
  BY <1>1, <1>2 DEF AddTailPrev
<1> HIDE DEF fx, fv, tail
<1>5. Closed(fx, S \cup {n}) /\ Closed(fv, S \cup {n})
  BY <1>1, <1>2, <1>3, <1>4 DEF Closed
<1>6. ASSUME NEW R \in SUBSET (S \cup {n}), LIST \in R, Closed(fx, R)
      PROVE  R = S \cup {n}
  <2>1. Closed(nx, R \ {n})
    BY <1>1, <1>2, <1>3, <1>6 DEF Closed
  <2>2. R \ {n} = S
    BY <1>1, <1>6, <2>1 DEF Reached
  <2>3. n \in R
    BY <1>2, <1>3, <1>6, <2>2 DEF Closed
  <2> QED
    BY <2>2, <2>3
<1>7. ASSUME NEW R \in SUBSET (S \cup {n}), LIST \in R, Closed(fv, R)
      PROVE  R = S \cup {n}
  <2>1. n \in R /\ tail \in R
    BY <1>4, <1>7 DEF Closed
  <2>2. Closed(pv, R \ {n})
    <3> SUFFICES ASSUME NEW m \in R \ {n} PROVE pv[m] \in R \ {n}
      BY DEF Closed
    <3>1. CASE m = LIST
      BY <1>1, <1>2, <2>1, <3>1 DEF tail
    <3>2. CASE m # LIST
      BY <1>2, <1>4, <1>7, <3>2 DEF Closed
    <3> QED
      BY <3>1, <3>2
  <2>3. R \ {n} = S
    BY <1>1, <1>7, <2>2 DEF Reached
  <2> QED
    BY <2>1, <2>3
<1> QED
  BY <1>1, <1>5, <1>6, <1>7 DEF Reached, fx, fv

(* A pointer reaches the same blocks when it is the same on all of them.   *)
LEMMA SameCycle ==
  ASSUME NEW S, NEW f, NEW g, \A n \in S : g[n] = f[n], Reached(f, S)
  PROVE  Reached(g, S)
<1>1. \A R \in SUBSET S : Closed(g, R) <=> Closed(f, R)
  BY DEF Closed
<1> QED
  BY <1>1 DEF Reached

(* At the start the only free block is next to the list head.              *)
LEMMA InitListExact ==
  ASSUME Init
  PROVE  FreeListExact
<1>1. FreeBlocks = {0} /\ LIST # 0 /\ 0 \in Nodes /\ LIST \in Nodes
  BY HeaderAssumption, HeapAssumption DEF Init, FreeBlocks, Nodes, Cells, LIST
<1>2. next[LIST] = 0 /\ next[0] = LIST /\ prev[LIST] = 0 /\ prev[0] = LIST
  BY <1>1 DEF Init
<1> QED
  BY <1>1, <1>2 DEF FreeListExact, Reached, Closed

(* The nodes of the list, as the lemmas about rings see them.              *)
LEMMA ListNodes ==
  ASSUME Inv
  PROVE  /\ FreeBlocks \cup {LIST} \in SUBSET Nodes /\ LIST \notin FreeBlocks
         /\ next \in [Nodes -> Nodes] /\ prev \in [Nodes -> Nodes]
         /\ Ring(next, prev, FreeBlocks \cup {LIST})
<1>1. TypeOK /\ Tiled /\ Linked
  BY DEF Inv
<1> QED
  BY <1>1, BlockAddresses DEF FreeBlocks, Nodes, Linked, TypeOK

(* A step that touches no header keeps the list.                           *)
LEMMA SameListExact ==
  ASSUME Inv, FreeListExact, UNCHANGED <<blocks, live>>,
         \A n \in blocks \cup {LIST} : next'[n] = next[n] /\ prev'[n] = prev[n]
  PROVE  FreeListExact'
<1> DEFINE S == FreeBlocks \cup {LIST}
<1>1. S' = S /\ \A n \in S : next'[n] = next[n] /\ prev'[n] = prev[n]
  BY DEF FreeBlocks
<1>2. Reached(next, S) /\ Reached(prev, S)
  BY DEF FreeListExact
<1> HIDE DEF S
<1>3. Reached(next', S) /\ Reached(prev', S)
  BY <1>1, <1>2, SameCycle
<1>4. Reached(next, S)' /\ Reached(prev, S)'
  BY <1>1, <1>3 DEF Reached, Closed
<1> QED
  BY <1>4 DEF FreeListExact, S

(* What a split leaves over is a new header, between the block handed out  *)
(* and the next.                                                           *)
LEMMA SplitRemain ==
  ASSUME SizesFit, Inv, NEW t \in Threads, Split(t)
  PROVE  LET r == it[t] + HDR + ALIGN(arg[t])
         IN /\ r \in Nodes \ blocks /\ r # LIST /\ r \in Int
            /\ it[t] < r /\ r < EndOf(it[t]) /\ Payload(r) \notin live'
<1> DEFINE b == it[t]
           a == ALIGN(arg[t])
           r == b + HDR + a
<1>1. TypeOK /\ Tiled /\ Marked
  BY DEF Inv
<1>2. pc[t] = "fit" /\ HandOut(t) /\ size[b] >= a /\ size[b] - a >= HDR
  BY DEF Split, RoomForBlock, Left
<1>3. b \in blocks /\ arg[t] \in Sizes /\ live' = live \cup {Payload(b)}
  BY <1>2, HandOutKeeps
<1>4. /\ b \in Nat /\ size[b] \in Nat /\ EndOf(b) \in Nat /\ EndOf(b) <= HEAP
      /\ EndOf(b) = b + HDR + size[b]
  BY <1>1, <1>3, BlockAddresses DEF EndOf
<1>5. HDR \in Nat \ {0} /\ HEAP \in Nat /\ a \in Nat
  BY <1>3, AlignCovers, HeaderAssumption, HeapAssumption
<1>6. r \in Nat /\ b < r /\ r < EndOf(b)
  BY <1>2, <1>4, <1>5
<1>7. r \in Nodes /\ r # LIST
  BY <1>4, <1>5, <1>6 DEF Nodes, Cells, LIST
<1>8. r \notin blocks
  <2>1. ASSUME r \in blocks PROVE EndOf(b) <= r
    BY <1>1, <1>3, <1>6, <2>1 DEF Tiled
  <2> QED
    BY <1>4, <1>6, <2>1
<1>9. Payload(r) \notin live'
  <2>1. Header(Payload(r)) = r /\ Payload(r) # Payload(b)
    BY <1>4, <1>5, <1>6 DEF Header, Payload
  <2> QED
    BY <1>1, <1>3, <1>8, <2>1 DEF Marked
<1> QED
  BY <1>6, <1>7, <1>8, <1>9

(* Handing out a block takes it out of the list; what a split leaves over  *)
(* is put at the tail.                                                     *)
LEMMA TakeWholeListExact ==
  ASSUME Inv, FreeListExact, NEW t \in Threads, TakeWhole(t)
  PROVE  FreeListExact'
<1> DEFINE b == it[t]
           S == FreeBlocks \cup {LIST}
<1>1. /\ pc[t] = "fit" /\ HandOut(t) /\ blocks' = blocks
      /\ next' = UnlinkNext(b) /\ prev' = UnlinkPrev(b)
  BY DEF TakeWhole
<1>2. b \in FreeBlocks /\ live' = live \cup {Payload(b)}
  BY <1>1, HandOutKeeps
<1>3. \A c \in blocks : Payload(c) = Payload(b) => c = b
  BY <1>2, BlockAddresses DEF Inv, FreeBlocks
<1>4. S' = S \ {b}
  BY <1>1, <1>2, <1>3, ListNodes DEF FreeBlocks
<1>5. Reached(next, S) /\ Reached(prev, S)
  BY DEF FreeListExact
<1>6. b \in S /\ b # LIST
  BY <1>2, ListNodes
<1>7. Reached(UnlinkNext(b), S \ {b}) /\ Reached(UnlinkPrev(b), S \ {b})
  BY <1>5, <1>6, ListNodes, UnlinkKeepsCycle
<1>8. Reached(next, S)' /\ Reached(prev, S)'
  BY <1>1, <1>4, <1>7 DEF Reached, Closed
<1> QED
  BY <1>8 DEF FreeListExact

LEMMA SplitListExact ==
  ASSUME SizesFit, Inv, FreeListExact, NEW t \in Threads, Split(t)
  PROVE  FreeListExact'
<1> DEFINE b == it[t]
           r == b + HDR + ALIGN(arg[t])
           S == FreeBlocks \cup {LIST}
<1>1. /\ pc[t] = "fit" /\ HandOut(t) /\ blocks' = blocks \cup {r}
      /\ next' = AddTailNext(UnlinkNext(b), UnlinkPrev(b), r)
      /\ prev' = AddTailPrev(UnlinkPrev(b), r)
  BY DEF Split
<1>2. b \in FreeBlocks /\ b \in blocks /\ live' = live \cup {Payload(b)}
  BY <1>1, HandOutKeeps
<1>3. r \in Nodes \ blocks /\ r # LIST /\ Payload(r) \notin live'
  BY SplitRemain
<1>4. \A c \in blocks : Payload(c) = Payload(b) => c = b
  BY <1>2, BlockAddresses DEF Inv
<1>5. S' = (S \ {b}) \cup {r}
  BY <1>1, <1>2, <1>3, <1>4, ListNodes DEF FreeBlocks
<1>6. b \in S /\ b # LIST /\ S \in SUBSET Nodes
  BY <1>2, ListNodes
<1>7. Reached(next, S) /\ Reached(prev, S)
  BY DEF FreeListExact
<1>8. Ring(next, prev, S) /\ next \in [Nodes -> Nodes] /\ prev \in [Nodes -> Nodes]
  BY ListNodes
<1>9. r \in Nodes \ (S \ {b})
  BY <1>3 DEF FreeBlocks
<1> DEFINE nx == UnlinkNext(b)
           pv == UnlinkPrev(b)
           Q == S \ {b}
<1> HIDE DEF S
<1>10. Reached(nx, Q) /\ Reached(pv, Q) /\ Ring(nx, pv, Q)
  BY <1>6, <1>7, <1>8, UnlinkKeepsCycle, UnlinkKeepsRing
<1>11. nx \in [Nodes -> Nodes] /\ pv \in [Nodes -> Nodes] /\ Q \in SUBSET Nodes
  BY <1>6, <1>8 DEF UnlinkNext, UnlinkPrev
<1>12. r \in Nodes \ Q
  BY <1>9
<1> HIDE DEF nx, pv, Q, r
<1>13. Reached(AddTailNext(nx, pv, r), Q \cup {r}) /\ Reached(AddTailPrev(pv, r), Q \cup {r})
  BY <1>10, <1>11, <1>12, AddTailKeepsCycle
<1>14. Reached(next', S') /\ Reached(prev', S')
  BY <1>1, <1>5, <1>13 DEF nx, pv, Q, r
<1>15. Reached(next, S)' /\ Reached(prev, S)'
  BY <1>14 DEF Reached, Closed
<1> QED
  BY <1>15 DEF FreeListExact, S

(* A block that check_next_block absorbs is a free block of the list.      *)
LEMMA AbsorbedIsFree ==
  ASSUME Inv, NEW t \in Threads, CheckNextBlock(t), NextIsFree(it[t])
  PROVE  /\ it[t] \in FreeBlocks /\ it[t] \in blocks
         /\ EndOf(it[t]) \in FreeBlocks /\ EndOf(it[t]) # it[t]
<1> DEFINE b == it[t]
<1>1. TypeOK /\ Tiled /\ Marked /\ Scanning /\ HEAP \in Nat
  BY HeapAssumption DEF Inv
<1>2. b \in FreeBlocks /\ b \in blocks
  BY <1>1 DEF Scanning, CheckNextBlock, FreeBlocks
<1>3. b \in Nat /\ EndOf(b) \in Nat /\ b < EndOf(b)
  BY <1>1, <1>2, BlockAddresses
<1>4. EndOf(b) \in blocks /\ marker[EndOf(b)] = BAD
  BY <1>1, <1>2, <1>3 DEF Tiled, NextIsFree
<1>5. EndOf(b) \in FreeBlocks
  BY <1>1, <1>4 DEF Marked, FreeBlocks, GOOD, BAD
<1> QED
  BY <1>2, <1>3, <1>5

(* Coalescing takes the absorbed block out of the list.                    *)
LEMMA CheckNextBlockListExact ==
  ASSUME Inv, FreeListExact, NEW t \in Threads, CheckNextBlock(t)
  PROVE  FreeListExact'
<1> DEFINE b == it[t]
           n == EndOf(b)
           S == FreeBlocks \cup {LIST}
<1>1. CASE ~NextIsFree(b)
  BY <1>1, SameListExact DEF CheckNextBlock
<1>2. CASE NextIsFree(b)
  <2>1. /\ next' = UnlinkNext(n) /\ prev' = UnlinkPrev(n)
        /\ blocks' = blocks \ {n} /\ live' = live
    BY <1>2 DEF CheckNextBlock
  <2>2. n \in FreeBlocks /\ n # b
    BY <1>2, AbsorbedIsFree
  <2>3. S' = S \ {n} /\ n \in S /\ n # LIST
    BY <2>1, <2>2, ListNodes DEF FreeBlocks
  <2>4. Reached(next, S) /\ Reached(prev, S)
    BY DEF FreeListExact
  <2>5. Reached(UnlinkNext(n), S \ {n}) /\ Reached(UnlinkPrev(n), S \ {n})
    BY <2>3, <2>4, ListNodes, UnlinkKeepsCycle
  <2>6. Reached(next, S)' /\ Reached(prev, S)'
    BY <2>1, <2>3, <2>5 DEF Reached, Closed
  <2> QED
    BY <2>6 DEF FreeListExact
<1> QED
  BY <1>1, <1>2

(* lmm_free puts the block at the tail of the list.                        *)
LEMMA FreeBlockListExact ==
  ASSUME Inv, FreeListExact, NEW t \in Threads, FreeBlock(t)
  PROVE  FreeListExact'
<1> DEFINE p == ptr[t]
           b == Header(p)
           S == FreeBlocks \cup {LIST}
<1>1. TypeOK /\ Tiled /\ Marked /\ InHand
  BY DEF Inv
<1>2. /\ next' = AddTailNext(next, prev, b) /\ prev' = AddTailPrev(prev, b)
      /\ live' = live \ {p} /\ blocks' = blocks
  BY DEF FreeBlock
<1>3. p \in live
  BY <1>1 DEF InHand, FreeBlock
<1>4. b \in blocks /\ b \notin FreeBlocks /\ Payload(b) = p
  BY <1>1, <1>3, LiveHeader
<1>5. \A c \in blocks : Payload(c) = p => c = b
  BY <1>1, <1>4, BlockAddresses
<1>6. S' = S \cup {b}
  BY <1>2, <1>4, <1>5 DEF FreeBlocks
<1>7. b \in Nodes \ S
  BY <1>1, <1>4, BlockAddresses
<1>8. Reached(next, S) /\ Reached(prev, S)
  BY DEF FreeListExact
<1>9. /\ S \in SUBSET Nodes /\ Ring(next, prev, S)
      /\ next \in [Nodes -> Nodes] /\ prev \in [Nodes -> Nodes]
  BY ListNodes
<1> HIDE DEF S, b
<1>10. /\ Reached(AddTailNext(next, prev, b), S \cup {b})
       /\ Reached(AddTailPrev(prev, b), S \cup {b})
  BY <1>7, <1>8, <1>9, AddTailKeepsCycle
<1>11. Reached(next, S)' /\ Reached(prev, S)'
  BY <1>2, <1>6, <1>10 DEF Reached, Closed
<1> QED
  BY <1>11 DEF FreeListExact, S

(* Every step keeps the list whole.                                        *)
LEMMA NextListExact ==
  ASSUME SizesFit, Inv, FreeListExact, [Next]_vars
  PROVE  FreeListExact'
<1>1. CASE UNCHANGED <<next, prev, blocks, live>>
  BY <1>1, SameListExact
<1>2. ASSUME NEW t \in Threads, CheckNextBlock(t) PROVE FreeListExact'
  BY <1>2, CheckNextBlockListExact
<1>3. ASSUME NEW t \in Threads, TakeWhole(t) PROVE FreeListExact'
  BY <1>3, TakeWholeListExact
<1>4. ASSUME NEW t \in Threads, Split(t) PROVE FreeListExact'
  BY <1>4, SplitListExact
<1>5. ASSUME NEW t \in Threads, Copy(t) PROVE FreeListExact'
  BY <1>5, CopyKeepsHeaders, SameListExact DEF Copy
<1>6. ASSUME NEW t \in Threads, FreeBlock(t) PROVE FreeListExact'
  BY <1>6, FreeBlockListExact
<1>7. ASSUME NEW p \in live, Fill(p) PROVE FreeListExact'
  BY <1>7, FillKeepsHeaders, SameListExact DEF Fill
<1>8. \/ \E t \in Threads : \/ CheckNextBlock(t) \/ TakeWhole(t) \/ Split(t)
                            \/ Copy(t) \/ FreeBlock(t)
      \/ \E p \in live : Fill(p)
      \/ UNCHANGED <<next, prev, blocks, live>>
  BY DEF Next, Call, Step, vars, heapVars, CallAlloc, CallFree, CallRealloc, AllocLock, Skip, Fail
<1> QED
  BY <1>1, <1>2, <1>3, <1>4, <1>5, <1>6, <1>7, <1>8

(* From the list head, in either direction, lmm_free and the scan reach    *)
(* all the free blocks and nothing else: none is ever lost to the list.    *)
THEOREM ListExact ==
  ASSUME SizesFit
  PROVE  Spec => []FreeListExact
<1>1. Init => Inv /\ FreeListExact
  BY InitInv, InitListExact
<1>2. Inv /\ FreeListExact /\ [Next]_vars => Inv' /\ FreeListExact'
  BY NextInv, NextListExact
<1> QED
  BY <1>1, <1>2, PTL DEF Spec

-----------------------------------------------------------------------------
(* What the scan has seen.                                                 *)

(* P is what the scan of t has passed: what lies between the list head and *)
(* the cursor, all of it too small, none of it next to a free block unless *)
(* the scan has coalesced some.                                            *)
Passed(t, P) ==
  /\ it[t] \notin P
  /\ \A n \in P \cup {LIST} : next[n] \in P \cup {it[t]}
  /\ \A b \in P : size[b] < ALIGN(arg[t])
  /\ \A b \in P : merged[t] \/ EndOf(b) \notin FreeBlocks
  /\ pc[t] = "fit" => merged[t] \/ EndOf(it[t]) \notin FreeBlocks

Scanned ==
  \A t \in Threads : pc[t] \in {"check", "fit"} => \E P \in SUBSET FreeBlocks : Passed(t, P)

(* A scan that came back to the list head has passed every free block.     *)
LEMMA ScannedJustifies ==
  ASSUME Inv, FreeListExact, Scanned
  PROVE  FailureJustified
<1> SUFFICES ASSUME NEW t \in Threads, pc[t] = "check", it[t] = LIST, NEW b \in FreeBlocks
             PROVE  size[b] < ALIGN(arg[t]) /\ (merged[t] \/ EndOf(b) \notin FreeBlocks)
  BY DEF FailureJustified
<1>1. PICK P \in SUBSET FreeBlocks : Passed(t, P)
  BY DEF Scanned
<1>2. Closed(next, P \cup {LIST})
  BY <1>1 DEF Passed, Closed
<1>3. P \cup {LIST} = FreeBlocks \cup {LIST}
  BY <1>2 DEF FreeListExact, Reached
<1>4. b \in P
  BY <1>3, ListNodes
<1> QED
  BY <1>1, <1>4 DEF Passed

(* Steps of other threads, and of the application, leave a scan alone.     *)
LEMMA SameScan ==
  ASSUME Inv, NEW t \in Threads, NEW P \in SUBSET FreeBlocks, Passed(t, P),
         pc[t] \in {"check", "fit"}, UNCHANGED <<blocks, live>>,
         pc'[t] = pc[t], it'[t] = it[t], arg'[t] = arg[t], merged'[t] = merged[t],
         \A n \in blocks \cup {LIST} : next'[n] = next[n] /\ size'[n] = size[n]
  PROVE  P \in SUBSET FreeBlocks' /\ Passed(t, P)'
<1>1. FreeBlocks' = FreeBlocks /\ FreeBlocks \subseteq blocks
  BY DEF FreeBlocks
<1>2. pc[t] = "fit" => it[t] \in blocks
  BY <1>1 DEF Inv, Scanning
<1>3. \A b \in blocks : EndOf(b)' = EndOf(b)
  BY DEF EndOf
<1>4. ALIGN(arg[t])' = ALIGN(arg[t])
  BY DEF ALIGN
<1>5. \A b \in P : EndOf(b)' = EndOf(b) /\ size'[b] = size[b]
  BY <1>1, <1>3
<1>6. pc[t] = "fit" => EndOf(it[t])' = EndOf(it[t])
  BY <1>2 DEF EndOf
<1>7. \A n \in P \cup {LIST} : next'[n] = next[n]
  BY <1>1
<1> QED
  BY <1>1, <1>4, <1>5, <1>6, <1>7 DEF Passed

(* The first block that a scan looks at is the one after the list head.    *)
LEMMA AllocLockScan ==
  ASSUME Inv, NEW t \in Threads, AllocLock(t)
  PROVE  {} \in SUBSET FreeBlocks' /\ Passed(t, {})'
<1>1. pc'[t] = "check" /\ it'[t] = next[LIST] /\ next' = next
  BY DEF AllocLock, heapVars, Inv, TypeOK
<1> QED
  BY <1>1 DEF Passed

(* A block that is too small joins those passed.                           *)
LEMMA SkipScan ==
  ASSUME Inv, NEW t \in Threads, Skip(t), NEW P \in SUBSET FreeBlocks, Passed(t, P),
         FreeListExact
  PROVE  \E Q \in SUBSET FreeBlocks' : Passed(t, Q)'
<1> DEFINE b == it[t]
           S == FreeBlocks \cup {LIST}
<1>1. /\ pc[t] = "fit" /\ size[b] < ALIGN(arg[t]) /\ pc'[t] = "check" /\ it'[t] = next[b]
      /\ UNCHANGED <<next, size, blocks, arg, live, merged>>
  BY DEF Skip, heapVars, Inv, TypeOK
<1>2. b \in FreeBlocks /\ b # LIST /\ LIST \notin FreeBlocks
  BY <1>1, ListNodes DEF Inv, Scanning
<1>3. PICK Q : Q = P \cup {b}
  OBVIOUS
<1>4. \A n \in P \cup {LIST} : next[n] \in Q
  BY <1>3 DEF Passed
<1>5. next[b] \notin Q
  <2>1. ASSUME next[b] \in Q PROVE FALSE
    <3>1. Closed(next, Q \cup {LIST})
      BY <1>3, <1>4, <2>1 DEF Closed
    <3>2. Q \cup {LIST} = S
      BY <1>3, <1>2, <3>1 DEF FreeListExact, Reached
    <3>3. prev[LIST] \in S /\ next[prev[LIST]] = LIST
      BY ListNodes DEF Ring
    <3>4. next[prev[LIST]] \in Q
      BY <1>3, <1>4, <2>1, <3>2, <3>3
    <3> QED
      BY <1>3, <1>2, <3>3, <3>4
  <2> QED
    BY <2>1
<1>6. FreeBlocks' = FreeBlocks /\ ALIGN(arg[t])' = ALIGN(arg[t]) /\ arg'[t] = arg[t]
  BY <1>1 DEF FreeBlocks, ALIGN
<1>7. \A c \in Q : EndOf(c)' = EndOf(c) /\ size'[c] = size[c]
  BY <1>1 DEF EndOf
<1>8. \A c \in Q : size[c] < ALIGN(arg[t]) /\ (merged[t] \/ EndOf(c) \notin FreeBlocks)
  BY <1>3, <1>1 DEF Passed
<1>9. \A n \in Q \cup {LIST} : next'[n] \in Q \cup {it'[t]}
  BY <1>3, <1>1, <1>4
<1>10. \A c \in Q : size'[c] < ALIGN(arg'[t])
  BY <1>1, <1>7, <1>8
<1>11. \A c \in Q : merged'[t] \/ EndOf(c)' \notin FreeBlocks'
  BY <1>1, <1>6, <1>7, <1>8
<1>12. Q \in SUBSET FreeBlocks'
  BY <1>3, <1>2, <1>6
<1>13. it'[t] \notin Q /\ pc'[t] # "fit"
  BY <1>1, <1>5
<1>14. Passed(t, Q)'
  BY <1>9, <1>10, <1>11, <1>13, Zenon DEF Passed
<1> QED
  BY <1>12, <1>14

(* Coalescing may absorb a block that was passed; the scan has then merged.*)
LEMMA CheckNextBlockScan ==
  ASSUME Inv, NEW t \in Threads, CheckNextBlock(t), NEW P \in SUBSET FreeBlocks, Passed(t, P)
  PROVE  \E Q \in SUBSET FreeBlocks' : Passed(t, Q)'
<1> DEFINE b == it[t]
           n == EndOf(b)
           S == FreeBlocks \cup {LIST}
<1>1. /\ pc[t] = "check" /\ b # LIST /\ pc'[t] = "fit" /\ it'[t] = b
      /\ UNCHANGED <<it, arg, live>>
  BY DEF CheckNextBlock, Inv, TypeOK
<1>2. b \in FreeBlocks /\ b \in blocks /\ FreeBlocks \subseteq blocks
  BY <1>1 DEF Inv, Scanning, FreeBlocks
<1>3. ALIGN(arg[t])' = ALIGN(arg[t])
  BY <1>1 DEF ALIGN
<1>4. CASE ~NextIsFree(b)
  <2>1. UNCHANGED <<next, size, blocks, merged>>
    BY <1>4 DEF CheckNextBlock
  <2>2. n \notin FreeBlocks
    <3>1. ASSUME n \in FreeBlocks PROVE FALSE
      <4>1. n \in blocks /\ marker[n] = BAD
        BY <1>2, <3>1 DEF Inv, Marked, FreeBlocks
      <4>2. n \in 0 .. HEAP - HDR
        BY <4>1 DEF Inv, TypeOK
      <4>3. n < HEAP
        BY <4>2, HeaderAssumption, HeapAssumption
      <4> QED
        BY <1>4, <4>1, <4>3 DEF NextIsFree
    <3> QED
      BY <3>1
  <2>3. FreeBlocks' = FreeBlocks /\ \A c \in P \cup {b} : EndOf(c)' = EndOf(c)
    BY <1>1, <2>1 DEF FreeBlocks, EndOf
  <2>4. EndOf(it[t])' = n
    BY <1>1, <2>1 DEF EndOf
  <2>5. Passed(t, P)'
    BY <1>1, <1>3, <2>1, <2>2, <2>3, <2>4 DEF Passed
  <2> QED
    BY <2>3, <2>5
<1>5. CASE NextIsFree(b)
  <2>1. PICK Q : Q = P \ {n}
    OBVIOUS
  <2>2. /\ size'   = [size EXCEPT ![b] = size[b] + size[n] + HDR]
        /\ next'   = UnlinkNext(n) /\ blocks' = blocks \ {n}
        /\ merged' = [merged EXCEPT ![t] = TRUE]
    BY <1>5 DEF CheckNextBlock
  <2>3. n \in FreeBlocks /\ n # b /\ merged'[t] = TRUE
    BY <1>5, <2>2, AbsorbedIsFree DEF Inv, TypeOK
  <2>4. FreeBlocks' = FreeBlocks \ {n}
    BY <1>1, <2>2 DEF FreeBlocks
  <2>5. \A c \in Q : size'[c] = size[c]
    BY <1>2, <2>2, <2>1, ListNodes DEF Passed, Inv, TypeOK
  <2>6. \A m \in S : next'[m] = IF m = prev[n] THEN next[n] ELSE next[m]
    BY <2>2, <2>3, ListNodes DEF UnlinkNext, Ring
  <2>7. ASSUME NEW m \in Q \cup {LIST} PROVE next'[m] \in Q \cup {b}
    <3>1. m \in S /\ m # n /\ next[m] \in P \cup {b}
      BY <2>3, <2>1, ListNodes DEF Passed
    <3>2. CASE m # prev[n]
      <4>1. next[m] # n
        BY <2>3, <3>1, <3>2, ListNodes DEF Ring
      <4> QED
        BY <2>1, <2>6, <3>1, <3>2, <4>1
    <3>3. CASE m = prev[n]
      <4>1. next[m] = n
        BY <2>3, <3>3, ListNodes DEF Ring
      <4>2. n \in P
        BY <2>3, <3>1, <4>1
      <4>3. next[n] \in P \cup {b}
        BY <4>2 DEF Passed
      <4>4. next[n] # n
        <5>1. ASSUME next[n] = n PROVE FALSE
          <6>1. prev[n] = n
            BY <2>3, <5>1, ListNodes DEF Ring
          <6> QED
            BY <3>1, <3>3, <6>1
        <5> QED
          BY <5>1
      <4> QED
        BY <2>1, <2>6, <3>1, <3>3, <4>3, <4>4
    <3> QED
      BY <3>2, <3>3
  <2>8. Q \in SUBSET FreeBlocks' /\ b \notin Q
    BY <2>4, <2>1 DEF Passed
  <2>9. \A c \in Q : size'[c] < ALIGN(arg[t])
    BY <2>5, <2>1 DEF Passed
  <2>10. /\ it'[t] \notin Q /\ \A m \in Q \cup {LIST} : next'[m] \in Q \cup {it'[t]}
         /\ \A c \in Q : size'[c] < ALIGN(arg'[t])
    BY <1>1, <1>3, <2>7, <2>8, <2>9
  <2>11. Passed(t, Q)'
    BY <2>3, <2>10, Zenon DEF Passed
  <2> QED
    BY <2>8, <2>11
<1> QED
  BY <1>4, <1>5

(* Every step keeps what is known of the scans under way.                  *)
LEMMA NextScanned ==
  ASSUME SizesFit, Inv, FreeListExact, Scanned, [Next]_vars
  PROVE  Scanned'
<1> SUFFICES ASSUME NEW t \in Threads, pc'[t] \in {"check", "fit"}
             PROVE  \E Q \in SUBSET FreeBlocks' : Passed(t, Q)'
  BY DEF Scanned
<1>1. CASE AllocLock(t)
  BY <1>1, AllocLockScan
<1>2. CASE Skip(t)
  <2>1. PICK P \in SUBSET FreeBlocks : Passed(t, P)
    BY <1>2 DEF Skip, Scanned
  <2> QED
    BY <1>2, <2>1, SkipScan
<1>3. CASE CheckNextBlock(t)
  <2>1. PICK P \in SUBSET FreeBlocks : Passed(t, P)
    BY <1>3 DEF CheckNextBlock, Scanned
  <2> QED
    BY <1>3, <2>1, CheckNextBlockScan
<1>4. ASSUME pc[t] \in {"check", "fit"}, UNCHANGED <<blocks, live>>,
             pc'[t] = pc[t], it'[t] = it[t], arg'[t] = arg[t], merged'[t] = merged[t],
             \A n \in blocks \cup {LIST} : next'[n] = next[n] /\ size'[n] = size[n]
      PROVE  \E Q \in SUBSET FreeBlocks' : Passed(t, Q)'
  <2>1. PICK P \in SUBSET FreeBlocks : Passed(t, P)
    BY <1>4 DEF Scanned
  <2> QED
    BY <1>4, <2>1, SameScan
<1>5. ASSUME NEW p \in live, Fill(p)
      PROVE  \E Q \in SUBSET FreeBlocks' : Passed(t, Q)'
  BY <1>4, <1>5, FillKeepsHeaders DEF Fill
<1>6. CASE UNCHANGED vars
  BY <1>4, <1>6 DEF vars
<1>7. ASSUME NEW u \in Threads, Call(u)
      PROVE  \E Q \in SUBSET FreeBlocks' : Passed(t, Q)'
  <2>1. /\ u # t /\ pc[t] \in {"check", "fit"} /\ UNCHANGED <<next, size, blocks, live>>
        /\ pc'[t] = pc[t] /\ it'[t] = it[t] /\ arg'[t] = arg[t] /\ merged'[t] = merged[t]
    BY <1>7 DEF Call, CallAlloc, CallFree, CallRealloc, heapVars, Inv, TypeOK
  <2> QED
    BY <1>4, <2>1
<1>8. ASSUME NEW u \in Threads, u # t, Step(u) PROVE FALSE
  <2>1. lock = u \/ lock = NoThread
    BY <1>8 DEF Step, AllocLock, CheckNextBlock, Skip, TakeWhole, Split, Fail, Copy, FreeBlock,
                Inv, Scanning
  <2>2. pc[t] \in {"check", "fit"}
    BY <1>8 DEF Step, AllocLock, CheckNextBlock, Skip, TakeWhole, Split, Fail, Copy, FreeBlock,
                HandOut, Inv, TypeOK
  <2> QED
    BY <1>8, <2>1, <2>2, NamesAssumption DEF Inv, Scanning
<1>9. \/ AllocLock(t) \/ Skip(t) \/ CheckNextBlock(t) \/ ~Step(t)
  BY DEF Step, TakeWhole, Split, Fail, Copy, FreeBlock, HandOut, Inv, TypeOK
<1> QED
  BY <1>1, <1>2, <1>3, <1>5, <1>6, <1>7, <1>8, <1>9 DEF Next

(* lmm_alloc gives up only when no free block is large enough for the      *)
(* request; and if that scan coalesced nothing, no two free blocks are     *)
(* adjacent, so that the same request would fail again.                    *)
THEOREM FailuresJustified ==
  ASSUME SizesFit
  PROVE  Spec => []FailureJustified
<1>1. Init => Inv /\ FreeListExact /\ Scanned
  <2>1. Init => Scanned
    BY DEF Init, Scanned
  <2> QED
    BY <2>1, InitInv, InitListExact
<1>2. Inv /\ FreeListExact /\ Scanned /\ [Next]_vars => Inv' /\ FreeListExact' /\ Scanned'
  BY NextInv, NextListExact, NextScanned
<1>3. Inv /\ FreeListExact /\ Scanned => FailureJustified
  BY ScannedJustifies
<1> QED
  BY <1>1, <1>2, <1>3, PTL DEF Spec

-----------------------------------------------------------------------------
(* What lmm_realloc carries over.                                          *)

(* The cells of a block beyond its header.                                 *)
Cell(p, c) == c \in Int /\ p <= c /\ c < p + size[Header(p)]

(* Two blocks in use have no cell in common.                               *)
LEMMA CellsApart ==
  ASSUME Inv, NEW p \in live, NEW q \in live, p # q,
         NEW c, NEW d, Cell(p, c), Cell(q, d)
  PROVE  c # d
<1> DEFINE h == Header(p)
           k == Header(q)
<1>1. TypeOK /\ Tiled /\ Marked /\ HDR \in Nat \ {0}
  BY HeaderAssumption DEF Inv
<1>2. /\ h \in blocks /\ k \in blocks /\ p \in Int /\ q \in Int
      /\ p = h + HDR /\ q = k + HDR
  BY <1>1, LiveHeader DEF Header
<1>3. /\ h \in Nat /\ size[h] \in Nat /\ EndOf(h) = p + size[h]
      /\ k \in Nat /\ size[k] \in Nat /\ EndOf(k) = q + size[k]
  BY <1>1, <1>2, BlockAddresses DEF EndOf
<1>4. h < k \/ k < h
  BY <1>1, <1>2, <1>3
<1>5. EndOf(h) <= k \/ EndOf(k) <= h
  BY <1>1, <1>2, <1>4 DEF Tiled
<1> QED
  BY <1>1, <1>2, <1>3, <1>5 DEF Cell

(* A block in use and a free block have no cell in common.                 *)
LEMMA CellOfNoFree ==
  ASSUME Inv, NEW p \in live, NEW c, Cell(p, c), NEW b \in FreeBlocks
  PROVE  c < b \/ EndOf(b) <= c
<1> DEFINE h == Header(p)
<1>1. TypeOK /\ Tiled /\ Marked /\ HDR \in Nat \ {0}
  BY HeaderAssumption DEF Inv
<1>2. h \in blocks /\ h # b /\ p \in Int /\ p = h + HDR /\ b \in blocks
  BY <1>1, LiveHeader DEF Header, FreeBlocks
<1>3. /\ h \in Nat /\ size[h] \in Nat /\ EndOf(h) = p + size[h]
      /\ b \in Nat /\ EndOf(b) \in Nat
  BY <1>1, <1>2, BlockAddresses DEF EndOf
<1>4. EndOf(h) <= b \/ EndOf(b) <= h
  BY <1>1, <1>2, <1>3 DEF Tiled
<1> QED
  BY <1>1, <1>2, <1>3, <1>4 DEF Cell

Same(c) == next'[c] = next[c] /\ size'[c] = size[c] /\ marker'[c] = marker[c]

(* The header changes of the list touch no payload.                        *)
LEMMA ListKeepsCells ==
  ASSUME SizesFit, Inv, NEW p \in live, NEW c, Cell(p, c), NEW t \in Threads,
         CheckNextBlock(t) \/ TakeWhole(t) \/ Split(t) \/ FreeBlock(t)
  PROVE  Same(c)
<1> DEFINE S == FreeBlocks \cup {LIST}
<1>1. TypeOK /\ Tiled /\ Marked /\ Linked /\ Scanning /\ InHand
  BY DEF Inv
<1>2. c \in Nodes /\ c \notin blocks \cup {LIST}
  BY <1>1, PayloadCells DEF Cell
<1>3. /\ FreeBlocks \subseteq blocks /\ c \notin S
      /\ \A n \in S : next[n] # c /\ prev[n] # c
  BY <1>2, ListNodes DEF FreeBlocks, Ring
<1>4. CASE CheckNextBlock(t)
  <2> DEFINE b == it[t]
  <2>1. CASE ~NextIsFree(b)
    BY <1>4, <2>1 DEF CheckNextBlock, Same
  <2>2. CASE NextIsFree(b)
    <3>1. b \in FreeBlocks /\ EndOf(b) \in FreeBlocks
      BY <1>4, <2>2, AbsorbedIsFree
    <3>2. /\ size' = [size EXCEPT ![b] = size[b] + size[EndOf(b)] + HDR]
          /\ next' = [next EXCEPT ![prev[EndOf(b)]] = next[EndOf(b)]]
          /\ marker' = marker
      BY <1>4, <2>2 DEF CheckNextBlock, UnlinkNext
    <3>3. c # b /\ c # prev[EndOf(b)]
      BY <1>3, <3>1
    <3> QED
      BY <1>1, <1>2, <3>2, <3>3 DEF TypeOK, Same
  <2> QED
    BY <2>1, <2>2
<1>5. CASE TakeWhole(t)
  <2> DEFINE b == it[t]
  <2>1. b \in FreeBlocks
    BY <1>1, <1>5 DEF TakeWhole, Scanning
  <2>2. /\ size' = size /\ next' = [next EXCEPT ![prev[b]] = next[b]]
        /\ marker' = [marker EXCEPT ![b] = GOOD]
    BY <1>5 DEF TakeWhole, UnlinkNext
  <2>3. c # b /\ c # prev[b]
    BY <1>3, <2>1
  <2> QED
    BY <1>1, <1>2, <2>2, <2>3 DEF TypeOK, Same
<1>6. CASE Split(t)
  <2> DEFINE b == it[t]
             r == b + HDR + ALIGN(arg[t])
             nx == UnlinkNext(b)
             pv == UnlinkPrev(b)
  <2>1. b \in FreeBlocks
    BY <1>1, <1>6 DEF Split, Scanning
  <2>2. /\ r \in Nodes \ blocks /\ r # LIST /\ r \in Int /\ b < r /\ r < EndOf(b)
    BY <1>6, SplitRemain
  <2>3. c # r
    <3>1. c \in Int /\ b \in Nat /\ EndOf(b) \in Nat
      BY <1>1, <1>3, <2>1, BlockAddresses DEF Cell
    <3> QED
      BY <2>1, <2>2, <3>1, CellOfNoFree
  <2>4. Ring(nx, pv, S \ {b}) /\ LIST \in S \ {b}
    BY <2>1, ListNodes, UnlinkKeepsRing
  <2>5. pv[LIST] \in S
    BY <2>4 DEF Ring
  <2>6. c # b /\ c # prev[b] /\ c # pv[LIST]
    BY <1>3, <2>1, <2>5
  <2>7. nx \in [Nodes -> Nodes] /\ nx[c] = next[c]
    <3>1. next \in [Nodes -> Nodes] /\ b \in Nodes /\ next[b] \in Nodes
      BY <2>1, ListNodes
    <3> QED
      BY <1>2, <2>6, <3>1 DEF UnlinkNext
  <2>8. /\ next' = [nx EXCEPT ![r] = LIST, ![pv[LIST]] = r]
        /\ marker' = [marker EXCEPT ![b] = GOOD, ![r] = BAD]
        /\ size' = [size EXCEPT ![b] = ALIGN(arg[t]), ![r] = Left(t) - HDR]
    BY <1>6 DEF Split, AddTailNext
  <2> HIDE DEF nx, pv, r, b
  <2> QED
    BY <1>1, <1>2, <2>3, <2>6, <2>7, <2>8 DEF TypeOK, Same
<1>7. CASE FreeBlock(t)
  <2> DEFINE b == Header(ptr[t])
  <2>1. b \in blocks
    BY <1>1, <1>7 DEF FreeBlock, InHand, Marked
  <2>2. /\ next' = [next EXCEPT ![b] = LIST, ![prev[LIST]] = b]
        /\ marker' = [marker EXCEPT ![b] = BAD] /\ size' = size
    BY <1>7 DEF FreeBlock, AddTailNext
  <2>3. c # b /\ c # prev[LIST]
    BY <1>2, <1>3, <2>1
  <2> QED
    BY <1>1, <1>2, <2>2, <2>3 DEF TypeOK, Same
<1> QED
  BY <1>4, <1>5, <1>6, <1>7

(* What the memcpy of a call works on: two blocks in use, the second with  *)
(* room for what is copied.                                                *)
LEMMA CopyRoom ==
  ASSUME Inv, NEW t \in Threads, pc[t] = "copy"
  PROVE  /\ ptr[t] \in live /\ res[t] \in live /\ ptr[t] # res[t]
         /\ ptr[t] \in Int /\ res[t] \in Int /\ req[res[t]] = arg[t]
         /\ CopyLength(t) \in Nat /\ CopyLength(t) <= size[Header(res[t])]
         /\ CopyLength(t) <= arg[t] /\ CopyLength(t) <= size[Header(ptr[t])]
         /\ arg[t] \in Nat /\ size[Header(ptr[t])] \in Nat
         /\ \A k \in Nat : k < arg[t] /\ k < size[Header(ptr[t])] => k < CopyLength(t)
<1>1. TypeOK /\ Tiled /\ Marked /\ InHand /\ Covers
  BY DEF Inv
<1>2. /\ ptr[t] \in live /\ res[t] \in live /\ ptr[t] # res[t] /\ req[res[t]] = arg[t]
  BY <1>1 DEF InHand
<1>3. /\ ptr[t] \in Int /\ res[t] \in Int
      /\ size[Header(ptr[t])] \in Nat /\ size[Header(res[t])] \in Nat
  BY <1>1, <1>2, LiveHeader, BlockAddresses
<1>4. arg[t] \in Nat /\ arg[t] <= size[Header(res[t])]
  BY <1>1, <1>2, SizesNat DEF TypeOK, Covers
<1> QED
  BY <1>2, <1>3, <1>4 DEF CopyLength

(* The memcpy of another call, and what applications write, stay in their  *)
(* own blocks.                                                             *)
LEMMA CopyKeepsCells ==
  ASSUME Inv, NEW p \in live, NEW c, Cell(p, c), NEW t \in Threads, Copy(t), res[t] # p
  PROVE  Same(c)
<1>1. TypeOK /\ Tiled /\ Marked /\ pc[t] = "copy"
  BY DEF Inv, Copy
<1>2. c \in Nodes
  BY <1>1, PayloadCells DEF Cell
<1>3. \A d \in res[t] .. res[t] + CopyLength(t) - 1 : Cell(res[t], d)
  BY <1>1, CopyRoom, BlockAddresses, LiveHeader DEF Cell
<1>4. c \notin res[t] .. res[t] + CopyLength(t) - 1
  BY <1>1, <1>3, CopyRoom, CellsApart
<1> QED
  BY <1>2, <1>4 DEF Copy, Copied, Same

LEMMA FillKeepsCells ==
  ASSUME Inv, NEW p \in live, NEW c, Cell(p, c), NEW q \in live, Fill(q), q # p
  PROVE  Same(c)
<1>1. TypeOK /\ Tiled /\ Marked /\ Covers
  BY DEF Inv
<1>2. c \in Nodes
  BY <1>1, PayloadCells DEF Cell
<1>3. q \in Int /\ req[q] \in Nat /\ size[Header(q)] \in Nat /\ req[q] <= size[Header(q)]
  BY <1>1, LiveHeader, BlockAddresses, SizesNat DEF TypeOK, Covers
<1>4. \A d \in q .. q + req[q] - 1 : Cell(q, d)
  BY <1>3 DEF Cell
<1>5. c \notin q .. q + req[q] - 1
  BY <1>4, CellsApart
<1> QED
  BY <1>2, <1>5 DEF Fill, Same

(* No step but the holder's own changes what a block in hand contains.     *)
LEMMA StepKeepsCells ==
  ASSUME SizesFit, Inv, [Next]_vars, NEW p \in live, p \in Busy, NEW c, Cell(p, c),
         \A t \in Threads : pc[t] = "copy" => res[t] # p
  PROVE  Same(c)
<1>1. CASE UNCHANGED <<next, size, marker>>
  BY <1>1 DEF Same
<1>2. ASSUME NEW t \in Threads,
             CheckNextBlock(t) \/ TakeWhole(t) \/ Split(t) \/ FreeBlock(t)
      PROVE  Same(c)
  BY <1>2, ListKeepsCells
<1>3. ASSUME NEW t \in Threads, Copy(t) PROVE Same(c)
  <2>1. res[t] # p
    BY <1>3 DEF Copy
  <2> QED
    BY <1>3, <2>1, CopyKeepsCells
<1>4. ASSUME NEW q \in live, Fill(q) PROVE Same(c)
  <2>1. q # p
    BY <1>4 DEF Fill
  <2> QED
    BY <1>4, <2>1, FillKeepsCells
<1>5. \/ \E t \in Threads : \/ CheckNextBlock(t) \/ TakeWhole(t) \/ Split(t)
                            \/ Copy(t) \/ FreeBlock(t)
      \/ \E q \in live : Fill(q)
      \/ UNCHANGED <<next, size, marker>>
  BY DEF Next, Call, Step, vars, heapVars, CallAlloc, CallFree, CallRealloc, AllocLock, Skip, Fail
<1> QED
  BY <1>1, <1>2, <1>3, <1>4, <1>5

(* The request of a block that stays in use is the one it was made with.   *)
LEMMA StepKeepsRequests ==
  ASSUME Inv, [Next]_vars, NEW p \in live, p \in live'
  PROVE  req'[p] = req[p]
<1>1. ASSUME NEW t \in Threads, TakeWhole(t) \/ Split(t) PROVE req'[p] = req[p]
  <2>1. pc[t] = "fit" /\ HandOut(t)
    BY <1>1 DEF TakeWhole, Split
  <2>2. Payload(it[t]) # p /\ req' = [req EXCEPT ![Payload(it[t])] = arg[t]]
    BY <2>1, HandOutKeeps
  <2> QED
    BY <2>2 DEF Inv, TypeOK
<1>2. ASSUME NEW t \in Threads, FreeBlock(t) PROVE req'[p] = req[p]
  BY <1>2 DEF FreeBlock, Inv, TypeOK
<1>3. \/ \E t \in Threads : TakeWhole(t) \/ Split(t) \/ FreeBlock(t)
      \/ req' = req
  BY DEF Next, Call, Step, vars, CallAlloc, CallFree, CallRealloc, AllocLock,
         CheckNextBlock, Skip, Fail, Copy, Fill
<1> QED
  BY <1>1, <1>2, <1>3

(* Once a call has copied, its new block is the one that it asked for, and *)
(* starts with what the old one holds.                                     *)
Carried(t) ==
  /\ req[res[t]] = arg[t]
  /\ \A k \in Nat : k < arg[t] /\ k < size[Header(ptr[t])] =>
       /\ marker[res[t] + k] = marker[ptr[t] + k]
       /\ size[res[t] + k] = size[ptr[t] + k]
       /\ next[res[t] + k] = next[ptr[t] + k]

AllCarried == \A t \in Threads : pc[t] = "free" /\ res[t] # NULL => Carried(t)

(* The memcpy makes the two blocks equal: it reads none of what it writes. *)
LEMMA CopyCarries ==
  ASSUME SizesFit, Inv, NEW t \in Threads, Copy(t)
  PROVE  Carried(t)'
<1> DEFINE p == ptr[t]
           q == res[t]
           L == CopyLength(t)
<1>1. TypeOK /\ Tiled /\ Marked /\ pc[t] = "copy"
  BY DEF Inv, Copy
<1>2. /\ p \in live /\ q \in live /\ p # q /\ p \in Int /\ q \in Int /\ req[q] = arg[t]
      /\ L \in Nat /\ L <= size[Header(q)] /\ L <= size[Header(p)]
      /\ size[Header(p)] \in Nat
      /\ \A k \in Nat : k < arg[t] /\ k < size[Header(p)] => k < L
  BY <1>1, CopyRoom
<1>3. /\ next' = Copied(t, next) /\ size' = Copied(t, size) /\ marker' = Copied(t, marker)
      /\ UNCHANGED <<arg, ptr, res, live, req, blocks>>
  BY DEF Copy
<1>4. size'[Header(p)] = size[Header(p)]
  BY <1>1, <1>2, LiveHeader, CopyKeepsHeaders
<1>5. ASSUME NEW k \in Nat, k < L
      PROVE  /\ marker'[q + k] = marker'[p + k] /\ size'[q + k] = size'[p + k]
             /\ next'[q + k] = next'[p + k]
  <2>1. Cell(p, p + k) /\ Cell(q, q + k)
    BY <1>2, <1>5, <1>1, LiveHeader, BlockAddresses DEF Cell
  <2>2. Same(p + k)
    BY <1>2, <2>1, CopyKeepsCells
  <2>3. q + k \in Nodes /\ q + k \in q .. q + L - 1 /\ p + ((q + k) - q) = p + k
    BY <1>1, <1>2, <1>5, <2>1, PayloadCells DEF Cell
  <2>4. /\ marker'[q + k] = marker[p + k] /\ size'[q + k] = size[p + k]
        /\ next'[q + k] = next[p + k]
    BY <1>3, <2>3 DEF Copied
  <2> QED
    BY <2>2, <2>4 DEF Same
<1> QED
  BY <1>2, <1>3, <1>4, <1>5 DEF Carried

(* Between the memcpy and the free of the old block nothing changes either.*)
LEMMA CarriedStays ==
  ASSUME SizesFit, Inv, Inv', [Next]_vars, NEW t \in Threads, pc[t] = "free", res[t] # NULL,
         Carried(t), ptr'[t] = ptr[t], res'[t] = res[t], arg'[t] = arg[t],
         pc'[t] = "free"
  PROVE  Carried(t)'
<1> DEFINE p == ptr[t]
           q == res[t]
<1>1. TypeOK /\ Tiled /\ Marked /\ InHand /\ Covers
  BY DEF Inv
<1>2. p \in live /\ q \in live /\ p \in Busy /\ q \in Busy /\ q # NULL /\ p # NULL
  BY <1>1 DEF InHand, Busy
<1>3. p \in live' /\ q \in live'
  BY <1>2 DEF Inv, InHand
<1>4. size'[Header(p)] = size[Header(p)]
  BY <1>2, <1>3, StepKeepsHeaders
<1>5. \A u \in Threads : pc[u] = "copy" => res[u] # p /\ res[u] # q
  <2> SUFFICES ASSUME NEW u \in Threads, pc[u] = "copy" PROVE res[u] # p /\ res[u] # q
    OBVIOUS
  <2>1. u # t
    OBVIOUS
  <2>2. p \notin {ptr[u], res[u]} /\ q \notin {ptr[u], res[u]}
    BY <1>1, <1>2, <2>1 DEF InHand
  <2> QED
    BY <2>2
<1>6. req'[q] = arg'[t]
  <2>1. req[q] = arg[t]
    BY DEF Carried
  <2>2. req'[q] = req[q]
    BY <1>2, <1>3, StepKeepsRequests
  <2> QED
    BY <2>1, <2>2
<1>7. /\ p \in Int /\ q \in Int /\ arg[t] \in Nat /\ arg[t] <= size[Header(q)]
      /\ size[Header(p)] \in Nat /\ size[Header(q)] \in Nat
  <2>1. req[q] = arg[t]
    BY DEF Carried
  <2> QED
    BY <1>1, <1>2, <2>1, LiveHeader, BlockAddresses, SizesNat DEF TypeOK, Covers
<1>8. ASSUME NEW k \in Nat, k < arg[t], k < size[Header(p)]
      PROVE  /\ marker'[q + k] = marker'[p + k] /\ size'[q + k] = size'[p + k]
             /\ next'[q + k] = next'[p + k]
  <2>1. Cell(p, p + k) /\ Cell(q, q + k)
    BY <1>7, <1>8 DEF Cell
  <2>2. Same(p + k) /\ Same(q + k)
    BY <1>2, <1>5, <2>1, StepKeepsCells
  <2>3. /\ marker[q + k] = marker[p + k] /\ size[q + k] = size[p + k]
        /\ next[q + k] = next[p + k]
    BY <1>8 DEF Carried
  <2> QED
    BY <2>2, <2>3 DEF Same
<1> QED
  BY <1>4, <1>6, <1>8 DEF Carried

(* Every step keeps what is known of the reallocations that have copied.   *)
LEMMA NextCarried ==
  ASSUME SizesFit, Inv, Inv', AllCarried, [Next]_vars
  PROVE  AllCarried'
<1> SUFFICES ASSUME NEW t \in Threads, pc'[t] = "free", res'[t] # NULL
             PROVE  Carried(t)'
  BY DEF AllCarried
<1>1. CASE Copy(t)
  BY <1>1, CopyCarries
<1>2. CASE pc[t] = "free" /\ res[t] = res'[t] /\ ptr[t] = ptr'[t] /\ arg[t] = arg'[t]
  BY <1>2, CarriedStays DEF AllCarried
<1>3. Copy(t) \/ (pc[t] = "free" /\ res[t] = res'[t] /\ ptr[t] = ptr'[t] /\ arg[t] = arg'[t])
  <2>1. CASE UNCHANGED vars
    BY <2>1 DEF vars
  <2>2. ASSUME NEW p \in live, Fill(p)
        PROVE  pc[t] = "free" /\ res[t] = res'[t] /\ ptr[t] = ptr'[t] /\ arg[t] = arg'[t]
    BY <2>2 DEF Fill
  <2>3. ASSUME NEW u \in Threads, Call(u) \/ Step(u), u # t
        PROVE  pc[t] = "free" /\ res[t] = res'[t] /\ ptr[t] = ptr'[t] /\ arg[t] = arg'[t]
    BY <2>3 DEF Call, CallAlloc, CallFree, CallRealloc, Step, AllocLock, CheckNextBlock, Skip,
                TakeWhole, Split, Fail, Copy, FreeBlock, HandOut, Inv, TypeOK
  <2>4. ASSUME Call(t) PROVE FALSE
    <3>1. res[t] = NULL
      BY <2>4 DEF Call, CallAlloc, CallFree, CallRealloc, Inv, InHand
    <3> QED
      BY <2>4, <3>1 DEF Call, CallAlloc, CallFree, CallRealloc
  <2>5. ASSUME Step(t) PROVE Copy(t)
    <3>1. pc[t] \in {"alloc", "check", "fit"} => res[t] = NULL
      BY DEF Inv, InHand
    <3> QED
      BY <2>5, <3>1 DEF Step, AllocLock, CheckNextBlock, Skip, TakeWhole, Split, Fail,
                        FreeBlock, HandOut, Inv, TypeOK
  <2> QED
    BY <2>1, <2>2, <2>3, <2>4, <2>5 DEF Next
<1> QED
  BY <1>1, <1>2, <1>3

(* From the memcpy of lmm_realloc to the free of the old block, whatever   *)
(* other threads allocate, release, resize or write, the new block starts  *)
(* with what the old one holds, up to the smaller of the two sizes.        *)
THEOREM DataKept ==
  ASSUME SizesFit
  PROVE  Spec => []ReallocKeepsData
<1>1. Init => Inv /\ AllCarried
  <2>1. Init => AllCarried
    BY DEF Init, AllCarried
  <2> QED
    BY <2>1, InitInv
<1>2. Inv /\ AllCarried /\ [Next]_vars => Inv' /\ AllCarried'
  BY NextInv, NextCarried
<1>3. AllCarried => ReallocKeepsData
  BY HeapAssumption, HeaderAssumption DEF AllCarried, Carried, ReallocKeepsData
<1> QED
  BY <1>1, <1>2, <1>3, PTL DEF Spec
=============================================================================
