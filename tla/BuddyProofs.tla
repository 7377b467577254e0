----------------------------- MODULE BuddyProofs -----------------------------
(***************************************************************************)
(* Proofs about Buddy, for tables and memory maps of every size.           *)
(***************************************************************************)
EXTENDS Buddy, FiniteSetTheorems, TLAPS

------------------------------------------------------------------------------
(* Arithmetic of blocks.                                                   *)

(* Block sizes are positive, and one order up is twice the size. *)
LEMMA BlockSizes ==
  /\ \A k \in Orders : BlockSize[k] \in Nat /\ BlockSize[k] > 0
  /\ \A k \in Orders : k > 0 => k - 1 \in Orders /\ BlockSize[k] = 2 * BlockSize[k - 1]
  /\ \A k \in Orders : k < BUDDY_MAX_ORDER => k + 1 \in Orders /\ BlockSize[k + 1] = 2 * BlockSize[k]
<1>1. \A k \in Orders : BlockSize[k] \in Nat /\ BlockSize[k] > 0
  BY BlockSizeAssumption
<1>2. ASSUME NEW k \in Orders, k < BUDDY_MAX_ORDER
      PROVE  k + 1 \in Orders /\ BlockSize[k + 1] = 2 * BlockSize[k]
  BY <1>2, SizesAssumption, BlockSizeAssumption DEF Orders
<1>3. ASSUME NEW k \in Orders, k > 0
      PROVE  k - 1 \in Orders /\ BlockSize[k] = 2 * BlockSize[k - 1]
  <2>1. k - 1 \in Orders /\ k - 1 < BUDDY_MAX_ORDER /\ (k - 1) + 1 = k
    BY <1>3, SizesAssumption DEF Orders
  <2> QED BY <2>1, <1>2
<1> QED BY <1>1, <1>2, <1>3

(* A natural number divided by a positive one is a natural number, and     *)
(* zero when the dividend is the smaller.                                  *)
LEMMA DivNat ==
  ASSUME NEW a \in Nat, NEW b \in Nat, b > 0
  PROVE  a \div b \in Nat /\ (a < b => a \div b = 0)
OBVIOUS

(* The buddy of a block (buddy.c:272) is the block before it or after it.  *)
LEMMA BuddyIsAdjacent ==
  ASSUME NEW f \in Nat, NEW k \in Orders
  PROVE  /\ buddy_frame(f, k) \in Nat
         /\ \/ buddy_frame(f, k) = f + BlockSize[k]
            \/ buddy_frame(f, k) = f - BlockSize[k]
<1> DEFINE B == BlockSize[k]
<1>1. B \in Nat /\ B > 0
  BY BlockSizes
<1>2. (f \div B) \in Nat /\ (f < B => f \div B = 0)
  BY <1>1, DivNat
<1>3. (f \div B) % 2 # 0 => f >= B
  BY <1>1, <1>2
<1> QED BY <1>1, <1>3 DEF buddy_frame

------------------------------------------------------------------------------
(* The two changes made to the lists.                                      *)

(* Distinct page states are distinct numbers. *)
LEMMA StatesDiffer ==
  /\ BUDDY_PAGE_STATE_FREE_BODY \notin Orders
  /\ BUDDY_PAGE_STATE_ALLOCATED \notin Orders
  /\ BUDDY_PAGE_STATE_RESERVED \notin Orders
  /\ BUDDY_PAGE_STATE_FREE_BODY # BUDDY_PAGE_STATE_ALLOCATED
  /\ BUDDY_PAGE_STATE_FREE_BODY # BUDDY_PAGE_STATE_RESERVED
  /\ BUDDY_PAGE_STATE_ALLOCATED # BUDDY_PAGE_STATE_RESERVED
  /\ Nil \notin Frames
  /\ Frames \subseteq Nat
  /\ Orders \subseteq Nat
BY SizesAssumption DEF Orders, Frames, Nil, BUDDY_PAGE_STATE_FREE_BODY,
     BUDDY_PAGE_STATE_ALLOCATED, BUDDY_PAGE_STATE_RESERVED

(* A block holds its first page. *)
LEMMA HeadInBlock ==
  ASSUME NEW g \in Frames, NEW k \in Orders
  PROVE  g \in Nat /\ BlockSize[k] \in Nat /\ BlockSize[k] > 0 /\ g \in Block(g, k)
<1>1. g \in Nat /\ BlockSize[k] \in Nat /\ BlockSize[k] > 0
  BY BlockSizes, StatesDiffer
<1> QED BY <1>1 DEF Block

(***************************************************************************)
(* buddy_add_free_block(f, k) adds the block to the blocks on the lists    *)
(* and disturbs none of them, if its pages belong to none of them and it   *)
(* leaves what was in flight, if it was.                                   *)
(***************************************************************************)
LEMMA AddFreeBlock ==
  ASSUME TypeOK, BlocksDisjoint, ListsConsistent,
         NEW f \in Frames, NEW k \in Orders,
         f + BlockSize[k] <= BUDDY_MAX_PAGES,
         buddy_add_free_block(f, k),
         \A g \in FreeHeads : Block(g, buddy_page_state[g]) \cap Block(f, k) = {},
         InFlight' \subseteq InFlight,
         InFlight' \cap Block(f, k) = {},
         InFlight \ InFlight' \subseteq Block(f, k)
  PROVE  /\ FreeHeads' = FreeHeads \cup {f}
         /\ f \notin FreeHeads
         /\ BlocksDisjoint'
         /\ ListsConsistent'
<1>1. /\ buddy_page_state' = buddy_mark_block_free(f, k)
      /\ buddy_free_prev' = [p \in Frames |-> IF p = f THEN Nil
                               ELSE IF p = buddy_free_list[k] THEN f ELSE buddy_free_prev[p]]
      /\ buddy_free_next' = [buddy_free_next EXCEPT ![f] = buddy_free_list[k]]
      /\ buddy_free_list' = [buddy_free_list EXCEPT ![k] = f]
  BY DEF buddy_add_free_block
<1>2. BlockSize[k] \in Nat /\ BlockSize[k] > 0 /\ f \in Nat /\ f \in Block(f, k)
  BY BlockSizes, StatesDiffer DEF Block
<1>3. \A g \in FreeHeads : /\ g \in Frames
                           /\ buddy_page_state[g] \in Orders
                           /\ g \in Block(g, buddy_page_state[g])
                           /\ g \notin Block(f, k)
  <2> SUFFICES ASSUME NEW g \in FreeHeads
               PROVE  /\ g \in Frames
                      /\ buddy_page_state[g] \in Orders
                      /\ g \in Block(g, buddy_page_state[g])
                      /\ g \notin Block(f, k)
    OBVIOUS
  <2>1. g \in Frames /\ buddy_page_state[g] \in Orders
    BY DEF FreeHeads
  <2>2. g \in Block(g, buddy_page_state[g])
    BY <2>1, HeadInBlock
  <2> QED BY <2>1, <2>2
<1>4. \A p \in Frames : /\ p = f => buddy_page_state'[p] = k
                        /\ p # f /\ p \in Block(f, k) =>
                             buddy_page_state'[p] = BUDDY_PAGE_STATE_FREE_BODY
                        /\ p \notin Block(f, k) => buddy_page_state'[p] = buddy_page_state[p]
  BY <1>1, <1>2 DEF buddy_mark_block_free
<1>5. f \notin FreeHeads
  BY <1>2, <1>3
<1>6. FreeHeads' = FreeHeads \cup {f}
  <2>1. ASSUME NEW p \in Frames PROVE p \in FreeHeads' <=> p \in FreeHeads \cup {f}
    <3>1. CASE p = f
      BY <3>1, <1>2, <1>4 DEF FreeHeads
    <3>2. CASE p # f /\ p \in Block(f, k)
      BY <3>2, <1>3, <1>4, StatesDiffer DEF FreeHeads
    <3>3. CASE p \notin Block(f, k)
      BY <3>3, <1>2, <1>4 DEF FreeHeads
    <3> QED BY <3>1, <3>2, <3>3
  <2> QED BY <2>1, <1>3 DEF FreeHeads
<1>7. BlocksDisjoint'
  <2> SUFFICES ASSUME NEW g \in FreeHeads'
               PROVE  /\ g + BlockSize[buddy_page_state'[g]] <= BUDDY_MAX_PAGES
                      /\ \A p \in Block(g, buddy_page_state'[g]) :
                           /\ p # g => buddy_page_state'[p] = BUDDY_PAGE_STATE_FREE_BODY
                           /\ p \notin InFlight'
    BY DEF BlocksDisjoint, Block
  <2>1. CASE g = f
    <3>1. buddy_page_state'[g] = k
      BY <2>1, <1>4
    <3>2. \A p \in Block(f, k) : p \in Frames
      BY <1>2, SizesAssumption DEF Block, Frames
    <3> QED BY <2>1, <3>1, <3>2, <1>4
  <2>2. CASE g \in FreeHeads
    <3>1. buddy_page_state'[g] = buddy_page_state[g]
      BY <2>2, <1>3, <1>4
    <3>2. /\ g + BlockSize[buddy_page_state[g]] <= BUDDY_MAX_PAGES
          /\ \A p \in Block(g, buddy_page_state[g]) :
               /\ p # g => buddy_page_state[p] = BUDDY_PAGE_STATE_FREE_BODY
               /\ p \notin InFlight
      BY <2>2 DEF BlocksDisjoint
    <3>3. \A p \in Block(g, buddy_page_state[g]) : p \in Frames /\ p \notin Block(f, k)
      <4>1. g \in Nat /\ BlockSize[buddy_page_state[g]] \in Nat
        BY <2>2, <1>3, BlockSizes, StatesDiffer
      <4>2. \A p \in Block(g, buddy_page_state[g]) : p \in Frames
        BY <4>1, <3>2, SizesAssumption DEF Block, Frames
      <4> QED BY <4>2, <2>2
    <3> QED BY <3>1, <3>2, <3>3, <1>4
  <2> QED BY <2>1, <2>2, <1>6
<1>8. ListsConsistent'
  <2>1. \A g \in FreeHeads : buddy_page_state'[g] = buddy_page_state[g] /\ g # f /\ g \in Frames
    BY <1>3, <1>4, <1>5
  <2>2. buddy_page_state'[f] = k
    BY <1>4
  <2> HIDE DEF FreeHeads
  <2>3. \A j \in Orders : buddy_free_list'[j] = IF j = k THEN f ELSE buddy_free_list[j]
    BY <1>1 DEF TypeOK
  <2>4. \A p \in Frames : /\ buddy_free_next'[p] = IF p = f THEN buddy_free_list[k] ELSE buddy_free_next[p]
                          /\ buddy_free_prev'[p] = IF p = f THEN Nil
                               ELSE IF p = buddy_free_list[k] THEN f ELSE buddy_free_prev[p]
    BY <1>1 DEF TypeOK
  <2>9. \A j \in Orders : buddy_free_list[j] # Nil =>
              /\ buddy_free_list[j] \in FreeHeads
              /\ buddy_page_state[buddy_free_list[j]] = j
              /\ buddy_free_prev[buddy_free_list[j]] = Nil
    BY DEF ListsConsistent
  <2>10. \A g \in FreeHeads :
       /\ buddy_free_next[g] # Nil =>
            /\ buddy_free_next[g] \in FreeHeads
            /\ buddy_page_state[buddy_free_next[g]] = buddy_page_state[g]
            /\ buddy_free_prev[buddy_free_next[g]] = g
       /\ buddy_free_prev[g] # Nil =>
            /\ buddy_free_prev[g] \in FreeHeads
            /\ buddy_page_state[buddy_free_prev[g]] = buddy_page_state[g]
            /\ buddy_free_next[buddy_free_prev[g]] = g
       /\ buddy_free_prev[g] = Nil => buddy_free_list[buddy_page_state[g]] = g
    BY DEF ListsConsistent
  <2>5. ASSUME NEW j \in Orders, buddy_free_list'[j] # Nil
        PROVE  /\ buddy_free_list'[j] \in FreeHeads'
               /\ buddy_page_state'[buddy_free_list'[j]] = j
               /\ buddy_free_prev'[buddy_free_list'[j]] = Nil
    BY <2>1, <2>2, <2>3, <2>4, <2>5, <2>9, <1>6
  <2>6. ASSUME NEW g \in FreeHeads', buddy_free_next'[g] # Nil
        PROVE  /\ buddy_free_next'[g] \in FreeHeads'
               /\ buddy_page_state'[buddy_free_next'[g]] = buddy_page_state'[g]
               /\ buddy_free_prev'[buddy_free_next'[g]] = g
    <3>1. CASE g = f
      BY <3>1, <2>1, <2>2, <2>4, <2>6, <2>9, <1>6
    <3>2. CASE g \in FreeHeads
      <4>1. buddy_free_next'[g] = buddy_free_next[g] /\ buddy_free_next[g] # Nil
        BY <3>2, <2>1, <2>4, <2>6
      <4>2. /\ buddy_free_next[g] \in FreeHeads
            /\ buddy_page_state[buddy_free_next[g]] = buddy_page_state[g]
            /\ buddy_free_prev[buddy_free_next[g]] = g
        BY <3>2, <4>1, <2>10
      <4>3. buddy_free_next[g] # buddy_free_list[k]
        BY <3>2, <4>1, <4>2, <2>1, <2>9, StatesDiffer
      <4> QED BY <3>2, <4>1, <4>2, <4>3, <2>1, <2>4, <1>6
    <3> QED BY <3>1, <3>2, <1>6
  <2>7. ASSUME NEW g \in FreeHeads', buddy_free_prev'[g] # Nil
        PROVE  /\ buddy_free_prev'[g] \in FreeHeads'
               /\ buddy_page_state'[buddy_free_prev'[g]] = buddy_page_state'[g]
               /\ buddy_free_next'[buddy_free_prev'[g]] = g
    <3>1. CASE g = f
      BY <3>1, <2>4, <2>7
    <3>2. CASE g \in FreeHeads /\ g = buddy_free_list[k]
      <4>1. g \in Frames /\ g # f /\ g # Nil /\ buddy_page_state'[g] = buddy_page_state[g]
        BY <3>2, <2>1, StatesDiffer
      <4>2. buddy_free_prev'[g] = f /\ buddy_free_next'[f] = g
        BY <3>2, <4>1, <2>4
      <4>3. buddy_page_state[g] = k
        BY <3>2, <4>1, <2>9
      <4> QED BY <4>1, <4>2, <4>3, <2>2, <1>6
    <3>3. CASE g \in FreeHeads /\ g # buddy_free_list[k]
      BY <3>3, <2>1, <2>4, <2>7, <2>10, <1>6
    <3> QED BY <3>1, <3>2, <3>3, <1>6
  <2>8. ASSUME NEW g \in FreeHeads', buddy_free_prev'[g] = Nil
        PROVE  buddy_free_list'[buddy_page_state'[g]] = g
    <3>1. CASE g = f
      BY <3>1, <2>2, <2>3
    <3>2. CASE g \in FreeHeads
      <4>1. g # buddy_free_list[k] /\ buddy_free_prev[g] = Nil
        BY <3>2, <2>1, <2>4, <2>8, StatesDiffer
      <4>2. buddy_free_list[buddy_page_state[g]] = g
        BY <3>2, <4>1, <2>10
      <4> QED BY <4>1, <4>2, <3>2, <2>1, <2>3, <1>3
    <3> QED BY <3>1, <3>2, <1>6
  <2> QED BY <2>5, <2>6, <2>7, <2>8 DEF ListsConsistent
<1> QED BY <1>5, <1>6, <1>7, <1>8

(***************************************************************************)
(* buddy_remove_free_block(f, k), called for the first page f of a block   *)
(* of order k on the lists, takes that block off and leaves the lists      *)
(* consistent.                                                             *)
(***************************************************************************)
LEMMA RemoveFreeBlock ==
  ASSUME TypeOK, ListsConsistent,
         NEW f \in FreeHeads, NEW k \in Orders, buddy_page_state[f] = k,
         buddy_remove_free_block(f, k),
         FreeHeads' = FreeHeads \ {f}
  PROVE  ListsConsistent'
<1> DEFINE previous == buddy_free_prev[f]
           next == buddy_free_next[f]
<1>1. /\ \A j \in Orders : buddy_free_list'[j] =
                IF previous = Nil /\ j = k THEN next ELSE buddy_free_list[j]
      /\ \A p \in Frames : buddy_free_next'[p] =
                IF p = f THEN Nil ELSE IF p = previous THEN next ELSE buddy_free_next[p]
      /\ \A p \in Frames : buddy_free_prev'[p] =
                IF p = f THEN Nil ELSE IF p = next THEN previous ELSE buddy_free_prev[p]
      /\ buddy_page_state' = buddy_page_state
  BY DEF buddy_remove_free_block, TypeOK
<1>2. \A g \in FreeHeads : g \in Frames /\ buddy_page_state[g] \in Orders
  BY DEF FreeHeads
<1>3. \A j \in Orders : buddy_free_list[j] # Nil =>
        /\ buddy_free_list[j] \in FreeHeads
        /\ buddy_page_state[buddy_free_list[j]] = j
        /\ buddy_free_prev[buddy_free_list[j]] = Nil
  BY DEF ListsConsistent
<1>4. \A g \in FreeHeads :
        /\ buddy_free_next[g] # Nil =>
             /\ buddy_free_next[g] \in FreeHeads
             /\ buddy_page_state[buddy_free_next[g]] = buddy_page_state[g]
             /\ buddy_free_prev[buddy_free_next[g]] = g
        /\ buddy_free_prev[g] # Nil =>
             /\ buddy_free_prev[g] \in FreeHeads
             /\ buddy_page_state[buddy_free_prev[g]] = buddy_page_state[g]
             /\ buddy_free_next[buddy_free_prev[g]] = g
        /\ buddy_free_prev[g] = Nil => buddy_free_list[buddy_page_state[g]] = g
  BY DEF ListsConsistent
<1>5. /\ next # Nil => next \in FreeHeads /\ buddy_page_state[next] = k /\ buddy_free_prev[next] = f
      /\ previous # Nil => previous \in FreeHeads /\ buddy_page_state[previous] = k
                             /\ buddy_free_next[previous] = f
      /\ previous = Nil => buddy_free_list[k] = f
  BY <1>4
<1> HIDE DEF previous, next
<1>6. f # Nil /\ f \in Frames /\ Nil \notin FreeHeads
  BY <1>2, StatesDiffer
<1>7. ASSUME NEW j \in Orders, buddy_free_list'[j] # Nil
      PROVE  /\ buddy_free_list'[j] \in FreeHeads'
             /\ buddy_page_state'[buddy_free_list'[j]] = j
             /\ buddy_free_prev'[buddy_free_list'[j]] = Nil
  <2>1. CASE previous = Nil /\ j = k
    <3>1. buddy_free_list'[j] = next /\ next # Nil
      BY <2>1, <1>1, <1>7
    <3>2. next # f
      BY <3>1, <2>1, <1>5, <1>6 DEF previous
    <3> QED BY <2>1, <3>1, <3>2, <1>1, <1>2, <1>5
  <2>2. CASE ~(previous = Nil /\ j = k)
    <3>1. buddy_free_list'[j] = buddy_free_list[j] /\ buddy_free_list[j] # Nil
      BY <2>2, <1>1, <1>7
    <3>2. /\ buddy_free_list[j] \in FreeHeads
          /\ buddy_page_state[buddy_free_list[j]] = j
          /\ buddy_free_prev[buddy_free_list[j]] = Nil
      BY <3>1, <1>3
    <3>3. buddy_free_list[j] # f
      BY <3>2, <2>2 DEF previous
    <3>4. buddy_free_list[j] # next
      BY <3>1, <3>2, <1>5, <1>6
    <3> QED BY <3>1, <3>2, <3>3, <3>4, <1>1, <1>2
  <2> QED BY <2>1, <2>2
<1>8. ASSUME NEW g \in FreeHeads', buddy_free_next'[g] # Nil
      PROVE  /\ buddy_free_next'[g] \in FreeHeads'
             /\ buddy_page_state'[buddy_free_next'[g]] = buddy_page_state'[g]
             /\ buddy_free_prev'[buddy_free_next'[g]] = g
  <2>1. g \in FreeHeads /\ g # f /\ g \in Frames
    BY <1>2
  <2>2. CASE g = previous
    <3>1. buddy_free_next'[g] = next /\ next # Nil
      BY <2>1, <2>2, <1>1, <1>8
    <3>2. next # f
      BY <2>1, <2>2, <3>1, <1>5, <1>6 DEF previous, next
    <3> QED BY <2>1, <2>2, <3>1, <3>2, <1>1, <1>2, <1>5, <1>6
  <2>3. CASE g # previous
    <3>1. buddy_free_next'[g] = buddy_free_next[g] /\ buddy_free_next[g] # Nil
      BY <2>1, <2>3, <1>1, <1>8
    <3>2. /\ buddy_free_next[g] \in FreeHeads
          /\ buddy_page_state[buddy_free_next[g]] = buddy_page_state[g]
          /\ buddy_free_prev[buddy_free_next[g]] = g
      BY <2>1, <3>1, <1>4
    <3>3. buddy_free_next[g] # f
      BY <3>2, <2>3 DEF previous
    <3>4. buddy_free_next[g] # next
      BY <3>1, <3>2, <2>1, <1>5
    <3> QED BY <3>1, <3>2, <3>3, <3>4, <1>1, <1>2
  <2> QED BY <2>2, <2>3
<1>9. ASSUME NEW g \in FreeHeads', buddy_free_prev'[g] # Nil
      PROVE  /\ buddy_free_prev'[g] \in FreeHeads'
             /\ buddy_page_state'[buddy_free_prev'[g]] = buddy_page_state'[g]
             /\ buddy_free_next'[buddy_free_prev'[g]] = g
  <2>1. g \in FreeHeads /\ g # f /\ g \in Frames
    BY <1>2
  <2>2. CASE g = next
    <3>1. buddy_free_prev'[g] = previous /\ previous # Nil
      BY <2>1, <2>2, <1>1, <1>9
    <3>2. previous # f
      BY <2>1, <2>2, <3>1, <1>5, <1>6 DEF previous, next
    <3> QED BY <2>1, <2>2, <3>1, <3>2, <1>1, <1>2, <1>5, <1>6
  <2>3. CASE g # next
    <3>1. buddy_free_prev'[g] = buddy_free_prev[g] /\ buddy_free_prev[g] # Nil
      BY <2>1, <2>3, <1>1, <1>9
    <3>2. /\ buddy_free_prev[g] \in FreeHeads
          /\ buddy_page_state[buddy_free_prev[g]] = buddy_page_state[g]
          /\ buddy_free_next[buddy_free_prev[g]] = g
      BY <2>1, <3>1, <1>4
    <3>3. buddy_free_prev[g] # f
      BY <3>2, <2>3 DEF next
    <3>4. buddy_free_prev[g] # previous
      BY <3>1, <3>2, <2>1, <1>5
    <3> QED BY <3>1, <3>2, <3>3, <3>4, <1>1, <1>2
  <2> QED BY <2>2, <2>3
<1>10. ASSUME NEW g \in FreeHeads', buddy_free_prev'[g] = Nil
       PROVE  buddy_free_list'[buddy_page_state'[g]] = g
  <2>1. g \in FreeHeads /\ g # f /\ g \in Frames /\ buddy_page_state[g] \in Orders
    BY <1>2
  <2>2. CASE g = next
    <3>1. previous = Nil /\ next # Nil
      BY <2>1, <2>2, <1>1, <1>6, <1>10
    <3> QED BY <2>1, <2>2, <3>1, <1>1, <1>5
  <2>3. CASE g # next
    <3>1. buddy_free_prev[g] = Nil
      BY <2>1, <2>3, <1>1, <1>10
    <3>2. buddy_free_list[buddy_page_state[g]] = g
      BY <2>1, <3>1, <1>4
    <3>3. ~(previous = Nil /\ buddy_page_state[g] = k)
      BY <2>1, <3>2, <1>5
    <3> QED BY <2>1, <3>2, <3>3, <1>1
  <2> QED BY <2>2, <2>3
<1> QED BY <1>7, <1>8, <1>9, <1>10 DEF ListsConsistent

------------------------------------------------------------------------------
(* What the invariant says of blocks on the lists.                         *)

(* Every page of a block on a list is free and not in flight. *)
LEMMA HeadBlockIsFree ==
  ASSUME TypeOK, BlocksDisjoint, NEW g \in FreeHeads
  PROVE  /\ g \in Frames /\ g \in Nat /\ g \notin InFlight
         /\ buddy_page_state[g] \in Orders
         /\ BlockSize[buddy_page_state[g]] \in Nat
         /\ BlockSize[buddy_page_state[g]] > 0
         /\ g + BlockSize[buddy_page_state[g]] <= BUDDY_MAX_PAGES
         /\ \A p \in Block(g, buddy_page_state[g]) :
              p \in Frames /\ p \in FreePages /\ p \notin InFlight
<1>1. g \in Frames /\ buddy_page_state[g] \in Orders /\ g \notin InFlight
  BY DEF FreeHeads
<1>2. g \in Nat /\ BlockSize[buddy_page_state[g]] \in Nat /\ BlockSize[buddy_page_state[g]] > 0
  BY <1>1, HeadInBlock
<1>3. /\ g + BlockSize[buddy_page_state[g]] <= BUDDY_MAX_PAGES
      /\ \A p \in Block(g, buddy_page_state[g]) :
           /\ p # g => buddy_page_state[p] = BUDDY_PAGE_STATE_FREE_BODY
           /\ p \notin InFlight
  BY DEF BlocksDisjoint
<1>4. \A p \in Block(g, buddy_page_state[g]) : p \in Frames
  BY <1>2, <1>3, SizesAssumption DEF Block, Frames
<1> QED BY <1>1, <1>2, <1>3, <1>4 DEF FreePages

(* Two blocks on the lists have no page in common. *)
LEMMA HeadBlocksDisjoint ==
  ASSUME TypeOK, BlocksDisjoint, NEW f \in FreeHeads, NEW g \in FreeHeads, f # g
  PROVE  Block(f, buddy_page_state[f]) \cap Block(g, buddy_page_state[g]) = {}
<1> SUFFICES ASSUME NEW p \in Block(f, buddy_page_state[f]), p \in Block(g, buddy_page_state[g])
             PROVE  FALSE
  OBVIOUS
<1>1. /\ f \in Nat /\ buddy_page_state[f] \in Orders /\ BlockSize[buddy_page_state[f]] \in Nat
      /\ g \in Nat /\ buddy_page_state[g] \in Orders /\ BlockSize[buddy_page_state[g]] \in Nat
  BY HeadBlockIsFree
<1>2. g \in Block(f, buddy_page_state[f]) \/ f \in Block(g, buddy_page_state[g])
  BY <1>1 DEF Block
<1>3. buddy_page_state[g] = BUDDY_PAGE_STATE_FREE_BODY \/ buddy_page_state[f] = BUDDY_PAGE_STATE_FREE_BODY
  BY <1>2 DEF BlocksDisjoint
<1> QED BY <1>1, <1>3, StatesDiffer

(* No page that is not free is in a block on a list. *)
LEMMA FreeHeadsAvoid ==
  ASSUME TypeOK, BlocksDisjoint, NEW S, S \cap (FreePages \ InFlight) = {}
  PROVE  \A g \in FreeHeads : Block(g, buddy_page_state[g]) \cap S = {}
BY HeadBlockIsFree

(* Entries of a memory map name frames inside the table. *)
LEMMA EntryFrames ==
  ASSUME NEW m \in MemMaps, NEW i \in 1 .. Len(m), IsAdded(m[i])
  PROVE  /\ first_frame(m[i]) \in Nat
         /\ last_frame(m[i]) \in Nat
         /\ first_frame(m[i]) < last_frame(m[i])
         /\ last_frame(m[i]) <= BUDDY_MAX_PAGES
         /\ FramesOf(m[i]) = first_frame(m[i]) .. (last_frame(m[i]) - 1)
<1>1. m[i] \in Entries
  BY MemMapAssumption
<1>2. m[i].base \in Nat /\ m[i].length \in Nat
  BY <1>1 DEF Entries
<1>3. (m[i].base + m[i].length) \div BUDDY_PAGE_SIZE \in Nat
  <2>1. m[i].base + m[i].length \in Nat /\ BUDDY_PAGE_SIZE \in Nat /\ BUDDY_PAGE_SIZE > 0
    BY <1>2, SizesAssumption
  <2> QED BY <2>1, DivNat
<1>4. first_frame(m[i]) \in Nat
  <2>1. m[i].base + BUDDY_PAGE_SIZE - 1 \in Nat /\ BUDDY_PAGE_SIZE \in Nat /\ BUDDY_PAGE_SIZE > 0
    BY <1>2, SizesAssumption
  <2> QED BY <2>1, DivNat DEF first_frame
<1>5. /\ first_frame(m[i]) < (m[i].base + m[i].length) \div BUDDY_PAGE_SIZE
      /\ first_frame(m[i]) < BUDDY_MAX_PAGES
  BY DEF IsAdded
<1> QED BY <1>3, <1>4, <1>5, SizesAssumption DEF last_frame, FramesOf

------------------------------------------------------------------------------
(* The invariant holds initially and every action preserves it.            *)

(* After buddy_reset the invariant holds. *)
LEMMA InitIInv == Init => IInv
<1> SUFFICES ASSUME Init PROVE IInv
  OBVIOUS
<1>1. TypeOK
  BY SizesAssumption DEF Init, TypeOK, PageStates, Orders
<1>2. FreeHeads = {}
  BY StatesDiffer DEF Init, FreeHeads
<1>3. BlocksDisjoint
  BY <1>2 DEF BlocksDisjoint
<1>4. ListsConsistent
  BY <1>2 DEF ListsConsistent, Init
<1>5. InFlightInv
  BY DEF Init, InFlightInv
<1>6. BootInv
  <2>1. ASSUME NEW i \in 1 .. Len(memmap) PROVE FramesOf(memmap[i]) \subseteq Frames
    <3>1. CASE IsAdded(memmap[i])
      <4>1. memmap \in MemMaps
        BY DEF Init
      <4> QED BY <3>1, <4>1, EntryFrames, SizesAssumption DEF Frames
    <3>2. CASE ~IsAdded(memmap[i])
      BY <3>2 DEF FramesOf
    <3> QED BY <3>1, <3>2
  <2> QED BY <2>1 DEF Init, BootInv
<1> QED BY <1>1, <1>3, <1>4, <1>5, <1>6 DEF IInv

(* A step that changes no table, and after which nothing is in flight      *)
(* that is not held, leaves the blocks and the lists as they were.         *)
LEMMA TablesUnchanged ==
  ASSUME TypeOK, BlocksDisjoint, ListsConsistent, UNCHANGED tables,
         InFlight = {}, InFlight' \cap FreePages = {}
  PROVE  FreeHeads' = FreeHeads /\ BlocksDisjoint' /\ ListsConsistent'
<1>1. FreeHeads' = FreeHeads
  BY DEF FreeHeads, FreePages, tables
<1>2. BlocksDisjoint'
  <2> SUFFICES ASSUME NEW g \in FreeHeads
               PROVE  /\ g + BlockSize[buddy_page_state[g]] <= BUDDY_MAX_PAGES
                      /\ \A p \in Block(g, buddy_page_state[g]) :
                           /\ p # g => buddy_page_state[p] = BUDDY_PAGE_STATE_FREE_BODY
                           /\ p \notin InFlight'
    BY <1>1 DEF BlocksDisjoint, Block, tables
  <2> QED BY HeadBlockIsFree DEF BlocksDisjoint
<1>3. ListsConsistent'
  BY <1>1 DEF ListsConsistent, tables
<1> QED BY <1>1, <1>2, <1>3

(* Skipping an entry of the memory map keeps the invariant. *)
LEMMA SkipEntryIInv == IInv /\ SkipEntry => IInv'
<1> SUFFICES ASSUME IInv, SkipEntry PROVE IInv'
  OBVIOUS
<1>1. TypeOK'
  BY DEF IInv, TypeOK, SkipEntry, tables, locals
<1>2. BlocksDisjoint' /\ ListsConsistent'
  BY TablesUnchanged DEF IInv, SkipEntry, InFlight, locals
<1>3. InFlightInv'
  BY DEF SkipEntry, InFlightInv
<1>4. BootInv'
  BY DEF IInv, SkipEntry, BootInv, TypeOK, tables, locals
<1> QED BY <1>1, <1>2, <1>3, <1>4 DEF IInv

(* Turning to a usable entry of the memory map (buddy.c:209-229) keeps the  *)
(* invariant. *)
LEMMA AddEntryIInv == IInv /\ AddEntry => IInv'
<1> SUFFICES ASSUME IInv, AddEntry PROVE IInv'
  OBVIOUS
<1> DEFINE e == memmap[entry]
<1>1. memmap \in MemMaps /\ entry \in 1 .. Len(memmap) /\ IsAdded(e)
  <2>1. memmap \in MemMaps /\ entry \in Nat /\ entry > 0 /\ entry <= Len(memmap)
    BY DEF IInv, TypeOK, AddEntry
  <2>2. Len(memmap) \in Nat
    BY <2>1, MemMapAssumption
  <2> QED BY <2>1, <2>2 DEF AddEntry
<1>2. /\ first_frame(e) \in Nat /\ last_frame(e) \in Nat
      /\ first_frame(e) < last_frame(e) /\ last_frame(e) <= BUDDY_MAX_PAGES
      /\ FramesOf(e) = first_frame(e) .. (last_frame(e) - 1)
  BY <1>1, EntryFrames
<1>3. frame' = first_frame(e) /\ pages' = last_frame(e) - first_frame(e)
      /\ entry' = entry + 1 /\ pc' = "range" /\ pc = "init" /\ memmap' = memmap
      /\ UNCHANGED tables
  BY DEF AddEntry
<1>4. TypeOK'
  BY <1>2, <1>3 DEF IInv, TypeOK, AddEntry, tables
<1>5. BlocksDisjoint' /\ ListsConsistent'
  BY <1>3, TablesUnchanged DEF IInv, InFlight
<1>6. InFlightInv'
  BY <1>3 DEF InFlightInv
<1>7. BootInv'
  <2>1. frame' + pages' = last_frame(e) /\ pages' > 0
        /\ frame' .. (frame' + pages' - 1) = FramesOf(e)
    BY <1>2, <1>3
  <2>2. \A i \in entry .. Len(memmap) : FramesOf(memmap[i]) \subseteq
          { p \in Frames : buddy_page_state[p] = BUDDY_PAGE_STATE_RESERVED }
    BY <1>3 DEF IInv, BootInv
  <2>3. entry \in Nat /\ entry \in entry .. Len(memmap)
    BY <1>1, MemMapAssumption
  <2>4. \A i \in (entry + 1) .. Len(memmap) :
           i \in entry .. Len(memmap) /\ i \in 1 .. Len(memmap) /\ i # entry
    BY <1>1, MemMapAssumption
  <2>5. \A i \in (entry + 1) .. Len(memmap) : FramesOf(memmap[i]) \cap FramesOf(e) = {}
    BY <1>1, <2>4, MemMapAssumption
  <2>6. buddy_page_state' = buddy_page_state
    BY <1>3 DEF tables
  <2> HIDE DEF e
  <2>7. FramesOf(e) \subseteq { p \in Frames : buddy_page_state[p] = BUDDY_PAGE_STATE_RESERVED }
    BY <2>2, <2>3 DEF e
  <2> QED BY <1>2, <1>3, <2>1, <2>2, <2>4, <2>5, <2>6, <2>7 DEF BootInv
<1> QED BY <1>4, <1>5, <1>6, <1>7 DEF IInv

(* The end of buddy_init keeps the invariant. *)
LEMMA InitReturnIInv == IInv /\ InitReturn => IInv'
<1> SUFFICES ASSUME IInv, InitReturn PROVE IInv'
  OBVIOUS
<1>1. TypeOK'
  BY SizesAssumption DEF IInv, TypeOK, InitReturn, Return, tables, Orders
<1>2. BlocksDisjoint' /\ ListsConsistent'
  BY TablesUnchanged DEF IInv, InitReturn, Return, InFlight
<1>3. InFlightInv' /\ BootInv'
  BY DEF InitReturn, Return, InFlightInv, BootInv
<1> QED BY <1>1, <1>2, <1>3 DEF IInv

(* The tables after buddy_add_free_block have their types. *)
LEMMA AddFreeBlockType ==
  ASSUME TypeOK, NEW f \in Frames, NEW k \in Orders, buddy_add_free_block(f, k)
  PROVE  /\ buddy_page_state' \in [Frames -> PageStates]
         /\ buddy_free_list' \in [Orders -> Frames \cup {Nil}]
         /\ buddy_free_next' \in [Frames -> Frames \cup {Nil}]
         /\ buddy_free_prev' \in [Frames -> Frames \cup {Nil}]
<1>1. buddy_page_state' \in [Frames -> PageStates]
  BY DEF TypeOK, PageStates, buddy_add_free_block, buddy_mark_block_free
<1> QED BY <1>1 DEF TypeOK, buddy_add_free_block

(* Adding one block of a usable range keeps the invariant. *)
LEMMA AddRangeIInv == IInv /\ buddy_add_range => IInv'
<1> SUFFICES ASSUME IInv, buddy_add_range PROVE IInv'
  OBVIOUS
<1>1. PICK k \in Orders :
        /\ Fits(k)
        /\ buddy_add_free_block(frame, k)
        /\ frame' = IF pages = BlockSize[k] THEN 0 ELSE frame + BlockSize[k]
        /\ pages' = pages - BlockSize[k]
        /\ pc' = IF pages = BlockSize[k] THEN "init" ELSE "range"
  BY DEF buddy_add_range
<1>2. /\ frame \in Nat /\ pages \in Nat /\ BlockSize[k] \in Nat /\ BlockSize[k] > 0
      /\ BlockSize[k] <= pages /\ frame + pages <= BUDDY_MAX_PAGES /\ pc = "range"
  BY <1>1, BlockSizes DEF IInv, TypeOK, BootInv, Fits, buddy_add_range
<1>3. frame \in Frames /\ frame + BlockSize[k] <= BUDDY_MAX_PAGES
  BY <1>2, SizesAssumption DEF Frames
<1>4. UNCHANGED <<memmap, entry, order, req_frame, req_order>>
  BY DEF buddy_add_range
<1> DEFINE Reserved == { p \in Frames : buddy_page_state[p] = BUDDY_PAGE_STATE_RESERVED }
<1>5. Block(frame, k) \subseteq frame .. (frame + pages - 1)
  BY <1>2 DEF Block
<1>6. frame .. (frame + pages - 1) \subseteq Reserved
  BY <1>2 DEF IInv, BootInv
<1>7. InFlight = {} /\ InFlight' = {}
  BY <1>1, <1>2 DEF InFlight
<1>8. Block(frame, k) \cap (FreePages \ InFlight) = {}
  BY <1>5, <1>6, StatesDiffer DEF FreePages
<1>9. BlocksDisjoint' /\ ListsConsistent'
  <2>1. \A g \in FreeHeads : Block(g, buddy_page_state[g]) \cap Block(frame, k) = {}
    BY <1>8, FreeHeadsAvoid DEF IInv
  <2> QED BY <1>1, <1>3, <1>7, <2>1, AddFreeBlock DEF IInv
<1>10. TypeOK'
  <2>1. frame' \in Nat /\ pages' \in Nat /\ pc' \in {"init", "range"}
    BY <1>1, <1>2
  <2> QED BY <1>1, <1>3, <1>4, <2>1, AddFreeBlockType DEF IInv, TypeOK
<1>11. InFlightInv'
  BY <1>1 DEF InFlightInv
<1>12. BootInv'
  <2>1. \A p \in Frames : p \notin Block(frame, k) => buddy_page_state'[p] = buddy_page_state[p]
    <3>1. frame \in Block(frame, k)
      BY <1>3, HeadInBlock
    <3> QED BY <1>1, <3>1 DEF buddy_add_free_block, buddy_mark_block_free
  <2>2. \A i \in entry .. Len(memmap) :
           /\ FramesOf(memmap[i]) \subseteq Reserved
           /\ FramesOf(memmap[i]) \cap (frame .. (frame + pages - 1)) = {}
    BY <1>2 DEF IInv, BootInv
  <2>3. \A i \in entry .. Len(memmap) :
           FramesOf(memmap[i]) \subseteq
             { p \in Frames : buddy_page_state'[p] = BUDDY_PAGE_STATE_RESERVED }
    BY <2>1, <2>2, <1>5
  <2>4. CASE pages = BlockSize[k]
    BY <2>3, <2>4, <1>1, <1>4 DEF BootInv
  <2>5. CASE pages # BlockSize[k]
    <3>1. /\ pages' > 0 /\ frame' + pages' = frame + pages /\ pc' = "range"
          /\ frame' .. (frame' + pages' - 1) \subseteq (frame .. (frame + pages - 1)) \ Block(frame, k)
      BY <2>5, <1>1, <1>2 DEF Block
    <3>2. frame' .. (frame' + pages' - 1) \subseteq
             { p \in Frames : buddy_page_state'[p] = BUDDY_PAGE_STATE_RESERVED }
      BY <3>1, <2>1, <1>6
    <3> QED BY <2>2, <2>3, <3>1, <3>2, <1>2, <1>4 DEF BootInv
  <2> QED BY <2>4, <2>5
<1> QED BY <1>9, <1>10, <1>11, <1>12 DEF IInv

(* A block that is taken off the lists and becomes part of what is in      *)
(* flight leaves the other blocks as they were.                            *)
LEMMA TakeBlock ==
  ASSUME TypeOK, BlocksDisjoint, ListsConsistent,
         NEW f \in FreeHeads, NEW k \in Orders, buddy_page_state[f] = k,
         buddy_remove_free_block(f, k),
         InFlight' = InFlight \cup Block(f, k)
  PROVE  FreeHeads' = FreeHeads \ {f} /\ BlocksDisjoint' /\ ListsConsistent'
<1>1. buddy_page_state' = buddy_page_state
  BY DEF buddy_remove_free_block
<1>2. f \in Block(f, k)
  BY HeadBlockIsFree, HeadInBlock
<1>3. ASSUME NEW g \in FreeHeads, g # f
      PROVE  /\ g \notin Block(f, k)
             /\ Block(g, buddy_page_state[g]) \cap Block(f, k) = {}
             /\ g \notin InFlight'
  <2>1. Block(g, buddy_page_state[g]) \cap Block(f, k) = {}
    BY <1>3, HeadBlocksDisjoint
  <2>2. g \in Block(g, buddy_page_state[g]) /\ g \notin InFlight
    BY HeadBlockIsFree, HeadInBlock
  <2> QED BY <2>1, <2>2
<1>4. FreeHeads' = FreeHeads \ {f}
  <2>1. FreeHeads' \subseteq FreeHeads
    BY <1>1 DEF FreeHeads
  <2>2. f \notin FreeHeads'
    BY <1>2 DEF FreeHeads
  <2>3. \A g \in FreeHeads \ {f} : g \in FreeHeads'
    BY <1>1, <1>3 DEF FreeHeads
  <2> QED BY <2>1, <2>2, <2>3
<1>5. BlocksDisjoint'
  <2> SUFFICES ASSUME NEW g \in FreeHeads, g # f
               PROVE  /\ g + BlockSize[buddy_page_state[g]] <= BUDDY_MAX_PAGES
                      /\ \A p \in Block(g, buddy_page_state[g]) :
                           /\ p # g => buddy_page_state[p] = BUDDY_PAGE_STATE_FREE_BODY
                           /\ p \notin InFlight'
    BY <1>1, <1>4 DEF BlocksDisjoint, Block
  <2> QED BY <1>3 DEF BlocksDisjoint
<1> QED BY <1>4, <1>5, RemoveFreeBlock

(* The tables after buddy_remove_free_block have their types. *)
LEMMA RemoveFreeBlockType ==
  ASSUME TypeOK, NEW f \in Frames, NEW k \in Orders, buddy_remove_free_block(f, k)
  PROVE  /\ buddy_page_state' \in [Frames -> PageStates]
         /\ buddy_free_list' \in [Orders -> Frames \cup {Nil}]
         /\ buddy_free_next' \in [Frames -> Frames \cup {Nil}]
         /\ buddy_free_prev' \in [Frames -> Frames \cup {Nil}]
BY DEF TypeOK, buddy_remove_free_block

(* Popping the first block of a list removes it. *)
LEMMA PopIsRemove ==
  ASSUME TypeOK, ListsConsistent, NEW k \in Orders, buddy_free_list[k] # Nil,
         buddy_pop_free_block(buddy_free_list[k], k)
  PROVE  /\ buddy_free_list[k] \in FreeHeads
         /\ buddy_page_state[buddy_free_list[k]] = k
         /\ buddy_remove_free_block(buddy_free_list[k], k)
<1> DEFINE f == buddy_free_list[k]
           next == buddy_free_next[f]
<1>1. f \in FreeHeads /\ buddy_page_state[f] = k /\ buddy_free_prev[f] = Nil
  BY DEF ListsConsistent
<1>2. f \in Frames
  BY <1>1 DEF FreeHeads
<1>3. buddy_free_next' = [p \in Frames |-> IF p = f THEN Nil
                             ELSE IF p = Nil THEN next ELSE buddy_free_next[p]]
  BY <1>2, StatesDiffer DEF buddy_pop_free_block, TypeOK
<1>4. buddy_free_prev' = [p \in Frames |-> IF p = f THEN Nil
                             ELSE IF p = next THEN Nil ELSE buddy_free_prev[p]]
  BY DEF buddy_pop_free_block
<1>5. buddy_free_list' = [buddy_free_list EXCEPT ![k] = next] /\ buddy_page_state' = buddy_page_state
  BY DEF buddy_pop_free_block
<1>6. buddy_remove_free_block(f, k)
  BY <1>1, <1>3, <1>4, <1>5 DEF buddy_remove_free_block
<1> QED BY <1>1, <1>6

(* Taking the block an allocation starts from keeps the invariant. *)
LEMMA AllocIInv == ASSUME NEW n \in PageCounts, IInv, buddy_alloc_pages(n) PROVE IInv'
<1>1. PICK k \in Orders, current \in Orders :
        /\ k <= current
        /\ buddy_free_list[current] # Nil
        /\ buddy_pop_free_block(buddy_free_list[current], current)
        /\ frame' = buddy_free_list[current]
        /\ order' = current
        /\ req_order' = k
  BY DEF buddy_alloc_pages
<1> DEFINE f == buddy_free_list[current]
<1>2. pc = "idle" /\ pc' = "split" /\ UNCHANGED <<memmap, entry, pages, req_frame>>
  BY DEF buddy_alloc_pages
<1>3. f \in FreeHeads /\ buddy_page_state[f] = current /\ buddy_remove_free_block(f, current)
  BY <1>1, PopIsRemove DEF IInv
<1>4. InFlight = {} /\ InFlight' = Block(f, current)
  BY <1>1, <1>2 DEF InFlight, Block
<1>5. BlocksDisjoint' /\ ListsConsistent'
  BY <1>3, <1>4, TakeBlock DEF IInv
<1>6. /\ f \in Nat /\ f \in Frames /\ f + BlockSize[current] <= BUDDY_MAX_PAGES
      /\ Block(f, current) \subseteq FreePages
  BY <1>3, HeadBlockIsFree DEF IInv
<1>7. TypeOK'
  BY <1>1, <1>2, <1>3, <1>6, RemoveFreeBlockType DEF IInv, TypeOK
<1>8. FreePages' = FreePages
  BY <1>3 DEF FreePages, buddy_remove_free_block
<1>9. InFlightInv'
  BY <1>1, <1>2, <1>4, <1>6, <1>8 DEF InFlightInv
<1>10. BootInv'
  BY <1>2 DEF BootInv
<1> QED BY <1>5, <1>7, <1>9, <1>10 DEF IInv

(* The two halves of a block in flight. *)
LEMMA Halves ==
  ASSUME TypeOK, InFlightInv, pc = "split", order > req_order
  PROVE  /\ order - 1 \in Orders /\ frame \in Nat
         /\ BlockSize[order - 1] \in Nat /\ BlockSize[order - 1] > 0
         /\ frame + BlockSize[order - 1] \in Frames
         /\ (frame + BlockSize[order - 1]) + BlockSize[order - 1] <= BUDDY_MAX_PAGES
         /\ Block(frame, order) =
              Block(frame, order - 1) \cup Block(frame + BlockSize[order - 1], order - 1)
         /\ Block(frame, order - 1) \cap Block(frame + BlockSize[order - 1], order - 1) = {}
<1>1. order \in Orders /\ req_order \in Orders /\ frame \in Nat
  BY DEF TypeOK
<1>2. order > 0
  BY <1>1 DEF Orders
<1>3. order - 1 \in Orders /\ BlockSize[order] = 2 * BlockSize[order - 1]
  BY <1>1, <1>2, BlockSizes
<1>4. BlockSize[order - 1] \in Nat /\ BlockSize[order - 1] > 0
  BY <1>3, BlockSizes
<1>5. frame + BlockSize[order] <= BUDDY_MAX_PAGES
  BY DEF InFlightInv
<1> QED BY <1>1, <1>3, <1>4, <1>5, SizesAssumption DEF Block, Frames

(* Giving back the upper half while splitting keeps the invariant. *)
LEMMA SplitIInv == ASSUME IInv, SplitBlock PROVE IInv'
<1> DEFINE f == frame + BlockSize[order - 1]
           k == order - 1
<1>1. /\ pc = "split" /\ order > req_order
      /\ buddy_add_free_block(f, k)
      /\ order' = k
      /\ UNCHANGED <<pc, memmap, entry, frame, pages, req_frame, req_order>>
  BY DEF SplitBlock
<1>2. /\ k \in Orders /\ frame \in Nat
      /\ BlockSize[k] \in Nat /\ BlockSize[k] > 0
      /\ f \in Frames /\ f + BlockSize[k] <= BUDDY_MAX_PAGES
      /\ Block(frame, order) = Block(frame, k) \cup Block(f, k)
      /\ Block(frame, k) \cap Block(f, k) = {}
  BY <1>1, Halves DEF IInv
<1>3. InFlight = Block(frame, order) /\ InFlight' = Block(frame, k)
  BY <1>1 DEF InFlight, Block
<1> HIDE DEF f, k
<1>4. Block(f, k) \cap (FreePages \ InFlight) = {}
  BY <1>2, <1>3
<1>5. \A g \in FreeHeads : Block(g, buddy_page_state[g]) \cap Block(f, k) = {}
  BY <1>4, FreeHeadsAvoid DEF IInv
<1>6. BlocksDisjoint' /\ ListsConsistent'
  BY <1>1, <1>2, <1>3, <1>5, AddFreeBlock DEF IInv
<1>7. TypeOK'
  BY <1>1, <1>2, AddFreeBlockType DEF IInv, TypeOK
<1>8. \A p \in Frames : p \notin Block(f, k) => buddy_page_state'[p] = buddy_page_state[p]
  <2>1. f \in Block(f, k)
    BY <1>2, HeadInBlock
  <2> QED BY <1>1, <2>1 DEF buddy_add_free_block, buddy_mark_block_free
<1>9. InFlight' \subseteq FreePages'
  <2>1. InFlight \subseteq FreePages
    BY <1>1 DEF IInv, InFlightInv
  <2> QED BY <2>1, <1>2, <1>3, <1>8 DEF FreePages
<1>10. InFlightInv'
  <2>1. frame + BlockSize[k] <= BUDDY_MAX_PAGES
    BY <1>2, SizesAssumption DEF f, k
  <2>2. req_order <= k
    <3>1. order \in Nat /\ req_order \in Nat
      BY StatesDiffer DEF IInv, TypeOK
    <3> QED BY <3>1, <1>1 DEF k
  <2> QED BY <2>1, <2>2, <1>1, <1>9 DEF InFlightInv
<1>11. BootInv'
  BY <1>1 DEF BootInv
<1> QED BY <1>6, <1>7, <1>10, <1>11 DEF IInv

(* Marking the block of an allocation allocated keeps the invariant. *)
LEMMA AllocReturnIInv == ASSUME IInv, AllocReturn PROVE IInv'
<1>1. /\ pc = "split" /\ pc' = "idle"
      /\ buddy_page_state' = buddy_mark_block_allocated(frame, order)
      /\ frame' = 0 /\ pages' = 0 /\ order' = 0 /\ req_frame' = 0 /\ req_order' = 0
      /\ UNCHANGED <<buddy_free_list, buddy_free_next, buddy_free_prev, memmap, entry>>
  BY DEF AllocReturn, Return
<1>2. InFlight = Block(frame, order) /\ InFlight' = {}
  BY <1>1 DEF InFlight
<1>3. \A p \in Frames : buddy_page_state'[p] =
         IF p \in InFlight THEN BUDDY_PAGE_STATE_ALLOCATED ELSE buddy_page_state[p]
  BY <1>1, <1>2 DEF buddy_mark_block_allocated
<1>4. FreeHeads' = FreeHeads
  BY <1>2, <1>3, StatesDiffer DEF FreeHeads
<1>5. \A g \in FreeHeads : g \in Frames /\ buddy_page_state'[g] = buddy_page_state[g]
  BY <1>3 DEF FreeHeads
<1>6. BlocksDisjoint'
  <2> SUFFICES ASSUME NEW g \in FreeHeads
               PROVE  /\ g + BlockSize[buddy_page_state[g]] <= BUDDY_MAX_PAGES
                      /\ \A p \in Block(g, buddy_page_state[g]) :
                           p # g => buddy_page_state'[p] = BUDDY_PAGE_STATE_FREE_BODY
    BY <1>2, <1>4, <1>5 DEF BlocksDisjoint, Block
  <2>1. \A p \in Block(g, buddy_page_state[g]) : p \in Frames /\ p \notin InFlight
    BY HeadBlockIsFree DEF IInv
  <2> QED BY <2>1, <1>3 DEF IInv, BlocksDisjoint
<1>7. ListsConsistent'
  <2> HIDE DEF FreeHeads
  <2> QED BY <1>1, <1>4, <1>5 DEF IInv, ListsConsistent
<1>8. TypeOK'
  <2>1. buddy_page_state' \in [Frames -> PageStates]
    BY <1>1 DEF IInv, TypeOK, PageStates, buddy_mark_block_allocated
  <2> QED BY <1>1, <2>1, SizesAssumption DEF IInv, TypeOK, Orders
<1>9. InFlightInv' /\ BootInv'
  BY <1>1 DEF InFlightInv, BootInv
<1> QED BY <1>6, <1>7, <1>8, <1>9 DEF IInv

(* Starting to release a block keeps the invariant. *)
LEMMA FreeIInv ==
  ASSUME NEW a \in PhysAddrs, NEW n \in PageCounts, IInv, buddy_free_pages(a, n)
  PROVE  IInv'
<1>1. PICK k \in Orders : CallerHolds(frame_of(a), k) /\ order' = k /\ req_order' = k
  BY DEF buddy_free_pages
<1> DEFINE f == frame_of(a)
<1>2. /\ pc = "idle" /\ pc' = "coalesce" /\ frame' = f /\ req_frame' = f
      /\ UNCHANGED <<tables, memmap, entry, pages>>
  BY DEF buddy_free_pages
<1>3. f \in Nat
  BY SizesAssumption DEF frame_of
<1> HIDE DEF f
<1>4. Block(f, k) \subseteq HeldPages
  BY <1>1 DEF CallerHolds, HeldPages, f
<1>5. InFlight = {} /\ InFlight' = Block(f, k)
  BY <1>1, <1>2 DEF InFlight, Block
<1>6. BlocksDisjoint' /\ ListsConsistent'
  <2>1. InFlight' \cap FreePages = {}
    BY <1>4, <1>5, StatesDiffer DEF FreePages, HeldPages
  <2> QED BY <1>2, <1>5, <2>1, TablesUnchanged DEF IInv
<1>7. TypeOK'
  BY <1>1, <1>2, <1>3 DEF IInv, TypeOK, tables
<1>8. f + BlockSize[k] <= BUDDY_MAX_PAGES
  <2>1. BlockSize[k] \in Nat /\ BlockSize[k] > 0
    BY BlockSizes
  <2>2. f + BlockSize[k] - 1 \in Block(f, k)
    BY <2>1, <1>3 DEF Block
  <2>3. f + BlockSize[k] - 1 \in Frames
    BY <2>2, <1>4 DEF HeldPages
  <2> QED BY <2>1, <2>3, <1>3, SizesAssumption DEF Frames
<1>9. HeldPages' = HeldPages
  BY <1>2 DEF HeldPages, tables
<1>10. InFlightInv'
  <2>1. Block(req_frame, req_order)' = Block(f, k)
    BY <1>1, <1>2 DEF Block
  <2> QED BY <1>1, <1>2, <1>4, <1>5, <1>8, <1>9, <2>1 DEF InFlightInv
<1>11. BootInv'
  BY <1>2 DEF BootInv
<1> QED BY <1>6, <1>7, <1>10, <1>11 DEF IInv

(* The buddy that a release merges with is the first page of a block on    *)
(* the lists, outside the block being released and next to it.             *)
LEMMA BuddyIsFreeHead ==
  ASSUME IInv, pc = "coalesce", order < BUDDY_MAX_ORDER,
         buddy_frame(frame, order) < BUDDY_MAX_PAGES,
         buddy_page_state[buddy_frame(frame, order)] = order
  PROVE  /\ frame \in Nat /\ order \in Orders /\ order + 1 \in Orders
         /\ BlockSize[order] \in Nat /\ BlockSize[order] > 0
         /\ BlockSize[order + 1] = 2 * BlockSize[order]
         /\ buddy_frame(frame, order) \in FreeHeads
         /\ \/ buddy_frame(frame, order) = frame + BlockSize[order]
            \/ buddy_frame(frame, order) = frame - BlockSize[order]
<1> DEFINE b == buddy_frame(frame, order)
<1>1. frame \in Nat /\ order \in Orders
  BY DEF IInv, TypeOK
<1>2. /\ BlockSize[order] \in Nat /\ BlockSize[order] > 0
      /\ order + 1 \in Orders /\ BlockSize[order + 1] = 2 * BlockSize[order]
  BY <1>1, BlockSizes
<1>3. b \in Nat /\ (b = frame + BlockSize[order] \/ b = frame - BlockSize[order])
  BY <1>1, BuddyIsAdjacent
<1> HIDE DEF b
<1>4. InFlight = Block(frame, order)
  BY DEF InFlight
<1>5. b \notin InFlight
  BY <1>1, <1>2, <1>3, <1>4 DEF Block
<1>6. b \in Frames /\ buddy_page_state[b] \in Orders
  BY <1>1, <1>3, SizesAssumption DEF Frames, b
<1>7. b \in FreeHeads
  BY <1>5, <1>6 DEF FreeHeads
<1> QED BY <1>1, <1>2, <1>3, <1>7 DEF b

(* Merging a block with its buddy keeps the invariant. *)
LEMMA MergeIInv == ASSUME IInv, MergeBuddy PROVE IInv'
<1> DEFINE b == buddy_frame(frame, order)
           low == IF frame < b THEN frame ELSE b
<1>1. /\ pc = "coalesce" /\ pc' = "coalesce" /\ order < BUDDY_MAX_ORDER
      /\ b < BUDDY_MAX_PAGES /\ buddy_page_state[b] = order
      /\ buddy_remove_free_block(b, order)
      /\ frame' = low /\ order' = order + 1
      /\ UNCHANGED <<memmap, entry, pages, req_frame, req_order>>
  BY DEF MergeBuddy, MayMerge
<1>2. /\ frame \in Nat /\ order \in Orders /\ order + 1 \in Orders
      /\ BlockSize[order] \in Nat /\ BlockSize[order] > 0
      /\ BlockSize[order + 1] = 2 * BlockSize[order]
      /\ b \in FreeHeads
      /\ (b = frame + BlockSize[order] \/ b = frame - BlockSize[order])
  BY <1>1, BuddyIsFreeHead
<1> HIDE DEF b
<1>3. /\ b \in Frames /\ b \in Nat /\ b + BlockSize[order] <= BUDDY_MAX_PAGES
      /\ Block(b, order) \subseteq FreePages
  BY <1>1, <1>2, HeadBlockIsFree DEF IInv
<1>4. low \in Nat /\ Block(low, order + 1) = Block(frame, order) \cup Block(b, order)
  BY <1>2, <1>3 DEF Block
<1> HIDE DEF low
<1>5. InFlight = Block(frame, order) /\ InFlight' = Block(low, order + 1)
  BY <1>1 DEF InFlight, Block
<1>6. BlocksDisjoint' /\ ListsConsistent'
  BY <1>1, <1>2, <1>4, <1>5, TakeBlock DEF IInv
<1>7. TypeOK'
  BY <1>1, <1>2, <1>3, <1>4, RemoveFreeBlockType DEF IInv, TypeOK
<1>8. low + BlockSize[order + 1] <= BUDDY_MAX_PAGES
  <2>1. frame + BlockSize[order] <= BUDDY_MAX_PAGES
    BY <1>1 DEF IInv, InFlightInv
  <2> QED BY <2>1, <1>2, <1>3, SizesAssumption DEF low
<1>9. FreePages' = FreePages /\ HeldPages' = HeldPages
  BY <1>1 DEF FreePages, HeldPages, buddy_remove_free_block
<1>10. Block(req_frame, req_order)' = Block(req_frame, req_order)
  BY <1>1 DEF Block
<1>11. InFlightInv'
  <2>1. /\ Block(req_frame, req_order) \subseteq InFlight \cap HeldPages
        /\ InFlight \ Block(req_frame, req_order) \subseteq FreePages
    BY <1>1 DEF IInv, InFlightInv
  <2> QED BY <2>1, <1>1, <1>3, <1>4, <1>5, <1>8, <1>9, <1>10 DEF InFlightInv
<1>12. BootInv'
  BY <1>1 DEF BootInv
<1> QED BY <1>6, <1>7, <1>11, <1>12 DEF IInv

(* Putting the merged block on its list keeps the invariant. *)
LEMMA FreeReturnIInv == ASSUME IInv, FreeReturn PROVE IInv'
<1>1. /\ pc = "coalesce" /\ pc' = "idle"
      /\ buddy_add_free_block(frame, order)
      /\ frame' = 0 /\ pages' = 0 /\ order' = 0 /\ req_frame' = 0 /\ req_order' = 0
      /\ UNCHANGED <<memmap, entry>>
  BY DEF FreeReturn, Return
<1>2. /\ frame \in Nat /\ order \in Orders /\ frame + BlockSize[order] <= BUDDY_MAX_PAGES
      /\ BlockSize[order] \in Nat /\ BlockSize[order] > 0
  BY <1>1, BlockSizes DEF IInv, TypeOK, InFlightInv
<1>3. frame \in Frames
  BY <1>2, SizesAssumption DEF Frames
<1>4. InFlight = Block(frame, order) /\ InFlight' = {}
  BY <1>1 DEF InFlight
<1>5. \A g \in FreeHeads : Block(g, buddy_page_state[g]) \cap Block(frame, order) = {}
  <2>1. Block(frame, order) \cap (FreePages \ InFlight) = {}
    BY <1>4
  <2> QED BY <2>1, FreeHeadsAvoid DEF IInv
<1>6. BlocksDisjoint' /\ ListsConsistent'
  BY <1>1, <1>2, <1>3, <1>4, <1>5, AddFreeBlock DEF IInv
<1>7. TypeOK'
  BY <1>1, <1>2, <1>3, AddFreeBlockType, SizesAssumption DEF IInv, TypeOK, Orders
<1>8. InFlightInv' /\ BootInv'
  BY <1>1 DEF InFlightInv, BootInv
<1> QED BY <1>6, <1>7, <1>8 DEF IInv

(* Every step of buddy.c keeps the invariant. *)
LEMMA NextIInv == IInv /\ [Next]_vars => IInv'
<1> SUFFICES ASSUME IInv, [Next]_vars PROVE IInv'
  OBVIOUS
<1>1. CASE UNCHANGED vars
  BY <1>1 DEF vars, tables, locals, IInv, TypeOK, BlocksDisjoint, ListsConsistent, InFlightInv,
       BootInv, FreeHeads, FreePages, HeldPages, InFlight, Block
<1>2. CASE SkipEntry
  BY <1>2, SkipEntryIInv
<1>3. CASE AddEntry
  BY <1>3, AddEntryIInv
<1>4. CASE buddy_add_range
  BY <1>4, AddRangeIInv
<1>5. CASE InitReturn
  BY <1>5, InitReturnIInv
<1>6. CASE SplitBlock
  BY <1>6, SplitIInv
<1>7. CASE AllocReturn
  BY <1>7, AllocReturnIInv
<1>8. CASE MergeBuddy
  BY <1>8, MergeIInv
<1>9. CASE FreeReturn
  BY <1>9, FreeReturnIInv
<1>10. ASSUME NEW n \in PageCounts, buddy_alloc_pages(n) PROVE IInv'
  BY <1>10, AllocIInv
<1>11. ASSUME NEW a \in PhysAddrs, NEW n \in PageCounts, buddy_free_pages(a, n) PROVE IInv'
  BY <1>11, FreeIInv
<1> QED BY <1>1, <1>2, <1>3, <1>4, <1>5, <1>6, <1>7, <1>8, <1>9, <1>10, <1>11
        DEF Next, Step, Call, RefuseAlloc, IgnoreFree

------------------------------------------------------------------------------
(* The theorems.                                                           *)

(* The invariant of the allocator, for every table size, page size and     *)
(* memory map: blocks are disjoint, the lists agree with the page table,   *)
(* and the block a call has in hand is nobody else's.                      *)
THEOREM Invariance == Spec => []IInv
BY InitIInv, NextIInv, PTL DEF Spec

(* Blocks on the free lists never overlap, never reach past the page       *)
(* table, and never hold a page of the block the call in progress works    *)
(* on (buddy_mark_block_free, buddy_mark_block_allocated).                 *)
THEOREM BlocksStayDisjoint == Spec => [](TypeOK /\ BlocksDisjoint)
<1>1. IInv => TypeOK /\ BlocksDisjoint
  BY DEF IInv
<1> QED BY <1>1, Invariance, PTL

(* The doubly linked lists always agree with the page table. *)
THEOREM ListsStayConsistent == Spec => []ListsConsistent
<1>1. IInv => ListsConsistent
  BY DEF IInv
<1> QED BY <1>1, Invariance, PTL

(* The merging loop never finds a free buddy that it cannot unlink. *)
THEOREM RemoveAlwaysSucceeds == Spec => []RemoveSucceeds
<1>1. IInv => RemoveSucceeds
  <2> SUFFICES ASSUME IInv, pc = "coalesce", order < BUDDY_MAX_ORDER,
                      buddy_frame(frame, order) < BUDDY_MAX_PAGES,
                      buddy_page_state[buddy_frame(frame, order)] = order
               PROVE  IsLinked(buddy_frame(frame, order), order)
    BY DEF RemoveSucceeds
  <2>1. buddy_frame(frame, order) \in FreeHeads
    BY BuddyIsFreeHead
  <2> QED BY <2>1 DEF IInv, ListsConsistent, IsLinked
<1> QED BY <1>1, Invariance, PTL

------------------------------------------------------------------------------
(* buddy.c implements PageAllocator.                                       *)

(* buddy_add_free_block makes exactly the pages of the block free. *)
LEMMA AddFreeBlockPages ==
  ASSUME TypeOK, NEW f \in Frames, NEW k \in Orders, f + BlockSize[k] <= BUDDY_MAX_PAGES,
         buddy_add_free_block(f, k)
  PROVE  /\ Block(f, k) \subseteq Frames
         /\ FreePages' = FreePages \cup Block(f, k)
         /\ HeldPages' = HeldPages \ Block(f, k)
<1>1. f \in Nat /\ BlockSize[k] \in Nat /\ f \in Block(f, k)
  BY HeadInBlock
<1>2. Block(f, k) \subseteq Frames
  BY <1>1, SizesAssumption DEF Block, Frames
<1>3. \A p \in Frames : buddy_page_state'[p] =
         IF p = f THEN k ELSE IF p \in Block(f, k) THEN BUDDY_PAGE_STATE_FREE_BODY
         ELSE buddy_page_state[p]
  BY DEF buddy_add_free_block, buddy_mark_block_free
<1>4. FreePages' = FreePages \cup Block(f, k)
  BY <1>1, <1>2, <1>3 DEF FreePages
<1>5. HeldPages' = HeldPages \ Block(f, k)
  BY <1>1, <1>2, <1>3, StatesDiffer DEF HeldPages
<1> QED BY <1>2, <1>4, <1>5

(* A block is a run of pages of one of the lengths handed out. *)
LEMMA BlockIsRun ==
  ASSUME NEW f, NEW k \in Orders
  PROVE  /\ PA!Run(f, BlockSize[k]) = Block(f, k)
         /\ BlockSize[k] \in { BlockSize[j] : j \in Orders }
BY DEF PA!Run, Block

(* Adding a block of a usable range donates its pages. *)
LEMMA AddRangeDonates == ASSUME IInv, buddy_add_range PROVE PA!Next
<1>1. PICK k \in Orders : Fits(k) /\ buddy_add_free_block(frame, k)
  BY DEF buddy_add_range
<1>2. /\ frame \in Nat /\ pages \in Nat /\ BlockSize[k] \in Nat /\ BlockSize[k] > 0
      /\ BlockSize[k] <= pages /\ frame + pages <= BUDDY_MAX_PAGES
      /\ frame .. (frame + pages - 1) \subseteq
            { p \in Frames : buddy_page_state[p] = BUDDY_PAGE_STATE_RESERVED }
  BY <1>1, BlockSizes DEF IInv, TypeOK, BootInv, Fits, buddy_add_range
<1>3. frame \in Frames /\ frame + BlockSize[k] <= BUDDY_MAX_PAGES
  BY <1>2, SizesAssumption DEF Frames
<1>4. Block(frame, k) \subseteq frame .. (frame + pages - 1)
  BY <1>2 DEF Block
<1>5. Block(frame, k) \cap (FreePages \cup HeldPages) = {}
  BY <1>2, <1>4, StatesDiffer DEF FreePages, HeldPages
<1>6. /\ Block(frame, k) \subseteq Frames
      /\ FreePages' = FreePages \cup Block(frame, k)
      /\ HeldPages' = HeldPages \ Block(frame, k)
  BY <1>1, <1>3, AddFreeBlockPages DEF IInv
<1>7. PA!Donate(frame, BlockSize[k])
  BY <1>5, <1>6, BlockIsRun DEF PA!Donate
<1> QED BY <1>3, <1>7, BlockIsRun DEF PA!Next

(* Splitting moves no page: the half given back was free already. *)
LEMMA SplitStutters == ASSUME IInv, SplitBlock PROVE UNCHANGED PA!vars
<1> DEFINE f == frame + BlockSize[order - 1]
           k == order - 1
<1>1. pc = "split" /\ order > req_order /\ buddy_add_free_block(f, k)
  BY DEF SplitBlock
<1>2. /\ k \in Orders /\ f \in Frames /\ f + BlockSize[k] <= BUDDY_MAX_PAGES
      /\ Block(f, k) \subseteq Block(frame, order)
  BY <1>1, Halves DEF IInv
<1> HIDE DEF f, k
<1>3. FreePages' = FreePages \cup Block(f, k) /\ HeldPages' = HeldPages \ Block(f, k)
  BY <1>1, <1>2, AddFreeBlockPages DEF IInv
<1>4. Block(f, k) \subseteq FreePages
  BY <1>1, <1>2 DEF IInv, InFlightInv, InFlight
<1>5. FreePages \cap HeldPages = {}
  BY StatesDiffer DEF FreePages, HeldPages
<1> QED BY <1>3, <1>4, <1>5 DEF PA!vars

(* The return of buddy_alloc_pages is the allocation. *)
LEMMA AllocReturnAllocates ==
  ASSUME IInv, AllocReturn PROVE PA!Allocate(frame, BlockSize[order]) /\ PA!Next
<1>1. pc = "split" /\ buddy_page_state' = buddy_mark_block_allocated(frame, order)
  BY DEF AllocReturn
<1>2. order \in Orders /\ frame \in Nat /\ frame + BlockSize[order] <= BUDDY_MAX_PAGES
      /\ BlockSize[order] \in Nat /\ BlockSize[order] > 0
  BY <1>1, BlockSizes DEF IInv, TypeOK, InFlightInv
<1>3. frame \in Frames
  BY <1>2, SizesAssumption DEF Frames
<1>4. Block(frame, order) \subseteq FreePages
  BY <1>1 DEF IInv, InFlightInv, InFlight
<1>5. \A p \in Frames : buddy_page_state'[p] =
         IF p \in Block(frame, order) THEN BUDDY_PAGE_STATE_ALLOCATED ELSE buddy_page_state[p]
  BY <1>1 DEF buddy_mark_block_allocated
<1>6. FreePages' = FreePages \ Block(frame, order)
  BY <1>5, StatesDiffer DEF FreePages
<1>7. HeldPages' = HeldPages \cup Block(frame, order)
  BY <1>4, <1>5 DEF FreePages, HeldPages
<1>8. PA!Allocate(frame, BlockSize[order])
  BY <1>2, <1>4, <1>6, <1>7, BlockIsRun DEF PA!Allocate
<1> QED BY <1>2, <1>3, <1>8, BlockIsRun DEF PA!Next

(* Merging moves no page. *)
LEMMA MergeStutters == ASSUME IInv, MergeBuddy PROVE UNCHANGED PA!vars
BY DEF MergeBuddy, buddy_remove_free_block, FreePages, HeldPages, PA!vars

(* The return of buddy_free_pages is the release, of the caller's block    *)
(* and of no page of the buddies it was merged with.                       *)
LEMMA FreeReturnReleases ==
  ASSUME IInv, FreeReturn PROVE PA!Release(req_frame, BlockSize[req_order]) /\ PA!Next
<1>1. pc = "coalesce" /\ buddy_add_free_block(frame, order)
  BY DEF FreeReturn
<1>2. /\ frame \in Nat /\ order \in Orders /\ frame + BlockSize[order] <= BUDDY_MAX_PAGES
      /\ BlockSize[order] \in Nat /\ BlockSize[order] > 0
      /\ req_frame \in Nat /\ req_order \in Orders
      /\ BlockSize[req_order] \in Nat /\ BlockSize[req_order] > 0
  BY <1>1, BlockSizes DEF IInv, TypeOK, InFlightInv
<1>3. frame \in Frames
  BY <1>2, SizesAssumption DEF Frames
<1>4. /\ Block(req_frame, req_order) \subseteq Block(frame, order) \cap HeldPages
      /\ Block(frame, order) \ Block(req_frame, req_order) \subseteq FreePages
  BY <1>1 DEF IInv, InFlightInv, InFlight
<1>5. req_frame \in Frames
  BY <1>2, <1>4 DEF Block, HeldPages
<1>6. FreePages' = FreePages \cup Block(frame, order) /\ HeldPages' = HeldPages \ Block(frame, order)
  BY <1>1, <1>2, <1>3, AddFreeBlockPages DEF IInv
<1>7. FreePages \cap HeldPages = {}
  BY StatesDiffer DEF FreePages, HeldPages
<1>8. PA!Release(req_frame, BlockSize[req_order])
  BY <1>2, <1>4, <1>6, <1>7, BlockIsRun DEF PA!Release
<1> QED BY <1>2, <1>5, <1>8, BlockIsRun DEF PA!Next

(* Every step of buddy.c is a step of the page allocator, or none. *)
LEMMA NextImplements == IInv /\ [Next]_vars => [PA!Next]_(PA!vars)
<1> SUFFICES ASSUME IInv, [Next]_vars PROVE PA!Next \/ UNCHANGED PA!vars
  OBVIOUS
<1>1. ASSUME UNCHANGED buddy_page_state PROVE UNCHANGED PA!vars
  BY <1>1 DEF FreePages, HeldPages, PA!vars
<1>2. CASE UNCHANGED vars \/ SkipEntry \/ AddEntry \/ InitReturn
  BY <1>1, <1>2 DEF vars, tables, SkipEntry, AddEntry, InitReturn
<1>3. CASE buddy_add_range
  BY <1>3, AddRangeDonates
<1>4. CASE SplitBlock
  BY <1>4, SplitStutters
<1>5. CASE AllocReturn
  BY <1>5, AllocReturnAllocates
<1>6. CASE MergeBuddy
  BY <1>6, MergeStutters
<1>7. CASE FreeReturn
  BY <1>7, FreeReturnReleases
<1>8. CASE Call
  <2>1. UNCHANGED buddy_page_state
    BY <1>8 DEF Call, buddy_alloc_pages, buddy_pop_free_block, RefuseAlloc,
         buddy_free_pages, IgnoreFree, vars, tables
  <2> QED BY <1>1, <2>1
<1> QED BY <1>2, <1>3, <1>4, <1>5, <1>6, <1>7, <1>8 DEF Next, Step

(* For every table size and memory map, buddy.c implements PageAllocator:  *)
(* a page reaches a caller only by the return of an allocation, out of the *)
(* pool, and leaves a caller only when that caller releases it.            *)
THEOREM Implementation == Spec => ImplementsPageAllocator
<1>1. Init => PA!Init
  BY StatesDiffer DEF Init, PA!Init, FreePages, HeldPages
<1> QED BY <1>1, Invariance, NextImplements, PTL DEF Spec, ImplementsPageAllocator, PA!Spec

(* Once buddy_init is done no step adds a page to those the allocator      *)
(* manages or loses one of them.                                           *)
THEOREM PagesAreConserved == Spec => PagesConserved
<1>1. IInv /\ [Next]_vars =>
        [pc \notin {"init", "range"} => FreePages' \cup HeldPages' = FreePages \cup HeldPages]_vars
  <2> SUFFICES ASSUME IInv, Next, pc \notin {"init", "range"}
               PROVE  FreePages' \cup HeldPages' = FreePages \cup HeldPages
    OBVIOUS
  <2>1. CASE SkipEntry \/ AddEntry \/ InitReturn \/ buddy_add_range
    BY <2>1 DEF SkipEntry, AddEntry, InitReturn, buddy_add_range
  <2>2. CASE SplitBlock
    BY <2>2, SplitStutters DEF PA!vars
  <2>3. CASE AllocReturn
    BY <2>3, AllocReturnAllocates DEF PA!Allocate
  <2>4. CASE MergeBuddy
    BY <2>4, MergeStutters DEF PA!vars
  <2>5. CASE FreeReturn
    BY <2>5, FreeReturnReleases DEF PA!Release
  <2>6. CASE Call
    <3>1. UNCHANGED buddy_page_state
      BY <2>6 DEF Call, buddy_alloc_pages, buddy_pop_free_block, RefuseAlloc,
           buddy_free_pages, IgnoreFree, vars, tables
    <3> QED BY <3>1 DEF FreePages, HeldPages
  <2> QED BY <2>1, <2>2, <2>3, <2>4, <2>5, <2>6 DEF Next, Step
<1> QED BY <1>1, Invariance, PTL DEF Spec, PagesConserved

------------------------------------------------------------------------------
(***************************************************************************)
(* What the lists hold.  ListsConsistent allows a ring of blocks that is   *)
(* on no list, and a free page that is in no block: neither comes about,   *)
(* but it takes an invariant of its own to say so.                         *)
(***************************************************************************)

(* Following the links back from a block leads to the start of a list. *)
Acyclic ==
  \A S \in SUBSET FreeHeads : S # {} => \E f \in S : buddy_free_prev[f] \notin S

(* Every free page outside the block in flight is in a block. *)
Covered ==
  \A p \in FreePages \ InFlight : \E f \in FreeHeads : p \in Block(f, buddy_page_state[f])

Listed == Acyclic /\ Covered

(* A step that leaves the blocks alone and frees nothing. *)
LEMMA SameListed ==
  ASSUME Listed, FreeHeads' = FreeHeads, buddy_free_prev' = buddy_free_prev,
         \A g \in FreeHeads : buddy_page_state'[g] = buddy_page_state[g],
         FreePages' \ InFlight' \subseteq FreePages \ InFlight
  PROVE  Listed'
<1>1. Acyclic'
  BY DEF Listed, Acyclic
<1>2. Covered'
  <2> SUFFICES ASSUME NEW p \in FreePages' \ InFlight'
               PROVE  \E f \in FreeHeads' : p \in Block(f, buddy_page_state'[f])
    BY DEF Covered, Block
  <2>1. PICK f \in FreeHeads : p \in Block(f, buddy_page_state[f])
    BY DEF Listed, Covered
  <2> QED BY <2>1
<1> QED BY <1>1, <1>2 DEF Listed

(* A block put at the start of a list (buddy_add_free_block). *)
LEMMA AddListed ==
  ASSUME TypeOK, Listed, NEW f \in Frames, NEW k \in Orders,
         buddy_add_free_block(f, k),
         FreeHeads' = FreeHeads \cup {f}, f \notin FreeHeads,
         \A g \in FreeHeads : Block(g, buddy_page_state[g]) \cap Block(f, k) = {},
         FreePages' \ InFlight' \subseteq (FreePages \ InFlight) \cup Block(f, k)
  PROVE  Listed'
<1>1. \A p \in Frames : buddy_free_prev'[p] =
         IF p = f THEN Nil ELSE IF p = buddy_free_list[k] THEN f ELSE buddy_free_prev[p]
  BY DEF buddy_add_free_block
<1>2. FreeHeads \subseteq Frames /\ Nil \notin Frames
  BY StatesDiffer DEF FreeHeads
<1>3. Acyclic'
  <2> SUFFICES ASSUME NEW S \in SUBSET (FreeHeads \cup {f}), S # {}
               PROVE  \E g \in S : buddy_free_prev'[g] \notin S
    BY DEF Acyclic
  <2>1. CASE f \in S
    <3>1. buddy_free_prev'[f] = Nil /\ Nil \notin S
      BY <1>1, <1>2
    <3> QED BY <2>1, <3>1
  <2>2. CASE f \notin S
    <3>1. PICK g \in S : buddy_free_prev[g] \notin S
      BY <2>2 DEF Listed, Acyclic
    <3>2. buddy_free_prev'[g] = f \/ buddy_free_prev'[g] = buddy_free_prev[g]
      BY <2>2, <1>1, <1>2
    <3> QED BY <2>2, <3>1, <3>2
  <2> QED BY <2>1, <2>2
<1>4. Covered'
  <2> SUFFICES ASSUME NEW p \in FreePages' \ InFlight'
               PROVE  \E g \in FreeHeads' : p \in Block(g, buddy_page_state'[g])
    BY DEF Covered, Block
  <2>0. f \in Block(f, k)
    BY HeadInBlock
  <2>1. buddy_page_state'[f] = k
    BY DEF buddy_add_free_block, buddy_mark_block_free
  <2>2. CASE p \in Block(f, k)
    BY <2>1, <2>2
  <2>3. CASE p \notin Block(f, k)
    <3>1. PICK g \in FreeHeads : p \in Block(g, buddy_page_state[g])
      BY <2>3 DEF Listed, Covered
    <3>2. g \in Frames /\ buddy_page_state[g] \in Orders
      BY DEF FreeHeads
    <3>3. g \notin Block(f, k) /\ g # f
      BY <2>0, <3>2, HeadInBlock
    <3>4. buddy_page_state'[g] = buddy_page_state[g]
      BY <3>2, <3>3 DEF buddy_add_free_block, buddy_mark_block_free
    <3> QED BY <3>1, <3>4
  <2> QED BY <2>2, <2>3
<1> QED BY <1>3, <1>4 DEF Listed

(* A block taken off its list (buddy_remove_free_block). *)
LEMMA RemoveListed ==
  ASSUME TypeOK, ListsConsistent, Listed,
         NEW f \in FreeHeads, NEW k \in Orders, buddy_page_state[f] = k,
         buddy_remove_free_block(f, k),
         FreeHeads' = FreeHeads \ {f},
         InFlight' = InFlight \cup Block(f, k)
  PROVE  Listed'
<1> DEFINE previous == buddy_free_prev[f]
           next == buddy_free_next[f]
<1>1. /\ buddy_page_state' = buddy_page_state
      /\ \A p \in Frames : buddy_free_prev'[p] =
           IF p = f THEN Nil ELSE IF p = next THEN previous ELSE buddy_free_prev[p]
  BY DEF buddy_remove_free_block
<1>2. FreeHeads \subseteq Frames /\ Nil \notin Frames
  BY StatesDiffer DEF FreeHeads
<1>3. next \in FreeHeads => buddy_free_prev[next] = f
  BY <1>2 DEF ListsConsistent
<1> HIDE DEF next
<1>4. Acyclic'
  <2> SUFFICES ASSUME NEW S \in SUBSET (FreeHeads \ {f}), S # {}
               PROVE  \E g \in S : buddy_free_prev'[g] \notin S
    BY DEF Acyclic
  <2>1. CASE next \notin S
    <3>1. PICK g \in S : buddy_free_prev[g] \notin S
      BY DEF Listed, Acyclic
    <3> QED BY <2>1, <3>1, <1>1, <1>2
  <2>2. CASE next \in S
    <3>1. PICK g \in S \cup {f} : buddy_free_prev[g] \notin S \cup {f}
      <4>1. S \cup {f} \in SUBSET FreeHeads /\ S \cup {f} # {}
        OBVIOUS
      <4> QED BY <4>1 DEF Listed, Acyclic
    <3>2. CASE g = f
      BY <2>2, <3>1, <3>2, <1>1, <1>2
    <3>3. CASE g # f
      <4>1. g \in S /\ g # next
        BY <2>2, <3>1, <3>3, <1>3
      <4> QED BY <3>1, <3>3, <4>1, <1>1, <1>2
    <3> QED BY <3>2, <3>3
  <2> QED BY <2>1, <2>2
<1>5. Covered'
  <2>1. FreePages' = FreePages
    BY <1>1 DEF FreePages
  <2> SUFFICES ASSUME NEW p \in FreePages, p \notin InFlight, p \notin Block(f, k)
               PROVE  \E g \in FreeHeads \ {f} : p \in Block(g, buddy_page_state[g])
    BY <1>1, <2>1 DEF Covered, Block
  <2>2. PICK g \in FreeHeads : p \in Block(g, buddy_page_state[g])
    BY DEF Listed, Covered
  <2> QED BY <2>2
<1> QED BY <1>4, <1>5 DEF Listed

(* Initially there is nothing to list. *)
LEMMA InitListed == Init => Listed
<1> SUFFICES ASSUME Init PROVE Listed
  OBVIOUS
<1>1. FreeHeads = {} /\ FreePages = {}
  BY StatesDiffer DEF Init, FreeHeads, FreePages
<1> QED BY <1>1 DEF Listed, Acyclic, Covered

(* A block of a usable range is listed when it is added. *)
LEMMA AddRangeListed == ASSUME IInv, Listed, buddy_add_range PROVE Listed'
<1>1. PICK k \in Orders :
        /\ Fits(k)
        /\ buddy_add_free_block(frame, k)
        /\ pc' = IF pages = BlockSize[k] THEN "init" ELSE "range"
  BY DEF buddy_add_range
<1>2. /\ frame \in Nat /\ pages \in Nat /\ BlockSize[k] \in Nat /\ BlockSize[k] > 0
      /\ BlockSize[k] <= pages /\ frame + pages <= BUDDY_MAX_PAGES /\ pc = "range"
  BY <1>1, BlockSizes DEF IInv, TypeOK, BootInv, Fits, buddy_add_range
<1>3. frame \in Frames /\ frame + BlockSize[k] <= BUDDY_MAX_PAGES
  BY <1>2, SizesAssumption DEF Frames
<1>4. InFlight = {} /\ InFlight' = {}
  BY <1>1, <1>2 DEF InFlight
<1>5. Block(frame, k) \cap FreePages = {}
  <2>1. frame .. (frame + pages - 1) \subseteq
          { p \in Frames : buddy_page_state[p] = BUDDY_PAGE_STATE_RESERVED }
    BY <1>2 DEF IInv, BootInv
  <2>2. Block(frame, k) \subseteq frame .. (frame + pages - 1)
    BY <1>2 DEF Block
  <2> QED BY <2>1, <2>2, StatesDiffer DEF FreePages
<1>6. \A g \in FreeHeads : Block(g, buddy_page_state[g]) \cap Block(frame, k) = {}
  BY <1>5, FreeHeadsAvoid DEF IInv
<1>7. FreeHeads' = FreeHeads \cup {frame} /\ frame \notin FreeHeads
  BY <1>1, <1>3, <1>4, <1>6, AddFreeBlock DEF IInv
<1>8. FreePages' = FreePages \cup Block(frame, k)
  BY <1>1, <1>3, AddFreeBlockPages DEF IInv
<1> QED BY <1>1, <1>3, <1>4, <1>6, <1>7, <1>8, AddListed DEF IInv

(* The block an allocation starts from is taken off its list. *)
LEMMA AllocListed ==
  ASSUME NEW n \in PageCounts, IInv, Listed, buddy_alloc_pages(n) PROVE Listed'
<1>1. PICK current \in Orders :
        /\ buddy_free_list[current] # Nil
        /\ buddy_pop_free_block(buddy_free_list[current], current)
        /\ frame' = buddy_free_list[current]
        /\ order' = current
  BY DEF buddy_alloc_pages
<1> DEFINE f == buddy_free_list[current]
<1>2. f \in FreeHeads /\ buddy_page_state[f] = current /\ buddy_remove_free_block(f, current)
  BY <1>1, PopIsRemove DEF IInv
<1>3. InFlight = {} /\ InFlight' = Block(f, current)
  BY <1>1 DEF InFlight, Block, buddy_alloc_pages
<1>4. FreeHeads' = FreeHeads \ {f}
  BY <1>2, <1>3, TakeBlock DEF IInv
<1> QED BY <1>2, <1>3, <1>4, RemoveListed DEF IInv

(* The upper half is listed while a block is split. *)
LEMMA SplitListed == ASSUME IInv, Listed, SplitBlock PROVE Listed'
<1> DEFINE f == frame + BlockSize[order - 1]
           k == order - 1
<1>1. /\ pc = "split" /\ order > req_order /\ buddy_add_free_block(f, k)
      /\ order' = k /\ UNCHANGED <<pc, frame>>
  BY DEF SplitBlock
<1>2. /\ k \in Orders
      /\ f \in Frames /\ f + BlockSize[k] <= BUDDY_MAX_PAGES
      /\ Block(frame, order) = Block(frame, k) \cup Block(f, k)
      /\ Block(frame, k) \cap Block(f, k) = {}
  BY <1>1, Halves DEF IInv
<1>3. InFlight = Block(frame, order) /\ InFlight' = Block(frame, k)
  BY <1>1 DEF InFlight, Block
<1> HIDE DEF f, k
<1>4. Block(f, k) \cap (FreePages \ InFlight) = {}
  BY <1>2, <1>3
<1>5. \A g \in FreeHeads : Block(g, buddy_page_state[g]) \cap Block(f, k) = {}
  BY <1>4, FreeHeadsAvoid DEF IInv
<1>6. FreeHeads' = FreeHeads \cup {f} /\ f \notin FreeHeads
  BY <1>1, <1>2, <1>3, <1>5, AddFreeBlock DEF IInv
<1>7. FreePages' = FreePages \cup Block(f, k)
  BY <1>1, <1>2, AddFreeBlockPages DEF IInv
<1>8. FreePages' \ InFlight' \subseteq (FreePages \ InFlight) \cup Block(f, k)
  BY <1>2, <1>3, <1>7
<1> QED BY <1>1, <1>2, <1>5, <1>6, <1>8, AddListed DEF IInv

(* The block given to a caller is on no list. *)
LEMMA AllocReturnListed == ASSUME IInv, Listed, AllocReturn PROVE Listed'
<1>1. /\ pc = "split" /\ pc' = "idle" /\ buddy_free_prev' = buddy_free_prev
      /\ buddy_page_state' = buddy_mark_block_allocated(frame, order)
  BY DEF AllocReturn, Return
<1>2. InFlight = Block(frame, order) /\ InFlight' = {}
  BY <1>1 DEF InFlight
<1>3. \A p \in Frames : buddy_page_state'[p] =
         IF p \in InFlight THEN BUDDY_PAGE_STATE_ALLOCATED ELSE buddy_page_state[p]
  BY <1>1, <1>2 DEF buddy_mark_block_allocated
<1>4. FreeHeads' = FreeHeads
  BY <1>2, <1>3, StatesDiffer DEF FreeHeads
<1>5. \A g \in FreeHeads : buddy_page_state'[g] = buddy_page_state[g]
  BY <1>3 DEF FreeHeads
<1>6. FreePages' \subseteq FreePages \ InFlight
  BY <1>3, StatesDiffer DEF FreePages
<1> QED BY <1>1, <1>4, <1>5, <1>6, SameListed

(* The buddy a block is merged with is taken off its list. *)
LEMMA MergeListed == ASSUME IInv, Listed, MergeBuddy PROVE Listed'
<1> DEFINE b == buddy_frame(frame, order)
           low == IF frame < b THEN frame ELSE b
<1>1. /\ pc = "coalesce" /\ pc' = "coalesce" /\ order < BUDDY_MAX_ORDER
      /\ b < BUDDY_MAX_PAGES /\ buddy_page_state[b] = order
      /\ buddy_remove_free_block(b, order)
      /\ frame' = low /\ order' = order + 1
  BY DEF MergeBuddy, MayMerge
<1>2. /\ frame \in Nat /\ order \in Orders /\ order + 1 \in Orders
      /\ BlockSize[order] \in Nat /\ BlockSize[order] > 0
      /\ BlockSize[order + 1] = 2 * BlockSize[order]
      /\ b \in FreeHeads
      /\ (b = frame + BlockSize[order] \/ b = frame - BlockSize[order])
  BY <1>1, BuddyIsFreeHead
<1> HIDE DEF b
<1>3. b \in Nat
  BY <1>2, HeadBlockIsFree DEF IInv
<1>4. Block(low, order + 1) = Block(frame, order) \cup Block(b, order)
  BY <1>2, <1>3 DEF Block
<1> HIDE DEF low
<1>5. InFlight' = InFlight \cup Block(b, order)
  BY <1>1, <1>4 DEF InFlight, Block
<1>6. FreeHeads' = FreeHeads \ {b}
  BY <1>1, <1>2, <1>5, TakeBlock DEF IInv
<1> QED BY <1>1, <1>2, <1>5, <1>6, RemoveListed DEF IInv

(* The merged block is listed. *)
LEMMA FreeReturnListed == ASSUME IInv, Listed, FreeReturn PROVE Listed'
<1>1. pc = "coalesce" /\ pc' = "idle" /\ buddy_add_free_block(frame, order)
  BY DEF FreeReturn, Return
<1>2. /\ frame \in Nat /\ order \in Orders /\ frame + BlockSize[order] <= BUDDY_MAX_PAGES
      /\ BlockSize[order] \in Nat /\ BlockSize[order] > 0
  BY <1>1, BlockSizes DEF IInv, TypeOK, InFlightInv
<1>3. frame \in Frames
  BY <1>2, SizesAssumption DEF Frames
<1>4. InFlight = Block(frame, order) /\ InFlight' = {}
  BY <1>1 DEF InFlight
<1>5. \A g \in FreeHeads : Block(g, buddy_page_state[g]) \cap Block(frame, order) = {}
  <2>1. Block(frame, order) \cap (FreePages \ InFlight) = {}
    BY <1>4
  <2> QED BY <2>1, FreeHeadsAvoid DEF IInv
<1>6. FreeHeads' = FreeHeads \cup {frame} /\ frame \notin FreeHeads
  BY <1>1, <1>2, <1>3, <1>4, <1>5, AddFreeBlock DEF IInv
<1>7. FreePages' = FreePages \cup Block(frame, order)
  BY <1>1, <1>2, <1>3, AddFreeBlockPages DEF IInv
<1>8. FreePages' \ InFlight' \subseteq (FreePages \ InFlight) \cup Block(frame, order)
  BY <1>4, <1>7
<1> QED BY <1>1, <1>2, <1>3, <1>5, <1>6, <1>8, AddListed DEF IInv

(* Every step keeps the free pages listed. *)
LEMMA NextListed == ASSUME IInv, Listed, [Next]_vars PROVE Listed'
<1>1. ASSUME UNCHANGED tables, InFlight = {}, InFlight' \cap FreePages = {}
      PROVE  Listed'
  <2>1. FreeHeads' = FreeHeads
    BY <1>1, TablesUnchanged DEF IInv
  <2>2. FreePages' \ InFlight' \subseteq FreePages \ InFlight
    BY <1>1 DEF FreePages, tables
  <2> QED BY <1>1, <2>1, <2>2, SameListed DEF tables
<1>2. CASE UNCHANGED vars
  <2>1. /\ FreeHeads' = FreeHeads /\ FreePages' = FreePages /\ InFlight' = InFlight
        /\ UNCHANGED tables
    BY <1>2 DEF vars, tables, locals, FreeHeads, FreePages, InFlight, Block
  <2> QED BY <2>1, SameListed DEF tables
<1>3. CASE SkipEntry \/ AddEntry \/ InitReturn
  BY <1>1, <1>3 DEF SkipEntry, AddEntry, InitReturn, Return, InFlight
<1>4. CASE buddy_add_range
  BY <1>4, AddRangeListed
<1>5. CASE SplitBlock
  BY <1>5, SplitListed
<1>6. CASE AllocReturn
  BY <1>6, AllocReturnListed
<1>7. CASE MergeBuddy
  BY <1>7, MergeListed
<1>8. CASE FreeReturn
  BY <1>8, FreeReturnListed
<1>9. ASSUME NEW n \in PageCounts, buddy_alloc_pages(n) PROVE Listed'
  BY <1>9, AllocListed
<1>10. ASSUME NEW a \in PhysAddrs, NEW n \in PageCounts, buddy_free_pages(a, n) PROVE Listed'
  <2>1. PICK k \in Orders : CallerHolds(frame_of(a), k) /\ order' = k
    BY <1>10 DEF buddy_free_pages
  <2>2. /\ pc = "idle" /\ pc' = "coalesce" /\ frame' = frame_of(a) /\ UNCHANGED tables
    BY <1>10 DEF buddy_free_pages
  <2>3. InFlight = {} /\ InFlight' = Block(frame_of(a), k)
    BY <2>1, <2>2 DEF InFlight, Block
  <2>4. InFlight' \cap FreePages = {}
    BY <2>1, <2>3, StatesDiffer DEF CallerHolds, FreePages
  <2> QED BY <1>1, <2>2, <2>3, <2>4
<1> QED BY <1>2, <1>3, <1>4, <1>5, <1>6, <1>7, <1>8, <1>9, <1>10
        DEF Next, Step, Call, RefuseAlloc, IgnoreFree

------------------------------------------------------------------------------
(* Following a list.                                                       *)

(* A non-empty set of natural numbers has a least member.  (The induction  *)
(* theorems of the library have an operator as parameter, which the        *)
(* provers do not instantiate; that strict inclusion of finite sets is     *)
(* well-founded is stated without one.)                                    *)
LEMMA LeastNat ==
  ASSUME NEW T, T \subseteq Nat, T # {}
  PROVE  \E n \in T : \A m \in T : n <= m
<1> DEFINE I(n) == 0 .. n
           U    == { I(n) : n \in T }
           R    == StrictSubsetOrdering(Nat)
<1>1. U \subseteq FiniteSubsetsOf(Nat) /\ U # {}
  <2>1. ASSUME NEW n \in T PROVE I(n) \in FiniteSubsetsOf(Nat)
    BY FS_Interval DEF FiniteSubsetsOf
  <2> QED BY <2>1
<1>2. IsWellFoundedOn(R, FiniteSubsetsOf(Nat))
  BY FS_StrictSubsetOrderingWellFounded
<1>3. PICK X \in U : \A Y \in U : ~(<<Y, X>> \in R)
  <2> HIDE DEF U, R
  <2> QED BY <1>1, <1>2, WFMin
<1>4. PICK n \in T : X = I(n)
  OBVIOUS
<1>5. ASSUME NEW m \in T, m < n PROVE FALSE
  <2>1. I(m) \in U /\ I(m) \subseteq I(n) /\ n \in I(n) /\ n \notin I(m)
    BY <1>5
  <2>2. <<I(m), I(n)>> \in R
    BY <2>1 DEF StrictSubsetOrdering
  <2> QED BY <1>3, <1>4, <2>1, <2>2
<1> QED BY <1>5

(* A set that holds 0 and, with a number below N, the next, holds 0 .. N.  *)
LEMMA UpTo ==
  ASSUME NEW N \in Nat, NEW S, 0 \in S,
         \A n \in 0 .. (N - 1) : n \in S => n + 1 \in S
  PROVE  0 .. N \subseteq S
<1> DEFINE T == { n \in 0 .. N : n \notin S }
<1>1. SUFFICES ASSUME T # {} PROVE FALSE
  OBVIOUS
<1>2. PICK n \in T : \A m \in T : n <= m
  <2>1. T \subseteq Nat
    OBVIOUS
  <2> HIDE DEF T
  <2> QED BY <1>1, <2>1, LeastNat
<1>3. n \in 1 .. N
  OBVIOUS
<1>4. n - 1 \in 0 .. (N - 1) /\ n - 1 \in 0 .. N /\ n - 1 \notin T
  BY <1>2, <1>3
<1>5. n - 1 \in S
  BY <1>4
<1>6. (n - 1) + 1 \in S
  BY <1>4, <1>5
<1> QED BY <1>3, <1>6

(* Chain(k) follows the links, as its definition by recursion says. *)
LEMMA ChainFollows ==
  ASSUME TypeOK, NEW k \in Orders
  PROVE  /\ Chain(k) \in [0 .. BUDDY_MAX_PAGES -> Frames \cup {Nil}]
         /\ Chain(k)[0] = buddy_free_list[k]
         /\ \A i \in 1 .. BUDDY_MAX_PAGES :
              Chain(k)[i] = IF Chain(k)[i - 1] = Nil THEN Nil
                            ELSE buddy_free_next[Chain(k)[i - 1]]
<1> DEFINE N == BUDDY_MAX_PAGES
           V == Frames \cup {Nil}
           After(f) == IF f = Nil THEN Nil ELSE buddy_free_next[f]
           Follows(g, n) == /\ g \in [0 .. n -> V]
                            /\ g[0] = buddy_free_list[k]
                            /\ \A i \in 1 .. n : g[i] = After(g[i - 1])
           Rec(g) == [i \in 0 .. N |-> IF i = 0 THEN buddy_free_list[k] ELSE After(g[i - 1])]
<1>1. N \in Nat
  BY SizesAssumption
<1>2. buddy_free_list[k] \in V /\ \A f \in V : After(f) \in V
  BY DEF TypeOK
<1> HIDE DEF V, After, N
<1>3. \E g : Follows(g, N)
  <2> DEFINE S == { n \in 0 .. N : \E g : Follows(g, n) }
  <2>1. 0 \in S
    <3> DEFINE g == [i \in 0 .. 0 |-> buddy_free_list[k]]
    <3>1. Follows(g, 0)
      BY <1>2
    <3>2. 0 \in 0 .. N
      BY <1>1
    <3> HIDE DEF g, Follows
    <3> QED BY <3>1, <3>2
  <2>2. ASSUME NEW n \in 0 .. (N - 1), n \in S PROVE n + 1 \in S
    <3>1. PICK g : Follows(g, n)
      BY <2>2
    <3> DEFINE h == [i \in 0 .. (n + 1) |-> IF i <= n THEN g[i] ELSE After(g[n])]
    <3>2. n \in Nat /\ n + 1 \in 0 .. N
      BY <1>1
    <3>3. h \in [0 .. (n + 1) -> V]
      BY <3>1, <3>2, <1>2
    <3>4. h[0] = buddy_free_list[k]
      BY <3>1, <3>2
    <3>5. ASSUME NEW i \in 1 .. (n + 1) PROVE h[i] = After(h[i - 1])
      <4>1. h[i - 1] = g[i - 1]
        BY <3>2
      <4>2. CASE i <= n
        BY <3>1, <3>2, <4>1, <4>2
      <4>3. CASE i = n + 1
        BY <3>2, <4>1, <4>3
      <4> QED BY <3>2, <4>2, <4>3
    <3> HIDE DEF h
    <3>6. Follows(h, n + 1)
      BY <3>3, <3>4, <3>5
    <3> QED BY <3>2, <3>6
  <2>3. 0 .. N \subseteq S
    <3> HIDE DEF S
    <3> QED BY <1>1, <2>1, <2>2, UpTo
  <2> QED BY <1>1, <2>3
<1>4. PICK g : Follows(g, N)
  BY <1>3
<1>5. g = Rec(g)
  <2>1. \A i \in 0 .. N : g[i] = IF i = 0 THEN buddy_free_list[k] ELSE After(g[i - 1])
    BY <1>1, <1>4
  <2> QED BY <1>4, <2>1
<1> DEFINE at == CHOOSE h : h = Rec(h)
<1>6. at = Rec(at)
  BY <1>5
<1>7. Chain(k) = [i \in 0 .. N |-> at[i]]
  BY DEF Chain, After, N
<1> HIDE DEF at
<1>8. Chain(k) = at
  BY <1>6, <1>7
<1>9. /\ at[0] = buddy_free_list[k]
      /\ \A i \in 1 .. N : at[i] = After(at[i - 1])
  BY <1>1, <1>6
<1>10. 0 .. N \subseteq { i \in 0 .. N : at[i] \in V }
  <2> DEFINE S == { i \in 0 .. N : at[i] \in V }
  <2>1. 0 \in S
    BY <1>1, <1>2, <1>9
  <2>2. ASSUME NEW n \in 0 .. (N - 1), n \in S PROVE n + 1 \in S
    <3>1. n + 1 \in 1 .. N /\ n + 1 \in 0 .. N /\ (n + 1) - 1 = n
      BY <1>1
    <3>2. at[n + 1] = After(at[n])
      BY <3>1, <1>9
    <3> QED BY <3>1, <3>2, <2>2, <1>2
  <2> HIDE DEF S
  <2> QED BY <1>1, <2>1, <2>2, UpTo DEF S
<1>11. at \in [0 .. N -> V]
  BY <1>6, <1>10
<1> QED BY <1>8, <1>9, <1>11 DEF After, V, N

(* The frames of a list are first pages of free blocks of its order, each  *)
(* linked back to the one before it.                                       *)
LEMMA ChainLinked ==
  ASSUME IInv, NEW k \in Orders, NEW i \in 0 .. BUDDY_MAX_PAGES, Chain(k)[i] # Nil
  PROVE  /\ Chain(k)[i] \in FreeHeads
         /\ buddy_page_state[Chain(k)[i]] = k
         /\ i > 0 => /\ Chain(k)[i - 1] # Nil
                     /\ buddy_free_prev[Chain(k)[i]] = Chain(k)[i - 1]
<1> DEFINE N == BUDDY_MAX_PAGES
           c == Chain(k)
           Linked(n) == c[n] # Nil =>
             /\ c[n] \in FreeHeads
             /\ buddy_page_state[c[n]] = k
             /\ n > 0 => c[n - 1] # Nil /\ buddy_free_prev[c[n]] = c[n - 1]
           S == { n \in 0 .. N : Linked(n) }
<1>1. N \in Nat
  BY SizesAssumption
<1>2. /\ c[0] = buddy_free_list[k]
      /\ \A n \in 1 .. N : c[n] = IF c[n - 1] = Nil THEN Nil ELSE buddy_free_next[c[n - 1]]
  BY ChainFollows DEF IInv
<1> HIDE DEF c, N
<1>3. 0 \in S
  BY <1>1, <1>2 DEF IInv, ListsConsistent
<1>4. ASSUME NEW n \in 0 .. (N - 1), n \in S PROVE n + 1 \in S
  <2>1. n + 1 \in 1 .. N /\ n + 1 \in 0 .. N /\ (n + 1) - 1 = n
    BY <1>1
  <2>2. c[n + 1] = IF c[n] = Nil THEN Nil ELSE buddy_free_next[c[n]]
    BY <1>2, <2>1
  <2>3. CASE c[n] = Nil
    BY <2>1, <2>2, <2>3
  <2>4. CASE c[n] # Nil
    <3>1. c[n] \in FreeHeads /\ buddy_page_state[c[n]] = k /\ c[n + 1] = buddy_free_next[c[n]]
      BY <1>4, <2>2, <2>4
    <3>2. c[n + 1] # Nil => /\ c[n + 1] \in FreeHeads
                            /\ buddy_page_state[c[n + 1]] = k
                            /\ buddy_free_prev[c[n + 1]] = c[n]
      BY <3>1 DEF IInv, ListsConsistent
    <3> QED BY <2>1, <2>4, <3>2
  <2> QED BY <2>3, <2>4
<1>5. i \in S
  <2> HIDE DEF S
  <2>1. 0 .. N \subseteq S
    BY <1>1, <1>3, <1>4, UpTo
  <2> QED BY <2>1 DEF N
<1> QED BY <1>5 DEF c

(* A list comes to an end: no frame is met twice, or the links back from   *)
(* the frames in between would never leave them.                           *)
LEMMA ChainEnds ==
  ASSUME IInv, Acyclic, NEW k \in Orders PROVE Chain(k)[BUDDY_MAX_PAGES] = Nil
<1> DEFINE N == BUDDY_MAX_PAGES
           c == Chain(k)
<1>1. N \in Nat /\ N > 0
  BY SizesAssumption
<1>2. c \in [0 .. N -> Frames \cup {Nil}]
  BY ChainFollows DEF IInv
<1>3. \A i \in 0 .. N : c[i] # Nil =>
         /\ c[i] \in FreeHeads
         /\ i > 0 => c[i - 1] # Nil /\ buddy_free_prev[c[i]] = c[i - 1]
  BY ChainLinked
<1>4. Frames = 0 .. (N - 1)
  BY DEF Frames
<1> HIDE DEF c, N
<1> SUFFICES ASSUME c[N] # Nil PROVE FALSE
  BY DEF c, N
<1>5. \A i \in 0 .. N : c[i] # Nil
  <2> DEFINE S == { j \in 0 .. N : c[N - j] # Nil }
  <2>1. 0 \in S
    BY <1>1
  <2>2. ASSUME NEW j \in 0 .. (N - 1), j \in S PROVE j + 1 \in S
    <3>1. N - j \in 0 .. N /\ N - j > 0 /\ j + 1 \in 0 .. N /\ (N - j) - 1 = N - (j + 1)
      BY <1>1
    <3>2. c[(N - j) - 1] # Nil
      BY <1>3, <2>2, <3>1
    <3> QED BY <3>1, <3>2
  <2>3. 0 .. N \subseteq S
    <3> HIDE DEF S
    <3> QED BY <1>1, <2>1, <2>2, UpTo
  <2>4. ASSUME NEW i \in 0 .. N PROVE c[i] # Nil
    <3>1. N - i \in 0 .. N /\ N - (N - i) = i
      BY <1>1
    <3>2. c[N - (N - i)] # Nil
      BY <2>3, <3>1
    <3> QED BY <3>1, <3>2
  <2> QED BY <2>4
<1>6. PICK x \in 0 .. N, y \in 0 .. N : x # y /\ c[x] = c[y]
  <2>1. c \in [0 .. N -> 0 .. (N - 1)]
    BY <1>2, <1>4, <1>5
  <2>2. /\ IsFiniteSet(0 .. N) /\ Cardinality(0 .. N) = N + 1
        /\ IsFiniteSet(0 .. (N - 1)) /\ Cardinality(0 .. (N - 1)) = N
    <3>1. 0 \in Int /\ N \in Int /\ N - 1 \in Int
      BY <1>1
    <3>2. /\ IsFiniteSet(0 .. N)
          /\ Cardinality(0 .. N) = IF 0 > N THEN 0 ELSE N - 0 + 1
          /\ IsFiniteSet(0 .. (N - 1))
          /\ Cardinality(0 .. (N - 1)) = IF 0 > N - 1 THEN 0 ELSE (N - 1) - 0 + 1
      BY <3>1, FS_Interval
    <3> QED BY <1>1, <3>2
  <2>3. Cardinality(0 .. (N - 1)) < Cardinality(0 .. N)
    BY <1>1, <2>2
  <2> QED BY <2>1, <2>2, <2>3, FS_PigeonHole
<1>7. PICK a \in 0 .. N, b \in 0 .. N : a < b /\ c[a] = c[b]
  <2>1. CASE x < y
    BY <1>6, <2>1
  <2>2. CASE y < x
    BY <1>6, <2>2
  <2> QED BY <1>1, <1>6, <2>1, <2>2
<1> DEFINE S == { c[i] : i \in (a + 1) .. b }
<1>8. S \in SUBSET FreeHeads /\ S # {}
  <2>1. b \in (a + 1) .. b /\ \A i \in (a + 1) .. b : i \in 0 .. N
    BY <1>1, <1>7
  <2> QED BY <2>1, <1>3, <1>5
<1>9. PICK f \in S : buddy_free_prev[f] \notin S
  <2> HIDE DEF S
  <2> QED BY <1>8 DEF Acyclic
<1>10. PICK i \in (a + 1) .. b : f = c[i]
  OBVIOUS
<1>11. i \in 0 .. N /\ i > 0 /\ buddy_free_prev[f] = c[i - 1]
  <2>1. i \in 0 .. N /\ i > 0
    BY <1>1, <1>7
  <2> QED BY <2>1, <1>3, <1>5, <1>10
<1>12. CASE i = a + 1
  <2>1. c[i - 1] = c[b] /\ b \in (a + 1) .. b
    BY <1>1, <1>7, <1>12
  <2> QED BY <2>1, <1>9, <1>11
<1>13. CASE i # a + 1
  <2>1. i - 1 \in (a + 1) .. b
    BY <1>1, <1>7, <1>13
  <2> QED BY <2>1, <1>9, <1>11
<1> QED BY <1>12, <1>13

(* Every block is met on the list of its order. *)
LEMMA ChainCovers ==
  ASSUME IInv, Acyclic, NEW f \in FreeHeads
  PROVE  \E i \in 0 .. BUDDY_MAX_PAGES : Chain(buddy_page_state[f])[i] = f
<1> DEFINE N == BUDDY_MAX_PAGES
           OnList(g) == \E i \in 0 .. N : Chain(buddy_page_state[g])[i] = g
           S == { g \in FreeHeads : ~OnList(g) }
<1> SUFFICES ASSUME S # {} PROVE FALSE
  OBVIOUS
<1>1. N \in Nat
  BY SizesAssumption
<1>2. PICK g \in S : buddy_free_prev[g] \notin S
  <2>1. S \in SUBSET FreeHeads
    OBVIOUS
  <2> HIDE DEF S
  <2> QED BY <2>1 DEF Acyclic
<1> DEFINE k == buddy_page_state[g]
           c == Chain(k)
<1>3. g \in FreeHeads /\ g # Nil /\ k \in Orders
  BY StatesDiffer DEF FreeHeads
<1>4. /\ c[0] = buddy_free_list[k]
      /\ \A i \in 1 .. N : c[i] = IF c[i - 1] = Nil THEN Nil ELSE buddy_free_next[c[i - 1]]
  BY <1>3, ChainFollows DEF IInv
<1>5. c[N] = Nil
  BY <1>3, ChainEnds
<1>6. CASE buddy_free_prev[g] = Nil
  <2>1. buddy_free_list[k] = g
    BY <1>3, <1>6 DEF IInv, ListsConsistent
  <2> QED BY <2>1, <1>1, <1>2, <1>4
<1>7. CASE buddy_free_prev[g] # Nil
  <2> DEFINE h == buddy_free_prev[g]
  <2>1. h \in FreeHeads /\ buddy_page_state[h] = k /\ buddy_free_next[h] = g
    BY <1>3, <1>7 DEF IInv, ListsConsistent
  <2>2. PICK i \in 0 .. N : c[i] = h
    BY <2>1, <1>2
  <2> HIDE DEF c
  <2>3. i # N
    BY <2>2, <1>5, <1>7
  <2>4. i + 1 \in 1 .. N /\ i + 1 \in 0 .. N /\ (i + 1) - 1 = i
    BY <2>3, <1>1
  <2>5. c[i + 1] = g
    BY <2>1, <2>2, <2>4, <1>4, <1>7
  <2> QED BY <2>4, <2>5, <1>2 DEF c
<1> QED BY <1>6, <1>7

(* The two parts of Listed are what NoLostPages follows from. *)
LEMMA ListedSuffices == ASSUME IInv, Listed PROVE NoLostPages
<1> DEFINE Found(k) == { Chain(k)[i] : i \in 0 .. BUDDY_MAX_PAGES } \ {Nil}
<1>1. \A k \in Orders : Chain(k)[BUDDY_MAX_PAGES] = Nil
  BY ChainEnds DEF Listed
<1>2. \A k \in Orders : \A f \in Found(k) : f \in FreeHeads /\ buddy_page_state[f] = k
  BY ChainLinked
<1>3. \A f \in FreeHeads : buddy_page_state[f] \in Orders /\ f \in Found(buddy_page_state[f])
  <2>1. \A f \in FreeHeads : buddy_page_state[f] \in Orders /\ f # Nil
    BY StatesDiffer DEF FreeHeads
  <2> QED BY <2>1, ChainCovers DEF Listed
<1> HIDE DEF Found
<1>4. ASSUME NEW p \in FreePages \ InFlight
      PROVE  \E k \in Orders : \E f \in Found(k) : p \in Block(f, k)
  BY <1>3 DEF Listed, Covered
<1>5. ASSUME NEW k \in Orders, NEW f \in Found(k), NEW p \in Block(f, k)
      PROVE  p \in FreePages \ InFlight
  BY <1>2, HeadBlockIsFree DEF IInv
<1>6. FreePages \ InFlight = UNION { UNION { Block(f, k) : f \in Found(k) } : k \in Orders }
  BY <1>4, <1>5
<1> QED BY <1>1, <1>6 DEF NoLostPages, Found

(***************************************************************************)
(* No page is lost, for tables of every size: every free page outside the  *)
(* block in flight is in a block that is met by following the list of its  *)
(* order from buddy_free_list, and every list ends, at every iteration of  *)
(* every loop of buddy.c.                                                  *)
(***************************************************************************)
THEOREM NoPagesAreLost == Spec => []NoLostPages
<1>1. Init => IInv /\ Listed
  BY InitIInv, InitListed
<1>2. (IInv /\ Listed) /\ [Next]_vars => (IInv /\ Listed)'
  BY NextIInv, NextListed
<1>3. IInv /\ Listed => NoLostPages
  BY ListedSuffices
<1> QED BY <1>1, <1>2, <1>3, PTL DEF Spec

------------------------------------------------------------------------------
(* Multiples of a number and of its double.                                *)

(* What divides evenly is a multiple. *)
LEMMA Quotient ==
  ASSUME NEW a \in Nat, NEW b \in Nat, b > 0
  PROVE  a \div b \in Nat /\ (a % b = 0 => a = b * (a \div b))
OBVIOUS

(* A multiple divides evenly. *)
LEMMA Multiple ==
  ASSUME NEW b \in Nat, b > 0, NEW q \in Nat
  PROVE  (b * q) % b = 0 /\ (b * q) \div b = q
OBVIOUS

(* A common factor can be dropped from an inequality. *)
LEMMA Factor ==
  ASSUME NEW b \in Nat, b > 0, NEW x \in Nat, NEW y \in Nat
  PROVE  /\ b * x < b * y => x < y
         /\ x < y => b * x + b <= b * y
         /\ x <= y => b * x <= b * y
OBVIOUS

(* A multiple of 2b is an even multiple of b, and b further is an odd one. *)
LEMMA Doubled ==
  ASSUME NEW b \in Nat, b > 0, NEW a \in Nat, a % (2 * b) = 0
  PROVE  /\ a % b = 0 /\ (a \div b) % 2 = 0
         /\ (a + b) % b = 0 /\ (a + b) % (2 * b) # 0
<1> DEFINE r == a \div (2 * b)
<1>1. r \in Nat /\ a = (2 * b) * r
  BY Quotient
<1> HIDE DEF r
<1>2. a = b * (2 * r) /\ 2 * r \in Nat
  BY <1>1
<1>3. a % b = 0 /\ a \div b = 2 * r
  BY <1>2, Multiple
<1>5. a + b = b * (2 * r + 1) /\ 2 * r + 1 \in Nat
  BY <1>2
<1>6. (a + b) % b = 0
  BY <1>5, Multiple
<1>7. (a + b) % (2 * b) # 0
  <2> SUFFICES ASSUME (a + b) % (2 * b) = 0 PROVE FALSE
    OBVIOUS
  <2> DEFINE s == (a + b) \div (2 * b)
  <2>1. s \in Nat /\ a + b = (2 * b) * s
    BY Quotient
  <2> HIDE DEF s
  <2>2. b * (2 * r + 1) = b * (2 * s)
    BY <2>1, <1>5
  <2>3. 2 * r + 1 = 2 * s
    BY <2>1, <2>2, <1>1
  <2> QED BY <1>1, <2>1, <2>3
<1> QED BY <1>1, <1>3, <1>6, <1>7

(* An odd multiple of b is b beyond a multiple of 2b. *)
LEMMA Odd ==
  ASSUME NEW b \in Nat, b > 0, NEW a \in Nat, a % b = 0, a % (2 * b) # 0
  PROVE  (a \div b) % 2 # 0 /\ a >= b /\ (a - b) % (2 * b) = 0
<1> DEFINE q == a \div b
<1>1. q \in Nat /\ a = b * q
  BY Quotient
<1>2. q % 2 # 0
  <2> SUFFICES ASSUME q % 2 = 0 PROVE FALSE
    OBVIOUS
  <2>1. PICK r \in Nat : q = 2 * r
    BY <1>1
  <2>2. a = (2 * b) * r
    BY <1>1, <2>1
  <2> QED BY <2>2, Multiple
<1>3. PICK r \in Nat : q = 2 * r + 1
  BY <1>1, <1>2
<1> HIDE DEF q
<1>4. a = (2 * b) * r + b
  BY <1>1, <1>3
<1>5. (2 * b) * r \in Nat
  OBVIOUS
<1>6. a - b = (2 * b) * r
  BY <1>4, <1>5
<1>7. (a - b) % (2 * b) = 0
  BY <1>6, Multiple
<1> QED BY <1>2, <1>4, <1>5, <1>7 DEF q

(* The order of a block is even or odd in its parent: its buddy is above   *)
(* or below it (buddy.c:272).                                              *)
LEMMA BuddyOfAligned ==
  ASSUME NEW f \in Nat, NEW k \in Orders, k < BUDDY_MAX_ORDER, f % BlockSize[k] = 0
  PROVE  /\ k + 1 \in Orders
         /\ BlockSize[k] \in Nat /\ BlockSize[k] > 0 /\ BlockSize[k + 1] = 2 * BlockSize[k]
         /\ f % BlockSize[k + 1] = 0 => buddy_frame(f, k) = f + BlockSize[k]
         /\ f % BlockSize[k + 1] # 0 => /\ buddy_frame(f, k) = f - BlockSize[k]
                                        /\ f >= BlockSize[k]
                                        /\ (f - BlockSize[k]) % BlockSize[k + 1] = 0
<1> DEFINE b == BlockSize[k]
<1>1. k + 1 \in Orders /\ b \in Nat /\ b > 0 /\ BlockSize[k + 1] = 2 * b
  BY BlockSizes
<1>2. buddy_frame(f, k) = IF (f \div b) % 2 = 0 THEN f + b ELSE f - b
  BY DEF buddy_frame
<1> HIDE DEF b
<1>3. f % b = 0
  BY DEF b
<1>4. f % (2 * b) = 0 => buddy_frame(f, k) = f + b
  BY <1>1, <1>2, Doubled
<1>5. f % (2 * b) # 0 => buddy_frame(f, k) = f - b /\ f >= b /\ (f - b) % (2 * b) = 0
  BY <1>1, <1>2, <1>3, Odd
<1> QED BY <1>1, <1>4, <1>5 DEF b

(* The sizes of larger blocks are multiples of those of smaller ones. *)
LEMMA SizesDivide ==
  ASSUME NEW i \in Orders, NEW j \in Orders, i <= j
  PROVE  \E q \in Nat : BlockSize[j] = BlockSize[i] * q
<1> DEFINE N == j - i
           S == { n \in 0 .. N : \E q \in Nat : BlockSize[i + n] = BlockSize[i] * q }
<1>1. /\ N \in Nat /\ i \in Nat /\ j \in Nat /\ BlockSize[i] \in Nat
      /\ \A n \in 0 .. N : i + n \in Orders /\ (n < N => i + n < BUDDY_MAX_ORDER)
  BY BlockSizes, SizesAssumption DEF Orders
<1> HIDE DEF N
<1>2. 0 \in S
  <2>1. i + 0 = i /\ BlockSize[i] = BlockSize[i] * 1 /\ 0 \in 0 .. N
    BY <1>1
  <2> QED BY <2>1
<1>3. ASSUME NEW n \in 0 .. (N - 1), n \in S PROVE n + 1 \in S
  <2>1. PICK q \in Nat : BlockSize[i + n] = BlockSize[i] * q
    BY <1>3
  <2>2. n \in 0 .. N /\ n < N /\ n + 1 \in 0 .. N /\ (i + n) + 1 = i + (n + 1)
    BY <1>1
  <2>3. BlockSize[i + (n + 1)] = 2 * BlockSize[i + n]
    BY <1>1, <2>2, BlockSizes
  <2>4. BlockSize[i + (n + 1)] = BlockSize[i] * (2 * q) /\ 2 * q \in Nat
    BY <1>1, <2>1, <2>3
  <2> QED BY <2>2, <2>4
<1>4. N \in S
  <2> HIDE DEF S
  <2>1. 0 .. N \subseteq S
    BY <1>1, <1>2, <1>3, UpTo
  <2> QED BY <1>1, <2>1
<1>5. i + N = j
  BY <1>1 DEF N
<1> QED BY <1>4, <1>5

(* Two aligned blocks that meet are one inside the other. *)
LEMMA Nested ==
  ASSUME NEW i \in Orders, NEW j \in Orders, i <= j, NEW f \in Nat, NEW g \in Nat,
         f % BlockSize[i] = 0, g % BlockSize[j] = 0,
         NEW p \in Block(f, i), p \in Block(g, j)
  PROVE  Block(f, i) \subseteq Block(g, j)
<1> DEFINE b == BlockSize[i]
           c == BlockSize[j]
           s == f \div b
           r == g \div c
<1>1. b \in Nat /\ b > 0 /\ c \in Nat /\ c > 0
  BY BlockSizes
<1>2. PICK q \in Nat : c = b * q
  BY SizesDivide
<1>3. s \in Nat /\ f = b * s /\ r \in Nat /\ g = c * r
  BY <1>1, Quotient
<1>4. /\ p \in Int /\ f <= p /\ p < f + b /\ g <= p /\ p < g + c
      /\ Block(f, i) = f .. (f + b - 1) /\ Block(g, j) = g .. (g + c - 1)
  BY <1>1 DEF Block
<1> HIDE DEF b, c, s, r
<1>5. q * r \in Nat /\ g = b * (q * r) /\ g + c = b * (q * r + q)
  BY <1>1, <1>2, <1>3
<1>6. b * (q * r) < b * (s + 1)
  BY <1>1, <1>3, <1>4, <1>5
<1>7. b * s < b * (q * r + q)
  BY <1>1, <1>3, <1>4, <1>5
<1>8. q * r < s + 1 /\ s < q * r + q
  <2>1. s + 1 \in Nat /\ q * r + q \in Nat
    BY <1>2, <1>3, <1>5
  <2> QED BY <1>1, <1>3, <1>5, <1>6, <1>7, <2>1, Factor
<1>9. b * (q * r) <= b * s /\ b * s + b <= b * (q * r + q)
  <2>1. q * r <= s /\ q * r + q \in Nat
    BY <1>2, <1>3, <1>5, <1>8
  <2> QED BY <1>1, <1>3, <1>5, <1>8, <2>1, Factor
<1>10. g <= f /\ f + b <= g + c
  BY <1>3, <1>5, <1>9
<1> QED BY <1>1, <1>3, <1>4, <1>5, <1>10

------------------------------------------------------------------------------
(* Splitting and merging leave no two buddies apart.                       *)

(* g and h are the lower and the upper half of a block of order k + 1. *)
AreBuddies(g, h, k) ==
  k < BUDDY_MAX_ORDER /\ g % BlockSize[k + 1] = 0 /\ h = g + BlockSize[k]

(* Blocks lie at multiples of their size, the one in flight too. *)
Aligned ==
  /\ \A f \in FreeHeads : f % BlockSize[buddy_page_state[f]] = 0
  /\ pc \in {"split", "coalesce"} => frame % BlockSize[order] = 0

(* No two blocks on the lists are buddies. *)
Merged ==
  \A g, h \in FreeHeads :
    buddy_page_state[g] = buddy_page_state[h] => ~AreBuddies(g, h, buddy_page_state[g])

(* buddy_init has freed pages of the entries it has been through only, and *)
(* a block whose upper buddy would be next in the range is followed by     *)
(* less than a block of its size: or the larger one would have been taken. *)
Added ==
  /\ pc \in {"init", "range"} =>
       \A p \in FreePages : \E i \in 1 .. Len(memmap) : i < entry /\ p \in FramesOf(memmap[i])
  /\ pc = "range" =>
       /\ entry - 1 \in 1 .. Len(memmap)
       /\ frame .. (frame + pages - 1) \subseteq FramesOf(memmap[entry - 1])
       /\ frame + pages \notin FramesOf(memmap[entry - 1])
       /\ \A g \in FreeHeads :
            AreBuddies(g, frame, buddy_page_state[g]) => pages < BlockSize[buddy_page_state[g]]

Defragmented == Aligned /\ Merged /\ Added

(* Taking blocks off the lists separates no buddies. *)
LEMMA FewerBlocks ==
  ASSUME Aligned, Merged, FreeHeads' \subseteq FreeHeads,
         \A g \in FreeHeads : buddy_page_state'[g] = buddy_page_state[g]
  PROVE  Merged' /\ \A g \in FreeHeads' : g % BlockSize[buddy_page_state'[g]] = 0
<1>1. Merged'
  <2> SUFFICES ASSUME NEW g \in FreeHeads', NEW h \in FreeHeads',
                      buddy_page_state'[g] = buddy_page_state'[h],
                      AreBuddies(g, h, buddy_page_state'[g])
               PROVE  FALSE
    BY DEF Merged, AreBuddies
  <2> QED BY DEF Merged
<1>2. \A g \in FreeHeads' : g % BlockSize[buddy_page_state'[g]] = 0
  BY DEF Aligned
<1> QED BY <1>1, <1>2

(* A block put on a list where its buddy is not. *)
LEMMA OneMoreBlock ==
  ASSUME TypeOK, BlocksDisjoint, Aligned, Merged, NEW f \in Frames, NEW k \in Orders,
         buddy_add_free_block(f, k),
         FreeHeads' = FreeHeads \cup {f}, f \notin FreeHeads,
         \A g \in FreeHeads : Block(g, buddy_page_state[g]) \cap Block(f, k) = {},
         f % BlockSize[k] = 0,
         \A g \in FreeHeads : buddy_page_state[g] = k =>
            ~AreBuddies(g, f, k) /\ ~AreBuddies(f, g, k)
  PROVE  /\ Merged'
         /\ \A g \in FreeHeads' : g % BlockSize[buddy_page_state'[g]] = 0
         /\ \A g \in FreeHeads : buddy_page_state'[g] = buddy_page_state[g]
         /\ buddy_page_state'[f] = k
<1>1. buddy_page_state'[f] = k
  BY DEF buddy_add_free_block, buddy_mark_block_free
<1>2. ASSUME NEW g \in FreeHeads PROVE buddy_page_state'[g] = buddy_page_state[g]
  <2>1. g \in Frames /\ buddy_page_state[g] \in Orders
    BY DEF FreeHeads
  <2>2. g \notin Block(f, k) /\ g # f
    BY <2>1, HeadInBlock
  <2> QED BY <2>1, <2>2 DEF buddy_add_free_block, buddy_mark_block_free
<1>3. ~AreBuddies(f, f, k)
  BY HeadInBlock DEF AreBuddies
<1>4. Merged'
  <2> SUFFICES ASSUME NEW g \in FreeHeads', NEW h \in FreeHeads',
                      buddy_page_state'[g] = buddy_page_state'[h],
                      AreBuddies(g, h, buddy_page_state'[g])
               PROVE  FALSE
    BY DEF Merged, AreBuddies
  <2>1. CASE g = f
    BY <2>1, <1>1, <1>2, <1>3
  <2>2. CASE g # f /\ h = f
    BY <2>2, <1>1, <1>2
  <2>3. CASE g # f /\ h # f
    BY <2>3, <1>2 DEF Merged
  <2> QED BY <2>1, <2>2, <2>3
<1>5. \A g \in FreeHeads' : g % BlockSize[buddy_page_state'[g]] = 0
  BY <1>1, <1>2 DEF Aligned
<1> QED BY <1>1, <1>2, <1>4, <1>5

(* Initially there is no block. *)
LEMMA InitDefragmented == Init => Defragmented
<1> SUFFICES ASSUME Init PROVE Defragmented
  OBVIOUS
<1>1. FreeHeads = {} /\ FreePages = {} /\ pc = "init"
  BY StatesDiffer DEF Init, FreeHeads, FreePages
<1> QED BY <1>1 DEF Defragmented, Aligned, Merged, Added

(* A step that changes no table, with the block it takes in hand aligned. *)
LEMMA SameDefragmented ==
  ASSUME IInv, Defragmented, UNCHANGED tables, InFlight = {}, InFlight' \cap FreePages = {},
         (pc \in {"split", "coalesce"} => frame % BlockSize[order] = 0)'
  PROVE  Aligned' /\ Merged'
<1>1. FreeHeads' = FreeHeads
  BY TablesUnchanged DEF IInv
<1>2. Merged' /\ \A g \in FreeHeads' : g % BlockSize[buddy_page_state'[g]] = 0
  BY <1>1, FewerBlocks DEF Defragmented, tables
<1> QED BY <1>2 DEF Aligned

(* The pages before and after an entry are free in no other entry. *)
LEMMA NoNeighbours ==
  ASSUME IInv, Separated(memmap), NEW i \in 1 .. Len(memmap), NEW j \in 1 .. Len(memmap), i # j,
         NEW p \in FramesOf(memmap[i]), NEW q \in FramesOf(memmap[j])
  PROVE  p # q + 1 /\ q # p + 1
<1>1. p - q \notin {-1, 0, 1}
  BY DEF Separated
<1>2. \A n \in 1 .. Len(memmap) : FramesOf(memmap[n]) \subseteq Int
  BY DEF FramesOf
<1>3. p \in Int /\ q \in Int
  BY <1>2
<1> QED BY <1>1, <1>3

(* Turning to an entry of the memory map: no block ends just before it. *)
LEMMA AddEntryDefragmented ==
  ASSUME IInv, Separated(memmap), Defragmented, AddEntry PROVE Defragmented'
<1> DEFINE e == memmap[entry]
<1>1. memmap \in MemMaps /\ entry \in 1 .. Len(memmap) /\ IsAdded(e) /\ entry \in Nat
  <2>1. memmap \in MemMaps /\ entry \in Nat /\ entry > 0 /\ entry <= Len(memmap)
    BY DEF IInv, TypeOK, AddEntry
  <2>2. Len(memmap) \in Nat
    BY <2>1, MemMapAssumption
  <2> QED BY <2>1, <2>2 DEF AddEntry
<1>2. /\ first_frame(e) \in Nat /\ last_frame(e) \in Nat
      /\ first_frame(e) < last_frame(e) /\ last_frame(e) <= BUDDY_MAX_PAGES
      /\ FramesOf(e) = first_frame(e) .. (last_frame(e) - 1)
  BY <1>1, EntryFrames
<1>3. frame' = first_frame(e) /\ pages' = last_frame(e) - first_frame(e)
      /\ entry' = entry + 1 /\ pc' = "range" /\ pc = "init" /\ memmap' = memmap
      /\ UNCHANGED tables
  BY DEF AddEntry
<1>4. InFlight = {} /\ InFlight' = {}
  BY <1>3 DEF InFlight
<1>5. Aligned' /\ Merged'
  BY <1>3, <1>4, SameDefragmented
<1>6. FreeHeads' = FreeHeads /\ FreePages' = FreePages
  BY <1>3, <1>4 DEF FreeHeads, FreePages, tables
<1>7. \A p \in FreePages : \E i \in 1 .. Len(memmap) : i < entry /\ p \in FramesOf(memmap[i])
  BY <1>3 DEF Defragmented, Added
<1> HIDE DEF e
<1>8. ASSUME NEW g \in FreeHeads, AreBuddies(g, frame', buddy_page_state[g]) PROVE FALSE
  <2> DEFINE b == BlockSize[buddy_page_state[g]]
             p == g + b - 1
  <2>1. g \in Nat /\ b \in Nat /\ b > 0 /\ \A q \in Block(g, buddy_page_state[g]) : q \in FreePages
    BY HeadBlockIsFree DEF IInv
  <2>2. p \in FreePages /\ first_frame(e) = p + 1
    BY <2>1, <1>3, <1>8 DEF Block, AreBuddies
  <2>3. PICK i \in 1 .. Len(memmap) : i < entry /\ p \in FramesOf(memmap[i])
    BY <2>2, <1>7
  <2>4. first_frame(e) \in FramesOf(memmap[entry]) /\ i # entry
    BY <2>3, <1>1, <1>2 DEF e
  <2> QED BY <2>2, <2>3, <2>4, <1>1, NoNeighbours
<1>9. Added'
  <2>1. \A p \in FreePages : \E i \in 1 .. Len(memmap) : i < entry + 1 /\ p \in FramesOf(memmap[i])
    BY <1>1, <1>7
  <2>2. entry' - 1 = entry /\ (\A i : FramesOf(memmap[i])' = FramesOf(memmap[i]))
    BY <1>1, <1>3 DEF FramesOf, IsAdded, first_frame, last_frame
  <2>3. /\ frame' .. (frame' + pages' - 1) = FramesOf(e)
        /\ frame' + pages' \notin FramesOf(e)
    BY <1>2, <1>3
  <2>4. UNCHANGED buddy_page_state
    BY <1>3 DEF tables
  <2> QED BY <1>1, <1>3, <1>6, <1>8, <2>1, <2>2, <2>3, <2>4 DEF Added, AreBuddies, e
<1> QED BY <1>5, <1>9 DEF Defragmented

(* Adding the largest block that fits: its buddy cannot be on a list. *)
LEMMA AddRangeDefragmented ==
  ASSUME IInv, Separated(memmap), Defragmented, buddy_add_range PROVE Defragmented'
<1>1. PICK k \in Orders :
        /\ Fits(k)
        /\ \A j \in Orders : Fits(j) => j <= k
        /\ buddy_add_free_block(frame, k)
        /\ frame' = IF pages = BlockSize[k] THEN 0 ELSE frame + BlockSize[k]
        /\ pages' = pages - BlockSize[k]
        /\ pc' = IF pages = BlockSize[k] THEN "init" ELSE "range"
  BY DEF buddy_add_range
<1> DEFINE b == BlockSize[k]
           last == entry - 1
<1>2. /\ frame \in Nat /\ pages \in Nat /\ b \in Nat /\ b > 0 /\ entry \in Nat
      /\ b <= pages /\ frame + pages <= BUDDY_MAX_PAGES /\ pc = "range" /\ frame % b = 0
      /\ UNCHANGED <<memmap, entry>>
  BY <1>1, BlockSizes DEF IInv, TypeOK, BootInv, Fits, buddy_add_range
<1>3. frame \in Frames /\ frame + b <= BUDDY_MAX_PAGES
  BY <1>2, SizesAssumption DEF Frames
<1>4. InFlight = {} /\ InFlight' = {}
  BY <1>1, <1>2 DEF InFlight
<1>5. Block(frame, k) = frame .. (frame + b - 1) /\ Block(frame, k) \subseteq frame .. (frame + pages - 1)
  BY <1>2 DEF Block
<1>6. (frame .. (frame + pages - 1)) \cap FreePages = {}
  <2>1. frame .. (frame + pages - 1) \subseteq
          { p \in Frames : buddy_page_state[p] = BUDDY_PAGE_STATE_RESERVED }
    BY <1>2 DEF IInv, BootInv
  <2> QED BY <2>1, StatesDiffer DEF FreePages
<1>7. \A g \in FreeHeads : Block(g, buddy_page_state[g]) \cap Block(frame, k) = {}
  <2>1. Block(frame, k) \cap (FreePages \ InFlight) = {}
    BY <1>5, <1>6
  <2> QED BY <2>1, FreeHeadsAvoid DEF IInv
<1>8. FreeHeads' = FreeHeads \cup {frame} /\ frame \notin FreeHeads
  BY <1>1, <1>3, <1>4, <1>7, AddFreeBlock DEF IInv
<1>9. FreePages' = FreePages \cup Block(frame, k)
  BY <1>1, <1>3, AddFreeBlockPages DEF IInv
<1>10. /\ last \in 1 .. Len(memmap) /\ last < entry
       /\ frame .. (frame + pages - 1) \subseteq FramesOf(memmap[last])
       /\ frame + pages \notin FramesOf(memmap[last])
       /\ \A p \in FreePages : \E i \in 1 .. Len(memmap) : i < entry /\ p \in FramesOf(memmap[i])
       /\ \A g \in FreeHeads :
            AreBuddies(g, frame, buddy_page_state[g]) => pages < BlockSize[buddy_page_state[g]]
  BY <1>2 DEF Defragmented, Added
<1> HIDE DEF b, last
<1>11. ASSUME NEW g \in FreeHeads, buddy_page_state[g] = k, AreBuddies(g, frame, k) PROVE FALSE
  BY <1>2, <1>10, <1>11 DEF b
<1>12. ASSUME NEW g \in FreeHeads, buddy_page_state[g] = k, AreBuddies(frame, g, k) PROVE FALSE
  <2>1. g = frame + b /\ g \in FreePages
    <3>1. g \in Block(g, k) /\ \A p \in Block(g, k) : p \in FreePages
      BY <1>12, HeadBlockIsFree, HeadInBlock DEF IInv
    <3> QED BY <3>1, <1>12 DEF AreBuddies, b
  <2>2. g = frame + pages
    <3>1. g \notin frame .. (frame + pages - 1)
      BY <2>1, <1>6
    <3> QED BY <2>1, <3>1, <1>2
  <2>3. PICK i \in 1 .. Len(memmap) : g \in FramesOf(memmap[i])
    BY <2>1, <1>10
  <2>4. i # last /\ g - 1 \in FramesOf(memmap[last]) /\ g = (g - 1) + 1
    BY <2>2, <2>3, <1>2, <1>10
  <2> QED BY <2>3, <2>4, <1>10, NoNeighbours
<1>13. /\ Merged'
       /\ \A g \in FreeHeads' : g % BlockSize[buddy_page_state'[g]] = 0
       /\ \A g \in FreeHeads : buddy_page_state'[g] = buddy_page_state[g]
       /\ buddy_page_state'[frame] = k
  <2>1. frame % BlockSize[k] = 0
    BY <1>2 DEF b
  <2>2. \A g \in FreeHeads : buddy_page_state[g] = k => ~AreBuddies(g, frame, k) /\ ~AreBuddies(frame, g, k)
    BY <1>11, <1>12
  <2> QED BY <1>1, <1>3, <1>7, <1>8, <2>1, <2>2, OneMoreBlock DEF IInv, Defragmented
<1>14. Aligned'
  BY <1>1, <1>13 DEF Aligned
<1>15. \A p \in FreePages' : \E i \in 1 .. Len(memmap) : i < entry /\ p \in FramesOf(memmap[i])
  BY <1>5, <1>9, <1>10
<1>16. \A i : FramesOf(memmap[i])' = FramesOf(memmap[i])
  BY <1>2 DEF FramesOf, IsAdded, first_frame, last_frame
<1>17. CASE pages = b
  BY <1>1, <1>2, <1>13, <1>14, <1>15, <1>16, <1>17 DEF Defragmented, Added, b
<1>18. CASE pages # b
  <2>1. frame' = frame + b /\ pages' = pages - b /\ pc' = "range"
    BY <1>1, <1>18 DEF b
  <2>2. /\ frame' .. (frame' + pages' - 1) \subseteq frame .. (frame + pages - 1)
        /\ frame' + pages' = frame + pages
    BY <2>1, <1>2
  <2>3. ASSUME NEW g \in FreeHeads', AreBuddies(g, frame', buddy_page_state'[g])
        PROVE  pages' < BlockSize[buddy_page_state'[g]]
    <3>1. CASE g = frame
      <4>1. k < BUDDY_MAX_ORDER /\ frame % BlockSize[k + 1] = 0
        BY <3>1, <2>3, <1>13 DEF AreBuddies
      <4>2. k + 1 \in Orders /\ BlockSize[k + 1] = 2 * b /\ k \in Nat
        BY <4>1, BlockSizes, StatesDiffer DEF b
      <4>3. ~(BlockSize[k + 1] <= pages)
        BY <4>1, <4>2, <1>1 DEF Fits
      <4> QED BY <3>1, <4>2, <4>3, <2>1, <1>2, <1>13 DEF b
    <3>2. CASE g \in FreeHeads
      <4> DEFINE c == BlockSize[buddy_page_state[g]]
      <4>1. g \in Nat /\ c \in Nat /\ c > 0
        BY <3>2, HeadBlockIsFree DEF IInv
      <4>2. frame + b = g + c
        BY <3>2, <2>1, <2>3, <1>13 DEF AreBuddies
      <4>3. Block(g, buddy_page_state[g]) = g .. (g + c - 1)
        BY DEF Block
      <4> HIDE DEF c
      <4>4. frame + b - 1 \in Block(g, buddy_page_state[g])
        BY <4>1, <4>2, <4>3, <1>2
      <4>5. frame + b - 1 \in Block(frame, k)
        BY <1>2, <1>5
      <4> QED BY <3>2, <4>4, <4>5, <1>7
    <3> QED BY <3>1, <3>2, <1>8
  <2>4. Added'
    <3>1. /\ frame' .. (frame' + pages' - 1) \subseteq FramesOf(memmap[last])
          /\ frame' + pages' \notin FramesOf(memmap[last])
      BY <2>2, <1>10
    <3>2. \A g \in FreeHeads' :
            AreBuddies(g, frame, buddy_page_state[g])' => pages' < BlockSize[buddy_page_state'[g]]
      BY <2>3 DEF AreBuddies
    <3> QED BY <1>2, <1>10, <1>15, <1>16, <3>1, <3>2 DEF Added, last
  <2> QED BY <2>4, <1>13, <1>14 DEF Defragmented
<1> QED BY <1>17, <1>18

(* Taking the block an allocation starts from. *)
LEMMA AllocDefragmented ==
  ASSUME NEW n \in PageCounts, IInv, Defragmented, buddy_alloc_pages(n) PROVE Defragmented'
<1>1. PICK current \in Orders :
        /\ buddy_free_list[current] # Nil
        /\ buddy_pop_free_block(buddy_free_list[current], current)
        /\ frame' = buddy_free_list[current]
        /\ order' = current
  BY DEF buddy_alloc_pages
<1> DEFINE f == buddy_free_list[current]
<1>2. f \in FreeHeads /\ buddy_page_state[f] = current /\ buddy_remove_free_block(f, current)
  BY <1>1, PopIsRemove DEF IInv
<1>3. InFlight = {} /\ InFlight' = Block(f, current) /\ pc' = "split"
  BY <1>1 DEF InFlight, Block, buddy_alloc_pages
<1>4. FreeHeads' = FreeHeads \ {f} /\ buddy_page_state' = buddy_page_state
  BY <1>2, <1>3, TakeBlock DEF IInv, buddy_remove_free_block
<1>5. Merged' /\ \A g \in FreeHeads' : g % BlockSize[buddy_page_state'[g]] = 0
  BY <1>4, FewerBlocks DEF Defragmented
<1>6. f % BlockSize[current] = 0
  BY <1>2 DEF Defragmented, Aligned
<1> QED BY <1>1, <1>3, <1>5, <1>6 DEF Defragmented, Aligned, Added

(* The upper half of a block being split has its buddy in flight. *)
LEMMA SplitDefragmented == ASSUME IInv, Defragmented, SplitBlock PROVE Defragmented'
<1> DEFINE f == frame + BlockSize[order - 1]
           k == order - 1
           b == BlockSize[order - 1]
<1>1. /\ pc = "split" /\ order > req_order /\ buddy_add_free_block(f, k)
      /\ order' = k /\ UNCHANGED <<pc, frame>>
  BY DEF SplitBlock
<1>2. /\ k \in Orders /\ frame \in Nat /\ b \in Nat /\ b > 0
      /\ f \in Frames /\ f + BlockSize[k] <= BUDDY_MAX_PAGES
      /\ Block(frame, order) = Block(frame, k) \cup Block(f, k)
      /\ Block(frame, k) \cap Block(f, k) = {}
  BY <1>1, Halves DEF IInv
<1>3. order \in Nat /\ order \in Orders /\ order > 0 /\ BlockSize[order] = 2 * b
  <2>1. order \in Orders /\ order \in Nat /\ req_order \in Nat
    BY StatesDiffer DEF IInv, TypeOK
  <2> QED BY <2>1, <1>1, BlockSizes
<1>4. InFlight = Block(frame, order) /\ InFlight' = Block(frame, k)
  BY <1>1 DEF InFlight, Block
<1>5. frame % b = 0 /\ f % b = 0 /\ f % (2 * b) # 0
  <2>1. frame % (2 * b) = 0
    BY <1>1, <1>3 DEF Defragmented, Aligned
  <2> QED BY <1>2, <2>1, Doubled
<1>6. f = frame + b /\ k + 1 = order /\ BlockSize[k] = b
  BY <1>3
<1> HIDE DEF f, k, b
<1>7. \A g \in FreeHeads : Block(g, buddy_page_state[g]) \cap Block(f, k) = {}
  <2>1. Block(f, k) \cap (FreePages \ InFlight) = {}
    BY <1>2, <1>4
  <2> QED BY <2>1, FreeHeadsAvoid DEF IInv
<1>8. FreeHeads' = FreeHeads \cup {f} /\ f \notin FreeHeads
  BY <1>1, <1>2, <1>4, <1>7, AddFreeBlock DEF IInv
<1>9. ASSUME NEW g \in FreeHeads PROVE ~AreBuddies(g, f, k) /\ ~AreBuddies(f, g, k)
  <2>1. g \in Nat /\ g \notin InFlight
    BY HeadBlockIsFree DEF IInv
  <2>2. frame \in InFlight
    BY <1>2, <1>3, <1>4 DEF Block
  <2>3. g + b # f
    BY <2>1, <2>2, <1>2, <1>6
  <2>4. f % BlockSize[k + 1] # 0
    BY <1>3, <1>5, <1>6
  <2> QED BY <2>3, <2>4, <1>6 DEF AreBuddies
<1>10. Merged' /\ \A g \in FreeHeads' : g % BlockSize[buddy_page_state'[g]] = 0
  <2>1. f % BlockSize[k] = 0
    BY <1>5, <1>6
  <2> QED BY <1>1, <1>2, <1>7, <1>8, <1>9, <2>1, OneMoreBlock DEF IInv, Defragmented
<1> QED BY <1>1, <1>5, <1>6, <1>10 DEF Defragmented, Aligned, Added

(* Marking pages in flight allocated. *)
LEMMA AllocReturnDefragmented == ASSUME IInv, Defragmented, AllocReturn PROVE Defragmented'
<1>1. /\ pc = "split" /\ pc' = "idle"
      /\ buddy_page_state' = buddy_mark_block_allocated(frame, order)
  BY DEF AllocReturn, Return
<1>2. InFlight = Block(frame, order) /\ InFlight' = {}
  BY <1>1 DEF InFlight
<1>3. \A p \in Frames : buddy_page_state'[p] =
         IF p \in InFlight THEN BUDDY_PAGE_STATE_ALLOCATED ELSE buddy_page_state[p]
  BY <1>1, <1>2 DEF buddy_mark_block_allocated
<1>4. FreeHeads' = FreeHeads
  BY <1>2, <1>3, StatesDiffer DEF FreeHeads
<1>5. \A g \in FreeHeads : buddy_page_state'[g] = buddy_page_state[g]
  BY <1>3 DEF FreeHeads
<1>6. Merged' /\ \A g \in FreeHeads' : g % BlockSize[buddy_page_state'[g]] = 0
  BY <1>4, <1>5, FewerBlocks DEF Defragmented
<1> QED BY <1>1, <1>6 DEF Defragmented, Aligned, Added

(* The block two buddies make is aligned. *)
LEMMA MergeDefragmented == ASSUME IInv, Defragmented, MergeBuddy PROVE Defragmented'
<1> DEFINE b == buddy_frame(frame, order)
           low == IF frame < b THEN frame ELSE b
<1>1. /\ pc = "coalesce" /\ pc' = "coalesce" /\ order < BUDDY_MAX_ORDER
      /\ b < BUDDY_MAX_PAGES /\ buddy_page_state[b] = order
      /\ buddy_remove_free_block(b, order)
      /\ frame' = low /\ order' = order + 1
  BY DEF MergeBuddy, MayMerge
<1>2. /\ frame \in Nat /\ order \in Orders
      /\ BlockSize[order] \in Nat /\ BlockSize[order] > 0
      /\ BlockSize[order + 1] = 2 * BlockSize[order]
      /\ b \in FreeHeads
      /\ (b = frame + BlockSize[order] \/ b = frame - BlockSize[order])
  BY <1>1, BuddyIsFreeHead
<1>3. low % BlockSize[order + 1] = 0
  <2>1. frame % BlockSize[order] = 0
    BY <1>1 DEF Defragmented, Aligned
  <2>2. CASE frame % BlockSize[order + 1] = 0
    <3>1. b = frame + BlockSize[order]
      BY <1>1, <1>2, <2>1, <2>2, BuddyOfAligned
    <3> QED BY <2>2, <3>1, <1>2
  <2>3. CASE frame % BlockSize[order + 1] # 0
    <3>1. b = frame - BlockSize[order] /\ (frame - BlockSize[order]) % BlockSize[order + 1] = 0
      BY <1>1, <1>2, <2>1, <2>3, BuddyOfAligned
    <3> QED BY <3>1, <1>2
  <2> QED BY <2>2, <2>3
<1> HIDE DEF b
<1>4. b \in Nat
  BY <1>2, HeadBlockIsFree DEF IInv
<1>5. Block(low, order + 1) = Block(frame, order) \cup Block(b, order)
  BY <1>2, <1>4 DEF Block
<1> HIDE DEF low
<1>6. InFlight' = InFlight \cup Block(b, order)
  BY <1>1, <1>5 DEF InFlight, Block
<1>7. FreeHeads' = FreeHeads \ {b} /\ buddy_page_state' = buddy_page_state
  BY <1>1, <1>2, <1>6, TakeBlock DEF IInv, buddy_remove_free_block
<1>8. Merged' /\ \A g \in FreeHeads' : g % BlockSize[buddy_page_state'[g]] = 0
  BY <1>7, FewerBlocks DEF Defragmented
<1> QED BY <1>1, <1>3, <1>8 DEF Defragmented, Aligned, Added

(* The merging loop ends only when the buddy is not on a list. *)
LEMMA FreeReturnDefragmented == ASSUME IInv, Defragmented, FreeReturn PROVE Defragmented'
<1>1. pc = "coalesce" /\ pc' = "idle" /\ ~MayMerge /\ buddy_add_free_block(frame, order)
  BY DEF FreeReturn, Return
<1>2. /\ frame \in Nat /\ order \in Orders /\ frame + BlockSize[order] <= BUDDY_MAX_PAGES
      /\ BlockSize[order] \in Nat /\ BlockSize[order] > 0
  BY <1>1, BlockSizes DEF IInv, TypeOK, InFlightInv
<1>3. frame \in Frames
  BY <1>2, SizesAssumption DEF Frames
<1>4. InFlight = Block(frame, order) /\ InFlight' = {}
  BY <1>1 DEF InFlight
<1>5. \A g \in FreeHeads : Block(g, buddy_page_state[g]) \cap Block(frame, order) = {}
  <2>1. Block(frame, order) \cap (FreePages \ InFlight) = {}
    BY <1>4
  <2> QED BY <2>1, FreeHeadsAvoid DEF IInv
<1>6. FreeHeads' = FreeHeads \cup {frame} /\ frame \notin FreeHeads
  BY <1>1, <1>2, <1>3, <1>4, <1>5, AddFreeBlock DEF IInv
<1>7. frame % BlockSize[order] = 0
  BY <1>1 DEF Defragmented, Aligned
<1>8. ASSUME NEW g \in FreeHeads, buddy_page_state[g] = order
      PROVE  ~AreBuddies(g, frame, order) /\ ~AreBuddies(frame, g, order)
  <2> SUFFICES ASSUME AreBuddies(g, frame, order) \/ AreBuddies(frame, g, order) PROVE FALSE
    OBVIOUS
  <2>1. order < BUDDY_MAX_ORDER
    BY DEF AreBuddies
  <2>2. g \in Nat /\ g < BUDDY_MAX_PAGES
    <3>1. /\ g \in Nat /\ BlockSize[buddy_page_state[g]] \in Nat /\ BlockSize[buddy_page_state[g]] > 0
          /\ g + BlockSize[buddy_page_state[g]] <= BUDDY_MAX_PAGES
      BY HeadBlockIsFree DEF IInv
    <3> QED BY <3>1, SizesAssumption
  <2>3. g = buddy_frame(frame, order)
    <3>1. CASE AreBuddies(frame, g, order)
      BY <3>1, <2>1, <1>2, <1>7, BuddyOfAligned DEF AreBuddies
    <3>2. CASE AreBuddies(g, frame, order)
      <4>1. frame = g + BlockSize[order] /\ g % (2 * BlockSize[order]) = 0
        BY <3>2, <2>1, <1>2, BlockSizes DEF AreBuddies
      <4>2. frame % (2 * BlockSize[order]) # 0
        BY <4>1, <2>2, <1>2, Doubled
      <4>3. buddy_frame(frame, order) = frame - BlockSize[order]
        BY <4>2, <2>1, <1>2, <1>7, BuddyOfAligned
      <4> QED BY <4>1, <4>3, <2>2, <1>2
    <3> QED BY <3>1, <3>2
  <2>4. IsLinked(g, order)
    BY <1>8 DEF IInv, ListsConsistent, IsLinked
  <2> QED BY <2>1, <2>2, <2>3, <2>4, <1>1, <1>8 DEF MayMerge
<1>9. Merged' /\ \A g \in FreeHeads' : g % BlockSize[buddy_page_state'[g]] = 0
  BY <1>1, <1>2, <1>3, <1>5, <1>6, <1>7, <1>8, OneMoreBlock DEF IInv, Defragmented
<1> QED BY <1>1, <1>9 DEF Defragmented, Aligned, Added

(* Every step of buddy.c leaves no two buddies apart. *)
LEMMA NextDefragmented ==
  ASSUME IInv, Separated(memmap), Defragmented, [Next]_vars PROVE Defragmented'
<1>1. CASE UNCHANGED vars
  BY <1>1 DEF vars, tables, locals, Defragmented, Aligned, Merged, Added, AreBuddies,
       FreeHeads, FreePages, InFlight, Block, FramesOf, IsAdded, first_frame, last_frame
<1>2. CASE SkipEntry
  <2>1. /\ pc = "init" /\ pc' = "init" /\ UNCHANGED <<tables, memmap>>
        /\ entry' = entry + 1 /\ entry \in Nat
    BY <1>2 DEF SkipEntry, IInv, TypeOK
  <2>2. InFlight = {} /\ InFlight' = {} /\ FreePages' = FreePages
    BY <2>1 DEF InFlight, FreePages, tables
  <2>3. Aligned' /\ Merged'
    BY <2>1, <2>2, SameDefragmented
  <2>4. \A p \in FreePages : \E i \in 1 .. Len(memmap) : i < entry + 1 /\ p \in FramesOf(memmap[i])
    BY <2>1 DEF Defragmented, Added
  <2>5. \A i : FramesOf(memmap[i])' = FramesOf(memmap[i])
    BY <2>1 DEF FramesOf, IsAdded, first_frame, last_frame
  <2> QED BY <2>1, <2>2, <2>3, <2>4, <2>5 DEF Defragmented, Added
<1>3. CASE AddEntry
  BY <1>3, AddEntryDefragmented
<1>4. CASE buddy_add_range
  BY <1>4, AddRangeDefragmented
<1>5. CASE InitReturn
  <2>1. pc = "init" /\ pc' = "idle" /\ UNCHANGED tables
    BY <1>5 DEF InitReturn, Return
  <2>2. Aligned' /\ Merged'
    BY <2>1, SameDefragmented DEF InFlight
  <2> QED BY <2>1, <2>2 DEF Defragmented, Added
<1>6. CASE SplitBlock
  BY <1>6, SplitDefragmented
<1>7. CASE AllocReturn
  BY <1>7, AllocReturnDefragmented
<1>8. CASE MergeBuddy
  BY <1>8, MergeDefragmented
<1>9. CASE FreeReturn
  BY <1>9, FreeReturnDefragmented
<1>10. ASSUME NEW n \in PageCounts, buddy_alloc_pages(n) PROVE Defragmented'
  BY <1>10, AllocDefragmented
<1>11. ASSUME NEW a \in PhysAddrs, NEW n \in PageCounts, buddy_free_pages(a, n)
       PROVE  Defragmented'
  <2>1. PICK k \in Orders : CallerHolds(frame_of(a), k) /\ order' = k
    BY <1>11 DEF buddy_free_pages
  <2>2. pc = "idle" /\ pc' = "coalesce" /\ frame' = frame_of(a) /\ UNCHANGED tables
    BY <1>11 DEF buddy_free_pages
  <2>3. InFlight = {} /\ InFlight' = Block(frame_of(a), k)
    BY <2>1, <2>2 DEF InFlight, Block
  <2>4. InFlight' \cap FreePages = {} /\ frame_of(a) % BlockSize[k] = 0
    BY <2>1, <2>3, StatesDiffer DEF CallerHolds, FreePages
  <2>5. Aligned' /\ Merged'
    BY <2>1, <2>2, <2>3, <2>4, SameDefragmented
  <2> QED BY <2>2, <2>5 DEF Defragmented, Added
<1> QED BY <1>1, <1>2, <1>3, <1>4, <1>5, <1>6, <1>7, <1>8, <1>9, <1>10, <1>11
        DEF Next, Step, Call, RefuseAlloc, IgnoreFree

(* A free aligned run lies inside one block: by induction on its order,    *)
(* its halves do, and two blocks would be buddies.                         *)
LEMMA RunInBlock ==
  ASSUME IInv, Covered, Aligned, Merged, InFlight = {}, NEW k \in Orders,
         NEW f \in Frames, f % BlockSize[k] = 0, Block(f, k) \subseteq FreePages
  PROVE  \E g \in FreeHeads : buddy_page_state[g] >= k
<1> DEFINE Inside(h, m) == \E g \in FreeHeads : /\ buddy_page_state[g] >= m
                                                /\ Block(h, m) \subseteq Block(g, buddy_page_state[g])
           Holds(m) == \A h \in Frames :
                         h % BlockSize[m] = 0 /\ Block(h, m) \subseteq FreePages => Inside(h, m)
           S == { m \in Orders : Holds(m) }
<1>1. BUDDY_MAX_ORDER \in Nat /\ Orders = 0 .. BUDDY_MAX_ORDER
  BY SizesAssumption DEF Orders
<1>2. 0 \in S
  <2>1. ASSUME NEW h \in Frames, Block(h, 0) \subseteq FreePages PROVE Inside(h, 0)
    <3>1. Block(h, 0) = {h} /\ h \in Nat
      BY BlockSizeAssumption, StatesDiffer DEF Block
    <3>2. PICK g \in FreeHeads : h \in Block(g, buddy_page_state[g])
      BY <2>1, <3>1 DEF Covered
    <3>3. buddy_page_state[g] \in Nat
      BY StatesDiffer DEF FreeHeads
    <3> QED BY <3>1, <3>2, <3>3
  <2> HIDE DEF Inside
  <2> QED BY <1>1, <2>1
<1>3. ASSUME NEW m \in 0 .. (BUDDY_MAX_ORDER - 1), m \in S PROVE m + 1 \in S
  <2> DEFINE b == BlockSize[m]
  <2>1. /\ m \in Orders /\ m \in Nat /\ m + 1 \in Orders /\ m < BUDDY_MAX_ORDER
        /\ b \in Nat /\ b > 0 /\ BlockSize[m + 1] = 2 * b
    <3>1. m \in Orders /\ m \in Nat /\ m < BUDDY_MAX_ORDER
      BY <1>1
    <3> QED BY <3>1, BlockSizes
  <2>2. ASSUME NEW h \in Frames, h % BlockSize[m + 1] = 0, Block(h, m + 1) \subseteq FreePages
        PROVE  Inside(h, m + 1)
    <3> DEFINE u == h + b
    <3>1. h % b = 0 /\ u % b = 0 /\ h \in Nat
      <4>1. h \in Nat /\ h % (2 * b) = 0
        BY <2>1, <2>2, StatesDiffer
      <4> HIDE DEF b
      <4> QED BY <2>1, <4>1, Doubled
    <3>2. /\ Block(h, m) = h .. (h + b - 1) /\ Block(u, m) = u .. (u + b - 1)
          /\ Block(h, m + 1) = h .. (h + 2 * b - 1)
      BY <2>1 DEF Block
    <3> HIDE DEF b, u
    <3>3. u = h + b /\ u \in Nat
      BY <2>1, <3>1 DEF u
    <3>4. /\ Block(h, m) \subseteq Block(h, m + 1) /\ Block(u, m) \subseteq Block(h, m + 1)
          /\ h \in Block(h, m) /\ u \in Block(u, m)
          /\ h + b - 1 \in Block(h, m) /\ u + b - 1 \in Block(u, m)
      BY <2>1, <3>1, <3>2, <3>3
    <3>5. u \in Frames
      BY <2>2, <3>4 DEF FreePages
    <3>6. PICK g \in FreeHeads : /\ buddy_page_state[g] >= m
                                 /\ Block(h, m) \subseteq Block(g, buddy_page_state[g])
      BY <1>3, <2>2, <3>1, <3>4 DEF b
    <3>7. PICK l \in FreeHeads : /\ buddy_page_state[l] >= m
                                 /\ Block(u, m) \subseteq Block(l, buddy_page_state[l])
      BY <1>3, <2>2, <3>1, <3>4, <3>5 DEF b
    <3>8. ASSUME NEW x \in FreeHeads, buddy_page_state[x] >= m, buddy_page_state[x] # m,
                 NEW p \in Block(h, m + 1), p \in Block(x, buddy_page_state[x])
          PROVE  Inside(h, m + 1)
      <4>1. /\ x \in Nat /\ buddy_page_state[x] \in Orders /\ buddy_page_state[x] \in Nat
            /\ x % BlockSize[buddy_page_state[x]] = 0
        BY HeadBlockIsFree, StatesDiffer DEF IInv, Aligned
      <4>2. m + 1 <= buddy_page_state[x] /\ buddy_page_state[x] >= m + 1
        BY <2>1, <3>8, <4>1
      <4>3. Block(h, m + 1) \subseteq Block(x, buddy_page_state[x])
        BY <2>1, <2>2, <3>1, <3>8, <4>1, <4>2, Nested
      <4> QED BY <4>2, <4>3
    <3>9. CASE buddy_page_state[g] # m
      <4>1. h \in Block(h, m + 1) /\ h \in Block(g, buddy_page_state[g])
        BY <3>4, <3>6
      <4> QED BY <3>6, <3>8, <3>9, <4>1
    <3>10. CASE buddy_page_state[l] # m
      <4>1. u \in Block(h, m + 1) /\ u \in Block(l, buddy_page_state[l])
        BY <3>4, <3>7
      <4> QED BY <3>7, <3>8, <3>10, <4>1
    <3>11. CASE buddy_page_state[g] = m /\ buddy_page_state[l] = m
      <4>1. /\ g \in Nat /\ l \in Nat
            /\ Block(g, m) = g .. (g + b - 1) /\ Block(l, m) = l .. (l + b - 1)
        BY HeadBlockIsFree DEF IInv, Block, b
      <4>2. g = h
        <5>1. h \in Block(g, m) /\ h + b - 1 \in Block(g, m)
          BY <3>4, <3>6, <3>11
        <5> QED BY <2>1, <3>1, <4>1, <5>1, SMTT(30) DEF b
      <4>3. l = u
        <5>1. u \in Block(l, m) /\ u + b - 1 \in Block(l, m)
          BY <3>4, <3>7, <3>11
        <5> QED BY <2>1, <3>3, <4>1, <5>1, SMTT(30) DEF b
      <4>4. AreBuddies(g, l, m)
        BY <2>1, <2>2, <3>3, <4>2, <4>3 DEF AreBuddies, b
      <4> QED BY <3>11, <4>4 DEF Merged
    <3> QED BY <3>9, <3>10, <3>11
  <2> HIDE DEF Inside
  <2> QED BY <2>1, <2>2
<1>4. k \in S
  <2> HIDE DEF S
  <2>1. 0 .. BUDDY_MAX_ORDER \subseteq S
    BY <1>1, <1>2, <1>3, UpTo
  <2> QED BY <1>1, <2>1
<1> QED BY <1>4

(* A list of whose order there is a block is not empty. *)
LEMMA ListNotEmpty ==
  ASSUME IInv, Acyclic, NEW g \in FreeHeads PROVE buddy_free_list[buddy_page_state[g]] # Nil
<1> DEFINE j == buddy_page_state[g]
           S == { h \in FreeHeads : buddy_page_state[h] = j }
<1>1. PICK h \in S : buddy_free_prev[h] \notin S
  <2>1. S \in SUBSET FreeHeads /\ S # {}
    OBVIOUS
  <2> HIDE DEF S
  <2> QED BY <2>1 DEF Acyclic
<1>2. buddy_free_prev[h] = Nil
  BY <1>1 DEF IInv, ListsConsistent
<1>3. buddy_free_list[j] = h
  BY <1>2 DEF IInv, ListsConsistent
<1> QED BY <1>3, StatesDiffer DEF FreeHeads

(***************************************************************************)
(* Between calls free memory is never more fragmented than it has to be,   *)
(* for tables of every size: while an aligned run of 2^k pages is free,    *)
(* buddy_alloc_pages finds a block of order k or more, if the usable       *)
(* entries of the memory map do not touch.                                 *)
(***************************************************************************)
THEOREM NotFragmented == Spec => []NeverFragmented
<1> DEFINE Inv == IInv /\ Listed /\ (Separated(memmap) => Defragmented)
<1>1. Init => Inv
  BY InitIInv, InitListed, InitDefragmented
<1>2. ASSUME Inv, [Next]_vars PROVE Inv'
  <2>1. IInv' /\ Listed'
    BY <1>2, NextIInv, NextListed
  <2>2. memmap' = memmap
    BY <1>2 DEF Next, Step, Call, SkipEntry, AddEntry, buddy_add_range, InitReturn, SplitBlock,
         AllocReturn, MergeBuddy, FreeReturn, buddy_alloc_pages, RefuseAlloc, buddy_free_pages,
         IgnoreFree, vars
  <2>3. Separated(memmap)' => Separated(memmap)
    BY <2>2 DEF Separated, FramesOf, IsAdded, first_frame, last_frame
  <2> QED BY <1>2, <2>1, <2>3, NextDefragmented
<1>3. ASSUME Inv PROVE NeverFragmented
  <2> SUFFICES ASSUME pc = "idle", Separated(memmap), NEW k \in Orders, NEW f \in Frames,
                      f % BlockSize[k] = 0, Block(f, k) \subseteq FreePages
               PROVE  \E j \in k .. BUDDY_MAX_ORDER : buddy_free_list[j] # Nil
    BY DEF NeverFragmented
  <2>1. InFlight = {}
    BY DEF InFlight
  <2>2. PICK g \in FreeHeads : buddy_page_state[g] >= k
    BY <1>3, <2>1, RunInBlock DEF Listed, Defragmented
  <2>3. buddy_free_list[buddy_page_state[g]] # Nil
    BY <1>3, ListNotEmpty DEF Listed
  <2>4. buddy_page_state[g] \in k .. BUDDY_MAX_ORDER
    BY <2>2, SizesAssumption DEF FreeHeads, Orders
  <2> QED BY <2>3, <2>4
<1>4. Inv /\ [Next]_vars => Inv'
  BY <1>2
<1>5. Inv => NeverFragmented
  BY <1>3
<1> HIDE DEF Inv
<1> QED BY <1>1, <1>4, <1>5, PTL DEF Spec
==============================================================================
