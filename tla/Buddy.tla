-------------------------------- MODULE Buddy --------------------------------
(***************************************************************************)
(* The buddy allocator of physical page frames, kernel/src/memory/buddy.c. *)
(*                                                                         *)
(* The four static arrays of the file are the four buddy_ variables, with  *)
(* their names.  The kernel runs one call at a time, so the locals of the  *)
(* call in progress are variables too, and pc says where it is.  A call    *)
(* is one action when the code has no loop in it, and one action per       *)
(* iteration of its loop otherwise: buddy_init adds one aligned block per  *)
(* step, buddy_alloc_pages splits one block per step, buddy_free_pages     *)
(* merges one pair of buddies per step.                                    *)
(*                                                                         *)
(* UINT32_MAX, the "no frame" of the code, is Nil.                         *)
(***************************************************************************)
EXTENDS Integers, Sequences

CONSTANTS
  BUDDY_MAX_ORDER,    \* the largest order of a block
  BUDDY_MAX_PAGES,    \* the number of page frames in the tables
  BUDDY_PAGE_SIZE,    \* bytes in a page
  FrameWord,          \* 2^32: a frame number is kept in a uint32_t
  MemMaps,            \* memory maps the boot loader may pass
  PageCounts,         \* the sizes callers ask for or release, in pages
  PhysAddrs           \* the addresses callers pass to buddy_free_pages

Orders == 0 .. BUDDY_MAX_ORDER
Frames == 0 .. (BUDDY_MAX_PAGES - 1)
Nil    == -1

(* Page states: an order (the first page of a free block) or one of these. *)
BUDDY_PAGE_STATE_FREE_BODY == 253
BUDDY_PAGE_STATE_ALLOCATED == 254
BUDDY_PAGE_STATE_RESERVED  == 255

PageStates ==
  Orders \cup { BUDDY_PAGE_STATE_FREE_BODY,
                BUDDY_PAGE_STATE_ALLOCATED,
                BUDDY_PAGE_STATE_RESERVED }

(* 1U << order, the pages in a block. *)
BlockSize == [k \in Orders |-> 2^k]

(* The frames of the block of order k at frame f. *)
Block(f, k) == f .. (f + BlockSize[k] - 1)

(***************************************************************************)
(* buddy_init's arithmetic on an entry of the memory map.  A NULL entry    *)
(* and an entry that is not LIMINE_MEMMAP_USABLE are skipped alike, and    *)
(* are both represented by usable = FALSE.                                 *)
(***************************************************************************)
first_frame(e) == (e.base + BUDDY_PAGE_SIZE - 1) \div BUDDY_PAGE_SIZE

(* Mutant: the end of an entry is not cut off at the end of the table. *)
last_frame_Uncapped(e) == (e.base + e.length) \div BUDDY_PAGE_SIZE

last_frame(e) ==
  LET end == (e.base + e.length) \div BUDDY_PAGE_SIZE
  IN  IF end > BUDDY_MAX_PAGES THEN BUDDY_MAX_PAGES ELSE end

(* The entries that reach buddy_add_range. *)
IsAdded(e) ==
  /\ e.usable
  /\ first_frame(e) < (e.base + e.length) \div BUDDY_PAGE_SIZE
  /\ first_frame(e) < BUDDY_MAX_PAGES

FramesOf(e) == IF IsAdded(e) THEN first_frame(e) .. (last_frame(e) - 1) ELSE {}

Entries == [usable : BOOLEAN, base : Nat, length : Nat]

ASSUME SizesAssumption ==
  /\ BUDDY_MAX_ORDER \in Nat
  /\ BUDDY_MAX_ORDER < BUDDY_PAGE_STATE_FREE_BODY
  /\ BUDDY_MAX_PAGES \in Nat \ {0}
  /\ BUDDY_PAGE_SIZE \in Nat \ {0}
  /\ FrameWord \in Nat \ {0}
  /\ PageCounts \subseteq Nat
  /\ PhysAddrs \subseteq Nat

(* Shifting one further left doubles. *)
ASSUME BlockSizeAssumption ==
  /\ BlockSize \in [Orders -> Nat \ {0}]
  /\ BlockSize[0] = 1
  /\ \A k \in 0 .. (BUDDY_MAX_ORDER - 1) : BlockSize[k + 1] = 2 * BlockSize[k]

(* The boot loader never reports a page frame usable in two entries. *)
ASSUME MemMapAssumption ==
  \A m \in MemMaps :
    /\ m \in Seq(Entries)
    /\ \A i, j \in 1 .. Len(m) : i # j => FramesOf(m[i]) \cap FramesOf(m[j]) = {}

VARIABLES
  buddy_page_state,
  buddy_free_list,
  buddy_free_next,
  buddy_free_prev,
  pc,           \* where the call in progress is; "idle" between calls
  memmap,       \* buddy_init: the memory map
  entry,        \* buddy_init: i, counted from 1
  frame,        \* frame, of buddy_add_range, allocate_block and free_pages
  pages,        \* pages, of buddy_add_range: what is left of the range
  order,        \* current_order of allocate_block, order of free_pages
  req_frame,    \* the frame buddy_free_pages was called with
  req_order     \* the order the caller's page count amounts to

tables == <<buddy_page_state, buddy_free_list, buddy_free_next, buddy_free_prev>>
locals == <<frame, pages, order, req_frame, req_order>>
vars   == <<tables, pc, memmap, entry, locals>>

(* A call is over; the values of its locals are gone. *)
Return ==
  /\ pc' = "idle"
  /\ frame' = 0 /\ pages' = 0 /\ order' = 0 /\ req_frame' = 0 /\ req_order' = 0

------------------------------------------------------------------------------
(* The helpers on the tables.                                              *)

(* Mutant: only the first page is marked. *)
buddy_mark_block_free_HeadOnly(f, k) == [buddy_page_state EXCEPT ![f] = k]

(* Mutant: the loop runs one page too far. *)
buddy_mark_block_free_OneMore(f, k) ==
  [p \in Frames |-> IF p = f THEN k
                    ELSE IF p \in f .. (f + BlockSize[k]) THEN BUDDY_PAGE_STATE_FREE_BODY
                    ELSE buddy_page_state[p]]

(* buddy_page_state once the block of order k at f is marked free. *)
buddy_mark_block_free(f, k) ==
  [p \in Frames |-> IF p = f THEN k
                    ELSE IF p \in Block(f, k) THEN BUDDY_PAGE_STATE_FREE_BODY
                    ELSE buddy_page_state[p]]

(* Mutant: the loop runs one page too far. *)
buddy_mark_block_allocated_OneMore(f, k) ==
  [p \in Frames |-> IF p \in f .. (f + BlockSize[k]) THEN BUDDY_PAGE_STATE_ALLOCATED
                    ELSE buddy_page_state[p]]

(* buddy_page_state once the block of order k at f is marked allocated. *)
buddy_mark_block_allocated(f, k) ==
  [p \in Frames |-> IF p \in Block(f, k) THEN BUDDY_PAGE_STATE_ALLOCATED
                    ELSE buddy_page_state[p]]

(* Mutant: the block that was first is not linked back to the new one. *)
buddy_add_free_block_NoBackLink(f, k) ==
  /\ buddy_page_state' = buddy_mark_block_free(f, k)
  /\ buddy_free_prev' = [buddy_free_prev EXCEPT ![f] = Nil]
  /\ buddy_free_next' = [buddy_free_next EXCEPT ![f] = buddy_free_list[k]]
  /\ buddy_free_list' = [buddy_free_list EXCEPT ![k] = f]

(* Mark the block free and push it on the list of its order. *)
buddy_add_free_block(f, k) ==
  LET first == buddy_free_list[k]
  IN  /\ buddy_page_state' = buddy_mark_block_free(f, k)
      /\ buddy_free_prev' = [p \in Frames |-> IF p = f THEN Nil
                                              ELSE IF p = first THEN f
                                              ELSE buddy_free_prev[p]]
      /\ buddy_free_next' = [buddy_free_next EXCEPT ![f] = first]
      /\ buddy_free_list' = [buddy_free_list EXCEPT ![k] = f]

(* buddy_remove_free_block unlinks the block only if this holds of it,    *)
(* and otherwise returns false with the tables as they were.              *)
IsLinked(f, k) ==
  IF buddy_free_prev[f] = Nil THEN buddy_free_list[k] = f
  ELSE buddy_free_next[buddy_free_prev[f]] = f

(* Mutant: removing the first block of a list drops the blocks after it. *)
buddy_remove_free_block_DropsRest(f, k) ==
  LET previous == buddy_free_prev[f]
      next     == buddy_free_next[f]
  IN  /\ buddy_free_list' = IF previous = Nil
                            THEN [buddy_free_list EXCEPT ![k] = Nil]
                            ELSE buddy_free_list
      /\ buddy_free_next' = [p \in Frames |-> IF p = f THEN Nil
                                              ELSE IF p = previous THEN next
                                              ELSE buddy_free_next[p]]
      /\ buddy_free_prev' = [p \in Frames |-> IF p = f THEN Nil
                                              ELSE IF p = next THEN previous
                                              ELSE buddy_free_prev[p]]
      /\ UNCHANGED buddy_page_state

(* Unlink a block that IsLinked from the list of order k. *)
buddy_remove_free_block(f, k) ==
  LET previous == buddy_free_prev[f]
      next     == buddy_free_next[f]
  IN  /\ buddy_free_list' = IF previous = Nil
                            THEN [buddy_free_list EXCEPT ![k] = next]
                            ELSE buddy_free_list
      /\ buddy_free_next' = [p \in Frames |-> IF p = f THEN Nil
                                              ELSE IF p = previous THEN next
                                              ELSE buddy_free_next[p]]
      /\ buddy_free_prev' = [p \in Frames |-> IF p = f THEN Nil
                                              ELSE IF p = next THEN previous
                                              ELSE buddy_free_prev[p]]
      /\ UNCHANGED buddy_page_state

(* Mutant: the block that becomes first keeps its link back. *)
buddy_pop_free_block_KeepsBackLink(f, k) ==
  /\ buddy_free_list[k] = f
  /\ buddy_free_list' = [buddy_free_list EXCEPT ![k] = buddy_free_next[f]]
  /\ buddy_free_next' = [buddy_free_next EXCEPT ![f] = Nil]
  /\ buddy_free_prev' = [buddy_free_prev EXCEPT ![f] = Nil]
  /\ UNCHANGED buddy_page_state

(* Unlink the first block, f, of the list of order k. *)
buddy_pop_free_block(f, k) ==
  LET next == buddy_free_next[f]
  IN  /\ buddy_free_list[k] = f
      /\ buddy_free_list' = [buddy_free_list EXCEPT ![k] = next]
      /\ buddy_free_next' = [buddy_free_next EXCEPT ![f] = Nil]
      /\ buddy_free_prev' = [p \in Frames |-> IF p = f \/ p = next THEN Nil
                                              ELSE buddy_free_prev[p]]
      /\ UNCHANGED buddy_page_state

(* k is the order buddy_order_from_pages(n) stops at. *)
buddy_order_from_pages(n, k) ==
  /\ BlockSize[k] >= n \/ k = BUDDY_MAX_ORDER
  /\ \A j \in 0 .. (k - 1) : BlockSize[j] < n

(* f ^ (1U << k): the other half of the block of order k + 1. *)
buddy_frame(f, k) ==
  IF (f \div BlockSize[k]) % 2 = 0 THEN f + BlockSize[k] ELSE f - BlockSize[k]

------------------------------------------------------------------------------
(* buddy_init.  buddy_reset is the initial state.                          *)

Init ==
  /\ buddy_page_state = [p \in Frames |-> BUDDY_PAGE_STATE_RESERVED]
  /\ buddy_free_list = [k \in Orders |-> Nil]
  /\ buddy_free_next = [p \in Frames |-> Nil]
  /\ buddy_free_prev = [p \in Frames |-> Nil]
  /\ pc = "init"
  /\ memmap \in MemMaps
  /\ entry = 1
  /\ frame = 0 /\ pages = 0 /\ order = 0 /\ req_frame = 0 /\ req_order = 0

SkipEntry ==
  /\ pc = "init"
  /\ entry <= Len(memmap)
  /\ ~IsAdded(memmap[entry])
  /\ entry' = entry + 1
  /\ UNCHANGED <<tables, pc, memmap, locals>>

AddEntry ==
  /\ pc = "init"
  /\ entry <= Len(memmap)
  /\ IsAdded(memmap[entry])
  /\ pc' = "range"
  /\ frame' = first_frame(memmap[entry])
  /\ pages' = last_frame(memmap[entry]) - first_frame(memmap[entry])
  /\ entry' = entry + 1
  /\ UNCHANGED <<tables, memmap, order, req_frame, req_order>>

(* A block of order k at the start of the range is aligned and inside it. *)
Fits(k) == BlockSize[k] <= pages /\ frame % BlockSize[k] = 0

(* One block of buddy_add_range's loop: the largest that Fits. *)
buddy_add_range ==
  /\ pc = "range"
  /\ \E k \in Orders :
       /\ Fits(k)
       /\ \A j \in Orders : Fits(j) => j <= k
       /\ buddy_add_free_block(frame, k)
       /\ frame' = IF pages = BlockSize[k] THEN 0 ELSE frame + BlockSize[k]
       /\ pages' = pages - BlockSize[k]
       /\ pc' = IF pages = BlockSize[k] THEN "init" ELSE "range"
  /\ UNCHANGED <<memmap, entry, order, req_frame, req_order>>

InitReturn ==
  /\ pc = "init"
  /\ entry > Len(memmap)
  /\ Return
  /\ UNCHANGED <<tables, memmap, entry>>

------------------------------------------------------------------------------
(* buddy_alloc_pages                                                       *)

(* The size is one that can be served, and some block is large enough. *)
AcceptsAlloc(n) ==
  /\ n # 0
  /\ n <= BlockSize[BUDDY_MAX_ORDER]
  /\ \E k \in Orders :
       /\ buddy_order_from_pages(n, k)
       /\ \E j \in k .. BUDDY_MAX_ORDER : buddy_free_list[j] # Nil

(* The smallest block that is large enough is taken off its list. *)
buddy_alloc_pages(n) ==
  /\ pc = "idle"
  /\ AcceptsAlloc(n)
  /\ \E k \in Orders, current \in Orders :
       /\ buddy_order_from_pages(n, k)
       /\ k <= current
       /\ buddy_free_list[current] # Nil
       /\ \A j \in k .. (current - 1) : buddy_free_list[j] = Nil
       /\ buddy_pop_free_block(buddy_free_list[current], current)
       /\ frame' = buddy_free_list[current]
       /\ order' = current
       /\ req_order' = k
  /\ pc' = "split"
  /\ UNCHANGED <<memmap, entry, pages, req_frame>>

(* BUDDY_INVALID_ADDRESS is returned and nothing has changed. *)
RefuseAlloc(n) ==
  /\ pc = "idle"
  /\ ~AcceptsAlloc(n)
  /\ UNCHANGED vars

(* Mutant: current_order is not decremented. *)
SplitBlock_SameOrder ==
  /\ pc = "split"
  /\ order > req_order
  /\ buddy_add_free_block(frame + BlockSize[order - 1], order - 1)
  /\ UNCHANGED <<pc, memmap, entry, locals>>

(* One iteration of the splitting loop: the upper half becomes free. *)
SplitBlock ==
  /\ pc = "split"
  /\ order > req_order
  /\ buddy_add_free_block(frame + BlockSize[order - 1], order - 1)
  /\ order' = order - 1
  /\ UNCHANGED <<pc, memmap, entry, frame, pages, req_frame, req_order>>

(* The block left over is the caller's; frame is returned. *)
AllocReturn ==
  /\ pc = "split"
  /\ order = req_order
  /\ buddy_page_state' = buddy_mark_block_allocated(frame, order)
  /\ Return
  /\ UNCHANGED <<buddy_free_list, buddy_free_next, buddy_free_prev, memmap, entry>>

------------------------------------------------------------------------------
(* buddy_free_pages                                                        *)

(* phys_addr / BUDDY_PAGE_SIZE, cut to 32 bits. *)
frame_of(phys_addr) == (phys_addr \div BUDDY_PAGE_SIZE) % FrameWord

(* The call gets past the early returns. *)
AcceptsFree(phys_addr, n) ==
  /\ phys_addr # 0
  /\ n # 0
  /\ phys_addr % BUDDY_PAGE_SIZE = 0
  /\ frame_of(phys_addr) < BUDDY_MAX_PAGES
  /\ buddy_page_state[frame_of(phys_addr)] = BUDDY_PAGE_STATE_ALLOCATED

(***************************************************************************)
(* What the callers in the kernel guarantee of a block they release: they  *)
(* hold all of it, and it starts where a block of its order may start.     *)
(* heap.c releases the blocks it was given, vmm.c single pages.  A page    *)
(* that is not allocated may be released by anyone: the call is ignored.   *)
(***************************************************************************)
CallerHolds(f, k) ==
  /\ Block(f, k) \subseteq { p \in Frames : buddy_page_state[p] = BUDDY_PAGE_STATE_ALLOCATED }
  /\ f % BlockSize[k] = 0

buddy_free_pages(phys_addr, n) ==
  /\ pc = "idle"
  /\ AcceptsFree(phys_addr, n)
  /\ \E k \in Orders :
       /\ buddy_order_from_pages(n, k)
       /\ CallerHolds(frame_of(phys_addr), k)
       /\ order' = k
       /\ req_order' = k
  /\ frame' = frame_of(phys_addr)
  /\ req_frame' = frame_of(phys_addr)
  /\ pc' = "coalesce"
  /\ UNCHANGED <<tables, memmap, entry, pages>>

IgnoreFree(phys_addr, n) ==
  /\ pc = "idle"
  /\ ~AcceptsFree(phys_addr, n)
  /\ UNCHANGED vars

(* Mutant: an if in place of the while, only one merge. *)
MayMerge_Once ==
  /\ order = req_order
  /\ order < BUDDY_MAX_ORDER
  /\ buddy_frame(frame, order) < BUDDY_MAX_PAGES
  /\ buddy_page_state[buddy_frame(frame, order)] = order
  /\ IsLinked(buddy_frame(frame, order), order)

(* The conditions under which the loop goes round. *)
MayMerge ==
  /\ order < BUDDY_MAX_ORDER
  /\ buddy_frame(frame, order) < BUDDY_MAX_PAGES
  /\ buddy_page_state[buddy_frame(frame, order)] = order
  /\ IsLinked(buddy_frame(frame, order), order)

(* One iteration: the buddy leaves its list and joins the block. *)
MergeBuddy ==
  /\ pc = "coalesce"
  /\ MayMerge
  /\ buddy_remove_free_block(buddy_frame(frame, order), order)
  /\ frame' = IF frame < buddy_frame(frame, order) THEN frame
              ELSE buddy_frame(frame, order)
  /\ order' = order + 1
  /\ UNCHANGED <<pc, memmap, entry, pages, req_frame, req_order>>

FreeReturn ==
  /\ pc = "coalesce"
  /\ ~MayMerge
  /\ buddy_add_free_block(frame, order)
  /\ Return
  /\ UNCHANGED <<memmap, entry>>

------------------------------------------------------------------------------
(* The steps a call takes by itself, and the calls.                        *)
Step ==
  \/ SkipEntry \/ AddEntry \/ buddy_add_range \/ InitReturn
  \/ SplitBlock \/ AllocReturn
  \/ MergeBuddy \/ FreeReturn

Call ==
  \/ \E n \in PageCounts : buddy_alloc_pages(n) \/ RefuseAlloc(n)
  \/ \E a \in PhysAddrs, n \in PageCounts : buddy_free_pages(a, n) \/ IgnoreFree(a, n)

Next == Step \/ Call

(* The processor goes on executing a call it has started. *)
Spec == Init /\ [][Next]_vars /\ WF_vars(Step)

------------------------------------------------------------------------------
(* The inductive invariant.                                                *)

(* Pages in the pool, and pages callers hold, as the page states tell. *)
FreePages ==
  { p \in Frames : buddy_page_state[p] \in Orders \cup {BUDDY_PAGE_STATE_FREE_BODY} }

HeldPages == { p \in Frames : buddy_page_state[p] = BUDDY_PAGE_STATE_ALLOCATED }

(* The block the call in progress has taken off the lists, or is freeing. *)
InFlight == IF pc \in {"split", "coalesce"} THEN Block(frame, order) ELSE {}

(* The first pages of the blocks that are on the lists. *)
FreeHeads == { f \in Frames : buddy_page_state[f] \in Orders } \ InFlight

(* The values every variable may have (buddy.c:13-30 and the locals). *)
TypeOK ==
  /\ buddy_page_state \in [Frames -> PageStates]
  /\ buddy_free_list \in [Orders -> Frames \cup {Nil}]
  /\ buddy_free_next \in [Frames -> Frames \cup {Nil}]
  /\ buddy_free_prev \in [Frames -> Frames \cup {Nil}]
  /\ pc \in {"init", "range", "idle", "split", "coalesce"}
  /\ memmap \in MemMaps
  /\ entry \in Nat \ {0}
  /\ frame \in Nat
  /\ pages \in Nat
  /\ order \in Orders
  /\ req_frame \in Nat
  /\ req_order \in Orders

(***************************************************************************)
(* The page table describes disjoint blocks: the pages after the first of  *)
(* a block on a list are all FREE_BODY and inside the table, and none of   *)
(* them belongs to the block in flight.  So buddy_mark_block_free never    *)
(* overruns the table or paints over somebody else's pages.                *)
(***************************************************************************)
BlocksDisjoint ==
  \A f \in FreeHeads :
    /\ f + BlockSize[buddy_page_state[f]] <= BUDDY_MAX_PAGES
    /\ \A p \in Block(f, buddy_page_state[f]) :
         /\ p # f => buddy_page_state[p] = BUDDY_PAGE_STATE_FREE_BODY
         /\ p \notin InFlight

(***************************************************************************)
(* The lists and the page table agree: a list starts at, and links, only   *)
(* first pages of free blocks of its order, its links are mirrored, and a  *)
(* block with no predecessor is the start of its list.  Then               *)
(* buddy_remove_free_block never returns false (buddy.c:104-129).          *)
(***************************************************************************)
ListsConsistent ==
  /\ \A k \in Orders :
       buddy_free_list[k] # Nil =>
         /\ buddy_free_list[k] \in FreeHeads
         /\ buddy_page_state[buddy_free_list[k]] = k
         /\ buddy_free_prev[buddy_free_list[k]] = Nil
  /\ \A f \in FreeHeads :
       /\ buddy_free_next[f] # Nil =>
            /\ buddy_free_next[f] \in FreeHeads
            /\ buddy_page_state[buddy_free_next[f]] = buddy_page_state[f]
            /\ buddy_free_prev[buddy_free_next[f]] = f
       /\ buddy_free_prev[f] # Nil =>
            /\ buddy_free_prev[f] \in FreeHeads
            /\ buddy_page_state[buddy_free_prev[f]] = buddy_page_state[f]
            /\ buddy_free_next[buddy_free_prev[f]] = f
       /\ buddy_free_prev[f] = Nil => buddy_free_list[buddy_page_state[f]] = f

(* What is known of the block in flight: an allocation is cutting down a   *)
(* free block, a release is growing the caller's block by free ones.       *)
InFlightInv ==
  /\ pc \in {"split", "coalesce"} => frame + BlockSize[order] <= BUDDY_MAX_PAGES
  /\ pc = "split" =>
       /\ req_order <= order
       /\ InFlight \subseteq FreePages
  /\ pc = "coalesce" =>
       /\ Block(req_frame, req_order) \subseteq InFlight \cap HeldPages
       /\ InFlight \ Block(req_frame, req_order) \subseteq FreePages

(* While buddy_init runs, what it has not added yet is still reserved. *)
BootInv ==
  LET Reserved == { p \in Frames : buddy_page_state[p] = BUDDY_PAGE_STATE_RESERVED }
  IN  /\ pc = "range" =>
           /\ pages > 0
           /\ frame + pages <= BUDDY_MAX_PAGES
           /\ frame .. (frame + pages - 1) \subseteq Reserved
           /\ \A i \in entry .. Len(memmap) :
                FramesOf(memmap[i]) \cap (frame .. (frame + pages - 1)) = {}
      /\ pc \in {"init", "range"} =>
           \A i \in entry .. Len(memmap) : FramesOf(memmap[i]) \subseteq Reserved

(***************************************************************************)
(* The five together, at every iteration of every loop of buddy.c: no      *)
(* entry of the memory map and no sequence of calls makes the code index   *)
(* its tables outside their bounds, add a page twice, or forget which      *)
(* block it is working on.                                                 *)
(***************************************************************************)
IInv == TypeOK /\ BlocksDisjoint /\ ListsConsistent /\ InFlightInv /\ BootInv

------------------------------------------------------------------------------
(* Further properties.                                                     *)

(* The frames of the list of order k, followed from its start. *)
Chain(k) ==
  LET at[i \in 0 .. BUDDY_MAX_PAGES] ==
        IF i = 0 THEN buddy_free_list[k]
        ELSE IF at[i - 1] = Nil THEN Nil ELSE buddy_free_next[at[i - 1]]
  IN  [i \in 0 .. BUDDY_MAX_PAGES |-> at[i]]

(***************************************************************************)
(* No page is lost: outside the block in flight every free page is in a    *)
(* block that is found by following the list of the block's order from its *)
(* start, and no list is circular.  A dropped link in                      *)
(* buddy_remove_free_block or a cycle left by buddy_add_free_block would   *)
(* make memory unreachable, or make the lists endless.                     *)
(***************************************************************************)
NoLostPages ==
  LET Found(k) == { Chain(k)[i] : i \in 0 .. BUDDY_MAX_PAGES } \ {Nil}
  IN  /\ \A k \in Orders : Chain(k)[BUDDY_MAX_PAGES] = Nil
      /\ FreePages \ InFlight =
           UNION { UNION { Block(f, k) : f \in Found(k) } : k \in Orders }

(***************************************************************************)
(* A release that finds its buddy free always gets it off its list: the    *)
(* false of buddy_remove_free_block, which would stop the merging early    *)
(* (buddy.c:282-284) and leave two buddies apart for ever, does not occur. *)
(***************************************************************************)
RemoveSucceeds ==
  pc = "coalesce" /\ order < BUDDY_MAX_ORDER /\ buddy_frame(frame, order) < BUDDY_MAX_PAGES
      /\ buddy_page_state[buddy_frame(frame, order)] = order
    => IsLinked(buddy_frame(frame, order), order)

(* Entries that are neither adjacent nor overlapping. *)
Separated(m) ==
  \A i, j \in 1 .. Len(m) :
    i # j => \A p \in FramesOf(m[i]), q \in FramesOf(m[j]) : p - q \notin {-1, 0, 1}

(***************************************************************************)
(* Between calls, free memory is never more fragmented than it has to be:  *)
(* while some aligned run of 2^k pages is free, a block of order k or more *)
(* is on a list, so buddy_alloc_pages refuses a request only when no such  *)
(* run is left.  This is what splitting and coalescing are for, and it     *)
(* needs every call before this one to have merged all it could.           *)
(* buddy_init does not merge across entries, so it is claimed for memory   *)
(* maps whose usable entries do not touch.                                 *)
(***************************************************************************)
NeverFragmented ==
  pc = "idle" /\ Separated(memmap) =>
    \A k \in Orders :
      (\E f \in Frames : f % BlockSize[k] = 0 /\ Block(f, k) \subseteq FreePages)
        => \E j \in k .. BUDDY_MAX_ORDER : buddy_free_list[j] # Nil

(* Once buddy_init is done the pages managed stay the same: what is not    *)
(* free is held, through any sequence of splits, merges and refusals.      *)
PagesConserved ==
  [][pc \notin {"init", "range"} => FreePages' \cup HeldPages' = FreePages \cup HeldPages]_vars

(* Every call returns: the splitting and the merging loop come to an end.  *)
CallsReturn == [](pc # "idle" => <>(pc = "idle"))

(* The allocator seen through its page table. *)
PA == INSTANCE PageAllocator
        WITH Lengths <- { BlockSize[k] : k \in Orders },
             free <- FreePages, held <- HeldPages

(* buddy.c implements the page allocator: the only step that makes pages a *)
(* caller's is the return of an allocation, of pages all of which were     *)
(* free until then; the only step that takes pages from callers is the     *)
(* return of a release, and it takes exactly the block released.           *)
ImplementsPageAllocator == PA!Spec
==============================================================================
