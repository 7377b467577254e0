-------------------------------- MODULE Heap --------------------------------
(***************************************************************************)
(* The kernel heap, kernel/src/memory/heap.c, on top of the page           *)
(* allocator.  A small request is served from a slab, a page that holds a  *)
(* header and objects of one size class; a large request gets pages of its *)
(* own.  The kernel calls the heap from one place at a time, so kmalloc    *)
(* and kfree are one action each.                                          *)
(*                                                                         *)
(* mem is what the pages hold, as the heap reads it: it outlives the       *)
(* release of a page.  A page is named by its frame and an address inside  *)
(* it by the offset from its start; 0 is the null address of both kinds,   *)
(* as in the code.  hhdm_request.response is never NULL here: kmain halts  *)
(* before heap_init if it is (main.c:155-158).                             *)
(***************************************************************************)
EXTENDS Integers, Sequences, FiniteSets

CONSTANTS
  Frames,             \* the page frames of the machine
  BUDDY_PAGE_SIZE,
  heap_cache_sizes,   \* object sizes of the classes, ascending
  SlabHeader,         \* sizeof(heap_slab_page_t)
  LargeHeader,        \* sizeof(heap_large_header_t)
  SizeWord,           \* 2^64: a size is a size_t
  RequestSizes,       \* sizes asked for
  Readings            \* of the alignment test in object_index, see there

HEAP_MIN_OBJECT_SIZE == 8
Classes == DOMAIN heap_cache_sizes

(* heap_cache_index: the first class whose objects are large enough, or -1. *)
heap_cache_index(size) ==
  LET rounded == IF size < HEAP_MIN_OBJECT_SIZE THEN HEAP_MIN_OBJECT_SIZE ELSE size
      fits    == { i \in Classes : rounded <= heap_cache_sizes[i] }
  IN  IF fits = {} THEN -1 ELSE CHOOSE i \in fits : \A j \in fits : i <= j

(* Mutant: room for the last object is not checked. *)
total_objects_RoundedUp(size) == (BUDDY_PAGE_SIZE - SlabHeader + size - 1) \div size

(* total_objects of a slab; none if a single object does not fit. *)
total_objects(size) == (BUDDY_PAGE_SIZE - SlabHeader) \div size

(* Where the objects of a class start. *)
ObjectAt(size, i) == SlabHeader + i * size
Offsets ==
  { SlabHeader } \cup
  UNION { { ObjectAt(heap_cache_sizes[c], i) : i \in 0 .. (total_objects(heap_cache_sizes[c]) - 1) }
          : c \in Classes }

(* What a caller has written where a free object keeps its link. *)
ClientData == -1

ASSUME HeapAssumption ==
  /\ Frames \subseteq Nat \ {0} /\ IsFiniteSet(Frames)
  /\ BUDDY_PAGE_SIZE \in Nat \ {0}
  /\ heap_cache_sizes \in Seq(Nat \ {0})
  /\ \A i \in Classes : heap_cache_sizes[i] >= HEAP_MIN_OBJECT_SIZE
  /\ \A i, j \in Classes : i < j => heap_cache_sizes[i] < heap_cache_sizes[j]
  /\ LargeHeader \in Nat \ {0} /\ LargeHeader < SlabHeader
  /\ SlabHeader \in Nat /\ SlabHeader < BUDDY_PAGE_SIZE
  /\ SizeWord \in Nat \ {0}
  /\ Readings \subseteq BOOLEAN

(* The requests whose sum with the header and the rounding fits a size_t. *)
ASSUME SizesFit ==
  RequestSizes \subseteq 0 .. (SizeWord - LargeHeader - BUDDY_PAGE_SIZE)

VARIABLES
  free, held,       \* the page allocator: pool and pages given out
  others,           \* pages held by other parts of the kernel
  partial_pages,    \* heap_caches[c].partial_pages
  mem,              \* what each page holds
  live,             \* objects callers have and have not released
  rejectsAligned    \* the reading of the alignment test; it never changes

vars == <<free, held, others, partial_pages, mem, live, rejectsAligned>>

(* The blocks of buddy.c, up to BUDDY_MAX_ORDER, and what it is shown to do. *)
Lengths == { 2^k : k \in 0 .. 18 }
PA == INSTANCE PageAllocator

(* A page nobody has used yet, or that somebody else has filled. *)
NoHeap ==
  [ magic |-> "none", object_size |-> 0, free_count |-> 0, free_list |-> 0, next |-> 0,
    bitmap |-> {}, word |-> [o \in Offsets |-> 0], page_count |-> 0 ]

------------------------------------------------------------------------------
(* buddy.c, called for pages.                                              *)

(* The block buddy_alloc_pages makes of n pages: a power of two of them. *)
BlockPages(n) ==
  CHOOSE b \in Lengths : n <= b /\ \A c \in Lengths : n <= c => b <= c

(* buddy_free_pages, which ignores a page that is not allocated. *)
buddy_free_pages(f, n) ==
  IF f \in held
  THEN /\ free' = free \cup PA!Run(f, BlockPages(n))
       /\ held' = held \ PA!Run(f, BlockPages(n))
  ELSE UNCHANGED <<free, held>>

------------------------------------------------------------------------------
(* The helpers on slabs.                                                   *)

(***************************************************************************)
(* The index of the object at an offset into a page, or -1.  As written    *)
(* (heap.c:105) an offset that is a multiple of the object size is         *)
(* rejected: rejectsAligned is TRUE.  The callers are written for the      *)
(* opposite test, rejectsAligned FALSE, under which the rest of the file   *)
(* is examined as well.                                                    *)
(***************************************************************************)
object_index(off, size) ==
  LET offset == off - SlabHeader
  IN  IF off < SlabHeader \/ (offset % size = 0) = rejectsAligned
           \/ offset \div size >= total_objects(size)
      THEN -1 ELSE offset \div size

(* A page made a slab of objects of this size: all free, chained in order. *)
(* (Words that are no object of the class are never read; they are 0.)     *)
heap_alloc_slab_page(p, size) ==
  [ mem[p] EXCEPT
      !.magic = "small", !.object_size = size, !.free_count = total_objects(size),
      !.next = 0, !.bitmap = {}, !.free_list = SlabHeader,
      !.word = [ o \in Offsets |->
                   IF \E i \in 0 .. (total_objects(size) - 2) : o = ObjectAt(size, i) THEN o + size
                   ELSE 0 ] ]

(* The pages on a list, in order, by following next from its first page. *)
Walk(memory, first) ==
  LET at[i \in 0 .. Cardinality(Frames)] ==
        IF i = 0 THEN first ELSE IF at[i - 1] = 0 THEN 0 ELSE memory[at[i - 1]].next
  IN  at

OnList(memory, first) == { Walk(memory, first)[i] : i \in 0 .. Cardinality(Frames) } \ {0}

(* heap_remove_slab_from_cache: p leaves the list of class c, if it is on it. *)
heap_remove_slab_from_cache(memory, partial, c, p) ==
  LET list == OnList(memory, partial[c])
      prev == CHOOSE q \in list : memory[q].next = p
  IN  \/ /\ p \notin list
         /\ mem' = memory
         /\ partial_pages' = partial
      \/ /\ p = partial[c] /\ p # 0
         /\ mem' = [memory EXCEPT ![p].next = 0]
         /\ partial_pages' = [partial EXCEPT ![c] = memory[p].next]
      \/ /\ p \in list /\ p # partial[c]
         /\ mem' = [memory EXCEPT ![prev].next = memory[p].next, ![p].next = 0]
         /\ partial_pages' = partial

(* Mutant: the slabs that were on the list are lost. *)
heap_insert_slab_into_cache_DropsRest(memory, c, p) ==
  /\ mem' = memory
  /\ partial_pages' = [partial_pages EXCEPT ![c] = p]

(* heap_insert_slab_into_cache: p becomes the first page of the list. *)
heap_insert_slab_into_cache(memory, c, p) ==
  /\ mem' = [memory EXCEPT ![p].next = partial_pages[c]]
  /\ partial_pages' = [partial_pages EXCEPT ![c] = p]

------------------------------------------------------------------------------
(* kmalloc                                                                 *)

(* heap_init, when the page allocator has been given all its pages. *)
Init ==
  /\ free = Frames
  /\ held = {}
  /\ others = {}
  /\ partial_pages = [c \in Classes |-> 0]
  /\ mem = [p \in Frames |-> NoHeap]
  /\ live = {}
  /\ rejectsAligned \in Readings

(* The object at the head of page p's free list is taken.  m is the page. *)
TakeObject(m, p, partial, c, size) ==
  LET off   == m.free_list
      index == object_index(off, m.object_size)
      taken == [ m EXCEPT !.bitmap = @ \cup {index}, !.free_list = m.word[off],
                          !.word[off] = ClientData, !.free_count = @ - 1 ]
      after == [mem EXCEPT ![p] = taken]
  IN  /\ live' = live \cup { [page |-> p, off |-> off, bytes |-> size] }
      /\ IF taken.free_count = 0
         THEN heap_remove_slab_from_cache(after, partial, c, p)
         ELSE mem' = after /\ partial_pages' = partial

(* What heap_alloc_from_cache does with the first page of the list. *)
AllocFrom(m, p, partial, c, size) ==
  IF m.free_list = 0 \/ object_index(m.free_list, m.object_size) = -1
  THEN mem' = [mem EXCEPT ![p] = m] /\ partial_pages' = partial /\ UNCHANGED live
  ELSE TakeObject(m, p, partial, c, size)

(* A small request, served from a slab that has objects left. *)
heap_alloc_from_cache(size, c) ==
  /\ partial_pages[c] # 0
  /\ AllocFrom(mem[partial_pages[c]], partial_pages[c], partial_pages, c, size)
  /\ UNCHANGED <<free, held, others>>

(* A small request for which a new slab is made. *)
AllocNewSlab(size, c) ==
  /\ partial_pages[c] = 0
  /\ \E p \in free :
       /\ PA!Allocate(p, 1)
       /\ AllocFrom(heap_alloc_slab_page(p, heap_cache_sizes[c]), p,
                    [partial_pages EXCEPT ![c] = p], c, size)
  /\ UNCHANGED others

(* The pages a large request needs: the sum wraps, as a size_t does. *)
PagesFor(size) ==
  ((size + LargeHeader + BUDDY_PAGE_SIZE - 1) % SizeWord) \div BUDDY_PAGE_SIZE

(* The caller of a large block fills all of it but the header. *)
LargeBlock(f, n) ==
  [ p \in Frames |->
      IF p = f THEN [NoHeap EXCEPT !.magic = "large", !.page_count = n]
      ELSE IF p \in PA!Run(f, BlockPages(n)) THEN NoHeap
      ELSE mem[p] ]

AllocLarge(size) ==
  LET n == PagesFor(size)
  IN  \E f \in free :
        /\ n <= 2^18 /\ f % BlockPages(n) = 0
        /\ PA!Allocate(f, BlockPages(n))
        /\ mem' = LargeBlock(f, n)
        /\ live' = live \cup { [page |-> f, off |-> LargeHeader, bytes |-> size] }
        /\ UNCHANGED <<others, partial_pages>>

(* NULL is returned and nothing has changed: the size is zero, or the page *)
(* allocator refused, which for one page means that it has none.           *)
RefuseMalloc(size) ==
  /\ \/ size = 0
     \/ heap_cache_index(size) # -1 /\ partial_pages[heap_cache_index(size)] = 0 /\ free = {}
     \/ heap_cache_index(size) = -1 /\ (PagesFor(size) # 1 \/ free = {})
  /\ UNCHANGED vars

kmalloc(size) ==
  \/ RefuseMalloc(size)
  \/ /\ size # 0 /\ heap_cache_index(size) # -1
     /\ \/ heap_alloc_from_cache(size, heap_cache_index(size))
        \/ AllocNewSlab(size, heap_cache_index(size))
  \/ size # 0 /\ heap_cache_index(size) = -1 /\ AllocLarge(size)

------------------------------------------------------------------------------
(* kfree                                                                   *)

(* The caller gives its pointer up, whatever kfree makes of it. *)
Forget(p, off) == live' = { o \in live : ~(o.page = p /\ o.off = off) }

(* A slab that leaves the heap: its header stays readable in the page, the *)
(* objects are whatever the next holder of the page makes of them.         *)
Discarded(m) == [m EXCEPT !.word = [o \in Offsets |-> ClientData], !.free_list = 0]

(* Mutant: the bit of the object stays set. *)
FreedObject_KeepsBit(m, off, index) ==
  [ m EXCEPT !.word[off] = m.free_list, !.free_list = off, !.free_count = @ + 1 ]

(* The page once the object at off, of this index, is back on its free list. *)
FreedObject(m, off, index) ==
  [ m EXCEPT !.word[off] = m.free_list, !.free_list = off,
             !.free_count = @ + 1, !.bitmap = @ \ {index} ]

(* Mutant: an empty slab is kept. *)
ReturnObject_KeepsSlab(m, p, c) ==
  /\ IF m.free_count = 1
     THEN heap_insert_slab_into_cache([mem EXCEPT ![p] = m], c, p)
     ELSE mem' = [mem EXCEPT ![p] = m] /\ UNCHANGED partial_pages
  /\ UNCHANGED <<free, held>>

(* An empty slab goes back to buddy.c, one that was full gets on its list. *)
ReturnObject(m, p, c) ==
  \/ /\ m.free_count = total_objects(m.object_size)
     /\ heap_remove_slab_from_cache([mem EXCEPT ![p] = Discarded(m)], partial_pages, c, p)
     /\ buddy_free_pages(p, 1)
  \/ /\ m.free_count # total_objects(m.object_size) /\ m.free_count = 1
     /\ heap_insert_slab_into_cache([mem EXCEPT ![p] = m], c, p)
     /\ UNCHANGED <<free, held>>
  \/ /\ m.free_count # total_objects(m.object_size) /\ m.free_count # 1
     /\ mem' = [mem EXCEPT ![p] = m]
     /\ UNCHANGED <<free, held, partial_pages>>

(* Mutant: the bitmap is not consulted. *)
heap_free_small_NoBitmapCheck(p, off) ==
  LET index == object_index(off, mem[p].object_size)
  IN  IF index = -1
      THEN UNCHANGED <<free, held, partial_pages, mem>>
      ELSE ReturnObject(FreedObject(mem[p], off, index), p, heap_cache_index(mem[p].object_size))

(* An object that is not marked allocated is left alone. *)
heap_free_small(p, off) ==
  LET index == object_index(off, mem[p].object_size)
  IN  IF index = -1 \/ index \notin mem[p].bitmap
      THEN UNCHANGED <<free, held, partial_pages, mem>>
      ELSE ReturnObject(FreedObject(mem[p], off, index), p, heap_cache_index(mem[p].object_size))

(* Mutant: the header's page is released and not the rest of the block. *)
heap_free_large_HeaderOnly(p) ==
  buddy_free_pages(p, 1) /\ UNCHANGED <<partial_pages, mem>>

heap_free_large(p) ==
  /\ buddy_free_pages(p, mem[p].page_count)
  /\ UNCHANGED <<partial_pages, mem>>

(* The pages of the large blocks callers have. *)
LargePages ==
  UNION { PA!Run(o.page, BlockPages(PagesFor(o.bytes))) : o \in { x \in live : x.off = LargeHeader } }

SlabPages == (held \ others) \ LargePages

IsLive(p, off) == \E o \in live : o.page = p /\ o.off = off

(***************************************************************************)
(* What callers may pass: a pointer they have, or one they have released   *)
(* before (a double free), as long as its page is not now part of          *)
(* somebody's large block or of another part of the kernel: that would be  *)
(* a use of memory that is no longer theirs.                               *)
(***************************************************************************)
MayPass(p, off) == IsLive(p, off) \/ p \in free \cup SlabPages

kfree(p, off) ==
  /\ MayPass(p, off)
  /\ Forget(p, off)
  /\ \/ mem[p].magic = "small" /\ heap_free_small(p, off)
     \/ mem[p].magic = "large" /\ heap_free_large(p)
     \/ mem[p].magic = "none" /\ UNCHANGED <<free, held, partial_pages, mem>>
  /\ UNCHANGED others

------------------------------------------------------------------------------
(* Other users of the page allocator (vmm.c, ioapic.c), page by page.      *)

(* Make_Page clears the page it gets. *)
Make_Page ==
  \E p \in free :
    /\ PA!Allocate(p, 1)
    /\ others' = others \cup {p}
    /\ mem' = [mem EXCEPT ![p] = NoHeap]
    /\ UNCHANGED <<partial_pages, live>>

OtherFrees ==
  \E p \in others :
    /\ buddy_free_pages(p, 1)
    /\ others' = others \ {p}
    /\ UNCHANGED <<partial_pages, mem, live>>

Next ==
  /\ \/ \E size \in RequestSizes : kmalloc(size)
     \/ \E p \in Frames, off \in Offsets \cup {LargeHeader} : kfree(p, off)
     \/ Make_Page
     \/ OtherFrees
  /\ UNCHANGED rejectsAligned

Spec == Init /\ [][Next]_vars

------------------------------------------------------------------------------
(* Properties.                                                             *)

SlabsOf(c) == { p \in SlabPages : mem[p].object_size = heap_cache_sizes[c] }
OnPartial(c) == OnList(mem, partial_pages[c])

(* The values the variables may have (heap.c:32-54). *)
TypeOK ==
  /\ free \subseteq Frames /\ held \subseteq Frames /\ others \subseteq held
  /\ partial_pages \in [Classes -> Frames \cup {0}]
  /\ DOMAIN mem = Frames
  /\ \A p \in Frames :
       /\ mem[p].magic \in {"none", "small", "large"}
       /\ mem[p].next \in Frames \cup {0}
       /\ mem[p].free_list \in Offsets \cup {0}
       /\ mem[p].free_count \in Nat
       /\ mem[p].word \in [Offsets -> Offsets \cup {0, ClientData}]
  /\ live \in SUBSET [page : Frames, off : Offsets \cup {LargeHeader}, bytes : RequestSizes]

(* The bytes of an object, counted from the start of memory. *)
First(o) == o.page * BUDDY_PAGE_SIZE + o.off
Last(o)  == First(o) + o.bytes - 1

(***************************************************************************)
(* What kmalloc returns is the caller's alone until kfree: two objects     *)
(* share no byte, and an object lies in pages the heap holds, past the     *)
(* header of its slab or block.                                            *)
(***************************************************************************)
ObjectsDisjoint ==
  \A o \in live :
    /\ \A p \in Frames :
         First(o) < (p + 1) * BUDDY_PAGE_SIZE /\ Last(o) >= p * BUDDY_PAGE_SIZE
           => p \in held \ others
    /\ Last(o) \div BUDDY_PAGE_SIZE \in Frames
    /\ o.off >= IF mem[o.page].magic = "small" THEN SlabHeader ELSE LargeHeader
    /\ \A x \in live : x = o \/ Last(x) < First(o) \/ Last(o) < First(x)

(* Following the free list of page p: the offsets of its free objects. *)
FreeChain(p) ==
  LET at[i \in 0 .. mem[p].free_count] ==
        IF i = 0 THEN mem[p].free_list
        ELSE IF at[i - 1] \in Offsets THEN mem[p].word[at[i - 1]] ELSE 0
  IN  at

(***************************************************************************)
(* The variables have their types, and the three records a slab keeps of   *)
(* its free objects agree with each other and with what callers hold: the  *)
(* bitmap marks the live objects, free_count counts the others, and the    *)
(* free list visits each of the others once.                               *)
(***************************************************************************)
SlabsConsistent ==
  /\ TypeOK
  /\ \A c \in Classes : \A p \in SlabsOf(c) :
       LET size == heap_cache_sizes[c]
           n    == total_objects(size)
           freeAt == { FreeChain(p)[i] : i \in 0 .. (mem[p].free_count - 1) }
       IN  n > 0 =>
             /\ { o.off : o \in { x \in live : x.page = p } }
                  = { ObjectAt(size, i) : i \in mem[p].bitmap }
             /\ mem[p].bitmap \subseteq 0 .. (n - 1)
             /\ freeAt = { ObjectAt(size, i) : i \in (0 .. (n - 1)) \ mem[p].bitmap }
             /\ Cardinality(freeAt) = mem[p].free_count
             /\ FreeChain(p)[mem[p].free_count] = 0

(***************************************************************************)
(* The list of a class is not circular and holds exactly its slabs that    *)
(* have a free object: none that is full, none whose page has been given   *)
(* back, and none of another class.  (A slab of the class whose objects do *)
(* not fit a page has no free object and is on its list.)                  *)
(***************************************************************************)
PartialLists ==
  \A c \in Classes :
    /\ Walk(mem, partial_pages[c])[Cardinality(Frames)] = 0
    /\ OnPartial(c) = { p \in SlabsOf(c) : mem[p].free_count > 0
                                             \/ total_objects(heap_cache_sizes[c]) = 0 }

(***************************************************************************)
(* The heap keeps no page for nothing: each is in a large block a caller   *)
(* has, on a partial list, or holds a live object, and a slab without live *)
(* objects is given back.  Where object_index rejects the first object of  *)
(* a slab, so that none can ever be taken, one page per class is kept for  *)
(* ever and no more.                                                       *)
(***************************************************************************)
NoPageLeaked ==
  /\ \A p \in SlabPages :
       (\E c \in Classes : p \in OnPartial(c)) \/ (\E o \in live : o.page = p)
  /\ \A c \in Classes :
       LET idle == { p \in SlabsOf(c) : \A o \in live : o.page # p }
       IN  Cardinality(idle) <= IF object_index(SlabHeader, heap_cache_sizes[c]) = -1 THEN 1 ELSE 0

(* The blocks of pages the heap has from buddy.c: the page of every slab,   *)
(* and the pages of every large object.                                     *)
HeapBlocks ==
  { {p} : p \in SlabPages } \cup
  { PA!Run(o.page, BlockPages(PagesFor(o.bytes))) : o \in { x \in live : x.off = LargeHeader } }

(* One block, or none, comes to the heap or leaves it. *)
MovesOneBlock ==
  \/ HeapBlocks' = HeapBlocks /\ UNCHANGED <<free, held>>
  \/ HeapBlocks' = HeapBlocks /\ others' # others /\ PA!Next
  \/ /\ others' = others
     /\ \E f \in Frames, n \in Lengths :
          \/ PA!Allocate(f, n) /\ HeapBlocks' = HeapBlocks \cup {PA!Run(f, n)}
          \/ /\ PA!Release(f, n) /\ PA!Run(f, n) \in HeapBlocks
             /\ HeapBlocks' = HeapBlocks \ {PA!Run(f, n)}

(***************************************************************************)
(* The heap keeps to what the page allocator gives it.  What a kmalloc     *)
(* takes is one block of free pages, which is the heap's from then on;     *)
(* what a kfree gives back is the whole of one block that kmalloc took,    *)
(* and no longer the heap's: never a part of a block, or more than one, or *)
(* a page that another part of the kernel has.  The calls of the others    *)
(* leave the heap's blocks alone.                                          *)
(***************************************************************************)
UsesPageAllocator == [][MovesOneBlock]_vars

(* kfree of a pointer that is not live changes nothing: the bitmap and the *)
(* page allocator's own check catch a double free.                         *)
DoubleFreeHarmless ==
  [][\A p \in Frames, off \in Offsets \cup {LargeHeader} :
       ~IsLive(p, off) => ~kfree(p, off)]_vars

(* The assertion of main.c:189: a small request made while pages are left  *)
(* is served.                                                              *)
SmallRequestsServed ==
  [][\A size \in RequestSizes :
       /\ size > 0 /\ heap_cache_index(size) # -1
       /\ total_objects(heap_cache_sizes[heap_cache_index(size)]) > 0
       /\ free # {}
       /\ kmalloc(size)
       => live' # live]_vars
==============================================================================
