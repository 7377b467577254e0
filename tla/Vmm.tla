--------------------------------- MODULE Vmm ---------------------------------
(***************************************************************************)
(* The page tables, kernel/src/memory/vmm.c, with the processor's          *)
(* translation cache beside them.                                          *)
(*                                                                         *)
(* A virtual address is the tuple of its four table indices (PML4_INDEX,   *)
(* PDPT_INDEX, PD_INDEX, PT_INDEX): the offset inside the page plays no    *)
(* part.  vmm_map is one action per level it descends, because a page      *)
(* taken for one level stays taken if the next level finds none left; the  *)
(* store into the last table, the invlpg and the release of the page are   *)
(* steps of their own, because the processor may walk the tables between   *)
(* any two of them.                                                        *)
(*                                                                         *)
(* phy_to_virt never returns NULL: kmain halts before the tables are used  *)
(* if there is no hhdm response (main.c:155-158).                          *)
(***************************************************************************)
EXTENDS Naturals, Sequences, FiniteSets

CONSTANTS
  Pool,        \* the page frames the page allocator manages
  Mmio,        \* frames of device registers, which it does not
  Root,        \* the frame in CR3, from the boot loader
  Boot,        \* a third level table from the boot loader
  BootIndex,   \* its index in the root table
  Index,       \* indices into a table
  VAddrs,      \* the virtual addresses the kernel maps
  NoFrame      \* no frame at all

Frames == Pool \cup Mmio \cup {Root, Boot}

ASSUME VmmAssumption ==
  /\ Pool \cap Mmio = {}
  /\ Root \notin Pool \cup Mmio /\ Boot \notin Pool \cup Mmio /\ Root # Boot
  /\ NoFrame \notin Frames
  /\ BootIndex \in Index
  /\ VAddrs \subseteq Index \X Index \X Index \X Index

VARIABLES
  free, held,   \* the page allocator: pool and pages given out
  data,         \* pages callers have taken to map them
  ptab,         \* what every frame holds, read as a table
  tlb,          \* the translations the processor has cached
  pc,           \* where the call in progress is; "idle" between calls
  virt_addr, phys_addr, present,   \* the arguments of the call
  table, level, \* vmm_map: the table reached, and its level, 4 to 1
  old_frame     \* vmm_unmap: the frame of old_entry

alloc == <<free, held>>
call  == <<virt_addr, phys_addr, present, table, level, old_frame>>
vars  == <<alloc, data, ptab, tlb, pc, call>>

Entry(f, p) == [frame |-> f, present |-> p]
ZeroEntry   == Entry(NoFrame, FALSE)
ZeroTable   == [i \in Index |-> ZeroEntry]

(* What is in a page that is no table: anything, such as set PRESENT bits. *)
Garbage(f) == [i \in Index |-> Entry(f, TRUE)]

(* PML4_INDEX, PDPT_INDEX, PD_INDEX or PT_INDEX, by level. *)
IndexAt(v, l) == v[5 - l]

------------------------------------------------------------------------------
(* buddy.c, called for one page.                                           *)

buddy_alloc_page(p) ==
  /\ p \in free
  /\ free' = free \ {p}
  /\ held' = held \cup {p}

(* A frame that is not allocated, device registers among them, is ignored. *)
buddy_free_page(f) ==
  /\ free' = IF f \in held THEN free \cup {f} ELSE free
  /\ held' = held \ {f}

------------------------------------------------------------------------------
(* The processor.                                                          *)

(* vmm_get_existing_level: where the entry leads to, if it is present. *)
vmm_get_existing_level(t, i) ==
  IF t = NoFrame \/ ~ptab[t][i].present THEN NoFrame ELSE ptab[t][i].frame

(* The last table on the way to an address. *)
PageTable(v) ==
  vmm_get_existing_level(
    vmm_get_existing_level(vmm_get_existing_level(Root, v[1]), v[2]), v[3])

(* The frame an address is mapped to: what the processor finds too. *)
vmm_get_phys(v) == vmm_get_existing_level(PageTable(v), v[4])

(* The processor caches a translation it finds, whenever it likes, ... *)
FillTlb(v) ==
  /\ tlb[v] = NoFrame
  /\ vmm_get_phys(v) # NoFrame
  /\ tlb' = [tlb EXCEPT ![v] = vmm_get_phys(v)]
  /\ UNCHANGED <<alloc, data, ptab, pc, call>>

(* ... and drops it when it likes, or when told to. *)
EvictTlb(v) ==
  /\ tlb[v] # NoFrame
  /\ tlb' = [tlb EXCEPT ![v] = NoFrame]
  /\ UNCHANGED <<alloc, data, ptab, pc, call>>

(* Mutant: the cached translation is not dropped. *)
invlpg_tlb_Nothing(v) == UNCHANGED tlb

invlpg_tlb(v) == tlb' = [tlb EXCEPT ![v] = NoFrame]

------------------------------------------------------------------------------
(* The callers.  They map pages they have taken, or device registers.      *)

IsMapped(f) == \E v \in VAddrs : vmm_get_phys(v) = f

Return ==
  /\ pc' = "idle"
  /\ virt_addr' = <<>> /\ phys_addr' = NoFrame /\ present' = FALSE
  /\ table' = NoFrame /\ level' = 0 /\ old_frame' = NoFrame

Init ==
  /\ free = Pool
  /\ held = {}
  /\ data = {}
  /\ ptab = [ f \in Frames |->
                IF f = Root THEN [ZeroTable EXCEPT ![BootIndex] = Entry(Boot, TRUE)]
                ELSE IF f = Boot THEN ZeroTable
                ELSE Garbage(f) ]
  /\ tlb = [v \in VAddrs |-> NoFrame]
  /\ pc = "idle"
  /\ virt_addr = <<>> /\ phys_addr = NoFrame /\ present = FALSE
  /\ table = NoFrame /\ level = 0 /\ old_frame = NoFrame

TakePage ==
  /\ pc = "idle"
  /\ \E p \in free : buddy_alloc_page(p) /\ data' = data \cup {p}
  /\ UNCHANGED <<ptab, tlb, pc, call>>

(* A page that is mapped is released by vmm_unmap, never by its owner. *)
DropPage ==
  /\ pc = "idle"
  /\ \E f \in data : ~IsMapped(f) /\ buddy_free_page(f) /\ data' = data \ {f}
  /\ UNCHANGED <<ptab, tlb, pc, call>>

------------------------------------------------------------------------------
(* vmm_map                                                                 *)

(* The flags are cut down to the PRESENT bit.  A page of a caller is       *)
(* mapped at one address at a time, as vmm_unmap gives it back.            *)
vmm_map(v, f, p) ==
  /\ pc = "idle"
  /\ f \in Mmio \/ (f \in data /\ ~IsMapped(f))
  /\ pc' = "map"
  /\ virt_addr' = v /\ phys_addr' = f /\ present' = p
  /\ table' = Root /\ level' = 4
  /\ UNCHANGED <<alloc, data, ptab, tlb, old_frame>>

(* Mutant: the new table is not cleared. *)
Make_Page_NotCleared(tables, p) == tables

(* Make_Page: a page from the allocator, cleared. *)
Make_Page(tables, p) == [tables EXCEPT ![p] = ZeroTable]

(* vmm_get_next_level finds the entry present and descends. *)
DescendExisting ==
  /\ pc = "map" /\ level > 1
  /\ ptab[table][IndexAt(virt_addr, level)].present
  /\ table' = ptab[table][IndexAt(virt_addr, level)].frame
  /\ level' = level - 1
  /\ UNCHANGED <<alloc, data, ptab, tlb, pc, virt_addr, phys_addr, present, old_frame>>

(* vmm_get_next_level makes the table that is missing. *)
DescendNew ==
  /\ pc = "map" /\ level > 1
  /\ ~ptab[table][IndexAt(virt_addr, level)].present
  /\ \E p \in free :
       /\ buddy_alloc_page(p)
       /\ ptab' = [Make_Page(ptab, p) EXCEPT ![table][IndexAt(virt_addr, level)] = Entry(p, TRUE)]
       /\ table' = p
  /\ level' = level - 1
  /\ UNCHANGED <<data, tlb, pc, virt_addr, phys_addr, present, old_frame>>

(* No page is left for it: vmm_map returns false, the tables it made stay. *)
MapFails ==
  /\ pc = "map" /\ level > 1
  /\ ~ptab[table][IndexAt(virt_addr, level)].present
  /\ free = {}
  /\ Return
  /\ UNCHANGED <<alloc, data, ptab, tlb>>

(* Mutant: the index of another level is used. *)
StoreEntry_PdIndex ==
  /\ pc = "map" /\ level = 1
  /\ ptab' = [ptab EXCEPT ![table][IndexAt(virt_addr, 2)] = Entry(phys_addr, present)]
  /\ pc' = "map_flush"
  /\ UNCHANGED <<alloc, data, tlb, call>>

StoreEntry ==
  /\ pc = "map" /\ level = 1
  /\ ptab' = [ptab EXCEPT ![table][IndexAt(virt_addr, 1)] = Entry(phys_addr, present)]
  /\ pc' = "map_flush"
  /\ UNCHANGED <<alloc, data, tlb, call>>

MapReturn ==
  /\ pc = "map_flush"
  /\ invlpg_tlb(virt_addr)
  /\ Return
  /\ UNCHANGED <<alloc, data, ptab>>

------------------------------------------------------------------------------
(* vmm_unmap                                                               *)

vmm_unmap(v) ==
  /\ pc = "idle"
  /\ vmm_get_phys(v) # NoFrame
  /\ ptab' = [ptab EXCEPT ![PageTable(v)][v[4]] = ZeroEntry]
  /\ old_frame' = vmm_get_phys(v)
  /\ virt_addr' = v
  /\ pc' = "unmap_flush"
  /\ UNCHANGED <<alloc, data, tlb, phys_addr, present, table, level>>

(* A table or the entry is not present: false is returned. *)
UnmapFails(v) ==
  /\ pc = "idle"
  /\ vmm_get_phys(v) = NoFrame
  /\ UNCHANGED vars

UnmapFlush ==
  /\ pc = "unmap_flush"
  /\ invlpg_tlb(virt_addr)
  /\ pc' = "unmap_free"
  /\ UNCHANGED <<alloc, data, ptab, call>>

(* Mutant: the page is not given back. *)
UnmapReturn_KeepsPage ==
  /\ pc = "unmap_free"
  /\ data' = data \ {old_frame}
  /\ Return
  /\ UNCHANGED <<alloc, ptab, tlb>>

UnmapReturn ==
  /\ pc = "unmap_free"
  /\ buddy_free_page(old_frame)
  /\ data' = data \ {old_frame}
  /\ Return
  /\ UNCHANGED <<ptab, tlb>>

------------------------------------------------------------------------------
Step ==
  \/ DescendExisting \/ DescendNew \/ MapFails \/ StoreEntry \/ MapReturn
  \/ UnmapFlush \/ UnmapReturn

Next ==
  \/ Step
  \/ TakePage \/ DropPage
  \/ \E v \in VAddrs : FillTlb(v) \/ EvictTlb(v) \/ vmm_unmap(v) \/ UnmapFails(v)
  \/ \E v \in VAddrs, f \in Pool \cup Mmio, p \in BOOLEAN : vmm_map(v, f, p)

Spec == Init /\ [][Next]_vars

------------------------------------------------------------------------------
(* Properties.                                                             *)

Calls == {"idle", "map", "map_flush", "unmap_flush", "unmap_free"}

(* The values the variables may have. *)
TypeOK ==
  /\ free \subseteq Pool /\ held \subseteq Pool /\ free \cap held = {}
  /\ data \subseteq Pool
  /\ ptab \in [Frames -> [Index -> [frame : Frames \cup {NoFrame}, present : BOOLEAN]]]
  /\ tlb \in [VAddrs -> Frames \cup {NoFrame}]
  /\ pc \in Calls
  /\ virt_addr \in VAddrs \cup {<<>>}
  /\ phys_addr \in Frames \cup {NoFrame}
  /\ present \in BOOLEAN
  /\ table \in Frames \cup {NoFrame}
  /\ level \in 0 .. 4
  /\ old_frame \in Frames \cup {NoFrame}

(* The tables of a level: the root, and what the level above leads to. *)
Children(T) == { f \in Frames : \E t \in T, i \in Index : ptab[t][i] = Entry(f, TRUE) }
TablesAt(l) ==
  CASE l = 4 -> {Root}
    [] l = 3 -> Children({Root})
    [] l = 2 -> Children(Children({Root}))
    [] l = 1 -> Children(Children(Children({Root})))
Tables == UNION { TablesAt(l) : l \in 1 .. 4 }

(***************************************************************************)
(* The variables have their types, and the tables are a tree of private    *)
(* pages: no frame is a table of two levels or of two entries, and no      *)
(* table is in the pool, belongs to a caller or is mapped.  Nothing the    *)
(* kernel maps can then be used to reach a table, and no later allocation  *)
(* hands one out.                                                          *)
(***************************************************************************)
TablesPrivate ==
  /\ TypeOK
  /\ \A l, m \in 1 .. 4 : l # m => TablesAt(l) \cap TablesAt(m) = {}
  /\ \A l \in 2 .. 4 : \A s, t \in TablesAt(l), i, j \in Index :
       ptab[s][i].present /\ ptab[s][i] = ptab[t][j] => s = t /\ i = j
  /\ Tables \cap (free \cup data \cup Mmio) = {}
  /\ \A v \in VAddrs : vmm_get_phys(v) \notin Tables

(***************************************************************************)
(* No page is lost: each page given out is a caller's, or a table that can *)
(* be reached from the root, where a later vmm_map finds it.  This holds   *)
(* also after a vmm_map that ran out of pages half way down.               *)
(***************************************************************************)
NoPageLost == held = data \cup (Tables \cap Pool)

(***************************************************************************)
(* The processor never keeps a translation to a page that is back in the   *)
(* pool, and so might be anybody's.  Between calls it keeps no translation *)
(* that the tables do not have.                                            *)
(***************************************************************************)
NoStaleTlb ==
  \A v \in VAddrs :
    /\ tlb[v] \notin free
    /\ pc = "idle" => tlb[v] \in {NoFrame, vmm_get_phys(v)}

(* vmm_map and vmm_unmap change the translation of no address but their    *)
(* own, by making tables or by what is in a new one.                       *)
OnlyOwnAddress ==
  [][\A v \in VAddrs : vmm_get_phys(v)' # vmm_get_phys(v) =>
        \/ v = virt_addr /\ pc = "map"
        \/ v = virt_addr' /\ pc' = "unmap_flush"]_vars
==============================================================================
