# Yoix: a formal model of the kernel

Yoix is a small x86-64 kernel started by the Limine boot loader. This directory
holds TLA+ models of its parts, the TLC configurations that check them, and
machine-checked proofs of every safety property that is checked: of the page
allocator, the heap, virtual memory, the interrupt path, the interrupt
controllers, the firmware tables, the descriptor tables and timer, and the
memory functions. Paths are relative to `kernel/src/`.

## The system

### Parts

| Part | State | Operations | What makes it correct |
|---|---|---|---|
| Buddy page allocator, `memory/buddy.c` | `buddy_page_state`, `buddy_free_list`, `buddy_free_next`, `buddy_free_prev` | `buddy_init`, `buddy_alloc_pages`, `buddy_free_pages` | pages given out were free and are nobody else's; a release returns exactly its block; lists and page table agree; no page is lost; free memory is merged whenever it can be |
| Kernel heap, `memory/heap.c` | `heap_caches`, slab headers, object bitmaps and free lists inside the pages | `heap_init`, `kmalloc`, `kfree` | objects do not overlap; the three records of a slab agree; a double free is harmless; empty slabs go back; requests are served while there is memory |
| Virtual memory, `memory/vmm.c` | the page tables, rooted in CR3 | `vmm_map`, `vmm_unmap`, `vmm_get_phys` | the tables are a tree of pages nobody else has; running out of pages half way loses none; the TLB never translates to a freed page |
| Interrupt path, `system/interrupt/idt.c`, `asm/idt.asm` | `idt`, `vectors`, `tick`, the stack and registers during an interrupt | `idt_init`, the stubs, `interrupt_handler` | the interrupted code gets its context back; every interrupt is ended once; none stays pending |
| Local APIC, `system/interrupt/APIC/apic.c` | `g_virt_apic`, the base register, the spurious vector register | `enable_apic`, `disable_apic`, `APIC_EOI` | every write reaches the APIC; it ends up enabled, or disabled, whatever firmware left |
| Boot sequence, `main.c` | - | `kmain`, `memcpy`, `memset`, `memmove`, `memcmp` | every part is set up before it is used; the memory functions do what C says |
| IOAPIC, `drivers/interrupt/APIC/ioapic.c` | `ioapic_entries`, `iso_entries`, addresses, the chip's registers | `init_IOAPIC`, `loadRedir`, ... | entries within their arrays; addresses lead to the chips and to nobody's page; an entry is loaded in the place of its own line |
| ACPI, `drivers/ACPI/acpi.c` | firmware tables, read only | `findTable`, `FindEntries`, `doChecksum` | the walks stay inside the tables, end, and find what is there |
| PIC, `system/interrupt/PIC/pic.c` | masks, in-service registers of two chips | `PIC_remap`, `PIC_sendEOI`, `IRQ_set_mask`, `IRQ_clear_mask`, `PIC_disable`, `pic_get_irr`, `pic_get_isr` | a masked line stays masked, an open one gets through on its own vector; both chips get their EOI |
| PIT, `system/interrupt/irq/pit.c` | the timer's count | `init_pit` | the rate asked for, and never half a count |
| GDT and TSS, `memory/gdt.c` | the descriptor table | `initGdt`, `reloadSegments`, `flush_tss` | the processor decodes what was encoded, and every load succeeds |
| CPU access, `system/cpu/` | - | one instruction each | - |

### How they interact

`kmain` calls `initGdt`, `idt_init` (which lets interrupts in), `buddy_init`,
`heap_init`, `enable_apic` and `init_IOAPIC` in this order and then halts in a
loop that interrupts leave and re-enter. `heap.c`, `vmm.c` and `ioapic.c` take
pages from `buddy.c`; `heap.c` and `vmm.c` return them. `enable_apic` and
`init_IOAPIC` map device registers through `vmm.c`, the latter at addresses of
the direct map that belong to pages it takes from `buddy.c`. `findTable` hands
the MADT, or NULL, to `init_IOAPIC`. Interrupts reach
`interrupt_handler` through the stubs and end in `APIC_EOI`. There is one
processor and one thread; the interrupt handler touches `tick` and the APIC
only, so calls into the allocators are never interleaved with each other. The
concurrency that is left is between the code and the hardware: the processor's
page walker and TLB, and interrupts, which come between any two instructions.

### What is hard

Long sequences of allocator calls that leave a link or a page state behind; the
boundary of the frame table; running out of pages in the middle of a call; the
order of page-table stores, `invlpg` and the release of a page; interrupts
before the APIC can be told of their end; words on the stack that depend on the
vector; devices programmed in several accesses with interrupts in between;
tables whose lengths come from firmware; addresses split over many fields.
`PROJECT.json` lists each hazard with its line and the properties that cover it.

## The modules

| Module | Models | Uses |
|---|---|---|
| `PageAllocator` | what `buddy.c` promises: two sets, free and held | - |
| `Buddy` | `buddy.c` | implements `PageAllocator` |
| `BuddyProofs` | proofs about `Buddy` | `Buddy` |
| `Heap` | `heap.c` | `PageAllocator`, for the pages it takes |
| `Vmm` | `vmm.c` and the TLB | a pool of single pages |
| `Interrupts` | `idt.c`, `idt.asm`, `apic.c`, the order of `kmain` | - |
| `Acpi` | `acpi.c`, and the MADT walk of `ioapic.c`, as `kmain` calls them | - |
| `Ioapic` | the rest of `ioapic.c`, with the page pool and the direct map | the entries `Acpi` finds |
| `LocalApic` | `enable_apic` and `disable_apic` of `apic.c` | a count of pages and missing tables |
| `Pic` | `pic.c`, the two controllers and a handler | - |
| `Pit` | `pit.c` and the timer's channel 0 | - |
| `Descriptors` | `gdt.c`, `gdt.asm`, the gates of `idt.c`, and the processor that reads them | - |
| `Setup` | the tables first, then the timer | `Descriptors`, `Pit` |
| `Startup` | the tables first, then calls for the APIC and the timer, one at a time | `Setup`, `LocalApic` |
| `MemoryOps` | what C says of `memcpy`, `memmove`, `memset`, `memcmp` | - |
| `MemFunctions` | those functions of `main.c` | implements `MemoryOps` |
| `MemFunctionsProofs` | proofs about `MemFunctions` | `MemFunctions` |
| `HeapProofs`, `VmmProofs`, `InterruptsProofs`, `IoapicProofs`, `SetupProofs` | proofs about the module each is named after | that module |
| `ControllerProofs` | proofs about `Pic`, `LocalApic` and `Acpi`, in this order | the three |
| `MCBuddy`, `MCHeap`, `MCVmm`, `MCInterrupts`, `MCAcpi`, `MCIoapic`, `MCPic`, `MCSetup` | the constants of the runs | |

Next to a definition that models code there may be one marked "Mutant": a
plausible mistake in the same code, under which the property named in
`PROJECT.json` fails. Mutants are not used by any specification.

### PageAllocator

`free` and `held` are disjoint sets of frames. `Donate` adds frames nobody has
seen, `Allocate` moves a run of a permitted length from `free` to `held`,
`Release` moves one back.

### Buddy

The four static arrays are variables with their names; `UINT32_MAX` is `Nil`.
`pc`, `frame`, `pages`, `order` and `req_frame`, `req_order` are the locals of
the call in progress. `buddy_init` takes one step per memory map entry
(`SkipEntry`, `AddEntry`) and one per block (`buddy_add_range`);
`buddy_alloc_pages` pops a block, `SplitBlock` is an iteration of the splitting
loop and `AllocReturn` marks and returns; `buddy_free_pages` makes the checks,
`MergeBuddy` is an iteration of the merging loop and `FreeReturn` links the
block. `RefuseAlloc` and `IgnoreFree` are the early returns. The test of
`UNSPLITTABLE_SIZE` (buddy.c:170) never holds for a page of 4096 bytes.

The memory map is an arbitrary sequence of entries with addresses in bytes, so
the rounding of `buddy_init` is part of the model. It is assumed
(`MemMapAssumption`) that no frame is usable in two entries, which the Limine
protocol guarantees. `CallerHolds` is what a caller must respect: a block
released is held in full, at a place where a block of its size may start. Calls
that the code refuses are made with any address and size.

### Heap

A page is a frame number; `mem` holds, per page, the header fields and one
word per object (`word`), which is the free-list link or `ClientData`. The
content of a page survives its release, as the `magic` of a discarded slab does
in the code. `kmalloc` and `kfree` are one action each; `buddy.c` is replaced
by what it is proved to implement. `live` is a history variable: the objects
callers have. `kfree` may be given any pointer a caller has, and any pointer
into a free page or a slab, which covers releasing twice, before and after the
page has gone back; pointers into somebody else's large block are excluded
(`MayPass`). `Make_Page` and `OtherFrees` are other users of the allocator.

`rejectsAligned`, chosen once, is the test of `object_index`. TRUE is the code as
it is (heap.c:105), under which no small object can be allocated at all; FALSE is
the opposite test, which the two callers of `object_index` are written for. With
TRUE alone the slab code below that test could not be examined, so the run `heap`
has both, and its properties are about both: what they say of slabs with live
objects they say of the code with that one test reversed.

### Vmm

A virtual address is the tuple of its four indices; an entry has a frame and a
PRESENT bit. `vmm_map` descends one level per step (`DescendExisting`,
`DescendNew`), may fail at each (`MapFails`), stores the entry and flushes;
`vmm_unmap` clears the entry, flushes and releases. `FillTlb` and `EvictTlb` are
the processor's and may happen between any two steps. Pages from the pool hold
garbage that reads as present entries until they are cleared. A page is mapped
at one address at a time, since `vmm_unmap` gives it back to the pool, and its owner
does not release it while it is mapped.

### Interrupts

The stack is a sequence of named words. `Raise`, `DeliverSpurious` and `Fault`
are the environment; `Deliver` and `Enter` are the processor: it pushes its
frame, an error code for some vectors, and clears IF because the gates are
interrupt gates. `isr_common` is the stub and the pushes, `irq_handler` and
`APIC_EOI` the body, `PopRegisters` and `iretq` the way back. The boot sequence
advances between interrupts. The boot loader may leave the APIC enabled, so
interrupts can come as soon as IF is set; `early` remembers that one came
before the APIC was mapped, in which case the EOI faults (`EoiFaults`).
`CheckResponses` are the five checks at the
start of `kmain`, one of which may end in `hcf`. The `vmm_map` of `enable_apic`
may find no page, in which case the write that follows it faults (`SvrFaults`).

### Acpi

A table is its signature, its `Length` and what follows the header: the tables a
root table lists, the bytes of a MADT. `SkipTable`, `findTable` and
`FindNothing` are the ways an iteration of `findTable` goes; `NextEntry` is an
iteration of `FindEntries`, which `init_IOAPIC` calls for type 1 and, when that
has returned (`IoapicsFound`), for type 2 (`IsosFound`). A NULL from `findTable`
faults in `init_IOAPIC` (`NullMadtFaults`). Nothing calls `doChecksum`; it is
run on the MADT afterwards. Types and lengths are read from the bytes, whose
contents look like entries themselves, so a walk that loses its step finds the
wrong ones. The widths `Byte` and `Word` and the sizes of the headers are
constants, the code's values scaled down in the run. `LaidOut` is what the code
takes for granted of firmware: the length of a root table covers its header and
the pointers, with less than a pointer left over; the entries of a MADT, listed
in `entries` beside its bytes, follow one another without a gap and end with the
table, but nothing is said of what follows an entry of length 0. The code reads
the bytes only; `entries` is what the result is compared with.

### Ioapic

It starts where `Acpi` ends. An address of the direct map is named by the frame
it leads to at boot; `hhdm` is where it leads now. `MapIoapic` is an iteration
of the mapping loop: it takes a page and makes the page's own address lead to
the IOAPIC, so nobody may ever be given that page. `MapIoapicFails` is the
iteration without a page; `BUDDY_INVALID_ADDRESS` plus the offset of the direct
map is an address below it that nothing maps.

`hhdm_pages` is the size of the pages the boot loader built its direct map of.
An entry for 2 MiB is taken for the last table and written to (`as_table`). One
for 1 GiB is taken for a page directory: `vmm_get_next_level` follows whatever
the page holds, which may make it take a page from the pool, write anywhere or
fault. In neither case does the address come to lead to the IOAPIC.

`loadRedir`, `LoadLow` and `LoadHigh` load a redirection entry, for any interrupt
and any IOAPIC. The pin is that of the IOAPIC given, in eight bits; both writes
go to the first one. `Line` is how interrupts are wired, which the overrides of
the MADT describe. `Meant` are the loads that can work, for the first IOAPIC and
an interrupt of its own; `loaded` is what the last of these asked for. Any other
load changes the entry `Hit` names, if there is one, and `foreign` remembers it
until the entry is loaded again.

### LocalApic

The base in the MSR is the bits above 4 GiB and the page below. The shift in
`cpu_get_apic_base` is undefined; `shift32` is one of the two results builds
give (the bits are dropped, or or'ed in at the bottom), chosen once. `missing`
and `free` stand for the tables `vmm_map` has to make and the pages it has for
them. Firmware may have left the APIC off, on, or in x2APIC mode, with any
base and vector.

### Pic

A byte is the set of its one bits. A function of `pic.c` is the sequence of its
port accesses, which `Access` performs one by one; interrupts, real and
spurious, come between any two. `Command` and `Data` are what a controller does
with a byte, `Request` its priority resolver. `Wired` says that both have been
told of the cascade. The handler may call `pic_get_isr`, and ends its interrupt
with `PIC_sendEOI`. The callers modelled use `PIC_remap` and `pic_get_irr` with
interrupts off.

### Pit

`init_pit` is four steps: the division, the command byte, the two bytes of the
count. A command stops the channel until it has a new count.

### Descriptors

Descriptors and addresses are tuples of bytes. `EncodeEntry` and `EncodeTss` are
the calls of `initGdt`; `ReloadCs`, `ReloadSs` and `flush_tss` are loads, with
the checks the processor makes and the bits it sets (accessed, busy); `idt_init`
sets one gate per step. `Setup` composes it with `Pit`: once interrupts are let
in, `init_pit` may be called any number of times. `Startup` adds `enable_apic`
and `disable_apic` to what may be called then.

### MemFunctions

One action per call and per turn of a loop. `memcpy` is called on ranges that
do not overlap, as `restrict` demands; the others on any. A byte given to
`memset` is an `int` and is cut to a byte. `before` is a history variable, the
memory at the time of the call: a caller sees it until the call returns, which
is the refinement mapping to `MemoryOps`.

## The runs

| Run | Instance | States | Result |
|---|---|---|---|
| `buddy` | 9 frames of 2 bytes, orders 0 to 3, 4 memory maps, all sizes around the powers of two | 5 567 | passes |
| `heap` | 3 frames, 3 classes, both tests of `object_index` | 18 627 | passes |
| `heap_small_request` | kmain's own requests, as written | - | violated: finding |
| `vmm` | 5 pool pages, one device, 4 addresses, 2 indices per table | 57 248 | passes |
| `interrupts` | timer, two lines, three exceptions, 4 events | 5 767 | passes |
| `interrupt_frame` | all exceptions the processor defines | - | violated: finding |
| `acpi` | both ACPI versions, every MADT of up to 3 entries of 5 kinds, arrays of 2 | 28 258 | passes |
| `ioapic` | 3 pages, all pools, pages of each size, 2 IOAPICs of 4 pins, 3 interrupts | 737 478 | passes |
| `ioapic_large_pages` | the same | - | violated: finding |
| `pic` | 3 lines with devices, masks of the cascade and of a line | 555 352 | passes |
| `setup` | 4 addresses for the TSS and for the stubs, 13 frequencies; an APIC in 2 pages below and with 2 values above 4 GiB, up to 2 tables and pages missing | 220 438 | passes |
| `mem_functions` | 4 bytes of 2 values, all ranges | 11 724 | passes |

What they check:

- `buddy`: `IInv`, the inductive invariant, at every loop iteration, and its
  parts `BlocksDisjoint` and `ListsConsistent`; `RemoveSucceeds`, that merging
  never stops on stale links; `NoLostPages`, that following the lists from their
  heads finds every free page and ends; `NeverFragmented`, that a request is
  refused only if no free aligned run of its size is left; `PagesConserved`;
  `CallsReturn`; `ImplementsPageAllocator`.
- `heap`: `ObjectsDisjoint` byte by byte; `SlabsConsistent`, `PartialLists` and
  `NoPageLeaked` for the records of the slabs; `UsesPageAllocator`, that every
  step moves at most one whole block, that what `kfree` gives back is all of a
  block of the heap's own, and that other users never move a page of the heap;
  `DoubleFreeHarmless`.
- `vmm`: `TablesPrivate`, `NoPageLost`, `NoStaleTlb`, `OnlyOwnAddress`.
- `interrupts`: `ContextRestored`, `EoiBalanced`, `HangsOnlyOnFault`,
  `InterruptsServed`. `HangsOnlyOnFault` lists all the ways the kernel can come
  to a halt, and that none of them is left once the boot sequence is over, but
  an exception.
- `acpi`: `ReadsInside`, no read past a table and no write past an array;
  `FindsEntries`, that the table is the first of its signature, and the entries
  those of the list it was laid out from; `WalksEnd`.
- `ioapic`: `VirtIsIoapic`, that among 4 KiB pages the addresses lead to the
  IOAPICs, and when reading there faults; `DirectMapIntact`, that only pages which
  can never be given out again lose their place in the direct map;
  `EntriesAsLoaded`, that every entry of every IOAPIC is the one last loaded for
  the interrupt wired to it, or masked, but for the half-new entry between the two
  writes and for the one entry a load that was not meant for it has hit.
- `ioapic_large_pages`: `VirtAddresses`, what `ioapic.c:9` says of
  `virt_Address`, whatever the direct map is made of. Violated: finding 3.
- `pic`: `MaskAsAsked`; `RequestsGetThrough`, with the right vector and with
  nothing left in service, also after spurious interrupts;
  `ReadsRegisterAsked`.
- `setup`: `LoadsSucceed`, also that the task register finds the TSS;
  `GatesLeadToStubs`; `WritesReachApic`, also that enabling and disabling have
  their effect; `FaultsOnlyAtFirst`; `TimerReady`, the rate asked for and never
  half a count.
- `mem_functions`: `Progress`, `ImplementsMemoryOps`.

A module's type invariant is a conjunct of one of these: of `IInv`,
`SlabsConsistent`, `TablesPrivate`, `ContextRestored`, `ReadsInside` and
`VirtIsIoapic`.

### Why the bounds are enough

With nine frames a range holds an aligned block of four pages, so chains of two
splits and two merges happen, as do lists of several blocks with removals from
their start, middle and end, and the last frame has its buddy outside the
table. (Frame 0 is never accepted by `buddy_free_pages`, so blocks that contain
it do not grow back; a longer chain needs sixteen frames, which is out of
TLC's reach. The proofs have no such bound.) The memory maps have ranges that are not page
aligned, that touch, that surround a hole, that cross and that lie beyond the
end of the table, and an empty map. In the heap the real header sizes and the
three largest classes give slabs of three, one and no objects: one that goes
through empty, partial and full, one that goes from full to empty at once, and
the one that cannot serve. Five pages in `vmm` are enough for the three tables of
one address and a page, and run out at every level for the next; the addresses
share a last table, share only upper tables, or lie below a table of the boot
loader. Four events are enough for an interrupt to arrive during another,
with a third pending, and a fault.

Three MADT entries are one more than the arrays hold, of any types in any order,
the last or an earlier one of length 0, and the root tables have lengths that
are no multiple of a pointer. Two IOAPICs and pools of zero to three pages let
the pool run out before the first, before the second and not at all; the
interrupts are one that is overridden, one that is not, and one of the second
IOAPIC, whose pin there is the pin of the first interrupt at the first IOAPIC: a
load for it hits that interrupt's entry. In `pic` the lines are the most
urgent one, the last of each controller, whose vectors are the spurious ones,
and the mask of the cascade shuts out a whole controller. The addresses of
`setup` differ in every byte; its frequencies include 0, both sides of the cap,
of the base frequency and of half of it. The tables and the APIC share nothing, so
all addresses are tried with one state left by firmware and all of those states
with one choice of addresses; the pages for the APIC's tables run out before the
first table, between the two and not at all. In four bytes ranges
overlap by one, two and three bytes in both directions.

Deadlock is checked except where a model ends by design: in the interrupt runs
(`cli; hlt`, and the events are bounded), in `acpi` (a single walk), and in
`ioapic` and `setup`, which stop when the processor has faulted.

### Fairness

`Buddy` assumes weak fairness of the steps of a call in progress, `Interrupts`
of the processor's steps: a processor executes the next instruction, and
delivers a pending interrupt it is open to. `Acpi`, a single sequential walk, has
the same. Nothing is assumed of callers, devices or the running code's
exceptions.

### Findings

1. `memory/heap.c:105` rejects the offsets that are multiples of the object
   size, which all objects have. No request of up to 2048 bytes is served, and
   the first one of a class takes a page for nothing. kmain's test of the heap
   (`main.c:189`, commented out in this commit) asserts the opposite of
   `kmalloc(16)`.
2. `system/interrupt/asm/idt.asm:113` and `:121`: the stubs of vectors 21 and 29
   push an error code although the processor has pushed one, so `struct
   Registers` does not describe the frame (`idt.h:24`). The kernel hangs on
   exceptions anyway, which is why nothing worse follows today.
3. `memory/vmm.c:66` takes the entry of a large page for a table. If the boot
   loader's direct map is made of 2 MiB or 1 GiB pages, `init_IOAPIC` writes a
   page table entry into ordinary memory, `vmm_map` returns true, and
   `virt_Address`, "ioapic virt addresses" (`ioapic.c:9`, `:62`), leads to memory
   that the kernel then reads and writes in place of the IOAPIC.

Other observations, which the models follow and no run is about alone:

- `system/interrupt/APIC/apic.c:41` shifts a 32-bit value by 32. The base of an
  APIC above 4 GiB is lost, and `enable_apic` moves the APIC. The kernel then
  uses it at the new place (`WritesReachApic` holds), unless something else is
  there.
- `drivers/interrupt/APIC/ioapic.c:132` and `:133` write to the first IOAPIC
  whichever `loadRedir` is given. A load for the second never arrives, and may
  overwrite the entry of another interrupt; `EntriesAsLoaded` says which one.
  Nothing calls `loadRedir` yet and no comment says what it does for a second
  IOAPIC. `:116` cuts the local APIC's identifier off before shifting it.
- `system/interrupt/irq/pit.c:16` writes 0x36, mode 3; its comment (`pit.c:13`)
  describes mode 2. Both modes give the same rate, which is what `TimerReady` is
  about; of frequencies above half the base frequency the divisor is 1, which an
  8254 does not allow in either mode.
- `memory/gdt.h:8` says that the accessed bits are set; they are not (`gdt.h:16`,
  `:17`), so loading the segments writes to the GDT. USER_CODE (`gdt.h:18`) is
  the access byte of a data segment and USER_DATA that of a code segment.
- `asm/idt.asm:142`: vector 48 has a descriptor but a stub that only returns; an
  interrupt there would stay in service. No device is set up to raise it.
- `memory/buddy.c:259` cuts a frame number to 32 bits before comparing it with
  the size of the table; no caller passes such an address.

## The proofs

Each theorem has the form `Spec => []P` (or `Spec =>` an action property or
another specification) for a property `P` that a run checks, and holds for every
value of the constants that satisfies the assumptions of the module: any number
of frames, pages, addresses, devices or bytes. (`LocalApic` and `Acpi` call their
specifications `ApicSpec` and `AcpiSpec`, and so on, since one proof module
extends both of them and `Pic`.) A proof module begins with an
inductive invariant, whose conjuncts are named for what they say; one lemma per
action shows that the action keeps it, lemmas about the operators come before
those, and the theorems at the end derive the properties. The inductive
invariants have been model-checked on the instances of the runs as well (of
`InterruptsProofs` all but `Types`, whose sets mix numbers and names).

| Module | Theorem | Property |
|---|---|---|
| `BuddyProofs` | `Invariance` | `IInv` |
| | `BlocksStayDisjoint`, `ListsStayConsistent` | `BlocksDisjoint`, `ListsConsistent` |
| | `RemoveAlwaysSucceeds` | `RemoveSucceeds`: the `break` at buddy.c:283 is never taken |
| | `Implementation` | `ImplementsPageAllocator` |
| | `PagesAreConserved` | `PagesConserved` |
| | `NoPagesAreLost` | `NoLostPages` |
| | `NotFragmented` | `NeverFragmented` |
| `HeapProofs` | `ObjectsDisjointHolds`, `SlabsConsistentHolds`, `PartialListsHolds`, `NoPageLeakedHolds` | `ObjectsDisjoint`, `SlabsConsistent`, `PartialLists`, `NoPageLeaked` |
| | `UsesPageAllocatorHolds`, `DoubleFreeHarmlessHolds` | `UsesPageAllocator`, `DoubleFreeHarmless`, about steps |
| `VmmProofs` | `TablesPrivateHolds`, `NoPageLostHolds`, `NoStaleTlbHolds` | `TablesPrivate`, `NoPageLost`, `NoStaleTlb` |
| | `OnlyOwnAddressHolds` | `OnlyOwnAddress`, an action property |
| `InterruptsProofs` | `ContextRestoredHolds`, `EoiBalancedHolds`, `HangsOnlyOnFaultHolds` | `ContextRestored`, `EoiBalanced`, `HangsOnlyOnFault` |
| `ControllerProofs` | `MaskAsAskedHolds`, `RequestsGetThroughHolds`, `ReadsRegisterAskedHolds` | `MaskAsAsked`, `RequestsGetThrough`, `ReadsRegisterAsked` |
| | `WritesReachApicHolds`, `FaultsOnlyAtFirstHolds` | `WritesReachApic`, `FaultsOnlyAtFirst` |
| | `ReadsInsideHolds`, `FindsEntriesHolds` | `ReadsInside`, `FindsEntries` |
| `IoapicProofs` | `VirtIsIoapicHolds`, `DirectMapIntactHolds`, `EntriesAsLoadedHolds` | `VirtIsIoapic`, `DirectMapIntact`, `EntriesAsLoaded` |
| `SetupProofs` | `LoadsSucceedHolds`, `GatesLeadToStubsHolds`, `TimerReadyHolds` | `LoadsSucceed`, `GatesLeadToStubs`, `TimerReady` |
| `MemFunctionsProofs` | `LoopsKeepProgress`, `LoopsImplementMemoryOps` | `Progress`, `ImplementsMemoryOps` |

### BuddyProofs

The inductive invariant is

    IInv == TypeOK /\ BlocksDisjoint /\ ListsConsistent /\ InFlightInv /\ BootInv

`BlocksDisjoint` alone is not inductive: a merge removes a block it finds by its
page state, so the lists have to agree with the page table
(`ListsConsistent`); in the middle of a call one block is on no list although
its pages still have the states of free blocks, so both speak of the blocks
outside `InFlight`, and `InFlightInv` says what is inside; and while
`buddy_init` runs, the frames it is about to add must still be reserved
(`BootInv`), which needs the assumption on memory maps. Every action is a lemma
of its own: `buddy_add_free_block`, `buddy_remove_free_block` and
`buddy_pop_free_block` are shown once to keep lists and blocks consistent, and
the actions that call them cite those lemmas. `Implementation` maps `free` to
the pages whose state is an order or FREE_BODY and `held` to the ALLOCATED ones.

`NoLostPages` is about following links, which `IInv` does not exclude from going
round in a circle apart from the head of the list. The invariant added is
`Listed`: every nonempty set of listed blocks has one whose predecessor is
outside it (`Acyclic`), and every free page that is not in flight lies in a
listed block (`Covered`). That the chain from the head then meets every block
within as many links as there are frames is a pigeonhole argument. The provers
cannot use the library's induction theorems; `LeastNat` and `UpTo` give
induction over `0 .. N` for sets in place of predicates, from the
well-foundedness of strict inclusion of finite sets.

`NeverFragmented` needs `Defragmented`: blocks start at multiples of their size
(`Aligned`), no two listed blocks are buddies (`Merged`), and the blocks
`buddy_init` has added are the largest that fit, from entries that are passed
(`Added`). If an aligned run is free and no block is as large, the largest block
that meets it has its buddy in the run, which is free, hence split or listed:
both contradict the invariant. The arithmetic of multiples and halves of
powers of two is in lemmas of its own (`Multiple`, `Factor`, `Odd`,
`BuddyOfAligned`, `SizesDivide`, `Nested`). It is claimed, as in the run, for
memory maps whose entries do not touch.

The assumptions are `SizesAssumption`, `BlockSizeAssumption` (shifting doubles:
it is evaluated by TLC, and stated because the provers know nothing of 2^k) and
`MemMapAssumption`.

### HeapProofs

    IndInv == Types /\ Owned /\ Stale /\ Slabs /\ Used /\ Objects /\ Lists

The heap keeps two kinds of singly linked lists: the free objects inside a slab,
and the slabs of a class that have one. Both are treated alike. `List(S, m,
first, nx)` says that there is a numbering of the set `S` by `0 .. m - 1` which
the links follow from `first` to 0. In this form putting an element on a list,
taking the first off and taking one out of the middle (`heap_remove_slab_from_cache`) each
add or remove one number, which is a lemma once for both kinds, and a list is
never circular. `Slabs` says that the free list visits exactly the objects whose
bit is clear, `Lists` that the list of a class visits exactly its slabs with a
free object. What makes these inductive is on the other side of the records:
`Objects`, that a bit is set exactly for an object somebody holds; `Used`, that a
slab is kept only while it has one; and `Stale`, that a page which was given back
and still looks like a slab has no bit set, so that a second `kfree` into it stops
at the bitmap. `Owned` keeps large blocks apart and their headers as written.
`UsesPageAllocator` then needs that the heap's blocks are disjoint and make up
exactly the pages it holds, so that the one `kfree` gives back is whole and its
own. Assumptions: `HeapAssumption` (classes ascend and hold a link,
the headers fit a page) and `SizesFit`.

### VmmProofs

    IndInv == Typed /\ Tree /\ Owned /\ Mappings /\ InCall /\ Cached

The properties speak of the tables between and during calls; what makes them
inductive is where the call in progress is (`InCall`): the table `vmm_map` has a
pointer to is still the one its address leads to at that level, the page it
will store is mapped nowhere else, and the page `vmm_unmap` will release is
mapped nowhere. `Tree` says that no table is reached twice, so a new table or a
cleared entry disturbs one address only, which is the lemma behind
`OnlyOwnAddress`. `Cached` bounds the TLB by the tables, but for the one address
whose entry has been changed and not flushed. Assumption: `VmmAssumption` (pool,
device pages and the boot loader's tables are apart).

### InterruptsProofs

    IndInv == Types /\ Ticks /\ Booting /\ Context /\ InService /\ Exceptions

`Context` says what the stack holds at each step of the path, word by word: the
processor's five words, the error code and vector, the sixteen registers in the
order in which they are popped. `InService` ties the in-service register to that
step, `Booting` the APIC to the point reached in `kmain`, and `Exceptions`
records that an exception never gets past the handler. Assumption:
`VectorsAssumption` (which numbers are devices' and which are exceptions).

### ControllerProofs

    IndInv == Types /\ Booted /\ Kernel /\ Handler

A function of `pic.c` is a sequence of port accesses, so the invariant says where
in its sequence the kernel is, where the handler that interrupted it is, and what
their controllers, masks and values must be there. `From(s, n)` is the rest of a
sequence from its n-th access on; `Kernel` has one disjunct per function
(`InRemap(n)`, `InMask(irq, n)`, ...), `Handler` one for no handler and one for a
handler at access n of its look at the in-service registers and its EOIs.
`Stage` says which of the initialisation words a controller has got, `InService`
what is in service before, between and after the two EOIs, spurious interrupts of
either controller included. A step of the one context must leave alone what the
invariant says of the other: the mask that was read and not written back
(`MaskAsAsked`), and the register that was selected and not read
(`ReadsRegisterAsked`). Assumption: `PicAssumption` (no device at the cascade, the
offsets are multiples of 8 and follow each other, as 32 and 40 do).

The part about the local APIC has

    ApicInv == ApicTypes /\ BaseMoved /\ AddressInHand /\ StaysReached

A call of `enable_apic` relies on what earlier calls did: a base written once is
below 4 GiB, so reading it back avoids the undefined shift (`BaseMoved`), and
registers that were reached once stay mapped (`StaysReached`). Assumption:
`LocalApicAssumption`, the types of the constants.

The part about the walk that finds the IOAPICs has

    WalkInv == LaidOut /\ fw \in Firmwares /\ TypeOK /\ Search /\ Walk

`Search`: no table before `findTable`'s counter has the signature, and a table
found is the first that has it (`SameSignature`: `strncmp` is 0 for equal
signatures only). `Walk`: `FindEntries` has passed the first n entries for some n
(`Passed(n)`), that is, it stands at the offset of the next one, or at the end if
there is none, and holds the first entries of its type among those n. The walk
over the bytes goes from one entry to the next because their lengths are right
(`LaidOut`); an iteration adds the next entry to a count (`CollectStep`), so no
induction over the table is needed. Assumption: `AcpiAssumption`, which is
`LaidOut`.

### IoapicProofs

    IndInv == Types /\ Mapped /\ Intact /\ Loading /\ Entries

`Mapped` says that the page whose address was taken is out of the pool, so the
next iteration takes another address and leaves this one alone; `Intact` is what
remains of the direct map; `Loading` says which pin the load in progress has and
that what it may hit is known, and, between its two writes, that the low half is
new; `Entries` that every entry not hit by another load is the one due. The
arithmetic is in `EightBits`: pin and register number, each cut to eight bits,
name the entry `Hit` does and no other, which for an interrupt of the IOAPIC's
own is its line's (`HitOwn`). Assumptions: `TypesAssumption`, and `WiringAssumption`: IOAPICs have distinct addresses outside RAM and distinct
ranges of interrupts, and the overrides describe how the lines are wired.

### SetupProofs

    TablesInv == Typed /\ Encoded /\ Gates

and `TimerInv` for the timer. `Encoded` gives the bytes of each descriptor as
encoded and, after the load, with the bit the processor has set; that decoding
undoes encoding is shown byte by byte for every address. Assumptions:
`AddressesAssumption` (addresses are eight bytes) and `FrequenciesAssumption`.

### MemFunctionsProofs

`Progress` is inductive together with `TypeOK`: every byte is the one copied,
filled or left alone that the counter says, and, which makes the copying steps
go through, a loop that goes up has its source above its destination or apart
from it, one that goes down has it below. The turns of a loop are stuttering
steps of `MemoryOps`; the step that returns is the whole operation. The only
assumption is `SizeAssumption`, on the types of the constants.

### Only model-checked

`CallsReturn`, `InterruptsServed` and `WalksEnd` are liveness under fairness,
which is out of the provers' reach. All other properties of the passing runs are
proved, of the specifications of the modules they are in; `Startup` only takes
their steps one call at a time. The three properties of the runs that end in a
violation (`heap_small_request`, `interrupt_frame`, `ioapic_large_pages`) are
false of the code.

## Not modelled

- In `vmm.c` the flags other than PRESENT (the missing USER bit of the tables
  among them) and large pages, but for what `Ioapic` says of the direct map.
- `kmalloc` near `SIZE_MAX`, where the sum of heap.c:291 wraps (`SizesFit`
  excludes it); frame 0 as a page of the heap; wrapping of `entry->base +
  entry->length`.
- An NMI that wakes the processor from the `hlt` of an exception.
- Malformed firmware tables (`LaidOut` excludes them): a root table shorter than
  its header, MADT entries that end past the table.
- Trigger mode, polarity and delivery mode of redirection entries, delivery of
  interrupts by the IOAPIC, its registers other than the entries.
- Nested handlers and automatic EOI of the PIC: the kernel's gates clear IF, and
  `PIC_remap` does not ask for it.
- The framebuffer pattern of `kmain`, which is output only; `cpuid`, which
  nothing that runs uses; the 16 and 32-bit port accesses; the Limine header and
  the build files.

## Plan

Done: `PageAllocator`, `Buddy`, `Heap`, `Vmm`, `Interrupts`, `Acpi`, `Ioapic`,
`LocalApic`, `Pic`, `Descriptors`, `Pit`, `Setup`, `Startup`, `MemFunctions`, and
proofs of all their safety properties.

Worth adding when the code grows: loads that arrive at a second IOAPIC, once
`loadRedir` writes there, and the APIC's timer; large pages in `Vmm`, once `vmm.c` looks at the
bit; the heap called from handlers, which would need a lock.
