-------------------------------- MODULE Ioapic --------------------------------
(***************************************************************************)
(* The IOAPIC driver, drivers/interrupt/APIC/ioapic.c: init_IOAPIC from    *)
(* the point where the MADT has been walked (module Acpi), composed with   *)
(* the page pool and the direct map it changes through vmm_map; then the   *)
(* redirection entries, which drivers load in two halves.                  *)
(*                                                                         *)
(* A virtual address of the direct map is named by the frame it maps to    *)
(* when the boot loader has set it up, so phy_to_virt is the identity on   *)
(* names and hhdm is what the addresses mean now.  The direct map may      *)
(* consist of 4 KiB pages or of one large page, of 2 MiB or of 1 GiB, that *)
(* starts at FirstFrame.                                                   *)
(***************************************************************************)
EXTENDS Integers, Sequences, FiniteSets

CONSTANTS
  Ram,             \* page frames in the direct map
  FirstFrame,      \* the first of them
  ioapic_entries,  \* from the MADT: IOAPIC_Address (a frame) and GSI_base
  iso_entries,     \* from the MADT: IRQ_Source and GSI
  Pins,            \* pins of an IOAPIC
  Line,            \* how interrupts are wired: the GSI of each
  ApicIds,         \* what the local APIC's identifier may be
  Irqs, Vectors, Dests  \* what drivers ask for

Byte == 256        \* values of a uint8_t
Chips == DOMAIN ioapic_entries
Frame(c) == ioapic_entries[c].IOAPIC_Address
INVALID == 0       \* BUDDY_INVALID_ADDRESS, and where it leads: nowhere
Masked == [vector |-> 0, mask |-> 1]

(* The registers of an entry have 8-bit indices. *)
ASSUME TypesAssumption ==
  /\ FirstFrame \in Ram /\ INVALID \notin Ram
  /\ ioapic_entries \in Seq([IOAPIC_Address : Nat, GSI_base : Nat])
  /\ iso_entries \in Seq([IRQ_Source : Nat, GSI : Nat])
  /\ Irqs \subseteq Nat /\ Line \in [Irqs -> Nat] /\ ApicIds \subseteq Nat
  /\ Pins \subseteq Nat /\ 0 \in Pins /\ (\A p \in Pins : 16 + p * 2 + 1 < Byte)

(* What the MADT promises of the hardware: every IOAPIC has a frame and    *)
(* global interrupts of its own, and an interrupt is wired to the line its *)
(* override names.                                                         *)
ASSUME WiringAssumption ==
  /\ \A c, d \in Chips : Frame(c) \notin Ram \cup {INVALID} /\ (Frame(c) = Frame(d) => c = d)
  /\ \A c, d \in Chips, p, q \in Pins :
       p + ioapic_entries[c].GSI_base = q + ioapic_entries[d].GSI_base => c = d
  /\ \A irq \in Irqs :
       \/ \E k \in DOMAIN iso_entries : iso_entries[k] = [IRQ_Source |-> irq, GSI |-> Line[irq]]
       \/ Line[irq] = irq /\ (\A k \in DOMAIN iso_entries : iso_entries[k].IRQ_Source # irq)
  /\ \A j, k \in DOMAIN iso_entries :
       iso_entries[j].IRQ_Source = iso_entries[k].IRQ_Source => iso_entries[j] = iso_entries[k]
  /\ \A irq, q \in Irqs : Line[irq] = Line[q] => irq = q

VARIABLES
  free,            \* the pool of buddy.c
  hhdm,            \* the direct map
  hhdm_pages,      \* the size of its pages; chosen by the boot loader
  as_table,        \* frames vmm_map has taken for tables and written to
  ioapic_count,
  virt_Address,
  lapic_id,        \* the identifier of this processor's local APIC
  pc,
  chip, line, pin, redir, \* loadRedir: ioapic_entry, irq, the pin and the entry
  low, high,       \* the two halves of every entry of every IOAPIC
  loaded,          \* history: the entry loaded last for each interrupt, ...
  foreign          \* ... and the entries hit by loads that were not for them

memory  == <<free, hhdm, hhdm_pages, as_table, ioapic_count, virt_Address, lapic_id>>
table   == <<low, high>>
load    == <<chip, line, pin, redir>>
history == <<loaded, foreign>>
vars    == <<memory, pc, load, table, history>>

NoEntry == [low |-> Masked, high |-> 0]   \* after reset

------------------------------------------------------------------------------
(* init_IOAPIC                                                             *)

Init ==
  /\ free \in SUBSET Ram
  /\ hhdm = [f \in Ram |-> f] /\ hhdm_pages \in {"4K", "2M", "1G"} /\ as_table = {}
  /\ ioapic_count \in 0 .. Len(ioapic_entries)
  /\ virt_Address = <<>>
  /\ lapic_id \in ApicIds
  /\ pc = "init_IOAPIC" /\ chip = 0 /\ line = 0 /\ pin = 0 /\ redir = NoEntry
  /\ low = [c \in Chips |-> [p \in Pins |-> Masked]]
  /\ high = [c \in Chips |-> [p \in Pins |-> 0]]
  /\ loaded = [irq \in Irqs |-> NoEntry] /\ foreign = {}

(* Mutant: the page is given back, as if the address were all that is used. *)
buddy_alloc_page_Returned(pool, p) == pool

(* The pool after p was taken from it. *)
buddy_alloc_page(pool, p) == pool \ {p}

(***************************************************************************)
(* An entry for 1 GiB is PRESENT, so vmm_get_next_level takes the page it  *)
(* maps for a page directory and looks for a table in what the page holds, *)
(* which may be anything.  No entry: a page is made the table, if there is *)
(* one.  An entry: whatever page it leads to is written to, or none is     *)
(* there.  (What becomes of a page that is written to is not followed.)    *)
(***************************************************************************)
vmm_get_next_level(pool) ==
  \/ /\ \E t \in pool :
          free' = buddy_alloc_page(pool, t) /\ as_table' = as_table \cup {FirstFrame, t}
     /\ UNCHANGED pc
  \/ pool = {} /\ free' = pool /\ UNCHANGED <<as_table, pc>>
  \/ (\E t \in Ram : as_table' = as_table \cup {t}) /\ free' = pool /\ UNCHANGED pc
  \/ pc' = "fault" /\ free' = pool /\ UNCHANGED as_table

(* vmm_map of an address of the direct map, with pool what is left to      *)
(* allocate from.  All tables are there; an entry for 2 MiB is taken for   *)
(* the last of them, and written to.                                       *)
vmm_map(v, f, pool) ==
  \/ /\ hhdm_pages = "4K"
     /\ hhdm' = [hhdm EXCEPT ![v] = f] /\ free' = pool
     /\ UNCHANGED <<as_table, pc>>
  \/ /\ hhdm_pages = "2M"
     /\ as_table' = as_table \cup {FirstFrame} /\ free' = pool
     /\ UNCHANGED <<hhdm, pc>>
  \/ hhdm_pages = "1G" /\ vmm_get_next_level(pool) /\ UNCHANGED hhdm

phys_address(i) == ioapic_entries[i].IOAPIC_Address

(* Mutant: every address is mapped to the first IOAPIC. *)
MapIoapic_First ==
  /\ pc = "init_IOAPIC" /\ Len(virt_Address) < ioapic_count
  /\ \E p \in free :
       /\ virt_Address' = Append(virt_Address, p)
       /\ vmm_map(p, phys_address(1), buddy_alloc_page(free, p))
  /\ UNCHANGED <<hhdm_pages, ioapic_count, lapic_id, load, table, history>>

MapIoapic ==
  /\ pc = "init_IOAPIC" /\ Len(virt_Address) < ioapic_count
  /\ \E p \in free :
       /\ virt_Address' = Append(virt_Address, p)
       /\ vmm_map(p, phys_address(Len(virt_Address) + 1), buddy_alloc_page(free, p))
  /\ UNCHANGED <<hhdm_pages, ioapic_count, lapic_id, load, table, history>>

(* No page is left.  The address made of BUDDY_INVALID_ADDRESS is below    *)
(* the direct map, and vmm_map has no page for the tables it would need.   *)
MapIoapicFails ==
  /\ pc = "init_IOAPIC" /\ Len(virt_Address) < ioapic_count
  /\ free = {}
  /\ virt_Address' = Append(virt_Address, INVALID)
  /\ UNCHANGED <<free, hhdm, hhdm_pages, as_table, ioapic_count, lapic_id, pc, load, table, history>>

(* The registers at virt_Address[index] can be accessed; where there is no *)
(* IOAPIC it is 0.                                                         *)
Accessible(index) == index < Len(virt_Address) /\ virt_Address[index + 1] # INVALID

(* ioapic_read, twice: the version and the identifier of the first one. *)
ReadVersion ==
  /\ pc = "init_IOAPIC" /\ Len(virt_Address) = ioapic_count
  /\ Accessible(0)
  /\ pc' = "idle"
  /\ UNCHANGED <<memory, load, table, history>>

ReadVersionFaults ==
  /\ pc = "init_IOAPIC" /\ Len(virt_Address) = ioapic_count
  /\ ~Accessible(0)
  /\ pc' = "fault"
  /\ UNCHANGED <<memory, load, table, history>>

------------------------------------------------------------------------------
(* The registers.                                                          *)

(* The first override of an interrupt, or the interrupt itself. *)
Get_iso_gsi(irq) ==
  LET hits == { k \in DOMAIN iso_entries : iso_entries[k].IRQ_Source = irq }
  IN  IF hits = {} THEN irq
      ELSE iso_entries[CHOOSE k \in hits : \A j \in hits : k <= j].GSI

Get_pin(c, irq) == (Get_iso_gsi(irq) - ioapic_entries[c].GSI_base) % Byte

(* Mutant: an entry is taken to be one register. *)
OffsetLower_OneRegister(p) == (16 + p) % Byte

OffsetLower(p) == (16 + p * 2) % Byte
OffsetUpper(p) == (16 + p * 2 + 1) % Byte

(* The identifier is in the high byte of the register, which is cut off    *)
(* before it is shifted.                                                   *)
Get_APICID == ((lapic_id * Byte * Byte * Byte) % Byte) \div (Byte * Byte * Byte)

(* An IOAPIC stores a half of an entry; its other registers are left out. *)
Reg(p) == 16 + 2 * p
ioapic_write(regOff, data, index) ==
  LET f == hhdm[virt_Address[index + 1]]
  IN  /\ low'  = [ c \in Chips |-> [ p \in Pins |->
                     IF f = Frame(c) /\ regOff = Reg(p) THEN data ELSE low[c][p] ] ]
      /\ high' = [ c \in Chips |-> [ p \in Pins |->
                     IF f = Frame(c) /\ regOff = Reg(p) + 1 THEN data ELSE high[c][p] ] ]

writeRedir(vector, mask, dest) ==
  [low |-> [vector |-> vector, mask |-> mask], high |-> dest]

(* The interrupts wired to the pins of an IOAPIC. *)
Owns(c, irq) == Line[irq] - ioapic_entries[c].GSI_base \in Pins

(* The loads that can work: the ones for the first IOAPIC, of an interrupt *)
(* of its own.                                                             *)
Meant(c, irq) == c = 1 /\ Owns(c, irq)

(* The entry of the first IOAPIC that a load changes, if any: the one at   *)
(* the pin the other IOAPIC would have for it, with 128 pins to go round.  *)
Hit(c, irq) == { q \in Pins : (Line[irq] - ioapic_entries[c].GSI_base - q) % 128 = 0 }

(* A driver loads an entry for interrupt irq of IOAPIC c, any it knows of. *)
(* The pin is the one of that IOAPIC; the writes go to the first.          *)
loadRedir(c, irq, r) ==
  /\ pc = "idle"
  /\ chip' = c /\ line' = irq /\ pin' = Get_pin(c, irq) /\ redir' = r
  /\ foreign' = IF Meant(c, irq) THEN foreign ELSE foreign \cup Hit(c, irq)
  /\ pc' = "low"
  /\ UNCHANGED <<memory, table, loaded>>

LoadLow ==
  /\ pc = "low"
  /\ ioapic_write(OffsetLower(pin), redir.low, 0)
  /\ pc' = "high"
  /\ UNCHANGED <<memory, load, history>>

LoadHigh ==
  /\ pc = "high"
  /\ ioapic_write(OffsetUpper(pin), redir.high, 0)
  /\ pc' = "idle" /\ chip' = 0 /\ line' = 0 /\ pin' = 0 /\ redir' = NoEntry
  /\ IF Meant(chip, line)
     THEN /\ loaded' = [loaded EXCEPT ![line] = redir]
          /\ foreign' = foreign \ {Line[line] - ioapic_entries[1].GSI_base}
     ELSE UNCHANGED history
  /\ UNCHANGED memory

Next ==
  \/ MapIoapic \/ MapIoapicFails \/ ReadVersion \/ ReadVersionFaults
  \/ \E c \in 1 .. ioapic_count, irq \in Irqs,
        v \in Vectors, m \in {0, 1}, d \in Dests \cup {Get_APICID} :
       loadRedir(c, irq, writeRedir(v, m, d))
  \/ LoadLow \/ LoadHigh

Spec == Init /\ [][Next]_vars

------------------------------------------------------------------------------
(* Properties.                                                             *)

(* The values the variables may have. *)
TypeOK ==
  /\ free \subseteq Ram /\ as_table \subseteq Ram /\ hhdm_pages \in {"4K", "2M", "1G"}
  /\ hhdm \in [Ram -> Ram \cup { Frame(c) : c \in Chips }]
  /\ virt_Address \in UNION { [1 .. n -> Ram \cup {INVALID}] : n \in 0 .. ioapic_count }
  /\ pc \in {"init_IOAPIC", "idle", "low", "high", "fault"}
  /\ pin \in 0 .. (Byte - 1)
  /\ line \in Irqs \cup {0} /\ chip \in Chips \cup {0}
  /\ low \in [Chips -> [Pins -> [vector : Vectors \cup {0}, mask : {0, 1}]]]
  /\ high \in [Chips -> [Pins -> Dests \cup {0}]]
  /\ foreign \subseteq Pins

(* What ioapic.c says of virt_Address, "ioapic virt addresses" (line 9):   *)
(* each one leads to the registers of the IOAPIC with the same index.      *)
VirtAddresses ==
  \A i \in DOMAIN virt_Address :
    virt_Address[i] # INVALID => hhdm[virt_Address[i]] = phys_address(i)

(***************************************************************************)
(* The variables have their types, and where the direct map has small      *)
(* pages, the addresses init_IOAPIC makes (ioapic.c:62) lead to the        *)
(* IOAPICs; it faults only without an IOAPIC or without a page for its     *)
(* address: neither is looked at before the registers are read.            *)
(***************************************************************************)
VirtIsIoapic ==
  /\ TypeOK
  /\ hhdm_pages = "4K" =>
       /\ VirtAddresses
       /\ pc = "fault" => ioapic_count = 0 \/ virt_Address[1] = INVALID

(***************************************************************************)
(* init_IOAPIC takes addresses out of the direct map, by which buddy.c's   *)
(* other callers reach their pages.  Of every page that can still be given *)
(* out, and of every other page of the kernel, the direct map is intact;   *)
(* and where it has small pages, vmm_map has written into none of them.    *)
(***************************************************************************)
DirectMapIntact ==
  /\ \A f \in Ram : hhdm[f] = f \/ (\E i \in DOMAIN virt_Address : virt_Address[i] = f)
  /\ \A f \in free : hhdm[f] = f
  /\ hhdm_pages = "4K" => as_table = {}

(***************************************************************************)
(* What drivers load into the first IOAPIC for interrupts of its own is in *)
(* the entries of the lines these are wired to, and all other entries are  *)
(* masked, with two exceptions.  Between the two writes of loadRedir its   *)
(* entry is half new, with the new vector and mask and the old             *)
(* destination.  And a load for another IOAPIC, or for an interrupt the    *)
(* IOAPIC does not have, may hit an entry of the first IOAPIC, which then  *)
(* has what was not meant for it until it is loaded again.                 *)
(***************************************************************************)
EntriesAsLoaded ==
  hhdm_pages = "4K" =>
    \A c \in Chips, p \in Pins :
      LET gsi   == p + ioapic_entries[c].GSI_base
          entry == [low |-> low[c][p], high |-> high[c][p]]
      IN  \/ \E irq \in Irqs : Line[irq] = gsi /\ entry = loaded[irq]
          \/ (\A irq \in Irqs : Line[irq] # gsi) /\ entry = NoEntry
          \/ /\ pc = "high" /\ Meant(chip, line) /\ Line[line] = gsi
             /\ entry = [redir EXCEPT !.high = loaded[line].high]
          \/ c = 1 /\ p \in foreign
==============================================================================
