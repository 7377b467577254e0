------------------------------ MODULE Descriptors ------------------------------
(***************************************************************************)
(* The descriptor tables: initGdt (memory/gdt.c, gdt.h, asm/gdt.asm), then *)
(* idt_init (system/interrupt/idt.c), and the processor that decodes what  *)
(* they encode, when segments are loaded and when an interrupt comes.      *)
(*                                                                         *)
(* A 64-bit value is the tuple of its eight bytes, lowest first, and a     *)
(* descriptor the tuple of its bytes in memory, in the order of the packed *)
(* structures.  Only the addresses vary from one build to the next.        *)
(***************************************************************************)
EXTENDS Naturals, Sequences

CONSTANTS
  Addresses   \* where the TSS and the stubs may lie

ASSUME AddressesAssumption == Addresses \subseteq [1 .. 8 -> 0 .. 255]

Bit(b, k) == (b \div 2 ^ k) % 2
SetBit(b, k) == IF Bit(b, k) = 1 THEN b ELSE b + 2 ^ k
Zero(n) == [k \in 1 .. n |-> 0]

(* gdt.h; sizeof(TSS_t) is 108. *)
FLAG_DATA_64 == 12
FLAG_CODE_64 == 10
GDT_COUNT == 5
KERNEL_CODE == 154       \* 0x9A
KERNEL_DATA == 146       \* 0x92
USER_CODE == 242         \* 0xF2
USER_DATA == 250         \* 0xFA
TSS_ACCESS_BYTE == 137   \* 0x89
TssLimit == <<107, 0, 0, 0, 0, 0, 0, 0>>
FlatLimit == <<255, 255, 15, 0, 0, 0, 0, 0>>

VARIABLES
  gdt,       \* the slots of 8 bytes: five entries, and two for entryTss
  gdtr,      \* the limit loaded by lgdt; 0 while the boot loader's is used
  idt, vectors,
  next,      \* the entry of the GDT or IDT to be encoded next
  cs, ss, tr,  \* the descriptors the processor has loaded
  pc,
  tss, stub  \* addresses of gdt.tss and of the stubs

seg  == <<cs, ss, tr>>
addr == <<tss, stub>>
vars == <<gdt, gdtr, idt, vectors, next, seg, pc, addr>>

------------------------------------------------------------------------------
(* gdt.c                                                                   *)

(* The fields of GDT_t in their order: limitL, baseL, baseM, access, flags, *)
(* baseH.                                                                  *)
encodeGDTEntry(base, limit, access_Byte, flags) ==
  << limit[1], limit[2], base[1], base[2], base[3], access_Byte,
     (limit[3] % 16) + ((flags * 16) % 256), base[4] >>

(* Mutant: the high half of the base is left 0. *)
encodeTSSEntry_LowHalf(base, limit, access_Byte, flags) ==
  encodeGDTEntry(base, limit, access_Byte, flags) \o Zero(8)

(* GDT_TSS_t: Tmain, baseTss, Reserved. *)
encodeTSSEntry(base, limit, access_Byte, flags) ==
  encodeGDTEntry(base, limit, access_Byte, flags)
  \o << base[5], base[6], base[7], base[8] >> \o Zero(4)

(* The five calls of initGdt, by entry. *)
GdtEntry(n) ==
  CASE n = 0 -> encodeGDTEntry(Zero(8), Zero(8), 0, 0)
    [] n = 1 -> encodeGDTEntry(Zero(8), FlatLimit, KERNEL_CODE, FLAG_CODE_64)
    [] n = 2 -> encodeGDTEntry(Zero(8), FlatLimit, KERNEL_DATA, FLAG_DATA_64)
    [] n = 3 -> encodeGDTEntry(Zero(8), FlatLimit, USER_DATA, FLAG_DATA_64)
    [] n = 4 -> encodeGDTEntry(Zero(8), FlatLimit, USER_CODE, FLAG_CODE_64)

Init ==
  /\ gdt = [n \in 0 .. 6 |-> Zero(8)] /\ gdtr = 0
  /\ idt = [v \in 0 .. 255 |-> Zero(16)] /\ vectors = {}
  /\ next = 0 /\ pc = "entries"
  /\ cs = Zero(8) /\ ss = Zero(8) /\ tr = Zero(16)
  /\ tss \in Addresses /\ stub \in Addresses

EncodeEntry ==
  /\ pc = "entries" /\ next < GDT_COUNT
  /\ gdt' = [gdt EXCEPT ![next] = GdtEntry(next)]
  /\ next' = next + 1
  /\ UNCHANGED <<gdtr, idt, vectors, seg, pc, addr>>

(* sizeof(GDT_t) * GDT_COUNT + sizeof(GDT_TSS_t) - 1 *)
GdtLimit == 8 * GDT_COUNT + 16 - 1

(* The entry of the TSS, which is cleared (and is, before), and lgdt. *)
EncodeTss ==
  /\ pc = "entries" /\ next = GDT_COUNT
  /\ LET e == encodeTSSEntry(tss, TssLimit, TSS_ACCESS_BYTE, 0)
     IN  gdt' = [gdt EXCEPT ![5] = SubSeq(e, 1, 8), ![6] = SubSeq(e, 9, 16)]
  /\ gdtr' = GdtLimit
  /\ next' = 0 /\ pc' = "reload_cs"
  /\ UNCHANGED <<idt, vectors, seg, addr>>

------------------------------------------------------------------------------
(* The processor: a descriptor's parts, and what it checks of them.        *)

Access(d) == d[6]
Flags(d)  == d[7] \div 16
IsPresent(d) == Bit(Access(d), 7) = 1
IsSegment(d) == Bit(Access(d), 4) = 1
IsCode64(d)  == IsSegment(d) /\ Bit(Access(d), 3) = 1 /\ Bit(Flags(d), 1) = 1 /\ Bit(Flags(d), 2) = 0
IsData(d)    == IsSegment(d) /\ Bit(Access(d), 3) = 0 /\ Bit(Access(d), 1) = 1
Dpl(d)       == (Access(d) \div 32) % 4
Base(d)      == << d[3], d[4], d[5], d[8] >>
Limit(d)     == << d[1], d[2], d[7] % 16 >>

InTable(sel, size) == sel + size - 1 <= gdtr

(* A segment that is loaded is marked as accessed, in the table. *)
Accessed(d) == [d EXCEPT ![6] = SetBit(@, 0)]

(* reloadSegments: CS is 0x08; then DS, ES, FS, GS and SS are 0x10. *)
ReloadCs ==
  /\ pc = "reload_cs"
  /\ LET d == gdt[1] IN
       IF InTable(8, 8) /\ IsPresent(d) /\ IsCode64(d) /\ Dpl(d) = 0
       THEN gdt' = [gdt EXCEPT ![1] = Accessed(d)] /\ cs' = Accessed(d) /\ pc' = "reload_ss"
       ELSE pc' = "fault" /\ UNCHANGED <<gdt, cs>>
  /\ UNCHANGED <<gdtr, idt, vectors, next, ss, tr, addr>>

ReloadSs ==
  /\ pc = "reload_ss"
  /\ LET d == gdt[2] IN
       IF InTable(16, 8) /\ IsPresent(d) /\ IsData(d) /\ Dpl(d) = 0
       THEN gdt' = [gdt EXCEPT ![2] = Accessed(d)] /\ ss' = Accessed(d) /\ pc' = "flush_tss"
       ELSE pc' = "fault" /\ UNCHANGED <<gdt, ss>>
  /\ UNCHANGED <<gdtr, idt, vectors, next, cs, tr, addr>>

(* ltr 0x28: an available TSS, which is marked as busy. *)
flush_tss ==
  /\ pc = "flush_tss"
  /\ LET d == gdt[5] IN
       IF InTable(40, 16) /\ IsPresent(d) /\ Access(d) % 32 = 9
       THEN /\ gdt' = [gdt EXCEPT ![5][6] = SetBit(@, 1)]
            /\ tr' = d \o gdt[6] /\ pc' = "idt_init"
       ELSE pc' = "fault" /\ UNCHANGED <<gdt, tr>>
  /\ UNCHANGED <<gdtr, idt, vectors, next, cs, ss, addr>>

------------------------------------------------------------------------------
(* idt.c                                                                   *)

(* isr_stub_table: the stubs follow each other. *)
isr_stub_table(v) == [stub EXCEPT ![1] = v]

(* Mutant: the middle of the address is shifted too far. *)
idt_set_descriptor_Shift(isr, flags) ==
  << isr[1], isr[2], 8, 0, 0, flags, isr[5], isr[6],
     isr[5], isr[6], isr[7], isr[8] >> \o Zero(4)

(* isr_low, kernel_cs, ist, attributes, isr_mid, isr_high, reserved. *)
idt_set_descriptor(isr, flags) ==
  << isr[1], isr[2], 8, 0, 0, flags, isr[3], isr[4],
     isr[5], isr[6], isr[7], isr[8] >> \o Zero(4)

(* idtr.limit *)
IdtLimit == 16 * 256 - 1

(* 0x8E = 142.  The loop sets 0 to 48, and 255 follows. *)
idt_init ==
  /\ pc = "idt_init"
  /\ LET v == IF next < 49 THEN next ELSE 255
     IN  /\ idt' = [idt EXCEPT ![v] = idt_set_descriptor(isr_stub_table(v), 142)]
         /\ vectors' = vectors \cup {v}
         /\ next' = next + 1
         /\ pc' = IF v = 255 THEN "done" ELSE pc     \* lidt, sti
  /\ UNCHANGED <<gdt, gdtr, seg, addr>>

Next == EncodeEntry \/ EncodeTss \/ ReloadCs \/ ReloadSs \/ flush_tss \/ idt_init

Spec == Init /\ [][Next]_vars

------------------------------------------------------------------------------
(* Properties.                                                             *)

(***************************************************************************)
(* Every selector the kernel loads names a descriptor inside the limit, of *)
(* the kind and privilege the instruction asks for, wherever the linker    *)
(* has put the TSS: initGdt never faults, when there is no IDT yet.  The   *)
(* task register then finds the TSS: all 64 bits of its address and its    *)
(* limit, from a descriptor whose fields are split over six places.        *)
(***************************************************************************)
LoadsSucceed ==
  /\ pc # "fault"
  /\ pc = "idt_init" =>
       /\ Base(tr) \o SubSeq(tr, 9, 12) = tss
       /\ Limit(tr) = <<107, 0, 0>>
       /\ Bit(Access(gdt[5]), 1) = 1

(***************************************************************************)
(* An interrupt on a vector in vectors[] is taken by an interrupt gate to  *)
(* its own stub, through a code segment of the kernel that is in the GDT,  *)
(* inside the limit of the IDT; no other vector has a gate.                *)
(***************************************************************************)
GatesLeadToStubs ==
  \A v \in 0 .. 255 :
    IF v \in vectors
    THEN LET g == idt[v]
         IN  /\ <<g[1], g[2], g[7], g[8], g[9], g[10], g[11], g[12]>> = isr_stub_table(v)
             /\ g[3] + 256 * g[4] = 8 /\ IsPresent(gdt[1]) /\ IsCode64(gdt[1])
             /\ 16 * v + 15 <= IdtLimit
             /\ g[5] = 0 /\ Bit(g[6], 7) = 1 /\ g[6] % 16 = 14
    ELSE idt[v] = Zero(16)
==============================================================================
