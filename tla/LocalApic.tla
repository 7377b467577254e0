------------------------------- MODULE LocalApic -------------------------------
(***************************************************************************)
(* Enabling and disabling the local APIC, system/interrupt/APIC/apic.c:    *)
(* the base address register read and written in two 32-bit halves, the    *)
(* mapping of the register page, and the spurious vector register (SVR).   *)
(*                                                                         *)
(* An address is a record: the bits above 4 GiB, the page below, and the   *)
(* offset inside the page.  The MSR's base has no offset.                  *)
(***************************************************************************)
EXTENDS Naturals

CONSTANTS
  Highs,    \* bits 32 to 35 of the base: what firmware may have chosen
  Pages,    \* pages below 4 GiB
  Levels    \* levels of tables vmm_map may have to make, at most

ASSUME LocalApicAssumption == Highs \subseteq Nat /\ Pages \subseteq Nat /\ Levels \in Nat

Addr(h, p, o) == [high |-> h, page |-> p, offset |-> o]

VARIABLES
  high, page,       \* the base in IA32_APIC_BASE_MSR, ...
  enabled, x2apic,  \* ... and its bits 11 and 10
  svr,              \* the SVR: software enable and spurious vector
  shift32,          \* how the build evaluates a 32-bit value << 32
  missing,          \* by page: levels of tables its address lacks, ...
  free,             \* ... and pages left to make them
  apic_pc, apic_call, \* the function in progress, or the last
  apic_phys,        \* what it got from cpu_get_apic_base
  mapped_ok         \* history: every vmm_map so far found its pages

msr  == <<high, page, enabled, x2apic>>
mem  == <<missing, free, mapped_ok>>
apic_vars == <<msr, svr, shift32, mem, apic_pc, apic_call, apic_phys>>

(* Bits 32 to 35 as they are or'ed into the address: (edx & 0x0f) << 32 of *)
(* a uint32_t is undefined.  A compiler drops it or leaves the shift to    *)
(* the processor, which shifts by 32 modulo 32.                            *)
Shifted(edx) == IF shift32 = "zero" THEN 0 ELSE edx

cpu_get_apic_base == Addr(0, page, Shifted(high))

(* Mutant: the high half of the MSR is left as it is. *)
cpu_set_apic_base_KeepsHigh(apic) ==
  /\ page' = apic.page
  /\ enabled' = TRUE
  /\ UNCHANGED <<high, x2apic>>

(* Both halves are written; the bits that are not set are cleared. *)
cpu_set_apic_base(apic) ==
  /\ high' = apic.high /\ page' = apic.page
  /\ enabled' = TRUE
  /\ UNCHANGED x2apic

ApicInit ==
  /\ high \in Highs /\ page \in Pages
  /\ enabled \in BOOLEAN /\ x2apic \in BOOLEAN /\ (x2apic => enabled)
  /\ svr \in [on : BOOLEAN, vector : {15, 255}]
  /\ shift32 \in {"zero", "modulo"}
  /\ missing \in [Pages -> 0 .. Levels] /\ free \in 0 .. Levels
  /\ apic_pc = "idle" /\ apic_call = "boot" /\ apic_phys = Addr(0, 0, 0)
  /\ mapped_ok = TRUE

(* enable_apic: the base is written back with the enable bit. *)
enable_apic ==
  /\ apic_pc = "idle" /\ ~x2apic
  /\ cpu_set_apic_base(cpu_get_apic_base)
  /\ apic_call' = "enable_apic" /\ apic_pc' = "get"
  /\ UNCHANGED <<svr, shift32, mem, apic_phys>>

(* Leaving x2APIC mode without disabling the APIC is a protection fault. *)
EnableFaults ==
  /\ apic_pc = "idle" /\ x2apic
  /\ apic_call' = "enable_apic" /\ apic_pc' = "fault"
  /\ UNCHANGED <<msr, svr, shift32, mem, apic_phys>>

(* disable_apic, of an APIC that was enabled before. *)
disable_apic ==
  /\ apic_pc = "idle" /\ apic_call \in {"enable_apic", "disable_apic"}
  /\ apic_call' = "disable_apic" /\ apic_pc' = "get"
  /\ UNCHANGED <<msr, svr, shift32, mem, apic_phys>>

(* Both: the address, which must be mapped. *)
GetBase ==
  /\ apic_pc = "get"
  /\ apic_phys' = cpu_get_apic_base
  /\ apic_pc' = "map"
  /\ UNCHANGED <<msr, svr, shift32, mem, apic_call>>

(* Mutant: the last level is not made. *)
vmm_map_OneShort ==
  /\ apic_pc = "map" /\ missing[apic_phys.page] <= free
  /\ free' = free - missing[apic_phys.page]
  /\ missing' = [missing EXCEPT ![apic_phys.page] = IF @ = 0 THEN 0 ELSE 1]
  /\ apic_pc' = "svr"
  /\ UNCHANGED <<msr, svr, shift32, mapped_ok, apic_call, apic_phys>>

vmm_map ==
  /\ apic_pc = "map" /\ missing[apic_phys.page] <= free
  /\ free' = free - missing[apic_phys.page]
  /\ missing' = [missing EXCEPT ![apic_phys.page] = 0]
  /\ apic_pc' = "svr"
  /\ UNCHANGED <<msr, svr, shift32, mapped_ok, apic_call, apic_phys>>

(* It runs out of pages on the way down, and its result is not looked at. *)
MapFails ==
  /\ apic_pc = "map" /\ missing[apic_phys.page] > free
  /\ missing' = [missing EXCEPT ![apic_phys.page] = @ - free]
  /\ free' = 0 /\ mapped_ok' = FALSE
  /\ apic_pc' = "svr"
  /\ UNCHANGED <<msr, svr, shift32, apic_call, apic_phys>>

(* 0x100 | 255 is written, or bit 8 is cleared. *)
WriteSvr ==
  /\ apic_pc = "svr" /\ missing[apic_phys.page] = 0
  /\ svr' = IF apic_call = "enable_apic" THEN [on |-> TRUE, vector |-> 255]
            ELSE [svr EXCEPT !.on = FALSE]
  /\ apic_pc' = "idle"
  /\ UNCHANGED <<msr, shift32, mem, apic_call, apic_phys>>

SvrFaults ==
  /\ apic_pc = "svr" /\ missing[apic_phys.page] > 0
  /\ apic_pc' = "fault"
  /\ UNCHANGED <<msr, svr, shift32, mem, apic_call, apic_phys>>

ApicNext ==
  \/ enable_apic \/ EnableFaults \/ disable_apic \/ GetBase
  \/ vmm_map \/ MapFails \/ WriteSvr \/ SvrFaults

ApicSpec == ApicInit /\ [][ApicNext]_apic_vars

------------------------------------------------------------------------------
(* Properties.                                                             *)

(***************************************************************************)
(* The write to the SVR reaches the APIC's registers and nothing else: the *)
(* address mapped is the one in the MSR at that moment, and the register   *)
(* is at its offset.  This holds also where the base was above 4 GiB,      *)
(* because enable_apic has moved the APIC to the address it computed.      *)
(* enable_apic then leaves the APIC on with spurious vector 255, whose     *)
(* gate is set up by idt_init; disable_apic leaves it off with the same    *)
(* vector.  Neither result depends on what firmware left in the registers. *)
(***************************************************************************)
WritesReachApic ==
  /\ apic_pc = "svr" => apic_phys = Addr(high, page, 0) /\ enabled
  /\ apic_pc = "idle" /\ apic_call # "boot" =>
       enabled /\ svr = [on |-> apic_call = "enable_apic", vector |-> 255]

(* The kernel faults here only in enable_apic, and only if firmware left   *)
(* the APIC in x2APIC mode or no page was left for a table: once the APIC  *)
(* is enabled, no sequence of calls faults.                                *)
FaultsOnlyAtFirst ==
  apic_pc = "fault" => apic_call = "enable_apic" /\ (x2apic \/ ~mapped_ok)
==============================================================================
