-------------------------------- MODULE Startup --------------------------------
(***************************************************************************)
(* The calls of kmain and of drivers after the tables are in place: once   *)
(* idt_init has let interrupts in (module Setup), enable_apic and          *)
(* disable_apic (module LocalApic) and init_pit may be called, in any      *)
(* order, one at a time.                                                   *)
(***************************************************************************)
EXTENDS Setup, LocalApic

StartupInit == SetupInit /\ ApicInit

StartupNext ==
  \/ apic_pc = "idle" /\ SetupNext /\ UNCHANGED apic_vars
  \/ pc = "done" /\ timer_pc = "idle" /\ ApicNext /\ UNCHANGED <<vars, timer>>

StartupSpec == StartupInit /\ [][StartupNext]_<<vars, timer, apic_vars>>
==============================================================================
