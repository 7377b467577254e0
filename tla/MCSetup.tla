-------------------------------- MODULE MCSetup --------------------------------
(* Addresses that differ in every byte, at the top of the address space as  *)
(* the kernel is, and low ones; frequencies at every edge of the divisor.   *)
(* The tables and the APIC have nothing in common, so all addresses are     *)
(* tried with one state the firmware may leave, and all of those with one   *)
(* choice of addresses.  The page the APIC is not at has no tables at all.  *)
EXTENDS Startup

HighAddress == <<16, 32, 0, 128, 255, 255, 255, 255>>

MCAddresses ==
  { <<0, 1, 2, 3, 4, 5, 6, 7>>, HighAddress,
    <<240, 255, 15, 16, 0, 128, 255, 255>>, <<0, 0, 32, 0, 0, 0, 0, 0>> }

MCFrequencies ==
  {0, 1, 18, 19, 20, 100, 1000, 4661, 32768, 596591, 600000, 1193182, 1193183}

OneKernel   == tss = HighAddress /\ stub = HighAddress
OneFirmware == /\ high = 1 /\ page = 1 /\ ~enabled /\ ~svr.on /\ svr.vector = 255
               /\ shift32 = "zero" /\ free = Levels /\ missing[page] = 1

MCInit ==
  /\ StartupInit
  /\ OneKernel \/ OneFirmware
  /\ \A p \in Pages \ {page} : missing[p] = Levels
MCSpec == MCInit /\ [][StartupNext]_<<vars, timer, apic_vars>>
==============================================================================
