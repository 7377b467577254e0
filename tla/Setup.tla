--------------------------------- MODULE Setup ---------------------------------
(***************************************************************************)
(* The machine's tables and its timer, composed: initGdt and idt_init      *)
(* (module Descriptors), and once the gates are in place and interrupts    *)
(* are let in, init_pit (module Pit), which whoever wants the timer may    *)
(* call again and again.  Timer interrupts then come through the gates.    *)
(***************************************************************************)
EXTENDS Descriptors

CONSTANT Frequencies

ASSUME FrequenciesAssumption == Frequencies \subseteq Nat

VARIABLES timer_pc, frequency_hz, divisor, mode, latch, count

timer == <<timer_pc, frequency_hz, divisor, mode, latch, count>>

P == INSTANCE Pit WITH pc <- timer_pc

SetupInit == Init /\ P!Init

SetupNext ==
  \/ Next /\ UNCHANGED timer
  \/ pc = "done" /\ P!Next /\ UNCHANGED vars

SetupSpec == SetupInit /\ [][SetupNext]_<<vars, timer>>

------------------------------------------------------------------------------
(* With the gates in place, the timer runs at the rate asked of init_pit   *)
(* last, and never with half of a count.                                   *)
TimerReady == P!RateAsAsked
==============================================================================
