---------------------------------- MODULE Pit ----------------------------------
(***************************************************************************)
(* init_pit, system/interrupt/irq/pit.c, beside channel 0 of the interval  *)
(* timer, which takes a command byte and then a count in two bytes through *)
(* one port.  The timer may be running, and interrupting, when it is set   *)
(* up anew.                                                                *)
(***************************************************************************)
EXTENDS Naturals

CONSTANT Frequencies   \* what callers ask for, in Hz

PIT_BASE_FREQ == 1193182

VARIABLES
  pc, frequency_hz, divisor,   \* init_pit
  mode,            \* of the channel
  latch,           \* the low byte of a count, when it has come
  count            \* the count that is loaded again and again, or none

vars == <<pc, frequency_hz, divisor, mode, latch, count>>

None == 65537

Init ==
  /\ pc = "idle" /\ frequency_hz = 0 /\ divisor = 0
  /\ mode = 3 /\ latch = None
  /\ count = 65536                    \* 18.2 Hz, from the firmware

Divisor(f) ==
  LET d == PIT_BASE_FREQ \div f
  IN  IF d > 65535 THEN 65535 ELSE IF d = 0 THEN 1 ELSE d

(* 0x36: bits 5-4 are 11, a count is sent in two bytes; bits 3-1 are 011. *)
CommandMode == 3

init_pit(f) ==
  /\ pc = "idle" /\ f > 0
  /\ frequency_hz' = f /\ divisor' = Divisor(f)
  /\ pc' = "command"
  /\ UNCHANGED <<mode, latch, count>>

(* PIT_BASE_FREQ / 0 is a divide error. *)
DivideError(f) ==
  /\ pc = "idle" /\ f = 0
  /\ frequency_hz' = f /\ pc' = "fault"
  /\ UNCHANGED <<divisor, mode, latch, count>>

(* The command stops the channel until it has a count. *)
WriteCommand ==
  /\ pc = "command"
  /\ mode' = CommandMode
  /\ latch' = None /\ count' = None
  /\ pc' = "low"
  /\ UNCHANGED <<frequency_hz, divisor>>

(* The channel takes the low byte first; a count of 0 stands for 65536. *)
Receive(byte) ==
  IF latch = None
  THEN latch' = byte /\ UNCHANGED count
  ELSE /\ latch' = None
       /\ count' = IF byte * 256 + latch = 0 THEN 65536 ELSE byte * 256 + latch

(* Mutant: the high byte is sent first. *)
WriteLow_HighFirst ==
  /\ pc = "low"
  /\ Receive((divisor \div 256) % 256)
  /\ pc' = "high"
  /\ UNCHANGED <<frequency_hz, divisor, mode>>

WriteLow ==
  /\ pc = "low"
  /\ Receive(divisor % 256)
  /\ pc' = "high"
  /\ UNCHANGED <<frequency_hz, divisor, mode>>

WriteHigh ==
  /\ pc = "high"
  /\ Receive((divisor \div 256) % 256)
  /\ pc' = "idle"
  /\ UNCHANGED <<frequency_hz, divisor, mode>>

Next ==
  \/ \E f \in Frequencies : init_pit(f) \/ DivideError(f)
  \/ WriteCommand \/ WriteLow \/ WriteHigh

Spec == Init /\ [][Next]_vars

------------------------------------------------------------------------------
(* Properties.                                                             *)

(***************************************************************************)
(* The timer runs at the rate asked for: the count it has when init_pit    *)
(* returns gives the lowest frequency that is not below the one asked for, *)
(* as far as 16 bits allow, after any sequence of calls.  While the count  *)
(* is sent the timer does not run with half of it: a count other than none *)
(* is one a call has asked for, or the firmware's.                         *)
(***************************************************************************)
RateAsAsked ==
  /\ pc = "idle" /\ frequency_hz > 0 =>
       /\ count * frequency_hz <= PIT_BASE_FREQ \/ count = 1
       /\ (count + 1) * frequency_hz > PIT_BASE_FREQ \/ count = 65535
  /\ count \in {None, 65536} \cup { Divisor(f) : f \in Frequencies \ {0} }
==============================================================================
