----------------------------- MODULE MCInterrupts -----------------------------
(* Small instances of Interrupts.                                          *)
EXTENDS Interrupts

(* The timer, a line of the same priority and the last line. *)
MCDevices == {32, 33, 47}

(* Without and with an error code; then all that the processor defines. *)
MCFaults == {6, 13, 14}
MCAllFaults == (0 .. 14) \cup (16 .. 21) \cup {28, 29, 30}
==============================================================================
