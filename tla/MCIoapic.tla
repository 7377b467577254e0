------------------------------- MODULE MCIoapic -------------------------------
(* A small instance of Ioapic: three pages, two IOAPICs; interrupt 0 wired  *)
(* to pin 2 of the first, interrupt 1 to pin 1, and interrupt 5 to pin 2 of *)
(* the second.                                                              *)
EXTENDS Ioapic

MCRam == {1, 2, 3}
MCIoapics == << [IOAPIC_Address |-> 10, GSI_base |-> 0], [IOAPIC_Address |-> 11, GSI_base |-> 4] >>
MCIsos == << [IRQ_Source |-> 0, GSI |-> 2], [IRQ_Source |-> 5, GSI |-> 6] >>
MCPins == 0 .. 3
MCIrqs == {0, 1, 5}
MCLine == [irq \in MCIrqs |-> CASE irq = 0 -> 2 [] irq = 5 -> 6 [] OTHER -> irq]
==============================================================================
