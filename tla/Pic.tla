---------------------------------- MODULE Pic ----------------------------------
(***************************************************************************)
(* The driver of the two cascaded 8259 interrupt controllers,              *)
(* system/interrupt/PIC/pic.c, beside the controllers and an interrupt     *)
(* handler that ends its interrupts with PIC_sendEOI.                      *)
(*                                                                         *)
(* A byte is the set of the bits that are 1 in it.  A function of the      *)
(* driver is the sequence of the port accesses it makes; an interrupt may  *)
(* come between any two of them.  Interrupts do not nest: the gates of     *)
(* idt.c clear IF.                                                         *)
(***************************************************************************)
EXTENDS Naturals, Sequences, FiniteSets, FiniteSetsExt

CONSTANTS
  Irqs,         \* interrupt lines with a device, in 0 .. 15
  MaskIrqs,     \* lines the kernel masks and unmasks
  Offset1, Offset2   \* the arguments of PIC_remap, as bytes

CASCADE_IRQ == 2
ICW1_INIT == {4}
ICW1_ICW4 == {0}
ICW4_8086 == {0}
PIC_EOI == {5}
PIC_READ_IRR == {1, 3}
PIC_READ_ISR == {0, 1, 3}
Number(b) == MapThenSumSet(LAMBDA k : 2 ^ k, b)   \* the byte as a number

ASSUME PicAssumption ==
  /\ Irqs \subseteq (0 .. 15) \ {CASCADE_IRQ} /\ MaskIrqs \subseteq 0 .. 15
  /\ Offset1 \subseteq 3 .. 7 /\ Offset2 \subseteq 3 .. 7     \* multiples of 8
  /\ Number(Offset1) \in Nat /\ Number(Offset2) = Number(Offset1) + 8

VARIABLES
  pic,       \* the two controllers
  IF_flag,
  handling,  \* the interrupt being handled, or none
  prog,      \* by context: the port accesses still to be made, ...
  value,     \* ... and what was read from each controller
  call,      \* the function of the driver in progress, or the last
  masked     \* the lines that shall be masked when it returns

vars == <<pic, IF_flag, handling, prog, value, call, masked>>

None == [vector |-> <<>>, irq |-> 16, real |-> FALSE, looks |-> FALSE]
Chip(irq) == IF irq < 8 THEN 1 ELSE 2
LineOf(irq) == irq % 8

------------------------------------------------------------------------------
(* The driver.                                                             *)

Out(c, port, byte) == [op |-> "out", c |-> c, port |-> port, byte |-> byte]
In(c, port)        == [op |-> "in", c |-> c, port |-> port, byte |-> {}]
(* The value read before, with bits set or cleared, is written back. *)
OutOr(c, byte)     == [op |-> "or", c |-> c, port |-> "data", byte |-> byte]
OutAndNot(c, byte) == [op |-> "andnot", c |-> c, port |-> "data", byte |-> byte]

(* Mutant: only the controller of the line is told. *)
PIC_sendEOI_OwnOnly(irq) == << Out(Chip(irq), "command", PIC_EOI) >>

PIC_sendEOI(irq) ==
  (IF irq >= 8 THEN << Out(2, "command", PIC_EOI) >> ELSE <<>>)
  \o << Out(1, "command", PIC_EOI) >>

(* The writes to port 0x80 of io_wait reach no controller. *)
PIC_remap ==
  << Out(1, "command", ICW1_INIT \cup ICW1_ICW4), Out(2, "command", ICW1_INIT \cup ICW1_ICW4),
     Out(1, "data", Offset1), Out(2, "data", Offset2),
     Out(1, "data", {CASCADE_IRQ}), Out(2, "data", {1}),     \* 1 << 2, and 2
     Out(1, "data", ICW4_8086), Out(2, "data", ICW4_8086),
     Out(1, "data", {}), Out(2, "data", {}) >>

PIC_disable == << Out(1, "data", 0 .. 7), Out(2, "data", 0 .. 7) >>

(* Mutant: 8 is not subtracted from a line of the second controller. *)
IRQ_set_mask_NoSubtract(irq) == << In(Chip(irq), "data"), OutOr(Chip(irq), {irq}) >>

IRQ_set_mask(irq)   == << In(Chip(irq), "data"), OutOr(Chip(irq), {LineOf(irq)}) >>
IRQ_clear_mask(irq) == << In(Chip(irq), "data"), OutAndNot(Chip(irq), {LineOf(irq)}) >>

(* Mutant: the second controller is not told. *)
pic_get_irq_reg_FirstOnly(ocw3) ==
  { << Out(1, "command", ocw3), In(2, "command"), In(1, "command") >> }

(* The two reads of one expression: C leaves their order open. *)
pic_get_irq_reg(ocw3) ==
  { << Out(1, "command", ocw3), Out(2, "command", ocw3) >> \o reads :
      reads \in { << In(2, "command"), In(1, "command") >>, << In(1, "command"), In(2, "command") >> } }
pic_get_irr == pic_get_irq_reg(PIC_READ_IRR)
pic_get_isr == pic_get_irq_reg(PIC_READ_ISR)

------------------------------------------------------------------------------
(* The controllers.                                                        *)

(* ICW1 starts the initialisation and clears the registers; otherwise bit  *)
(* 3 selects the register to be read, or bit 5 ends the most urgent.       *)
Command(k, b) ==
  IF 4 \in b
  THEN [ k EXCEPT !.imr = {}, !.irr = {}, !.isr = {}, !.select = "irr",
                  !.expects = <<"base">> \o (IF 1 \in b THEN <<>> ELSE <<"cascade">>)
                                         \o (IF 0 \in b THEN <<"mode">> ELSE <<>>) ]
  ELSE IF 3 \in b THEN [k EXCEPT !.select = IF 0 \in b THEN "isr" ELSE "irr"]
  ELSE IF 5 \in b /\ k.isr # {} THEN [k EXCEPT !.isr = @ \ {Min(@)}]
  ELSE k

(* A data byte is the next word of the initialisation, or the mask. *)
Data(k, b) ==
  IF k.expects = <<>> THEN [k EXCEPT !.imr = b]
  ELSE [[k EXCEPT ![Head(k.expects)] = b] EXCEPT !.expects = Tail(@)]

(* The line a controller would have served, 8 if there is none. *)
Request(k, requests) ==
  LET open == requests \ k.imr
  IN  IF open # {} /\ k.expects = <<>> /\ (\A l \in k.isr : Min(open) < l) THEN Min(open) ELSE 8

Slave == Request(pic[2], pic[2].irr)
Wired == pic[1].cascade = {CASCADE_IRQ} /\ pic[2].cascade = {1}
Master ==
  Request(pic[1], pic[1].irr \cup (IF Slave < 8 /\ Wired THEN {CASCADE_IRQ} ELSE {}))

------------------------------------------------------------------------------
Init ==
  /\ pic = [ c \in 1 .. 2 |->
               [ imr |-> {}, irr |-> {}, isr |-> {}, select |-> "irr", expects |-> <<>>,
                 base |-> {3}, cascade |-> {}, mode |-> {} ] ]
  /\ IF_flag = FALSE /\ handling = None
  /\ prog = [x \in {"kernel", "handler"} |-> <<>>]
  /\ value = [x \in {"kernel", "handler"} |-> <<{}, {}>>]
  /\ call = "boot" /\ masked = {}

Idle == prog["kernel"] = <<>> /\ handling = None

(* The kernel calls the driver. *)
Call(name, p, m) ==
  /\ Idle
  /\ prog' = [prog EXCEPT !["kernel"] = p]
  /\ call' = name /\ masked' = m
  /\ UNCHANGED <<pic, IF_flag, handling, value>>

(* The controllers are set up before interrupts are let in. *)
Calls ==
  \/ ~IF_flag /\ Call("PIC_remap", PIC_remap, {})
  \/ /\ call # "boot"
     /\ \/ Call("PIC_disable", PIC_disable, 0 .. 15)
        \/ \E irq \in MaskIrqs : Call("IRQ_set_mask", IRQ_set_mask(irq), masked \cup {irq})
        \/ \E irq \in MaskIrqs : Call("IRQ_clear_mask", IRQ_clear_mask(irq), masked \ {irq})
        \/ \E p \in pic_get_irr : ~IF_flag /\ Call("pic_get_irr", p, masked)

SetIF ==
  /\ Idle /\ call # "boot"
  /\ IF_flag' = ~IF_flag /\ call' = "SetIF"
  /\ UNCHANGED <<pic, handling, prog, value, masked>>

(* The next port access of the code that runs. *)
Access(x) ==
  /\ prog[x] # <<>> /\ (handling # None => x = "handler")
  /\ LET a == Head(prog[x])
         byte == CASE a.op = "or" -> value[x][a.c] \cup a.byte
                   [] a.op = "andnot" -> value[x][a.c] \ a.byte
                   [] OTHER -> a.byte
         k == pic[a.c]
     IN  /\ pic' = IF a.op = "in" THEN pic
                   ELSE [pic EXCEPT ![a.c] =
                           IF a.port = "command" THEN Command(k, byte) ELSE Data(k, byte)]
         /\ value' = IF a.op # "in" THEN value
                     ELSE [value EXCEPT ![x][a.c] = IF a.port = "data" THEN k.imr ELSE k[k.select]]
  /\ prog' = [prog EXCEPT ![x] = Tail(@)]
  /\ UNCHANGED <<IF_flag, handling, call, masked>>

(* A device raises its line. *)
Raise(irq) ==
  /\ LineOf(irq) \notin pic[Chip(irq)].irr
  /\ pic' = [pic EXCEPT ![Chip(irq)].irr = @ \cup {LineOf(irq)}]
  /\ UNCHANGED <<IF_flag, handling, prog, value, call, masked>>

(* The handler reads the in-service registers, or does not, and ends its   *)
(* interrupt, which it knows from the vector.                              *)
Enter(vector, irq, real) ==
  /\ \E look \in pic_get_isr \cup {<<>>} :
       /\ handling' = [vector |-> vector, irq |-> irq, real |-> real, looks |-> look # <<>>]
       /\ prog' = [prog EXCEPT !["handler"] =
                      look \o PIC_sendEOI((Number(vector[1]) + vector[2] - Number(Offset1)) % 16)]
  /\ UNCHANGED <<IF_flag, value, call, masked>>

Vector(c, line) == << pic[c].base \ {0, 1, 2}, line >>
Serve(k, line) == [k EXCEPT !.irr = @ \ {line}, !.isr = @ \cup {line}]

Deliver ==
  /\ IF_flag /\ handling = None /\ Master < 8
  /\ IF Master = CASCADE_IRQ
     THEN /\ pic' = <<Serve(pic[1], CASCADE_IRQ), Serve(pic[2], Slave)>>
          /\ Enter(Vector(2, Slave), 8 + Slave, TRUE)
     ELSE /\ pic' = [pic EXCEPT ![1] = Serve(@, Master)]
          /\ Enter(Vector(1, Master), Master, TRUE)

(* A request that is withdrawn, or masked, too late: the controller gives  *)
(* the vector of its line 7 and puts nothing in service.                   *)
DeliverSpurious ==
  /\ IF_flag /\ handling = None /\ pic[1].expects = <<>> /\ pic[2].expects = <<>>
  /\ \/ UNCHANGED pic /\ Enter(Vector(1, 7), 7, FALSE)
     \/ /\ Wired /\ CASCADE_IRQ \notin pic[1].imr
        /\ pic' = [pic EXCEPT ![1].isr = @ \cup {CASCADE_IRQ}]
        /\ Enter(Vector(2, 7), 15, FALSE)

HandlerReturn ==
  /\ handling # None /\ prog["handler"] = <<>>
  /\ handling' = None
  /\ value' = [value EXCEPT !["handler"] = <<{}, {}>>]
  /\ UNCHANGED <<pic, IF_flag, prog, call, masked>>

Next ==
  \/ Calls \/ SetIF
  \/ \E x \in {"kernel", "handler"} : Access(x)
  \/ \E irq \in Irqs : Raise(irq)
  \/ Deliver \/ DeliverSpurious \/ HandlerReturn

Spec == Init /\ [][Next]_vars

------------------------------------------------------------------------------
(* Properties.                                                             *)

(***************************************************************************)
(* When a call returns, exactly the lines are masked that the calls made   *)
(* so far ask for.  The mask is read and written in two accesses with      *)
(* interrupts in between, and the port of the mask is the port of the      *)
(* initialisation words too.                                               *)
(***************************************************************************)
MaskAsAsked ==
  prog["kernel"] = <<>> /\ call # "boot" =>
    pic[1].imr \cup { 8 + l : l \in pic[2].imr } = masked

(***************************************************************************)
(* A line that is not masked, and whose controller's line to the first one *)
(* is not masked either, gets through to the processor as soon as no       *)
(* handler runs, with the vector PIC_remap has given it.  The handler then *)
(* ends the interrupt it was called for, and one EOI per interrupt leaves  *)
(* nothing in service on either controller, also after a spurious one, for *)
(* which it is one too many.  So neither the initialisation nor an         *)
(* interrupt handled before shuts a line out.                              *)
(***************************************************************************)
RequestsGetThrough ==
  /\ Idle /\ call # "boot" =>
       \A irq \in Irqs \ masked :
         LineOf(irq) \in pic[Chip(irq)].irr /\ (irq >= 8 => CASCADE_IRQ \notin masked)
           => Master < 8
  /\ handling # None =>
       Number(handling.vector[1]) + handling.vector[2] = Number(Offset1) + handling.irq
  /\ handling = None => pic[1].isr = {} /\ pic[2].isr = {}

(***************************************************************************)
(* pic_get_isr, called in a handler, tells a spurious interrupt from a     *)
(* real one, and pic_get_irr, called with interrupts off, returns requests *)
(* that have been made: whichever register was selected before.            *)
(***************************************************************************)
ReadsRegisterAsked ==
  /\ handling.looks /\ Len(prog["handler"]) <= Len(PIC_sendEOI(handling.irq)) =>
       (LineOf(handling.irq) \in value["handler"][Chip(handling.irq)] <=> handling.real)
  /\ Idle /\ call = "pic_get_irr" =>
       \A c \in 1 .. 2 : value["kernel"][c] \subseteq pic[c].irr
==============================================================================
