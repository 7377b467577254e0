--------------------------- MODULE ControllerProofs ---------------------------
(***************************************************************************)
(* Proofs about the interrupt controllers: the two 8259s (Pic), the local  *)
(* APIC (LocalApic), and the walk through the firmware's tables that finds *)
(* the IOAPICs (Acpi).                                                     *)
(***************************************************************************)
EXTENDS Pic, LocalApic, Acpi, FiniteSetTheorems, SequenceTheorems, TLAPS

------------------------------------------------------------------------------
(* The inductive invariant.                                                *)

Bytes == SUBSET (0 .. 7)
Words == <<"base", "cascade", "mode">>
Controller ==
  [ imr : Bytes, irr : Bytes, isr : Bytes, select : {"irr", "isr"},
    expects : Seq({"base", "cascade", "mode"}), base : Bytes, cascade : Bytes, mode : Bytes ]
Operation ==
  [op : {"out", "in", "or", "andnot"}, c : 1 .. 2, port : {"command", "data"}, byte : Bytes]
Contexts == {"kernel", "handler"}

Types ==
  /\ pic \in [1 .. 2 -> Controller]
  /\ IF_flag \in BOOLEAN
  /\ prog \in [Contexts -> Seq(Operation)]
  /\ value \in [Contexts -> [1 .. 2 -> Bytes]]
  /\ masked \subseteq 0 .. 15

(* What is left of a sequence from its n-th element on. *)
From(s, n) == [j \in 1 .. (Len(s) - n + 1) |-> s[j + n - 1]]

(* The bytes PIC_remap sends to controller c. *)
OffsetOf(c) == IF c = 1 THEN Offset1 ELSE Offset2
WireOf(c)   == IF c = 1 THEN {CASCADE_IRQ} ELSE {1}

(* A controller that has got the first j bytes of PIC_remap. *)
Stage(k, c, j) ==
  /\ j = 0 => k.expects = <<>>
  /\ j >= 1 => k.imr = {} /\ k.expects = From(Words, IF j < 4 THEN j ELSE 4)
  /\ j >= 2 => k.base = OffsetOf(c)
  /\ j >= 3 => k.cascade = WireOf(c)

Ready(k, c) == k.expects = <<>> /\ k.base = OffsetOf(c) /\ k.cascade = WireOf(c)

(* Interrupts are let in after PIC_remap and not while it runs, nor while  *)
(* pic_get_irr does.  No device is at the line of the second controller.   *)
Remapping == call = "PIC_remap" /\ prog["kernel"] # <<>>
Booted ==
  /\ call = "boot" => /\ prog["kernel"] = <<>>
                      /\ pic[1].expects = <<>> /\ pic[2].expects = <<>>
  /\ call # "boot" /\ ~Remapping => Ready(pic[1], 1) /\ Ready(pic[2], 2)
  /\ call \in {"boot", "PIC_remap", "pic_get_irr"} => ~IF_flag
  /\ CASCADE_IRQ \notin pic[1].irr

Mask == pic[1].imr \cup { 8 + l : l \in pic[2].imr }

(* Where the kernel is in the function it has called, and what it has done *)
(* so far.                                                                 *)
NoCall ==
  /\ prog["kernel"] = <<>>
  /\ call # "boot" => Mask = masked
  /\ call = "pic_get_irr" => \A c \in 1 .. 2 : value["kernel"][c] \subseteq pic[c].irr
InRemap(n) ==
  /\ call = "PIC_remap" /\ masked = {}
  /\ prog["kernel"] = From(PIC_remap, n)
  /\ Stage(pic[1], 1, n \div 2) /\ Stage(pic[2], 2, (n - 1) \div 2)
InDisable(n) ==
  /\ call = "PIC_disable" /\ masked = 0 .. 15
  /\ prog["kernel"] = From(PIC_disable, n)
  /\ n = 2 => pic[1].imr = 0 .. 7
InMask(irq, n) ==
  /\ \/ call = "IRQ_set_mask" /\ prog["kernel"] = From(IRQ_set_mask(irq), n) /\ masked = Mask \cup {irq}
     \/ call = "IRQ_clear_mask" /\ prog["kernel"] = From(IRQ_clear_mask(irq), n) /\ masked = Mask \ {irq}
  /\ n = 2 => value["kernel"][Chip(irq)] = pic[Chip(irq)].imr
InRead(p, n) ==
  /\ call = "pic_get_irr" /\ masked = Mask
  /\ prog["kernel"] = From(p, n)
  /\ n >= 2 => pic[1].select = "irr"
  /\ n >= 3 => pic[2].select = "irr"
  /\ n = 4 => value["kernel"][p[3].c] \subseteq pic[p[3].c].irr
Kernel ==
  \/ NoCall
  \/ \E n \in 1 .. 10 : InRemap(n)
  \/ \E n \in 1 .. 2 : InDisable(n)
  \/ \E irq \in MaskIrqs, n \in 1 .. 2 : InMask(irq, n)
  \/ \E p \in pic_get_irr, n \in 1 .. 4 : InRead(p, n)

(* Where the handler is: look is what it does before the EOIs.  What it    *)
(* was called for is in service until the EOI for it has been sent.        *)
InService(k, irq, real, e) ==
  /\ k[2].isr = IF irq >= 8 /\ real /\ e <= 1 THEN {LineOf(irq)} ELSE {}
  /\ k[1].isr = IF irq < 8 THEN (IF real /\ e <= 1 THEN {irq} ELSE {})
                ELSE IF e <= 2 THEN {CASCADE_IRQ} ELSE {}
InHandler(look, n) ==
  LET irq == handling.irq
      a   == Len(look)
  IN  /\ handling.looks = (look # <<>>)
      /\ prog["handler"] = From(look \o PIC_sendEOI(irq), n)
      /\ InService(pic, irq, handling.real, n - a)
      /\ a = 4 =>
           /\ n >= 2 => pic[1].select = "isr"
           /\ n >= 3 => pic[2].select = "isr"
           /\ n = 4 => value["handler"][look[3].c] = pic[look[3].c].isr
           /\ n >= 5 => (LineOf(irq) \in value["handler"][Chip(irq)] <=> handling.real)
Handler ==
  \/ /\ handling = None /\ prog["handler"] = <<>>
     /\ pic[1].isr = {} /\ pic[2].isr = {}
  \/ /\ handling # None /\ IF_flag
     /\ handling.irq \in 0 .. 15 /\ handling.real \in BOOLEAN
     /\ Number(handling.vector[1]) + handling.vector[2] = Number(Offset1) + handling.irq
     /\ \E look \in pic_get_isr \cup {<<>>} :
          \E n \in 1 .. (Len(look) + Len(PIC_sendEOI(handling.irq)) + 1) : InHandler(look, n)

IndInv == Types /\ Booted /\ Kernel /\ Handler

------------------------------------------------------------------------------
(* Sequences and bytes.                                                    *)

LEMMA FromStep ==
  ASSUME NEW S, NEW s \in Seq(S), NEW n \in 1 .. Len(s)
  PROVE  /\ From(s, n) \in Seq(S) /\ From(s, n) # <<>> /\ Len(From(s, n)) = Len(s) - n + 1
         /\ Head(From(s, n)) = s[n] /\ Tail(From(s, n)) = From(s, n + 1)
         /\ s[n] \in S
<1>1. Len(s) \in Nat /\ s = [u \in 1 .. Len(s) |-> s[u]]
  OBVIOUS
<1>2. From(s, n) \in Seq(S) /\ From(s, n) # <<>> /\ Len(From(s, n)) = Len(s) - n + 1
  BY <1>1 DEF From
<1>3. Head(From(s, n)) = s[n] /\ Tail(From(s, n)) = From(s, n + 1)
  BY <1>1, <1>2, SMTT(30) DEF From
<1> QED BY <1>2, <1>3

LEMMA FromEnds ==
  ASSUME NEW S, NEW s \in Seq(S)
  PROVE  From(s, 1) = s /\ From(s, Len(s) + 1) = <<>>
<1>1. Len(s) \in Nat /\ s = [u \in 1 .. Len(s) |-> s[u]]
  OBVIOUS
<1>2. From(s, 1) = s
  BY <1>1 DEF From
<1>3. From(s, Len(s) + 1) \in Seq(S) /\ Len(From(s, Len(s) + 1)) = 0
  BY <1>1 DEF From
<1>4. From(s, Len(s) + 1) = <<>>
  BY <1>3, EmptySeq
<1> QED BY <1>2, <1>4

LEMMA WordFacts ==
  /\ Words \in Seq({"base", "cascade", "mode"}) /\ Len(Words) = 3
  /\ From(Words, 1) = Words /\ From(Words, 4) = <<>>
  /\ \A j \in 1 .. 3 : /\ From(Words, j) \in Seq({"base", "cascade", "mode"}) /\ From(Words, j) # <<>>
                       /\ Head(From(Words, j)) = Words[j] /\ Tail(From(Words, j)) = From(Words, j + 1)
<1>1. Words \in Seq({"base", "cascade", "mode"}) /\ Len(Words) = 3
  BY DEF Words
<1>2. From(Words, 1) = Words /\ From(Words, Len(Words) + 1) = <<>>
  BY <1>1, FromEnds
<1>3. \A j \in 1 .. 3 : j \in 1 .. Len(Words)
  BY <1>1
<1>4. \A j \in 1 .. 3 : /\ From(Words, j) \in Seq({"base", "cascade", "mode"}) /\ From(Words, j) # <<>>
                       /\ Head(From(Words, j)) = Words[j] /\ Tail(From(Words, j)) = From(Words, j + 1)
  BY <1>1, <1>3, FromStep, ZenonT(60)
<1> QED BY <1>1, <1>2, <1>4

(* The most urgent of some lines. *)
LEMMA LeastLine ==
  ASSUME NEW S \in Bytes, S # {}
  PROVE  Min(S) \in S /\ Min(S) < 8
<1>1. \E x \in S : \A y \in S : x <= y
  <2>1. S \subseteq 0 .. 7
    BY DEF Bytes
  <2>2. ASSUME NEW x \in 0 .. 7, x \in S, \A y \in 0 .. (x - 1) : y \notin S
        PROVE  \E z \in S : \A y \in S : z <= y
    BY <2>1, <2>2
  <2>3. CASE 0 \in S \/ 1 \in S
    BY <2>2, <2>3
  <2>4. CASE 0 \notin S /\ 1 \notin S /\ (2 \in S \/ 3 \in S)
    BY <2>2, <2>4
  <2>5. CASE {0, 1, 2, 3} \cap S = {} /\ (4 \in S \/ 5 \in S)
    BY <2>2, <2>5
  <2>6. CASE {0, 1, 2, 3, 4, 5} \cap S = {}
    <3>1. 6 \in S \/ 7 \in S
      <4>1. PICK x \in S : TRUE
        OBVIOUS
      <4>2. x \in 0 .. 7 /\ x \notin {0, 1, 2, 3, 4, 5}
        BY <2>1, <2>6
      <4> QED BY <4>2
    <3> QED BY <2>2, <2>6, <3>1
  <2> QED BY <2>3, <2>4, <2>5, <2>6
<1>2. Min(S) \in S
  BY <1>1 DEF Min
<1>3. Min(S) \in 0 .. 7
  BY <1>2 DEF Bytes
<1> QED BY <1>2, <1>3

------------------------------------------------------------------------------
(* The controllers.                                                        *)

LEMMA CommandFacts ==
  ASSUME NEW k \in Controller
  PROVE  /\ Command(k, PIC_READ_IRR) = [k EXCEPT !.select = "irr"]
         /\ Command(k, PIC_READ_ISR) = [k EXCEPT !.select = "isr"]
         /\ k.isr = {} => Command(k, PIC_EOI) = k
         /\ \A l \in 0 .. 7 : k.isr = {l} => Command(k, PIC_EOI) = [k EXCEPT !.isr = {}]
         /\ Command(k, ICW1_INIT \cup ICW1_ICW4)
              = [ k EXCEPT !.imr = {}, !.irr = {}, !.isr = {}, !.select = "irr", !.expects = From(Words, 1) ]
<1>1. Command(k, PIC_READ_IRR) = [k EXCEPT !.select = "irr"]
  BY DEF Command, PIC_READ_IRR
<1>2. Command(k, PIC_READ_ISR) = [k EXCEPT !.select = "isr"]
  BY DEF Command, PIC_READ_ISR
<1>3. Command(k, PIC_EOI) = IF k.isr = {} THEN k ELSE [k EXCEPT !.isr = k.isr \ {Min(k.isr)}]
  BY DEF Command, PIC_EOI
<1>4. ASSUME NEW l \in 0 .. 7, k.isr = {l}
      PROVE  Command(k, PIC_EOI) = [k EXCEPT !.isr = {}]
  <2>1. {l} \in Bytes /\ {l} # {}
    BY DEF Bytes
  <2>2. Min({l}) = l
    BY <2>1, LeastLine
  <2>3. k.isr \ {Min(k.isr)} = {} /\ k.isr # {}
    BY <1>4, <2>2
  <2> QED BY <1>3, <2>3
<1>5. Command(k, ICW1_INIT \cup ICW1_ICW4)
        = [ k EXCEPT !.imr = {}, !.irr = {}, !.isr = {}, !.select = "irr", !.expects = From(Words, 1) ]
  <2>1. <<"base">> \o <<"cascade">> \o <<"mode">> = Words
    <3> DEFINE A == {"base", "cascade", "mode"}
               s == <<"base">> \o <<"cascade">>
    <3>1. /\ s \in Seq(A) /\ Len(s) = 2 /\ s[1] = "base" /\ s[2] = "cascade"
      OBVIOUS
    <3> HIDE DEF s
    <3>2. /\ s \o <<"mode">> \in Seq(A) /\ Len(s \o <<"mode">>) = 3
          /\ \A u \in 1 .. 3 : (s \o <<"mode">>)[u] = Words[u]
      BY <3>1 DEF Words
    <3>3. s \o <<"mode">> = Words
      BY <3>2, WordFacts, SeqEqual, SMTT(30)
    <3> QED BY <3>3 DEF s
  <2>2. 4 \in ICW1_INIT \cup ICW1_ICW4 /\ 1 \notin ICW1_INIT \cup ICW1_ICW4 /\ 0 \in ICW1_INIT \cup ICW1_ICW4
    BY DEF ICW1_INIT, ICW1_ICW4
  <2> QED BY <2>1, <2>2, WordFacts DEF Command
<1> QED BY <1>1, <1>2, <1>3, <1>4, <1>5

LEMMA DataFacts ==
  ASSUME NEW k \in Controller, NEW b \in Bytes
  PROVE  /\ k.expects = <<>> => Data(k, b) = [k EXCEPT !.imr = b]
         /\ k.expects = From(Words, 1) =>
              Data(k, b) = [k EXCEPT !.base = b, !.expects = From(Words, 2)]
         /\ k.expects = From(Words, 2) =>
              Data(k, b) = [k EXCEPT !.cascade = b, !.expects = From(Words, 3)]
         /\ k.expects = From(Words, 3) =>
              Data(k, b) = [k EXCEPT !.mode = b, !.expects = From(Words, 4)]
<1>1. CASE k.expects = <<>>
  <2>1. \A j \in 1 .. 3 : k.expects # From(Words, j)
    BY <1>1, WordFacts
  <2> QED BY <1>1, <2>1 DEF Data
<1>2. CASE k.expects # <<>>
  <2> DEFINE w == Head(k.expects)
             t == Tail(k.expects)
  <2>1. ASSUME w = "base" PROVE Data(k, b) = [k EXCEPT !.base = b, !.expects = t]
    BY <1>2, <2>1 DEF Data, Controller
  <2>2. ASSUME w = "cascade" PROVE Data(k, b) = [k EXCEPT !.cascade = b, !.expects = t]
    BY <1>2, <2>2 DEF Data, Controller
  <2>3. ASSUME w = "mode" PROVE Data(k, b) = [k EXCEPT !.mode = b, !.expects = t]
    BY <1>2, <2>3 DEF Data, Controller
  <2>4. Words[1] = "base" /\ Words[2] = "cascade" /\ Words[3] = "mode"
    BY DEF Words
  <2>5. /\ k.expects = From(Words, 1) => w = "base" /\ t = From(Words, 2)
        /\ k.expects = From(Words, 2) => w = "cascade" /\ t = From(Words, 3)
        /\ k.expects = From(Words, 3) => w = "mode" /\ t = From(Words, 4)
    BY <2>4, WordFacts, SMTT(30)
  <2> HIDE DEF w, t
  <2> QED BY <1>2, <2>1, <2>2, <2>3, <2>5
<1> QED BY <1>1, <1>2

------------------------------------------------------------------------------
(* The driver's functions, access by access.                               *)

(* The n-th access of s, the function that context x is in, is made. *)
Moves(x, s, n) ==
  /\ prog' = [prog EXCEPT ![x] = From(s, n + 1)]
  /\ prog' \in [Contexts -> Seq(Operation)]
  /\ UNCHANGED <<IF_flag, handling, call, masked>>

LEMMA AccessStep ==
  ASSUME Types, NEW x \in Contexts, NEW s \in Seq(Operation), NEW n \in 1 .. Len(s),
         prog[x] = From(s, n), Access(x)
  PROVE  Moves(x, s, n) /\ Head(prog[x]) = s[n]
<1>1. Head(prog[x]) = s[n] /\ Tail(prog[x]) = From(s, n + 1)
  BY FromStep
<1>2. From(s, n + 1) \in Seq(Operation)
  <2>1. CASE n < Len(s)
    BY <2>1, FromStep
  <2>2. CASE n = Len(s)
    <3>1. From(s, n + 1) = <<>>
      BY <2>2, FromEnds
    <3> QED BY <3>1, EmptySeq
  <2> QED BY <2>1, <2>2
<1>3. Moves(x, s, n)
  BY <1>1, <1>2 DEF Access, Moves, Types
<1> QED BY <1>1, <1>3

LEMMA OutCommand ==
  ASSUME Types, NEW x \in Contexts, NEW s \in Seq(Operation), NEW n \in 1 .. Len(s),
         prog[x] = From(s, n), Access(x), NEW c \in 1 .. 2, NEW b \in Bytes,
         s[n] = Out(c, "command", b)
  PROVE  Moves(x, s, n) /\ value' = value /\ pic' = [pic EXCEPT ![c] = Command(pic[c], b)]
<1> DEFINE a == Head(prog[x])
<1>1. Moves(x, s, n) /\ a = s[n]
  BY AccessStep
<1>2. a.op = "out" /\ a.c = c /\ a.port = "command" /\ a.byte = b
  BY <1>1 DEF Out
<1> HIDE DEF a
<1> QED BY <1>1, <1>2 DEF Access, a

LEMMA OutData ==
  ASSUME Types, NEW x \in Contexts, NEW s \in Seq(Operation), NEW n \in 1 .. Len(s),
         prog[x] = From(s, n), Access(x), NEW c \in 1 .. 2, NEW b \in Bytes,
         s[n] = Out(c, "data", b)
  PROVE  Moves(x, s, n) /\ value' = value /\ pic' = [pic EXCEPT ![c] = Data(pic[c], b)]
<1> DEFINE a == Head(prog[x])
<1>1. Moves(x, s, n) /\ a = s[n]
  BY AccessStep
<1>2. a.op = "out" /\ a.c = c /\ a.port = "data" /\ a.byte = b
  BY <1>1 DEF Out
<1> HIDE DEF a
<1> QED BY <1>1, <1>2 DEF Access, a

(* The value read before is written back, with a change. *)
BackTo(x, a) == IF a.op = "or" THEN value[x][a.c] \cup a.byte ELSE value[x][a.c] \ a.byte

LEMMA OutBack ==
  ASSUME Types, NEW x \in Contexts, NEW s \in Seq(Operation), NEW n \in 1 .. Len(s),
         prog[x] = From(s, n), Access(x), NEW c \in 1 .. 2, NEW o \in {"or", "andnot"}, NEW d,
         s[n].op = o, s[n].c = c, s[n].port = "data", d = BackTo(x, s[n])
  PROVE  Moves(x, s, n) /\ value' = value /\ pic' = [pic EXCEPT ![c] = Data(pic[c], d)]
<1> DEFINE a == Head(prog[x])
<1>1. Moves(x, s, n) /\ a = s[n]
  BY AccessStep
<1>2. a.op \in {"or", "andnot"} /\ a.c = c /\ a.port = "data" /\ BackTo(x, a) = d
  BY <1>1
<1> HIDE DEF a
<1> QED BY <1>1, <1>2 DEF Access, BackTo, a

LEMMA InData ==
  ASSUME Types, NEW x \in Contexts, NEW s \in Seq(Operation), NEW n \in 1 .. Len(s),
         prog[x] = From(s, n), Access(x), NEW c \in 1 .. 2,
         s[n] = In(c, "data")
  PROVE  Moves(x, s, n) /\ pic' = pic /\ value' = [value EXCEPT ![x][c] = pic[c].imr]
<1> DEFINE a == Head(prog[x])
<1>1. Moves(x, s, n) /\ a = s[n]
  BY AccessStep
<1>2. a.op = "in" /\ a.c = c /\ a.port = "data"
  BY <1>1 DEF In
<1> HIDE DEF a
<1> QED BY <1>1, <1>2 DEF Access, a

LEMMA InCommand ==
  ASSUME Types, NEW x \in Contexts, NEW s \in Seq(Operation), NEW n \in 1 .. Len(s),
         prog[x] = From(s, n), Access(x), NEW c \in 1 .. 2,
         s[n] = In(c, "command")
  PROVE  Moves(x, s, n) /\ pic' = pic /\ value' = [value EXCEPT ![x][c] = pic[c][pic[c].select]]
<1> DEFINE a == Head(prog[x])
<1>1. Moves(x, s, n) /\ a = s[n]
  BY AccessStep
<1>2. a.op = "in" /\ a.c = c /\ a.port = "command"
  BY <1>1 DEF In
<1> HIDE DEF a
<1> QED BY <1>1, <1>2 DEF Access, a

LEMMA ByteFacts ==
  /\ PIC_EOI \in Bytes /\ PIC_READ_IRR \in Bytes /\ PIC_READ_ISR \in Bytes
  /\ (ICW1_INIT \cup ICW1_ICW4) \in Bytes /\ ICW4_8086 \in Bytes
  /\ \A c \in 1 .. 2 : OffsetOf(c) \in Bytes /\ WireOf(c) \in Bytes
  /\ {} \in Bytes /\ 0 .. 7 \in Bytes /\ \A l \in 0 .. 7 : {l} \in Bytes
<1>1. /\ PIC_EOI \subseteq 0 .. 7 /\ PIC_READ_IRR \subseteq 0 .. 7 /\ PIC_READ_ISR \subseteq 0 .. 7
      /\ ICW1_INIT \cup ICW1_ICW4 \subseteq 0 .. 7 /\ ICW4_8086 \subseteq 0 .. 7
  BY DEF PIC_EOI, PIC_READ_IRR, PIC_READ_ISR, ICW1_INIT, ICW1_ICW4, ICW4_8086
<1>2. Offset1 \subseteq 0 .. 7 /\ Offset2 \subseteq 0 .. 7
  BY PicAssumption
<1>3. \A c \in 1 .. 2 : OffsetOf(c) \in Bytes /\ WireOf(c) \in Bytes
  BY <1>2 DEF Bytes, OffsetOf, WireOf, CASCADE_IRQ
<1>4. \A l \in 0 .. 7 : {l} \in Bytes
  BY DEF Bytes
<1> QED BY <1>1, <1>3, <1>4 DEF Bytes

LEMMA OperationFacts ==
  /\ \A c \in 1 .. 2, port \in {"command", "data"}, b \in Bytes : Out(c, port, b) \in Operation
  /\ \A c \in 1 .. 2, port \in {"command", "data"} : In(c, port) \in Operation
  /\ \A c \in 1 .. 2, b \in Bytes : OutOr(c, b) \in Operation /\ OutAndNot(c, b) \in Operation
BY ByteFacts DEF Operation, Out, In, OutOr, OutAndNot

LEMMA Lines ==
  ASSUME NEW irq \in 0 .. 15
  PROVE  /\ Chip(irq) \in 1 .. 2 /\ LineOf(irq) \in 0 .. 7
         /\ irq < 8 => Chip(irq) = 1 /\ LineOf(irq) = irq
         /\ irq >= 8 => Chip(irq) = 2 /\ LineOf(irq) = irq - 8
BY DEF Chip, LineOf

(* The j-th byte PIC_remap sends to controller c, and what becomes of it. *)
ByteOf(c, j) ==
  IF j = 1 THEN OffsetOf(c) ELSE IF j = 2 THEN WireOf(c) ELSE IF j = 3 THEN ICW4_8086 ELSE {}
Sent(k, c, j) ==
  IF j = 0 THEN Command(k, ICW1_INIT \cup ICW1_ICW4) ELSE Data(k, ByteOf(c, j))

LEMMA StageStep ==
  ASSUME NEW c \in 1 .. 2, NEW j \in 0 .. 4, NEW k \in Controller, Stage(k, c, j)
  PROVE  /\ Sent(k, c, j) \in Controller /\ Stage(Sent(k, c, j), c, j + 1)
         /\ k.isr = {} => Sent(k, c, j).isr = {}
         /\ CASCADE_IRQ \notin k.irr => CASCADE_IRQ \notin Sent(k, c, j).irr
<1>1. /\ From(Words, 4) = <<>>
      /\ From(Words, 1) \in Seq({"base", "cascade", "mode"})
      /\ From(Words, 2) \in Seq({"base", "cascade", "mode"})
      /\ From(Words, 3) \in Seq({"base", "cascade", "mode"})
      /\ From(Words, 4) \in Seq({"base", "cascade", "mode"})
  BY WordFacts, EmptySeq
<1>2. {} \in Bytes /\ ICW4_8086 \in Bytes /\ OffsetOf(c) \in Bytes /\ WireOf(c) \in Bytes
  BY ByteFacts
<1> DEFINE t == Sent(k, c, j)
<1>3. CASE j = 0
  <2>1. t = [ k EXCEPT !.imr = {}, !.irr = {}, !.isr = {}, !.select = "irr", !.expects = From(Words, 1) ]
    BY <1>3, CommandFacts DEF Sent
  <2> HIDE DEF t
  <2>2. t \in Controller /\ t.imr = {} /\ t.isr = {} /\ t.irr = {} /\ t.expects = From(Words, 1)
    BY <1>1, <1>2, <2>1 DEF Controller
  <2>3. Stage(t, c, 1)
    BY <2>2 DEF Stage
  <2> QED BY <1>3, <2>2, <2>3 DEF t
<1>4. CASE j = 1
  <2>1. k.expects = From(Words, 1) /\ k.imr = {}
    BY <1>4 DEF Stage
  <2>2. t = Data(k, OffsetOf(c))
    BY <1>4 DEF Sent, ByteOf
  <2>3. t = [k EXCEPT !.base = OffsetOf(c), !.expects = From(Words, 2)]
    BY <1>2, <2>1, <2>2, DataFacts
  <2> HIDE DEF t
  <2>4. /\ t \in Controller /\ t.imr = {} /\ t.isr = k.isr /\ t.irr = k.irr /\ t.expects = From(Words, 2)
        /\ t.base = OffsetOf(c)
    BY <1>1, <1>2, <2>1, <2>3 DEF Controller
  <2>5. Stage(t, c, 2)
    BY <2>1, <2>4 DEF Stage
  <2> QED BY <1>4, <2>4, <2>5 DEF t
<1>5. CASE j = 2
  <2>1. k.expects = From(Words, 2) /\ k.imr = {} /\ k.base = OffsetOf(c)
    BY <1>5 DEF Stage
  <2>2. t = Data(k, WireOf(c))
    BY <1>5 DEF Sent, ByteOf
  <2>3. t = [k EXCEPT !.cascade = WireOf(c), !.expects = From(Words, 3)]
    BY <1>2, <2>1, <2>2, DataFacts
  <2> HIDE DEF t
  <2>4. /\ t \in Controller /\ t.imr = {} /\ t.isr = k.isr /\ t.irr = k.irr /\ t.expects = From(Words, 3)
        /\ t.cascade = WireOf(c) /\ t.base = k.base
    BY <1>1, <1>2, <2>1, <2>3 DEF Controller
  <2>5. Stage(t, c, 3)
    BY <2>1, <2>4 DEF Stage
  <2> QED BY <1>5, <2>4, <2>5 DEF t
<1>6. CASE j = 3
  <2>1. k.expects = From(Words, 3) /\ k.imr = {} /\ k.base = OffsetOf(c) /\ k.cascade = WireOf(c)
    BY <1>6 DEF Stage
  <2>2. t = Data(k, ICW4_8086)
    BY <1>6 DEF Sent, ByteOf
  <2>3. t = [k EXCEPT !.mode = ICW4_8086, !.expects = From(Words, 4)]
    BY <1>2, <2>1, <2>2, DataFacts
  <2> HIDE DEF t
  <2>4. /\ t \in Controller /\ t.imr = {} /\ t.isr = k.isr /\ t.irr = k.irr /\ t.expects = From(Words, 4)
        /\ t.mode = ICW4_8086 /\ t.base = k.base /\ t.cascade = k.cascade
    BY <1>1, <1>2, <2>1, <2>3 DEF Controller
  <2>5. Stage(t, c, 4)
    BY <2>1, <2>4 DEF Stage
  <2> QED BY <1>6, <2>4, <2>5 DEF t
<1>7. CASE j = 4
  <2>1. k.expects = <<>> /\ k.imr = {} /\ k.base = OffsetOf(c) /\ k.cascade = WireOf(c)
    BY <1>1, <1>7 DEF Stage
  <2>2. t = Data(k, {})
    BY <1>7 DEF Sent, ByteOf
  <2>3. t = [k EXCEPT !.imr = {}]
    BY <1>2, <2>1, <2>2, DataFacts
  <2> HIDE DEF t
  <2>4. /\ t \in Controller /\ t.imr = {} /\ t.isr = k.isr /\ t.irr = k.irr /\ t.expects = <<>>
        /\ t.base = k.base /\ t.cascade = k.cascade
    BY <1>2, <2>1, <2>3 DEF Controller
  <2>5. Stage(t, c, 5)
    BY <1>1, <2>1, <2>4 DEF Stage
  <2> QED BY <1>7, <2>4, <2>5 DEF t
<1> QED BY <1>3, <1>4, <1>5, <1>6, <1>7

LEMMA RemapBytes ==
  /\ PIC_remap \in Seq(Operation) /\ Len(PIC_remap) = 10
  /\ \A j \in 0 .. 4, c \in 1 .. 2 :
       PIC_remap[2 * j + c] = IF j = 0 THEN Out(c, "command", ICW1_INIT \cup ICW1_ICW4)
                              ELSE Out(c, "data", ByteOf(c, j))
<1>1. /\ \A c \in 1 .. 2 : /\ Out(c, "command", ICW1_INIT \cup ICW1_ICW4) \in Operation
                           /\ Out(c, "data", OffsetOf(c)) \in Operation
                           /\ Out(c, "data", WireOf(c)) \in Operation
                           /\ Out(c, "data", ICW4_8086) \in Operation
                           /\ Out(c, "data", {}) \in Operation
  BY ByteFacts, OperationFacts
<1>2. OffsetOf(1) = Offset1 /\ OffsetOf(2) = Offset2 /\ WireOf(1) = {CASCADE_IRQ} /\ WireOf(2) = {1}
  BY DEF OffsetOf, WireOf
<1>3. PIC_remap \in Seq(Operation) /\ Len(PIC_remap) = 10
  BY <1>1, <1>2 DEF PIC_remap
<1>4. ASSUME NEW j \in 0 .. 4, NEW c \in 1 .. 2
      PROVE  PIC_remap[2 * j + c] = IF j = 0 THEN Out(c, "command", ICW1_INIT \cup ICW1_ICW4)
                                    ELSE Out(c, "data", ByteOf(c, j))
  <2>1. CASE c = 1
    BY <1>2, <2>1 DEF PIC_remap, ByteOf
  <2>2. CASE c = 2
    BY <1>2, <2>2 DEF PIC_remap, ByteOf
  <2> QED BY <2>1, <2>2
<1> QED BY <1>3, <1>4

(* The kernel goes on with a function of the driver: no handler runs. *)
KernelRuns ==
  /\ Types /\ Booted
  /\ handling = None /\ prog["handler"] = <<>> /\ pic[1].isr = {} /\ pic[2].isr = {}

(* What a step of the kernel has to keep for the handler to find. *)
LEMMA KernelKeeps ==
  ASSUME KernelRuns, NEW s, NEW n, Moves("kernel", s, n),
         pic'[1].isr = {}, pic'[2].isr = {}
  PROVE  Handler'
<1>1. prog'["handler"] = <<>> /\ handling' = None
  BY DEF KernelRuns, Moves, Types, Contexts
<1> QED BY <1>1 DEF Handler

LEMMA RemapStep ==
  ASSUME KernelRuns, NEW n \in 1 .. 10, InRemap(n), Access("kernel")
  PROVE  IndInv'
<1> DEFINE j == (n - 1) \div 2
           c == IF n % 2 = 1 THEN 1 ELSE 2
           k == Sent(pic[c], c, j)
<1>1. j \in 0 .. 4 /\ c \in 1 .. 2 /\ n = 2 * j + c /\ "kernel" \in Contexts
  BY DEF Contexts
<1>2. Types /\ Booted
  BY DEF KernelRuns
<1>3. /\ (n + 1) \div 2 = IF c = 1 THEN j + 1 ELSE n \div 2
      /\ n \div 2 = IF c = 1 THEN j ELSE j + 1
      /\ ((n + 1) - 1) \div 2 = IF c = 2 THEN j + 1 ELSE j
      /\ (n + 1) \div 2 = j + 1
  BY DEF c
<1> HIDE DEF j, c
<1>4. Stage(pic[c], c, j) /\ pic[c] \in Controller
  <2>1. CASE c = 1
    BY <1>1, <1>2, <1>3, <2>1 DEF InRemap, Types
  <2>2. CASE c = 2
    BY <1>1, <1>2, <1>3, <2>2 DEF InRemap, Types, j
  <2> QED BY <1>1, <2>1, <2>2
<1>5. /\ k \in Controller /\ Stage(k, c, j + 1)
      /\ pic[c].isr = {} => k.isr = {}
      /\ CASCADE_IRQ \notin pic[c].irr => CASCADE_IRQ \notin k.irr
  BY <1>1, <1>4, StageStep
<1>6. Moves("kernel", PIC_remap, n) /\ value' = value /\ pic' = [pic EXCEPT ![c] = k]
  <2>1. /\ PIC_remap \in Seq(Operation) /\ n \in 1 .. Len(PIC_remap) /\ prog["kernel"] = From(PIC_remap, n)
        /\ PIC_remap[n] = IF j = 0 THEN Out(c, "command", ICW1_INIT \cup ICW1_ICW4)
                          ELSE Out(c, "data", ByteOf(c, j))
    BY <1>1, RemapBytes DEF InRemap
  <2>2. ICW1_INIT \cup ICW1_ICW4 \in Bytes /\ ByteOf(c, j) \in Bytes
    BY <1>1, ByteFacts DEF ByteOf
  <2>3. CASE j = 0
    <3>1. PIC_remap[n] = Out(c, "command", ICW1_INIT \cup ICW1_ICW4)
      BY <2>1, <2>3
    <3>2. /\ Moves("kernel", PIC_remap, n) /\ value' = value
          /\ pic' = [pic EXCEPT ![c] = Command(pic[c], ICW1_INIT \cup ICW1_ICW4)]
      BY <1>1, <1>2, <2>1, <2>2, <3>1, OutCommand
    <3> QED BY <2>3, <3>2 DEF Sent
  <2>4. CASE j # 0
    <3>1. PIC_remap[n] = Out(c, "data", ByteOf(c, j))
      BY <2>1, <2>4
    <3>2. /\ Moves("kernel", PIC_remap, n) /\ value' = value
          /\ pic' = [pic EXCEPT ![c] = Data(pic[c], ByteOf(c, j))]
      BY <1>1, <1>2, <2>1, <2>2, <3>1, OutData
    <3> QED BY <2>4, <3>2 DEF Sent
  <2> QED BY <2>3, <2>4
<1> HIDE DEF k
<1>7. pic' \in [1 .. 2 -> Controller] /\ pic'[c] = k /\ \A d \in 1 .. 2 : d # c => pic'[d] = pic[d]
  BY <1>1, <1>2, <1>5, <1>6 DEF Types
<1>8. Stage(pic'[1], 1, (n + 1) \div 2) /\ Stage(pic'[2], 2, ((n + 1) - 1) \div 2)
  <2>1. CASE c = 1
    <3>1. Stage(pic[2], 2, j) /\ pic'[2] = pic[2]
      BY <1>7, <2>1 DEF InRemap, j
    <3> QED BY <1>3, <1>5, <1>7, <2>1, <3>1
  <2>2. CASE c = 2
    <3>1. Stage(pic[1], 1, n \div 2) /\ pic'[1] = pic[1]
      BY <1>7, <2>2 DEF InRemap
    <3> QED BY <1>3, <1>5, <1>7, <2>2, <3>1
  <2> QED BY <1>1, <2>1, <2>2
<1>9. Types'
  BY <1>2, <1>6, <1>7 DEF Types, Moves
<1>10. Handler'
  <2>1. pic'[1].isr = {} /\ pic'[2].isr = {}
    BY <1>1, <1>5, <1>7 DEF KernelRuns
  <2> QED BY <1>6, <2>1, KernelKeeps
<1>11. /\ call' = "PIC_remap" /\ masked' = {} /\ prog'["kernel"] = From(PIC_remap, n + 1) /\ ~IF_flag'
       /\ CASCADE_IRQ \notin pic'[1].irr
  BY <1>1, <1>2, <1>5, <1>6, <1>7 DEF Moves, InRemap, Booted, Types
<1>12. CASE n < 10
  <2>1. n + 1 \in 1 .. 10 /\ From(PIC_remap, n + 1) # <<>>
    <3>1. n + 1 \in 1 .. Len(PIC_remap) /\ PIC_remap \in Seq(Operation)
      BY <1>12, RemapBytes
    <3> QED BY <1>12, <3>1, FromStep
  <2>2. InRemap(n + 1)'
    BY <1>8, <1>11 DEF InRemap
  <2>3. Kernel'
    BY <2>1, <2>2 DEF Kernel
  <2>4. Booted'
    BY <1>11, <2>1 DEF Booted, Remapping
  <2> QED BY <1>9, <1>10, <2>3, <2>4 DEF IndInv
<1>13. CASE n = 10
  <2>1. prog'["kernel"] = <<>>
    <3>1. From(PIC_remap, Len(PIC_remap) + 1) = <<>> /\ Len(PIC_remap) + 1 = n + 1
      BY <1>13, RemapBytes, FromEnds
    <3> QED BY <1>11, <3>1
  <2>2. Stage(pic'[1], 1, 5) /\ Stage(pic'[2], 2, 5)
    BY <1>8, <1>13
  <2>3. /\ pic'[1].imr = {} /\ pic'[2].imr = {} /\ Ready(pic'[1], 1) /\ Ready(pic'[2], 2)
    BY <2>2, WordFacts DEF Stage, Ready
  <2>4. Kernel'
    BY <1>11, <2>1, <2>3 DEF Kernel, NoCall, Mask
  <2>5. Booted'
    BY <1>11, <2>3 DEF Booted
  <2> QED BY <1>9, <1>10, <2>4, <2>5 DEF IndInv
<1> QED BY <1>12, <1>13

(* After PIC_remap a function of the driver changes masks and selections   *)
(* at most.                                                                *)
LEMMA KernelStep ==
  ASSUME KernelRuns, call # "boot", call # "PIC_remap", NEW s, NEW n, Moves("kernel", s, n),
         value' \in [Contexts -> [1 .. 2 -> Bytes]], pic' \in [1 .. 2 -> Controller],
         \A c \in 1 .. 2 : /\ pic'[c].isr = pic[c].isr /\ pic'[c].irr = pic[c].irr
                           /\ pic'[c].expects = pic[c].expects
                           /\ pic'[c].base = pic[c].base /\ pic'[c].cascade = pic[c].cascade
  PROVE  Types' /\ Booted' /\ Handler'
<1>1. Types'
  BY DEF KernelRuns, Types, Moves
<1>2. Handler'
  <2>1. pic'[1].isr = {} /\ pic'[2].isr = {}
    BY DEF KernelRuns
  <2> QED BY <2>1, KernelKeeps
<1>3. Booted'
  <2>1. Ready(pic'[1], 1) /\ Ready(pic'[2], 2) /\ CASCADE_IRQ \notin pic'[1].irr
    BY DEF KernelRuns, Booted, Remapping, Ready
  <2> QED BY <2>1 DEF KernelRuns, Booted, Moves
<1> QED BY <1>1, <1>2, <1>3

(* A mask is written. *)
LEMMA MaskStep ==
  ASSUME KernelRuns, call # "boot", call # "PIC_remap", NEW s, NEW n, Moves("kernel", s, n),
         value' = value, NEW c \in 1 .. 2, NEW b \in Bytes, pic' = [pic EXCEPT ![c] = Data(pic[c], b)]
  PROVE  /\ Types' /\ Booted' /\ Handler'
         /\ pic'[c].imr = b /\ \A d \in 1 .. 2 : d # c => pic'[d] = pic[d]
<1> DEFINE k == [pic[c] EXCEPT !.imr = b]
<1>1. pic[c] \in Controller /\ pic[c].expects = <<>> /\ pic \in [1 .. 2 -> Controller]
      /\ value \in [Contexts -> [1 .. 2 -> Bytes]]
  BY DEF KernelRuns, Booted, Remapping, Ready, Types
<1>2. Data(pic[c], b) = k
  BY <1>1, DataFacts
<1>3. /\ k \in Controller /\ k.imr = b /\ k.isr = pic[c].isr /\ k.irr = pic[c].irr
      /\ k.expects = pic[c].expects /\ k.base = pic[c].base /\ k.cascade = pic[c].cascade
  BY <1>1 DEF Controller
<1> HIDE DEF k
<1>4. pic' \in [1 .. 2 -> Controller] /\ pic'[c] = k /\ \A d \in 1 .. 2 : d # c => pic'[d] = pic[d]
  BY <1>1, <1>2, <1>3
<1>5. \A d \in 1 .. 2 : /\ pic'[d].isr = pic[d].isr /\ pic'[d].irr = pic[d].irr
                        /\ pic'[d].expects = pic[d].expects
                        /\ pic'[d].base = pic[d].base /\ pic'[d].cascade = pic[d].cascade
  BY <1>3, <1>4
<1>6. Types' /\ Booted' /\ Handler'
  BY <1>1, <1>4, <1>5, KernelStep
<1> QED BY <1>3, <1>4, <1>6

LEMMA DisableStep ==
  ASSUME KernelRuns, NEW n \in 1 .. 2, InDisable(n), Access("kernel")
  PROVE  IndInv'
<1>1. /\ PIC_disable \in Seq(Operation) /\ Len(PIC_disable) = 2 /\ 0 .. 7 \in Bytes
      /\ PIC_disable[n] = Out(n, "data", 0 .. 7)
  BY ByteFacts, OperationFacts DEF PIC_disable
<1>2. /\ Moves("kernel", PIC_disable, n) /\ value' = value
      /\ pic' = [pic EXCEPT ![n] = Data(pic[n], 0 .. 7)]
  <2>1. /\ Types /\ "kernel" \in Contexts /\ n \in 1 .. Len(PIC_disable)
        /\ prog["kernel"] = From(PIC_disable, n)
    BY <1>1 DEF InDisable, Contexts, KernelRuns
  <2> DEFINE b == 0 .. 7
  <2>2. b \in Bytes /\ PIC_disable[n] = Out(n, "data", b)
    BY <1>1
  <2> HIDE DEF b
  <2>3. /\ Moves("kernel", PIC_disable, n) /\ value' = value
        /\ pic' = [pic EXCEPT ![n] = Data(pic[n], b)]
    BY <1>1, <2>1, <2>2, OutData
  <2> QED BY <2>3 DEF b
<1>3. /\ Types' /\ Booted' /\ Handler'
      /\ pic'[n].imr = 0 .. 7 /\ \A d \in 1 .. 2 : d # n => pic'[d] = pic[d]
  <2>1. call = "PIC_disable"
    BY DEF InDisable
  <2> QED BY <1>1, <1>2, <2>1, MaskStep
<1>4. call' = "PIC_disable" /\ masked' = 0 .. 15 /\ prog'["kernel"] = From(PIC_disable, n + 1)
  BY <1>2 DEF Moves, InDisable, KernelRuns, Types, Contexts
<1>5. CASE n = 1
  <2>1. InDisable(2)'
    BY <1>3, <1>4, <1>5 DEF InDisable
  <2>2. Kernel'
    BY <2>1 DEF Kernel
  <2> QED BY <1>3, <2>2 DEF IndInv
<1>6. CASE n = 2
  <2>1. prog'["kernel"] = <<>>
    <3>1. From(PIC_disable, Len(PIC_disable) + 1) = <<>> /\ Len(PIC_disable) + 1 = n + 1
      BY <1>1, <1>6, FromEnds
    <3> QED BY <1>4, <3>1
  <2>2. pic'[1].imr = 0 .. 7 /\ pic'[2].imr = 0 .. 7
    BY <1>3, <1>6 DEF InDisable
  <2>3. (0 .. 7) \cup { 8 + l : l \in 0 .. 7 } = 0 .. 15
    <3>1. \A x \in 8 .. 15 : x - 8 \in 0 .. 7 /\ x = 8 + (x - 8)
      OBVIOUS
    <3> QED BY <3>1
  <2>4. Mask' = masked'
    BY <1>4, <2>2, <2>3 DEF Mask
  <2>5. Kernel'
    BY <1>4, <2>1, <2>4 DEF Kernel, NoCall
  <2> QED BY <1>3, <2>5 DEF IndInv
<1> QED BY <1>5, <1>6

LEMMA SetMaskStep ==
  ASSUME KernelRuns, NEW irq \in MaskIrqs, NEW n \in 1 .. 2, InMask(irq, n), Access("kernel")
  PROVE  IndInv'
<1> DEFINE c == Chip(irq)
           l == LineOf(irq)
           Set == call = "IRQ_set_mask"
           s == IF Set THEN IRQ_set_mask(irq) ELSE IRQ_clear_mask(irq)
<1>1. /\ irq \in 0 .. 15 /\ c \in 1 .. 2 /\ l \in 0 .. 7 /\ {l} \in Bytes /\ "kernel" \in Contexts
      /\ irq < 8 => c = 1 /\ l = irq
      /\ irq >= 8 => c = 2 /\ irq = 8 + l
  <2>1. irq \in 0 .. 15
    BY PicAssumption
  <2>2. /\ c \in 1 .. 2 /\ l \in 0 .. 7
        /\ irq < 8 => c = 1 /\ l = irq
        /\ irq >= 8 => c = 2 /\ l = irq - 8
    BY <2>1, Lines
  <2> HIDE DEF c, l
  <2>3. {l} \in Bytes
    BY <2>2 DEF Bytes
  <2>4. irq >= 8 => irq = 8 + l
    BY <2>1, <2>2
  <2> QED BY <2>1, <2>2, <2>3, <2>4 DEF Contexts
<1>2. /\ call # "boot" /\ call # "PIC_remap" /\ call # "pic_get_irr" /\ call \in {"IRQ_set_mask", "IRQ_clear_mask"}
      /\ prog["kernel"] = From(s, n)
      /\ masked = IF Set THEN Mask \cup {irq} ELSE Mask \ {irq}
      /\ n = 2 => value["kernel"][c] = pic[c].imr
  BY DEF InMask
<1>3. /\ s \in Seq(Operation) /\ Len(s) = 2 /\ s[1] = In(c, "data")
      /\ s[2] = IF Set THEN OutOr(c, {l}) ELSE OutAndNot(c, {l})
  <2> HIDE DEF c, l, Set
  <2>1. In(c, "data") \in Operation /\ OutOr(c, {l}) \in Operation /\ OutAndNot(c, {l}) \in Operation
    BY <1>1, OperationFacts
  <2>2. s = IF Set THEN <<In(c, "data"), OutOr(c, {l})>> ELSE <<In(c, "data"), OutAndNot(c, {l})>>
    BY DEF IRQ_set_mask, IRQ_clear_mask, c, l
  <2> HIDE DEF s
  <2> QED BY <2>1, <2>2
<1>4. Types /\ pic \in [1 .. 2 -> Controller] /\ value \in [Contexts -> [1 .. 2 -> Bytes]]
  BY DEF KernelRuns, Types
<1> HIDE DEF s, c, l
<1>5. CASE n = 1
  <2>1. /\ Moves("kernel", s, n) /\ pic' = pic
        /\ value' = [value EXCEPT !["kernel"][c] = pic[c].imr]
    <3>1. n \in 1 .. Len(s) /\ s[n] = In(c, "data")
      BY <1>3, <1>5
    <3> QED BY <1>1, <1>2, <1>3, <1>4, <3>1, InData
  <2>2. pic[c].imr \in Bytes
    BY <1>1, <1>4 DEF Controller
  <2>3. value' \in [Contexts -> [1 .. 2 -> Bytes]] /\ value'["kernel"][c] = pic[c].imr
    BY <1>1, <1>4, <2>1, <2>2
  <2>4. Types' /\ Booted' /\ Handler'
    BY <1>2, <1>4, <2>1, <2>3, KernelStep
  <2>5. call' = call /\ masked' = masked /\ prog'["kernel"] = From(s, 2) /\ Mask' = Mask
    BY <1>1, <1>5, <2>1 DEF Moves, Mask, KernelRuns, Types
  <2>6. InMask(irq, 2)'
    <3>1. CASE Set
      <4>1. s = IRQ_set_mask(irq) /\ masked' = Mask' \cup {irq}
        BY <1>2, <2>5, <3>1 DEF s
      <4> QED BY <2>1, <2>3, <2>5, <3>1, <4>1 DEF InMask, c
    <3>2. CASE ~Set
      <4>1. s = IRQ_clear_mask(irq) /\ masked' = Mask' \ {irq}
        BY <1>2, <2>5, <3>2 DEF s
      <4> QED BY <1>2, <2>1, <2>3, <2>5, <3>2, <4>1 DEF InMask, c
    <3> QED BY <3>1, <3>2
  <2>7. Kernel'
    BY <2>6 DEF Kernel
  <2> QED BY <2>4, <2>7 DEF IndInv
<1>6. CASE n = 2
  <2> DEFINE b == IF Set THEN pic[c].imr \cup {l} ELSE pic[c].imr \ {l}
  <2>1. n \in 1 .. Len(s) /\ value["kernel"][c] = pic[c].imr /\ pic[c].imr \in Bytes
    BY <1>1, <1>2, <1>3, <1>4, <1>6 DEF Controller
  <2>2. Moves("kernel", s, n) /\ value' = value /\ pic' = [pic EXCEPT ![c] = Data(pic[c], b)]
    <3>1. /\ Types /\ "kernel" \in Contexts /\ s \in Seq(Operation) /\ n \in 1 .. Len(s)
          /\ prog["kernel"] = From(s, n) /\ c \in 1 .. 2
      BY <1>1, <1>2, <1>3, <1>4, <2>1
    <3> DEFINE o == s[n].op
    <3>2. o \in {"or", "andnot"} /\ s[n].op = o /\ s[n].c = c /\ s[n].port = "data" /\ s[n].byte = {l}
          /\ (Set <=> o = "or")
      BY <1>3, <1>6 DEF OutOr, OutAndNot
    <3> HIDE DEF o
    <3>3. b = BackTo("kernel", s[n])
      BY <2>1, <3>2 DEF BackTo
    <3> HIDE DEF b, Set
    <3> QED BY <3>1, <3>2, <3>3, OutBack
  <2>3. b \in Bytes
    BY <1>1, <2>1 DEF Bytes
  <2>4. /\ Types' /\ Booted' /\ Handler'
        /\ pic'[c].imr = b /\ \A d \in 1 .. 2 : d # c => pic'[d] = pic[d]
    <3> HIDE DEF b
    <3> QED BY <1>1, <1>2, <2>2, <2>3, MaskStep
  <2>5. call' = call /\ masked' = masked /\ prog'["kernel"] = <<>>
    <3>1. From(s, Len(s) + 1) = <<>> /\ Len(s) + 1 = n + 1
      BY <1>3, <1>6, FromEnds
    <3>2. call' = call /\ masked' = masked /\ prog'["kernel"] = From(s, n + 1)
      BY <1>1, <2>2 DEF Moves, KernelRuns, Types
    <3> QED BY <3>1, <3>2
  <2>6. Mask' = masked'
    <3>1. pic[1].imr \subseteq 0 .. 7 /\ pic[2].imr \subseteq 0 .. 7
      BY <1>4 DEF Controller, Bytes
    <3>2. CASE irq < 8
      <4>1. c = 1 /\ l = irq /\ pic'[1].imr = b /\ pic'[2].imr = pic[2].imr
        BY <1>1, <2>4, <3>2
      <4>2. \A y \in pic[2].imr : 8 + y # irq
        BY <1>1, <3>1, <3>2
      <4> QED BY <1>2, <2>5, <4>1, <4>2 DEF Mask
    <3>3. CASE irq >= 8
      <4>1. c = 2 /\ irq = 8 + l /\ pic'[2].imr = b /\ pic'[1].imr = pic[1].imr
        BY <1>1, <2>4, <3>3
      <4>2. irq \notin pic[1].imr /\ \A y \in pic[2].imr : 8 + y = irq => y = l
        BY <1>1, <3>1, <3>3, <4>1
      <4>3. { 8 + y : y \in b } = IF Set THEN { 8 + y : y \in pic[2].imr } \cup {irq}
                                  ELSE { 8 + y : y \in pic[2].imr } \ {irq}
        BY <4>1, <4>2
      <4> HIDE DEF b
      <4> QED BY <1>2, <2>5, <4>1, <4>2, <4>3 DEF Mask
    <3> QED BY <1>1, <3>2, <3>3
  <2>7. Kernel'
    BY <1>2, <2>5, <2>6 DEF Kernel, NoCall
  <2> QED BY <2>4, <2>7 DEF IndInv
<1> QED BY <1>5, <1>6

------------------------------------------------------------------------------
(* Reading a register: the two selections, then the two reads.             *)

ReadWord(r) == IF r = "irr" THEN PIC_READ_IRR ELSE PIC_READ_ISR
Register(c, r) == IF r = "irr" THEN pic[c].irr ELSE pic[c].isr
Reads(p, r) ==
  /\ p \in Seq(Operation) /\ Len(p) = 4
  /\ p[1] = Out(1, "command", ReadWord(r)) /\ p[2] = Out(2, "command", ReadWord(r))
  /\ p[3].c \in 1 .. 2 /\ p[3] = In(p[3].c, "command") /\ p[4] = In(3 - p[3].c, "command")

(* Nothing but the selection of a controller is different. *)
SameButSelect ==
  /\ pic' \in [1 .. 2 -> Controller]
  /\ \A d \in 1 .. 2 : /\ pic'[d].isr = pic[d].isr /\ pic'[d].irr = pic[d].irr /\ pic'[d].imr = pic[d].imr
                       /\ pic'[d].expects = pic[d].expects
                       /\ pic'[d].base = pic[d].base /\ pic'[d].cascade = pic[d].cascade

LEMMA ReadAccesses ==
  ASSUME NEW r \in {"irr", "isr"}, NEW p \in pic_get_irq_reg(ReadWord(r))
  PROVE  Reads(p, r)
<1> DEFINE b == ReadWord(r)
<1>1. b \in Bytes
  BY ByteFacts DEF ReadWord
<1> HIDE DEF b
<1> DEFINE o == <<Out(1, "command", b), Out(2, "command", b)>>
           u == <<In(2, "command"), In(1, "command")>>
           j == <<In(1, "command"), In(2, "command")>>
<1>2. /\ Out(1, "command", b) \in Operation /\ Out(2, "command", b) \in Operation
      /\ In(1, "command") \in Operation /\ In(2, "command") \in Operation
  BY <1>1, OperationFacts
<1>3. In(1, "command").c = 1 /\ In(2, "command").c = 2
  BY DEF In
<1>4. /\ o \in Seq(Operation) /\ Len(o) = 2 /\ o[1] = Out(1, "command", b) /\ o[2] = Out(2, "command", b)
      /\ u \in Seq(Operation) /\ Len(u) = 2 /\ u[1] = In(2, "command") /\ u[2] = In(1, "command")
      /\ j \in Seq(Operation) /\ Len(j) = 2 /\ j[1] = In(1, "command") /\ j[2] = In(2, "command")
  BY <1>2
<1>5. p = o \o u \/ p = o \o j
  BY DEF pic_get_irq_reg, b
<1> HIDE DEF o, u, j
<1>6. ASSUME NEW q \in Seq(Operation), Len(q) = 2, p = o \o q
      PROVE  p \in Seq(Operation) /\ Len(p) = 4 /\ p[1] = o[1] /\ p[2] = o[2] /\ p[3] = q[1] /\ p[4] = q[2]
  <2>1. o \in Seq(Operation) /\ q \in Seq(Operation)
    BY <1>4
  <2>2. /\ o \o q \in Seq(Operation) /\ Len(o \o q) = Len(o) + Len(q)
        /\ \A h \in 1 .. Len(o) + Len(q) :
             (o \o q)[h] = IF h <= Len(o) THEN o[h] ELSE q[h - Len(o)]
    BY <2>1, ConcatProperties
  <2>3. Len(o) = 2 /\ Len(q) = 2
    BY <1>4, <1>6
  <2> HIDE DEF o
  <2> QED BY <1>6, <2>2, <2>3
<1>7. CASE p = o \o u
  <2>1. p \in Seq(Operation) /\ Len(p) = 4 /\ p[1] = o[1] /\ p[2] = o[2] /\ p[3] = u[1] /\ p[4] = u[2]
    BY <1>4, <1>6, <1>7
  <2>2. p[3].c = 2
    BY <1>3, <1>4, <2>1
  <2> QED BY <1>4, <2>1, <2>2 DEF Reads, b
<1>8. CASE p = o \o j
  <2>1. p \in Seq(Operation) /\ Len(p) = 4 /\ p[1] = o[1] /\ p[2] = o[2] /\ p[3] = j[1] /\ p[4] = j[2]
    BY <1>4, <1>6, <1>8
  <2>2. p[3].c = 1
    BY <1>3, <1>4, <2>1
  <2> QED BY <1>4, <2>1, <2>2 DEF Reads, b
<1> QED BY <1>5, <1>7, <1>8

LEMMA SelectStep ==
  ASSUME Types, NEW x \in Contexts, NEW s \in Seq(Operation), NEW n \in 1 .. Len(s),
         prog[x] = From(s, n), Access(x), NEW c \in 1 .. 2, NEW r \in {"irr", "isr"},
         s[n] = Out(c, "command", ReadWord(r))
  PROVE  /\ Moves(x, s, n) /\ value' = value /\ SameButSelect
         /\ pic'[c].select = r /\ \A d \in 1 .. 2 : d # c => pic'[d] = pic[d]
<1> DEFINE k == [pic[c] EXCEPT !.select = r]
<1>1. pic \in [1 .. 2 -> Controller] /\ pic[c] \in Controller
  BY DEF Types
<1>2. ReadWord(r) \in Bytes
  BY ByteFacts DEF ReadWord
<1>3. Moves(x, s, n) /\ value' = value /\ pic' = [pic EXCEPT ![c] = Command(pic[c], ReadWord(r))]
  BY <1>2, OutCommand
<1>4. Command(pic[c], ReadWord(r)) = k
  BY <1>1, CommandFacts DEF ReadWord
<1>5. /\ k \in Controller /\ k.select = r /\ k.isr = pic[c].isr /\ k.irr = pic[c].irr /\ k.imr = pic[c].imr
      /\ k.expects = pic[c].expects /\ k.base = pic[c].base /\ k.cascade = pic[c].cascade
  BY <1>1 DEF Controller
<1> HIDE DEF k
<1>6. pic' \in [1 .. 2 -> Controller] /\ pic'[c] = k /\ \A d \in 1 .. 2 : d # c => pic'[d] = pic[d]
  BY <1>1, <1>3, <1>4, <1>5
<1> QED BY <1>3, <1>5, <1>6 DEF SameButSelect

LEMMA RegisterStep ==
  ASSUME Types, NEW x \in Contexts, NEW s \in Seq(Operation), NEW n \in 1 .. Len(s),
         prog[x] = From(s, n), Access(x), NEW c \in 1 .. 2, NEW r \in {"irr", "isr"},
         s[n] = In(c, "command"), pic[c].select = r
  PROVE  /\ Moves(x, s, n) /\ pic' = pic /\ SameButSelect
         /\ value' \in [Contexts -> [1 .. 2 -> Bytes]]
         /\ value'[x][c] = Register(c, r) /\ \A d \in 1 .. 2 : d # c => value'[x][d] = value[x][d]
         /\ \A y \in Contexts : y # x => value'[y] = value[y]
<1>1. Moves(x, s, n) /\ pic' = pic /\ value' = [value EXCEPT ![x][c] = pic[c][pic[c].select]]
  BY InCommand
<1>2. /\ pic \in [1 .. 2 -> Controller] /\ pic[c] \in Controller
      /\ value \in [Contexts -> [1 .. 2 -> Bytes]]
  BY DEF Types
<1> DEFINE v == pic[c][pic[c].select]
<1>3. v = Register(c, r) /\ v \in Bytes
  BY <1>2 DEF Register, Controller
<1> HIDE DEF v
<1>4. value' = [value EXCEPT ![x][c] = v]
  BY <1>1 DEF v
<1>5. /\ value' \in [Contexts -> [1 .. 2 -> Bytes]] /\ value'[x][c] = v
      /\ \A d \in 1 .. 2 : d # c => value'[x][d] = value[x][d]
      /\ \A y \in Contexts : y # x => value'[y] = value[y]
  BY <1>2, <1>3, <1>4
<1>6. SameButSelect
  BY <1>1, <1>2 DEF SameButSelect
<1> QED BY <1>1, <1>3, <1>5, <1>6

LEMMA ReadStep ==
  ASSUME KernelRuns, NEW p \in pic_get_irr, NEW n \in 1 .. 4, InRead(p, n), Access("kernel")
  PROVE  IndInv'
<1>1. Reads(p, "irr")
  <2>1. p \in pic_get_irq_reg(ReadWord("irr"))
    BY DEF pic_get_irr, ReadWord
  <2> QED BY <2>1, ReadAccesses
<1> DEFINE c == p[3].c
<1>2. /\ Types /\ "kernel" \in Contexts /\ p \in Seq(Operation) /\ n \in 1 .. Len(p)
      /\ prog["kernel"] = From(p, n) /\ c \in 1 .. 2 /\ 3 - c \in 1 .. 2
  BY <1>1 DEF KernelRuns, Contexts, Reads, InRead
<1>3. /\ call = "pic_get_irr" /\ masked = Mask /\ (n >= 2 => pic[1].select = "irr")
      /\ (n >= 3 => pic[2].select = "irr") /\ (n = 4 => value["kernel"][c] \subseteq pic[c].irr)
      /\ value \in [Contexts -> [1 .. 2 -> Bytes]]
  BY <1>2 DEF InRead, Types
<1>4. /\ p[1] = Out(1, "command", ReadWord("irr")) /\ p[2] = Out(2, "command", ReadWord("irr"))
      /\ p[3] = In(c, "command") /\ p[4] = In(3 - c, "command")
  BY <1>1 DEF Reads
<1>5. ASSUME Moves("kernel", p, n), SameButSelect, value' \in [Contexts -> [1 .. 2 -> Bytes]]
      PROVE  /\ Types' /\ Booted' /\ Handler' /\ Mask' = Mask /\ masked' = masked /\ call' = call
             /\ prog'["kernel"] = From(p, n + 1)
             /\ \A d \in 1 .. 2 : pic'[d].irr = pic[d].irr
  <2>1. Types' /\ Booted' /\ Handler'
    BY <1>3, <1>5, KernelStep DEF SameButSelect
  <2>2. Mask' = Mask
    BY <1>5 DEF Mask, SameButSelect
  <2>3. masked' = masked /\ call' = call /\ prog'["kernel"] = From(p, n + 1)
    BY <1>2, <1>5 DEF Moves, Types
  <2> QED BY <1>5, <2>1, <2>2, <2>3 DEF SameButSelect
<1>6. CASE n = 1
  <2>1. /\ Moves("kernel", p, n) /\ value' = value /\ SameButSelect /\ pic'[1].select = "irr"
    <3>1. p[n] = Out(1, "command", ReadWord("irr"))
      BY <1>4, <1>6
    <3> QED BY <1>2, <3>1, SelectStep
  <2>2. InRead(p, 2)'
    BY <1>3, <1>5, <1>6, <2>1 DEF InRead
  <2>3. Kernel'
    BY <2>2 DEF Kernel
  <2> QED BY <1>3, <1>5, <2>1, <2>3 DEF IndInv
<1>7. CASE n = 2
  <2>1. /\ Moves("kernel", p, n) /\ value' = value /\ SameButSelect /\ pic'[2].select = "irr"
        /\ pic'[1] = pic[1]
    <3>1. p[n] = Out(2, "command", ReadWord("irr"))
      BY <1>4, <1>7
    <3> QED BY <1>2, <3>1, SelectStep
  <2>2. InRead(p, 3)'
    BY <1>3, <1>5, <1>7, <2>1 DEF InRead
  <2>3. Kernel'
    BY <2>2 DEF Kernel
  <2> QED BY <1>3, <1>5, <2>1, <2>3 DEF IndInv
<1>8. CASE n = 3
  <2>1. /\ Moves("kernel", p, n) /\ pic' = pic /\ SameButSelect /\ value' \in [Contexts -> [1 .. 2 -> Bytes]]
        /\ value'["kernel"][c] = Register(c, "irr")
    <3>1. p[n] = In(c, "command") /\ pic[c].select = "irr"
      BY <1>2, <1>3, <1>4, <1>8
    <3> HIDE DEF c
    <3> QED BY <1>2, <3>1, RegisterStep
  <2>2. InRead(p, 4)'
    BY <1>2, <1>3, <1>5, <1>8, <2>1 DEF InRead, Register
  <2>3. Kernel'
    BY <2>2 DEF Kernel
  <2> QED BY <1>5, <2>1, <2>3 DEF IndInv
<1>9. CASE n = 4
  <2> DEFINE d == 3 - c
  <2> HIDE DEF c
  <2>0. d \in 1 .. 2 /\ d # c /\ \A y \in 1 .. 2 : y = c \/ y = d
    BY <1>2
  <2> HIDE DEF d
  <2>1. /\ Moves("kernel", p, n) /\ pic' = pic /\ SameButSelect /\ value' \in [Contexts -> [1 .. 2 -> Bytes]]
        /\ value'["kernel"][d] = Register(d, "irr")
        /\ \A y \in 1 .. 2 : y # d => value'["kernel"][y] = value["kernel"][y]
    <3>1. p[n] = In(d, "command") /\ pic[d].select = "irr"
      BY <1>2, <1>3, <1>4, <1>9, <2>0 DEF d
    <3> QED BY <1>2, <2>0, <3>1, RegisterStep
  <2>2. \A y \in 1 .. 2 : value'["kernel"][y] \subseteq pic'[y].irr
    BY <1>2, <1>3, <1>9, <2>0, <2>1 DEF Register
  <2>3. prog'["kernel"] = <<>>
    <3>1. From(p, Len(p) + 1) = <<>> /\ Len(p) + 1 = n + 1
      BY <1>1, <1>9, FromEnds DEF Reads
    <3> QED BY <1>5, <2>1, <3>1
  <2>4. Kernel'
    BY <1>3, <1>5, <2>1, <2>2, <2>3 DEF Kernel, NoCall
  <2> QED BY <1>5, <2>1, <2>4 DEF IndInv
<1> QED BY <1>6, <1>7, <1>8, <1>9

LEMMA KernelAccess ==
  ASSUME IndInv, Access("kernel")
  PROVE  IndInv'
<1>1. prog["kernel"] # <<>> /\ handling = None
  BY DEF Access
<1>2. KernelRuns
  BY <1>1 DEF KernelRuns, IndInv, Handler
<1>3. ~NoCall
  BY <1>1 DEF NoCall
<1>4. CASE \E n \in 1 .. 10 : InRemap(n)
  BY <1>2, <1>4, RemapStep
<1>5. CASE \E n \in 1 .. 2 : InDisable(n)
  BY <1>2, <1>5, DisableStep
<1>6. CASE \E irq \in MaskIrqs, n \in 1 .. 2 : InMask(irq, n)
  BY <1>2, <1>6, SetMaskStep
<1>7. CASE \E p \in pic_get_irr, n \in 1 .. 4 : InRead(p, n)
  BY <1>2, <1>7, ReadStep
<1> QED BY <1>3, <1>4, <1>5, <1>6, <1>7 DEF IndInv, Kernel

------------------------------------------------------------------------------
(* The handler.                                                            *)

(* Nothing but the selection and the lines in service is different. *)
SameForKernel ==
  /\ pic' \in [1 .. 2 -> Controller]
  /\ \A d \in 1 .. 2 : /\ pic'[d].irr = pic[d].irr /\ pic'[d].imr = pic[d].imr
                       /\ pic'[d].expects = pic[d].expects
                       /\ pic'[d].base = pic[d].base /\ pic'[d].cascade = pic[d].cascade

LEMMA EoiStep ==
  ASSUME Types, NEW x \in Contexts, NEW s \in Seq(Operation), NEW n \in 1 .. Len(s),
         prog[x] = From(s, n), Access(x), NEW c \in 1 .. 2,
         s[n] = Out(c, "command", PIC_EOI), pic[c].isr = {} \/ \E l \in 0 .. 7 : pic[c].isr = {l}
  PROVE  /\ Moves(x, s, n) /\ value' = value /\ SameForKernel
         /\ pic'[c].isr = {} /\ pic'[c].select = pic[c].select
         /\ \A d \in 1 .. 2 : d # c => pic'[d] = pic[d]
<1> DEFINE k == [pic[c] EXCEPT !.isr = {}]
<1>1. pic \in [1 .. 2 -> Controller] /\ pic[c] \in Controller
  BY DEF Types
<1>2. PIC_EOI \in Bytes /\ {} \in Bytes
  BY ByteFacts
<1>3. Moves(x, s, n) /\ value' = value /\ pic' = [pic EXCEPT ![c] = Command(pic[c], PIC_EOI)]
  BY <1>2, OutCommand
<1>4. Command(pic[c], PIC_EOI) = k
  <2>1. CASE pic[c].isr = {}
    <3>1. Command(pic[c], PIC_EOI) = pic[c]
      BY <1>1, <2>1, CommandFacts
    <3>2. k = pic[c]
      BY <1>1, <2>1 DEF Controller
    <3> QED BY <3>1, <3>2
  <2>2. CASE \E l \in 0 .. 7 : pic[c].isr = {l}
    BY <1>1, <2>2, CommandFacts
  <2> QED BY <2>1, <2>2
<1>5. /\ k \in Controller /\ k.isr = {} /\ k.irr = pic[c].irr /\ k.imr = pic[c].imr /\ k.select = pic[c].select
      /\ k.expects = pic[c].expects /\ k.base = pic[c].base /\ k.cascade = pic[c].cascade
  BY <1>1, <1>2 DEF Controller
<1> HIDE DEF k
<1>6. pic' \in [1 .. 2 -> Controller] /\ pic'[c] = k /\ \A d \in 1 .. 2 : d # c => pic'[d] = pic[d]
  BY <1>1, <1>3, <1>4, <1>5
<1> QED BY <1>3, <1>5, <1>6 DEF SameForKernel

LEMMA EoiAccesses ==
  ASSUME NEW irq \in 0 .. 15
  PROVE  /\ PIC_sendEOI(irq) \in Seq(Operation)
         /\ irq < 8 => /\ Len(PIC_sendEOI(irq)) = 1
                       /\ PIC_sendEOI(irq)[1] = Out(1, "command", PIC_EOI)
         /\ irq >= 8 => /\ Len(PIC_sendEOI(irq)) = 2
                        /\ PIC_sendEOI(irq)[1] = Out(2, "command", PIC_EOI)
                        /\ PIC_sendEOI(irq)[2] = Out(1, "command", PIC_EOI)
<1> DEFINE o == Out(1, "command", PIC_EOI)
           t == Out(2, "command", PIC_EOI)
<1>1. o \in Operation /\ t \in Operation
  BY ByteFacts, OperationFacts
<1>2. PIC_sendEOI(irq) = (IF irq >= 8 THEN <<t>> ELSE <<>>) \o <<o>>
  BY DEF PIC_sendEOI
<1> HIDE DEF o, t
<1>3. <<>> \o <<o>> = <<o>> /\ <<t>> \o <<o>> = <<t, o>>
  <2>1. <<o>> \in Seq(Operation)
    BY <1>1
  <2>2. <<>> \o <<o>> = <<o>>
    BY <2>1, ConcatEmptySeq
  <2>3. <<t>> \o <<o>> = <<t, o>>
    <3> DEFINE x == <<t>>
               y == <<o>>
               z == x \o y
    <3>1. /\ x \in Seq(Operation) /\ Len(x) = 1 /\ x[1] = t
          /\ y \in Seq(Operation) /\ Len(y) = 1 /\ y[1] = o
          /\ <<t, o>> \in Seq(Operation) /\ Len(<<t, o>>) = 2 /\ <<t, o>>[1] = t /\ <<t, o>>[2] = o
      BY <1>1
    <3> HIDE DEF x, y
    <3>2. /\ z \in Seq(Operation) /\ Len(z) = Len(x) + Len(y)
          /\ \A u \in 1 .. Len(x) + Len(y) : z[u] = IF u <= Len(x) THEN x[u] ELSE y[u - Len(x)]
      BY <3>1, ConcatProperties
    <3> HIDE DEF z
    <3>3. Len(z) = 2 /\ z[1] = t /\ z[2] = o
      BY <3>1, <3>2
    <3>4. Len(z) = Len(<<t, o>>) /\ \A u \in 1 .. Len(z) : z[u] = <<t, o>>[u]
      BY <3>1, <3>3
    <3>5. z = <<t, o>>
      BY <3>1, <3>2, <3>4, SeqEqual
    <3> QED BY <3>5 DEF x, y, z
  <2> QED BY <2>2, <2>3
<1>4. CASE irq < 8
  <2>1. PIC_sendEOI(irq) = <<o>>
    <3>1. (IF irq >= 8 THEN <<t>> ELSE <<>>) = <<>>
      BY <1>4
    <3> QED BY <1>2, <1>3, <3>1
  <2> QED BY <1>1, <1>4, <2>1 DEF o
<1>5. CASE irq >= 8
  <2>1. PIC_sendEOI(irq) = <<t, o>>
    BY <1>2, <1>3, <1>5
  <2> QED BY <1>1, <1>5, <2>1 DEF o, t
<1> QED BY <1>4, <1>5

(* The accesses of a handler: it looks, or does not, and sends the EOIs. *)
LEMMA HandlerAccesses ==
  ASSUME NEW irq \in 0 .. 15, NEW look \in pic_get_isr \cup {<<>>}
  PROVE  LET a == Len(look)
             s == look \o PIC_sendEOI(irq)
         IN  /\ look \in Seq(Operation) /\ s \in Seq(Operation)
             /\ Len(s) = a + (IF irq < 8 THEN 1 ELSE 2) /\ Len(s) = a + Len(PIC_sendEOI(irq))
             /\ a \in {0, 4} /\ (a = 0 <=> look = <<>>)
             /\ a = 4 => Reads(look, "isr") /\ \A u \in 1 .. 4 : s[u] = look[u]
             /\ irq < 8 => s[a + 1] = Out(1, "command", PIC_EOI)
             /\ irq >= 8 => s[a + 1] = Out(2, "command", PIC_EOI) /\ s[a + 2] = Out(1, "command", PIC_EOI)
<1> DEFINE a == Len(look)
           e == PIC_sendEOI(irq)
           s == look \o e
<1>1. /\ look \in Seq(Operation) /\ a \in {0, 4} /\ (a = 0 <=> look = <<>>)
      /\ a = 4 => Reads(look, "isr")
  <2>1. CASE look = <<>>
    BY <2>1, EmptySeq
  <2>2. CASE look \in pic_get_isr
    <3>1. look \in pic_get_irq_reg(ReadWord("isr"))
      BY <2>2 DEF pic_get_isr, ReadWord
    <3>2. Reads(look, "isr")
      BY <3>1, ReadAccesses
    <3>3. look \in Seq(Operation) /\ Len(look) = 4
      BY <3>2 DEF Reads
    <3>4. look # <<>>
      BY <3>3, EmptySeq
    <3> QED BY <3>2, <3>3, <3>4
  <2> QED BY <2>1, <2>2
<1>2. /\ e \in Seq(Operation) /\ Len(e) = IF irq < 8 THEN 1 ELSE 2
      /\ irq < 8 => e[1] = Out(1, "command", PIC_EOI)
      /\ irq >= 8 => e[1] = Out(2, "command", PIC_EOI) /\ e[2] = Out(1, "command", PIC_EOI)
  <2>1. /\ e \in Seq(Operation)
        /\ irq < 8 => Len(e) = 1 /\ e[1] = Out(1, "command", PIC_EOI)
        /\ irq >= 8 => /\ Len(e) = 2 /\ e[1] = Out(2, "command", PIC_EOI)
                       /\ e[2] = Out(1, "command", PIC_EOI)
    BY EoiAccesses
  <2> HIDE DEF e
  <2> QED BY <2>1
<1> HIDE DEF e
<1>3. /\ s \in Seq(Operation) /\ Len(s) = Len(look) + Len(e)
      /\ \A u \in 1 .. Len(look) + Len(e) : s[u] = IF u <= Len(look) THEN look[u] ELSE e[u - Len(look)]
  BY <1>1, <1>2, ConcatProperties, SMTT(30)
<1> HIDE DEF s, a
<1>4. a \in Nat /\ a = Len(look)
  BY <1>1 DEF a
<1>5. /\ a = 4 => \A u \in 1 .. 4 : s[u] = look[u]
      /\ s[a + 1] = e[1] /\ (irq >= 8 => s[a + 2] = e[2])
  <2>1. a = 4 => \A u \in 1 .. 4 : s[u] = look[u]
    BY <1>2, <1>3, <1>4
  <2>2. a + 1 \in 1 .. a + Len(e) /\ ~(a + 1 <= a) /\ (a + 1) - a = 1
    BY <1>2, <1>4
  <2>3. irq >= 8 => a + 2 \in 1 .. a + Len(e) /\ ~(a + 2 <= a) /\ (a + 2) - a = 2
    BY <1>2, <1>4
  <2>4. s[a + 1] = e[1]
    BY <1>3, <1>4, <2>2
  <2>5. irq >= 8 => s[a + 2] = e[2]
    BY <1>3, <1>4, <2>3
  <2> QED BY <2>1, <2>4, <2>5
<1>6. Len(s) = a + (IF irq < 8 THEN 1 ELSE 2) /\ Len(s) = a + Len(e)
  BY <1>2, <1>3, <1>4
<1> QED BY <1>1, <1>2, <1>3, <1>5, <1>6 DEF a, s, e

(* What the kernel is in the middle of when interrupts are on is not       *)
(* disturbed by what an interrupt does to the controllers.                 *)
LEMMA KernelKept ==
  ASSUME Types, Booted, Kernel, IF_flag,
         prog'["kernel"] = prog["kernel"], UNCHANGED <<IF_flag, call, masked>>,
         value'["kernel"] = value["kernel"], CASCADE_IRQ \notin pic'[1].irr,
         \A d \in 1 .. 2 : /\ pic'[d].imr = pic[d].imr /\ pic'[d].expects = pic[d].expects
                           /\ pic'[d].base = pic[d].base /\ pic'[d].cascade = pic[d].cascade
  PROVE  Booted' /\ Kernel'
<1>1. Booted'
  <2>1. Ready(pic[1], 1) /\ Ready(pic[2], 2) => Ready(pic'[1], 1) /\ Ready(pic'[2], 2)
    BY DEF Ready
  <2> QED BY <2>1 DEF Booted, Remapping
<1>2. Mask' = Mask
  BY DEF Mask
<1>3. call \notin {"boot", "PIC_remap", "pic_get_irr"}
  BY DEF Booted
<1>4. CASE NoCall
  <2>1. NoCall'
    BY <1>2, <1>3, <1>4 DEF NoCall
  <2> QED BY <1>1, <2>1 DEF Kernel
<1>5. ASSUME NEW u \in 1 .. 2, InDisable(u)
      PROVE  Kernel'
  <2>1. InDisable(u)'
    BY <1>5 DEF InDisable
  <2> QED BY <2>1 DEF Kernel
<1>6. ASSUME NEW irq \in MaskIrqs, NEW u \in 1 .. 2, InMask(irq, u)
      PROVE  Kernel'
  <2>1. Chip(irq) \in 1 .. 2
    BY PicAssumption, Lines
  <2>2. InMask(irq, u)'
    BY <1>2, <1>6, <2>1 DEF InMask
  <2> QED BY <2>2 DEF Kernel
<1>7. (\A u \in 1 .. 10 : ~InRemap(u)) /\ \A p \in pic_get_irr, u \in 1 .. 4 : ~InRead(p, u)
  BY <1>3 DEF InRemap, InRead
<1>8. Kernel'
  BY <1>4, <1>5, <1>6, <1>7 DEF Kernel
<1> QED BY <1>1, <1>8

LEMMA HandlerKeeps ==
  ASSUME Types, Booted, Kernel, IF_flag, NEW s, NEW n, Moves("handler", s, n), SameForKernel,
         value' \in [Contexts -> [1 .. 2 -> Bytes]], value'["kernel"] = value["kernel"]
  PROVE  Types' /\ Booted' /\ Kernel'
<1>1. prog'["kernel"] = prog["kernel"] /\ UNCHANGED <<IF_flag, call, masked>>
  BY DEF Moves, Types, Contexts
<1>2. Types'
  BY DEF Types, Moves, SameForKernel
<1>3. CASCADE_IRQ \notin pic'[1].irr
  BY DEF Booted, SameForKernel
<1>4. \A d \in 1 .. 2 : /\ pic'[d].imr = pic[d].imr /\ pic'[d].expects = pic[d].expects
                        /\ pic'[d].base = pic[d].base /\ pic'[d].cascade = pic[d].cascade
  BY DEF SameForKernel
<1> QED BY <1>1, <1>2, <1>3, <1>4, KernelKept

LEMMA HandlerAccess ==
  ASSUME IndInv, Access("handler")
  PROVE  IndInv'
<1> DEFINE irq == handling.irq
           real == handling.real
<1>1. /\ Types /\ Booted /\ Kernel /\ IF_flag /\ handling # None /\ irq \in 0 .. 15 /\ real \in BOOLEAN
      /\ Number(handling.vector[1]) + handling.vector[2] = Number(Offset1) + irq
      /\ \E look \in pic_get_isr \cup {<<>>} :
          \E n \in 1 .. (Len(look) + Len(PIC_sendEOI(irq)) + 1) : InHandler(look, n)
  BY DEF IndInv, Handler, Access
<1>2. PICK look \in pic_get_isr \cup {<<>>} :
          \E n \in 1 .. (Len(look) + Len(PIC_sendEOI(irq)) + 1) : InHandler(look, n)
  BY <1>1
<1>3. PICK n \in 1 .. (Len(look) + Len(PIC_sendEOI(irq)) + 1) : InHandler(look, n)
  BY <1>2
<1> DEFINE a == Len(look)
           s == look \o PIC_sendEOI(irq)
<1>4. /\ look \in Seq(Operation) /\ s \in Seq(Operation)
      /\ Len(s) = a + (IF irq < 8 THEN 1 ELSE 2) /\ Len(s) = a + Len(PIC_sendEOI(irq))
      /\ a \in {0, 4} /\ (a = 0 <=> look = <<>>)
      /\ a = 4 => Reads(look, "isr") /\ \A u \in 1 .. 4 : s[u] = look[u]
      /\ irq < 8 => s[a + 1] = Out(1, "command", PIC_EOI)
      /\ irq >= 8 => s[a + 1] = Out(2, "command", PIC_EOI) /\ s[a + 2] = Out(1, "command", PIC_EOI)
  BY <1>1, HandlerAccesses
<1>5. /\ handling.looks = (look # <<>>) /\ prog["handler"] = From(s, n) /\ InService(pic, irq, real, n - a)
      /\ a = 4 => /\ n >= 2 => pic[1].select = "isr"
                  /\ n >= 3 => pic[2].select = "isr"
                  /\ n = 4 => value["handler"][look[3].c] = pic[look[3].c].isr
                  /\ n >= 5 => (LineOf(irq) \in value["handler"][Chip(irq)] <=> real)
  BY <1>3 DEF InHandler
<1> HIDE DEF a, s, irq, real
<1>6. n \in 1 .. Len(s) /\ "handler" \in Contexts /\ n \in 1 .. (Len(s) + 1)
  <2>1. n \in 1 .. (Len(s) + 1)
    BY <1>3, <1>4 DEF a
  <2>2. n # Len(s) + 1
    <3>1. From(s, Len(s) + 1) = <<>>
      BY <1>4, FromEnds
    <3>2. prog["handler"] # <<>>
      BY DEF Access
    <3> QED BY <1>5, <3>1, <3>2
  <2>3. Len(s) \in Nat
    BY <1>4
  <2> QED BY <2>1, <2>2, <2>3 DEF Contexts
<1>7. value \in [Contexts -> [1 .. 2 -> Bytes]] /\ pic \in [1 .. 2 -> Controller]
  BY <1>1 DEF Types
<1>8. /\ Chip(irq) \in 1 .. 2 /\ LineOf(irq) \in 0 .. 7
      /\ irq < 8 => Chip(irq) = 1 /\ LineOf(irq) = irq
      /\ irq >= 8 => Chip(irq) = 2 /\ LineOf(irq) = irq - 8
  BY <1>1, Lines
<1>12. Types /\ s \in Seq(Operation) /\ prog["handler"] = From(s, n)
  BY <1>1, <1>4, <1>5
(* What remains to be shown of each access. *)
<1>9. ASSUME Moves("handler", s, n), SameForKernel,
             value' \in [Contexts -> [1 .. 2 -> Bytes]], value'["kernel"] = value["kernel"],
             InService(pic', irq, real, n + 1 - a),
             a = 4 => /\ n + 1 >= 2 => pic'[1].select = "isr"
                      /\ n + 1 >= 3 => pic'[2].select = "isr"
                      /\ n + 1 = 4 => value'["handler"][look[3].c] = pic'[look[3].c].isr
                      /\ n + 1 >= 5 => (LineOf(irq) \in value'["handler"][Chip(irq)] <=> real)
      PROVE  IndInv'
  <2>1. Types' /\ Booted' /\ Kernel'
    BY <1>1, <1>9, HandlerKeeps
  <2>2. handling' = handling /\ IF_flag' = IF_flag /\ prog'["handler"] = From(s, n + 1)
    BY <1>1, <1>6, <1>9 DEF Moves, Types
  <2>3. InHandler(look, n + 1)'
    BY <1>5, <1>9, <2>2 DEF InHandler, a, s, irq, real
  <2>4. n + 1 \in 1 .. (Len(look) + Len(PIC_sendEOI(irq)) + 1)
    BY <1>4, <1>6 DEF a
  <2>5. \E l \in pic_get_isr \cup {<<>>} :
          \E u \in 1 .. (Len(l) + Len(PIC_sendEOI(handling'.irq)) + 1) : InHandler(l, u)'
    BY <2>2, <2>3, <2>4 DEF irq
  <2>6. Handler'
    BY <1>1, <2>2, <2>5 DEF Handler, irq, real
  <2> QED BY <2>1, <2>6 DEF IndInv
<1>10. CASE n <= a
  <2>1. a = 4 /\ n \in 1 .. 4 /\ Reads(look, "isr") /\ s[n] = look[n]
    BY <1>4, <1>6, <1>10
  <2>2. ASSUME SameButSelect
        PROVE  SameForKernel /\ InService(pic', irq, real, n + 1 - a)
    <3>1. SameForKernel /\ pic'[1].isr = pic[1].isr /\ pic'[2].isr = pic[2].isr
      BY <2>2 DEF SameButSelect, SameForKernel
    <3>2. n - a <= 0 /\ n + 1 - a <= 1
      BY <1>10, <2>1
    <3>3. /\ pic[2].isr = IF irq >= 8 /\ real THEN {LineOf(irq)} ELSE {}
          /\ pic[1].isr = IF irq < 8 THEN (IF real THEN {irq} ELSE {}) ELSE {CASCADE_IRQ}
      BY <1>5, <2>1, <3>2 DEF InService
    <3> QED BY <2>1, <3>1, <3>2, <3>3 DEF InService
  <2> DEFINE c == look[3].c
             d == 3 - c
  <2>3. /\ look[1] = Out(1, "command", ReadWord("isr")) /\ look[2] = Out(2, "command", ReadWord("isr"))
        /\ c \in 1 .. 2 /\ look[3] = In(c, "command") /\ look[4] = In(d, "command")
    BY <2>1 DEF Reads
  <2> HIDE DEF c, d
  <2>4. d \in 1 .. 2 /\ d # c /\ \A y \in 1 .. 2 : y = c \/ y = d
    BY <2>3 DEF d
  <2>5. CASE n = 1
    <3>1. s[n] = Out(1, "command", ReadWord("isr"))
      BY <2>1, <2>3, <2>5
    <3>2. Moves("handler", s, n) /\ value' = value /\ SameButSelect /\ pic'[1].select = "isr"
      BY <1>6, <1>12, <3>1, SelectStep
    <3> QED BY <1>7, <1>9, <2>1, <2>2, <2>5, <3>2
  <2>6. CASE n = 2
    <3>1. s[n] = Out(2, "command", ReadWord("isr"))
      BY <2>1, <2>3, <2>6
    <3>2. /\ Moves("handler", s, n) /\ value' = value /\ SameButSelect /\ pic'[2].select = "isr"
          /\ pic'[1] = pic[1]
      BY <1>6, <1>12, <3>1, SelectStep
    <3>3. pic'[1].select = "isr"
      BY <1>5, <2>1, <2>6, <3>2
    <3> QED BY <1>7, <1>9, <2>1, <2>2, <2>6, <3>2, <3>3
  <2>7. CASE n = 3
    <3>1. s[n] = In(c, "command") /\ pic[c].select = "isr" /\ pic[1].select = "isr" /\ pic[2].select = "isr"
      BY <1>5, <2>1, <2>3, <2>7
    <3>2. /\ Moves("handler", s, n) /\ pic' = pic /\ SameButSelect
          /\ value' \in [Contexts -> [1 .. 2 -> Bytes]]
          /\ value'["handler"][c] = Register(c, "isr")
          /\ \A y \in Contexts : y # "handler" => value'[y] = value[y]
      BY <1>6, <1>12, <2>3, <3>1, RegisterStep
    <3>3. value'["kernel"] = value["kernel"]
      BY <3>2 DEF Contexts
    <3>4. value'["handler"][look[3].c] = pic'[look[3].c].isr
      BY <3>2 DEF Register, c
    <3> QED BY <1>9, <2>1, <2>2, <2>7, <3>1, <3>2, <3>3, <3>4
  <2>8. CASE n = 4
    <3>1. s[n] = In(d, "command") /\ pic[d].select = "isr" /\ pic[1].select = "isr" /\ pic[2].select = "isr"
      BY <1>5, <2>1, <2>3, <2>4, <2>8
    <3>2. /\ Moves("handler", s, n) /\ pic' = pic /\ SameButSelect
          /\ value' \in [Contexts -> [1 .. 2 -> Bytes]]
          /\ value'["handler"][d] = Register(d, "isr")
          /\ \A y \in 1 .. 2 : y # d => value'["handler"][y] = value["handler"][y]
          /\ \A y \in Contexts : y # "handler" => value'[y] = value[y]
      BY <1>6, <1>12, <2>4, <3>1, RegisterStep
    <3>3. value'["kernel"] = value["kernel"]
      BY <3>2 DEF Contexts
    <3>4. \A y \in 1 .. 2 : value'["handler"][y] = pic[y].isr
      BY <1>5, <2>1, <2>3, <2>4, <2>8, <3>2 DEF Register, c
    <3>5. LineOf(irq) \in pic[Chip(irq)].isr <=> real
      <4>1. InService(pic, irq, real, 0)
        BY <1>5, <2>1, <2>8
      <4> QED BY <1>1, <1>8, <4>1 DEF InService
    <3>6. LineOf(irq) \in value'["handler"][Chip(irq)] <=> real
      BY <1>8, <3>4, <3>5
    <3> QED BY <1>9, <2>1, <2>2, <2>8, <3>1, <3>2, <3>3, <3>6
  <2> QED BY <2>1, <2>5, <2>6, <2>7, <2>8
<1>11. CASE n > a
  <2>1. n = a + 1 \/ (irq >= 8 /\ n = a + 2)
    <3>1. irq \in 0 .. 15 /\ a \in {0, 4} /\ n > a
      BY <1>1, <1>4, <1>11
    <3>2. n \in 1 .. (a + (IF irq < 8 THEN 1 ELSE 2))
      BY <1>4, <1>6
    <3>3. CASE irq < 8
      BY <3>1, <3>2, <3>3
    <3>4. CASE ~(irq < 8)
      BY <3>1, <3>2, <3>4
    <3> QED BY <3>3, <3>4
  <2>2. ASSUME NEW c \in 1 .. 2, s[n] = Out(c, "command", PIC_EOI),
               pic[c].isr = {} \/ \E l \in 0 .. 7 : pic[c].isr = {l},
               c = 1 => pic[2].isr = {}, c = 2 => irq >= 8 /\ n = a + 1 /\ pic[1].isr = {CASCADE_IRQ},
               c = 1 => n + 1 - a = IF irq < 8 THEN 2 ELSE 3
        PROVE  IndInv'
    <3>1. /\ Moves("handler", s, n) /\ value' = value /\ SameForKernel
          /\ pic'[c].isr = {} /\ pic'[c].select = pic[c].select
          /\ \A d \in 1 .. 2 : d # c => pic'[d] = pic[d]
      BY <1>6, <1>12, <2>2, EoiStep, SMTT(30)
    <3>2. \A d \in 1 .. 2 : pic'[d].select = pic[d].select /\ pic'[d].isr = IF d = c THEN {} ELSE pic[d].isr
      BY <3>1
    <3>3. InService(pic', irq, real, n + 1 - a)
      <4>1. CASE c = 1
        <5>1. pic'[1].isr = {} /\ pic'[2].isr = {} /\ n + 1 - a = IF irq < 8 THEN 2 ELSE 3
          BY <2>2, <3>2, <4>1
        <5> QED BY <1>1, <5>1 DEF InService
      <4>2. CASE c = 2
        <5>1. pic'[1].isr = {CASCADE_IRQ} /\ pic'[2].isr = {} /\ irq >= 8 /\ n + 1 - a = 2
          BY <1>4, <2>2, <3>2, <4>2
        <5> QED BY <1>1, <5>1 DEF InService
      <4> QED BY <4>1, <4>2
    <3>4. a = 4 => n >= 5
      BY <1>6, <1>11
    <3>5. a = 4 => /\ pic'[1].select = "isr" /\ pic'[2].select = "isr"
                   /\ (LineOf(irq) \in value'["handler"][Chip(irq)] <=> real)
      BY <1>5, <1>6, <3>1, <3>2, <3>4
    <3> QED BY <1>6, <1>7, <1>9, <3>1, <3>3, <3>4, <3>5
  <2>3. CASE irq < 8
    <3>1. n = a + 1 /\ n - a = 1 /\ n + 1 - a = 2 /\ s[n] = Out(1, "command", PIC_EOI)
      BY <1>1, <1>4, <2>1, <2>3
    <3>2. pic[2].isr = {} /\ pic[1].isr = IF real THEN {irq} ELSE {}
      BY <1>1, <1>5, <2>3, <3>1 DEF InService
    <3> QED BY <1>1, <2>2, <2>3, <3>1, <3>2, SMTT(30)
  <2>4. CASE irq >= 8 /\ n = a + 1
    <3>1. n - a = 1 /\ n + 1 - a = 2 /\ s[n] = Out(2, "command", PIC_EOI)
      BY <1>4, <2>4
    <3>2. pic[1].isr = {CASCADE_IRQ} /\ pic[2].isr = IF real THEN {LineOf(irq)} ELSE {}
      BY <1>1, <1>5, <2>4, <3>1 DEF InService
    <3> QED BY <1>1, <1>8, <2>2, <2>4, <3>1, <3>2, SMTT(30)
  <2>5. CASE irq >= 8 /\ n = a + 2
    <3>1. n - a = 2 /\ n + 1 - a = 3 /\ s[n] = Out(1, "command", PIC_EOI)
      BY <1>4, <2>5
    <3>2. pic[1].isr = {CASCADE_IRQ} /\ pic[2].isr = {} /\ CASCADE_IRQ \in 0 .. 7
      BY <1>1, <1>5, <2>5, <3>1 DEF InService, CASCADE_IRQ
    <3> QED BY <1>1, <2>2, <2>5, <3>1, <3>2, SMTT(30)
  <2> QED BY <1>1, <2>1, <2>3, <2>4, <2>5
<1> QED BY <1>4, <1>6, <1>10, <1>11

------------------------------------------------------------------------------
(* Calls.                                                                  *)

LEMMA IdleNoCall ==
  ASSUME Kernel, prog["kernel"] = <<>>
  PROVE  NoCall
<1>1. \A n \in 1 .. 10 : ~InRemap(n)
  <2>1. PIC_remap \in Seq(Operation) /\ Len(PIC_remap) = 10
    BY RemapBytes
  <2>2. ASSUME NEW n \in 1 .. Len(PIC_remap) PROVE From(PIC_remap, n) # <<>>
    BY <2>1, FromStep
  <2> QED BY <2>1, <2>2 DEF InRemap
<1>2. \A n \in 1 .. 2 : ~InDisable(n)
  <2>1. PIC_disable \in Seq(Operation) /\ Len(PIC_disable) = 2
    BY ByteFacts, OperationFacts DEF PIC_disable
  <2>2. ASSUME NEW n \in 1 .. Len(PIC_disable) PROVE From(PIC_disable, n) # <<>>
    BY <2>1, FromStep
  <2> QED BY <2>1, <2>2 DEF InDisable
<1>3. ASSUME NEW irq \in MaskIrqs, NEW n \in 1 .. 2
      PROVE  ~InMask(irq, n)
  <2> DEFINE s == IRQ_set_mask(irq)
             t == IRQ_clear_mask(irq)
  <2>1. s \in Seq(Operation) /\ Len(s) = 2 /\ t \in Seq(Operation) /\ Len(t) = 2
    <3>1. Chip(irq) \in 1 .. 2 /\ LineOf(irq) \in 0 .. 7
      BY PicAssumption, Lines
    <3> DEFINE c == Chip(irq)
               b == {LineOf(irq)}
    <3>2. c \in 1 .. 2 /\ b \in Bytes
      BY <3>1, ByteFacts
    <3>3. s = <<In(c, "data"), OutOr(c, b)>> /\ t = <<In(c, "data"), OutAndNot(c, b)>>
      BY DEF IRQ_set_mask, IRQ_clear_mask
    <3> HIDE DEF c, b, s, t
    <3>4. In(c, "data") \in Operation /\ OutOr(c, b) \in Operation /\ OutAndNot(c, b) \in Operation
      BY <3>2, OperationFacts
    <3> QED BY <3>3, <3>4
  <2> HIDE DEF s, t
  <2>2. From(s, n) # <<>> /\ From(t, n) # <<>>
    BY <2>1, FromStep, ZenonT(60)
  <2> QED BY <2>2 DEF InMask, s, t
<1>4. ASSUME NEW p \in pic_get_irr, NEW n \in 1 .. 4
      PROVE  ~InRead(p, n)
  <2>1. p \in pic_get_irq_reg(ReadWord("irr"))
    BY DEF pic_get_irr, ReadWord
  <2>2. p \in Seq(Operation) /\ Len(p) = 4
    BY <2>1, ReadAccesses DEF Reads
  <2>3. From(p, n) # <<>>
    BY <2>2, FromStep, ZenonT(60)
  <2> QED BY <2>3 DEF InRead
<1> QED BY <1>1, <1>2, <1>3, <1>4 DEF Kernel

(* A call is made when the kernel and the handler are through. *)
LEMMA CallStep ==
  ASSUME IndInv, NEW name, NEW p \in Seq(Operation), NEW m \in SUBSET (0 .. 15), Call(name, p, m)
  PROVE  /\ Types' /\ Handler' /\ NoCall /\ Types /\ Booted
         /\ prog["kernel"] = <<>> /\ handling = None
         /\ prog'["kernel"] = From(p, 1) /\ call' = name /\ masked' = m /\ pic' = pic
         /\ IF_flag' = IF_flag /\ Mask' = Mask /\ prog'["kernel"] = p
<1>1. /\ prog["kernel"] = <<>> /\ handling = None /\ Types /\ Booted /\ Kernel
      /\ prog["handler"] = <<>> /\ pic[1].isr = {} /\ pic[2].isr = {}
  BY DEF Call, Idle, IndInv, Handler
<1>2. NoCall
  BY <1>1, IdleNoCall
<1>3. /\ call' = name /\ masked' = m /\ pic' = pic /\ IF_flag' = IF_flag /\ handling' = handling /\ value' = value
      /\ prog' = [prog EXCEPT !["kernel"] = p]
  BY DEF Call
<1>4. prog' \in [Contexts -> Seq(Operation)] /\ prog'["kernel"] = p /\ prog'["handler"] = <<>>
  BY <1>1, <1>3 DEF Types, Contexts
<1>5. From(p, 1) = p
  BY FromEnds
<1>6. Types'
  BY <1>1, <1>3, <1>4 DEF Types
<1>7. Handler'
  BY <1>1, <1>3, <1>4 DEF Handler
<1>8. Mask' = Mask
  BY <1>3 DEF Mask
<1> QED BY <1>1, <1>2, <1>3, <1>4, <1>5, <1>6, <1>7, <1>8

(* After PIC_remap it stays ready. *)
LEMMA CallReady ==
  ASSUME Booted, call # "boot", prog["kernel"] = <<>>, pic' = pic, IF_flag' = IF_flag,
         call' # "boot", call' # "PIC_remap", call' = "pic_get_irr" => ~IF_flag
  PROVE  Booted'
<1>1. Ready(pic'[1], 1) /\ Ready(pic'[2], 2)
  BY DEF Booted, Remapping
<1> QED BY <1>1 DEF Booted

LEMMA CallRemap ==
  ASSUME IndInv, ~IF_flag, Call("PIC_remap", PIC_remap, {})
  PROVE  IndInv'
<1>1. PIC_remap \in Seq(Operation) /\ Len(PIC_remap) = 10
  BY RemapBytes
<1>2. /\ Types' /\ Handler' /\ Booted /\ prog["kernel"] = <<>>
      /\ prog'["kernel"] = From(PIC_remap, 1) /\ call' = "PIC_remap" /\ masked' = {} /\ pic' = pic
      /\ IF_flag' = IF_flag
  BY <1>1, CallStep
<1>3. pic[1].expects = <<>> /\ pic[2].expects = <<>>
  BY <1>2 DEF Booted, Remapping, Ready
<1>4. Stage(pic'[1], 1, 0) /\ Stage(pic'[2], 2, 0)
  BY <1>2, <1>3 DEF Stage
<1>5. InRemap(1)'
  <2>1. 1 \div 2 = 0 /\ (1 - 1) \div 2 = 0
    OBVIOUS
  <2> QED BY <1>2, <1>4, <2>1 DEF InRemap
<1>6. Kernel'
  BY <1>5 DEF Kernel
<1>7. From(PIC_remap, 1) # <<>>
  BY <1>1, FromStep
<1>8. Booted'
  BY <1>2, <1>7 DEF Booted, Remapping
<1> QED BY <1>2, <1>6, <1>8 DEF IndInv

LEMMA CallDisable ==
  ASSUME IndInv, call # "boot", Call("PIC_disable", PIC_disable, 0 .. 15)
  PROVE  IndInv'
<1>1. PIC_disable \in Seq(Operation) /\ 0 .. 15 \in SUBSET (0 .. 15)
  BY ByteFacts, OperationFacts DEF PIC_disable
<1> DEFINE m == 0 .. 15
<1>2. m \in SUBSET (0 .. 15) /\ Call("PIC_disable", PIC_disable, m)
  BY <1>1
<1> HIDE DEF m
<1>3. /\ Types' /\ Handler' /\ Booted /\ prog["kernel"] = <<>>
      /\ prog'["kernel"] = From(PIC_disable, 1) /\ call' = "PIC_disable" /\ masked' = m /\ pic' = pic
      /\ IF_flag' = IF_flag
  BY <1>1, <1>2, CallStep
<1>4. InDisable(1)'
  BY <1>3 DEF InDisable, m
<1>5. Kernel'
  BY <1>4 DEF Kernel
<1>6. Booted'
  BY <1>3, CallReady
<1> QED BY <1>3, <1>5, <1>6 DEF IndInv

LEMMA CallMask ==
  ASSUME IndInv, call # "boot", NEW irq \in MaskIrqs,
         \/ Call("IRQ_set_mask", IRQ_set_mask(irq), masked \cup {irq})
         \/ Call("IRQ_clear_mask", IRQ_clear_mask(irq), masked \ {irq})
  PROVE  IndInv'
<1>1. irq \in 0 .. 15 /\ masked \subseteq 0 .. 15
  BY PicAssumption DEF IndInv, Types
<1>2. Chip(irq) \in 1 .. 2 /\ LineOf(irq) \in 0 .. 7
  BY <1>1, Lines
<1>3. IRQ_set_mask(irq) \in Seq(Operation) /\ IRQ_clear_mask(irq) \in Seq(Operation)
  <2> DEFINE c == Chip(irq)
             b == {LineOf(irq)}
  <2>1. c \in 1 .. 2 /\ b \in Bytes
    BY <1>2, ByteFacts
  <2>2. /\ IRQ_set_mask(irq) = <<In(c, "data"), OutOr(c, b)>>
        /\ IRQ_clear_mask(irq) = <<In(c, "data"), OutAndNot(c, b)>>
    BY DEF IRQ_set_mask, IRQ_clear_mask
  <2> HIDE DEF c, b
  <2>3. In(c, "data") \in Operation /\ OutOr(c, b) \in Operation /\ OutAndNot(c, b) \in Operation
    BY <2>1, OperationFacts
  <2> QED BY <2>2, <2>3
<1>4. CASE Call("IRQ_set_mask", IRQ_set_mask(irq), masked \cup {irq})
  <2> DEFINE m == masked \cup {irq}
  <2>1. m \in SUBSET (0 .. 15) /\ Call("IRQ_set_mask", IRQ_set_mask(irq), m)
    BY <1>1, <1>4
  <2> HIDE DEF m
  <2>2. /\ Types' /\ Handler' /\ Booted /\ NoCall /\ prog["kernel"] = <<>>
        /\ prog'["kernel"] = From(IRQ_set_mask(irq), 1) /\ call' = "IRQ_set_mask" /\ masked' = m /\ pic' = pic
        /\ IF_flag' = IF_flag /\ Mask' = Mask
    BY <1>3, <2>1, CallStep
  <2>3. masked' = Mask' \cup {irq}
    BY <2>2 DEF NoCall, m
  <2>4. InMask(irq, 1)'
    BY <2>2, <2>3 DEF InMask
  <2>5. Kernel'
    BY <2>4 DEF Kernel
  <2>6. Booted'
    BY <2>2, CallReady
  <2> QED BY <2>2, <2>5, <2>6 DEF IndInv
<1>5. CASE Call("IRQ_clear_mask", IRQ_clear_mask(irq), masked \ {irq})
  <2> DEFINE m == masked \ {irq}
  <2>1. m \in SUBSET (0 .. 15) /\ Call("IRQ_clear_mask", IRQ_clear_mask(irq), m)
    BY <1>1, <1>5
  <2> HIDE DEF m
  <2>2. /\ Types' /\ Handler' /\ Booted /\ NoCall /\ prog["kernel"] = <<>>
        /\ prog'["kernel"] = From(IRQ_clear_mask(irq), 1) /\ call' = "IRQ_clear_mask" /\ masked' = m /\ pic' = pic
        /\ IF_flag' = IF_flag /\ Mask' = Mask
    BY <1>3, <2>1, CallStep
  <2>3. masked' = Mask' \ {irq}
    BY <2>2 DEF NoCall, m
  <2>4. InMask(irq, 1)'
    BY <2>2, <2>3 DEF InMask
  <2>5. Kernel'
    BY <2>4 DEF Kernel
  <2>6. Booted'
    BY <2>2, CallReady
  <2> QED BY <2>2, <2>5, <2>6 DEF IndInv
<1> QED BY <1>4, <1>5

LEMMA CallRead ==
  ASSUME IndInv, call # "boot", ~IF_flag, NEW p \in pic_get_irr, Call("pic_get_irr", p, masked)
  PROVE  IndInv'
<1>1. p \in pic_get_irq_reg(ReadWord("irr"))
  BY DEF pic_get_irr, ReadWord
<1>2. p \in Seq(Operation) /\ masked \in SUBSET (0 .. 15)
  BY <1>1, ReadAccesses DEF Reads, IndInv, Types
<1>3. /\ Types' /\ Handler' /\ Booted /\ NoCall /\ prog["kernel"] = <<>>
      /\ prog'["kernel"] = From(p, 1) /\ call' = "pic_get_irr" /\ masked' = masked /\ pic' = pic
      /\ IF_flag' = IF_flag /\ Mask' = Mask
  BY <1>2, CallStep
<1>4. InRead(p, 1)'
  BY <1>3 DEF InRead, NoCall
<1>5. Kernel'
  BY <1>4 DEF Kernel
<1>6. Booted'
  BY <1>3, CallReady
<1> QED BY <1>3, <1>5, <1>6 DEF IndInv

LEMMA CallsStep ==
  ASSUME IndInv, Calls
  PROVE  IndInv'
BY CallRemap, CallDisable, CallMask, CallRead DEF Calls

LEMMA SetIFStep ==
  ASSUME IndInv, SetIF
  PROVE  IndInv'
<1>1. /\ prog["kernel"] = <<>> /\ handling = None /\ call # "boot" /\ IF_flag' = ~IF_flag /\ call' = "SetIF"
      /\ UNCHANGED <<pic, handling, prog, value, masked>> /\ Types /\ Booted /\ Kernel /\ Handler
  BY DEF SetIF, Idle, IndInv
<1>2. NoCall
  BY <1>1, IdleNoCall
<1>3. Types'
  BY <1>1 DEF Types
<1>4. Ready(pic'[1], 1) /\ Ready(pic'[2], 2) /\ CASCADE_IRQ \notin pic'[1].irr
  BY <1>1 DEF Booted, Remapping
<1>5. Booted'
  BY <1>1, <1>4 DEF Booted
<1>6. NoCall'
  BY <1>1, <1>2 DEF NoCall, Mask
<1>7. Kernel'
  BY <1>6 DEF Kernel
<1>8. Handler'
  BY <1>1 DEF Handler
<1> QED BY <1>3, <1>5, <1>7, <1>8 DEF IndInv

------------------------------------------------------------------------------
(* Interrupts.                                                             *)

LEMMA RaiseStep ==
  ASSUME IndInv, NEW irq \in Irqs, Raise(irq)
  PROVE  IndInv'
<1> DEFINE c == Chip(irq)
           l == LineOf(irq)
           r == pic[c].irr \cup {l}
           k == [pic[c] EXCEPT !.irr = r]
<1>1. /\ irq \in 0 .. 15 /\ irq # CASCADE_IRQ /\ c \in 1 .. 2 /\ l \in 0 .. 7
      /\ (c = 1 => l # CASCADE_IRQ)
  <2>1. irq \in 0 .. 15 /\ irq # CASCADE_IRQ
    BY PicAssumption
  <2> QED BY <2>1, Lines
<1>2. /\ Types /\ Booted /\ Kernel /\ Handler /\ pic \in [1 .. 2 -> Controller] /\ pic[c] \in Controller
  BY <1>1 DEF IndInv, Types
<1>3. /\ pic' = [pic EXCEPT ![c] = k] /\ UNCHANGED <<IF_flag, handling, prog, value, call, masked>>
  BY DEF Raise
<1> HIDE DEF c, l
<1>4. r \in Bytes
  BY <1>1, <1>2 DEF Controller, Bytes
<1> HIDE DEF r
<1>5. /\ k \in Controller /\ k.irr = r /\ k.isr = pic[c].isr /\ k.imr = pic[c].imr /\ k.select = pic[c].select
      /\ k.expects = pic[c].expects /\ k.base = pic[c].base /\ k.cascade = pic[c].cascade
  BY <1>2, <1>4 DEF Controller
<1> HIDE DEF k
<1>6. pic' \in [1 .. 2 -> Controller] /\ pic'[c] = k /\ \A d \in 1 .. 2 : d # c => pic'[d] = pic[d]
  BY <1>1, <1>2, <1>3, <1>5
<1>7. \A d \in 1 .. 2 :
        /\ pic'[d].isr = pic[d].isr /\ pic'[d].imr = pic[d].imr /\ pic'[d].select = pic[d].select
        /\ pic'[d].expects = pic[d].expects /\ pic'[d].base = pic[d].base /\ pic'[d].cascade = pic[d].cascade
        /\ pic[d].irr \subseteq pic'[d].irr
  BY <1>5, <1>6 DEF r
<1>8. CASCADE_IRQ \notin pic'[1].irr
  BY <1>1, <1>2, <1>5, <1>6 DEF Booted, r
<1>9. Types'
  BY <1>2, <1>3, <1>6 DEF Types
<1>10. Booted'
  <2>1. /\ Ready(pic[1], 1) => Ready(pic'[1], 1)
        /\ Ready(pic[2], 2) => Ready(pic'[2], 2)
    BY <1>7 DEF Ready
  <2>2. pic'[1].expects = pic[1].expects /\ pic'[2].expects = pic[2].expects
    BY <1>7
  <2> QED BY <1>2, <1>3, <1>8, <2>1, <2>2 DEF Booted, Remapping
<1>11. Mask' = Mask
  BY <1>7 DEF Mask
<1>12. Kernel'
  <2>1. CASE NoCall
    <3>1. NoCall'
      BY <1>3, <1>7, <1>11, <2>1 DEF NoCall
    <3> QED BY <3>1 DEF Kernel
  <2>2. ASSUME NEW n \in 1 .. 10, InRemap(n) PROVE Kernel'
    <3>1. /\ \A u : Stage(pic[1], 1, u) => Stage(pic'[1], 1, u)
          /\ \A u : Stage(pic[2], 2, u) => Stage(pic'[2], 2, u)
      BY <1>7 DEF Stage
    <3>2. InRemap(n)'
      BY <1>3, <2>2, <3>1 DEF InRemap
    <3> QED BY <3>2 DEF Kernel
  <2>3. ASSUME NEW n \in 1 .. 2, InDisable(n) PROVE Kernel'
    <3>1. InDisable(n)'
      BY <1>3, <1>7, <2>3 DEF InDisable
    <3> QED BY <3>1 DEF Kernel
  <2>4. ASSUME NEW q \in MaskIrqs, NEW n \in 1 .. 2, InMask(q, n) PROVE Kernel'
    <3>1. Chip(q) \in 1 .. 2
      BY PicAssumption, Lines
    <3>2. InMask(q, n)'
      BY <1>3, <1>7, <1>11, <2>4, <3>1 DEF InMask
    <3> QED BY <3>2 DEF Kernel
  <2>5. ASSUME NEW p \in pic_get_irr, NEW n \in 1 .. 4, InRead(p, n) PROVE Kernel'
    <3>1. p \in pic_get_irq_reg(ReadWord("irr"))
      BY DEF pic_get_irr, ReadWord
    <3>2. p[3].c \in 1 .. 2
      BY <3>1, ReadAccesses DEF Reads
    <3>3. InRead(p, n)'
      BY <1>3, <1>7, <1>11, <2>5, <3>2 DEF InRead
    <3> QED BY <3>3 DEF Kernel
  <2> QED BY <1>2, <2>1, <2>2, <2>3, <2>4, <2>5 DEF Kernel
<1>13. Handler'
  <2>1. CASE handling = None
    BY <1>2, <1>3, <1>7, <2>1 DEF Handler
  <2>2. CASE handling # None
    <3>1. PICK look \in pic_get_isr \cup {<<>>} :
            \E n \in 1 .. (Len(look) + Len(PIC_sendEOI(handling.irq)) + 1) : InHandler(look, n)
      BY <1>2, <2>2 DEF Handler
    <3>2. PICK n \in 1 .. (Len(look) + Len(PIC_sendEOI(handling.irq)) + 1) : InHandler(look, n)
      BY <3>1
    <3>3. handling.irq \in 0 .. 15
      BY <1>2, <2>2 DEF Handler
    <3>4. Len(look) = 4 => look[3].c \in 1 .. 2
      BY <3>3, HandlerAccesses DEF Reads
    <3>5. InHandler(look, n)'
      BY <1>3, <1>7, <3>2, <3>4 DEF InHandler, InService
    <3>6. \E y \in pic_get_isr \cup {<<>>} :
            \E u \in 1 .. (Len(y) + Len(PIC_sendEOI(handling'.irq)) + 1) : InHandler(y, u)'
      BY <1>3, <3>5
    <3> QED BY <1>2, <1>3, <2>2, <3>6 DEF Handler
  <2> QED BY <2>1, <2>2
<1> QED BY <1>9, <1>10, <1>12, <1>13 DEF IndInv

LEMMA HandlerReturnStep ==
  ASSUME IndInv, HandlerReturn
  PROVE  IndInv'
<1> DEFINE irq == handling.irq
<1>1. /\ Types /\ Booted /\ Kernel /\ Handler /\ handling # None /\ prog["handler"] = <<>>
      /\ handling' = None /\ value' = [value EXCEPT !["handler"] = <<{}, {}>>]
      /\ UNCHANGED <<pic, IF_flag, prog, call, masked>> /\ IF_flag /\ irq \in 0 .. 15
  BY DEF IndInv, HandlerReturn, Handler
<1>2. PICK look \in pic_get_isr \cup {<<>>} :
        \E n \in 1 .. (Len(look) + Len(PIC_sendEOI(irq)) + 1) : InHandler(look, n)
  BY <1>1 DEF Handler
<1>3. PICK n \in 1 .. (Len(look) + Len(PIC_sendEOI(irq)) + 1) : InHandler(look, n)
  BY <1>2
<1> DEFINE a == Len(look)
           s == look \o PIC_sendEOI(irq)
<1>4. /\ s \in Seq(Operation) /\ Len(s) = a + (IF irq < 8 THEN 1 ELSE 2) /\ Len(s) = a + Len(PIC_sendEOI(irq))
      /\ a \in {0, 4}
  BY <1>1, HandlerAccesses
<1>5. prog["handler"] = From(s, n) /\ InService(pic, irq, handling.real, n - a)
  BY <1>3 DEF InHandler
<1> HIDE DEF s, a, irq
<1>6. n \in 1 .. (Len(s) + 1)
  BY <1>3, <1>4 DEF a
<1>7. n = Len(s) + 1
  <2>1. n \in 1 .. Len(s) => From(s, n) # <<>>
    BY <1>4, FromStep
  <2> QED BY <1>1, <1>4, <1>5, <1>6, <2>1
<1>8. pic[1].isr = {} /\ pic[2].isr = {}
  <2>1. n - a = IF irq < 8 THEN 2 ELSE 3
    BY <1>4, <1>7
  <2> QED BY <1>1, <1>5, <2>1 DEF InService
<1>9. value' \in [Contexts -> [1 .. 2 -> Bytes]] /\ value'["kernel"] = value["kernel"]
  <2>1. <<{}, {}>> \in [1 .. 2 -> Bytes]
    BY DEF Bytes
  <2> QED BY <1>1, <2>1 DEF Types, Contexts
<1>10. Types'
  BY <1>1, <1>9 DEF Types
<1>11. Handler'
  BY <1>1, <1>8 DEF Handler
<1>12. CASCADE_IRQ \notin pic'[1].irr
  BY <1>1 DEF Booted
<1>13. Booted' /\ Kernel'
  <2>1. \A d \in 1 .. 2 : /\ pic'[d].imr = pic[d].imr /\ pic'[d].expects = pic[d].expects
                          /\ pic'[d].base = pic[d].base /\ pic'[d].cascade = pic[d].cascade
    BY <1>1
  <2> QED BY <1>1, <1>9, <1>12, <2>1, KernelKept
<1> QED BY <1>10, <1>11, <1>13 DEF IndInv

LEMMA EnterStep ==
  ASSUME IndInv, IF_flag, handling = None, NEW c \in 1 .. 2, NEW line \in 0 .. 7, NEW real \in BOOLEAN,
         NEW irq \in 0 .. 15, irq = (IF c = 1 THEN line ELSE 8 + line),
         Enter(Vector(c, line), irq, real),
         pic' \in [1 .. 2 -> Controller], CASCADE_IRQ \notin pic'[1].irr,
         \A d \in 1 .. 2 : /\ pic'[d].imr = pic[d].imr /\ pic'[d].expects = pic[d].expects
                           /\ pic'[d].base = pic[d].base /\ pic'[d].cascade = pic[d].cascade,
         InService(pic', irq, real, 1)
  PROVE  IndInv'
<1>1. Types /\ Booted /\ Kernel
  BY DEF IndInv
<1> DEFINE v == Vector(c, line)
<1>2. /\ Number(v[1]) + v[2] = Number(Offset1) + irq
      /\ Number(Offset1) \in Nat /\ Number(v[1]) \in Nat /\ v[2] \in Nat
  <2>1. pic[c].base = OffsetOf(c)
    BY <1>1 DEF Booted, Remapping, Ready
  <2>2. OffsetOf(c) \subseteq 3 .. 7
    BY PicAssumption DEF OffsetOf
  <2>3. OffsetOf(c) \ {0, 1, 2} = OffsetOf(c)
    BY <2>2
  <2>4. v[1] = OffsetOf(c) /\ v[2] = line
    BY <2>1, <2>3 DEF Vector
  <2> HIDE DEF v
  <2>5. Number(v[1]) = Number(OffsetOf(c))
    BY <2>4
  <2>6. Number(OffsetOf(c)) = Number(Offset1) + (IF c = 1 THEN 0 ELSE 8)
    BY PicAssumption DEF OffsetOf
  <2> QED BY <2>4, <2>5, <2>6, PicAssumption
<1>3. (Number(v[1]) + v[2] - Number(Offset1)) % 16 = irq
  <2> DEFINE y == Number(v[1])
             z == v[2]
             o == Number(Offset1)
  <2>1. y + z = o + irq /\ o \in Nat /\ y \in Nat /\ z \in Nat
    BY <1>2
  <2> HIDE DEF y, z, o, v
  <2>2. y + z - o = irq
    BY <2>1
  <2>3. irq % 16 = irq
    OBVIOUS
  <2>4. (y + z - o) % 16 = irq
    BY <2>2, <2>3
  <2> QED BY <2>4 DEF y, z, o
<1> HIDE DEF v
<1>4. PICK look \in pic_get_isr \cup {<<>>} :
        /\ handling' = [vector |-> v, irq |-> irq, real |-> real, looks |-> look # <<>>]
        /\ prog' = [prog EXCEPT !["handler"] =
                      look \o PIC_sendEOI((Number(v[1]) + v[2] - Number(Offset1)) % 16)]
  BY DEF Enter, v
<1>5. UNCHANGED <<IF_flag, value, call, masked>>
  BY DEF Enter
<1> DEFINE a == Len(look)
           s == look \o PIC_sendEOI(irq)
<1>6. /\ s \in Seq(Operation) /\ Len(s) = a + Len(PIC_sendEOI(irq)) /\ Len(s) = a + (IF irq < 8 THEN 1 ELSE 2)
      /\ a \in {0, 4}
  BY HandlerAccesses
<1>7. prog' = [prog EXCEPT !["handler"] = s]
  BY <1>3, <1>4
<1> HIDE DEF s
<1>8. /\ prog' \in [Contexts -> Seq(Operation)] /\ prog'["handler"] = s /\ prog'["kernel"] = prog["kernel"]
  BY <1>1, <1>6, <1>7 DEF Types, Contexts
<1>9. Types'
  BY <1>1, <1>5, <1>8 DEF Types
<1>10. Booted' /\ Kernel'
  BY <1>1, <1>5, <1>8, KernelKept
<1>11. /\ handling'.irq = irq /\ handling'.real = real /\ handling'.vector = v
       /\ handling'.looks = (look # <<>>) /\ handling' # None
  <2>1. /\ handling'.irq = irq /\ handling'.real = real /\ handling'.vector = v
        /\ handling'.looks = (look # <<>>)
    BY <1>4
  <2>2. None.irq = 16
    BY DEF None
  <2> QED BY <2>1, <2>2
<1>12. InHandler(look, 1)'
  <2>1. prog'["handler"] = From(s, 1)
    BY <1>6, <1>8, FromEnds
  <2>2. InService(pic', irq, real, 1 - a)
    <3>1. 1 - a <= 1
      BY <1>6
    <3> QED BY <1>6, <3>1 DEF InService
  <2> QED BY <1>11, <2>1, <2>2 DEF InHandler, s, a
<1>13. Handler'
  <2>1. 1 \in 1 .. (Len(look) + Len(PIC_sendEOI(irq)) + 1)
    BY <1>6
  <2>2. \E y \in pic_get_isr \cup {<<>>} :
          \E u \in 1 .. (Len(y) + Len(PIC_sendEOI(handling'.irq)) + 1) : InHandler(y, u)'
    BY <1>11, <1>12, <2>1
  <2> QED BY <1>2, <1>5, <1>11, <2>2 DEF Handler
<1> QED BY <1>9, <1>10, <1>13 DEF IndInv

(* What a controller with nothing in service asks for. *)
LEMMA RequestFacts ==
  ASSUME NEW k \in Controller, NEW r \in Bytes, k.isr = {}, k.expects = <<>>
  PROVE  /\ r \ k.imr = {} => Request(k, r) = 8
         /\ r \ k.imr # {} => Request(k, r) \in r \ k.imr /\ Request(k, r) \in 0 .. 7
<1> DEFINE open == r \ k.imr
<1>1. open \in Bytes
  BY DEF Bytes
<1>2. Request(k, r) = IF open # {} THEN Min(open) ELSE 8
  BY DEF Request
<1> HIDE DEF open
<1>3. open # {} => Min(open) \in open /\ Min(open) \in 0 .. 7
  <2>1. open # {} => Min(open) \in open
    BY <1>1, LeastLine
  <2> QED BY <1>1, <2>1 DEF Bytes
<1> QED BY <1>2, <1>3 DEF open

(* When no handler runs and PIC_remap has been called. *)
LEMMA MasterFacts ==
  ASSUME Types, Ready(pic[1], 1), Ready(pic[2], 2), pic[1].isr = {}, pic[2].isr = {}
  PROVE  /\ Wired
         /\ pic[2].irr \ pic[2].imr = {} => Slave = 8
         /\ pic[2].irr \ pic[2].imr # {} => Slave \in pic[2].irr \ pic[2].imr /\ Slave \in 0 .. 7
         /\ Slave \in 0 .. 8
         /\ LET r == pic[1].irr \cup (IF Slave < 8 THEN {CASCADE_IRQ} ELSE {})
            IN  /\ r \ pic[1].imr = {} => Master = 8
                /\ r \ pic[1].imr # {} => Master \in r \ pic[1].imr /\ Master \in 0 .. 7
<1>1. /\ pic[1] \in Controller /\ pic[2] \in Controller /\ pic[1].irr \in Bytes /\ pic[2].irr \in Bytes
      /\ pic[1].expects = <<>> /\ pic[2].expects = <<>>
  BY DEF Types, Controller, Ready
<1>2. Wired
  BY DEF Wired, Ready, WireOf
<1>3. /\ pic[2].irr \ pic[2].imr = {} => Slave = 8
      /\ pic[2].irr \ pic[2].imr # {} => Slave \in pic[2].irr \ pic[2].imr /\ Slave \in 0 .. 7
  BY <1>1, RequestFacts DEF Slave
<1>4. Slave \in 0 .. 8
  BY <1>3
<1> DEFINE r == pic[1].irr \cup (IF Slave < 8 THEN {CASCADE_IRQ} ELSE {})
<1>5. r \in Bytes
  BY <1>1 DEF Bytes, CASCADE_IRQ
<1>6. Master = Request(pic[1], r)
  BY <1>2 DEF Master
<1> HIDE DEF r
<1>7. /\ r \ pic[1].imr = {} => Master = 8
      /\ r \ pic[1].imr # {} => Master \in r \ pic[1].imr /\ Master \in 0 .. 7
  BY <1>1, <1>5, <1>6, RequestFacts
<1> QED BY <1>2, <1>3, <1>4, <1>7 DEF r

LEMMA ServeFacts ==
  ASSUME NEW k \in Controller, NEW l \in 0 .. 7
  PROVE  /\ Serve(k, l) \in Controller
         /\ Serve(k, l).irr = k.irr \ {l} /\ Serve(k, l).isr = k.isr \cup {l} /\ Serve(k, l).imr = k.imr
         /\ Serve(k, l).expects = k.expects /\ Serve(k, l).base = k.base /\ Serve(k, l).cascade = k.cascade
<1> DEFINE r == k.irr \ {l}
           u == k.isr \cup {l}
<1>1. r \in Bytes /\ u \in Bytes
  BY DEF Controller, Bytes
<1>2. Serve(k, l) = [k EXCEPT !.irr = r, !.isr = u]
  BY DEF Serve
<1> HIDE DEF r, u
<1>3. /\ Serve(k, l) \in Controller /\ Serve(k, l).irr = r /\ Serve(k, l).isr = u /\ Serve(k, l).imr = k.imr
      /\ Serve(k, l).expects = k.expects /\ Serve(k, l).base = k.base /\ Serve(k, l).cascade = k.cascade
  BY <1>1, <1>2 DEF Controller
<1> QED BY <1>3 DEF r, u

(* With interrupts on, PIC_remap has been called. *)
LEMMA InterruptsOn ==
  ASSUME IndInv, IF_flag
  PROVE  /\ Types /\ Booted /\ Ready(pic[1], 1) /\ Ready(pic[2], 2)
         /\ handling = None => pic[1].isr = {} /\ pic[2].isr = {}
<1>1. Types /\ Booted /\ Handler
  BY DEF IndInv
<1>2. Ready(pic[1], 1) /\ Ready(pic[2], 2)
  BY <1>1 DEF Booted, Remapping
<1> QED BY <1>1, <1>2 DEF Handler

LEMMA DeliverStep ==
  ASSUME IndInv, Deliver
  PROVE  IndInv'
<1>1. IF_flag /\ handling = None /\ Master < 8
  BY DEF Deliver
<1>2. /\ Types /\ Ready(pic[1], 1) /\ Ready(pic[2], 2) /\ pic[1].isr = {} /\ pic[2].isr = {}
      /\ pic \in [1 .. 2 -> Controller] /\ CASCADE_IRQ \notin pic[1].irr
  BY <1>1, InterruptsOn DEF Types, Booted
<1> DEFINE q == IF Slave < 8 THEN {CASCADE_IRQ} ELSE {}
           r == pic[1].irr \cup q
<1>3. /\ Slave \in 0 .. 8
      /\ r \ pic[1].imr = {} => Master = 8
      /\ r \ pic[1].imr # {} => Master \in r \ pic[1].imr /\ Master \in 0 .. 7
  BY <1>2, MasterFacts
<1> HIDE DEF r
<1>4. Master \in r /\ Master \in 0 .. 7
  BY <1>1, <1>3
<1>5. CASE Master = CASCADE_IRQ
  <2> DEFINE sl == Slave
             k1 == Serve(pic[1], CASCADE_IRQ)
             k2 == Serve(pic[2], sl)
             irq == 8 + sl
  <2>1. sl \in 0 .. 7 /\ CASCADE_IRQ \in 0 .. 7
    BY <1>2, <1>3, <1>4, <1>5 DEF r, CASCADE_IRQ
  <2>2. pic' = <<k1, k2>> /\ Enter(Vector(2, sl), irq, TRUE)
    BY <1>5 DEF Deliver
  <2> HIDE DEF sl
  <2>3. /\ k1 \in Controller /\ k2 \in Controller
        /\ k1.irr = pic[1].irr \ {CASCADE_IRQ} /\ k1.isr = {CASCADE_IRQ} /\ k2.isr = {sl}
        /\ k1.imr = pic[1].imr /\ k1.expects = pic[1].expects /\ k1.base = pic[1].base /\ k1.cascade = pic[1].cascade
        /\ k2.imr = pic[2].imr /\ k2.expects = pic[2].expects /\ k2.base = pic[2].base /\ k2.cascade = pic[2].cascade
    BY <1>2, <2>1, ServeFacts
  <2> HIDE DEF k1, k2
  <2>4. pic' \in [1 .. 2 -> Controller] /\ pic'[1] = k1 /\ pic'[2] = k2
    BY <2>2, <2>3
  <2>5. /\ CASCADE_IRQ \notin pic'[1].irr
        /\ \A d \in 1 .. 2 : /\ pic'[d].imr = pic[d].imr /\ pic'[d].expects = pic[d].expects
                             /\ pic'[d].base = pic[d].base /\ pic'[d].cascade = pic[d].cascade
    BY <2>3, <2>4
  <2>6. irq \in 0 .. 15 /\ LineOf(irq) = sl /\ irq >= 8 /\ ~(irq < 8)
    <3>1. irq \in 0 .. 15 /\ irq >= 8 /\ irq - 8 = sl
      BY <2>1
    <3> HIDE DEF irq
    <3> QED BY <3>1, Lines
  <2>7. InService(pic', irq, TRUE, 1)
    BY <2>3, <2>4, <2>6 DEF InService
  <2>8. TRUE \in BOOLEAN /\ 2 \in 1 .. 2 /\ irq = IF 2 = 1 THEN sl ELSE 8 + sl
    OBVIOUS
  <2> HIDE DEF irq
  <2> QED BY <1>1, <2>1, <2>2, <2>4, <2>5, <2>6, <2>7, <2>8, EnterStep
<1>6. CASE Master # CASCADE_IRQ
  <2> DEFINE m == Master
             k1 == Serve(pic[1], m)
  <2>1. m \in 0 .. 7 /\ m # CASCADE_IRQ
    BY <1>4, <1>6
  <2>2. pic' = [pic EXCEPT ![1] = k1] /\ Enter(Vector(1, m), m, TRUE)
    BY <1>6 DEF Deliver
  <2> HIDE DEF m
  <2>3. /\ k1 \in Controller /\ k1.irr = pic[1].irr \ {m} /\ k1.isr = {m}
        /\ k1.imr = pic[1].imr /\ k1.expects = pic[1].expects /\ k1.base = pic[1].base /\ k1.cascade = pic[1].cascade
    BY <1>2, <2>1, ServeFacts
  <2> HIDE DEF k1
  <2>4. pic' \in [1 .. 2 -> Controller] /\ pic'[1] = k1 /\ pic'[2] = pic[2]
    BY <1>2, <2>2, <2>3
  <2>5. /\ CASCADE_IRQ \notin pic'[1].irr
        /\ \A d \in 1 .. 2 : /\ pic'[d].imr = pic[d].imr /\ pic'[d].expects = pic[d].expects
                             /\ pic'[d].base = pic[d].base /\ pic'[d].cascade = pic[d].cascade
    BY <1>2, <2>3, <2>4
  <2>6. InService(pic', m, TRUE, 1)
    BY <1>2, <2>1, <2>3, <2>4, SMTT(30) DEF InService
  <2>7. m \in 0 .. 15 /\ TRUE \in BOOLEAN /\ 1 \in 1 .. 2 /\ m = IF 1 = 1 THEN m ELSE 8 + m
    BY <2>1
  <2> QED BY <1>1, <2>1, <2>2, <2>4, <2>5, <2>6, <2>7, EnterStep
<1> QED BY <1>5, <1>6

LEMMA DeliverSpuriousStep ==
  ASSUME IndInv, DeliverSpurious
  PROVE  IndInv'
<1>1. IF_flag /\ handling = None
  BY DEF DeliverSpurious
<1>2. /\ Types /\ pic[1].isr = {} /\ pic[2].isr = {}
      /\ pic \in [1 .. 2 -> Controller] /\ CASCADE_IRQ \notin pic[1].irr
  BY <1>1, InterruptsOn DEF Types, Booted
<1>3. CASE UNCHANGED pic /\ Enter(Vector(1, 7), 7, FALSE)
  <2>1. /\ pic' \in [1 .. 2 -> Controller] /\ CASCADE_IRQ \notin pic'[1].irr
        /\ \A d \in 1 .. 2 : /\ pic'[d].imr = pic[d].imr /\ pic'[d].expects = pic[d].expects
                             /\ pic'[d].base = pic[d].base /\ pic'[d].cascade = pic[d].cascade
    BY <1>2, <1>3
  <2>2. InService(pic', 7, FALSE, 1)
    BY <1>2, <1>3 DEF InService
  <2>3. 7 \in 0 .. 7 /\ 7 \in 0 .. 15 /\ FALSE \in BOOLEAN /\ 1 \in 1 .. 2 /\ 7 = IF 1 = 1 THEN 7 ELSE 8 + 7
    OBVIOUS
  <2> QED BY <1>1, <1>3, <2>1, <2>2, <2>3, EnterStep
<1>4. CASE /\ pic' = [pic EXCEPT ![1].isr = @ \cup {CASCADE_IRQ}]
           /\ Enter(Vector(2, 7), 15, FALSE)
  <2> DEFINE u == {CASCADE_IRQ}
             k1 == [pic[1] EXCEPT !.isr = u]
  <2>7. u \in Bytes /\ pic[1] \in Controller
    BY <1>2 DEF Bytes, CASCADE_IRQ
  <2>1. pic' = [pic EXCEPT ![1] = k1]
    BY <1>2, <1>4
  <2>2. /\ k1 \in Controller /\ k1.irr = pic[1].irr /\ k1.isr = u
        /\ k1.imr = pic[1].imr /\ k1.expects = pic[1].expects /\ k1.base = pic[1].base /\ k1.cascade = pic[1].cascade
    <3> HIDE DEF u
    <3> QED BY <2>7 DEF Controller
  <2> HIDE DEF k1
  <2>3. pic' \in [1 .. 2 -> Controller] /\ pic'[1] = k1 /\ pic'[2] = pic[2]
    BY <1>2, <2>1, <2>2
  <2>4. /\ CASCADE_IRQ \notin pic'[1].irr
        /\ \A d \in 1 .. 2 : /\ pic'[d].imr = pic[d].imr /\ pic'[d].expects = pic[d].expects
                             /\ pic'[d].base = pic[d].base /\ pic'[d].cascade = pic[d].cascade
    BY <1>2, <2>2, <2>3
  <2>5. InService(pic', 15, FALSE, 1)
    BY <1>2, <2>2, <2>3 DEF InService
  <2>6. 7 \in 0 .. 7 /\ 15 \in 0 .. 15 /\ FALSE \in BOOLEAN /\ 2 \in 1 .. 2 /\ 15 = IF 2 = 1 THEN 7 ELSE 8 + 7
    OBVIOUS
  <2> QED BY <1>1, <1>4, <2>3, <2>4, <2>5, <2>6, EnterStep
<1> QED BY <1>3, <1>4 DEF DeliverSpurious

------------------------------------------------------------------------------
(* The inductive invariant holds.                                          *)

LEMMA InitInv == Init => IndInv
<1> SUFFICES ASSUME Init PROVE IndInv
  OBVIOUS
<1>1. /\ \A c \in 1 .. 2 : /\ pic[c].irr = {} /\ pic[c].isr = {} /\ pic[c].expects = <<>>
      /\ IF_flag = FALSE /\ handling = None /\ prog = [x \in Contexts |-> <<>>]
      /\ value = [x \in Contexts |-> <<{}, {}>>] /\ call = "boot" /\ masked = {}
  BY DEF Init, Contexts
<1>2. pic \in [1 .. 2 -> Controller]
  <2> DEFINE k == [ imr |-> {}, irr |-> {}, isr |-> {}, select |-> "irr", expects |-> <<>>,
                    base |-> {3}, cascade |-> {}, mode |-> {} ]
  <2>1. <<>> \in Seq({"base", "cascade", "mode"})
    BY EmptySeq
  <2>2. {} \in Bytes /\ {3} \in Bytes
    BY DEF Bytes
  <2>3. k \in Controller
    BY <2>1, <2>2 DEF Controller
  <2>4. pic = [c \in 1 .. 2 |-> k]
    BY DEF Init
  <2> HIDE DEF k
  <2> QED BY <2>3, <2>4
<1>3. Types
  <2>1. <<>> \in Seq(Operation) /\ <<{}, {}>> \in [1 .. 2 -> Bytes]
    BY EmptySeq DEF Bytes
  <2> QED BY <1>1, <1>2, <2>1 DEF Types
<1>4. prog["kernel"] = <<>> /\ prog["handler"] = <<>>
  BY <1>1 DEF Contexts
<1>5. Booted
  BY <1>1, <1>4 DEF Booted
<1>6. Kernel
  BY <1>1, <1>4 DEF Kernel, NoCall
<1>7. Handler
  BY <1>1, <1>4 DEF Handler
<1> QED BY <1>3, <1>5, <1>6, <1>7 DEF IndInv

LEMMA NextInv == IndInv /\ [Next]_vars => IndInv'
<1> SUFFICES ASSUME IndInv, [Next]_vars PROVE IndInv'
  OBVIOUS
<1>1. CASE Calls
  BY <1>1, CallsStep
<1>2. CASE SetIF
  BY <1>2, SetIFStep
<1>3. ASSUME NEW x \in {"kernel", "handler"}, Access(x) PROVE IndInv'
  BY <1>3, KernelAccess, HandlerAccess
<1>4. ASSUME NEW irq \in Irqs, Raise(irq) PROVE IndInv'
  BY <1>4, RaiseStep
<1>5. CASE Deliver
  BY <1>5, DeliverStep
<1>6. CASE DeliverSpurious
  BY <1>6, DeliverSpuriousStep
<1>7. CASE HandlerReturn
  BY <1>7, HandlerReturnStep
<1>8. CASE UNCHANGED vars
  <2>1. Types'
    BY <1>8 DEF vars, IndInv, Types
  <2>2. Booted'
    BY <1>8 DEF vars, IndInv, Booted, Remapping
  <2>3. Kernel'
    <3>1. NoCall => NoCall'
      BY <1>8 DEF vars, NoCall, Mask
    <3>2. \A n \in 1 .. 10 : InRemap(n) => InRemap(n)'
      BY <1>8 DEF vars, InRemap
    <3>3. \A n \in 1 .. 2 : InDisable(n) => InDisable(n)'
      BY <1>8 DEF vars, InDisable
    <3>4. \A irq \in MaskIrqs, n \in 1 .. 2 : InMask(irq, n) => InMask(irq, n)'
      BY <1>8 DEF vars, InMask, Mask
    <3>5. \A p \in pic_get_irr, n \in 1 .. 4 : InRead(p, n) => InRead(p, n)'
      BY <1>8 DEF vars, InRead, Mask
    <3> QED BY <3>1, <3>2, <3>3, <3>4, <3>5 DEF IndInv, Kernel
  <2>4. Handler'
    <3>1. \A look, n : InHandler(look, n) => InHandler(look, n)'
      BY <1>8 DEF vars, InHandler
    <3> QED BY <1>8, <3>1 DEF vars, IndInv, Handler
  <2> QED BY <2>1, <2>2, <2>3, <2>4 DEF IndInv
<1> QED BY <1>1, <1>2, <1>3, <1>4, <1>5, <1>6, <1>7, <1>8 DEF Next

LEMMA SpecInv == Spec => []IndInv
BY InitInv, NextInv, PTL DEF Spec

(***************************************************************************)
(* Whatever lines have devices, and whichever the kernel masks: when       *)
(* PIC_remap, PIC_disable, IRQ_set_mask or IRQ_clear_mask returns, exactly *)
(* the lines asked for are masked, with interrupts handled between the     *)
(* read of a mask and the write that puts it back.                         *)
(***************************************************************************)
THEOREM MaskAsAskedHolds == Spec => []MaskAsAsked
<1>1. IndInv => MaskAsAsked
  BY IdleNoCall DEF IndInv, MaskAsAsked, NoCall, Mask
<1> QED BY <1>1, SpecInv, PTL

(***************************************************************************)
(* Whatever lines have devices, and wherever PIC_remap puts the vectors:   *)
(* after it has returned an open request reaches the processor whenever no *)
(* handler runs, with the vector of its line, and PIC_sendEOI leaves       *)
(* nothing in service, spurious interrupts included.                       *)
(***************************************************************************)
THEOREM RequestsGetThroughHolds == Spec => []RequestsGetThrough
<1>1. ASSUME IndInv, Idle, call # "boot", NEW irq \in Irqs \ masked,
             LineOf(irq) \in pic[Chip(irq)].irr, irq >= 8 => CASCADE_IRQ \notin masked
      PROVE  Master < 8
  <2>1. /\ Types /\ Booted /\ prog["kernel"] = <<>> /\ handling = None /\ pic[1].isr = {} /\ pic[2].isr = {}
    BY <1>1 DEF IndInv, Idle, Handler
  <2>2. Ready(pic[1], 1) /\ Ready(pic[2], 2)
    BY <1>1, <2>1 DEF Booted, Remapping
  <2>3. Mask = masked
    BY <1>1, <2>1, IdleNoCall DEF IndInv, NoCall
  <2>4. irq \in 0 .. 15
    BY PicAssumption
  <2> DEFINE r == pic[1].irr \cup (IF Slave < 8 THEN {CASCADE_IRQ} ELSE {})
  <2>5. /\ pic[2].irr \ pic[2].imr # {} => Slave \in 0 .. 7
        /\ r \ pic[1].imr # {} => Master \in 0 .. 7
    BY <2>1, <2>2, MasterFacts
  <2>6. r \ pic[1].imr # {}
    <3>1. CASE irq < 8
      <4>1. irq \in pic[1].irr
        BY <1>1, <2>4, <3>1, Lines
      <4>2. irq \notin pic[1].imr
        BY <2>3 DEF Mask
      <4> QED BY <4>1, <4>2
    <3>2. CASE irq >= 8
      <4> DEFINE l == irq - 8
      <4>1. l \in pic[2].irr /\ irq = 8 + l
        BY <1>1, <2>4, <3>2, Lines
      <4>2. l \notin pic[2].imr
        BY <2>3, <4>1 DEF Mask
      <4>3. Slave < 8
        BY <2>5, <4>1, <4>2
      <4>4. CASCADE_IRQ \notin pic[1].imr
        BY <1>1, <2>3, <3>2 DEF Mask
      <4> QED BY <4>3, <4>4
    <3> QED BY <2>4, <3>1, <3>2
  <2> QED BY <2>5, <2>6
<1>2. ASSUME IndInv PROVE RequestsGetThrough
  <2>1. /\ handling # None =>
             Number(handling.vector[1]) + handling.vector[2] = Number(Offset1) + handling.irq
        /\ handling = None => pic[1].isr = {} /\ pic[2].isr = {}
    BY <1>2 DEF IndInv, Handler
  <2> QED BY <1>1, <1>2, <2>1 DEF RequestsGetThrough
<1> QED BY <1>2, SpecInv, PTL

(***************************************************************************)
(* Whatever was selected before, by the kernel or by a handler:            *)
(* pic_get_isr tells a handler whether its interrupt is real, and          *)
(* pic_get_irr returns requests only, in either order of its two reads.    *)
(***************************************************************************)
THEOREM ReadsRegisterAskedHolds == Spec => []ReadsRegisterAsked
<1>1. ASSUME IndInv, handling.looks, Len(prog["handler"]) <= Len(PIC_sendEOI(handling.irq))
      PROVE  LineOf(handling.irq) \in value["handler"][Chip(handling.irq)] <=> handling.real
  <2> DEFINE irq == handling.irq
  <2>1. handling # None
    BY <1>1 DEF None
  <2>2. irq \in 0 .. 15
    BY <1>1, <2>1 DEF IndInv, Handler
  <2>3. PICK look \in pic_get_isr \cup {<<>>} :
          \E n \in 1 .. (Len(look) + Len(PIC_sendEOI(irq)) + 1) : InHandler(look, n)
    BY <1>1, <2>1 DEF IndInv, Handler
  <2>4. PICK n \in 1 .. (Len(look) + Len(PIC_sendEOI(irq)) + 1) : InHandler(look, n)
    BY <2>3
  <2> DEFINE s == look \o PIC_sendEOI(irq)
             a == Len(look)
             e == Len(PIC_sendEOI(irq))
  <2>5. /\ s \in Seq(Operation) /\ Len(s) = a + e /\ Len(s) = a + (IF irq < 8 THEN 1 ELSE 2)
        /\ a \in {0, 4} /\ (a = 0 <=> look = <<>>)
    BY <2>2, HandlerAccesses
  <2>6. /\ look # <<>> /\ prog["handler"] = From(s, n)
        /\ a = 4 => (n >= 5 => (LineOf(irq) \in value["handler"][Chip(irq)] <=> handling.real))
    BY <1>1, <2>4 DEF InHandler
  <2> HIDE DEF s
  <2>7. a = 4 /\ n \in 1 .. (Len(s) + 1) /\ e \in Nat /\ Len(s) = 4 + e
    <3>1. e \in Nat
      BY <2>2, EoiAccesses
    <3> HIDE DEF a, e
    <3>2. a = 4
      BY <2>5, <2>6
    <3>3. n \in 1 .. (a + e + 1)
      BY <2>4 DEF a, e
    <3> QED BY <2>5, <3>1, <3>2, <3>3
  <2>8. n >= 5
    <3>1. CASE n \in 1 .. Len(s)
      <4>1. Len(From(s, n)) = Len(s) - n + 1
        BY <2>5, <3>1, FromStep
      <4>2. Len(s) - n + 1 <= e
        BY <1>1, <2>6, <4>1
      <4> HIDE DEF e
      <4> QED BY <2>7, <3>1, <4>2
    <3>2. CASE n = Len(s) + 1
      BY <2>7, <3>2
    <3> HIDE DEF e
    <3> QED BY <2>7, <3>1, <3>2
  <2> QED BY <2>6, <2>7, <2>8
<1>2. ASSUME IndInv, Idle, call = "pic_get_irr"
      PROVE  \A c \in 1 .. 2 : value["kernel"][c] \subseteq pic[c].irr
  BY <1>2, IdleNoCall DEF IndInv, Idle, NoCall
<1>3. IndInv => ReadsRegisterAsked
  BY <1>1, <1>2 DEF ReadsRegisterAsked
<1> QED BY <1>3, SpecInv, PTL

------------------------------------------------------------------------------
(* The local APIC, for every base firmware may have chosen and every       *)
(* number of tables vmm_map may have to make.                              *)
(*                                                                         *)
(* Neither property is inductive as it stands.  What carries them from one *)
(* call to the next is that a base written once is below 4 GiB, so that    *)
(* reading it again gives the address without the undefined shift, and     *)
(* that the registers stay mapped once they have been written.             *)

(* The values the variables may have. *)
ApicTypes ==
  /\ high \in Nat /\ page \in Pages
  /\ enabled \in BOOLEAN /\ x2apic \in BOOLEAN
  /\ svr \in [on : BOOLEAN, vector : {15, 255}]
  /\ missing \in [Pages -> Nat] /\ free \in Nat
  /\ mapped_ok \in BOOLEAN
  /\ apic_pc \in {"idle", "get", "map", "svr", "fault"}
  /\ apic_call \in {"boot", "enable_apic", "disable_apic"}

(* From the first write of the base on it is below 4 GiB and enabled, and  *)
(* firmware had not left the APIC in x2APIC mode.                          *)
BaseMoved ==
  (apic_call # "boot" /\ ~(apic_pc = "fault" /\ x2apic)) => high = 0 /\ enabled /\ ~x2apic

(* The address in hand is the one in the MSR. *)
AddressInHand == apic_pc \in {"map", "svr"} => apic_phys = Addr(0, page, 0)

(* The registers are mapped, with the spurious vector the kernel has set. *)
Reached == missing[page] = 0 /\ svr.vector = 255

(* They are whenever a call has returned, and from then on; no call faults *)
(* any more.  Before that a write faults only if vmm_map found no page.    *)
StaysReached ==
  /\ apic_pc = "idle" /\ apic_call # "boot" => Reached /\ svr.on = (apic_call = "enable_apic")
  /\ apic_call = "disable_apic" => Reached /\ apic_pc # "fault"
  /\ apic_pc = "svr" /\ mapped_ok => missing[page] = 0
  /\ apic_pc = "fault" => x2apic \/ ~mapped_ok
  /\ apic_pc # "idle" => apic_call # "boot"

ApicInv == ApicTypes /\ BaseMoved /\ AddressInHand /\ StaysReached

LEMMA ApicInvInit == ApicInit => ApicInv
BY LocalApicAssumption DEF ApicInit, Addr, ApicInv, ApicTypes, BaseMoved, AddressInHand, StaysReached

LEMMA ApicInvNext == ApicInv /\ [ApicNext]_apic_vars => ApicInv'
<1> SUFFICES ASSUME ApicInv, [ApicNext]_apic_vars PROVE ApicInv'
  OBVIOUS
<1> USE DEF ApicInv, ApicTypes, BaseMoved, AddressInHand, StaysReached, Reached, Addr, msr, mem
<1>1. CASE enable_apic
  BY <1>1 DEF enable_apic, cpu_set_apic_base, cpu_get_apic_base
<1>2. CASE EnableFaults
  BY <1>2 DEF EnableFaults
<1>3. CASE disable_apic
  BY <1>3 DEF disable_apic
<1>4. CASE GetBase
  <2>1. Shifted(high) = 0
    BY <1>4 DEF GetBase, Shifted
  <2> QED BY <1>4, <2>1 DEF GetBase, cpu_get_apic_base
<1>5. CASE vmm_map
  <2>1. apic_phys.page = page /\ missing[page] \in Nat
    BY <1>5 DEF vmm_map
  <2>2. missing' = [missing EXCEPT ![page] = 0] /\ free' = free - missing[page] /\ free >= missing[page]
    BY <1>5, <2>1 DEF vmm_map
  <2>3. missing' \in [Pages -> Nat] /\ missing'[page] = 0 /\ free' \in Nat
    BY <2>1, <2>2
  <2> QED BY <1>5, <2>3 DEF vmm_map
<1>6. CASE MapFails
  <2>1. apic_phys.page = page /\ missing[page] \in Nat
    BY <1>6 DEF MapFails
  <2>2. missing[page] > free /\ missing' = [missing EXCEPT ![page] = missing[page] - free]
    BY <1>6, <2>1 DEF MapFails
  <2>3. missing' \in [Pages -> Nat]
    BY <2>1, <2>2
  <2>4. apic_call # "disable_apic"    \* or the registers would be mapped
    BY <2>2
  <2> QED BY <1>6, <2>3, <2>4 DEF MapFails
<1>7. CASE WriteSvr
  <2>1. missing[page] = 0 /\ high = 0 /\ enabled /\ ~x2apic /\ apic_pc' = "idle"
    BY <1>7 DEF WriteSvr
  <2>2. CASE apic_call = "enable_apic"
    <3>1. svr' = [on |-> TRUE, vector |-> 255]
      BY <1>7, <2>2 DEF WriteSvr
    <3>2. svr' \in [on : BOOLEAN, vector : {15, 255}] /\ svr'.on = TRUE /\ svr'.vector = 255
      BY <3>1
    <3> QED BY <1>7, <2>1, <2>2, <3>2 DEF WriteSvr
  <2>3. CASE apic_call = "disable_apic"
    <3>1. svr' = [svr EXCEPT !.on = FALSE]
      BY <1>7, <2>3 DEF WriteSvr
    <3>2. svr' \in [on : BOOLEAN, vector : {15, 255}] /\ svr'.on = FALSE /\ svr'.vector = 255
      BY <2>3, <3>1
    <3> QED BY <1>7, <2>1, <2>3, <3>2 DEF WriteSvr
  <2> QED BY <1>7, <2>2, <2>3 DEF WriteSvr
<1>8. CASE SvrFaults
  BY <1>8 DEF SvrFaults
<1>9. CASE UNCHANGED apic_vars
  BY <1>9 DEF apic_vars
<1> QED BY <1>1, <1>2, <1>3, <1>4, <1>5, <1>6, <1>7, <1>8, <1>9 DEF ApicNext

LEMMA ApicInvSpec == ApicSpec => []ApicInv
BY ApicInvInit, ApicInvNext, PTL DEF ApicSpec

(***************************************************************************)
(* Every write of enable_apic and disable_apic to the SVR reaches the      *)
(* registers of the APIC (apic.c), however the build evaluates the shift   *)
(* of cpu_get_apic_base and wherever firmware had put the base; after each *)
(* call the APIC is on or off as asked, with spurious vector 255.          *)
(***************************************************************************)
THEOREM WritesReachApicHolds == ApicSpec => []WritesReachApic
<1>1. ApicInv => WritesReachApic
  BY DEF ApicInv, ApicTypes, BaseMoved, AddressInHand, StaysReached, Reached, WritesReachApic, Addr
<1> QED BY <1>1, ApicInvSpec, PTL

(***************************************************************************)
(* The two functions fault only in enable_apic: when firmware left the     *)
(* APIC in x2APIC mode, or when vmm_map, whose result is not looked at,    *)
(* found no page for a table.  Once enable_apic has returned, no sequence  *)
(* of calls faults.                                                        *)
(***************************************************************************)
THEOREM FaultsOnlyAtFirstHolds == ApicSpec => []FaultsOnlyAtFirst
<1>1. ApicInv => FaultsOnlyAtFirst
  BY DEF ApicInv, ApicTypes, StaysReached, FaultsOnlyAtFirst
<1> QED BY <1>1, ApicInvSpec, PTL

------------------------------------------------------------------------------
(* Where the IOAPICs come from: findTable and FindEntries of Acpi, for any *)
(* tables whose lengths are right and any sizes of the two arrays.         *)
(*                                                                         *)
(* FindsEntries speaks of the ends of the walks only.  What holds in the   *)
(* middle of one is that no table before the counter has the signature,    *)
(* and that the place reached in the MADT is the offset of an entry, or    *)
(* the end, with the entries before it collected.                          *)

(* The table of the signature asked for that comes first, or none. *)
FirstTable(h) ==
  /\ h \in 1 .. Len(Root.tables) /\ Root.tables[h].Signature = Signature
  /\ \A k \in 1 .. (h - 1) : Root.tables[k].Signature # Signature
NoTable == \A k \in 1 .. Len(Root.tables) : Root.tables[k].Signature # Signature

(* Where findTable is, and what it has found. *)
Search ==
  /\ pc = "findTable" =>
       /\ madt = NULL /\ i <= Len(Root.tables)
       /\ \A k \in 1 .. i : Root.tables[k].Signature # Signature
  /\ pc \in {"init_IOAPIC", "fault"} /\ madt = NULL => NoTable
  /\ pc = "fault" => madt = NULL
  /\ pc \in {"FindEntries", "done", "doChecksum", "checked"} => madt # NULL
  /\ madt # NULL => \E h \in 1 .. Len(Root.tables) : FirstTable(h) /\ madt = Root.tables[h]

(* The walk has passed the first n entries. *)
Passed(n) ==
  /\ ptr = IF n < EntryCount THEN madt.entries[n + 1].offset ELSE madt.Length
  /\ FirstOfType(array, type, max_count, n)

(* Where FindEntries and doChecksum are, and what was collected. *)
Walk ==
  /\ pc = "FindEntries" =>
       /\ type \in {1, 2} /\ \E n \in 0 .. EntryCount : Passed(n)
       /\ type = 2 => FirstOfType(ioapic_entries, 1, MaxIoapics, EntryCount)
  /\ pc = "done" =>
       /\ FirstOfType(ioapic_entries, 1, MaxIoapics, EntryCount)
       /\ FirstOfType(iso_entries, 2, MaxIsos, EntryCount)
  /\ pc = "doChecksum" => i <= madt.Length

WalkInv == LaidOut /\ fw \in Firmwares /\ TypeOK /\ Search /\ Walk

------------------------------------------------------------------------------
(* A set of numbers has a least one: the intervals that end in them are    *)
(* finite sets, of which one contains no other.                            *)
LEMMA LeastNat ==
  ASSUME NEW T, T \subseteq Nat, T # {}
  PROVE  \E n \in T : \A m \in T : n <= m
<1> DEFINE I(n) == 0 .. n
           U    == { I(n) : n \in T }
           R    == StrictSubsetOrdering(Nat)
<1>1. U \subseteq FiniteSubsetsOf(Nat) /\ U # {}
  <2>1. ASSUME NEW n \in T PROVE I(n) \in FiniteSubsetsOf(Nat)
    BY FS_Interval DEF FiniteSubsetsOf
  <2> QED BY <2>1
<1>2. IsWellFoundedOn(R, FiniteSubsetsOf(Nat))
  BY FS_StrictSubsetOrderingWellFounded
<1>3. PICK X \in U : \A Y \in U : ~(<<Y, X>> \in R)
  <2> HIDE DEF U, R
  <2> QED BY <1>1, <1>2, WFMin
<1>4. PICK n \in T : X = I(n)
  OBVIOUS
<1>5. ASSUME NEW m \in T, m < n PROVE FALSE
  <2>1. I(m) \in U /\ I(m) \subseteq I(n) /\ n \in I(n) /\ n \notin I(m)
    BY <1>5
  <2>2. <<I(m), I(n)>> \in R
    BY <2>1 DEF StrictSubsetOrdering
  <2> QED BY <1>3, <1>4, <2>1, <2>2
<1> QED BY <1>5

(* strncmp finds the signature asked for and no other. *)
LEMMA SameSignature ==
  ASSUME NEW s \in [1 .. 4 -> Int], Signature \in [1 .. 4 -> Int \ {0}]
  PROVE  strncmp(s, Signature, 4) = 0 <=> s = Signature
<1> DEFINE stops == { k \in 1 .. 4 : s[k] = 0 \/ s[k] # Signature[k] }
           first == CHOOSE k \in stops : \A j \in stops : k <= j
<1>1. strncmp(s, Signature, 4) = IF stops = {} THEN 0 ELSE s[first] - Signature[first]
  BY DEF strncmp
<1>2. stops = {} <=> s = Signature
  <2>1. ASSUME stops = {} PROVE s = Signature
    BY <2>1
  <2>2. ASSUME s = Signature PROVE stops = {}
    BY <2>2
  <2> QED BY <2>1, <2>2
<1>3. ASSUME stops # {} PROVE s[first] - Signature[first] # 0
  <2>1. \E k \in stops : \A j \in stops : k <= j
    BY <1>3, LeastNat
  <2>2. first \in stops
    <3> HIDE DEF stops
    <3> QED BY <2>1
  <2>3. first \in 1 .. 4 /\ (s[first] = 0 \/ s[first] # Signature[first])
    BY <2>2
  <2> HIDE DEF first
  <2>4. s[first] \in Int /\ Signature[first] \in Int /\ Signature[first] # 0
    BY <2>3
  <2> QED BY <2>3, <2>4
<1> HIDE DEF stops, first
<1> QED BY <1>1, <1>2, <1>3

(* The tables of the root the code uses. *)
LEMMA RootFacts ==
  ASSUME LaidOut, fw \in Firmwares
  PROVE  /\ PointerSize \in {4, 8} /\ RootLaidOut(Root, PointerSize)
         /\ \A k \in 1 .. Len(Root.tables) :
              /\ Root.tables[k] # NULL /\ Root.tables[k].Signature \in [1 .. 4 -> Int]
              /\ Root.tables[k].Signature = Signature => MadtLaidOut(Root.tables[k])
BY DEF LaidOut, Root, PointerSize, GetXSDT, GetRSDT

LEMMA CountFacts ==
  ASSUME LaidOut, fw \in Firmwares
  PROVE  /\ entries_count = Len(Root.tables) /\ entries_count \in 0 .. Word - 1
         /\ \A k \in 0 .. (Len(Root.tables) - 1) : RootHeader + (k + 1) * PointerSize <= Root.Length
<1> DEFINE n == Len(Root.tables)
           l == Root.Length
<1>1. /\ PointerSize \in {4, 8} /\ n \in Nat /\ l \in 0 .. Word - 1
      /\ RootHeader + n * PointerSize <= l /\ l < RootHeader + (n + 1) * PointerSize
      /\ RootHeader \in Nat /\ Word \in Nat \ {0}
  BY RootFacts DEF RootLaidOut, LaidOut
<1>2. entries_count = ((l - RootHeader) % Word) \div PointerSize
  BY DEF entries_count
<1> HIDE DEF n, l
<1>3. l - RootHeader \in 0 .. Word - 1
  BY <1>1
<1>4. (l - RootHeader) % Word = l - RootHeader
  <2> DEFINE x == l - RootHeader
  <2>1. x \in 0 .. Word - 1
    BY <1>3
  <2> HIDE DEF x
  <2>2. x % Word = x
    BY <1>1, <2>1
  <2> QED BY <2>2 DEF x
<1>7. /\ entries_count = n /\ n \in 0 .. Word - 1
      /\ \A k \in 0 .. (n - 1) : RootHeader + (k + 1) * PointerSize <= l
  <2>1. CASE PointerSize = 4
    <3>1. n * 4 <= l - RootHeader /\ l - RootHeader < (n + 1) * 4
      BY <1>1, <2>1
    <3>2. (l - RootHeader) \div 4 = n
      BY <1>1, <3>1
    <3>3. entries_count = n
      BY <1>2, <1>4, <2>1, <3>2
    <3>4. n \in 0 .. Word - 1
      BY <1>1, <1>3, <3>1
    <3>5. \A k \in 0 .. (n - 1) : RootHeader + (k + 1) * 4 <= l
      BY <1>1, <3>1
    <3> QED BY <2>1, <3>3, <3>4, <3>5
  <2>2. CASE PointerSize = 8
    <3>1. n * 8 <= l - RootHeader /\ l - RootHeader < (n + 1) * 8
      BY <1>1, <2>2
    <3>2. (l - RootHeader) \div 8 = n
      BY <1>1, <3>1
    <3>3. entries_count = n
      BY <1>2, <1>4, <2>2, <3>2
    <3>4. n \in 0 .. Word - 1
      BY <1>1, <1>3, <3>1
    <3>5. \A k \in 0 .. (n - 1) : RootHeader + (k + 1) * 8 <= l
      BY <1>1, <3>1
    <3> QED BY <2>2, <3>3, <3>4, <3>5
  <2> QED BY <1>1, <2>1, <2>2
<1> QED BY <1>1, <1>7 DEF n, l

(* The entries up to the one of length 0, if there is one. *)
LEMMA EntryFacts ==
  ASSUME LaidOut, MadtLaidOut(madt)
  PROVE  /\ EntryCount \in Nat /\ madt.Length \in 0 .. Word - 1 /\ madt.Length <= Len(madt.bytes)
         /\ madt.bytes \in Seq(0 .. Byte - 1)
         /\ MadtHeader = IF 0 < EntryCount THEN madt.entries[1].offset ELSE madt.Length
         /\ \A k \in 1 .. EntryCount :
              /\ madt.entries[k].offset \in 0 .. Word - 1 /\ madt.entries[k].length \in 0 .. Byte - 1
              /\ madt.entries[k].offset + 2 <= madt.Length
              /\ entry_type(madt.entries[k].offset) = madt.entries[k].type
              /\ entry_length(madt.entries[k].offset) = madt.entries[k].length
              /\ madt.entries[k].length = 0 => k = EntryCount
              /\ madt.entries[k].length # 0 =>
                   madt.entries[k].offset + madt.entries[k].length
                     = IF k < EntryCount THEN madt.entries[k + 1].offset ELSE madt.Length
<1> DEFINE N == Len(madt.entries)
           E == EntryCount
           zeros == { k \in 1 .. N : madt.entries[k].length = 0 }
           Offset(k) == IF k <= N THEN madt.entries[k].offset ELSE madt.Length
           S == [type : 0 .. Byte - 1, length : 0 .. Byte - 1, offset : 0 .. Word - 1]
<1>1. /\ madt.Length \in 0 .. Word - 1 /\ madt.bytes \in Seq(0 .. Byte - 1) /\ madt.Length <= Len(madt.bytes)
      /\ madt.entries \in Seq(S) /\ Offset(1) = MadtHeader
      /\ \A k \in 1 .. N :
           /\ madt.entries[k].offset + 2 <= madt.Length
           /\ madt.bytes[madt.entries[k].offset + 1] = madt.entries[k].type
           /\ madt.bytes[madt.entries[k].offset + 2] = madt.entries[k].length
           /\ madt.entries[k].length # 0 => Offset(k + 1) = madt.entries[k].offset + madt.entries[k].length
  BY DEF MadtLaidOut
<1>2. N \in Nat /\ \A k \in 1 .. N : madt.entries[k] \in S
  <2> HIDE DEF S
  <2>1. madt.entries \in Seq(S)
    BY <1>1
  <2> QED BY <2>1
<1>3. E = IF zeros = {} THEN N ELSE CHOOSE k \in zeros : \A j \in zeros : k <= j
  BY DEF EntryCount
<1> HIDE DEF E
<1>4. /\ E \in 0 .. N /\ (E = 0 => N = 0)
      /\ \A k \in zeros : E <= k
      /\ E # N => E \in zeros
      /\ zeros # {} => E \in zeros
  <2>1. CASE zeros = {}
    BY <1>2, <1>3, <2>1
  <2>2. CASE zeros # {}
    <3>1. zeros \subseteq 1 .. N /\ zeros \subseteq Nat
      BY <1>2
    <3> HIDE DEF zeros, N
    <3>2. \E k \in zeros : \A j \in zeros : k <= j
      BY <2>2, <3>1, LeastNat
    <3>3. E \in zeros /\ \A j \in zeros : E <= j
      BY <1>3, <2>2, <3>2
    <3> QED BY <1>2, <2>2, <3>1, <3>3
  <2> QED BY <2>1, <2>2
<1>5. MadtHeader = IF 0 < E THEN madt.entries[1].offset ELSE madt.Length
  <2>1. Offset(1) = MadtHeader
    BY <1>1
  <2>2. N \in Nat /\ E \in 0 .. N /\ (E = 0 => N = 0)
    BY <1>2, <1>4
  <2> HIDE DEF N, zeros
  <2> QED BY <2>1, <2>2
<1>6. ASSUME NEW k \in 1 .. E
      PROVE  /\ madt.entries[k].offset \in 0 .. Word - 1 /\ madt.entries[k].length \in 0 .. Byte - 1
             /\ madt.entries[k].offset + 2 <= madt.Length
             /\ entry_type(madt.entries[k].offset) = madt.entries[k].type
             /\ entry_length(madt.entries[k].offset) = madt.entries[k].length
             /\ madt.entries[k].length = 0 => k = E
             /\ madt.entries[k].length # 0 =>
                  madt.entries[k].offset + madt.entries[k].length
                    = IF k < E THEN madt.entries[k + 1].offset ELSE madt.Length
  <2>1. k \in 1 .. N /\ E \in 0 .. N
    BY <1>2, <1>4
  <2>2. madt.entries[k].offset \in 0 .. Word - 1 /\ madt.entries[k].length \in 0 .. Byte - 1
    BY <1>2, <2>1
  <2>3. /\ entry_type(madt.entries[k].offset) = madt.entries[k].type
        /\ entry_length(madt.entries[k].offset) = madt.entries[k].length
    BY <1>1, <2>1 DEF entry_type, entry_length
  <2>4. madt.entries[k].length = 0 => k = E
    <3>1. madt.entries[k].length = 0 => E <= k
      BY <1>4, <2>1
    <3> QED BY <2>1, <3>1
  <2>5. ASSUME madt.entries[k].length # 0
        PROVE  madt.entries[k].offset + madt.entries[k].length
                 = IF k < E THEN madt.entries[k + 1].offset ELSE madt.Length
    <3>1. Offset(k + 1) = madt.entries[k].offset + madt.entries[k].length
      BY <1>1, <2>1, <2>5
    <3>2. k = E => E = N
      BY <1>4, <2>1, <2>5
    <3> QED BY <1>2, <2>1, <3>1, <3>2
  <2> QED BY <1>1, <2>1, <2>2, <2>3, <2>4, <2>5
<1> QED BY <1>1, <1>2, <1>4, <1>5, <1>6 DEF E

(* Counting the entries of a type. *)
LEMMA OfTypeFacts ==
  ASSUME NEW t, NEW n \in Nat
  PROVE  /\ IsFiniteSet(OfType(t, n)) /\ Cardinality(OfType(t, n)) \in Nat
         /\ \A k \in 0 .. n : Cardinality(OfType(t, k)) <= Cardinality(OfType(t, n))
<1>1. \A k \in 0 .. n : OfType(t, k) \subseteq OfType(t, n)
  BY DEF OfType
<1>2. OfType(t, n) \subseteq 1 .. n /\ IsFiniteSet(1 .. n)
  BY FS_Interval DEF OfType
<1>3. IsFiniteSet(OfType(t, n))
  BY <1>2, FS_Subset
<1>4. \A k \in 0 .. n : Cardinality(OfType(t, k)) <= Cardinality(OfType(t, n))
  BY <1>1, <1>3, FS_Subset
<1> QED BY <1>3, <1>4, FS_CardinalityType

LEMMA OfTypeNext ==
  ASSUME NEW t, NEW n \in Nat
  PROVE  /\ madt.entries[n + 1].type = t =>
              /\ OfType(t, n + 1) = OfType(t, n) \cup {n + 1}
              /\ Cardinality(OfType(t, n + 1)) = Cardinality(OfType(t, n)) + 1
         /\ madt.entries[n + 1].type # t => OfType(t, n + 1) = OfType(t, n)
<1>1. /\ madt.entries[n + 1].type = t => OfType(t, n + 1) = OfType(t, n) \cup {n + 1}
      /\ madt.entries[n + 1].type # t => OfType(t, n + 1) = OfType(t, n)
      /\ n + 1 \notin OfType(t, n)
  BY DEF OfType
<1>2. IsFiniteSet(OfType(t, n))
  BY OfTypeFacts
<1>3. Cardinality(OfType(t, n) \cup {n + 1}) = Cardinality(OfType(t, n)) + 1
  BY <1>1, <1>2, FS_AddElement
<1> QED BY <1>1, <1>3

(* One entry more is looked at. *)
LEMMA CollectStep ==
  ASSUME NEW S, NEW a \in Seq(S), NEW t, NEW max \in Nat, NEW n \in Nat, FirstOfType(a, t, max, n),
         NEW p \in S, p = madt.entries[n + 1].offset, NEW b,
         b = IF madt.entries[n + 1].type = t /\ Len(a) < max THEN Append(a, p) ELSE a
  PROVE  b \in Seq(S) /\ FirstOfType(b, t, max, n + 1) /\ Len(b) <= max
<1> DEFINE c == Cardinality(OfType(t, n))
           d == Cardinality(OfType(t, n + 1))
           place(k) == Cardinality(OfType(t, k))
<1>1. c \in Nat /\ d \in Nat /\ \A k \in OfType(t, n) : k \in 1 .. n /\ place(k) <= c
  <2>1. \A k \in OfType(t, n) : k \in 1 .. n
    BY DEF OfType
  <2> QED BY <2>1, OfTypeFacts
<1>2. /\ Len(a) = IF c < max THEN c ELSE max
      /\ \A k \in OfType(t, n) : place(k) <= max => a[place(k)] = madt.entries[k].offset
  BY DEF FirstOfType
<1>3. CASE madt.entries[n + 1].type # t
  <2>1. OfType(t, n + 1) = OfType(t, n) /\ b = a
    BY <1>3, OfTypeNext
  <2> QED BY <1>1, <1>2, <2>1 DEF FirstOfType
<1>4. CASE madt.entries[n + 1].type = t /\ ~(Len(a) < max)
  <2>1. OfType(t, n + 1) = OfType(t, n) \cup {n + 1} /\ d = c + 1 /\ b = a
    BY <1>4, OfTypeNext
  <2>2. Len(a) = max /\ c >= max /\ d > max
    BY <1>1, <1>2, <1>4, <2>1
  <2>3. \A k \in OfType(t, n + 1) : place(k) <= max => b[place(k)] = madt.entries[k].offset
    BY <1>1, <1>2, <2>1, <2>2
  <2> QED BY <1>1, <2>1, <2>2, <2>3 DEF FirstOfType
<1>5. CASE madt.entries[n + 1].type = t /\ Len(a) < max
  <2>1. OfType(t, n + 1) = OfType(t, n) \cup {n + 1} /\ d = c + 1 /\ b = Append(a, p)
    BY <1>5, OfTypeNext
  <2>2. Len(a) = c /\ c < max
    BY <1>1, <1>2, <1>5
  <2>3. b \in Seq(S) /\ Len(b) = c + 1 /\ b[c + 1] = p /\ \A j \in 1 .. c : b[j] = a[j]
    BY <2>1, <2>2
  <2>4. \A k \in OfType(t, n) : place(k) \in 1 .. c
    <3>1. ASSUME NEW k \in OfType(t, n) PROVE place(k) \in 1 .. c
      <4>1. k \in Nat /\ k \in OfType(t, k) /\ place(k) <= c
        BY <1>1 DEF OfType
      <4>2. IsFiniteSet(OfType(t, k)) /\ place(k) \in Nat
        BY <4>1, OfTypeFacts
      <4>3. place(k) # 0
        BY <4>1, <4>2, FS_EmptySet
      <4> QED BY <1>1, <4>1, <4>2, <4>3
    <3> QED BY <3>1
  <2>5. ASSUME NEW k \in OfType(t, n + 1), place(k) <= max
        PROVE  b[place(k)] = madt.entries[k].offset
    <3>1. CASE k = n + 1
      BY <2>1, <2>3, <3>1
    <3>2. CASE k \in OfType(t, n)
      BY <1>2, <2>3, <2>4, <2>5, <3>2
    <3> QED BY <2>1, <3>1, <3>2
  <2>6. Len(b) = IF d < max THEN d ELSE max
    BY <1>1, <2>1, <2>2, <2>3
  <2>7. FirstOfType(b, t, max, n + 1)
    BY <2>5, <2>6, Zenon DEF FirstOfType
  <2>8. Len(b) <= max
    <3> HIDE DEF c, d
    <3> QED BY <1>1, <2>2, <2>3
  <2> QED BY <2>3, <2>7, <2>8
<1> QED BY <1>3, <1>4, <1>5

------------------------------------------------------------------------------
(* The MADT found is one of the firmware's. *)
LEMMA MadtFound ==
  ASSUME WalkInv, madt # NULL
  PROVE  MadtLaidOut(madt)
<1>1. PICK h \in 1 .. Len(Root.tables) : FirstTable(h) /\ madt = Root.tables[h]
  BY DEF WalkInv, Search
<1>2. Root.tables[h].Signature = Signature
  BY <1>1 DEF FirstTable
<1> QED BY <1>1, <1>2, RootFacts DEF WalkInv

(* An array of nothing, before an entry was looked at. *)
LEMMA NothingYet ==
  ASSUME NEW t, NEW max \in Nat
  PROVE  FirstOfType(<<>>, t, max, 0)
<1>1. OfType(t, 0) = {}
  BY DEF OfType
<1>2. Cardinality({}) = 0
  BY FS_EmptySet
<1>3. Len(<<>>) = IF Cardinality(OfType(t, 0)) < max THEN Cardinality(OfType(t, 0)) ELSE max
  BY <1>1, <1>2
<1>4. \A k \in OfType(t, 0) :
        Cardinality(OfType(t, k)) <= max => <<>>[Cardinality(OfType(t, k))] = madt.entries[k].offset
  BY <1>1
<1> QED BY <1>3, <1>4 DEF FirstOfType

(* Where the walk is determines whether it has ended. *)
LEMMA AtEnd ==
  ASSUME WalkInv, madt # NULL, NEW n \in 0 .. EntryCount, Passed(n)
  PROVE  /\ EntryCount \in Nat
         /\ ptr < madt.Length => n < EntryCount /\ ptr = madt.entries[n + 1].offset
         /\ ptr >= madt.Length => n = EntryCount
<1>1. LaidOut /\ MadtLaidOut(madt)
  BY MadtFound DEF WalkInv
<1>2. /\ EntryCount \in Nat /\ madt.Length \in 0 .. Word - 1
      /\ \A k \in 1 .. EntryCount :
           madt.entries[k].offset \in 0 .. Word - 1 /\ madt.entries[k].offset + 2 <= madt.Length
  BY <1>1, EntryFacts
<1>3. ptr = IF n < EntryCount THEN madt.entries[n + 1].offset ELSE madt.Length
  BY DEF Passed
<1>4. CASE n < EntryCount
  <2>1. n + 1 \in 1 .. EntryCount
    BY <1>2, <1>4
  <2>2. ptr = madt.entries[n + 1].offset /\ ptr \in 0 .. Word - 1 /\ ptr + 2 <= madt.Length
    BY <1>2, <1>3, <1>4, <2>1
  <2>3. ptr < madt.Length
    BY <1>2, <2>2
  <2> QED BY <1>2, <1>4, <2>2, <2>3
<1>5. CASE ~(n < EntryCount)
  BY <1>2, <1>3, <1>5
<1> QED BY <1>4, <1>5

------------------------------------------------------------------------------
(* findTable *)
LEMMA SkipTableStep ==
  ASSUME WalkInv, SkipTable
  PROVE  WalkInv'
<1> USE DEF SkipTable, walk, entries
<1>1. /\ LaidOut /\ fw \in Firmwares /\ fw' = fw
      /\ pc = "findTable" /\ pc' = pc /\ madt' = madt /\ i' = i + 1
  BY DEF WalkInv
<1>2. /\ entries_count = Len(Root.tables) /\ entries_count \in 0 .. Word - 1 /\ Word \in Nat
      /\ i < entries_count /\ i \in 0 .. Word - 1
  BY <1>1, CountFacts DEF WalkInv, TypeOK, LaidOut
<1>3. Root' = Root
  BY <1>1 DEF Root, GetXSDT, GetRSDT
<1>4. Root.tables[i + 1].Signature # Signature
  <2> DEFINE s == Root.tables[i + 1].Signature
  <2>1. i + 1 \in 1 .. Len(Root.tables)
    BY <1>2
  <2>2. s \in [1 .. 4 -> Int] /\ Signature \in [1 .. 4 -> Int \ {0}]
    BY <1>1, <2>1, RootFacts DEF LaidOut
  <2>3. strncmp(s, Signature, 4) # 0
    OBVIOUS
  <2> HIDE DEF s, SkipTable
  <2> QED BY <2>2, <2>3, SameSignature DEF s
<1>5. TypeOK'
  BY <1>1, <1>2 DEF WalkInv, TypeOK
<1>6. Search'
  <2>1. madt = NULL /\ \A k \in 1 .. i : Root.tables[k].Signature # Signature
    BY <1>1 DEF WalkInv, Search
  <2>2. ASSUME NEW k \in 1 .. (i + 1) PROVE Root.tables[k].Signature # Signature
    BY <1>2, <1>4, <2>1
  <2>3. i + 1 <= Len(Root.tables)
    BY <1>2
  <2> QED BY <1>1, <1>3, <2>1, <2>2, <2>3 DEF Search, NULL
<1>7. Walk'
  BY <1>1 DEF Walk
<1> QED BY <1>1, <1>5, <1>6, <1>7 DEF WalkInv

LEMMA findTableStep ==
  ASSUME WalkInv, findTable
  PROVE  WalkInv'
<1> USE DEF findTable, walk, entries
<1>1. /\ LaidOut /\ fw \in Firmwares /\ fw' = fw
      /\ pc = "findTable" /\ pc' = "init_IOAPIC" /\ i' = i
  BY DEF WalkInv
<1>2. /\ entries_count = Len(Root.tables) /\ entries_count \in 0 .. Word - 1 /\ Word \in Nat
      /\ i < entries_count /\ i \in 0 .. Word - 1
  BY <1>1, CountFacts DEF WalkInv, TypeOK, LaidOut
<1>3. Root' = Root
  BY <1>1 DEF Root, GetXSDT, GetRSDT
<1>4. i + 1 \in 1 .. Len(Root.tables) /\ madt' = Root.tables[i + 1]
  BY <1>2
<1>5. Root.tables[i + 1].Signature = Signature
  <2> DEFINE s == Root.tables[i + 1].Signature
  <2>2. s \in [1 .. 4 -> Int] /\ Signature \in [1 .. 4 -> Int \ {0}]
    BY <1>1, <1>4, RootFacts DEF LaidOut
  <2>3. strncmp(s, Signature, 4) = 0
    OBVIOUS
  <2> HIDE DEF s, findTable
  <2> QED BY <2>2, <2>3, SameSignature DEF s
<1>6. TypeOK'
  BY <1>1, <1>2 DEF WalkInv, TypeOK
<1>7. Search'
  <2>1. \A k \in 1 .. i : Root.tables[k].Signature # Signature
    BY <1>1 DEF WalkInv, Search
  <2>2. (i + 1) - 1 = i
    BY <1>2
  <2>3. FirstTable(i + 1)'
    BY <1>1, <1>3, <1>4, <1>5, <2>1, <2>2 DEF FirstTable
  <2>4. madt' # NULL
    BY <1>1, <1>4, RootFacts
  <2>5. (\E h \in 1 .. Len(Root.tables) : FirstTable(h) /\ madt = Root.tables[h])'
    BY <1>1, <1>3, <1>4, <2>3
  <2> QED BY <1>1, <2>4, <2>5 DEF Search, NULL
<1>8. Walk'
  BY <1>1 DEF Walk
<1> QED BY <1>1, <1>6, <1>7, <1>8 DEF WalkInv

LEMMA FindNothingStep ==
  ASSUME WalkInv, FindNothing
  PROVE  WalkInv'
<1> USE DEF FindNothing, walk, entries, find
<1>1. /\ LaidOut /\ fw \in Firmwares /\ fw' = fw
      /\ pc = "findTable" /\ pc' = "init_IOAPIC" /\ i' = i /\ madt' = madt
  BY DEF WalkInv
<1>2. /\ entries_count = Len(Root.tables) /\ entries_count \in 0 .. Word - 1 /\ Word \in Nat
      /\ i >= entries_count /\ i \in 0 .. Word - 1
  BY <1>1, CountFacts DEF WalkInv, TypeOK, LaidOut
<1>3. Root' = Root
  BY <1>1 DEF Root, GetXSDT, GetRSDT
<1>4. TypeOK'
  BY <1>1 DEF WalkInv, TypeOK
<1>5. Search'
  <2>1. madt = NULL /\ \A k \in 1 .. i : Root.tables[k].Signature # Signature
    BY <1>1 DEF WalkInv, Search
  <2>2. NoTable
    BY <1>2, <2>1 DEF NoTable
  <2> QED BY <1>1, <1>3, <2>1, <2>2 DEF Search, NoTable, NULL
<1>6. Walk'
  BY <1>1 DEF Walk
<1> QED BY <1>1, <1>4, <1>5, <1>6 DEF WalkInv

------------------------------------------------------------------------------
(* The table found stays the one found. *)
LEMMA SearchFrame ==
  ASSUME WalkInv, madt # NULL, fw' = fw, madt' = madt, pc' \notin {"findTable", "fault"}
  PROVE  Search' /\ LaidOut' /\ (fw \in Firmwares)'
<1>1. Root' = Root
  BY DEF Root, GetXSDT, GetRSDT
<1>2. PICK h \in 1 .. Len(Root.tables) : FirstTable(h) /\ madt = Root.tables[h]
  BY DEF WalkInv, Search
<1>3. FirstTable(h)'
  BY <1>1, <1>2 DEF FirstTable
<1>4. (\E k \in 1 .. Len(Root.tables) : FirstTable(k) /\ madt = Root.tables[k])'
  BY <1>1, <1>2, <1>3
<1>5. Search'
  BY <1>4 DEF Search, NULL
<1> QED BY <1>5 DEF WalkInv

(* FindEntries is called. *)
LEMMA FindEntriesStep ==
  ASSUME WalkInv, madt # NULL, madt' = madt, NEW t \in {1, 2}, FindEntries(t)
  PROVE  ptr' \in 0 .. Word - 1 /\ EntryCount \in Nat /\ EntryCount' = EntryCount /\ Passed(0)'
<1>1. LaidOut /\ MadtLaidOut(madt)
  BY MadtFound DEF WalkInv
<1>2. /\ EntryCount \in Nat /\ madt.Length \in 0 .. Word - 1
      /\ MadtHeader = IF 0 < EntryCount THEN madt.entries[1].offset ELSE madt.Length
      /\ \A k \in 1 .. EntryCount : madt.entries[k].offset \in 0 .. Word - 1
  BY <1>1, EntryFacts
<1>3. type' = t /\ ptr' = MadtHeader /\ array' = <<>>
  BY DEF FindEntries
<1>4. MadtHeader \in 0 .. Word - 1
  BY <1>2
<1>5. EntryCount' = EntryCount
  BY DEF EntryCount
<1>6. max_count' \in Nat
  <2>1. MaxIoapics \in Nat /\ MaxIsos \in Nat
    BY <1>1 DEF LaidOut
  <2> QED BY <2>1 DEF max_count
<1>7. FirstOfType(array, type, max_count, 0)'
  <2> DEFINE m == max_count'
  <2>1. m \in Nat
    BY <1>6
  <2> HIDE DEF m
  <2>2. FirstOfType(<<>>, t, m, 0)
    BY <2>1, NothingYet
  <2> QED BY <1>3, <2>2 DEF FirstOfType, OfType, m
<1>8. 0 + 1 = 1
  OBVIOUS
<1>9. Passed(0)'
  BY <1>2, <1>3, <1>5, <1>7, <1>8 DEF Passed
<1> QED BY <1>2, <1>3, <1>4, <1>5, <1>9

LEMMA init_IOAPICStep ==
  ASSUME WalkInv, init_IOAPIC
  PROVE  WalkInv'
<1> USE DEF init_IOAPIC, find, entries
<1>1. madt # NULL /\ fw' = fw /\ madt' = madt /\ FindEntries(1) /\ pc' = "FindEntries"
  BY DEF FindEntries
<1>2. Search' /\ LaidOut' /\ (fw \in Firmwares)'
  BY <1>1, SearchFrame
<1>3. ptr' \in 0 .. Word - 1 /\ EntryCount \in Nat /\ EntryCount' = EntryCount /\ Passed(0)'
  BY <1>1, FindEntriesStep
<1>4. TypeOK'
  <2>1. <<>> \in Seq(0 .. Word - 1)
    BY EmptySeq
  <2> QED BY <1>1, <1>3, <2>1 DEF WalkInv, TypeOK, FindEntries
<1>5. Walk'
  <2>1. (\E n \in 0 .. EntryCount : Passed(n))'
    BY <1>3
  <2> QED BY <1>1, <2>1 DEF Walk, FindEntries
<1> QED BY <1>2, <1>4, <1>5 DEF WalkInv

LEMMA NullMadtFaultsStep ==
  ASSUME WalkInv, NullMadtFaults
  PROVE  WalkInv'
<1> USE DEF NullMadtFaults, find, walk, entries
<1>1. madt = NULL /\ fw' = fw /\ madt' = madt /\ pc = "init_IOAPIC" /\ pc' = "fault"
  OBVIOUS
<1>2. Root' = Root
  BY <1>1 DEF Root, GetXSDT, GetRSDT
<1>3. TypeOK'
  BY <1>1 DEF WalkInv, TypeOK
<1>4. Search'
  <2>1. NoTable
    BY <1>1 DEF WalkInv, Search
  <2> QED BY <1>1, <1>2, <2>1 DEF Search, NoTable, NULL
<1>5. Walk'
  BY <1>1 DEF Walk
<1> QED BY <1>1, <1>3, <1>4, <1>5 DEF WalkInv

LEMMA NextEntryStep ==
  ASSUME WalkInv, NextEntry
  PROVE  WalkInv'
<1> USE DEF NextEntry, find, entries
<1>1. /\ fw' = fw /\ madt' = madt /\ type' = type /\ pc = "FindEntries" /\ pc' = "FindEntries"
      /\ ioapic_entries' = ioapic_entries /\ madt # NULL /\ LaidOut /\ ptr < madt.Length
  BY DEF WalkInv, Search, entries_end
<1>2. Search' /\ LaidOut' /\ (fw \in Firmwares)'
  BY <1>1, SearchFrame
<1>3. type \in {1, 2} /\ max_count \in Nat /\ max_count' = max_count
  BY <1>1 DEF WalkInv, Walk, max_count, LaidOut
<1>4. PICK n \in 0 .. EntryCount : Passed(n)
  BY <1>1 DEF WalkInv, Walk
<1>5. /\ EntryCount \in Nat /\ n < EntryCount /\ n + 1 \in 1 .. EntryCount
      /\ ptr = madt.entries[n + 1].offset
  BY <1>1, <1>4, AtEnd
<1>6. EntryCount' = EntryCount
  BY <1>1 DEF EntryCount
<1> DEFINE e == madt.entries[n + 1]
<1>7. /\ madt.Length \in 0 .. Word - 1 /\ e.offset \in 0 .. Word - 1 /\ e.length \in 0 .. Byte - 1
      /\ entry_type(e.offset) = e.type /\ entry_length(e.offset) = e.length
      /\ e.length = 0 => n + 1 = EntryCount
      /\ e.length # 0 =>
           e.offset + e.length
             = IF n + 1 < EntryCount THEN madt.entries[(n + 1) + 1].offset ELSE madt.Length
      /\ \A k \in 1 .. EntryCount : madt.entries[k].offset \in 0 .. Word - 1
  <2>1. MadtLaidOut(madt)
    BY <1>1, MadtFound
  <2> QED BY <1>1, <1>5, <2>1, EntryFacts
<1>8. /\ array' = IF e.type = type /\ Len(array) < max_count THEN Append(array, ptr) ELSE array
      /\ ptr' = IF e.length = 0 THEN madt.Length ELSE ptr + e.length
  BY <1>5, <1>7 DEF Collects, entries_end
<1>9. array' \in Seq(0 .. Word - 1) /\ FirstOfType(array', type, max_count, n + 1)
  <2>1. array \in Seq(0 .. Word - 1) /\ ptr \in 0 .. Word - 1 /\ n \in Nat
    BY <1>5 DEF WalkInv, TypeOK
  <2>2. FirstOfType(array, type, max_count, n)
    BY <1>4 DEF Passed
  <2> DEFINE S == 0 .. Word - 1
             b == array'
             m == max_count
  <2>3. m \in Nat /\ array \in Seq(S) /\ ptr \in S /\ FirstOfType(array, type, m, n)
    BY <1>3, <2>1, <2>2
  <2>4. b = IF madt.entries[n + 1].type = type /\ Len(array) < m THEN Append(array, ptr) ELSE array
    BY <1>8
  <2> HIDE DEF NextEntry, S, b, m, e
  <2>5. n \in Nat /\ ptr = madt.entries[n + 1].offset
    BY <1>5, <2>1
  <2>6. b \in Seq(S) /\ FirstOfType(b, type, m, n + 1)
    BY <2>3, <2>4, <2>5, CollectStep, ZenonT(60)
  <2> QED BY <2>6 DEF S, b, m
<1>10. ptr' = IF n + 1 < EntryCount THEN madt.entries[(n + 1) + 1].offset ELSE madt.Length
  <2>1. CASE e.length = 0
    BY <1>5, <1>7, <1>8, <2>1
  <2>2. CASE e.length # 0
    BY <1>5, <1>7, <1>8, <2>2
  <2> QED BY <2>1, <2>2
<1>11. ptr' \in 0 .. Word - 1
  <2>1. CASE n + 1 < EntryCount
    <3>1. (n + 1) + 1 \in 1 .. EntryCount
      BY <1>5, <2>1
    <3> QED BY <1>7, <1>10, <2>1, <3>1
  <2>2. CASE ~(n + 1 < EntryCount)
    BY <1>7, <1>10, <2>2
  <2> QED BY <2>1, <2>2
<1>12. Passed(n + 1)'
  <2>1. FirstOfType(array, type, max_count, n + 1)'
    BY <1>1, <1>3, <1>9 DEF FirstOfType, OfType
  <2> HIDE DEF NextEntry
  <2> QED BY <1>1, <1>6, <1>10, <2>1 DEF Passed
<1>13. TypeOK'
  <2>1. ioapic_entries' = ioapic_entries /\ iso_entries' = iso_entries /\ i' = i /\ sum' = sum
    OBVIOUS
  <2> HIDE DEF NextEntry
  <2> QED BY <1>1, <1>9, <1>11, <2>1 DEF WalkInv, TypeOK
<1>14. Walk'
  <2>1. (\E k \in 0 .. EntryCount : Passed(k))'
    BY <1>5, <1>6, <1>12
  <2>2. (type = 2 => FirstOfType(ioapic_entries, 1, MaxIoapics, EntryCount))'
    <3>1. type = 2 => FirstOfType(ioapic_entries, 1, MaxIoapics, EntryCount)
      BY <1>1 DEF WalkInv, Walk
    <3> QED BY <1>1, <1>6, <3>1 DEF FirstOfType, OfType
  <2> QED BY <1>1, <1>3, <2>1, <2>2 DEF Walk
<1> QED BY <1>2, <1>13, <1>14 DEF WalkInv

LEMMA IoapicsFoundStep ==
  ASSUME WalkInv, IoapicsFound
  PROVE  WalkInv'
<1> USE DEF IoapicsFound, find
<1>1. /\ fw' = fw /\ madt' = madt /\ pc = "FindEntries" /\ pc' = "FindEntries"
      /\ type = 1 /\ FindEntries(2)
      /\ madt # NULL /\ ptr >= madt.Length /\ ioapic_entries' = array
  BY DEF WalkInv, Search, entries_end, FindEntries
<1>2. Search' /\ LaidOut' /\ (fw \in Firmwares)'
  BY <1>1, SearchFrame
<1>3. ptr' \in 0 .. Word - 1 /\ EntryCount \in Nat /\ EntryCount' = EntryCount /\ Passed(0)'
  BY <1>1, FindEntriesStep
<1>4. FirstOfType(array, 1, MaxIoapics, EntryCount)
  <2>1. PICK n \in 0 .. EntryCount : Passed(n)
    BY <1>1 DEF WalkInv, Walk
  <2>2. n = EntryCount
    BY <1>1, <2>1, AtEnd
  <2> QED BY <1>1, <2>1, <2>2 DEF Passed, max_count
<1>5. TypeOK'
  <2>1. <<>> \in Seq(0 .. Word - 1)
    BY EmptySeq
  <2> QED BY <1>1, <1>3, <2>1 DEF WalkInv, TypeOK, FindEntries
<1>6. Walk'
  <2>1. (\E n \in 0 .. EntryCount : Passed(n))'
    BY <1>3
  <2>2. FirstOfType(ioapic_entries, 1, MaxIoapics, EntryCount)'
    BY <1>1, <1>3, <1>4 DEF FirstOfType, OfType
  <2> QED BY <1>1, <2>1, <2>2 DEF Walk, FindEntries
<1> QED BY <1>2, <1>5, <1>6 DEF WalkInv

LEMMA IsosFoundStep ==
  ASSUME WalkInv, IsosFound
  PROVE  WalkInv'
<1> USE DEF IsosFound, find, walk
<1>1. /\ fw' = fw /\ madt' = madt /\ pc = "FindEntries" /\ pc' = "done" /\ type = 2
      /\ madt # NULL /\ ptr >= madt.Length /\ iso_entries' = array /\ ioapic_entries' = ioapic_entries
  BY DEF WalkInv, Search, entries_end
<1>2. Search' /\ LaidOut' /\ (fw \in Firmwares)'
  BY <1>1, SearchFrame
<1>3. EntryCount' = EntryCount
  BY <1>1 DEF EntryCount
<1>4. /\ FirstOfType(array, 2, MaxIsos, EntryCount)
      /\ FirstOfType(ioapic_entries, 1, MaxIoapics, EntryCount)
  <2>1. PICK n \in 0 .. EntryCount : Passed(n)
    BY <1>1 DEF WalkInv, Walk
  <2>2. n = EntryCount
    BY <1>1, <2>1, AtEnd
  <2> QED BY <1>1, <2>1, <2>2 DEF WalkInv, Walk, Passed, max_count
<1>5. TypeOK'
  BY <1>1 DEF WalkInv, TypeOK
<1>6. Walk'
  <2>1. FirstOfType(ioapic_entries, 1, MaxIoapics, EntryCount)'
    BY <1>1, <1>3, <1>4 DEF FirstOfType, OfType
  <2>2. FirstOfType(iso_entries, 2, MaxIsos, EntryCount)'
    BY <1>1, <1>3, <1>4 DEF FirstOfType, OfType
  <2> QED BY <1>1, <2>1, <2>2 DEF Walk
<1> QED BY <1>2, <1>5, <1>6 DEF WalkInv

(* doChecksum *)
LEMMA ChecksumStep ==
  ASSUME WalkInv, doChecksum \/ AddByte \/ ChecksumReturn
  PROVE  WalkInv'
<1> USE DEF doChecksum, AddByte, ChecksumReturn, find, walk, entries
<1>1. fw' = fw /\ madt' = madt /\ madt # NULL /\ LaidOut /\ pc' \in {"doChecksum", "checked"}
  BY DEF WalkInv, Search
<1>2. Search' /\ LaidOut' /\ (fw \in Firmwares)'
  BY <1>1, SearchFrame
<1>3. madt.Length \in 0 .. Word - 1 /\ madt.Length <= Len(madt.bytes) /\ madt.bytes \in Seq(0 .. Byte - 1)
  <2>1. MadtLaidOut(madt)
    BY <1>1, MadtFound
  <2> HIDE DEF doChecksum, AddByte, ChecksumReturn
  <2> QED BY <1>1, <2>1, EntryFacts
<1>4. Word \in Nat \ {0} /\ Byte \in Nat \ {0} /\ i \in 0 .. Word - 1 /\ sum \in 0 .. Byte - 1
  BY <1>1 DEF WalkInv, TypeOK, LaidOut
<1>5. i' \in 0 .. Word - 1 /\ (pc' = "doChecksum" => i' <= madt.Length) /\ sum' \in 0 .. Byte - 1
  <2>1. CASE doChecksum
    BY <1>3, <1>4, <2>1
  <2>2. CASE AddByte
    <3>1. i < madt.Length /\ i' = i + 1 /\ sum' = (sum + madt.bytes[i + 1]) % Byte
      BY <2>2
    <3> HIDE DEF doChecksum, AddByte, ChecksumReturn
    <3>2. i + 1 \in 1 .. Len(madt.bytes)
      <4>1. Len(madt.bytes) \in Nat
        BY <1>3
      <4> QED BY <1>3, <1>4, <3>1, <4>1
    <3>3. madt.bytes[i + 1] \in 0 .. Byte - 1
      <4> DEFINE S == 0 .. Byte - 1
      <4>1. madt.bytes \in Seq(S)
        BY <1>3
      <4> HIDE DEF S
      <4>2. madt.bytes[i + 1] \in S
        BY <3>2, <4>1
      <4> QED BY <4>2 DEF S
    <3>4. sum' \in 0 .. Byte - 1
      <4> DEFINE x == sum + madt.bytes[i + 1]
      <4>1. x \in Nat
        BY <1>4, <3>3
      <4> HIDE DEF x
      <4>2. x % Byte \in 0 .. Byte - 1
        BY <1>4, <4>1
      <4> QED BY <3>1, <4>2 DEF x
    <3>5. i' \in 0 .. Word - 1 /\ i' <= madt.Length
      BY <1>3, <1>4, <3>1
    <3> QED BY <3>4, <3>5
  <2>3. CASE ChecksumReturn
    BY <1>4, <2>3
  <2> QED BY <2>1, <2>2, <2>3
<1>6. TypeOK'
  <2>1. /\ ptr' = ptr /\ type' = type /\ array' = array
        /\ ioapic_entries' = ioapic_entries /\ iso_entries' = iso_entries
    OBVIOUS
  <2> HIDE DEF doChecksum, AddByte, ChecksumReturn
  <2> QED BY <1>1, <1>5, <2>1 DEF WalkInv, TypeOK
<1>7. Walk'
  <2> HIDE DEF doChecksum, AddByte, ChecksumReturn
  <2> QED BY <1>1, <1>5 DEF Walk
<1> QED BY <1>2, <1>6, <1>7 DEF WalkInv

LEMMA StutterStep ==
  ASSUME WalkInv, UNCHANGED acpi_vars
  PROVE  WalkInv'
<1> USE DEF acpi_vars, find, walk, entries
<1>1. Root' = Root
  BY DEF Root, GetXSDT, GetRSDT
<1>2. TypeOK'
  BY DEF WalkInv, TypeOK
<1>3. Search'
  BY <1>1 DEF WalkInv, Search, FirstTable, NoTable, NULL
<1>4. Walk'
  <2>1. EntryCount' = EntryCount /\ max_count' = max_count
    BY DEF EntryCount, max_count
  <2>2. ASSUME NEW n, Passed(n) PROVE Passed(n)'
    BY <2>1, <2>2 DEF Passed, FirstOfType, OfType
  <2>3. FirstOfType(ioapic_entries, 1, MaxIoapics, EntryCount)
          => FirstOfType(ioapic_entries, 1, MaxIoapics, EntryCount)'
    BY <2>1 DEF FirstOfType, OfType
  <2>4. FirstOfType(iso_entries, 2, MaxIsos, EntryCount)
          => FirstOfType(iso_entries, 2, MaxIsos, EntryCount)'
    BY <2>1 DEF FirstOfType, OfType
  <2>5. pc' = pc /\ type' = type /\ i' = i /\ madt' = madt
    OBVIOUS
  <2>6. Walk
    BY DEF WalkInv
  <2> HIDE DEF acpi_vars
  <2> QED BY <2>1, <2>2, <2>3, <2>4, <2>5, <2>6 DEF Walk
<1> QED BY <1>2, <1>3, <1>4 DEF WalkInv

LEMMA WalkInit ==
  ASSUME LaidOut, AcpiInit
  PROVE  WalkInv
<1> USE DEF AcpiInit
<1>1. fw \in Firmwares /\ Word \in Nat \ {0} /\ Byte \in Nat \ {0}
  BY DEF LaidOut
<1>2. Len(Root.tables) \in Nat
  BY <1>1, RootFacts DEF RootLaidOut
<1>3. TypeOK
  <2>1. <<>> \in Seq(0 .. Word - 1)
    BY EmptySeq
  <2> QED BY <1>1, <2>1 DEF TypeOK
<1>4. Search
  BY <1>2 DEF Search, NULL
<1>5. Walk
  BY DEF Walk
<1> QED BY <1>1, <1>3, <1>4, <1>5 DEF WalkInv

LEMMA WalkNext ==
  ASSUME WalkInv, [AcpiNext]_acpi_vars
  PROVE  WalkInv'
BY SkipTableStep, findTableStep, FindNothingStep, init_IOAPICStep, NullMadtFaultsStep, NextEntryStep,
   IoapicsFoundStep, IsosFoundStep, ChecksumStep, StutterStep DEF AcpiNext

LEMMA InvReadsInside ==
  ASSUME WalkInv
  PROVE  ReadsInside
<1>1. TypeOK /\ LaidOut /\ fw \in Firmwares /\ i \in 0 .. Word - 1 /\ ptr \in 0 .. Word - 1
  BY DEF WalkInv, TypeOK
<1>2. ASSUME pc = "findTable", i < entries_count
      PROVE  RootHeader + (i + 1) * PointerSize <= Root.Length /\ i < Len(Root.tables)
  <2>1. /\ entries_count = Len(Root.tables) /\ entries_count \in 0 .. Word - 1
        /\ \A k \in 0 .. (Len(Root.tables) - 1) : RootHeader + (k + 1) * PointerSize <= Root.Length
    BY <1>1, CountFacts
  <2>2. i \in 0 .. (Len(Root.tables) - 1)
    BY <1>1, <1>2, <2>1
  <2> QED BY <1>2, <2>1, <2>2
<1>3. ASSUME pc = "FindEntries"
      PROVE  (ptr < entries_end => ptr + 2 <= madt.Length) /\ Len(array) <= max_count
  <2>1. madt # NULL /\ max_count \in Nat
    BY <1>1, <1>3 DEF WalkInv, Search, max_count, LaidOut
  <2>2. PICK n \in 0 .. EntryCount : Passed(n)
    BY <1>3 DEF WalkInv, Walk
  <2>3. EntryCount \in Nat /\ (ptr < madt.Length => n < EntryCount /\ ptr = madt.entries[n + 1].offset)
    BY <2>1, <2>2, AtEnd
  <2>4. \A k \in 1 .. EntryCount : madt.entries[k].offset + 2 <= madt.Length
    BY <1>1, <2>1, MadtFound, EntryFacts
  <2>5. ASSUME ptr < madt.Length PROVE ptr + 2 <= madt.Length
    <3>1. n + 1 \in 1 .. EntryCount
      BY <2>3, <2>5
    <3> QED BY <2>3, <2>4, <2>5, <3>1
  <2>6. Len(array) <= max_count
    <3> DEFINE c == Cardinality(OfType(type, n))
    <3>1. n \in Nat
      BY <2>3
    <3>2. c \in Nat
      BY <3>1, OfTypeFacts
    <3>3. Len(array) = IF c < max_count THEN c ELSE max_count
      BY <2>2 DEF Passed, FirstOfType
    <3> HIDE DEF c
    <3> QED BY <2>1, <3>2, <3>3
  <2> QED BY <2>5, <2>6 DEF entries_end
<1>4. ASSUME pc = "doChecksum", i < madt.Length PROVE i < Len(madt.bytes)
  <2>1. madt # NULL
    BY <1>4 DEF WalkInv, Search
  <2>2. madt.Length \in 0 .. Word - 1 /\ madt.Length <= Len(madt.bytes) /\ madt.bytes \in Seq(0 .. Byte - 1)
    BY <1>1, <2>1, MadtFound, EntryFacts
  <2>3. Len(madt.bytes) \in Nat
    BY <2>2
  <2> QED BY <1>1, <1>4, <2>2, <2>3
<1> QED BY <1>1, <1>2, <1>3, <1>4 DEF ReadsInside

LEMMA InvFindsEntries ==
  ASSUME WalkInv
  PROVE  FindsEntries
<1> DEFINE hits == { k \in 1 .. Len(Root.tables) : Root.tables[k].Signature = Signature }
           first == CHOOSE k \in hits : \A j \in hits : k <= j
<1>1. Len(Root.tables) \in Nat
  BY RootFacts DEF WalkInv, RootLaidOut
<1>2. ASSUME pc \in {"FindEntries", "done"} PROVE hits # {} /\ madt = Root.tables[first]
  <2>1. madt # NULL
    BY <1>2 DEF WalkInv, Search
  <2>2. PICK h \in 1 .. Len(Root.tables) : FirstTable(h) /\ madt = Root.tables[h]
    BY <2>1 DEF WalkInv, Search
  <2>3. h \in hits
    BY <2>2 DEF FirstTable
  <2>4. ASSUME NEW j \in hits PROVE j \in Nat /\ h <= j
    BY <1>1, <2>2 DEF FirstTable
  <2>5. first \in hits /\ first <= h
    <3> HIDE DEF hits
    <3>1. \A j \in hits : h <= j
      BY <2>4
    <3> QED BY <2>3, <3>1
  <2>6. first = h
    <3> HIDE DEF first, hits
    <3> QED BY <1>1, <2>3, <2>4, <2>5
  <2> QED BY <2>2, <2>3, <2>6
<1>3. ASSUME pc = "fault" PROVE hits = {}
  BY <1>3 DEF WalkInv, Search, NoTable
<1>4. pc = "done" =>
        /\ FirstOfType(ioapic_entries, 1, MaxIoapics, EntryCount)
        /\ FirstOfType(iso_entries, 2, MaxIsos, EntryCount)
  BY DEF WalkInv, Walk
<1> QED BY <1>2, <1>3, <1>4 DEF FindsEntries

LEMMA WalkSpec == AcpiSpec => []WalkInv
<1>1. AcpiInit => WalkInv
  BY AcpiAssumption, WalkInit
<1>2. WalkInv /\ [AcpiNext]_acpi_vars => WalkInv'
  BY WalkNext
<1> QED BY <1>1, <1>2, PTL DEF AcpiSpec

(***************************************************************************)
(* For any tables whose lengths are right, findTable reads no pointer past *)
(* the end of the RSDT or XSDT, FindEntries and doChecksum no byte past    *)
(* the end of the MADT, and neither array of init_IOAPIC is written past   *)
(* its end.                                                                *)
(***************************************************************************)
THEOREM ReadsInsideHolds == AcpiSpec => []ReadsInside
<1>1. WalkInv => ReadsInside
  BY InvReadsInside
<1> QED BY <1>1, WalkSpec, PTL

(***************************************************************************)
(* For any such tables, findTable returns the first table of the signature *)
(* or NULL if there is none, and init_IOAPIC collects the first MaxIoapics *)
(* entries of type 1 and the first MaxIsos of type 2 in the order of the   *)
(* MADT, up to an entry of length 0.                                       *)
(***************************************************************************)
THEOREM FindsEntriesHolds == AcpiSpec => []FindsEntries
<1>1. WalkInv => FindsEntries
  BY InvFindsEntries
<1> QED BY <1>1, WalkSpec, PTL
==============================================================================
