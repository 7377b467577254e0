--------------------------- MODULE InterruptsProofs ---------------------------
(***************************************************************************)
(* Proofs about Interrupts, for every set of devices and exceptions and    *)
(* any number of interrupts.                                               *)
(***************************************************************************)
EXTENDS Interrupts, FiniteSetTheorems, SequenceTheorems, TLAPS

------------------------------------------------------------------------------
(* The inductive invariant.                                                *)

FieldNames == { Registers[j] : j \in DOMAIN Registers }
Words == [name : FieldNames, val : (0 .. 255) \cup RegisterNames \cup {"changed"}]

(* The words the processor pushes when it leaves the kernel with           *)
(* interrupts on, and the stack of a handler above them.                   *)
Frame ==
  << Word("rip", 0), Word("cs", 0), Word("rflags", 1), Word("rsp", 0), Word("ss", 0) >>
Saved(v) ==
  [ i \in 1 .. 16 |-> Word(PopOrder[i], PopOrder[i]) ]
  \o << Word("vectors", v) >> \o << Word("errorcode", 0) >> \o Frame

OwnRegisters == [r \in RegisterNames |-> r]

(* The interrupt that is handled. *)
IsDevice    == vec \in DeviceVectors
IsException == vec < 32

(* The values the variables may have. *)
Types ==
  /\ boot \in {"responses", "refused", "initGdt", "idt_init", "buddy_init", "heap_init",
               "enable_apic", "svr", "init_IOAPIC", "hcf"}
  /\ vectors \subseteq 0 .. 255
  /\ IF_flag \in BOOLEAN /\ svr \in BOOLEAN /\ apic_mapped \in BOOLEAN
  /\ irr \subseteq DeviceVectors /\ isr \subseteq DeviceVectors
  /\ pc \in {"kernel", "stub", "handler", "eoi", "return", "iretq", "hung"}
  /\ vec \in 0 .. 255
  /\ stack \in Seq(Words)
  /\ regs \in [RegisterNames -> RegisterNames \cup {"changed"}]
  /\ faulted \in BOOLEAN /\ early \in BOOLEAN

(* Every tick was raised as a request of its own. *)
Pending(P) == IF P THEN 1 ELSE 0
Ticks ==
  /\ raises \in 0 .. MaxRaises /\ tick \in Nat
  /\ tick + Pending(TIMER \in irr) + Pending(pc \in {"stub", "handler"} /\ vec = TIMER) <= raises

(* How far kmain has come, and when interrupts are let in. *)
Booting ==
  /\ vectors = {} <=> boot \in {"responses", "refused", "initGdt", "idt_init"}
  /\ IF_flag <=> pc = "kernel" /\ vectors # {}
  /\ apic_mapped => boot \in {"svr", "init_IOAPIC", "hcf"}
  /\ boot \in {"init_IOAPIC", "hcf"} => apic_mapped
  /\ pc # "kernel" => vectors # {}

(* What was interrupted: the vector, and what the stack holds of it. *)
Context ==
  /\ pc \in {"kernel", "iretq"} => regs = OwnRegisters
  /\ pc = "kernel" => stack = <<>> /\ vec = 0
  /\ pc = "stub" => \/ IsException
                    \/ (IsDevice \/ vec = SPURIOUS) /\ stack = Frame /\ regs = OwnRegisters
  /\ pc = "handler" => \/ IsException /\ RegVectors = vec
                       \/ IsDevice /\ stack = Saved(vec)
  /\ pc \in {"eoi", "return"} => IsDevice /\ stack = Saved(vec)
  /\ pc = "iretq" => stack = Frame
  /\ pc = "hung" => IsException

(* What is in service: the device that is handled, until it is ended. *)
InService ==
  /\ isr = {} \/ \E v \in DeviceVectors : isr = {v}
  /\ pc \in {"kernel", "return", "iretq"} => isr = {}
  /\ pc \in {"stub", "handler", "eoi"} /\ IsDevice => isr = {vec}
  /\ pc = "stub" /\ vec = SPURIOUS => isr = {}

(* Why an exception is handled. *)
Excused ==
  \/ faulted
  \/ early /\ boot \in {"buddy_init", "heap_init", "enable_apic"}
  \/ boot = "svr" /\ ~apic_mapped

Exceptions ==
  /\ pc # "kernel" /\ IsException => Excused
  /\ pc \in {"stub", "handler", "eoi"} /\ IsDevice /\ ~apic_mapped => early

IndInv == Types /\ Ticks /\ Booting /\ Context /\ InService /\ Exceptions

------------------------------------------------------------------------------
(* Facts about the operators.                                              *)

(* Registers are popped in the reverse of the order they are pushed. *)
LEMMA Orders ==
  /\ DOMAIN PushOrder = 1 .. 16 /\ DOMAIN PopOrder = 1 .. 16
  /\ Len(PushOrder) = 16 /\ Len(PopOrder) = 16
  /\ \A i \in 1 .. 16 : PopOrder[i] = PushOrder[17 - i]
<1>1. /\ DOMAIN PushOrder = 1 .. 16 /\ DOMAIN PopOrder = 1 .. 16
      /\ Len(PushOrder) = 16 /\ Len(PopOrder) = 16
  BY DEF PushOrder, PopOrder
<1>2. ASSUME NEW i \in 1 .. 16 PROVE PopOrder[i] = PushOrder[17 - i]
  BY DEF PushOrder, PopOrder
<1> QED BY <1>1, <1>2

(* A register is popped into itself. *)
LEMMA RegisterPopped ==
  ASSUME NEW r \in RegisterNames
  PROVE  LET k == CHOOSE i \in DOMAIN PopOrder : PopOrder[i] = r
         IN  k \in 1 .. 16 /\ PopOrder[k] = r
<1>1. PICK j \in 1 .. 16 : r = PushOrder[j]
  BY Orders DEF RegisterNames
<1>2. 17 - j \in 1 .. 16 /\ PopOrder[17 - j] = r
  BY <1>1, Orders
<1> QED BY <1>2, Orders

LEMMA PopsRegisters == \A i \in 1 .. 16 : PopOrder[i] \in RegisterNames
<1> SUFFICES ASSUME NEW i \in 1 .. 16 PROVE PopOrder[i] \in RegisterNames
  OBVIOUS
<1>1. 17 - i \in DOMAIN PushOrder /\ PopOrder[i] = PushOrder[17 - i]
  BY Orders
<1> QED BY <1>1 DEF RegisterNames

(* Concatenation, by a name that keeps the prover from expanding it. *)
Cat(s, t) == s \o t

LEMMA CatFacts ==
  ASSUME NEW S, NEW s \in Seq(S), NEW t \in Seq(S)
  PROVE  /\ Cat(s, t) \in Seq(S)
         /\ Len(Cat(s, t)) = Len(s) + Len(t)
         /\ \A i \in 1 .. Len(s) + Len(t) :
              Cat(s, t)[i] = IF i <= Len(s) THEN s[i] ELSE t[i - Len(s)]
BY ConcatProperties, Zenon DEF Cat

(* The fields of struct Registers (idt.h). *)
LEMMA Fields ==
  /\ DOMAIN Registers = 1 .. 23
  /\ \A i \in 1 .. 16 : Registers[i] = PopOrder[i]
  /\ Registers[17] = "vectors" /\ Registers[18] = "errorcode" /\ Registers[19] = "rip"
  /\ Registers[20] = "cs" /\ Registers[21] = "rflags" /\ Registers[22] = "rsp"
  /\ Registers[23] = "ss"
<1> DEFINE upper == <<"vectors", "errorcode", "rip", "cs", "rflags", "rsp", "ss">>
           U     == { upper[i] : i \in 1 .. 7 } \cup { PopOrder[i] : i \in 1 .. 16 }
<1>1. PopOrder \in Seq(U) /\ Len(PopOrder) = 16
  <2>1. \A i \in 1 .. 16 : PopOrder[i] \in U
    OBVIOUS
  <2>2. PopOrder = [i \in 1 .. 16 |-> PopOrder[i]]
    BY DEF PopOrder
  <2> HIDE DEF U
  <2> QED BY <2>1, <2>2, Orders
<1>2. upper \in Seq(U) /\ Len(upper) = 7
  <2>1. \A i \in 1 .. 7 : upper[i] \in U
    OBVIOUS
  <2>2. upper = [i \in 1 .. 7 |-> upper[i]] /\ Len(upper) = 7
    OBVIOUS
  <2> HIDE DEF U, upper
  <2> QED BY <2>1, <2>2
<1>3. /\ upper[1] = "vectors" /\ upper[2] = "errorcode" /\ upper[3] = "rip" /\ upper[4] = "cs"
      /\ upper[5] = "rflags" /\ upper[6] = "rsp" /\ upper[7] = "ss"
  OBVIOUS
<1>4. Registers = Cat(PopOrder, upper)
  BY DEF Registers, Cat
<1> HIDE DEF upper, U
<1>5. /\ Registers \in Seq(U) /\ Len(Registers) = 23
      /\ \A i \in 1 .. 23 : Registers[i] = IF i <= 16 THEN PopOrder[i] ELSE upper[i - 16]
  <2>1. /\ Cat(PopOrder, upper) \in Seq(U)
        /\ Len(Cat(PopOrder, upper)) = Len(PopOrder) + Len(upper)
        /\ \A i \in 1 .. Len(PopOrder) + Len(upper) :
             Cat(PopOrder, upper)[i] = IF i <= Len(PopOrder) THEN PopOrder[i] ELSE upper[i - Len(PopOrder)]
    BY <1>1, <1>2, CatFacts, Zenon
  <2> QED BY <1>1, <1>2, <1>4, <2>1
<1>6. DOMAIN Registers = 1 .. 23
  BY <1>5, LenProperties
<1>7. /\ Registers[17] = upper[1] /\ Registers[18] = upper[2] /\ Registers[19] = upper[3]
      /\ Registers[20] = upper[4] /\ Registers[21] = upper[5] /\ Registers[22] = upper[6]
      /\ Registers[23] = upper[7]
  BY <1>5
<1> QED BY <1>3, <1>5, <1>6, <1>7

(* Reg->vectors is the word the stub pushes after the error code. *)
LEMMA VectorFieldIs == VectorField = 17
<1>1. \A i \in 1 .. 16 : PopOrder[i] # "vectors"
  BY DEF PopOrder
<1>2. \A i \in 1 .. 23 : Registers[i] = "vectors" => i = 17
  <2> SUFFICES ASSUME NEW i \in 1 .. 23, Registers[i] = "vectors" PROVE i = 17
    OBVIOUS
  <2>1. ~(i \in 1 .. 16)
    BY <1>1, Fields
  <2>2. i \in {17, 18, 19, 20, 21, 22, 23}
    BY <2>1
  <2> QED BY <2>2, Fields
<1> QED BY <1>2, Fields DEF VectorField

(* The words that are pushed. *)
LEMMA WordsPushed ==
  /\ \A v \in 0 .. 255 : Word("vectors", v) \in Words
  /\ \A n \in {"errorcode", "rip", "cs", "rflags", "rsp", "ss"}, v \in {0, 1} : Word(n, v) \in Words
  /\ \A i \in 1 .. 16, x \in RegisterNames \cup {"changed"} : Word(PopOrder[i], x) \in Words
<1>1. {"vectors", "errorcode", "rip", "cs", "rflags", "rsp", "ss"} \subseteq FieldNames
  BY Fields DEF FieldNames
<1>2. \A i \in 1 .. 16 : PopOrder[i] \in FieldNames
  BY Fields DEF FieldNames
<1> QED BY <1>1, <1>2 DEF Words, Word

LEMMA FrameFacts ==
  /\ Frame \in Seq(Words) /\ Len(Frame) = 5
  /\ Frame[1] = Word("rip", 0) /\ Frame[2] = Word("cs", 0) /\ Frame[3] = Word("rflags", 1)
  /\ Frame[4] = Word("rsp", 0) /\ Frame[5] = Word("ss", 0)
<1>1. /\ Word("rip", 0) \in Words /\ Word("cs", 0) \in Words /\ Word("rflags", 1) \in Words
      /\ Word("rsp", 0) \in Words /\ Word("ss", 0) \in Words
  BY WordsPushed
<1> HIDE DEF Words, Word
<1> QED BY <1>1 DEF Frame

(* What isr_common pops again, and what it leaves. *)
LEMMA SavedFacts ==
  ASSUME NEW v \in 0 .. 255
  PROVE  /\ Saved(v) \in Seq(Words) /\ Len(Saved(v)) = 23
         /\ \A i \in 1 .. 16 : Saved(v)[i] = Word(PopOrder[i], PopOrder[i])
         /\ Saved(v)[17] = Word("vectors", v)
         /\ SubSeq(Saved(v), 19, 23) = Frame
<1> DEFINE A == [ i \in 1 .. 16 |-> Word(PopOrder[i], PopOrder[i]) ]
           B == << Word("vectors", v) >>
           C == << Word("errorcode", 0) >>
<1>1. \A i \in 1 .. 16 : Word(PopOrder[i], PopOrder[i]) \in Words
  BY WordsPushed, PopsRegisters
<1>2. A \in Seq(Words) /\ Len(A) = 16 /\ \A i \in 1 .. 16 : A[i] = Word(PopOrder[i], PopOrder[i])
  <2> HIDE DEF Words, Word, PopOrder
  <2> QED BY <1>1
<1>3. B \in Seq(Words) /\ Len(B) = 1 /\ B[1] = Word("vectors", v)
  <2>1. Word("vectors", v) \in Words
    BY WordsPushed
  <2> HIDE DEF Words, Word
  <2> QED BY <2>1
<1>4. C \in Seq(Words) /\ Len(C) = 1
  <2>1. Word("errorcode", 0) \in Words
    BY WordsPushed
  <2> HIDE DEF Words, Word
  <2> QED BY <2>1
<1> DEFINE AB  == Cat(A, B)
           ABC == Cat(AB, C)
<1>5. Saved(v) = Cat(ABC, Frame)
  BY Zenon DEF Saved, Cat
<1> HIDE DEF A, B, C, Words
<1>6. /\ AB \in Seq(Words) /\ Len(AB) = 17
      /\ \A i \in 1 .. 17 : AB[i] = IF i <= 16 THEN A[i] ELSE B[i - 16]
  <2>1. /\ Cat(A, B) \in Seq(Words)
        /\ Len(Cat(A, B)) = Len(A) + Len(B)
        /\ \A i \in 1 .. Len(A) + Len(B) :
             Cat(A, B)[i] = IF i <= Len(A) THEN A[i] ELSE B[i - Len(A)]
    BY <1>2, <1>3, CatFacts, Zenon
  <2> QED BY <1>2, <1>3, <2>1
<1> HIDE DEF AB
<1>7. /\ ABC \in Seq(Words) /\ Len(ABC) = 18
      /\ \A i \in 1 .. 17 : ABC[i] = AB[i]
  <2>1. /\ Cat(AB, C) \in Seq(Words)
        /\ Len(Cat(AB, C)) = Len(AB) + Len(C)
        /\ \A i \in 1 .. Len(AB) + Len(C) :
             Cat(AB, C)[i] = IF i <= Len(AB) THEN AB[i] ELSE C[i - Len(AB)]
    BY <1>4, <1>6, CatFacts, Zenon
  <2> QED BY <1>4, <1>6, <2>1
<1> HIDE DEF ABC
<1>8. /\ Saved(v) \in Seq(Words) /\ Len(Saved(v)) = 23
      /\ \A i \in 1 .. 18 : Saved(v)[i] = ABC[i]
      /\ \A i \in 19 .. 23 : Saved(v)[i] = Frame[i - 18]
  <2>1. /\ Cat(ABC, Frame) \in Seq(Words)
        /\ Len(Cat(ABC, Frame)) = Len(ABC) + Len(Frame)
        /\ \A i \in 1 .. Len(ABC) + Len(Frame) :
             Cat(ABC, Frame)[i] = IF i <= Len(ABC) THEN ABC[i] ELSE Frame[i - Len(ABC)]
    BY <1>7, FrameFacts, CatFacts, Zenon
  <2> QED BY <1>5, <1>7, FrameFacts, <2>1
<1>81. /\ \A i \in 1 .. 17 : Saved(v)[i] = AB[i]
       /\ \A i \in 1 .. 16 : AB[i] = A[i]
       /\ \A i \in 19 .. 23 : Saved(v)[i] = Frame[i - 18]
  <2>1. \A i \in 1 .. 17 : Saved(v)[i] = ABC[i]
    BY <1>8, SMTT(30)
  <2>2. \A i \in 1 .. 17 : ABC[i] = AB[i]
    BY <1>7
  <2>3. \A i \in 1 .. 16 : AB[i] = A[i]
    BY <1>6
  <2>4. \A i \in 19 .. 23 : Saved(v)[i] = Frame[i - 18]
    BY <1>8
  <2> QED BY <2>1, <2>2, <2>3, <2>4
<1>9. \A i \in 1 .. 16 : Saved(v)[i] = Word(PopOrder[i], PopOrder[i])
  <2>1. \A i \in 1 .. 16 : A[i] = Word(PopOrder[i], PopOrder[i])
    BY <1>2
  <2> QED BY <1>81, <2>1
<1>10. Saved(v)[17] = Word("vectors", v)
  <2>1. AB[17] = B[1]
    BY <1>6
  <2>2. Saved(v)[17] = AB[17]
    BY <1>81
  <2> QED BY <1>3, <2>1, <2>2
<1>11. SubSeq(Saved(v), 19, 23) = Frame
  <2> DEFINE S == SubSeq(Saved(v), 19, 23)
  <2>1. \A i \in 1 .. Len(Saved(v)) : Saved(v)[i] \in Words
    BY <1>8, ElementOfSeq, Zenon
  <2>2. \A i \in 19 .. 23 : Saved(v)[i] \in Words
    <3>1. Len(Saved(v)) = 23
      BY <1>8
    <3> QED BY <2>1, <3>1
  <2>3. 19 \in Int /\ 23 \in Int
    OBVIOUS
  <2>4. S \in Seq(Words)
    BY <2>2, <2>3, SubSeqProperties, Zenon
  <2>5. Len(S) = 5 /\ \A i \in 1 .. 5 : S[i] = Saved(v)[18 + i]
    BY <1>8
  <2> HIDE DEF S
  <2>6. \A i \in 1 .. 5 : S[i] = Frame[i]
    <3> SUFFICES ASSUME NEW i \in 1 .. 5 PROVE S[i] = Frame[i]
      OBVIOUS
    <3>1. 18 + i \in 19 .. 23 /\ (18 + i) - 18 = i
      OBVIOUS
    <3> QED BY <1>81, <2>5, <3>1
  <2>7. S = Frame
    BY <2>4, <2>5, <2>6, FrameFacts, SeqEqual
  <2> QED BY <2>7 DEF S
<1> QED BY <1>8, <1>9, <1>10, <1>11

(* A set of vectors has a highest one: the intervals that begin in them    *)
(* are finite sets, of which one contains no other.                        *)
LEMMA HighestIn ==
  ASSUME NEW T, T \subseteq 32 .. 47, T # {}
  PROVE  Highest(T) \in T
<1> DEFINE I(n) == n .. 47
           U    == { I(n) : n \in T }
           R    == StrictSubsetOrdering(Nat)
<1>1. U \subseteq FiniteSubsetsOf(Nat) /\ U # {}
  <2>1. ASSUME NEW n \in T PROVE I(n) \in FiniteSubsetsOf(Nat)
    <3>1. n \in Int /\ 47 \in Int /\ n .. 47 \subseteq Nat
      OBVIOUS
    <3> QED BY <3>1, FS_Interval DEF FiniteSubsetsOf
  <2> QED BY <2>1
<1>2. IsWellFoundedOn(R, FiniteSubsetsOf(Nat))
  BY FS_StrictSubsetOrderingWellFounded
<1>3. PICK X \in U : \A Y \in U : ~(<<Y, X>> \in R)
  <2> HIDE DEF U, R
  <2> QED BY <1>1, <1>2, WFMin
<1>4. PICK n \in T : X = I(n)
  OBVIOUS
<1>5. ASSUME NEW m \in T, n < m PROVE FALSE
  <2>1. I(m) \in U /\ I(m) \subseteq I(n) /\ n \in I(n) /\ n \notin I(m)
    BY <1>5
  <2>2. <<I(m), I(n)>> \in R
    BY <2>1 DEF StrictSubsetOrdering
  <2> QED BY <1>3, <1>4, <2>1, <2>2
<1>6. \E k \in T : \A w \in T : w <= k
  BY <1>5
<1> QED BY <1>6 DEF Highest

LEMMA HighestOne == ASSUME NEW v \in Nat PROVE Highest({v}) = v
BY DEF Highest

------------------------------------------------------------------------------
(* What the steps do to the stack.                                         *)

LEMMA CatTyped ==
  ASSUME NEW S, NEW s \in Seq(S), NEW t \in Seq(S)
  PROVE  s \o t \in Seq(S)
BY ConcatProperties, Zenon

(* Entering a handler (Enter) leaves the stack one of words, and exactly   *)
(* the frame when it was empty and interrupts were on.                     *)
LEMMA EnterFacts ==
  ASSUME Types, NEW v \in 0 .. 255, Enter(v)
  PROVE  /\ vec' = v /\ pc' = "stub" /\ IF_flag' = FALSE /\ regs' = regs
         /\ stack' \in Seq(Words)
         /\ stack = <<>> /\ IF_flag /\ v \notin PushesErrorCode => stack' = Frame
<1> DEFINE E == IF v \in PushesErrorCode THEN << Word("errorcode", 0) >> ELSE <<>>
           F == << Word("rip", 0), Word("cs", 0), Word("rflags", IF IF_flag THEN 1 ELSE 0),
                   Word("rsp", 0), Word("ss", 0) >>
<1>1. stack' = (E \o F) \o stack
  BY Zenon DEF Enter
<1>2. E \in Seq(Words)
  <2>1. Word("errorcode", 0) \in Words
    BY WordsPushed
  <2> HIDE DEF Words, Word
  <2> QED BY <2>1
<1>3. F \in Seq(Words)
  <2>1. /\ Word("rip", 0) \in Words /\ Word("cs", 0) \in Words
        /\ Word("rflags", IF IF_flag THEN 1 ELSE 0) \in Words
        /\ Word("rsp", 0) \in Words /\ Word("ss", 0) \in Words
    BY WordsPushed
  <2> HIDE DEF Words, Word
  <2> QED BY <2>1
<1>4. stack \in Seq(Words)
  BY DEF Types
<1>5. stack' \in Seq(Words)
  <2> HIDE DEF E, F, Words
  <2>1. E \o F \in Seq(Words)
    BY <1>2, <1>3, CatTyped, Zenon
  <2> QED BY <1>1, <1>4, <2>1, CatTyped, Zenon
<1>6. ASSUME stack = <<>>, IF_flag, v \notin PushesErrorCode PROVE stack' = Frame
  <2>1. E = <<>>
    BY <1>6
  <2>2. F = Frame
    BY <1>6, Zenon DEF Frame
  <2>3. stack' = (<<>> \o Frame) \o <<>>
    BY <1>1, <1>6, <2>1, <2>2, Zenon
  <2> QED BY <2>3, FrameFacts, ConcatEmptySeq, Zenon
<1> QED BY <1>5, <1>6 DEF Enter

(* isr_common saves the registers it finds, above the vector. *)
LEMMA SavesRegisters ==
  ASSUME Types, isr_common
  PROVE  /\ stack' \in Seq(Words)
         /\ stack'[17].val = vec
         /\ /\ regs = OwnRegisters /\ stack = Frame
            /\ isr_stub(vec) = "isr_no_err_stub"
            => stack' = Saved(vec)
<1> DEFINE A == [ i \in 1 .. Len(PushOrder) |->
                  LET r == PushOrder[Len(PushOrder) + 1 - i] IN Word(r, regs[r]) ]
           B == << Word("vectors", vec) >>
           C == IF isr_stub(vec) = "isr_no_err_stub" THEN << Word("errorcode", 0) >> ELSE <<>>
           G == [ i \in 1 .. 16 |-> Word(PopOrder[i], regs[PopOrder[i]]) ]
<1>1. stack' = ((A \o B) \o C) \o stack
  BY Zenon DEF isr_common
<1>2. A = G
  <2>1. \A i \in 1 .. 16 : PushOrder[16 + 1 - i] = PopOrder[i]
    BY Orders
  <2> HIDE DEF Word
  <2> QED BY <2>1, Orders
<1>3. \A i \in 1 .. 16 : Word(PopOrder[i], regs[PopOrder[i]]) \in Words
  BY WordsPushed, PopsRegisters DEF Types
<1>4. G \in Seq(Words) /\ Len(G) = 16
  <2> HIDE DEF Words, Word, PopOrder
  <2> QED BY <1>3
<1>5. B \in Seq(Words) /\ Len(B) = 1 /\ B[1] = Word("vectors", vec)
  <2>1. Word("vectors", vec) \in Words
    BY WordsPushed DEF Types
  <2> HIDE DEF Words, Word
  <2> QED BY <2>1
<1>6. C \in Seq(Words)
  <2>1. Word("errorcode", 0) \in Words
    BY WordsPushed
  <2> HIDE DEF Words, Word
  <2> QED BY <2>1
<1>7. stack \in Seq(Words)
  BY DEF Types
<1> DEFINE GB  == Cat(G, B)
           GBC == Cat(GB, C)
           All == Cat(GBC, stack)
<1>8. stack' = All
  BY <1>1, <1>2, Zenon DEF Cat
<1> HIDE DEF A, B, C, G, Words
<1>9. GB \in Seq(Words) /\ Len(GB) = 17 /\ GB[17] = B[1]
  <2>1. /\ Cat(G, B) \in Seq(Words)
        /\ Len(Cat(G, B)) = Len(G) + Len(B)
        /\ \A i \in 1 .. Len(G) + Len(B) :
             Cat(G, B)[i] = IF i <= Len(G) THEN G[i] ELSE B[i - Len(G)]
    BY <1>4, <1>5, CatFacts, Zenon
  <2> QED BY <1>4, <1>5, <2>1
<1> HIDE DEF GB
<1>10. GBC \in Seq(Words) /\ 17 \in 1 .. Len(GBC) /\ GBC[17] = GB[17]
  <2>1. /\ Cat(GB, C) \in Seq(Words)
        /\ Len(Cat(GB, C)) = Len(GB) + Len(C)
        /\ \A i \in 1 .. Len(GB) + Len(C) :
             Cat(GB, C)[i] = IF i <= Len(GB) THEN GB[i] ELSE C[i - Len(GB)]
    BY <1>6, <1>9, CatFacts, Zenon
  <2>2. 17 \in 1 .. Len(GB) + Len(C) /\ 17 <= Len(GB)
    BY <1>6, <1>9
  <2> QED BY <2>1, <2>2
<1> HIDE DEF GBC
<1>11. /\ All \in Seq(Words)
       /\ \A i \in 1 .. Len(GBC) + Len(stack) :
            All[i] = IF i <= Len(GBC) THEN GBC[i] ELSE stack[i - Len(GBC)]
  BY <1>7, <1>10, CatFacts, Zenon
<1>12. All[17] = GBC[17]
  <2>1. 17 \in 1 .. Len(GBC) + Len(stack) /\ 17 <= Len(GBC)
    BY <1>7, <1>10
  <2> HIDE DEF All
  <2> QED BY <1>11, <2>1
<1>13. stack'[17].val = vec
  <2>1. stack'[17] = Word("vectors", vec)
    BY <1>5, <1>8, <1>9, <1>10, <1>12
  <2> QED BY <2>1 DEF Word
<1>14. ASSUME regs = OwnRegisters, stack = Frame, isr_stub(vec) = "isr_no_err_stub"
       PROVE  stack' = Saved(vec)
  <2>1. G = [ i \in 1 .. 16 |-> Word(PopOrder[i], PopOrder[i]) ]
    BY <1>14, PopsRegisters DEF G, OwnRegisters
  <2>2. C = << Word("errorcode", 0) >>
    BY <1>14 DEF C
  <2> QED BY <1>1, <1>2, <1>14, <2>1, <2>2, Zenon DEF Saved, B
<1> QED BY <1>8, <1>11, <1>13, <1>14

(* isr_common restores the registers and leaves the processor's frame. *)
LEMMA RestoresRegisters ==
  ASSUME Types, PopRegisters, stack = Saved(vec)
  PROVE  regs' = OwnRegisters /\ stack' = Frame
<1>0. vec \in 0 .. 255
  BY DEF Types
<1>1. \A i \in 1 .. 16 : stack[i] = Word(PopOrder[i], PopOrder[i])
  BY <1>0, SavedFacts, Zenon
<1> DEFINE K(r) == CHOOSE i \in DOMAIN PopOrder : PopOrder[i] = r
<1>2. ASSUME NEW r \in RegisterNames PROVE stack[K(r)].val = r
  <2>1. K(r) \in 1 .. 16 /\ PopOrder[K(r)] = r
    BY RegisterPopped, Zenon
  <2> HIDE DEF K
  <2>2. stack[K(r)] = Word(r, r)
    BY <1>1, <2>1
  <2> QED BY <2>2 DEF Word
<1>3. regs' = OwnRegisters
  <2>1. regs' = [ r \in RegisterNames |-> stack[K(r)].val ]
    BY Zenon DEF PopRegisters
  <2> HIDE DEF K
  <2> QED BY <1>2, <2>1 DEF OwnRegisters
<1>4. stack' = Frame
  <2>0. Len(stack) = 23
    BY <1>0, SavedFacts, Zenon
  <2>1. Len(PopOrder) + 3 = 19 /\ Len(stack) = 23
    BY <2>0, Orders
  <2>2. stack' = SubSeq(stack, 19, 23)
    BY <2>1 DEF PopRegisters
  <2> QED BY <1>0, <2>2, SavedFacts
<1> QED BY <1>3, <1>4

(* iretq takes the frame away and lets interrupts in again. *)
LEMMA Returns ==
  ASSUME iretq, stack = Frame
  PROVE  IF_flag' = TRUE /\ stack' = <<>>
<1>1. Len(stack) = 5 /\ stack[3] = Word("rflags", 1)
  BY FrameFacts
<1>2. stack[3].val = 1
  BY <1>1 DEF Word
<1>3. stack' = SubSeq(stack, 6, 5)
  BY <1>1 DEF iretq
<1>4. 6 \in Int /\ 5 \in Int /\ 5 < 6
  OBVIOUS
<1>5. stack' = <<>>
  BY <1>3, <1>4, SubSeqEmpty, Zenon
<1> QED BY <1>2, <1>5 DEF iretq

------------------------------------------------------------------------------
(* The steps.                                                              *)

LEMMA Starts == Init => IndInv
<1> SUFFICES ASSUME Init PROVE IndInv
  OBVIOUS
<1> USE VectorsAssumption DEF Init
<1>1. Types
  <2>1. regs \in [RegisterNames -> RegisterNames \cup {"changed"}]
    OBVIOUS
  <2>2. stack \in Seq(Words)
    OBVIOUS
  <2>3. /\ IF_flag \in BOOLEAN /\ svr \in BOOLEAN /\ apic_mapped \in BOOLEAN
        /\ faulted \in BOOLEAN /\ early \in BOOLEAN
    BY Zenon
  <2>4. vec \in 0 .. 255
    OBVIOUS
  <2> QED BY <2>1, <2>2, <2>3, <2>4, Zenon DEF Types
<1>2. Ticks
  BY DEF Ticks, Pending
<1>3. Booting /\ Context /\ InService /\ Exceptions
  BY DEF Booting, Context, OwnRegisters, InService, Exceptions, IsException, IsDevice, SPURIOUS
<1> QED BY <1>1, <1>2, <1>3 DEF IndInv

(* An interrupt of a device reaches the processor only while the kernel    *)
(* itself runs, and is then alone in service.                              *)
Delivered(v) ==
  /\ v \in irr /\ irr' = irr \ {v}
  /\ isr' = {v}
  /\ pc = "kernel" /\ IF_flag /\ vectors # {}
  /\ vec' = v /\ pc' = "stub" /\ IF_flag' = FALSE
  /\ stack' = Frame /\ stack' \in Seq(Words)
  /\ regs' = regs /\ regs = OwnRegisters
  /\ early' \in BOOLEAN /\ (early \/ ~apic_mapped => early')
  /\ UNCHANGED <<boot, vectors, apic_mapped, tick, svr, raises, faulted>>

LEMMA DeliverFacts ==
  ASSUME IndInv, Deliver
  PROVE  \E v \in DeviceVectors : Delivered(v)
<1> DEFINE v == Highest(irr)
<1>1. v \in irr /\ v \in DeviceVectors /\ v \in 32 .. 47
  <2>1. irr \subseteq 32 .. 47 /\ irr # {}
    BY VectorsAssumption DEF IndInv, Types, Deliver
  <2>2. v \in irr
    BY <2>1, HighestIn
  <2> QED BY <2>1, <2>2, ZenonT(30) DEF IndInv, Types
<1>2. /\ pc = "kernel" /\ IF_flag /\ vectors # {} /\ stack = <<>> /\ isr = {}
      /\ regs = OwnRegisters
  BY DEF Deliver, IndInv, Booting, Context, InService
<1>3. Enter(v) /\ irr' = irr \ {v} /\ isr' = isr \cup {v}
  BY Zenon DEF Deliver
<1> HIDE DEF v
<1>4. v \in 0 .. 255 /\ v \notin PushesErrorCode
  BY <1>1 DEF PushesErrorCode
<1>5. /\ vec' = v /\ pc' = "stub" /\ IF_flag' = FALSE /\ regs' = regs
      /\ stack' = Frame /\ stack' \in Seq(Words)
  BY <1>2, <1>3, <1>4, EnterFacts DEF IndInv
<1>6. early' \in BOOLEAN /\ (early \/ ~apic_mapped => early')
  BY Zenon DEF Deliver
<1>7. UNCHANGED <<boot, vectors, apic_mapped, tick, svr, raises, faulted>>
  BY DEF Deliver
<1> QED BY <1>1, <1>2, <1>3, <1>5, <1>6, <1>7 DEF Delivered

(* interrupt_handler is told the vector that was delivered. *)
LEMMA HandlerVector ==
  ASSUME IndInv, pc = "handler"
  PROVE  RegVectors = vec
<1>1. CASE IsException /\ RegVectors = vec
  BY <1>1
<1>2. CASE stack = Saved(vec)
  <2>1. vec \in 0 .. 255
    BY DEF IndInv, Types
  <2>2. stack[17] = Word("vectors", vec)
    BY <1>2, <2>1, SavedFacts, Zenon
  <2> QED BY <2>2, VectorFieldIs DEF RegVectors, Word
<1> QED BY <1>1, <1>2 DEF IndInv, Context

(* The types are kept. *)
LEMMA TypesStep == IndInv /\ [Next]_vars => Types'
<1> SUFFICES ASSUME IndInv, [Next]_vars PROVE Types'
  OBVIOUS
<1> USE VectorsAssumption DEF IndInv
<1>1. CASE CheckResponses
  BY <1>1 DEF CheckResponses, apic, cpu, hist, Types
<1>2. CASE OtherCall
  BY <1>2 DEF OtherCall, apic, cpu, hist, Types
<1>3. CASE idt_init
  BY <1>3 DEF idt_init, SPURIOUS, apic, cpu, hist, Types
<1>4. CASE enable_apic
  BY <1>4 DEF enable_apic, apic, cpu, hist, Types
<1>5. CASE WriteSvr
  BY <1>5 DEF WriteSvr, apic, cpu, hist, Types
<1>6. CASE SvrFaults
  <2>1. PAGE_FAULT \in 0 .. 255 /\ Enter(PAGE_FAULT)
    BY <1>6 DEF SvrFaults, PAGE_FAULT, SPURIOUS, Types
  <2>2. vec' = PAGE_FAULT /\ pc' = "stub" /\ IF_flag' = FALSE /\ regs' = regs /\ stack' \in Seq(Words)
    BY <2>1, EnterFacts
  <2> QED BY <1>6, <2>1, <2>2 DEF SvrFaults, apic, cpu, hist, Types
<1>7. CASE Deliver
  <2>1. PICK v \in DeviceVectors : Delivered(v)
    BY <1>7, DeliverFacts
  <2>2. v \in 0 .. 255 /\ stack' \in Seq(Words) /\ regs' = regs /\ vec' = v /\ early' \in BOOLEAN
    BY <2>1 DEF Delivered
  <2>3. irr' \subseteq DeviceVectors /\ isr' \subseteq DeviceVectors
    BY <2>1 DEF Delivered, Types
  <2>4. IF_flag' \in BOOLEAN
    BY <2>1, Zenon DEF Delivered
  <2>5. pc' = "stub" /\ UNCHANGED <<boot, vectors, apic_mapped, svr, faulted>>
    BY <2>1 DEF Delivered
  <2> QED BY <2>2, <2>3, <2>4, <2>5 DEF Types
<1>8. CASE isr_common
  <2>1. stack' \in Seq(Words)
    BY <1>8, SavesRegisters
  <2> QED BY <1>8, <2>1 DEF isr_common, apic, hist, Types
<1>9. CASE ReservedStub
  BY <1>9 DEF ReservedStub, apic, cpu, hist, Types
<1>10. CASE irq_handler
  BY <1>10 DEF irq_handler, apic, cpu, hist, Types
<1>11. CASE APIC_EOI
  BY <1>11 DEF APIC_EOI, apic, cpu, hist, Types
<1>12. CASE EoiFaults
  <2>1. PAGE_FAULT \in 0 .. 255 /\ Enter(PAGE_FAULT)
    BY <1>12 DEF EoiFaults, PAGE_FAULT, SPURIOUS, Types
  <2>2. vec' = PAGE_FAULT /\ pc' = "stub" /\ IF_flag' = FALSE /\ regs' = regs /\ stack' \in Seq(Words)
    BY <2>1, EnterFacts
  <2> QED BY <1>12, <2>1, <2>2 DEF EoiFaults, apic, cpu, hist, Types
<1>13. CASE HandleException
  BY <1>13 DEF HandleException, apic, cpu, hist, Types
<1>14. CASE PopRegisters
  <2>1. regs' = OwnRegisters /\ stack' = Frame
    BY <1>14, RestoresRegisters DEF PopRegisters, Context
  <2>2. regs' \in [RegisterNames -> RegisterNames \cup {"changed"}] /\ stack' \in Seq(Words)
    BY <2>1, FrameFacts DEF OwnRegisters
  <2> QED BY <1>14, <2>2 DEF PopRegisters, apic, hist, Types
<1>15. CASE iretq
  <2>1. IF_flag' = TRUE /\ stack' = <<>>
    BY <1>15, Returns DEF iretq, Context
  <2> QED BY <1>15, <2>1 DEF iretq, apic, hist, Types
<1>16. ASSUME NEW v \in DeviceVectors, Raise(v) PROVE Types'
  BY <1>16 DEF Raise, apic, cpu, hist, Types
<1>17. ASSUME NEW v \in FaultVectors, Fault(v) PROVE Types'
  <2>1. v \in 0 .. 255 /\ Enter(v)
    BY <1>17 DEF Fault, PAGE_FAULT, SPURIOUS, Types
  <2>2. vec' = v /\ pc' = "stub" /\ IF_flag' = FALSE /\ regs' = regs /\ stack' \in Seq(Words)
    BY <2>1, EnterFacts
  <2> QED BY <1>17, <2>1, <2>2 DEF Fault, apic, cpu, hist, Types
<1>18. CASE DeliverSpurious
  <2>1. SPURIOUS \in 0 .. 255 /\ Enter(SPURIOUS)
    BY <1>18 DEF DeliverSpurious, PAGE_FAULT, SPURIOUS, Types
  <2>2. vec' = SPURIOUS /\ pc' = "stub" /\ IF_flag' = FALSE /\ regs' = regs /\ stack' \in Seq(Words)
    BY <2>1, EnterFacts
  <2> QED BY <1>18, <2>1, <2>2 DEF DeliverSpurious, apic, cpu, hist, Types
<1>19. CASE UNCHANGED vars
  BY <1>19 DEF vars, apic, cpu, hist, Types
<1> QED BY <1>1, <1>2, <1>3, <1>4, <1>5, <1>6, <1>7, <1>8, <1>9, <1>10, <1>11, <1>12, <1>13,
           <1>14, <1>15, <1>16, <1>17, <1>18, <1>19 DEF Next, Execute, Environment

(* A tick is counted once for the request it came from. *)
LEMMA TicksStep == IndInv /\ [Next]_vars => Ticks'
<1> SUFFICES ASSUME IndInv, [Next]_vars PROVE Ticks'
  OBVIOUS
<1> USE VectorsAssumption DEF IndInv
<1>1. CASE CheckResponses
  BY <1>1 DEF CheckResponses, apic, cpu, hist, TIMER, Pending, Ticks, Types
<1>2. CASE OtherCall
  BY <1>2 DEF OtherCall, apic, cpu, hist, TIMER, Pending, Ticks, Types
<1>3. CASE idt_init
  BY <1>3 DEF idt_init, apic, cpu, hist, TIMER, Pending, Ticks, Types
<1>4. CASE enable_apic
  BY <1>4 DEF enable_apic, apic, cpu, hist, TIMER, Pending, Ticks, Types
<1>5. CASE WriteSvr
  BY <1>5 DEF WriteSvr, apic, cpu, hist, TIMER, Pending, Ticks, Types
<1>6. CASE SvrFaults
  <2>1. PAGE_FAULT \in 0 .. 255 /\ Enter(PAGE_FAULT)
    BY <1>6 DEF SvrFaults, PAGE_FAULT, SPURIOUS, Types
  <2>2. vec' = PAGE_FAULT /\ pc' = "stub" /\ IF_flag' = FALSE /\ regs' = regs /\ stack' \in Seq(Words)
    BY <2>1, EnterFacts
  <2> QED BY <1>6, <2>1, <2>2 DEF SvrFaults, apic, cpu, hist, PAGE_FAULT, TIMER, Pending,
             Ticks, Types
<1>7. CASE Deliver
  <2>1. PICK v \in DeviceVectors : Delivered(v)
    BY <1>7, DeliverFacts
  <2> QED BY <1>7, <2>1 DEF Delivered, TIMER, Pending, Ticks, Types
<1>8. CASE isr_common
  BY <1>8 DEF isr_common, apic, cpu, hist, TIMER, Pending, Ticks, Types
<1>9. CASE ReservedStub
  BY <1>9 DEF ReservedStub, apic, cpu, hist, TIMER, Pending, Ticks, Types
<1>10. CASE irq_handler
  <2>1. RegVectors = vec
    BY <1>10, HandlerVector DEF irq_handler
  <2> QED BY <1>10, <2>1 DEF irq_handler, apic, hist, TIMER, Pending, Ticks, Types
<1>11. CASE APIC_EOI
  BY <1>11 DEF APIC_EOI, apic, cpu, hist, TIMER, Pending, Ticks, Types
<1>12. CASE EoiFaults
  <2>1. PAGE_FAULT \in 0 .. 255 /\ Enter(PAGE_FAULT)
    BY <1>12 DEF EoiFaults, PAGE_FAULT, SPURIOUS, Types
  <2>2. vec' = PAGE_FAULT /\ pc' = "stub" /\ IF_flag' = FALSE /\ regs' = regs /\ stack' \in Seq(Words)
    BY <2>1, EnterFacts
  <2> QED BY <1>12, <2>1, <2>2 DEF EoiFaults, apic, cpu, hist, PAGE_FAULT, TIMER, Pending,
             Ticks, Types
<1>13. CASE HandleException
  BY <1>13 DEF HandleException, apic, cpu, hist, TIMER, Pending, Ticks, Types
<1>14. CASE PopRegisters
  BY <1>14 DEF PopRegisters, apic, cpu, hist, TIMER, Pending, Ticks, Types
<1>15. CASE iretq
  BY <1>15 DEF iretq, apic, cpu, hist, TIMER, Pending, Ticks, Types
<1>16. ASSUME NEW v \in DeviceVectors, Raise(v) PROVE Ticks'
  BY <1>16 DEF Raise, apic, cpu, hist, TIMER, Pending, Ticks, Types
<1>17. ASSUME NEW v \in FaultVectors, Fault(v) PROVE Ticks'
  <2>1. v \in 0 .. 255 /\ Enter(v)
    BY <1>17 DEF Fault, PAGE_FAULT, SPURIOUS, Types
  <2>2. vec' = v /\ pc' = "stub" /\ IF_flag' = FALSE /\ regs' = regs /\ stack' \in Seq(Words)
    BY <2>1, EnterFacts
  <2> QED BY <1>17, <2>1, <2>2 DEF Fault, apic, cpu, hist, TIMER, Pending, Ticks, Types
<1>18. CASE DeliverSpurious
  <2>1. SPURIOUS \in 0 .. 255 /\ Enter(SPURIOUS)
    BY <1>18 DEF DeliverSpurious, PAGE_FAULT, SPURIOUS, Types
  <2>2. vec' = SPURIOUS /\ pc' = "stub" /\ IF_flag' = FALSE /\ regs' = regs /\ stack' \in Seq(Words)
    BY <2>1, EnterFacts
  <2> QED BY <1>18, <2>1, <2>2 DEF DeliverSpurious, apic, cpu, hist, SPURIOUS, TIMER, Pending,
             Ticks, Types
<1>19. CASE UNCHANGED vars
  BY <1>19 DEF vars, apic, cpu, hist, TIMER, Pending, Ticks, Types
<1> QED BY <1>1, <1>2, <1>3, <1>4, <1>5, <1>6, <1>7, <1>8, <1>9, <1>10, <1>11, <1>12, <1>13,
           <1>14, <1>15, <1>16, <1>17, <1>18, <1>19 DEF Next, Execute, Environment

(* The order of the boot, and of cli and sti. *)
LEMMA BootingStep == IndInv /\ [Next]_vars => Booting'
<1> SUFFICES ASSUME IndInv, [Next]_vars PROVE Booting'
  OBVIOUS
<1> USE VectorsAssumption DEF IndInv
<1>1. CASE CheckResponses
  BY <1>1 DEF CheckResponses, apic, cpu, hist, Booting, Types
<1>2. CASE OtherCall
  BY <1>2 DEF OtherCall, apic, cpu, hist, Booting, Types
<1>3. CASE idt_init
  BY <1>3 DEF idt_init, apic, cpu, hist, Booting, Types
<1>4. CASE enable_apic
  BY <1>4 DEF enable_apic, apic, cpu, hist, Booting, Types
<1>5. CASE WriteSvr
  BY <1>5 DEF WriteSvr, apic, cpu, hist, Booting, Types
<1>6. CASE SvrFaults
  <2>1. PAGE_FAULT \in 0 .. 255 /\ Enter(PAGE_FAULT)
    BY <1>6 DEF SvrFaults, PAGE_FAULT, SPURIOUS, Types
  <2>2. vec' = PAGE_FAULT /\ pc' = "stub" /\ IF_flag' = FALSE /\ regs' = regs /\ stack' \in Seq(Words)
    BY <2>1, EnterFacts
  <2> QED BY <1>6, <2>1, <2>2 DEF SvrFaults, apic, cpu, hist, Booting, Types
<1>7. CASE Deliver
  <2>1. PICK v \in DeviceVectors : Delivered(v)
    BY <1>7, DeliverFacts
  <2> QED BY <1>7, <2>1 DEF Delivered, Booting, Types
<1>8. CASE isr_common
  BY <1>8 DEF isr_common, apic, cpu, hist, Booting, Types
<1>9. CASE ReservedStub
  BY <1>9 DEF ReservedStub, apic, cpu, hist, Booting, Types
<1>10. CASE irq_handler
  BY <1>10 DEF irq_handler, apic, cpu, hist, Booting, Types
<1>11. CASE APIC_EOI
  BY <1>11 DEF APIC_EOI, apic, cpu, hist, Booting, Types
<1>12. CASE EoiFaults
  <2>1. PAGE_FAULT \in 0 .. 255 /\ Enter(PAGE_FAULT)
    BY <1>12 DEF EoiFaults, PAGE_FAULT, SPURIOUS, Types
  <2>2. vec' = PAGE_FAULT /\ pc' = "stub" /\ IF_flag' = FALSE /\ regs' = regs /\ stack' \in Seq(Words)
    BY <2>1, EnterFacts
  <2> QED BY <1>12, <2>1, <2>2 DEF EoiFaults, apic, cpu, hist, Booting, Types
<1>13. CASE HandleException
  BY <1>13 DEF HandleException, apic, cpu, hist, Booting, Types
<1>14. CASE PopRegisters
  BY <1>14 DEF PopRegisters, apic, cpu, hist, Booting, Types
<1>15. CASE iretq
  <2>1. IF_flag' = TRUE
    BY <1>15, Returns DEF iretq, Context
  <2> QED BY <1>15, <2>1 DEF iretq, apic, hist, Booting
<1>16. ASSUME NEW v \in DeviceVectors, Raise(v) PROVE Booting'
  BY <1>16 DEF Raise, apic, cpu, hist, Booting, Types
<1>17. ASSUME NEW v \in FaultVectors, Fault(v) PROVE Booting'
  <2>1. v \in 0 .. 255 /\ Enter(v)
    BY <1>17 DEF Fault, PAGE_FAULT, SPURIOUS, Types
  <2>2. vec' = v /\ pc' = "stub" /\ IF_flag' = FALSE /\ regs' = regs /\ stack' \in Seq(Words)
    BY <2>1, EnterFacts
  <2> QED BY <1>17, <2>1, <2>2 DEF Fault, apic, cpu, hist, Booting, Types
<1>18. CASE DeliverSpurious
  <2>1. SPURIOUS \in 0 .. 255 /\ Enter(SPURIOUS)
    BY <1>18 DEF DeliverSpurious, PAGE_FAULT, SPURIOUS, Types
  <2>2. vec' = SPURIOUS /\ pc' = "stub" /\ IF_flag' = FALSE /\ regs' = regs /\ stack' \in Seq(Words)
    BY <2>1, EnterFacts
  <2> QED BY <1>18, <2>1, <2>2 DEF DeliverSpurious, apic, cpu, hist, Booting, Types
<1>19. CASE UNCHANGED vars
  BY <1>19 DEF vars, apic, cpu, hist, Booting, Types
<1> QED BY <1>1, <1>2, <1>3, <1>4, <1>5, <1>6, <1>7, <1>8, <1>9, <1>10, <1>11, <1>12, <1>13,
           <1>14, <1>15, <1>16, <1>17, <1>18, <1>19 DEF Next, Execute, Environment

(* The stack holds what the handler needs to return. *)
LEMMA ContextStep == IndInv /\ [Next]_vars => Context'
<1> SUFFICES ASSUME IndInv, [Next]_vars PROVE Context'
  OBVIOUS
<1> USE VectorsAssumption DEF IndInv
<1>1. CASE CheckResponses
  BY <1>1 DEF CheckResponses, apic, cpu, hist, Context, IsException, IsDevice, Types, RegVectors
<1>2. CASE OtherCall
  BY <1>2 DEF OtherCall, apic, cpu, hist, Context, IsException, IsDevice, Types, RegVectors
<1>3. CASE idt_init
  BY <1>3 DEF idt_init, apic, cpu, hist, Context, IsException, IsDevice, Types, RegVectors
<1>4. CASE enable_apic
  BY <1>4 DEF enable_apic, apic, cpu, hist, Context, IsException, IsDevice, Types, RegVectors
<1>5. CASE WriteSvr
  BY <1>5 DEF WriteSvr, apic, cpu, hist, Context, IsException, IsDevice, Types, RegVectors
<1>6. CASE SvrFaults
  <2>1. PAGE_FAULT \in 0 .. 255 /\ Enter(PAGE_FAULT)
    BY <1>6 DEF SvrFaults, PAGE_FAULT, SPURIOUS, Types
  <2>2. vec' = PAGE_FAULT /\ pc' = "stub" /\ IF_flag' = FALSE /\ regs' = regs /\ stack' \in Seq(Words)
    BY <2>1, EnterFacts
  <2> QED BY <1>6, <2>1, <2>2 DEF SvrFaults, apic, cpu, hist, PAGE_FAULT, Context,
             IsException, IsDevice, Types
<1>7. CASE Deliver
  <2>1. PICK v \in DeviceVectors : Delivered(v)
    BY <1>7, DeliverFacts
  <2> QED BY <2>1 DEF Delivered, Context, IsException, IsDevice, Types
<1>8. CASE isr_common
  <2>1. RegVectors' = vec
    BY <1>8, SavesRegisters, VectorFieldIs DEF RegVectors
  <2>2. CASE vec < 32
    BY <1>8, <2>1, <2>2 DEF isr_common, IsException, Context
  <2>3. CASE ~(vec < 32)
    <3>1. vec \in DeviceVectors /\ stack = Frame /\ regs = OwnRegisters
      BY <1>8, <2>3 DEF isr_common, isr_stub, SPURIOUS, Context, IsException, IsDevice, Types
    <3>2. isr_stub(vec) = "isr_no_err_stub"
      BY <3>1 DEF isr_stub
    <3>3. stack' = Saved(vec)
      BY <1>8, <3>1, <3>2, SavesRegisters
    <3> QED BY <1>8, <3>1, <3>3 DEF isr_common, IsDevice, Context
  <2> QED BY <2>2, <2>3
<1>9. CASE ReservedStub
  BY <1>9 DEF ReservedStub, isr_stub, Context, IsException, IsDevice, Types
<1>10. CASE irq_handler
  <2>1. RegVectors = vec
    BY <1>10, HandlerVector DEF irq_handler
  <2> QED BY <1>10, <2>1 DEF irq_handler, Context, IsException, IsDevice, Types
<1>11. CASE APIC_EOI
  BY <1>11 DEF APIC_EOI, apic, cpu, hist, Context, IsException, IsDevice, Types, RegVectors
<1>12. CASE EoiFaults
  <2>1. PAGE_FAULT \in 0 .. 255 /\ Enter(PAGE_FAULT)
    BY <1>12 DEF EoiFaults, PAGE_FAULT, SPURIOUS, Types
  <2>2. vec' = PAGE_FAULT /\ pc' = "stub" /\ IF_flag' = FALSE /\ regs' = regs /\ stack' \in Seq(Words)
    BY <2>1, EnterFacts
  <2> QED BY <1>12, <2>1, <2>2 DEF EoiFaults, apic, cpu, hist, PAGE_FAULT, Context,
             IsException, IsDevice, Types
<1>13. CASE HandleException
  <2>1. RegVectors = vec
    BY <1>13, HandlerVector DEF HandleException
  <2> QED BY <1>13, <2>1 DEF HandleException, Context, IsException, IsDevice, Types
<1>14. CASE PopRegisters
  <2>1. regs' = OwnRegisters /\ stack' = Frame
    BY <1>14, RestoresRegisters DEF PopRegisters, Context
  <2> QED BY <1>14, <2>1 DEF PopRegisters, Context
<1>15. CASE iretq
  <2>1. stack' = <<>>
    BY <1>15, Returns DEF iretq, Context
  <2> QED BY <1>15, <2>1 DEF iretq, Context
<1>16. ASSUME NEW v \in DeviceVectors, Raise(v) PROVE Context'
  BY <1>16 DEF Raise, apic, cpu, hist, Context, IsException, IsDevice, Types, RegVectors
<1>17. ASSUME NEW v \in FaultVectors, Fault(v) PROVE Context'
  <2>1. v \in 0 .. 255 /\ Enter(v)
    BY <1>17 DEF Fault, PAGE_FAULT, SPURIOUS, Types
  <2>2. vec' = v /\ pc' = "stub" /\ IF_flag' = FALSE /\ regs' = regs /\ stack' \in Seq(Words)
    BY <2>1, EnterFacts
  <2> QED BY <1>17, <2>1, <2>2 DEF Fault, apic, cpu, hist, Context, IsException, IsDevice, Types
<1>18. CASE DeliverSpurious
  <2>1. SPURIOUS \in 0 .. 255 /\ Enter(SPURIOUS) /\ SPURIOUS \notin PushesErrorCode
    BY <1>18 DEF DeliverSpurious, SPURIOUS, PushesErrorCode
  <2>2. pc = "kernel" /\ stack = <<>> /\ IF_flag /\ regs = OwnRegisters
    BY <1>18 DEF DeliverSpurious, Booting, Context
  <2>3. vec' = SPURIOUS /\ pc' = "stub" /\ regs' = regs /\ stack' = Frame
    BY <2>1, <2>2, EnterFacts
  <2> QED BY <2>2, <2>3 DEF Context, IsException, IsDevice, Types
<1>19. CASE UNCHANGED vars
  BY <1>19 DEF vars, apic, cpu, hist, Context, IsException, IsDevice, Types, RegVectors
<1> QED BY <1>1, <1>2, <1>3, <1>4, <1>5, <1>6, <1>7, <1>8, <1>9, <1>10, <1>11, <1>12, <1>13,
           <1>14, <1>15, <1>16, <1>17, <1>18, <1>19 DEF Next, Execute, Environment

(* An interrupt is in service exactly while its handler has not ended it. *)
LEMMA InServiceStep == IndInv /\ [Next]_vars => InService'
<1> SUFFICES ASSUME IndInv, [Next]_vars PROVE InService'
  OBVIOUS
<1> USE VectorsAssumption DEF IndInv
<1>1. CASE CheckResponses
  BY <1>1 DEF CheckResponses, apic, cpu, hist, InService, Context, IsException, IsDevice,
       SPURIOUS, Types
<1>2. CASE OtherCall
  BY <1>2 DEF OtherCall, apic, cpu, hist, InService, Context, IsException, IsDevice, SPURIOUS,
       Types
<1>3. CASE idt_init
  BY <1>3 DEF idt_init, apic, cpu, hist, InService, Context, IsException, IsDevice, SPURIOUS,
       Types
<1>4. CASE enable_apic
  BY <1>4 DEF enable_apic, apic, cpu, hist, InService, Context, IsException, IsDevice,
       SPURIOUS, Types
<1>5. CASE WriteSvr
  BY <1>5 DEF WriteSvr, apic, cpu, hist, InService, Context, IsException, IsDevice, SPURIOUS,
       Types
<1>6. CASE SvrFaults
  <2>1. PAGE_FAULT \in 0 .. 255 /\ Enter(PAGE_FAULT)
    BY <1>6 DEF SvrFaults, PAGE_FAULT, SPURIOUS, Types
  <2>2. vec' = PAGE_FAULT /\ pc' = "stub" /\ IF_flag' = FALSE /\ regs' = regs /\ stack' \in Seq(Words)
    BY <2>1, EnterFacts
  <2> QED BY <1>6, <2>1, <2>2 DEF SvrFaults, apic, cpu, hist, PAGE_FAULT, InService, Context,
             IsException, IsDevice, SPURIOUS, Types
<1>7. CASE Deliver
  <2>1. PICK v \in DeviceVectors : Delivered(v)
    BY <1>7, DeliverFacts
  <2> QED BY <1>7, <2>1 DEF Delivered, InService, Context, IsException, IsDevice, SPURIOUS,
             Types
<1>8. CASE isr_common
  BY <1>8 DEF isr_common, apic, cpu, hist, InService, Context, IsException, IsDevice,
       SPURIOUS, Types
<1>9. CASE ReservedStub
  BY <1>9 DEF ReservedStub, isr_stub, apic, hist, InService, Context, IsException, IsDevice,
       SPURIOUS, Types
<1>10. CASE irq_handler
  <2>1. RegVectors = vec
    BY <1>10, HandlerVector DEF irq_handler
  <2> QED BY <1>10, <2>1 DEF irq_handler, apic, InService, Context, IsException, IsDevice,
             SPURIOUS, Types
<1>11. CASE APIC_EOI
  <2>1. isr = {vec} /\ vec \in Nat
    BY <1>11 DEF APIC_EOI, InService, Context, IsException, IsDevice, SPURIOUS, Types
  <2>2. isr' = {}
    BY <1>11, <2>1, HighestOne DEF APIC_EOI
  <2> QED BY <1>11, <2>2 DEF APIC_EOI, InService, Context, IsException, IsDevice, SPURIOUS,
             Types
<1>12. CASE EoiFaults
  <2>1. PAGE_FAULT \in 0 .. 255 /\ Enter(PAGE_FAULT)
    BY <1>12 DEF EoiFaults, PAGE_FAULT, SPURIOUS, Types
  <2>2. vec' = PAGE_FAULT /\ pc' = "stub" /\ IF_flag' = FALSE /\ regs' = regs /\ stack' \in Seq(Words)
    BY <2>1, EnterFacts
  <2> QED BY <1>12, <2>1, <2>2 DEF EoiFaults, apic, cpu, hist, PAGE_FAULT, InService, Context,
             IsException, IsDevice, SPURIOUS, Types
<1>13. CASE HandleException
  BY <1>13 DEF HandleException, apic, cpu, hist, InService, Context, IsException, IsDevice,
       SPURIOUS, Types
<1>14. CASE PopRegisters
  BY <1>14 DEF PopRegisters, apic, cpu, hist, InService, Context, IsException, IsDevice,
       SPURIOUS, Types
<1>15. CASE iretq
  BY <1>15 DEF iretq, apic, cpu, hist, InService, Context, IsException, IsDevice, SPURIOUS,
       Types
<1>16. ASSUME NEW v \in DeviceVectors, Raise(v) PROVE InService'
  BY <1>16 DEF Raise, apic, cpu, hist, InService, Context, IsException, IsDevice, SPURIOUS,
       Types
<1>17. ASSUME NEW v \in FaultVectors, Fault(v) PROVE InService'
  <2>1. v \in 0 .. 255 /\ Enter(v)
    BY <1>17 DEF Fault, PAGE_FAULT, SPURIOUS, Types
  <2>2. vec' = v /\ pc' = "stub" /\ IF_flag' = FALSE /\ regs' = regs /\ stack' \in Seq(Words)
    BY <2>1, EnterFacts
  <2> QED BY <1>17, <2>1, <2>2 DEF Fault, apic, cpu, hist, InService, Context, IsException,
             IsDevice, SPURIOUS, Types
<1>18. CASE DeliverSpurious
  <2>1. SPURIOUS \in 0 .. 255 /\ Enter(SPURIOUS)
    BY <1>18 DEF DeliverSpurious, PAGE_FAULT, SPURIOUS, Types
  <2>2. vec' = SPURIOUS /\ pc' = "stub" /\ IF_flag' = FALSE /\ regs' = regs /\ stack' \in Seq(Words)
    BY <2>1, EnterFacts
  <2> QED BY <1>18, <2>1, <2>2 DEF DeliverSpurious, apic, cpu, hist, Booting, InService,
             Context, IsException, IsDevice, SPURIOUS, Types
<1>19. CASE UNCHANGED vars
  BY <1>19 DEF vars, apic, cpu, hist, InService, Context, IsException, IsDevice, SPURIOUS, Types
<1> QED BY <1>1, <1>2, <1>3, <1>4, <1>5, <1>6, <1>7, <1>8, <1>9, <1>10, <1>11, <1>12, <1>13,
           <1>14, <1>15, <1>16, <1>17, <1>18, <1>19 DEF Next, Execute, Environment

(* An exception has a cause. *)
LEMMA ExceptionsStep == IndInv /\ [Next]_vars => Exceptions'
<1> SUFFICES ASSUME IndInv, [Next]_vars PROVE Exceptions'
  OBVIOUS
<1> USE VectorsAssumption DEF IndInv
<1>1. CASE CheckResponses
  BY <1>1 DEF CheckResponses, apic, cpu, hist, Exceptions, Excused, IsException, IsDevice,
       Types, Booting, Context
<1>2. CASE OtherCall
  BY <1>2 DEF OtherCall, apic, cpu, hist, Exceptions, Excused, IsException, IsDevice, Types,
       Booting, Context
<1>3. CASE idt_init
  BY <1>3 DEF idt_init, apic, cpu, hist, Exceptions, Excused, IsException, IsDevice, Types,
       Booting, Context
<1>4. CASE enable_apic
  BY <1>4 DEF enable_apic, apic, cpu, hist, Exceptions, Excused, IsException, IsDevice, Types,
       Booting, Context
<1>5. CASE WriteSvr
  BY <1>5 DEF WriteSvr, apic, cpu, hist, Exceptions, Excused, IsException, IsDevice, Types,
       Booting, Context
<1>6. CASE SvrFaults
  <2>1. PAGE_FAULT \in 0 .. 255 /\ Enter(PAGE_FAULT)
    BY <1>6 DEF SvrFaults, PAGE_FAULT, SPURIOUS, Types
  <2>2. vec' = PAGE_FAULT /\ pc' = "stub" /\ IF_flag' = FALSE /\ regs' = regs /\ stack' \in Seq(Words)
    BY <2>1, EnterFacts
  <2> QED BY <1>6, <2>1, <2>2 DEF SvrFaults, apic, cpu, hist, PAGE_FAULT, Exceptions, Excused,
             IsException, IsDevice, Types
<1>7. CASE Deliver
  <2>1. PICK v \in DeviceVectors : Delivered(v)
    BY <1>7, DeliverFacts
  <2> QED BY <1>7, <2>1 DEF Delivered, Exceptions, Excused, IsException, IsDevice, Types
<1>8. CASE isr_common
  BY <1>8 DEF isr_common, apic, cpu, hist, Exceptions, Excused, IsException, IsDevice, Types,
       Booting, Context
<1>9. CASE ReservedStub
  BY <1>9 DEF ReservedStub, apic, cpu, hist, Exceptions, Excused, IsException, IsDevice,
       Types, Booting, Context
<1>10. CASE irq_handler
  BY <1>10 DEF irq_handler, apic, cpu, hist, Exceptions, Excused, IsException, IsDevice,
       Types, Booting, Context
<1>11. CASE APIC_EOI
  BY <1>11 DEF APIC_EOI, apic, cpu, hist, Exceptions, Excused, IsException, IsDevice, Types,
       Booting, Context
<1>12. CASE EoiFaults
  <2>1. PAGE_FAULT \in 0 .. 255 /\ Enter(PAGE_FAULT)
    BY <1>12 DEF EoiFaults, PAGE_FAULT, SPURIOUS, Types
  <2>2. vec' = PAGE_FAULT /\ pc' = "stub" /\ IF_flag' = FALSE /\ regs' = regs /\ stack' \in Seq(Words)
    BY <2>1, EnterFacts
  <2> QED BY <1>12, <2>1, <2>2 DEF EoiFaults, apic, cpu, hist, PAGE_FAULT, Context, Booting,
             Exceptions, Excused, IsException, IsDevice, Types
<1>13. CASE HandleException
  BY <1>13 DEF HandleException, apic, cpu, hist, Exceptions, Excused, IsException, IsDevice,
       Types, Booting, Context
<1>14. CASE PopRegisters
  BY <1>14 DEF PopRegisters, apic, cpu, hist, Exceptions, Excused, IsException, IsDevice,
       Types, Booting, Context
<1>15. CASE iretq
  BY <1>15 DEF iretq, apic, cpu, hist, Exceptions, Excused, IsException, IsDevice, Types,
       Booting, Context
<1>16. ASSUME NEW v \in DeviceVectors, Raise(v) PROVE Exceptions'
  BY <1>16 DEF Raise, apic, cpu, hist, Exceptions, Excused, IsException, IsDevice, Types,
       Booting, Context
<1>17. ASSUME NEW v \in FaultVectors, Fault(v) PROVE Exceptions'
  <2>1. v \in 0 .. 255 /\ Enter(v)
    BY <1>17 DEF Fault, PAGE_FAULT, SPURIOUS, Types
  <2>2. vec' = v /\ pc' = "stub" /\ IF_flag' = FALSE /\ regs' = regs /\ stack' \in Seq(Words)
    BY <2>1, EnterFacts
  <2> QED BY <1>17, <2>1, <2>2 DEF Fault, apic, cpu, hist, Exceptions, Excused, IsException,
             IsDevice, Types
<1>18. CASE DeliverSpurious
  <2>1. SPURIOUS \in 0 .. 255 /\ Enter(SPURIOUS)
    BY <1>18 DEF DeliverSpurious, PAGE_FAULT, SPURIOUS, Types
  <2>2. vec' = SPURIOUS /\ pc' = "stub" /\ IF_flag' = FALSE /\ regs' = regs /\ stack' \in Seq(Words)
    BY <2>1, EnterFacts
  <2> QED BY <1>18, <2>1, <2>2 DEF DeliverSpurious, apic, cpu, hist, SPURIOUS, Exceptions,
             Excused, IsException, IsDevice, Types
<1>19. CASE UNCHANGED vars
  BY <1>19 DEF vars, apic, cpu, hist, Exceptions, Excused, IsException, IsDevice, Types,
       Booting, Context
<1> QED BY <1>1, <1>2, <1>3, <1>4, <1>5, <1>6, <1>7, <1>8, <1>9, <1>10, <1>11, <1>12, <1>13,
           <1>14, <1>15, <1>16, <1>17, <1>18, <1>19 DEF Next, Execute, Environment

LEMMA Inductive == Spec => []IndInv
<1>1. IndInv /\ [Next]_vars => IndInv'
  BY TypesStep, TicksStep, BootingStep, ContextStep, InServiceStep, ExceptionsStep DEF IndInv
<1> QED BY Starts, <1>1, PTL DEF Spec

------------------------------------------------------------------------------
(* The theorems.                                                           *)

(* The code that was interrupted goes on as if nothing had happened: iretq *)
(* finds its five words on top, whatever stub of idt.asm and whatever      *)
(* handler ran, and the kernel has its registers and its stack again.      *)
THEOREM ContextRestoredHolds == Spec => []ContextRestored
<1>1. IndInv => ContextRestored
  <2> SUFFICES ASSUME IndInv PROVE ContextRestored
    OBVIOUS
  <2>1. TypeOK
    <3>1. tick \in 0 .. MaxRaises
      BY VectorsAssumption DEF IndInv, Ticks, Pending
    <3>2. \A i \in DOMAIN stack : stack[i].name \in { Registers[j] : j \in DOMAIN Registers }
      <4>1. \A i \in DOMAIN stack : stack[i] \in Words
        BY DEF IndInv, Types
      <4> QED BY <4>1 DEF Words, FieldNames
    <3> QED BY <3>1, <3>2, Zenon DEF IndInv, Types, TypeOK
  <2>2. ASSUME pc = "iretq"
        PROVE  /\ Len(stack) >= 5
               /\ [i \in 1 .. 5 |-> stack[i].name] = <<"rip", "cs", "rflags", "rsp", "ss">>
    <3>1. stack = Frame
      BY <2>2 DEF IndInv, Context
    <3>2. /\ stack[1].name = "rip" /\ stack[2].name = "cs" /\ stack[3].name = "rflags"
          /\ stack[4].name = "rsp" /\ stack[5].name = "ss"
      BY <3>1, FrameFacts DEF Word
    <3> QED BY <3>1, <3>2, FrameFacts
  <2>3. ASSUME pc \in {"kernel", "iretq"} PROVE \A r \in RegisterNames : regs[r] = r
    BY <2>3 DEF IndInv, Context, OwnRegisters
  <2>4. pc = "kernel" => stack = <<>>
    BY DEF IndInv, Context
  <2> QED BY <2>1, <2>2, <2>3, <2>4 DEF ContextRestored
<1> QED BY Inductive, <1>1, PTL

(* Every interrupt put in service is ended before the kernel goes on, by   *)
(* the one EOI of its own handler, and none interrupts another.            *)
THEOREM EoiBalancedHolds == Spec => []EoiBalanced
<1>1. IndInv => EoiBalanced
  <2> SUFFICES ASSUME IndInv PROVE EoiBalanced
    OBVIOUS
  <2>1. Cardinality(isr) <= 1
    <3>1. CASE isr = {}
      BY <3>1, FS_EmptySet
    <3>2. ASSUME NEW v, isr = {v} PROVE Cardinality(isr) <= 1
      BY <3>2, FS_Singleton
    <3> QED BY <3>1, <3>2 DEF IndInv, InService
  <2>2. pc = "kernel" => isr = {}
    BY DEF IndInv, InService
  <2>3. pc \in {"handler", "eoi"} /\ vec > 31 => isr = {vec}
    BY DEF IndInv, InService, Context, IsException, IsDevice, Types
  <2>4. pc = "kernel" /\ vectors # {} => IF_flag
    BY DEF IndInv, Booting
  <2> QED BY <2>1, <2>2, <2>3, <2>4 DEF EoiBalanced
<1> QED BY Inductive, <1>1, PTL

(* The kernel hangs only on an exception of its own, on the EOI of an      *)
(* interrupt that came before enable_apic had mapped the APIC, or on the   *)
(* write to an APIC that could not be mapped.                              *)
THEOREM HangsOnlyOnFaultHolds == Spec => []HangsOnlyOnFault
<1>1. IndInv => HangsOnlyOnFault
  BY DEF IndInv, HangsOnlyOnFault, Context, Exceptions, Excused
<1> QED BY Inductive, <1>1, PTL
==============================================================================
