------------------------------ MODULE SetupProofs ------------------------------
(***************************************************************************)
(* Proofs about Setup and its parts Descriptors and Pit, wherever the TSS  *)
(* and the stubs lie, and whatever frequencies are asked for.              *)
(***************************************************************************)
EXTENDS Setup, SequenceTheorems, TLAPS

------------------------------------------------------------------------------
(* The inductive invariant of the descriptor tables.                       *)

CodeEntry == GdtEntry(1)
DataEntry == GdtEntry(2)
TssEntry  == encodeTSSEntry(tss, TssLimit, TSS_ACCESS_BYTE, 0)
TssLow    == SubSeq(TssEntry, 1, 8)
TssHigh   == SubSeq(TssEntry, 9, 16)

Typed ==
  /\ tss \in Addresses /\ stub \in Addresses
  /\ pc \in {"entries", "reload_cs", "reload_ss", "flush_tss", "idt_init", "done"}
  /\ next \in Nat
  /\ DOMAIN gdt = 0 .. 6 /\ DOMAIN idt = 0 .. 255
  /\ vectors \subseteq 0 .. 255

(* The entries of the GDT, as they are encoded and then loaded. *)
Encoded ==
  /\ pc = "entries" => /\ next <= GDT_COUNT
                       /\ next > 1 => gdt[1] = CodeEntry
                       /\ next > 2 => gdt[2] = DataEntry
  /\ pc # "entries" => gdtr = GdtLimit
  /\ pc = "reload_cs" => gdt[1] = CodeEntry
  /\ pc \in {"reload_ss", "flush_tss", "idt_init", "done"} => gdt[1] = Accessed(CodeEntry)
  /\ pc \in {"reload_cs", "reload_ss"} => gdt[2] = DataEntry
  /\ pc \in {"reload_cs", "reload_ss", "flush_tss"} => gdt[5] = TssLow /\ gdt[6] = TssHigh
  /\ pc = "idt_init" => /\ tr = TssLow \o TssHigh
                        /\ gdt[5] = [TssLow EXCEPT ![6] = SetBit(@, 1)]

(* The gates that are in place. *)
Gates ==
  /\ vectors # {} => pc \in {"idt_init", "done"}
  /\ \A v \in 0 .. 255 :
       idt[v] = IF v \in vectors THEN idt_set_descriptor(isr_stub_table(v), 142) ELSE Zero(16)

TablesInv == Typed /\ Encoded /\ Gates

------------------------------------------------------------------------------
(* The bytes of the descriptors.                                           *)

LEMMA Powers == 2 ^ 0 = 1 /\ 2 ^ 1 = 2 /\ 2 ^ 2 = 4 /\ 2 ^ 3 = 8 /\ 2 ^ 4 = 16 /\ 2 ^ 7 = 128
OBVIOUS

LEMMA CodeBytes == CodeEntry = <<255, 255, 0, 0, 0, 154, 175, 0>>
<1>1. /\ Zero(8)[1] = 0 /\ Zero(8)[2] = 0 /\ Zero(8)[3] = 0 /\ Zero(8)[4] = 0
  BY DEF Zero
<1>2. FlatLimit[1] = 255 /\ FlatLimit[2] = 255 /\ FlatLimit[3] = 15
  BY DEF FlatLimit
<1>3. CodeEntry = encodeGDTEntry(Zero(8), FlatLimit, 154, 10)
  BY DEF CodeEntry, GdtEntry, KERNEL_CODE, FLAG_CODE_64
<1> QED BY <1>1, <1>2, <1>3 DEF encodeGDTEntry

LEMMA DataBytes == DataEntry = <<255, 255, 0, 0, 0, 146, 207, 0>>
<1>1. /\ Zero(8)[1] = 0 /\ Zero(8)[2] = 0 /\ Zero(8)[3] = 0 /\ Zero(8)[4] = 0
  BY DEF Zero
<1>2. FlatLimit[1] = 255 /\ FlatLimit[2] = 255 /\ FlatLimit[3] = 15
  BY DEF FlatLimit
<1>3. DataEntry = encodeGDTEntry(Zero(8), FlatLimit, 146, 12)
  BY DEF DataEntry, GdtEntry, KERNEL_DATA, FLAG_DATA_64
<1> QED BY <1>1, <1>2, <1>3 DEF encodeGDTEntry

(* The kernel's code segment passes the checks of the processor, also once *)
(* it is marked as accessed.                                               *)
LEMMA CodeLoads ==
  ASSUME NEW d \in {CodeEntry, Accessed(CodeEntry)}
  PROVE  IsPresent(d) /\ IsCode64(d) /\ Dpl(d) = 0
<1>1. d[6] \in {154, 155} /\ d[7] = 175
  <2>1. CASE d = CodeEntry
    BY <2>1, CodeBytes
  <2>2. CASE d = Accessed(CodeEntry)
    <3>1. CodeEntry[6] = 154 /\ CodeEntry[7] = 175 /\ DOMAIN CodeEntry = 1 .. 8
      BY CodeBytes
    <3>2. SetBit(154, 0) = 155
      BY Powers DEF SetBit, Bit
    <3>3. d[6] = SetBit(CodeEntry[6], 0) /\ d[7] = CodeEntry[7]
      BY <2>2, <3>1 DEF Accessed
    <3> QED BY <3>1, <3>2, <3>3
  <2> QED BY <2>1, <2>2
<1>2. \A b \in {154, 155} : Bit(b, 7) = 1 /\ Bit(b, 4) = 1 /\ Bit(b, 3) = 1 /\ (b \div 32) % 4 = 0
  BY Powers DEF Bit
<1>3. Bit(175 \div 16, 1) = 1 /\ Bit(175 \div 16, 2) = 0
  BY Powers DEF Bit
<1> QED BY <1>1, <1>2, <1>3 DEF IsPresent, IsCode64, IsSegment, Dpl, Access, Flags

LEMMA DataLoads == IsPresent(DataEntry) /\ IsData(DataEntry) /\ Dpl(DataEntry) = 0
<1>1. DataEntry[6] = 146
  BY DataBytes
<1>2. Bit(146, 7) = 1 /\ Bit(146, 4) = 1 /\ Bit(146, 3) = 0 /\ Bit(146, 1) = 1
  BY Powers DEF Bit
<1> QED BY <1>1, <1>2 DEF IsPresent, IsData, IsSegment, Dpl, Access

(* Concatenation, by a name that keeps the prover from expanding it. *)
Cat(s, t) == s \o t

LEMMA CatFacts ==
  ASSUME NEW S, NEW s \in Seq(S), NEW t \in Seq(S)
  PROVE  /\ Cat(s, t) \in Seq(S)
         /\ Len(Cat(s, t)) = Len(s) + Len(t)
         /\ \A i \in 1 .. Len(s) + Len(t) :
              Cat(s, t)[i] = IF i <= Len(s) THEN s[i] ELSE t[i - Len(s)]
BY ConcatProperties, Zenon DEF Cat

LEMMA Cat4 ==
  ASSUME NEW s \in Seq(Nat), NEW t \in Seq(Nat), NEW m \in {4, 8, 12},
         Len(s) = m, Len(t) = 4
  PROVE  /\ Cat(s, t) \in Seq(Nat) /\ Len(Cat(s, t)) = m + 4
         /\ \A i \in 1 .. m : Cat(s, t)[i] = s[i]
         /\ \A i \in 1 .. 4 : Cat(s, t)[m + i] = t[i]
<1>1. /\ Cat(s, t) \in Seq(Nat)
      /\ Len(Cat(s, t)) = Len(s) + Len(t)
      /\ \A i \in 1 .. Len(s) + Len(t) :
           Cat(s, t)[i] = IF i <= Len(s) THEN s[i] ELSE t[i - Len(s)]
  BY CatFacts, Zenon
<1>2. \A i \in 1 .. m + 4 : Cat(s, t)[i] = IF i <= m THEN s[i] ELSE t[i - m]
  BY <1>1
<1>3. \A i \in 1 .. 4 : m + i \in 1 .. m + 4 /\ ~(m + i <= m) /\ (m + i) - m = i
  OBVIOUS
<1>4. Cat(s, t) \in Seq(Nat) /\ Len(Cat(s, t)) = m + 4
  BY <1>1
<1>5. \A i \in 1 .. m : Cat(s, t)[i] = s[i]
  BY <1>2
<1>6. \A i \in 1 .. 4 : Cat(s, t)[m + i] = t[i]
  BY <1>2, <1>3
<1> QED BY <1>4, <1>5, <1>6

(* The bytes of the address of the TSS, where the processor looks for them. *)
LEMMA TssBytes ==
  ASSUME NEW a \in Addresses, tss = a
  PROVE  /\ TssLow = <<107, 0, a[1], a[2], a[3], 137, 0, a[4]>>
         /\ TssHigh = <<a[5], a[6], a[7], a[8], 0, 0, 0, 0>>
<1>1. \A i \in 1 .. 8 : a[i] \in Nat
  <2>1. a \in [1 .. 8 -> 0 .. 255]
    BY AddressesAssumption
  <2> QED BY <2>1, SMTT(30)
<1> DEFINE A  == <<107, 0, a[1], a[2], a[3], 137, 0, a[4]>>
           B  == <<a[5], a[6], a[7], a[8]>>
           Z  == <<0, 0, 0, 0>>
           AB == Cat(A, B)
           e  == Cat(AB, Z)
<1>2. TssLimit[1] = 107 /\ TssLimit[2] = 0 /\ TssLimit[3] = 0
  BY DEF TssLimit
<1>3. encodeGDTEntry(tss, TssLimit, TSS_ACCESS_BYTE, 0) = A
  BY <1>2 DEF encodeGDTEntry, TSS_ACCESS_BYTE
<1>4. Zero(4) = Z
  BY DEF Zero
<1>5. TssEntry = e
  BY <1>3, <1>4, Zenon DEF TssEntry, encodeTSSEntry, Cat
<1>6. /\ A \in Seq(Nat) /\ Len(A) = 8
      /\ A[1] = 107 /\ A[2] = 0 /\ A[3] = a[1] /\ A[4] = a[2] /\ A[5] = a[3] /\ A[6] = 137
      /\ A[7] = 0 /\ A[8] = a[4]
  BY <1>1
<1>7. /\ B \in Seq(Nat) /\ Len(B) = 4
      /\ B[1] = a[5] /\ B[2] = a[6] /\ B[3] = a[7] /\ B[4] = a[8]
  BY <1>1
<1>8. Z \in Seq(Nat) /\ Len(Z) = 4 /\ Z[1] = 0 /\ Z[2] = 0 /\ Z[3] = 0 /\ Z[4] = 0
  OBVIOUS
<1> HIDE DEF A, B, Z
<1>9. /\ AB \in Seq(Nat) /\ Len(AB) = 12
      /\ \A i \in 1 .. 8 : AB[i] = A[i]
      /\ \A i \in 1 .. 4 : AB[8 + i] = B[i]
  <2>1. 8 \in {4, 8, 12} /\ A \in Seq(Nat) /\ Len(A) = 8 /\ B \in Seq(Nat) /\ Len(B) = 4
    BY <1>6, <1>7
  <2>2. /\ AB \in Seq(Nat) /\ Len(AB) = 8 + 4
        /\ \A i \in 1 .. 8 : AB[i] = A[i]
        /\ \A i \in 1 .. 4 : AB[8 + i] = B[i]
    BY <2>1, Cat4, Zenon
  <2> HIDE DEF AB
  <2> QED BY <2>2
<1> HIDE DEF AB
<1>10. /\ e \in Seq(Nat) /\ Len(e) = 16
       /\ \A i \in 1 .. 12 : e[i] = AB[i]
       /\ \A i \in 1 .. 4 : e[12 + i] = Z[i]
  <2>1. 12 \in {4, 8, 12}
    OBVIOUS
  <2>2. /\ e \in Seq(Nat) /\ Len(e) = 12 + 4
        /\ \A i \in 1 .. 12 : e[i] = AB[i]
        /\ \A i \in 1 .. 4 : e[12 + i] = Z[i]
    BY <1>8, <1>9, <2>1, Cat4, Zenon
  <2> HIDE DEF e
  <2> QED BY <2>2
<1> HIDE DEF e
<1>11. /\ SubSeq(e, 1, 8) = [i \in 1 .. 8 |-> e[i]]
       /\ SubSeq(e, 9, 16) = [i \in 1 .. 8 |-> e[8 + i]]
  BY <1>10
<1>12. [i \in 1 .. 8 |-> e[i]] = <<e[1], e[2], e[3], e[4], e[5], e[6], e[7], e[8]>>
  OBVIOUS
<1>13. [i \in 1 .. 8 |-> e[8 + i]] = <<e[9], e[10], e[11], e[12], e[13], e[14], e[15], e[16]>>
  OBVIOUS
<1>14. /\ e[1] = 107 /\ e[2] = 0 /\ e[3] = a[1] /\ e[4] = a[2] /\ e[5] = a[3] /\ e[6] = 137
       /\ e[7] = 0 /\ e[8] = a[4]
  <2>1. \A i \in 1 .. 12 : e[i] = AB[i]
    BY <1>10
  <2>2. \A i \in 1 .. 8 : AB[i] = A[i]
    BY <1>9
  <2>3. /\ A[1] = 107 /\ A[2] = 0 /\ A[3] = a[1] /\ A[4] = a[2] /\ A[5] = a[3] /\ A[6] = 137
        /\ A[7] = 0 /\ A[8] = a[4]
    BY <1>6
  <2> QED BY <2>1, <2>2, <2>3
<1>15. e[9] = B[1] /\ e[10] = B[2] /\ e[11] = B[3] /\ e[12] = B[4]
  <2>1. \A i \in 1 .. 12 : e[i] = AB[i]
    BY <1>10
  <2>2. AB[8 + 1] = B[1] /\ AB[8 + 2] = B[2] /\ AB[8 + 3] = B[3] /\ AB[8 + 4] = B[4]
    BY <1>9
  <2> QED BY <2>1, <2>2
<1>16. e[13] = 0 /\ e[14] = 0 /\ e[15] = 0 /\ e[16] = 0
  <2>1. e[12 + 1] = Z[1] /\ e[12 + 2] = Z[2] /\ e[12 + 3] = Z[3] /\ e[12 + 4] = Z[4]
    BY <1>10
  <2> QED BY <1>8, <2>1
<1>17. TssLow = <<107, 0, a[1], a[2], a[3], 137, 0, a[4]>>
  BY <1>5, <1>11, <1>12, <1>14 DEF TssLow
<1>18. TssHigh = <<a[5], a[6], a[7], a[8], 0, 0, 0, 0>>
  BY <1>5, <1>7, <1>11, <1>13, <1>15, <1>16 DEF TssHigh
<1> QED BY <1>17, <1>18

(* The TSS is available before it is loaded, and busy then. *)
LEMMA TssLoads ==
  ASSUME tss \in Addresses
  PROVE  /\ IsPresent(TssLow) /\ Access(TssLow) % 32 = 9
         /\ Bit(Access([TssLow EXCEPT ![6] = SetBit(@, 1)]), 1) = 1
<1>1. PICK a \in Addresses : tss = a
  OBVIOUS
<1>2. TssLow[6] = 137 /\ DOMAIN TssLow = 1 .. 8
  BY <1>1, TssBytes
<1>3. SetBit(137, 1) = 139 /\ Bit(139, 1) = 1 /\ Bit(137, 7) = 1
  BY Powers DEF SetBit, Bit
<1>4. [TssLow EXCEPT ![6] = SetBit(@, 1)][6] = 139
  BY <1>2, <1>3
<1> QED BY <1>2, <1>3, <1>4 DEF IsPresent, Access

(* What the task register then holds. *)
LEMMA TrFacts ==
  ASSUME tss \in Addresses
  PROVE  LET t == TssLow \o TssHigh
         IN  Base(t) \o SubSeq(t, 9, 12) = tss /\ Limit(t) = <<107, 0, 0>>
<1>1. PICK a \in Addresses : tss = a
  OBVIOUS
<1> DEFINE t  == TssLow \o TssHigh
           lo == <<107, 0, a[1], a[2], a[3], 137, 0, a[4]>>
           hi == <<a[5], a[6], a[7], a[8], 0, 0, 0, 0>>
<1>2. a \in [1 .. 8 -> 0 .. 255] /\ \A i \in 1 .. 8 : a[i] \in Nat
  BY AddressesAssumption, SMTT(30)
<1>3. t = Cat(lo, hi)
  BY <1>1, TssBytes DEF Cat
<1>4. /\ lo \in Seq(Nat) /\ Len(lo) = 8 /\ hi \in Seq(Nat) /\ Len(hi) = 8
  BY <1>2
<1>5. /\ lo[1] = 107 /\ lo[2] = 0 /\ lo[3] = a[1] /\ lo[4] = a[2] /\ lo[5] = a[3]
      /\ lo[7] = 0 /\ lo[8] = a[4]
      /\ hi[1] = a[5] /\ hi[2] = a[6] /\ hi[3] = a[7] /\ hi[4] = a[8]
  OBVIOUS
<1> HIDE DEF t, lo, hi
<1>6. /\ t \in Seq(Nat)
      /\ Len(t) = Len(lo) + Len(hi)
      /\ \A i \in 1 .. Len(lo) + Len(hi) : t[i] = IF i <= Len(lo) THEN lo[i] ELSE hi[i - Len(lo)]
  BY <1>3, <1>4, CatFacts, Zenon
<1>7. Len(t) = 16 /\ \A i \in 1 .. 16 : t[i] = IF i <= 8 THEN lo[i] ELSE hi[i - 8]
  BY <1>4, <1>6
<1>8. /\ t[1] = 107 /\ t[2] = 0 /\ t[3] = a[1] /\ t[4] = a[2] /\ t[5] = a[3]
      /\ t[7] = 0 /\ t[8] = a[4]
      /\ t[9] = a[5] /\ t[10] = a[6] /\ t[11] = a[7] /\ t[12] = a[8]
  <2>1. \A i \in 1 .. 16 : t[i] = IF i <= 8 THEN lo[i] ELSE hi[i - 8]
    BY <1>7
  <2> QED BY <1>5, <2>1
<1>9. Limit(t) = <<107, 0, 0>>
  BY <1>8 DEF Limit
<1>10. Base(t) = <<a[1], a[2], a[3], a[4]>>
  BY <1>8 DEF Base
<1>11. SubSeq(t, 9, 12) = <<a[5], a[6], a[7], a[8]>>
  <2>1. SubSeq(t, 9, 12) = [i \in 1 .. 4 |-> t[8 + i]]
    BY <1>6, <1>7
  <2>2. [i \in 1 .. 4 |-> t[8 + i]] = <<t[9], t[10], t[11], t[12]>>
    OBVIOUS
  <2> QED BY <1>8, <2>1, <2>2
<1> DEFINE p == <<a[1], a[2], a[3], a[4]>>
           q == <<a[5], a[6], a[7], a[8]>>
           c == Cat(p, q)
<1>12. /\ p \in Seq(Nat) /\ Len(p) = 4 /\ q \in Seq(Nat) /\ Len(q) = 4 /\ 4 \in {4, 8, 12}
  BY <1>2
<1>13. /\ p[1] = a[1] /\ p[2] = a[2] /\ p[3] = a[3] /\ p[4] = a[4]
       /\ q[1] = a[5] /\ q[2] = a[6] /\ q[3] = a[7] /\ q[4] = a[8]
  OBVIOUS
<1> HIDE DEF p, q
<1>14. /\ c \in Seq(Nat) /\ Len(c) = 4 + 4
       /\ \A i \in 1 .. 4 : c[i] = p[i]
       /\ \A i \in 1 .. 4 : c[4 + i] = q[i]
  BY <1>12, Cat4, Zenon
<1> HIDE DEF c
<1>15. c = a
  <2>1. DOMAIN c = 1 .. 8 /\ c = [i \in 1 .. 8 |-> c[i]]
    BY <1>14
  <2>2. /\ c[1] = a[1] /\ c[2] = a[2] /\ c[3] = a[3] /\ c[4] = a[4]
        /\ c[4 + 1] = a[5] /\ c[4 + 2] = a[6] /\ c[4 + 3] = a[7] /\ c[4 + 4] = a[8]
    BY <1>13, <1>14
  <2>3. \A i \in 1 .. 8 : c[i] = a[i]
    BY <2>2
  <2>4. a = [i \in 1 .. 8 |-> a[i]]
    BY <1>2
  <2> QED BY <2>1, <2>3, <2>4
<1>16. Base(t) \o SubSeq(t, 9, 12) = c
  BY <1>10, <1>11, Zenon DEF c, p, q, Cat
<1> QED BY <1>1, <1>9, <1>15, <1>16, Zenon DEF t

(* The gate idt_set_descriptor encodes is an interrupt gate to its stub. *)
InterruptGate(g, handler) ==
  /\ <<g[1], g[2], g[7], g[8], g[9], g[10], g[11], g[12]>> = handler
  /\ g[3] + 256 * g[4] = 8
  /\ g[5] = 0 /\ Bit(g[6], 7) = 1 /\ g[6] % 16 = 14

LEMMA GateFacts ==
  ASSUME stub \in Addresses, NEW v \in 0 .. 255
  PROVE  InterruptGate(idt_set_descriptor(isr_stub_table(v), 142), isr_stub_table(v))
<1> DEFINE g == idt_set_descriptor(isr_stub_table(v), 142)
           r == isr_stub_table(v)
           A == << r[1], r[2], 8, 0, 0, 142, r[3], r[4], r[5], r[6], r[7], r[8] >>
           Z == Zero(4)
<1>1. r \in [1 .. 8 -> 0 .. 255] /\ r = [i \in 1 .. 8 |-> r[i]]
  BY AddressesAssumption DEF isr_stub_table
<1>2. g = Cat(A, Z)
  BY Zenon DEF idt_set_descriptor, Cat
<1> HIDE DEF r
<1>3. \A i \in 1 .. 8 : r[i] \in Nat
  BY <1>1, SMTT(30)
<1>4. A \in Seq(Nat) /\ Len(A) = 12 /\ Z \in Seq(Nat) /\ Len(Z) = 4 /\ 12 \in {4, 8, 12}
  BY <1>3 DEF Zero
<1>5. /\ A[1] = r[1] /\ A[2] = r[2] /\ A[3] = 8 /\ A[4] = 0 /\ A[5] = 0 /\ A[6] = 142
      /\ A[7] = r[3] /\ A[8] = r[4] /\ A[9] = r[5] /\ A[10] = r[6] /\ A[11] = r[7]
      /\ A[12] = r[8]
  OBVIOUS
<1> HIDE DEF A, Z, g
<1>6. \A i \in 1 .. 12 : g[i] = A[i]
  BY <1>2, <1>4, Cat4, ZenonT(30)
<1>7. /\ g[1] = r[1] /\ g[2] = r[2] /\ g[3] = 8 /\ g[4] = 0 /\ g[5] = 0 /\ g[6] = 142
      /\ g[7] = r[3] /\ g[8] = r[4] /\ g[9] = r[5] /\ g[10] = r[6] /\ g[11] = r[7]
      /\ g[12] = r[8]
  BY <1>5, <1>6
<1>8. [i \in 1 .. 8 |-> r[i]] = <<r[1], r[2], r[3], r[4], r[5], r[6], r[7], r[8]>>
  OBVIOUS
<1>9. <<g[1], g[2], g[7], g[8], g[9], g[10], g[11], g[12]>> = r
  BY <1>1, <1>7, <1>8
<1>10. Bit(142, 7) = 1 /\ 142 % 16 = 14
  BY Powers DEF Bit
<1>11. InterruptGate(g, r)
  BY <1>7, <1>9, <1>10 DEF InterruptGate
<1> QED BY <1>11 DEF g, r

------------------------------------------------------------------------------
(* The tables.                                                             *)

LEMMA TablesStart == Init => TablesInv
BY DEF Init, TablesInv, Typed, Encoded, Gates, GDT_COUNT

LEMMA TablesStep == TablesInv /\ [Next]_vars => TablesInv'
<1> SUFFICES ASSUME TablesInv, [Next]_vars PROVE TablesInv'
  OBVIOUS
<1> USE DEF TablesInv
<1>1. CASE EncodeEntry
  <2>1. next \in 0 .. 4
    BY <1>1 DEF EncodeEntry, Typed, GDT_COUNT
  <2>2. Typed'
    BY <1>1 DEF EncodeEntry, Typed, addr
  <2>3. Encoded'
    <3>1. next = 1 => gdt'[1] = CodeEntry
      BY <1>1, <2>1 DEF EncodeEntry, Typed, CodeEntry
    <3>2. next > 1 => gdt'[1] = gdt[1]
      BY <1>1, <2>1 DEF EncodeEntry, Typed
    <3>3. next = 2 => gdt'[2] = DataEntry
      BY <1>1, <2>1 DEF EncodeEntry, Typed, DataEntry
    <3>4. next > 2 => gdt'[2] = gdt[2]
      BY <1>1, <2>1 DEF EncodeEntry, Typed
    <3>5. pc = "entries" /\ pc' = "entries" /\ next' = next + 1
      BY <1>1 DEF EncodeEntry
    <3>6. CodeEntry' = CodeEntry /\ DataEntry' = DataEntry
      BY DEF CodeEntry, DataEntry
    <3>7. /\ next' <= GDT_COUNT
          /\ next' > 1 => gdt'[1] = CodeEntry
          /\ next' > 2 => gdt'[2] = DataEntry
      BY <2>1, <3>1, <3>2, <3>3, <3>4, <3>5 DEF Encoded, GDT_COUNT
    <3> QED BY <3>5, <3>6, <3>7 DEF Encoded
  <2>4. Gates'
    BY <1>1 DEF EncodeEntry, Gates, addr, isr_stub_table
  <2> QED BY <2>2, <2>3, <2>4
<1>2. CASE EncodeTss
  <2>1. Typed'
    BY <1>2 DEF EncodeTss, Typed, addr
  <2>2. Encoded'
    <3>1. gdt' = [gdt EXCEPT ![5] = TssLow, ![6] = TssHigh] /\ gdtr' = GdtLimit
      BY <1>2, Zenon DEF EncodeTss, TssLow, TssHigh, TssEntry
    <3>2. gdt[1] = CodeEntry /\ gdt[2] = DataEntry
      BY <1>2 DEF EncodeTss, Encoded, GDT_COUNT
    <3>3. /\ gdt'[1] = CodeEntry /\ gdt'[2] = DataEntry
          /\ gdt'[5] = TssLow /\ gdt'[6] = TssHigh
      BY <3>1, <3>2 DEF Typed
    <3>4. TssLow' = TssLow /\ TssHigh' = TssHigh
      BY <1>2 DEF EncodeTss, addr, TssLow, TssHigh, TssEntry
    <3>5. CodeEntry' = CodeEntry /\ DataEntry' = DataEntry /\ GdtLimit' = GdtLimit
      BY DEF CodeEntry, DataEntry
    <3>6. pc' = "reload_cs"
      BY <1>2 DEF EncodeTss
    <3> QED BY <3>1, <3>3, <3>4, <3>5, <3>6 DEF Encoded
  <2>3. Gates'
    BY <1>2 DEF EncodeTss, Gates, addr, isr_stub_table
  <2> QED BY <2>1, <2>2, <2>3
<1>3. CASE ReloadCs
  <2>1. pc = "reload_cs" /\ gdt[1] = CodeEntry /\ gdtr = GdtLimit
    BY <1>3 DEF ReloadCs, Encoded
  <2>2. InTable(8, 8)
    BY <2>1 DEF InTable, GdtLimit, GDT_COUNT
  <2>3. IsPresent(gdt[1]) /\ IsCode64(gdt[1]) /\ Dpl(gdt[1]) = 0
    BY <2>1, CodeLoads
  <2>4. gdt' = [gdt EXCEPT ![1] = Accessed(CodeEntry)] /\ pc' = "reload_ss"
    BY <1>3, <2>1, <2>2, <2>3 DEF ReloadCs
  <2>5. UNCHANGED <<gdtr, idt, vectors, next, addr>>
    BY <1>3 DEF ReloadCs
  <2>6. Typed'
    BY <2>4, <2>5 DEF Typed, addr
  <2>7. /\ gdt'[1] = Accessed(CodeEntry)
        /\ gdt'[2] = gdt[2] /\ gdt'[5] = gdt[5] /\ gdt'[6] = gdt[6]
    BY <2>4 DEF Typed
  <2>8. TssLow' = TssLow /\ TssHigh' = TssHigh
    BY <2>5 DEF addr, TssLow, TssHigh, TssEntry
  <2>9. Encoded'
    BY <2>1, <2>4, <2>5, <2>7, <2>8 DEF Encoded, CodeEntry, DataEntry
  <2>10. Gates'
    BY <2>1, <2>4, <2>5 DEF Gates, addr, isr_stub_table
  <2> QED BY <2>6, <2>9, <2>10
<1>4. CASE ReloadSs
  <2>1. pc = "reload_ss" /\ gdt[2] = DataEntry /\ gdtr = GdtLimit
    BY <1>4 DEF ReloadSs, Encoded
  <2>2. InTable(16, 8)
    BY <2>1 DEF InTable, GdtLimit, GDT_COUNT
  <2>3. IsPresent(gdt[2]) /\ IsData(gdt[2]) /\ Dpl(gdt[2]) = 0
    BY <2>1, DataLoads
  <2>4. gdt' = [gdt EXCEPT ![2] = Accessed(DataEntry)] /\ pc' = "flush_tss"
    BY <1>4, <2>1, <2>2, <2>3 DEF ReloadSs
  <2>5. UNCHANGED <<gdtr, idt, vectors, next, addr>>
    BY <1>4 DEF ReloadSs
  <2>6. Typed'
    BY <2>4, <2>5 DEF Typed, addr
  <2>7. gdt'[1] = gdt[1] /\ gdt'[5] = gdt[5] /\ gdt'[6] = gdt[6]
    BY <2>4 DEF Typed
  <2>8. TssLow' = TssLow /\ TssHigh' = TssHigh
    BY <2>5 DEF addr, TssLow, TssHigh, TssEntry
  <2>9. Encoded'
    BY <2>1, <2>4, <2>5, <2>7, <2>8 DEF Encoded, CodeEntry, DataEntry
  <2>10. Gates'
    BY <2>1, <2>4, <2>5 DEF Gates, addr, isr_stub_table
  <2> QED BY <2>6, <2>9, <2>10
<1>5. CASE flush_tss
  <2>1. pc = "flush_tss" /\ gdt[5] = TssLow /\ gdt[6] = TssHigh /\ gdtr = GdtLimit
    BY <1>5 DEF flush_tss, Encoded
  <2>2. InTable(40, 16)
    BY <2>1 DEF InTable, GdtLimit, GDT_COUNT
  <2>3. IsPresent(gdt[5]) /\ Access(gdt[5]) % 32 = 9
    BY <2>1, TssLoads DEF Typed
  <2>4. /\ gdt' = [gdt EXCEPT ![5][6] = SetBit(@, 1)] /\ pc' = "idt_init"
        /\ tr' = gdt[5] \o gdt[6]
    BY <1>5, <2>1, <2>2, <2>3, Zenon DEF flush_tss
  <2>5. UNCHANGED <<gdtr, idt, vectors, next, addr>>
    BY <1>5 DEF flush_tss
  <2>6. Typed'
    BY <2>4, <2>5 DEF Typed, addr
  <2>7. gdt'[1] = gdt[1] /\ gdt'[5] = [TssLow EXCEPT ![6] = SetBit(@, 1)]
    BY <2>1, <2>4 DEF Typed
  <2>8. TssLow' = TssLow /\ TssHigh' = TssHigh
    BY <2>5 DEF addr, TssLow, TssHigh, TssEntry
  <2>9. tr' = TssLow \o TssHigh
    BY <2>1, <2>4, Zenon
  <2>10. Encoded'
    BY <2>1, <2>4, <2>5, <2>7, <2>8, <2>9, Zenon DEF Encoded, CodeEntry, DataEntry
  <2>11. Gates'
    BY <2>1, <2>4, <2>5 DEF Gates, addr, isr_stub_table
  <2> QED BY <2>6, <2>10, <2>11
<1>6. CASE idt_init
  <2> DEFINE v == IF next < 49 THEN next ELSE 255
  <2>1. /\ pc = "idt_init" /\ v \in 0 .. 255
        /\ idt' = [idt EXCEPT ![v] = idt_set_descriptor(isr_stub_table(v), 142)]
        /\ vectors' = vectors \cup {v} /\ next' = next + 1
        /\ pc' \in {"idt_init", "done"}
        /\ UNCHANGED <<gdt, gdtr, seg, addr>>
    BY <1>6 DEF idt_init, Typed
  <2> HIDE DEF v
  <2>2. Typed'
    BY <2>1 DEF Typed, addr
  <2>3. TssLow' = TssLow /\ TssHigh' = TssHigh
    BY <2>1 DEF addr, TssLow, TssHigh, TssEntry
  <2>4. Encoded'
    BY <2>1, <2>3, Zenon DEF Encoded, seg, CodeEntry, DataEntry
  <2>5. \A w \in 0 .. 255 : isr_stub_table(w)' = isr_stub_table(w)
    BY <2>1 DEF addr, isr_stub_table
  <2>6. Gates'
    BY <2>1, <2>5 DEF Gates, Typed
  <2> QED BY <2>2, <2>4, <2>6
<1>7. CASE UNCHANGED vars
  <2>1. TssLow' = TssLow /\ TssHigh' = TssHigh
    BY <1>7 DEF vars, addr, TssLow, TssHigh, TssEntry
  <2>2. Typed'
    BY <1>7 DEF vars, addr, Typed
  <2>3. Encoded'
    BY <1>7, <2>1, Zenon DEF vars, seg, Encoded, CodeEntry, DataEntry
  <2>4. Gates'
    BY <1>7 DEF vars, addr, Gates, isr_stub_table
  <2> QED BY <2>2, <2>3, <2>4
<1> QED BY <1>1, <1>2, <1>3, <1>4, <1>5, <1>6, <1>7 DEF Next

------------------------------------------------------------------------------
(* The timer.                                                              *)

LEMMA DivideFacts ==
  ASSUME NEW n \in Nat, NEW f \in Nat \ {0}
  PROVE  n \div f \in Nat /\ (n \div f) * f <= n /\ ((n \div f) + 1) * f > n
OBVIOUS

LEMMA RemainderFacts == ASSUME NEW d \in Int PROVE d = 256 * (d \div 256) + (d % 256)
OBVIOUS

(* The two bytes of a count make the count again. *)
LEMMA TwoBytes ==
  ASSUME NEW d \in Nat, d <= 65535, NEW q \in Nat, NEW r \in Nat, d = 256 * q + r
  PROVE  (q % 256) * 256 + r = d
<1>1. q < 256
  OBVIOUS
<1>2. q % 256 = q
  BY <1>1
<1> QED BY <1>2

(* Divisor is the count whose rate is closest, as far as 16 bits allow. *)
Closest(f, c) ==
  /\ c \in Nat /\ c # 0 /\ c <= 65535
  /\ c * f <= P!PIT_BASE_FREQ \/ c = 1
  /\ (c + 1) * f > P!PIT_BASE_FREQ \/ c = 65535

LEMMA DivisorFacts == ASSUME NEW f \in Nat \ {0} PROVE Closest(f, P!Divisor(f))
<1> DEFINE N == P!PIT_BASE_FREQ
           q == N \div f
           c == P!Divisor(f)
<1>1. N \in Nat
  BY DEF P!PIT_BASE_FREQ
<1>2. c = IF q > 65535 THEN 65535 ELSE IF q = 0 THEN 1 ELSE q
  BY SMT DEF P!Divisor
<1>3. q \in Nat /\ q * f <= N /\ (q + 1) * f > N
  BY <1>1, DivideFacts, Zenon
<1> HIDE DEF N, c, q
<1>4. /\ c \in Nat /\ c # 0 /\ c <= 65535
      /\ c * f <= N \/ c = 1
      /\ (c + 1) * f > N \/ c = 65535
  <2>1. CASE q > 65535
    <3>1. 65535 * f <= q * f
      BY <1>3, <2>1
    <3>2. 65535 * f <= N
      BY <1>1, <1>3, <3>1
    <3> QED BY <1>2, <2>1, <3>2
  <2>2. CASE q = 0
    <3>1. f > N
      BY <1>1, <1>3, <2>2
    <3>2. (1 + 1) * f > N
      BY <1>1, <3>1
    <3>3. c = 1
      BY <1>2, <2>2
    <3> QED BY <3>2, <3>3
  <2>3. CASE q <= 65535 /\ q # 0
    <3>1. c = q
      BY <1>2, <1>3, <2>3
    <3> QED BY <1>3, <2>3, <3>1
  <2>4. q > 65535 \/ q = 0 \/ (q <= 65535 /\ q # 0)
    BY <1>3
  <2> QED BY <2>1, <2>2, <2>3, <2>4, SMT
<1> QED BY <1>4, SMT DEF Closest, N, c

(* The call in progress, and what the channel has received of it. *)
TimerInv ==
  /\ timer_pc \in {"idle", "command", "low", "high", "fault"}
  /\ frequency_hz \in Frequencies \cup {0}
  /\ timer_pc \in {"command", "low", "high"} =>
       frequency_hz > 0 /\ divisor = P!Divisor(frequency_hz)
  /\ timer_pc = "low" => latch = P!None
  /\ timer_pc = "high" => latch = divisor % 256
  /\ timer_pc \in {"low", "high"} => count = P!None
  /\ timer_pc = "idle" /\ frequency_hz > 0 => count = P!Divisor(frequency_hz)
  /\ count \in {P!None, 65536} \cup { P!Divisor(f) : f \in Frequencies \ {0} }

LEMMA TimerStart == P!Init => TimerInv
BY DEF P!Init, TimerInv

LEMMA TimerStep == TimerInv /\ [P!Next]_timer => TimerInv'
<1> SUFFICES ASSUME TimerInv, [P!Next]_timer PROVE TimerInv'
  OBVIOUS
<1> USE FrequenciesAssumption
<1>1. ASSUME NEW f \in Frequencies, P!init_pit(f) PROVE TimerInv'
  BY <1>1 DEF TimerInv, P!init_pit
<1>2. ASSUME NEW f \in Frequencies, P!DivideError(f) PROVE TimerInv'
  BY <1>2 DEF TimerInv, P!DivideError
<1>3. CASE P!WriteCommand
  BY <1>3 DEF TimerInv, P!WriteCommand
<1>4. CASE P!WriteLow
  BY <1>4 DEF TimerInv, P!WriteLow, P!Receive
<1>5. CASE P!WriteHigh
  <2>1. frequency_hz \in Frequencies \ {0} /\ divisor = P!Divisor(frequency_hz)
    BY <1>5 DEF TimerInv, P!WriteHigh
  <2>2. divisor \in Nat /\ divisor # 0 /\ divisor <= 65535
    <3>1. frequency_hz \in Nat \ {0}
      BY <2>1
    <3>2. Closest(frequency_hz, divisor)
      BY <2>1, <3>1, DivisorFacts, Zenon
    <3> QED BY <3>2 DEF Closest
  <2> DEFINE q == divisor \div 256
  <2>3. latch = divisor % 256 /\ P!Receive(q % 256)
    BY <1>5 DEF TimerInv, P!WriteHigh
  <2>4. divisor = 256 * q + latch /\ q \in Nat /\ latch \in Nat /\ latch < 256
    <3>1. divisor \in Int /\ divisor \in Nat
      BY <2>2
    <3>2. divisor = 256 * q + latch
      BY <2>3, <3>1, RemainderFacts
    <3>3. q \in Nat
      BY <3>1, DivideFacts
    <3>4. latch \in Nat /\ latch < 256
      BY <2>3, <3>1
    <3> QED BY <3>2, <3>3, <3>4
  <2> HIDE DEF q
  <2>5. count' = divisor
    <3>1. (q % 256) * 256 + latch = divisor
      BY <2>2, <2>4, TwoBytes
    <3>2. latch # P!None
      BY <2>4 DEF P!None
    <3> DEFINE h == q % 256
    <3>3. h * 256 + latch = divisor /\ P!Receive(h)
      BY <2>3, <3>1
    <3> HIDE DEF h
    <3> QED BY <2>2, <3>2, <3>3 DEF P!Receive
  <2> QED BY <1>5, <2>1, <2>5 DEF TimerInv, P!WriteHigh
<1>6. CASE UNCHANGED timer
  BY <1>6 DEF TimerInv, timer
<1> QED BY <1>1, <1>2, <1>3, <1>4, <1>5, <1>6 DEF P!Next

LEMMA Inductive == SetupSpec => [](TablesInv /\ TimerInv)
<1>1. SetupInit => TablesInv /\ TimerInv
  BY TablesStart, TimerStart DEF SetupInit
<1>2. TablesInv /\ TimerInv /\ [SetupNext]_<<vars, timer>> => (TablesInv /\ TimerInv)'
  <2>1. [SetupNext]_<<vars, timer>> => [Next]_vars /\ [P!Next]_timer
    BY DEF SetupNext
  <2> QED BY <2>1, TablesStep, TimerStep
<1> QED BY <1>1, <1>2, PTL DEF SetupSpec

------------------------------------------------------------------------------
(* The theorems.                                                           *)

(* initGdt never faults: each selector it loads names a descriptor of the  *)
(* kind the instruction asks for, inside the limit, and the task register  *)
(* finds the TSS, wherever the linker has put it.                          *)
THEOREM LoadsSucceedHolds == SetupSpec => []LoadsSucceed
<1>1. TablesInv => LoadsSucceed
  <2> SUFFICES ASSUME TablesInv PROVE LoadsSucceed
    OBVIOUS
  <2>1. pc # "fault" /\ tss \in Addresses
    BY DEF TablesInv, Typed
  <2>2. ASSUME pc = "idt_init"
        PROVE  /\ Base(tr) \o SubSeq(tr, 9, 12) = tss
               /\ Limit(tr) = <<107, 0, 0>>
               /\ Bit(Access(gdt[5]), 1) = 1
    <3>1. tr = TssLow \o TssHigh /\ gdt[5] = [TssLow EXCEPT ![6] = SetBit(@, 1)]
      BY <2>2, Zenon DEF TablesInv, Encoded
    <3>2. Base(tr) \o SubSeq(tr, 9, 12) = tss /\ Limit(tr) = <<107, 0, 0>>
      BY <2>1, <3>1, TrFacts, Zenon
    <3>3. Bit(Access(gdt[5]), 1) = 1
      BY <2>1, <3>1, TssLoads, Zenon
    <3> QED BY <3>2, <3>3
  <2> QED BY <2>1, <2>2, Zenon DEF LoadsSucceed
<1> QED BY Inductive, <1>1, PTL

(* An interrupt on a vector of vectors[] goes through an interrupt gate of *)
(* idt_set_descriptor to its own stub, in the kernel's code segment, and   *)
(* no other vector has a gate: wherever the stubs lie.                     *)
THEOREM GatesLeadToStubsHolds == SetupSpec => []GatesLeadToStubs
<1>1. TablesInv => GatesLeadToStubs
  <2> SUFFICES ASSUME TablesInv, NEW v \in 0 .. 255
               PROVE  IF v \in vectors
                      THEN LET g == idt[v]
                           IN  /\ <<g[1], g[2], g[7], g[8], g[9], g[10], g[11], g[12]>>
                                    = isr_stub_table(v)
                               /\ g[3] + 256 * g[4] = 8 /\ IsPresent(gdt[1]) /\ IsCode64(gdt[1])
                               /\ 16 * v + 15 <= IdtLimit
                               /\ g[5] = 0 /\ Bit(g[6], 7) = 1 /\ g[6] % 16 = 14
                      ELSE idt[v] = Zero(16)
    BY DEF GatesLeadToStubs
  <2>1. CASE v \in vectors
    <3>1. idt[v] = idt_set_descriptor(isr_stub_table(v), 142) /\ stub \in Addresses
      BY <2>1 DEF TablesInv, Typed, Gates
    <3>2. InterruptGate(idt[v], isr_stub_table(v))
      BY <3>1, GateFacts
    <3>3. gdt[1] = Accessed(CodeEntry)
      BY <2>1 DEF TablesInv, Gates, Encoded
    <3>4. IsPresent(gdt[1]) /\ IsCode64(gdt[1])
      BY <3>3, CodeLoads
    <3>5. 16 * v + 15 <= IdtLimit
      BY DEF IdtLimit
    <3> QED BY <2>1, <3>2, <3>4, <3>5 DEF InterruptGate
  <2>2. CASE v \notin vectors
    BY <2>2 DEF TablesInv, Gates
  <2> QED BY <2>1, <2>2
<1> QED BY Inductive, <1>1, PTL

(* The timer runs at the rate asked of init_pit last, as far as 16 bits    *)
(* allow, after any sequence of calls, and never with half of a count.     *)
THEOREM TimerReadyHolds == SetupSpec => []TimerReady
<1>1. TimerInv => TimerReady
  <2> SUFFICES ASSUME TimerInv PROVE TimerReady
    OBVIOUS
  <2>1. ASSUME timer_pc = "idle", frequency_hz > 0
        PROVE  /\ count * frequency_hz <= P!PIT_BASE_FREQ \/ count = 1
               /\ (count + 1) * frequency_hz > P!PIT_BASE_FREQ \/ count = 65535
    <3>1. frequency_hz \in Nat \ {0} /\ count = P!Divisor(frequency_hz)
      BY <2>1, FrequenciesAssumption DEF TimerInv
    <3>2. Closest(frequency_hz, count)
      BY <3>1, DivisorFacts, Zenon
    <3> QED BY <3>2 DEF Closest
  <2> QED BY <2>1, SMT DEF TimerReady, P!RateAsAsked, TimerInv
<1> QED BY Inductive, <1>1, PTL
==============================================================================
