----------------------------- MODULE IoapicProofs -----------------------------
(***************************************************************************)
(* Proofs about Ioapic, for every MADT, every pool of pages and every      *)
(* sequence of loads.                                                      *)
(***************************************************************************)
EXTENDS Ioapic, FiniteSetTheorems, TLAPS

------------------------------------------------------------------------------
(* The inductive invariant.                                                *)

Entry == [low : [vector : Vectors \cup {0}, mask : {0, 1}], high : Dests \cup {0}]

(* The values the variables may have: the ones of TypeOK, and those that a *)
(* load in progress carries from one write to the next.                    *)
Types ==
  /\ free \subseteq Ram /\ as_table \subseteq Ram /\ hhdm_pages \in {"4K", "2M", "1G"}
  /\ hhdm \in [Ram -> Ram \cup { Frame(c) : c \in Chips }]
  /\ ioapic_count \in 0 .. Len(ioapic_entries)
  /\ virt_Address \in Seq(Ram \cup {INVALID}) /\ Len(virt_Address) <= ioapic_count
  /\ lapic_id \in ApicIds
  /\ pc \in {"init_IOAPIC", "idle", "low", "high", "fault"}
  /\ pin \in 0 .. (Byte - 1) /\ line \in Irqs \cup {0} /\ chip \in Chips \cup {0}
  /\ redir \in Entry
  /\ low \in [Chips -> [Pins -> [vector : Vectors \cup {0}, mask : {0, 1}]]]
  /\ high \in [Chips -> [Pins -> Dests \cup {0}]]
  /\ loaded \in [Irqs -> Entry] /\ foreign \subseteq Pins

(* A page whose address was taken is not in the pool, so the next address  *)
(* is another one; among small pages it leads to its IOAPIC.               *)
Mapped ==
  \A i \in 1 .. Len(virt_Address) :
    virt_Address[i] # INVALID =>
      /\ virt_Address[i] \notin free
      /\ hhdm_pages = "4K" => hhdm[virt_Address[i]] = phys_address(i)

(* The other addresses of the direct map are as they were. *)
Intact ==
  /\ \A f \in Ram : hhdm[f] = f \/ (\E i \in 1 .. Len(virt_Address) : virt_Address[i] = f)
  /\ hhdm_pages # "4K" => hhdm = [f \in Ram |-> f]
  /\ hhdm_pages = "4K" => as_table = {}

(* A load has an IOAPIC to write to, and the pin of the one it was asked   *)
(* for; what it hits without being meant for it is known.  Between its two *)
(* writes the low half of an entry is new.                                 *)
Loading ==
  /\ pc \in {"idle", "low", "high"} => Len(virt_Address) >= 1 /\ virt_Address[1] # INVALID
  /\ pc \in {"low", "high"} =>
       /\ line \in Irqs /\ chip \in Chips /\ pin = Get_pin(chip, line)
       /\ ~Meant(chip, line) => Hit(chip, line) \subseteq foreign
  /\ pc = "high" /\ hhdm_pages = "4K" => \A p \in Hit(chip, line) : low[1][p] = redir.low
  /\ pc = "fault" /\ hhdm_pages = "4K" =>
       ioapic_count = 0 \/ (Len(virt_Address) >= 1 /\ virt_Address[1] = INVALID)

(* The entry a line should have now. *)
Due(irq) ==
  IF pc = "high" /\ Meant(chip, line) /\ line = irq
  THEN [low |-> redir.low, high |-> loaded[irq].high]
  ELSE loaded[irq]

(* What is in the entry at pin p of IOAPIC c, where nothing else was hit. *)
EntryDue(c, p) ==
  LET gsi   == p + ioapic_entries[c].GSI_base
      entry == [low |-> low[c][p], high |-> high[c][p]]
  IN  /\ \A irq \in Irqs : Line[irq] = gsi => entry = Due(irq)
      /\ (\A irq \in Irqs : Line[irq] # gsi) => entry = NoEntry

Entries ==
  hhdm_pages = "4K" =>
    \A c \in Chips, p \in Pins : (c = 1 => p \notin foreign) => EntryDue(c, p)

IndInv == Types /\ Mapped /\ Intact /\ Loading /\ Entries

------------------------------------------------------------------------------
(* Facts about the operators.                                              *)

(* A set of numbers has a least one: the intervals that end in them are    *)
(* finite sets, of which one contains no other.                            *)
LEMMA LeastNat ==
  ASSUME NEW T, T \subseteq Nat, T # {}
  PROVE  \E n \in T : \A m \in T : n <= m
<1> DEFINE I(n) == 0 .. n
           U    == { I(n) : n \in T }
           R    == StrictSubsetOrdering(Nat)
<1>1. U \subseteq FiniteSubsetsOf(Nat) /\ U # {}
  <2>1. ASSUME NEW n \in T PROVE I(n) \in FiniteSubsetsOf(Nat)
    BY FS_Interval DEF FiniteSubsetsOf
  <2> QED BY <2>1
<1>2. IsWellFoundedOn(R, FiniteSubsetsOf(Nat))
  BY FS_StrictSubsetOrderingWellFounded
<1>3. PICK X \in U : \A Y \in U : ~(<<Y, X>> \in R)
  <2> HIDE DEF U, R
  <2> QED BY <1>1, <1>2, WFMin
<1>4. PICK n \in T : X = I(n)
  OBVIOUS
<1>5. ASSUME NEW m \in T, m < n PROVE FALSE
  <2>1. I(m) \in U /\ I(m) \subseteq I(n) /\ n \in I(n) /\ n \notin I(m)
    BY <1>5
  <2>2. <<I(m), I(n)>> \in R
    BY <2>1 DEF StrictSubsetOrdering
  <2> QED BY <1>3, <1>4, <2>1, <2>2
<1> QED BY <1>5

(* The GSI Get_iso_gsi finds for an interrupt (ioapic.c) is its line. *)
LEMMA GsiIsLine == ASSUME NEW irq \in Irqs PROVE Get_iso_gsi(irq) = Line[irq]
<1> DEFINE hits == { k \in DOMAIN iso_entries : iso_entries[k].IRQ_Source = irq }
<1>1. CASE hits = {}
  <2>1. Get_iso_gsi(irq) = irq
    BY <1>1 DEF Get_iso_gsi
  <2>2. Line[irq] = irq
    BY <1>1, WiringAssumption
  <2> QED BY <2>1, <2>2
<1>2. CASE hits # {}
  <2>0. DOMAIN iso_entries \subseteq Nat
    BY TypesAssumption
  <2>1. PICK k0 \in hits : \A j \in hits : k0 <= j
    BY <1>2, <2>0, LeastNat
  <2> DEFINE k == CHOOSE i \in hits : \A j \in hits : i <= j
  <2>2. k \in hits
    BY <2>1
  <2>3. Get_iso_gsi(irq) = iso_entries[k].GSI
    BY <1>2 DEF Get_iso_gsi
  <2>4. PICK m \in DOMAIN iso_entries : iso_entries[m] = [IRQ_Source |-> irq, GSI |-> Line[irq]]
    BY <1>2, WiringAssumption
  <2>5. iso_entries[k] = iso_entries[m]
    BY <2>2, <2>4, WiringAssumption
  <2> QED BY <2>3, <2>4, <2>5
<1> QED BY <1>1, <1>2

(* The entries of the MADT. *)
LEMMA ChipEntries ==
  /\ Chips = 1 .. Len(ioapic_entries) /\ Len(ioapic_entries) \in Nat
  /\ \A c \in Chips : ioapic_entries[c].GSI_base \in Nat
<1> DEFINE R == [IOAPIC_Address : Nat, GSI_base : Nat]
<1>1. ioapic_entries \in Seq(R)
  BY TypesAssumption
<1>2. /\ Chips = 1 .. Len(ioapic_entries) /\ Len(ioapic_entries) \in Nat
      /\ \A c \in Chips : ioapic_entries[c] \in R
  <2> HIDE DEF R
  <2> QED BY <1>1 DEF Chips
<1> QED BY <1>2

(* The pin Get_pin computes is in eight bits. *)
LEMMA PinFits ==
  ASSUME NEW c \in Chips, NEW irq \in Irqs
  PROVE  /\ Line[irq] \in Nat /\ ioapic_entries[c].GSI_base \in Nat
         /\ Get_pin(c, irq) = (Line[irq] - ioapic_entries[c].GSI_base) % 256
         /\ Get_pin(c, irq) \in 0 .. (Byte - 1)
<1>1. Line[irq] \in Nat /\ ioapic_entries[c].GSI_base \in Nat
  BY TypesAssumption, ChipEntries
<1>2. Get_pin(c, irq) = (Line[irq] - ioapic_entries[c].GSI_base) % 256
  BY GsiIsLine DEF Get_pin, Byte
<1> QED BY <1>1, <1>2 DEF Byte

(* The 8-bit arithmetic of the two register indices, for a difference d of *)
(* interrupt numbers and the entry at pin q.                               *)
LEMMA EightBits ==
  ASSUME NEW d \in Int, NEW q \in Nat, 16 + q * 2 + 1 < 256
  PROVE  /\ ((16 + (d % 256) * 2) % 256 = 16 + 2 * q) <=> ((d - q) % 128 = 0)
         /\ ((16 + (d % 256) * 2 + 1) % 256 = 16 + 2 * q + 1) <=> ((d - q) % 128 = 0)
         /\ (16 + (d % 256) * 2) % 256 # 16 + 2 * q + 1
         /\ (16 + (d % 256) * 2 + 1) % 256 # 16 + 2 * q
OBVIOUS

(* The two writes of a load go to the two registers of the entry it hits. *)
LEMMA Registers ==
  ASSUME NEW c \in Chips, NEW irq \in Irqs, NEW q \in Pins
  PROVE  /\ (OffsetLower(Get_pin(c, irq)) = Reg(q)) <=> (q \in Hit(c, irq))
         /\ (OffsetUpper(Get_pin(c, irq)) = Reg(q) + 1) <=> (q \in Hit(c, irq))
         /\ OffsetLower(Get_pin(c, irq)) # Reg(q) + 1
         /\ OffsetUpper(Get_pin(c, irq)) # Reg(q)
<1> DEFINE d == Line[irq] - ioapic_entries[c].GSI_base
<1>1. d \in Int /\ Get_pin(c, irq) = d % 256
  BY PinFits
<1>2. q \in Nat /\ 16 + q * 2 + 1 < 256
  BY TypesAssumption DEF Byte
<1>3. (q \in Hit(c, irq)) <=> ((d - q) % 128 = 0)
  BY DEF Hit
<1> HIDE DEF d
<1> QED BY <1>1, <1>2, <1>3, EightBits DEF OffsetLower, OffsetUpper, Reg, Byte

(* Of the entries of its own IOAPIC a load hits the one its interrupt is   *)
(* wired to and no other.                                                  *)
LEMMA HitOwn ==
  ASSUME NEW c \in Chips, NEW irq \in Irqs, Owns(c, irq)
  PROVE  /\ Hit(c, irq) = {Line[irq] - ioapic_entries[c].GSI_base}
         /\ \A q \in Pins : (q \in Hit(c, irq)) <=> (Line[irq] = q + ioapic_entries[c].GSI_base)
<1> DEFINE d == Line[irq] - ioapic_entries[c].GSI_base
<1>1. Line[irq] \in Nat /\ ioapic_entries[c].GSI_base \in Nat
  BY PinFits
<1>2. \A q \in Pins : q \in Nat /\ q < 120
  BY TypesAssumption DEF Byte
<1>3. d \in Pins
  BY DEF Owns
<1>4. ASSUME NEW q \in Pins PROVE ((d - q) % 128 = 0) <=> (q = d)
  <2>1. d \in Nat /\ d < 120 /\ q \in Nat /\ q < 120
    BY <1>2, <1>3
  <2> HIDE DEF d
  <2> QED BY <2>1
<1>5. Hit(c, irq) = {d}
  BY <1>3, <1>4 DEF Hit
<1>6. \A q \in Pins : (q = d) <=> (Line[irq] = q + ioapic_entries[c].GSI_base)
  BY <1>1, <1>2
<1> QED BY <1>5, <1>6

(* A multiple leaves nothing. *)
LEMMA MultipleMod ==
  ASSUME NEW a \in Nat, NEW b \in Nat \ {0}
  PROVE  (a * b) % b = 0
<1> DEFINE q == (a * b) \div b
           r == (a * b) % b
           k == a - q
<1>1. a * b \in Nat
  OBVIOUS
<1>2. q \in Int /\ r \in Nat /\ r < b /\ a * b = b * q + r
  BY <1>1
<1>3. k \in Int /\ b * k = r
  <2> HIDE DEF q, r
  <2> QED BY <1>2
<1>4. ASSUME NEW j \in Nat PROVE b * j \in Nat
  OBVIOUS
<1>5. CASE k >= 1
  <2>1. k - 1 \in Nat /\ b * (k - 1) \in Nat
    BY <1>3, <1>4, <1>5
  <2>2. b * k = b * (k - 1) + b
    BY <1>3
  <2> QED BY <1>2, <1>3, <2>1, <2>2
<1>6. CASE k <= -1
  <2>1. -1 - k \in Nat /\ b * (-1 - k) \in Nat
    BY <1>3, <1>4, <1>6
  <2>2. b * k = 0 - b - b * (-1 - k)
    BY <1>3
  <2> QED BY <1>2, <1>3, <2>1, <2>2
<1>7. CASE k = 0
  BY <1>3, <1>7
<1> QED BY <1>3, <1>5, <1>6, <1>7

(* Get_APICID is 0 whatever the identifier is: it is cut off (ioapic.c). *)
LEMMA ApicIdIsZero == lapic_id \in ApicIds => Get_APICID = 0
<1> SUFFICES ASSUME lapic_id \in ApicIds PROVE Get_APICID = 0
  OBVIOUS
<1>1. lapic_id \in Nat /\ Byte \in Nat \ {0}
  BY TypesAssumption DEF Byte
<1>2. lapic_id * Byte * Byte \in Nat /\ Byte * Byte * Byte \in Nat \ {0}
  BY <1>1
<1>3. (lapic_id * Byte * Byte * Byte) % Byte = 0
  BY <1>1, <1>2, MultipleMod
<1>4. 0 \div (Byte * Byte * Byte) = 0
  BY <1>2
<1> QED BY <1>3, <1>4 DEF Get_APICID

------------------------------------------------------------------------------
(* The steps.                                                              *)

LEMMA InitIndInv == Init => IndInv
<1> SUFFICES ASSUME Init PROVE IndInv
  OBVIOUS
<1> USE DEF Init
<1>1. NoEntry \in Entry
  BY DEF NoEntry, Masked, Entry
<1>2. Types
  <2>1. virt_Address \in Seq(Ram \cup {INVALID}) /\ Len(virt_Address) = 0
    OBVIOUS
  <2>2. ioapic_count \in 0 .. Len(ioapic_entries) /\ Len(virt_Address) <= ioapic_count
    BY <2>1, ChipEntries
  <2>3. hhdm \in [Ram -> Ram \cup { Frame(c) : c \in Chips }]
    OBVIOUS
  <2>4. loaded \in [Irqs -> Entry] /\ redir \in Entry
    BY <1>1
  <2>5. /\ low \in [Chips -> [Pins -> [vector : Vectors \cup {0}, mask : {0, 1}]]]
        /\ high \in [Chips -> [Pins -> Dests \cup {0}]]
    BY DEF Masked
  <2>6. pin \in 0 .. (Byte - 1)
    BY DEF Byte
  <2> QED BY <2>1, <2>2, <2>3, <2>4, <2>5, <2>6 DEF Types
<1>3. Mapped /\ Intact /\ Loading
  BY DEF Mapped, Intact, Loading
<1>4. Entries
  BY DEF Entries, EntryDue, Due, NoEntry
<1> QED BY <1>2, <1>3, <1>4 DEF IndInv

(* While the entries and the load stay as they are, so does what is due.   *)
LEMMA EntriesUnchanged ==
  ASSUME Entries, UNCHANGED <<hhdm_pages, table, load, history>>,
         pc # "high", pc' # "high"
  PROVE  Entries'
<1>1. UNCHANGED <<hhdm_pages, low, high, loaded, foreign>>
  BY DEF table, history
<1>2. ASSUME NEW irq \in Irqs PROVE Due(irq)' = Due(irq)
  BY <1>1 DEF Due
<1>3. ASSUME NEW c \in Chips, NEW p \in Pins PROVE EntryDue(c, p) => EntryDue(c, p)'
  BY <1>1, <1>2 DEF EntryDue, NoEntry, Masked
<1> QED BY <1>1, <1>3 DEF Entries

(* What a call of vmm_map may do to the direct map and the pool. *)
LEMMA VmmMapStep ==
  ASSUME NEW v, NEW f, NEW pool, vmm_map(v, f, pool), Types, pool \subseteq Ram, pc = "init_IOAPIC"
  PROVE  /\ free' \subseteq pool /\ as_table' \subseteq Ram
         /\ hhdm_pages = "4K" =>
              hhdm' = [hhdm EXCEPT ![v] = f] /\ as_table' = as_table /\ pc' = "init_IOAPIC"
         /\ hhdm_pages # "4K" => hhdm' = hhdm /\ pc' \in {"init_IOAPIC", "fault"}
<1> USE TypesAssumption DEF Types
<1>1. CASE hhdm_pages = "4K"
  BY <1>1 DEF vmm_map
<1>2. CASE hhdm_pages = "2M"
  BY <1>2 DEF vmm_map
<1>3. CASE hhdm_pages = "1G"
  <2>1. vmm_get_next_level(pool) /\ hhdm' = hhdm
    BY <1>3 DEF vmm_map
  <2> QED BY <1>3, <2>1 DEF vmm_get_next_level, buddy_alloc_page
<1> QED BY <1>1, <1>2, <1>3

(* An address is made for the next IOAPIC. *)
LEMMA MapIoapicIndInv == IndInv /\ MapIoapic => IndInv'
<1> SUFFICES ASSUME IndInv, MapIoapic PROVE IndInv'
  OBVIOUS
<1> DEFINE n == Len(virt_Address) + 1
<1>1. PICK p \in free :
        /\ virt_Address' = Append(virt_Address, p)
        /\ vmm_map(p, phys_address(n), free \ {p})
  BY DEF MapIoapic, buddy_alloc_page
<1>2. /\ pc = "init_IOAPIC" /\ Len(virt_Address) < ioapic_count
      /\ UNCHANGED <<hhdm_pages, ioapic_count, lapic_id, load, table, history>>
  BY DEF MapIoapic
<1>3. Types
  BY DEF IndInv
<1>4. p \in Ram /\ p # INVALID /\ n \in Chips /\ phys_address(n) \in { Frame(c) : c \in Chips }
  <2>1. p \in Ram /\ p # INVALID
    BY <1>1, <1>3, TypesAssumption DEF Types
  <2>2. n \in Chips
    BY <1>2, <1>3, ChipEntries DEF Types
  <2>3. phys_address(n) = Frame(n)
    BY DEF phys_address, Frame
  <2> QED BY <2>1, <2>2, <2>3
<1>5. /\ virt_Address' \in Seq(Ram \cup {INVALID}) /\ Len(virt_Address') = n
      /\ virt_Address'[n] = p
      /\ \A i \in 1 .. Len(virt_Address) : virt_Address'[i] = virt_Address[i]
  BY <1>1, <1>3, <1>4 DEF Types
<1>6. /\ free' \subseteq free \ {p} /\ as_table' \subseteq Ram
      /\ hhdm_pages = "4K" =>
           hhdm' = [hhdm EXCEPT ![p] = phys_address(n)] /\ as_table' = as_table /\ pc' = "init_IOAPIC"
      /\ hhdm_pages # "4K" => hhdm' = hhdm /\ pc' \in {"init_IOAPIC", "fault"}
  <2>1. free \ {p} \subseteq Ram
    BY <1>3 DEF Types
  <2> QED BY <1>1, <1>2, <1>3, <2>1, VmmMapStep
<1>7. \A f \in Ram : f # p => hhdm'[f] = hhdm[f]
  BY <1>3, <1>6 DEF Types
<1>8. Types'
  <2>1. hhdm' \in [Ram -> Ram \cup { Frame(c) : c \in Chips }]
    BY <1>3, <1>4, <1>6 DEF Types
  <2>2. free' \subseteq Ram /\ pc' \in {"init_IOAPIC", "fault"}
    BY <1>3, <1>6 DEF Types
  <2>3. Len(virt_Address') <= ioapic_count'
    BY <1>2, <1>3, <1>5 DEF Types
  <2> QED BY <1>2, <1>3, <1>5, <1>6, <2>1, <2>2, <2>3 DEF Types, table, load, history
<1>9. Mapped'
  <2> SUFFICES ASSUME NEW i \in 1 .. n, virt_Address'[i] # INVALID
               PROVE  /\ virt_Address'[i] \notin free'
                      /\ hhdm_pages = "4K" => hhdm'[virt_Address'[i]] = phys_address(i)
    BY <1>2, <1>5 DEF Mapped, phys_address
  <2>1. CASE i = n
    <3>1. virt_Address'[i] = p
      BY <1>5, <2>1
    <3>2. hhdm_pages = "4K" => hhdm'[p] = phys_address(n)
      BY <1>3, <1>4, <1>6 DEF Types
    <3> QED BY <1>6, <2>1, <3>1, <3>2
  <2>2. CASE i # n
    <3>1. i \in 1 .. Len(virt_Address) /\ virt_Address'[i] = virt_Address[i]
      BY <1>3, <1>5, <2>2 DEF Types
    <3>2. virt_Address[i] \notin free /\ virt_Address[i] \in Ram
      BY <1>3, <1>5, <3>1 DEF IndInv, Mapped, Types
    <3>3. hhdm'[virt_Address[i]] = hhdm[virt_Address[i]]
      BY <1>1, <1>7, <3>2
    <3> QED BY <1>6, <3>1, <3>2, <3>3 DEF IndInv, Mapped
  <2> QED BY <2>1, <2>2
<1>10. Intact'
  <2>1. ASSUME NEW f \in Ram
        PROVE  hhdm'[f] = f \/ \E i \in 1 .. n : virt_Address'[i] = f
    <3>1. CASE f = p
      BY <1>3, <1>5, <3>1 DEF Types
    <3>2. CASE f # p
      <4>1. hhdm'[f] = hhdm[f]
        BY <1>7, <3>2
      <4> QED BY <1>3, <1>5, <4>1 DEF IndInv, Intact, Types
    <3> QED BY <3>1, <3>2
  <2>2. hhdm_pages' # "4K" => hhdm' = [f \in Ram |-> f]
    BY <1>2, <1>6 DEF IndInv, Intact
  <2>3. hhdm_pages' = "4K" => as_table' = {}
    BY <1>2, <1>6 DEF IndInv, Intact
  <2> QED BY <1>5, <2>1, <2>2, <2>3 DEF Intact
<1>11. Loading'
  <2>1. pc' \in {"init_IOAPIC", "fault"} /\ (hhdm_pages' = "4K" => pc' = "init_IOAPIC")
    BY <1>2, <1>6
  <2> QED BY <2>1 DEF Loading
<1>12. Entries'
  <2>1. pc' \in {"init_IOAPIC", "fault"}
    BY <1>6
  <2> QED BY <1>2, <2>1, EntriesUnchanged DEF IndInv
<1> QED BY <1>8, <1>9, <1>10, <1>11, <1>12 DEF IndInv

(* No page is left for the address. *)
LEMMA MapIoapicFailsIndInv == IndInv /\ MapIoapicFails => IndInv'
<1> SUFFICES ASSUME IndInv, MapIoapicFails PROVE IndInv'
  OBVIOUS
<1> DEFINE n == Len(virt_Address) + 1
<1>1. /\ pc = "init_IOAPIC" /\ Len(virt_Address) < ioapic_count
      /\ virt_Address' = Append(virt_Address, INVALID)
      /\ UNCHANGED <<free, hhdm, hhdm_pages, as_table, ioapic_count, lapic_id, pc, load, table, history>>
  BY DEF MapIoapicFails
<1>2. Types
  BY DEF IndInv
<1>3. /\ virt_Address' \in Seq(Ram \cup {INVALID}) /\ Len(virt_Address') = n
      /\ virt_Address'[n] = INVALID
      /\ \A i \in 1 .. Len(virt_Address) : virt_Address'[i] = virt_Address[i]
  BY <1>1, <1>2 DEF Types
<1>4. Types'
  <2>1. Len(virt_Address') <= ioapic_count'
    BY <1>1, <1>2, <1>3 DEF Types
  <2> QED BY <1>1, <1>2, <1>3, <2>1 DEF Types, table, load, history
<1>5. Mapped'
  <2> SUFFICES ASSUME NEW i \in 1 .. n, virt_Address'[i] # INVALID
               PROVE  /\ virt_Address'[i] \notin free
                      /\ hhdm_pages = "4K" => hhdm[virt_Address'[i]] = phys_address(i)
    BY <1>1, <1>3 DEF Mapped, phys_address
  <2>1. i \in 1 .. Len(virt_Address)
    BY <1>2, <1>3 DEF Types
  <2> QED BY <1>3, <2>1 DEF IndInv, Mapped
<1>6. Intact'
  <2>1. 1 .. Len(virt_Address) \subseteq 1 .. n
    BY <1>2 DEF Types
  <2> QED BY <1>1, <1>3, <2>1 DEF IndInv, Intact
<1>7. Loading'
  <2>1. pc' = "init_IOAPIC"
    BY <1>1
  <2> QED BY <2>1 DEF Loading
<1>8. Entries'
  BY <1>1, EntriesUnchanged DEF IndInv
<1> QED BY <1>4, <1>5, <1>6, <1>7, <1>8 DEF IndInv

(* A step that does not change memory. *)
LEMMA MemoryUnchanged ==
  ASSUME Mapped, Intact, UNCHANGED memory
  PROVE  Mapped' /\ Intact'
BY DEF Mapped, Intact, memory, phys_address

(* The version is read, or cannot be. *)
LEMMA ReadVersionIndInv == IndInv /\ (ReadVersion \/ ReadVersionFaults) => IndInv'
<1> SUFFICES ASSUME IndInv, ReadVersion \/ ReadVersionFaults PROVE IndInv'
  OBVIOUS
<1>1. /\ pc = "init_IOAPIC" /\ Len(virt_Address) = ioapic_count
      /\ pc' \in {"idle", "fault"}
      /\ pc' = "idle" <=> Accessible(0)
      /\ UNCHANGED <<memory, load, table, history>>
  BY DEF ReadVersion, ReadVersionFaults
<1>2. Types
  BY DEF IndInv
<1>3. Accessible(0) <=> Len(virt_Address) >= 1 /\ virt_Address[1] # INVALID
  BY <1>2 DEF Accessible, Types
<1>4. Types'
  BY <1>1, <1>2 DEF Types, memory, load, table, history
<1>5. Loading'
  <2>1. Len(virt_Address) >= 1 \/ ioapic_count = 0
    BY <1>1, <1>2 DEF Types
  <2> QED BY <1>1, <1>3, <2>1 DEF Loading, memory
<1>6. Entries'
  BY <1>1, EntriesUnchanged DEF IndInv, memory
<1> QED BY <1>1, <1>4, <1>5, <1>6, MemoryUnchanged DEF IndInv

(* A driver begins a load, for any interrupt and any IOAPIC. *)
LEMMA LoadRedirIndInv ==
  ASSUME NEW c \in 1 .. ioapic_count, NEW irq \in Irqs,
         NEW v \in Vectors, NEW m \in {0, 1}, NEW d \in Dests \cup {Get_APICID},
         IndInv, loadRedir(c, irq, writeRedir(v, m, d))
  PROVE  IndInv'
<1>1. Types /\ Loading /\ Entries
  BY DEF IndInv
<1>2. /\ pc = "idle" /\ chip' = c /\ line' = irq /\ pin' = Get_pin(c, irq)
      /\ redir' = writeRedir(v, m, d) /\ pc' = "low"
      /\ foreign' = IF Meant(c, irq) THEN foreign ELSE foreign \cup Hit(c, irq)
      /\ UNCHANGED <<memory, table, loaded>>
  BY DEF loadRedir
<1>3. c \in Chips
  BY <1>1, ChipEntries DEF Types
<1>4. pin' \in 0 .. (Byte - 1)
  BY <1>2, <1>3, PinFits
<1>5. redir' \in Entry
  <2>1. d \in Dests \cup {0}
    BY <1>1, ApicIdIsZero DEF Types
  <2> QED BY <1>2, <2>1 DEF writeRedir, Entry
<1>6. foreign \subseteq foreign' /\ foreign' \subseteq Pins /\ (~Meant(c, irq) => Hit(c, irq) \subseteq foreign')
  BY <1>1, <1>2 DEF Types, Hit
<1>7. Types'
  BY <1>1, <1>2, <1>3, <1>4, <1>5, <1>6 DEF Types, memory, table
<1>8. Loading'
  <2>1. pin' = Get_pin(chip', line') /\ (~Meant(chip', line') => Hit(chip', line') \subseteq foreign')
    BY <1>2, <1>6
  <2>2. Len(virt_Address') >= 1 /\ virt_Address'[1] # INVALID
    BY <1>1, <1>2 DEF Loading, memory
  <2> QED BY <1>2, <1>3, <2>1, <2>2 DEF Loading, Get_pin, Get_iso_gsi, Meant, Owns, Hit
<1>9. Entries'
  <2>1. UNCHANGED <<hhdm_pages, low, high, loaded>>
    BY <1>2 DEF memory, table
  <2>2. ASSUME NEW q \in Irqs PROVE Due(q)' = Due(q)
    BY <1>2, <2>1 DEF Due
  <2>3. ASSUME NEW b \in Chips, NEW p \in Pins PROVE EntryDue(b, p) => EntryDue(b, p)'
    BY <2>1, <2>2 DEF EntryDue, NoEntry, Masked
  <2> QED BY <1>1, <1>6, <2>1, <2>3 DEF Entries
<1> QED BY <1>2, <1>7, <1>8, <1>9, MemoryUnchanged DEF IndInv

(* The registers a load reaches are those of the first IOAPIC, and on a    *)
(* direct map of large pages nobody's.                                     *)
LEMMA WhereWritesLead ==
  ASSUME IndInv, pc \in {"low", "high"}, NEW c \in Chips
  PROVE  hhdm[virt_Address[0 + 1]] = Frame(c) <=> hhdm_pages = "4K" /\ c = 1
<1>1. Types /\ Loading
  BY DEF IndInv
<1>2. virt_Address[1] # INVALID /\ virt_Address[1] \in Ram /\ 1 \in 1 .. Len(virt_Address) /\ 1 \in Chips
  BY <1>1, ChipEntries DEF Types, Loading
<1>3. hhdm_pages = "4K" => hhdm[virt_Address[1]] = Frame(1)
  BY <1>2 DEF IndInv, Mapped, phys_address, Frame
<1>4. hhdm_pages # "4K" => hhdm[virt_Address[1]] = virt_Address[1]
  BY <1>2 DEF IndInv, Intact
<1>5. Frame(c) \notin Ram /\ (Frame(c) = Frame(1) => c = 1)
  BY <1>2, WiringAssumption
<1> QED BY <1>2, <1>3, <1>4, <1>5

(* The write of the low half changes one low half, ... *)
LEMMA LowWritten ==
  ASSUME IndInv, LoadLow
  PROVE  /\ low' = [ c \in Chips |-> [ p \in Pins |->
                      IF hhdm_pages = "4K" /\ c = 1 /\ p \in Hit(chip, line)
                      THEN redir.low ELSE low[c][p] ] ]
         /\ high' = high
<1>1. /\ pc = "low" /\ line \in Irqs /\ chip \in Chips /\ pin = Get_pin(chip, line)
      /\ high \in [Chips -> [Pins -> Dests \cup {0}]]
  BY DEF IndInv, Types, Loading, LoadLow
<1> DEFINE f == hhdm[virt_Address[0 + 1]]
           o == OffsetLower(pin)
<1>2. /\ low'  = [ c \in Chips |-> [ p \in Pins |->
                     IF f = Frame(c) /\ o = Reg(p) THEN redir.low ELSE low[c][p] ] ]
      /\ high' = [ c \in Chips |-> [ p \in Pins |->
                     IF f = Frame(c) /\ o = Reg(p) + 1 THEN redir.low ELSE high[c][p] ] ]
  BY DEF LoadLow, ioapic_write
<1>3. \A c \in Chips : f = Frame(c) <=> hhdm_pages = "4K" /\ c = 1
  BY <1>1, WhereWritesLead
<1>4. \A p \in Pins : o # Reg(p) + 1 /\ ((o = Reg(p)) <=> (p \in Hit(chip, line)))
  BY <1>1, Registers
<1> HIDE DEF f, o
<1>5. high' = high
  BY <1>1, <1>2, <1>4
<1> QED BY <1>2, <1>3, <1>4, <1>5

(* ... and the write of the high half one high half. *)
LEMMA HighWritten ==
  ASSUME IndInv, LoadHigh
  PROVE  /\ high' = [ c \in Chips |-> [ p \in Pins |->
                       IF hhdm_pages = "4K" /\ c = 1 /\ p \in Hit(chip, line)
                       THEN redir.high ELSE high[c][p] ] ]
         /\ low' = low
<1>1. /\ pc = "high" /\ line \in Irqs /\ chip \in Chips /\ pin = Get_pin(chip, line)
      /\ low \in [Chips -> [Pins -> [vector : Vectors \cup {0}, mask : {0, 1}]]]
  BY DEF IndInv, Types, Loading, LoadHigh
<1> DEFINE f == hhdm[virt_Address[0 + 1]]
           o == OffsetUpper(pin)
<1>2. /\ low'  = [ c \in Chips |-> [ p \in Pins |->
                     IF f = Frame(c) /\ o = Reg(p) THEN redir.high ELSE low[c][p] ] ]
      /\ high' = [ c \in Chips |-> [ p \in Pins |->
                     IF f = Frame(c) /\ o = Reg(p) + 1 THEN redir.high ELSE high[c][p] ] ]
  BY DEF LoadHigh, ioapic_write
<1>3. \A c \in Chips : f = Frame(c) <=> hhdm_pages = "4K" /\ c = 1
  BY <1>1, WhereWritesLead
<1>4. \A p \in Pins : o # Reg(p) /\ ((o = Reg(p) + 1) <=> (p \in Hit(chip, line)))
  BY <1>1, Registers
<1> HIDE DEF f, o
<1>5. low' = low
  BY <1>1, <1>2, <1>4
<1> QED BY <1>2, <1>3, <1>4, <1>5

(* A line has an entry at one IOAPIC only. *)
LEMMA OneEntryPerLine ==
  ASSUME NEW c \in Chips, NEW p \in Pins, 1 \in Chips, NEW irq \in Irqs,
         Owns(1, irq), Line[irq] = p + ioapic_entries[c].GSI_base
  PROVE  c = 1 /\ p \in Hit(1, irq)
<1> DEFINE q == Line[irq] - ioapic_entries[1].GSI_base
<1>1. q \in Pins /\ Line[irq] \in Nat /\ ioapic_entries[1].GSI_base \in Nat
  BY PinFits DEF Owns
<1>2. q + ioapic_entries[1].GSI_base = p + ioapic_entries[c].GSI_base
  BY <1>1
<1>3. c = 1
  <2> HIDE DEF q
  <2> QED BY <1>1, <1>2, WiringAssumption
<1> QED BY <1>3, HitOwn

(* The low half is written: vector and mask are new, the destination old. *)
LEMMA LoadLowIndInv == IndInv /\ LoadLow => IndInv'
<1> SUFFICES ASSUME IndInv, LoadLow PROVE IndInv'
  OBVIOUS
<1>1. Types /\ Loading /\ Entries
  BY DEF IndInv
<1>2. pc = "low" /\ pc' = "high" /\ UNCHANGED <<memory, load, history>>
  BY DEF LoadLow
<1>3. /\ low' = [ c \in Chips |-> [ p \in Pins |->
                   IF hhdm_pages = "4K" /\ c = 1 /\ p \in Hit(chip, line)
                   THEN redir.low ELSE low[c][p] ] ]
      /\ high' = high
  BY LowWritten
<1>4. line \in Irqs /\ chip \in Chips /\ 1 \in Chips /\ (~Meant(chip, line) => Hit(chip, line) \subseteq foreign)
  BY <1>1, <1>2, ChipEntries DEF Types, Loading
<1>5. Types'
  <2>1. low' \in [Chips -> [Pins -> [vector : Vectors \cup {0}, mask : {0, 1}]]]
    BY <1>1, <1>3 DEF Types, Entry
  <2> QED BY <1>1, <1>2, <1>3, <2>1 DEF Types, memory, load, history
<1>6. Loading'
  <2>1. hhdm_pages = "4K" => \A p \in Hit(chip, line) : low'[1][p] = redir.low
    BY <1>3, <1>4 DEF Hit
  <2>2. /\ Hit(chip, line)' = Hit(chip, line) /\ Meant(chip, line)' = Meant(chip, line)
        /\ Get_pin(chip, line)' = Get_pin(chip, line)
    BY <1>2 DEF load, Hit, Meant, Owns, Get_pin, Get_iso_gsi
  <2> QED BY <1>1, <1>2, <2>1, <2>2 DEF Loading, memory, load, history
<1>7. Entries'
  <2> SUFFICES ASSUME hhdm_pages = "4K", NEW c \in Chips, NEW p \in Pins, c = 1 => p \notin foreign
               PROVE  EntryDue(c, p)'
    BY <1>2 DEF Entries, memory, history
  <2> DEFINE gsi   == p + ioapic_entries[c].GSI_base
             old   == [low |-> low[c][p], high |-> high[c][p]]
             entry == [low |-> low'[c][p], high |-> high'[c][p]]
  <2>1. /\ \A irq \in Irqs : Line[irq] = gsi => old = loaded[irq]
        /\ (\A irq \in Irqs : Line[irq] # gsi) => old = NoEntry
    BY <1>1, <1>2 DEF Entries, EntryDue, Due
  <2>2. \A irq \in Irqs :
          Due(irq)' = IF Meant(chip, line) /\ irq = line
                      THEN [low |-> redir.low, high |-> loaded[irq].high] ELSE loaded[irq]
    BY <1>2 DEF Due, load, history, Meant, Owns
  <2> SUFFICES /\ \A irq \in Irqs : Line[irq] = gsi => entry = Due(irq)'
               /\ (\A irq \in Irqs : Line[irq] # gsi) => entry = NoEntry
    BY DEF EntryDue, NoEntry, Masked
  <2>3. CASE c = 1 /\ p \in Hit(chip, line)
    <3>1. Meant(chip, line)
      BY <1>4, <2>3
    <3>2. Line[line] = gsi
      BY <1>4, <2>3, <3>1, HitOwn DEF Meant
    <3>3. entry = [low |-> redir.low, high |-> high[c][p]]
      BY <1>3, <2>3
    <3>4. high[c][p] = loaded[line].high
      BY <1>4, <2>1, <3>2
    <3>5. \A irq \in Irqs : Line[irq] = gsi => irq = line
      BY <1>4, <3>2, WiringAssumption
    <3> HIDE DEF gsi, entry
    <3> QED BY <1>4, <2>2, <3>1, <3>2, <3>3, <3>4, <3>5
  <2>4. CASE ~(c = 1 /\ p \in Hit(chip, line))
    <3>1. entry = old
      BY <1>3, <2>4
    <3>2. Meant(chip, line) => Line[line] # gsi
      BY <1>4, <2>4, OneEntryPerLine DEF Meant
    <3> HIDE DEF gsi, entry, old
    <3> QED BY <2>1, <2>2, <3>1, <3>2
  <2> QED BY <2>3, <2>4
<1> QED BY <1>1, <1>2, <1>5, <1>6, <1>7, MemoryUnchanged DEF IndInv

(* The high half is written, and the entry is the one that was asked for. *)
LEMMA LoadHighIndInv == IndInv /\ LoadHigh => IndInv'
<1> SUFFICES ASSUME IndInv, LoadHigh PROVE IndInv'
  OBVIOUS
<1>1. Types /\ Loading /\ Entries
  BY DEF IndInv
<1>2. /\ pc = "high" /\ pc' = "idle" /\ chip' = 0 /\ line' = 0 /\ pin' = 0 /\ redir' = NoEntry
      /\ UNCHANGED memory
  BY DEF LoadHigh
<1>3. /\ high' = [ c \in Chips |-> [ p \in Pins |->
                    IF hhdm_pages = "4K" /\ c = 1 /\ p \in Hit(chip, line)
                    THEN redir.high ELSE high[c][p] ] ]
      /\ low' = low
  BY HighWritten
<1>4. line \in Irqs /\ chip \in Chips /\ 1 \in Chips /\ (~Meant(chip, line) => Hit(chip, line) \subseteq foreign)
  BY <1>1, <1>2, ChipEntries DEF Types, Loading
<1>5. ASSUME Meant(chip, line)
      PROVE  loaded' \in [Irqs -> Entry] /\ foreign' \subseteq Pins /\ Entries'
  <2>1. loaded' = [loaded EXCEPT ![line] = redir] /\ foreign' = foreign \ Hit(chip, line)
    BY <1>4, <1>5, HitOwn DEF LoadHigh, Meant
  <2>2. loaded' \in [Irqs -> Entry] /\ foreign' \subseteq Pins
    BY <1>1, <2>1 DEF Types
  <2>3. ASSUME hhdm_pages = "4K", NEW c \in Chips, NEW p \in Pins, c = 1 => p \notin foreign'
        PROVE  EntryDue(c, p)'
    <3> DEFINE gsi   == p + ioapic_entries[c].GSI_base
               old   == [low |-> low[c][p], high |-> high[c][p]]
               entry == [low |-> low'[c][p], high |-> high'[c][p]]
    <3>1. \A irq \in Irqs : Due(irq)' = IF irq = line THEN redir ELSE loaded[irq]
      BY <1>1, <1>2, <1>4, <2>1 DEF Due, Types
    <3> SUFFICES /\ \A irq \in Irqs : Line[irq] = gsi => entry = Due(irq)'
                 /\ (\A irq \in Irqs : Line[irq] # gsi) => entry = NoEntry
      BY DEF EntryDue, NoEntry, Masked
    <3>2. CASE c = 1 /\ p \in Hit(chip, line)
      <4>1. Line[line] = gsi
        BY <1>4, <1>5, <3>2, HitOwn DEF Meant
      <4>2. entry = [low |-> low[c][p], high |-> redir.high]
        BY <1>3, <2>3, <3>2
      <4>3. low[c][p] = redir.low
        BY <1>1, <1>2, <2>3, <3>2 DEF Loading
      <4>4. redir = [low |-> redir.low, high |-> redir.high]
        BY <1>1 DEF Types, Entry
      <4>5. \A irq \in Irqs : Line[irq] = gsi => irq = line
        BY <1>4, <4>1, WiringAssumption
      <4> HIDE DEF gsi, entry
      <4> QED BY <1>4, <3>1, <4>1, <4>2, <4>3, <4>4, <4>5
    <3>3. CASE ~(c = 1 /\ p \in Hit(chip, line))
      <4>1. entry = old
        BY <1>3, <3>3
      <4>2. Line[line] # gsi
        BY <1>4, <1>5, <3>3, OneEntryPerLine DEF Meant
      <4>3. c = 1 => p \notin foreign
        BY <2>1, <2>3, <3>3
      <4>4. /\ \A irq \in Irqs : Line[irq] = gsi => old = Due(irq)
            /\ (\A irq \in Irqs : Line[irq] # gsi) => old = NoEntry
        BY <1>1, <2>3, <4>3 DEF Entries, EntryDue
      <4>5. \A irq \in Irqs : irq # line => Due(irq) = loaded[irq]
        BY DEF Due
      <4> HIDE DEF gsi, entry, old
      <4> QED BY <3>1, <4>1, <4>2, <4>4, <4>5
    <3> QED BY <3>2, <3>3
  <2> QED BY <1>2, <2>2, <2>3 DEF Entries, memory
<1>6. ASSUME ~Meant(chip, line)
      PROVE  loaded' \in [Irqs -> Entry] /\ foreign' \subseteq Pins /\ Entries'
  <2>1. loaded' = loaded /\ foreign' = foreign
    BY <1>6 DEF LoadHigh, history
  <2>2. loaded' \in [Irqs -> Entry] /\ foreign' \subseteq Pins
    BY <1>1, <2>1 DEF Types
  <2>3. ASSUME hhdm_pages = "4K", NEW c \in Chips, NEW p \in Pins, c = 1 => p \notin foreign
        PROVE  EntryDue(c, p)'
    <3>1. low'[c][p] = low[c][p] /\ high'[c][p] = high[c][p]
      BY <1>3, <1>4, <1>6, <2>3
    <3>2. \A irq \in Irqs : Due(irq) = loaded[irq] /\ Due(irq)' = loaded[irq]
      BY <1>2, <1>6, <2>1 DEF Due
    <3>3. EntryDue(c, p)
      BY <1>1, <2>3 DEF Entries
    <3> QED BY <3>1, <3>2, <3>3 DEF EntryDue, NoEntry, Masked
  <2> QED BY <1>2, <2>1, <2>2, <2>3 DEF Entries, memory
<1>7. loaded' \in [Irqs -> Entry] /\ foreign' \subseteq Pins /\ Entries'
  BY <1>5, <1>6
<1>8. Types'
  <2>1. high' \in [Chips -> [Pins -> Dests \cup {0}]]
    BY <1>1, <1>3 DEF Types, Entry
  <2>2. redir' \in Entry /\ pin' \in 0 .. (Byte - 1)
    BY <1>2 DEF Entry, NoEntry, Masked, Byte
  <2> QED BY <1>1, <1>2, <1>3, <1>7, <2>1, <2>2 DEF Types, memory
<1>9. Loading'
  BY <1>1, <1>2 DEF Loading, memory
<1> QED BY <1>1, <1>2, <1>7, <1>8, <1>9, MemoryUnchanged DEF IndInv

LEMMA SpecIndInv == Spec => []IndInv
<1>1. IndInv /\ [Next]_vars => IndInv'
  <2> SUFFICES ASSUME IndInv, [Next]_vars PROVE IndInv'
    OBVIOUS
  <2>1. CASE UNCHANGED vars
    <3>1. UNCHANGED <<memory, pc, load, table, history>>
      BY <2>1 DEF vars
    <3>2. Types'
      BY <3>1 DEF memory, load, table, history, IndInv, Types
    <3>3. /\ Hit(chip, line)' = Hit(chip, line) /\ Meant(chip, line)' = Meant(chip, line)
          /\ Get_pin(chip, line)' = Get_pin(chip, line)
      BY <3>1 DEF load, Hit, Meant, Owns, Get_pin, Get_iso_gsi
    <3>4. Loading'
      BY <3>1, <3>3 DEF memory, load, table, history, IndInv, Loading
    <3>5. \A irq \in Irqs : Due(irq)' = Due(irq)
      BY <3>1, <3>3 DEF load, history, Due
    <3>6. \A c \in Chips, p \in Pins : EntryDue(c, p) => EntryDue(c, p)'
      BY <3>1, <3>5 DEF table, EntryDue, NoEntry, Masked
    <3>7. Entries'
      BY <3>1, <3>6 DEF memory, history, IndInv, Entries
    <3> QED BY <3>1, <3>2, <3>4, <3>7, MemoryUnchanged DEF IndInv
  <2>2. CASE \E c \in 1 .. ioapic_count, irq \in Irqs,
                v \in Vectors, m \in {0, 1}, d \in Dests \cup {Get_APICID} :
               loadRedir(c, irq, writeRedir(v, m, d))
    BY <2>2, LoadRedirIndInv
  <2> QED BY <2>1, <2>2, MapIoapicIndInv, MapIoapicFailsIndInv, ReadVersionIndInv,
             LoadLowIndInv, LoadHighIndInv DEF Next
<1> QED BY <1>1, InitIndInv, PTL DEF Spec

------------------------------------------------------------------------------
(* The theorems.                                                           *)

(***************************************************************************)
(* Where the direct map has small pages, the address init_IOAPIC makes for *)
(* an IOAPIC (ioapic.c:62) leads to the registers of the IOAPIC with the   *)
(* same index, for any number of IOAPICs and any pool; and init_IOAPIC     *)
(* faults only without an IOAPIC or without a page.                        *)
(***************************************************************************)
THEOREM VirtIsIoapicHolds == Spec => []VirtIsIoapic
<1>1. IndInv => VirtIsIoapic
  <2> SUFFICES ASSUME IndInv PROVE VirtIsIoapic
    OBVIOUS
  <2>1. Types /\ Mapped /\ Loading
    BY DEF IndInv
  <2>2. virt_Address \in UNION { [1 .. n -> Ram \cup {INVALID}] : n \in 0 .. ioapic_count }
    <3>1. virt_Address \in [1 .. Len(virt_Address) -> Ram \cup {INVALID}]
      BY <2>1 DEF Types
    <3>2. Len(virt_Address) \in 0 .. ioapic_count
      BY <2>1, ChipEntries DEF Types
    <3> QED BY <3>1, <3>2
  <2>3. DOMAIN virt_Address = 1 .. Len(virt_Address)
    BY <2>1 DEF Types
  <2>4. TypeOK
    BY <2>1, <2>2 DEF Types, TypeOK
  <2>5. hhdm_pages = "4K" => VirtAddresses
    BY <2>1, <2>3 DEF VirtAddresses, Mapped
  <2>6. hhdm_pages = "4K" /\ pc = "fault" => ioapic_count = 0 \/ virt_Address[1] = INVALID
    BY <2>1 DEF Loading
  <2> QED BY <2>4, <2>5, <2>6 DEF VirtIsIoapic
<1> QED BY <1>1, SpecIndInv, PTL

(***************************************************************************)
(* Of every page that buddy.c can still give out, and of every page whose  *)
(* address init_IOAPIC did not take, the direct map is as the boot loader  *)
(* made it; and among small pages vmm_map has written into none of them.   *)
(***************************************************************************)
THEOREM DirectMapIntactHolds == Spec => []DirectMapIntact
<1>1. IndInv => DirectMapIntact
  <2> SUFFICES ASSUME IndInv PROVE DirectMapIntact
    OBVIOUS
  <2>1. Types /\ Mapped /\ Intact
    BY DEF IndInv
  <2>2. DOMAIN virt_Address = 1 .. Len(virt_Address)
    BY <2>1 DEF Types
  <2>3. ASSUME NEW f \in free PROVE hhdm[f] = f
    <3>1. f \in Ram /\ f # INVALID
      BY <2>1, TypesAssumption DEF Types
    <3> QED BY <2>1, <3>1 DEF Mapped, Intact
  <2> QED BY <2>1, <2>2, <2>3 DEF DirectMapIntact, Intact
<1> QED BY <1>1, SpecIndInv, PTL

(***************************************************************************)
(* What loadRedir has loaded into the first IOAPIC for its own interrupts  *)
(* is in the entries of the lines these are wired to, between the two      *)
(* writes too, for any overrides and any number of pins whose registers    *)
(* have 8-bit indices.  A load for another IOAPIC, or for an interrupt the *)
(* IOAPIC does not have, changes no entry but the one at its own pin,      *)
(* modulo 128, of the first IOAPIC.                                        *)
(***************************************************************************)
THEOREM EntriesAsLoadedHolds == Spec => []EntriesAsLoaded
<1>1. IndInv => EntriesAsLoaded
  <2> SUFFICES ASSUME IndInv, hhdm_pages = "4K", NEW c \in Chips, NEW p \in Pins,
                      c = 1 => p \notin foreign
               PROVE  LET gsi   == p + ioapic_entries[c].GSI_base
                          entry == [low |-> low[c][p], high |-> high[c][p]]
                      IN  \/ \E irq \in Irqs : Line[irq] = gsi /\ entry = loaded[irq]
                          \/ (\A irq \in Irqs : Line[irq] # gsi) /\ entry = NoEntry
                          \/ /\ pc = "high" /\ Meant(chip, line) /\ Line[line] = gsi
                             /\ entry = [redir EXCEPT !.high = loaded[line].high]
    BY DEF EntriesAsLoaded
  <2>1. redir \in Entry
    BY DEF IndInv, Types
  <2>2. \A h : [redir EXCEPT !.high = h] = [low |-> redir.low, high |-> h]
    BY <2>1 DEF Entry
  <2> DEFINE gsi   == p + ioapic_entries[c].GSI_base
             entry == [low |-> low[c][p], high |-> high[c][p]]
  <2>3. /\ \A irq \in Irqs : Line[irq] = gsi => entry = Due(irq)
        /\ (\A irq \in Irqs : Line[irq] # gsi) => entry = NoEntry
    BY DEF IndInv, Entries, EntryDue
  <2>4. CASE \E irq \in Irqs : Line[irq] = gsi
    <3>1. PICK irq \in Irqs : Line[irq] = gsi
      BY <2>4
    <3>2. entry = Due(irq)
      BY <2>3, <3>1
    <3>3. CASE pc = "high" /\ Meant(chip, line) /\ line = irq
      <4>1. entry = [redir EXCEPT !.high = loaded[line].high]
        BY <2>2, <3>2, <3>3 DEF Due
      <4> QED BY <3>1, <3>3, <4>1
    <3>4. CASE ~(pc = "high" /\ Meant(chip, line) /\ line = irq)
      BY <3>1, <3>2, <3>4 DEF Due
    <3> QED BY <3>3, <3>4
  <2> QED BY <2>3, <2>4
<1> QED BY <1>1, SpecIndInv, PTL
==============================================================================
