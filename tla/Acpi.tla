--------------------------------- MODULE Acpi ---------------------------------
(***************************************************************************)
(* From the RSDP to the IOAPICs: findTable (acpi.c), and the part of       *)
(* init_IOAPIC (ioapic.c) that walks the MADT it found, as kmain calls     *)
(* them one after the other (main.c:185-187).                              *)
(*                                                                         *)
(* Firmware tables are read byte by byte by code that trusts their length  *)
(* fields.  A table is its signature, its Length and what follows its      *)
(* header: tables listed in an RSDT or XSDT, bytes in a MADT.  Headers     *)
(* have the sizes RootHeader and MadtHeader.                               *)
(***************************************************************************)
EXTENDS Integers, Sequences, FiniteSets

CONSTANTS
  Firmwares,      \* what the boot loader may find
  Signature,      \* the Table_Sign asked for
  RootHeader,     \* sizeof(struct ACPISDTHeader)
  MadtHeader,     \* sizeof(struct MADT_t)
  Word,           \* 2^64: size_t
  Byte,           \* 2^8: entry_type, entry_length, unsigned char sum
  MaxIoapics,     \* 16, the length of ioapic_ptr
  MaxIsos         \* 256, the length of iso_ptr

NULL == <<>>

VARIABLES
  fw,            \* the firmware's tables; nothing writes to them
  pc,
  i,             \* findTable's counter
  madt,          \* the table found, or NULL
  type,          \* FindEntries: the entries asked for, ...
  ptr, array,    \* ... the place reached, the entries found so far
  ioapic_entries, iso_entries,
  sum            \* doChecksum's

find == <<i, madt>>
walk == <<type, ptr, array>>
entries == <<ioapic_entries, iso_entries>>
acpi_vars == <<fw, pc, find, walk, entries, sum>>

------------------------------------------------------------------------------
(* acpi.c                                                                  *)

(* The difference at the first place where the strings differ or s1 ends. *)
strncmp(s1, s2, n) ==
  LET stops == { k \in 1 .. n : s1[k] = 0 \/ s1[k] # s2[k] }
      k     == CHOOSE k \in stops : \A j \in stops : k <= j
  IN  IF stops = {} THEN 0 ELSE s1[k] - s2[k]

(* The XSDT, or what is used in its place if GetXSDT returns NULL. *)
UsesXsdt(f) == f.Revision = 2 /\ f.XsdtAddress # 0

(* What the code takes for granted of firmware: that the lengths in its    *)
(* tables are right.  A root table's may leave a rest behind the pointers, *)
(* and nothing is said of what follows a MADT entry of length 0.           *)
RootLaidOut(t, size) ==
  /\ t.Length \in 0 .. Word - 1
  /\ Len(t.tables) \in Nat /\ DOMAIN t.tables = 1 .. Len(t.tables)
  /\ RootHeader + Len(t.tables) * size <= t.Length
  /\ t.Length < RootHeader + (Len(t.tables) + 1) * size

MadtLaidOut(m) ==
  LET n == Len(m.entries)
      Offset(k) == IF k <= n THEN m.entries[k].offset ELSE m.Length
  IN  /\ m.Length \in 0 .. Word - 1 /\ m.bytes \in Seq(0 .. Byte - 1) /\ m.Length <= Len(m.bytes)
      /\ m.entries \in Seq([type : 0 .. Byte - 1, length : 0 .. Byte - 1, offset : 0 .. Word - 1])
      /\ Offset(1) = MadtHeader
      /\ \A k \in 1 .. n :
           LET e == m.entries[k]
           IN  /\ e.offset + 2 <= m.Length
               /\ m.bytes[e.offset + 1] = e.type /\ m.bytes[e.offset + 2] = e.length
               /\ e.length # 0 => Offset(k + 1) = e.offset + e.length

LaidOut ==
  /\ {RootHeader, MadtHeader, MaxIoapics, MaxIsos} \subseteq Nat /\ {Word, Byte} \subseteq Nat \ {0}
  /\ Signature \in [1 .. 4 -> Int \ {0}]
  /\ \A f \in Firmwares :
       LET root == IF UsesXsdt(f) THEN f.xsdt ELSE f.rsdt
       IN  /\ RootLaidOut(root, IF UsesXsdt(f) THEN 8 ELSE 4)
           /\ \A k \in 1 .. Len(root.tables) :
                LET t == root.tables[k]
                IN  /\ t # NULL /\ t.Signature \in [1 .. 4 -> Int]
                    /\ t.Signature = Signature => MadtLaidOut(t)

ASSUME AcpiAssumption == LaidOut

GetXSDT == fw.xsdt
GetRSDT == fw.rsdt
Root == IF UsesXsdt(fw) THEN GetXSDT ELSE GetRSDT
PointerSize == IF UsesXsdt(fw) THEN 8 ELSE 4

(* Mutant: the header is not taken off. *)
entries_count_WithHeader == Root.Length \div PointerSize

(* Unsigned: a Length below the header's wraps to a huge count. *)
entries_count == ((Root.Length - RootHeader) % Word) \div PointerSize

AcpiInit ==
  /\ fw \in Firmwares
  /\ pc = "findTable" /\ i = 0 /\ madt = NULL
  /\ type = 0 /\ ptr = 0 /\ array = <<>>
  /\ ioapic_entries = <<>> /\ iso_entries = <<>>
  /\ sum = 0

(* One iteration: the next table is not the one asked for. *)
SkipTable ==
  /\ pc = "findTable" /\ i < entries_count
  /\ strncmp(Root.tables[i + 1].Signature, Signature, 4) # 0
  /\ i' = i + 1
  /\ UNCHANGED <<fw, pc, madt, walk, entries, sum>>

findTable ==
  /\ pc = "findTable" /\ i < entries_count
  /\ strncmp(Root.tables[i + 1].Signature, Signature, 4) = 0
  /\ madt' = Root.tables[i + 1]
  /\ pc' = "init_IOAPIC"
  /\ UNCHANGED <<fw, i, walk, entries, sum>>

(* NULL is returned, and kmain hands it to init_IOAPIC. *)
FindNothing ==
  /\ pc = "findTable" /\ i >= entries_count
  /\ pc' = "init_IOAPIC"
  /\ UNCHANGED <<fw, find, walk, entries, sum>>

------------------------------------------------------------------------------
(* ioapic.c                                                                *)

(* FindEntries is called for the entries of a type. *)
FindEntries(t) ==
  /\ type' = t /\ ptr' = MadtHeader /\ array' = <<>>
  /\ pc' = "FindEntries"

init_IOAPIC ==
  /\ pc = "init_IOAPIC" /\ madt # NULL
  /\ FindEntries(1)
  /\ UNCHANGED <<fw, find, entries, sum>>

(* madt->h.Length is read through the null pointer. *)
NullMadtFaults ==
  /\ pc = "init_IOAPIC" /\ madt = NULL
  /\ pc' = "fault"
  /\ UNCHANGED <<fw, find, walk, entries, sum>>

entries_end == madt.Length
max_count == IF type = 1 THEN MaxIoapics ELSE MaxIsos

(* What is at an offset in the MADT. *)
entry_type(p)   == madt.bytes[p + 1]
entry_length(p) == madt.bytes[p + 2]

(* Mutant: the array may take one more. *)
Collects_OneMore == entry_type(ptr) = type /\ Len(array) <= max_count

Collects == entry_type(ptr) = type /\ Len(array) < max_count

(* Mutant: the length is not looked at. *)
NextEntry_NoZeroCheck ==
  /\ pc = "FindEntries" /\ ptr < entries_end
  /\ array' = IF Collects THEN Append(array, ptr) ELSE array
  /\ ptr' = ptr + entry_length(ptr)
  /\ UNCHANGED <<fw, pc, find, type, entries, sum>>

(* One iteration of FindEntries; a length of 0 ends the loop. *)
NextEntry ==
  /\ pc = "FindEntries" /\ ptr < entries_end
  /\ array' = IF Collects THEN Append(array, ptr) ELSE array
  /\ ptr' = IF entry_length(ptr) = 0 THEN entries_end ELSE ptr + entry_length(ptr)
  /\ UNCHANGED <<fw, pc, find, type, entries, sum>>

(* FindEntries returns, and init_IOAPIC copies what it found. *)
IoapicsFound ==
  /\ pc = "FindEntries" /\ ptr >= entries_end /\ type = 1
  /\ ioapic_entries' = array
  /\ FindEntries(2)
  /\ UNCHANGED <<fw, find, iso_entries, sum>>

IsosFound ==
  /\ pc = "FindEntries" /\ ptr >= entries_end /\ type = 2
  /\ iso_entries' = array
  /\ pc' = "done"
  /\ UNCHANGED <<fw, find, walk, ioapic_entries, sum>>

------------------------------------------------------------------------------
(* doChecksum, which nobody calls: here on the MADT, once it was walked.   *)

doChecksum ==
  /\ pc = "done"
  /\ pc' = "doChecksum" /\ i' = 0 /\ sum' = 0
  /\ UNCHANGED <<fw, madt, walk, entries>>

AddByte ==
  /\ pc = "doChecksum" /\ i < madt.Length
  /\ sum' = (sum + madt.bytes[i + 1]) % Byte
  /\ i' = i + 1
  /\ UNCHANGED <<fw, pc, madt, walk, entries>>

ChecksumReturn ==
  /\ pc = "doChecksum" /\ i >= madt.Length
  /\ pc' = "checked"
  /\ UNCHANGED <<fw, find, walk, entries, sum>>

AcpiNext ==
  \/ SkipTable \/ findTable \/ FindNothing
  \/ init_IOAPIC \/ NullMadtFaults \/ NextEntry \/ IoapicsFound \/ IsosFound
  \/ doChecksum \/ AddByte \/ ChecksumReturn

AcpiSpec == AcpiInit /\ [][AcpiNext]_acpi_vars /\ WF_acpi_vars(AcpiNext)

------------------------------------------------------------------------------
(* Properties.                                                             *)

(* The values the variables may have. *)
TypeOK ==
  /\ pc \in {"findTable", "init_IOAPIC", "FindEntries", "done", "doChecksum", "checked", "fault"}
  /\ i \in 0 .. Word - 1 /\ ptr \in 0 .. Word - 1 /\ type \in 0 .. 2
  /\ sum \in 0 .. Byte - 1
  /\ \A a \in {array, ioapic_entries, iso_entries} : a \in Seq(0 .. Word - 1)

(* How many entries a MADT has: they end where a length is 0. *)
EntryCount ==
  LET zeros == { k \in 1 .. Len(madt.entries) : madt.entries[k].length = 0 }
  IN  IF zeros = {} THEN Len(madt.entries) ELSE CHOOSE k \in zeros : \A j \in zeros : k <= j

(* The entries of a type among the first n. *)
OfType(t, n) == { k \in 1 .. n : madt.entries[k].type = t }

(* The array holds, in the order of the table, the offsets of the first    *)
(* max entries of a type among the first n entries.                        *)
FirstOfType(a, t, max, n) ==
  /\ Len(a) = IF Cardinality(OfType(t, n)) < max THEN Cardinality(OfType(t, n)) ELSE max
  /\ \A k \in OfType(t, n) :
       LET place == Cardinality(OfType(t, k))
       IN  place <= max => a[place] = madt.entries[k].offset

(***************************************************************************)
(* The variables have their types, counters and sums the width the code    *)
(* gives them, and no read goes past the table it is made in: not a        *)
(* pointer of an RSDT or XSDT whose length is no multiple of the           *)
(* pointers', not a byte of the MADT.  Nor is an array written past its    *)
(* end.                                                                    *)
(***************************************************************************)
ReadsInside ==
  /\ TypeOK
  /\ pc = "findTable" /\ i < entries_count =>
       /\ RootHeader + (i + 1) * PointerSize <= Root.Length
       /\ i < Len(Root.tables)
  /\ pc = "FindEntries" /\ ptr < entries_end => ptr + 2 <= madt.Length
  /\ pc = "FindEntries" => Len(array) <= max_count
  /\ pc = "doChecksum" /\ i < madt.Length => i < Len(madt.bytes)

(***************************************************************************)
(* findTable returns the first table of the signature in the root table of *)
(* this ACPI version, which may follow tables whose signature differs in   *)
(* the last character, and kmain's call faults only where there is none.   *)
(* init_IOAPIC ends with the first MaxIoapics entries of type 1 and the    *)
(* first MaxIsos of type 2 in the order of that MADT, whatever lies        *)
(* between them, also when there are more and when an entry of length 0    *)
(* follows.                                                                *)
(***************************************************************************)
FindsEntries ==
  LET hits == { k \in 1 .. Len(Root.tables) : Root.tables[k].Signature = Signature }
  IN  /\ pc \in {"FindEntries", "done"} =>
           /\ hits # {}
           /\ madt = Root.tables[CHOOSE k \in hits : \A j \in hits : k <= j]
      /\ pc = "fault" => hits = {}
      /\ pc = "done" =>
           /\ FirstOfType(ioapic_entries, 1, MaxIoapics, EntryCount)
           /\ FirstOfType(iso_entries, 2, MaxIsos, EntryCount)

(* All walks come to an end, also over an entry of length 0. *)
WalksEnd == <>(pc \in {"checked", "fault"})
==============================================================================
