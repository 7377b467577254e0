------------------------------ MODULE MemFunctions ------------------------------
(***************************************************************************)
(* memcpy, memset, memmove and memcmp of main.c, byte by byte.  The        *)
(* compiler may put calls of them anywhere (main.c:72-76), so that what    *)
(* they do to overlapping and empty ranges matters to all of the kernel.   *)
(***************************************************************************)
EXTENDS Integers

CONSTANTS
  Size,         \* addresses are 0 .. Size - 1
  ByteValues,   \* 256: how many values a byte has
  Ints          \* what memset may be given for a byte: an int, wider than one

ASSUME SizeAssumption ==
  /\ Size \in Nat
  /\ ByteValues \in Nat \ {0}
  /\ Ints \subseteq Int /\ 0 \in Ints

Addrs == 0 .. Size - 1
Bytes == 0 .. ByteValues - 1

VARIABLES
  mem,
  pc,               \* the loop in progress; "idle" between calls
  dest, src, n, c,  \* the arguments; s1 and s2 of memcmp are dest and src
  i,                \* the loop's counter
  ret,              \* what memcmp returned last
  before            \* history: the memory when the call was made

args == <<dest, src, n, c, before>>
vars == <<mem, pc, args, i, ret>>

Init ==
  /\ mem \in [Addrs -> Bytes]
  /\ pc = "idle"
  /\ dest = 0 /\ src = 0 /\ n = 0 /\ c = 0 /\ i = 0
  /\ ret = 0
  /\ before = mem

Call(loop, d, s, k, b, start) ==
  /\ pc = "idle"
  /\ d + k <= Size /\ s + k <= Size
  /\ pc' = loop /\ dest' = d /\ src' = s /\ n' = k /\ c' = b /\ i' = start
  /\ before' = mem
  /\ UNCHANGED <<mem, ret>>

(* restrict: the ranges do not overlap. *)
memcpy(d, s, k) == (d + k <= s \/ s + k <= d) /\ Call("up", d, s, k, 0, 0)

memset(d, b, k) == Call("set", d, d, k, b, 0)

(* Mutant: the tests are the wrong way round. *)
memmove_Swapped(d, s, k) ==
  \/ s < d /\ Call("up", d, s, k, 0, 0)
  \/ s > d /\ Call("down", d, s, k, 0, k)
  \/ s = d /\ Call("up", d, s, k, 0, k)

(* Upwards from a higher address, downwards from a lower one; a range is   *)
(* not copied onto itself.                                                 *)
memmove(d, s, k) ==
  \/ s > d /\ Call("up", d, s, k, 0, 0)
  \/ s < d /\ Call("down", d, s, k, 0, k)
  \/ s = d /\ Call("up", d, s, k, 0, k)

memcmp(s1, s2, k) == Call("compare", s1, s2, k, 0, 0)

Store(a, b) == mem' = [mem EXCEPT ![a] = b]

CopyUp ==
  /\ pc = "up" /\ i < n
  /\ Store(dest + i, mem[src + i])
  /\ i' = i + 1
  /\ UNCHANGED <<pc, args, ret>>

(* Mutant: the source is read upwards. *)
CopyDown_Crossed ==
  /\ pc = "down" /\ i > 0
  /\ Store(dest + (i - 1), mem[src + (n - i)])
  /\ i' = i - 1
  /\ UNCHANGED <<pc, args, ret>>

CopyDown ==
  /\ pc = "down" /\ i > 0
  /\ Store(dest + (i - 1), mem[src + (i - 1)])
  /\ i' = i - 1
  /\ UNCHANGED <<pc, args, ret>>

SetByte ==
  /\ pc = "set" /\ i < n
  /\ Store(dest + i, c % ByteValues)
  /\ i' = i + 1
  /\ UNCHANGED <<pc, args, ret>>

SameByte ==
  /\ pc = "compare" /\ i < n /\ mem[dest + i] = mem[src + i]
  /\ i' = i + 1
  /\ UNCHANGED <<mem, pc, args, ret>>

(* The locals are gone when a call returns. *)
Leave ==
  /\ pc' = "idle"
  /\ dest' = 0 /\ src' = 0 /\ n' = 0 /\ c' = 0 /\ i' = 0
  /\ before' = mem
  /\ UNCHANGED mem

OtherByte ==
  /\ pc = "compare" /\ i < n /\ mem[dest + i] # mem[src + i]
  /\ ret' = IF mem[dest + i] < mem[src + i] THEN -1 ELSE 1
  /\ Leave

Finished == IF pc = "down" THEN i = 0 ELSE i >= n

Return ==
  /\ pc # "idle" /\ Finished
  /\ ret' = IF pc = "compare" THEN 0 ELSE ret
  /\ Leave

Step == CopyUp \/ CopyDown \/ SetByte \/ SameByte \/ OtherByte \/ Return

Next ==
  \/ Step
  \/ \E d, s \in Addrs, k \in 0 .. Size : memcpy(d, s, k) \/ memmove(d, s, k) \/ memcmp(d, s, k)
  \/ \E d \in Addrs, b \in Ints, k \in 0 .. Size : memset(d, b, k)

Spec == Init /\ [][Next]_vars

------------------------------------------------------------------------------
(* Properties.                                                             *)

(* The values the variables may have. *)
TypeOK ==
  /\ mem \in [Addrs -> Bytes] /\ before \in [Addrs -> Bytes]
  /\ pc \in {"idle", "up", "down", "set", "compare"}
  /\ dest \in 0 .. Size /\ src \in 0 .. Size /\ n \in 0 .. Size /\ c \in Ints
  /\ dest + n <= Size /\ src + n <= Size
  /\ i \in 0 .. n
  /\ ret \in {-1, 0, 1}

(* What a loop in progress has written, filled or compared, and what not. *)
CopiedAt(a) == before[src + (a - dest)]
Written(a) ==
  CASE pc = "up"   -> IF dest <= a /\ a < dest + i THEN CopiedAt(a) ELSE before[a]
    [] pc = "down" -> IF dest + i <= a /\ a < dest + n THEN CopiedAt(a) ELSE before[a]
    [] pc = "set"  -> IF dest <= a /\ a < dest + i THEN c % ByteValues ELSE before[a]
    [] OTHER       -> before[a]

(***************************************************************************)
(* At every turn of a loop exactly the bytes its counter says have been    *)
(* copied, filled or found the same, and no other byte has changed; a loop *)
(* that goes up reads nothing it has overwritten, and nor does one that    *)
(* goes down.                                                              *)
(***************************************************************************)
Progress ==
  /\ \A a \in Addrs : mem[a] = Written(a)
  /\ pc = "compare" => \A k \in 0 .. i - 1 : mem[dest + k] = mem[src + k]
  /\ pc = "up" /\ i < n => src >= dest \/ src + n <= dest
  /\ pc = "down" => src < dest
  /\ pc = "idle" => dest = 0 /\ src = 0 /\ n = 0 /\ c = 0

(***************************************************************************)
(* The loops do what the C standard says, also when source and destination *)
(* overlap and when n is 0: seen from outside, memory changes at once, to  *)
(* what MemoryOps says, when the call returns.                             *)
(***************************************************************************)
Operation ==
  [ op   |-> CASE pc = "idle" -> "none" [] pc \in {"up", "down"} -> "copy" [] OTHER -> pc,
    dest |-> dest, src |-> src, n |-> n, c |-> c ]

Abstract ==
  INSTANCE MemoryOps WITH mem <- IF pc = "idle" THEN mem ELSE before, call <- Operation

ImplementsMemoryOps == Abstract!Spec
==============================================================================
