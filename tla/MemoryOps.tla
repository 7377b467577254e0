------------------------------- MODULE MemoryOps -------------------------------
(***************************************************************************)
(* What the C standard says of memcpy, memmove, memset and memcmp, which   *)
(* main.c:74 promises: a call takes effect at once, when it returns.       *)
(***************************************************************************)
EXTENDS Integers

CONSTANTS
  Size,         \* addresses are 0 .. Size - 1
  ByteValues,   \* how many values a byte has
  Ints          \* what memset may be given for a byte

VARIABLES
  mem,
  call,     \* the operation asked for and its arguments, or NoCall
  ret       \* what the last comparison returned

vars == <<mem, call, ret>>

Addrs == 0 .. Size - 1
Bytes == 0 .. ByteValues - 1
Range(a, n) == a .. a + n - 1

(* The n bytes at s are copied to d, as they are before the call. *)
Copied(m, d, s, n) ==
  [a \in Addrs |-> IF a \in Range(d, n) THEN m[s + (a - d)] ELSE m[a]]
(* memset converts its argument to an unsigned char. *)
Filled(m, d, c, n) ==
  [a \in Addrs |-> IF a \in Range(d, n) THEN c % ByteValues ELSE m[a]]

(* The order of the first bytes that differ, read as numbers. *)
Compared(m, s1, s2, n, r) ==
  LET differ(k) == m[s1 + k] # m[s2 + k]
      first(k)  == differ(k) /\ \A j \in 0 .. k - 1 : ~differ(j)
  IN  \/ r = 0 /\ \A k \in 0 .. n - 1 : ~differ(k)
      \/ \E k \in 0 .. n - 1 : first(k) /\ r = IF m[s1 + k] < m[s2 + k] THEN -1 ELSE 1

NoCall == [op |-> "none", dest |-> 0, src |-> 0, n |-> 0, c |-> 0]

Init == mem \in [Addrs -> Bytes] /\ call = NoCall /\ ret = 0

(* A caller asks for an operation on ranges of the memory. *)
Invoke(op, d, s, n, c) ==
  /\ call = NoCall
  /\ d + n <= Size /\ s + n <= Size
  /\ call' = [op |-> op, dest |-> d, src |-> s, n |-> n, c |-> c]
  /\ UNCHANGED <<mem, ret>>

(* It returns. *)
Copy ==
  /\ call.op = "copy"
  /\ mem' = Copied(mem, call.dest, call.src, call.n)
  /\ UNCHANGED ret

Set ==
  /\ call.op = "set"
  /\ mem' = Filled(mem, call.dest, call.c, call.n)
  /\ UNCHANGED ret

Compare ==
  /\ call.op = "compare"
  /\ ret' \in {-1, 0, 1} /\ Compared(mem, call.dest, call.src, call.n, ret')
  /\ UNCHANGED mem

Respond == (Copy \/ Set \/ Compare) /\ call' = NoCall

Next ==
  \/ \E op \in {"copy", "set", "compare"}, d, s \in Addrs, n \in 0 .. Size, c \in Ints :
       Invoke(op, d, s, n, c)
  \/ Respond

Spec == Init /\ [][Next]_vars
==============================================================================
