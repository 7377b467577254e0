--------------------------- MODULE MemFunctionsProofs ---------------------------
(***************************************************************************)
(* For memories of every size and bytes of every width: the loops of       *)
(* memcpy, memmove, memset and memcmp do what the C standard says of them. *)
(***************************************************************************)
EXTENDS MemFunctions, TLAPS

IInv == TypeOK /\ Progress

(* A value brought down to a byte is a byte. *)
LEMMA ByteOf == ASSUME NEW b \in Ints PROVE b % ByteValues \in Bytes
  BY SizeAssumption DEF Bytes

(* The memory as it is when a caller makes a call satisfies IInv, and so   *)
(* does the state in which the call starts.                                *)
LEMMA InitInv == Init => IInv
  BY SizeAssumption DEF Init, IInv, TypeOK, Progress, Written, Addrs

(* A call that begins: nothing is copied yet, and nothing need be when the
   ranges are the same. *)
LEMMA CallInv ==
  ASSUME IInv,
         NEW loop \in {"up", "down", "set", "compare"},
         NEW d \in Addrs, NEW s \in Addrs, NEW k \in 0 .. Size, NEW b \in Ints,
         NEW start \in {0, k},
         Call(loop, d, s, k, b, start),
         loop \in {"set", "compare"} => start = 0,
         loop = "up" => (start = 0 \/ s = d) /\ (s >= d \/ s + k <= d),
         loop = "down" => start = k /\ s < d
  PROVE  IInv'
<1> USE SizeAssumption DEF Addrs
<1>1. TypeOK'
  BY DEF IInv, TypeOK, Call
<1>2. /\ mem' = mem /\ before' = mem /\ pc' = loop
      /\ dest' = d /\ src' = s /\ n' = k /\ c' = b /\ i' = start
  BY DEF Call
<1>3. ASSUME NEW a \in Addrs PROVE mem'[a] = Written(a)'
  <2>1. CASE loop = "up" /\ start = 0
    BY <1>2, <2>1 DEF Written
  <2>2. CASE loop = "up" /\ s = d
    <3>1. s + (a - d) = a BY <2>2
    <3> QED BY <1>2, <2>2, <3>1 DEF Written, CopiedAt
  <2>3. CASE loop = "down"
    BY <1>2, <2>3 DEF Written
  <2>4. CASE loop = "set"
    BY <1>2, <2>4 DEF Written
  <2>5. CASE loop = "compare"
    BY <1>2, <2>5 DEF Written
  <2> QED
    BY <2>1, <2>2, <2>3, <2>4, <2>5
<1>4. Progress'
  BY <1>2, <1>3 DEF Progress
<1> QED
  BY <1>1, <1>4 DEF IInv

(* Going up, the byte read next was not overwritten: the source is above, or
   apart. *)
LEMMA CopyUpInv == IInv /\ CopyUp => IInv'
<1> SUFFICES ASSUME IInv, CopyUp PROVE IInv'
  OBVIOUS
<1> USE SizeAssumption DEF Addrs
<1>1. TypeOK'
  BY DEF IInv, TypeOK, CopyUp, Store, args
<1>2. mem[src + i] = before[src + i]
  <2>1. src + i \in Addrs /\ ~(dest <= src + i /\ src + i < dest + i)
    BY DEF IInv, TypeOK, Progress, CopyUp
  <2> QED BY <2>1 DEF IInv, Progress, Written, CopyUp
<1>3. ASSUME NEW a \in Addrs PROVE mem'[a] = Written(a)'
  <2>1. mem[a] = IF dest <= a /\ a < dest + i THEN before[src + (a - dest)] ELSE before[a]
    BY DEF IInv, Progress, Written, CopiedAt, CopyUp
  <2>2. mem'[a] = IF a = dest + i THEN before[src + i] ELSE mem[a]
    BY <1>2 DEF IInv, TypeOK, CopyUp, Store
  <2>3. mem'[a] = IF dest <= a /\ a < dest + (i + 1)
                    THEN before[src + (a - dest)] ELSE before[a]
    BY <2>1, <2>2 DEF IInv, TypeOK
  <2> QED
    BY <2>3 DEF CopyUp, args, Written, CopiedAt
<1>4. Progress'
  BY <1>3 DEF IInv, TypeOK, Progress, CopyUp, args
<1> QED
  BY <1>1, <1>4 DEF IInv

(* Going down, the byte read next was not overwritten: the source is below. *)
LEMMA CopyDownInv == IInv /\ CopyDown => IInv'
<1> SUFFICES ASSUME IInv, CopyDown PROVE IInv'
  OBVIOUS
<1> USE SizeAssumption DEF Addrs
<1>1. TypeOK'
  BY DEF IInv, TypeOK, CopyDown, Store, args
<1>2. mem[src + (i - 1)] = before[src + (i - 1)]
  <2>1. src + (i - 1) \in Addrs /\ ~(dest + i <= src + (i - 1))
    BY DEF IInv, TypeOK, Progress, CopyDown
  <2> QED BY <2>1 DEF IInv, Progress, Written, CopyDown
<1>3. ASSUME NEW a \in Addrs PROVE mem'[a] = Written(a)'
  <2>1. mem[a] = IF dest + i <= a /\ a < dest + n THEN before[src + (a - dest)] ELSE before[a]
    BY DEF IInv, Progress, Written, CopiedAt, CopyDown
  <2>2. mem'[a] = IF a = dest + (i - 1) THEN before[src + (i - 1)] ELSE mem[a]
    BY <1>2 DEF IInv, TypeOK, CopyDown, Store
  <2>3. mem'[a] = IF dest + (i - 1) <= a /\ a < dest + n
                    THEN before[src + (a - dest)] ELSE before[a]
    BY <2>1, <2>2 DEF IInv, TypeOK, CopyDown
  <2> QED
    BY <2>3 DEF CopyDown, args, Written, CopiedAt
<1>4. Progress'
  BY <1>3 DEF IInv, TypeOK, Progress, CopyDown, args
<1> QED
  BY <1>1, <1>4 DEF IInv

(* One more byte filled. *)
LEMMA SetByteInv == IInv /\ SetByte => IInv'
<1> SUFFICES ASSUME IInv, SetByte PROVE IInv'
  OBVIOUS
<1> USE SizeAssumption DEF Addrs
<1>1. c % ByteValues \in Bytes
  BY ByteOf DEF IInv, TypeOK
<1>2. TypeOK'
  BY <1>1 DEF IInv, TypeOK, SetByte, Store, args
<1>3. ASSUME NEW a \in Addrs PROVE mem'[a] = Written(a)'
  <2>1. mem[a] = IF dest <= a /\ a < dest + i THEN c % ByteValues ELSE before[a]
    BY DEF IInv, Progress, Written, SetByte
  <2>2. mem'[a] = IF a = dest + i THEN c % ByteValues ELSE mem[a]
    BY DEF IInv, TypeOK, SetByte, Store
  <2>3. mem'[a] = IF dest <= a /\ a < dest + (i + 1) THEN c % ByteValues ELSE before[a]
    BY <2>1, <2>2 DEF IInv, TypeOK
  <2> QED
    BY <2>3 DEF SetByte, args, Written
<1>4. Progress'
  BY <1>3 DEF IInv, TypeOK, Progress, SetByte, args
<1> QED
  BY <1>2, <1>4 DEF IInv

(* One more byte compared. *)
LEMMA SameByteInv == IInv /\ SameByte => IInv'
<1> SUFFICES ASSUME IInv, SameByte PROVE IInv'
  OBVIOUS
<1>1. TypeOK'
  BY DEF IInv, TypeOK, SameByte, args
<1>2. ASSUME NEW a \in Addrs PROVE mem'[a] = Written(a)'
  BY DEF IInv, Progress, SameByte, Written, args
<1>3. ASSUME NEW k \in 0 .. i' - 1 PROVE mem'[dest' + k] = mem'[src' + k]
  <2>1. k = i \/ k \in 0 .. i - 1 BY DEF IInv, TypeOK, SameByte
  <2> QED BY <2>1 DEF IInv, Progress, SameByte, args
<1>4. Progress'
  BY <1>2, <1>3 DEF IInv, Progress, SameByte, args
<1> QED
  BY <1>1, <1>4 DEF IInv

(* A call that returns leaves no locals. *)
LEMMA LeaveInv == IInv /\ Leave /\ ret' \in {-1, 0, 1} => IInv'
  BY SizeAssumption DEF IInv, TypeOK, Progress, Leave, Addrs, Written

(* Every turn of a loop keeps the invariant. *)
LEMMA StepInv == IInv /\ Step => IInv'
<1> SUFFICES ASSUME IInv, Step PROVE IInv'
  OBVIOUS
<1>1. CASE CopyUp BY <1>1, CopyUpInv
<1>2. CASE CopyDown BY <1>2, CopyDownInv
<1>3. CASE SetByte BY <1>3, SetByteInv
<1>4. CASE SameByte BY <1>4, SameByteInv
<1>5. CASE OtherByte BY <1>5, LeaveInv DEF OtherByte
<1>6. CASE Return BY <1>6, LeaveInv DEF Return, IInv, TypeOK
<1> QED
  BY <1>1, <1>2, <1>3, <1>4, <1>5, <1>6 DEF Step

(* So does every call. *)
LEMMA CallsInv ==
  ASSUME IInv, NEW d \in Addrs, NEW s \in Addrs, NEW k \in 0 .. Size, NEW b \in Ints,
         memcpy(d, s, k) \/ memmove(d, s, k) \/ memcmp(d, s, k) \/ memset(d, b, k)
  PROVE  IInv'
<1> USE SizeAssumption DEF Addrs
<1>1. CASE memcpy(d, s, k)
  <2>1. Call("up", d, s, k, 0, 0) /\ (s >= d \/ s + k <= d)
    BY <1>1 DEF memcpy
  <2> QED BY <2>1, CallInv
<1>2. CASE memmove(d, s, k)
  <2>1. CASE s > d /\ Call("up", d, s, k, 0, 0) BY <2>1, CallInv
  <2>2. CASE s < d /\ Call("down", d, s, k, 0, k) BY <2>2, CallInv
  <2>3. CASE s = d /\ Call("up", d, s, k, 0, k) BY <2>3, CallInv
  <2> QED BY <1>2, <2>1, <2>2, <2>3 DEF memmove
<1>3. CASE memcmp(d, s, k) BY <1>3, CallInv DEF memcmp
<1>4. CASE memset(d, b, k) BY <1>4, CallInv DEF memset
<1> QED
  BY <1>1, <1>2, <1>3, <1>4

(* The invariant is inductive. *)
LEMMA NextInv == IInv /\ [Next]_vars => IInv'
<1> SUFFICES ASSUME IInv, [Next]_vars PROVE IInv'
  OBVIOUS
<1>1. CASE Step BY <1>1, StepInv
<1>2. ASSUME NEW d \in Addrs, NEW s \in Addrs, NEW k \in 0 .. Size,
             memcpy(d, s, k) \/ memmove(d, s, k) \/ memcmp(d, s, k)
      PROVE  IInv'
  <2>1. PICK b \in Ints : b = 0 BY SizeAssumption
  <2> QED BY <1>2, CallsInv
<1>3. ASSUME NEW d \in Addrs, NEW b \in Ints, NEW k \in 0 .. Size, memset(d, b, k)
      PROVE  IInv'
  BY <1>3, CallsInv
<1>4. CASE UNCHANGED vars
  BY <1>4 DEF vars, args, IInv, TypeOK, Progress, Written, CopiedAt
<1> QED
  BY <1>1, <1>2, <1>3, <1>4 DEF Next

(***************************************************************************)
(* The loops of main.c:82-126 stay inside the ranges they were given, and  *)
(* at every turn have copied, filled or compared exactly the bytes their   *)
(* counters say, of the memory as it was when the call was made.           *)
(***************************************************************************)
THEOREM LoopsKeepProgress == Spec => [](TypeOK /\ Progress)
<1>1. Init => IInv BY InitInv
<1>2. IInv /\ [Next]_vars => IInv' BY NextInv
<1> QED
  BY <1>1, <1>2, PTL DEF Spec, IInv

--------------------------------------------------------------------------------
(* Seen from outside: what each step is of MemoryOps.                      *)

Seen == IF pc = "idle" THEN mem ELSE before

(* The initial states are initial states of MemoryOps. *)
LEMMA InitSeen == Init => Abstract!Init
  BY DEF Init, Abstract!Init, Abstract!NoCall, Abstract!Addrs, Abstract!Bytes,
         Addrs, Bytes, Operation

(* A call that begins is the call the caller made. *)
LEMMA CallSeen ==
  ASSUME IInv, NEW loop \in {"up", "down", "set", "compare"},
         NEW d \in Addrs, NEW s \in Addrs, NEW k \in 0 .. Size, NEW b \in Ints, NEW start,
         Call(loop, d, s, k, b, start)
  PROVE  Abstract!Next
<1> DEFINE op == IF loop \in {"up", "down"} THEN "copy" ELSE loop
<1>1. op \in {"copy", "set", "compare"}
  OBVIOUS
<1>2. Seen' = Seen
  BY DEF Call, Seen
<1>3. Operation = Abstract!NoCall
  BY DEF IInv, TypeOK, Progress, Call, Operation, Abstract!NoCall
<1>4. Operation' = [op |-> op, dest |-> d, src |-> s, n |-> k, c |-> b]
  BY DEF Call, Operation
<1>5. Abstract!Invoke(op, d, s, k, b)
  BY <1>2, <1>3, <1>4 DEF Abstract!Invoke, Call, Seen
<1> QED
  BY <1>1, <1>5 DEF Abstract!Next, Abstract!Addrs, Addrs

(* A turn of a loop is not seen. *)
LEMMA LoopSeen ==
  ASSUME CopyUp \/ CopyDown \/ SetByte \/ SameByte
  PROVE  UNCHANGED Abstract!vars
  BY DEF CopyUp, CopyDown, SetByte, SameByte, args, Abstract!vars, Operation

(* A call that returns is the operation, done at once. *)
LEMMA ReturnSeen ==
  ASSUME IInv, Return \/ OtherByte
  PROVE  Abstract!Next
<1> USE SizeAssumption DEF Addrs
<1>1. mem' = mem /\ Operation' = Abstract!NoCall /\ Seen' = mem /\ Seen = before
  BY DEF Return, OtherByte, Leave, Operation, Abstract!NoCall, Seen
<1>2. CASE pc \in {"up", "down"}
  <2>1. ASSUME NEW a \in Addrs
        PROVE  mem[a] = IF a \in dest .. dest + n - 1 THEN before[src + (a - dest)] ELSE before[a]
    <3>1. Finished BY <1>2 DEF Return, OtherByte
    <3>2. mem[a] = Written(a) BY DEF IInv, Progress
    <3>3. CASE pc = "up"
      <4>1. i = n BY <3>1, <3>3 DEF Finished, IInv, TypeOK
      <4> QED BY <3>2, <3>3, <4>1 DEF Written, CopiedAt, IInv, TypeOK
    <3>4. CASE pc = "down"
      <4>1. i = 0 BY <3>1, <3>4 DEF Finished
      <4> QED BY <3>2, <3>4, <4>1, SMTT(30) DEF Written, CopiedAt, IInv, TypeOK
    <3> QED BY <1>2, <3>3, <3>4
  <2>2. mem = [a \in Addrs |-> IF a \in dest .. dest + n - 1
                                 THEN before[src + (a - dest)] ELSE before[a]]
    BY <2>1 DEF IInv, TypeOK
  <2>3. mem = Abstract!Copied(before, dest, src, n)
    BY <2>2 DEF Abstract!Copied, Abstract!Range, Abstract!Addrs
  <2>4. ret' = ret
    BY <1>2 DEF Return, OtherByte
  <2>5. Operation.op = "copy" /\ Operation.dest = dest /\ Operation.src = src /\ Operation.n = n
    BY <1>2 DEF Operation
  <2>6. Abstract!Copy
    BY <1>1, <2>3, <2>4, <2>5 DEF Abstract!Copy, Seen
  <2> QED
    BY <1>1, <2>6 DEF Abstract!Next, Abstract!Respond
<1>3. CASE pc = "set"
  <2>1. ASSUME NEW a \in Addrs
        PROVE  mem[a] = IF a \in dest .. dest + n - 1 THEN c % ByteValues ELSE before[a]
    <3>1. i = n BY <1>3 DEF Return, OtherByte, Finished, IInv, TypeOK
    <3> QED BY <1>3, <3>1 DEF IInv, TypeOK, Progress, Written
  <2>2. mem = [a \in Addrs |-> IF a \in dest .. dest + n - 1 THEN c % ByteValues ELSE before[a]]
    BY <2>1 DEF IInv, TypeOK
  <2>3. mem = Abstract!Filled(before, dest, c, n)
    BY <2>2 DEF Abstract!Filled, Abstract!Range, Abstract!Addrs
  <2>4. ret' = ret
    BY <1>3 DEF Return, OtherByte
  <2>5. Operation.op = "set" /\ Operation.dest = dest /\ Operation.c = c /\ Operation.n = n
    BY <1>3 DEF Operation
  <2>6. Abstract!Set
    BY <1>1, <2>3, <2>4, <2>5 DEF Abstract!Set, Seen
  <2> QED
    BY <1>1, <2>6 DEF Abstract!Next, Abstract!Respond
<1>4. CASE pc = "compare"
  <2>1. mem = before
    BY <1>4 DEF IInv, TypeOK, Progress, Written
  <2>2. ret' \in {-1, 0, 1} /\ Abstract!Compared(before, dest, src, n, ret')
    <3>1. CASE Return
      <4>1. i = n /\ ret' = 0 BY <1>4, <3>1 DEF Return, Finished, IInv, TypeOK
      <4> QED BY <1>4, <2>1, <4>1 DEF IInv, Progress, Abstract!Compared
    <3>2. CASE OtherByte
      <4>1. i \in 0 .. n - 1
        BY <3>2 DEF OtherByte, IInv, TypeOK
      <4>2. /\ before[dest + i] # before[src + i]
            /\ ret' = IF before[dest + i] < before[src + i] THEN -1 ELSE 1
        BY <2>1, <3>2 DEF OtherByte
      <4>3. \A j \in 0 .. i - 1 : before[dest + j] = before[src + j]
        BY <1>4, <2>1 DEF IInv, Progress
      <4> QED BY <4>1, <4>2, <4>3 DEF Abstract!Compared
    <3> QED BY <3>1, <3>2
  <2>3. Operation.op = "compare" /\ Operation.dest = dest /\ Operation.src = src /\ Operation.n = n
    BY <1>4 DEF Operation
  <2>4. Abstract!Compare
    BY <1>1, <2>1, <2>2, <2>3 DEF Abstract!Compare, Seen
  <2> QED
    BY <1>1, <2>4 DEF Abstract!Next, Abstract!Respond
<1> QED
  BY <1>2, <1>3, <1>4 DEF IInv, TypeOK, Return, OtherByte

(* Every step is a step of MemoryOps or is not seen. *)
LEMMA NextSeen ==
  ASSUME IInv, [Next]_vars
  PROVE  [Abstract!Next]_(Abstract!vars)
<1>1. CASE Step
  BY <1>1, LoopSeen, ReturnSeen DEF Step
<1>2. ASSUME NEW d \in Addrs, NEW s \in Addrs, NEW k \in 0 .. Size,
             memcpy(d, s, k) \/ memmove(d, s, k) \/ memcmp(d, s, k)
      PROVE  Abstract!Next
  BY <1>2, CallSeen, SizeAssumption DEF memcpy, memmove, memcmp
<1>3. ASSUME NEW d \in Addrs, NEW b \in Ints, NEW k \in 0 .. Size, memset(d, b, k)
      PROVE  Abstract!Next
  BY <1>3, CallSeen DEF memset
<1>4. CASE UNCHANGED vars
  BY <1>4 DEF vars, args, Abstract!vars, Operation
<1> QED
  BY <1>1, <1>2, <1>3, <1>4 DEF Next

(***************************************************************************)
(* memcpy, memmove, memset and memcmp (main.c:78-127) are, for a caller,   *)
(* the operations the C standard describes, overlapping and empty ranges   *)
(* included: the loops implement MemoryOps.                                *)
(***************************************************************************)
THEOREM LoopsImplementMemoryOps == Spec => ImplementsMemoryOps
<1>1. Init => Abstract!Init BY InitSeen
<1>2. IInv /\ [Next]_vars => [Abstract!Next]_(Abstract!vars) BY NextSeen
<1>3. Spec => []IInv BY LoopsKeepProgress DEF IInv
<1> QED
  BY <1>1, <1>2, <1>3, PTL DEF Spec, ImplementsMemoryOps, Abstract!Spec
================================================================================
