------------------------------ MODULE HeapProofs ------------------------------
(***************************************************************************)
(* Proofs about Heap, for any number of pages, any classes and any         *)
(* requests.                                                               *)
(*                                                                         *)
(* The properties follow links, the ones between the free objects of a     *)
(* slab and the ones between the slabs of a class.  The invariant says     *)
(* that each of these lists is a numbering of the set it stands for, so    *)
(* that an object or a page put on a list, or taken off it, is one element *)
(* more or less in that set.                                               *)
(***************************************************************************)
EXTENDS Heap, FiniteSetTheorems, TLAPS

------------------------------------------------------------------------------
(* The inductive invariant.                                                *)

(* g numbers the m elements of S in the order of a list: it begins with    *)
(* first, nx links each element to the next, and the last one to 0.        *)
Numbers(g, S, m, first, nx) ==
  /\ g[0] = first /\ g[m] = 0
  /\ \A i \in 0 .. (m - 1) : g[i] \in S /\ nx[g[i]] = g[i + 1]
  /\ \A i, j \in 0 .. (m - 1) : g[i] = g[j] => i = j
  /\ \A x \in S : \E i \in 0 .. (m - 1) : g[i] = x

(* The list that begins with first visits the m elements of S once each. *)
List(S, m, first, nx) == \E g \in [0 .. m -> S \cup {0}] : Numbers(g, S, m, first, nx)

Page ==
  [ magic : {"none", "small", "large"}, object_size : Nat, free_count : Nat,
    free_list : Offsets \cup {0}, next : Frames \cup {0}, bitmap : SUBSET Nat,
    word : [Offsets -> Offsets \cup {0, ClientData}], page_count : Nat ]

Object == [page : Frames, off : Offsets \cup {LargeHeader}, bytes : RequestSizes]

Types ==
  /\ free \subseteq Frames /\ held \subseteq Frames
  /\ partial_pages \in [Classes -> Frames \cup {0}]
  /\ mem \in [Frames -> Page]
  /\ live \subseteq Object
  /\ rejectsAligned \in BOOLEAN

IsLarge(o) == o.off = LargeHeader
Block(o)   == PA!Run(o.page, BlockPages(PagesFor(o.bytes)))

(* The pages are somebody's or free.  A large object has its whole block,  *)
(* and the header kfree will find is the one kmalloc has written.          *)
Owned ==
  /\ free \cap held = {} /\ others \subseteq held
  /\ \A o \in live : IsLarge(o) =>
       /\ Block(o) \subseteq held \ others
       /\ o.bytes # 0 /\ PagesFor(o.bytes) <= 2^18
       /\ mem[o.page].magic = "large" /\ mem[o.page].page_count = PagesFor(o.bytes)
  /\ \A o, x \in live : IsLarge(o) /\ IsLarge(x) => o = x \/ Block(o) \cap Block(x) = {}

(* What is left of a slab in a page that was given back has no object. *)
Stale == \A p \in Frames \ SlabPages : mem[p].magic = "small" => mem[p].bitmap = {}

(* The records of a slab of class c: where there is room for objects, the  *)
(* free list visits those that are not in the bitmap.                      *)
ObjectsAt(size, is) == { ObjectAt(size, i) : i \in is }
Slab(m, c) ==
  LET size == heap_cache_sizes[c]
      n    == total_objects(size)
  IN  /\ m.magic = "small" /\ m.object_size = size
      /\ m.bitmap \subseteq 0 .. (n - 1)
      /\ n > 0 => List(ObjectsAt(size, (0 .. (n - 1)) \ m.bitmap), m.free_count, m.free_list, m.word)
      /\ n = 0 => m.free_count = 0 /\ m.free_list = SlabHeader

Slabs == \A p \in SlabPages : \E c \in Classes : Slab(mem[p], c)

(* Objects of a slab can be taken, and then a slab is kept only while one is. *)
Serving(c) == ~rejectsAligned /\ total_objects(heap_cache_sizes[c]) > 0
Used ==
  \A c \in Classes :
    /\ \A p \in SlabsOf(c) : mem[p].bitmap # {} <=> Serving(c)
    /\ ~Serving(c) => \A p, q \in SlabsOf(c) : p = q

(* A small object is one whose bit is set, large enough for the caller. *)
IsObject(o, c) ==
  /\ o.page \in SlabsOf(c)
  /\ \E i \in mem[o.page].bitmap : o.off = ObjectAt(heap_cache_sizes[c], i)
  /\ o.bytes # 0 /\ o.bytes <= heap_cache_sizes[c]
Objects ==
  /\ \A o \in live : ~IsLarge(o) => \E c \in Classes : IsObject(o, c)
  /\ \A c \in Classes : \A p \in SlabsOf(c) : \A i \in mem[p].bitmap :
       IsLive(p, ObjectAt(heap_cache_sizes[c], i))
  /\ \A o, x \in live : ~IsLarge(o) /\ o.page = x.page /\ o.off = x.off => o = x

(* The list of a class visits its slabs that have a free object, or that   *)
(* never had one.                                                          *)
Nexts(memory) == [p \in Frames |-> memory[p].next]
Partial(c) ==
  { p \in SlabsOf(c) : mem[p].free_count > 0 \/ total_objects(heap_cache_sizes[c]) = 0 }
Lists ==
  \A c \in Classes : List(Partial(c), Cardinality(Partial(c)), partial_pages[c], Nexts(mem))

IndInv == Types /\ Owned /\ Stale /\ Slabs /\ Used /\ Objects /\ Lists

------------------------------------------------------------------------------
(* Lists.                                                                  *)

(* A non-empty set of natural numbers has a least member.  (The induction  *)
(* theorems of the library have an operator as parameter, which the        *)
(* provers do not instantiate; that strict inclusion of finite sets is     *)
(* well-founded is stated without one.)                                    *)
LEMMA LeastNat ==
  ASSUME NEW T, T \subseteq Nat, T # {}
  PROVE  \E n \in T : \A m \in T : n <= m
<1> DEFINE I(n) == 0 .. n
           U    == { I(n) : n \in T }
           R    == StrictSubsetOrdering(Nat)
<1>1. U \subseteq FiniteSubsetsOf(Nat) /\ U # {}
  <2>1. ASSUME NEW n \in T PROVE I(n) \in FiniteSubsetsOf(Nat)
    BY FS_Interval DEF FiniteSubsetsOf
  <2> QED BY <2>1
<1>2. IsWellFoundedOn(R, FiniteSubsetsOf(Nat))
  BY FS_StrictSubsetOrderingWellFounded
<1>3. PICK X \in U : \A Y \in U : ~(<<Y, X>> \in R)
  <2> HIDE DEF U, R
  <2> QED BY <1>1, <1>2, WFMin
<1>4. PICK n \in T : X = I(n)
  OBVIOUS
<1>5. ASSUME NEW m \in T, m < n PROVE FALSE
  <2>1. I(m) \in U /\ I(m) \subseteq I(n) /\ n \in I(n) /\ n \notin I(m)
    BY <1>5
  <2>2. <<I(m), I(n)>> \in R
    BY <2>1 DEF StrictSubsetOrdering
  <2> QED BY <1>3, <1>4, <2>1, <2>2
<1> QED BY <1>5

(* A set that holds 0 and, with a number below N, the next, holds 0 .. N.  *)
LEMMA UpTo ==
  ASSUME NEW N \in Nat, NEW S, 0 \in S,
         \A n \in 0 .. (N - 1) : n \in S => n + 1 \in S
  PROVE  0 .. N \subseteq S
<1> DEFINE T == { n \in 0 .. N : n \notin S }
<1>1. SUFFICES ASSUME T # {} PROVE FALSE
  OBVIOUS
<1>2. PICK n \in T : \A m \in T : n <= m
  <2>1. T \subseteq Nat
    OBVIOUS
  <2> HIDE DEF T
  <2> QED BY <1>1, <2>1, LeastNat
<1>3. n \in 1 .. N
  OBVIOUS
<1>4. n - 1 \in 0 .. (N - 1) /\ n - 1 \in 0 .. N /\ n - 1 \notin T
  BY <1>2, <1>3
<1>5. n - 1 \in S
  BY <1>4
<1>6. (n - 1) + 1 \in S
  BY <1>4, <1>5
<1> QED BY <1>3, <1>6

(* What a list begins with. *)
LEMMA ListFirst ==
  ASSUME NEW S, NEW m \in Nat, NEW first, NEW nx, 0 \notin S, List(S, m, first, nx)
  PROVE  /\ first \in S \cup {0}
         /\ first = 0 <=> S = {}
         /\ m = 0 <=> S = {}
<1>1. PICK g \in [0 .. m -> S \cup {0}] : Numbers(g, S, m, first, nx)
  BY DEF List
<1>2. CASE m = 0
  BY <1>1, <1>2 DEF Numbers
<1>3. CASE m # 0
  <2>1. 0 \in 0 .. (m - 1)
    BY <1>3
  <2> QED BY <1>1, <1>3, <2>1 DEF Numbers
<1> QED BY <1>2, <1>3

(* Links outside the list do not matter. *)
LEMMA ListSame ==
  ASSUME NEW S, NEW m \in Nat, NEW first, NEW nx, NEW ny, List(S, m, first, nx),
         \A x \in S : ny[x] = nx[x]
  PROVE  List(S, m, first, ny)
<1>1. PICK g \in [0 .. m -> S \cup {0}] : Numbers(g, S, m, first, nx)
  BY DEF List
<1>2. Numbers(g, S, m, first, ny)
  BY <1>1 DEF Numbers
<1> QED BY <1>2 DEF List

LEMMA ListEmpty == ASSUME NEW nx PROVE List({}, 0, 0, nx)
<1> DEFINE g == [i \in 0 .. 0 |-> 0]
<1>1. g \in [0 .. 0 -> {} \cup {0}] /\ Numbers(g, {}, 0, 0, nx)
  BY DEF Numbers
<1> QED BY <1>1 DEF List

(* x is put before the first element. *)
LEMMA ListPush ==
  ASSUME NEW S, NEW m \in Nat, NEW first, NEW nx, NEW ny, NEW x, List(S, m, first, nx),
         x \notin S, ny[x] = first, \A y \in S : ny[y] = nx[y]
  PROVE  List(S \cup {x}, m + 1, x, ny)
<1>1. PICK g \in [0 .. m -> S \cup {0}] : Numbers(g, S, m, first, nx)
  BY DEF List
<1> DEFINE h == [i \in 0 .. (m + 1) |-> IF i = 0 THEN x ELSE g[i - 1]]
<1>2. h \in [0 .. (m + 1) -> (S \cup {x}) \cup {0}]
  <2>1. \A i \in 0 .. (m + 1) : i # 0 => i - 1 \in 0 .. m
    OBVIOUS
  <2> QED BY <2>1
<1>3. h[0] = x /\ h[m + 1] = 0 /\ \A i \in 0 .. m : h[i + 1] = g[i]
  BY <1>1 DEF Numbers
<1>4. ASSUME NEW i \in 0 .. m PROVE h[i] \in S \cup {x} /\ ny[h[i]] = h[i + 1]
  <2>1. CASE i = 0
    <3>1. 0 \in 0 .. m /\ h[0 + 1] = g[0]
      BY <1>3
    <3> QED BY <1>1, <1>3, <2>1, <3>1 DEF Numbers
  <2>2. CASE i # 0
    <3>1. i - 1 \in 0 .. (m - 1) /\ (i - 1) + 1 = i /\ h[i] = g[i - 1] /\ h[i + 1] = g[i]
      BY <2>2, <1>3
    <3>2. g[i - 1] \in S /\ nx[g[i - 1]] = g[i]
      BY <1>1, <3>1 DEF Numbers
    <3> QED BY <3>1, <3>2
  <2> QED BY <2>1, <2>2
<1>5. ASSUME NEW i \in 0 .. m, NEW j \in 0 .. m, h[i] = h[j] PROVE i = j
  <2>1. ASSUME NEW k \in 0 .. m, k # 0
        PROVE  k - 1 \in 0 .. (m - 1) /\ h[k] = g[k - 1] /\ g[k - 1] \in S
    <3>1. k - 1 \in 0 .. (m - 1)
      BY <2>1
    <3> QED BY <1>1, <2>1, <3>1 DEF Numbers
  <2>2. CASE i = 0 \/ j = 0
    <3> HIDE DEF h
    <3> QED BY <1>3, <1>5, <2>1, <2>2
  <2>3. CASE i # 0 /\ j # 0
    <3>1. i - 1 = j - 1
      BY <1>1, <1>5, <2>1, <2>3 DEF Numbers
    <3> QED BY <3>1
  <2> QED BY <2>2, <2>3
<1>6. ASSUME NEW y \in S \cup {x} PROVE \E i \in 0 .. m : h[i] = y
  <2>1. CASE y = x
    BY <1>3, <2>1
  <2>2. CASE y \in S
    <3>1. PICK i \in 0 .. (m - 1) : g[i] = y
      BY <1>1, <2>2 DEF Numbers
    <3>2. i + 1 \in 0 .. m /\ h[i + 1] = y
      BY <1>3, <3>1
    <3> QED BY <3>2
  <2> QED BY <2>1, <2>2
<1> HIDE DEF h
<1>7. (m + 1) - 1 = m
  OBVIOUS
<1>8. Numbers(h, S \cup {x}, m + 1, x, ny)
  BY <1>3, <1>4, <1>5, <1>6, <1>7 DEF Numbers
<1> QED BY <1>2, <1>8 DEF List

(* The first element is taken off. *)
LEMMA ListPop ==
  ASSUME NEW S, NEW m \in Nat, NEW first, NEW nx, NEW ny, List(S, m, first, nx),
         0 \notin S, first # 0, \A y \in S \ {first} : ny[y] = nx[y]
  PROVE  m > 0 /\ List(S \ {first}, m - 1, nx[first], ny)
<1>1. PICK g \in [0 .. m -> S \cup {0}] : Numbers(g, S, m, first, nx)
  BY DEF List
<1>2. m > 0 /\ m - 1 \in Nat
  BY <1>1 DEF Numbers
<1> DEFINE h == [i \in 0 .. (m - 1) |-> g[i + 1]]
           T == S \ {first}
<1>3. ASSUME NEW i \in 0 .. (m - 2) PROVE h[i] \in T /\ ny[h[i]] = h[i + 1]
  <2>1. i + 1 \in 0 .. (m - 1) /\ 0 \in 0 .. (m - 1) /\ i + 1 # 0 /\ h[i] = g[i + 1]
        /\ h[i + 1] = g[(i + 1) + 1]
    BY <1>2
  <2>2. g[i + 1] \in S /\ nx[g[i + 1]] = g[(i + 1) + 1] /\ g[i + 1] # first
    BY <1>1, <2>1 DEF Numbers
  <2> QED BY <2>1, <2>2
<1>4. h[0] = nx[first] /\ h[m - 1] = 0
  <2>1. 0 \in 0 .. (m - 1) /\ m - 1 \in 0 .. (m - 1) /\ (m - 1) + 1 = m /\ 0 + 1 = 1
    BY <1>2
  <2> QED BY <1>1, <2>1 DEF Numbers
<1>5. h \in [0 .. (m - 1) -> T \cup {0}]
  <2>1. ASSUME NEW i \in 0 .. (m - 1) PROVE h[i] \in T \cup {0}
    <3>1. CASE i = m - 1
      BY <1>4, <3>1
    <3>2. CASE i # m - 1
      <4>1. i \in 0 .. (m - 2)
        BY <1>2, <3>2
      <4> QED BY <1>3, <4>1
    <3> QED BY <3>1, <3>2
  <2> QED BY <2>1
<1>6. ASSUME NEW i \in 0 .. (m - 2), NEW j \in 0 .. (m - 2), h[i] = h[j] PROVE i = j
  <2>1. i + 1 \in 0 .. (m - 1) /\ j + 1 \in 0 .. (m - 1) /\ g[i + 1] = g[j + 1]
    BY <1>2, <1>6
  <2>2. i + 1 = j + 1
    BY <1>1, <2>1 DEF Numbers
  <2> QED BY <2>2
<1>7. ASSUME NEW y \in T PROVE \E i \in 0 .. (m - 2) : h[i] = y
  <2>1. PICK i \in 0 .. (m - 1) : g[i] = y
    BY <1>1 DEF Numbers
  <2>2. i # 0
    BY <1>1, <2>1 DEF Numbers
  <2>3. i - 1 \in 0 .. (m - 2) /\ h[i - 1] = y
    BY <1>2, <2>1, <2>2
  <2> QED BY <2>3
<1> HIDE DEF h, T
<1>8. (m - 1) - 1 = m - 2
  BY <1>2
<1>9. Numbers(h, T, m - 1, nx[first], ny)
  BY <1>3, <1>4, <1>6, <1>7, <1>8 DEF Numbers
<1> QED BY <1>2, <1>5, <1>9 DEF List, T

(* An element x that is not the first is taken off: the one before it, and *)
(* only that one, is linked to it.                                         *)
Before(q, x, S, m, first, nx) ==
  /\ q # x /\ nx[q] = x /\ \A y \in S : nx[y] = x => y = q
  /\ \A ny : ny[q] = nx[x] /\ (\A y \in S \ {x, q} : ny[y] = nx[y])
               => List(S \ {x}, m - 1, first, ny)

LEMMA ListRemove ==
  ASSUME NEW S, NEW m \in Nat, NEW first, NEW nx, List(S, m, first, nx),
         NEW x \in S, x # first, 0 \notin S
  PROVE  \E q \in S : Before(q, x, S, m, first, nx)
<1>1. PICK g \in [0 .. m -> S \cup {0}] : Numbers(g, S, m, first, nx)
  BY DEF List
<1>2. PICK k \in 0 .. (m - 1) : g[k] = x
  BY <1>1 DEF Numbers
<1>3. k # 0
  BY <1>1, <1>2 DEF Numbers
<1>4. /\ m > 1 /\ m - 1 \in Nat /\ k - 1 \in 0 .. (m - 1) /\ (k - 1) + 1 = k /\ k - 1 # k
      /\ k - 1 \in 0 .. (m - 2)
  BY <1>2, <1>3
<1> DEFINE q == g[k - 1]
           T == S \ {x}
           h == [i \in 0 .. (m - 1) |-> IF i < k THEN g[i] ELSE g[i + 1]]
<1>5. q \in S /\ q # x /\ nx[q] = x
  BY <1>1, <1>2, <1>4 DEF Numbers
<1>6. ASSUME NEW y \in S, nx[y] = x PROVE y = q
  <2>1. PICK j \in 0 .. (m - 1) : g[j] = y
    BY <1>1 DEF Numbers
  <2>2. g[j + 1] = x /\ j + 1 \in 0 .. m
    BY <1>1, <1>6, <2>1 DEF Numbers
  <2>3. j + 1 # m
    BY <1>1, <2>2 DEF Numbers
  <2>4. j + 1 \in 0 .. (m - 1)
    BY <2>2, <2>3
  <2>5. j + 1 = k
    BY <1>1, <1>2, <2>2, <2>4 DEF Numbers
  <2>6. j = k - 1
    BY <2>5, <1>4
  <2> QED BY <2>1, <2>6
<1>7. ASSUME NEW ny, ny[q] = nx[x], \A y \in S \ {x, q} : ny[y] = nx[y]
      PROVE  List(T, m - 1, first, ny)
  <2>1. h[0] = first /\ h[m - 1] = 0
    <3>1. 0 \in 0 .. (m - 1) /\ m - 1 \in 0 .. (m - 1) /\ ~(m - 1 < k) /\ (m - 1) + 1 = m /\ 0 < k
      BY <1>2, <1>3, <1>4
    <3> QED BY <1>1, <3>1 DEF Numbers
  <2>2. ASSUME NEW i \in 0 .. (m - 2) PROVE h[i] \in T /\ ny[h[i]] = h[i + 1]
    <3>1. i \in 0 .. (m - 1) /\ i + 1 \in 0 .. (m - 1)
      BY <1>4
    <3>2. CASE i < k - 1
      <4>1. h[i] = g[i] /\ h[i + 1] = g[i + 1] /\ i # k /\ i # k - 1
        BY <3>1, <3>2
      <4>2. g[i] \in S /\ nx[g[i]] = g[i + 1] /\ g[i] # x /\ g[i] # q
        BY <1>1, <1>2, <1>4, <3>1, <4>1 DEF Numbers
      <4> QED BY <1>7, <4>1, <4>2
    <3>3. CASE i = k - 1
      <4>1. h[i] = q /\ h[i + 1] = g[k + 1]
        BY <1>4, <3>1, <3>3
      <4>2. nx[x] = g[k + 1]
        BY <1>1, <1>2 DEF Numbers
      <4> QED BY <1>5, <1>7, <4>1, <4>2
    <3>4. CASE i >= k
      <4>1. h[i] = g[i + 1] /\ h[i + 1] = g[(i + 1) + 1] /\ i + 1 # k /\ i + 1 # k - 1
        BY <3>1, <3>4
      <4>2. g[i + 1] \in S /\ nx[g[i + 1]] = g[(i + 1) + 1] /\ g[i + 1] # x /\ g[i + 1] # q
        BY <1>1, <1>2, <1>4, <3>1, <4>1 DEF Numbers
      <4> QED BY <1>7, <4>1, <4>2
    <3> QED BY <3>2, <3>3, <3>4, <1>2
  <2>3. h \in [0 .. (m - 1) -> T \cup {0}]
    <3>1. ASSUME NEW i \in 0 .. (m - 1) PROVE h[i] \in T \cup {0}
      <4>1. CASE i = m - 1
        BY <2>1, <4>1
      <4>2. CASE i # m - 1
        <5>1. i \in 0 .. (m - 2)
          BY <1>4, <4>2
        <5> QED BY <2>2, <5>1
      <4> QED BY <4>1, <4>2
    <3> QED BY <3>1
  <2>4. ASSUME NEW i \in 0 .. (m - 2), NEW j \in 0 .. (m - 2), h[i] = h[j] PROVE i = j
    <3> DEFINE At(n) == IF n < k THEN n ELSE n + 1
    <3>1. /\ At(i) \in 0 .. (m - 1) /\ At(j) \in 0 .. (m - 1)
          /\ h[i] = g[At(i)] /\ h[j] = g[At(j)]
      BY <1>4
    <3>2. At(i) = At(j)
      <4>1. \A u, v \in 0 .. (m - 1) : g[u] = g[v] => u = v
        BY <1>1 DEF Numbers
      <4> HIDE DEF At, h
      <4> QED BY <2>4, <3>1, <4>1
    <3> QED BY <1>2, <3>2
  <2>5. ASSUME NEW y \in T PROVE \E i \in 0 .. (m - 2) : h[i] = y
    <3>1. PICK j \in 0 .. (m - 1) : g[j] = y
      BY <1>1 DEF Numbers
    <3>2. j # k
      BY <1>2, <3>1
    <3>3. CASE j < k
      <4>1. j \in 0 .. (m - 2) /\ h[j] = y
        BY <1>2, <1>4, <3>1, <3>3
      <4> QED BY <4>1
    <3>4. CASE j > k
      <4>1. j - 1 \in 0 .. (m - 2) /\ j - 1 \in 0 .. (m - 1) /\ ~(j - 1 < k) /\ (j - 1) + 1 = j
        BY <1>2, <1>4, <3>4
      <4>2. h[j - 1] = y
        BY <3>1, <4>1
      <4> QED BY <4>1, <4>2
    <3> QED BY <3>2, <3>3, <3>4, <1>2, SMTT(30)
  <2> HIDE DEF h, T
  <2>6. (m - 1) - 1 = m - 2
    BY <1>4
  <2>7. Numbers(h, T, m - 1, first, ny)
    BY <2>1, <2>2, <2>4, <2>5, <2>6 DEF Numbers
  <2> QED BY <2>3, <2>7 DEF List
<1>8. Before(q, x, S, m, first, nx)
  BY <1>5, <1>6, <1>7 DEF Before
<1> QED BY <1>5, <1>8

(* The length of a list is the number of its elements. *)
LEMMA ListLength ==
  ASSUME NEW S, NEW m \in Nat, NEW first, NEW nx, 0 \notin S, List(S, m, first, nx)
  PROVE  IsFiniteSet(S) /\ Cardinality(S) = m
<1>1. PICK g \in [0 .. m -> S \cup {0}] : Numbers(g, S, m, first, nx)
  BY DEF List
<1> DEFINE f == [i \in 1 .. m |-> g[i - 1]]
<1>2. \A i \in 1 .. m : i - 1 \in 0 .. (m - 1) /\ i - 1 \in 0 .. m
  OBVIOUS
<1>3. f \in [1 .. m -> S]
  BY <1>1, <1>2 DEF Numbers
<1>4. ASSUME NEW i \in 1 .. m, NEW j \in 1 .. m, f[i] = f[j] PROVE i = j
  <2>1. i - 1 = j - 1
    BY <1>1, <1>2, <1>4 DEF Numbers
  <2> QED BY <2>1
<1>5. ASSUME NEW y \in S PROVE \E i \in 1 .. m : f[i] = y
  <2>1. PICK i \in 0 .. (m - 1) : g[i] = y
    BY <1>1 DEF Numbers
  <2>2. i + 1 \in 1 .. m /\ f[i + 1] = y
    BY <2>1
  <2> QED BY <2>2
<1> HIDE DEF f
<1>6. f \in Bijection(1 .. m, S)
  BY <1>3, <1>4, <1>5 DEF Bijection, Injection, Surjection, IsInjective
<1>7. ExistsBijection(1 .. m, S)
  BY <1>6 DEF ExistsBijection
<1> QED BY <1>7, FS_CountingElements, FS_NatBijection

(* Two sequences that begin alike and go on alike are alike. *)
LEMMA Agree ==
  ASSUME NEW N \in Nat, NEW a, NEW b, a[0] = b[0],
         \A i \in 1 .. N : a[i - 1] = b[i - 1] => a[i] = b[i]
  PROVE  \A i \in 0 .. N : a[i] = b[i]
<1> DEFINE S == { i \in 0 .. N : a[i] = b[i] }
<1>1. 0 \in S
  OBVIOUS
<1>2. ASSUME NEW n \in 0 .. (N - 1), n \in S PROVE n + 1 \in S
  <2>1. n + 1 \in 1 .. N /\ n + 1 \in 0 .. N /\ (n + 1) - 1 = n
    OBVIOUS
  <2> QED BY <1>2, <2>1
<1>3. 0 .. N \subseteq S
  <2> HIDE DEF S
  <2> QED BY <1>1, <1>2, UpTo
<1> QED BY <1>3

(* The numbering of a list, with 0 behind its end, follows the links. *)
Padded(g, m, N) == [i \in 0 .. N |-> IF i <= m THEN g[i] ELSE 0]
Follows(h, S, N, first, nx) ==
  /\ h[0] = first
  /\ \A i \in 1 .. N : \/ h[i - 1] = 0 /\ h[i] = 0
                       \/ h[i - 1] \in S /\ h[i] = nx[h[i - 1]]

LEMMA NumbersFollow ==
  ASSUME NEW S, NEW m \in Nat, NEW first, NEW nx, 0 \notin S, NEW g, Numbers(g, S, m, first, nx),
         NEW N \in Nat
  PROVE  Follows(Padded(g, m, N), S, N, first, nx)
<1> DEFINE h == Padded(g, m, N)
<1>1. \A i \in 0 .. N : h[i] = IF i <= m THEN g[i] ELSE 0
  BY DEF Padded
<1> HIDE DEF h
<1>2. h[0] = first
  BY <1>1 DEF Numbers
<1>3. ASSUME NEW i \in 1 .. N
      PROVE  \/ h[i - 1] = 0 /\ h[i] = 0
             \/ h[i - 1] \in S /\ h[i] = nx[h[i - 1]]
  <2>1. i - 1 \in 0 .. N /\ i \in 0 .. N /\ (i - 1) + 1 = i
    OBVIOUS
  <2>2. CASE i <= m
    <3>1. i - 1 \in 0 .. (m - 1) /\ i - 1 <= m
      BY <2>2
    <3>2. g[i - 1] \in S /\ nx[g[i - 1]] = g[i]
      BY <2>1, <3>1 DEF Numbers
    <3> QED BY <1>1, <2>1, <2>2, <3>1, <3>2
  <2>3. CASE i = m + 1
    <3>1. i - 1 = m
      BY <2>3
    <3> QED BY <1>1, <2>1, <2>3, <3>1 DEF Numbers
  <2>4. CASE i > m + 1
    <3>1. ~(i - 1 <= m) /\ ~(i <= m)
      BY <2>4
    <3> QED BY <1>1, <2>1, <3>1
  <2> QED BY <2>2, <2>3, <2>4
<1> QED BY <1>2, <1>3 DEF Follows, h

(* Walk is the numbering of the list it follows. *)
LEMMA WalkNumbers ==
  ASSUME NEW memory, NEW S, NEW m \in Nat, NEW first, 0 \notin S, S \subseteq Frames,
         NEW g, Numbers(g, S, m, first, Nexts(memory)), NEW i \in 0 .. Cardinality(Frames)
  PROVE  Walk(memory, first)[i] = IF i <= m THEN g[i] ELSE 0
<1> DEFINE N == Cardinality(Frames)
           h == Padded(g, m, N)
           After(x) == IF x = 0 THEN 0 ELSE memory[x].next
           Rec(f) == [k \in 0 .. N |-> IF k = 0 THEN first ELSE After(f[k - 1])]
           at == CHOOSE f : f = Rec(f)
<1>1. N \in Nat
  BY FS_CardinalityType, HeapAssumption
<1>2. /\ h[0] = first
      /\ \A k \in 1 .. N : h[k] = After(h[k - 1])
  <2>1. Follows(h, S, N, first, Nexts(memory))
    <3> HIDE DEF N
    <3> QED BY <1>1, NumbersFollow
  <2>2. \A x \in S : x # 0 /\ Nexts(memory)[x] = memory[x].next
    BY DEF Nexts
  <2> HIDE DEF h
  <2> QED BY <2>1, <2>2 DEF Follows
<1>3. h = Rec(h)
  <2>1. \A k \in 0 .. N : h[k] = IF k = 0 THEN first ELSE After(h[k - 1])
    <3> HIDE DEF h, After, N
    <3> QED BY <1>1, <1>2
  <2>2. h = [k \in 0 .. N |-> h[k]]
    BY DEF Padded
  <2> HIDE DEF h, After
  <2> QED BY <2>1, <2>2
<1>4. at = Rec(at)
  <2> HIDE DEF h, Rec
  <2> QED BY <1>3
<1>5. Walk(memory, first) = at
  BY DEF Walk
<1> HIDE DEF at, h
<1>6. at[0] = first /\ \A k \in 1 .. N : at[k] = After(at[k - 1])
  <2> HIDE DEF After
  <2> QED BY <1>1, <1>4
<1>7. \A k \in 0 .. N : at[k] = h[k]
  <2> HIDE DEF After, N
  <2> QED BY <1>1, <1>2, <1>6, Agree
<1> QED BY <1>5, <1>7 DEF h, Padded

(* So the pages on a list are the ones the list was made of. *)
LEMMA WalkVisits ==
  ASSUME NEW memory, NEW S, NEW m \in Nat, NEW first, S \subseteq Frames,
         List(S, m, first, Nexts(memory))
  PROVE  /\ OnList(memory, first) = S
         /\ Walk(memory, first)[Cardinality(Frames)] = 0
<1> DEFINE N == Cardinality(Frames)
           w == Walk(memory, first)
<1>1. 0 \notin S /\ IsFiniteSet(Frames)
  BY HeapAssumption
<1>2. PICK g \in [0 .. m -> S \cup {0}] : Numbers(g, S, m, first, Nexts(memory))
  BY DEF List
<1>3. N \in Nat /\ m <= N
  <2>1. Cardinality(S) = m
    BY <1>1, ListLength
  <2> QED BY <1>1, <2>1, FS_Subset, FS_CardinalityType
<1>4. \A i \in 0 .. N : w[i] = IF i <= m THEN g[i] ELSE 0
  BY <1>1, <1>2, WalkNumbers
<1>5. OnList(memory, first) = { w[i] : i \in 0 .. N } \ {0}
  BY DEF OnList
<1> HIDE DEF w, N
<1>6. w[N] = 0
  BY <1>2, <1>3, <1>4 DEF Numbers
<1>7. ASSUME NEW i \in 0 .. N PROVE w[i] \in S \cup {0}
  BY <1>4
<1>8. ASSUME NEW x \in S PROVE \E i \in 0 .. N : w[i] = x
  <2>1. PICK i \in 0 .. (m - 1) : g[i] = x
    BY <1>2 DEF Numbers
  <2>2. i \in 0 .. N /\ i <= m
    BY <1>3
  <2> QED BY <1>4, <2>1, <2>2
<1> QED BY <1>1, <1>5, <1>6, <1>7, <1>8 DEF w, N

(* The same of the free list of a page. *)
LEMMA FreeChainNumbers ==
  ASSUME NEW p, NEW S, NEW m \in Nat, 0 \notin S, S \subseteq Offsets, 0 \notin Offsets,
         mem[p].free_count = m, NEW g,
         Numbers(g, S, m, mem[p].free_list, mem[p].word), NEW i \in 0 .. m
  PROVE  FreeChain(p)[i] = g[i]
<1> DEFINE h == Padded(g, m, m)
           After(x) == IF x \in Offsets THEN mem[p].word[x] ELSE 0
           Rec(f) == [k \in 0 .. m |-> IF k = 0 THEN mem[p].free_list ELSE After(f[k - 1])]
           at == CHOOSE f : f = Rec(f)
<1>2. /\ h[0] = mem[p].free_list
      /\ \A k \in 1 .. m : h[k] = After(h[k - 1])
  <2>1. Follows(h, S, m, mem[p].free_list, mem[p].word)
    BY NumbersFollow
  <2> HIDE DEF h
  <2> QED BY <2>1 DEF Follows
<1>3. h = Rec(h)
  <2>1. \A k \in 0 .. m : h[k] = IF k = 0 THEN mem[p].free_list ELSE After(h[k - 1])
    <3> HIDE DEF h, After
    <3> QED BY <1>2
  <2>2. h = [k \in 0 .. m |-> h[k]]
    BY DEF Padded
  <2> HIDE DEF h, After
  <2> QED BY <2>1, <2>2
<1>4. at = Rec(at)
  <2> HIDE DEF h, Rec
  <2> QED BY <1>3
<1>5. FreeChain(p) = at
  BY DEF FreeChain
<1> HIDE DEF at, h
<1>6. at[0] = mem[p].free_list /\ \A k \in 1 .. m : at[k] = After(at[k - 1])
  <2> HIDE DEF After
  <2> QED BY <1>4
<1>7. \A k \in 0 .. m : at[k] = h[k]
  <2> HIDE DEF After
  <2> QED BY <1>2, <1>6, Agree
<1> QED BY <1>5, <1>7 DEF h, Padded

------------------------------------------------------------------------------
(* Sizes, offsets and blocks.                                              *)

LEMMA Quotient ==
  ASSUME NEW a \in Nat, NEW b \in Nat \ {0}
  PROVE  /\ a \div b \in Nat /\ (a % b) \in 0 .. (b - 1)
         /\ (a \div b) * b \in Nat /\ a = (a \div b) * b + (a % b)
OBVIOUS

LEMMA Monotone ==
  ASSUME NEW a \in Int, NEW b \in Int, a < b, NEW k \in Nat
  PROVE  a * k \in Int /\ b * k \in Int /\ a * k + k <= b * k
<1>1. PICK d \in Nat : b = a + 1 + d
  <2>1. b - a - 1 \in Nat /\ b = a + 1 + (b - a - 1)
    OBVIOUS
  <2> QED BY <2>1
<1>2. b * k = a * k + k + d * k /\ d * k >= 0
  BY <1>1
<1> QED BY <1>2

LEMMA Divides ==
  ASSUME NEW q \in Nat, NEW b \in Nat \ {0}, NEW r \in 0 .. (b - 1)
  PROVE  (q * b + r) \div b = q /\ (q * b + r) % b = r
<1> DEFINE a == q * b + r
           e == a \div b
           s == a % b
<1>1. a \in Nat /\ e \in Nat /\ s \in 0 .. (b - 1) /\ a = b * e + s
  OBVIOUS
<1>2. e * b = b * e /\ q * b = b * q /\ e * b \in Int /\ q * b \in Int
  BY <1>1
<1> HIDE DEF e, s
<1>3. ~(e < q)
  <2> SUFFICES ASSUME e < q PROVE FALSE
    OBVIOUS
  <2>1. e * b + b <= q * b
    BY <1>1, Monotone
  <2> QED BY <1>1, <1>2, <2>1
<1>4. ~(q < e)
  <2> SUFFICES ASSUME q < e PROVE FALSE
    OBVIOUS
  <2>1. q * b + b <= e * b
    BY <1>1, Monotone
  <2> QED BY <1>1, <1>2, <2>1
<1>5. e = q
  BY <1>1, <1>3, <1>4
<1>6. s = r
  BY <1>1, <1>2, <1>5
<1> QED BY <1>5, <1>6 DEF e, s

(* The object sizes of two classes differ. *)
LEMMA ClassSizes ==
  /\ \A c \in Classes : heap_cache_sizes[c] \in Nat \ {0} /\ c \in Nat
  /\ \A c, d \in Classes : heap_cache_sizes[c] = heap_cache_sizes[d] => c = d
<1>1. Classes = 1 .. Len(heap_cache_sizes) /\ Len(heap_cache_sizes) \in Nat
  BY HeapAssumption DEF Classes
<1>2. \A c \in Classes : heap_cache_sizes[c] \in Nat \ {0} /\ c \in Nat
  BY <1>1, HeapAssumption
<1>3. ASSUME NEW c \in Classes, NEW d \in Classes, heap_cache_sizes[c] = heap_cache_sizes[d]
      PROVE  c = d
  <2>1. ~(c < d) /\ ~(d < c)
    BY <1>2, <1>3, HeapAssumption
  <2> QED BY <1>2, <2>1
<1> QED BY <1>2, <1>3

(* heap_cache_index finds a class that is large enough, and for the size   *)
(* of a class that class.                                                  *)
LEMMA CacheIndex ==
  /\ \A size \in Nat : heap_cache_index(size) # -1 =>
        heap_cache_index(size) \in Classes /\ size <= heap_cache_sizes[heap_cache_index(size)]
  /\ \A c \in Classes : heap_cache_index(heap_cache_sizes[c]) = c
<1> DEFINE Rounded(size) == IF size < HEAP_MIN_OBJECT_SIZE THEN HEAP_MIN_OBJECT_SIZE ELSE size
           Fits(size) == { i \in Classes : Rounded(size) <= heap_cache_sizes[i] }
           Least(size) == CHOOSE i \in Fits(size) : \A j \in Fits(size) : i <= j
<1>1. \A size \in Nat : Rounded(size) \in Nat /\ size <= Rounded(size)
  BY DEF HEAP_MIN_OBJECT_SIZE
<1>2. ASSUME NEW size \in Nat, Fits(size) # {}
      PROVE  Least(size) \in Fits(size) /\ \A j \in Fits(size) : Least(size) <= j
  <2>1. Fits(size) \subseteq Nat
    BY ClassSizes
  <2>2. \E i \in Fits(size) : \A j \in Fits(size) : i <= j
    <3> HIDE DEF Fits
    <3> QED BY <1>2, <2>1, LeastNat
  <2> QED BY <2>2
<1>3. \A size : heap_cache_index(size) = IF Fits(size) = {} THEN -1 ELSE Least(size)
  BY DEF heap_cache_index
<1>4. ASSUME NEW size \in Nat, heap_cache_index(size) # -1
      PROVE  heap_cache_index(size) \in Classes /\ size <= heap_cache_sizes[heap_cache_index(size)]
  <2>1. Fits(size) # {}
    BY <1>3, <1>4
  <2>2. heap_cache_index(size) = Least(size) /\ Least(size) \in Fits(size)
    <3> HIDE DEF Fits, Least
    <3> QED BY <1>2, <1>3, <2>1
  <2> HIDE DEF Least
  <2>3. Least(size) \in Classes /\ Rounded(size) <= heap_cache_sizes[Least(size)]
    BY <2>2
  <2> HIDE DEF Rounded
  <2> QED BY <1>1, <2>2, <2>3, ClassSizes
<1>5. ASSUME NEW c \in Classes PROVE heap_cache_index(heap_cache_sizes[c]) = c
  <2> DEFINE size == heap_cache_sizes[c]
  <2>1. size \in Nat /\ Rounded(size) = size
    BY ClassSizes, HeapAssumption DEF HEAP_MIN_OBJECT_SIZE
  <2>2. c \in Fits(size)
    <3> HIDE DEF Rounded
    <3> QED BY <2>1
  <2>3. heap_cache_index(size) = Least(size) /\ Least(size) \in Fits(size) /\ Least(size) <= c
    <3> HIDE DEF Fits, Least, size
    <3> QED BY <1>2, <1>3, <2>1, <2>2
  <2> HIDE DEF Least
  <2>4. Least(size) \in Classes /\ size <= heap_cache_sizes[Least(size)]
    <3> HIDE DEF Rounded
    <3> QED BY <2>1, <2>3
  <2>5. ~(Least(size) < c)
    BY <2>4, ClassSizes, HeapAssumption
  <2> QED BY <2>3, <2>4, <2>5, ClassSizes
<1> QED BY <1>4, <1>5

(* The objects of a slab lie behind its header, in its page, one after the *)
(* other.                                                                  *)
LEMMA ObjectPlaces ==
  ASSUME NEW c \in Classes, NEW n, n = total_objects(heap_cache_sizes[c]),
         NEW size, size = heap_cache_sizes[c]
  PROVE  /\ n \in Nat
         /\ \A i \in Nat : /\ ObjectAt(size, i) \in Nat /\ ObjectAt(size, i) >= SlabHeader
                           /\ ObjectAt(size, i + 1) = ObjectAt(size, i) + size
         /\ \A i, j \in Nat : i < j => ObjectAt(size, i) + size <= ObjectAt(size, j)
         /\ \A i \in 0 .. (n - 1) : /\ ObjectAt(size, i) \in Offsets
                                    /\ ObjectAt(size, i) + size <= BUDDY_PAGE_SIZE
<1>1. size \in Nat \ {0} /\ SlabHeader \in Nat /\ BUDDY_PAGE_SIZE - SlabHeader \in Nat /\ BUDDY_PAGE_SIZE \in Nat
  BY ClassSizes, HeapAssumption
<1>2. n \in Nat /\ n * size <= BUDDY_PAGE_SIZE - SlabHeader
  <2> DEFINE a == BUDDY_PAGE_SIZE - SlabHeader
             r == a % size
             k == n * size
  <2>1. n = a \div size /\ a \in Nat
    BY <1>1 DEF total_objects
  <2>2. a \in Nat /\ n \in Nat /\ r \in 0 .. (size - 1) /\ k \in Nat /\ a = k + r
    <3> HIDE DEF a
    <3> QED BY <1>1, <2>1, Quotient, Zenon
  <2> HIDE DEF a, k, r
  <2>3. k <= a
    BY <1>1, <2>2
  <2> QED BY <2>2, <2>3 DEF a, k
<1>3. \A i \in Nat : i * size \in Nat /\ (i + 1) * size = i * size + size
  BY <1>1
<1>4. ASSUME NEW i \in Nat, NEW j \in Nat, i < j
      PROVE  ObjectAt(size, i) + size <= ObjectAt(size, j)
  <2>1. i * size + size <= j * size
    BY <1>1, <1>4, Monotone
  <2> QED BY <1>1, <1>3, <2>1 DEF ObjectAt
<1>5. ASSUME NEW i \in 0 .. (n - 1)
      PROVE  ObjectAt(size, i) \in Offsets /\ ObjectAt(size, i) + size <= BUDDY_PAGE_SIZE
  <2>1. ObjectAt(size, i) \in Offsets
    BY DEF Offsets
  <2>2. i * size + size <= n * size /\ n * size \in Int /\ i * size \in Int
    BY <1>1, <1>2, Monotone
  <2> DEFINE k == i * size
             l == n * size
  <2> HIDE DEF k, l
  <2>3. ObjectAt(size, i) = SlabHeader + k
    BY DEF ObjectAt, k
  <2>4. k + size <= l /\ l \in Int /\ k \in Int /\ l <= BUDDY_PAGE_SIZE - SlabHeader
    BY <1>2, <2>2 DEF k, l
  <2> QED BY <1>1, <2>1, <2>3, <2>4
<1>6. ASSUME NEW i \in Nat
      PROVE  /\ ObjectAt(size, i) \in Nat /\ ObjectAt(size, i) >= SlabHeader
             /\ ObjectAt(size, i + 1) = ObjectAt(size, i) + size
  <2> DEFINE k == i * size
  <2>1. k \in Nat /\ ObjectAt(size, i) = SlabHeader + k /\ ObjectAt(size, i + 1) = SlabHeader + (k + size)
    BY <1>3 DEF ObjectAt
  <2> HIDE DEF k
  <2> QED BY <1>1, <2>1
<1> QED BY <1>2, <1>4, <1>5, <1>6

LEMMA OffsetFacts ==
  /\ Offsets \subseteq Nat /\ SlabHeader \in Offsets
  /\ 0 \notin Offsets /\ LargeHeader \notin Offsets /\ ClientData \notin Offsets
  /\ \A o \in Offsets : o >= SlabHeader
<1>1. SlabHeader \in Nat /\ LargeHeader \in Nat /\ LargeHeader < SlabHeader /\ LargeHeader # 0
  BY HeapAssumption
<1>2. ASSUME NEW o \in Offsets PROVE o \in Nat /\ o >= SlabHeader
  <2>1. CASE o = SlabHeader
    BY <1>1, <2>1
  <2>2. CASE o # SlabHeader
    <3>1. PICK c \in Classes :
            \E i \in 0 .. (total_objects(heap_cache_sizes[c]) - 1) : o = ObjectAt(heap_cache_sizes[c], i)
      BY <2>2 DEF Offsets
    <3>2. PICK i \in Nat : o = ObjectAt(heap_cache_sizes[c], i)
      BY <3>1
    <3> QED BY <3>2, ObjectPlaces
  <2> QED BY <2>1, <2>2
<1>3. SlabHeader \in Offsets
  BY DEF Offsets
<1> QED BY <1>1, <1>2, <1>3 DEF ClientData

(* The index of an object is found again from its offset, unless offsets   *)
(* of objects are what object_index rejects.                               *)
LEMMA ObjectIndex ==
  ASSUME NEW c \in Classes, rejectsAligned \in BOOLEAN
  PROVE  LET size == heap_cache_sizes[c]
             n    == total_objects(size)
         IN  /\ \A i \in 0 .. (n - 1) :
                  object_index(ObjectAt(size, i), size) = IF rejectsAligned THEN -1 ELSE i
             /\ n = 0 \/ rejectsAligned => object_index(SlabHeader, size) = -1
             /\ \A off \in Nat : ~rejectsAligned /\ object_index(off, size) # -1 =>
                  /\ object_index(off, size) \in 0 .. (n - 1)
                  /\ off = ObjectAt(size, object_index(off, size))
<1> DEFINE size == heap_cache_sizes[c]
           n    == total_objects(size)
<1>1. size \in Nat \ {0} /\ SlabHeader \in Nat /\ n \in Nat
  BY ClassSizes, HeapAssumption, ObjectPlaces
<1>2. \A off : object_index(off, size) =
        IF off < SlabHeader \/ ((off - SlabHeader) % size = 0) = rejectsAligned
             \/ (off - SlabHeader) \div size >= n
        THEN -1 ELSE (off - SlabHeader) \div size
  BY DEF object_index
<1>3. ASSUME NEW i \in Nat
      PROVE  LET off == ObjectAt(size, i)
             IN  /\ ~(off < SlabHeader) /\ (off - SlabHeader) % size = 0
                 /\ (off - SlabHeader) \div size = i
  <2>1. ObjectAt(size, i) - SlabHeader = i * size + 0 /\ i * size \in Nat /\ 0 \in 0 .. (size - 1)
    BY <1>1 DEF ObjectAt
  <2>2. (i * size + 0) % size = 0 /\ (i * size + 0) \div size = i
    BY <1>1, <2>1, Divides
  <2>3. ~(ObjectAt(size, i) < SlabHeader)
    BY <1>1, <2>1 DEF ObjectAt
  <2> QED BY <2>1, <2>2, <2>3
<1>4. ASSUME NEW i \in 0 .. (n - 1)
      PROVE  object_index(ObjectAt(size, i), size) = IF rejectsAligned THEN -1 ELSE i
  <2>1. i \in Nat /\ ~(i >= n)
    BY <1>1
  <2> QED BY <1>2, <1>3, <2>1
<1>5. ASSUME n = 0 \/ rejectsAligned PROVE object_index(SlabHeader, size) = -1
  <2>1. SlabHeader = ObjectAt(size, 0)
    BY <1>1 DEF ObjectAt
  <2>2. 0 \in Nat /\ (n = 0 => 0 >= n)
    OBVIOUS
  <2> QED BY <1>2, <1>3, <1>5, <2>1, <2>2
<1>6. ASSUME NEW off \in Nat, ~rejectsAligned, object_index(off, size) # -1
      PROVE  object_index(off, size) \in 0 .. (n - 1) /\ off = ObjectAt(size, object_index(off, size))
  <2> DEFINE d == off - SlabHeader
             i == d \div size
  <2>1. d \in Nat /\ ~(i >= n) /\ d % size = 0 /\ object_index(off, size) = i
    BY <1>1, <1>2, <1>6
  <2> DEFINE r == d % size
             k == i * size
  <2>2. k \in Nat /\ d = k + r /\ i \in Nat
    <3> HIDE DEF d
    <3> QED BY <1>1, <2>1, Quotient, Zenon
  <2>3. d = i * size
    <3>1. r = 0
      BY <2>1
    <3> HIDE DEF k, r, i
    <3>2. d = k
      BY <2>2, <3>1
    <3> QED BY <3>2 DEF k
  <2> HIDE DEF i
  <2>4. off = ObjectAt(size, i)
    BY <1>1, <2>1, <2>3 DEF ObjectAt
  <2> QED BY <1>1, <2>1, <2>2, <2>4
<1> QED BY <1>4, <1>5, <1>6

(* The block of a request of at most 2^18 pages. *)
LEMMA Blocks ==
  /\ Lengths \subseteq Nat \ {0} /\ BlockPages(1) = 1 /\ 1 \in Lengths
  /\ \A n \in Nat : n <= 2^18 => BlockPages(n) \in Lengths /\ n <= BlockPages(n)
<1>1. /\ Lengths \subseteq Nat \ {0}
      /\ 1 \in Lengths /\ 2^18 \in Lengths
  <2>1. 2^0 = 1 /\ 0 \in 0 .. 18 /\ 18 \in 0 .. 18
    OBVIOUS
  <2>2. { 2^k : k \in 0 .. 18 } \subseteq Nat \ {0}
    OBVIOUS
  <2> QED BY <2>1, <2>2 DEF Lengths
<1>2. ASSUME NEW n \in Nat, n <= 2^18
      PROVE  /\ BlockPages(n) \in Lengths /\ n <= BlockPages(n)
             /\ \A b \in Lengths : n <= b => BlockPages(n) <= b
  <2> DEFINE T == { b \in Lengths : n <= b }
  <2>1. T \subseteq Nat /\ T # {}
    BY <1>1, <1>2
  <2>2. \E b \in T : \A d \in T : b <= d
    <3> HIDE DEF T
    <3> QED BY <2>1, LeastNat
  <2> QED BY <2>2 DEF BlockPages
<1>3. BlockPages(1) = 1
  <2>1. 1 <= 2^18
    OBVIOUS
  <2>2. BlockPages(1) \in Lengths /\ BlockPages(1) <= 1
    BY <1>1, <1>2, <2>1
  <2>3. BlockPages(1) \in Nat \ {0}
    BY <1>1, <2>2
  <2> QED BY <2>2, <2>3
<1> QED BY <1>1, <1>2, <1>3

(* The pages of a large request hold it and its header: the sum PagesFor   *)
(* makes does not wrap.                                                    *)
LEMMA PagesHold ==
  ASSUME NEW size \in RequestSizes
  PROVE  /\ size \in Nat /\ PagesFor(size) \in Nat
         /\ PagesFor(size) > 0
         /\ LargeHeader + size <= PagesFor(size) * BUDDY_PAGE_SIZE
<1> DEFINE P == BUDDY_PAGE_SIZE
           t == size + LargeHeader + P - 1
           n == t \div P
<1>1. P \in Nat \ {0} /\ LargeHeader \in Nat \ {0} /\ SizeWord \in Nat /\ size \in Nat
      /\ size <= SizeWord - LargeHeader - P
  BY HeapAssumption, SizesFit
<1>2. t \in Nat /\ t < SizeWord /\ t >= P
  BY <1>1
<1>3. t % SizeWord = t
  <2> HIDE DEF t
  <2> QED BY <1>1, <1>2
<1>4. PagesFor(size) = n
  BY <1>3 DEF PagesFor
<1> DEFINE r == t % P
           k == n * P
<1>5. n \in Nat /\ t = k + r /\ r \in 0 .. (P - 1) /\ k \in Nat
  <2> HIDE DEF t, P
  <2> QED BY <1>1, <1>2, Quotient, Zenon
<1>6. n # 0
  <2>1. n = 0 => k = 0
    BY <1>1
  <2> HIDE DEF n, r, k
  <2> QED BY <1>1, <1>2, <1>5, <2>1
<1> HIDE DEF n
<1>8. LargeHeader + size <= n * P
  <2> HIDE DEF k, r
  <2>1. LargeHeader + size <= k
    BY <1>1, <1>5
  <2> QED BY <2>1 DEF k
<1> QED BY <1>1, <1>4, <1>5, <1>6, <1>8

------------------------------------------------------------------------------
(* The records of a slab.                                                  *)

(* The free objects of a slab are offsets; one that is taken or freed is   *)
(* one element less or more.                                               *)
LEMMA FreeObjects ==
  ASSUME NEW c \in Classes, NEW is \in SUBSET (0 .. (total_objects(heap_cache_sizes[c]) - 1))
  PROVE  LET size == heap_cache_sizes[c]
         IN  /\ ObjectsAt(size, is) \subseteq Offsets /\ 0 \notin ObjectsAt(size, is)
             /\ \A i \in is : ObjectsAt(size, is \ {i}) = ObjectsAt(size, is) \ {ObjectAt(size, i)}
             /\ \A i \in 0 .. (total_objects(size) - 1) :
                  /\ ObjectsAt(size, is \cup {i}) = ObjectsAt(size, is) \cup {ObjectAt(size, i)}
                  /\ i \notin is => ObjectAt(size, i) \notin ObjectsAt(size, is)
<1> DEFINE size == heap_cache_sizes[c]
<1>1. is \subseteq Nat /\ \A i \in is : ObjectAt(size, i) \in Offsets
  BY ObjectPlaces
<1>2. ASSUME NEW i \in Nat, NEW j \in Nat, ObjectAt(size, i) = ObjectAt(size, j) PROVE i = j
  <2>1. /\ size \in Nat \ {0} /\ ObjectAt(size, i) \in Nat /\ ObjectAt(size, j) \in Nat
        /\ i < j => ObjectAt(size, i) + size <= ObjectAt(size, j)
        /\ j < i => ObjectAt(size, j) + size <= ObjectAt(size, i)
    BY ClassSizes, ObjectPlaces
  <2>2. ~(i < j) /\ ~(j < i)
    BY <1>2, <2>1
  <2> QED BY <2>2
<1>3. 0 .. (total_objects(size) - 1) \subseteq Nat
  OBVIOUS
<1>4. \A o, js : o \in ObjectsAt(size, js) <=> \E i \in js : o = ObjectAt(size, i)
  BY DEF ObjectsAt
<1>5. ObjectsAt(size, is) \subseteq Offsets /\ 0 \notin ObjectsAt(size, is)
  <2>1. ASSUME NEW o \in ObjectsAt(size, is) PROVE o \in Offsets
    <3>1. PICK i \in is : o = ObjectAt(size, i)
      BY DEF ObjectsAt
    <3> QED BY <1>1, <3>1
  <2> QED BY <2>1, OffsetFacts
<1>6. ASSUME NEW i \in is
      PROVE  ObjectsAt(size, is \ {i}) = ObjectsAt(size, is) \ {ObjectAt(size, i)}
  <2>1. ASSUME NEW o
        PROVE  o \in ObjectsAt(size, is \ {i}) <=> o \in ObjectsAt(size, is) /\ o # ObjectAt(size, i)
    <3>1. /\ o \in ObjectsAt(size, is) <=> \E j \in is : o = ObjectAt(size, j)
          /\ o \in ObjectsAt(size, is \ {i}) <=> \E j \in is \ {i} : o = ObjectAt(size, j)
      BY <1>4
    <3>2. \A j \in is : ObjectAt(size, j) = ObjectAt(size, i) => j = i
      BY <1>1, <1>2
    <3> QED BY <3>1, <3>2
  <2> QED BY <2>1
<1>7. ASSUME NEW i \in 0 .. (total_objects(size) - 1)
      PROVE  /\ ObjectsAt(size, is \cup {i}) = ObjectsAt(size, is) \cup {ObjectAt(size, i)}
             /\ i \notin is => ObjectAt(size, i) \notin ObjectsAt(size, is)
  <2>1. ASSUME NEW o
        PROVE  o \in ObjectsAt(size, is \cup {i}) <=> o \in ObjectsAt(size, is) \/ o = ObjectAt(size, i)
    BY <1>4
  <2>2. ASSUME i \notin is, ObjectAt(size, i) \in ObjectsAt(size, is) PROVE FALSE
    <3>1. PICK j \in is : ObjectAt(size, i) = ObjectAt(size, j)
      BY <1>4, <2>2
    <3> QED BY <1>1, <1>2, <1>3, <2>2, <3>1
  <2> QED BY <2>1, <2>2
<1> QED BY <1>5, <1>6, <1>7

(* A new slab: its objects, all free, are chained in order. *)
LEMMA NewSlab ==
  ASSUME NEW c \in Classes, NEW p \in Frames, mem \in [Frames -> Page],
         NEW m, m = heap_alloc_slab_page(p, heap_cache_sizes[c])
  PROVE  m \in Page /\ Slab(m, c) /\ m.bitmap = {} /\ m.next = 0
         /\ m.free_count = total_objects(heap_cache_sizes[c])
<1> DEFINE size == heap_cache_sizes[c]
           n == total_objects(size)
           word == [ o \in Offsets |->
                      IF \E i \in 0 .. (n - 2) : o = ObjectAt(size, i) THEN o + size ELSE 0 ]
<1>1. n \in Nat /\ size \in Nat /\ SlabHeader \in Offsets
  BY ObjectPlaces, ClassSizes, OffsetFacts
<1>2. ASSUME NEW i \in 0 .. (n - 1)
      PROVE  /\ ObjectAt(size, i) \in Offsets
             /\ i < n - 1 => ObjectAt(size, i) + size = ObjectAt(size, i + 1)
                             /\ ObjectAt(size, i + 1) \in Offsets
  <2>1. i \in Nat /\ (i < n - 1 => i + 1 \in 0 .. (n - 1))
    BY <1>1
  <2> QED BY <2>1, ObjectPlaces
<1>3. word \in [Offsets -> Offsets \cup {0, ClientData}]
  <2>1. ASSUME NEW o \in Offsets PROVE word[o] \in Offsets \cup {0, ClientData}
    <3>1. CASE \E i \in 0 .. (n - 2) : o = ObjectAt(size, i)
      <4>1. PICK i \in 0 .. (n - 2) : o = ObjectAt(size, i)
        BY <3>1
      <4>2. i \in 0 .. (n - 1) /\ i < n - 1
        BY <1>1
      <4>3. word[o] = o + size
        BY <3>1
      <4> QED BY <1>2, <4>1, <4>2, <4>3
    <3>2. CASE ~\E i \in 0 .. (n - 2) : o = ObjectAt(size, i)
      BY <3>2
    <3> QED BY <3>1, <3>2
  <2>2. word = [o \in Offsets |-> word[o]]
    OBVIOUS
  <2> HIDE DEF word
  <2> QED BY <2>1, <2>2
<1>4. /\ \A i \in 0 .. (n - 2) : word[ObjectAt(size, i)] = ObjectAt(size, i + 1)
      /\ n > 0 => word[ObjectAt(size, n - 1)] = 0
  <2>1. ASSUME NEW i \in 0 .. (n - 2) PROVE word[ObjectAt(size, i)] = ObjectAt(size, i + 1)
    <3>1. i \in 0 .. (n - 1) /\ i < n - 1
      BY <1>1
    <3>2. word[ObjectAt(size, i)] = ObjectAt(size, i) + size
      BY <1>2, <3>1
    <3> QED BY <1>2, <3>1, <3>2
  <2>2. ASSUME n > 0 PROVE word[ObjectAt(size, n - 1)] = 0
    <3>1. n - 1 \in 0 .. (n - 1) /\ n - 1 \in Nat
      BY <1>1, <2>2
    <3>2. ASSUME NEW i \in 0 .. (n - 2) PROVE ObjectAt(size, n - 1) # ObjectAt(size, i)
      <4>1. i \in Nat /\ i < n - 1
        BY <1>1
      <4>2. ObjectAt(size, i) + size <= ObjectAt(size, n - 1)
        BY <3>1, <4>1, ObjectPlaces
      <4>3. ObjectAt(size, i) \in Nat /\ ObjectAt(size, n - 1) \in Nat /\ size \in Nat \ {0}
        BY <3>1, <4>1, ObjectPlaces, ClassSizes
      <4> QED BY <4>2, <4>3
    <3> QED BY <1>2, <3>1, <3>2
  <2> QED BY <2>1, <2>2
<1> HIDE DEF word
<1>5. /\ m \in Page /\ m.magic = "small" /\ m.object_size = size /\ m.free_count = n
      /\ m.next = 0 /\ m.bitmap = {} /\ m.free_list = SlabHeader /\ m.word = word
  <2>1. mem[p] \in Page
    OBVIOUS
  <2>2. m = [ mem[p] EXCEPT !.magic = "small", !.object_size = size, !.free_count = n,
                            !.next = 0, !.bitmap = {}, !.free_list = SlabHeader, !.word = word ]
    BY DEF heap_alloc_slab_page, word
  <2> HIDE DEF size, n
  <2> QED BY <1>1, <1>3, <2>1, <2>2 DEF Page
<1>6. ASSUME n > 0 PROVE List(ObjectsAt(size, 0 .. (n - 1)), n, SlabHeader, word)
  <2> DEFINE S == ObjectsAt(size, 0 .. (n - 1))
             g == [i \in 0 .. n |-> IF i < n THEN ObjectAt(size, i) ELSE 0]
  <2>1. /\ \A o : o \in S <=> \E i \in 0 .. (n - 1) : o = ObjectAt(size, i)
    BY DEF ObjectsAt
  <2>2. \A i \in 0 .. (n - 1) : g[i] = ObjectAt(size, i) /\ i \in 0 .. n
    BY <1>1
  <2>3. g[n] = 0
    BY <1>1
  <2>4. g \in [0 .. n -> S \cup {0}]
    <3>1. \A i \in 0 .. n : i < n => i \in 0 .. (n - 1)
      BY <1>1
    <3> HIDE DEF S
    <3> QED BY <2>1, <3>1
  <2> HIDE DEF g, S
  <2>5. g[0] = SlabHeader
    <3>1. 0 \in 0 .. (n - 1) /\ ObjectAt(size, 0) = SlabHeader
      BY <1>1, <1>6, HeapAssumption, ClassSizes DEF ObjectAt
    <3> QED BY <2>2, <3>1
  <2>6. ASSUME NEW i \in 0 .. (n - 1) PROVE g[i] \in S /\ word[g[i]] = g[i + 1]
    <3>1. CASE i = n - 1
      <4>1. i + 1 = n
        BY <1>1, <3>1
      <4> QED BY <1>4, <1>6, <2>1, <2>2, <2>3, <3>1, <4>1
    <3>2. CASE i # n - 1
      <4>1. i \in 0 .. (n - 2) /\ i + 1 \in 0 .. (n - 1)
        BY <1>1, <3>2
      <4> QED BY <1>4, <2>1, <2>2, <4>1
    <3> QED BY <3>1, <3>2
  <2>7. ASSUME NEW i \in 0 .. (n - 1), NEW j \in 0 .. (n - 1), g[i] = g[j] PROVE i = j
    <3>1. /\ i \in Nat /\ j \in Nat /\ size \in Nat \ {0}
          /\ ObjectAt(size, i) \in Nat /\ ObjectAt(size, j) \in Nat
          /\ i < j => ObjectAt(size, i) + size <= ObjectAt(size, j)
          /\ j < i => ObjectAt(size, j) + size <= ObjectAt(size, i)
          /\ ObjectAt(size, i) = ObjectAt(size, j)
      <4>1. i \in Nat /\ j \in Nat
        OBVIOUS
      <4> QED BY <2>2, <2>7, <4>1, ClassSizes, ObjectPlaces
    <3> HIDE DEF size
    <3> QED BY <3>1
  <2>8. \A x \in S : \E i \in 0 .. (n - 1) : g[i] = x
    BY <2>1, <2>2
  <2>9. Numbers(g, S, n, SlabHeader, word)
    BY <2>3, <2>5, <2>6, <2>7, <2>8 DEF Numbers
  <2> QED BY <2>4, <2>9 DEF List, S
<1>7. Slab(m, c)
  <2>1. (0 .. (n - 1)) \ m.bitmap = 0 .. (n - 1)
    BY <1>5
  <2> QED BY <1>5, <1>6, <2>1 DEF Slab
<1> QED BY <1>5, <1>7

(* The page once its first free object is taken, as TakeObject leaves it. *)
Taken(m, index) ==
  [ m EXCEPT !.bitmap = @ \cup {index}, !.free_list = m.word[m.free_list],
             !.word[m.free_list] = ClientData, !.free_count = @ - 1 ]

(* What object_index says of the first free object: it can be taken where  *)
(* objects can be taken at all.                                            *)
LEMMA FirstFree ==
  ASSUME NEW c \in Classes, NEW m \in Page, Slab(m, c), rejectsAligned \in BOOLEAN,
         NEW size, size = heap_cache_sizes[c], NEW n, n = total_objects(size),
         m.free_count > 0 \/ n = 0, NEW index, index = object_index(m.free_list, m.object_size)
  PROVE  /\ m.free_list # 0 /\ index # -1 <=> Serving(c)
         /\ Serving(c) => /\ m.free_count > 0
                          /\ index \in (0 .. (n - 1)) \ m.bitmap /\ m.free_list = ObjectAt(size, index)
<1> DEFINE S == ObjectsAt(size, (0 .. (n - 1)) \ m.bitmap)
<1>1. n \in Nat /\ m.object_size = size /\ m.free_count \in Nat
      /\ m.free_list \in Offsets \cup {0}
  BY ObjectPlaces DEF Slab, Page
<1>2. CASE n = 0
  <2>1. m.free_list = SlabHeader
    BY <1>2 DEF Slab
  <2>2. object_index(SlabHeader, size) = -1
    BY <1>2, ObjectIndex
  <2> QED BY <1>1, <1>2, <2>1, <2>2 DEF Serving
<1>3. CASE n # 0
  <2>1. n > 0 /\ m.free_count > 0
    BY <1>1, <1>3
  <2>2. List(S, m.free_count, m.free_list, m.word)
    BY <2>1 DEF Slab
  <2>3. 0 \notin S
    <3>1. (0 .. (n - 1)) \ m.bitmap \in SUBSET (0 .. (total_objects(size) - 1))
      OBVIOUS
    <3> QED BY <3>1, FreeObjects
  <2>4. m.free_list \in S
    <3> HIDE DEF S
    <3> QED BY <1>1, <2>1, <2>2, <2>3, ListFirst
  <2>5. PICK i \in (0 .. (n - 1)) \ m.bitmap : m.free_list = ObjectAt(size, i)
    BY <2>4 DEF ObjectsAt
  <2>6. index = IF rejectsAligned THEN -1 ELSE i
    <3>1. i \in 0 .. (n - 1) /\ index = object_index(ObjectAt(size, i), size)
      BY <1>1, <2>5
    <3>2. object_index(ObjectAt(size, i), size) = IF rejectsAligned THEN -1 ELSE i
      BY <3>1, ObjectIndex
    <3> QED BY <3>1, <3>2
  <2>7. m.free_list # 0 /\ i # -1
    BY <2>3, <2>4
  <2> QED BY <1>1, <2>1, <2>5, <2>6, <2>7 DEF Serving
<1> QED BY <1>2, <1>3

LEMMA TakenSlab ==
  ASSUME NEW c \in Classes, NEW m \in Page, Slab(m, c),
         NEW size, size = heap_cache_sizes[c], NEW n, n = total_objects(size), m.free_count > 0,
         NEW index \in (0 .. (n - 1)) \ m.bitmap, m.free_list = ObjectAt(size, index)
  PROVE  LET t == Taken(m, index)
         IN  /\ t \in Page /\ Slab(t, c) /\ t.bitmap = m.bitmap \cup {index}
             /\ t.free_count = m.free_count - 1 /\ t.next = m.next
<1> DEFINE t == Taken(m, index)
           is == (0 .. (n - 1)) \ m.bitmap
           S == ObjectsAt(size, is)
<1>1. n \in Nat /\ n > 0 /\ index \in Nat
  BY ObjectPlaces
<1>2. List(S, m.free_count, m.free_list, m.word) /\ m.magic = "small" /\ m.object_size = size
      /\ m.bitmap \subseteq 0 .. (n - 1)
  BY <1>1 DEF Slab
<1>3. S \subseteq Offsets /\ 0 \notin S /\ ObjectsAt(size, is \ {index}) = S \ {m.free_list}
  <2>1. is \in SUBSET (0 .. (total_objects(size) - 1)) /\ index \in is
    OBVIOUS
  <2> HIDE DEF is
  <2>2. /\ S \subseteq Offsets /\ 0 \notin S
        /\ ObjectsAt(size, is \ {index}) = S \ {ObjectAt(size, index)}
    BY <2>1, FreeObjects
  <2> QED BY <2>2
<1>4. m.free_list \in Offsets /\ m.free_list # 0
  <2>1. m.free_list \in S
    BY DEF ObjectsAt
  <2> QED BY <1>3, <2>1
<1>5. m.word[m.free_list] \in Offsets \cup {0}
  <2>1. m.free_count \in Nat /\ m.free_count - 1 \in Nat
    BY DEF Page
  <2>2. List(S \ {m.free_list}, m.free_count - 1, m.word[m.free_list], m.word)
    <3> HIDE DEF S
    <3> QED BY <1>2, <1>3, <1>4, <2>1, ListPop
  <2>3. m.word[m.free_list] \in (S \ {m.free_list}) \cup {0}
    <3> HIDE DEF S
    <3> QED BY <1>3, <2>1, <2>2, ListFirst
  <2> QED BY <1>3, <2>3
<1>6. /\ t \in Page /\ t.magic = "small" /\ t.object_size = size
      /\ t.bitmap = m.bitmap \cup {index} /\ t.free_list = m.word[m.free_list]
      /\ t.free_count = m.free_count - 1 /\ t.next = m.next
      /\ \A o \in Offsets : o # m.free_list => t.word[o] = m.word[o]
  <2> DEFINE w == [m.word EXCEPT ![m.free_list] = ClientData]
             b == m.bitmap \cup {index}
  <2>1. /\ w \in [Offsets -> Offsets \cup {0, ClientData}]
        /\ \A o \in Offsets : o # m.free_list => w[o] = m.word[o]
    BY <1>4 DEF Page
  <2>2. t = [m EXCEPT !.bitmap = b, !.free_list = m.word[m.free_list],
                      !.word = w, !.free_count = m.free_count - 1]
    BY DEF Taken
  <2>3. b \subseteq Nat /\ m.free_count - 1 \in Nat
    BY <1>1 DEF Page
  <2> HIDE DEF w, b
  <2>4. /\ t \in Page /\ t.magic = m.magic /\ t.object_size = m.object_size /\ t.bitmap = b
        /\ t.free_list = m.word[m.free_list] /\ t.free_count = m.free_count - 1
        /\ t.next = m.next /\ t.word = w
    <3> HIDE DEF t
    <3> QED BY <1>5, <2>1, <2>2, <2>3 DEF Page
  <2> HIDE DEF t
  <2> QED BY <1>2, <2>1, <2>4 DEF b
<1> HIDE DEF t
<1>7. List(S \ {m.free_list}, t.free_count, t.free_list, t.word)
  <2>1. m.free_count \in Nat /\ \A o \in S \ {m.free_list} : t.word[o] = m.word[o]
    BY <1>3, <1>6 DEF Page
  <2>2. List(S \ {m.free_list}, m.free_count - 1, m.word[m.free_list], t.word)
    <3> HIDE DEF S
    <3> QED BY <1>2, <1>3, <1>4, <2>1, ListPop
  <2> QED BY <1>6, <2>2
<1>8. is \ {index} = (0 .. (n - 1)) \ t.bitmap /\ t.bitmap \subseteq 0 .. (n - 1)
  BY <1>2, <1>6
<1>9. Slab(t, c)
  <2>1. n # 0
    BY <1>1
  <2>2. List(ObjectsAt(size, (0 .. (n - 1)) \ t.bitmap), t.free_count, t.free_list, t.word)
    <3> HIDE DEF S, is
    <3> QED BY <1>3, <1>7, <1>8
  <2> HIDE DEF S, is
  <2> QED BY <1>6, <1>8, <2>1, <2>2 DEF Slab
<1> QED BY <1>6, <1>9 DEF t

LEMMA FreedSlab ==
  ASSUME NEW c \in Classes, NEW m \in Page, Slab(m, c),
         NEW size, size = heap_cache_sizes[c], NEW n, n = total_objects(size),
         NEW index \in m.bitmap, NEW off, off = ObjectAt(size, index)
  PROVE  LET t == FreedObject(m, off, index)
         IN  /\ t \in Page /\ Slab(t, c) /\ t.bitmap = m.bitmap \ {index}
             /\ t.free_count = m.free_count + 1 /\ t.next = m.next
<1> DEFINE t == FreedObject(m, off, index)
           is == (0 .. (n - 1)) \ m.bitmap
           S == ObjectsAt(size, is)
<1>1. n \in Nat /\ m.bitmap \subseteq 0 .. (n - 1)
  BY ObjectPlaces DEF Slab
<1>2. n > 0 /\ index \in 0 .. (n - 1) /\ index \notin is
  BY <1>1
<1>3. List(S, m.free_count, m.free_list, m.word) /\ m.magic = "small" /\ m.object_size = size
  BY <1>2 DEF Slab
<1>4. S \subseteq Offsets /\ off \notin S /\ ObjectsAt(size, is \cup {index}) = S \cup {off}
  <2>1. is \in SUBSET (0 .. (total_objects(size) - 1))
    OBVIOUS
  <2> HIDE DEF is
  <2>2. /\ S \subseteq Offsets /\ ObjectAt(size, index) \notin S
        /\ ObjectsAt(size, is \cup {index}) = S \cup {ObjectAt(size, index)}
    BY <1>2, <2>1, FreeObjects
  <2> QED BY <2>2
<1>5. off \in Offsets
  BY <1>2, ObjectPlaces
<1>6. /\ t \in Page /\ t.magic = "small" /\ t.object_size = size
      /\ t.bitmap = m.bitmap \ {index} /\ t.free_list = off
      /\ t.free_count = m.free_count + 1 /\ t.next = m.next
      /\ t.word[off] = m.free_list
      /\ \A o \in Offsets : o # off => t.word[o] = m.word[o]
  <2> DEFINE w == [m.word EXCEPT ![off] = m.free_list]
             b == m.bitmap \ {index}
  <2>1. /\ w \in [Offsets -> Offsets \cup {0, ClientData}] /\ w[off] = m.free_list
        /\ \A o \in Offsets : o # off => w[o] = m.word[o]
    BY <1>5 DEF Page
  <2>2. t = [m EXCEPT !.word = w, !.free_list = off, !.free_count = m.free_count + 1, !.bitmap = b]
    BY DEF FreedObject
  <2>3. b \subseteq Nat /\ m.free_count + 1 \in Nat
    BY DEF Page
  <2> HIDE DEF w, b
  <2>4. /\ t \in Page /\ t.magic = m.magic /\ t.object_size = m.object_size /\ t.bitmap = b
        /\ t.free_list = off /\ t.free_count = m.free_count + 1
        /\ t.next = m.next /\ t.word = w
    <3> HIDE DEF t
    <3> QED BY <1>5, <2>1, <2>2, <2>3 DEF Page
  <2> HIDE DEF t
  <2> QED BY <1>3, <2>1, <2>4 DEF b
<1> HIDE DEF t
<1>7. List(S \cup {off}, t.free_count, t.free_list, t.word)
  <2>1. m.free_count \in Nat /\ \A o \in S : t.word[o] = m.word[o]
    BY <1>4, <1>6 DEF Page
  <2> HIDE DEF S
  <2> QED BY <1>3, <1>4, <1>6, <2>1, ListPush
<1>8. is \cup {index} = (0 .. (n - 1)) \ t.bitmap /\ t.bitmap \subseteq 0 .. (n - 1)
  BY <1>1, <1>2, <1>6
<1>9. Slab(t, c)
  <2>1. n # 0
    BY <1>2
  <2> HIDE DEF S, is
  <2> QED BY <1>4, <1>6, <1>7, <1>8, <2>1 DEF Slab
<1> QED BY <1>6, <1>9 DEF t

(* A slab has as many free objects as its class has places exactly when no *)
(* object of it is taken.                                                  *)
LEMMA SlabCount ==
  ASSUME NEW c \in Classes, NEW m \in Page, Slab(m, c),
         NEW n, n = total_objects(heap_cache_sizes[c]), n > 0
  PROVE  m.free_count = n <=> m.bitmap = {}
<1> DEFINE size == heap_cache_sizes[c]
           I == 0 .. (n - 1)
           is == I \ m.bitmap
           S == ObjectsAt(size, is)
           f == [i \in is |-> ObjectAt(size, i)]
<1>1. n \in Nat /\ m.free_count \in Nat /\ m.bitmap \subseteq I
      /\ List(S, m.free_count, m.free_list, m.word)
  BY ObjectPlaces DEF Slab, Page
<1>2. 0 \notin S /\ \A i \in is : ObjectAt(size, i) \notin ObjectsAt(size, is \ {i})
  <2>1. is \in SUBSET (0 .. (total_objects(heap_cache_sizes[c]) - 1)) /\ is \subseteq I
    OBVIOUS
  <2> HIDE DEF is
  <2> QED BY <2>1, FreeObjects
<1>3. Cardinality(S) = m.free_count
  <2> HIDE DEF S
  <2> QED BY <1>1, <1>2, ListLength
<1>4. f \in Bijection(is, S)
  <2>1. f \in [is -> S] /\ \A x \in S : \E i \in is : f[i] = x
    <3> HIDE DEF is
    <3> QED BY DEF ObjectsAt
  <2>2. ASSUME NEW i \in is, NEW j \in is, f[i] = f[j] PROVE i = j
    <3>1. ObjectAt(size, i) \in ObjectsAt(size, is \ {j}) \/ i = j
      <4> HIDE DEF is
      <4> QED BY DEF ObjectsAt
    <3> HIDE DEF is
    <3> QED BY <1>2, <2>2, <3>1
  <2> HIDE DEF f, is, S
  <2> QED BY <2>1, <2>2 DEF Bijection, Injection, Surjection, IsInjective
<1>5. IsFiniteSet(I) /\ Cardinality(I) = n /\ is \in SUBSET I
  <2>1. 0 \in Int /\ n - 1 \in Int /\ (n - 1) - 0 + 1 = n /\ ~(0 > n - 1)
    BY <1>1
  <2> QED BY <2>1, FS_Interval
<1> HIDE DEF I, is, S, f
<1>6. IsFiniteSet(is) /\ (Cardinality(I) = Cardinality(is) => I = is)
  BY <1>5, FS_Subset
<1>7. Cardinality(S) = Cardinality(is)
  BY <1>4, <1>6, FS_Bijection DEF ExistsBijection
<1>8. I = is <=> m.bitmap = {}
  BY <1>1 DEF is
<1> QED BY <1>3, <1>5, <1>6, <1>7, <1>8

------------------------------------------------------------------------------
(* The list of a class.                                                    *)

(* Two contents of a page that differ in the link to the next slab only. *)
Relinked(m, x) ==
  /\ m.magic = x.magic /\ m.object_size = x.object_size /\ m.free_count = x.free_count
  /\ m.free_list = x.free_list /\ m.bitmap = x.bitmap /\ m.word = x.word
  /\ m.page_count = x.page_count

Linked(memory, p, q) == [memory EXCEPT ![p].next = q]

LEMMA SetNext ==
  ASSUME NEW memory \in [Frames -> Page], NEW p \in Frames, NEW q \in Frames \cup {0}
  PROVE  LET result == Linked(memory, p, q)
         IN  /\ result \in [Frames -> Page] /\ result[p].next = q
             /\ \A x \in Frames : Relinked(result[x], memory[x]) /\ (x # p => result[x] = memory[x])
<1> DEFINE m == [memory[p] EXCEPT !.next = q]
           result == Linked(memory, p, q)
<1>1. memory[p] \in Page
  OBVIOUS
<1>2. m \in Page /\ m.next = q /\ Relinked(m, memory[p])
  BY <1>1 DEF Page, Relinked
<1>3. result = [memory EXCEPT ![p] = m]
  BY DEF Linked
<1> HIDE DEF m
<1>4. \A x \in Frames : Relinked(memory[x], memory[x])
  BY DEF Relinked
<1> QED BY <1>2, <1>3, <1>4

LEMMA InsertSlab ==
  ASSUME NEW memory \in [Frames -> Page], NEW c \in Classes, NEW p \in Frames,
         partial_pages \in [Classes -> Frames \cup {0}],
         NEW S, S \subseteq Frames, p \notin S,
         List(S, Cardinality(S), partial_pages[c], Nexts(memory)),
         heap_insert_slab_into_cache(memory, c, p)
  PROVE  /\ mem' \in [Frames -> Page] /\ partial_pages' \in [Classes -> Frames \cup {0}]
         /\ \A d \in Classes : d # c => partial_pages'[d] = partial_pages[d]
         /\ \A x \in Frames : Relinked(mem'[x], memory[x]) /\ (x # p => mem'[x] = memory[x])
         /\ List(S \cup {p}, Cardinality(S \cup {p}), partial_pages'[c], Nexts(mem'))
<1>1. /\ partial_pages[c] \in Frames \cup {0} /\ mem' = Linked(memory, p, partial_pages[c])
      /\ partial_pages' = [partial_pages EXCEPT ![c] = p]
  BY DEF heap_insert_slab_into_cache, Linked
<1>2. /\ mem' \in [Frames -> Page] /\ mem'[p].next = partial_pages[c]
      /\ \A x \in Frames : Relinked(mem'[x], memory[x]) /\ (x # p => mem'[x] = memory[x])
  BY <1>1, SetNext
<1>3. /\ partial_pages' \in [Classes -> Frames \cup {0}] /\ partial_pages'[c] = p
      /\ \A d \in Classes : d # c => partial_pages'[d] = partial_pages[d]
  BY <1>1
<1>4. 0 \notin Frames /\ IsFiniteSet(S) /\ Cardinality(S) \in Nat
      /\ Cardinality(S \cup {p}) = Cardinality(S) + 1
  <2>1. IsFiniteSet(S)
    BY HeapAssumption, FS_Subset
  <2> QED BY <2>1, HeapAssumption, FS_CardinalityType, FS_AddElement
<1>5. /\ Nexts(mem')[p] = partial_pages[c]
      /\ \A y \in S : Nexts(mem')[y] = Nexts(memory)[y]
  BY <1>2 DEF Nexts
<1>6. List(S \cup {p}, Cardinality(S) + 1, p, Nexts(mem'))
  BY <1>4, <1>5, ListPush
<1> QED BY <1>2, <1>3, <1>4, <1>6

LEMMA RemoveSlab ==
  ASSUME NEW memory \in [Frames -> Page], NEW partial \in [Classes -> Frames \cup {0}],
         NEW c \in Classes, NEW p \in Frames, NEW S, S \subseteq Frames,
         List(S, Cardinality(S), partial[c], Nexts(memory)),
         heap_remove_slab_from_cache(memory, partial, c, p)
  PROVE  /\ mem' \in [Frames -> Page] /\ partial_pages' \in [Classes -> Frames \cup {0}]
         /\ \A d \in Classes : d # c => partial_pages'[d] = partial[d]
         /\ \A x \in Frames : Relinked(mem'[x], memory[x]) /\ (x \notin S => mem'[x] = memory[x])
         /\ List(S \ {p}, Cardinality(S \ {p}), partial_pages'[c], Nexts(mem'))
<1> DEFINE k == Cardinality(S)
           nx == Nexts(memory)
<1>1. 0 \notin Frames /\ 0 \notin S /\ IsFiniteSet(S) /\ k \in Nat
      /\ Cardinality(S \ {p}) = IF p \in S THEN k - 1 ELSE k
  <2>1. IsFiniteSet(S)
    BY HeapAssumption, FS_Subset
  <2> QED BY <2>1, HeapAssumption, FS_CardinalityType, FS_RemoveElement
<1>2. OnList(memory, partial[c]) = S
  BY <1>1, WalkVisits
<1>3. partial[c] \in S \cup {0} /\ \A x \in Frames : nx[x] = memory[x].next
  BY <1>1, ListFirst DEF Nexts
<1>4. CASE p \notin S /\ mem' = memory /\ partial_pages' = partial
  <2>1. S \ {p} = S
    BY <1>4
  <2> QED BY <1>1, <1>4, <2>1 DEF Relinked
<1>5. CASE /\ p = partial[c] /\ p # 0
           /\ mem' = Linked(memory, p, 0)
           /\ partial_pages' = [partial EXCEPT ![c] = memory[p].next]
  <2>1. p \in S /\ memory[p].next \in Frames \cup {0}
    BY <1>3, <1>5 DEF Page
  <2>2. /\ mem' \in [Frames -> Page]
        /\ \A x \in Frames : Relinked(mem'[x], memory[x]) /\ (x # p => mem'[x] = memory[x])
    BY <1>5, SetNext
  <2>3. /\ partial_pages' \in [Classes -> Frames \cup {0}] /\ partial_pages'[c] = nx[p]
        /\ \A d \in Classes : d # c => partial_pages'[d] = partial[d]
    <3> HIDE DEF nx
    <3> QED BY <1>3, <1>5, <2>1
  <2>4. \A y \in S \ {p} : Nexts(mem')[y] = nx[y]
    BY <2>2 DEF Nexts
  <2>5. List(S \ {p}, k - 1, nx[p], Nexts(mem'))
    <3> HIDE DEF nx, k
    <3>1. List(S, k, p, nx)
      BY <1>5 DEF nx, k
    <3> QED BY <1>1, <1>5, <2>4, <3>1, ListPop
  <2> QED BY <1>1, <2>1, <2>2, <2>3, <2>5
<1>6. CASE /\ p \in S /\ p # partial[c]
           /\ mem' = [memory EXCEPT ![CHOOSE q \in S : memory[q].next = p].next = memory[p].next,
                                    ![p].next = 0]
           /\ partial_pages' = partial
  <2>1. PICK q \in S : Before(q, p, S, k, partial[c], nx)
    <3> HIDE DEF nx, k
    <3>1. List(S, k, partial[c], nx)
      BY DEF nx, k
    <3> QED BY <1>1, <1>6, <3>1, ListRemove
  <2>2. (CHOOSE y \in S : memory[y].next = p) = q
    <3>1. \A y \in S : memory[y].next = p <=> y = q
      <4> HIDE DEF nx
      <4> QED BY <1>3, <2>1 DEF Before
    <3> QED BY <3>1
  <2> DEFINE m1 == Linked(memory, q, memory[p].next)
  <2>3. mem' = Linked(m1, p, 0)
    BY <1>6, <2>2 DEF Linked
  <2>4. /\ m1 \in [Frames -> Page] /\ m1[q].next = memory[p].next
        /\ \A x \in Frames : Relinked(m1[x], memory[x]) /\ (x # q => m1[x] = memory[x])
    <3>1. memory[p].next \in Frames \cup {0} /\ q \in Frames
      BY DEF Page
    <3> QED BY <3>1, SetNext
  <2> HIDE DEF m1
  <2>5. /\ mem' \in [Frames -> Page]
        /\ \A x \in Frames : Relinked(mem'[x], m1[x]) /\ (x # p => mem'[x] = m1[x])
    <3>1. 0 \in Frames \cup {0}
      OBVIOUS
    <3> QED BY <2>3, <2>4, <3>1, SetNext
  <2>6. \A x \in Frames : Relinked(mem'[x], memory[x])
    BY <2>4, <2>5 DEF Relinked
  <2>7. Nexts(mem')[q] = nx[p] /\ \A y \in S \ {p, q} : Nexts(mem')[y] = nx[y]
    BY <2>1, <2>4, <2>5 DEF Nexts, Before
  <2>8. List(S \ {p}, k - 1, partial[c], Nexts(mem'))
    <3> HIDE DEF nx, k
    <3> QED BY <2>1, <2>7 DEF Before
  <2> QED BY <1>1, <1>6, <2>1, <2>4, <2>5, <2>6, <2>8
<1> QED BY <1>2, <1>4, <1>5, <1>6 DEF heap_remove_slab_from_cache, Linked

------------------------------------------------------------------------------
(* Who has which page.                                                     *)

(* The block of a large object begins with its page. *)
LEMMA LargeBlocks ==
  ASSUME Types, Owned
  PROVE  /\ \A o \in live : IsLarge(o) => o.page \in Block(o) /\ Block(o) \subseteq LargePages
         /\ LargePages \subseteq held \ others
         /\ \A x \in LargePages : \E o \in live : IsLarge(o) /\ x \in Block(o)
         /\ SlabPages \subseteq Frames /\ SlabPages \cap free = {} /\ SlabPages \subseteq held
<1>1. LargePages = UNION { Block(o) : o \in { x \in live : IsLarge(x) } }
  BY DEF LargePages, Block, IsLarge
<1>2. ASSUME NEW o \in live, IsLarge(o) PROVE o.page \in Block(o)
  <2>1. o.page \in Nat /\ PagesFor(o.bytes) \in Nat /\ PagesFor(o.bytes) <= 2^18
    <3>1. o.page \in Frames /\ o.bytes \in RequestSizes
      BY DEF Types, Object
    <3> QED BY <1>2, <3>1, PagesHold, HeapAssumption DEF Owned
  <2>2. BlockPages(PagesFor(o.bytes)) \in Nat \ {0}
    BY <2>1, Blocks
  <2> HIDE DEF Block
  <2> QED BY <2>1, <2>2 DEF Block, PA!Run
<1> HIDE DEF Block
<1>3. ASSUME NEW x \in LargePages PROVE \E o \in live : IsLarge(o) /\ x \in Block(o)
  BY <1>1
<1>4. LargePages \subseteq held \ others
  BY <1>3 DEF Owned
<1>5. \A o \in live : IsLarge(o) => Block(o) \subseteq LargePages
  BY <1>1
<1>6. SlabPages \subseteq Frames /\ SlabPages \cap free = {} /\ SlabPages \subseteq held
  BY DEF SlabPages, Types, Owned
<1> QED BY <1>2, <1>3, <1>4, <1>5, <1>6

(* What a small request, or the release of a small object, leaves alone:   *)
(* all but page p, and of the other slabs of class c all but the links.    *)
OnPage(p, c) ==
  /\ rejectsAligned' = rejectsAligned /\ others' = others
  /\ free' \subseteq Frames /\ held' \subseteq Frames
  /\ free' \ {p} = free \ {p} /\ held' \ {p} = held \ {p} /\ (p \in free' <=> p \notin held')
  /\ mem' \in [Frames -> Page]
  /\ \A x \in Frames : x # p => Relinked(mem'[x], mem[x])
  /\ \A x \in Frames : x \notin SlabsOf(c) /\ x # p => mem'[x] = mem[x]
  /\ live' \subseteq Object
  /\ \A o \in Object : o.page # p \/ IsLarge(o) => (o \in live' <=> o \in live)
  /\ partial_pages' \in [Classes -> Frames \cup {0}]
  /\ \A d \in Classes : d # c => partial_pages'[d] = partial_pages[d]

LEMMA PageStep ==
  ASSUME IndInv, NEW c \in Classes, NEW p \in Frames, OnPage(p, c), p \in SlabsOf(c) \/ p \in free
  PROVE  /\ Types' /\ Owned'
         /\ SlabPages' = IF p \in held' THEN SlabPages \cup {p} ELSE SlabPages \ {p}
         /\ p \notin others /\ p \notin LargePages
<1>1. Types /\ Owned
  BY DEF IndInv
<1>2. Types'
  BY <1>1 DEF OnPage, Types
<1>3. p \notin others /\ p \notin LargePages
  BY <1>1, LargeBlocks DEF SlabsOf, SlabPages, Owned
<1>4. LargePages' = LargePages
  <2>1. { x \in live' : x.off = LargeHeader } = { x \in live : x.off = LargeHeader }
    BY <1>1 DEF Types, OnPage, IsLarge
  <2> QED BY <2>1 DEF LargePages
<1>5. SlabPages' = IF p \in held' THEN SlabPages \cup {p} ELSE SlabPages \ {p}
  BY <1>3, <1>4 DEF SlabPages, OnPage
<1>6. Owned'
  <2>1. (free \cap held = {} /\ others \subseteq held)'
    BY <1>1, <1>3 DEF Owned, OnPage
  <2>2. ASSUME NEW o \in live', IsLarge(o)
        PROVE  /\ o \in live /\ o.page # p
               /\ Block(o) \subseteq held' \ others' /\ o.bytes # 0 /\ PagesFor(o.bytes) <= 2^18
               /\ mem'[o.page].magic = "large" /\ mem'[o.page].page_count = PagesFor(o.bytes)
    <3>1. o \in live /\ o.page \in Frames
      BY <2>2 DEF OnPage, Object
    <3>2. o.page \in LargePages /\ Block(o) \subseteq LargePages /\ LargePages \subseteq held \ others
      BY <1>1, <2>2, <3>1, LargeBlocks
    <3>3. o.page # p /\ o.page \notin SlabsOf(c)
      BY <1>3, <3>2 DEF SlabsOf, SlabPages
    <3>4. mem'[o.page] = mem[o.page]
      BY <3>1, <3>3 DEF OnPage
    <3>5. Block(o) \subseteq held' \ others'
      BY <1>3, <3>2 DEF OnPage
    <3> QED BY <1>1, <2>2, <3>1, <3>3, <3>4, <3>5 DEF Owned
  <2>3. ASSUME NEW o \in live', NEW x \in live', IsLarge(o), IsLarge(x)
        PROVE  o = x \/ Block(o) \cap Block(x) = {}
    BY <1>1, <2>2, <2>3 DEF Owned
  <2>4. \A o : IsLarge(o)' <=> IsLarge(o)
    BY DEF IsLarge
  <2>5. \A o : Block(o)' = Block(o)
    BY DEF Block
  <2> QED BY <2>1, <2>2, <2>3, <2>4, <2>5 DEF Owned
<1> QED BY <1>2, <1>3, <1>5, <1>6

LEMMA ClassPages ==
  ASSUME IndInv, NEW c \in Classes, NEW p \in Frames, OnPage(p, c), p \in SlabsOf(c) \/ p \in free,
         p \in held' => mem'[p].object_size = heap_cache_sizes[c]
  PROVE  /\ \A d \in Classes : d # c => /\ SlabsOf(d)' = SlabsOf(d) /\ Partial(d)' = Partial(d)
                                        /\ p \notin SlabsOf(d) /\ SlabsOf(d) \cap SlabsOf(c) = {}
         /\ SlabsOf(c)' = IF p \in held' THEN SlabsOf(c) \cup {p} ELSE SlabsOf(c) \ {p}
         /\ Partial(c)' =
              IF p \in held' /\ (mem'[p].free_count > 0 \/ total_objects(heap_cache_sizes[c]) = 0)
              THEN (Partial(c) \ {p}) \cup {p} ELSE Partial(c) \ {p}
<1>1. Types /\ Owned
  BY DEF IndInv
<1>2. /\ SlabPages' = IF p \in held' THEN SlabPages \cup {p} ELSE SlabPages \ {p}
      /\ SlabPages \subseteq Frames /\ SlabPages \cap free = {}
  BY <1>1, PageStep, LargeBlocks
<1>3. \A x \in Frames : x # p => /\ mem'[x].object_size = mem[x].object_size
                                 /\ mem'[x].free_count = mem[x].free_count
  BY DEF OnPage, Relinked
<1>4. ASSUME NEW d \in Classes, d # c
      PROVE  p \notin SlabsOf(d) /\ SlabsOf(d) \cap SlabsOf(c) = {}
  BY <1>2, <1>4, ClassSizes DEF SlabsOf
<1>5. ASSUME NEW d \in Classes, d # c PROVE SlabsOf(d)' = SlabsOf(d)
  <2>1. ASSUME NEW x PROVE x \in SlabsOf(d)' <=> x \in SlabsOf(d)
    <3>1. CASE x = p
      BY <1>2, <1>4, <1>5, <3>1, ClassSizes DEF SlabsOf
    <3>2. CASE x # p
      BY <1>2, <1>3, <3>2 DEF SlabsOf
    <3> QED BY <3>1, <3>2
  <2> QED BY <2>1
<1>6. ASSUME NEW d \in Classes, d # c PROVE Partial(d)' = Partial(d)
  <2>1. \A x \in SlabsOf(d) : x \in Frames /\ x # p
    BY <1>2, <1>4, <1>6 DEF SlabsOf
  <2>2. \A x \in SlabsOf(d) : mem'[x].free_count = mem[x].free_count
    BY <1>3, <2>1
  <2> QED BY <1>5, <1>6, <2>2 DEF Partial
<1>7. SlabsOf(c)' = IF p \in held' THEN SlabsOf(c) \cup {p} ELSE SlabsOf(c) \ {p}
  <2>1. ASSUME NEW x, x # p PROVE x \in SlabsOf(c)' <=> x \in SlabsOf(c)
    BY <1>2, <1>3, <2>1 DEF SlabsOf
  <2>2. p \in SlabsOf(c)' <=> p \in held'
    BY <1>2 DEF SlabsOf
  <2> QED BY <2>1, <2>2
<1>8. Partial(c)' =
        IF p \in held' /\ (mem'[p].free_count > 0 \/ total_objects(heap_cache_sizes[c]) = 0)
        THEN (Partial(c) \ {p}) \cup {p} ELSE Partial(c) \ {p}
  <2>1. ASSUME NEW x, x # p PROVE x \in Partial(c)' <=> x \in Partial(c)
    <3>1. x \in SlabsOf(c)' <=> x \in SlabsOf(c)
      BY <1>7, <2>1
    <3>2. x \in SlabsOf(c) => mem'[x].free_count = mem[x].free_count
      BY <1>2, <1>3, <2>1 DEF SlabsOf
    <3> QED BY <3>1, <3>2 DEF Partial
  <2>2. p \in Partial(c)' <=>
          p \in held' /\ (mem'[p].free_count > 0 \/ total_objects(heap_cache_sizes[c]) = 0)
    <3>1. p \in SlabsOf(c)' <=> p \in held'
      BY <1>7
    <3> QED BY <3>1 DEF Partial
  <2> QED BY <2>1, <2>2
<1> QED BY <1>4, <1>5, <1>6, <1>7, <1>8

(* The objects of page p, a slab of class c or a page given back. *)
PageObjects(p, c) ==
  /\ \A o \in live : o.page = p /\ ~IsLarge(o) =>
       /\ p \in held /\ \E i \in mem[p].bitmap : o.off = ObjectAt(heap_cache_sizes[c], i)
       /\ o.bytes # 0 /\ o.bytes <= heap_cache_sizes[c]
  /\ p \in held => \A i \in mem[p].bitmap : IsLive(p, ObjectAt(heap_cache_sizes[c], i))
  /\ \A o, x \in live : o.page = p /\ x.page = p /\ ~IsLarge(o) /\ o.off = x.off => o = x

(* The page as a small request or release leaves it. *)
PageAfter(p, c) ==
  /\ p \in held => /\ Slab(mem[p], c)
                   /\ mem[p].bitmap # {} <=> Serving(c)
                   /\ ~Serving(c) => SlabsOf(c) \subseteq {p}
  /\ p \notin held /\ mem[p].magic = "small" => mem[p].bitmap = {}
  /\ PageObjects(p, c)
  /\ List(Partial(c), Cardinality(Partial(c)), partial_pages[c], Nexts(mem))

LEMMA RelinkedSlab ==
  ASSUME NEW m, NEW x, Relinked(m, x), NEW c, Slab(x, c)
  PROVE  Slab(m, c)
BY DEF Relinked, Slab

LEMMA SlabStep ==
  ASSUME IndInv, NEW c \in Classes, NEW p \in Frames, OnPage(p, c), p \in SlabsOf(c) \/ p \in free,
         PageAfter(p, c)'
  PROVE  IndInv'
<1>1. /\ Types /\ Owned /\ Stale /\ Slabs /\ Used /\ Objects /\ Lists
      /\ rejectsAligned' = rejectsAligned
  BY DEF IndInv, OnPage
<1>2. /\ Types' /\ Owned' /\ p \notin LargePages
      /\ SlabPages' = IF p \in held' THEN SlabPages \cup {p} ELSE SlabPages \ {p}
  BY PageStep
<1>3. SlabPages \subseteq Frames /\ SlabPages \cap free = {}
  BY <1>1, LargeBlocks
<1>4. p \in held' => mem'[p].object_size = heap_cache_sizes[c]
  BY DEF PageAfter, Slab
<1>5. /\ \A d \in Classes : d # c => /\ SlabsOf(d)' = SlabsOf(d) /\ Partial(d)' = Partial(d)
                                     /\ p \notin SlabsOf(d) /\ SlabsOf(d) \cap SlabsOf(c) = {}
      /\ SlabsOf(c)' = IF p \in held' THEN SlabsOf(c) \cup {p} ELSE SlabsOf(c) \ {p}
  BY <1>4, ClassPages
<1>6. \A d : Serving(d)' <=> Serving(d)
  BY <1>1 DEF Serving
<1>7. Stale'
  <2>1. ASSUME NEW x \in Frames \ SlabPages', mem'[x].magic = "small" PROVE mem'[x].bitmap = {}
    <3>1. CASE x = p
      <4>1. p \notin held'
        BY <1>2, <3>1
      <4> QED BY <2>1, <3>1, <4>1 DEF PageAfter
    <3>2. CASE x # p
      <4>1. x \in Frames \ SlabPages /\ x \notin SlabsOf(c)
        BY <1>2, <3>2 DEF SlabsOf
      <4>2. mem'[x] = mem[x]
        BY <3>2, <4>1 DEF OnPage
      <4> QED BY <1>1, <2>1, <4>1, <4>2 DEF Stale
    <3> QED BY <3>1, <3>2
  <2> QED BY <2>1 DEF Stale
<1>8. Slabs'
  <2>1. ASSUME NEW x \in SlabPages' PROVE \E d \in Classes : Slab(mem'[x], d)
    <3>1. CASE x = p
      BY <1>2, <3>1 DEF PageAfter
    <3>2. CASE x # p
      <4>1. x \in SlabPages /\ x \in Frames
        BY <1>2, <1>3, <3>2
      <4>2. Relinked(mem'[x], mem[x])
        BY <3>2, <4>1 DEF OnPage
      <4> QED BY <1>1, <4>1, <4>2, RelinkedSlab DEF Slabs
    <3> QED BY <3>1, <3>2
  <2> QED BY <2>1 DEF Slabs, Slab
<1>9. Used'
  <2>1. ASSUME NEW d \in Classes, NEW x \in SlabsOf(d)' PROVE mem'[x].bitmap # {} <=> Serving(d)
    <3>1. CASE x = p
      <4>1. d = c /\ p \in held'
        BY <1>5, <2>1, <3>1
      <4> QED BY <1>6, <3>1, <4>1 DEF PageAfter
    <3>2. CASE x # p
      <4>1. x \in SlabsOf(d) /\ x \in Frames
        BY <1>3, <1>5, <2>1, <3>2 DEF SlabsOf
      <4>2. mem'[x].bitmap = mem[x].bitmap
        BY <3>2, <4>1 DEF OnPage, Relinked
      <4> QED BY <1>1, <4>1, <4>2 DEF Used
    <3> QED BY <3>1, <3>2
  <2>2. ASSUME NEW d \in Classes, ~Serving(d), NEW x \in SlabsOf(d)', NEW y \in SlabsOf(d)'
        PROVE  x = y
    <3>1. CASE d = c /\ p \in held'
      BY <1>6, <2>2, <3>1 DEF PageAfter
    <3>2. CASE ~(d = c /\ p \in held')
      <4>1. x \in SlabsOf(d) /\ y \in SlabsOf(d)
        BY <1>5, <2>2, <3>2
      <4> QED BY <1>1, <2>2, <4>1 DEF Used
    <3> QED BY <3>1, <3>2
  <2> QED BY <1>6, <2>1, <2>2 DEF Used
<1>10. Objects'
  <2>1. ASSUME NEW o \in live', ~IsLarge(o) PROVE \E d \in Classes : IsObject(o, d)'
    <3>1. CASE o.page = p
      <4>1. /\ p \in held' /\ \E i \in mem'[p].bitmap : o.off = ObjectAt(heap_cache_sizes[c], i)
            /\ o.bytes # 0 /\ o.bytes <= heap_cache_sizes[c]
        BY <2>1, <3>1 DEF PageAfter, PageObjects, IsLarge
      <4>2. p \in SlabsOf(c)'
        BY <1>5, <4>1
      <4>3. IsObject(o, c)'
        BY <3>1, <4>1, <4>2 DEF IsObject
      <4> QED BY <4>3
    <3>2. CASE o.page # p
      <4>1. o \in live
        BY <2>1, <3>2 DEF OnPage
      <4>2. PICK d \in Classes : IsObject(o, d)
        BY <1>1, <2>1, <4>1 DEF Objects
      <4>3. o.page \in SlabsOf(d) /\ o.page \in SlabsOf(d)' /\ o.page \in Frames
        BY <1>3, <1>5, <3>2, <4>2 DEF IsObject, SlabsOf
      <4>4. mem'[o.page].bitmap = mem[o.page].bitmap
        BY <3>2, <4>3 DEF OnPage, Relinked
      <4>5. IsObject(o, d)'
        BY <4>2, <4>3, <4>4 DEF IsObject
      <4> QED BY <4>5
    <3> QED BY <3>1, <3>2
  <2>2. ASSUME NEW d \in Classes, NEW x \in SlabsOf(d)', NEW i \in mem'[x].bitmap
        PROVE  IsLive(x, ObjectAt(heap_cache_sizes[d], i))'
    <3>1. CASE x = p
      <4>1. d = c /\ p \in held'
        BY <1>5, <2>2, <3>1
      <4> QED BY <2>2, <3>1, <4>1 DEF PageAfter, PageObjects
    <3>2. CASE x # p
      <4>1. x \in SlabsOf(d) /\ x \in Frames
        BY <1>3, <1>5, <2>2, <3>2 DEF SlabsOf
      <4>2. mem'[x].bitmap = mem[x].bitmap
        BY <3>2, <4>1 DEF OnPage, Relinked
      <4>3. PICK o \in live : o.page = x /\ o.off = ObjectAt(heap_cache_sizes[d], i)
        BY <1>1, <2>2, <4>1, <4>2 DEF Objects, IsLive
      <4>4. o \in live'
        BY <1>1, <3>2, <4>3 DEF OnPage, Types
      <4> QED BY <4>3, <4>4 DEF IsLive
    <3> QED BY <3>1, <3>2
  <2>3. ASSUME NEW o \in live', NEW x \in live', ~IsLarge(o), o.page = x.page, o.off = x.off
        PROVE  o = x
    <3>1. CASE o.page = p
      BY <2>3, <3>1 DEF PageAfter, PageObjects, IsLarge
    <3>2. CASE o.page # p
      <4>1. o \in live /\ x \in live
        BY <2>3, <3>2 DEF OnPage
      <4> QED BY <1>1, <2>3, <4>1 DEF Objects
    <3> QED BY <3>1, <3>2
  <2>4. \A o : IsLarge(o)' <=> IsLarge(o)
    BY DEF IsLarge
  <2> QED BY <2>1, <2>2, <2>3, <2>4 DEF Objects
<1>11. Lists'
  <2>1. ASSUME NEW d \in Classes
        PROVE  List(Partial(d)', Cardinality(Partial(d)'), partial_pages'[d], Nexts(mem'))
    <3>1. CASE d = c
      BY <3>1 DEF PageAfter
    <3>2. CASE d # c
      <4>1. /\ Partial(d)' = Partial(d) /\ partial_pages'[d] = partial_pages[d]
            /\ Partial(d) \subseteq SlabsOf(d) /\ Partial(d) \subseteq Frames
            /\ p \notin SlabsOf(d) /\ SlabsOf(d) \cap SlabsOf(c) = {}
        BY <1>3, <1>5, <3>2 DEF OnPage, Partial, SlabsOf
      <4>2. \A x \in Partial(d) : Nexts(mem')[x] = Nexts(mem)[x]
        BY <4>1 DEF OnPage, Nexts
      <4>3. Cardinality(Partial(d)) \in Nat
        BY <4>1, HeapAssumption, FS_Subset, FS_CardinalityType
      <4> QED BY <1>1, <4>1, <4>2, <4>3, ListSame DEF Lists
    <3> QED BY <3>1, <3>2
  <2> QED BY <2>1 DEF Lists, List, Numbers
<1> QED BY <1>2, <1>7, <1>8, <1>9, <1>10, <1>11 DEF IndInv

(* What every other step leaves alone: the slabs and the small objects. *)
Untouched ==
  /\ rejectsAligned' = rejectsAligned /\ partial_pages' = partial_pages
  /\ SlabPages' = SlabPages
  /\ \A x \in SlabPages : mem'[x] = mem[x]
  /\ \A o \in Object : ~IsLarge(o) => (o \in live' <=> o \in live)

LEMMA SlabsKept ==
  ASSUME IndInv, Untouched, Types', Owned', Stale'
  PROVE  IndInv'
<1>1. /\ Types /\ Owned /\ Slabs /\ Used /\ Objects /\ Lists
      /\ rejectsAligned' = rejectsAligned
      /\ live \subseteq Object /\ live' \subseteq Object
  BY DEF IndInv, Untouched, Types
<1>2. SlabPages' = SlabPages /\ \A x \in SlabPages : mem'[x] = mem[x]
  BY DEF Untouched
<1>3. SlabPages \subseteq Frames
  BY <1>1, LargeBlocks
<1>4. \A d : SlabsOf(d)' = SlabsOf(d) /\ Partial(d)' = Partial(d) /\ SlabsOf(d) \subseteq SlabPages
  <2>1. ASSUME NEW d
        PROVE  SlabsOf(d)' = SlabsOf(d) /\ SlabsOf(d) \subseteq SlabPages
    BY <1>2 DEF SlabsOf
  <2>2. ASSUME NEW d PROVE Partial(d)' = Partial(d)
    <3>1. \A x \in SlabsOf(d) : mem'[x].free_count = mem[x].free_count
      BY <1>2, <2>1
    <3> QED BY <2>1, <3>1 DEF Partial
  <2> QED BY <2>1, <2>2
<1>5. Slabs'
  <2>1. ASSUME NEW x \in SlabPages' PROVE \E d \in Classes : Slab(mem'[x], d)
    BY <1>1, <1>2 DEF Slabs
  <2> QED BY <2>1 DEF Slabs, Slab
<1>6. \A d : Serving(d)' <=> Serving(d)
  BY <1>1 DEF Serving
<1>7. Used'
  <2>1. \A d \in Classes : \A x \in SlabsOf(d) : mem'[x].bitmap = mem[x].bitmap
    BY <1>2, <1>4
  <2> QED BY <1>1, <1>4, <1>6, <2>1 DEF Used
<1>8. Objects'
  <2>1. ASSUME NEW o \in live', ~IsLarge(o) PROVE \E d \in Classes : IsObject(o, d)'
    <3>1. o \in live
      BY <1>1, <2>1 DEF Untouched
    <3>2. PICK d \in Classes : IsObject(o, d)
      BY <1>1, <2>1, <3>1 DEF Objects
    <3>3. IsObject(o, d)'
      BY <1>2, <1>4, <3>2 DEF IsObject
    <3> QED BY <3>3
  <2>2. ASSUME NEW d \in Classes, NEW x \in SlabsOf(d)', NEW i \in mem'[x].bitmap
        PROVE  IsLive(x, ObjectAt(heap_cache_sizes[d], i))'
    <3>1. x \in SlabsOf(d) /\ i \in mem[x].bitmap
      BY <1>2, <1>4, <2>2
    <3>2. PICK o \in live : o.page = x /\ o.off = ObjectAt(heap_cache_sizes[d], i)
      BY <1>1, <3>1 DEF Objects, IsLive
    <3>3. ~IsLarge(o)
      <4>1. IsLarge(o) => o.page \in LargePages
        BY <1>1, LargeBlocks
      <4> QED BY <1>4, <3>1, <3>2, <4>1 DEF SlabPages
    <3>4. o \in live'
      BY <1>1, <3>2, <3>3 DEF Untouched
    <3> QED BY <3>2, <3>4 DEF IsLive
  <2>3. ASSUME NEW o \in live', NEW x \in live', ~IsLarge(o), o.page = x.page, o.off = x.off
        PROVE  o = x
    <3>1. o \in live /\ x \in live
      BY <1>1, <2>3 DEF Untouched, IsLarge
    <3> QED BY <1>1, <2>3, <3>1 DEF Objects
  <2>4. \A o : IsLarge(o)' <=> IsLarge(o)
    BY DEF IsLarge
  <2> QED BY <2>1, <2>2, <2>3, <2>4 DEF Objects
<1>9. Lists'
  <2>1. ASSUME NEW d \in Classes
        PROVE  List(Partial(d)', Cardinality(Partial(d)'), partial_pages'[d], Nexts(mem'))
    <3>1. Partial(d) \subseteq SlabPages /\ Partial(d) \subseteq Frames
      BY <1>3, <1>4 DEF Partial
    <3>2. \A x \in Partial(d) : Nexts(mem')[x] = Nexts(mem)[x]
      BY <1>2, <3>1 DEF Nexts
    <3>3. Cardinality(Partial(d)) \in Nat
      BY <3>1, HeapAssumption, FS_Subset, FS_CardinalityType
    <3>4. List(Partial(d), Cardinality(Partial(d)), partial_pages[d], Nexts(mem'))
      BY <1>1, <3>2, <3>3, ListSame DEF Lists
    <3> QED BY <1>4, <3>4 DEF Untouched
  <2> QED BY <2>1 DEF Lists, List, Numbers
<1> QED BY <1>5, <1>7, <1>8, <1>9 DEF IndInv

------------------------------------------------------------------------------
(* The steps that are about no slab.                                       *)

LEMMA NoHeapIsPage == NoHeap \in Page
BY DEF NoHeap, Page

LEMMA InitInv == ASSUME Init PROVE IndInv
<1>1. NoHeap.magic = "none"
  BY DEF NoHeap
<1>2. Types
  BY NoHeapIsPage, HeapAssumption DEF Init, Types
<1>3. SlabPages = {} /\ \A c : SlabsOf(c) = {} /\ Partial(c) = {}
  BY DEF Init, SlabPages, SlabsOf, Partial
<1>4. Owned /\ Slabs /\ Used /\ Objects
  BY <1>3 DEF Init, Owned, Slabs, Used, Objects
<1>5. Stale
  BY <1>1 DEF Init, Stale
<1>6. Lists
  <2>1. \A c \in Classes : partial_pages[c] = 0
    BY DEF Init
  <2>2. Cardinality({}) = 0
    BY FS_EmptySet
  <2>3. List({}, 0, 0, Nexts(mem))
    BY ListEmpty
  <2> QED BY <1>3, <2>1, <2>2, <2>3 DEF Lists
<1> QED BY <1>2, <1>4, <1>5, <1>6 DEF IndInv

(* A call that changes nothing. *)
LEMMA Stutter ==
  ASSUME IndInv, UNCHANGED vars
  PROVE  IndInv'
<1>1. Types /\ Owned /\ Stale
  BY DEF IndInv
<1>2. LargePages' = LargePages
  BY DEF vars, LargePages
<1>3. SlabPages' = SlabPages
  BY <1>2 DEF vars, SlabPages
<1>4. Untouched
  BY <1>3 DEF vars, Untouched
<1>5. Types'
  BY <1>1 DEF vars, Types
<1>6. Owned'
  BY <1>1 DEF vars, Owned, IsLarge, Block
<1>7. Stale'
  BY <1>1, <1>3 DEF vars, Stale
<1> QED BY <1>4, <1>5, <1>6, <1>7, SlabsKept

LEMMA OnePage == ASSUME NEW p \in Frames PROVE PA!Run(p, 1) = {p} /\ PA!Run(p, BlockPages(1)) = {p}
<1>1. p \in Nat
  BY HeapAssumption
<1> QED BY <1>1, Blocks DEF PA!Run

(* A page of other parts of the kernel comes or goes. *)
LEMMA OthersStep ==
  ASSUME IndInv, Make_Page \/ OtherFrees, rejectsAligned' = rejectsAligned
  PROVE  IndInv'
<1>1. Types /\ Owned /\ Stale
  BY DEF IndInv
<1>2. LargePages \subseteq held \ others /\ SlabPages \cap free = {} /\ SlabPages \subseteq held
      /\ \A o \in live : IsLarge(o) => o.page \in Block(o) /\ Block(o) \subseteq LargePages
  BY <1>1, LargeBlocks
<1>3. PICK p \in Frames :
        /\ live' = live /\ partial_pages' = partial_pages /\ p \notin LargePages \cup SlabPages
        /\ \/ /\ p \in free /\ free' = free \ {p} /\ held' = held \cup {p}
              /\ others' = others \cup {p} /\ mem' = [mem EXCEPT ![p] = NoHeap]
           \/ /\ p \in others /\ free' = free \cup {p} /\ held' = held \ {p}
              /\ others' = others \ {p} /\ mem' = mem
  <2>1. CASE Make_Page
    <3>1. PICK p \in free : /\ PA!Allocate(p, 1) /\ others' = others \cup {p}
                            /\ mem' = [mem EXCEPT ![p] = NoHeap] /\ UNCHANGED <<partial_pages, live>>
      BY <2>1 DEF Make_Page
    <3>2. p \in Frames /\ p \notin LargePages \cup SlabPages
      BY <1>1, <1>2 DEF Types, Owned
    <3>3. free' = free \ {p} /\ held' = held \cup {p}
      BY <3>1, <3>2, OnePage DEF PA!Allocate
    <3> QED BY <3>1, <3>2, <3>3
  <2>2. CASE OtherFrees
    <3>1. PICK p \in others : /\ buddy_free_pages(p, 1) /\ others' = others \ {p}
                              /\ UNCHANGED <<partial_pages, mem, live>>
      BY <2>2 DEF OtherFrees
    <3>2. p \in Frames /\ p \in held /\ p \notin LargePages \cup SlabPages
      BY <1>1, <1>2 DEF Types, Owned, SlabPages
    <3>3. free' = free \cup {p} /\ held' = held \ {p}
      BY <3>1, <3>2, OnePage DEF buddy_free_pages
    <3> QED BY <3>1, <3>2, <3>3
  <2> QED BY <2>1, <2>2
<1>4. \A x \in Frames : /\ x # p => mem'[x] = mem[x]
                        /\ mem'[x].magic = "small" => mem'[x] = mem[x]
  <2>1. NoHeap.magic # "small"
    BY DEF NoHeap
  <2> QED BY <1>1, <1>3, <2>1 DEF Types
<1>5. Types'
  BY <1>1, <1>3, NoHeapIsPage DEF Types
<1>6. LargePages' = LargePages
  BY <1>3 DEF LargePages
<1>7. SlabPages' = SlabPages
  <2>1. held' \ others' = held \ others
    BY <1>1, <1>3 DEF Owned
  <2> QED BY <1>6, <2>1 DEF SlabPages
<1>8. Untouched
  <2>1. \A x \in SlabPages : x \in Frames /\ x # p
    BY <1>1, <1>3, LargeBlocks
  <2> QED BY <1>3, <1>4, <1>7, <2>1 DEF Untouched
<1>9. Owned'
  <2>1. (free \cap held = {} /\ others \subseteq held)' /\ held' \ others' = held \ others
    BY <1>1, <1>3 DEF Owned
  <2>2. ASSUME NEW o \in live, IsLarge(o) PROVE mem'[o.page] = mem[o.page]
    <3>1. o.page \in LargePages /\ o.page \in Frames
      BY <1>1, <1>2, <2>2 DEF Types, Object
    <3> QED BY <1>3, <1>4, <3>1
  <2> QED BY <1>1, <1>3, <2>1, <2>2 DEF Owned, IsLarge, Block
<1>10. Stale'
  BY <1>1, <1>4, <1>7 DEF Stale
<1> QED BY <1>5, <1>8, <1>9, <1>10, SlabsKept

LEMMA AllocLargeStep ==
  ASSUME IndInv, NEW size \in RequestSizes, size # 0, AllocLarge(size), rejectsAligned' = rejectsAligned
  PROVE  IndInv'
<1> DEFINE n == PagesFor(size)
           B(f) == PA!Run(f, BlockPages(n))
           new(f) == [page |-> f, off |-> LargeHeader, bytes |-> size]
<1>1. Types /\ Owned /\ Stale
  BY DEF IndInv
<1>2. /\ LargePages \subseteq held \ others /\ SlabPages \cap free = {} /\ SlabPages \subseteq Frames
      /\ \A o \in live : IsLarge(o) => o.page \in Block(o) /\ Block(o) \subseteq LargePages
  BY <1>1, LargeBlocks
<1>3. n \in Nat
  BY PagesHold
<1>4. PICK f \in free :
        /\ n <= 2^18 /\ B(f) \subseteq free /\ free' = free \ B(f) /\ held' = held \cup B(f)
        /\ mem' = LargeBlock(f, n) /\ live' = live \cup {new(f)}
        /\ others' = others /\ partial_pages' = partial_pages
  BY DEF AllocLarge, PA!Allocate
<1>5. f \in Frames /\ new(f) \in Object /\ IsLarge(new(f)) /\ Block(new(f)) = B(f)
      /\ new(f).page = f /\ new(f).bytes = size
  BY <1>1, <1>4 DEF Types, Object, IsLarge, Block
<1>6. f \in B(f)
  <2>1. BlockPages(n) \in Nat \ {0} /\ f \in Nat
    BY <1>3, <1>4, <1>5, Blocks, HeapAssumption
  <2> HIDE DEF n
  <2> QED BY <2>1 DEF PA!Run
<1> DEFINE h == [NoHeap EXCEPT !.magic = "large", !.page_count = n]
           o1 == new(f)
           b == B(f)
<1>7. h \in Page /\ h.magic = "large" /\ h.page_count = n
  <2> HIDE DEF n
  <2> QED BY <1>3 DEF NoHeap, Page
<1>8. mem' = [x \in Frames |-> IF x = f THEN h ELSE IF x \in b THEN NoHeap ELSE mem[x]]
  BY <1>4 DEF LargeBlock
<1>9. b \subseteq free /\ free' = free \ b /\ held' = held \cup b /\ f \in b /\ live' = live \cup {o1}
      /\ o1 \in Object /\ IsLarge(o1) /\ Block(o1) = b /\ o1.page = f /\ o1.bytes = size /\ n <= 2^18
  BY <1>4, <1>5, <1>6
<1> HIDE DEF h, o1, b, n, new, B
<1>10. mem' \in [Frames -> Page] /\ mem'[f] = h /\ \A x \in Frames : x \notin b => mem'[x] = mem[x]
  BY <1>1, <1>5, <1>7, <1>8, <1>9, NoHeapIsPage DEF Types
<1>11. Types'
  BY <1>1, <1>4, <1>9, <1>10 DEF Types
<1>12. LargePages' = LargePages \cup b
  <2>1. LargePages = UNION { Block(o) : o \in { x \in live : IsLarge(x) } }
    BY DEF LargePages, Block, IsLarge
  <2>2. LargePages' = UNION { Block(o) : o \in { x \in live' : IsLarge(x) } }
    BY DEF LargePages, Block, IsLarge
  <2>3. { x \in live' : IsLarge(x) } = { x \in live : IsLarge(x) } \cup {o1}
    BY <1>9
  <2> HIDE DEF Block
  <2>4. ASSUME NEW x PROVE x \in LargePages' <=> x \in LargePages \/ x \in b
    BY <1>9, <2>1, <2>2, <2>3
  <2> QED BY <2>4
<1>13. SlabPages' = SlabPages
  BY <1>1, <1>4, <1>9, <1>12 DEF SlabPages, Owned
<1>14. Untouched
  <2>1. \A x \in SlabPages : x \in Frames /\ x \notin b
    BY <1>2, <1>9
  <2> QED BY <1>4, <1>9, <1>10, <1>13, <2>1 DEF Untouched
<1>15. Owned'
  <2>1. (free \cap held = {} /\ others \subseteq held)'
    BY <1>1, <1>4, <1>9 DEF Owned
  <2>2. ASSUME NEW o \in live', IsLarge(o)
        PROVE  /\ Block(o) \subseteq held' \ others' /\ o.bytes # 0 /\ PagesFor(o.bytes) <= 2^18
               /\ mem'[o.page].magic = "large" /\ mem'[o.page].page_count = PagesFor(o.bytes)
               /\ o # o1 => o \in live /\ Block(o) \cap b = {}
    <3>1. CASE o = o1
      <4>1. b \subseteq held' \ others'
        BY <1>1, <1>4, <1>9 DEF Owned
      <4> QED BY <1>7, <1>9, <1>10, <3>1, <4>1 DEF n
    <3>2. CASE o # o1
      <4>1. o \in live /\ o.page \in Block(o) /\ Block(o) \subseteq LargePages /\ o.page \in Frames
        BY <1>1, <1>2, <1>9, <2>2, <3>2 DEF Types, Object
      <4>2. Block(o) \cap b = {}
        BY <1>1, <1>2, <1>9, <4>1 DEF Owned
      <4>3. mem'[o.page] = mem[o.page]
        BY <1>10, <4>1, <4>2
      <4>4. Block(o) \subseteq held' \ others'
        BY <1>2, <1>4, <1>9, <4>1
      <4> QED BY <1>1, <2>2, <4>1, <4>2, <4>3, <4>4 DEF Owned
    <3> QED BY <3>1, <3>2
  <2>3. ASSUME NEW o \in live', NEW x \in live', IsLarge(o), IsLarge(x)
        PROVE  o = x \/ Block(o) \cap Block(x) = {}
    BY <1>1, <1>9, <2>2, <2>3 DEF Owned
  <2>4. \A o : (IsLarge(o)' <=> IsLarge(o)) /\ Block(o)' = Block(o)
    BY DEF IsLarge, Block
  <2> QED BY <2>1, <2>2, <2>3, <2>4 DEF Owned
<1>16. Stale'
  <2>1. ASSUME NEW x \in Frames PROVE mem'[x].magic = "small" => mem'[x] = mem[x]
    <3>1. NoHeap.magic # "small"
      BY DEF NoHeap
    <3> QED BY <1>7, <1>8, <3>1
  <2> QED BY <1>1, <1>13, <2>1 DEF Stale
<1> QED BY <1>11, <1>14, <1>15, <1>16, SlabsKept

------------------------------------------------------------------------------
(* kfree.                                                                  *)

(* A slab page of class c has the records of a slab of that class. *)
LEMMA SlabOfClass ==
  ASSUME IndInv
  PROVE  /\ \A c \in Classes : \A p \in SlabsOf(c) : Slab(mem[p], c) /\ p \in Frames /\ p \in SlabPages
         /\ \A p \in SlabPages : \E c \in Classes : p \in SlabsOf(c)
<1>1. SlabPages \subseteq Frames
  BY LargeBlocks DEF IndInv
<1>2. ASSUME NEW c \in Classes, NEW p \in SlabsOf(c) PROVE Slab(mem[p], c)
  <2>1. p \in SlabPages /\ mem[p].object_size = heap_cache_sizes[c]
    BY DEF SlabsOf
  <2>2. PICK d \in Classes : Slab(mem[p], d)
    BY <2>1 DEF IndInv, Slabs
  <2>3. mem[p].object_size = heap_cache_sizes[d]
    BY <2>2 DEF Slab
  <2> QED BY <2>1, <2>2, <2>3, ClassSizes
<1>3. ASSUME NEW p \in SlabPages PROVE \E c \in Classes : p \in SlabsOf(c)
  BY DEF IndInv, Slabs, Slab, SlabsOf
<1> QED BY <1>1, <1>2, <1>3 DEF SlabsOf

(* kfree of what is not live finds nothing to do. *)
LEMMA DeadFree ==
  ASSUME IndInv, NEW p \in Frames, NEW off \in Offsets \cup {LargeHeader}, kfree(p, off), ~IsLive(p, off)
  PROVE  UNCHANGED <<free, held, others, partial_pages, mem, live>>
<1>1. Types /\ Owned /\ Stale /\ Used /\ Objects
  BY DEF IndInv
<1>2. live' = live
  BY DEF kfree, Forget, IsLive
<1>3. p \in free \/ p \in SlabPages
  BY DEF kfree, MayPass
<1>4. CASE p \in free
  <2>1. p \notin held /\ (mem[p].magic = "small" => mem[p].bitmap = {})
    <3>1. p \notin SlabPages /\ p \notin held
      BY <1>1, <1>4, LargeBlocks DEF Owned
    <3> QED BY <1>1, <3>1 DEF Stale
  <2> QED BY <1>2, <2>1 DEF kfree, heap_free_small, heap_free_large, buddy_free_pages
<1>5. CASE p \in SlabPages
  <2>1. PICK c \in Classes : p \in SlabsOf(c) /\ Slab(mem[p], c)
    BY <1>5, SlabOfClass
  <2> DEFINE size == heap_cache_sizes[c]
             index == object_index(off, size)
  <2>2. mem[p].magic = "small" /\ mem[p].object_size = size
    BY <2>1 DEF Slab
  <2>3. heap_free_small(p, off) /\ others' = others
    BY <2>2 DEF kfree
  <2>4. index = -1 \/ index \notin mem[p].bitmap
    <3> SUFFICES ASSUME index # -1, index \in mem[p].bitmap PROVE FALSE
      OBVIOUS
    <3>1. Serving(c)
      BY <1>1, <2>1 DEF Used
    <3>2. off \in Nat /\ ~rejectsAligned /\ rejectsAligned \in BOOLEAN
      BY <1>1, <3>1, OffsetFacts, HeapAssumption DEF Serving, Types
    <3>3. off = ObjectAt(size, index)
      BY <3>2, ObjectIndex
    <3>4. IsLive(p, ObjectAt(size, index))
      <4> HIDE DEF index
      <4> QED BY <1>1, <2>1 DEF Objects
    <3> QED BY <3>3, <3>4
  <2> QED BY <1>2, <2>2, <2>3, <2>4 DEF heap_free_small
<1> QED BY <1>3, <1>4, <1>5

(* A large object: its block goes back to the page allocator. *)
LEMMA FreeLargeStep ==
  ASSUME IndInv, NEW o \in live, IsLarge(o), kfree(o.page, o.off), rejectsAligned' = rejectsAligned
  PROVE  /\ IndInv'
         /\ PA!Run(o.page, BlockPages(PagesFor(o.bytes))) \subseteq held
         /\ held' = held \ PA!Run(o.page, BlockPages(PagesFor(o.bytes)))
         /\ free' = free \cup PA!Run(o.page, BlockPages(PagesFor(o.bytes)))
<1> DEFINE p == o.page
           b == Block(o)
<1>1. Types /\ Owned /\ Stale
  BY DEF IndInv
<1>2. /\ LargePages \subseteq held \ others /\ SlabPages \cap free = {} /\ SlabPages \subseteq Frames
      /\ \A x \in live : IsLarge(x) => x.page \in Block(x) /\ Block(x) \subseteq LargePages
      /\ \A y \in LargePages : \E x \in live : IsLarge(x) /\ y \in Block(x)
  BY <1>1, LargeBlocks
<1>3. /\ mem[p].magic = "large" /\ mem[p].page_count = PagesFor(o.bytes) /\ b \subseteq held \ others
      /\ p \in b
  BY <1>1, <1>2 DEF Owned
<1>4. heap_free_large(p) /\ others' = others /\ live' = { x \in live : ~(x.page = p /\ x.off = o.off) }
  BY <1>3 DEF kfree, Forget
<1>5. free' = free \cup b /\ held' = held \ b /\ partial_pages' = partial_pages /\ mem' = mem
  BY <1>3, <1>4 DEF heap_free_large, buddy_free_pages, Block
<1>6. ASSUME NEW x \in Object
      PROVE  x \in live' <=> x \in live /\ x # o
  <2>1. ASSUME x \in live, x.page = p, x.off = o.off PROVE x = o
    <3>1. IsLarge(x)
      BY <2>1 DEF IsLarge
    <3>2. x.page \in Block(x) /\ x.page \in b
      BY <1>2, <1>3, <2>1, <3>1
    <3> QED BY <1>1, <2>1, <3>1, <3>2 DEF Owned
  <2> QED BY <1>4, <2>1
<1>7. live' \subseteq live
  BY <1>4
<1>8. Types'
  BY <1>1, <1>2, <1>3, <1>5, <1>7 DEF Types
<1> HIDE DEF p, b
<1>9. LargePages' = LargePages \ b
  <2>1. LargePages' = UNION { Block(x) : x \in { y \in live' : IsLarge(y) } }
    BY DEF LargePages, Block, IsLarge
  <2> HIDE DEF Block
  <2>2. ASSUME NEW y PROVE y \in LargePages' <=> y \in LargePages /\ y \notin b
    <3>1. ASSUME y \in LargePages' PROVE y \in LargePages /\ y \notin b
      <4>1. PICK x \in live' : IsLarge(x) /\ y \in Block(x)
        BY <2>1, <3>1
      <4>2. x \in live /\ x # o
        BY <1>1, <1>6, <1>7, <4>1 DEF Types
      <4> QED BY <1>1, <1>2, <4>1, <4>2 DEF Owned, b
    <3>2. ASSUME y \in LargePages, y \notin b PROVE y \in LargePages'
      <4>1. PICK x \in live : IsLarge(x) /\ y \in Block(x)
        BY <1>2, <3>2
      <4>2. x \in live'
        BY <1>1, <1>6, <3>2, <4>1 DEF Types, b
      <4> QED BY <2>1, <4>1, <4>2
    <3> QED BY <3>1, <3>2
  <2> QED BY <2>2
<1>10. SlabPages' = SlabPages
  <2>1. b \subseteq LargePages
    BY <1>2 DEF b
  <2> QED BY <1>4, <1>5, <1>9, <2>1 DEF SlabPages
<1>11. Untouched
  BY <1>5, <1>6, <1>10 DEF Untouched
<1>12. Owned'
  <2>1. (free \cap held = {} /\ others \subseteq held)'
    BY <1>1, <1>3, <1>4, <1>5 DEF Owned
  <2>2. ASSUME NEW x \in live', IsLarge(x)
        PROVE  x \in live /\ Block(x) \subseteq held' \ others'
    <3>1. x \in live /\ x # o
      BY <1>1, <1>6, <1>7 DEF Types
    <3>2. Block(x) \subseteq held \ others /\ Block(x) \cap b = {}
      BY <1>1, <2>2, <3>1 DEF Owned, b
    <3> QED BY <1>4, <1>5, <3>1, <3>2
  <2>3. \A x : (IsLarge(x)' <=> IsLarge(x)) /\ Block(x)' = Block(x)
    BY DEF IsLarge, Block
  <2> QED BY <1>1, <1>5, <2>1, <2>2, <2>3 DEF Owned
<1>13. Stale'
  BY <1>1, <1>5, <1>10 DEF Stale
<1>14. IndInv'
  BY <1>8, <1>11, <1>12, <1>13, SlabsKept
<1> QED BY <1>3, <1>5, <1>14 DEF b, Block

(* What kfree finds of a small object that is live. *)
LEMMA LiveSmall ==
  ASSUME IndInv, NEW o \in live, ~IsLarge(o)
  PROVE  \E c \in Classes : \E i \in mem[o.page].bitmap :
           /\ o.page \in SlabsOf(c) /\ Slab(mem[o.page], c) /\ mem[o.page] \in Page
           /\ Serving(c) /\ o.off = ObjectAt(heap_cache_sizes[c], i)
           /\ i \in 0 .. (total_objects(heap_cache_sizes[c]) - 1)
           /\ object_index(o.off, mem[o.page].object_size) = i /\ i # -1
           /\ heap_cache_index(mem[o.page].object_size) = c
<1>1. Types /\ Used /\ Objects
  BY DEF IndInv
<1>2. PICK c \in Classes : IsObject(o, c)
  BY <1>1 DEF Objects
<1>3. PICK i \in mem[o.page].bitmap : o.off = ObjectAt(heap_cache_sizes[c], i)
  BY <1>2 DEF IsObject
<1>4. o.page \in SlabsOf(c) /\ Slab(mem[o.page], c) /\ o.page \in Frames
  BY <1>2, SlabOfClass DEF IsObject
<1>5. mem[o.page] \in Page /\ mem[o.page].object_size = heap_cache_sizes[c]
  BY <1>1, <1>4 DEF Types, Slab
<1>6. i \in 0 .. (total_objects(heap_cache_sizes[c]) - 1)
  BY <1>4 DEF Slab
<1>7. Serving(c)
  BY <1>1, <1>3, <1>4 DEF Used
<1>8. object_index(ObjectAt(heap_cache_sizes[c], i), heap_cache_sizes[c]) = i
  BY <1>1, <1>6, <1>7, ObjectIndex DEF Serving, Types
<1>9. i # -1
  BY <1>6
<1>10. heap_cache_index(heap_cache_sizes[c]) = c
  BY CacheIndex
<1> QED BY <1>3, <1>4, <1>5, <1>6, <1>7, <1>8, <1>9, <1>10

(* The partial list of a class as the invariant has it. *)
LEMMA PartialList ==
  ASSUME IndInv, NEW c \in Classes
  PROVE  /\ Partial(c) \subseteq Frames /\ Partial(c) \subseteq SlabsOf(c)
         /\ 0 \notin Partial(c) /\ Cardinality(Partial(c)) \in Nat
         /\ List(Partial(c), Cardinality(Partial(c)), partial_pages[c], Nexts(mem))
<1>1. Partial(c) \subseteq SlabsOf(c) /\ SlabsOf(c) \subseteq Frames
  BY SlabOfClass DEF Partial
<1>2. 0 \notin Partial(c) /\ Cardinality(Partial(c)) \in Nat
  BY <1>1, HeapAssumption, FS_Subset, FS_CardinalityType
<1> QED BY <1>1, <1>2 DEF IndInv, Lists

(* A page whose link is kept is no change to a list. *)
LEMMA SameNexts ==
  ASSUME NEW memory \in [Frames -> Page], NEW p \in Frames, NEW m \in Page, m.next = memory[p].next
  PROVE  /\ [memory EXCEPT ![p] = m] \in [Frames -> Page]
         /\ [memory EXCEPT ![p] = m][p] = m
         /\ \A x \in Frames : x # p => [memory EXCEPT ![p] = m][x] = memory[x]
         /\ Nexts([memory EXCEPT ![p] = m]) = Nexts(memory)
<1> DEFINE r == [memory EXCEPT ![p] = m]
<1>1. r \in [Frames -> Page] /\ r[p] = m /\ \A x \in Frames : x # p => r[x] = memory[x]
  OBVIOUS
<1> HIDE DEF r
<1>2. \A x \in Frames : r[x].next = memory[x].next
  BY <1>1
<1>3. Nexts(r) = Nexts(memory)
  BY <1>2 DEF Nexts
<1> QED BY <1>1, <1>3 DEF r

LEMMA FreeSmallStep ==
  ASSUME IndInv, NEW o \in live, ~IsLarge(o), kfree(o.page, o.off), rejectsAligned' = rejectsAligned
  PROVE  /\ IndInv'
         /\ \/ UNCHANGED <<free, held>>
            \/ o.page \in held /\ held' = held \ {o.page} /\ free' = free \cup {o.page}
<1> DEFINE p == o.page
           off == o.off
           m == mem[p]
<1>1. Types /\ Owned /\ Objects
  BY DEF IndInv
<1>2. PICK c \in Classes : \E i \in mem[p].bitmap :
        /\ p \in SlabsOf(c) /\ Slab(m, c) /\ m \in Page
        /\ Serving(c) /\ off = ObjectAt(heap_cache_sizes[c], i)
        /\ i \in 0 .. (total_objects(heap_cache_sizes[c]) - 1)
        /\ object_index(off, m.object_size) = i /\ i # -1
        /\ heap_cache_index(m.object_size) = c
  BY LiveSmall
<1> DEFINE size == heap_cache_sizes[c]
           n == total_objects(size)
<1>3. PICK i \in m.bitmap :
        /\ p \in SlabsOf(c) /\ Slab(m, c) /\ m \in Page
        /\ Serving(c) /\ off = ObjectAt(size, i) /\ i \in 0 .. (n - 1)
        /\ object_index(off, m.object_size) = i /\ i # -1
        /\ heap_cache_index(m.object_size) = c
  BY <1>2
<1> DEFINE t == FreedObject(m, off, i)
<1>4. p \in Frames /\ p \in SlabPages /\ p \in held /\ p \notin free
  BY <1>1, <1>3, SlabOfClass, LargeBlocks
<1>5. /\ t \in Page /\ Slab(t, c) /\ t.bitmap = m.bitmap \ {i}
      /\ t.free_count = m.free_count + 1 /\ t.next = m.next /\ t.object_size = size
  <2>1. /\ t \in Page /\ Slab(t, c) /\ t.bitmap = m.bitmap \ {i}
        /\ t.free_count = m.free_count + 1 /\ t.next = m.next
    <3> HIDE DEF m, off
    <3> QED BY <1>3, FreedSlab
  <2> QED BY <2>1 DEF Slab
<1>6. ReturnObject(t, p, c) /\ others' = others
      /\ live' = { x \in live : ~(x.page = p /\ x.off = off) }
  <2>1. m.magic = "small"
    BY <1>3 DEF Slab
  <2>2. heap_free_small(p, off) /\ others' = others /\ Forget(p, off)
    BY <2>1 DEF kfree
  <2>3. heap_free_small(p, off) = ReturnObject(t, p, c)
    BY <1>3 DEF heap_free_small
  <2> QED BY <2>2, <2>3 DEF Forget
<1> HIDE DEF t
<1>7. n \in Nat /\ n > 0 /\ (t.free_count = n <=> t.bitmap = {}) /\ m.free_count \in Nat
  <2>1. n \in Nat /\ n > 0
    BY <1>3, ObjectPlaces
  <2>2. t.free_count = n <=> t.bitmap = {}
    BY <1>5, <2>1, SlabCount
  <2> QED BY <1>3, <2>1, <2>2 DEF Page
(* The objects that are left. *)
<1>8. ASSUME NEW x \in live', x.page = p, ~IsLarge(x)
      PROVE  /\ \E j \in t.bitmap : x.off = ObjectAt(size, j)
             /\ x.bytes # 0 /\ x.bytes <= size
  <2>1. x \in live /\ x.off # off
    BY <1>6, <1>8
  <2>2. PICK d \in Classes : IsObject(x, d)
    BY <1>1, <1>8, <2>1 DEF Objects
  <2>3. d = c
    BY <1>3, <1>8, <2>2, ClassSizes DEF IsObject, SlabsOf
  <2> QED BY <1>3, <1>5, <1>8, <2>1, <2>2, <2>3 DEF IsObject
<1>9. ASSUME NEW j \in t.bitmap PROVE IsLive(p, ObjectAt(size, j))'
  <2>1. PICK x \in live : x.page = p /\ x.off = ObjectAt(size, j)
    BY <1>1, <1>3, <1>5 DEF Objects, IsLive
  <2>2. ObjectAt(size, j) # ObjectAt(size, i)
    <3>1. i \in Nat /\ j \in Nat /\ i # j
      BY <1>3, <1>5 DEF Page
    <3>2. /\ ObjectAt(size, i) \in Nat /\ ObjectAt(size, j) \in Nat /\ size \in Nat \ {0}
          /\ i < j => ObjectAt(size, i) + size <= ObjectAt(size, j)
          /\ j < i => ObjectAt(size, j) + size <= ObjectAt(size, i)
      BY <3>1, ObjectPlaces, ClassSizes
    <3> HIDE DEF size
    <3> QED BY <3>1, <3>2
  <2>3. x \in live'
    BY <1>3, <1>6, <2>1, <2>2
  <2> QED BY <2>1, <2>3 DEF IsLive
<1>10. ASSUME mem'[p].bitmap = t.bitmap, t.bitmap = {} \/ p \in held' PROVE PageObjects(p, c)'
  <2>1. \A x \in live' : x.page = p /\ ~IsLarge(x) =>
          /\ p \in held' /\ \E j \in mem'[p].bitmap : x.off = ObjectAt(size, j)
          /\ x.bytes # 0 /\ x.bytes <= size
    BY <1>8, <1>10
  <2>2. \A x, y \in live' : x.page = p /\ y.page = p /\ ~IsLarge(x) /\ x.off = y.off => x = y
    BY <1>1, <1>6 DEF Objects
  <2>3. \A x : IsLarge(x)' <=> IsLarge(x)
    BY DEF IsLarge
  <2> QED BY <1>9, <1>10, <2>1, <2>2, <2>3 DEF PageObjects
<1>11. /\ live' \subseteq Object
       /\ \A x \in Object : x.page # p \/ IsLarge(x) => (x \in live' <=> x \in live)
  BY <1>1, <1>6 DEF Types, IsLarge
<1>12. /\ Partial(c) \subseteq Frames /\ Partial(c) \subseteq SlabsOf(c)
       /\ List(Partial(c), Cardinality(Partial(c)), partial_pages[c], Nexts(mem))
       /\ Cardinality(Partial(c)) \in Nat
  BY PartialList
<1>13. partial_pages \in [Classes -> Frames \cup {0}] /\ mem \in [Frames -> Page]
       /\ free \subseteq Frames /\ held \subseteq Frames
  BY <1>1 DEF Types
<1>14. p \in Partial(c) <=> m.free_count > 0
  BY <1>3, <1>7 DEF Partial
<1> HIDE DEF p, off, m, size, n
<1>15. CASE /\ t.free_count = total_objects(t.object_size)
            /\ heap_remove_slab_from_cache([mem EXCEPT ![p] = Discarded(t)], partial_pages, c, p)
            /\ buddy_free_pages(p, 1)
  <2> DEFINE z == Discarded(t)
             memory == [mem EXCEPT ![p] = z]
  <2>1. t.bitmap = {}
    BY <1>5, <1>7, <1>15 DEF n
  <2>2. z \in Page /\ z.bitmap = {} /\ z.next = mem[p].next
    BY <1>5, <2>1 DEF Page, Discarded, m
  <2>3. held' = held \ {p} /\ free' = free \cup {p}
    BY <1>4, <1>15, OnePage DEF buddy_free_pages
  <2>4. /\ memory \in [Frames -> Page] /\ memory[p] = z
        /\ \A x \in Frames : x # p => memory[x] = mem[x]
        /\ Nexts(memory) = Nexts(mem)
    <3> HIDE DEF z
    <3> QED BY <1>4, <1>13, <2>2, SameNexts, ZenonT(60)
  <2> HIDE DEF z, memory
  <2>5. /\ mem' \in [Frames -> Page] /\ partial_pages' \in [Classes -> Frames \cup {0}]
        /\ \A d \in Classes : d # c => partial_pages'[d] = partial_pages[d]
        /\ \A x \in Frames : Relinked(mem'[x], memory[x]) /\ (x \notin Partial(c) => mem'[x] = memory[x])
        /\ List(Partial(c) \ {p}, Cardinality(Partial(c) \ {p}), partial_pages'[c], Nexts(mem'))
    <3>1. heap_remove_slab_from_cache(memory, partial_pages, c, p)
      BY <1>15 DEF memory, z
    <3> QED BY <1>4, <1>12, <1>13, <2>4, <3>1, RemoveSlab
  <2>6. OnPage(p, c)
    BY <1>4, <1>6, <1>11, <1>12, <1>13, <2>3, <2>4, <2>5 DEF OnPage
  <2>7. p \notin held' /\ mem'[p].bitmap = {}
    BY <1>4, <2>2, <2>3, <2>4, <2>5 DEF Relinked
  <2>8. Partial(c)' = Partial(c) \ {p}
    BY <1>3, <1>4, <2>6, <2>7, ClassPages
  <2>9. PageObjects(p, c)'
    BY <1>10, <2>1, <2>7
  <2>10. PageAfter(p, c)'
    <3>1. List(Partial(c)', Cardinality(Partial(c)'), partial_pages'[c], Nexts(mem'))
      BY <2>5, <2>8
    <3> QED BY <2>7, <2>9, <3>1 DEF PageAfter, List, Numbers
  <2> QED BY <1>3, <1>4, <2>3, <2>6, <2>10, SlabStep DEF p
<1> DEFINE memory == [mem EXCEPT ![p] = t]
<1>16. /\ memory \in [Frames -> Page] /\ memory[p] = t
       /\ \A x \in Frames : x # p => memory[x] = mem[x]
       /\ Nexts(memory) = Nexts(mem)
  BY <1>4, <1>5, <1>13, SameNexts, ZenonT(60) DEF m
<1>17. \A x \in Frames : Relinked(memory[x], memory[x])
  BY DEF Relinked
<1> HIDE DEF memory
<1>18. ASSUME t.free_count # total_objects(t.object_size), UNCHANGED <<free, held>>,
              mem' \in [Frames -> Page], partial_pages' \in [Classes -> Frames \cup {0}],
              \A d \in Classes : d # c => partial_pages'[d] = partial_pages[d],
              \A x \in Frames : Relinked(mem'[x], memory[x]) /\ (x # p => mem'[x] = memory[x]),
              List(Partial(c) \cup {p}, Cardinality(Partial(c) \cup {p}), partial_pages'[c], Nexts(mem'))
       PROVE  IndInv' /\ UNCHANGED <<free, held>>
  <2>1. t.bitmap # {}
    BY <1>5, <1>7, <1>18 DEF n
  <2>2. \A x \in Frames : x # p => mem'[x] = mem[x] /\ Relinked(mem'[x], mem[x])
    BY <1>16, <1>18
  <2>3. OnPage(p, c)
    BY <1>4, <1>6, <1>11, <1>13, <1>18, <2>2 DEF OnPage
  <2>4. Relinked(mem'[p], t) /\ p \in held'
    BY <1>4, <1>16, <1>18
  <2>5. Slab(mem'[p], c)
    BY <1>5, <2>4, RelinkedSlab
  <2>6. mem'[p].bitmap = t.bitmap /\ mem'[p].free_count = t.free_count /\ mem'[p].object_size = heap_cache_sizes[c]
    BY <1>5, <2>4 DEF Relinked, size
  <2>7. t.free_count > 0
    BY <1>5, <1>7
  <2>8. Partial(c)' = Partial(c) \cup {p}
    BY <1>3, <1>4, <2>3, <2>4, <2>6, <2>7, ClassPages
  <2>9. PageObjects(p, c)'
    BY <1>10, <2>4, <2>6
  <2>10. Serving(c)'
    BY <1>3 DEF Serving
  <2>11. PageAfter(p, c)'
    <3>1. List(Partial(c)', Cardinality(Partial(c)'), partial_pages'[c], Nexts(mem'))
      BY <1>18, <2>8
    <3>2. mem'[p].bitmap # {}
      BY <2>1, <2>6
    <3> QED BY <2>4, <2>5, <2>9, <2>10, <3>1, <3>2 DEF PageAfter, List, Numbers, Slab
  <2> QED BY <1>3, <1>4, <1>18, <2>3, <2>11, SlabStep
<1>19. CASE /\ t.free_count # total_objects(t.object_size) /\ t.free_count = 1
            /\ heap_insert_slab_into_cache(memory, c, p)
            /\ UNCHANGED <<free, held>>
  <2>1. p \notin Partial(c)
    BY <1>5, <1>7, <1>14, <1>19
  <2>2. List(Partial(c), Cardinality(Partial(c)), partial_pages[c], Nexts(memory))
    BY <1>12, <1>16
  <2>3. /\ mem' \in [Frames -> Page] /\ partial_pages' \in [Classes -> Frames \cup {0}]
        /\ \A d \in Classes : d # c => partial_pages'[d] = partial_pages[d]
        /\ \A x \in Frames : Relinked(mem'[x], memory[x]) /\ (x # p => mem'[x] = memory[x])
        /\ List(Partial(c) \cup {p}, Cardinality(Partial(c) \cup {p}), partial_pages'[c], Nexts(mem'))
    BY <1>4, <1>12, <1>13, <1>16, <1>19, <2>1, <2>2, InsertSlab
  <2> QED BY <1>18, <1>19, <2>3
<1>20. CASE /\ t.free_count # total_objects(t.object_size) /\ t.free_count # 1
            /\ mem' = memory
            /\ UNCHANGED <<free, held, partial_pages>>
  <2>1. Partial(c) \cup {p} = Partial(c)
    <3>1. p \in Partial(c)
      BY <1>5, <1>7, <1>14, <1>20
    <3> QED BY <3>1
  <2>2. List(Partial(c) \cup {p}, Cardinality(Partial(c) \cup {p}), partial_pages'[c], Nexts(mem'))
    BY <1>12, <1>16, <1>20, <2>1
  <2> QED BY <1>13, <1>16, <1>17, <1>18, <1>20, <2>2
<1> QED BY <1>6, <1>15, <1>19, <1>20 DEF ReturnObject, memory, p

------------------------------------------------------------------------------
(* kmalloc of a small request.                                             *)

(* The objects of a page that holds m: the ones whose bits are set. *)
Holds(p, m, c) ==
  /\ \A o \in live : o.page = p =>
       /\ \E i \in m.bitmap : o.off = ObjectAt(heap_cache_sizes[c], i)
       /\ o.bytes # 0 /\ o.bytes <= heap_cache_sizes[c]
  /\ \A i \in m.bitmap : IsLive(p, ObjectAt(heap_cache_sizes[c], i))

(* An object is taken from a slab, an old one or one made for it. *)
LEMMA TakeStep ==
  ASSUME IndInv, NEW c \in Classes, NEW p \in Frames, p \in SlabsOf(c) \/ p \in free,
         NEW m \in Page, Slab(m, c), Serving(c), m.free_count > 0, Holds(p, m, c),
         NEW partial \in [Classes -> Frames \cup {0}],
         \A d \in Classes : d # c => partial[d] = partial_pages[d],
         NEW memory \in [Frames -> Page], memory = [mem EXCEPT ![p] = m],
         List(Partial(c) \cup {p}, Cardinality(Partial(c) \cup {p}), partial[c], Nexts(memory)),
         NEW bytes \in RequestSizes, bytes # 0, bytes <= heap_cache_sizes[c],
         TakeObject(m, p, partial, c, bytes),
         free' = free \ {p}, held' = held \cup {p}, others' = others, rejectsAligned' = rejectsAligned
  PROVE  IndInv' /\ live' # live
<1> DEFINE size == heap_cache_sizes[c]
           n == total_objects(size)
           off == m.free_list
           index == object_index(off, m.object_size)
           t == Taken(m, index)
           after == [mem EXCEPT ![p] = t]
           new == [page |-> p, off |-> off, bytes |-> bytes]
           S == Partial(c) \cup {p}
<1>1. Types /\ Owned /\ Objects
  BY DEF IndInv
<1>2. index \in (0 .. (n - 1)) \ m.bitmap /\ off = ObjectAt(size, index)
  <2> HIDE DEF index
  <2> QED BY <1>1, FirstFree DEF Types, index
<1>3. t \in Page /\ Slab(t, c) /\ t.bitmap = m.bitmap \cup {index}
      /\ t.free_count = m.free_count - 1 /\ t.next = m.next /\ t.object_size = size
  <2>1. t \in Page /\ Slab(t, c) /\ t.bitmap = m.bitmap \cup {index}
        /\ t.free_count = m.free_count - 1 /\ t.next = m.next
    <3> HIDE DEF index
    <3> QED BY <1>2, TakenSlab
  <2> QED BY <2>1 DEF Slab
<1>4. /\ live' = live \cup {new}
      /\ IF t.free_count = 0 THEN heap_remove_slab_from_cache(after, partial, c, p)
         ELSE mem' = after /\ partial_pages' = partial
  BY DEF TakeObject, Taken
<1>5. n \in Nat /\ n # 0 /\ off \in Offsets
  <2>1. n \in Nat /\ \A i \in 0 .. (n - 1) : ObjectAt(size, i) \in Offsets
    BY ObjectPlaces
  <2>2. index \in 0 .. (n - 1)
    BY <1>2
  <2> HIDE DEF index
  <2> QED BY <1>2, <2>1, <2>2
<1>6. /\ mem \in [Frames -> Page] /\ memory[p] = m /\ \A x \in Frames : x # p => memory[x] = mem[x]
  BY <1>1 DEF Types
<1>7. /\ after \in [Frames -> Page] /\ after[p] = t /\ \A x \in Frames : x # p => after[x] = mem[x]
      /\ Nexts(after) = Nexts(memory)
  <2> HIDE DEF t
  <2>1. after = [memory EXCEPT ![p] = t]
    BY <1>1, <1>3 DEF Types
  <2> HIDE DEF after
  <2> QED BY <1>3, <1>6, <2>1, SameNexts, ZenonT(60)
<1>8. new \in Object /\ new.page = p /\ new.off = off /\ new.bytes = bytes /\ ~IsLarge(new)
  BY <1>5, OffsetFacts DEF Object, IsLarge
<1>9. ASSUME NEW o \in live, o.page = p PROVE o.off # off /\ ~IsLarge(o)
  <2>1. PICK i \in m.bitmap : o.off = ObjectAt(size, i)
    BY <1>9 DEF Holds
  <2>2. i \in Nat /\ index \in Nat /\ i # index /\ i \in 0 .. (n - 1)
    BY <1>2 DEF Slab
  <2>3. ObjectAt(size, i) # ObjectAt(size, index)
    <3>1. /\ ObjectAt(size, i) \in Nat /\ ObjectAt(size, index) \in Nat /\ size \in Nat \ {0}
          /\ i < index => ObjectAt(size, i) + size <= ObjectAt(size, index)
          /\ index < i => ObjectAt(size, index) + size <= ObjectAt(size, i)
      <4> HIDE DEF index
      <4> QED BY <2>2, ObjectPlaces, ClassSizes
    <3> HIDE DEF size, index
    <3> QED BY <2>2, <3>1
  <2>4. ObjectAt(size, i) \in Offsets
    BY <2>2, ObjectPlaces
  <2> QED BY <1>2, <2>1, <2>3, <2>4, OffsetFacts DEF IsLarge
<1> HIDE DEF t, index, after, new, off
<1>10. live' # live
  BY <1>4, <1>8, <1>9
<1>11. \A x \in Frames : Relinked(after[x], after[x]) /\ Relinked(mem[x], mem[x])
  BY DEF Relinked
<1>12. /\ Partial(c) \subseteq Frames /\ Partial(c) \subseteq SlabsOf(c) /\ S \subseteq Frames
       /\ List(S, Cardinality(S), partial[c], Nexts(after))
  <2>1. /\ Partial(c) \subseteq Frames /\ Partial(c) \subseteq SlabsOf(c)
    BY PartialList
  <2> QED BY <1>7, <2>1
<1>13. /\ mem' \in [Frames -> Page] /\ partial_pages' \in [Classes -> Frames \cup {0}]
       /\ \A d \in Classes : d # c => partial_pages'[d] = partial[d]
       /\ \A x \in Frames : Relinked(mem'[x], after[x]) /\ (x \notin S => mem'[x] = after[x])
       /\ t.free_count = 0 => List(S \ {p}, Cardinality(S \ {p}), partial_pages'[c], Nexts(mem'))
       /\ t.free_count # 0 => List(S, Cardinality(S), partial_pages'[c], Nexts(mem'))
  <2> HIDE DEF S
  <2>1. CASE t.free_count = 0
    <3>1. heap_remove_slab_from_cache(after, partial, c, p)
      BY <1>4, <2>1
    <3>2. /\ mem' \in [Frames -> Page] /\ partial_pages' \in [Classes -> Frames \cup {0}]
          /\ \A d \in Classes : d # c => partial_pages'[d] = partial[d]
          /\ \A x \in Frames : Relinked(mem'[x], after[x]) /\ (x \notin S => mem'[x] = after[x])
          /\ List(S \ {p}, Cardinality(S \ {p}), partial_pages'[c], Nexts(mem'))
      BY <1>7, <1>12, <3>1, RemoveSlab
    <3> QED BY <2>1, <3>2
  <2>2. CASE t.free_count # 0
    BY <1>4, <1>7, <1>11, <1>12, <2>2
  <2> QED BY <2>1, <2>2
<1>14. OnPage(p, c)
  <2>1. /\ free' \subseteq Frames /\ held' \subseteq Frames /\ live' \subseteq Object
        /\ free' \ {p} = free \ {p} /\ held' \ {p} = held \ {p} /\ (p \in free' <=> p \notin held')
    BY <1>1, <1>4, <1>8 DEF Types
  <2>2. \A o \in Object : o.page # p \/ IsLarge(o) => (o \in live' <=> o \in live)
    BY <1>4, <1>8
  <2>3. \A x \in Frames : x # p => Relinked(mem'[x], mem[x]) /\ (x \notin SlabsOf(c) => mem'[x] = mem[x])
    BY <1>7, <1>12, <1>13
  <2>4. \A d \in Classes : d # c => partial_pages'[d] = partial_pages[d]
    BY <1>13
  <2> QED BY <1>13, <2>1, <2>2, <2>3, <2>4 DEF OnPage
<1>15. Relinked(mem'[p], t) /\ p \in held'
  BY <1>7, <1>13
<1>16. Slab(mem'[p], c)
  BY <1>3, <1>15, RelinkedSlab
<1>17. mem'[p].bitmap = m.bitmap \cup {index} /\ mem'[p].free_count = t.free_count
       /\ mem'[p].object_size = heap_cache_sizes[c]
  BY <1>3, <1>15 DEF Relinked
<1>18. Partial(c)' = IF t.free_count # 0 THEN S ELSE S \ {p}
  <2>1. t.free_count \in Nat
    BY <1>3 DEF Page
  <2>2. Partial(c)' =
          IF mem'[p].free_count > 0 \/ n = 0 THEN (Partial(c) \ {p}) \cup {p} ELSE Partial(c) \ {p}
    BY <1>14, <1>15, <1>17, ClassPages
  <2>3. mem'[p].free_count > 0 \/ n = 0 <=> t.free_count # 0
    <3> HIDE DEF n
    <3> QED BY <1>5, <1>17, <2>1
  <2>4. (Partial(c) \ {p}) \cup {p} = S /\ Partial(c) \ {p} = S \ {p}
    OBVIOUS
  <2> QED BY <2>2, <2>3, <2>4
<1>19. PageObjects(p, c)'
  <2>1. ASSUME NEW o \in live', o.page = p
        PROVE  /\ \E i \in mem'[p].bitmap : o.off = ObjectAt(size, i)
               /\ o.bytes # 0 /\ o.bytes <= size
    <3>1. CASE o = new
      BY <1>2, <1>8, <1>17, <3>1
    <3>2. CASE o \in live
      BY <1>17, <2>1, <3>2 DEF Holds
    <3> QED BY <1>4, <3>1, <3>2
  <2>2. ASSUME NEW i \in mem'[p].bitmap PROVE IsLive(p, ObjectAt(size, i))'
    <3>1. CASE i = index
      BY <1>2, <1>4, <1>8, <3>1 DEF IsLive
    <3>2. CASE i \in m.bitmap
      <4>1. PICK o \in live : o.page = p /\ o.off = ObjectAt(size, i)
        BY <3>2 DEF Holds, IsLive
      <4> QED BY <1>4, <4>1 DEF IsLive
    <3> QED BY <1>17, <3>1, <3>2
  <2>3. ASSUME NEW o \in live', NEW x \in live', o.page = p, x.page = p, ~IsLarge(o), o.off = x.off
        PROVE  o = x
    <3>1. CASE o \in live /\ x \in live
      BY <1>1, <2>3, <3>1 DEF Objects
    <3>2. CASE o = new \/ x = new
      BY <1>4, <1>8, <1>9, <2>3, <3>2
    <3> QED BY <1>4, <3>1, <3>2
  <2>4. \A x : IsLarge(x)' <=> IsLarge(x)
    BY DEF IsLarge
  <2> QED BY <1>15, <2>1, <2>2, <2>3, <2>4 DEF PageObjects
<1>20. PageAfter(p, c)'
  <2>1. List(Partial(c)', Cardinality(Partial(c)'), partial_pages'[c], Nexts(mem'))
    BY <1>13, <1>18
  <2>2. mem'[p].bitmap # {} /\ Serving(c)'
    BY <1>17 DEF Serving
  <2> QED BY <1>15, <1>16, <1>19, <2>1, <2>2 DEF PageAfter, List, Numbers, Slab
<1> QED BY <1>10, <1>14, <1>20, SlabStep

(* AllocFrom takes an object where objects can be taken. *)
LEMMA AllocFromCases ==
  ASSUME IndInv, NEW c \in Classes, NEW p, NEW m \in Page, Slab(m, c), NEW partial, NEW bytes,
         m.free_count > 0 \/ total_objects(heap_cache_sizes[c]) = 0, AllocFrom(m, p, partial, c, bytes)
  PROVE  /\ Serving(c) => m.free_count > 0 /\ TakeObject(m, p, partial, c, bytes)
         /\ ~Serving(c) => mem' = [mem EXCEPT ![p] = m] /\ partial_pages' = partial /\ live' = live
<1> DEFINE index == object_index(m.free_list, m.object_size)
<1>1. rejectsAligned \in BOOLEAN
  BY DEF IndInv, Types
<1>2. /\ m.free_list # 0 /\ index # -1 <=> Serving(c)
      /\ Serving(c) => m.free_count > 0
  BY <1>1, FirstFree
<1> QED BY <1>2 DEF AllocFrom

LEMMA FromCacheStep ==
  ASSUME IndInv, NEW c \in Classes, NEW bytes \in RequestSizes, bytes # 0, bytes <= heap_cache_sizes[c],
         heap_alloc_from_cache(bytes, c), rejectsAligned' = rejectsAligned
  PROVE  IndInv' /\ (Serving(c) => live' # live) /\ UNCHANGED <<free, held>>
<1> DEFINE p == partial_pages[c]
           m == mem[p]
<1>1. Types /\ Owned /\ Objects
  BY DEF IndInv
<1>2. /\ p # 0 /\ AllocFrom(m, p, partial_pages, c, bytes)
      /\ free' = free /\ held' = held /\ others' = others
  BY DEF heap_alloc_from_cache
<1>3. p \in Partial(c) /\ p \in SlabsOf(c)
      /\ List(Partial(c), Cardinality(Partial(c)), p, Nexts(mem))
  <2>1. /\ 0 \notin Partial(c) /\ Cardinality(Partial(c)) \in Nat /\ Partial(c) \subseteq SlabsOf(c)
        /\ List(Partial(c), Cardinality(Partial(c)), p, Nexts(mem))
    BY PartialList
  <2>2. p \in Partial(c) \cup {0}
    <3> HIDE DEF p
    <3> QED BY <2>1, ListFirst
  <2> QED BY <1>2, <2>1, <2>2
<1>4. /\ p \in Frames /\ p \in SlabPages /\ Slab(m, c) /\ m \in Page
      /\ p \in held /\ p \notin free /\ p \notin LargePages
  <2>1. p \in Frames /\ p \in SlabPages /\ Slab(m, c)
    BY <1>3, SlabOfClass
  <2> QED BY <1>1, <2>1, LargeBlocks DEF Types, SlabPages
<1>5. m.free_count > 0 \/ total_objects(heap_cache_sizes[c]) = 0
  BY <1>3 DEF Partial
<1>6. /\ mem = [mem EXCEPT ![p] = m] /\ mem \in [Frames -> Page]
      /\ partial_pages \in [Classes -> Frames \cup {0}]
  BY <1>1, <1>4 DEF Types
<1>7. /\ Serving(c) => m.free_count > 0 /\ TakeObject(m, p, partial_pages, c, bytes)
      /\ ~Serving(c) => mem' = [mem EXCEPT ![p] = m] /\ partial_pages' = partial_pages /\ live' = live
  <2> HIDE DEF m, p
  <2> QED BY <1>2, <1>4, <1>5, AllocFromCases
<1>8. Holds(p, m, c)
  <2>1. ASSUME NEW o \in live, o.page = p
        PROVE  /\ \E i \in m.bitmap : o.off = ObjectAt(heap_cache_sizes[c], i)
               /\ o.bytes # 0 /\ o.bytes <= heap_cache_sizes[c]
    <3>1. ~IsLarge(o)
      BY <1>1, <1>4, <2>1, LargeBlocks
    <3>2. PICK d \in Classes : IsObject(o, d)
      BY <1>1, <3>1 DEF Objects
    <3>3. d = c
      BY <1>3, <2>1, <3>2, ClassSizes DEF IsObject, SlabsOf
    <3> QED BY <2>1, <3>2, <3>3 DEF IsObject
  <2>2. \A i \in m.bitmap : IsLive(p, ObjectAt(heap_cache_sizes[c], i))
    BY <1>1, <1>3 DEF Objects
  <2> QED BY <2>1, <2>2 DEF Holds
<1>9. CASE ~Serving(c)
  <2>1. UNCHANGED vars
    BY <1>2, <1>6, <1>7, <1>9 DEF vars
  <2> QED BY <1>2, <1>9, <2>1, Stutter
<1>10. CASE Serving(c)
  <2>1. Partial(c) \cup {p} = Partial(c) /\ free' = free \ {p} /\ held' = held \cup {p}
    BY <1>2, <1>3, <1>4
  <2>2. List(Partial(c) \cup {p}, Cardinality(Partial(c) \cup {p}), partial_pages[c], Nexts(mem))
    BY <1>3, <2>1
  <2>3. IndInv' /\ live' # live
    <3> HIDE DEF p, m
    <3> QED BY <1>2, <1>3, <1>4, <1>6, <1>7, <1>8, <1>10, <2>1, <2>2, TakeStep
  <2> QED BY <1>2, <2>3
<1> QED BY <1>9, <1>10

(* The slabs of a class that serves nothing are all on its list. *)
LEMMA IdleOnList ==
  ASSUME IndInv, NEW c \in Classes, ~Serving(c)
  PROVE  SlabsOf(c) = Partial(c)
<1>1. Types /\ Used
  BY DEF IndInv
<1>2. ASSUME NEW q \in SlabsOf(c) PROVE q \in Partial(c)
  <2> DEFINE n == total_objects(heap_cache_sizes[c])
  <2>1. q \in Frames /\ Slab(mem[q], c) /\ mem[q] \in Page /\ n \in Nat
    BY <1>1, SlabOfClass, ObjectPlaces DEF Types
  <2>2. mem[q].bitmap = {}
    BY <1>1, <1>2 DEF Used
  <2>3. n > 0 => mem[q].free_count = n
    <3> HIDE DEF n
    <3> QED BY <2>1, <2>2, SlabCount DEF n
  <2>4. mem[q].free_count > 0 \/ n = 0
    <3> HIDE DEF n
    <3> QED BY <2>1, <2>3
  <2> QED BY <2>4 DEF Partial
<1> QED BY <1>2 DEF Partial

LEMMA NewSlabStep ==
  ASSUME IndInv, NEW c \in Classes, NEW bytes \in RequestSizes, bytes # 0, bytes <= heap_cache_sizes[c],
         AllocNewSlab(bytes, c), rejectsAligned' = rejectsAligned
  PROVE  /\ IndInv' /\ (Serving(c) => live' # live)
         /\ \E p \in Frames : PA!Allocate(p, 1)
<1>1. Types /\ Owned /\ Objects
  BY DEF IndInv
<1>2. PICK p \in free :
        /\ PA!Allocate(p, 1) /\ partial_pages[c] = 0 /\ others' = others
        /\ AllocFrom(heap_alloc_slab_page(p, heap_cache_sizes[c]), p,
                     [partial_pages EXCEPT ![c] = p], c, bytes)
  BY DEF AllocNewSlab
<1> DEFINE m == heap_alloc_slab_page(p, heap_cache_sizes[c])
           partial == [partial_pages EXCEPT ![c] = p]
           memory == [mem EXCEPT ![p] = m]
           n == total_objects(heap_cache_sizes[c])
<1>3. p \in Frames /\ free' = free \ {p} /\ held' = held \cup {p} /\ p \notin held /\ p \notin SlabPages
  <2>1. p \in Frames /\ p \notin held /\ p \notin SlabPages
    BY <1>1, LargeBlocks DEF Types, Owned
  <2> QED BY <1>2, <2>1, OnePage DEF PA!Allocate
<1>4. m \in Page /\ Slab(m, c) /\ m.bitmap = {} /\ m.next = 0 /\ m.free_count = n /\ n \in Nat
  <2>1. mem \in [Frames -> Page] /\ n \in Nat
    BY <1>1, ObjectPlaces DEF Types
  <2> HIDE DEF m
  <2> QED BY <1>3, <2>1, NewSlab DEF m
<1>5. m.free_count > 0 \/ n = 0
  <2> HIDE DEF m, n
  <2> QED BY <1>4
<1>6. AllocFrom(m, p, partial, c, bytes)
  BY <1>2
<1> HIDE DEF m
<1>7. /\ memory \in [Frames -> Page] /\ memory[p] = m /\ \A x \in Frames : x # p => memory[x] = mem[x]
      /\ partial \in [Classes -> Frames \cup {0}] /\ partial[c] = p
      /\ \A d \in Classes : d # c => partial[d] = partial_pages[d]
  BY <1>1, <1>3, <1>4 DEF Types
<1>8. /\ Serving(c) => m.free_count > 0 /\ TakeObject(m, p, partial, c, bytes)
      /\ ~Serving(c) => mem' = memory /\ partial_pages' = partial /\ live' = live
  <2> HIDE DEF partial
  <2> QED BY <1>4, <1>5, <1>6, AllocFromCases
<1>9. Partial(c) = {}
  <2>1. /\ 0 \notin Partial(c) /\ Cardinality(Partial(c)) \in Nat
        /\ List(Partial(c), Cardinality(Partial(c)), 0, Nexts(mem))
    BY <1>2, PartialList
  <2> QED BY <2>1, ListFirst
<1>10. List(Partial(c) \cup {p}, Cardinality(Partial(c) \cup {p}), partial[c], Nexts(memory))
  <2>1. Nexts(memory)[p] = 0
    BY <1>3, <1>4, <1>7 DEF Nexts
  <2> HIDE DEF memory, partial
  <2>2. List({}, 0, 0, Nexts(memory))
    BY ListEmpty
  <2>3. List({} \cup {p}, 0 + 1, p, Nexts(memory))
    BY <2>1, <2>2, ListPush
  <2>4. Cardinality({p}) = 1
    BY FS_Singleton
  <2>5. {} \cup {p} = {p} /\ 0 + 1 = 1
    OBVIOUS
  <2>6. List({p}, Cardinality({p}), p, Nexts(memory))
    BY <2>3, <2>4, <2>5
  <2> QED BY <1>7, <1>9, <2>5, <2>6
<1>11. ASSUME NEW o \in live PROVE o.page # p
  <2>1. IsLarge(o) => o.page \in held
    BY <1>1, LargeBlocks
  <2>2. ~IsLarge(o) => \E d \in Classes : o.page \in SlabsOf(d)
    BY <1>1 DEF Objects, IsObject
  <2> QED BY <1>3, <2>1, <2>2 DEF SlabsOf
<1> HIDE DEF partial
<1>12. CASE Serving(c)
  <2>1. Holds(p, m, c)
    BY <1>4, <1>11 DEF Holds
  <2>2. memory = [mem EXCEPT ![p] = m]
    OBVIOUS
  <2>3. IndInv' /\ live' # live
    <3> HIDE DEF memory
    <3> QED BY <1>2, <1>3, <1>4, <1>7, <1>8, <1>10, <1>12, <2>1, <2>2, TakeStep
  <2> QED BY <1>2, <1>3, <2>3
<1> HIDE DEF memory
<1>13. CASE ~Serving(c)
  <2>1. mem' = memory /\ partial_pages' = partial /\ live' = live
    BY <1>8, <1>13
  <2>2. \A x \in Frames : Relinked(mem[x], mem[x])
    BY DEF Relinked
  <2>3. OnPage(p, c)
    <3>1. /\ free' \subseteq Frames /\ held' \subseteq Frames /\ live' \subseteq Object
          /\ free' \ {p} = free \ {p} /\ held' \ {p} = held \ {p} /\ (p \in free' <=> p \notin held')
      BY <1>1, <1>3, <2>1 DEF Types
    <3> QED BY <1>2, <1>3, <1>7, <2>1, <2>2, <3>1 DEF OnPage
  <2>4. mem'[p] = m /\ p \in held'
    BY <1>3, <1>7, <2>1
  <2>5. m.object_size = heap_cache_sizes[c]
    BY <1>4 DEF Slab
  <2>6. Partial(c)' = Partial(c) \cup {p} /\ SlabsOf(c)' = SlabsOf(c) \cup {p}
    <3>1. /\ SlabsOf(c)' = SlabsOf(c) \cup {p}
          /\ Partial(c)' = (Partial(c) \ {p}) \cup {p}
      BY <1>3, <1>5, <2>3, <2>4, <2>5, ClassPages
    <3> QED BY <3>1
  <2>7. SlabsOf(c)' \subseteq {p}
    BY <1>9, <1>13, <2>6, IdleOnList
  <2>8. PageObjects(p, c)'
    BY <1>4, <1>11, <2>1, <2>4 DEF PageObjects
  <2>9. PageAfter(p, c)'
    <3>1. List(Partial(c)', Cardinality(Partial(c)'), partial_pages'[c], Nexts(mem'))
      BY <1>10, <2>1, <2>6
    <3>2. mem'[p].bitmap = {} /\ ~Serving(c)' /\ Slab(mem'[p], c)
      BY <1>4, <1>13, <2>4 DEF Serving
    <3> QED BY <2>4, <2>7, <2>8, <3>1, <3>2 DEF PageAfter, List, Numbers, Slab
  <2>10. IndInv'
    BY <1>3, <2>3, <2>9, SlabStep
  <2> QED BY <1>2, <1>3, <1>13, <2>10
<1> QED BY <1>12, <1>13

------------------------------------------------------------------------------
(* The invariant holds.                                                    *)

LEMMA KmallocStep ==
  ASSUME IndInv, NEW size \in RequestSizes, kmalloc(size), rejectsAligned' = rejectsAligned
  PROVE  IndInv'
<1>1. CASE RefuseMalloc(size)
  BY <1>1, Stutter DEF RefuseMalloc
<1>2. ASSUME size # 0, heap_cache_index(size) # -1
      PROVE  heap_cache_index(size) \in Classes /\ size <= heap_cache_sizes[heap_cache_index(size)]
  BY <1>2, PagesHold, CacheIndex
<1>3. CASE size # 0 /\ heap_cache_index(size) # -1 /\ heap_alloc_from_cache(size, heap_cache_index(size))
  BY <1>2, <1>3, FromCacheStep
<1>4. CASE size # 0 /\ heap_cache_index(size) # -1 /\ AllocNewSlab(size, heap_cache_index(size))
  BY <1>2, <1>4, NewSlabStep
<1>5. CASE size # 0 /\ heap_cache_index(size) = -1 /\ AllocLarge(size)
  BY <1>5, AllocLargeStep
<1> QED BY <1>1, <1>3, <1>4, <1>5 DEF kmalloc

LEMMA KfreeStep ==
  ASSUME IndInv, NEW p \in Frames, NEW off \in Offsets \cup {LargeHeader}, kfree(p, off),
         rejectsAligned' = rejectsAligned
  PROVE  IndInv'
<1>1. CASE ~IsLive(p, off)
  <2>1. UNCHANGED vars
    BY <1>1, DeadFree DEF vars
  <2> QED BY <2>1, Stutter
<1>2. CASE IsLive(p, off)
  <2>1. PICK o \in live : o.page = p /\ o.off = off
    BY <1>2 DEF IsLive
  <2>2. kfree(o.page, o.off)
    BY <2>1
  <2> QED BY <2>2, FreeLargeStep, FreeSmallStep
<1> QED BY <1>1, <1>2

LEMMA StepInv == ASSUME IndInv, [Next]_vars PROVE IndInv'
<1>1. CASE UNCHANGED vars
  BY <1>1, Stutter
<1>2. CASE Next
  <2>1. rejectsAligned' = rejectsAligned
    BY <1>2 DEF Next
  <2>2. CASE \E size \in RequestSizes : kmalloc(size)
    BY <2>1, <2>2, KmallocStep
  <2>3. CASE \E p \in Frames, off \in Offsets \cup {LargeHeader} : kfree(p, off)
    BY <2>1, <2>3, KfreeStep
  <2>4. CASE Make_Page \/ OtherFrees
    BY <2>1, <2>4, OthersStep
  <2> QED BY <1>2, <2>2, <2>3, <2>4 DEF Next
<1> QED BY <1>1, <1>2

LEMMA IndInvHolds == Spec => []IndInv
<1>1. Init => IndInv
  BY InitInv
<1>2. IndInv /\ [Next]_vars => IndInv'
  BY StepInv
<1> QED BY <1>1, <1>2, PTL DEF Spec

------------------------------------------------------------------------------
(* What it says.                                                           *)

LEMMA TypesSuffice == ASSUME IndInv PROVE TypeOK
<1>1. Types /\ Owned
  BY DEF IndInv
<1>2. \A p \in Frames : mem[p] \in Page
  BY <1>1 DEF Types
<1> QED BY <1>1, <1>2 DEF Types, Owned, TypeOK, Page, Object

LEMMA ListsSuffice == ASSUME IndInv PROVE PartialLists
<1>1. ASSUME NEW c \in Classes
      PROVE  /\ Walk(mem, partial_pages[c])[Cardinality(Frames)] = 0
             /\ OnPartial(c) = Partial(c)
  <2>1. /\ Partial(c) \subseteq Frames /\ Cardinality(Partial(c)) \in Nat
        /\ List(Partial(c), Cardinality(Partial(c)), partial_pages[c], Nexts(mem))
    BY PartialList
  <2> QED BY <2>1, WalkVisits DEF OnPartial
<1> QED BY <1>1 DEF PartialLists, Partial

LEMMA SlabsSuffice == ASSUME IndInv PROVE SlabsConsistent
<1>1. Types /\ Owned /\ Objects
  BY DEF IndInv
<1>2. ASSUME NEW c \in Classes, NEW p \in SlabsOf(c)
      PROVE  LET size == heap_cache_sizes[c]
                 n    == total_objects(size)
                 freeAt == { FreeChain(p)[i] : i \in 0 .. (mem[p].free_count - 1) }
             IN  n > 0 =>
                   /\ { o.off : o \in { x \in live : x.page = p } }
                        = { ObjectAt(size, i) : i \in mem[p].bitmap }
                   /\ mem[p].bitmap \subseteq 0 .. (n - 1)
                   /\ freeAt = { ObjectAt(size, i) : i \in (0 .. (n - 1)) \ mem[p].bitmap }
                   /\ Cardinality(freeAt) = mem[p].free_count
                   /\ FreeChain(p)[mem[p].free_count] = 0
  <2> DEFINE size == heap_cache_sizes[c]
             n == total_objects(size)
             k == mem[p].free_count
             is == (0 .. (n - 1)) \ mem[p].bitmap
             S == ObjectsAt(size, is)
             chain == FreeChain(p)
             freeAt == { chain[i] : i \in 0 .. (k - 1) }
  <2> SUFFICES ASSUME n > 0
               PROVE  /\ { o.off : o \in { x \in live : x.page = p } }
                           = { ObjectAt(size, i) : i \in mem[p].bitmap }
                      /\ mem[p].bitmap \subseteq 0 .. (n - 1)
                      /\ freeAt = { ObjectAt(size, i) : i \in is }
                      /\ Cardinality(freeAt) = k
                      /\ chain[k] = 0
    OBVIOUS
  <2>1. Slab(mem[p], c) /\ p \in Frames /\ p \in SlabPages /\ mem[p] \in Page
    BY <1>1, SlabOfClass DEF Types
  <2>2. /\ mem[p].bitmap \subseteq 0 .. (n - 1) /\ k \in Nat
        /\ List(S, k, mem[p].free_list, mem[p].word)
    BY <2>1 DEF Slab, Page
  <2>3. S \subseteq Offsets /\ 0 \notin S
    <3>1. is \in SUBSET (0 .. (total_objects(heap_cache_sizes[c]) - 1))
      OBVIOUS
    <3> HIDE DEF is
    <3> QED BY <3>1, FreeObjects
  <2>4. S = { ObjectAt(size, i) : i \in is }
    BY DEF ObjectsAt
  <2> HIDE DEF S, is
  <2>5. PICK g \in [0 .. k -> S \cup {0}] : Numbers(g, S, k, mem[p].free_list, mem[p].word)
    BY <2>2 DEF List
  <2>6. \A i \in 0 .. k : chain[i] = g[i]
    <3>1. k = mem[p].free_count /\ 0 \notin Offsets
      BY OffsetFacts
    <3> HIDE DEF k
    <3> QED BY <2>2, <2>3, <2>5, <3>1, FreeChainNumbers
  <2> HIDE DEF chain
  <2>7. freeAt = S
    <3> HIDE DEF k
    <3>1. \A i \in 0 .. (k - 1) : i \in 0 .. k /\ chain[i] = g[i]
      BY <2>2, <2>6
    <3> QED BY <2>5, <3>1 DEF Numbers
  <2>8. chain[k] = 0
    <3> HIDE DEF k
    <3> QED BY <2>2, <2>5, <2>6 DEF Numbers
  <2>9. Cardinality(S) = k
    <3> HIDE DEF k
    <3> QED BY <2>2, <2>3, ListLength DEF k
  <2>10. { o.off : o \in { x \in live : x.page = p } } = { ObjectAt(size, i) : i \in mem[p].bitmap }
    <3>1. ASSUME NEW o \in live, o.page = p
          PROVE  \E i \in mem[p].bitmap : o.off = ObjectAt(size, i)
      <4>1. ~IsLarge(o)
        BY <1>1, <2>1, <3>1, LargeBlocks DEF SlabPages
      <4>2. PICK d \in Classes : IsObject(o, d)
        BY <1>1, <4>1 DEF Objects
      <4>3. d = c
        BY <1>2, <3>1, <4>2, ClassSizes DEF IsObject, SlabsOf
      <4> QED BY <3>1, <4>2, <4>3 DEF IsObject
    <3>2. ASSUME NEW i \in mem[p].bitmap
          PROVE  \E o \in live : o.page = p /\ o.off = ObjectAt(size, i)
      BY <1>1, <1>2 DEF Objects, IsLive
    <3> HIDE DEF size
    <3> QED BY <3>1, <3>2
  <2> QED BY <2>2, <2>4, <2>7, <2>8, <2>9, <2>10
<1> QED BY <1>2, TypesSuffice DEF SlabsConsistent

LEMMA PagesSuffice == ASSUME IndInv PROVE NoPageLeaked
<1>1. Types /\ Used /\ Objects
  BY DEF IndInv
<1>2. \A c \in Classes : OnPartial(c) = Partial(c)
  BY ListsSuffice DEF PartialLists, Partial
<1>3. ASSUME NEW c \in Classes, NEW p \in SlabsOf(c), Serving(c) PROVE \E o \in live : o.page = p
  <2>1. mem[p].bitmap # {}
    BY <1>1, <1>3 DEF Used
  <2> QED BY <1>1, <1>3, <2>1 DEF Objects, IsLive
<1>4. ASSUME NEW p \in SlabPages
      PROVE  (\E c \in Classes : p \in OnPartial(c)) \/ (\E o \in live : o.page = p)
  <2>1. PICK c \in Classes : p \in SlabsOf(c)
    BY SlabOfClass
  <2>2. CASE Serving(c)
    BY <1>3, <2>1, <2>2
  <2>3. CASE ~Serving(c)
    BY <1>2, <2>1, <2>3, IdleOnList
  <2> QED BY <2>2, <2>3
<1>5. ASSUME NEW c \in Classes
      PROVE  Cardinality({ p \in SlabsOf(c) : \A o \in live : o.page # p })
               <= IF object_index(SlabHeader, heap_cache_sizes[c]) = -1 THEN 1 ELSE 0
  <2> DEFINE idle == { p \in SlabsOf(c) : \A o \in live : o.page # p }
             size == heap_cache_sizes[c]
             n == total_objects(size)
  <2>1. Cardinality({}) = 0 /\ \A x : Cardinality({x}) = 1
    BY FS_EmptySet, FS_Singleton
  <2>2. CASE Serving(c)
    <3>1. idle = {}
      BY <1>3, <2>2
    <3> QED BY <2>1, <3>1
  <2>3. CASE ~Serving(c)
    <3>1. object_index(SlabHeader, size) = -1
      <4>1. n \in Nat
        BY ObjectPlaces
      <4>2. n = 0 \/ rejectsAligned
        <5> HIDE DEF n
        <5> QED BY <2>3, <4>1 DEF Serving, n, size
      <4> QED BY <1>1, <4>2, ObjectIndex DEF Types
    <3>2. \A p, q \in idle : p = q
      BY <1>1, <2>3 DEF Used
    <3>3. idle = {} \/ \E x : idle = {x}
      <4> HIDE DEF idle
      <4> QED BY <3>2
    <3> HIDE DEF idle
    <3>4. Cardinality(idle) = 0 \/ Cardinality(idle) = 1
      <4>1. CASE idle = {}
        BY <2>1, <4>1, Zenon
      <4>2. ASSUME NEW x, idle = {x} PROVE Cardinality(idle) = 1
        BY <2>1, <4>2, Zenon
      <4> QED BY <3>3, <4>1, <4>2
    <3>5. Cardinality(idle) <= 1
      BY <3>4
    <3> QED BY <3>1, <3>5 DEF idle
  <2> QED BY <2>2, <2>3
<1> QED BY <1>4, <1>5 DEF NoPageLeaked

(* The pages of an object, counted from the one it is in, and its place in *)
(* them.                                                                   *)
SpanLength(o) == IF IsLarge(o) THEN BlockPages(PagesFor(o.bytes)) ELSE 1
Spans(o, len) ==
  /\ o.page \in Nat /\ o.off \in Nat /\ o.bytes \in Nat \ {0} /\ len \in Nat \ {0}
  /\ PA!Run(o.page, len) \subseteq held \ others
  /\ o.off + o.bytes <= len * BUDDY_PAGE_SIZE

LEMMA ObjectSpans ==
  ASSUME IndInv, NEW o \in live
  PROVE  Spans(o, SpanLength(o))
<1>1. Types /\ Owned /\ Objects
  BY DEF IndInv
<1>2. o.page \in Frames /\ o.bytes \in RequestSizes /\ o.off \in Offsets \cup {LargeHeader}
  BY <1>1 DEF Types, Object
<1>3. o.page \in Nat /\ o.off \in Nat /\ o.bytes \in Nat /\ BUDDY_PAGE_SIZE \in Nat \ {0}
  BY <1>2, HeapAssumption, OffsetFacts, PagesHold
<1>4. CASE IsLarge(o)
  <2> DEFINE n == PagesFor(o.bytes)
             len == BlockPages(n)
             P == BUDDY_PAGE_SIZE
  <2>1. n \in Nat /\ LargeHeader + o.bytes <= n * P /\ n <= 2^18 /\ o.bytes # 0
    BY <1>1, <1>2, <1>4, PagesHold DEF Owned
  <2>2. len \in Nat \ {0} /\ n <= len
    <3> HIDE DEF n
    <3> QED BY <2>1, Blocks
  <2>3. n * P <= len * P
    <3>1. CASE n = len
      <4> HIDE DEF n, len
      <4> QED BY <1>3, <2>1, <3>1
    <3>2. CASE n # len
      <4> HIDE DEF n, len
      <4>1. n < len
        BY <2>1, <2>2, <3>2
      <4>2. n * P \in Int /\ len * P \in Int /\ n * P + P <= len * P
        BY <1>3, <2>1, <2>2, <4>1, Monotone
      <4> QED BY <1>3, <4>2
    <3> QED BY <3>1, <3>2
  <2>4. o.off = LargeHeader
    BY <1>4 DEF IsLarge
  <2>5. PA!Run(o.page, len) \subseteq held \ others
    BY <1>1, <1>4 DEF Owned, Block
  <2>6. o.off + o.bytes <= len * P
    <3> DEFINE k == n * P
               l == len * P
    <3> HIDE DEF n, len
    <3>1. k \in Int /\ l \in Int
      BY <1>3, <2>1, <2>2
    <3>2. k <= l /\ LargeHeader + o.bytes <= k
      BY <2>1, <2>3
    <3> HIDE DEF k, l
    <3>3. o.off + o.bytes <= l
      BY <1>3, <2>4, <3>1, <3>2
    <3> QED BY <3>3 DEF l
  <2> QED BY <1>3, <1>4, <2>1, <2>2, <2>5, <2>6 DEF Spans, SpanLength
<1>5. CASE ~IsLarge(o)
  <2>1. PICK c \in Classes : IsObject(o, c)
    BY <1>1, <1>5 DEF Objects
  <2>2. PICK i \in mem[o.page].bitmap : o.off = ObjectAt(heap_cache_sizes[c], i)
    BY <2>1 DEF IsObject
  <2>3. /\ o.page \in SlabsOf(c) /\ Slab(mem[o.page], c) /\ o.page \in SlabPages
        /\ o.bytes # 0 /\ o.bytes <= heap_cache_sizes[c]
    BY <2>1, SlabOfClass DEF IsObject
  <2>4. i \in 0 .. (total_objects(heap_cache_sizes[c]) - 1)
    BY <2>2, <2>3 DEF Slab
  <2>5. o.off + heap_cache_sizes[c] <= BUDDY_PAGE_SIZE /\ heap_cache_sizes[c] \in Nat
    BY <2>2, <2>4, ObjectPlaces, ClassSizes
  <2>6. o.off + o.bytes <= 1 * BUDDY_PAGE_SIZE
    BY <1>3, <2>3, <2>5
  <2>7. PA!Run(o.page, 1) \subseteq held \ others
    BY <1>2, <2>3, OnePage DEF SlabPages
  <2> QED BY <1>3, <1>5, <2>3, <2>6, <2>7 DEF Spans, SpanLength
<1> QED BY <1>4, <1>5

(* An object that begins in page a and fits len pages ends before page     *)
(* a + len, and the pages it touches are these.                            *)
LEMMA SpanBytes ==
  ASSUME NEW o, NEW len, Spans(o, len)
  PROVE  /\ First(o) \in Nat /\ Last(o) \in Nat /\ First(o) <= Last(o)
         /\ \A b \in Nat : b <= o.page => b * BUDDY_PAGE_SIZE <= First(o)
         /\ \A b \in Nat : b >= o.page + len => Last(o) < b * BUDDY_PAGE_SIZE
<1> DEFINE P == BUDDY_PAGE_SIZE
           a == o.page
           e == a * P
           l == len * P
<1>1. /\ P \in Nat \ {0} /\ a \in Nat /\ len \in Nat \ {0} /\ o.off \in Nat /\ o.bytes \in Nat \ {0}
      /\ o.off + o.bytes <= l
  BY HeapAssumption DEF Spans
<1>2. e \in Nat /\ l \in Nat /\ (a + len) * P = e + l
  <2> HIDE DEF P, a
  <2> QED BY <1>1
<1>3. First(o) = e + o.off /\ Last(o) = e + o.off + o.bytes - 1
  BY DEF First, Last
<1> HIDE DEF e, l
<1>4. First(o) \in Nat /\ Last(o) \in Nat /\ First(o) <= Last(o) /\ e <= First(o) /\ Last(o) < e + l
  <2> HIDE DEF P, a
  <2> QED BY <1>1, <1>2, <1>3
<1>5. \A x, y \in Nat : x <= y => x * P \in Int /\ y * P \in Int /\ x * P <= y * P
  <2> SUFFICES ASSUME NEW x \in Nat, NEW y \in Nat, x <= y
               PROVE  x * P \in Int /\ y * P \in Int /\ x * P <= y * P
    OBVIOUS
  <2> HIDE DEF P
  <2>1. CASE x = y
    BY <1>1, <2>1
  <2>2. CASE x < y
    <3>1. x * P \in Int /\ y * P \in Int /\ x * P + P <= y * P
      BY <1>1, <2>2, Monotone
    <3> QED BY <1>1, <3>1
  <2> QED BY <2>1, <2>2
<1>6. ASSUME NEW b \in Nat, b <= a PROVE b * P <= First(o)
  <2>1. b * P \in Int /\ b * P <= e
    BY <1>1, <1>5, <1>6 DEF e
  <2> QED BY <1>2, <1>4, <2>1
<1>7. ASSUME NEW b \in Nat, b >= a + len PROVE Last(o) < b * P
  <2>1. a + len \in Nat /\ a + len <= b
    BY <1>1, <1>7
  <2>2. b * P \in Int /\ e + l <= b * P
    BY <1>2, <1>5, <2>1
  <2> QED BY <1>2, <1>4, <2>2
<1> QED BY <1>4, <1>6, <1>7

LEMMA SpanPages ==
  ASSUME NEW o, NEW len, Spans(o, len)
  PROVE  /\ \A q \in Nat : First(o) < (q + 1) * BUDDY_PAGE_SIZE /\ Last(o) >= q * BUDDY_PAGE_SIZE
                             => q \in PA!Run(o.page, len)
         /\ Last(o) \div BUDDY_PAGE_SIZE \in PA!Run(o.page, len)
<1> DEFINE P == BUDDY_PAGE_SIZE
<1>1. P \in Nat \ {0} /\ o.page \in Nat /\ len \in Nat \ {0}
  BY HeapAssumption DEF Spans
<1>2. /\ First(o) \in Nat /\ Last(o) \in Nat /\ First(o) <= Last(o)
      /\ \A b \in Nat : b <= o.page => b * P <= First(o)
      /\ \A b \in Nat : b >= o.page + len => Last(o) < b * P
  BY SpanBytes
<1>3. ASSUME NEW q \in Nat, First(o) < (q + 1) * P, Last(o) >= q * P
      PROVE  q \in PA!Run(o.page, len)
  <2> HIDE DEF P
  <2>1. q * P \in Int /\ (q + 1) * P \in Int /\ q + 1 \in Nat
    BY <1>1
  <2>2. ~(q + 1 <= o.page)
    BY <1>2, <1>3, <2>1
  <2>3. ~(q >= o.page + len)
    BY <1>2, <1>3, <2>1
  <2> QED BY <1>1, <2>2, <2>3 DEF PA!Run
<1>4. Last(o) \div P \in PA!Run(o.page, len)
  <2> DEFINE q == Last(o) \div P
             e == q * P
  <2>1. q \in Nat /\ (Last(o) % P) \in 0 .. (P - 1) /\ e \in Nat /\ Last(o) = e + (Last(o) % P)
    BY <1>1, <1>2, Quotient
  <2>2. (q + 1) * P = e + P
    <3> HIDE DEF P, q
    <3> QED BY <1>1, <2>1 DEF q
  <2> HIDE DEF q, e
  <2>3. Last(o) >= e /\ First(o) < e + P
    BY <1>1, <1>2, <2>1
  <2>4. q \in PA!Run(o.page, len)
    BY <1>3, <2>1, <2>2, <2>3 DEF e
  <2> QED BY <2>4 DEF q
<1> QED BY <1>3, <1>4

(* Objects in different pages share no byte. *)
LEMMA SpansApart ==
  ASSUME NEW o, NEW x, NEW a, NEW b, Spans(o, a), Spans(x, b),
         PA!Run(o.page, a) \cap PA!Run(x.page, b) = {}
  PROVE  Last(x) < First(o) \/ Last(o) < First(x)
<1>1. /\ BUDDY_PAGE_SIZE \in Nat /\ o.page \in Nat /\ x.page \in Nat
      /\ a \in Nat \ {0} /\ b \in Nat \ {0}
  BY HeapAssumption DEF Spans
<1>2. /\ First(o) \in Nat /\ Last(o) \in Nat
      /\ o.page * BUDDY_PAGE_SIZE <= First(o)
      /\ o.page >= x.page + b => Last(x) < o.page * BUDDY_PAGE_SIZE
  BY <1>1, SpanBytes
<1>3. /\ First(x) \in Nat /\ Last(x) \in Nat
      /\ x.page * BUDDY_PAGE_SIZE <= First(x)
      /\ x.page >= o.page + a => Last(o) < x.page * BUDDY_PAGE_SIZE
  BY <1>1, SpanBytes
<1>4. o.page * BUDDY_PAGE_SIZE \in Int /\ x.page * BUDDY_PAGE_SIZE \in Int
  BY <1>1
<1>5. o.page >= x.page + b \/ x.page >= o.page + a
  <2>1. o.page \notin PA!Run(x.page, b) \/ o.page \notin PA!Run(o.page, a)
    OBVIOUS
  <2>2. x.page \notin PA!Run(x.page, b) \/ x.page \notin PA!Run(o.page, a)
    OBVIOUS
  <2> QED BY <1>1, <2>1, <2>2 DEF PA!Run
<1>6. CASE o.page >= x.page + b
  BY <1>2, <1>3, <1>4, <1>6
<1>7. CASE x.page >= o.page + a
  BY <1>2, <1>3, <1>4, <1>7
<1> QED BY <1>5, <1>6, <1>7

(* Two objects of one slab share no byte either. *)
LEMMA SlabApart ==
  ASSUME IndInv, NEW o \in live, NEW x \in live, ~IsLarge(o), ~IsLarge(x), o.page = x.page, o # x
  PROVE  Last(x) < First(o) \/ Last(o) < First(x)
<1>1. Objects /\ Types
  BY DEF IndInv
<1>2. PICK c \in Classes : IsObject(o, c)
  BY <1>1 DEF Objects
<1>3. PICK d \in Classes : IsObject(x, d)
  BY <1>1 DEF Objects
<1>4. d = c
  BY <1>2, <1>3, ClassSizes DEF IsObject, SlabsOf
<1> DEFINE size == heap_cache_sizes[c]
<1>5. PICK i \in mem[o.page].bitmap : o.off = ObjectAt(size, i)
  BY <1>2 DEF IsObject
<1>6. PICK j \in mem[o.page].bitmap : x.off = ObjectAt(size, j)
  BY <1>3, <1>4 DEF IsObject
<1>7. i \in Nat /\ j \in Nat
  <2>1. o.page \in Frames /\ mem[o.page] \in Page
    BY <1>1 DEF Types, Object
  <2> QED BY <1>5, <1>6, <2>1 DEF Page
<1>8. i # j
  BY <1>1, <1>5, <1>6 DEF Objects
<1>9. /\ o.bytes # 0 /\ o.bytes <= size /\ x.bytes # 0 /\ x.bytes <= size
      /\ o.bytes \in Nat /\ x.bytes \in Nat /\ size \in Nat
      /\ o.off \in Nat /\ x.off \in Nat /\ o.page \in Nat /\ BUDDY_PAGE_SIZE \in Nat
  BY <1>2, <1>3, <1>4, ClassSizes, ObjectSpans, HeapAssumption DEF IsObject, Spans
<1>10. o.off + size <= x.off \/ x.off + size <= o.off
  <2>1. i < j => o.off + size <= x.off
    BY <1>5, <1>6, <1>7, ObjectPlaces
  <2>2. j < i => x.off + size <= o.off
    BY <1>5, <1>6, <1>7, ObjectPlaces
  <2> QED BY <1>7, <1>8, <2>1, <2>2
<1> DEFINE e == o.page * BUDDY_PAGE_SIZE
<1>11. e \in Nat /\ First(o) = e + o.off /\ First(x) = e + x.off
  BY <1>9 DEF First
<1> HIDE DEF size, e
<1> QED BY <1>9, <1>10, <1>11 DEF Last

LEMMA ObjectsSuffice == ASSUME IndInv PROVE ObjectsDisjoint
<1>1. Types /\ Owned /\ Objects
  BY DEF IndInv
<1>2. ASSUME NEW o \in live, IsLarge(o)
      PROVE  SpanLength(o) = BlockPages(PagesFor(o.bytes)) /\ PA!Run(o.page, SpanLength(o)) \subseteq LargePages
  BY <1>1, <1>2, LargeBlocks DEF SpanLength, Block
<1>3. ASSUME NEW o \in live, ~IsLarge(o)
      PROVE  PA!Run(o.page, SpanLength(o)) = {o.page} /\ o.page \in SlabPages
               /\ mem[o.page].magic = "small" /\ o.off >= SlabHeader
  <2>1. PICK c \in Classes : IsObject(o, c)
    BY <1>1, <1>3 DEF Objects
  <2>2. o.page \in Frames /\ o.page \in SlabPages /\ Slab(mem[o.page], c) /\ mem[o.page] \in Page
    BY <1>1, <2>1, SlabOfClass DEF IsObject, Types
  <2>3. PICK i \in mem[o.page].bitmap : o.off = ObjectAt(heap_cache_sizes[c], i)
    BY <2>1 DEF IsObject
  <2>4. o.off >= SlabHeader
    BY <2>2, <2>3, ObjectPlaces DEF Page
  <2> QED BY <1>3, <2>2, <2>4, OnePage DEF SpanLength, Slab
<1>4. ASSUME NEW o \in live, NEW x \in live, o # x
      PROVE  Last(x) < First(o) \/ Last(o) < First(x)
  <2>1. Spans(o, SpanLength(o)) /\ Spans(x, SpanLength(x))
    BY <1>4, ObjectSpans
  <2>2. CASE IsLarge(o) /\ IsLarge(x)
    <3>1. PA!Run(o.page, SpanLength(o)) \cap PA!Run(x.page, SpanLength(x)) = {}
      BY <1>1, <1>4, <2>2 DEF Owned, Block, SpanLength
    <3> QED BY <2>1, <3>1, SpansApart
  <2>3. CASE IsLarge(o) /\ ~IsLarge(x)
    <3>1. PA!Run(o.page, SpanLength(o)) \cap PA!Run(x.page, SpanLength(x)) = {}
      BY <1>2, <1>3, <2>3 DEF SlabPages
    <3> QED BY <2>1, <3>1, SpansApart
  <2>4. CASE ~IsLarge(o) /\ IsLarge(x)
    <3>1. PA!Run(o.page, SpanLength(o)) \cap PA!Run(x.page, SpanLength(x)) = {}
      BY <1>2, <1>3, <2>4 DEF SlabPages
    <3> QED BY <2>1, <3>1, SpansApart
  <2>5. CASE ~IsLarge(o) /\ ~IsLarge(x)
    <3>1. CASE o.page = x.page
      BY <1>4, <2>5, <3>1, SlabApart
    <3>2. CASE o.page # x.page
      <4>1. PA!Run(o.page, SpanLength(o)) \cap PA!Run(x.page, SpanLength(x)) = {}
        BY <1>3, <2>5, <3>2
      <4> QED BY <2>1, <4>1, SpansApart
    <3> QED BY <3>1, <3>2
  <2> QED BY <2>2, <2>3, <2>4, <2>5
<1>5. ASSUME NEW o \in live
      PROVE  /\ \A p \in Frames :
                  First(o) < (p + 1) * BUDDY_PAGE_SIZE /\ Last(o) >= p * BUDDY_PAGE_SIZE
                    => p \in held \ others
             /\ Last(o) \div BUDDY_PAGE_SIZE \in Frames
             /\ o.off >= IF mem[o.page].magic = "small" THEN SlabHeader ELSE LargeHeader
  <2>1. Spans(o, SpanLength(o))
    BY ObjectSpans
  <2>2. PA!Run(o.page, SpanLength(o)) \subseteq held \ others /\ held \subseteq Frames /\ Frames \subseteq Nat
    BY <1>1, <2>1, HeapAssumption DEF Spans, Types
  <2>3. \A p \in Frames :
           First(o) < (p + 1) * BUDDY_PAGE_SIZE /\ Last(o) >= p * BUDDY_PAGE_SIZE => p \in held \ others
    BY <2>1, <2>2, SpanPages
  <2>4. Last(o) \div BUDDY_PAGE_SIZE \in Frames
    BY <2>1, <2>2, SpanPages
  <2>5. o.off >= IF mem[o.page].magic = "small" THEN SlabHeader ELSE LargeHeader
    <3>1. CASE IsLarge(o)
      <4>1. mem[o.page].magic # "small" /\ o.off = LargeHeader
        BY <1>1, <3>1 DEF Owned, IsLarge
      <4> QED BY <4>1, HeapAssumption
    <3>2. CASE ~IsLarge(o)
      BY <1>3, <3>2
    <3> QED BY <3>1, <3>2
  <2> QED BY <2>3, <2>4, <2>5
<1> QED BY <1>4, <1>5 DEF ObjectsDisjoint

------------------------------------------------------------------------------
(* The steps.                                                              *)

Large == { x \in live : x.off = LargeHeader }

LEMMA BlocksOfHeap ==
  /\ HeapBlocks = { {p} : p \in SlabPages } \cup { Block(o) : o \in Large }
  /\ LargePages = UNION { Block(o) : o \in Large }
BY DEF HeapBlocks, LargePages, Large, Block

(* A page more, or one less, while the large objects stay. *)
LEMMA OnePageMore ==
  ASSUME Types, Owned, Large' = Large, others' = others, NEW p \in free, held' = held \cup {p}
  PROVE  HeapBlocks' = HeapBlocks \cup {{p}}
<1>1. LargePages' = LargePages
  BY DEF LargePages, Large
<1>2. SlabPages' = SlabPages \cup {p}
  BY <1>1, LargeBlocks DEF SlabPages, Owned
<1> QED BY <1>2, BlocksOfHeap DEF HeapBlocks, Large

LEMMA OnePageLess ==
  ASSUME Types, Owned, Large' = Large, others' = others, NEW p \in SlabPages, held' = held \ {p}
  PROVE  {p} \in HeapBlocks /\ HeapBlocks' = HeapBlocks \ {{p}}
<1>1. LargePages' = LargePages
  BY DEF LargePages, Large
<1>2. SlabPages' = SlabPages \ {p}
  BY <1>1 DEF SlabPages
<1>3. HeapBlocks' = { {q} : q \in SlabPages \ {p} } \cup { Block(o) : o \in Large }
  BY <1>2 DEF HeapBlocks, Large, Block
<1>4. \A o \in Large : Block(o) # {p}
  BY BlocksOfHeap DEF SlabPages
<1> QED BY <1>3, <1>4, BlocksOfHeap

(* Neither the pages nor the large objects change. *)
LEMMA SameBlocks ==
  ASSUME Large' = Large, held' \ others' = held \ others
  PROVE  HeapBlocks' = HeapBlocks
<1>1. LargePages' = LargePages
  BY DEF LargePages, Large
<1>2. SlabPages' = SlabPages
  BY <1>1 DEF SlabPages
<1> QED BY <1>2 DEF HeapBlocks, Large

(* A small object taken or released is no large one. *)
LEMMA AllocKeepsLarge ==
  ASSUME NEW m, m.free_list \in Offsets \cup {0}, NEW p, NEW partial, NEW c, NEW size,
         AllocFrom(m, p, partial, c, size)
  PROVE  Large' = Large
<1>1. m.free_list # LargeHeader
  BY OffsetFacts, HeapAssumption
<1>2. live' = live \/ live' = live \cup { [page |-> p, off |-> m.free_list, bytes |-> size] }
  BY DEF AllocFrom, TakeObject
<1> QED BY <1>1, <1>2 DEF Large

(* A large object comes or goes with its block. *)
LEMMA LargeComes ==
  ASSUME Types, Owned, others' = others, NEW o \in Object, IsLarge(o), live' = live \cup {o},
         Block(o) \subseteq free, held' = held \cup Block(o)
  PROVE  HeapBlocks' = HeapBlocks \cup {Block(o)}
<1>1. Large' = Large \cup {o}
  BY DEF Large, IsLarge
<1>2. LargePages' = UNION { Block(x) : x \in Large' }
  BY DEF LargePages, Large, Block
<1> HIDE DEF Block
<1>3. LargePages' = LargePages \cup Block(o)
  BY <1>1, <1>2, BlocksOfHeap
<1>4. SlabPages' = SlabPages
  BY <1>3 DEF SlabPages, Owned
<1>5. HeapBlocks' = { {p} : p \in SlabPages' } \cup { Block(x) : x \in Large' }
  BY DEF HeapBlocks, Large, Block
<1> QED BY <1>1, <1>4, <1>5, BlocksOfHeap

LEMMA LargeGoes ==
  ASSUME Types, Owned, others' = others, NEW o \in live, IsLarge(o),
         live' = { x \in live : ~(x.page = o.page /\ x.off = o.off) }, held' = held \ Block(o)
  PROVE  Block(o) \in HeapBlocks /\ HeapBlocks' = HeapBlocks \ {Block(o)}
<1>1. /\ \A x \in Large : x.page \in Block(x) /\ Block(x) \subseteq LargePages
      /\ o \in Large
  BY LargeBlocks DEF Large, IsLarge
<1>2. \A x, y \in Large : x = y \/ Block(x) \cap Block(y) = {}
  BY DEF Owned, Large, IsLarge
<1>3. Large' = Large \ {o}
  <2>1. ASSUME NEW x \in Large, x.page = o.page PROVE x = o
    BY <1>1, <1>2, <2>1
  <2> QED BY <1>1, <2>1 DEF Large
<1>4. LargePages' = UNION { Block(x) : x \in Large' }
  BY DEF LargePages, Large, Block
<1>5. HeapBlocks' = { {p} : p \in SlabPages' } \cup { Block(x) : x \in Large' }
  BY DEF HeapBlocks, Large, Block
<1> HIDE DEF Block
<1>6. LargePages' = LargePages \ Block(o)
  BY <1>1, <1>2, <1>3, <1>4, BlocksOfHeap
<1>7. SlabPages' = SlabPages
  BY <1>1, <1>6 DEF SlabPages
<1>8. ASSUME NEW x \in Large, Block(x) = Block(o) PROVE x = o
  BY <1>1, <1>2, <1>8
<1>9. \A p \in SlabPages : {p} # Block(o)
  BY <1>1 DEF SlabPages
<1> QED BY <1>1, <1>3, <1>5, <1>7, <1>8, <1>9, BlocksOfHeap

(* Each step of the heap takes or gives back one of its blocks, or none. *)
LEMMA BlockStep ==
  ASSUME IndInv, [Next]_vars
  PROVE  [MovesOneBlock]_vars
<1>1. Types /\ Owned
  BY DEF IndInv
<1>2. ASSUME NEW p \in free, PA!Allocate(p, 1), others' = others, Large' = Large
      PROVE  MovesOneBlock
  <2>1. p \in Frames /\ PA!Run(p, 1) = {p} /\ held' = held \cup {p}
    BY <1>1, <1>2, OnePage DEF Types, PA!Allocate
  <2>2. HeapBlocks' = HeapBlocks \cup {PA!Run(p, 1)}
    BY <1>1, <1>2, <2>1, OnePageMore
  <2> QED BY <1>2, <2>1, <2>2, Blocks DEF MovesOneBlock
<1>3. ASSUME NEW p \in SlabPages, held' = held \ {p}, free' = free \cup {p}, others' = others, Large' = Large
      PROVE  MovesOneBlock
  <2>1. p \in Frames /\ p \in held /\ PA!Run(p, 1) = {p}
    BY <1>1, LargeBlocks, OnePage
  <2>2. PA!Release(p, 1)
    BY <1>3, <2>1 DEF PA!Release
  <2>3. PA!Run(p, 1) \in HeapBlocks /\ HeapBlocks' = HeapBlocks \ {PA!Run(p, 1)}
    BY <1>1, <1>3, <2>1, OnePageLess
  <2> QED BY <1>3, <2>1, <2>2, <2>3, Blocks DEF MovesOneBlock
<1>4. ASSUME UNCHANGED <<free, held>>, others' = others, Large' = Large
      PROVE  MovesOneBlock
  BY <1>4, SameBlocks DEF MovesOneBlock
<1>5. \A size \in RequestSizes : PagesFor(size) <= 2^18 => BlockPages(PagesFor(size)) \in Lengths
  BY PagesHold, Blocks
<1>6. ASSUME Next, NEW size \in RequestSizes, kmalloc(size), ~UNCHANGED vars
      PROVE  MovesOneBlock
  <2>1. CASE heap_alloc_from_cache(size, heap_cache_index(size)) /\ heap_cache_index(size) # -1 /\ size # 0
    <3> DEFINE c == heap_cache_index(size)
               p == partial_pages[c]
    <3>1. c \in Classes
      BY <2>1, PagesHold, CacheIndex
    <3>2. p # 0 /\ AllocFrom(mem[p], p, partial_pages, c, size) /\ UNCHANGED <<free, held>> /\ others' = others
      BY <2>1 DEF heap_alloc_from_cache
    <3>3. mem[p].free_list \in Offsets \cup {0}
      BY <1>1, <3>1, <3>2 DEF Types, Page
    <3>4. Large' = Large
      <4> HIDE DEF p, c
      <4> QED BY <3>2, <3>3, AllocKeepsLarge
    <3> QED BY <1>4, <3>2, <3>4
  <2>2. CASE AllocNewSlab(size, heap_cache_index(size)) /\ heap_cache_index(size) # -1 /\ size # 0
    <3> DEFINE c == heap_cache_index(size)
               m(p) == heap_alloc_slab_page(p, heap_cache_sizes[c])
    <3>1. c \in Classes
      BY <2>2, PagesHold, CacheIndex
    <3>2. PICK p \in free : /\ PA!Allocate(p, 1) /\ others' = others
                            /\ AllocFrom(m(p), p, [partial_pages EXCEPT ![c] = p], c, size)
      BY <2>2 DEF AllocNewSlab
    <3>3. m(p).free_list \in Offsets \cup {0}
      <4>1. mem[p] \in Page /\ p \in Frames
        BY <1>1 DEF Types
      <4> QED BY <4>1, OffsetFacts DEF heap_alloc_slab_page, Page
    <3>4. Large' = Large
      <4> HIDE DEF m, c
      <4> QED BY <3>2, <3>3, AllocKeepsLarge
    <3> QED BY <1>2, <3>2, <3>4
  <2>3. CASE AllocLarge(size)
    <3> DEFINE n == BlockPages(PagesFor(size))
               new(f) == [page |-> f, off |-> LargeHeader, bytes |-> size]
    <3>1. PICK f \in free : /\ PagesFor(size) <= 2^18 /\ PA!Allocate(f, n) /\ others' = others
                            /\ live' = live \cup {new(f)}
      BY <2>3 DEF AllocLarge
    <3>2. f \in Frames /\ n \in Lengths
      BY <1>1, <1>5, <3>1 DEF Types
    <3>3. new(f) \in Object /\ IsLarge(new(f)) /\ Block(new(f)) = PA!Run(f, n)
      BY <3>2 DEF Object, IsLarge, Block
    <3>4. PA!Run(f, n) \subseteq free /\ held' = held \cup PA!Run(f, n)
      BY <3>1 DEF PA!Allocate
    <3>5. HeapBlocks' = HeapBlocks \cup {PA!Run(f, n)}
      <4> HIDE DEF n, new
      <4> QED BY <1>1, <3>1, <3>3, <3>4, LargeComes
    <3> HIDE DEF n
    <3> QED BY <3>1, <3>2, <3>5 DEF MovesOneBlock
  <2> QED BY <1>6, <2>1, <2>2, <2>3 DEF kmalloc, RefuseMalloc
<1>7. ASSUME Next, NEW p \in Frames, NEW off \in Offsets \cup {LargeHeader}, kfree(p, off), ~UNCHANGED vars
      PROVE  MovesOneBlock
  <2>1. rejectsAligned' = rejectsAligned
    BY <1>7 DEF Next
  <2>2. IsLive(p, off)
    BY <1>7, <2>1, DeadFree DEF vars
  <2>3. PICK o \in live : o.page = p /\ o.off = off
    BY <2>2 DEF IsLive
  <2>4. /\ kfree(o.page, o.off) /\ others' = others /\ o.page \in Frames /\ o.bytes \in RequestSizes
        /\ live' = { x \in live : ~(x.page = o.page /\ x.off = o.off) }
    BY <1>1, <1>7, <2>3 DEF Types, Object, kfree, Forget
  <2>5. CASE IsLarge(o)
    <3> DEFINE n == BlockPages(PagesFor(o.bytes))
    <3>1. PA!Release(o.page, n) /\ held' = held \ Block(o)
      BY <2>1, <2>4, <2>5, FreeLargeStep DEF PA!Release, Block
    <3>2. n \in Lengths /\ Block(o) = PA!Run(o.page, n)
      BY <1>1, <1>5, <2>4, <2>5 DEF Owned, Block
    <3>3. Block(o) \in HeapBlocks /\ HeapBlocks' = HeapBlocks \ {Block(o)}
      BY <1>1, <2>4, <2>5, <3>1, LargeGoes
    <3> HIDE DEF n
    <3> QED BY <2>4, <3>1, <3>2, <3>3 DEF MovesOneBlock
  <2>6. CASE ~IsLarge(o)
    <3>1. Large' = Large
      BY <2>4, <2>6 DEF Large, IsLarge
    <3>2. o.page \in SlabPages
      BY <2>6, LiveSmall DEF SlabsOf
    <3>3. \/ UNCHANGED <<free, held>>
          \/ held' = held \ {o.page} /\ free' = free \cup {o.page}
      BY <2>1, <2>4, <2>6, FreeSmallStep
    <3> QED BY <1>3, <1>4, <2>4, <3>1, <3>2, <3>3
  <2> QED BY <2>5, <2>6
<1>8. CASE Make_Page
  <2>1. PICK p \in free : PA!Allocate(p, 1) /\ others' = others \cup {p} /\ live' = live
    BY <1>8 DEF Make_Page
  <2>2. p \in Frames /\ held' = held \cup {p} /\ p \notin held /\ p \notin others
    BY <1>1, <2>1, OnePage DEF Types, Owned, PA!Allocate
  <2>3. HeapBlocks' = HeapBlocks
    BY <1>1, <2>1, <2>2, SameBlocks DEF Large
  <2>4. PA!Next
    BY <2>1, <2>2, Blocks DEF PA!Next
  <2> QED BY <2>1, <2>2, <2>3, <2>4 DEF MovesOneBlock
<1>9. CASE OtherFrees
  <2>1. PICK p \in others : buddy_free_pages(p, 1) /\ others' = others \ {p} /\ live' = live
    BY <1>9 DEF OtherFrees
  <2>2. p \in held /\ p \in Frames
    BY <1>1 DEF Types, Owned
  <2>3. held' = held \ {p} /\ free' = free \cup {p}
    BY <2>1, <2>2, OnePage DEF buddy_free_pages
  <2>4. HeapBlocks' = HeapBlocks
    BY <1>1, <2>1, <2>3, SameBlocks DEF Large
  <2>5. PA!Release(p, 1)
    BY <2>2, <2>3, OnePage DEF PA!Release
  <2>6. PA!Next
    BY <2>2, <2>5, Blocks DEF PA!Next
  <2> QED BY <2>1, <2>4, <2>6 DEF MovesOneBlock
<1>10. CASE Next
  BY <1>6, <1>7, <1>8, <1>9, <1>10 DEF Next
<1> QED BY <1>10

LEMMA DeadFreeStep ==
  ASSUME IndInv, [Next]_vars
  PROVE  [\A p \in Frames, off \in Offsets \cup {LargeHeader} : ~IsLive(p, off) => ~kfree(p, off)]_vars
<1>1. CASE UNCHANGED vars
  BY <1>1
<1>2. ASSUME Next, NEW p \in Frames, NEW off \in Offsets \cup {LargeHeader}, ~IsLive(p, off), kfree(p, off)
      PROVE  UNCHANGED vars
  <2>1. rejectsAligned' = rejectsAligned
    BY <1>2 DEF Next
  <2> QED BY <1>2, <2>1, DeadFree DEF vars
<1> QED BY <1>1, <1>2

------------------------------------------------------------------------------
(* Theorems.                                                               *)

(* Whatever the heap has been asked, no two objects callers hold share a   *)
(* byte, and each lies in pages the heap holds, behind the header (kmalloc *)
(* and kfree, heap.c:241-335).                                             *)
THEOREM ObjectsDisjointHolds == Spec => []ObjectsDisjoint
<1>1. IndInv => ObjectsDisjoint
  BY ObjectsSuffice
<1> QED BY <1>1, IndInvHolds, PTL

(* The variables have their types, and the bitmap, the count and the free  *)
(* list of a slab agree with each other and with what callers hold, for    *)
(* any number of objects and any order of kmalloc and kfree.               *)
THEOREM SlabsConsistentHolds == Spec => []SlabsConsistent
<1>1. IndInv => SlabsConsistent
  BY SlabsSuffice
<1> QED BY <1>1, IndInvHolds, PTL

(* The list of a class ends, and holds exactly the slabs of the class that *)
(* have a free object (heap_insert_slab_into_cache and                     *)
(* heap_remove_slab_from_cache).                                           *)
THEOREM PartialListsHolds == Spec => []PartialLists
<1>1. IndInv => PartialLists
  BY ListsSuffice
<1> QED BY <1>1, IndInvHolds, PTL

(* The heap keeps no page for nothing: heap_free_small returns a slab with *)
(* its last object, and where object_index lets none be taken one page per *)
(* class is kept and no more.                                              *)
THEOREM NoPageLeakedHolds == Spec => []NoPageLeaked
<1>1. IndInv => NoPageLeaked
  BY PagesSuffice
<1> QED BY <1>1, IndInvHolds, PTL

(* What kmalloc takes from buddy.c is one free block, what kfree gives     *)
(* back is one whole block of the heap's own, and the other callers of     *)
(* buddy.c leave the heap's blocks alone (heap.c:153, 293 and 265, 227).   *)
THEOREM UsesPageAllocatorHolds == Spec => UsesPageAllocator
<1>1. IndInv /\ [Next]_vars => [MovesOneBlock]_vars
  BY BlockStep
<1> QED BY <1>1, IndInvHolds, PTL DEF Spec, UsesPageAllocator

(* kfree of a pointer that is not live changes nothing, in whatever state  *)
(* its page is by then (the bitmap test of heap_free_small, the test of    *)
(* buddy_free_pages).                                                      *)
THEOREM DoubleFreeHarmlessHolds == Spec => DoubleFreeHarmless
<1>1. IndInv /\ [Next]_vars
        => [\A p \in Frames, off \in Offsets \cup {LargeHeader} : ~IsLive(p, off) => ~kfree(p, off)]_vars
  BY DeadFreeStep
<1> QED BY <1>1, IndInvHolds, PTL DEF Spec, DoubleFreeHarmless
==============================================================================
