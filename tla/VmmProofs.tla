------------------------------ MODULE VmmProofs ------------------------------
(***************************************************************************)
(* Proofs about Vmm, for every pool, every set of indices and every set of *)
(* addresses the kernel maps.                                              *)
(*                                                                         *)
(* What makes the properties inductive is where the call in progress is:   *)
(* vmm_map holds a pointer to a table, and the table must still be the one *)
(* its address leads to when the entry is stored; the page it maps must    *)
(* not have been mapped elsewhere meanwhile; and the page vmm_unmap is     *)
(* about to release must be mapped nowhere.                                *)
(***************************************************************************)
EXTENDS Vmm, TLAPS

------------------------------------------------------------------------------
(* The inductive invariant.                                                *)

(* The table of a level that an address leads to. *)
Reached(v, l) ==
  CASE l = 4 -> Root
    [] l = 3 -> vmm_get_existing_level(Root, v[1])
    [] l = 2 -> vmm_get_existing_level(vmm_get_existing_level(Root, v[1]), v[2])
    [] l = 1 -> PageTable(v)

(* Entries that are present lead to frames, in pages that are no tables too. *)
Typed ==
  /\ TypeOK
  /\ \A f \in Frames, i \in Index : ptab[f][i].present => ptab[f][i].frame \in Frames

(* The tables are a tree. *)
Tree ==
  /\ \A l, m \in 1 .. 4 : l # m => TablesAt(l) \cap TablesAt(m) = {}
  /\ \A l \in 2 .. 4 : \A s, t \in TablesAt(l), i, j \in Index :
       ptab[s][i].present /\ ptab[s][i] = ptab[t][j] => s = t /\ i = j

(* Who has which page. *)
Owned ==
  /\ Tables \cap (free \cup data \cup Mmio) = {}
  /\ NoPageLost

(* What is mapped belongs to a caller, who has mapped it at one address,   *)
(* or is a device's.                                                       *)
Mappable == Mmio \cup data
Mappings ==
  /\ \A v \in VAddrs : vmm_get_phys(v) \in {NoFrame} \cup Mappable
  /\ \A v, w \in VAddrs : vmm_get_phys(v) \in data /\ vmm_get_phys(v) = vmm_get_phys(w) => v = w

(* A page that may be mapped, or released. *)
Unmapped(f) == f \in Mappable /\ (f \in data => ~IsMapped(f))

(* What the call in progress relies on. *)
InCall ==
  /\ pc # "idle" => virt_addr \in VAddrs
  /\ pc = "map" => /\ level \in 1 .. 4 /\ table # NoFrame
                   /\ \A v \in VAddrs, l \in 1 .. 4 :
                        v = virt_addr /\ l = level => table = Reached(v, l)
                   /\ Unmapped(phys_addr)
  /\ pc \in {"unmap_flush", "unmap_free"} => Unmapped(old_frame)

(* Only the address being changed may have an outdated translation. *)
Flushing(v) == v = virt_addr /\ pc \in {"map_flush", "unmap_flush"}
Cached ==
  \A v \in VAddrs :
    /\ tlb[v] \in {NoFrame} \cup Mappable
    /\ tlb[v] \in {NoFrame, vmm_get_phys(v)} \/ Flushing(v)

IndInv == Typed /\ Tree /\ Owned /\ Mappings /\ InCall /\ Cached

------------------------------------------------------------------------------
(* The levels.                                                             *)

LEMMA Levels ==
  /\ TablesAt(4) = {Root} /\ TablesAt(3) = Children(TablesAt(4))
  /\ TablesAt(2) = Children(TablesAt(3)) /\ TablesAt(1) = Children(TablesAt(2))
BY DEF TablesAt

LEMMA LevelsNext ==
  /\ TablesAt(4)' = {Root} /\ TablesAt(3)' = Children(TablesAt(4))'
  /\ TablesAt(2)' = Children(TablesAt(3))' /\ TablesAt(1)' = Children(TablesAt(2))'
BY DEF TablesAt

LEMMA ReachedLevels ==
  ASSUME NEW CONSTANT v
  PROVE  /\ Reached(v, 4) = Root
         /\ Reached(v, 3) = vmm_get_existing_level(Reached(v, 4), v[1])
         /\ Reached(v, 2) = vmm_get_existing_level(Reached(v, 3), v[2])
         /\ Reached(v, 1) = vmm_get_existing_level(Reached(v, 2), v[3])
         /\ Reached(v, 1) = PageTable(v)
         /\ vmm_get_phys(v) = vmm_get_existing_level(Reached(v, 1), v[4])
BY DEF Reached, PageTable, vmm_get_phys

LEMMA ReachedLevelsNext ==
  ASSUME NEW CONSTANT v
  PROVE  /\ Reached(v, 4)' = Root
         /\ Reached(v, 3)' = vmm_get_existing_level(Reached(v, 4), v[1])'
         /\ Reached(v, 2)' = vmm_get_existing_level(Reached(v, 3), v[2])'
         /\ Reached(v, 1)' = vmm_get_existing_level(Reached(v, 2), v[3])'
         /\ vmm_get_phys(v)' = vmm_get_existing_level(Reached(v, 1), v[4])'
BY DEF Reached, PageTable, vmm_get_phys

(* Every level of tables consists of frames. *)
LEMMA TablesAreFrames == \A l \in 1 .. 4 : TablesAt(l) \subseteq Frames
<1>1. \A T : Children(T) \subseteq Frames
  BY DEF Children
<1>2. TablesAt(4) \subseteq Frames
  BY Levels DEF Frames
<1>3. \A l \in 1 .. 4 : l = 1 \/ l = 2 \/ l = 3 \/ l = 4
  OBVIOUS
<1> QED BY <1>1, <1>2, <1>3, Levels

(* The tables of the next level, below l. *)
LEMMA NextLevel ==
  \A l \in 2 .. 4 : /\ l - 1 \in 1 .. 3
                    /\ TablesAt(l - 1) = Children(TablesAt(l))
                    /\ TablesAt(l - 1)' = Children(TablesAt(l))'
<1>1. \A l \in 2 .. 4 : l = 2 \/ l = 3 \/ l = 4
  OBVIOUS
<1>2. 4 - 1 = 3 /\ 3 - 1 = 2 /\ 2 - 1 = 1
  OBVIOUS
<1> QED BY <1>1, <1>2, Levels, LevelsNext

(* The table an address leads to, below l. *)
LEMMA NextReached ==
  ASSUME NEW CONSTANT v, NEW CONSTANT l \in 2 .. 4
  PROVE  /\ Reached(v, l - 1) = vmm_get_existing_level(Reached(v, l), IndexAt(v, l))
         /\ Reached(v, l - 1)' = vmm_get_existing_level(Reached(v, l), IndexAt(v, l))'
<1>1. l = 2 \/ l = 3 \/ l = 4
  OBVIOUS
<1>2. /\ 4 - 1 = 3 /\ 3 - 1 = 2 /\ 2 - 1 = 1
      /\ IndexAt(v, 4) = v[1] /\ IndexAt(v, 3) = v[2] /\ IndexAt(v, 2) = v[3]
  BY DEF IndexAt
<1> QED BY <1>1, <1>2, ReachedLevels, ReachedLevelsNext

(* The indices of an address. *)
LEMMA Indices ==
  ASSUME NEW v \in VAddrs
  PROVE  /\ v[1] \in Index /\ v[2] \in Index /\ v[3] \in Index /\ v[4] \in Index
         /\ \A l \in 1 .. 4 : IndexAt(v, l) \in Index
         /\ v = <<v[1], v[2], v[3], v[4]>>
<1>1. v \in Index \X Index \X Index \X Index
  BY VmmAssumption
<1>2. \A l \in 1 .. 4 : 5 - l = 1 \/ 5 - l = 2 \/ 5 - l = 3 \/ 5 - l = 4
  OBVIOUS
<1> QED BY <1>1, <1>2 DEF IndexAt

(* An entry that is present leads from a table to one of the next level. *)
LEMMA EntryLeadsDown ==
  ASSUME Typed, NEW l \in 2 .. 4, NEW t \in TablesAt(l), NEW i \in Index, ptab[t][i].present
  PROVE  /\ ptab[t][i].frame \in TablesAt(l - 1)
         /\ ptab[t][i] = Entry(ptab[t][i].frame, TRUE)
<1>1. t \in Frames
  BY TablesAreFrames
<1>2. ptab[t][i] \in [frame : Frames \cup {NoFrame}, present : BOOLEAN] /\ ptab[t][i].frame \in Frames
  BY <1>1 DEF Typed, TypeOK
<1>3. ptab[t][i] = Entry(ptab[t][i].frame, TRUE)
  BY <1>2 DEF Entry
<1> QED BY <1>2, <1>3, NextLevel DEF Children

(* So an address leads to tables, or to nothing. *)
LEMMA ReachedIsTable ==
  ASSUME Typed, NEW v \in VAddrs
  PROVE  \A l \in 1 .. 4 : Reached(v, l) \in TablesAt(l) \cup {NoFrame}
<1>1. ASSUME NEW l \in 2 .. 4, Reached(v, l) \in TablesAt(l) \cup {NoFrame}
      PROVE  Reached(v, l - 1) \in TablesAt(l - 1) \cup {NoFrame}
  <2>1. IndexAt(v, l) \in Index
    BY Indices
  <2> QED BY <1>1, <2>1, NextReached, EntryLeadsDown, ZenonT(30) DEF vmm_get_existing_level
<1>2. Reached(v, 4) \in TablesAt(4) \cup {NoFrame}
  BY ReachedLevels, Levels
<1>3. Reached(v, 3) \in TablesAt(3) \cup {NoFrame}
  BY <1>1, <1>2
<1>4. Reached(v, 2) \in TablesAt(2) \cup {NoFrame}
  BY <1>1, <1>3
<1>5. Reached(v, 1) \in TablesAt(1) \cup {NoFrame}
  BY <1>1, <1>4
<1>6. \A l \in 1 .. 4 : l = 1 \/ l = 2 \/ l = 3 \/ l = 4
  OBVIOUS
<1> QED BY <1>2, <1>3, <1>4, <1>5, <1>6

(* Two addresses that lead to one last table have the same indices so far. *)
LEMMA OnePath ==
  ASSUME Typed, Tree, NEW v \in VAddrs, NEW w \in VAddrs,
         Reached(v, 1) = Reached(w, 1), Reached(v, 1) # NoFrame
  PROVE  v[4] = w[4] => v = w
<1>1. ASSUME NEW l \in 2 .. 4,
             Reached(v, l - 1) = Reached(w, l - 1), Reached(v, l - 1) # NoFrame
      PROVE  /\ Reached(v, l) = Reached(w, l) /\ Reached(v, l) # NoFrame
             /\ IndexAt(v, l) = IndexAt(w, l)
  <2> DEFINE s == Reached(v, l)
             t == Reached(w, l)
             i == IndexAt(v, l)
             j == IndexAt(w, l)
  <2>1. i \in Index /\ j \in Index
    BY Indices
  <2>2. /\ s # NoFrame /\ ptab[s][i].present /\ Reached(v, l - 1) = ptab[s][i].frame
        /\ t # NoFrame /\ ptab[t][j].present /\ Reached(w, l - 1) = ptab[t][j].frame
    BY <1>1, NextReached DEF vmm_get_existing_level
  <2>3. s \in TablesAt(l) /\ t \in TablesAt(l)
    BY <2>2, ReachedIsTable
  <2>4. ptab[s][i] = ptab[t][j]
    BY <1>1, <2>1, <2>2, <2>3, EntryLeadsDown
  <2> QED BY <2>1, <2>2, <2>3, <2>4 DEF Tree
<1>2. 4 - 1 = 3 /\ 3 - 1 = 2 /\ 2 - 1 = 1
  OBVIOUS
<1>3. Reached(v, 2) = Reached(w, 2) /\ Reached(v, 2) # NoFrame /\ IndexAt(v, 2) = IndexAt(w, 2)
  BY <1>1, <1>2
<1>4. Reached(v, 3) = Reached(w, 3) /\ Reached(v, 3) # NoFrame /\ IndexAt(v, 3) = IndexAt(w, 3)
  BY <1>1, <1>2, <1>3
<1>5. IndexAt(v, 4) = IndexAt(w, 4)
  BY <1>1, <1>2, <1>4
<1>6. v[1] = w[1] /\ v[2] = w[2] /\ v[3] = w[3]
  BY <1>3, <1>4, <1>5 DEF IndexAt
<1> QED BY <1>6, Indices

------------------------------------------------------------------------------
(* The two changes made to the tables.                                     *)

(***************************************************************************)
(* An entry of a last table is stored, by vmm_map or vmm_unmap.  The       *)
(* tables stay what they are, and one translation changes.                 *)
(***************************************************************************)
LEMMA LeafWritten ==
  ASSUME Typed, Tree, NEW v \in VAddrs, PageTable(v) # NoFrame,
         NEW e \in [frame : Frames \cup {NoFrame}, present : BOOLEAN],
         e.present => e.frame \in Frames,
         ptab' = [ptab EXCEPT ![PageTable(v)][v[4]] = e]
  PROVE  /\ \A l \in 1 .. 4 : TablesAt(l)' = TablesAt(l)
         /\ Tree'
         /\ \A w \in VAddrs : vmm_get_phys(w)' = IF w = v THEN IF e.present THEN e.frame ELSE NoFrame
                                                ELSE vmm_get_phys(w)
         /\ ptab' \in [Frames -> [Index -> [frame : Frames \cup {NoFrame}, present : BOOLEAN]]]
         /\ \A f \in Frames, i \in Index : ptab'[f][i].present => ptab'[f][i].frame \in Frames
<1> DEFINE t == PageTable(v)
<1>1. t \in TablesAt(1) /\ t \in Frames /\ v[4] \in Index /\ t = Reached(v, 1)
  BY ReachedIsTable, ReachedLevels, TablesAreFrames, Indices
<1>2. ptab \in [Frames -> [Index -> [frame : Frames \cup {NoFrame}, present : BOOLEAN]]]
  BY DEF Typed, TypeOK
<1>3. /\ \A f \in Frames : f # t => ptab'[f] = ptab[f]
      /\ \A i \in Index : ptab'[t][i] = IF i = v[4] THEN e ELSE ptab[t][i]
  BY <1>1, <1>2
<1>4. \A l \in 2 .. 4 : \A s \in TablesAt(l) : ptab'[s] = ptab[s]
  <2>1. \A l \in 2 .. 4 : l \in 1 .. 4 /\ l # 1 /\ 1 \in 1 .. 4
    OBVIOUS
  <2>2. \A l \in 2 .. 4 : t \notin TablesAt(l)
    BY <1>1, <2>1 DEF Tree
  <2>3. \A l \in 2 .. 4 : TablesAt(l) \subseteq Frames
    BY <2>1, TablesAreFrames
  <2> QED BY <1>3, <2>2, <2>3
<1>5. \A l \in 2 .. 4 : TablesAt(l)' = TablesAt(l) => TablesAt(l - 1)' = TablesAt(l - 1)
  <2> SUFFICES ASSUME NEW l \in 2 .. 4, TablesAt(l)' = TablesAt(l)
               PROVE  TablesAt(l - 1)' = TablesAt(l - 1)
    OBVIOUS
  <2>1. Children(TablesAt(l))' = Children(TablesAt(l))
    <3> DEFINE T == TablesAt(l)
               U == TablesAt(l)'
    <3>1. U = T /\ \A s \in T : ptab'[s] = ptab[s]
      BY <1>4
    <3> HIDE DEF T, U
    <3>2. { f \in Frames : \E s \in U, i \in Index : ptab'[s][i] = Entry(f, TRUE) }
            = { f \in Frames : \E s \in T, i \in Index : ptab[s][i] = Entry(f, TRUE) }
      BY <3>1, ZenonT(30)
    <3> QED BY <3>2 DEF T, U, Children
  <2> QED BY <2>1, NextLevel

<1>6. /\ TablesAt(4)' = TablesAt(4) /\ TablesAt(3)' = TablesAt(3)
      /\ TablesAt(2)' = TablesAt(2) /\ TablesAt(1)' = TablesAt(1)
  <2>1. TablesAt(4)' = TablesAt(4)
    BY Levels, LevelsNext
  <2>2. TablesAt(3)' = TablesAt(3)
    BY <1>5, <2>1
  <2>3. TablesAt(2)' = TablesAt(2)
    BY <1>5, <2>2
  <2>4. TablesAt(1)' = TablesAt(1)
    BY <1>5, <2>3
  <2> QED BY <2>1, <2>2, <2>3, <2>4
<1>7. \A l \in 1 .. 4 : TablesAt(l)' = TablesAt(l)
  <2>1. \A l \in 1 .. 4 : l = 1 \/ l = 2 \/ l = 3 \/ l = 4
    OBVIOUS
  <2> QED BY <1>6, <2>1
<1>8. Tree'
  <2>1. \A l \in 2 .. 4 : l \in 1 .. 4
    OBVIOUS
  <2> QED BY <1>4, <1>7, <2>1 DEF Tree
<1>9. \A w \in VAddrs : Reached(w, 1)' = Reached(w, 1)
  <2> SUFFICES ASSUME NEW w \in VAddrs PROVE Reached(w, 1)' = Reached(w, 1)
    OBVIOUS
  <2>1. ASSUME NEW l \in 2 .. 4, Reached(w, l)' = Reached(w, l)
        PROVE  Reached(w, l - 1)' = Reached(w, l - 1)
    <3>1. Reached(w, l) \in TablesAt(l) \cup {NoFrame}
      BY ReachedIsTable
    <3> QED BY <1>4, <2>1, <3>1, NextReached DEF vmm_get_existing_level
  <2>2. Reached(w, 4)' = Reached(w, 4)
    BY ReachedLevels, ReachedLevelsNext
  <2>3. Reached(w, 3)' = Reached(w, 3)
    BY <2>1, <2>2
  <2>4. Reached(w, 2)' = Reached(w, 2)
    BY <2>1, <2>3
  <2> QED BY <2>1, <2>4
<1>10. ASSUME NEW w \in VAddrs
       PROVE  vmm_get_phys(w)' = IF w = v THEN IF e.present THEN e.frame ELSE NoFrame
                                 ELSE vmm_get_phys(w)
  <2>1. vmm_get_phys(w)' = vmm_get_existing_level(Reached(w, 1), w[4])'
    BY ReachedLevelsNext
  <2>2. vmm_get_phys(w) = vmm_get_existing_level(Reached(w, 1), w[4])
    BY ReachedLevels
  <2>3. Reached(w, 1) \in Frames \cup {NoFrame} /\ w[4] \in Index
    BY ReachedIsTable, TablesAreFrames, Indices
  <2>4. Reached(w, 1) = t /\ w[4] = v[4] => w = v
    BY <1>1, OnePath
  <2>5. CASE w = v
    <3>1. ptab'[t][v[4]] = e /\ t # NoFrame
      BY <1>1, <1>3
    <3> QED BY <1>1, <1>9, <2>1, <2>5, <3>1 DEF vmm_get_existing_level
  <2>6. CASE w # v
    <3>1. Reached(w, 1) # NoFrame => ptab'[Reached(w, 1)][w[4]] = ptab[Reached(w, 1)][w[4]]
      BY <1>1, <1>3, <2>3, <2>4, <2>6
    <3> QED BY <1>9, <2>1, <2>2, <2>6, <3>1 DEF vmm_get_existing_level
  <2> QED BY <2>5, <2>6
<1>11. ptab' \in [Frames -> [Index -> [frame : Frames \cup {NoFrame}, present : BOOLEAN]]]
  BY <1>1, <1>2
<1>12. ASSUME NEW f \in Frames, NEW i \in Index, ptab'[f][i].present
       PROVE  ptab'[f][i].frame \in Frames
  BY <1>3, <1>12 DEF Typed
<1> QED BY <1>7, <1>8, <1>10, <1>11, <1>12

(* A page is made the table that an entry of a table lacks. *)
MakesTable(t, i, p) ==
  /\ t # NoFrame /\ ~ptab[t][i].present
  /\ ptab' = [Make_Page(ptab, p) EXCEPT ![t][i] = Entry(p, TRUE)]

(***************************************************************************)
(* vmm_get_next_level makes a table of a page from the pool.  It is the    *)
(* only new table, of the level below; it is what the address leads to     *)
(* now; and no translation changes, because the page was cleared.          *)
(***************************************************************************)
LEMMA TableMade ==
  ASSUME Typed, Tree, NEW v \in VAddrs, NEW lv \in 2 .. 4, NEW p \in Pool, p \notin Tables,
         MakesTable(Reached(v, lv), IndexAt(v, lv), p)
  PROVE  /\ \A l \in 1 .. 4 : TablesAt(l)' = TablesAt(l) \cup (IF l = lv - 1 THEN {p} ELSE {})
         /\ Tree'
         /\ Reached(v, lv - 1)' = p
         /\ \A w \in VAddrs : vmm_get_phys(w)' = vmm_get_phys(w)
         /\ ptab' \in [Frames -> [Index -> [frame : Frames \cup {NoFrame}, present : BOOLEAN]]]
         /\ \A f \in Frames, i \in Index : ptab'[f][i].present => ptab'[f][i].frame \in Frames
<1> DEFINE t == Reached(v, lv)
           x == IndexAt(v, lv)
<1>1. \A l \in 2 .. 4 : l \in 1 .. 4
  OBVIOUS
<1>2. \A l \in 1 .. 4 : TablesAt(l) \subseteq Frames /\ p \notin TablesAt(l)
  BY TablesAreFrames DEF Tables
<1>3. t \in TablesAt(lv) /\ t \in Frames /\ x \in Index /\ p \in Frames /\ p # NoFrame /\ p # t
  <2>1. t # NoFrame
    BY DEF MakesTable
  <2> QED BY <1>1, <1>2, <2>1, ReachedIsTable, Indices, VmmAssumption DEF Frames
<1>4. ptab \in [Frames -> [Index -> [frame : Frames \cup {NoFrame}, present : BOOLEAN]]]
  BY DEF Typed, TypeOK
<1>5. ZeroTable \in [Index -> [frame : Frames \cup {NoFrame}, present : BOOLEAN]]
  BY DEF ZeroTable, ZeroEntry, Entry
<1>6. Entry(p, TRUE) \in [frame : Frames \cup {NoFrame}, present : BOOLEAN]
  BY <1>3 DEF Entry
<1>7. Make_Page(ptab, p) \in [Frames -> [Index -> [frame : Frames \cup {NoFrame}, present : BOOLEAN]]]
  BY <1>3, <1>4, <1>5 DEF Make_Page
<1>8. ptab' \in [Frames -> [Index -> [frame : Frames \cup {NoFrame}, present : BOOLEAN]]]
  BY <1>3, <1>6, <1>7 DEF MakesTable
<1>9. /\ \A f \in Frames \ {t, p} : ptab'[f] = ptab[f]
      /\ \A i \in Index : ptab'[t][i] = IF i = x THEN Entry(p, TRUE) ELSE ptab[t][i]
      /\ ptab'[p] = ZeroTable
  BY <1>3, <1>4, <1>5, <1>7 DEF MakesTable, Make_Page
<1>10. \A i \in Index : ~ptab'[p][i].present /\ \A f : ptab'[p][i] # Entry(f, TRUE)
  BY <1>9 DEF ZeroTable, ZeroEntry, Entry
<1> HIDE DEF t, x
<1>11. \A l \in 1 .. 4 : t \in TablesAt(l) <=> l = lv
  BY <1>1, <1>3 DEF Tree
<1>12. ~ptab[t][x].present /\ \A f : ptab[t][x] # Entry(f, TRUE)
  BY DEF t, x, Entry, MakesTable
<1>13. ASSUME NEW f \in Frames, NEW i \in Index, ptab'[f][i].present
       PROVE  ptab'[f][i].frame \in Frames
  <2>1. CASE f = t /\ i = x
    BY <1>3, <1>9, <2>1 DEF Entry
  <2>2. CASE f # p /\ ~(f = t /\ i = x)
    BY <1>9, <1>13, <2>2 DEF Typed
  <2>3. f # p
    BY <1>10, <1>13
  <2> QED BY <2>1, <2>2, <2>3
<1>14. ASSUME NEW l \in 2 .. 4,
              TablesAt(l)' = TablesAt(l) \cup (IF l = lv - 1 THEN {p} ELSE {})
       PROVE  TablesAt(l - 1)' = TablesAt(l - 1) \cup (IF l - 1 = lv - 1 THEN {p} ELSE {})
  <2> DEFINE T == TablesAt(l)
             U == TablesAt(l)'
             C == { f \in Frames : \E s \in T, i \in Index : ptab[s][i] = Entry(f, TRUE) }
             D == { f \in Frames : \E s \in U, i \in Index : ptab'[s][i] = Entry(f, TRUE) }
  <2>1. TablesAt(l - 1) = C /\ TablesAt(l - 1)' = D
    BY NextLevel DEF Children
  <2>2. T \subseteq Frames /\ p \notin T /\ (t \in T <=> l = lv) /\ T \subseteq U /\ U \subseteq T \cup {p}
    BY <1>1, <1>2, <1>11, <1>14
  <2> HIDE DEF T, U
  <2>3. ASSUME NEW f \in Frames, NEW s \in U, NEW i \in Index, ptab'[s][i] = Entry(f, TRUE)
        PROVE  f \in C \/ (l = lv /\ f = p)
    <3>1. s # p
      BY <1>10, <2>3
    <3>2. s \in T /\ s \in Frames
      BY <2>2, <3>1
    <3>3. CASE s = t /\ i = x
      BY <1>9, <2>2, <2>3, <3>2, <3>3 DEF Entry
    <3>4. CASE ~(s = t /\ i = x)
      <4>1. ptab'[s][i] = ptab[s][i]
        BY <1>9, <3>1, <3>2, <3>4
      <4> QED BY <2>3, <3>2, <4>1
    <3> QED BY <3>3, <3>4
  <2>4. ASSUME NEW f \in Frames, NEW s \in T, NEW i \in Index, ptab[s][i] = Entry(f, TRUE)
        PROVE  f \in D
    <3>1. s \in U /\ s \in Frames /\ s # p /\ ~(s = t /\ i = x)
      BY <1>12, <2>2, <2>4
    <3>2. ptab'[s][i] = ptab[s][i]
      BY <1>9, <3>1
    <3> QED BY <2>4, <3>1, <3>2
  <2>5. l = lv => p \in D
    BY <1>3, <1>9, <2>2
  <2>6. D = C \cup (IF l = lv THEN {p} ELSE {})
    BY <2>3, <2>4, <2>5
  <2>7. l - 1 = lv - 1 <=> l = lv
    OBVIOUS
  <2> HIDE DEF C, D
  <2> QED BY <2>1, <2>6, <2>7
<1>15. \A l \in 1 .. 4 : TablesAt(l)' = TablesAt(l) \cup (IF l = lv - 1 THEN {p} ELSE {})
  <2>1. TablesAt(4)' = TablesAt(4) \cup (IF 4 = lv - 1 THEN {p} ELSE {})
    BY Levels, LevelsNext
  <2>2. TablesAt(3)' = TablesAt(3) \cup (IF 3 = lv - 1 THEN {p} ELSE {})
    BY <1>14, <2>1
  <2>3. TablesAt(2)' = TablesAt(2) \cup (IF 2 = lv - 1 THEN {p} ELSE {})
    BY <1>14, <2>2
  <2>4. TablesAt(1)' = TablesAt(1) \cup (IF 1 = lv - 1 THEN {p} ELSE {})
    BY <1>14, <2>3
  <2>5. \A l \in 1 .. 4 : l = 1 \/ l = 2 \/ l = 3 \/ l = 4
    OBVIOUS
  <2> QED BY <2>1, <2>2, <2>3, <2>4, <2>5
<1>16. Tree'
  <2>1. ASSUME NEW l \in 1 .. 4, NEW m \in 1 .. 4, l # m
        PROVE  TablesAt(l)' \cap TablesAt(m)' = {}
    BY <1>2, <1>15, <2>1 DEF Tree
  <2>2. ASSUME NEW l \in 2 .. 4, NEW s \in TablesAt(l)', NEW r \in TablesAt(l)',
               NEW i \in Index, NEW j \in Index,
               ptab'[s][i].present, ptab'[s][i] = ptab'[r][j]
        PROVE  s = r /\ i = j
    <3>1. s # p /\ r # p
      BY <1>10, <2>2
    <3>2. s \in TablesAt(l) /\ r \in TablesAt(l) /\ s \in Frames /\ r \in Frames
      BY <1>1, <1>2, <1>15, <3>1
    <3>3. ASSUME NEW a \in TablesAt(l), NEW k \in Index, ~(a = t /\ k = x), a # p
          PROVE  ptab'[a][k] = ptab[a][k] /\ ptab[a][k] # Entry(p, TRUE)
      <4>1. ptab'[a][k] = ptab[a][k]
        BY <1>1, <1>2, <1>9, <3>3
      <4>2. ptab[a][k] # Entry(p, TRUE)
        <5>1. p \notin TablesAt(l - 1) /\ TablesAt(l - 1) = Children(TablesAt(l))
          BY <1>2, NextLevel
        <5> QED BY <1>3, <5>1 DEF Children
      <4> QED BY <4>1, <4>2
    <3>4. ptab'[t][x] = Entry(p, TRUE)
      BY <1>3, <1>9
    <3>5. CASE s = t /\ i = x
      <4>1. ptab'[r][j] = Entry(p, TRUE)
        BY <2>2, <3>4, <3>5
      <4>2. r = t /\ j = x
        BY <3>1, <3>2, <3>3, <4>1
      <4> QED BY <3>5, <4>2
    <3>6. CASE r = t /\ j = x
      <4>1. ptab'[s][i] = Entry(p, TRUE)
        BY <2>2, <3>4, <3>6
      <4>2. s = t /\ i = x
        BY <3>1, <3>2, <3>3, <4>1
      <4> QED BY <3>6, <4>2
    <3>7. CASE ~(s = t /\ i = x) /\ ~(r = t /\ j = x)
      <4>1. ptab'[s][i] = ptab[s][i] /\ ptab'[r][j] = ptab[r][j]
        BY <3>1, <3>2, <3>3, <3>7
      <4>2. ptab[s][i].present /\ ptab[s][i] = ptab[r][j]
        BY <2>2, <4>1
      <4> QED BY <3>2, <4>2 DEF Tree
    <3> QED BY <3>5, <3>6, <3>7
  <2>3. \A l \in 2 .. 4 : \A s, r \in TablesAt(l)', i, j \in Index :
          ptab'[s][i].present /\ ptab'[s][i] = ptab'[r][j] => s = r /\ i = j
    BY <2>2
  <2>4. \A l, m \in 1 .. 4 : l # m => TablesAt(l)' \cap TablesAt(m)' = {}
    BY <2>1
  <2> QED BY <2>3, <2>4 DEF Tree

<1>17. ASSUME NEW w \in VAddrs
       PROVE  /\ Reached(w, lv)' = Reached(w, lv)
              /\ vmm_get_phys(w)' = vmm_get_phys(w)
  <2> DEFINE Same(l) == \/ Reached(w, l)' = Reached(w, l)
                        \/ l = lv - 1 /\ Reached(w, l) = NoFrame /\ Reached(w, l)' = p
             Below(s, k) == IF s = NoFrame \/ ~ptab[s][k].present THEN NoFrame ELSE ptab[s][k].frame
             BelowNext(s, k) == IF s = NoFrame \/ ~ptab'[s][k].present THEN NoFrame ELSE ptab'[s][k].frame
  <2>1. ASSUME NEW l \in 1 .. 4, NEW k \in Index, Same(l), ~(l = lv /\ Reached(w, l) = t /\ k = x)
        PROVE  BelowNext(Reached(w, l)', k) = Below(Reached(w, l), k)
    <3> DEFINE s == Reached(w, l)
               r == Reached(w, l)'
    <3>1. s \in TablesAt(l) \cup {NoFrame}
      BY ReachedIsTable
    <3>2. s # NoFrame => s \in Frames /\ s # p /\ (s = t => l = lv)
      BY <1>2, <1>11, <3>1
    <3>3. (r = s \/ (s = NoFrame /\ r = p)) /\ ~(l = lv /\ s = t /\ k = x)
      BY <2>1
    <3> SUFFICES BelowNext(r, k) = Below(s, k)
      OBVIOUS
    <3> HIDE DEF s, r
    <3>4. CASE r = s
      <4>1. s # NoFrame => ptab'[s][k] = ptab[s][k]
        BY <1>9, <3>2, <3>3
      <4> QED BY <3>4, <4>1
    <3>5. CASE s = NoFrame /\ r = p
      BY <1>10, <3>5
    <3> QED BY <3>3, <3>4, <3>5
  <2>2. ASSUME NEW l \in 2 .. 4, Same(l) PROVE Same(l - 1)
    <3> DEFINE k == IndexAt(w, l)
               s == Reached(w, l)
               r == Reached(w, l)'
    <3>1. k \in Index /\ l \in 1 .. 4
      BY <1>1, Indices
    <3>2. Reached(w, l - 1)' = BelowNext(r, k) /\ Reached(w, l - 1) = Below(s, k)
      BY NextReached DEF IndexAt, vmm_get_existing_level
    <3>3. CASE ~(l = lv /\ s = t /\ k = x)
      <4>1. BelowNext(r, k) = Below(s, k)
        <5> HIDE DEF Same, Below, BelowNext
        <5> QED BY <2>1, <2>2, <3>1, <3>3
      <4> QED BY <3>2, <4>1
    <3>4. CASE l = lv /\ s = t /\ k = x
      <4>1. r = t
        BY <1>3, <2>2, <3>4, VmmAssumption
      <4>2. ptab'[t][x] = Entry(p, TRUE)
        BY <1>3, <1>9
      <4>3. Reached(w, l - 1) = NoFrame
        BY <1>12, <3>2, <3>4
      <4>4. Reached(w, l - 1)' = p
        <5>1. t # NoFrame
          BY <1>3, VmmAssumption
        <5> QED BY <3>2, <3>4, <4>1, <4>2, <5>1 DEF Entry
      <4> QED BY <3>4, <4>3, <4>4
    <3> QED BY <3>3, <3>4
  <2>3. Same(4)
    BY ReachedLevels, ReachedLevelsNext
  <2> HIDE DEF Same
  <2>4. Same(3)
    BY <2>2, <2>3
  <2>5. Same(2)
    BY <2>2, <2>4
  <2>6. Same(1)
    BY <2>2, <2>5
  <2>7. Reached(w, lv)' = Reached(w, lv)
    <3>1. lv = 2 \/ lv = 3 \/ lv = 4
      OBVIOUS
    <3> QED BY <2>3, <2>4, <2>5, <3>1 DEF Same
  <2>8. vmm_get_phys(w)' = vmm_get_phys(w)
    <3>1. w[4] \in Index /\ 1 # lv /\ 1 \in 1 .. 4
      BY Indices
    <3>2. BelowNext(Reached(w, 1)', w[4]) = Below(Reached(w, 1), w[4])
      <4> HIDE DEF Below, BelowNext
      <4> QED BY <2>1, <2>6, <3>1
    <3>3. vmm_get_phys(w) = Below(Reached(w, 1), w[4])
      BY ReachedLevels DEF vmm_get_existing_level
    <3>4. vmm_get_phys(w)' = BelowNext(Reached(w, 1)', w[4])
      BY ReachedLevelsNext DEF vmm_get_existing_level
    <3> QED BY <3>2, <3>3, <3>4
  <2> QED BY <2>7, <2>8
<1>18. Reached(v, lv - 1)' = p
  <2>1. Reached(v, lv - 1)' =
          IF Reached(v, lv)' = NoFrame \/ ~ptab'[Reached(v, lv)'][x].present THEN NoFrame
          ELSE ptab'[Reached(v, lv)'][x].frame
    BY NextReached DEF x, IndexAt, vmm_get_existing_level
  <2>2. Reached(v, lv)' = t /\ t # NoFrame
    BY <1>17 DEF t, MakesTable
  <2>3. ptab'[t][x] = Entry(p, TRUE)
    BY <1>3, <1>9
  <2> QED BY <2>1, <2>2, <2>3 DEF Entry
<1> QED BY <1>8, <1>13, <1>15, <1>16, <1>17, <1>18

------------------------------------------------------------------------------
(* The steps.                                                              *)

LEMMA TablesMembers == \A f : f \in Tables <=> \E l \in 1 .. 4 : f \in TablesAt(l)
BY DEF Tables

LEMMA InitIndInv == Init => IndInv
<1> SUFFICES ASSUME Init PROVE IndInv
  OBVIOUS
<1> DEFINE RootTable == [ZeroTable EXCEPT ![BootIndex] = Entry(Boot, TRUE)]
<1>1. /\ ptab = [ f \in Frames |-> IF f = Root THEN RootTable
                                   ELSE IF f = Boot THEN ZeroTable ELSE Garbage(f) ]
      /\ free = Pool /\ held = {} /\ data = {} /\ pc = "idle"
      /\ tlb = [v \in VAddrs |-> NoFrame]
      /\ virt_addr = <<>> /\ phys_addr = NoFrame /\ present = FALSE
      /\ table = NoFrame /\ level = 0 /\ old_frame = NoFrame
  BY DEF Init
<1>2. Root \in Frames /\ Boot \in Frames /\ Root # Boot /\ NoFrame \notin Frames /\ BootIndex \in Index
  BY VmmAssumption DEF Frames
<1>3. /\ ZeroTable \in [Index -> [frame : Frames \cup {NoFrame}, present : BOOLEAN]]
      /\ \A i \in Index : ~ZeroTable[i].present /\ \A f : ZeroTable[i] # Entry(f, TRUE)
  BY DEF ZeroTable, ZeroEntry, Entry
<1>4. /\ RootTable \in [Index -> [frame : Frames \cup {NoFrame}, present : BOOLEAN]]
      /\ \A i \in Index : RootTable[i] = IF i = BootIndex THEN Entry(Boot, TRUE) ELSE ZeroTable[i]
  <2>1. Entry(Boot, TRUE) \in [frame : Frames \cup {NoFrame}, present : BOOLEAN]
    BY <1>2 DEF Entry
  <2> QED BY <1>2, <1>3, <2>1
<1>5. \A f \in Frames : /\ Garbage(f) \in [Index -> [frame : Frames \cup {NoFrame}, present : BOOLEAN]]
                        /\ \A i \in Index : Garbage(f)[i].frame = f
  BY DEF Garbage, Entry
<1> HIDE DEF RootTable
<1>6. Typed
  <2>1. ptab \in [Frames -> [Index -> [frame : Frames \cup {NoFrame}, present : BOOLEAN]]]
    BY <1>1, <1>3, <1>4, <1>5
  <2>2. ASSUME NEW f \in Frames, NEW i \in Index, ptab[f][i].present
        PROVE  ptab[f][i].frame \in Frames
    <3>1. CASE f = Root
      <4>1. ptab[f][i] = RootTable[i]
        BY <1>1, <3>1
      <4>2. i = BootIndex /\ ptab[f][i] = Entry(Boot, TRUE)
        BY <1>3, <1>4, <2>2, <4>1
      <4> QED BY <1>2, <4>2 DEF Entry
    <3>2. CASE f = Boot
      BY <1>1, <1>2, <1>3, <2>2, <3>2
    <3>3. CASE f # Root /\ f # Boot
      BY <1>1, <1>5, <3>3
    <3> QED BY <3>1, <3>2, <3>3
  <2>3. TypeOK
    <3>1. tlb \in [VAddrs -> Frames \cup {NoFrame}] /\ free \subseteq Pool
      BY <1>1
    <3>2. held \subseteq Pool /\ free \cap held = {} /\ data \subseteq Pool /\ pc \in Calls
      BY <1>1 DEF Calls
    <3>3. /\ virt_addr \in VAddrs \cup {<<>>} /\ phys_addr \in Frames \cup {NoFrame}
          /\ table \in Frames \cup {NoFrame} /\ old_frame \in Frames \cup {NoFrame}
      BY <1>1
    <3>4. present \in BOOLEAN
      BY <1>1, Zenon
    <3>5. level = 0
      BY <1>1
    <3> QED BY <2>1, <3>1, <3>2, <3>3, <3>4, <3>5 DEF TypeOK
  <2> QED BY <2>2, <2>3 DEF Typed
<1>7. ptab[Root] = RootTable /\ ptab[Boot] = ZeroTable
  BY <1>1, <1>2
<1>8. TablesAt(4) = {Root} /\ TablesAt(3) = {Boot} /\ TablesAt(2) = {} /\ TablesAt(1) = {}
  <2>1. \A f, g : Entry(f, TRUE) = Entry(g, TRUE) => f = g
    BY DEF Entry
  <2>2. Children({Root}) = {Boot}
    <3>1. ASSUME NEW f, NEW i \in Index, RootTable[i] = Entry(f, TRUE) PROVE f = Boot
      BY <1>3, <1>4, <2>1, <3>1
    <3>2. RootTable[BootIndex] = Entry(Boot, TRUE)
      BY <1>2, <1>4
    <3> QED BY <1>2, <1>7, <3>1, <3>2 DEF Children
  <2>3. Children({Boot}) = {}
    BY <1>3, <1>7 DEF Children
  <2>4. Children({}) = {}
    BY DEF Children
  <2> QED BY <2>2, <2>3, <2>4, Levels
<1>9. \A l \in 1 .. 4 : l = 1 \/ l = 2 \/ l = 3 \/ l = 4
  OBVIOUS
<1>10. Tables = {Root, Boot}
  BY <1>8, <1>9, TablesMembers
<1>11. Tree
  <2>1. \A l, m \in 1 .. 4 : l # m => TablesAt(l) \cap TablesAt(m) = {}
    BY <1>2, <1>8, <1>9
  <2>2. ASSUME NEW l \in 2 .. 4, NEW s \in TablesAt(l), NEW t \in TablesAt(l), NEW i \in Index, NEW j \in Index,
               ptab[s][i].present, ptab[s][i] = ptab[t][j]
        PROVE  s = t /\ i = j
    <3>1. l = 2 \/ l = 3 \/ l = 4
      OBVIOUS
    <3>2. CASE s = Boot
      BY <1>3, <1>7, <2>2, <3>2
    <3>3. CASE s = Root /\ t = Root
      <4>1. i = BootIndex /\ j = BootIndex
        BY <1>3, <1>4, <1>7, <2>2, <3>3
      <4> QED BY <3>3, <4>1
    <3> QED BY <1>8, <3>1, <3>2, <3>3
  <2>3. \A l \in 2 .. 4 : \A s, t \in TablesAt(l), i, j \in Index :
          ptab[s][i].present /\ ptab[s][i] = ptab[t][j] => s = t /\ i = j
    BY <2>2
  <2> QED BY <2>1, <2>3 DEF Tree
<1>12. Owned
  BY <1>1, <1>10, VmmAssumption DEF Owned, NoPageLost
<1>13. \A v \in VAddrs : vmm_get_phys(v) = NoFrame
  <2> SUFFICES ASSUME NEW v \in VAddrs PROVE vmm_get_phys(v) = NoFrame
    OBVIOUS
  <2>1. Reached(v, 1) = NoFrame
    BY <1>6, <1>8, ReachedIsTable
  <2> QED BY <2>1, ReachedLevels DEF vmm_get_existing_level
<1>14. Mappings
  BY <1>1, <1>13 DEF Mappings
<1>15. InCall
  BY <1>1 DEF InCall
<1>16. Cached
  BY <1>1 DEF Cached
<1> QED BY <1>6, <1>11, <1>12, <1>14, <1>15, <1>16 DEF IndInv

(* While no table is written, every table and translation stays as it is. *)
LEMMA TablesUnchanged ==
  ASSUME UNCHANGED ptab
  PROVE  /\ Tables' = Tables
         /\ Tree => Tree'
         /\ \A v \in VAddrs : vmm_get_phys(v)' = vmm_get_phys(v)
         /\ \A v \in VAddrs, l \in 1 .. 4 : Reached(v, l)' = Reached(v, l)
         /\ \A f : IsMapped(f)' <=> IsMapped(f)
<1>1. \A l \in 1 .. 4 : TablesAt(l)' = TablesAt(l)
  BY DEF TablesAt, Children, Entry
<1>2. Tables' = Tables
  BY <1>1 DEF Tables
<1>3. Tree => Tree'
  <2>1. \A l \in 2 .. 4 : l \in 1 .. 4
    OBVIOUS
  <2> QED BY <1>1, <2>1 DEF Tree
<1>4. \A v \in VAddrs : vmm_get_phys(v)' = vmm_get_phys(v)
  BY DEF vmm_get_phys, PageTable, vmm_get_existing_level
<1>5. \A v \in VAddrs, l \in 1 .. 4 : Reached(v, l)' = Reached(v, l)
  BY DEF Reached, PageTable, vmm_get_existing_level
<1>6. \A f : IsMapped(f)' <=> IsMapped(f)
  BY <1>4 DEF IsMapped
<1> QED BY <1>2, <1>3, <1>4, <1>5, <1>6

(* Callers' pages, tables and the pool are apart. *)
LEMMA Apart ==
  ASSUME IndInv
  PROVE  /\ NoFrame \notin Frames /\ Pool \cap Mmio = {} /\ Pool \subseteq Frames /\ Mmio \subseteq Frames
         /\ data \subseteq held /\ free \cap held = {} /\ data \subseteq Pool /\ free \subseteq Pool
         /\ Tables \cap (free \cup data \cup Mmio) = {}
         /\ held = data \cup (Tables \cap Pool)
BY VmmAssumption DEF Frames, IndInv, Typed, TypeOK, Owned, NoPageLost

(* A caller takes a page. *)
LEMMA TakePageIndInv == IndInv /\ TakePage => IndInv'
<1> SUFFICES ASSUME IndInv, TakePage PROVE IndInv'
  OBVIOUS
<1>1. PICK p \in free : free' = free \ {p} /\ held' = held \cup {p} /\ data' = data \cup {p}
  BY DEF TakePage, buddy_alloc_page
<1>2. pc = "idle" /\ UNCHANGED <<ptab, tlb, pc, call>>
  BY DEF TakePage
<1>3. p \in Pool /\ p \notin held /\ p \notin Tables
  BY <1>1, Apart
<1>4. /\ Tables' = Tables /\ \A v \in VAddrs : vmm_get_phys(v)' = vmm_get_phys(v)
      /\ Tree'
  BY <1>2, TablesUnchanged DEF IndInv
<1>5. Typed'
  BY <1>1, <1>2, <1>3 DEF IndInv, Typed, TypeOK, call
<1>6. Owned'
  BY <1>1, <1>3, <1>4, Apart DEF Owned, NoPageLost
<1>7. \A v \in VAddrs : vmm_get_phys(v) # p
  BY <1>3, Apart, VmmAssumption DEF IndInv, Mappings, Mappable
<1>8. Mappings'
  BY <1>1, <1>4, <1>7 DEF IndInv, Mappings, Mappable
<1>9. InCall'
  BY <1>2 DEF InCall
<1>10. Cached'
  BY <1>1, <1>2, <1>4 DEF IndInv, Cached, Mappable, Flushing
<1> QED BY <1>4, <1>5, <1>6, <1>8, <1>9, <1>10 DEF IndInv

(* A caller gives back a page that is not mapped. *)
LEMMA DropPageIndInv == IndInv /\ DropPage => IndInv'
<1> SUFFICES ASSUME IndInv, DropPage PROVE IndInv'
  OBVIOUS
<1>1. PICK f \in data : ~IsMapped(f) /\ buddy_free_page(f) /\ data' = data \ {f}
  BY DEF DropPage
<1>2. pc = "idle" /\ UNCHANGED <<ptab, tlb, pc, call>>
  BY DEF DropPage
<1>3. f \in Pool /\ f \in held /\ f \notin Tables /\ free' = free \cup {f} /\ held' = held \ {f}
  BY <1>1, Apart DEF buddy_free_page
<1>4. /\ Tables' = Tables /\ \A v \in VAddrs : vmm_get_phys(v)' = vmm_get_phys(v)
      /\ Tree'
  BY <1>2, TablesUnchanged DEF IndInv
<1>5. Typed'
  BY <1>1, <1>2, <1>3 DEF IndInv, Typed, TypeOK, call
<1>6. Owned'
  BY <1>1, <1>3, <1>4, Apart DEF Owned, NoPageLost
<1>7. \A v \in VAddrs : vmm_get_phys(v) # f
  BY <1>1 DEF IsMapped
<1>8. Mappings'
  BY <1>1, <1>4, <1>7 DEF IndInv, Mappings, Mappable
<1>9. InCall'
  BY <1>2 DEF InCall
<1>10. Cached'
  <2>1. ASSUME NEW v \in VAddrs PROVE tlb[v] # f /\ tlb[v] \in {NoFrame, vmm_get_phys(v)}
    <3>1. tlb[v] \in {NoFrame, vmm_get_phys(v)}
      BY <1>2 DEF IndInv, Cached, Flushing
    <3>2. f # NoFrame
      BY <1>3, Apart
    <3> QED BY <1>7, <3>1, <3>2
  <2> QED BY <1>1, <1>2, <1>4, <2>1 DEF IndInv, Cached, Mappable
<1> QED BY <1>4, <1>5, <1>6, <1>8, <1>9, <1>10 DEF IndInv

(* Steps that leave the pages and the tables alone. *)
LEMMA PagesUnchanged ==
  ASSUME IndInv, UNCHANGED <<alloc, data, ptab>>
  PROVE  /\ Tree' /\ Owned' /\ Mappings'
         /\ \A v \in VAddrs : vmm_get_phys(v)' = vmm_get_phys(v)
         /\ \A v \in VAddrs, l \in 1 .. 4 : Reached(v, l)' = Reached(v, l)
<1>1. /\ Tables' = Tables /\ \A v \in VAddrs : vmm_get_phys(v)' = vmm_get_phys(v)
      /\ Tree' /\ \A v \in VAddrs, l \in 1 .. 4 : Reached(v, l)' = Reached(v, l)
  BY TablesUnchanged DEF IndInv
<1>2. Owned'
  BY <1>1 DEF IndInv, Owned, NoPageLost, alloc
<1>3. Mappings'
  BY <1>1 DEF IndInv, Mappings, Mappable
<1> QED BY <1>1, <1>2, <1>3

(* The processor walks the tables, or forgets. *)
LEMMA TlbIndInv ==
  ASSUME IndInv, NEW v \in VAddrs, FillTlb(v) \/ EvictTlb(v)
  PROVE  IndInv'
<1>1. UNCHANGED <<alloc, data, ptab, pc, call>>
  BY DEF FillTlb, EvictTlb
<1>2. \E f \in {NoFrame, vmm_get_phys(v)} : tlb' = [tlb EXCEPT ![v] = f]
  BY DEF FillTlb, EvictTlb
<1>3. /\ Tree' /\ Owned' /\ Mappings' /\ \A w \in VAddrs : vmm_get_phys(w)' = vmm_get_phys(w)
      /\ \A w \in VAddrs, l \in 1 .. 4 : Reached(w, l)' = Reached(w, l)
  BY <1>1, PagesUnchanged
<1>4. tlb \in [VAddrs -> Frames \cup {NoFrame}] /\ vmm_get_phys(v) \in {NoFrame} \cup Mappable
  BY DEF IndInv, Typed, TypeOK, Mappings
<1>5. /\ tlb' \in [VAddrs -> Frames \cup {NoFrame}]
      /\ \A w \in VAddrs : tlb'[w] = tlb[w] \/ (w = v /\ tlb'[w] \in {NoFrame, vmm_get_phys(v)})
  BY <1>2, <1>4, Apart DEF Mappable
<1>6. Typed'
  BY <1>1, <1>5 DEF IndInv, Typed, TypeOK, alloc, call
<1>7. InCall'
  BY <1>1, <1>3 DEF IndInv, InCall, Unmapped, Mappable, IsMapped, call
<1>8. Cached'
  BY <1>1, <1>3, <1>4, <1>5 DEF IndInv, Cached, Mappable, Flushing, call
<1> QED BY <1>3, <1>6, <1>7, <1>8 DEF IndInv

(* vmm_map begins, at the root. *)
LEMMA MapIndInv ==
  ASSUME IndInv, NEW v \in VAddrs, NEW f \in Pool \cup Mmio, NEW p \in BOOLEAN, vmm_map(v, f, p)
  PROVE  IndInv'
<1>1. /\ pc = "idle" /\ (f \in Mmio \/ (f \in data /\ ~IsMapped(f)))
      /\ pc' = "map" /\ virt_addr' = v /\ phys_addr' = f /\ present' = p
      /\ table' = Root /\ level' = 4 /\ UNCHANGED <<alloc, data, ptab, tlb, old_frame>>
  BY DEF vmm_map
<1>2. /\ Tree' /\ Owned' /\ Mappings' /\ \A w \in VAddrs : vmm_get_phys(w)' = vmm_get_phys(w)
      /\ \A w \in VAddrs, l \in 1 .. 4 : Reached(w, l)' = Reached(w, l)
  BY <1>1, PagesUnchanged
<1>3. Root \in Frames /\ Root # NoFrame /\ f \in Frames
  BY VmmAssumption DEF Frames
<1>4. Typed'
  BY <1>1, <1>3 DEF IndInv, Typed, TypeOK, alloc, Calls
<1>5. InCall'
  <2>1. \A w \in VAddrs, l \in 1 .. 4 : l = 4 => Reached(w, l)' = Root
    BY ReachedLevelsNext
  <2>2. f \in Mmio => f \notin data
    BY Apart
  <2> QED BY <1>1, <1>2, <1>3, <2>1, <2>2 DEF InCall, Unmapped, Mappable, IsMapped
<1>6. Cached'
  BY <1>1, <1>2 DEF IndInv, Cached, Mappable, Flushing
<1> QED BY <1>2, <1>4, <1>5, <1>6 DEF IndInv

(* The address and the level vmm_map is at, as constants of a step. *)
LEMMA Descending ==
  ASSUME IndInv, pc = "map"
  PROVE  \E v \in VAddrs, l \in 1 .. 4 : v = virt_addr /\ l = level /\ table = Reached(v, l) /\ table # NoFrame
BY DEF IndInv, InCall

(* vmm_map finds the next table. *)
LEMMA DescendExistingIndInv == IndInv /\ DescendExisting => IndInv'
<1> SUFFICES ASSUME IndInv, DescendExisting PROVE IndInv'
  OBVIOUS
<1>1. /\ pc = "map" /\ level > 1 /\ ptab[table][IndexAt(virt_addr, level)].present
      /\ table' = ptab[table][IndexAt(virt_addr, level)].frame /\ level' = level - 1
      /\ UNCHANGED <<alloc, data, ptab, tlb, pc, virt_addr, phys_addr, present, old_frame>>
  BY DEF DescendExisting
<1>2. PICK v \in VAddrs, l \in 1 .. 4 :
        v = virt_addr /\ l = level /\ table = Reached(v, l) /\ table # NoFrame
  BY <1>1, Descending
<1>3. l \in 2 .. 4 /\ IndexAt(v, l) = IndexAt(virt_addr, level)
  BY <1>1, <1>2
<1>4. /\ Tree' /\ Owned' /\ Mappings' /\ \A w \in VAddrs : vmm_get_phys(w)' = vmm_get_phys(w)
      /\ \A w \in VAddrs, m \in 1 .. 4 : Reached(w, m)' = Reached(w, m)
  BY <1>1, PagesUnchanged
<1>5. table' = Reached(v, l - 1) /\ table' \in Frames /\ l - 1 \in 1 .. 4
  <2>1. table \in TablesAt(l) /\ IndexAt(v, l) \in Index
    BY <1>2, ReachedIsTable, Indices DEF IndInv
  <2>2. table' \in TablesAt(l - 1) /\ l - 1 \in 1 .. 3
    BY <1>1, <1>3, <2>1, EntryLeadsDown, NextLevel DEF IndInv
  <2>3. Reached(v, l - 1) = vmm_get_existing_level(table, IndexAt(v, l))
    BY <1>2, <1>3, NextReached
  <2>4. Reached(v, l - 1) = table'
    BY <1>1, <1>2, <1>3, <2>3 DEF vmm_get_existing_level
  <2>5. l - 1 \in 1 .. 4
    BY <2>2
  <2> QED BY <2>2, <2>4, <2>5, TablesAreFrames
<1>6. Typed'
  BY <1>1, <1>2, <1>5 DEF IndInv, Typed, TypeOK, alloc
<1>7. InCall'
  <2>1. table' # NoFrame
    BY <1>5, Apart
  <2>2. \A w \in VAddrs, m \in 1 .. 4 : w = virt_addr' /\ m = level' => table' = Reached(w, m)'
    BY <1>1, <1>2, <1>4, <1>5
  <2> QED BY <1>1, <1>2, <1>4, <1>5, <2>1, <2>2 DEF IndInv, InCall, Unmapped, Mappable, IsMapped
<1>8. Cached'
  BY <1>1, <1>4 DEF IndInv, Cached, Mappable, Flushing
<1> QED BY <1>4, <1>6, <1>7, <1>8 DEF IndInv

(* vmm_map makes the next table; also, no translation changes. *)
LEMMA DescendNewIndInv ==
  ASSUME IndInv, DescendNew
  PROVE  IndInv' /\ \A w \in VAddrs : vmm_get_phys(w)' = vmm_get_phys(w)
<1>1. /\ pc = "map" /\ level > 1 /\ ~ptab[table][IndexAt(virt_addr, level)].present
      /\ level' = level - 1
      /\ UNCHANGED <<data, tlb, pc, virt_addr, phys_addr, present, old_frame>>
  BY DEF DescendNew
<1>2. PICK p \in free :
        /\ free' = free \ {p} /\ held' = held \cup {p} /\ table' = p
        /\ ptab' = [Make_Page(ptab, p) EXCEPT ![table][IndexAt(virt_addr, level)] = Entry(p, TRUE)]
  BY DEF DescendNew, buddy_alloc_page
<1>3. PICK v \in VAddrs, l \in 1 .. 4 :
        v = virt_addr /\ l = level /\ table = Reached(v, l) /\ table # NoFrame
  BY <1>1, Descending
<1>4. l \in 2 .. 4 /\ l - 1 \in 1 .. 4 /\ IndexAt(v, l) = IndexAt(virt_addr, level)
  BY <1>1, <1>3
<1>5. p \in Pool /\ p \notin Tables /\ p \notin data /\ p \notin held /\ p \notin Mmio /\ p \in Frames /\ p # NoFrame
  BY <1>2, Apart
<1>6. MakesTable(Reached(v, l), IndexAt(v, l), p)
  BY <1>1, <1>2, <1>3, <1>4 DEF MakesTable
<1>7. /\ \A m \in 1 .. 4 : TablesAt(m)' = TablesAt(m) \cup (IF m = l - 1 THEN {p} ELSE {})
      /\ Tree'
      /\ Reached(v, l - 1)' = p
      /\ \A w \in VAddrs : vmm_get_phys(w)' = vmm_get_phys(w)
      /\ ptab' \in [Frames -> [Index -> [frame : Frames \cup {NoFrame}, present : BOOLEAN]]]
      /\ \A f \in Frames, i \in Index : ptab'[f][i].present => ptab'[f][i].frame \in Frames
  BY <1>4, <1>5, <1>6, TableMade DEF IndInv
<1>8. Tables' = Tables \cup {p}
  BY <1>4, <1>7 DEF Tables
<1>9. Typed'
  <2>1. level' \in 0 .. 4 /\ free' \subseteq Pool /\ held' \subseteq Pool /\ free' \cap held' = {}
    BY <1>1, <1>2, <1>3, <1>4, <1>5 DEF IndInv, Typed, TypeOK
  <2>2. TypeOK'
    BY <1>1, <1>2, <1>5, <1>7, <2>1 DEF IndInv, Typed, TypeOK
  <2> QED BY <1>7, <2>2 DEF Typed
<1>10. Owned'
  BY <1>1, <1>2, <1>5, <1>8, Apart DEF Owned, NoPageLost
<1>11. Mappings'
  BY <1>1, <1>7 DEF IndInv, Mappings, Mappable
<1>12. InCall'
  <2>1. \A w \in VAddrs, m \in 1 .. 4 : w = virt_addr' /\ m = level' => table' = Reached(w, m)'
    BY <1>1, <1>2, <1>3, <1>7
  <2>2. level' \in 1 .. 4 /\ table' # NoFrame
    BY <1>1, <1>2, <1>3, <1>4, <1>5
  <2> QED BY <1>1, <1>7, <2>1, <2>2 DEF IndInv, InCall, Unmapped, Mappable, IsMapped
<1>13. Cached'
  BY <1>1, <1>7 DEF IndInv, Cached, Mappable, Flushing
<1> QED BY <1>7, <1>9, <1>10, <1>11, <1>12, <1>13 DEF IndInv

(* A call is over: nothing is left of its arguments. *)
LEMMA ReturnTypes ==
  ASSUME Return
  PROVE  /\ pc' = "idle" /\ virt_addr' = <<>> /\ phys_addr' = NoFrame /\ present' \in BOOLEAN
         /\ table' = NoFrame /\ level' \in 0 .. 4 /\ old_frame' = NoFrame
<1>1. present' \in BOOLEAN
  BY Zenon DEF Return
<1>2. level' = 0
  BY Zenon DEF Return
<1> QED BY <1>1, <1>2 DEF Return

(* vmm_map finds no page for the next table. *)
LEMMA MapFailsIndInv == IndInv /\ MapFails => IndInv'
<1> SUFFICES ASSUME IndInv, MapFails PROVE IndInv'
  OBVIOUS
<1>1. pc = "map" /\ Return /\ UNCHANGED <<alloc, data, ptab, tlb>>
  BY DEF MapFails
<1>2. /\ Tree' /\ Owned' /\ Mappings' /\ \A w \in VAddrs : vmm_get_phys(w)' = vmm_get_phys(w)
  BY <1>1, PagesUnchanged
<1>3. Typed'
  BY <1>1, ReturnTypes DEF IndInv, Typed, TypeOK, alloc, Calls
<1>4. InCall'
  BY <1>1, ReturnTypes DEF InCall
<1>5. Cached'
  BY <1>1, <1>2, ReturnTypes DEF IndInv, Cached, Mappable, Flushing
<1> QED BY <1>2, <1>3, <1>4, <1>5 DEF IndInv

(* invlpg drops what was outdated. *)
LEMMA TranslationDropped ==
  ASSUME IndInv, UNCHANGED <<alloc, data, ptab>>, pc # "idle", invlpg_tlb(virt_addr)
  PROVE  /\ tlb' \in [VAddrs -> Frames \cup {NoFrame}]
         /\ \A v \in VAddrs : /\ tlb'[v] \in {NoFrame} \cup Mappable
                              /\ tlb'[v] \in {NoFrame, vmm_get_phys(v)}
<1>1. tlb \in [VAddrs -> Frames \cup {NoFrame}] /\ virt_addr \in VAddrs
  BY DEF IndInv, Typed, TypeOK, InCall
<1>2. /\ tlb' \in [VAddrs -> Frames \cup {NoFrame}]
      /\ \A v \in VAddrs : tlb'[v] = IF v = virt_addr THEN NoFrame ELSE tlb[v]
  BY <1>1 DEF invlpg_tlb
<1> QED BY <1>2 DEF IndInv, Cached, Flushing

(* vmm_map returns. *)
LEMMA MapReturnIndInv == IndInv /\ MapReturn => IndInv'
<1> SUFFICES ASSUME IndInv, MapReturn PROVE IndInv'
  OBVIOUS
<1>1. pc = "map_flush" /\ invlpg_tlb(virt_addr) /\ Return /\ UNCHANGED <<alloc, data, ptab>>
  BY DEF MapReturn
<1>2. /\ Tree' /\ Owned' /\ Mappings' /\ \A w \in VAddrs : vmm_get_phys(w)' = vmm_get_phys(w)
  BY <1>1, PagesUnchanged
<1>3. /\ tlb' \in [VAddrs -> Frames \cup {NoFrame}]
      /\ \A v \in VAddrs : tlb'[v] \in {NoFrame} \cup Mappable /\ tlb'[v] \in {NoFrame, vmm_get_phys(v)}
  BY <1>1, TranslationDropped
<1>4. Typed'
  BY <1>1, <1>3, ReturnTypes DEF IndInv, Typed, TypeOK, alloc, Calls
<1>5. InCall'
  BY <1>1, ReturnTypes DEF InCall
<1>6. Cached'
  BY <1>1, <1>2, <1>3 DEF Cached, Mappable
<1> QED BY <1>2, <1>4, <1>5, <1>6 DEF IndInv

(* vmm_unmap flushes. *)
LEMMA UnmapFlushIndInv == IndInv /\ UnmapFlush => IndInv'
<1> SUFFICES ASSUME IndInv, UnmapFlush PROVE IndInv'
  OBVIOUS
<1>1. /\ pc = "unmap_flush" /\ invlpg_tlb(virt_addr) /\ pc' = "unmap_free"
      /\ UNCHANGED <<alloc, data, ptab, call>>
  BY DEF UnmapFlush
<1>2. /\ Tree' /\ Owned' /\ Mappings' /\ \A w \in VAddrs : vmm_get_phys(w)' = vmm_get_phys(w)
  BY <1>1, PagesUnchanged
<1>3. /\ tlb' \in [VAddrs -> Frames \cup {NoFrame}]
      /\ \A v \in VAddrs : tlb'[v] \in {NoFrame} \cup Mappable /\ tlb'[v] \in {NoFrame, vmm_get_phys(v)}
  BY <1>1, TranslationDropped
<1>4. Typed'
  BY <1>1, <1>3 DEF IndInv, Typed, TypeOK, alloc, call, Calls
<1>5. InCall'
  BY <1>1, <1>2 DEF IndInv, InCall, Unmapped, Mappable, IsMapped, call
<1>6. Cached'
  BY <1>1, <1>2, <1>3 DEF Cached, Mappable
<1> QED BY <1>2, <1>4, <1>5, <1>6 DEF IndInv

(* vmm_unmap releases the page and returns. *)
LEMMA UnmapReturnIndInv == IndInv /\ UnmapReturn => IndInv'
<1> SUFFICES ASSUME IndInv, UnmapReturn PROVE IndInv'
  OBVIOUS
<1> DEFINE f == old_frame
<1>1. /\ pc = "unmap_free" /\ data' = data \ {f} /\ Return /\ UNCHANGED <<ptab, tlb>>
      /\ free' = (IF f \in held THEN free \cup {f} ELSE free) /\ held' = held \ {f}
  BY DEF UnmapReturn, buddy_free_page
<1>2. /\ Tables' = Tables /\ \A v \in VAddrs : vmm_get_phys(v)' = vmm_get_phys(v)
      /\ Tree'
  BY <1>1, TablesUnchanged DEF IndInv
<1>3. f \in Mmio \cup data /\ (f \in data => ~IsMapped(f))
  BY <1>1 DEF IndInv, InCall, Unmapped, Mappable
<1>4. f \notin Tables /\ (f \in held => f \in data)
  BY <1>3, Apart
<1>5. Typed'
  BY <1>1, ReturnTypes DEF IndInv, Typed, TypeOK, Calls
<1>6. Owned'
  BY <1>1, <1>2, <1>4, Apart DEF Owned, NoPageLost
<1>7. \A v \in VAddrs : vmm_get_phys(v) \in {NoFrame} \cup Mmio \cup (data \ {f})
  BY <1>3 DEF IndInv, Mappings, Mappable, IsMapped
<1>8. Mappings'
  BY <1>1, <1>2, <1>7 DEF IndInv, Mappings, Mappable
<1>9. InCall'
  BY <1>1, ReturnTypes DEF InCall
<1>10. Cached'
  <2>1. \A v \in VAddrs : tlb[v] \in {NoFrame, vmm_get_phys(v)}
    BY <1>1 DEF IndInv, Cached, Flushing
  <2> QED BY <1>1, <1>2, <1>7, <2>1 DEF Cached, Mappable
<1> QED BY <1>2, <1>5, <1>6, <1>8, <1>9, <1>10 DEF IndInv

(* vmm_map stores the entry; one translation changes. *)
LEMMA StoreEntryIndInv ==
  ASSUME IndInv, StoreEntry
  PROVE  IndInv' /\ \A w \in VAddrs : w # virt_addr => vmm_get_phys(w)' = vmm_get_phys(w)
<1> DEFINE e == Entry(phys_addr, present)
<1>1. /\ pc = "map" /\ level = 1 /\ pc' = "map_flush" /\ UNCHANGED <<alloc, data, tlb, call>>
      /\ ptab' = [ptab EXCEPT ![table][IndexAt(virt_addr, 1)] = e]
  BY DEF StoreEntry
<1>2. PICK v \in VAddrs, l \in 1 .. 4 :
        v = virt_addr /\ l = level /\ table = Reached(v, l) /\ table # NoFrame
  BY <1>1, Descending
<1>3. PageTable(v) = table /\ IndexAt(virt_addr, 1) = v[4]
  BY <1>1, <1>2, ReachedLevels DEF IndexAt
<1>4. Unmapped(phys_addr) /\ phys_addr \in Frames /\ phys_addr # NoFrame /\ present \in BOOLEAN
  BY <1>1, Apart DEF IndInv, InCall, Unmapped, Mappable, Typed, TypeOK
<1>5. PICK x : x = e
  OBVIOUS
<1>6. /\ x \in [frame : Frames \cup {NoFrame}, present : BOOLEAN]
      /\ x.frame = phys_addr /\ x.present = present
  BY <1>4, <1>5 DEF Entry
<1>7. ptab' = [ptab EXCEPT ![PageTable(v)][v[4]] = x]
  BY <1>1, <1>3, <1>5
<1> HIDE DEF e
<1>8. /\ \A m \in 1 .. 4 : TablesAt(m)' = TablesAt(m)
      /\ Tree'
      /\ \A w \in VAddrs : vmm_get_phys(w)' = IF w = v THEN IF x.present THEN x.frame ELSE NoFrame
                                             ELSE vmm_get_phys(w)
      /\ ptab' \in [Frames -> [Index -> [frame : Frames \cup {NoFrame}, present : BOOLEAN]]]
      /\ \A f \in Frames, i \in Index : ptab'[f][i].present => ptab'[f][i].frame \in Frames
  BY <1>2, <1>3, <1>4, <1>6, <1>7, LeafWritten DEF IndInv
<1>9. /\ \A w \in VAddrs : w # v => vmm_get_phys(w)' = vmm_get_phys(w)
      /\ vmm_get_phys(v)' \in {NoFrame, phys_addr}
  BY <1>6, <1>8
<1>10. Typed'
  <2>1. TypeOK'
    BY <1>1, <1>8 DEF IndInv, Typed, TypeOK, alloc, call, Calls
  <2> QED BY <1>8, <2>1 DEF Typed
<1>11. Tables' = Tables
  BY <1>8 DEF Tables
<1>12. Owned'
  BY <1>1, <1>11 DEF IndInv, Owned, NoPageLost, alloc
<1>13. Mappings'
  <2>1. data' = data
    BY <1>1
  <2>2. phys_addr \in Mappable /\ (phys_addr \in data => \A w \in VAddrs : vmm_get_phys(w) # phys_addr)
    BY <1>4 DEF Unmapped, IsMapped
  <2>3. \A w \in VAddrs : vmm_get_phys(w)' \in {NoFrame} \cup Mappable
    BY <1>9, <2>2 DEF IndInv, Mappings
  <2>4. ASSUME NEW a \in VAddrs, NEW b \in VAddrs,
               vmm_get_phys(a)' \in data, vmm_get_phys(a)' = vmm_get_phys(b)'
        PROVE  a = b
    <3>1. NoFrame \notin data
      BY Apart
    <3>2. CASE a = v \/ b = v
      BY <1>9, <2>2, <2>4, <3>1, <3>2
    <3>3. CASE a # v /\ b # v
      BY <1>9, <2>4, <3>3 DEF IndInv, Mappings
    <3> QED BY <3>2, <3>3
  <2> QED BY <2>1, <2>3, <2>4 DEF Mappings, Mappable
<1>14. InCall'
  BY <1>1, <1>2 DEF InCall, call
<1>15. Cached'
  BY <1>1, <1>2, <1>9 DEF IndInv, Cached, Mappable, Flushing, call
<1> QED BY <1>2, <1>8, <1>9, <1>10, <1>12, <1>13, <1>14, <1>15 DEF IndInv

(* vmm_unmap clears the entry; one translation changes. *)
LEMMA UnmapIndInv ==
  ASSUME IndInv, NEW v \in VAddrs, vmm_unmap(v)
  PROVE  IndInv' /\ \A w \in VAddrs : w # v => vmm_get_phys(w)' = vmm_get_phys(w)
<1>1. /\ pc = "idle" /\ vmm_get_phys(v) # NoFrame
      /\ ptab' = [ptab EXCEPT ![PageTable(v)][v[4]] = ZeroEntry]
      /\ old_frame' = vmm_get_phys(v) /\ virt_addr' = v /\ pc' = "unmap_flush"
      /\ UNCHANGED <<alloc, data, tlb, phys_addr, present, table, level>>
  BY DEF vmm_unmap
<1>2. PageTable(v) # NoFrame
  BY <1>1 DEF vmm_get_phys, vmm_get_existing_level
<1>3. ZeroEntry \in [frame : Frames \cup {NoFrame}, present : BOOLEAN] /\ ~ZeroEntry.present
  BY DEF ZeroEntry, Entry
<1>4. PICK x : x = ZeroEntry
  OBVIOUS
<1>5. /\ \A m \in 1 .. 4 : TablesAt(m)' = TablesAt(m)
      /\ Tree'
      /\ \A w \in VAddrs : vmm_get_phys(w)' = IF w = v THEN IF x.present THEN x.frame ELSE NoFrame
                                             ELSE vmm_get_phys(w)
      /\ ptab' \in [Frames -> [Index -> [frame : Frames \cup {NoFrame}, present : BOOLEAN]]]
      /\ \A f \in Frames, i \in Index : ptab'[f][i].present => ptab'[f][i].frame \in Frames
  BY <1>1, <1>2, <1>3, <1>4, LeafWritten DEF IndInv
<1>6. \A w \in VAddrs : vmm_get_phys(w)' = IF w = v THEN NoFrame ELSE vmm_get_phys(w)
  BY <1>3, <1>4, <1>5
<1>7. vmm_get_phys(v) \in Mmio \cup data
  BY <1>1 DEF IndInv, Mappings, Mappable
<1>8. Typed'
  <2>1. TypeOK'
    BY <1>1, <1>5, <1>7, Apart DEF IndInv, Typed, TypeOK, alloc, Calls
  <2> QED BY <1>5, <2>1 DEF Typed
<1>9. Tables' = Tables
  BY <1>5 DEF Tables
<1>10. Owned'
  BY <1>1, <1>9 DEF IndInv, Owned, NoPageLost, alloc
<1>11. Mappings'
  BY <1>1, <1>6, Apart DEF IndInv, Mappings, Mappable
<1>12. InCall'
  <2>1. old_frame' \in data => \A w \in VAddrs : vmm_get_phys(w)' # old_frame'
    BY <1>1, <1>6 DEF IndInv, Mappings
  <2> QED BY <1>1, <1>7, <2>1 DEF InCall, Unmapped, Mappable, IsMapped
<1>13. Cached'
  BY <1>1, <1>6 DEF IndInv, Cached, Mappable, Flushing
<1> QED BY <1>5, <1>6, <1>8, <1>10, <1>11, <1>12, <1>13 DEF IndInv

LEMMA UnchangedIndInv == IndInv /\ UNCHANGED vars => IndInv'
<1> SUFFICES ASSUME IndInv, UNCHANGED vars PROVE IndInv'
  OBVIOUS
<1>1. UNCHANGED <<alloc, data, ptab, tlb, pc, call>>
  BY DEF vars
<1>2. /\ Tree' /\ Owned' /\ Mappings' /\ \A w \in VAddrs : vmm_get_phys(w)' = vmm_get_phys(w)
      /\ \A w \in VAddrs, l \in 1 .. 4 : Reached(w, l)' = Reached(w, l)
  BY <1>1, PagesUnchanged
<1>3. Typed'
  BY <1>1 DEF IndInv, Typed, TypeOK, alloc, call
<1>4. InCall'
  BY <1>1, <1>2 DEF IndInv, InCall, Unmapped, Mappable, IsMapped, call
<1>5. Cached'
  BY <1>1, <1>2 DEF IndInv, Cached, Mappable, Flushing, call
<1> QED BY <1>2, <1>3, <1>4, <1>5 DEF IndInv

LEMMA SpecIndInv == Spec => []IndInv
<1>1. IndInv /\ [Next]_vars => IndInv'
  <2> SUFFICES ASSUME IndInv, [Next]_vars PROVE IndInv'
    OBVIOUS
  <2>1. CASE Step
    BY <2>1, DescendExistingIndInv, DescendNewIndInv, MapFailsIndInv, StoreEntryIndInv,
       MapReturnIndInv, UnmapFlushIndInv, UnmapReturnIndInv DEF Step
  <2>2. CASE TakePage \/ DropPage
    BY <2>2, TakePageIndInv, DropPageIndInv
  <2>3. CASE \E v \in VAddrs : FillTlb(v) \/ EvictTlb(v) \/ vmm_unmap(v) \/ UnmapFails(v)
    <3>1. PICK v \in VAddrs : FillTlb(v) \/ EvictTlb(v) \/ vmm_unmap(v) \/ UnmapFails(v)
      BY <2>3
    <3>2. UnmapFails(v) => UNCHANGED vars
      BY DEF UnmapFails
    <3> QED BY <3>1, <3>2, TlbIndInv, UnmapIndInv, UnchangedIndInv
  <2>4. CASE \E v \in VAddrs, f \in Pool \cup Mmio, p \in BOOLEAN : vmm_map(v, f, p)
    BY <2>4, MapIndInv
  <2>5. CASE UNCHANGED vars
    BY <2>5, UnchangedIndInv
  <2> QED BY <2>1, <2>2, <2>3, <2>4, <2>5 DEF Next
<1> QED BY <1>1, InitIndInv, PTL DEF Spec

------------------------------------------------------------------------------
(* The theorems.                                                           *)

(***************************************************************************)
(* The variables have their types, and the page tables are always a tree   *)
(* of private pages (vmm.c): no page the allocator may give out, no page   *)
(* of a caller and nothing that is mapped is a table, whatever was left in *)
(* the pages and wherever vmm_map ran out of them.                         *)
(***************************************************************************)
THEOREM TablesPrivateHolds == Spec => []TablesPrivate
<1>1. IndInv => TablesPrivate
  <2> SUFFICES ASSUME IndInv PROVE TablesPrivate
    OBVIOUS
  <2>1. \A v \in VAddrs : vmm_get_phys(v) \notin Tables
    <3>1. NoFrame \notin Tables
      BY Apart, TablesAreFrames, TablesMembers
    <3> QED BY <3>1, Apart DEF IndInv, Mappings, Mappable
  <2> QED BY <2>1 DEF IndInv, Typed, Tree, Owned, TablesPrivate
<1> QED BY <1>1, SpecIndInv, PTL

(***************************************************************************)
(* Every page the allocator has given out is a caller's or a table that    *)
(* can be reached from the root, after failed calls of vmm_map too.        *)
(***************************************************************************)
THEOREM NoPageLostHolds == Spec => []NoPageLost
<1>1. IndInv => NoPageLost
  BY DEF IndInv, Owned
<1> QED BY <1>1, SpecIndInv, PTL

(***************************************************************************)
(* At no moment does the processor have a translation to a page that is    *)
(* back in the pool, although it may fill its cache between any two steps  *)
(* of vmm_map and vmm_unmap; between calls it has none that the tables do  *)
(* not have.                                                               *)
(***************************************************************************)
THEOREM NoStaleTlbHolds == Spec => []NoStaleTlb
<1>1. IndInv => NoStaleTlb
  <2> SUFFICES ASSUME IndInv, NEW v \in VAddrs
               PROVE  tlb[v] \notin free /\ (pc = "idle" => tlb[v] \in {NoFrame, vmm_get_phys(v)})
    BY DEF NoStaleTlb
  <2>1. tlb[v] \in {NoFrame} \cup Mmio \cup data
    BY DEF IndInv, Cached, Mappable
  <2>2. tlb[v] \notin free
    BY <2>1, Apart
  <2>3. pc = "idle" => tlb[v] \in {NoFrame, vmm_get_phys(v)}
    BY DEF IndInv, Cached, Flushing
  <2> QED BY <2>2, <2>3
<1> QED BY <1>1, SpecIndInv, PTL

(***************************************************************************)
(* vmm_map and vmm_unmap change the translation of the address they were   *)
(* given and of no other: a new table, cleared before it is entered, maps  *)
(* nothing, and two addresses never share an entry of a last table.        *)
(***************************************************************************)
THEOREM OnlyOwnAddressHolds == Spec => OnlyOwnAddress
<1> DEFINE Own == \A v \in VAddrs : vmm_get_phys(v)' # vmm_get_phys(v) =>
                    \/ v = virt_addr /\ pc = "map"
                    \/ v = virt_addr' /\ pc' = "unmap_flush"
<1>1. IndInv /\ [Next]_vars => [Own]_vars
  <2> SUFFICES ASSUME IndInv, Next PROVE Own
    OBVIOUS
  <2>1. CASE UNCHANGED ptab
    BY <2>1, TablesUnchanged
  <2>2. CASE DescendNew
    BY <2>2, DescendNewIndInv
  <2>3. CASE StoreEntry
    <3>1. pc = "map"
      BY <2>3 DEF StoreEntry
    <3> QED BY <2>3, <3>1, StoreEntryIndInv
  <2>4. CASE \E v \in VAddrs : vmm_unmap(v)
    <3>1. PICK v \in VAddrs : vmm_unmap(v)
      BY <2>4
    <3>2. virt_addr' = v /\ pc' = "unmap_flush"
      BY <3>1 DEF vmm_unmap
    <3> QED BY <3>1, <3>2, UnmapIndInv
  <2>5. Next => \/ UNCHANGED ptab \/ DescendNew \/ StoreEntry \/ \E v \in VAddrs : vmm_unmap(v)
    BY DEF Next, Step, DescendExisting, MapFails, MapReturn, UnmapFlush, UnmapReturn, TakePage,
           DropPage, FillTlb, EvictTlb, UnmapFails, vmm_map, vars
  <2> QED BY <2>1, <2>2, <2>3, <2>4, <2>5
<1> QED BY <1>1, SpecIndInv, PTL DEF Spec, OnlyOwnAddress
==============================================================================
