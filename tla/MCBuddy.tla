------------------------------- MODULE MCBuddy -------------------------------
(* A small instance of Buddy: nine frames of two bytes each, so that the   *)
(* last one has its buddy outside the table.                               *)
EXTENDS Buddy

E(usable, base, length) == [usable |-> usable, base |-> base, length |-> length]

(***************************************************************************)
(* One range that starts at frame 1 and is not page aligned at either end; *)
(* ranges around a reserved hole, the last cut off at the end of the       *)
(* table, one beyond it, one smaller than a page; two ranges that touch;   *)
(* no entry at all.                                                        *)
(***************************************************************************)
MCMemMaps ==
  { << E(FALSE, 0, 1), E(TRUE, 1, 16) >>,
    << E(TRUE, 0, 8), E(FALSE, 8, 4), E(TRUE, 12, 40), E(TRUE, 52, 4), E(TRUE, 9, 1) >>,
    << E(TRUE, 2, 4), E(TRUE, 6, 6) >>,
    << >> }

MCPageCounts == {0, 1, 2, 3, 4, 8, 9}

(* Page starts, addresses inside a page, and addresses beyond the table. *)
MCPhysAddrs == {2 * f : f \in 0 .. 10} \cup {1, 7}
==============================================================================
