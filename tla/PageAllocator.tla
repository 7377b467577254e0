---------------------------- MODULE PageAllocator ----------------------------
(***************************************************************************)
(* What a physical page allocator promises its callers, without saying how *)
(* it finds pages.  Every page frame is in one of three places: owned by   *)
(* the firmware or out of range (in neither set), free in the pool, or     *)
(* held by a caller.  An allocation moves one contiguous block from the    *)
(* pool to the caller, a release moves one block back, and nothing else    *)
(* moves.  Module Buddy (kernel/src/memory/buddy.c) is shown to implement  *)
(* this specification; the modules of the allocator's clients use it in    *)
(* place of the buddy algorithm.                                           *)
(***************************************************************************)
EXTENDS Integers

CONSTANTS
  Frames,       \* the page frames the allocator can ever manage
  Lengths       \* the block lengths, in pages, that it hands out

VARIABLES
  free,         \* the frames in the pool
  held          \* the frames callers hold

vars == <<free, held>>

(* The frames of a block of n pages that starts at frame f. *)
Run(f, n) == f .. (f + n - 1)

Init ==
  /\ free = {}
  /\ held = {}

(* The boot code gives the pool a block that nobody uses. *)
Donate(f, n) ==
  /\ Run(f, n) \subseteq Frames \ (free \cup held)
  /\ free' = free \cup Run(f, n)
  /\ UNCHANGED held

(* A caller gets a block; no page of it is held by anyone. *)
Allocate(f, n) ==
  /\ Run(f, n) \subseteq free
  /\ free' = free \ Run(f, n)
  /\ held' = held \cup Run(f, n)

(* A caller returns a block, every page of which it holds. *)
Release(f, n) ==
  /\ Run(f, n) \subseteq held
  /\ held' = held \ Run(f, n)
  /\ free' = free \cup Run(f, n)

Next ==
  \E f \in Frames, n \in Lengths :
    Donate(f, n) \/ Allocate(f, n) \/ Release(f, n)

Spec == Init /\ [][Next]_vars
==============================================================================
