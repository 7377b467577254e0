------------------------------- MODULE MCHeap -------------------------------
(* Small instances of Heap: three pages and the three largest classes,     *)
(* with the sizes of the source.  A slab then has 3, 1 or no objects.      *)
EXTENDS Heap

MCFrames == 1 .. 3
MCSizes == <<512, 1024, 2048>>
MCRequests == {0, 500, 1024, 2000, 4090}

(* The requests of main.c:188-194, with the classes around the small one. *)
MCTestSizes == <<8, 16, 32>>
MCTestRequests == {16, 5000}
==============================================================================
