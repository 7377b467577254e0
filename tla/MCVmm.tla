-------------------------------- MODULE MCVmm --------------------------------
(* A small instance of Vmm: five pages, two indices per table.              *)
EXTENDS Vmm, TLC

(* Two addresses in one last table, one that shares two tables with them,  *)
(* and one below the boot loader's table.                                  *)
MCVAddrs == { <<0, 0, 0, 0>>, <<0, 0, 0, 1>>, <<0, 0, 1, 0>>, <<1, 0, 0, 1>> }

MCIndex == {0, 1}
MCSymmetry == Permutations(Pool)
==============================================================================
