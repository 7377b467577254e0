--------------------------------- MODULE MCPic ---------------------------------
(* The timer, the last line of each controller and one in between; vectors  *)
(* 32 to 47.                                                                *)
EXTENDS Pic

MCOffset1 == {5}
MCOffset2 == {3, 5}
==============================================================================
