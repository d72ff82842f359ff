---------------------------- MODULE MCFillModes -----------------------------
(* fill_memory_blocks with fewer threads than lanes: the multi-threaded fill  *)
(* under its thread limit and, where instance->threads is 1, the              *)
(* single-threaded fill of the same matrix.  The thread count matters to the  *)
(* latter in the choice between the two only.                                 *)
EXTENDS FillMemory

Single == INSTANCE FillMemory WITH Threads <- 1

ModesNext == Next \/ Single!fill_memory_blocks

ModesSpec == Init /\ [][ModesNext]_vars
=============================================================================
