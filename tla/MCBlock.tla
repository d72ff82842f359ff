------------------------------ MODULE MCBlock -------------------------------
(* The two halves of computing a block, from all their inputs: index_alpha,   *)
(* which chooses the reference block, and fill_block of opt.c, which          *)
(* compresses, in each of its builds.  They share no state: a behaviour runs  *)
(* either the one or the other.                                               *)
EXTENDS MCIndexAlpha

VARIABLES build, with_xor, phase, i, step, state, word, block_XY, next_block

mixVars == <<build, with_xor, phase, i, step, state, word, block_XY, next_block>>

Mixer == INSTANCE BlockMix

BlockInit ==
    \/ AlphaInit /\ Mixer!Idle
    \/ /\ Mixer!Init
       /\ point = [pass |-> 0, slice |-> 0, index |-> 2]
       /\ same_lane = TRUE /\ pseudo_rand = Word - 1

BlockNext ==
    \/ AlphaNext /\ Mixer!IsIdle /\ UNCHANGED mixVars
    \/ Mixer!Next /\ UNCHANGED alphaVars

BlockSpec == BlockInit /\ [][BlockNext]_<<alphaVars, mixVars>>

(* fill_block of opt.c stores the block of ref.c, in every build. *)
StoresReferenceBlock == Mixer!StoresReferenceBlock
=============================================================================
