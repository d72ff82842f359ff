---------------------------- MODULE MCIndexAlpha ----------------------------
(* Checks index_alpha against the reference sets of the Argon2 definition, at *)
(* every point of the matrix and for every value of the 32 random bits, which *)
(* the steps of this module run through.                                      *)
EXTENDS IndexAlpha

VARIABLES point, same_lane, pseudo_rand

alphaVars == <<point, same_lane, pseudo_rand>>

AlphaInit ==
    /\ point \in Points
    /\ same_lane \in SameLaneChoices(point)
    /\ pseudo_rand = 0

AlphaNext ==
    /\ pseudo_rand < Word - 1
    /\ pseudo_rand' = pseudo_rand + 1
    /\ UNCHANGED <<point, same_lane>>

AlphaSpec == AlphaInit /\ [][AlphaNext]_alphaVars

Reference(x) == index_alpha(point.pass, point.slice, point.index, x, same_lane)

(* index_alpha only returns blocks that the Argon2 definition allows: blocks  *)
(* that are written, not the current or the previous block and, in another    *)
(* lane, outside the slice being filled.                                      *)
ReferenceAllowed == Reference(pseudo_rand) \in ReferenceSet(point, same_lane)

(* The other direction: no allowed block is left out, so an off-by-one at     *)
(* either end of the reference area shows (Word is larger than twice the      *)
(* area in the instance checked).                                             *)
EveryReferenceReachable ==
    ReferenceSet(point, same_lane) \subseteq {Reference(x) : x \in 0 .. Word - 1}

(* How many steps back in the lane's cyclic order a block is. *)
Age(offset) == (curr_offset(point) - offset - 1) % lane_length

(* The distribution is monotone: a larger pseudo_rand never selects a younger *)
(* block, the window does not wrap in its middle.                             *)
LargerIsOlder ==
    [][Age(Reference(pseudo_rand')) >= Age(Reference(pseudo_rand))]_alphaVars
=============================================================================
