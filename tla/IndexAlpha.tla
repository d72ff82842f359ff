----------------------------- MODULE IndexAlpha -----------------------------
(* The geometry of the memory matrix and the choice of reference blocks.      *)
(*                                                                            *)
(* argon2_ctx cuts the matrix in Lanes lanes of ARGON2_SYNC_POINTS segments   *)
(* of SegmentLength blocks.  index_alpha maps 32 pseudo-random bits to the    *)
(* position, inside a lane, of the block the next block is mixed with.        *)
(* Word is the modulus of uint32_t (2^32 in the code): TLC takes a small one, *)
(* the proofs hold for every one that is larger than the matrix.              *)
EXTENDS Integers

CONSTANTS
    Lanes,              \* instance->lanes
    SegmentLength,      \* instance->segment_length
    Word                \* 2^32, the modulus of uint32_t

ARGON2_SYNC_POINTS == 4

lane_length == ARGON2_SYNC_POINTS * SegmentLength

(* What validate_inputs and the alignment in argon2_ctx leave to rely on: at  *)
(* least 2 * ARGON2_SYNC_POINTS blocks in a lane, and a number of blocks that *)
(* a uint32_t can hold.                                                       *)
ASSUME GeometryAssumption ==
    /\ Lanes \in Nat \ {0}
    /\ SegmentLength \in Nat \ {0, 1}
    /\ Word \in Nat
    /\ Lanes * lane_length < Word

LaneIds == 0 .. Lanes - 1
Slices == 0 .. ARGON2_SYNC_POINTS - 1
Offsets == 0 .. lane_length - 1

U32(x) == x % Word

-----------------------------------------------------------------------------
(* index_alpha, in its four steps. *)

minus_one_always(index) == -1
minus_one_at_zero(index) == IF index = 0 THEN -1 ELSE 0

area_with_previous(index, same_lane) ==
    IF same_lane THEN index ELSE minus_one_at_zero(index)
area_ignoring_lane(index, same_lane) == index - 1
area_current(index, same_lane) ==
    IF same_lane THEN index - 1 ELSE minus_one_at_zero(index)

reference_area_size(pass, slice, index, same_lane) ==
    U32(IF pass = 0
        THEN IF slice = 0
             THEN index - 1
             ELSE slice * SegmentLength + area_current(index, same_lane)
        ELSE lane_length - SegmentLength + area_current(index, same_lane))

relative_position(area, pseudo_rand) ==
    (area - 1 - (area * ((pseudo_rand * pseudo_rand) \div Word)) \div Word)
        % (Word * Word)

start_at_this_slice(pass, slice) == IF pass = 0 THEN 0 ELSE slice * SegmentLength
start_position(pass, slice) ==
    IF pass = 0 \/ slice = ARGON2_SYNC_POINTS - 1
    THEN 0
    ELSE (slice + 1) * SegmentLength

index_alpha(pass, slice, index, pseudo_rand, same_lane) ==
    (start_position(pass, slice)
        + relative_position(reference_area_size(pass, slice, index, same_lane),
                            pseudo_rand)) % lane_length

-----------------------------------------------------------------------------
(* The first index fill_segment computes in a segment: fill_first_blocks has  *)
(* already written the first two blocks of every lane.                        *)
starting_index(pass, slice) == IF pass = 0 /\ slice = 0 THEN 2 ELSE 0

(* The block a block is chained to: the one before it in its lane, cyclically *)
predecessor(offset) == IF offset = 0 THEN lane_length - 1 ELSE offset - 1

-----------------------------------------------------------------------------
(* What index_alpha promises. *)

(* The positions of a block computed at (pass, slice, index). *)
Points ==
    {p \in [pass : {0, 1}, slice : Slices, index : 0 .. SegmentLength - 1] :
        p.index >= starting_index(p.pass, p.slice)}

(* The lanes another lane's block may be taken from: none in the first slice. *)
SameLaneChoices(p) == IF p.pass = 0 /\ p.slice = 0 THEN {TRUE} ELSE BOOLEAN

(* The reference set of the Argon2 definition, as a set of offsets: what has  *)
(* been written in the last ARGON2_SYNC_POINTS - 1 finished slices (in the    *)
(* first pass, in all of them), plus the blocks of the current segment for    *)
(* the block's own lane; never the block's predecessor, which is already the  *)
(* other input of the compression function (for another lane, the last block  *)
(* of the last finished slice is left out when index = 0).                    *)
InSlice(slice) == slice * SegmentLength .. (slice + 1) * SegmentLength - 1
curr_offset(p) == p.slice * SegmentLength + p.index
ReferenceSet(p, same_lane) ==
    LET finished == IF p.pass = 0
                    THEN 0 .. p.slice * SegmentLength - 1
                    ELSE Offsets \ InSlice(p.slice)
        current  == IF same_lane
                    THEN p.slice * SegmentLength .. curr_offset(p) - 1
                    ELSE {}
    IN  IF same_lane \/ p.index = 0
        THEN (finished \cup current) \ {predecessor(curr_offset(p))}
        ELSE finished \cup current
=============================================================================
