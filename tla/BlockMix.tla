------------------------------ MODULE BlockMix -------------------------------
(* fill_block: the compression of a block in the SIMD builds of opt.c, held   *)
(* to the portable one of ref.c.                                              *)
(*                                                                            *)
(* Both apply the same half rounds to quadruples of the 128 words of a block, *)
(* and differ in how they bring four words together: ref.c names the words,   *)
(* opt.c shuffles them between the lanes of vector registers.  So a register  *)
(* is modelled as the sequence of the words that are in its lanes, and a word *)
(* as the list of half rounds it has been through.  Half rounds on disjoint   *)
(* words commute, so blocks whose words have equal lists are equal.           *)
EXTENDS Integers, Sequences, SequencesExt

Builds == {"SSE2", "SSSE3", "AVX2", "AVX512"}

Words == 0 .. 127       \* ARGON2_QWORDS_IN_BLOCK

(* A half of G: fBlaMka and xor, with the distances of its two rotations. *)
Half(quad, rotations) == [quad |-> quad, rotations |-> rotations]

-----------------------------------------------------------------------------
(* ref.c: G is two halves, a round is G on the columns and on the diagonals   *)
(* of a 4 x 4 square, and fill_block runs it on eight rows of 16 words, then  *)
(* on eight columns of 2 x 8.                                                 *)

Columns == {<<0, 4, 8, 12>>, <<1, 5, 9, 13>>, <<2, 6, 10, 14>>, <<3, 7, 11, 15>>}
Diagonals == {<<0, 5, 10, 15>>, <<1, 6, 11, 12>>, <<2, 7, 8, 13>>, <<3, 4, 9, 14>>}

G(quad) == <<Half(quad, <<32, 24>>), Half(quad, <<16, 63>>)>>

(* What the round on the 16 words v does to the one of them at position k. *)
BLAKE2_ROUND_NOMSG(v, k) ==
    LET through(quads) == CHOOSE quad \in quads : k \in ToSet(quad)
        of(quad) == [n \in 1 .. 4 |-> v[quad[n]]]
    IN  G(of(through(Columns))) \o G(of(through(Diagonals)))

fill_block_ref(w) ==
    LET row == [k \in 0 .. 15 |-> 16 * (w \div 16) + k]
        column == [k \in 0 .. 15 |-> 2 * ((w % 16) \div 2) + 16 * (k \div 2) + (k % 2)]
    IN  BLAKE2_ROUND_NOMSG(row, w % 16)
        \o BLAKE2_ROUND_NOMSG(column, 2 * (w \div 16) + (w % 2))

-----------------------------------------------------------------------------
(* The shuffles of the instruction sets, on sequences of words. *)

MM_SHUFFLE(z, y, x, w) == <<w, x, y, z>>

(* permute4x64 and permutex: the same permutation of every group of four. *)
permute(x, p) ==
    [k \in DOMAIN x |-> x[4 * ((k - 1) \div 4) + p[((k - 1) % 4) + 1] + 1]]
alignr_8(a, b) == <<b[2], a[1]>>
unpackhi(a, b) == <<a[2], b[2]>>
unpacklo(a, b) == <<a[1], b[1]>>
blend_CC(a, b) == <<a[1], b[2], a[3], b[4]>>
blend_33(a, b) == <<b[1], a[2], b[3], a[4]>>

(* The distance of the rotation that a shuffle of the parts of a word is, if  *)
(* it is one: n parts a word, of so many bits.                                *)
NoRotation == -1
rotation(table, n, bits) ==
    IF \A k \in 0 .. Len(table) - 1 :
          table[k + 1] = n * (k \div n) + ((table[1] + (k % n)) % n)
    THEN bits * table[1] ELSE NoRotation

r16 == <<2, 3, 4, 5, 6, 7, 0, 1, 10, 11, 12, 13, 14, 15, 8, 9>>
r24 == <<3, 4, 5, 6, 7, 0, 1, 2, 11, 12, 13, 14, 15, 8, 9, 10>>
rotr32 == rotation(MM_SHUFFLE(2, 3, 0, 1), 2, 32)

(* The rotations of G1 and G2: by shuffles where the build has them. *)
roti(build, g) ==
    IF build \in {"SSSE3", "AVX2"}
    THEN IF g = "G1" THEN <<rotr32, rotation(r24, 8, 8)>>
                     ELSE <<rotation(r16, 8, 8), 63>>
    ELSE IF g = "G1" THEN <<32, 24>> ELSE <<16, 63>>

-----------------------------------------------------------------------------
(* The macros of blamka-round-opt.h, on the registers v they are given.       *)

Swapped(v, a, b) == [v EXCEPT ![a] = v[b], ![b] = v[a]]

DIAGONALIZE_SSSE3(v) ==
    [Swapped(v, "C0", "C1") EXCEPT
        !["B0"] = alignr_8(v["B1"], v["B0"]), !["B1"] = alignr_8(v["B0"], v["B1"]),
        !["D0"] = alignr_8(v["D0"], v["D1"]), !["D1"] = alignr_8(v["D1"], v["D0"])]
UNDIAGONALIZE_SSSE3(v) ==
    [Swapped(v, "C0", "C1") EXCEPT
        !["B0"] = alignr_8(v["B0"], v["B1"]), !["B1"] = alignr_8(v["B1"], v["B0"]),
        !["D0"] = alignr_8(v["D1"], v["D0"]), !["D1"] = alignr_8(v["D0"], v["D1"])]

(* The high lane of a, beside the low lane of b. *)
high_low(a, b) == unpackhi(a, unpacklo(b, b))

DIAGONALIZE_SSE2(v) ==
    [Swapped(v, "C0", "C1") EXCEPT
        !["D0"] = high_low(v["D1"], v["D0"]), !["D1"] = high_low(v["D0"], v["D1"]),
        !["B0"] = high_low(v["B0"], v["B1"]), !["B1"] = high_low(v["B1"], v["B0"])]
UNDIAGONALIZE_SSE2(v) ==
    [Swapped(v, "C0", "C1") EXCEPT
        !["B0"] = high_low(v["B1"], v["B0"]), !["B1"] = high_low(v["B0"], v["B1"]),
        !["D0"] = high_low(v["D0"], v["D1"]), !["D1"] = high_low(v["D1"], v["D0"])]

(* DIAGONALIZE_1 of AVX2, and the DIAGONALIZE of AVX512. *)
Turned(v, b, c, d) ==
    [n \in DOMAIN v |->
        CASE n \in {"A0", "A1"} -> v[n]
          [] n \in {"B0", "B1"} -> permute(v[n], b)
          [] n \in {"C0", "C1"} -> permute(v[n], c)
          [] n \in {"D0", "D1"} -> permute(v[n], d)]
DIAGONALIZE_1(v) ==
    Turned(v, MM_SHUFFLE(0, 3, 2, 1), MM_SHUFFLE(1, 0, 3, 2), MM_SHUFFLE(2, 1, 0, 3))
UNDIAGONALIZE_1(v) ==
    Turned(v, MM_SHUFFLE(2, 1, 0, 3), MM_SHUFFLE(1, 0, 3, 2), MM_SHUFFLE(0, 3, 2, 1))

(* AVX2 on columns: the two registers of a pair exchange every other lane. *)
turn(x) == permute(x, MM_SHUFFLE(2, 3, 0, 1))

DIAGONALIZE_2_blends_exchanged(v) ==
    [Swapped(v, "C0", "C1") EXCEPT
        !["B0"] = turn(blend_CC(v["B0"], v["B1"])),
        !["B1"] = turn(blend_33(v["B0"], v["B1"])),
        !["D0"] = turn(blend_CC(v["D0"], v["D1"])),
        !["D1"] = turn(blend_33(v["D0"], v["D1"]))]
DIAGONALIZE_2(v) ==
    [Swapped(v, "C0", "C1") EXCEPT
        !["B1"] = turn(blend_CC(v["B0"], v["B1"])),
        !["B0"] = turn(blend_33(v["B0"], v["B1"])),
        !["D0"] = turn(blend_CC(v["D0"], v["D1"])),
        !["D1"] = turn(blend_33(v["D0"], v["D1"]))]
UNDIAGONALIZE_2(v) ==
    [Swapped(v, "C0", "C1") EXCEPT
        !["B0"] = turn(blend_CC(v["B0"], v["B1"])),
        !["B1"] = turn(blend_33(v["B0"], v["B1"])),
        !["D0"] = turn(blend_33(v["D0"], v["D1"])),
        !["D1"] = turn(blend_CC(v["D0"], v["D1"]))]

(* AVX512 first brings together the words of a round. *)
SWAP_HALVES(v, a, b) ==
    [v EXCEPT ![a] = SubSeq(v[a], 1, 4) \o SubSeq(v[b], 1, 4),
              ![b] = SubSeq(v[a], 5, 8) \o SubSeq(v[b], 5, 8)]
quarters(x) == LET idx == <<0, 1, 4, 5, 2, 3, 6, 7>>
               IN  [k \in 1 .. 8 |-> x[idx[k] + 1]]
Quartered(v, a, b) == [v EXCEPT ![a] = quarters(v[a]), ![b] = quarters(v[b])]
SWAP_QUARTERS(v, a, b) == Quartered(SWAP_HALVES(v, a, b), a, b)
UNSWAP_QUARTERS(v, a, b) == SWAP_HALVES(Quartered(v, a, b), a, b)

(* The four swaps before, and the four after, the round on rows or columns. *)
EachPair(v, Swap(_, _, _), pairs) ==
    FoldLeft(LAMBDA x, pair : Swap(x, pair[1], pair[2]), v, pairs)
RowPairs == << <<"A0", "B0">>, <<"C0", "D0">>, <<"A1", "B1">>, <<"C1", "D1">> >>
ColumnPairs == << <<"A0", "A1">>, <<"B0", "B1">>, <<"C0", "C1">>, <<"D0", "D1">> >>

-----------------------------------------------------------------------------
VARIABLES
    build,          \* the instruction set opt.c is compiled for
    with_xor,       \* the parameter
    phase,          \* "idle", "load", "rows", "columns", "store", "done"
    i,              \* the loop counter of the two loops
    step,           \* the macro of the round that is next
    state,          \* the registers: the words in their lanes
    word,           \* per word: the half rounds it has been through
    block_XY,       \* the blocks xored into block_XY
    next_block      \* what is stored

vars == <<build, with_xor, phase, i, step, state, word, block_XY, next_block>>

width(b) == CASE b \in {"SSE2", "SSSE3"} -> 2 [] b = "AVX2" -> 4 [] b = "AVX512" -> 8
Registers == 0 .. 128 \div width(build) - 1
Loops == 16 \div width(build)

Unmixed == [w \in Words |-> <<>>]

Init ==
    /\ build \in Builds
    /\ with_xor \in BOOLEAN
    /\ phase = "load" /\ i = 0 /\ step = 1
    /\ state = [r \in Registers |-> [k \in 1 .. width(build) |-> width(build) * r + k - 1]]
    /\ word = Unmixed
    /\ block_XY = {} /\ next_block = <<>>

(* No call of fill_block. *)
IsIdle == phase = "idle"
Idle ==
    /\ build = "SSE2" /\ with_xor = FALSE
    /\ IsIdle /\ i = 0 /\ step = 1
    /\ state = <<>> /\ word = Unmixed
    /\ block_XY = {} /\ next_block = <<>>

(* The first loop: state is xored with ref_block, block_XY is a copy of it,   *)
(* with next_block xored in.                                                  *)
Load ==
    /\ phase = "load"
    /\ phase' = "rows"
    /\ block_XY' = {"state", "ref_block"} \cup (IF with_xor THEN {"next_block"} ELSE {})
    /\ UNCHANGED <<build, with_xor, i, step, state, word, next_block>>

(* The registers that the calls of the round macro name, by parameter. *)
Called(order, register(_)) ==
    [n \in ToSet(order) |-> register((CHOOSE k \in 1 .. 8 : order[k] = n) - 1)]
InOrder == <<"A0", "A1", "B0", "B1", "C0", "C1", "D0", "D1">>

arguments ==
    CASE build \in {"SSE2", "SSSE3"} /\ phase = "rows" ->
           Called(InOrder, LAMBDA k : 8 * i + k)
      [] build \in {"SSE2", "SSSE3"} /\ phase = "columns" ->
           Called(InOrder, LAMBDA k : 8 * k + i)
      [] build = "AVX2" /\ phase = "rows" ->
           Called(InOrder, LAMBDA k : 8 * i + (k \div 2) + 4 * (k % 2))
      [] build = "AVX2" /\ phase = "columns" ->
           Called(InOrder, LAMBDA k : 4 * k + i)
      [] build = "AVX512" /\ phase = "rows" ->
           Called(<<"A0", "C0", "B0", "D0", "A1", "C1", "B1", "D1">>,
                  LAMBDA k : 8 * i + k)
      [] build = "AVX512" /\ phase = "columns" ->
           Called(InOrder, LAMBDA k : 2 * k + i)

Given == [n \in DOMAIN arguments |-> state[arguments[n]]]

Returned(v) ==
    state' = [r \in Registers |->
                IF \E n \in DOMAIN v : arguments[n] = r
                THEN v[CHOOSE n \in DOMAIN v : arguments[n] = r] ELSE state[r]]

(* BLAKE2_ROUND, BLAKE2_ROUND_1 and BLAKE2_ROUND_2, as the macros they use. *)
BLAKE2_ROUND ==
    LET round == <<"G1", "G2", "DIAGONALIZE", "G1", "G2", "UNDIAGONALIZE">>
    IN  IF build = "AVX512" THEN <<"SWAP">> \o round \o <<"UNSWAP">> ELSE round

(* The next macro, the next round, the next loop. *)
Advance ==
    IF step < Len(BLAKE2_ROUND)
    THEN step' = step + 1 /\ UNCHANGED <<phase, i>>
    ELSE /\ step' = 1
         /\ IF i < Loops - 1
            THEN i' = i + 1 /\ phase' = phase
            ELSE i' = 0 /\ phase' = IF phase = "rows" THEN "columns" ELSE "store"

InRound == phase \in {"rows", "columns"}

(* G1 and G2 work on the four registers of either half, lane by lane. *)
Quads ==
    {<<Given["A0"][k], Given["B0"][k], Given["C0"][k], Given["D0"][k]>> :
        k \in 1 .. width(build)}
    \cup {<<Given["A1"][k], Given["B1"][k], Given["C1"][k], Given["D1"][k]>> :
        k \in 1 .. width(build)}

Mix ==
    /\ InRound
    /\ BLAKE2_ROUND[step] \in {"G1", "G2"}
    /\ LET quads == Quads
           distances == roti(build, BLAKE2_ROUND[step])
       IN  word' = [w \in Words |->
                      IF \E quad \in quads : w \in ToSet(quad)
                      THEN Append(word[w], Half(CHOOSE quad \in quads : w \in ToSet(quad),
                                                distances))
                      ELSE word[w]]
    /\ Advance
    /\ UNCHANGED <<build, with_xor, state, block_XY, next_block>>

Shuffled(macro, v) ==
    CASE macro = "DIAGONALIZE" /\ build = "SSE2" -> DIAGONALIZE_SSE2(v)
      [] macro = "UNDIAGONALIZE" /\ build = "SSE2" -> UNDIAGONALIZE_SSE2(v)
      [] macro = "DIAGONALIZE" /\ build = "SSSE3" -> DIAGONALIZE_SSSE3(v)
      [] macro = "UNDIAGONALIZE" /\ build = "SSSE3" -> UNDIAGONALIZE_SSSE3(v)
      [] macro = "DIAGONALIZE" /\ build = "AVX2" ->
           IF phase = "rows" THEN DIAGONALIZE_1(v) ELSE DIAGONALIZE_2(v)
      [] macro = "UNDIAGONALIZE" /\ build = "AVX2" ->
           IF phase = "rows" THEN UNDIAGONALIZE_1(v) ELSE UNDIAGONALIZE_2(v)
      [] macro = "DIAGONALIZE" /\ build = "AVX512" -> DIAGONALIZE_1(v)
      [] macro = "UNDIAGONALIZE" /\ build = "AVX512" -> UNDIAGONALIZE_1(v)
      [] macro = "SWAP" ->
           IF phase = "rows" THEN EachPair(v, SWAP_HALVES, RowPairs)
                             ELSE EachPair(v, SWAP_QUARTERS, ColumnPairs)
      [] macro = "UNSWAP" ->
           IF phase = "rows" THEN EachPair(v, SWAP_HALVES, RowPairs)
                             ELSE EachPair(v, UNSWAP_QUARTERS, ColumnPairs)

Shuffle ==
    /\ InRound
    /\ BLAKE2_ROUND[step] \notin {"G1", "G2"}
    /\ Returned(Shuffled(BLAKE2_ROUND[step], Given))
    /\ Advance
    /\ UNCHANGED <<build, with_xor, word, block_XY, next_block>>

(* The last loop: block_XY is xored in and the registers are stored in order. *)
Store ==
    /\ phase = "store"
    /\ phase' = "done"
    /\ next_block' = [w \in Words |->
                        LET stored == state[w \div width(build)][(w % width(build)) + 1]
                        IN  [word |-> stored, halves |-> word[stored], xor |-> block_XY]]
    /\ UNCHANGED <<build, with_xor, i, step, state, word, block_XY>>

Next == Load \/ Mix \/ Shuffle \/ Store

Spec == Init /\ [][Next]_vars

-----------------------------------------------------------------------------
(* opt.c, in every build: what is stored is the block that ref.c computes.    *)
(* Every word has been through the half rounds that ref.c puts it through,    *)
(* with the same partners, roles, order and rotations, is back in its place   *)
(* after all the shuffles, and the same blocks are xored in.                  *)
StoresReferenceBlock ==
    phase = "done" =>
        next_block = [w \in Words |->
                        [word |-> w, halves |-> fill_block_ref(w),
                         xor |-> IF with_xor THEN {"state", "ref_block", "next_block"}
                                             ELSE {"state", "ref_block"}]]
=============================================================================
