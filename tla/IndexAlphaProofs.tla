-------------------------- MODULE IndexAlphaProofs --------------------------
(* index_alpha for every number of lanes, segment length and word size: the   *)
(* uint32_t and uint64_t arithmetic never wraps, the result lies in the lane, *)
(* it is a block the Argon2 definition allows, and the properties of          *)
(* MCIndexAlpha hold of every instance.                                       *)
EXTENDS MCIndexAlpha, NaturalsInduction, WellFoundedInduction, TLAPS

-----------------------------------------------------------------------------
(* Arithmetic. *)

LEMMA ModSmall ==
    ASSUME NEW w \in Nat, NEW a \in 0 .. w - 1
    PROVE  a % w = a
  OBVIOUS

LEMMA ModOnce ==
    ASSUME NEW w \in Nat, NEW a \in w .. 2 * w - 1
    PROVE  a % w = a - w
  OBVIOUS

LEMMA TimesMonotone ==
    ASSUME NEW a \in Nat, NEW b \in Nat, NEW c \in Nat, a < b, c > 0
    PROVE  a * c < b * c
  OBVIOUS

LEMMA DivBound ==
    ASSUME NEW a \in Nat, NEW b \in Nat, NEW w \in Nat \ {0}, a < b * w
    PROVE  a \div w \in 0 .. b - 1
  OBVIOUS

(* The lane, and with it every position, fits a uint32_t. *)
LEMMA LaneFits ==
    /\ SegmentLength \in Nat /\ SegmentLength >= 2
    /\ lane_length = 4 * SegmentLength
    /\ lane_length \in Nat
    /\ Word \in Nat /\ lane_length < Word
  <1>1. lane_length \in Nat /\ lane_length = 4 * SegmentLength
    BY GeometryAssumption DEF lane_length, ARGON2_SYNC_POINTS
  <1>2. Lanes * lane_length >= lane_length
    BY <1>1, GeometryAssumption
  <1> QED
    BY <1>1, <1>2, GeometryAssumption

-----------------------------------------------------------------------------
(* The steps of index_alpha. *)

(* The subtraction in reference_area_size never wraps: the area is never      *)
(* empty, and smaller than the lane.                                          *)
AreaValue(p, same) ==
    LET current == IF same THEN p.index - 1
                           ELSE IF p.index = 0 THEN -1 ELSE 0
    IN  IF p.pass = 0
        THEN IF p.slice = 0 THEN p.index - 1
                            ELSE p.slice * SegmentLength + current
        ELSE 3 * SegmentLength + current

LEMMA AreaRange ==
    ASSUME NEW p \in [pass : Nat, slice : Slices,
                      index : 0 .. SegmentLength - 1],
           NEW same \in BOOLEAN,
           p.index >= starting_index(p.pass, p.slice),
           p.pass = 0 /\ p.slice = 0 => same
    PROVE  /\ reference_area_size(p.pass, p.slice, p.index, same)
                  = AreaValue(p, same)
           /\ AreaValue(p, same) \in 1 .. lane_length - 2
  <1> DEFINE a == AreaValue(p, same)
  <1>1. p.slice \in {0, 1, 2, 3} /\ p.pass \in Nat
        /\ p.index \in 0 .. SegmentLength - 1
    BY DEF Slices, ARGON2_SYNC_POINTS
  <1>2. a \in 1 .. lane_length - 2
    <2>1. CASE p.pass = 0 /\ p.slice = 0
      BY <1>1, <2>1, LaneFits DEF AreaValue, starting_index
    <2>2. CASE p.pass = 0 /\ p.slice # 0
      <3>1. p.slice * SegmentLength \in {SegmentLength, 2 * SegmentLength,
                                         3 * SegmentLength}
        BY <1>1, <2>2, LaneFits
      <3> QED BY <1>1, <2>2, <3>1, LaneFits DEF AreaValue
    <2>3. CASE p.pass # 0
      BY <1>1, <2>3, LaneFits DEF AreaValue
    <2> QED BY <2>1, <2>2, <2>3
  <1>3. reference_area_size(p.pass, p.slice, p.index, same) = a % Word
    BY <1>1, LaneFits
    DEF reference_area_size, AreaValue, area_current, minus_one_at_zero, U32
  <1>4. a \in 0 .. Word - 1
    BY <1>2, LaneFits
  <1>5. a % Word = a
    BY <1>4, ModSmall, LaneFits
  <1> QED BY <1>2, <1>3, <1>5

(* How far from the youngest block of the area a value of x leads. *)
Back(a, x) == (a * ((x * x) \div Word)) \div Word

(* The two products fit a uint64_t, and the result is inside the area. *)
LEMMA RelativeRange ==
    ASSUME NEW a \in 1 .. Word - 1, NEW x \in 0 .. Word - 1
    PROVE  /\ relative_position(a, x) \in 0 .. a - 1
           /\ Back(a, x) \in 0 .. a - 1 /\ relative_position(a, x) = a - 1 - Back(a, x)
  <1> DEFINE y == (x * x) \div Word
             z == (a * y) \div Word
  <1>0. Word \in Nat \ {0} /\ a \in Nat /\ x \in Nat
    BY LaneFits
  <1>1. y \in 0 .. Word - 1
    <2>1. x * x \in Nat /\ x * x < Word * Word
      BY <1>0
    <2> QED BY <1>0, <2>1, DivBound
  <1>2. z \in 0 .. a - 1
    <2>1. y * a < Word * a
      BY <1>0, <1>1, TimesMonotone
    <2>2. a * y \in Nat /\ a * y < a * Word
      BY <1>0, <1>1, <2>1
    <2> HIDE DEF y
    <2> QED BY <1>0, <2>2, DivBound
  <1>3. relative_position(a, x) = (a - 1 - z) % (Word * Word)
    BY DEF relative_position
  <1>4. Word <= Word * Word /\ Word * Word \in Nat
    BY <1>0
  <1> HIDE DEF z
  <1>5. a - 1 - z \in 0 .. a - 1
    BY <1>0, <1>2
  <1>6. a - 1 - z \in 0 .. (Word * Word) - 1
    BY <1>0, <1>4, <1>5
  <1>7. (a - 1 - z) % (Word * Word) = a - 1 - z
    BY <1>4, <1>6, ModSmall
  <1>8. Back(a, x) = z
    BY DEF Back, z
  <1> QED BY <1>2, <1>3, <1>5, <1>7, <1>8

(* The window of offsets that reference blocks come from. *)
LEMMA IndexAlphaRange ==
    ASSUME NEW p \in [pass : Nat, slice : Slices,
                      index : 0 .. SegmentLength - 1],
           NEW same \in BOOLEAN,
           p.index >= starting_index(p.pass, p.slice),
           p.pass = 0 /\ p.slice = 0 => same,
           NEW x \in 0 .. Word - 1
    PROVE  \E rel \in 0 .. AreaValue(p, same) - 1 :
              LET o == IF p.pass = 0 THEN rel
                       ELSE IF (p.slice + 1) * SegmentLength + rel < lane_length
                       THEN (p.slice + 1) * SegmentLength + rel
                       ELSE (p.slice + 1) * SegmentLength + rel - lane_length
              IN  /\ index_alpha(p.pass, p.slice, p.index, x, same) = o
                  /\ o \in Offsets /\ rel = relative_position(AreaValue(p, same), x)
  <1> DEFINE a == AreaValue(p, same)
             rel == relative_position(a, x)
             start == start_position(p.pass, p.slice)
  <1>1. /\ reference_area_size(p.pass, p.slice, p.index, same) = a
        /\ a \in 1 .. lane_length - 2
    BY AreaRange
  <1>2. rel \in 0 .. a - 1
    <2>1. a \in 1 .. Word - 1
      BY <1>1, LaneFits
    <2> HIDE DEF a
    <2> QED BY <2>1, RelativeRange
  <1>3. index_alpha(p.pass, p.slice, p.index, x, same)
            = (start + rel) % lane_length
    BY <1>1 DEF index_alpha
  <1>4. /\ start \in 0 .. 3 * SegmentLength
        /\ p.pass = 0 => start = 0
        /\ p.pass # 0 /\ p.slice # 3 => start = (p.slice + 1) * SegmentLength
        /\ p.pass # 0 /\ p.slice = 3 =>
              start = 0 /\ (p.slice + 1) * SegmentLength = lane_length
        /\ (p.slice + 1) * SegmentLength \in Nat
        /\ p.slice # 3 => (p.slice + 1) * SegmentLength <= 3 * SegmentLength
    <2>1. p.slice \in {0, 1, 2, 3}
      BY DEF Slices, ARGON2_SYNC_POINTS
    <2> QED BY <2>1, LaneFits DEF start_position, ARGON2_SYNC_POINTS
  <1> HIDE DEF a, rel, start
  <1>5. start + rel \in 0 .. 2 * lane_length - 1
    BY <1>1, <1>2, <1>4, LaneFits
  <1>6. (start + rel) % lane_length
            = IF start + rel < lane_length THEN start + rel
                                           ELSE (start + rel) - lane_length
    <2>1. CASE start + rel < lane_length
      BY <1>5, <2>1, ModSmall, LaneFits
    <2>2. CASE ~(start + rel < lane_length)
      <3>1. start + rel \in lane_length .. 2 * lane_length - 1
        BY <1>5, <2>2, LaneFits
      <3> DEFINE t == start + rel
      <3>2. lane_length \in Nat /\ t \in lane_length .. 2 * lane_length - 1
        BY <3>1, LaneFits
      <3> HIDE DEF t
      <3>3. t % lane_length = t - lane_length
        BY <3>2, ModOnce
      <3> QED BY <2>2, <3>2, <3>3, Zenon DEF t
    <2> QED BY <2>1, <2>2
  <1>7. rel \in 0 .. AreaValue(p, same) - 1
    BY <1>2 DEF a
  <1>8. a \in 1 .. lane_length - 2 /\ rel \in 0 .. a - 1 /\ rel \in Int
    BY <1>1, <1>2
  <1>9. /\ index_alpha(p.pass, p.slice, p.index, x, same)
              = (IF p.pass = 0 THEN rel
                 ELSE IF (p.slice + 1) * SegmentLength + rel < lane_length
                 THEN (p.slice + 1) * SegmentLength + rel
                 ELSE (p.slice + 1) * SegmentLength + rel - lane_length)
        /\ index_alpha(p.pass, p.slice, p.index, x, same) \in 0 .. lane_length - 1
    <2>1. CASE p.pass = 0
      BY <2>1, <1>3, <1>4, <1>6, <1>8, LaneFits
    <2>2. CASE p.pass # 0 /\ p.slice # 3
      BY <2>2, <1>3, <1>4, <1>5, <1>6, <1>8, LaneFits
    <2>3. CASE p.pass # 0 /\ p.slice = 3
      BY <2>3, <1>3, <1>4, <1>5, <1>6, <1>8, LaneFits
    <2> QED BY <2>1, <2>2, <2>3
  <1>10. rel = relative_position(AreaValue(p, same), x)
    BY DEF rel, a
  <1> QED
    BY <1>7, <1>9, <1>10 DEF Offsets

(* index_alpha selects from the reference set of the Argon2 definition. *)
LEMMA IndexAlphaSound ==
    ASSUME NEW p \in [pass : Nat, slice : Slices,
                      index : 0 .. SegmentLength - 1],
           NEW same \in BOOLEAN,
           p.index >= starting_index(p.pass, p.slice),
           p.pass = 0 /\ p.slice = 0 => same,
           NEW x \in 0 .. Word - 1
    PROVE  index_alpha(p.pass, p.slice, p.index, x, same)
              \in ReferenceSet(p, same)
  <1> DEFINE a == AreaValue(p, same)
             o == index_alpha(p.pass, p.slice, p.index, x, same)
             base == p.slice * SegmentLength
             c == curr_offset(p)
  <1>1. PICK rel \in 0 .. a - 1 :
            /\ o = (IF p.pass = 0 THEN rel
                    ELSE IF (p.slice + 1) * SegmentLength + rel < lane_length
                    THEN (p.slice + 1) * SegmentLength + rel
                    ELSE (p.slice + 1) * SegmentLength + rel - lane_length)
            /\ o \in Offsets
    BY IndexAlphaRange
  <1>2. /\ base \in {0, SegmentLength, 2 * SegmentLength, 3 * SegmentLength}
        /\ (p.slice + 1) * SegmentLength = base + SegmentLength
        /\ p.slice = 0 <=> base = 0
        /\ c = base + p.index
    <2>1. p.slice \in {0, 1, 2, 3}
      BY DEF Slices, ARGON2_SYNC_POINTS
    <2> QED BY <2>1, LaneFits DEF curr_offset
  <1>3. a \in 1 .. lane_length - 2
    BY AreaRange
  <1>4. a = IF p.pass = 0
            THEN IF base = 0 THEN p.index - 1
                 ELSE base + (IF same THEN p.index - 1
                              ELSE IF p.index = 0 THEN -1 ELSE 0)
            ELSE 3 * SegmentLength + (IF same THEN p.index - 1
                                      ELSE IF p.index = 0 THEN -1 ELSE 0)
    BY <1>2 DEF AreaValue
  <1>5. p.index \in 0 .. SegmentLength - 1 /\ rel \in Int
    OBVIOUS
  <1> HIDE DEF a, o, base, c
  <1>6. /\ o \in Int /\ 0 <= o /\ o < lane_length
        /\ p.pass = 0 => o < base \/ (same /\ o < c)
        /\ p.pass # 0 => ~(base <= o /\ o < base + SegmentLength)
                         \/ (same /\ base <= o /\ o < c)
    BY <1>1, <1>2, <1>3, <1>4, <1>5, LaneFits DEF Offsets
  <1>7. same \/ p.index = 0 => o # predecessor(c)
    BY <1>1, <1>2, <1>3, <1>4, <1>5, LaneFits DEF Offsets, predecessor
  <1>8. \/ p.pass = 0 /\ o \in 0 .. base - 1
        \/ p.pass # 0 /\ o \in Offsets \ InSlice(p.slice)
        \/ same /\ o \in base .. c - 1
    BY <1>1, <1>2, <1>6, LaneFits DEF InSlice, base
  <1> QED
    BY <1>7, <1>8 DEF ReferenceSet, base, c, o

-----------------------------------------------------------------------------
(* Division *)

LEMMA DivSpan ==
    ASSUME NEW a \in Nat, NEW w \in Nat \ {0}, NEW q, q = a \div w
    PROVE  q \in Nat /\ q * w <= a /\ a < (q + 1) * w
  OBVIOUS

LEMMA DivBelow ==
    ASSUME NEW a \in Nat, NEW b \in Nat, NEW w \in Nat \ {0}, a < (b + 1) * w
    PROVE  a \div w <= b
  <1>1. b + 1 \in Nat
    OBVIOUS
  <1>2. PICK c \in Nat : c = b + 1
    BY <1>1
  <1>3. a \div w \in 0 .. c - 1
    BY <1>2, DivBound
  <1> QED BY <1>2, <1>3

LEMMA DivAbove ==
    ASSUME NEW a \in Nat, NEW b \in Nat, NEW w \in Nat \ {0}, b * w <= a
    PROVE  b <= a \div w
  <1>1. PICK q \in Nat : q = a \div w /\ a < (q + 1) * w
    BY DivSpan
  <1>2. CASE q < b
    <2>1. PICK c \in Nat : c = q + 1
      OBVIOUS
    <2>2. c = b \/ c < b
      BY <1>2, <2>1
    <2>3. c * w <= b * w
      <3>1. CASE c = b
        BY <3>1
      <3>2. CASE c < b
        BY <3>2, TimesMonotone
      <3> QED BY <2>2, <3>1, <3>2
    <2>4. b * w \in Nat /\ c * w \in Nat
      OBVIOUS
    <2> QED BY <1>1, <2>1, <2>3, <2>4
  <1> QED BY <1>1, <1>2

LEMMA DivMonotone ==
    ASSUME NEW a \in Nat, NEW b \in Nat, NEW w \in Nat \ {0}, a <= b
    PROVE  a \div w <= b \div w
  <1>1. PICK q \in Nat : q = b \div w /\ b < (q + 1) * w
    BY DivSpan
  <1>2. PICK t : t = (q + 1) * w
    OBVIOUS
  <1>3. t \in Nat
    BY <1>2
  <1>4. a < t
    BY <1>1, <1>2, <1>3
  <1>5. a \div w <= q
    BY <1>2, <1>4, DivBelow
  <1> QED BY <1>1, <1>5

LEMMA TimesOrdered ==
    ASSUME NEW a \in Nat, NEW b \in Nat, NEW c \in Nat, a <= b
    PROVE  c * a <= c * b /\ c * a \in Nat /\ c * b \in Nat
  OBVIOUS

-----------------------------------------------------------------------------
(* How far index_alpha goes back grows with pseudo_rand, from nothing to all  *)
(* of the area and without gaps.                                              *)

LEMMA Squares ==
    ASSUME NEW x \in Nat, NEW y \in Nat, x <= y
    PROVE  x * x <= y * y /\ x * x \in Nat /\ y * y \in Nat
  <1>1. x * x <= x * y /\ x * y \in Nat
    BY TimesOrdered
  <1>2. y * x <= y * y
    BY TimesOrdered
  <1>3. x * y = y * x
    OBVIOUS
  <1> QED BY <1>1, <1>2, <1>3

LEMMA BackGrows ==
    ASSUME NEW a \in Nat, NEW x \in Nat, NEW y \in Nat, x <= y
    PROVE  Back(a, x) <= Back(a, y)
  <1>1. Word \in Nat \ {0}
    BY LaneFits
  <1>2. PICK s, t : s = x * x /\ t = y * y
    OBVIOUS
  <1>3. s \in Nat /\ t \in Nat /\ s <= t
    BY <1>2, Squares
  <1>4. PICK k, l : k = s \div Word /\ l = t \div Word
    OBVIOUS
  <1>5. k \in Nat /\ l \in Nat /\ k <= l
    BY <1>1, <1>3, <1>4, DivSpan, DivMonotone
  <1>6. PICK u, v : u = a * k /\ v = a * l
    OBVIOUS
  <1>7. u \in Nat /\ v \in Nat /\ u <= v
    BY <1>5, <1>6, TimesOrdered
  <1>8. u \div Word <= v \div Word
    BY <1>1, <1>7, DivMonotone
  <1> QED BY <1>2, <1>4, <1>6, <1>8 DEF Back

(* One more moves at most one block further, if the area is at most half of   *)
(* what 32 bits can tell apart.                                               *)
LEMMA BackBySteps ==
    ASSUME NEW a \in Nat, 2 * a <= Word, NEW x \in Nat, x + 1 < Word
    PROVE  Back(a, x + 1) <= Back(a, x) + 1
  <1>1. Word \in Nat \ {0}
    BY LaneFits
  <1>2. PICK s, t : s = x * x /\ t = (x + 1) * (x + 1)
    OBVIOUS
  <1>3. s \in Nat /\ t \in Nat /\ t = s + 2 * x + 1
    BY <1>2
  <1>4. PICK k \in Nat : k = s \div Word /\ s < (k + 1) * Word
    BY <1>1, <1>3, DivSpan
  <1>5. PICK l : l = t \div Word
    OBVIOUS
  <1>6. l <= k + 2 /\ l \in Nat
    <2>1. ((k + 2) + 1) * Word = (k + 1) * Word + 2 * Word
      BY <1>1
    <2>2. PICK m, n : m = (k + 1) * Word /\ n = ((k + 2) + 1) * Word
      OBVIOUS
    <2>3. m \in Nat /\ n \in Nat /\ n = m + 2 * Word /\ s < m
      BY <1>1, <1>4, <2>1, <2>2
    <2>4. t < n
      BY <1>1, <1>3, <2>3
    <2>5. k + 2 \in Nat
      OBVIOUS
    <2>6. t \div Word <= k + 2
      BY <1>1, <1>3, <2>2, <2>4, <2>5, DivBelow
    <2>7. l \in Nat
      BY <1>1, <1>3, <1>5, DivSpan
    <2> QED BY <1>5, <2>6, <2>7
  <1>7. PICK u, v : u = a * k /\ v = a * l
    OBVIOUS
  <1>8. u \in Nat /\ v \in Nat /\ v <= u + Word
    <2>1. a * l <= a * (k + 2) /\ v \in Nat
      BY <1>6, <1>7, TimesOrdered
    <2>2. a * (k + 2) = a * k + 2 * a
      OBVIOUS
    <2>3. u \in Nat
      BY <1>7
    <2> QED BY <1>1, <1>7, <2>1, <2>2, <2>3
  <1>9. PICK z \in Nat : z = u \div Word /\ u < (z + 1) * Word
    BY <1>1, <1>8, DivSpan
  <1>10. v \div Word <= z + 1
    <2>1. ((z + 1) + 1) * Word = (z + 1) * Word + Word
      BY <1>1
    <2>2. PICK m, n : m = (z + 1) * Word /\ n = ((z + 1) + 1) * Word
      OBVIOUS
    <2>3. m \in Nat /\ n \in Nat /\ n = m + Word /\ u < m
      BY <1>1, <1>9, <2>1, <2>2
    <2>4. v < n
      BY <1>1, <1>8, <2>3
    <2>5. z + 1 \in Nat
      OBVIOUS
    <2> QED BY <1>1, <1>8, <2>2, <2>4, <2>5, DivBelow
  <1>11. Back(a, x) = z /\ Back(a, x + 1) = v \div Word
    BY <1>2, <1>4, <1>5, <1>7, <1>9 DEF Back
  <1> QED BY <1>10, <1>11

LEMMA BackEnds ==
    ASSUME NEW a \in Nat \ {0}, 2 * a <= Word
    PROVE  Back(a, 0) = 0 /\ Back(a, Word - 1) >= a - 1
  <1>1. Word \in Nat \ {0} /\ Word >= 2
    BY LaneFits
  <1>2. Back(a, 0) = 0
    <2>1. 0 \div Word = 0
      BY <1>1
    <2>2. 0 * 0 = 0 /\ a * 0 = 0
      OBVIOUS
    <2> QED BY <2>1, <2>2 DEF Back
  <1>3. PICK s : s = (Word - 1) * (Word - 1)
    OBVIOUS
  <1>4. s \in Nat /\ s = (Word - 2) * Word + 1
    BY <1>1, <1>3
  <1>5. PICK k : k = s \div Word
    OBVIOUS
  <1>6. k \in Nat /\ Word - 2 <= k
    <2>1. PICK b \in Nat : b = Word - 2
      BY <1>1
    <2>2. PICK m : m = b * Word
      OBVIOUS
    <2>3. m \in Nat
      BY <1>1, <2>2
    <2>4. m <= s
      BY <1>4, <2>1, <2>2, <2>3
    <2>5. b <= s \div Word
      BY <1>1, <1>4, <2>2, <2>4, DivAbove
    <2> QED BY <1>1, <1>4, <1>5, <2>1, <2>5, DivSpan
  <1>7. PICK u : u = a * k
    OBVIOUS
  <1>8. u \in Nat /\ (a - 1) * Word <= u
    <2>1. Word - 2 \in Nat
      BY <1>1
    <2>2. a * (Word - 2) <= a * k /\ a * k \in Nat
      BY <1>6, <2>1, TimesOrdered
    <2>3. a * (Word - 2) = a * Word - 2 * a
      BY <1>1
    <2>4. (a - 1) * Word = a * Word - Word
      BY <1>1
    <2>5. PICK m : m = a * Word
      OBVIOUS
    <2>6. m \in Nat
      BY <1>1, <2>5
    <2> QED BY <1>1, <1>7, <2>2, <2>3, <2>4, <2>5, <2>6
  <1>9. a - 1 <= u \div Word
    BY <1>1, <1>8, DivAbove
  <1>10. Back(a, Word - 1) = u \div Word
    BY <1>3, <1>5, <1>7 DEF Back
  <1>11. u \div Word \in Nat
    BY <1>1, <1>8, DivSpan
  <1> QED BY <1>2, <1>9, <1>10, <1>11

(* A set of naturals has a least element. *)
LEMMA LeastNumber ==
    ASSUME NEW S, S \subseteq Nat, S # {}
    PROVE  \E n \in S : \A m \in S : n <= m
  <1> DEFINE R == {p \in Nat \X Nat : p[1] < p[2]}
  <1>1. IsWellFoundedOn(R, Nat)
    BY NatLessThanWellFounded, Zenon DEF OpToRel
  <1> HIDE DEF R
  <1>2. PICK n \in S : \A m \in S : ~(<<m, n>> \in R)
    BY <1>1, WFMin, Zenon
  <1>3. ASSUME NEW m \in S PROVE n <= m
    <2>1. n \in Nat /\ m \in Nat /\ <<m, n>> \notin R
      BY <1>2
    <2> QED BY <2>1 DEF R
  <1> QED BY <1>3

LEMMA BackOnto ==
    ASSUME NEW a \in 1 .. Word - 1, 2 * a <= Word, NEW k \in 0 .. a - 1
    PROVE  \E x \in 0 .. Word - 1 : Back(a, x) = k
  <1>1. Word \in Nat \ {0} /\ a \in Nat \ {0}
    BY LaneFits
  <1>2. \A x \in 0 .. Word - 1 : Back(a, x) \in Nat
    BY RelativeRange
  <1>3. PICK S : S = {x \in 0 .. Word - 1 : Back(a, x) >= k}
    OBVIOUS
  <1>4. S \subseteq Nat /\ Word - 1 \in S
    <2>1. Word - 1 \in 0 .. Word - 1
      BY <1>1
    <2>2. Back(a, Word - 1) >= a - 1 /\ Back(a, Word - 1) \in Nat
      BY <1>1, <1>2, <2>1, BackEnds
    <2> QED BY <1>1, <1>3, <2>1, <2>2
  <1>5. PICK x \in S : \A y \in S : x <= y
    BY <1>4, LeastNumber
  <1>6. x \in 0 .. Word - 1 /\ Back(a, x) >= k /\ Back(a, x) \in Nat
    BY <1>2, <1>3, <1>5
  <1>7. CASE x = 0
    BY <1>1, <1>6, <1>7, BackEnds
  <1>8. CASE x # 0
    <2>1. PICK y \in 0 .. Word - 1 : y + 1 = x
      BY <1>1, <1>6, <1>8
    <2>2. Back(a, y) \in Nat /\ ~ (Back(a, y) >= k)
      BY <1>2, <1>3, <1>5, <2>1
    <2>3. Back(a, x) <= Back(a, y) + 1
      <3>1. y \in Nat /\ y + 1 < Word
        BY <1>1, <1>6, <2>1
      <3> QED BY <1>1, <2>1, <3>1, BackBySteps
    <2>4. Back(a, x) = k
      BY <1>6, <2>2, <2>3
    <2> QED BY <1>6, <2>4
  <1> QED BY <1>7, <1>8

-----------------------------------------------------------------------------
(* The window of the area, from its oldest block, and the reference set. *)
Window(p, rel) ==
    IF p.pass = 0 THEN rel
    ELSE IF (p.slice + 1) * SegmentLength + rel < lane_length
    THEN (p.slice + 1) * SegmentLength + rel
    ELSE (p.slice + 1) * SegmentLength + rel - lane_length

Place(p, same) ==
    /\ p \in [pass : Nat, slice : Slices, index : 0 .. SegmentLength - 1]
    /\ same \in BOOLEAN
    /\ p.index >= starting_index(p.pass, p.slice)
    /\ p.pass = 0 /\ p.slice = 0 => same

LEMMA Geometry ==
    ASSUME NEW p, NEW same, Place(p, same), NEW a, NEW base, NEW c,
           a = AreaValue(p, same), base = p.slice * SegmentLength, c = curr_offset(p)
    PROVE  /\ base \in {0, SegmentLength, 2 * SegmentLength, 3 * SegmentLength}
           /\ (p.slice + 1) * SegmentLength = base + SegmentLength
           /\ p.slice = 0 <=> base = 0
           /\ c = base + p.index /\ p.index \in 0 .. SegmentLength - 1
           /\ p.pass = 0 /\ base = 0 => p.index >= 2 /\ same
           /\ a \in 1 .. lane_length - 2
           /\ a = IF p.pass = 0
                  THEN IF base = 0 THEN p.index - 1
                       ELSE base + (IF same THEN p.index - 1
                                    ELSE IF p.index = 0 THEN -1 ELSE 0)
                  ELSE 3 * SegmentLength + (IF same THEN p.index - 1
                                            ELSE IF p.index = 0 THEN -1 ELSE 0)
  <1>1. p.slice \in {0, 1, 2, 3} /\ p.index \in 0 .. SegmentLength - 1
    BY DEF Place, Slices, ARGON2_SYNC_POINTS
  <1>2. /\ base \in {0, SegmentLength, 2 * SegmentLength, 3 * SegmentLength}
        /\ (p.slice + 1) * SegmentLength = base + SegmentLength
        /\ p.slice = 0 <=> base = 0
        /\ c = base + p.index
    BY <1>1, LaneFits DEF curr_offset
  <1>3. a \in 1 .. lane_length - 2
    BY AreaRange DEF Place
  <1>4. p.pass = 0 /\ base = 0 => p.index >= 2 /\ same
    BY <1>2 DEF Place, starting_index
  <1>5. a = IF p.pass = 0
            THEN IF base = 0 THEN p.index - 1
                 ELSE base + (IF same THEN p.index - 1
                              ELSE IF p.index = 0 THEN -1 ELSE 0)
            ELSE 3 * SegmentLength + (IF same THEN p.index - 1
                                      ELSE IF p.index = 0 THEN -1 ELSE 0)
    BY <1>2 DEF AreaValue
  <1> QED BY <1>1, <1>2, <1>3, <1>4, <1>5

(* index_alpha, for a given value. *)
LEMMA IndexAlphaIs ==
    ASSUME NEW p, NEW same, Place(p, same), NEW x \in 0 .. Word - 1,
           NEW a, a = AreaValue(p, same)
    PROVE  /\ a \in 1 .. Word - 1 /\ Back(a, x) \in 0 .. a - 1
           /\ index_alpha(p.pass, p.slice, p.index, x, same) = Window(p, a - 1 - Back(a, x))
  <1>1. a \in 1 .. Word - 1
    BY AreaRange, LaneFits DEF Place
  <1>2. Back(a, x) \in 0 .. a - 1 /\ relative_position(a, x) = a - 1 - Back(a, x)
    BY <1>1, RelativeRange
  <1>3. index_alpha(p.pass, p.slice, p.index, x, same) = Window(p, relative_position(a, x))
    BY IndexAlphaRange DEF Place, Window
  <1> QED BY <1>1, <1>2, <1>3

LEMMA WindowCovers ==
    ASSUME NEW p, NEW same, Place(p, same), NEW o \in ReferenceSet(p, same),
           NEW a, a = AreaValue(p, same)
    PROVE  \E rel \in 0 .. a - 1 : Window(p, rel) = o
  <1>1. PICK base, c, i, s, l : /\ base = p.slice * SegmentLength /\ c = curr_offset(p)
                                /\ i = p.index /\ s = SegmentLength /\ l = lane_length
    OBVIOUS
  <1>2. /\ base \in {0, s, 2 * s, 3 * s}
        /\ (p.slice + 1) * SegmentLength = base + s
        /\ c = base + i /\ i \in 0 .. s - 1
        /\ p.pass = 0 /\ base = 0 => i >= 2 /\ same
        /\ a \in 1 .. l - 2
        /\ a = IF p.pass = 0
               THEN IF base = 0 THEN i - 1
                    ELSE base + (IF same THEN i - 1 ELSE IF i = 0 THEN -1 ELSE 0)
               ELSE 3 * s + (IF same THEN i - 1 ELSE IF i = 0 THEN -1 ELSE 0)
    BY <1>1, Geometry
  <1>3. s \in Nat /\ s >= 2 /\ l = 4 * s
    BY <1>1, LaneFits
  <1>4. /\ \/ p.pass = 0 /\ o \in 0 .. base - 1
           \/ p.pass # 0 /\ o \in (0 .. l - 1) \ (base .. (base + s) - 1)
           \/ same /\ o \in base .. c - 1
        /\ same \/ i = 0 => o # (IF c = 0 THEN l - 1 ELSE c - 1)
    BY <1>1, <1>2 DEF ReferenceSet, Offsets, InSlice, predecessor
  <1>5. same \in BOOLEAN
    BY DEF Place
  <1>6. CASE p.pass = 0
    <2>1. o \in 0 .. a - 1
      BY <1>2, <1>3, <1>4, <1>5, <1>6
    <2> QED BY <1>6, <2>1 DEF Window
  <1>7. CASE p.pass # 0 /\ o < base + s
    <2>1. o \in Int /\ o + l - (base + s) \in 0 .. a - 1
      BY <1>2, <1>3, <1>4, <1>5, <1>7
    <2>2. PICK rel \in 0 .. a - 1 : rel = o + l - (base + s)
      BY <2>1
    <2>3. Window(p, rel) = o
      BY <1>1, <1>2, <1>3, <1>4, <1>7, <2>1, <2>2 DEF Window
    <2> QED BY <2>3
  <1>8. CASE p.pass # 0 /\ ~ (o < base + s)
    <2>1. o \in Int /\ o - (base + s) \in 0 .. a - 1
      BY <1>2, <1>3, <1>4, <1>5, <1>8
    <2>2. PICK rel \in 0 .. a - 1 : rel = o - (base + s)
      BY <2>1
    <2>3. Window(p, rel) = o
      BY <1>1, <1>2, <1>3, <1>4, <1>8, <2>1, <2>2 DEF Window
    <2> QED BY <2>3
  <1> QED BY <1>6, <1>7, <1>8

LEMMA ModOnceBelow ==
    ASSUME NEW w \in Nat, NEW a \in 0 .. w - 1
    PROVE  (a - w) % w = a
  OBVIOUS

(* The age of a block of the window. *)
Oldest(p) == IF p.pass = 0 THEN curr_offset(p) - 1 ELSE 3 * SegmentLength + p.index - 1

LEMMA WindowAge ==
    ASSUME NEW p, NEW same, Place(p, same), NEW rel, rel \in 0 .. AreaValue(p, same) - 1
    PROVE  (curr_offset(p) - Window(p, rel) - 1) % lane_length = Oldest(p) - rel
  <1>1. PICK base, c, i, s, l, a : /\ base = p.slice * SegmentLength /\ c = curr_offset(p)
                                   /\ i = p.index /\ s = SegmentLength /\ l = lane_length
                                   /\ a = AreaValue(p, same)
    OBVIOUS
  <1>2. /\ base \in {0, s, 2 * s, 3 * s}
        /\ (p.slice + 1) * SegmentLength = base + s
        /\ c = base + i /\ i \in 0 .. s - 1
        /\ p.pass = 0 /\ base = 0 => i >= 2 /\ same
        /\ a \in 1 .. l - 2
        /\ a = IF p.pass = 0
               THEN IF base = 0 THEN i - 1
                    ELSE base + (IF same THEN i - 1 ELSE IF i = 0 THEN -1 ELSE 0)
               ELSE 3 * s + (IF same THEN i - 1 ELSE IF i = 0 THEN -1 ELSE 0)
    BY <1>1, Geometry
  <1>3. s \in Nat /\ s >= 2 /\ l = 4 * s /\ l \in Nat /\ rel \in 0 .. a - 1
    BY <1>1, LaneFits
  <1>4. PICK w, n : w = Window(p, rel) /\ n = Oldest(p) - rel
    OBVIOUS
  <1>5. same \in BOOLEAN
    BY DEF Place
  <1>6. /\ n = (IF p.pass = 0 THEN c - 1 ELSE 3 * s + i - 1) - rel
        /\ w = IF p.pass = 0 THEN rel
               ELSE IF (base + s) + rel < l THEN (base + s) + rel
               ELSE (base + s) + rel - l
    BY <1>1, <1>2, <1>4 DEF Oldest, Window
  <1>7. n \in 0 .. l - 1
    <2>1. CASE p.pass = 0
      BY ONLY <1>2, <1>3, <1>5, <1>6, <2>1
    <2>2. CASE p.pass # 0
      BY ONLY <1>2, <1>3, <1>5, <1>6, <2>2
    <2> QED BY <2>1, <2>2
  <1>8. c - w - 1 = n \/ c - w - 1 = n - l
    <2>1. CASE p.pass = 0
      BY ONLY <1>2, <1>3, <1>6, <2>1
    <2>2. CASE p.pass # 0
      BY ONLY <1>2, <1>3, <1>6, <2>2
    <2> QED BY <2>1, <2>2
  <1>9. n % l = n /\ (n - l) % l = n
    <2>1. l \in Nat /\ n \in 0 .. l - 1
      BY <1>3, <1>7
    <2>2. n % l = n
      BY ONLY <2>1, ModSmall
    <2>3. (n - l) % l = n
      BY ONLY <2>1, ModOnceBelow
    <2> QED BY <2>2, <2>3
  <1> QED BY <1>1, <1>4, <1>8, <1>9

-----------------------------------------------------------------------------
(* What the steps through the values of pseudo_rand keep. *)
Walk ==
    /\ point \in Points /\ same_lane \in SameLaneChoices(point)
    /\ pseudo_rand \in 0 .. Word - 1

LEMMA WalkHolds == AlphaSpec => []Walk
  <1>1. AlphaInit => Walk
    BY LaneFits DEF AlphaInit, Walk
  <1>2. Walk /\ [AlphaNext]_alphaVars => Walk'
    BY LaneFits DEF AlphaNext, alphaVars, Walk
  <1> QED BY <1>1, <1>2, PTL DEF AlphaSpec

LEMMA WalkPlace ==
    ASSUME Walk
    PROVE  Place(point, same_lane)
  <1>1. /\ point \in [pass : Nat, slice : Slices, index : 0 .. SegmentLength - 1]
        /\ point.index >= starting_index(point.pass, point.slice)
    BY DEF Walk, Points
  <1>2. same_lane \in BOOLEAN /\ (point.pass = 0 /\ point.slice = 0 => same_lane)
    BY DEF Walk, SameLaneChoices
  <1> QED BY <1>1, <1>2 DEF Place

(* index_alpha returns an allowed block at every point of the matrix and for  *)
(* every pseudo-random value, for all lanes, segment lengths and word sizes.  *)
THEOREM ReferenceAlwaysAllowed == AlphaSpec => []ReferenceAllowed
  <1>1. Walk => ReferenceAllowed
    <2> SUFFICES ASSUME Walk
                 PROVE  Reference(pseudo_rand) \in ReferenceSet(point, same_lane)
      BY DEF ReferenceAllowed
    <2>1. Place(point, same_lane) /\ pseudo_rand \in 0 .. Word - 1
      BY WalkPlace DEF Walk
    <2> QED BY <2>1, IndexAlphaSound DEF Place, Reference
  <1> QED BY <1>1, WalkHolds, PTL

(* Every block that the Argon2 definition allows is selected for some value   *)
(* of the random bits, provided that the lane is at most half as long as      *)
(* there are values: index_alpha leaves no gap.                               *)
THEOREM NoReferenceLost ==
    ASSUME 2 * lane_length <= Word
    PROVE  AlphaSpec => []EveryReferenceReachable
  <1>1. Walk => EveryReferenceReachable
    <2> SUFFICES ASSUME Walk, NEW o \in ReferenceSet(point, same_lane)
                 PROVE  \E x \in 0 .. Word - 1 : Reference(x) = o
      BY DEF EveryReferenceReachable
    <2>1. Place(point, same_lane)
      BY WalkPlace
    <2>2. PICK a : a = AreaValue(point, same_lane)
      OBVIOUS
    <2>3. a \in 1 .. lane_length - 2
      BY <2>1, <2>2, AreaRange DEF Place
    <2>4. a \in 1 .. Word - 1 /\ 2 * a <= Word
      BY <2>3, LaneFits
    <2>5. PICK rel \in 0 .. a - 1 : Window(point, rel) = o
      BY <2>1, <2>2, WindowCovers
    <2>6. PICK k \in 0 .. a - 1 : a - 1 - k = rel
      <3>1. a - 1 - rel \in 0 .. a - 1 /\ a - 1 - (a - 1 - rel) = rel
        BY <2>4, <2>5
      <3> QED BY <3>1
    <2>7. PICK x \in 0 .. Word - 1 : Back(a, x) = k
      BY <2>4, BackOnto
    <2>8. Reference(x) = Window(point, a - 1 - Back(a, x))
      BY <2>1, <2>2, IndexAlphaIs DEF Reference
    <2> QED BY <2>5, <2>6, <2>7, <2>8
  <1> QED BY <1>1, WalkHolds, PTL

(* A larger value of the random bits never selects a younger block, for all   *)
(* lanes, segment lengths and word sizes.                                     *)
THEOREM AlwaysOlder == AlphaSpec => LargerIsOlder
  <1>1. Walk /\ Walk' /\ [AlphaNext]_alphaVars
          => [Age(Reference(pseudo_rand')) >= Age(Reference(pseudo_rand))]_alphaVars
    <2> SUFFICES ASSUME Walk, Walk', AlphaNext
                 PROVE  Age(Reference(pseudo_rand')) >= Age(Reference(pseudo_rand))
      OBVIOUS
    <2>1. Place(point, same_lane)
      BY WalkPlace
    <2>2. PICK a, x, y : /\ a = AreaValue(point, same_lane)
                         /\ x = pseudo_rand /\ y = pseudo_rand'
      OBVIOUS
    <2>3. x \in 0 .. Word - 1 /\ y \in 0 .. Word - 1 /\ x <= y
      BY <2>2, LaneFits DEF AlphaNext, Walk
    <2>4. /\ a \in 1 .. Word - 1 /\ Back(a, x) \in 0 .. a - 1 /\ Back(a, y) \in 0 .. a - 1
          /\ Reference(x) = Window(point, a - 1 - Back(a, x))
          /\ Reference(y) = Window(point, a - 1 - Back(a, y))
      BY <2>1, <2>2, <2>3, IndexAlphaIs DEF Reference
    <2>5. Back(a, x) <= Back(a, y)
      BY <2>3, <2>4, BackGrows
    <2>6. PICK r, s : r = a - 1 - Back(a, x) /\ s = a - 1 - Back(a, y)
      OBVIOUS
    <2>7. r \in 0 .. a - 1 /\ s \in 0 .. a - 1 /\ s <= r
      BY <2>4, <2>5, <2>6
    <2>8. Age(Reference(x)) = Oldest(point) - r /\ Age(Reference(y)) = Oldest(point) - s
      BY <2>1, <2>2, <2>4, <2>6, <2>7, WindowAge DEF Age
    <2>9. Oldest(point) \in Int
      BY <2>1, LaneFits DEF Oldest, Place, curr_offset, Slices, ARGON2_SYNC_POINTS
    <2> QED BY <2>2, <2>7, <2>8, <2>9
  <1> QED BY <1>1, WalkHolds, PTL DEF AlphaSpec, LargerIsOlder
=============================================================================
