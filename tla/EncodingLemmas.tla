--------------------------- MODULE EncodingLemmas ----------------------------
(* What validate_inputs reports, and what the recursive definitions of        *)
(* Encoding compute, for every input: the loops of numlen and of              *)
(* encode_string's pieces, which decode_string reads back.  A recursive       *)
(* function is known only by a CHOOSE, so each is first shown to exist;       *)
(* induction is the least number principle, applied to the set of             *)
(* counterexamples.                                                           *)
EXTENDS Encoding, SequenceTheorems, WellFoundedInduction, TLAPS

-----------------------------------------------------------------------------
(* validate_inputs *)

(* The order of the checks: pointers and lengths come before the costs. *)
LEMMA ChecksParts ==
    ASSUME NEW c
    PROVE  /\ DOMAIN Checks(c) = 1 .. 17
           /\ \A i \in 1 .. 7 : Checks(c)[i] = LengthChecks(c)[i]
           /\ \A i \in 8 .. 17 : Checks(c)[i] = CostChecks(c)[i - 7]
  <1>1. PICK l, t : l = LengthChecks(c) /\ t = CostChecks(c)
    OBVIOUS
  <1>2. l = [i \in 1 .. 7 |-> l[i]] /\ t = [i \in 1 .. 10 |-> t[i]]
    BY <1>1 DEF LengthChecks, CostChecks
  <1>3. PICK S : S = {l[i] : i \in 1 .. 7} \cup {t[i] : i \in 1 .. 10}
    OBVIOUS
  <1>4. l \in Seq(S) /\ Len(l) = 7 /\ t \in Seq(S) /\ Len(t) = 10
    BY <1>2, <1>3
  <1>5. PICK ch : ch = l \o t
    OBVIOUS
  <1>6. /\ ch \in Seq(S)
        /\ Len(ch) = Len(l) + Len(t)
        /\ \A i \in 1 .. Len(l) + Len(t) :
              ch[i] = IF i <= Len(l) THEN l[i] ELSE t[i - Len(l)]
    BY <1>4, <1>5, ConcatProperties, Zenon
  <1>7. Len(ch) = 17 /\ DOMAIN ch = 1 .. 17
    BY <1>4, <1>6
  <1>8. /\ \A i \in 1 .. 7 : ch[i] = l[i]
        /\ \A i \in 8 .. 17 : ch[i] = t[i - 7]
    BY <1>4, <1>6
  <1> QED BY <1>1, <1>5, <1>7, <1>8, Zenon DEF Checks

(* A check that fails is reported neither as a success nor as a failure to    *)
(* encode.                                                                    *)
LEMMA ChecksReportErrors ==
    ASSUME NEW c, NEW n \in DOMAIN Checks(c)
    PROVE  Checks(c)[n].code \notin {"ARGON2_OK", "ARGON2_ENCODING_FAIL"}
  <1> DEFINE Error(check) == check.code \notin {"ARGON2_OK", "ARGON2_ENCODING_FAIL"}
  <1>1. /\ DOMAIN Checks(c) = 1 .. 17
        /\ \A i \in 1 .. 7 : Checks(c)[i] = LengthChecks(c)[i]
        /\ \A i \in 8 .. 17 : Checks(c)[i] = CostChecks(c)[i - 7]
    BY ChecksParts, Zenon
  <1>2. PICK ch : ch = Checks(c)
    OBVIOUS
  <1>3. CASE n \in 1 .. 7
    <2>1. ch[n] = LengthChecks(c)[n] /\ n \in {1, 2, 3, 4, 5, 6, 7}
      BY <1>1, <1>2, <1>3
    <2>2. /\ Error(LengthChecks(c)[1]) /\ Error(LengthChecks(c)[2])
          /\ Error(LengthChecks(c)[3]) /\ Error(LengthChecks(c)[4])
          /\ Error(LengthChecks(c)[5]) /\ Error(LengthChecks(c)[6])
          /\ Error(LengthChecks(c)[7])
      BY DEF LengthChecks, Check
    <2> HIDE DEF Error
    <2>3. Error(ch[n])
      BY <2>1, <2>2
    <2> QED BY <1>2, <2>3 DEF Error
  <1>4. CASE n \in 8 .. 17
    <2>1. PICK k : k = n - 7
      OBVIOUS
    <2>2. ch[n] = CostChecks(c)[k] /\ k \in {1, 2, 3, 4, 5, 6, 7, 8, 9, 10}
      BY <1>1, <1>2, <1>4, <2>1
    <2>3. /\ Error(CostChecks(c)[1]) /\ Error(CostChecks(c)[2])
          /\ Error(CostChecks(c)[3]) /\ Error(CostChecks(c)[4])
          /\ Error(CostChecks(c)[5]) /\ Error(CostChecks(c)[6])
          /\ Error(CostChecks(c)[7]) /\ Error(CostChecks(c)[8])
          /\ Error(CostChecks(c)[9]) /\ Error(CostChecks(c)[10])
      BY DEF CostChecks, Check
    <2> HIDE DEF Error
    <2>4. Error(ch[n])
      BY <2>2, <2>3
    <2> QED BY <1>2, <2>4 DEF Error
  <1> QED BY <1>1, <1>3, <1>4

(* The inputs are valid when none of the checks fails. *)
LEMMA ValidMeansNoFailure ==
    ASSUME NEW c
    PROVE  valid(c) <=> \A n \in DOMAIN Checks(c) : ~Checks(c)[n].fails
  <1>1. /\ DOMAIN Checks(c) = 1 .. 17
        /\ \A i \in 1 .. 7 : Checks(c)[i] = LengthChecks(c)[i]
        /\ \A i \in 8 .. 17 : Checks(c)[i] = CostChecks(c)[i - 7]
    BY ChecksParts, Zenon
  <1>2. DOMAIN LengthChecks(c) = 1 .. 7 /\ DOMAIN CostChecks(c) = 1 .. 10
    BY DEF LengthChecks, CostChecks
  <1>3. PICK ch, l, t : ch = Checks(c) /\ l = LengthChecks(c) /\ t = CostChecks(c)
    OBVIOUS
  <1>4. /\ DOMAIN ch = 1 .. 17 /\ DOMAIN l = 1 .. 7 /\ DOMAIN t = 1 .. 10
        /\ \A i \in 1 .. 7 : ch[i] = l[i]
        /\ \A i \in 1 .. 10 : ch[i + 7] = t[i]
    BY <1>1, <1>2, <1>3
  <1>5. /\ (\A n \in DOMAIN ch : ~ch[n].fails) =>
              (\A i \in 1 .. 7 : ~l[i].fails) /\ (\A i \in 1 .. 10 : ~t[i].fails)
        /\ (\A i \in 1 .. 7 : ~l[i].fails) /\ (\A i \in 1 .. 10 : ~t[i].fails) =>
              \A n \in DOMAIN ch : ~ch[n].fails
    <2>1. ASSUME \A n \in DOMAIN ch : ~ch[n].fails
          PROVE  (\A i \in 1 .. 7 : ~l[i].fails) /\ (\A i \in 1 .. 10 : ~t[i].fails)
      BY <1>4, <2>1
    <2>2. ASSUME \A i \in 1 .. 7 : ~l[i].fails, \A i \in 1 .. 10 : ~t[i].fails,
                 NEW n \in DOMAIN ch
          PROVE  ~ch[n].fails
      <3>1. CASE n \in 1 .. 7
        BY <1>4, <2>2, <3>1
      <3>2. CASE n \in 8 .. 17
        <4>1. n - 7 \in 1 .. 10 /\ (n - 7) + 7 = n
          BY <3>2
        <4> QED BY <1>4, <2>2, <4>1
      <3> QED BY <1>4, <3>1, <3>2
    <2> QED BY <2>1, <2>2
  <1> QED BY <1>3, <1>4, <1>5, Zenon DEF valid

-----------------------------------------------------------------------------
(* Induction *)

LEMMA LeastNatural ==
    ASSUME NEW S, S \subseteq Nat, S # {}
    PROVE  \E n \in S : \A m \in S : n <= m
  <1> DEFINE R == {p \in Nat \X Nat : p[1] < p[2]}
  <1>1. IsWellFoundedOn(R, Nat)
    BY NatLessThanWellFounded, Zenon DEF OpToRel
  <1> HIDE DEF R
  <1>2. PICK n \in S : \A m \in S : ~(<<m, n>> \in R)
    BY <1>1, WFMin, Zenon
  <1>3. ASSUME NEW m \in S PROVE n <= m
    <2>1. n \in Nat /\ m \in Nat
      OBVIOUS
    <2>2. ~(<<m, n>> \in R)
      BY <1>2
    <2>3. ~(m < n)
      BY <2>1, <2>2 DEF R
    <2> QED BY <2>1, <2>3
  <1> QED BY <1>3

-----------------------------------------------------------------------------
(* numlen *)

Digits == Nat \ {0}

(* g is numlen, up to n. *)
NumlenStep(g, n) == IF n >= 10 THEN 1 + g[n \div 10] ELSE 1
NumlenUpTo(g, n) ==
    g \in [0 .. n -> Digits] /\ \A k \in 0 .. n : g[k] = NumlenStep(g, k)

LEMMA Tenth ==
    ASSUME NEW n \in Nat, n >= 10
    PROVE  n \div 10 \in Nat /\ n \div 10 < n
  OBVIOUS

LEMMA NumlenUpToExists ==
    ASSUME NEW n \in Nat
    PROVE  \E g : NumlenUpTo(g, n)
  <1> DEFINE S == {k \in Nat : ~\E g : NumlenUpTo(g, k)}
  <1>1. SUFFICES ASSUME S # {} PROVE FALSE
    OBVIOUS
  <1>2. PICK m \in S : \A k \in S : m <= k
    BY <1>1, LeastNatural
  <1>3. m \in Nat /\ ~\E g : NumlenUpTo(g, m)
    OBVIOUS
  <1>4. CASE m = 0
    <2> DEFINE g == [k \in 0 .. 0 |-> 1]
    <2>1. NumlenUpTo(g, 0)
      BY DEF NumlenUpTo, NumlenStep, Digits
    <2> QED BY <1>3, <1>4, <2>1
  <1>5. CASE m # 0
    <2>1. m - 1 \in Nat /\ ~(m <= m - 1)
      BY <1>3, <1>5
    <2>2. m - 1 \notin S
      BY <1>2, <2>1
    <2>3. PICK g : NumlenUpTo(g, m - 1)
      BY <2>1, <2>2
    <2> DEFINE h == [k \in 0 .. m |-> IF k < m THEN g[k] ELSE NumlenStep(g, m)]
    <2>4. \A k \in 0 .. m - 1 : g[k] \in Digits
      BY <2>3 DEF NumlenUpTo
    <2>5. ASSUME NEW k \in 0 .. m
          PROVE  NumlenStep(g, k) \in Digits /\ NumlenStep(h, k) = NumlenStep(g, k)
      <3>1. CASE k >= 10
        <4>1. k \div 10 \in 0 .. m - 1 /\ k \div 10 \in 0 .. m /\ k \div 10 < m
          BY <1>3, <3>1, Tenth
        <4>2. h[k \div 10] = g[k \div 10] /\ g[k \div 10] \in Digits
          BY <2>4, <4>1
        <4> HIDE DEF h
        <4> QED BY <3>1, <4>2 DEF NumlenStep, Digits
      <3>2. CASE ~(k >= 10)
        BY <3>2 DEF NumlenStep, Digits
      <3> QED BY <3>1, <3>2
    <2>6. ASSUME NEW k \in 0 .. m PROVE h[k] = NumlenStep(h, k) /\ h[k] \in Digits
      <3>1. CASE k < m
        <4>1. k \in 0 .. m - 1
          BY <1>3, <3>1
        <4>2. h[k] = g[k] /\ g[k] = NumlenStep(g, k)
          BY <2>3, <3>1, <4>1 DEF NumlenUpTo
        <4> HIDE DEF h
        <4> QED BY <2>5, <4>2
      <3>2. CASE k = m
        <4>1. h[k] = NumlenStep(g, k)
          BY <1>3, <3>2
        <4> HIDE DEF h
        <4> QED BY <2>5, <4>1
      <3> QED BY <1>3, <3>1, <3>2
    <2>7. NumlenUpTo(h, m)
      <3>1. h \in [0 .. m -> Digits]
        BY <2>6
      <3> QED BY <2>6, <3>1 DEF NumlenUpTo
    <2> QED BY <1>3, <2>7
  <1> QED BY <1>4, <1>5

LEMMA NumlenUpToUnique ==
    ASSUME NEW m \in Nat, NEW n \in Nat, NEW g, NEW h,
           NumlenUpTo(g, m), NumlenUpTo(h, n), NEW i \in 0 .. m, i <= n
    PROVE  g[i] = h[i]
  <1> DEFINE S == {k \in Nat : k <= m /\ k <= n /\ g[k] # h[k]}
  <1>1. SUFFICES ASSUME S # {} PROVE FALSE
    BY DEF S
  <1>2. PICK j \in S : \A k \in S : j <= k
    BY <1>1, LeastNatural
  <1>3. /\ j \in 0 .. m /\ j \in 0 .. n
        /\ g[j] = NumlenStep(g, j) /\ h[j] = NumlenStep(h, j)
    BY DEF NumlenUpTo
  <1>4. NumlenStep(g, j) = NumlenStep(h, j)
    <2>1. CASE j >= 10
      <3>1. PICK k : k = j \div 10
        OBVIOUS
      <3>2. k \in Nat /\ k < j /\ k <= m /\ k <= n
        BY <1>3, <2>1, <3>1, Tenth
      <3>3. k \notin S
        BY <1>2, <1>3, <3>2
      <3>4. g[k] = h[k]
        BY <3>2, <3>3
      <3> QED BY <2>1, <3>1, <3>4 DEF NumlenStep
    <2>2. CASE ~(j >= 10)
      BY <2>2 DEF NumlenStep
    <2> QED BY <2>1, <2>2
  <1> QED BY <1>3, <1>4

(* numlen satisfies its equation, and counts at least one digit. *)
LEMMA NumlenDef ==
    ASSUME NEW n \in Nat
    PROVE  numlen[n] = NumlenStep(numlen, n) /\ numlen[n] \in Digits
  <1> DEFINE G(k) == CHOOSE g : NumlenUpTo(g, k)
             F == [num \in Nat |-> G(num)[num]]
  <1>1. \A k \in Nat : NumlenUpTo(G(k), k)
    BY NumlenUpToExists, Zenon
  <1> HIDE DEF G
  <1>2. ASSUME NEW k \in Nat
        PROVE  F[k] = IF k >= 10 THEN 1 + F[k \div 10] ELSE 1
    <2>1. F[k] = G(k)[k] /\ G(k)[k] = NumlenStep(G(k), k)
      BY <1>1 DEF NumlenUpTo
    <2>2. CASE k >= 10
      <3>1. PICK j : j = k \div 10
        OBVIOUS
      <3>2. j \in Nat /\ j \in 0 .. k
        BY <2>2, <3>1, Tenth
      <3>3. NumlenUpTo(G(k), k) /\ NumlenUpTo(G(j), j) /\ j \in 0 .. j /\ j <= k
        BY <1>1, <3>2
      <3>4. G(j)[j] = G(k)[j]
        BY <3>2, <3>3, NumlenUpToUnique
      <3>5. F[j] = G(j)[j]
        BY <3>2
      <3> HIDE DEF F
      <3> QED BY <2>1, <2>2, <3>1, <3>4, <3>5 DEF NumlenStep
    <2>3. CASE ~(k >= 10)
      BY <2>1, <2>3 DEF NumlenStep
    <2> QED BY <2>2, <2>3
  <1>3. F = [num \in Nat |-> IF num >= 10 THEN 1 + F[num \div 10] ELSE 1]
    BY <1>2
  <1> HIDE DEF F
  <1>4. numlen = [num \in Nat |-> IF num >= 10 THEN 1 + numlen[num \div 10] ELSE 1]
    BY <1>3, Zenon DEF numlen
  <1>5. \A k \in Nat : numlen[k] = NumlenStep(numlen, k)
    BY <1>4 DEF NumlenStep
  <1> DEFINE S == {k \in Nat : numlen[k] \notin Digits}
  <1>6. S = {}
    <2>1. SUFFICES ASSUME S # {} PROVE FALSE
      OBVIOUS
    <2>2. PICK j \in S : \A k \in S : j <= k
      BY <2>1, LeastNatural
    <2>3. CASE j >= 10
      <3>1. PICK k : k = j \div 10
        OBVIOUS
      <3>2. k \in Nat /\ k < j
        BY <2>3, <3>1, Tenth
      <3>3. numlen[k] \in Digits
        BY <2>2, <3>2
      <3> QED BY <1>5, <2>3, <3>1, <3>3 DEF NumlenStep, Digits
    <2>4. CASE ~(j >= 10)
      BY <1>5, <2>4 DEF NumlenStep, Digits
    <2> QED BY <2>3, <2>4
  <1> QED BY <1>5, <1>6

-----------------------------------------------------------------------------
(* The sums of encode_string's pieces. *)

LEMMA SumsDef ==
    ASSUME NEW p, Len(p) \in Nat
    PROVE  /\ Sums(p)[0] = 0
           /\ \A n \in 1 .. Len(p) : Sums(p)[n] = Sums(p)[n - 1] + p[n]
  <1> DEFINE N == Len(p)
             Step(g, k) == IF k = 0 THEN 0 ELSE g[k - 1] + p[k]
             UpTo(g, n) == \A k \in 0 .. n : g[k] = Step(g, k)
             S == {n \in Nat : ~\E g : UpTo(g, n)}
  <1> HIDE DEF N
  <1>1. S = {}
    <2>1. SUFFICES ASSUME S # {} PROVE FALSE
      OBVIOUS
    <2> HIDE DEF S
    <2>2. PICK m \in S : \A k \in S : m <= k
      BY <2>1, LeastNatural DEF S
    <2>3. m \in Nat /\ ~\E g : UpTo(g, m)
      BY DEF S
    <2>4. CASE m = 0
      <3>1. UpTo([k \in 0 .. 0 |-> 0], 0)
        OBVIOUS
      <3> HIDE DEF UpTo
      <3> QED BY <2>3, <2>4, <3>1
    <2>5. CASE m # 0
      <3>1. m - 1 \in Nat /\ ~(m <= m - 1)
        BY <2>3, <2>5
      <3>2. m - 1 \notin S
        BY <2>2, <3>1
      <3>3. PICK g : UpTo(g, m - 1)
        BY <3>1, <3>2 DEF S
      <3> DEFINE h == [k \in 0 .. m |-> IF k < m THEN g[k] ELSE g[m - 1] + p[m]]
      <3>4. ASSUME NEW k \in 0 .. m PROVE h[k] = Step(h, k)
        <4>1. CASE k < m
          BY <2>3, <3>3, <4>1
        <4>2. CASE k = m
          BY <2>3, <2>5, <4>2
        <4> QED BY <2>3, <4>1, <4>2
      <3>5. UpTo(h, m)
        BY <3>4
      <3> HIDE DEF UpTo, h
      <3> QED BY <2>3, <3>5
    <2> QED BY <2>4, <2>5
  <1>2. PICK g : UpTo(g, N)
    BY <1>1 DEF N
  <1> DEFINE f == [n \in 0 .. N |-> g[n]]
  <1>3. f = [n \in 0 .. N |-> IF n = 0 THEN 0 ELSE f[n - 1] + p[n]]
    BY <1>2 DEF N
  <1> HIDE DEF f
  <1>4. PICK s : s = Sums(p)
    OBVIOUS
  <1>5. s = [n \in 0 .. N |-> IF n = 0 THEN 0 ELSE s[n - 1] + p[n]]
    BY <1>3, <1>4, Zenon DEF Sums, N
  <1>6. s[0] = 0 /\ \A n \in 1 .. N : s[n] = s[n - 1] + p[n]
    BY <1>5 DEF N
  <1> QED BY <1>4, <1>6 DEF N

(* No piece is shorter than nothing: the sums grow. *)
LEMMA SumsGrow ==
    ASSUME NEW p, Len(p) \in Nat, \A n \in 1 .. Len(p) : p[n] \in Nat,
           NEW n \in 0 .. Len(p)
    PROVE  /\ SumOf(p) \in Nat /\ Sums(p)[n] \in Nat /\ Sums(p)[n] <= SumOf(p)
           /\ n > 0 => p[n] <= SumOf(p)
  <1>1. PICK s, N : s = Sums(p) /\ N = Len(p)
    OBVIOUS
  <1>2. /\ N \in Nat /\ s[0] = 0 /\ \A k \in 1 .. N : s[k] = s[k - 1] + p[k]
        /\ \A k \in 1 .. N : p[k] \in Nat
    BY <1>1, SumsDef
  <1> DEFINE S == {k \in 0 .. N : s[k] \notin Nat}
  <1>3. \A k \in 0 .. N : s[k] \in Nat
    <2>1. SUFFICES ASSUME S # {} PROVE FALSE
      OBVIOUS
    <2>2. PICK m \in S : \A k \in S : m <= k
      <3>1. S \subseteq Nat
        BY <1>2
      <3> HIDE DEF S
      <3> QED BY <2>1, <3>1, LeastNatural
    <2>3. m \in 1 .. N /\ m - 1 \in 0 .. N /\ ~(m <= m - 1)
      BY <1>2
    <2>4. s[m - 1] \in Nat
      BY <2>2, <2>3
    <2> QED BY <1>2, <2>3, <2>4
  <1> DEFINE T == {k \in 0 .. N : ~(s[N - k] <= s[N])}
  <1>4. \A k \in 0 .. N : s[N - k] <= s[N]
    <2>1. SUFFICES ASSUME T # {} PROVE FALSE
      OBVIOUS
    <2>2. PICK m \in T : \A k \in T : m <= k
      <3>1. T \subseteq Nat
        BY <1>2
      <3> HIDE DEF T
      <3> QED BY <2>1, <3>1, LeastNatural
    <2>3. m # 0
      BY <1>2, <1>3
    <2>4. PICK j : j = N - m + 1
      OBVIOUS
    <2>5. /\ j \in 1 .. N /\ j - 1 = N - m /\ j = N - (m - 1) /\ m - 1 \in 0 .. N
          /\ ~(m <= m - 1)
      BY <1>2, <2>3, <2>4
    <2>6. s[N - (m - 1)] <= s[N]
      BY <2>2, <2>5
    <2>7. s[j] = s[j - 1] + p[j] /\ s[j] \in Nat /\ s[j - 1] \in Nat /\ s[N] \in Nat
          /\ p[j] \in Nat
      BY <1>2, <1>3, <2>5
    <2>8. s[N - m] <= s[N]
      BY <2>5, <2>6, <2>7
    <2> QED BY <2>8
  <1>5. s[n] <= s[N] /\ s[n] \in Nat /\ s[N] \in Nat
    <2>1. N - n \in 0 .. N /\ N - (N - n) = n
      BY <1>1, <1>2
    <2> QED BY <1>1, <1>2, <1>3, <1>4, <2>1
  <1>6. n > 0 => p[n] <= s[N]
    <2> SUFFICES ASSUME n > 0 PROVE p[n] <= s[N]
      OBVIOUS
    <2>1. s[n] = s[n - 1] + p[n] /\ s[n - 1] \in Nat /\ p[n] \in Nat
      BY <1>1, <1>2, <1>3
    <2> QED BY <1>5, <2>1
  <1> QED BY <1>1, <1>5, <1>6 DEF SumOf

(* Every piece leaves room for the terminating zero when all of them do. *)
LEMMA FitsInTotal ==
    ASSUME NEW p, Len(p) \in Nat \ {0}, DOMAIN p = 1 .. Len(p),
           \A n \in 1 .. Len(p) : p[n] \in Nat, NEW dst_len \in Nat
    PROVE  fits(p, dst_len) <=> SumOf(p) < dst_len
  <1>1. \A n \in 1 .. Len(p) : /\ Sums(p)[n] \in Nat /\ SumOf(p) \in Nat
                               /\ Sums(p)[n] <= SumOf(p)
    BY SumsGrow
  <1>2. SumOf(p) = Sums(p)[Len(p)] /\ Len(p) \in 1 .. Len(p)
    BY DEF SumOf
  <1> QED BY <1>1, <1>2 DEF fits

-----------------------------------------------------------------------------
(* Numbers and binary data are as long as argon2_encodedlen counts them. *)

LEMMA NumlenDigits ==
    ASSUME NEW n \in Nat
    PROVE  /\ n < 10 => numlen[n] = 1
           /\ n >= 10 => n \div 10 \in Nat /\ numlen[n] = 1 + numlen[n \div 10]
  BY NumlenDef, Tenth DEF NumlenStep

LEMMA NumlenRanges ==
    ASSUME NEW n \in Nat
    PROVE  /\ n < 10 => numlen[n] = 1
           /\ 10 <= n /\ n < 100 => numlen[n] = 2
           /\ 100 <= n /\ n < 1000 => numlen[n] = 3
           /\ 1000 <= n /\ n < 10000 => numlen[n] = 4
           /\ 10000 <= n /\ n < 100000 => numlen[n] = 5
           /\ 100000 <= n /\ n < 1000000 => numlen[n] = 6
           /\ 1000000 <= n /\ n < 10000000 => numlen[n] = 7
           /\ 10000000 <= n /\ n < 100000000 => numlen[n] = 8
           /\ 100000000 <= n /\ n < 1000000000 => numlen[n] = 9
           /\ 1000000000 <= n /\ n < 10000000000 => numlen[n] = 10
  <1>1. \A m \in Nat : m < 10 => numlen[m] = 1
    BY NumlenDigits
  <1>2. \A m \in Nat : 10 <= m /\ m < 100 => numlen[m] = 2
    BY <1>1, NumlenDigits, SMT
  <1>3. \A m \in Nat : 100 <= m /\ m < 1000 => numlen[m] = 3
    BY <1>2, NumlenDigits, SMT
  <1>4. \A m \in Nat : 1000 <= m /\ m < 10000 => numlen[m] = 4
    BY <1>3, NumlenDigits, SMT
  <1>5. \A m \in Nat : 10000 <= m /\ m < 100000 => numlen[m] = 5
    BY <1>4, NumlenDigits, SMT
  <1>6. \A m \in Nat : 100000 <= m /\ m < 1000000 => numlen[m] = 6
    BY <1>5, NumlenDigits, SMT
  <1>7. \A m \in Nat : 1000000 <= m /\ m < 10000000 => numlen[m] = 7
    BY <1>6, NumlenDigits, SMT
  <1>8. \A m \in Nat : 10000000 <= m /\ m < 100000000 => numlen[m] = 8
    BY <1>7, NumlenDigits, SMT
  <1>9. \A m \in Nat : 100000000 <= m /\ m < 1000000000 => numlen[m] = 9
    BY <1>8, NumlenDigits, SMT
  <1>10. \A m \in Nat : 1000000000 <= m /\ m < 10000000000 => numlen[m] = 10
    BY <1>9, NumlenDigits, SMT
  <1> QED BY <1>1, <1>2, <1>3, <1>4, <1>5, <1>6, <1>7, <1>8, <1>9, <1>10, SMT

(* sprintf writes as many digits as numlen counts. *)
LEMMA SprintfIsNumlen ==
    ASSUME NEW n \in 0 .. Word - 1
    PROVE  Sprintf(n) = numlen[n]
  <1> DEFINE IsLength(d) == /\ d > 1 => PowersOfTen[d - 1] <= n
                            /\ d < 10 => n < PowersOfTen[d]
  <1>1. n \in Nat /\ n < 10000000000
    BY LimitsAssumption, WordAssumption, SMT
  <1>2. /\ PowersOfTen[1] = 10
        /\ PowersOfTen[2] = 100
        /\ PowersOfTen[3] = 1000
        /\ PowersOfTen[4] = 10000
        /\ PowersOfTen[5] = 100000
        /\ PowersOfTen[6] = 1000000
        /\ PowersOfTen[7] = 10000000
        /\ PowersOfTen[8] = 100000000
        /\ PowersOfTen[9] = 1000000000
    BY SMT DEF PowersOfTen
  <1>3. \E d \in 1 .. 10 : IsLength(d)
    BY <1>1, <1>2, SMT
  <1>4. Sprintf(n) \in 1 .. 10 /\ IsLength(Sprintf(n))
    <2>1. Sprintf(n) = CHOOSE d \in 1 .. 10 : IsLength(d)
      BY SMT DEF Sprintf
    <2> HIDE DEF IsLength
    <2> QED BY <1>3, <2>1, SMT
  <1>5. PICK d : d = Sprintf(n)
    BY SMT
  <1>6. d \in {1, 2, 3, 4, 5, 6, 7, 8, 9, 10} /\ IsLength(d)
    BY <1>4, <1>5, SMT
  <1>7. numlen[n] = d
    BY <1>1, <1>2, <1>6, NumlenRanges, SMT
  <1> QED BY <1>5, <1>7, SMT

(* to_base64 writes as many characters as b64len counts. *)
LEMMA Base64Lengths ==
    ASSUME NEW len \in Nat
    PROVE  /\ to_base64_length(len) = b64len(len) /\ to_base64_length(len) \in Nat
           /\ len <= to_base64_length(len)
  <1>1. PICK q, r : q = len \div 3 /\ r = len % 3
    OBVIOUS
  <1>2. q \in Nat /\ r \in {0, 1, 2} /\ len = 3 * q + r
    BY <1>1
  <1>3. b64len(len) = 4 * q + (IF r = 0 THEN 0 ELSE r + 1)
    <2>1. b64len(len) = 4 * q + (CASE r = 0 -> 0 [] r = 1 -> 2 [] r = 2 -> 3)
      BY <1>1, Zenon DEF b64len
    <2>2. CASE r = 0
      BY <2>1, <2>2
    <2>3. CASE r = 1
      BY <2>1, <2>3
    <2>4. CASE r = 2
      BY <2>1, <2>4
    <2> QED BY <1>2, <2>2, <2>3, <2>4
  <1>4. to_base64_length(len) = 4 * q + (IF r = 0 THEN 0 ELSE r + 1)
    BY <1>2 DEF to_base64_length
  <1> QED BY <1>2, <1>3, <1>4

-----------------------------------------------------------------------------
(* validate_inputs, by its result *)

LEMMA ValidateInputsOK ==
    ASSUME NEW c
    PROVE  validate_inputs(c) = "ARGON2_OK" <=> valid(c)
  <1>1. valid(c) => validate_inputs(c) = "ARGON2_OK"
    BY DEF validate_inputs
  <1>2. ASSUME ~valid(c) PROVE validate_inputs(c) # "ARGON2_OK"
    <2> DEFINE First(n) == FirstFailure(Checks(c), n)
    <2>1. PICK ch : ch = Checks(c)
      OBVIOUS
    <2>2. DOMAIN ch = 1 .. 17 /\ \E n \in 1 .. 17 : ch[n].fails
      <3>1. DOMAIN Checks(c) = 1 .. 17
        BY ChecksParts, Zenon
      <3>2. \E n \in DOMAIN Checks(c) : Checks(c)[n].fails
        BY <1>2, ValidMeansNoFailure, Zenon
      <3> QED BY <2>1, <3>1, <3>2, Zenon
    <2> DEFINE S == {n \in 1 .. 17 : ch[n].fails}
    <2>3. S \subseteq Nat /\ S # {}
      BY <2>2
    <2> HIDE DEF S
    <2>4. PICK n \in S : \A m \in S : n <= m
      BY <2>3, LeastNatural
    <2>5. n \in 1 .. 17 /\ ch[n].fails /\ \A k \in 1 .. n - 1 : ~ch[k].fails
      BY <2>4 DEF S
    <2>6. First(n) /\ n \in DOMAIN Checks(c)
      BY <2>1, <2>2, <2>5, Zenon DEF FirstFailure
    <2> HIDE DEF First
    <2>7. PICK f : f = CHOOSE m \in DOMAIN Checks(c) : First(m)
      OBVIOUS
    <2>8. f \in DOMAIN Checks(c)
      BY <2>6, <2>7, Zenon
    <2>9. validate_inputs(c) = Checks(c)[f].code
      BY <1>2, <2>7, Zenon DEF validate_inputs, First
    <2> QED BY <2>8, <2>9, ChecksReportErrors
  <1> QED BY <1>1, <1>2

-----------------------------------------------------------------------------
(* Strings *)

(* A context whose numbers encode_string can write. *)
Writable(c) ==
    /\ {c.t_cost, c.m_cost, c.lanes} \subseteq 0 .. Word - 1
    /\ c.version \in {VERSION_10, VERSION_NUMBER}
    /\ {c.saltlen, c.outlen} \subseteq Nat

LEMMA SprintfNat ==
    ASSUME NEW n \in 0 .. Word - 1
    PROVE  Sprintf(n) \in Nat /\ numlen[n] \in Nat
  <1>1. n \in Nat
    OBVIOUS
  <1> QED BY <1>1, SprintfIsNumlen, NumlenDef DEF Digits

(* Both versions have two digits. *)
LEMMA VersionDigits ==
    ASSUME NEW v \in {VERSION_10, VERSION_NUMBER}
    PROVE  v \in 0 .. Word - 1 /\ Sprintf(v) = 2 /\ numlen[VERSION_NUMBER] = 2
  <1>1. v \in 0 .. Word - 1 /\ v \in Nat /\ 10 <= v /\ v < 100
    BY LimitsAssumption, WordAssumption DEF VERSION_10, VERSION_NUMBER
  <1>2. numlen[v] = 2
    BY <1>1, NumlenRanges
  <1>3. numlen[VERSION_NUMBER] = 2
    BY NumlenRanges DEF VERSION_NUMBER
  <1> QED BY <1>1, <1>2, <1>3, SprintfIsNumlen

(* The pieces that encode_string writes are as long, with the terminating     *)
(* zero, as argon2_encodedlen says.                                           *)
LEMMA EncodedLength ==
    ASSUME NEW c, NEW type, Writable(c)
    PROVE  /\ Len(Pieces(c, type)) = 14 /\ DOMAIN Pieces(c, type) = 1 .. 14
           /\ \A n \in 1 .. 14 : Pieces(c, type)[n] \in Nat
           /\ SumOf(Pieces(c, type)) + 1 =
                 argon2_encodedlen(c.t_cost, c.m_cost, c.lanes, c.saltlen, c.outlen, type)
  <1>1. PICK l, v, m, t, p, s, o :
          /\ l = TypeLength(type) /\ v = Sprintf(c.version) /\ m = Sprintf(c.m_cost)
          /\ t = Sprintf(c.t_cost) /\ p = Sprintf(c.lanes)
          /\ s = to_base64_length(c.saltlen) /\ o = to_base64_length(c.outlen)
    OBVIOUS
  <1>2. /\ c.t_cost \in 0 .. Word - 1 /\ c.m_cost \in 0 .. Word - 1
        /\ c.lanes \in 0 .. Word - 1 /\ c.version \in {VERSION_10, VERSION_NUMBER}
        /\ c.saltlen \in Nat /\ c.outlen \in Nat
    BY DEF Writable
  <1>3. /\ l \in Nat /\ v \in Nat /\ m \in Nat /\ t \in Nat /\ p \in Nat
        /\ s \in Nat /\ o \in Nat
    <2>1. l \in Nat
      BY <1>1 DEF TypeLength
    <2>2. v \in Nat
      BY <1>1, <1>2, VersionDigits
    <2>3. m \in Nat /\ t \in Nat /\ p \in Nat
      BY <1>1, <1>2, SprintfNat
    <2>4. s \in Nat /\ o \in Nat
      BY <1>1, <1>2, Base64Lengths
    <2> QED BY <2>1, <2>2, <2>3, <2>4
  <1>4. PICK ps : ps = << 1, l, 3, v, 3, m, 3, t, 3, p, 1, s, 1, o >>
    OBVIOUS
  <1>5. Pieces(c, type) = ps
    BY <1>1, <1>4, Zenon DEF Pieces
  <1>6. /\ Len(ps) = 14 /\ DOMAIN ps = 1 .. 14
        /\ ps[1] = 1 /\ ps[2] = l /\ ps[3] = 3 /\ ps[4] = v /\ ps[5] = 3 /\ ps[6] = m
        /\ ps[7] = 3 /\ ps[8] = t /\ ps[9] = 3 /\ ps[10] = p /\ ps[11] = 1
        /\ ps[12] = s /\ ps[13] = 1 /\ ps[14] = o
    BY <1>4
  <1>7. \A n \in 1 .. 14 : ps[n] \in Nat
    <2>1. ASSUME NEW n \in 1 .. 14 PROVE ps[n] \in Nat
      <3>1. n \in {1, 2, 3, 4, 5, 6, 7, 8, 9, 10, 11, 12, 13, 14}
        OBVIOUS
      <3> QED BY <1>3, <1>6, <3>1
    <2> QED BY <2>1
  <1>8. SumOf(ps) = 15 + l + v + m + t + p + s + o
    <2>1. PICK f : f = Sums(ps)
      OBVIOUS
    <2>2. f[0] = 0 /\ \A n \in 1 .. 14 : f[n] = f[n - 1] + ps[n]
      <3>1. Len(ps) \in Nat
        BY <1>6
      <3>2. /\ Sums(ps)[0] = 0
            /\ \A n \in 1 .. Len(ps) : Sums(ps)[n] = Sums(ps)[n - 1] + ps[n]
        BY <3>1, SumsDef, Zenon
      <3> QED BY <1>6, <2>1, <3>2
    <2>3. /\ f[1] = f[0] + ps[1] /\ f[2] = f[1] + ps[2] /\ f[3] = f[2] + ps[3]
          /\ f[4] = f[3] + ps[4] /\ f[5] = f[4] + ps[5] /\ f[6] = f[5] + ps[6]
          /\ f[7] = f[6] + ps[7] /\ f[8] = f[7] + ps[8] /\ f[9] = f[8] + ps[9]
          /\ f[10] = f[9] + ps[10] /\ f[11] = f[10] + ps[11] /\ f[12] = f[11] + ps[12]
          /\ f[13] = f[12] + ps[13] /\ f[14] = f[13] + ps[14]
      BY <2>2
    <2>4. f[14] = 15 + l + v + m + t + p + s + o
      BY <1>3, <1>6, <2>2, <2>3
    <2> QED BY <1>6, <2>1, <2>4 DEF SumOf
  <1>9. /\ v = numlen[VERSION_NUMBER] /\ m = numlen[c.m_cost] /\ t = numlen[c.t_cost]
        /\ p = numlen[c.lanes] /\ s = b64len(c.saltlen) /\ o = b64len(c.outlen)
    <2>1. v = numlen[VERSION_NUMBER]
      BY <1>1, <1>2, VersionDigits
    <2>2. m = numlen[c.m_cost] /\ t = numlen[c.t_cost] /\ p = numlen[c.lanes]
      BY <1>1, <1>2, SprintfIsNumlen
    <2>3. s = b64len(c.saltlen) /\ o = b64len(c.outlen)
      BY <1>1, <1>2, Base64Lengths
    <2> QED BY <2>1, <2>2, <2>3
  <1>10. argon2_encodedlen(c.t_cost, c.m_cost, c.lanes, c.saltlen, c.outlen, type)
            = 15 + l + t + m + p + s + o + v + 1
    BY <1>1, <1>9, Zenon DEF argon2_encodedlen
  <1>11. SumOf(ps) + 1 =
            argon2_encodedlen(c.t_cost, c.m_cost, c.lanes, c.saltlen, c.outlen, type)
    BY <1>3, <1>8, <1>10
  <1> QED BY <1>5, <1>6, <1>7, <1>11, Zenon

(* So argon2_encodedlen says which buffers are large enough. *)
LEMMA FitsEncodedLength ==
    ASSUME NEW c, NEW type, Writable(c), NEW dst_len \in Nat
    PROVE  fits(Pieces(c, type), dst_len) <=>
             dst_len >= argon2_encodedlen(c.t_cost, c.m_cost, c.lanes, c.saltlen,
                                          c.outlen, type)
  <1>1. PICK ps, len : /\ ps = Pieces(c, type)
                       /\ len = argon2_encodedlen(c.t_cost, c.m_cost, c.lanes,
                                                  c.saltlen, c.outlen, type)
    OBVIOUS
  <1>2. /\ Len(ps) = 14 /\ DOMAIN ps = 1 .. 14 /\ \A n \in 1 .. 14 : ps[n] \in Nat
        /\ SumOf(ps) + 1 = len
    BY <1>1, EncodedLength, Zenon
  <1>3. SumOf(ps) \in Nat /\ (fits(ps, dst_len) <=> SumOf(ps) < dst_len)
    <2>1. /\ Len(ps) \in Nat /\ Len(ps) \in Nat \ {0} /\ DOMAIN ps = 1 .. Len(ps)
          /\ \A n \in 1 .. Len(ps) : ps[n] \in Nat
          /\ 0 \in 0 .. Len(ps)
      BY <1>2
    <2>2. fits(ps, dst_len) <=> SumOf(ps) < dst_len
      BY <2>1, FitsInTotal, Zenon
    <2>3. SumOf(ps) \in Nat
      BY <2>1, SumsGrow, Zenon
    <2> QED BY <2>2, <2>3
  <1> QED BY <1>1, <1>2, <1>3

(* The string is never shorter than the salt or the tag in it, so that the    *)
(* buffers of argon2_verify, as long as the string, hold them.                *)
LEMMA NumsLength ==
    ASSUME NEW e, NEW k \in Nat \ {0}, Len(e) = k, DOMAIN e = 1 .. k,
           \A n \in 1 .. k : e[n][2] \in 0 .. Word - 1
    PROVE  FieldLength(Nums(e)) \in Nat
  <1> DEFINE ls == [n \in DOMAIN e |-> 3 + Sprintf(e[n][2])]
  <1>1. \A n \in 1 .. k : Sprintf(e[n][2]) \in Nat
    BY SprintfNat
  <1>2. ls = [n \in 1 .. k |-> 3 + Sprintf(e[n][2])]
    OBVIOUS
  <1>3. /\ Len(ls) = k /\ Len(ls) \in Nat /\ 1 \in 0 .. Len(ls) /\ 1 > 0
        /\ \A n \in 1 .. Len(ls) : ls[n] \in Nat
        /\ ls[1] >= 3 /\ ls[1] \in Nat
    BY <1>1, <1>2
  <1> HIDE DEF ls
  <1>4. SumOf(ls) \in Nat /\ ls[1] <= SumOf(ls)
    BY <1>3, SumsGrow, Zenon
  <1>5. SumOf(ls) - 1 \in Nat
    BY <1>3, <1>4
  <1>6. PICK field : field = Nums(e)
    OBVIOUS
  <1>7. field.is = "nums" /\ field.entries = e
    BY <1>6 DEF Nums
  <1>8. FieldLength(field) = SumOf(ls) - 1
    <2>1. FieldLength(field) =
            SumOf([n \in DOMAIN field.entries |-> 3 + Sprintf(field.entries[n][2])]) - 1
      BY <1>7 DEF FieldLength
    <2> QED BY <1>7, <2>1, Zenon DEF ls
  <1> QED BY <1>5, <1>6, <1>8

LEMMA BinLength ==
    ASSUME NEW content, NEW len \in Nat
    PROVE  FieldLength(Bin(content, len)) \in Nat /\ len <= FieldLength(Bin(content, len))
  <1>1. PICK field : field = Bin(content, len)
    OBVIOUS
  <1>2. field.is = "bin" /\ field.len = len /\ field.tail = FALSE
    BY <1>1 DEF Bin
  <1>3. FieldLength(field) = to_base64_length(len) + 0
    BY <1>2 DEF FieldLength
  <1> QED BY <1>1, <1>3, Base64Lengths

LEMMA EncodedStrlen ==
    ASSUME NEW c, NEW tag, NEW type, Writable(c)
    PROVE  /\ Strlen(Encoded(c, tag, type)) \in Nat
           /\ c.saltlen <= Strlen(Encoded(c, tag, type))
           /\ c.outlen <= Strlen(Encoded(c, tag, type))
  <1>1. PICK f1, f2, f3, f4, f5 :
          /\ f1 = Lit(argon2_type2string(type)) /\ f2 = Nums(<< <<"v", c.version>> >>)
          /\ f3 = Nums(<< <<"m", c.m_cost>>, <<"t", c.t_cost>>, <<"p", c.lanes>> >>)
          /\ f4 = Bin(c.salt, c.saltlen) /\ f5 = Bin(tag, c.outlen)
    OBVIOUS
  <1>2. PICK str : str = << f1, f2, f3, f4, f5 >>
    OBVIOUS
  <1>3. Encoded(c, tag, type) = str
    BY <1>1, <1>2, Zenon DEF Encoded
  <1>4. /\ c.t_cost \in 0 .. Word - 1 /\ c.m_cost \in 0 .. Word - 1
        /\ c.lanes \in 0 .. Word - 1 /\ c.version \in 0 .. Word - 1
        /\ c.saltlen \in Nat /\ c.outlen \in Nat
    BY VersionDigits DEF Writable
  <1>5. FieldLength(f1) \in Nat
    <2>1. f1.is = "lit"
      BY <1>1 DEF Lit
    <2>2. FieldLength(f1) = IF f1.text = "argon2id" THEN 8 ELSE 7
      BY <2>1 DEF FieldLength
    <2> QED BY <2>2
  <1>6. FieldLength(f2) \in Nat
    <2>1. PICK e : e = << <<"v", c.version>> >>
      OBVIOUS
    <2>2. /\ Len(e) = 1 /\ DOMAIN e = 1 .. 1 /\ 1 \in Nat \ {0}
          /\ \A n \in 1 .. 1 : e[n][2] \in 0 .. Word - 1
      BY <1>4, <2>1
    <2>3. FieldLength(Nums(e)) \in Nat
      BY <2>2, NumsLength, Zenon
    <2> QED BY <1>1, <2>1, <2>3
  <1>7. FieldLength(f3) \in Nat
    <2>1. PICK e : e = << <<"m", c.m_cost>>, <<"t", c.t_cost>>, <<"p", c.lanes>> >>
      OBVIOUS
    <2>2. Len(e) = 3 /\ DOMAIN e = 1 .. 3 /\ 3 \in Nat \ {0}
      BY <2>1
    <2>3. e[1][2] = c.m_cost /\ e[2][2] = c.t_cost /\ e[3][2] = c.lanes
      BY <2>1
    <2>4. \A n \in 1 .. 3 : e[n][2] \in 0 .. Word - 1
      <3>1. ASSUME NEW n \in 1 .. 3 PROVE e[n][2] \in 0 .. Word - 1
        <4>1. n \in {1, 2, 3}
          OBVIOUS
        <4> QED BY <1>4, <2>3, <4>1
      <3> QED BY <3>1
    <2>5. FieldLength(Nums(e)) \in Nat
      BY <2>2, <2>4, NumsLength, Zenon
    <2> QED BY <1>1, <2>1, <2>5
  <1>8. /\ FieldLength(f4) \in Nat /\ c.saltlen <= FieldLength(f4)
        /\ FieldLength(f5) \in Nat /\ c.outlen <= FieldLength(f5)
    BY <1>1, <1>4, BinLength
  <1> DEFINE ls == [n \in DOMAIN str |-> 1 + FieldLength(str[n])]
  <1>9. /\ ls[4] = 1 + FieldLength(f4) /\ ls[5] = 1 + FieldLength(f5)
        /\ Len(ls) = 5 /\ \A n \in 1 .. 5 : ls[n] \in Nat
    <2>1. /\ DOMAIN str = 1 .. 5
          /\ str[1] = f1 /\ str[2] = f2 /\ str[3] = f3 /\ str[4] = f4 /\ str[5] = f5
      BY <1>2
    <2>2. ls = [n \in 1 .. 5 |-> 1 + FieldLength(str[n])]
      BY <2>1
    <2>3. Len(ls) = 5 /\ \A n \in 1 .. 5 : ls[n] = 1 + FieldLength(str[n])
      BY <2>2
    <2> HIDE DEF ls
    <2>4. ASSUME NEW n \in 1 .. 5 PROVE ls[n] \in Nat
      <3>1. n \in {1, 2, 3, 4, 5}
        OBVIOUS
      <3> QED BY <1>5, <1>6, <1>7, <1>8, <2>1, <2>3, <3>1
    <2> QED BY <2>1, <2>3, <2>4
  <1> HIDE DEF ls
  <1>10. SumOf(ls) \in Nat /\ ls[4] <= SumOf(ls) /\ ls[5] <= SumOf(ls)
    <2>1. /\ Len(ls) \in Nat /\ \A n \in 1 .. Len(ls) : ls[n] \in Nat
          /\ 4 \in 0 .. Len(ls) /\ 4 > 0 /\ 5 \in 0 .. Len(ls) /\ 5 > 0
      BY <1>9
    <2> QED BY <2>1, SumsGrow, Zenon
  <1>11. Strlen(str) = SumOf(ls)
    BY Zenon DEF Strlen, ls
  <1> QED BY <1>3, <1>4, <1>8, <1>9, <1>10, <1>11

(* What decode_string reads where encode_string has written. *)
Reads(str, c, tag, type) ==
    /\ str # <<>> /\ str[1] = Lit(argon2_type2string(type))
    /\ versioned(str) /\ str[2].entries = << <<"v", c.version>> >>
    /\ Len(Rest(str)) = 3
    /\ Rest(str)[1] = Nums(<< <<"m", c.m_cost>>, <<"t", c.t_cost>>, <<"p", c.lanes>> >>)
    /\ Rest(str)[2] = Bin(c.salt, c.saltlen)
    /\ Rest(str)[3] = Bin(tag, c.outlen)

LEMMA EncodedParts ==
    ASSUME NEW c, NEW tag, NEW type
    PROVE  Reads(Encoded(c, tag, type), c, tag, type)
  <1> DEFINE str == Encoded(c, tag, type)
  <1>1. PICK f1, f2, f3, f4, f5 :
          /\ f1 = Lit(argon2_type2string(type)) /\ f2 = Nums(<< <<"v", c.version>> >>)
          /\ f3 = Nums(<< <<"m", c.m_cost>>, <<"t", c.t_cost>>, <<"p", c.lanes>> >>)
          /\ f4 = Bin(c.salt, c.saltlen) /\ f5 = Bin(tag, c.outlen)
    OBVIOUS
  <1>2. str = << f1, f2, f3, f4, f5 >>
    BY <1>1, Zenon DEF Encoded
  <1> HIDE DEF str
  <1>3. /\ Len(str) = 5 /\ str # <<>>
        /\ str[1] = f1 /\ str[2] = f2 /\ str[3] = f3 /\ str[4] = f4 /\ str[5] = f5
    BY <1>2
  <1>4. versioned(str) /\ str[2].entries = << <<"v", c.version>> >>
    <2>1. PICK e : e = << <<"v", c.version>> >>
      OBVIOUS
    <2>2. e[1][1] = "v"
      BY <2>1
    <2>3. f2.is = "nums" /\ f2.entries = e
      BY <1>1, <2>1 DEF Nums
    <2> QED BY <1>3, <2>1, <2>2, <2>3 DEF versioned
  <1>5. Rest(str) = SubSeq(str, 3, 5)
    BY <1>3, <1>4, Zenon DEF Rest
  <1>6. /\ Len(SubSeq(str, 3, 5)) = 3 /\ SubSeq(str, 3, 5)[1] = f3
        /\ SubSeq(str, 3, 5)[2] = f4 /\ SubSeq(str, 3, 5)[3] = f5
    BY <1>2
  <1>7. Reads(str, c, tag, type)
    BY <1>1, <1>3, <1>4, <1>5, <1>6, Zenon DEF Reads
  <1> QED BY <1>7 DEF str

(* decode_string undoes encode_string. *)
LEMMA DecodesEncoded ==
    ASSUME NEW c, NEW tag, NEW type \in {"d", "i", "id"}, Writable(c),
           NEW str, str = Encoded(c, tag, type),
           NEW v, {v.saltlen, v.outlen} \subseteq Nat,
           c.saltlen <= v.saltlen, c.outlen <= v.outlen,
           valid(DecodedContext(str, v))
    PROVE  decode_string(str, v, type) = "ARGON2_OK"
  <1>1. argon2_type2string(type) # NULL
    BY DEF argon2_type2string, NULL
  <1>2. /\ c.t_cost \in 0 .. Word - 1 /\ c.m_cost \in 0 .. Word - 1
        /\ c.lanes \in 0 .. Word - 1 /\ c.version \in 0 .. Word - 1
        /\ c.saltlen \in Nat /\ c.outlen \in Nat
    BY VersionDigits DEF Writable
  <1>3. \A n \in 0 .. Word - 1 : decimal_u32(n)
    BY LimitsAssumption DEF decimal_u32, NoNumber
  <1>4. PICK r, ve, ce, costs, salt, out :
          /\ r = Rest(str)
          /\ ve = << <<"v", c.version>> >>
          /\ ce = << <<"m", c.m_cost>>, <<"t", c.t_cost>>, <<"p", c.lanes>> >>
          /\ costs = Nums(ce) /\ salt = Bin(c.salt, c.saltlen) /\ out = Bin(tag, c.outlen)
    OBVIOUS
  <1>5. /\ str # <<>> /\ str[1] = Lit(argon2_type2string(type))
        /\ str[2].entries = ve /\ Len(r) = 3
        /\ r[1] = costs /\ r[2] = salt /\ r[3] = out
    <2>1. Reads(str, c, tag, type)
      BY EncodedParts
    <2> QED BY <1>4, <2>1, Zenon DEF Reads
  <1>6. isVersionField(str[2])
    <2>1. Len(ve) = 1 /\ ve[1][2] = c.version
      BY <1>4
    <2> QED BY <1>2, <1>3, <1>5, <2>1 DEF isVersionField
  <1>7. isCosts(costs)
    <2>1. costs.is = "nums" /\ costs.entries = ce
      BY <1>4 DEF Nums
    <2>2. /\ DOMAIN ce = 1 .. 3 /\ ce[1][1] = "m" /\ ce[2][1] = "t" /\ ce[3][1] = "p"
          /\ ce[1][2] = c.m_cost /\ ce[2][2] = c.t_cost /\ ce[3][2] = c.lanes
      BY <1>4
    <2>3. [n \in DOMAIN ce |-> ce[n][1]] = <<"m", "t", "p">>
      <3>1. PICK names : names = [n \in DOMAIN ce |-> ce[n][1]]
        OBVIOUS
      <3>2. /\ names = [n \in 1 .. 3 |-> names[n]]
            /\ names[1] = "m" /\ names[2] = "t" /\ names[3] = "p"
        BY <2>2, <3>1
      <3>3. names = <<"m", "t", "p">>
        BY <3>2
      <3> QED BY <3>1, <3>3
    <2>4. \A n \in DOMAIN ce : decimal_u32(ce[n][2])
      <3>1. ASSUME NEW n \in DOMAIN ce PROVE decimal_u32(ce[n][2])
        <4>1. n \in {1, 2, 3}
          BY <2>2
        <4> QED BY <1>2, <1>3, <2>2, <4>1
      <3> QED BY <3>1
    <2> QED BY <2>1, <2>3, <2>4, Zenon DEF isCosts
  <1>8. /\ isBin(salt, v.saltlen) /\ ~salt.tail
        /\ isBin(out, v.outlen) /\ ~out.tail
    BY <1>4 DEF isBin, Bin
  <1>9. WellFormed(str, v, type)
    BY <1>4, <1>5, <1>6, <1>7, <1>8 DEF WellFormed
  <1>10. ~trailing(str)
    BY <1>4, <1>5, <1>8 DEF trailing
  <1>11. validate_inputs(DecodedContext(str, v)) = "ARGON2_OK"
    BY ValidateInputsOK, Zenon
  <1> QED BY <1>1, <1>9, <1>10, <1>11, Zenon DEF decode_string

(* encode_string succeeds when the string fits, decode_string only on inputs  *)
(* that argon2_ctx accepts.                                                   *)
LEMMA EncodeString ==
    ASSUME NEW dst_len, NEW c, valid(c), NEW type \in {"d", "i", "id"}
    PROVE  encode_string(dst_len, c, type) = "ARGON2_OK" <=> fits(Pieces(c, type), dst_len)
  <1>1. argon2_type2string(type) # NULL
    BY DEF argon2_type2string, NULL
  <1>2. validate_inputs(c) = "ARGON2_OK"
    BY ValidateInputsOK, Zenon
  <1>3. "ARGON2_OK" # "ARGON2_ENCODING_FAIL"
    OBVIOUS
  <1> QED BY <1>1, <1>2, <1>3, Zenon DEF encode_string

LEMMA DecodeAccepts ==
    ASSUME NEW str, NEW c, NEW type, decode_string(str, c, type) = "ARGON2_OK"
    PROVE  valid(DecodedContext(str, c)) /\ type \in {"d", "i", "id"}
  <1>1. /\ "ARGON2_OK" # "ARGON2_INCORRECT_TYPE" /\ "ARGON2_OK" # "ARGON2_DECODING_FAIL"
    OBVIOUS
  <1>2. argon2_type2string(type) # NULL
    BY <1>1, Zenon DEF decode_string
  <1>3. type \in {"d", "i", "id"}
    <2>1. SUFFICES ASSUME type # "d", type # "i", type # "id" PROVE FALSE
      BY Zenon
    <2>2. argon2_type2string(type) = NULL
      BY <2>1 DEF argon2_type2string
    <2> QED BY <1>2, <2>2
  <1>4. validate_inputs(DecodedContext(str, c)) = "ARGON2_OK"
    BY <1>1, Zenon DEF decode_string
  <1> QED BY <1>3, <1>4, ValidateInputsOK, Zenon

=============================================================================
