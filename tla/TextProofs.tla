----------------------------- MODULE TextProofs -----------------------------
(* The properties of MCText that are about whole strings, for all strings and *)
(* objects: phc.ts and encoding.c read back what they write, write what they  *)
(* read, and agree with each other; and what decode_decimal, to_base64 and    *)
(* from_base64 do with texts of any length.                                   *)
EXTENDS MCText, EncodingLemmas, FiniteSetTheorems

-----------------------------------------------------------------------------
(* Sequences of a few elements. *)

(* One more element at the end. *)
LEMMA OneMore ==
    ASSUME NEW S, NEW s \in Seq(S), NEW x \in S, NEW u, u = s \o <<x>>
    PROVE  /\ u \in Seq(S) /\ Len(u) = Len(s) + 1
           /\ \A k \in 1 .. Len(s) : u[k] = s[k]
           /\ u[Len(s) + 1] = x
  <1>1. PICK t : t = <<x>>
    OBVIOUS
  <1>2. t \in Seq(S) /\ Len(t) = 1 /\ t[1] = x /\ Len(s) \in Nat
    BY <1>1, LenProperties
  <1>3. /\ s \o t \in Seq(S)
        /\ Len(s \o t) = Len(s) + Len(t)
        /\ \A k \in 1 .. Len(s) + Len(t) : (s \o t)[k] =
              IF k <= Len(s) THEN s[k] ELSE t[k - Len(s)]
    BY <1>2, ConcatProperties, Zenon
  <1>4. /\ Len(u) = Len(s) + 1
        /\ \A k \in 1 .. Len(s) + 1 : u[k] = IF k <= Len(s) THEN s[k] ELSE t[k - Len(s)]
    BY <1>1, <1>2, <1>3
  <1> QED BY <1>1, <1>2, <1>3, <1>4

LEMMA Tuples ==
    ASSUME NEW a, NEW b, NEW c
    PROVE  /\ <<>> \o <<>> = <<>> /\ <<>> \o <<a>> = <<a>>
           /\ <<a>> \o <<>> = <<a>> /\ <<a, b>> \o <<>> = <<a, b>>
           /\ <<a>> \o <<b>> = <<a, b>> /\ <<a, b>> \o <<c>> = <<a, b, c>>
  <1>1. PICK S, s, t, u : /\ S = {a, b, c} /\ s = <<a>> /\ t = <<a, b>> /\ u = <<a, b, c>>
    OBVIOUS
  <1>2. s \in Seq(S) /\ Len(s) = 1 /\ s[1] = a /\ a \in S /\ b \in S /\ c \in S
    BY <1>1
  <1>3. t \in Seq(S) /\ Len(t) = 2 /\ t[1] = a /\ t[2] = b
    BY <1>1
  <1>4. u \in Seq(S) /\ Len(u) = 3 /\ u[1] = a /\ u[2] = b /\ u[3] = c
    BY <1>1
  <1>5. /\ <<>> \o s = s /\ s \o <<>> = s /\ t \o <<>> = t
        /\ <<>> \o <<>> = <<>>
    BY <1>2, <1>3, ConcatEmptySeq, EmptySeq
  <1>6. s \o <<b>> = t
    <2>1. PICK w : w = s \o <<b>>
      OBVIOUS
    <2>2. w \in Seq(S) /\ Len(w) = 2 /\ w[1] = s[1] /\ w[2] = b
      BY <1>2, <2>1, OneMore
    <2>3. \A k \in 1 .. 2 : w[k] = t[k]
      BY <1>2, <1>3, <2>2
    <2> QED BY <1>3, <2>1, <2>2, <2>3, SeqEqual
  <1>7. t \o <<c>> = u
    <2>1. PICK w : w = t \o <<c>>
      OBVIOUS
    <2>2. w \in Seq(S) /\ Len(w) = 3 /\ (\A k \in 1 .. 2 : w[k] = t[k]) /\ w[3] = c
      <3>1. w \in Seq(S) /\ Len(w) = Len(t) + 1 /\ (\A k \in 1 .. Len(t) : w[k] = t[k])
            /\ w[Len(t) + 1] = c
        BY <1>2, <1>3, <2>1, OneMore, SMTT(60)
      <3> QED BY <1>3, <3>1
    <2>3. \A k \in 1 .. 3 : w[k] = u[k]
      BY <1>3, <1>4, <2>2
    <2> QED BY <1>4, <2>1, <2>2, <2>3, SeqEqual
  <1> QED BY <1>1, <1>5, <1>6, <1>7

(* A sequence is its first elements and the rest. *)
LEMMA SplitAt ==
    ASSUME NEW S, NEW s \in Seq(S), NEW k \in 0 .. Len(s)
    PROVE  /\ SubSeq(s, 1, k) \o SubSeq(s, k + 1, Len(s)) = s
           /\ SubSeq(s, k + 1, Len(s)) \in Seq(S)
           /\ Len(SubSeq(s, k + 1, Len(s))) = Len(s) - k
           /\ \A n \in 1 .. Len(s) - k : SubSeq(s, k + 1, Len(s))[n] = s[k + n]
           /\ k = 1 => SubSeq(s, 1, k) = <<s[1]>>
           /\ k = 2 => SubSeq(s, 1, k) = <<s[1], s[2]>>
  <1>1. Len(s) \in Nat /\ \A n \in 1 .. Len(s) : s[n] \in S
    BY LenProperties, ElementOfSeq
  <1>2. SubSeq(s, 1, k) \o SubSeq(s, k + 1, Len(s)) = SubSeq(s, 1, Len(s))
    <2>1. 1 \in 1 .. Len(s) + 1 /\ k \in 1 - 1 .. Len(s) /\ Len(s) \in k .. Len(s)
      BY <1>1
    <2> QED BY <2>1, ConcatAdjacentSubSeq, Zenon
  <1>3. SubSeq(s, 1, Len(s)) = s
    BY SubSeqFull
  <1>4. PICK r : r = SubSeq(s, k + 1, Len(s))
    OBVIOUS
  <1>5. /\ r \in Seq(S) /\ Len(r) = Len(s) - k
        /\ \A n \in 1 .. Len(s) - k : r[n] = s[k + 1 + n - 1]
    BY <1>1, <1>4, SubSeqProperties
  <1>6. \A n \in 1 .. Len(s) - k : r[n] = s[k + n]
    BY <1>1, <1>5
  <1>7. PICK h : h = SubSeq(s, 1, k)
    OBVIOUS
  <1>8. h \in Seq(S) /\ Len(h) = k /\ \A n \in 1 .. k : h[n] = s[n]
    BY <1>1, <1>7, SubSeqProperties
  <1>9. k = 1 => h = <<s[1]>>
    <2> SUFFICES ASSUME k = 1 PROVE h = <<s[1]>>
      OBVIOUS
    <2>1. PICK t : t = <<s[1]>>
      OBVIOUS
    <2>2. t \in Seq(S) /\ Len(t) = 1 /\ t[1] = s[1]
      BY <1>1, <2>1
    <2> QED BY <1>8, <2>1, <2>2, SeqEqual
  <1>10. k = 2 => h = <<s[1], s[2]>>
    <2> SUFFICES ASSUME k = 2 PROVE h = <<s[1], s[2]>>
      OBVIOUS
    <2>1. PICK t : t = <<s[1], s[2]>>
      OBVIOUS
    <2>2. t \in Seq(S) /\ Len(t) = 2 /\ t[1] = s[1] /\ t[2] = s[2]
      BY <1>1, <2>1
    <2>3. \A n \in 1 .. 2 : h[n] = t[n]
      BY <1>8, <2>2
    <2> QED BY <1>8, <2>1, <2>2, <2>3, SeqEqual
  <1> QED BY <1>2, <1>3, <1>4, <1>5, <1>6, <1>7, <1>9, <1>10

(* A sequence s of a beginning b and a rest r. *)
Joined(S, b, r, s) ==
    /\ s \in Seq(S) /\ Len(s) = Len(b) + Len(r)
    /\ SubSeq(s, Len(b) + 1, Len(s)) = r
    /\ \A n \in 1 .. Len(b) : s[n] = b[n]
    /\ \A n \in 1 .. Len(r) : s[Len(b) + n] = r[n]

LEMMA RestOf ==
    ASSUME NEW S, NEW b, NEW r, NEW s, b \in Seq(S), r \in Seq(S), s = b \o r
    PROVE  Joined(S, b, r, s)
  <1>1. Len(b) \in Nat /\ Len(r) \in Nat
    BY LenProperties
  <1>2. /\ s \in Seq(S) /\ Len(s) = Len(b) + Len(r)
        /\ \A n \in 1 .. Len(b) + Len(r) : s[n] = IF n <= Len(b) THEN b[n] ELSE r[n - Len(b)]
    BY ConcatProperties, Zenon
  <1>3. \A n \in 1 .. Len(b) : s[n] = b[n]
    BY <1>1, <1>2
  <1>4. \A n \in 1 .. Len(r) : s[Len(b) + n] = r[n]
    BY <1>1, <1>2
  <1>5. PICK w : w = SubSeq(s, Len(b) + 1, Len(s))
    OBVIOUS
  <1>6. /\ w \in Seq(S) /\ Len(w) = Len(s) - Len(b)
        /\ \A n \in 1 .. Len(s) - Len(b) : w[n] = s[Len(b) + n]
    BY <1>1, <1>2, <1>5, SplitAt
  <1>7. w = r
    BY <1>1, <1>2, <1>4, <1>6, SeqEqual
  <1> QED BY <1>2, <1>3, <1>4, <1>5, <1>7 DEF Joined

-----------------------------------------------------------------------------
(* What follows the version, by how many words it ends in. *)
LEMMA TrailingIs ==
    ASSUME NEW a, NEW b, NEW c
    PROVE  /\ Trailing(<<>>) = [left |-> <<>>, salt |-> None, hash |-> None]
           /\ a.is # "word" =>
                Trailing(<<a>>) = [left |-> <<a>>, salt |-> None, hash |-> None]
           /\ a.is = "word" =>
                Trailing(<<a>>) = [left |-> <<>>, salt |-> Buf(a.bytes), hash |-> None]
           /\ a.is # "word" /\ b.is = "word" =>
                Trailing(<<a, b>>) = [left |-> <<a>>, salt |-> Buf(b.bytes), hash |-> None]
           /\ a.is = "word" /\ b.is = "word" =>
                Trailing(<<a, b>>)
                  = [left |-> <<>>, salt |-> Buf(a.bytes), hash |-> Buf(b.bytes)]
           /\ b.is = "word" /\ c.is = "word" =>
                Trailing(<<a, b, c>>)
                  = [left |-> <<a>>, salt |-> Buf(b.bytes), hash |-> Buf(c.bytes)]
  <1>1. PICK S, e, s, t, u : /\ S = {a, b, c} /\ e = <<>>
                             /\ s = <<a>> /\ t = <<a, b>> /\ u = <<a, b, c>>
    OBVIOUS
  <1>2. /\ e \in Seq(S) /\ s \in Seq(S) /\ t \in Seq(S) /\ u \in Seq(S)
        /\ Len(e) = 0 /\ Len(s) = 1 /\ Len(t) = 2 /\ Len(u) = 3
        /\ s[1] = a /\ t[1] = a /\ t[2] = b /\ u[1] = a /\ u[2] = b /\ u[3] = c
    BY <1>1
  <1>3. SubSeq(s, 1, 0) = e /\ SubSeq(t, 1, 0) = e
    BY <1>1, SubSeqEmpty
  <1>4. SubSeq(t, 1, 1) = s /\ SubSeq(u, 1, 1) = s
    <2>1. 1 \in 0 .. Len(t) /\ 1 \in 0 .. Len(u)
      BY <1>2
    <2>2. SubSeq(t, 1, 1) = <<t[1]>> /\ SubSeq(u, 1, 1) = <<u[1]>>
      BY <1>2, <2>1, SplitAt, Zenon
    <2> QED BY <1>1, <1>2, <2>2
  <1>5. Trailing(e) = [left |-> e, salt |-> None, hash |-> None]
    BY <1>2 DEF Trailing
  <1>6. a.is # "word" => Trailing(s) = [left |-> s, salt |-> None, hash |-> None]
    BY <1>2 DEF Trailing
  <1>7. a.is = "word" => Trailing(s) = [left |-> e, salt |-> Buf(a.bytes), hash |-> None]
    BY <1>2, <1>3 DEF Trailing
  <1>8. a.is # "word" /\ b.is = "word" =>
          Trailing(t) = [left |-> s, salt |-> Buf(b.bytes), hash |-> None]
    BY <1>2, <1>4 DEF Trailing
  <1>9. a.is = "word" /\ b.is = "word" =>
          Trailing(t) = [left |-> e, salt |-> Buf(a.bytes), hash |-> Buf(b.bytes)]
    BY <1>2, <1>3 DEF Trailing
  <1>10. b.is = "word" /\ c.is = "word" =>
          Trailing(u) = [left |-> s, salt |-> Buf(b.bytes), hash |-> Buf(c.bytes)]
    BY <1>2, <1>4 DEF Trailing
  <1> QED BY <1>1, <1>5, <1>6, <1>7, <1>8, <1>9, <1>10

(* A short sequence is the tuple of its elements. *)
LEMMA AsTuple ==
    ASSUME NEW S, NEW s \in Seq(S)
    PROVE  /\ Len(s) = 0 => s = <<>>
           /\ Len(s) = 1 => s = <<s[1]>>
           /\ Len(s) = 2 => s = <<s[1], s[2]>>
           /\ Len(s) = 3 => s = <<s[1], s[2], s[3]>>
  <1>1. Len(s) \in Nat /\ \A n \in 1 .. Len(s) : s[n] \in S
    BY LenProperties, ElementOfSeq
  <1>2. Len(s) = 0 => s = <<>>
    BY EmptySeq
  <1>3. Len(s) = 1 => s = <<s[1]>>
    <2> SUFFICES ASSUME Len(s) = 1 PROVE s = <<s[1]>>
      OBVIOUS
    <2>1. PICK t : t = <<s[1]>>
      OBVIOUS
    <2>2. t \in Seq(S) /\ Len(t) = 1 /\ t[1] = s[1]
      BY <1>1, <2>1
    <2> QED BY <2>1, <2>2, SeqEqual
  <1>4. Len(s) = 2 => s = <<s[1], s[2]>>
    <2> SUFFICES ASSUME Len(s) = 2 PROVE s = <<s[1], s[2]>>
      OBVIOUS
    <2>1. PICK t : t = <<s[1], s[2]>>
      OBVIOUS
    <2>2. t \in Seq(S) /\ Len(t) = 2 /\ t[1] = s[1] /\ t[2] = s[2]
      BY <1>1, <2>1
    <2>3. \A n \in 1 .. 2 : t[n] = s[n]
      BY <2>2
    <2> QED BY <2>1, <2>2, <2>3, SeqEqual
  <1>5. Len(s) = 3 => s = <<s[1], s[2], s[3]>>
    <2> SUFFICES ASSUME Len(s) = 3 PROVE s = <<s[1], s[2], s[3]>>
      OBVIOUS
    <2>1. PICK t : t = <<s[1], s[2], s[3]>>
      OBVIOUS
    <2>2. t \in Seq(S) /\ Len(t) = 3 /\ t[1] = s[1] /\ t[2] = s[2] /\ t[3] = s[3]
      BY <1>1, <2>1
    <2>3. \A n \in 1 .. 3 : t[n] = s[n]
      BY <2>2
    <2> QED BY <2>1, <2>2, <2>3, SeqEqual
  <1> QED BY <1>2, <1>3, <1>4, <1>5

(* Of at most three fields, what deserialize takes from the back is put back  *)
(* by serialize in the same places, with the text of its bytes, if at most    *)
(* one field is left: first is written for that one.                          *)
Optional(tail, first) ==
    Field(tail.left # <<>>, first) \o Field(tail.salt # None, Text(tail.salt.text))
       \o Field(tail.hash # None, Text(tail.hash.text))

Again(rest, left, first, s) ==
    /\ s = [n \in 1 .. Len(rest) |-> IF n = 1 /\ left # <<>> THEN first
                                     ELSE Text(rest[n].bytes)]
    /\ \A n \in 1 .. Len(rest) : n # 1 \/ left = <<>> => rest[n].is = "word"

LEMMA Reassembled ==
    ASSUME NEW F, NEW rest \in Seq(F), Len(rest) <= 3, NEW first,
           NEW tail, tail = Trailing(rest), ~unrecognized(tail.left)
    PROVE  /\ tail.left = <<>> \/ (rest # <<>> /\ rest[1] \in F /\ tail.left = <<rest[1]>>)
           /\ Again(rest, tail.left, first, Optional(tail, first))
           /\ tail.salt = None \/ tail.salt = Buf(tail.salt.text)
           /\ tail.hash = None \/ (tail.hash = Buf(tail.hash.text) /\ tail.salt # None)
  <1>1. Len(rest) \in Nat /\ \A n \in 1 .. Len(rest) : rest[n] \in F
    BY LenProperties, ElementOfSeq
  <1>2. Len(rest) \in {0, 1, 2, 3}
    <2>1. PICK n : n = Len(rest) /\ n \in Nat /\ n <= 3
      BY <1>1
    <2>2. n \in {0, 1, 2, 3}
      BY ONLY <2>1
    <2> QED BY <2>1, <2>2
  <1>3. \A t : Buf(t) # None /\ Buf(t).text = t
    BY DEF None, Buf
  <1>4. CASE Len(rest) = 0
    <2>1. rest = <<>>
      BY <1>4, AsTuple
    <2>2. tail = [left |-> <<>>, salt |-> None, hash |-> None]
      BY <2>1, TrailingIs
    <2>3. tail.left = <<>> /\ tail.salt = None /\ tail.hash = None
      BY <2>2
    <2>4. Optional(tail, first) = <<>> \o <<>> \o <<>>
      BY <2>3, Zenon DEF Optional, Field
    <2>5. Optional(tail, first) = <<>>
      BY <2>4, Tuples, Zenon
    <2>6. Again(rest, tail.left, first, <<>>)
      BY <1>4 DEF Again
    <2> QED BY <2>3, <2>5, <2>6
  <1>5. CASE Len(rest) = 1
    <2>1. PICK a : a = rest[1] /\ a \in F
      BY <1>1, <1>5
    <2>2. rest = <<a>> /\ rest # <<>>
      <3>1. rest = <<a>>
        BY <1>5, <2>1, AsTuple, Zenon
      <3> QED BY <3>1
    <2>3. CASE a.is = "word"
      <3>1. tail = [left |-> <<>>, salt |-> Buf(a.bytes), hash |-> None]
        BY <2>2, <2>3, TrailingIs
      <3>2. tail.left = <<>> /\ tail.salt = Buf(a.bytes) /\ tail.hash = None
        BY <3>1
      <3>3. PICK x : x = Text(a.bytes)
        OBVIOUS
      <3>4. Text(tail.salt.text) = x /\ tail.salt # None
        BY <1>3, <3>2, <3>3, Zenon
      <3>5. Optional(tail, first) = <<>> \o <<x>> \o <<>>
        BY <3>2, <3>4, Zenon DEF Optional, Field
      <3>6. Optional(tail, first) = <<x>>
        BY <3>5, Tuples, Zenon
      <3>7. Again(rest, tail.left, first, <<x>>)
        BY <1>5, <2>1, <2>3, <3>2, <3>3 DEF Again
      <3> QED BY <1>3, <3>2, <3>6, <3>7
    <2>4. CASE a.is # "word"
      <3>1. tail = [left |-> <<a>>, salt |-> None, hash |-> None]
        BY <2>2, <2>4, TrailingIs
      <3>2. tail.left = <<a>> /\ <<a>> # <<>> /\ tail.salt = None /\ tail.hash = None
        BY <3>1
      <3>3. Optional(tail, first) = <<first>> \o <<>> \o <<>>
        BY <3>2, Zenon DEF Optional, Field
      <3>4. Optional(tail, first) = <<first>>
        BY <3>3, Tuples, Zenon
      <3>5. Again(rest, tail.left, first, <<first>>)
        BY <1>5, <3>2 DEF Again
      <3> QED BY <2>1, <2>2, <3>2, <3>4, <3>5
    <2> QED BY <2>3, <2>4
  <1>6. CASE Len(rest) = 2
    <2>1. PICK a, b : a = rest[1] /\ b = rest[2] /\ a \in F /\ b \in F
      BY <1>1, <1>6
    <2>2. rest = <<a, b>> /\ rest # <<>>
      BY <1>6, <2>1, AsTuple
    <2>3. PICK x, y : x = Text(a.bytes) /\ y = Text(b.bytes)
      OBVIOUS
    <2>4. CASE a.is = "word" /\ b.is = "word"
      <3>1. tail = [left |-> <<>>, salt |-> Buf(a.bytes), hash |-> Buf(b.bytes)]
        BY <2>2, <2>4, TrailingIs
      <3>2. tail.left = <<>> /\ tail.salt = Buf(a.bytes) /\ tail.hash = Buf(b.bytes)
        BY <3>1
      <3>3. /\ Text(tail.salt.text) = x /\ Text(tail.hash.text) = y
            /\ tail.salt # None /\ tail.hash # None
        BY <1>3, <2>3, <3>2, Zenon
      <3>4. Optional(tail, first) = <<>> \o <<x>> \o <<y>>
        BY <3>2, <3>3, Zenon DEF Optional, Field
      <3>5. Optional(tail, first) = <<x, y>>
        <4>1. <<>> \o <<x>> = <<x>> /\ <<x>> \o <<y>> = <<x, y>>
          BY Tuples, Zenon
        <4> QED BY <3>4, <4>1, Zenon
      <3>6. Again(rest, tail.left, first, <<x, y>>)
        BY <1>6, <2>1, <2>3, <2>4, <3>2 DEF Again
      <3> QED BY <1>3, <3>2, <3>3, <3>5, <3>6
    <2>5. CASE a.is # "word" /\ b.is = "word"
      <3>1. tail = [left |-> <<a>>, salt |-> Buf(b.bytes), hash |-> None]
        BY <2>2, <2>5, TrailingIs
      <3>2. /\ tail.left = <<a>> /\ <<a>> # <<>>
            /\ tail.salt = Buf(b.bytes) /\ tail.hash = None
        BY <3>1
      <3>3. Text(tail.salt.text) = y /\ tail.salt # None
        BY <1>3, <2>3, <3>2, Zenon
      <3>4. Optional(tail, first) = <<first>> \o <<y>> \o <<>>
        BY <3>2, <3>3, Zenon DEF Optional, Field
      <3>5. Optional(tail, first) = <<first, y>>
        <4>1. <<first>> \o <<y>> = <<first, y>> /\ <<first, y>> \o <<>> = <<first, y>>
          BY Tuples, Zenon
        <4> QED BY <3>4, <4>1, Zenon
      <3>6. Again(rest, tail.left, first, <<first, y>>)
        BY <1>6, <2>1, <2>3, <2>5, <3>2 DEF Again
      <3> QED BY <1>3, <2>1, <2>2, <3>2, <3>5, <3>6
    <2>6. CASE b.is # "word"
      <3>1. tail.left = rest
        BY <1>6, <2>1, <2>6 DEF Trailing
      <3>2. Len(tail.left) = 2
        BY <1>6, <3>1
      <3> QED BY <3>2 DEF unrecognized
    <2> QED BY <2>4, <2>5, <2>6
  <1>7. CASE Len(rest) = 3
    <2>1. PICK a, b, c : /\ a = rest[1] /\ b = rest[2] /\ c = rest[3]
                         /\ a \in F /\ b \in F /\ c \in F
      BY <1>1, <1>7
    <2>2. rest = <<a, b, c>> /\ rest # <<>>
      BY <1>7, <2>1, AsTuple
    <2>3. CASE b.is = "word" /\ c.is = "word"
      <3>1. tail = [left |-> <<a>>, salt |-> Buf(b.bytes), hash |-> Buf(c.bytes)]
        BY <2>2, <2>3, TrailingIs
      <3>2. /\ tail.left = <<a>> /\ <<a>> # <<>>
            /\ tail.salt = Buf(b.bytes) /\ tail.hash = Buf(c.bytes)
        BY <3>1
      <3>3. PICK y, z : y = Text(b.bytes) /\ z = Text(c.bytes)
        OBVIOUS
      <3>4. /\ Text(tail.salt.text) = y /\ Text(tail.hash.text) = z
            /\ tail.salt # None /\ tail.hash # None
        BY <1>3, <3>2, <3>3, Zenon
      <3>5. Optional(tail, first) = <<first>> \o <<y>> \o <<z>>
        BY <3>2, <3>4, Zenon DEF Optional, Field
      <3>6. Optional(tail, first) = <<first, y, z>>
        <4>1. <<first>> \o <<y>> = <<first, y>> /\ <<first, y>> \o <<z>> = <<first, y, z>>
          BY Tuples, Zenon
        <4> QED BY <3>5, <4>1, Zenon
      <3>7. Again(rest, tail.left, first, <<first, y, z>>)
        BY <1>7, <2>1, <2>3, <3>2, <3>3 DEF Again
      <3> QED BY <1>3, <2>1, <2>2, <3>2, <3>4, <3>6, <3>7
    <2>4. CASE c.is # "word"
      <3>1. tail.left = rest
        BY <1>7, <2>1, <2>4 DEF Trailing
      <3> QED BY <1>7, <3>1 DEF unrecognized
    <2>5. CASE b.is # "word" /\ c.is = "word"
      <3>1. tail.left = SubSeq(rest, 1, 2)
        BY <1>7, <2>1, <2>5 DEF Trailing
      <3>2. 2 \in 0 .. Len(rest)
        BY <1>7
      <3>3. SubSeq(rest, 1, 2) = <<rest[1], rest[2]>>
        BY <3>2, SplitAt, Zenon
      <3>4. Len(tail.left) = 2
        BY <3>1, <3>3
      <3> QED BY <3>4 DEF unrecognized
    <2> QED BY <2>3, <2>4, <2>5
  <1> QED BY <1>2, <1>4, <1>5, <1>6, <1>7

-----------------------------------------------------------------------------
(* deserialize, once the version field is found or not, and serialize. *)
Converted(entries) == [n \in DOMAIN entries |-> <<entries[n][1], convert(entries[n][2])>>]

Sound(fields, maxf, left) ==
    /\ fields # <<>> /\ ~ (Len(fields) > maxf)
    /\ fields[1].is = "word" /\ fields[1].text \in Names
    /\ left # <<>> => /\ left[Len(left)].is = "pairs"
                      /\ ~BadEntries(left[Len(left)].entries)
    /\ ~unrecognized(left)

Parsed(fields, version, left, tail) ==
    [id |-> fields[1].text, version |-> version,
     params |-> IF left = <<>> THEN None ELSE Params(Converted(left[Len(left)].entries)),
     salt |-> tail.salt, hash |-> tail.hash]

Deserialized(fields, version, maxf, tail) ==
    IF ~Sound(fields, maxf, tail.left) THEN TypeError
    ELSE Parsed(fields, version, tail.left, tail)

LEMMA Deserializes ==
    ASSUME NEW fields
    PROVE  deserialize(fields) =
             IF Len(fields) >= 2 /\ isVersion(fields[2])
             THEN Deserialized(fields, Num(parseInt(fields[2].entries[1][2])), 5,
                               Trailing(SubSeq(fields, 3, Len(fields))))
             ELSE Deserialized(fields, None, 4, Trailing(SubSeq(fields, 2, Len(fields))))
  <1>1. CASE Len(fields) >= 2 /\ isVersion(fields[2])
    BY <1>1, Zenon DEF deserialize, Deserialized, Sound, Parsed, Converted
  <1>2. CASE ~ (Len(fields) >= 2 /\ isVersion(fields[2]))
    BY <1>2, Zenon DEF deserialize, Deserialized, Sound, Parsed, Converted
  <1> QED BY <1>1, <1>2

Refused(o) ==
    \/ o.id \notin Names
    \/ o.hash # None /\ o.salt = None
    \/ o.params # None /\ \E n \in DOMAIN o.params.list : BadParam(o.params.list[n])

Written(o) ==
    <<Text(o.id)>>
    \o Field(o.version # None, Pairs(<< <<"v", toText(o.version)>> >>))
    \o Field(o.params # None, ParamsField(keyed(o.params.list)))
    \o Field(o.salt # None, Text(o.salt.text))
    \o Field(o.hash # None, Text(o.hash.text))

LEMMA Serializes ==
    ASSUME NEW o
    PROVE  serialize(o) = IF Refused(o) THEN TypeError ELSE [fields |-> Written(o)]
  BY Zenon DEF serialize, Refused, Written

(* Fields that may be missing come before the last three, or among them. *)
LEMMA Grouped ==
    ASSUME NEW a, NEW v, NEW p, NEW s, NEW h,
           NEW pv \in BOOLEAN, NEW pp \in BOOLEAN, NEW ps \in BOOLEAN, NEW ph \in BOOLEAN
    PROVE  <<a>> \o Field(pv, v) \o Field(pp, p) \o Field(ps, s) \o Field(ph, h)
             = (<<a>> \o Field(pv, v)) \o (Field(pp, p) \o Field(ps, s) \o Field(ph, h))
  <1>1. PICK S : S = {a, v, p, s, h}
    OBVIOUS
  <1>2. ASSUME NEW q \in BOOLEAN, NEW x \in S PROVE Field(q, x) \in Seq(S)
    <2>1. <<x>> \in Seq(S) /\ <<>> \in Seq(S)
      OBVIOUS
    <2> QED BY <2>1 DEF Field
  <1>3. PICK b, fp, fs, fh : /\ b = <<a>> \o Field(pv, v) /\ fp = Field(pp, p)
                             /\ fs = Field(ps, s) /\ fh = Field(ph, h)
    OBVIOUS
  <1>4. a \in S /\ v \in S /\ p \in S /\ s \in S /\ h \in S
    BY <1>1
  <1>5. fp \in Seq(S) /\ fs \in Seq(S) /\ fh \in Seq(S) /\ Field(pv, v) \in Seq(S)
    BY <1>2, <1>3, <1>4
  <1>6. <<a>> \in Seq(S)
    <2>1. PICK t : t = <<a>>
      OBVIOUS
    <2> QED BY <1>4, <2>1
  <1>7. b \in Seq(S)
    BY <1>3, <1>5, <1>6, ConcatProperties, Zenon
  <1>8. b \o fp \in Seq(S) /\ fp \o fs \in Seq(S)
    BY <1>5, <1>7, ConcatProperties, Zenon
  <1>9. ((b \o fp) \o fs) \o fh = (b \o (fp \o fs)) \o fh
    <2>1. (b \o fp) \o fs = b \o (fp \o fs)
      BY <1>5, <1>7, ConcatAssociative, SMTT(60)
    <2> QED BY <2>1, Zenon
  <1>10. (b \o (fp \o fs)) \o fh = b \o ((fp \o fs) \o fh)
    <2>1. PICK ft : ft = fp \o fs
      OBVIOUS
    <2>2. ft \in Seq(S)
      BY <1>8, <2>1
    <2>3. (b \o ft) \o fh = b \o (ft \o fh)
      BY <1>5, <1>7, <2>2, ConcatAssociative, SMTT(60)
    <2> QED BY <2>1, <2>3, Zenon
  <1> QED BY <1>3, <1>9, <1>10, Zenon

(* A text is the text of what it is converted to. *)
LEMMA TextKept ==
    ASSUME NEW text
    PROVE  toText(convert(text)) = text
  <1>1. text \in Decimals => ToString(Value(text)) = text
    BY DEF Decimals, Value
  <1>2. toText(Num(Value(text))) = ToString(Value(text)) /\ toText(Str(text)) = text
    BY DEF toText, Num, Str
  <1> QED BY <1>1, <1>2 DEF convert

(* The order of the keys of an object is a permutation, which only the names  *)
(* decide.                                                                    *)
Distinct(list) == \A n, k \in DOMAIN list : list[n][1] = list[k][1] => n = k

LEMMA IndexValue ==
    ASSUME NEW x \in Indices, NEW y \in Indices
    PROVE  Value(x) \in Nat /\ (Value(x) = Value(y) => x = y)
  <1>1. MaxSafe \in Nat /\ MaxIndex \in 0 .. MaxSafe
    BY PhcAssumption, Zenon
  <1>2. \A n \in 0 .. MaxIndex : n \in 0 .. MaxSafe
    BY <1>1
  <1>3. ASSUME NEW z \in Indices PROVE Value(z) \in 0 .. MaxSafe /\ ToString(Value(z)) = z
    <2>1. \E n \in 0 .. MaxSafe : ToString(n) = z
      BY <1>2, Zenon DEF Indices
    <2> QED BY <2>1 DEF Value
  <1> QED BY <1>1, <1>3

LEMMA BeforeOrders ==
    ASSUME NEW list, NEW N \in Nat, DOMAIN list = 1 .. N, Distinct(list)
    PROVE  /\ \A n \in 1 .. N : ~before(list, n, n)
           /\ \A n, k \in 1 .. N : n # k => before(list, n, k) \/ before(list, k, n)
           /\ \A n, k, l \in 1 .. N :
                before(list, n, k) /\ before(list, k, l) => before(list, n, l)
  <1>1. ASSUME NEW n \in 1 .. N PROVE ~before(list, n, n)
    BY IndexValue DEF before
  <1>2. ASSUME NEW n \in 1 .. N, NEW k \in 1 .. N, n # k
        PROVE  before(list, n, k) \/ before(list, k, n)
    <2>1. list[n][1] # list[k][1]
      BY <1>2 DEF Distinct
    <2> QED BY <1>2, <2>1, IndexValue DEF before
  <1>3. ASSUME NEW n \in 1 .. N, NEW k \in 1 .. N, NEW l \in 1 .. N,
               before(list, n, k), before(list, k, l)
        PROVE  before(list, n, l)
    BY <1>3, IndexValue DEF before
  <1> QED BY <1>1, <1>2, <1>3

LEMMA PlacesDiffer ==
    ASSUME NEW list, NEW N \in Nat, DOMAIN list = 1 .. N, Distinct(list)
    PROVE  /\ \A n \in 1 .. N : place(list, n) \in 1 .. N
           /\ \A n, k \in 1 .. N : place(list, n) = place(list, k) => n = k
  <1> DEFINE preds(n) == {k \in 1 .. N : before(list, k, n)}
  <1>1. IsFiniteSet(1 .. N) /\ Cardinality(1 .. N) = N
    <2>1. 1 \in Int /\ N \in Int
      OBVIOUS
    <2>2. IsFiniteSet(1 .. N) /\ Cardinality(1 .. N) = IF 1 > N THEN 0 ELSE N - 1 + 1
      BY <2>1, FS_Interval
    <2> QED BY <2>2
  <1>2. ASSUME NEW n \in 1 .. N
        PROVE  /\ IsFiniteSet(preds(n)) /\ Cardinality(preds(n)) \in Nat
               /\ Cardinality(preds(n)) < N /\ n \notin preds(n)
               /\ place(list, n) = Cardinality(preds(n)) + 1
    <2>1. preds(n) \in SUBSET (1 .. N) /\ n \notin preds(n) /\ preds(n) # 1 .. N
      BY BeforeOrders
    <2>2. /\ IsFiniteSet(preds(n)) /\ Cardinality(preds(n)) <= Cardinality(1 .. N)
          /\ Cardinality(1 .. N) = Cardinality(preds(n)) => 1 .. N = preds(n)
      BY <1>1, <2>1, FS_Subset, Zenon
    <2>3. Cardinality(preds(n)) \in Nat
      BY <2>2, FS_CardinalityType
    <2>4. Cardinality(preds(n)) < N
      <3>1. PICK c : c = Cardinality(preds(n))
        OBVIOUS
      <3>2. c \in Nat /\ c <= N /\ c # N
        BY <1>1, <2>1, <2>2, <2>3, <3>1, Zenon
      <3> QED BY <3>1, <3>2
    <2>5. place(list, n) = Cardinality(preds(n)) + 1
      BY Zenon DEF place
    <2> QED BY <2>1, <2>2, <2>3, <2>4, <2>5
  <1>3. ASSUME NEW n \in 1 .. N, NEW k \in 1 .. N, before(list, n, k)
        PROVE  Cardinality(preds(n)) # Cardinality(preds(k))
    <2>1. preds(n) \in SUBSET preds(k) /\ n \in preds(k)
      BY <1>3, BeforeOrders
    <2>2. Cardinality(preds(k)) = Cardinality(preds(n)) => preds(k) = preds(n)
      BY <1>2, <2>1, FS_Subset, Zenon
    <2> QED BY <1>2, <2>1, <2>2, Zenon
  <1>4. ASSUME NEW n \in 1 .. N PROVE place(list, n) \in 1 .. N
    <2>1. PICK c : c = Cardinality(preds(n))
      OBVIOUS
    <2>2. c \in Nat /\ c < N /\ place(list, n) = c + 1
      BY <1>2, <2>1, Zenon
    <2> QED BY <2>2
  <1>5. ASSUME NEW n \in 1 .. N, NEW k \in 1 .. N, n # k
        PROVE  place(list, n) # place(list, k)
    <2>1. PICK c, e : c = Cardinality(preds(n)) /\ e = Cardinality(preds(k))
      OBVIOUS
    <2>2. /\ c \in Nat /\ e \in Nat
          /\ place(list, n) = c + 1 /\ place(list, k) = e + 1
      BY <1>2, <2>1, Zenon
    <2>3. before(list, n, k) \/ before(list, k, n)
      BY <1>5, BeforeOrders, Zenon
    <2>4. c # e
      BY <1>3, <2>1, <2>3, Zenon
    <2> QED BY <2>2, <2>4
  <1> QED BY <1>4, <1>5

LEMMA Permuted ==
    ASSUME NEW list, NEW N \in Nat, DOMAIN list = 1 .. N, Distinct(list)
    PROVE  \E perm \in [1 .. N -> 1 .. N] :
             /\ \A p \in 1 .. N : place(list, perm[p]) = p
             /\ \A n \in 1 .. N : perm[place(list, n)] = n
  <1>1. PICK f : f = [n \in 1 .. N |-> place(list, n)]
    OBVIOUS
  <1>2. /\ f \in [1 .. N -> 1 .. N]
        /\ \A n, k \in 1 .. N : f[n] = f[k] => n = k
    BY <1>1, PlacesDiffer
  <1>3. f \in Injection(1 .. N, 1 .. N)
    BY <1>2 DEF Injection, IsInjective
  <1>4. IsFiniteSet(1 .. N)
    <2>1. 1 \in Int /\ N \in Int
      OBVIOUS
    <2> QED BY <2>1, FS_Interval
  <1>5. f \in Surjection(1 .. N, 1 .. N)
    BY <1>3, <1>4, FS_Injection
  <1>6. \A p \in 1 .. N : \E n \in 1 .. N : f[n] = p
    BY <1>5 DEF Surjection
  <1>7. PICK perm : perm = [p \in 1 .. N |-> CHOOSE n \in 1 .. N : f[n] = p]
    OBVIOUS
  <1>8. \A p \in 1 .. N : perm[p] \in 1 .. N /\ f[perm[p]] = p
    BY <1>6, <1>7
  <1>9. perm \in [1 .. N -> 1 .. N]
    BY <1>7, <1>8
  <1>10. \A p \in 1 .. N : place(list, perm[p]) = p
    BY <1>1, <1>8
  <1>11. \A n \in 1 .. N : perm[place(list, n)] = n
    BY <1>1, <1>2, <1>8, PlacesDiffer
  <1> QED BY <1>9, <1>10, <1>11

(* The order of the keys, in two lists of the same names. *)
Orders(perm, N, list, other) ==
    /\ keyed(list) = [p \in 1 .. N |-> list[perm[p]]]
    /\ keyed(other) = [p \in 1 .. N |-> other[perm[p]]]
    /\ \A p, q \in 1 .. N : perm[p] = perm[q] => p = q
    /\ \A n \in 1 .. N : \E p \in 1 .. N : perm[p] = n

LEMMA KeyedAlike ==
    ASSUME NEW list, NEW other, NEW N \in Nat, DOMAIN list = 1 .. N, DOMAIN other = 1 .. N,
           Distinct(list), \A n \in 1 .. N : other[n][1] = list[n][1]
    PROVE  \E perm \in [1 .. N -> 1 .. N] : Orders(perm, N, list, other)
  <1>1. PICK perm \in [1 .. N -> 1 .. N] :
          /\ \A p \in 1 .. N : place(list, perm[p]) = p
          /\ \A n \in 1 .. N : perm[place(list, n)] = n
    BY Permuted, Zenon
  <1>2. ASSUME NEW n \in 1 .. N PROVE place(other, n) = place(list, n)
    <2>1. ASSUME NEW k \in 1 .. N PROVE before(other, k, n) <=> before(list, k, n)
      <3>1. other[k][1] = list[k][1] /\ other[n][1] = list[n][1]
        OBVIOUS
      <3> QED BY <3>1, Zenon DEF before
    <2>2. {k \in DOMAIN other : before(other, k, n)}
            = {k \in DOMAIN list : before(list, k, n)}
      BY <2>1, Zenon
    <2> QED BY <2>2, Zenon DEF place
  <1>3. ASSUME NEW p \in 1 .. N, NEW n \in 1 .. N
        PROVE  place(list, n) = p <=> n = perm[p]
    BY <1>1
  <1>4. \A p \in 1 .. N : perm[p] \in 1 .. N
    BY <1>1
  <1>5. /\ keyed(list) = [p \in 1 .. N |-> list[perm[p]]]
        /\ keyed(other) = [p \in 1 .. N |-> other[perm[p]]]
    <2>1. keyed(list) = [p \in 1 .. N |-> list[perm[p]]]
      <3> DEFINE C(p) == CHOOSE n \in DOMAIN list : place(list, n) = p
      <3>1. ASSUME NEW p \in 1 .. N PROVE C(p) = perm[p]
        BY <1>3, <1>4
      <3>2. keyed(list) = [p \in DOMAIN list |-> list[C(p)]]
        BY Zenon DEF keyed
      <3> HIDE DEF C
      <3> QED BY <3>1, <3>2
    <2>2. keyed(other) = [p \in 1 .. N |-> other[perm[p]]]
      <3> DEFINE C(p) == CHOOSE n \in DOMAIN other : place(other, n) = p
      <3>1. ASSUME NEW p \in 1 .. N PROVE C(p) = perm[p]
        BY <1>2, <1>3, <1>4
      <3>2. keyed(other) = [p \in DOMAIN other |-> other[C(p)]]
        BY Zenon DEF keyed
      <3> HIDE DEF C
      <3> QED BY <3>1, <3>2
    <2> QED BY <2>1, <2>2
  <1>6. \A p, q \in 1 .. N : perm[p] = perm[q] => p = q
    BY <1>1
  <1>7. \A n \in 1 .. N : \E p \in 1 .. N : perm[p] = n
    BY <1>1, PlacesDiffer
  <1> QED BY <1>1, <1>5, <1>6, <1>7, Zenon DEF Orders

LEMMA ParamsBack ==
    ASSUME NEW entries, pairs_of(entries), ~BadEntries(entries)
    PROVE  /\ ParamsField(keyed(Converted(entries))) = Pairs(keyed(entries))
           /\ ~ \E n \in DOMAIN Converted(entries) : BadParam(Converted(entries)[n])
  <1>1. PICK N, list : N = Len(entries) /\ list = Converted(entries)
    OBVIOUS
  <1>2. /\ N \in Nat \ {0} /\ DOMAIN entries = 1 .. N
        /\ entries = [n \in 1 .. N |-> <<entries[n][1], entries[n][2]>>]
    BY <1>1 DEF pairs_of
  <1>3. list = [n \in 1 .. N |-> <<entries[n][1], convert(entries[n][2])>>]
    BY <1>1, <1>2 DEF Converted
  <1>4. /\ DOMAIN list = 1 .. N
        /\ \A n \in 1 .. N : list[n][1] = entries[n][1] /\ toText(list[n][2]) = entries[n][2]
    BY <1>3, TextKept
  <1>5. Distinct(list)
    BY <1>2, <1>4, Zenon DEF BadEntries, Distinct
  <1>6. PICK perm \in [1 .. N -> 1 .. N] :
          /\ keyed(list) = [p \in 1 .. N |-> list[perm[p]]]
          /\ keyed(entries) = [p \in 1 .. N |-> entries[perm[p]]]
    <2>1. N \in Nat /\ \A n \in 1 .. N : entries[n][1] = list[n][1]
      BY <1>2, <1>4
    <2>2. \E perm \in [1 .. N -> 1 .. N] : Orders(perm, N, list, entries)
      BY <1>2, <1>4, <1>5, <2>1, KeyedAlike, Zenon
    <2> QED BY <2>2, Zenon DEF Orders
  <1>7. PICK K : K = keyed(list)
    OBVIOUS
  <1>8. [n \in DOMAIN K |-> <<K[n][1], toText(K[n][2])>>] = keyed(entries)
    <2>1. DOMAIN K = 1 .. N /\ \A p \in 1 .. N : K[p] = list[perm[p]]
      BY <1>6, <1>7
    <2>2. ASSUME NEW p \in 1 .. N PROVE <<K[p][1], toText(K[p][2])>> = entries[perm[p]]
      <3>1. PICK n \in 1 .. N : n = perm[p]
        BY <1>6
      <3>2. entries[n] = <<entries[n][1], entries[n][2]>>
        BY <1>2
      <3> QED BY <1>4, <2>1, <3>1, <3>2
    <2>3. [n \in DOMAIN K |-> <<K[n][1], toText(K[n][2])>>] = [p \in 1 .. N |-> entries[perm[p]]]
      BY <2>1, <2>2
    <2> QED BY <1>6, <2>3
  <1>9. K # <<>>
    <2>1. 1 \in DOMAIN K
      BY <1>2, <1>6, <1>7
    <2> QED BY <2>1
  <1>10. ParamsField(K) = Pairs(keyed(entries))
    BY <1>8, <1>9 DEF ParamsField
  <1>11. ~ \E n \in DOMAIN list : BadParam(list[n])
    <2>1. \A n \in 1 .. N : entries[n][1] \in Names /\ entries[n][2] # ""
      BY <1>2 DEF BadEntries
    <2>2. ASSUME NEW n \in 1 .. N PROVE ~BadParam(list[n])
      BY <1>4, <2>1 DEF BadParam
    <2> QED BY <1>4, <2>2
  <1> QED BY <1>1, <1>7, <1>10, <1>11

(* The string that serialize is expected to write, field by field. *)
LEMMA RewrittenIs ==
    ASSUME NEW fields
    PROVE  /\ Rewritten(fields, 1) = Text(fields[1].text)
           /\ isVersion(fields[2]) => Rewritten(fields, 2)
                = Pairs(<< <<"v", ToString(parseInt(fields[2].entries[1][2]))>> >>)
           /\ \A n \in Nat : n > 1 /\ ~ (n = 2 /\ isVersion(fields[2])) =>
                /\ fields[n].is = "word" => Rewritten(fields, n) = Text(fields[n].bytes)
                /\ fields[n].is = "pairs" =>
                     Rewritten(fields, n) = Pairs(keyed(fields[n].entries))
  <1>1. isVersion(fields[2]) => fields[2].is # "word"
    BY DEF isVersion
  <1>2. Rewritten(fields, 1) = Text(fields[1].text)
    BY DEF Rewritten
  <1>3. ASSUME isVersion(fields[2])
        PROVE  Rewritten(fields, 2)
                 = Pairs(<< <<"v", ToString(parseInt(fields[2].entries[1][2]))>> >>)
    BY <1>1, <1>3 DEF Rewritten
  <1>4. ASSUME NEW n \in Nat, n > 1, ~ (n = 2 /\ isVersion(fields[2]))
        PROVE  /\ fields[n].is = "word" => Rewritten(fields, n) = Text(fields[n].bytes)
               /\ fields[n].is = "pairs" =>
                    Rewritten(fields, n) = Pairs(keyed(fields[n].entries))
    BY <1>4 DEF Rewritten
  <1> QED BY <1>2, <1>3, <1>4

Rewrites(fields, G, g) ==
    /\ g \in Seq(G) /\ Len(g) = Len(fields)
    /\ \A n \in 1 .. Len(fields) : g[n] = Rewritten(fields, n)

(* The beginning of a string, up to the version, and where it ends. *)
Beginning(fields, g, k, version) ==
    /\ <<Text(fields[1].text)>> \o Field(version # None, Pairs(<< <<"v", toText(version)>> >>))
          = SubSeq(g, 1, k)
    /\ Len(fields) >= 2 /\ isVersion(fields[2]) => k = 2

LEMMA Versioned ==
    ASSUME NEW F, NEW fields \in Seq(F), NEW G, NEW g, Rewrites(fields, G, g),
           ~Failed(deserialize(fields))
    PROVE  \E k \in {1, 2} : \E version :
              /\ k \in 0 .. Len(fields) /\ Len(fields) - k <= 3
              /\ Beginning(fields, g, k, version)
              /\ Sound(fields, k + 3, Trailing(SubSeq(fields, k + 1, Len(fields))).left)
              /\ deserialize(fields)
                   = Parsed(fields, version,
                            Trailing(SubSeq(fields, k + 1, Len(fields))).left,
                            Trailing(SubSeq(fields, k + 1, Len(fields))))
  <1>1. PICK N, d : N = Len(fields) /\ d = deserialize(fields)
    OBVIOUS
  <1>2. /\ N \in Nat /\ g \in Seq(G) /\ Len(g) = N
        /\ \A n \in 1 .. N : g[n] = Rewritten(fields, n)
    BY <1>1, LenProperties DEF Rewrites
  <1>3. Failed(TypeError)
    BY DEF Failed, TypeError
  <1>4. ASSUME NEW version, NEW maxf \in {4, 5}, NEW tail,
               d = Deserialized(fields, version, maxf, tail)
        PROVE  /\ Sound(fields, maxf, tail.left) /\ N <= maxf /\ N # 0
               /\ d = Parsed(fields, version, tail.left, tail)
               /\ Text(fields[1].text) = g[1]
    <2>1. Sound(fields, maxf, tail.left) /\ d = Parsed(fields, version, tail.left, tail)
      BY <1>1, <1>3, <1>4, Zenon DEF Deserialized
    <2>2. N # 0
      <3>1. fields # <<>>
        BY <2>1 DEF Sound
      <3> QED BY <1>1, <3>1, EmptySeq
    <2>3. N <= maxf
      <3>1. ~ (N > maxf)
        BY <1>1, <2>1 DEF Sound
      <3> QED BY <1>2, <3>1
    <2>4. Text(fields[1].text) = g[1]
      <3>1. 1 \in 1 .. N
        BY <1>2, <2>2
      <3> QED BY <1>2, <3>1, RewrittenIs, Zenon
    <2> QED BY <2>1, <2>2, <2>3, <2>4
  <1>5. CASE N >= 2 /\ isVersion(fields[2])
    <2>1. PICK version, tail : /\ version = Num(parseInt(fields[2].entries[1][2]))
                               /\ tail = Trailing(SubSeq(fields, 3, Len(fields)))
      OBVIOUS
    <2>2. d = Deserialized(fields, version, 5, tail)
      BY <1>1, <1>5, <2>1, Deserializes, Zenon
    <2>3. /\ Sound(fields, 5, tail.left) /\ N <= 5 /\ d = Parsed(fields, version, tail.left, tail)
          /\ Text(fields[1].text) = g[1]
      BY <1>4, <2>2
    <2>4. version # None
      BY <2>1 DEF Num, None
    <2>5. Pairs(<< <<"v", toText(version)>> >>) = g[2]
      <3>1. toText(version) = ToString(parseInt(fields[2].entries[1][2]))
        BY <2>1 DEF toText, Num
      <3>2. 2 \in 1 .. N
        BY <1>2, <1>5
      <3> QED BY <1>2, <1>5, <3>1, <3>2, RewrittenIs, Zenon
    <2>6. Beginning(fields, g, 2, version)
      <3>1. 2 \in 0 .. Len(g)
        BY <1>2, <1>5
      <3>2. SubSeq(g, 1, 2) = <<g[1], g[2]>>
        BY <1>2, <3>1, SplitAt, Zenon
      <3>3. <<g[1]>> \o <<g[2]>> = <<g[1], g[2]>>
        BY Tuples, Zenon
      <3> QED BY <2>3, <2>4, <2>5, <3>2, <3>3, Zenon DEF Beginning, Field
    <2>7. 2 \in 0 .. Len(fields) /\ Len(fields) - 2 <= 3 /\ 2 + 1 = 3 /\ 2 + 3 = 5
      BY <1>1, <1>2, <1>5, <2>3
    <2> QED BY <1>1, <2>1, <2>3, <2>6, <2>7
  <1>6. CASE ~ (N >= 2 /\ isVersion(fields[2]))
    <2>1. PICK tail : tail = Trailing(SubSeq(fields, 2, Len(fields)))
      OBVIOUS
    <2>2. d = Deserialized(fields, None, 4, tail)
      BY <1>1, <1>6, <2>1, Deserializes, Zenon
    <2>3. /\ Sound(fields, 4, tail.left) /\ N <= 4 /\ N # 0
          /\ d = Parsed(fields, None, tail.left, tail)
          /\ Text(fields[1].text) = g[1]
      BY <1>4, <2>2
    <2>4. Beginning(fields, g, 1, None)
      <3>1. 1 \in 0 .. Len(g)
        BY <1>2, <2>3
      <3>2. SubSeq(g, 1, 1) = <<g[1]>>
        BY <1>2, <3>1, SplitAt, Zenon
      <3>3. <<g[1]>> \o <<>> = <<g[1]>>
        BY Tuples, Zenon
      <3> QED BY <1>1, <1>6, <2>3, <3>2, <3>3, Zenon DEF Beginning, Field
    <2>5. 1 \in 0 .. Len(fields) /\ Len(fields) - 1 <= 3 /\ 1 + 1 = 2 /\ 1 + 3 = 4
      BY <1>1, <1>2, <2>3
    <2> QED BY <1>1, <2>1, <2>3, <2>4, <2>5
  <1> QED BY <1>5, <1>6

LEMMA Parses ==
    ASSUME NEW F, \A f \in F : phc_field(f), NEW fields \in Seq(F), NEW G, NEW g,
           Rewrites(fields, G, g), ~Failed(deserialize(fields))
    PROVE  /\ ~Failed(serialize(deserialize(fields)))
           /\ serialize(deserialize(fields)).fields = g
  <1>1. PICK k \in {1, 2} : \E version :
              /\ k \in 0 .. Len(fields) /\ Len(fields) - k <= 3
              /\ Beginning(fields, g, k, version)
              /\ Sound(fields, k + 3, Trailing(SubSeq(fields, k + 1, Len(fields))).left)
              /\ deserialize(fields)
                   = Parsed(fields, version,
                            Trailing(SubSeq(fields, k + 1, Len(fields))).left,
                            Trailing(SubSeq(fields, k + 1, Len(fields))))
    BY Versioned, Zenon
  <1>2. PICK rest, tail, left, d :
          /\ rest = SubSeq(fields, k + 1, Len(fields)) /\ tail = Trailing(rest)
          /\ left = tail.left /\ d = deserialize(fields)
    OBVIOUS
  <1>3. PICK version :
              /\ k \in 0 .. Len(fields) /\ Len(fields) - k <= 3
              /\ Beginning(fields, g, k, version)
              /\ Sound(fields, k + 3, left)
              /\ d = Parsed(fields, version, left, tail)
    BY <1>1, <1>2, Zenon
  <1>4. /\ rest \in Seq(F) /\ Len(rest) <= 3 /\ Len(rest) = Len(fields) - k
        /\ \A n \in 1 .. Len(rest) : rest[n] = fields[k + n]
    <2>1. /\ rest \in Seq(F) /\ Len(rest) = Len(fields) - k
          /\ \A n \in 1 .. Len(fields) - k : rest[n] = fields[k + n]
      BY <1>2, <1>3, SplitAt, Zenon
    <2> QED BY <1>3, <2>1
  <1>5. PICK params : params = IF left = <<>> THEN None
                               ELSE Params(Converted(left[Len(left)].entries))
    OBVIOUS
  <1>6. PICK first : first = ParamsField(keyed(params.list))
    OBVIOUS
  <1>7. /\ left = <<>> \/ (rest # <<>> /\ rest[1] \in F /\ left = <<rest[1]>>)
        /\ Again(rest, left, first, Optional(tail, first))
        /\ tail.salt = None \/ tail.salt = Buf(tail.salt.text)
        /\ tail.hash = None \/ (tail.hash = Buf(tail.hash.text) /\ tail.salt # None)
    <2>1. ~unrecognized(tail.left)
      BY <1>2, <1>3, Zenon DEF Sound
    <2> QED BY <1>2, <1>4, <2>1, Reassembled, ZenonT(60)
  <1>8. /\ d.id = fields[1].text /\ d.version = version /\ d.params = params
        /\ d.salt = tail.salt /\ d.hash = tail.hash
    BY <1>3, <1>5 DEF Parsed
  <1>9. /\ (params # None) = (left # <<>>)
        /\ left # <<>> => rest[1].is = "pairs" /\ first = Pairs(keyed(rest[1].entries))
        /\ params # None => ~ \E n \in DOMAIN params.list : BadParam(params.list[n])
    <2>1. CASE left = <<>>
      BY <1>5, <2>1
    <2>2. CASE left # <<>>
      <3>1. rest[1] \in F /\ left = <<rest[1]>>
        BY <1>7, <2>2
      <3>2. PICK f : f = rest[1]
        OBVIOUS
      <3>3. left[Len(left)] = f
        BY <3>1, <3>2
      <3>4. f.is = "pairs" /\ ~BadEntries(f.entries)
        BY <1>3, <2>2, <3>3 DEF Sound
      <3>5. f = Pairs(f.entries) /\ pairs_of(f.entries)
        <4>1. phc_field(f) /\ f # Other
          BY <3>1, <3>2, <3>4 DEF Other
        <4> QED BY <3>4, <4>1 DEF phc_field
      <3>6. PICK list : list = Converted(f.entries)
        OBVIOUS
      <3>7. /\ ParamsField(keyed(list)) = Pairs(keyed(f.entries))
            /\ ~ \E n \in DOMAIN list : BadParam(list[n])
        BY <3>4, <3>5, <3>6, ParamsBack
      <3>8. params = Params(list)
        BY <1>5, <2>2, <3>3, <3>6
      <3>9. params # None /\ params.list = list
        BY <3>8 DEF Params, None
      <3> QED BY <1>6, <2>2, <3>2, <3>4, <3>7, <3>9
    <2> QED BY <2>1, <2>2
  <1>10. ~Refused(d)
    <2>1. d.id \in Names
      BY <1>3, <1>8 DEF Sound
    <2>2. ~ (d.hash # None /\ d.salt = None)
      BY <1>7, <1>8
    <2>3. ~ (d.params # None /\ \E n \in DOMAIN d.params.list : BadParam(d.params.list[n]))
      BY <1>8, <1>9
    <2> QED BY <2>1, <2>2, <2>3 DEF Refused
  <1>11. Optional(tail, first) = SubSeq(g, k + 1, Len(g))
    <2>1. PICK r, N : r = SubSeq(g, k + 1, Len(g)) /\ N = Len(fields)
      OBVIOUS
    <2>2. /\ N \in Nat /\ g \in Seq(G) /\ Len(g) = N /\ k \in 0 .. N
          /\ \A n \in 1 .. N : g[n] = Rewritten(fields, n)
      BY <1>3, <2>1, LenProperties DEF Rewrites
    <2>3. r \in Seq(G) /\ Len(r) = N - k /\ \A n \in 1 .. N - k : r[n] = g[k + n]
      BY <2>1, <2>2, SplitAt
    <2>4. Len(rest) = N - k /\ N - k \in Nat
      BY <1>4, <2>1, <2>2
    <2>5. ASSUME NEW n \in 1 .. N - k
          PROVE  r[n] = IF n = 1 /\ left # <<>> THEN first ELSE Text(rest[n].bytes)
      <3>1. PICK m : m = k + n
        OBVIOUS
      <3>2. m \in 1 .. N /\ m \in Nat /\ m > 1 /\ (m = 2 => k = 1) /\ (m >= 2 => N >= 2)
        BY <1>1, <2>2, <3>1
      <3>3. ~ (m = 2 /\ isVersion(fields[2]))
        <4>1. Len(fields) >= 2 /\ isVersion(fields[2]) => k = 2
          BY <1>3 DEF Beginning
        <4> QED BY <2>1, <3>2, <4>1
      <3>4. r[n] = Rewritten(fields, m) /\ rest[n] = fields[m]
        BY <1>4, <2>2, <2>3, <2>4, <3>1, <3>2
      <3>5. /\ rest[n].is = "word" => r[n] = Text(rest[n].bytes)
            /\ rest[n].is = "pairs" => r[n] = Pairs(keyed(rest[n].entries))
        BY <3>2, <3>3, <3>4, RewrittenIs, Zenon
      <3>6. n # 1 \/ left = <<>> => rest[n].is = "word"
        BY <1>7, <2>4 DEF Again
      <3>7. n = 1 /\ left # <<>> =>
              rest[n].is = "pairs" /\ first = Pairs(keyed(rest[n].entries))
        BY <1>9
      <3> QED BY <3>5, <3>6, <3>7, Zenon
    <2>6. r = [n \in 1 .. N - k |-> r[n]]
      BY <2>3, <2>4
    <2>7. Optional(tail, first)
            = [n \in 1 .. N - k |-> IF n = 1 /\ left # <<>> THEN first ELSE Text(rest[n].bytes)]
      BY <1>7, <2>4, Zenon DEF Again
    <2>8. [n \in 1 .. N - k |-> r[n]]
            = [n \in 1 .. N - k |-> IF n = 1 /\ left # <<>> THEN first ELSE Text(rest[n].bytes)]
      BY <2>5, Zenon
    <2> QED BY <2>1, <2>6, <2>7, <2>8, Zenon
  <1>12. Written(d) = g
    <2>1. Written(d) = <<Text(d.id)>>
              \o Field(version # None, Pairs(<< <<"v", toText(version)>> >>))
              \o Field(left # <<>>, first)
              \o Field(tail.salt # None, Text(tail.salt.text))
              \o Field(tail.hash # None, Text(tail.hash.text))
      <3>1. Field(d.params # None, ParamsField(keyed(d.params.list))) = Field(left # <<>>, first)
        BY <1>6, <1>8, <1>9, Zenon DEF Field
      <3> QED BY <1>8, <3>1, Zenon DEF Written
    <2>2. PICK v, s, h, pv, pp, ps, ph :
            /\ v = Pairs(<< <<"v", toText(version)>> >>) /\ s = Text(tail.salt.text)
            /\ h = Text(tail.hash.text) /\ pv = (version # None) /\ pp = (left # <<>>)
            /\ ps = (tail.salt # None) /\ ph = (tail.hash # None)
      OBVIOUS
    <2>3. /\ pv \in BOOLEAN /\ pp \in BOOLEAN /\ ps \in BOOLEAN /\ ph \in BOOLEAN
      BY <2>2, Zenon
    <2>4. PICK a : a = Text(d.id)
      OBVIOUS
    <2>5. <<a>> \o Field(pv, v) \o Field(pp, first) \o Field(ps, s) \o Field(ph, h)
            = (<<a>> \o Field(pv, v)) \o (Field(pp, first) \o Field(ps, s) \o Field(ph, h))
      BY <2>3, Grouped, SMTT(60)
    <2>6. Written(d) = <<a>> \o Field(pv, v) \o Field(pp, first) \o Field(ps, s) \o Field(ph, h)
      BY <2>1, <2>2, <2>4, Zenon
    <2>7. <<a>> \o Field(pv, v) = SubSeq(g, 1, k)
      BY <1>3, <1>8, <2>2, <2>4, Zenon DEF Beginning
    <2>8. Field(pp, first) \o Field(ps, s) \o Field(ph, h) = SubSeq(g, k + 1, Len(g))
      BY <1>2, <1>11, <2>2, Zenon DEF Optional
    <2>9. SubSeq(g, 1, k) \o SubSeq(g, k + 1, Len(g)) = g
      <3>1. g \in Seq(G) /\ k \in 0 .. Len(g)
        BY <1>3 DEF Rewrites
      <3> QED BY <3>1, SplitAt, Zenon
    <2> QED BY <2>5, <2>6, <2>7, <2>8, <2>9, Zenon
  <1>13. serialize(d) = [fields |-> g]
    BY <1>10, <1>12, Serializes, Zenon
  <1> QED BY <1>2, <1>13 DEF Failed

(* phc.ts, serialize after deserialize: whatever the fields of a string, if   *)
(* deserialize accepts it then serialize writes each of them again, in its    *)
(* place: the version without leading zeros, the params in the order of the   *)
(* keys, and salt and hash as the canonical text of their bytes.              *)
THEOREM StringsParseFaithfully ==
    ASSUME input.call = "deserialize" => phc_string(input.fields)
    PROVE  ParsesFaithfully
  <1>1. ASSUME NEW fields, phc_string(fields), ~Failed(deserialize(fields))
        PROVE  /\ ~Failed(serialize(deserialize(fields)))
               /\ serialize(deserialize(fields)).fields
                    = [n \in DOMAIN fields |-> Rewritten(fields, n)]
    <2>1. PICK F, N, g, G : /\ F = {fields[n] : n \in 1 .. Len(fields)} /\ N = Len(fields)
                            /\ g = [n \in 1 .. Len(fields) |-> Rewritten(fields, n)]
                            /\ G = {Rewritten(fields, n) : n \in 1 .. Len(fields)}
      OBVIOUS
    <2>2. fields \in Seq(F) /\ N \in Nat /\ DOMAIN fields = 1 .. N
      BY <1>1, <2>1 DEF phc_string
    <2>3. \A f \in F : phc_field(f)
      BY <1>1, <2>1, Zenon DEF phc_string
    <2>4. Rewrites(fields, G, g)
      <3>1. \A n \in 1 .. N : Rewritten(fields, n) \in G
        BY <2>1
      <3>2. g \in Seq(G) /\ Len(g) = N /\ \A n \in 1 .. N : g[n] = Rewritten(fields, n)
        BY <2>1, <2>2, <3>1
      <3> QED BY <2>1, <3>2 DEF Rewrites
    <2>5. g = [n \in DOMAIN fields |-> Rewritten(fields, n)]
      BY <2>1, <2>2
    <2> QED BY <1>1, <2>2, <2>3, <2>4, <2>5, Parses, Zenon
  <1> QED BY <1>1, Zenon DEF ParsesFaithfully

-----------------------------------------------------------------------------
(* The entries that serialize writes. *)
Entries(list) == [n \in DOMAIN list |-> <<list[n][1], toText(list[n][2])>>]

(* Object.keys loses and repeats no param. *)
Reordered(K, list) ==
    /\ param_list(K) /\ Len(K) = Len(list) /\ DOMAIN K = DOMAIN list
    /\ \A p \in DOMAIN K : \E n \in DOMAIN list : K[p] = list[n]
    /\ \A n \in DOMAIN list : \E p \in DOMAIN K : K[p] = list[n]
    /\ Len(list) = 1 => K[1] = list[1]

LEMMA KeyedList ==
    ASSUME NEW list, param_list(list), NEW K, K = keyed(list)
    PROVE  Reordered(K, list)
  <1>1. PICK N : N = Len(list)
    OBVIOUS
  <1>2. N \in Nat /\ list = [n \in 1 .. N |-> list[n]] /\ DOMAIN list = 1 .. N
    BY <1>1 DEF param_list
  <1>3. Distinct(list)
    BY <1>1, <1>2, Zenon DEF param_list, Distinct
  <1>4. PICK perm \in [1 .. N -> 1 .. N] :
          /\ K = [p \in 1 .. N |-> list[perm[p]]]
          /\ \A p, q \in 1 .. N : perm[p] = perm[q] => p = q
          /\ \A n \in 1 .. N : \E p \in 1 .. N : perm[p] = n
    <2>1. \E perm \in [1 .. N -> 1 .. N] : Orders(perm, N, list, list)
      BY <1>2, <1>3, KeyedAlike, Zenon
    <2> QED BY <2>1, Zenon DEF Orders
  <1>5. /\ DOMAIN K = 1 .. N /\ K = [p \in 1 .. N |-> K[p]]
        /\ \A p \in 1 .. N : perm[p] \in 1 .. N /\ K[p] = list[perm[p]]
    BY <1>4
  <1>6. Len(K) = N
    BY <1>2, <1>4
  <1>7. ASSUME NEW p \in 1 .. N, NEW q \in 1 .. N, K[p][1] = K[q][1] PROVE p = q
    <2>1. PICK a \in 1 .. N, b \in 1 .. N : a = perm[p] /\ b = perm[q]
      BY <1>5
    <2>2. list[a][1] = list[b][1]
      BY <1>5, <1>7, <2>1, Zenon
    <2>3. a = b
      BY <1>2, <1>3, <2>2, Zenon DEF Distinct
    <2> QED BY <1>4, <2>1, <2>3, Zenon
  <1>8. param_list(K)
    BY <1>2, <1>5, <1>6, <1>7 DEF param_list
  <1>9. N = 1 => K[1] = list[1]
    BY <1>5
  <1>10. /\ \A p \in 1 .. N : \E n \in 1 .. N : K[p] = list[n]
         /\ \A n \in 1 .. N : \E p \in 1 .. N : K[p] = list[n]
    <2>1. ASSUME NEW n \in 1 .. N PROVE \E p \in 1 .. N : K[p] = list[n]
      <3>1. PICK p \in 1 .. N : perm[p] = n
        BY <1>4, Zenon
      <3> QED BY <1>5, <3>1, Zenon
    <2> QED BY <1>5, <2>1, Zenon
  <1> QED BY <1>1, <1>2, <1>5, <1>6, <1>8, <1>9, <1>10, Zenon DEF Reordered

LEMMA EntriesOf ==
    ASSUME NEW list, param_list(list), list # <<>>,
           ~ \E n \in DOMAIN list : BadParam(list[n])
    PROVE  /\ ParamsField(list) = Pairs(Entries(list))
           /\ Len(Entries(list)) = Len(list) /\ Len(list) \in Nat \ {0}
           /\ DOMAIN list = 1 .. Len(list) /\ DOMAIN Entries(list) = 1 .. Len(list)
           /\ \A n \in 1 .. Len(list) :
                /\ Entries(list)[n][1] = list[n][1]
                /\ Entries(list)[n][2] = toText(list[n][2])
           /\ BadEntries(Entries(list)) <=> \E n \in DOMAIN list : list[n][1] \in Inherited
  <1>1. PICK N, e : N = Len(list) /\ e = Entries(list)
    OBVIOUS
  <1>2. N \in Nat /\ list = [n \in 1 .. N |-> list[n]] /\ DOMAIN list = 1 .. N
    BY <1>1 DEF param_list
  <1>3. N # 0
    <2> SUFFICES ASSUME N = 0 PROVE FALSE
      OBVIOUS
    <2>1. list \in Seq({})
      BY <1>1, <1>2
    <2> QED BY <1>1, <2>1, EmptySeq
  <1>4. e = [n \in 1 .. N |-> <<list[n][1], toText(list[n][2])>>]
    BY <1>1, <1>2 DEF Entries
  <1>5. /\ DOMAIN e = 1 .. N /\ Len(e) = N
        /\ \A n \in 1 .. N : e[n][1] = list[n][1] /\ e[n][2] = toText(list[n][2])
    BY <1>2, <1>4
  <1>6. ParamsField(list) = Pairs(e)
    BY <1>1 DEF ParamsField, Entries
  <1>7. \A n \in 1 .. N : list[n][1] \in Names /\ e[n][2] # ""
    BY <1>2, <1>5, Zenon DEF BadParam
  <1>8. \A n, k \in 1 .. N : e[n][1] = e[k][1] => n = k
    BY <1>1, <1>5 DEF param_list
  <1>9. BadEntries(e) <=> \E n \in 1 .. N : e[n][1] \in Inherited
    BY <1>5, <1>7, <1>8 DEF BadEntries
  <1> QED BY <1>1, <1>2, <1>3, <1>5, <1>6, <1>9

LEMMA EntriesAre ==
    ASSUME NEW list, param_list(list), list # <<>>, NEW K, K = keyed(list),
           ~ \E n \in DOMAIN list : BadParam(list[n])
    PROVE  /\ ParamsField(K) = Pairs(Entries(K))
           /\ Len(Entries(K)) = Len(list) /\ Len(list) \in Nat \ {0}
           /\ BadEntries(Entries(K)) <=> \E n \in DOMAIN list : list[n][1] \in Inherited
           /\ Len(list) = 1 => /\ Entries(K)[1][1] = list[1][1]
                               /\ Entries(K)[1][2] = toText(list[1][2])
  <1>1. /\ param_list(K) /\ Len(K) = Len(list)
        /\ \A p \in DOMAIN K : \E n \in DOMAIN list : K[p] = list[n]
        /\ \A n \in DOMAIN list : \E p \in DOMAIN K : K[p] = list[n]
        /\ Len(list) = 1 => K[1] = list[1]
    <2>1. Reordered(K, list)
      BY KeyedList, Zenon
    <2> QED BY <2>1, Zenon DEF Reordered
  <1>2. K # <<>>
    <2>1. PICK N : N = Len(list)
      OBVIOUS
    <2>2. N \in Nat /\ list = [n \in 1 .. N |-> list[n]]
      BY <2>1 DEF param_list
    <2>3. N # 0
      <3> SUFFICES ASSUME N = 0 PROVE FALSE
        OBVIOUS
      <3>1. list \in Seq({})
        BY <2>1, <2>2
      <3> QED BY <2>1, <3>1, EmptySeq
    <2> QED BY <1>1, <2>1, <2>3
  <1>3. ~ \E n \in DOMAIN K : BadParam(K[n])
    BY <1>1, Zenon
  <1>4. /\ ParamsField(K) = Pairs(Entries(K))
        /\ Len(Entries(K)) = Len(K) /\ Len(K) \in Nat \ {0}
        /\ \A n \in 1 .. Len(K) : /\ Entries(K)[n][1] = K[n][1]
                                  /\ Entries(K)[n][2] = toText(K[n][2])
        /\ BadEntries(Entries(K)) <=> \E n \in DOMAIN K : K[n][1] \in Inherited
    BY <1>1, <1>2, <1>3, EntriesOf, ZenonT(60)
  <1>5. (\E n \in DOMAIN K : K[n][1] \in Inherited)
          <=> \E n \in DOMAIN list : list[n][1] \in Inherited
    BY <1>1, Zenon
  <1>6. Len(list) = 1 => /\ Entries(K)[1][1] = list[1][1]
                         /\ Entries(K)[1][2] = toText(list[1][2])
    <2> SUFFICES ASSUME Len(list) = 1
                 PROVE  /\ Entries(K)[1][1] = list[1][1]
                        /\ Entries(K)[1][2] = toText(list[1][2])
      OBVIOUS
    <2>1. 1 \in 1 .. Len(K) /\ K[1] = list[1]
      BY <1>1
    <2> QED BY <1>4, <2>1, Zenon
  <1> QED BY <1>1, <1>4, <1>5, <1>6, Zenon

(* What an object comes back as. *)
LEMMA NormalIs ==
    ASSUME NEW o, phc_object(o)
    PROVE  Normal(o) = [id |-> o.id, version |-> o.version,
                        params |-> IF o.params = None THEN None
                                   ELSE Params(Converted(Entries(keyed(o.params.list)))),
                        salt |-> o.salt, hash |-> o.hash]
  <1>1. PICK p : p = IF o.params = None THEN None
                     ELSE LET list == keyed(o.params.list)
                          IN  Params([n \in DOMAIN list |->
                                        <<list[n][1], convert(toText(list[n][2]))>>])
    OBVIOUS
  <1>2. Normal(o) = [o EXCEPT !.params = p]
    BY <1>1, Zenon DEF Normal
  <1>3. Normal(o) = [id |-> o.id, version |-> o.version, params |-> p,
                     salt |-> o.salt, hash |-> o.hash]
    BY <1>2 DEF phc_object
  <1>4. o.params # None => p = Params(Converted(Entries(keyed(o.params.list))))
    <2>1. PICK list : list = keyed(o.params.list)
      OBVIOUS
    <2>2. Converted(Entries(list))
            = [n \in DOMAIN list |-> <<list[n][1], convert(toText(list[n][2]))>>]
      BY DEF Converted, Entries
    <2> QED BY <1>1, <2>1, <2>2
  <1>5. o.params = None => p = None
    BY <1>1
  <1> QED BY <1>3, <1>4, <1>5

(* What deserialize finds at the end of what serialize writes. *)
Ending(o, p, s, h, rest, tail) ==
    /\ rest \in Seq({p, s, h}) /\ Len(rest) \in 0 .. 3
    /\ o.params # None => Len(rest) # 0
    /\ Len(rest) # 0 => rest[1] = IF o.params # None THEN p ELSE s
    /\ o.params = None \/ p.is # "word" =>
         /\ tail.left = Field(o.params # None, p)
         /\ tail.salt = IF o.salt # None THEN Buf(s.bytes) ELSE None
         /\ tail.hash = IF o.hash # None THEN Buf(h.bytes) ELSE None
    /\ o.params # None /\ p.is = "word" => tail.left = <<>> \/ tail.left = <<p>>

LEMMA TailOf ==
    ASSUME NEW o, NEW p, NEW s, NEW h, NEW rest, NEW tail,
           o.hash # None => o.salt # None, s.is = "word", h.is = "word",
           rest = Field(o.params # None, p) \o Field(o.salt # None, s)
                    \o Field(o.hash # None, h),
           tail = Trailing(rest)
    PROVE  Ending(o, p, s, h, rest, tail)
  <1> USE DEF Ending
  <1>1. CASE o.params = None /\ o.salt = None
    <2>1. rest = <<>>
      <3>1. rest = <<>> \o <<>> \o <<>>
        BY <1>1, Zenon DEF Field
      <3> QED BY <3>1, Tuples
    <2>2. tail = [left |-> <<>>, salt |-> None, hash |-> None]
      BY <2>1, TrailingIs
    <2> QED BY <1>1, <2>1, <2>2 DEF Field
  <1>2. CASE o.params = None /\ o.salt # None /\ o.hash = None
    <2>1. rest = <<s>>
      <3>1. rest = <<>> \o <<s>> \o <<>>
        BY <1>2, Zenon DEF Field
      <3> QED BY <3>1, Tuples
    <2>2. tail = [left |-> <<>>, salt |-> Buf(s.bytes), hash |-> None]
      BY <2>1, TrailingIs
    <2> QED BY <1>2, <2>1, <2>2 DEF Field
  <1>3. CASE o.params = None /\ o.salt # None /\ o.hash # None
    <2>1. rest = <<s, h>>
      <3>1. rest = <<>> \o <<s>> \o <<h>>
        BY <1>3, Zenon DEF Field
      <3> QED BY <3>1, Tuples
    <2>2. tail = [left |-> <<>>, salt |-> Buf(s.bytes), hash |-> Buf(h.bytes)]
      BY <2>1, TrailingIs
    <2> QED BY <1>3, <2>1, <2>2 DEF Field
  <1>4. CASE o.params # None /\ o.salt = None
    <2>1. rest = <<p>>
      <3>1. rest = <<p>> \o <<>> \o <<>>
        BY <1>4, Zenon DEF Field
      <3> QED BY <3>1, Tuples
    <2>2. tail = [left |-> IF p.is = "word" THEN <<>> ELSE <<p>>,
                  salt |-> IF p.is = "word" THEN Buf(p.bytes) ELSE None, hash |-> None]
      BY <2>1, TrailingIs
    <2> QED BY <1>4, <2>1, <2>2 DEF Field
  <1>5. CASE o.params # None /\ o.salt # None /\ o.hash = None
    <2>1. rest = <<p, s>>
      <3>1. rest = <<p>> \o <<s>> \o <<>>
        BY <1>5, Zenon DEF Field
      <3> QED BY <3>1, Tuples
    <2>2. p.is # "word" => tail = [left |-> <<p>>, salt |-> Buf(s.bytes), hash |-> None]
      BY <2>1, TrailingIs
    <2>3. p.is = "word" => tail = [left |-> <<>>, salt |-> Buf(p.bytes), hash |-> Buf(s.bytes)]
      BY <2>1, TrailingIs
    <2>4. rest \in Seq({p, s, h}) /\ Len(rest) = 2 /\ rest[1] = p
      BY ONLY <2>1
    <2>5. Field(o.params # None, p) = <<p>>
      BY <1>5 DEF Field
    <2>6. p.is # "word" =>
            tail.left = <<p>> /\ tail.salt = Buf(s.bytes) /\ tail.hash = None
      BY <2>2
    <2>7. p.is = "word" => tail.left = <<>>
      BY <2>3
    <2>8. Len(rest) \in 0 .. 3 /\ Len(rest) # 0
      BY <2>4
    <2> QED BY <1>5, <2>4, <2>5, <2>6, <2>7, <2>8, Zenon
  <1>6. CASE o.params # None /\ o.salt # None /\ o.hash # None
    <2>1. rest = <<p, s, h>>
      <3>1. rest = <<p>> \o <<s>> \o <<h>>
        BY <1>6, Zenon DEF Field
      <3> QED BY <3>1, Tuples
    <2>2. tail = [left |-> <<p>>, salt |-> Buf(s.bytes), hash |-> Buf(h.bytes)]
      BY <2>1, TrailingIs
    <2>3. rest \in Seq({p, s, h}) /\ Len(rest) = 3 /\ rest[1] = p
      BY ONLY <2>1
    <2>4. Field(o.params # None, p) = <<p>>
      BY <1>6 DEF Field
    <2>5. tail.left = <<p>> /\ tail.salt = Buf(s.bytes) /\ tail.hash = Buf(h.bytes)
      BY <2>2
    <2>6. Len(rest) \in 0 .. 3 /\ Len(rest) # 0
      BY <2>3
    <2> QED BY <1>6, <2>3, <2>4, <2>5, <2>6, Zenon
  <1> QED BY <1>1, <1>2, <1>3, <1>4, <1>5, <1>6

(* The params that are written as a word, or refused when they are read. *)
Lost(o) ==
    /\ o.params # None
    /\ o.params.list = <<>> \/ \E n \in DOMAIN o.params.list : o.params.list[n][1] \in Inherited

(* The end of a string, once its beginning is recognized. *)
EndOf(o) ==
    Field(o.params # None, ParamsField(keyed(o.params.list)))
       \o Field(o.salt # None, Text(o.salt.text)) \o Field(o.hash # None, Text(o.hash.text))

EndRead(o, rest, p, tail) ==
    /\ \E S : rest \in Seq(S)
    /\ Len(rest) \in 0 .. 3
    /\ o.params # None => Len(rest) # 0 /\ rest[1] = p
    /\ o.params = None /\ Len(rest) # 0 => rest[1].is = "word"
    /\ o.params = None \/ p.is # "word" =>
         tail.left = Field(o.params # None, p) /\ tail.salt = o.salt /\ tail.hash = o.hash
    /\ o.params # None /\ p.is = "word" => tail.left = <<>> \/ tail.left = <<p>>

LEMMA EndIs ==
    ASSUME NEW o, NEW rest, NEW p, NEW tail, phc_object(o), ~Refused(o),
           rest = EndOf(o), p = ParamsField(keyed(o.params.list)), tail = Trailing(rest)
    PROVE  EndRead(o, rest, p, tail)
  <1>1. PICK s, h : s = Text(o.salt.text) /\ h = Text(o.hash.text)
    OBVIOUS
  <1>2. o.hash # None => o.salt # None
    BY Zenon DEF Refused
  <1>3. s.is = "word" /\ h.is = "word" /\ s.bytes = o.salt.text /\ h.bytes = o.hash.text
    BY <1>1 DEF Text, B64
  <1>4. rest = Field(o.params # None, p) \o Field(o.salt # None, s) \o Field(o.hash # None, h)
    BY <1>1, Zenon DEF EndOf
  <1>5. Ending(o, p, s, h, rest, tail)
    BY <1>2, <1>3, <1>4, TailOf, Zenon
  <1>6. /\ (IF o.salt # None THEN Buf(s.bytes) ELSE None) = o.salt
        /\ (IF o.hash # None THEN Buf(h.bytes) ELSE None) = o.hash
    BY <1>3, Zenon DEF phc_object
  <1> QED BY <1>3, <1>5, <1>6, Zenon DEF EndRead, Ending

LEMMA KeyedEmpty == keyed(<<>>) = <<>>
  BY DEF keyed

LEMMA ComesBack ==
    ASSUME NEW o, phc_object(o), ~Refused(o), NEW fields, NEW maxf,
           fields # <<>>, fields[1] = Text(o.id), ~ (Len(fields) > maxf),
           NEW tail, tail = Trailing(EndOf(o))
    PROVE  (Deserialized(fields, o.version, maxf, tail) = Normal(o)) <=> ~Lost(o)
  <1>1. PICK list, K, p, left, d :
          /\ list = o.params.list /\ K = keyed(list) /\ p = ParamsField(K) /\ left = tail.left
          /\ d = Deserialized(fields, o.version, maxf, tail)
    OBVIOUS
  <1>2. fields[1].is = "word" /\ fields[1].text = o.id /\ o.id \in Names
    <2>1. o.id \in Names
      BY Zenon DEF Refused
    <2> QED BY <2>1 DEF Text, B64
  <1>3. ~Failed(Normal(o))
    BY NormalIs DEF Failed
  <1>4. Failed(TypeError)
    BY DEF Failed, TypeError
  <1> EndRead(o, EndOf(o), p, tail)
    BY <1>1, EndIs, Zenon
  <1>5. CASE o.params = None
    <2>1. left = <<>> /\ tail.salt = o.salt /\ tail.hash = o.hash
      BY <1>1, <1>5, Zenon DEF EndRead, Field
    <2>2. Len(left) = 0
      BY <2>1
    <2>3. Sound(fields, maxf, left)
      BY <1>2, <2>1, <2>2 DEF Sound, unrecognized
    <2>4. d = [id |-> o.id, version |-> o.version, params |-> None,
               salt |-> o.salt, hash |-> o.hash]
      BY <1>1, <1>2, <2>1, <2>3 DEF Deserialized, Parsed
    <2>5. d = Normal(o)
      BY <1>5, <2>4, NormalIs
    <2> QED BY <1>1, <1>5, <2>5 DEF Lost
  <1>6. CASE o.params # None /\ list = <<>>
    <2>1. p.is = "word"
      <3>1. K = <<>>
        BY <1>1, <1>6, KeyedEmpty
      <3> QED BY <1>1, <3>1 DEF ParamsField, Text, B64
    <2>2. left = <<>> \/ left = <<p>>
      BY <1>1, <1>6, <2>1, Zenon DEF EndRead
    <2>3. d # Normal(o)
      <3>1. CASE left = <<>>
        <4>1. d = TypeError \/ d.params = None
          BY <1>1, <3>1 DEF Deserialized, Parsed
        <4>2. Normal(o).params # None
          BY <1>6, NormalIs DEF Params, None
        <4> QED BY <1>3, <1>4, <4>1, <4>2
      <3>2. CASE left = <<p>>
        <4>1. left # <<>> /\ left[Len(left)] = p
          BY <3>2
        <4>2. ~Sound(fields, maxf, left)
          BY <2>1, <4>1 DEF Sound
        <4>3. d = TypeError
          BY <1>1, <4>2 DEF Deserialized
        <4> QED BY <1>3, <1>4, <4>3
      <3> QED BY <2>2, <3>1, <3>2
    <2> QED BY <1>1, <1>6, <2>3 DEF Lost
  <1>7. CASE o.params # None /\ list # <<>>
    <2>1. param_list(list) /\ ~ \E n \in DOMAIN list : BadParam(list[n])
      BY <1>1, <1>7, Zenon DEF phc_object, Refused
    <2>2. /\ p = Pairs(Entries(K))
          /\ BadEntries(Entries(K)) <=> \E n \in DOMAIN list : list[n][1] \in Inherited
      BY <1>1, <1>7, <2>1, EntriesAre
    <2>3. p.is = "pairs" /\ p.is # "word" /\ p.entries = Entries(K)
      BY <2>2 DEF Pairs
    <2>4. left = <<p>> /\ tail.salt = o.salt /\ tail.hash = o.hash
      BY <1>1, <1>7, <2>3, Zenon DEF EndRead, Field
    <2>5. left # <<>> /\ Len(left) = 1 /\ left[Len(left)] = p
      BY <2>4
    <2>6. Sound(fields, maxf, left) <=> ~BadEntries(Entries(K))
      BY <1>2, <2>3, <2>5 DEF Sound, unrecognized
    <2>7. CASE BadEntries(Entries(K))
      <3>1. d = TypeError
        BY <1>1, <2>6, <2>7 DEF Deserialized
      <3>2. Lost(o)
        BY <1>1, <1>7, <2>2, <2>7 DEF Lost
      <3> QED BY <1>1, <1>3, <1>4, <3>1, <3>2
    <2>8. CASE ~BadEntries(Entries(K))
      <3>1. d = Parsed(fields, o.version, left, tail)
        BY <1>1, <2>6, <2>8 DEF Deserialized
      <3>2. d = [id |-> o.id, version |-> o.version, params |-> Params(Converted(Entries(K))),
                 salt |-> o.salt, hash |-> o.hash]
        BY <1>2, <2>3, <2>4, <2>5, <3>1 DEF Parsed
      <3>3. d = Normal(o)
        BY <1>1, <1>7, <3>2, NormalIs
      <3>4. ~Lost(o)
        BY <1>1, <1>7, <2>2, <2>8 DEF Lost
      <3> QED BY <1>1, <3>3, <3>4
    <2> QED BY <2>7, <2>8
  <1> QED BY <1>5, <1>6, <1>7

(* A version that serialize writes is read back. *)
LEMMA VersionRead ==
    ASSUME NEW n \in 0 .. MaxSafe, NEW v, v = Pairs(<< <<"v", toText(Num(n))>> >>)
    PROVE  isVersion(v) /\ Num(parseInt(v.entries[1][2])) = Num(n)
  <1>1. /\ v.is = "pairs" /\ Len(v.entries) = 1 /\ v.entries[1][1] = "v"
        /\ v.entries[1][2] = toText(Num(n))
    BY DEF Pairs
  <1>2. toText(Num(n)) = ToString(n)
    BY DEF toText, Num
  <1>3. ToString(n) \in Decimals
    BY DEF Decimals
  <1>4. Value(ToString(n)) = n
    <2>1. \A k \in 0 .. MaxSafe : ToString(k) = ToString(n) => k = n
      BY PhcAssumption
    <2> QED BY <2>1 DEF Value
  <1> QED BY <1>1, <1>2, <1>3, <1>4 DEF isVersion, parseInt, Numerals

(* The params that are taken for the version. *)
Mistaken(o) ==
    /\ o.version = None /\ o.params # None /\ Len(o.params.list) = 1
    /\ o.params.list[1][1] = "v" /\ toText(o.params.list[1][2]) \in Numerals

LEMMA MistakenIs ==
    ASSUME NEW o, phc_object(o), ~Refused(o), o.version = None, NEW rest, rest = EndOf(o)
    PROVE  Len(rest) # 0 /\ isVersion(rest[1]) <=> Mistaken(o) /\ o.params.list # <<>>
  <1>1. PICK p, tail, list : /\ p = ParamsField(keyed(o.params.list)) /\ tail = Trailing(rest)
                             /\ list = o.params.list
    OBVIOUS
  <1>2. EndRead(o, rest, p, tail)
    BY <1>1, EndIs, Zenon
  <1>3. CASE o.params = None
    <2>1. Len(rest) # 0 => ~isVersion(rest[1])
      BY <1>2, <1>3 DEF EndRead, isVersion
    <2> QED BY <1>3, <2>1 DEF Mistaken
  <1>4. CASE o.params # None /\ list = <<>>
    <2>1. p.is = "word"
      <3>1. keyed(list) = <<>>
        BY <1>4, KeyedEmpty
      <3> QED BY <1>1, <3>1 DEF ParamsField, Text, B64
    <2>2. rest[1] = p
      BY <1>2, <1>4, Zenon DEF EndRead
    <2>3. ~isVersion(rest[1])
      BY <2>1, <2>2 DEF isVersion
    <2> QED BY <1>1, <1>4, <2>3
  <1>5. CASE o.params # None /\ list # <<>>
    <2>1. param_list(list) /\ ~ \E n \in DOMAIN list : BadParam(list[n])
      BY <1>1, <1>5, Zenon DEF phc_object, Refused
    <2>2. PICK e : e = Entries(keyed(list))
      OBVIOUS
    <2>3. p = Pairs(e) /\ Len(e) = Len(list)
      BY <1>1, <1>5, <2>1, <2>2, EntriesAre, Zenon
    <2>4. Len(list) = 1 => e[1][1] = list[1][1] /\ e[1][2] = toText(list[1][2])
      BY <1>1, <1>5, <2>1, <2>2, EntriesAre, Zenon
    <2>5. p.is = "pairs" /\ p.entries = e
      BY <2>3 DEF Pairs
    <2>6. rest[1] = p /\ Len(rest) # 0
      BY <1>2, <1>5, Zenon DEF EndRead
    <2>7. isVersion(rest[1]) <=> /\ Len(list) = 1 /\ list[1][1] = "v"
                                 /\ toText(list[1][2]) \in Numerals
      BY <2>3, <2>4, <2>5, <2>6 DEF isVersion
    <2> QED BY <1>1, <1>5, <2>6, <2>7 DEF Mistaken
  <1> QED BY <1>3, <1>4, <1>5

LEMMA AmbiguousIs ==
    ASSUME NEW o
    PROVE  Ambiguous(o) <=> Lost(o) \/ Mistaken(o)
  BY Zenon DEF Ambiguous, Lost, Mistaken

LEMMA RoundTrips ==
    ASSUME NEW o, phc_object(o), ~Failed(serialize(o))
    PROVE  (deserialize(serialize(o).fields) = Normal(o)) <=> ~Ambiguous(o)
  <1>1. PICK fields, rest, base, tail, v, a :
          /\ fields = Written(o) /\ rest = EndOf(o) /\ tail = Trailing(rest)
          /\ v = Pairs(<< <<"v", toText(o.version)>> >>) /\ a = Text(o.id)
          /\ base = <<a>> \o Field(o.version # None, v)
    OBVIOUS
  <1>2. ~Refused(o) /\ serialize(o) = [fields |-> fields]
    <2>1. Failed(TypeError)
      BY DEF Failed, TypeError
    <2> QED BY <1>1, <2>1, Serializes, Zenon
  <1>3. serialize(o).fields = fields
    BY <1>2
  <1>4. fields = base \o rest
    <2>1. PICK p, s, h, pv, pp, ps, ph :
            /\ p = ParamsField(keyed(o.params.list)) /\ s = Text(o.salt.text) /\ h = Text(o.hash.text)
            /\ pv = (o.version # None) /\ pp = (o.params # None)
            /\ ps = (o.salt # None) /\ ph = (o.hash # None)
      OBVIOUS
    <2>2. pv \in BOOLEAN /\ pp \in BOOLEAN /\ ps \in BOOLEAN /\ ph \in BOOLEAN
      BY <2>1, Zenon
    <2>3. <<a>> \o Field(pv, v) \o Field(pp, p) \o Field(ps, s) \o Field(ph, h)
            = (<<a>> \o Field(pv, v)) \o (Field(pp, p) \o Field(ps, s) \o Field(ph, h))
      BY <2>2, Grouped
    <2>4. fields = <<a>> \o Field(pv, v) \o Field(pp, p) \o Field(ps, s) \o Field(ph, h)
      BY <1>1, <2>1, Zenon DEF Written
    <2>5. base = <<a>> \o Field(pv, v) /\ rest = Field(pp, p) \o Field(ps, s) \o Field(ph, h)
      BY <1>1, <2>1, Zenon DEF EndOf
    <2> QED BY <2>3, <2>4, <2>5, Zenon
  <1>5. PICK p : p = ParamsField(keyed(o.params.list)) /\ EndRead(o, rest, p, tail)
    BY <1>1, <1>2, EndIs, Zenon
  <1>6. PICK T : rest \in Seq(T)
    BY <1>5, Zenon DEF EndRead
  <1>7. Len(rest) \in 0 .. 3
    BY <1>5, Zenon DEF EndRead
  <1>8. PICK S : S = T \cup {a, v}
    OBVIOUS
  <1>9. rest \in Seq(S) /\ a \in S /\ v \in S
    <2>1. T \subseteq S
      BY <1>8
    <2> QED BY <1>6, <1>8, <2>1, SeqMonotonic
  <1>10. ~Failed(Normal(o)) /\ Normal(o).version = o.version
    BY NormalIs DEF Failed
  <1>11. CASE o.version # None
    <2>1. PICK n \in 0 .. MaxSafe : o.version = Num(n)
      BY <1>11, Zenon DEF phc_object
    <2>2. isVersion(v) /\ Num(parseInt(v.entries[1][2])) = o.version
      BY <1>1, <2>1, VersionRead
    <2>3. base = <<a, v>>
      <3>1. base = <<a>> \o <<v>>
        BY <1>1, <1>11, Zenon DEF Field
      <3> QED BY <3>1, Tuples, Zenon
    <2>4. base \in Seq(S) /\ Len(base) = 2 /\ base[1] = a /\ base[2] = v
      BY <1>9, <2>3
    <2>5. /\ fields \in Seq(S) /\ Len(fields) = 2 + Len(rest)
          /\ SubSeq(fields, 3, Len(fields)) = rest /\ fields[1] = a /\ fields[2] = v
      <3>1. /\ fields \in Seq(S) /\ Len(fields) = Len(base) + Len(rest)
            /\ SubSeq(fields, Len(base) + 1, Len(fields)) = rest
            /\ \A k \in 1 .. Len(base) : fields[k] = base[k]
        <4>1. Joined(S, base, rest, fields)
          BY <1>4, <1>9, <2>4, RestOf, Zenon
        <4> QED BY <4>1, Zenon DEF Joined
      <3>2. 1 \in 1 .. Len(base) /\ 2 \in 1 .. Len(base) /\ Len(base) + 1 = 3
        BY <2>4
      <3>3. fields[1] = a /\ fields[2] = v
        BY <2>4, <3>1, <3>2, Zenon
      <3>4. SubSeq(fields, 3, Len(fields)) = rest
        BY <3>1, <3>2
      <3> QED BY <2>4, <3>1, <3>3, <3>4, Zenon
    <2>6. fields # <<>> /\ Len(fields) >= 2 /\ ~ (Len(fields) > 5)
      <3>1. PICK len : len = Len(rest) /\ len \in 0 .. 3
        BY <1>7
      <3>2. 2 + len >= 2 /\ ~ (2 + len > 5) /\ 2 + len # 0
        BY ONLY <3>1
      <3>3. Len(fields) # 0
        BY <2>5, <3>1, <3>2
      <3>4. fields # <<>>
        BY <3>3
      <3> QED BY <2>5, <3>1, <3>2, <3>4
    <2>7. deserialize(fields) = Deserialized(fields, o.version, 5, tail)
      BY <1>1, <2>2, <2>5, <2>6, Deserializes, Zenon
    <2>8. (deserialize(fields) = Normal(o)) <=> ~Lost(o)
      BY <1>1, <1>2, <2>5, <2>6, <2>7, ComesBack, Zenon
    <2> QED BY <1>3, <1>11, <2>8, AmbiguousIs DEF Mistaken
  <1>12. CASE o.version = None
    <2>1. base = <<a>>
      <3>1. base = <<a>> \o <<>>
        BY <1>1, <1>12, Zenon DEF Field
      <3> QED BY <3>1, Tuples, Zenon
    <2>2. base \in Seq(S) /\ Len(base) = 1 /\ base[1] = a
      BY <1>9, <2>1
    <2>3. /\ fields \in Seq(S) /\ Len(fields) = 1 + Len(rest)
          /\ SubSeq(fields, 2, Len(fields)) = rest /\ fields[1] = a
          /\ Len(rest) # 0 => fields[2] = rest[1]
      <3>1. /\ fields \in Seq(S) /\ Len(fields) = Len(base) + Len(rest)
            /\ SubSeq(fields, Len(base) + 1, Len(fields)) = rest
            /\ \A k \in 1 .. Len(base) : fields[k] = base[k]
            /\ \A k \in 1 .. Len(rest) : fields[Len(base) + k] = rest[k]
        <4>1. Joined(S, base, rest, fields)
          BY <1>4, <1>9, <2>2, RestOf, Zenon
        <4> QED BY <4>1, Zenon DEF Joined
      <3>2. 1 \in 1 .. Len(base) /\ Len(base) + 1 = 2 /\ (Len(rest) # 0 => 1 \in 1 .. Len(rest))
        BY <1>7, <2>2
      <3>3. fields[1] = a
        BY <2>2, <3>1, <3>2, Zenon
      <3>4. SubSeq(fields, 2, Len(fields)) = rest /\ (Len(rest) # 0 => fields[2] = rest[1])
        BY <3>1, <3>2
      <3> QED BY <2>2, <3>1, <3>3, <3>4, Zenon
    <2>4. fields # <<>> /\ ~ (Len(fields) > 4) /\ (Len(fields) >= 2 <=> Len(rest) # 0)
      BY <1>7, <2>3
    <2>5. CASE Len(rest) # 0 /\ isVersion(rest[1])
      <3>1. Mistaken(o)
        BY <1>1, <1>2, <1>12, <2>5, MistakenIs
      <3>2. PICK version, t : version = Num(parseInt(fields[2].entries[1][2]))
                              /\ t = Trailing(SubSeq(fields, 3, Len(fields)))
        OBVIOUS
      <3>3. deserialize(fields) = Deserialized(fields, version, 5, t)
        BY <2>3, <2>4, <2>5, <3>2, Deserializes, Zenon
      <3>4. deserialize(fields) = TypeError \/ deserialize(fields).version = version
        BY <3>3 DEF Deserialized, Parsed
      <3>5. version # None /\ Failed(TypeError)
        BY <3>2 DEF Num, None, Failed, TypeError
      <3>6. deserialize(fields) # Normal(o)
        BY <1>10, <1>12, <3>4, <3>5
      <3> QED BY <1>3, <3>1, <3>6, AmbiguousIs
    <2>6. CASE ~ (Len(rest) # 0 /\ isVersion(rest[1]))
      <3>1. ~ (Mistaken(o) /\ o.params.list # <<>>)
        BY <1>1, <1>2, <1>12, <2>6, MistakenIs
      <3>2. ~ (Len(fields) >= 2 /\ isVersion(fields[2]))
        BY <2>3, <2>4, <2>6
      <3>3. deserialize(fields) = Deserialized(fields, o.version, 4, tail)
        BY <1>1, <1>12, <2>3, <3>2, Deserializes, Zenon
      <3>4. (deserialize(fields) = Normal(o)) <=> ~Lost(o)
        BY <1>1, <1>2, <2>3, <2>4, <3>3, ComesBack, Zenon
      <3>5. Mistaken(o) => Lost(o)
        BY <3>1 DEF Mistaken, Lost
      <3> QED BY <1>3, <3>4, <3>5, AmbiguousIs
    <2> QED BY <2>5, <2>6
  <1> QED BY <1>11, <1>12

(* phc.ts, deserialize after serialize: any object that serialize accepts     *)
(* comes back as it was, except for exactly the ambiguous ones.               *)
THEOREM ObjectsRoundTrip ==
    ASSUME input.call = "serialize" => phc_object(input.object)
    PROVE  RoundTrip
  BY RoundTrips, Zenon DEF RoundTrip

-----------------------------------------------------------------------------
(* The strings that decode_string accepts, field by field. *)
CostFields(c) == Nums(<< <<"m", c.m_cost>>, <<"t", c.t_cost>>, <<"p", c.lanes>> >>)

Appended(a, b, c, d, e) ==
    /\ <<a, b, c>> \o <<d>> = <<a, b, c, d>>
    /\ <<a, b, c, d>> \o <<e>> = <<a, b, c, d, e>>
    /\ <<a>> \o <<b, c, d>> = <<a, b, c, d>>

LEMMA LongTuples ==
    ASSUME NEW a, NEW b, NEW c, NEW d, NEW e
    PROVE  Appended(a, b, c, d, e)
  <1>1. PICK S, s, t, u, x, y : /\ S = {a, b, c, d, e} /\ s = <<a, b, c>>
                                /\ t = <<a, b, c, d>> /\ u = <<a, b, c, d, e>>
                                /\ x = <<a>> /\ y = <<b, c, d>>
    OBVIOUS
  <1>2. a \in S /\ b \in S /\ c \in S /\ d \in S /\ e \in S
    BY <1>1
  <1>3. s \in Seq(S) /\ Len(s) = 3 /\ s[1] = a /\ s[2] = b /\ s[3] = c
    BY <1>1, <1>2
  <1>4. t \in Seq(S) /\ Len(t) = 4 /\ t[1] = a /\ t[2] = b /\ t[3] = c /\ t[4] = d
    BY <1>1, <1>2
  <1>5. /\ u \in Seq(S) /\ Len(u) = 5
        /\ u[1] = a /\ u[2] = b /\ u[3] = c /\ u[4] = d /\ u[5] = e
    BY <1>1, <1>2
  <1>6. s \o <<d>> = t
    <2>1. PICK w : w = s \o <<d>>
      OBVIOUS
    <2>2. w \in Seq(S) /\ Len(w) = 4 /\ (\A k \in 1 .. 3 : w[k] = s[k]) /\ w[4] = d
      <3>1. w \in Seq(S) /\ Len(w) = Len(s) + 1 /\ (\A k \in 1 .. Len(s) : w[k] = s[k])
            /\ w[Len(s) + 1] = d
        BY <1>2, <1>3, <2>1, OneMore, SMTT(60)
      <3> QED BY <1>3, <3>1
    <2>3. \A k \in 1 .. 4 : w[k] = t[k]
      <3>1. \A k \in 1 .. 4 : k \in 1 .. 3 \/ k = 4
        OBVIOUS
      <3>2. \A k \in 1 .. 3 : s[k] = t[k]
        BY <1>3, <1>4
      <3> QED BY <1>4, <2>2, <3>1, <3>2
    <2> QED BY <1>4, <2>1, <2>2, <2>3, SeqEqual
  <1>7. t \o <<e>> = u
    <2>1. PICK w : w = t \o <<e>>
      OBVIOUS
    <2>2. w \in Seq(S) /\ Len(w) = 5 /\ (\A k \in 1 .. 4 : w[k] = t[k]) /\ w[5] = e
      <3>1. PICK z : z = <<e>>
        OBVIOUS
      <3>2. z \in Seq(S) /\ Len(z) = 1 /\ z[1] = e
        BY <1>2, <3>1
      <3>3. Joined(S, t, z, w)
        BY <1>4, <2>1, <3>1, <3>2, RestOf, Zenon
      <3> QED BY ONLY <1>4, <3>2, <3>3 DEF Joined
    <2>3. \A k \in 1 .. 5 : w[k] = u[k]
      <3>1. \A k \in 1 .. 5 : k \in 1 .. 4 \/ k = 5
        OBVIOUS
      <3>2. \A k \in 1 .. 4 : t[k] = u[k]
        <4>1. \A k \in 1 .. 4 : k \in {1, 2, 3, 4}
          OBVIOUS
        <4> QED BY <1>4, <1>5, <4>1
      <3> QED BY <1>5, <2>2, <3>1, <3>2
    <2> QED BY <1>5, <2>1, <2>2, <2>3, SeqEqual
  <1>8. x \o y = t
    <2>1. x \in Seq(S) /\ Len(x) = 1 /\ x[1] = a
      BY <1>1, <1>2
    <2>2. y \in Seq(S) /\ Len(y) = 3 /\ y[1] = b /\ y[2] = c /\ y[3] = d
      BY <1>1, <1>2
    <2>3. PICK w : w = x \o y
      OBVIOUS
    <2>4. Joined(S, x, y, w)
      BY <2>1, <2>2, <2>3, RestOf, Zenon
    <2>5. /\ w \in Seq(S) /\ Len(w) = 4 /\ w[1] = x[1]
          /\ w[2] = y[1] /\ w[3] = y[2] /\ w[4] = y[3]
      BY <2>1, <2>2, <2>4 DEF Joined
    <2>6. \A k \in 1 .. 4 : w[k] = t[k]
      <3>1. \A k \in 1 .. 4 : k \in {1, 2, 3, 4}
        OBVIOUS
      <3> QED BY <1>4, <2>1, <2>2, <2>5, <3>1
    <2> QED BY <1>4, <2>3, <2>5, <2>6, SeqEqual
  <1> QED BY <1>1, <1>6, <1>7, <1>8, Zenon DEF Appended

(* A field of Slashed. *)
Slash(field) == IF High(field) THEN [field EXCEPT !.high = FALSE] ELSE field

(* What an accepted string is, and what is read from it. *)
Accepts(str, c, type) ==
    LET r == Rest(str)
    IN  /\ type \in {"d", "i", "id"}
        /\ str[1] = Lit(argon2_type2string(type)) /\ Len(r) = 3
        /\ r[1] = CostFields(c) /\ isCosts(r[1])
        /\ Slash(r[2]) = Bin(c.salt, c.saltlen) /\ isBin(Bin(c.salt, c.saltlen), Buffers)
        /\ Slash(r[3]) = Bin(DecodedOut(str), c.outlen)
        /\ isBin(Bin(DecodedOut(str), c.outlen), Buffers)
        /\ c.salt = r[2].content /\ c.saltlen = r[2].len /\ c.outlen = r[3].len
        /\ r[2].is = "bin" /\ r[3].is = "bin" /\ c_field(r[2]) /\ c_field(r[3])
        /\ decimal_u32(c.m_cost) /\ decimal_u32(c.t_cost) /\ decimal_u32(c.lanes)
        /\ decimal_u32(c.version)
        /\ {c.version, c.m_cost, c.t_cost, c.lanes} \subseteq Nat
        /\ IF versioned(str)
           THEN /\ Len(str) = 5 /\ str[2] = Nums(<< <<"v", c.version>> >>)
                /\ str[3] = r[1] /\ str[4] = r[2] /\ str[5] = r[3]
           ELSE /\ Len(str) = 4 /\ c.version = VERSION_10
                /\ str[2] = r[1] /\ str[3] = r[2] /\ str[4] = r[3]

(* The fields of DecodedContext that come from the string. *)
ReadFrom(str, c, r) ==
    /\ c.version = version_default(str)
    /\ c.m_cost = r[1].entries[1][2] /\ c.t_cost = r[1].entries[2][2]
    /\ c.lanes = r[1].entries[3][2]
    /\ c.salt = r[2].content /\ c.saltlen = r[2].len /\ c.outlen = r[3].len

LEMMA ContextRead ==
    ASSUME NEW str, NEW c, c = DecodedContext(str, Blank), NEW r, r = Rest(str)
    PROVE  ReadFrom(str, c, r)
  BY DEF DecodedContext, Blank, ReadFrom

(* And that nothing else comes from it. *)
LEMMA ContextSame ==
    ASSUME NEW str, NEW other, version_default(str) = version_default(other),
           Rest(str)[1].entries = Rest(other)[1].entries,
           Rest(str)[2].content = Rest(other)[2].content,
           Rest(str)[2].len = Rest(other)[2].len, Rest(str)[3].len = Rest(other)[3].len
    PROVE  DecodedContext(str, Blank) = DecodedContext(other, Blank)
  BY Zenon DEF DecodedContext

LEMMA CostsAre ==
    ASSUME NEW field, c_field(field), isCosts(field), NEW e, e = field.entries
    PROVE  /\ field = Nums(<< <<"m", e[1][2]>>, <<"t", e[2][2]>>, <<"p", e[3][2]>> >>)
           /\ decimal_u32(e[1][2]) /\ decimal_u32(e[2][2]) /\ decimal_u32(e[3][2])
           /\ e[1][2] \in Nat /\ e[2][2] \in Nat /\ e[3][2] \in Nat
  <1>1. /\ field = Nums(e) /\ e \in Seq(STRING \X (Nat \cup {NoNumber}))
    BY DEF c_field, isCosts
  <1>2. PICK names : names = [n \in DOMAIN e |-> e[n][1]]
    OBVIOUS
  <1>3. names = <<"m", "t", "p">>
    BY <1>2 DEF isCosts
  <1>4. DOMAIN e = DOMAIN names /\ DOMAIN names = 1 .. 3
    BY <1>2, <1>3
  <1>5. Len(e) \in Nat /\ DOMAIN e = 1 .. Len(e)
    BY <1>1, LenProperties
  <1>6. Len(e) = 3
    <2>1. PICK n : n = Len(e)
      OBVIOUS
    <2>2. n \in Nat /\ 1 .. n = 1 .. 3
      BY ONLY <1>4, <1>5, <2>1
    <2>3. (\A k \in 1 .. n : k <= 3) /\ 3 \in 1 .. n
      BY ONLY <2>2
    <2>4. n = 3
      BY ONLY <2>2, <2>3
    <2> QED BY <2>1, <2>4
  <1>7. e[1][1] = "m" /\ e[2][1] = "t" /\ e[3][1] = "p"
    <2>1. names[1] = e[1][1] /\ names[2] = e[2][1] /\ names[3] = e[3][1]
      BY <1>2, <1>4
    <2> QED BY <1>3, <2>1
  <1>8. e = <<e[1], e[2], e[3]>>
    BY <1>1, <1>6, AsTuple
  <1>9. \A n \in 1 .. 3 : e[n] = <<e[n][1], e[n][2]>> /\ e[n][2] \in Nat \cup {NoNumber}
    BY <1>1, <1>6
  <1>10. \A n \in 1 .. 3 : decimal_u32(e[n][2])
    BY <1>4 DEF isCosts
  <1>11. \A n \in 1 .. 3 : e[n][2] \in Nat
    BY <1>9, <1>10 DEF decimal_u32
  <1>12. e = << <<"m", e[1][2]>>, <<"t", e[2][2]>>, <<"p", e[3][2]>> >>
    <2>1. PICK a, b, d : a = e[1] /\ b = e[2] /\ d = e[3]
      OBVIOUS
    <2>2. e = <<a, b, d>>
      BY ONLY <1>8, <2>1
    <2>3. a = <<"m", e[1][2]>> /\ b = <<"t", e[2][2]>> /\ d = <<"p", e[3][2]>>
      BY ONLY <1>7, <1>9, <2>1
    <2> QED BY ONLY <2>2, <2>3
  <1>13. /\ decimal_u32(e[1][2]) /\ decimal_u32(e[2][2]) /\ decimal_u32(e[3][2])
         /\ e[1][2] \in Nat /\ e[2][2] \in Nat /\ e[3][2] \in Nat
    <2>1. 1 \in 1 .. 3 /\ 2 \in 1 .. 3 /\ 3 \in 1 .. 3
      OBVIOUS
    <2> QED BY <2>1, <1>10, <1>11, Zenon
  <1> QED BY <1>1, <1>12, <1>13, Zenon

LEMMA BinIs ==
    ASSUME NEW field, c_field(field), field.is = "bin", ~field.bad, ~field.tail
    PROVE  Slash(field) = Bin(field.content, field.len)
  <1>1. PICK x, n, high : x = field.content /\ n = field.len /\ high = field.high
    OBVIOUS
  <1>2. /\ field.bad \in BOOLEAN /\ field.tail \in BOOLEAN /\ high \in BOOLEAN
        /\ field = [Bin(x, n) EXCEPT !.bad = field.bad, !.tail = field.tail, !.high = high]
    BY <1>1 DEF c_field
  <1>3. field.bad = FALSE /\ field.tail = FALSE
    BY <1>2, Zenon
  <1>4. field = [is |-> "bin", content |-> x, len |-> n,
                 bad |-> FALSE, tail |-> FALSE, high |-> high]
    BY <1>2, <1>3 DEF Bin
  <1>5. [field EXCEPT !.high = FALSE] = Bin(x, n)
    <2>1. PICK r, F : F = FALSE /\ r = [is |-> "bin", content |-> x, len |-> n,
                                       bad |-> F, tail |-> F, high |-> high]
      OBVIOUS
    <2>2. [r EXCEPT !.high = F] = [is |-> "bin", content |-> x, len |-> n,
                                   bad |-> F, tail |-> F, high |-> F]
      BY ONLY <2>1
    <2> QED BY <1>4, <2>1, <2>2, Zenon DEF Bin
  <1>6. high = FALSE => field = Bin(x, n)
    BY <1>4 DEF Bin
  <1>7. High(field) <=> high
    BY <1>1, Zenon DEF High
  <1>8. high = TRUE \/ high = FALSE
    BY <1>2, Zenon
  <1> QED BY <1>1, <1>5, <1>6, <1>7, <1>8, Zenon DEF Slash

(* Only data is changed. *)
LEMMA NotSlashed ==
    /\ \A text : Slash(Lit(text)) = Lit(text) /\ ~High(Lit(text))
    /\ \A entries : Slash(Nums(entries)) = Nums(entries) /\ ~High(Nums(entries))
    /\ \A field : ~High(field) => Slash(field) = field
  <1>1. \A text : ~High(Lit(text))
    BY DEF High, Lit
  <1>2. \A entries : ~High(Nums(entries))
    BY DEF High, Nums
  <1> QED BY <1>1, <1>2, Zenon DEF Slash

(* The last three fields of a string that has no others after the version. *)
LastThree(str, r, k) ==
    /\ Len(r) = 3 /\ Len(str) = k + 3
    /\ r[1] = str[k + 1] /\ r[2] = str[k + 2] /\ r[3] = str[k + 3]
    /\ \A n \in 1 .. k + 3 : c_field(str[n])

LEMMA RestIs ==
    ASSUME NEW str, c_string(str), str # <<>>, NEW r, r = Rest(str),
           Len(r) >= 3, ~(Len(r) > 3), NEW k, k = IF versioned(str) THEN 2 ELSE 1
    PROVE  LastThree(str, r, k)
  <1>1. PICK L, S : L = Len(str) /\ S = {str[n] : n \in 1 .. L}
    OBVIOUS
  <1>2. L \in Nat /\ str = [n \in 1 .. L |-> str[n]] /\ \A n \in 1 .. L : c_field(str[n])
    <2>1. L \in Nat /\ str = [n \in 1 .. L |-> str[n]]
      BY <1>1 DEF c_string
    <2>2. DOMAIN str = 1 .. L
      BY <2>1, Zenon
    <2> QED BY <2>1, <2>2 DEF c_string
  <1>3. str \in Seq(S)
    <2>1. \A n \in 1 .. L : str[n] \in S
      BY <1>1
    <2>2. str \in [1 .. L -> S]
      BY <1>2, <2>1, Zenon
    <2> QED BY <1>2, <2>2, SeqDef
  <1>4. k \in {1, 2} /\ (versioned(str) => k = 2) /\ (~versioned(str) => k = 1)
    OBVIOUS
  <1>5. k <= L
    <2>1. L # 0
      BY <1>1, <1>3, EmptySeq
    <2>2. versioned(str) => L >= 2
      BY <1>1 DEF versioned
    <2> QED BY <1>2, <1>4, <2>1, <2>2
  <1>6. r = SubSeq(str, k + 1, L)
    <2>1. (versioned(str) => k + 1 = 3) /\ (~versioned(str) => k + 1 = 2)
      BY <1>4
    <2> QED BY <1>1, <2>1, Zenon DEF Rest
  <1>7. k \in 0 .. L
    BY <1>2, <1>4, <1>5
  <1>8. Len(r) = L - k /\ \A n \in 1 .. L - k : r[n] = str[k + n]
    <2>1. k \in 0 .. Len(str)
      BY <1>1, <1>7
    <2>2. /\ Len(SubSeq(str, k + 1, Len(str))) = Len(str) - k
          /\ \A n \in 1 .. Len(str) - k : SubSeq(str, k + 1, Len(str))[n] = str[k + n]
      BY <1>3, <2>1, SplitAt, Zenon
    <2> QED BY <1>1, <1>6, <2>2, Zenon
  <1>9. L = k + 3
    <2>1. L - k >= 3 /\ ~(L - k > 3)
      BY <1>8, Zenon
    <2> QED BY ONLY <1>2, <1>4, <2>1
  <1>10. L - k = 3
    BY ONLY <1>9, <1>4
  <1>11. \A n \in 1 .. 3 : r[n] = str[k + n]
    BY <1>8, <1>10
  <1>12. r[1] = str[k + 1] /\ r[2] = str[k + 2] /\ r[3] = str[k + 3]
    BY ONLY <1>11
  <1>13. Len(r) = 3
    BY <1>8, <1>10, Zenon
  <1> QED BY <1>1, <1>2, <1>9, <1>12, <1>13, Zenon DEF LastThree

(* What decode_string accepts. *)
LEMMA Accepted ==
    ASSUME NEW str, c_string(str), NEW type,
           decode_string(str, Blank, type) = "ARGON2_OK",
           NEW c, c = DecodedContext(str, Blank)
    PROVE  Accepts(str, c, type)
  <1>1. type \in {"d", "i", "id"}
    BY DecodeAccepts, Zenon
  <1>2. WellFormed(str, Blank, type) /\ ~trailing(str)
    <2>1. "ARGON2_OK" # "ARGON2_INCORRECT_TYPE" /\ "ARGON2_OK" # "ARGON2_DECODING_FAIL"
      OBVIOUS
    <2> QED BY <2>1, Zenon DEF decode_string
  <1>3. PICK r, k : r = Rest(str) /\ k = IF versioned(str) THEN 2 ELSE 1
    OBVIOUS
  <1>4. Blank.saltlen = Buffers /\ Blank.outlen = Buffers
    BY DEF Blank
  <1>5. /\ str # <<>> /\ str[1] = Lit(argon2_type2string(type))
        /\ versioned(str) => isVersionField(str[2])
        /\ Len(r) >= 3 /\ ~(Len(r) > 3)
        /\ isCosts(r[1]) /\ isBin(r[2], Buffers) /\ ~r[2].tail
        /\ isBin(r[3], Buffers) /\ ~r[3].tail
    BY <1>2, <1>3, <1>4, Zenon DEF WellFormed, trailing
  <1>6. /\ Len(r) = 3 /\ Len(str) = k + 3
        /\ r[1] = str[k + 1] /\ r[2] = str[k + 2] /\ r[3] = str[k + 3]
        /\ \A n \in 1 .. k + 3 : c_field(str[n])
    <2>1. LastThree(str, r, k)
      BY <1>3, <1>5, RestIs, Zenon
    <2> QED BY <2>1, Zenon DEF LastThree
  <1>7. k \in {1, 2} /\ (versioned(str) => k = 2) /\ (~versioned(str) => k = 1)
    BY <1>3
  <1>8. c_field(r[1]) /\ c_field(r[2]) /\ c_field(r[3])
    <2>1. k + 1 \in 1 .. k + 3 /\ k + 2 \in 1 .. k + 3 /\ k + 3 \in 1 .. k + 3
      BY ONLY <1>7
    <2> QED BY <1>6, <2>1, Zenon
  <1>9. /\ c.version = version_default(str)
        /\ c.m_cost = r[1].entries[1][2] /\ c.t_cost = r[1].entries[2][2]
        /\ c.lanes = r[1].entries[3][2]
        /\ c.salt = r[2].content /\ c.saltlen = r[2].len /\ c.outlen = r[3].len
    <2>1. ReadFrom(str, c, r)
      BY <1>3, ContextRead, Zenon
    <2> QED BY <2>1, Zenon DEF ReadFrom
  <1>10. /\ r[1] = CostFields(c)
         /\ decimal_u32(c.m_cost) /\ decimal_u32(c.t_cost) /\ decimal_u32(c.lanes)
         /\ {c.m_cost, c.t_cost, c.lanes} \subseteq Nat
    <2>1. PICK f, e : f = r[1] /\ e = f.entries
      OBVIOUS
    <2>2. /\ f = Nums(<< <<"m", e[1][2]>>, <<"t", e[2][2]>>, <<"p", e[3][2]>> >>)
          /\ decimal_u32(e[1][2]) /\ decimal_u32(e[2][2]) /\ decimal_u32(e[3][2])
          /\ e[1][2] \in Nat /\ e[2][2] \in Nat /\ e[3][2] \in Nat
      BY <1>5, <1>8, <2>1, CostsAre, Zenon
    <2>3. c.m_cost = e[1][2] /\ c.t_cost = e[2][2] /\ c.lanes = e[3][2]
      BY <1>9, <2>1, Zenon
    <2>4. r[1] = CostFields(c)
      BY <2>1, <2>2, <2>3, Zenon DEF CostFields
    <2> QED BY <2>2, <2>3, <2>4, Zenon
  <1>11. /\ Slash(r[2]) = Bin(c.salt, c.saltlen) /\ isBin(Bin(c.salt, c.saltlen), Buffers)
         /\ Slash(r[3]) = Bin(DecodedOut(str), c.outlen)
         /\ isBin(Bin(DecodedOut(str), c.outlen), Buffers)
         /\ r[2].is = "bin" /\ r[3].is = "bin"
    <2>1. /\ r[2].is = "bin" /\ ~r[2].bad /\ r[2].len <= Buffers
          /\ r[3].is = "bin" /\ ~r[3].bad /\ r[3].len <= Buffers
      BY <1>5, Zenon DEF isBin
    <2>2. /\ Slash(r[2]) = Bin(r[2].content, r[2].len)
          /\ Slash(r[3]) = Bin(r[3].content, r[3].len)
      BY <1>5, <1>8, <2>1, BinIs, Zenon
    <2>3. \A x, n : n <= Buffers => isBin(Bin(x, n), Buffers)
      BY DEF isBin, Bin
    <2> QED BY <1>3, <1>9, <2>1, <2>2, <2>3, Zenon DEF DecodedOut
  <1>12. CASE versioned(str)
    <2>1. Len(str) = 5 /\ str[3] = r[1] /\ str[4] = r[2] /\ str[5] = r[3]
      <3>1. k = 2 /\ k + 1 = 3 /\ k + 2 = 4 /\ k + 3 = 5
        BY <1>7, <1>12
      <3> QED BY <1>6, <3>1, Zenon
    <2>2. c_field(str[2])
      <3>1. 2 \in 1 .. k + 3
        BY ONLY <1>7
      <3> QED BY <1>6, <3>1, Zenon
    <2>3. PICK f, e : f = str[2] /\ e = f.entries
      OBVIOUS
    <2>4. f.is = "nums" /\ e[1][1] = "v" /\ Len(e) = 1 /\ decimal_u32(e[1][2])
      BY <1>5, <1>12, <2>3 DEF versioned, isVersionField
    <2>5. f = Nums(e) /\ e \in Seq(STRING \X (Nat \cup {NoNumber}))
      BY <2>2, <2>3, <2>4 DEF c_field
    <2>6. e = <<e[1]>> /\ e[1] \in STRING \X (Nat \cup {NoNumber})
      BY <2>4, <2>5, AsTuple
    <2>7. e[1] = <<"v", e[1][2]>> /\ e[1][2] \in Nat
      BY <2>4, <2>6 DEF decimal_u32
    <2>8. c.version = e[1][2]
      BY <1>9, <1>12, <2>3, Zenon DEF version_default
    <2>9. f = Nums(<< <<"v", c.version>> >>)
      BY <2>5, <2>6, <2>7, <2>8, Zenon
    <2>10. {c.version, c.m_cost, c.t_cost, c.lanes} \subseteq Nat /\ decimal_u32(c.version)
      BY <1>10, <2>4, <2>7, <2>8
    <2> QED
      BY <1>1, <1>3, <1>5, <1>6, <1>8, <1>9, <1>10, <1>11, <1>12, <2>1, <2>3, <2>9, <2>10,
         Zenon
      DEF Accepts
  <1>13. CASE ~versioned(str)
    <2>1. Len(str) = 4 /\ str[2] = r[1] /\ str[3] = r[2] /\ str[4] = r[3]
      <3>1. k = 1 /\ k + 1 = 2 /\ k + 2 = 3 /\ k + 3 = 4
        BY <1>7, <1>13
      <3> QED BY <1>6, <3>1, Zenon
    <2>2. c.version = VERSION_10
      BY <1>9, <1>13, Zenon DEF version_default
    <2>3. {c.version, c.m_cost, c.t_cost, c.lanes} \subseteq Nat /\ decimal_u32(c.version)
      <3>1. VERSION_10 \in Nat /\ decimal_u32(VERSION_10)
        BY LimitsAssumption, WordAssumption
           DEF decimal_u32, NoNumber, VERSION_10, VERSION_NUMBER
      <3> QED BY <1>10, <2>2, <3>1
    <2> QED
      BY <1>1, <1>3, <1>5, <1>6, <1>8, <1>9, <1>10, <1>11, <1>13, <2>1, <2>2, <2>3, Zenon
      DEF Accepts
  <1> QED BY <1>12, <1>13, Zenon

(* An accepted string is what encode_string writes of what was read from it,  *)
(* but for the version.                                                       *)
Faithful(str, c, type, written) ==
    /\ str \in {written, <<written[1]>> \o SubSeq(written, 3, 5)}
    /\ str # written => c.version = VERSION_10
    /\ decode_string(written, Blank, type) = "ARGON2_OK"
    /\ DecodedContext(written, Blank) = c

LEMMA Decodes ==
    ASSUME NEW str, c_string(str), NEW type,
           decode_string(str, Blank, type) = "ARGON2_OK",
           NEW c, c = DecodedContext(str, Blank),
           NEW written, written = Encoded(c, DecodedOut(str), type),
           NEW sl, sl = Slashed(str)
    PROVE  Faithful(sl, c, type, written)
  <1>1. Accepts(str, c, type)
    BY Accepted, Zenon
  <1>2. PICK f1, f2, f3, f4, f5, r, q :
          /\ f1 = Lit(argon2_type2string(type)) /\ f2 = Nums(<< <<"v", c.version>> >>)
          /\ f3 = CostFields(c) /\ f4 = Bin(c.salt, c.saltlen)
          /\ f5 = Bin(DecodedOut(str), c.outlen)
          /\ r = Rest(str) /\ q = Rest(written)
    OBVIOUS
  <1>3. /\ type \in {"d", "i", "id"} /\ str[1] = f1 /\ Len(r) = 3
        /\ r[1] = f3
        /\ c.salt = r[2].content /\ c.saltlen = r[2].len /\ c.outlen = r[3].len
        /\ isCosts(f3) /\ isBin(f4, Buffers) /\ isBin(f5, Buffers)
        /\ decimal_u32(c.version)
        /\ versioned(str) => /\ Len(str) = 5 /\ str[2] = f2 /\ str[3] = f3
                             /\ Slash(str[4]) = f4 /\ Slash(str[5]) = f5
        /\ ~versioned(str) => /\ Len(str) = 4 /\ c.version = VERSION_10
                              /\ str[2] = f3 /\ Slash(str[3]) = f4 /\ Slash(str[4]) = f5
    BY <1>1, <1>2, Zenon DEF Accepts
  <1>4. written = <<f1, f2, f3, f4, f5>>
    BY <1>2, Zenon DEF Encoded, CostFields
  <1>5. /\ Len(written) = 5 /\ written # <<>>
        /\ written[1] = f1 /\ written[2] = f2
    BY ONLY <1>4
  <1>6. /\ versioned(written) /\ written[2].entries = << <<"v", c.version>> >>
        /\ Len(q) = 3 /\ q[1] = f3 /\ q[2] = f4 /\ q[3] = f5
    <2>1. Reads(written, c, DecodedOut(str), type)
      BY EncodedParts, Zenon
    <2> QED BY <1>2, <2>1, Zenon DEF Reads, CostFields
  <1>7. version_default(written) = c.version /\ isVersionField(written[2])
    <2>1. PICK e : e = << <<"v", c.version>> >>
      OBVIOUS
    <2>2. Len(e) = 1 /\ e[1][2] = c.version
      BY ONLY <2>1
    <2> QED BY <1>3, <1>6, <2>1, <2>2, Zenon DEF version_default, isVersionField
  <1>8. DecodedContext(written, Blank) = c
    <2>1. version_default(str) = c.version
      <3>1. ReadFrom(str, c, r)
        BY <1>2, ContextRead, Zenon
      <3> QED BY <3>1, Zenon DEF ReadFrom
    <2>2. f4.content = c.salt /\ f4.len = c.saltlen /\ f5.len = c.outlen
      BY <1>2 DEF Bin
    <2> QED BY <1>2, <1>3, <1>6, <1>7, <2>1, <2>2, ContextSame, Zenon
  <1>9. decode_string(written, Blank, type) = "ARGON2_OK"
    <2>1. Blank.saltlen = Buffers /\ Blank.outlen = Buffers
      BY DEF Blank
    <2>2. f4.tail = FALSE /\ f5.tail = FALSE
      BY <1>2 DEF Bin
    <2>3. Len(q) >= 3 /\ ~(Len(q) > 3)
      <3>1. PICK n : n = Len(q) /\ n = 3
        BY <1>6
      <3>2. n >= 3 /\ ~(n > 3)
        BY ONLY <3>1
      <3> QED BY <3>1, <3>2
    <2>4. WellFormed(written, Blank, type)
      BY <1>2, <1>3, <1>5, <1>6, <1>7, <2>1, <2>2, <2>3, Zenon DEF WellFormed
    <2>5. ~trailing(written)
      BY <1>2, <1>6, <2>2, <2>3, Zenon DEF trailing
    <2>6. "ARGON2_OK" # "ARGON2_INCORRECT_TYPE" /\ "ARGON2_OK" # "ARGON2_DECODING_FAIL"
      OBVIOUS
    <2>7. argon2_type2string(type) # NULL /\ validate_inputs(c) = "ARGON2_OK"
      BY <2>6, Zenon DEF decode_string
    <2> QED BY <1>8, <2>4, <2>5, <2>7, Zenon DEF decode_string
  <1>10. sl = [n \in 1 .. Len(str) |-> Slash(str[n])]
    <2>1. DOMAIN str = 1 .. Len(str)
      <3>1. str = [n \in 1 .. Len(str) |-> str[n]]
        BY DEF c_string
      <3> QED BY <3>1, Zenon
    <2> QED BY <2>1, Zenon DEF Slashed, Slash
  <1>11. Slash(f1) = f1 /\ Slash(f2) = f2 /\ Slash(f3) = f3
    BY <1>2, NotSlashed, Zenon DEF CostFields
  <1>12. CASE versioned(str)
    <2>1. sl = [n \in 1 .. 5 |-> Slash(str[n])]
      BY <1>3, <1>10, <1>12, Zenon
    <2>2. sl = <<Slash(str[1]), Slash(str[2]), Slash(str[3]), Slash(str[4]), Slash(str[5])>>
      BY ONLY <2>1
    <2>3. sl = <<f1, f2, f3, f4, f5>>
      BY <1>3, <1>11, <1>12, <2>2, Zenon
    <2> QED BY <1>4, <1>8, <1>9, <2>3, Zenon DEF Faithful
  <1>13. CASE ~versioned(str)
    <2>1. sl = [n \in 1 .. 4 |-> Slash(str[n])]
      BY <1>3, <1>10, <1>13, Zenon
    <2>2. sl = <<f1, f3, f4, f5>>
      <3>1. sl = <<Slash(str[1]), Slash(str[2]), Slash(str[3]), Slash(str[4])>>
        BY ONLY <2>1
      <3> QED BY <1>3, <1>11, <1>13, <3>1, Zenon
    <2>3. SubSeq(written, 3, 5) = <<f3, f4, f5>>
      <3>1. PICK S : S = {f1, f2, f3, f4, f5}
        OBVIOUS
      <3>2. f1 \in S /\ f2 \in S /\ f3 \in S /\ f4 \in S /\ f5 \in S
        BY ONLY <3>1
      <3>3. written \in Seq(S) /\ 2 \in 0 .. Len(written) /\ 2 + 1 = 3
        BY ONLY <1>4, <3>2
      <3>4. SubSeq(written, 3, Len(written)) \in Seq(S)
        <4>1. SubSeq(written, 2 + 1, Len(written)) \in Seq(S)
          BY ONLY <3>3, SplitAt, Zenon
        <4> QED BY <3>3, <4>1, Zenon
      <3>5. q = SubSeq(written, 3, 5) /\ q \in Seq(S)
        BY <1>2, <1>5, <1>6, <3>4, Zenon DEF Rest
      <3>6. q = <<q[1], q[2], q[3]>>
        BY <1>6, <3>5, AsTuple, Zenon
      <3> QED BY <1>6, <3>5, <3>6, Zenon
    <2>4. <<f1>> \o <<f3, f4, f5>> = <<f1, f3, f4, f5>>
      <3>1. Appended(f1, f3, f4, f5, f5)
        BY LongTuples, Zenon
      <3> QED BY <3>1, Zenon DEF Appended
    <2>5. sl = <<written[1]>> \o SubSeq(written, 3, 5)
      BY <1>5, <2>2, <2>3, <2>4, Zenon
    <2> QED BY <1>3, <1>8, <1>9, <1>13, <2>5, Zenon DEF Faithful
  <1> QED BY <1>12, <1>13, Zenon

(* encoding.c, for every string made of its kinds of fields: what             *)
(* decode_string accepts is, but for a version that is left out and bytes     *)
(* above 127 that stand for "/", what encode_string writes of the decoded     *)
(* context, which decodes to the same.                                        *)
THEOREM CStringsDecodeFaithfully ==
    ASSUME input.call = "decode_string" => c_string(input.str)
    PROVE  DecodesFaithfully
  <1>1. ASSUME input.call = "decode_string",
               decode_string(input.str, Blank, input.type) = "ARGON2_OK",
               NEW c, c = DecodedContext(input.str, Blank),
               NEW written, written = Encoded(c, DecodedOut(input.str), input.type)
        PROVE  Faithful(Slashed(input.str), c, input.type, written)
    BY <1>1, Decodes, Zenon
  <1> QED BY <1>1, Zenon DEF DecodesFaithfully, Faithful

-----------------------------------------------------------------------------
(* The same strings, read by phc.ts. *)
LEMMA NumberKept ==
    ASSUME NEW n \in 0 .. MaxSafe
    PROVE  /\ toText(Num(n)) = ToString(n) /\ ToString(n) # ""
           /\ convert(toText(Num(n))) = Num(n)
  <1>1. toText(Num(n)) = ToString(n)
    BY DEF toText, Num
  <1>2. ToString(n) \in Decimals
    BY DEF Decimals
  <1>3. Value(ToString(n)) = n
    <2>1. \A k \in 0 .. MaxSafe : ToString(k) = ToString(n) => k = n
      BY PhcAssumption
    <2> QED BY <2>1 DEF Value
  <1>4. ToString(n) # ""
    BY PhcAssumption
  <1> QED BY <1>1, <1>2, <1>3, <1>4, Zenon DEF convert

(* The costs as params, which come back as they are. *)
CostParams(m, t, p) == << <<"m", Num(m)>>, <<"t", Num(t)>>, <<"p", Num(p)>> >>
CostTexts(m, t, p) ==
    << <<"m", ToString(m)>>, <<"t", ToString(t)>>, <<"p", ToString(p)>> >>

(* No cost is moved: their names are no array indices. *)
LEMMA KeyedAsAssigned ==
    ASSUME NEW list, NEW n \in Nat, DOMAIN list = 1 .. n,
           list = [k \in 1 .. n |-> list[k]],
           \A k \in 1 .. n : list[k][1] \notin Indices
    PROVE  keyed(list) = list
  <1> DEFINE C(p) == CHOOSE k \in DOMAIN list : place(list, k) = p
  <1>1. ASSUME NEW k \in 1 .. n PROVE place(list, k) = k
    <2>1. {i \in DOMAIN list : before(list, i, k)} = 1 .. k - 1
      BY DEF before
    <2>2. Cardinality(1 .. k - 1) = k - 1
      <3>1. 1 \in Int /\ k - 1 \in Int
        OBVIOUS
      <3>2. Cardinality(1 .. k - 1) = IF 1 > k - 1 THEN 0 ELSE k - 1 - 1 + 1
        BY <3>1, FS_Interval
      <3> QED BY <3>2
    <2>3. place(list, k) = (k - 1) + 1
      BY <2>1, <2>2, Zenon DEF place
    <2> QED BY <2>3
  <1>2. ASSUME NEW p \in 1 .. n PROVE C(p) = p
    BY <1>1
  <1>3. keyed(list) = [p \in DOMAIN list |-> list[C(p)]]
    BY Zenon DEF keyed
  <1> HIDE DEF C
  <1> QED BY <1>2, <1>3

LEMMA CostsKeyed ==
    ASSUME NEW x, NEW y, NEW z, NEW list, list = << <<"m", x>>, <<"t", y>>, <<"p", z>> >>
    PROVE  keyed(list) = list
  <1>1. \A name \in {"m", "t", "p"} : name \notin Indices
    <2>1. MaxSafe \in Nat /\ MaxIndex \in 0 .. MaxSafe
      BY PhcAssumption, Zenon
    <2>2. \A n \in 0 .. MaxIndex : n \in 0 .. MaxSafe
      BY <2>1
    <2>3. \A n \in 0 .. MaxSafe : ToString(n) \notin {"", "m", "t", "p", "data"}
      BY PhcAssumption, Zenon
    <2> QED BY <2>2, <2>3, Zenon DEF Indices
  <1>2. /\ DOMAIN list = 1 .. 3 /\ list = [k \in 1 .. 3 |-> list[k]]
        /\ \A k \in 1 .. 3 : list[k][1] \in {"m", "t", "p"}
    OBVIOUS
  <1>3. \A k \in 1 .. 3 : list[k][1] \notin Indices
    BY <1>1, <1>2, Zenon
  <1>4. 3 \in Nat
    OBVIOUS
  <1> QED BY <1>2, <1>3, <1>4, KeyedAsAssigned, Zenon

KeptParams(list, texts) ==
    /\ param_list(list) /\ list # <<>> /\ Len(list) = 3 /\ keyed(list) = list
    /\ ~ \E n \in DOMAIN list : BadParam(list[n]) \/ list[n][1] \in Inherited
    /\ ParamsField(list) = Pairs(texts) /\ Converted(Entries(list)) = list

LEMMA CostParamsKept ==
    ASSUME NEW m \in 0 .. MaxSafe, NEW t \in 0 .. MaxSafe, NEW p \in 0 .. MaxSafe,
           {"m", "t", "p"} \subseteq Names,
           NEW list, list = CostParams(m, t, p)
    PROVE  KeptParams(list, CostTexts(m, t, p))
  <1>1. PICK a, b, d, x, y, z :
          /\ a = <<"m", x>> /\ b = <<"t", y>> /\ d = <<"p", z>>
          /\ x = Num(m) /\ y = Num(t) /\ z = Num(p)
    OBVIOUS
  <1>2. list = <<a, b, d>>
    BY <1>1, Zenon DEF CostParams
  <1>3. /\ Len(list) = 3 /\ DOMAIN list = 1 .. 3 /\ list # <<>>
        /\ list[1] = a /\ list[2] = b /\ list[3] = d
        /\ list = [n \in 1 .. 3 |-> list[n]]
    BY ONLY <1>2
  <1>4. /\ a[1] = "m" /\ b[1] = "t" /\ d[1] = "p"
        /\ a[2] = x /\ b[2] = y /\ d[2] = z
    BY ONLY <1>1
  <1>5. /\ toText(x) = ToString(m) /\ ToString(m) # "" /\ convert(toText(x)) = x
        /\ toText(y) = ToString(t) /\ ToString(t) # "" /\ convert(toText(y)) = y
        /\ toText(z) = ToString(p) /\ ToString(p) # "" /\ convert(toText(z)) = z
    BY <1>1, NumberKept, Zenon
  <1>6. \A n \in 1 .. 3 : n = 1 \/ n = 2 \/ n = 3
    OBVIOUS
  <1>7. param_list(list)
    <2>1. \A n, k \in 1 .. 3 : list[n][1] = list[k][1] => n = k
      <3>1. "m" # "t" /\ "m" # "p" /\ "t" # "p"
        OBVIOUS
      <3> QED BY <1>3, <1>4, <1>6, <3>1, Zenon
    <2>2. 3 \in Nat
      OBVIOUS
    <2> QED BY <1>3, <2>1, <2>2, Zenon DEF param_list
  <1>8. ASSUME NEW n \in DOMAIN list
        PROVE  ~BadParam(list[n]) /\ list[n][1] \notin Inherited
    <2>1. n = 1 \/ n = 2 \/ n = 3
      BY <1>3, <1>6, <1>8, Zenon
    <2>2. "m" \in Names /\ "t" \in Names /\ "p" \in Names
      OBVIOUS
    <2>3. "m" \notin Inherited /\ "t" \notin Inherited /\ "p" \notin Inherited
      BY DEF Inherited
    <2>4. CASE n = 1
      BY <1>3, <1>4, <1>5, <2>2, <2>3, <2>4, Zenon DEF BadParam
    <2>5. CASE n = 2
      BY <1>3, <1>4, <1>5, <2>2, <2>3, <2>5, Zenon DEF BadParam
    <2>6. CASE n = 3
      BY <1>3, <1>4, <1>5, <2>2, <2>3, <2>6, Zenon DEF BadParam
    <2> QED BY <2>1, <2>4, <2>5, <2>6, Zenon
  <1>9. Entries(list) = CostTexts(m, t, p)
    <2>1. PICK e : e = Entries(list)
      OBVIOUS
    <2>2. e = [n \in 1 .. 3 |-> <<list[n][1], toText(list[n][2])>>]
      BY <1>3, <2>1, Zenon DEF Entries
    <2>3. e = << <<list[1][1], toText(list[1][2])>>, <<list[2][1], toText(list[2][2])>>,
                 <<list[3][1], toText(list[3][2])>> >>
      BY ONLY <2>2
    <2> QED BY <1>3, <1>4, <1>5, <2>1, <2>3, Zenon DEF CostTexts
  <1>10. Converted(Entries(list)) = list
    <2>1. Converted(Entries(list))
            = [n \in DOMAIN list |-> <<list[n][1], convert(toText(list[n][2]))>>]
      BY DEF Converted, Entries
    <2>2. PICK e : e = [n \in 1 .. 3 |-> <<list[n][1], convert(toText(list[n][2]))>>]
      OBVIOUS
    <2>3. e = << <<list[1][1], convert(toText(list[1][2]))>>,
                 <<list[2][1], convert(toText(list[2][2]))>>,
                 <<list[3][1], convert(toText(list[3][2]))>> >>
      BY ONLY <2>2
    <2>4. e = << <<"m", x>>, <<"t", y>>, <<"p", z>> >>
      BY <1>3, <1>4, <1>5, <2>3, Zenon
    <2> QED BY <1>1, <1>2, <1>3, <2>1, <2>2, <2>4, Zenon
  <1>11. ParamsField(list) = Pairs(CostTexts(m, t, p))
    <2>1. ParamsField(list) = Pairs(Entries(list))
      BY <1>3, Zenon DEF ParamsField, Entries
    <2> QED BY <1>9, <2>1, Zenon
  <1>12. keyed(list) = list
    BY CostsKeyed, Zenon DEF CostParams
  <1> QED BY <1>3, <1>7, <1>8, <1>10, <1>11, <1>12, Zenon DEF KeptParams

(* The fields of an accepted string, as phc.ts sees them. *)
LEMMA SeenAs ==
    ASSUME NEW text, NEW len, NEW m, NEW t, NEW p, NEW v
    PROVE  /\ AsPhc(Lit(text)) = Text(text) /\ AsPhc(Bin(text, len)) = Text(text)
           /\ AsPhc(Nums(<< <<"v", v>> >>)) = Pairs(<< <<"v", ToString(v)>> >>)
           /\ AsPhc(Nums(<< <<"m", m>>, <<"t", t>>, <<"p", p>> >>))
                = Pairs(CostTexts(m, t, p))
  <1>1. AsPhc(Lit(text)) = Text(text) /\ AsPhc(Bin(text, len)) = Text(text)
    <2>1. PICK f, b : f = Lit(text) /\ b = Bin(text, len)
      OBVIOUS
    <2>2. /\ f.is = "lit" /\ f.text = text
          /\ b.is = "bin" /\ b.content = text /\ b.high = FALSE
      BY <2>1 DEF Lit, Bin
    <2>3. AsPhc(f) = Text(f.text) /\ AsPhc(b) = Text(b.content)
      BY <2>2 DEF AsPhc
    <2> QED BY <2>1, <2>2, <2>3, Zenon
  <1>2. ASSUME NEW e
        PROVE  AsPhc(Nums(e)) = Pairs([n \in DOMAIN e |-> <<e[n][1], ToString(e[n][2])>>])
    <2>1. Nums(e).is = "nums" /\ Nums(e).entries = e
      BY DEF Nums
    <2>2. "nums" # "lit" /\ "nums" # "bin"
      OBVIOUS
    <2>3. PICK f : f = Nums(e)
      OBVIOUS
    <2>4. f.is = "nums" /\ f.entries = e
      BY <2>1, <2>3, Zenon
    <2>5. AsPhc(f) = Pairs([n \in DOMAIN f.entries |->
                                <<f.entries[n][1], ToString(f.entries[n][2])>>])
      BY <2>2, <2>4 DEF AsPhc
    <2> QED BY <2>3, <2>4, <2>5, Zenon
  <1>3. AsPhc(Nums(<< <<"v", v>> >>)) = Pairs(<< <<"v", ToString(v)>> >>)
    <2>1. PICK e, g : /\ e = << <<"v", v>> >>
                      /\ g = [n \in DOMAIN e |-> <<e[n][1], ToString(e[n][2])>>]
      OBVIOUS
    <2>2. DOMAIN e = 1 .. 1 /\ e[1][1] = "v" /\ e[1][2] = v
      BY ONLY <2>1
    <2>3. g = [n \in 1 .. 1 |-> <<e[n][1], ToString(e[n][2])>>]
      BY <2>1, <2>2, Zenon
    <2>4. g = << <<e[1][1], ToString(e[1][2])>> >>
      BY ONLY <2>3
    <2>5. AsPhc(Nums(e)) = Pairs(g)
      BY <1>2, <2>1, Zenon
    <2> QED BY <2>1, <2>2, <2>4, <2>5, Zenon
  <1>4. AsPhc(Nums(<< <<"m", m>>, <<"t", t>>, <<"p", p>> >>)) = Pairs(CostTexts(m, t, p))
    <2>1. PICK e, g : /\ e = << <<"m", m>>, <<"t", t>>, <<"p", p>> >>
                      /\ g = [n \in DOMAIN e |-> <<e[n][1], ToString(e[n][2])>>]
      OBVIOUS
    <2>2. /\ DOMAIN e = 1 .. 3 /\ e[1][1] = "m" /\ e[2][1] = "t" /\ e[3][1] = "p"
          /\ e[1][2] = m /\ e[2][2] = t /\ e[3][2] = p
      BY ONLY <2>1
    <2>3. g = [n \in 1 .. 3 |-> <<e[n][1], ToString(e[n][2])>>]
      BY <2>1, <2>2, Zenon
    <2>4. g = << <<e[1][1], ToString(e[1][2])>>, <<e[2][1], ToString(e[2][2])>>,
                 <<e[3][1], ToString(e[3][2])>> >>
      BY ONLY <2>3
    <2>5. AsPhc(Nums(e)) = Pairs(g)
      BY <1>2, <2>1, Zenon
    <2> QED BY <2>1, <2>2, <2>4, <2>5, Zenon DEF CostTexts
  <1> QED BY <1>1, <1>3, <1>4, Zenon

(* The object that phc.ts makes of an accepted string. *)
ObjectOf(str, c, type) ==
    [id |-> argon2_type2string(type),
     version |-> IF versioned(str) THEN Num(c.version) ELSE None,
     params |-> Params(CostParams(c.m_cost, c.t_cost, c.lanes)),
     salt |-> Buf(c.salt), hash |-> Buf(DecodedOut(str))]

IsObject(str, c, type, o) ==
    /\ phc_object(o) /\ ~Refused(o) /\ ~Ambiguous(o) /\ Normal(o) = o
    /\ o.id = argon2_type2string(type)
    /\ o.version = IF versioned(str) THEN Num(c.version) ELSE None
    /\ o.params = Params(CostParams(c.m_cost, c.t_cost, c.lanes))
    /\ keyed(o.params.list) = o.params.list
    /\ ParamsField(o.params.list) = Pairs(CostTexts(c.m_cost, c.t_cost, c.lanes))
    /\ o.salt = Buf(c.salt) /\ o.hash = Buf(DecodedOut(str))

LEMMA ObjectIs ==
    ASSUME NEW str, NEW c, NEW type, Accepts(str, c, type),
           NEW o, o = ObjectOf(str, c, type)
    PROVE  IsObject(str, c, type, o)
  <1>1. PICK list, id, version, salt, hash :
          /\ list = CostParams(c.m_cost, c.t_cost, c.lanes)
          /\ id = argon2_type2string(type)
          /\ version = IF versioned(str) THEN Num(c.version) ELSE None
          /\ salt = Buf(c.salt) /\ hash = Buf(DecodedOut(str))
    OBVIOUS
  <1>2. o = [id |-> id, version |-> version, params |-> Params(list),
             salt |-> salt, hash |-> hash]
    BY <1>1, Zenon DEF ObjectOf
  <1>3. /\ o.id = id /\ o.version = version /\ o.params = Params(list)
        /\ o.salt = salt /\ o.hash = hash
    BY ONLY <1>2
  <1>4. /\ type \in {"d", "i", "id"}
        /\ decimal_u32(c.m_cost) /\ decimal_u32(c.t_cost) /\ decimal_u32(c.lanes)
        /\ decimal_u32(c.version)
        /\ {c.version, c.m_cost, c.t_cost, c.lanes} \subseteq Nat
    BY Zenon DEF Accepts
  <1>5. \A n \in Nat : decimal_u32(n) => n \in 0 .. MaxSafe
    <2>1. MaxSafe \in Nat
      BY PhcAssumption, Zenon
    <2>2. Word \in Nat /\ Word - 1 <= MaxSafe
      BY LimitsAssumption, SharedAssumption
    <2> QED BY ONLY <2>1, <2>2 DEF decimal_u32
  <1>6. /\ c.m_cost \in 0 .. MaxSafe /\ c.t_cost \in 0 .. MaxSafe
        /\ c.lanes \in 0 .. MaxSafe /\ c.version \in 0 .. MaxSafe
    BY <1>4, <1>5
  <1>7. KeptParams(list, CostTexts(c.m_cost, c.t_cost, c.lanes))
    <2>1. {"m", "t", "p"} \subseteq Names
      BY SharedAssumption DEF SharedNames
    <2> QED BY <1>1, <1>6, <2>1, CostParamsKept, Zenon
  <1>8. /\ param_list(list) /\ list # <<>> /\ Len(list) = 3 /\ keyed(list) = list
        /\ ~ \E n \in DOMAIN list : BadParam(list[n]) \/ list[n][1] \in Inherited
        /\ ParamsField(list) = Pairs(CostTexts(c.m_cost, c.t_cost, c.lanes))
        /\ Converted(Entries(list)) = list
    BY <1>7, Zenon DEF KeptParams
  <1>9. id \in Names
    <2>1. id \in SharedNames
      BY <1>1, <1>4 DEF argon2_type2string, SharedNames
    <2> QED BY <2>1, SharedAssumption, Zenon
  <1>10. /\ Params(list) # None /\ Params(list).list = list
         /\ salt # None /\ hash # None
         /\ salt = Buf(salt.text) /\ hash = Buf(hash.text)
    BY <1>1 DEF Params, None, Buf
  <1>11. phc_object(o)
    <2>1. version = None \/ \E n \in 0 .. MaxSafe : version = Num(n)
      BY <1>1, <1>6, Zenon
    <2>2. o.params = Params(o.params.list) /\ param_list(o.params.list)
      BY <1>3, <1>8, <1>10, Zenon
    <2> QED BY <1>2, <1>3, <1>10, <2>1, <2>2, Zenon DEF phc_object
  <1>12. ~Refused(o)
    BY <1>3, <1>8, <1>9, <1>10, Zenon DEF Refused
  <1>13. ~Ambiguous(o)
    <2>1. Len(list) # 1
      BY <1>8
    <2> QED BY <1>3, <1>8, <1>10, <2>1, Zenon DEF Ambiguous
  <1>14. Normal(o) = o
    <2>1. Normal(o) = [id |-> o.id, version |-> o.version,
                        params |-> IF o.params = None THEN None
                                   ELSE Params(Converted(Entries(keyed(o.params.list)))),
                        salt |-> o.salt, hash |-> o.hash]
      BY <1>11, NormalIs, Zenon
    <2> QED BY <1>2, <1>3, <1>8, <1>10, <2>1, Zenon
  <1> QED
    BY <1>1, <1>3, <1>8, <1>10, <1>11, <1>12, <1>13, <1>14, Zenon DEF IsObject

(* serialize writes of it what encode_string has written. *)
LEMMA WritesTheSame ==
    ASSUME NEW str, NEW c, NEW type, Accepts(str, c, type), c_string(str),
           \A n \in DOMAIN str : ~High(str[n]),
           NEW o, IsObject(str, c, type, o), c.version \in 0 .. MaxSafe,
           NEW fields, fields = [n \in DOMAIN str |-> AsPhc(str[n])]
    PROVE  Written(o) = fields
  <1>1. PICK a, v, p, s, h :
          /\ a = Text(argon2_type2string(type)) /\ v = Pairs(<< <<"v", ToString(c.version)>> >>)
          /\ p = Pairs(CostTexts(c.m_cost, c.t_cost, c.lanes))
          /\ s = Text(c.salt) /\ h = Text(DecodedOut(str))
    OBVIOUS
  <1>2. PICK f1, f2, f3, f4, f5, r :
          /\ f1 = Lit(argon2_type2string(type)) /\ f2 = Nums(<< <<"v", c.version>> >>)
          /\ f3 = CostFields(c) /\ f4 = Bin(c.salt, c.saltlen)
          /\ f5 = Bin(DecodedOut(str), c.outlen) /\ r = Rest(str)
    OBVIOUS
  <1>3. /\ AsPhc(f1) = a /\ AsPhc(f2) = v /\ AsPhc(f3) = p
        /\ AsPhc(f4) = s /\ AsPhc(f5) = h
    BY <1>1, <1>2, SeenAs, Zenon DEF CostFields
  <1>5. DOMAIN str = 1 .. Len(str)
    <2>1. str = [n \in 1 .. Len(str) |-> str[n]]
      BY DEF c_string
    <2> QED BY <2>1, Zenon
  <1>4. /\ str[1] = f1
        /\ versioned(str) => /\ Len(str) = 5 /\ str[2] = f2
                             /\ str[3] = f3 /\ str[4] = f4 /\ str[5] = f5
        /\ ~versioned(str) => /\ Len(str) = 4
                              /\ str[2] = f3 /\ str[3] = f4 /\ str[4] = f5
    <2>1. \A n \in 1 .. Len(str) : Slash(str[n]) = str[n]
      BY <1>5, NotSlashed, Zenon
    <2>2. CASE versioned(str)
      <3>1. /\ str[1] = f1 /\ Len(str) = 5 /\ str[2] = f2 /\ str[3] = f3
            /\ Slash(str[4]) = f4 /\ Slash(str[5]) = f5
        BY <1>2, <2>2, Zenon DEF Accepts
      <3>2. Slash(str[4]) = str[4] /\ Slash(str[5]) = str[5]
        BY <2>1, <3>1
      <3> QED BY <2>2, <3>1, <3>2, Zenon
    <2>3. CASE ~versioned(str)
      <3>1. /\ str[1] = f1 /\ Len(str) = 4 /\ str[2] = f3
            /\ Slash(str[3]) = f4 /\ Slash(str[4]) = f5
        BY <1>2, <2>3, Zenon DEF Accepts
      <3>2. Slash(str[3]) = str[3] /\ Slash(str[4]) = str[4]
        BY <2>1, <3>1
      <3> QED BY <2>3, <3>1, <3>2, Zenon
    <2> QED BY <2>2, <2>3, Zenon
  <1>6. /\ Text(o.id) = a /\ ParamsField(keyed(o.params.list)) = p
        /\ Text(o.salt.text) = s /\ Text(o.hash.text) = h
        /\ o.params # None /\ o.salt # None /\ o.hash # None
        /\ versioned(str) => o.version # None /\ Pairs(<< <<"v", toText(o.version)>> >>) = v
        /\ ~versioned(str) => o.version = None
    <2>1. /\ o.id = argon2_type2string(type)
          /\ o.version = IF versioned(str) THEN Num(c.version) ELSE None
          /\ o.params = Params(CostParams(c.m_cost, c.t_cost, c.lanes))
          /\ ParamsField(keyed(o.params.list)) = p
          /\ o.salt = Buf(c.salt) /\ o.hash = Buf(DecodedOut(str))
      BY <1>1, Zenon DEF IsObject
    <2>2. o.salt.text = c.salt /\ o.hash.text = DecodedOut(str)
      BY <2>1 DEF Buf
    <2>3. o.params # None /\ o.salt # None /\ o.hash # None /\ Num(c.version) # None
      BY <2>1 DEF Params, Buf, None, Num
    <2>4. toText(Num(c.version)) = ToString(c.version)
      BY NumberKept, Zenon
    <2> QED BY <1>1, <2>1, <2>2, <2>3, <2>4, Zenon
  <1>7. \A x : Field(TRUE, x) = <<x>> /\ Field(FALSE, x) = <<>>
    BY Zenon DEF Field
  <1>8. CASE versioned(str)
    <2>1. Written(o) = <<a>> \o <<v>> \o <<p>> \o <<s>> \o <<h>>
      BY <1>6, <1>8, Zenon DEF Written, Field
    <2>2. Written(o) = <<a, v, p, s, h>>
      <3>1. <<a>> \o <<v>> = <<a, v>> /\ <<a, v>> \o <<p>> = <<a, v, p>>
        BY Tuples, Zenon
      <3>2. Appended(a, v, p, s, h)
        BY LongTuples, Zenon
      <3> QED BY <2>1, <3>1, <3>2, Zenon DEF Appended
    <2>3. fields = [n \in 1 .. 5 |-> AsPhc(str[n])]
      BY <1>4, <1>5, <1>8, Zenon
    <2>4. fields = <<AsPhc(str[1]), AsPhc(str[2]), AsPhc(str[3]), AsPhc(str[4]), AsPhc(str[5])>>
      BY ONLY <2>3
    <2> QED BY <1>3, <1>4, <1>8, <2>2, <2>4, Zenon
  <1>9. CASE ~versioned(str)
    <2>1. Written(o) = <<a>> \o <<>> \o <<p>> \o <<s>> \o <<h>>
      BY <1>6, <1>9, Zenon DEF Written, Field
    <2>2. Written(o) = <<a, p, s, h>>
      <3>1. <<a>> \o <<>> = <<a>> /\ <<a>> \o <<p>> = <<a, p>> /\ <<a, p>> \o <<s>> = <<a, p, s>>
        BY Tuples, Zenon
      <3>2. Appended(a, p, s, h, h)
        BY LongTuples, Zenon
      <3> QED BY <2>1, <3>1, <3>2, Zenon DEF Appended
    <2>3. fields = [n \in 1 .. 4 |-> AsPhc(str[n])]
      BY <1>4, <1>5, <1>9, Zenon
    <2>4. fields = <<AsPhc(str[1]), AsPhc(str[2]), AsPhc(str[3]), AsPhc(str[4])>>
      BY ONLY <2>3
    <2> QED BY <1>3, <1>4, <1>9, <2>2, <2>4, Zenon
  <1> QED BY <1>8, <1>9, Zenon

(* Both languages read the same from an accepted string. *)
Agrees(str, c, type, fields, d) ==
    /\ ~Failed(d)
    /\ d.id = argon2_type2string(type)
    /\ c.version = IF d.version = None THEN 16 ELSE d.version.n
    /\ <<param(d, "m"), param(d, "t"), param(d, "p")>>
         = <<Num(c.m_cost), Num(c.t_cost), Num(c.lanes)>>
    /\ d.salt = Buf(c.salt) /\ d.hash = Buf(DecodedOut(str))
    /\ serialize(d).fields = fields

CostsIn(d, x, y, z) ==
    param(d, "m") = Num(x) /\ param(d, "t") = Num(y) /\ param(d, "p") = Num(z)

LEMMA CostParamsRead ==
    ASSUME NEW d, NEW x, NEW y, NEW z, d.params = Params(CostParams(x, y, z))
    PROVE  CostsIn(d, x, y, z)
  <1>1. PICK list : list = CostParams(x, y, z)
    OBVIOUS
  <1>2. d.params # None /\ d.params.list = list
    BY <1>1 DEF Params, None
  <1>3. /\ DOMAIN list = {1, 2, 3}
        /\ list[1][1] = "m" /\ list[2][1] = "t" /\ list[3][1] = "p"
        /\ list[1][2] = Num(x) /\ list[2][2] = Num(y) /\ list[3][2] = Num(z)
    BY <1>1 DEF CostParams
  <1>4. /\ {n \in DOMAIN list : list[n][1] = "m"} = {1}
        /\ {n \in DOMAIN list : list[n][1] = "t"} = {2}
        /\ {n \in DOMAIN list : list[n][1] = "p"} = {3}
    BY <1>3
  <1>5. ASSUME NEW name, NEW k, {n \in DOMAIN list : list[n][1] = name} = {k}
        PROVE  param(d, name) = list[k][2]
    <2>1. PICK hits : hits = {n \in DOMAIN list : list[n][1] = name} /\ hits = {k}
      BY <1>5
    <2>2. hits # {} /\ (CHOOSE n \in hits : TRUE) = k
      BY <2>1
    <2>3. param(d, name) = list[CHOOSE n \in hits : TRUE][2]
      BY <1>2, <2>1, <2>2 DEF param
    <2> QED BY <2>2, <2>3, Zenon
  <1>6. /\ param(d, "m") = list[1][2] /\ param(d, "t") = list[2][2]
        /\ param(d, "p") = list[3][2]
    BY <1>4, <1>5
  <1> QED BY <1>3, <1>6, Zenon DEF CostsIn

(* Three fields after the version, of which the last two are not words. *)
LEMMA TrailingStops ==
    ASSUME NEW a, NEW b, NEW c
    PROVE  /\ c.is # "word" => Trailing(<<a, b, c>>).left = <<a, b, c>>
           /\ b.is # "word" /\ c.is = "word" => Trailing(<<a, b, c>>).left = <<a, b>>
  <1>1. PICK S, t, u : S = {a, b, c} /\ t = <<a, b>> /\ u = <<a, b, c>>
    OBVIOUS
  <1>2. /\ u \in Seq(S) /\ Len(u) = 3 /\ u[1] = a /\ u[2] = b /\ u[3] = c
    BY <1>1
  <1>3. SubSeq(u, 1, 2) = t
    <2>1. 2 \in 0 .. Len(u)
      BY <1>2
    <2>2. SubSeq(u, 1, 2) = <<u[1], u[2]>>
      BY <1>2, <2>1, SplitAt, Zenon
    <2> QED BY <1>1, <1>2, <2>2, Zenon
  <1>4. c.is # "word" => Trailing(u).left = u
    BY <1>2 DEF Trailing
  <1>5. b.is # "word" /\ c.is = "word" => Trailing(u).left = t
    BY <1>2, <1>3 DEF Trailing
  <1> QED BY <1>1, <1>4, <1>5, Zenon

(* deserialize has no use for a field that is neither a word nor pairs. *)
LEMMA Unread ==
    ASSUME NEW p, NEW x, NEW y, NEW tail, tail = Trailing(<<p, x, y>>),
           x = Other \/ (x.is = "word" /\ y = Other), y = Other \/ y.is = "word",
           NEW fields, NEW version, NEW maxf
    PROVE  Failed(Deserialized(fields, version, maxf, tail))
  <1>1. PICK left : left = tail.left
    OBVIOUS
  <1>2. Other.is = "other" /\ "other" # "word" /\ "other" # "pairs"
    BY DEF Other
  <1>3. \A a, b, c : /\ Len(<<a, b>>) = 2 /\ <<a, b>>[2] = b /\ <<a, b>> # <<>>
                     /\ Len(<<a, b, c>>) = 3 /\ <<a, b, c>>[3] = c /\ <<a, b, c>> # <<>>
    OBVIOUS
  <1>4. CASE y = Other
    <2>1. left = <<p, x, y>>
      BY <1>1, <1>2, <1>4, TrailingStops, Zenon
    <2>2. left # <<>> /\ left[Len(left)].is # "pairs"
      BY <1>2, <1>3, <1>4, <2>1, Zenon
    <2>3. ~Sound(fields, maxf, left)
      BY <2>2, Zenon DEF Sound
    <2> QED BY <1>1, <2>3 DEF Deserialized, Failed, TypeError
  <1>5. CASE y # Other
    <2>1. left = <<p, x>>
      BY <1>1, <1>2, <1>5, TrailingStops, Zenon
    <2>2. left # <<>> /\ left[Len(left)].is # "pairs"
      BY <1>2, <1>3, <1>5, <2>1, Zenon
    <2>3. ~Sound(fields, maxf, left)
      BY <2>2, Zenon DEF Sound
    <2> QED BY <1>1, <2>3 DEF Deserialized, Failed, TypeError
  <1> QED BY <1>4, <1>5, Zenon

LEMMA DataSeenAs ==
    ASSUME NEW field, c_field(field), field.is = "bin"
    PROVE  /\ High(field) => AsPhc(field) = Other
           /\ ~High(field) => AsPhc(field).is = "word"
  <1>1. field.high \in BOOLEAN
    BY DEF c_field
  <1>2. High(field) <=> field.high
    BY Zenon DEF High
  <1>3. PICK text : text = Text(field.content)
    OBVIOUS
  <1>4. AsPhc(field) = IF field.high THEN Other ELSE text
    BY <1>3 DEF AsPhc
  <1>5. text.is = "word"
    BY <1>3 DEF Text, B64
  <1> QED BY <1>2, <1>3, <1>4, <1>5, Zenon

(* The strings with bytes above 127. *)
LEMMA HighRefused ==
    ASSUME NEW str, NEW c, NEW type, Accepts(str, c, type), c_string(str),
           \E n \in DOMAIN str : High(str[n]), c.version \in 0 .. MaxSafe,
           NEW fields, fields = [n \in DOMAIN str |-> AsPhc(str[n])]
    PROVE  Failed(deserialize(fields))
  <1>1. PICK a, v, p, x, y, r, f1, f2, f3 :
          /\ r = Rest(str) /\ x = AsPhc(r[2]) /\ y = AsPhc(r[3])
          /\ f1 = Lit(argon2_type2string(type)) /\ f2 = Nums(<< <<"v", c.version>> >>)
          /\ f3 = CostFields(c)
          /\ a = AsPhc(f1) /\ v = AsPhc(f2) /\ p = AsPhc(f3)
    OBVIOUS
  <1>2. DOMAIN str = 1 .. Len(str)
    <2>1. str = [n \in 1 .. Len(str) |-> str[n]]
      BY DEF c_string
    <2> QED BY <2>1, Zenon
  <1>3. /\ str[1] = f1
        /\ r[2].is = "bin" /\ r[3].is = "bin" /\ c_field(r[2]) /\ c_field(r[3])
        /\ versioned(str) => /\ Len(str) = 5 /\ str[2] = f2 /\ str[3] = f3
                             /\ str[4] = r[2] /\ str[5] = r[3]
        /\ ~versioned(str) => /\ Len(str) = 4 /\ str[2] = f3
                              /\ str[3] = r[2] /\ str[4] = r[3]
    BY <1>1, Zenon DEF Accepts
  <1>4. ~High(f1) /\ ~High(f2) /\ ~High(f3)
    BY <1>1, NotSlashed, Zenon DEF CostFields
  <1>5. High(r[2]) \/ High(r[3])
    <2>1. PICK n \in 1 .. Len(str) : High(str[n])
      BY <1>2, Zenon
    <2>2. CASE versioned(str)
      <3>1. n \in 1 .. 5
        BY <1>3, <2>2, Zenon
      <3>2. n \in {1, 2, 3, 4, 5}
        BY ONLY <3>1
      <3> QED BY <1>3, <1>4, <2>1, <2>2, <3>2, Zenon
    <2>3. CASE ~versioned(str)
      <3>1. n \in 1 .. 4
        BY <1>3, <2>3, Zenon
      <3>2. n \in {1, 2, 3, 4}
        BY ONLY <3>1
      <3> QED BY <1>3, <1>4, <2>1, <2>3, <3>2, Zenon
    <2> QED BY <2>2, <2>3, Zenon
  <1>6. /\ x = Other \/ (x.is = "word" /\ y = Other)
        /\ y = Other \/ y.is = "word"
    BY <1>1, <1>3, <1>5, DataSeenAs, Zenon
  <1>7. /\ v = Pairs(<< <<"v", ToString(c.version)>> >>)
        /\ p = Pairs(CostTexts(c.m_cost, c.t_cost, c.lanes))
    BY <1>1, SeenAs, Zenon DEF CostFields
  <1>8. PICK S, t : S = {a, v, p, x, y} /\ t = <<p, x, y>>
    OBVIOUS
  <1>9. t \in Seq(S) /\ Len(t) = 3
    BY <1>8
  <1>10. CASE versioned(str)
    <2>1. fields = <<a, v, p, x, y>>
      <3>1. fields = [n \in 1 .. 5 |-> AsPhc(str[n])]
        BY <1>2, <1>3, <1>10, Zenon
      <3>2. fields = <<AsPhc(str[1]), AsPhc(str[2]), AsPhc(str[3]), AsPhc(str[4]), AsPhc(str[5])>>
        BY ONLY <3>1
      <3> QED BY <1>1, <1>3, <1>10, <3>2, Zenon
    <2>2. /\ fields \in Seq(S) /\ Len(fields) = 5 /\ fields[2] = v
          /\ fields[3] = p /\ fields[4] = x /\ fields[5] = y
      BY <1>8, <2>1
    <2>3. SubSeq(fields, 3, Len(fields)) = t
      <3>1. PICK q : q = SubSeq(fields, 3, Len(fields))
        OBVIOUS
      <3>2. 2 \in 0 .. Len(fields) /\ 2 + 1 = 3 /\ Len(fields) - 2 = 3
        BY <2>2
      <3>3. /\ q \in Seq(S) /\ Len(q) = 3
            /\ \A n \in 1 .. 3 : q[n] = fields[2 + n]
        BY <2>2, <3>1, <3>2, SplitAt
      <3>4. q[1] = p /\ q[2] = x /\ q[3] = y
        BY <2>2, <3>3
      <3> QED BY <1>8, <3>1, <3>3, <3>4, AsTuple
    <2>4. Len(fields) >= 2 /\ isVersion(fields[2])
      <3>1. ToString(c.version) \in Numerals
        BY DEF Numerals, Decimals
      <3> QED BY <1>7, <2>2, <3>1 DEF isVersion, Pairs
    <2>5. deserialize(fields)
            = Deserialized(fields, Num(parseInt(fields[2].entries[1][2])), 5, Trailing(t))
      BY <2>3, <2>4, Deserializes, Zenon
    <2> QED BY <1>6, <1>8, <2>5, Unread, Zenon
  <1>11. CASE ~versioned(str)
    <2>1. fields = <<a, p, x, y>>
      <3>1. fields = [n \in 1 .. 4 |-> AsPhc(str[n])]
        BY <1>2, <1>3, <1>11, Zenon
      <3>2. fields = <<AsPhc(str[1]), AsPhc(str[2]), AsPhc(str[3]), AsPhc(str[4])>>
        BY ONLY <3>1
      <3> QED BY <1>1, <1>3, <1>11, <3>2, Zenon
    <2>2. /\ fields \in Seq(S) /\ Len(fields) = 4
          /\ fields[2] = p /\ fields[3] = x /\ fields[4] = y
      BY <1>8, <2>1
    <2>3. SubSeq(fields, 2, Len(fields)) = t
      <3>1. PICK q : q = SubSeq(fields, 2, Len(fields))
        OBVIOUS
      <3>2. 1 \in 0 .. Len(fields) /\ 1 + 1 = 2 /\ Len(fields) - 1 = 3
        BY <2>2
      <3>3. /\ q \in Seq(S) /\ Len(q) = 3
            /\ \A n \in 1 .. 3 : q[n] = fields[1 + n]
        BY <2>2, <3>1, <3>2, SplitAt
      <3>4. q[1] = p /\ q[2] = x /\ q[3] = y
        BY <2>2, <3>3
      <3> QED BY <1>8, <3>1, <3>3, <3>4, AsTuple
    <2>4. ~isVersion(fields[2])
      <3>1. Len(CostTexts(c.m_cost, c.t_cost, c.lanes)) = 3
        BY DEF CostTexts
      <3> QED BY <1>7, <2>2, <3>1 DEF isVersion, Pairs
    <2>5. deserialize(fields) = Deserialized(fields, None, 4, Trailing(t))
      BY <2>3, <2>4, Deserializes, Zenon
    <2> QED BY <1>6, <1>8, <2>5, Unread, Zenon
  <1> QED BY <1>10, <1>11, Zenon

LEMMA BothRead ==
    ASSUME NEW str, c_string(str), NEW type,
           decode_string(str, Blank, type) = "ARGON2_OK",
           NEW c, c = DecodedContext(str, Blank),
           NEW fields, fields = [n \in DOMAIN str |-> AsPhc(str[n])],
           NEW d, d = deserialize(fields)
    PROVE  IF \E n \in DOMAIN str : High(str[n]) THEN Failed(d)
           ELSE Agrees(str, c, type, fields, d)
  <1>1. Accepts(str, c, type)
    BY Accepted, Zenon
  <1>2. PICK o : o = ObjectOf(str, c, type)
    OBVIOUS
  <1>3. IsObject(str, c, type, o)
    BY <1>1, <1>2, ObjectIs, Zenon
  <1>4. c.version \in 0 .. MaxSafe
    <2>1. decimal_u32(c.version) /\ c.version \in Nat
      BY <1>1 DEF Accepts
    <2>2. MaxSafe \in Nat
      BY PhcAssumption, Zenon
    <2>3. Word \in Nat /\ Word - 1 <= MaxSafe
      BY LimitsAssumption, SharedAssumption
    <2> QED BY ONLY <2>1, <2>2, <2>3 DEF decimal_u32
  <1>20. CASE \E n \in DOMAIN str : High(str[n])
    BY <1>1, <1>4, <1>20, HighRefused, Zenon
  <1>21. SUFFICES ASSUME \A n \in DOMAIN str : ~High(str[n])
                 PROVE  Agrees(str, c, type, fields, d)
    BY <1>20, Zenon
  <1>5. Written(o) = fields
    BY <1>1, <1>3, <1>4, <1>21, WritesTheSame, Zenon
  <1>6. serialize(o) = [fields |-> fields] /\ phc_object(o) /\ ~Ambiguous(o) /\ Normal(o) = o
    BY <1>3, <1>5, Serializes, Zenon DEF IsObject
  <1>7. ~Failed(serialize(o)) /\ serialize(o).fields = fields
    BY <1>6 DEF Failed
  <1>8. d = o
    <2>1. deserialize(serialize(o).fields) = Normal(o)
      BY <1>6, <1>7, RoundTrips, Zenon
    <2> QED BY <1>6, <1>7, <2>1, Zenon
  <1>9. ~Failed(o)
    BY <1>2 DEF ObjectOf, Failed
  <1>10. /\ param(o, "m") = Num(c.m_cost) /\ param(o, "t") = Num(c.t_cost)
         /\ param(o, "p") = Num(c.lanes)
    <2>1. o.params = Params(CostParams(c.m_cost, c.t_cost, c.lanes))
      BY <1>3, Zenon DEF IsObject
    <2>2. CostsIn(o, c.m_cost, c.t_cost, c.lanes)
      BY <2>1, CostParamsRead, Zenon
    <2> QED BY <2>2, Zenon DEF CostsIn
  <1>11. c.version = IF o.version = None THEN 16 ELSE o.version.n
    <2>1. o.version = IF versioned(str) THEN Num(c.version) ELSE None
      BY <1>3, Zenon DEF IsObject
    <2>2. Num(c.version) # None /\ Num(c.version).n = c.version
      BY DEF Num, None
    <2>3. ~versioned(str) => c.version = 16
      BY <1>1, Zenon DEF Accepts, VERSION_10
    <2> QED BY <2>1, <2>2, <2>3, Zenon
  <1>12. /\ o.id = argon2_type2string(type)
         /\ o.salt = Buf(c.salt) /\ o.hash = Buf(DecodedOut(str))
    BY <1>3, Zenon DEF IsObject
  <1> QED BY <1>7, <1>8, <1>9, <1>10, <1>11, <1>12, Zenon DEF Agrees

(* phc.ts and encoding.c, for every string made of the fields that encoding.c *)
(* knows: of what decode_string accepts, deserialize refuses the strings with *)
(* bytes above 127, and accepts the others, with the same meaning, and        *)
(* serialize writes them the same.                                            *)
THEOREM BothLanguagesAgree ==
    ASSUME input.call = "decode_string" => c_string(input.str)
    PROVE  LanguagesAgree
  <1> DEFINE str == input.str
             c == DecodedContext(str, Blank)
             fields == [n \in DOMAIN str |-> AsPhc(str[n])]
             d == deserialize(fields)
             high == \E n \in DOMAIN str : High(str[n])
  <1>1. ASSUME input.call = "decode_string",
               decode_string(str, Blank, input.type) = "ARGON2_OK"
        PROVE  IF high THEN Failed(d) ELSE Agrees(str, c, input.type, fields, d)
    BY <1>1, BothRead, Zenon
  <1>2. CASE high
    BY <1>1, <1>2, Zenon DEF LanguagesAgree
  <1>3. CASE ~high
    BY <1>1, <1>3, Zenon DEF LanguagesAgree, Agrees
  <1> QED BY <1>2, <1>3, Zenon

(* phc.ts and encoding.c, on the inputs of the specification, which are of    *)
(* the kinds that the four theorems are about: objects come back, unless they *)
(* are ambiguous, no field of a string is dropped or taken for another, and   *)
(* the two languages read the same from the strings both accept.              *)
THEOREM TextIsFaithful ==
    Spec => [](RoundTrip /\ ParsesFaithfully /\ DecodesFaithfully /\ LanguagesAgree)
  <1> DEFINE Kinds == /\ input.call = "serialize" => phc_object(input.object)
                      /\ input.call = "deserialize" => phc_string(input.fields)
                      /\ input.call = "decode_string" => c_string(input.str)
  <1>1. Init => Kinds
    <2>1. ASSUME input = NoInput PROVE Kinds
      BY <2>1 DEF NoInput
    <2>2. ASSUME input \in Inputs PROVE Kinds
      BY <2>2, InputsAssumption, Zenon
    <2> QED BY <2>1, <2>2, Zenon DEF Init
  <1>2. Kinds /\ [Next]_<<input, codecVars>> => Kinds'
    <2>1. [Next]_<<input, codecVars>> => input' = input
      BY DEF Next
    <2> QED BY <2>1, Zenon
  <1>3. Kinds => RoundTrip /\ ParsesFaithfully /\ DecodesFaithfully /\ LanguagesAgree
    BY ObjectsRoundTrip, StringsParseFaithfully, CStringsDecodeFaithfully,
       BothLanguagesAgree, Zenon
  <1> HIDE DEF Kinds
  <1> QED BY <1>1, <1>2, <1>3, PTL DEF Spec

-----------------------------------------------------------------------------
(* decode_decimal. *)

LEMMA DecimalValuesDef ==
    ASSUME NEW p, Len(p) \in Nat
    PROVE  /\ DecimalValues(p)[0] = 0
           /\ \A n \in 1 .. Len(p) :
                DecimalValues(p)[n] = 10 * DecimalValues(p)[n - 1] + p[n] - 48
  <1> DEFINE N == Len(p)
             Step(g, k) == IF k = 0 THEN 0 ELSE 10 * g[k - 1] + p[k] - 48
             UpTo(g, n) == \A k \in 0 .. n : g[k] = Step(g, k)
             S == {n \in Nat : ~\E g : UpTo(g, n)}
  <1> HIDE DEF N
  <1>1. S = {}
    <2>1. SUFFICES ASSUME S # {} PROVE FALSE
      OBVIOUS
    <2> HIDE DEF S
    <2>2. PICK m \in S : \A k \in S : m <= k
      BY <2>1, LeastNatural DEF S
    <2>3. m \in Nat /\ ~\E g : UpTo(g, m)
      BY DEF S
    <2>4. CASE m = 0
      <3>1. UpTo([k \in 0 .. 0 |-> 0], 0)
        OBVIOUS
      <3> HIDE DEF UpTo
      <3> QED BY <2>3, <2>4, <3>1
    <2>5. CASE m # 0
      <3>1. m - 1 \in Nat /\ ~(m <= m - 1)
        BY <2>3, <2>5
      <3>2. m - 1 \notin S
        BY <2>2, <3>1
      <3>3. PICK g : UpTo(g, m - 1)
        BY <3>1, <3>2 DEF S
      <3> DEFINE h == [k \in 0 .. m |-> IF k < m THEN g[k] ELSE 10 * g[m - 1] + p[m] - 48]
      <3>4. ASSUME NEW k \in 0 .. m PROVE h[k] = Step(h, k)
        <4>1. CASE k < m
          BY <2>3, <3>3, <4>1
        <4>2. CASE k = m
          BY <2>3, <2>5, <4>2
        <4> QED BY <2>3, <4>1, <4>2
      <3>5. UpTo(h, m)
        BY <3>4
      <3> HIDE DEF UpTo, h
      <3> QED BY <2>3, <3>5
    <2> QED BY <2>4, <2>5
  <1>2. PICK g : UpTo(g, N)
    BY <1>1 DEF N
  <1> DEFINE f == [n \in 0 .. N |-> g[n]]
  <1>3. f = [n \in 0 .. N |-> IF n = 0 THEN 0 ELSE 10 * f[n - 1] + p[n] - 48]
    BY <1>2 DEF N
  <1> HIDE DEF f
  <1>4. PICK s : s = DecimalValues(p)
    OBVIOUS
  <1>5. s = [n \in 0 .. N |-> IF n = 0 THEN 0 ELSE 10 * s[n - 1] + p[n] - 48]
    BY <1>3, <1>4, Zenon DEF DecimalValues, N
  <1>6. s[0] = 0 /\ \A n \in 1 .. N : s[n] = 10 * s[n - 1] + p[n] - 48
    BY <1>5 DEF N
  <1> QED BY <1>4, <1>6 DEF N

(* With every digit, the value of a text grows. *)
LEMMA ValuesGrow ==
    ASSUME NEW p, Len(p) \in Nat, \A n \in 1 .. Len(p) : p[n] \in 48 .. 57,
           NEW v, v = DecimalValues(p), NEW n \in 0 .. Len(p)
    PROVE  v[Len(p)] \in Nat /\ v[n] \in Nat /\ v[n] <= v[Len(p)]
  <1>1. PICK N : N = Len(p)
    OBVIOUS
  <1>2. /\ N \in Nat /\ v[0] = 0 /\ \A k \in 1 .. N : v[k] = 10 * v[k - 1] + p[k] - 48
        /\ \A k \in 1 .. N : p[k] \in 48 .. 57
    BY <1>1, DecimalValuesDef
  <1> DEFINE S == {k \in 0 .. N : v[k] \notin Nat}
  <1>3. \A k \in 0 .. N : v[k] \in Nat
    <2>1. SUFFICES ASSUME S # {} PROVE FALSE
      OBVIOUS
    <2>2. PICK m \in S : \A k \in S : m <= k
      <3>1. S \subseteq Nat
        BY <1>2
      <3> HIDE DEF S
      <3> QED BY <2>1, <3>1, LeastNatural
    <2>3. m \in 1 .. N /\ m - 1 \in 0 .. N /\ ~(m <= m - 1)
      BY <1>2
    <2>4. v[m - 1] \in Nat
      BY <2>2, <2>3
    <2>5. PICK a, b, c : a = v[m - 1] /\ b = p[m] /\ c = v[m]
      OBVIOUS
    <2>6. a \in Nat /\ b \in 48 .. 57 /\ c = 10 * a + b - 48
      BY <1>2, <2>3, <2>4, <2>5
    <2>7. c \in Nat
      BY ONLY <2>6
    <2> QED BY <2>5, <2>7
  <1> DEFINE T == {k \in 0 .. N : ~(v[N - k] <= v[N])}
  <1>4. \A k \in 0 .. N : v[N - k] <= v[N]
    <2>1. SUFFICES ASSUME T # {} PROVE FALSE
      OBVIOUS
    <2>2. PICK m \in T : \A k \in T : m <= k
      <3>1. T \subseteq Nat
        BY <1>2
      <3> HIDE DEF T
      <3> QED BY <2>1, <3>1, LeastNatural
    <2>3. m # 0
      BY <1>2, <1>3
    <2>4. PICK j : j = N - m + 1
      OBVIOUS
    <2>5. /\ j \in 1 .. N /\ j - 1 = N - m /\ j = N - (m - 1) /\ m - 1 \in 0 .. N
          /\ ~(m <= m - 1)
      BY <1>2, <2>3, <2>4
    <2>6. v[N - (m - 1)] <= v[N]
      BY <2>2, <2>5
    <2>7. /\ v[j] = 10 * v[j - 1] + p[j] - 48 /\ v[j] \in Nat /\ v[j - 1] \in Nat
          /\ v[N] \in Nat /\ p[j] \in 48 .. 57
      BY <1>2, <1>3, <2>5
    <2>8. v[N - m] <= v[N]
      <3>1. PICK a, b, c, e : a = v[j - 1] /\ b = p[j] /\ c = v[j] /\ e = v[N]
        OBVIOUS
      <3>2. /\ a \in Nat /\ b \in 48 .. 57 /\ c = 10 * a + b - 48 /\ e \in Nat /\ c <= e
        BY <2>5, <2>6, <2>7, <3>1
      <3>3. a <= e
        BY ONLY <3>2
      <3> QED BY <2>5, <3>1, <3>3
    <2> QED BY <2>8
  <1>5. N - n \in 0 .. N /\ N - (N - n) = n /\ N \in 0 .. N
    BY <1>1, <1>2
  <1> QED BY <1>1, <1>3, <1>4, <1>5

(* The digits that a text begins with. *)
LeadingDigits(s) ==
    SubSeq(s, 1, Max({n \in 0 .. Len(s) : \A k \in 1 .. n : isdigit(s[k])}))

DigitsOf(s, text) ==
    /\ Len(text) \in 0 .. Len(s) /\ Len(s) \in Nat
    /\ \A k \in 1 .. Len(text) : text[k] = s[k] /\ s[k] \in 48 .. 57
    /\ Len(text) < Len(s) => ~isdigit(s[Len(text) + 1])
    /\ Len(text) = 0 <=> text = <<>>

LEMMA LeadingDigitsAre ==
    ASSUME NEW s, s \in Seq(Int), NEW text, text = LeadingDigits(s)
    PROVE  DigitsOf(s, text)
  <1>1. PICK N, E : N = Len(s) /\ E = {n \in 0 .. N : \A k \in 1 .. n : isdigit(s[k])}
    OBVIOUS
  <1>2. N \in Nat /\ \A k \in 1 .. N : s[k] \in Int
    BY <1>1, LenProperties, ElementOfSeq
  <1>3. 0 \in E /\ E \subseteq 0 .. N
    BY <1>1, <1>2
  <1>4. PICK m \in E : \A n \in E : m >= n
    <2>1. PICK S : S = {N - n : n \in E}
      OBVIOUS
    <2>2. S \subseteq Nat /\ S # {}
      BY <1>2, <1>3, <2>1
    <2>3. PICK d \in S : \A x \in S : d <= x
      BY <2>2, LeastNatural
    <2>4. PICK m \in E : d = N - m
      BY <2>1
    <2>5. ASSUME NEW n \in E PROVE m >= n
      <3>1. N - m <= N - n
        BY <2>1, <2>3, <2>4
      <3> QED BY <1>2, <1>3, <3>1
    <2> QED BY <2>5
  <1>5. PICK D : D = Max(E)
    OBVIOUS
  <1>6. D \in E /\ \A n \in E : D >= n
    BY <1>4, <1>5, Zenon DEF Max
  <1>7. D \in 0 .. N /\ \A k \in 1 .. D : isdigit(s[k])
    BY <1>1, <1>6
  <1>8. text = SubSeq(s, 1, D)
    BY <1>1, <1>5, Zenon DEF LeadingDigits
  <1>9. text \in Seq(Int) /\ Len(text) = D /\ \A k \in 1 .. D : text[k] = s[k]
    BY <1>1, <1>2, <1>7, <1>8, SubSeqProperties
  <1>10. ASSUME NEW k \in 1 .. D PROVE s[k] \in 48 .. 57
    <2>1. PICK x : x = s[k]
      OBVIOUS
    <2>2. isdigit(x) /\ x \in Int
      BY <1>2, <1>7, <2>1
    <2>3. x \in 48 .. 57
      BY ONLY <2>2 DEF isdigit
    <2> QED BY <2>1, <2>3
  <1>11. ASSUME D < N PROVE ~isdigit(s[D + 1])
    <2>1. SUFFICES ASSUME isdigit(s[D + 1]) PROVE FALSE
      OBVIOUS
    <2>2. D + 1 \in 0 .. N /\ ~(D >= D + 1)
      BY <1>2, <1>7, <1>11
    <2>3. \A k \in 1 .. D + 1 : k \in 1 .. D \/ k = D + 1
      BY <1>7
    <2>4. D + 1 \in E
      BY <1>1, <1>7, <2>1, <2>2, <2>3, Zenon
    <2> QED BY <1>6, <2>2, <2>4
  <1>12. Len(text) = 0 <=> text = <<>>
    BY <1>9, EmptySeq
  <1> QED BY <1>1, <1>2, <1>7, <1>9, <1>10, <1>11, <1>12, Zenon DEF DigitsOf

(* What a call has read is the value of the digits read, and what it returns  *)
(* is right for all digits.                                                   *)
Verdict(s, text, value, code, read, at) ==
    LET minimal == text # <<>> /\ (Len(text) > 1 => text[1] # 48)
    IN  /\ code = "ok" <=> minimal /\ value <= ULONG_MAX
        /\ code = "ok" => read = value /\ at = Len(text)

DecimalInv ==
    fn = "decode_decimal" =>
        LET text == LeadingDigits(src)
            values == DecimalValues(text)
        IN  /\ src \in Seq(Int) /\ pos \in 0 .. Len(text)
            /\ acc = values[pos] /\ acc \in 0 .. ULONG_MAX
            /\ ret # "none" => Verdict(src, text, values[Len(text)], ret, acc, pos)

LEMMA DecimalInvIs ==
    DecimalInv => DecimalExact
  <1>1. Leading(isdigit) = LeadingDigits(src)
    BY DEF Leading, LeadingDigits
  <1> QED BY <1>1, Zenon DEF DecimalInv, DecimalExact, Verdict

(* The arithmetic of one digit. *)
LEMMA OneDigit ==
    ASSUME NEW U \in Nat, NEW a \in 0 .. U, NEW d \in 0 .. 9
    PROVE  /\ a > U \div 10 => 10 * a + d > U
           /\ ~(a > U \div 10) => (a * 10) % (U + 1) = 10 * a /\ 10 * a <= U
           /\ 10 * a <= U /\ ~(d > U - 10 * a) =>
                (10 * a + d) % (U + 1) = 10 * a + d /\ 10 * a + d <= U
  <1>1. a > U \div 10 => 10 * a + d > U
    OBVIOUS
  <1>2. ~(a > U \div 10) => 10 * a <= U
    OBVIOUS
  <1>3. \A x \in 0 .. U : x % (U + 1) = x
    OBVIOUS
  <1>4. 10 * a <= U => 10 * a \in 0 .. U /\ a * 10 = 10 * a
    OBVIOUS
  <1>5. 10 * a <= U /\ ~(d > U - 10 * a) => 10 * a + d \in 0 .. U
    OBVIOUS
  <1> QED BY <1>1, <1>2, <1>3, <1>4, <1>5

LEMMA PutDigitKeeps ==
    ASSUME DecimalInv, PutDigit
    PROVE  DecimalInv'
  <1>1. /\ fn = "decode_decimal" /\ ret = "none" /\ isdigit(char)
        /\ fn' = fn /\ src' = src
    BY DEF PutDigit, Running, Returned, GoOn
  <1>2. PICK text, v, N, D, U :
          /\ text = LeadingDigits(src) /\ v = DecimalValues(text)
          /\ N = Len(src) /\ D = Len(text) /\ U = ULONG_MAX
    OBVIOUS
  <1>3. /\ src \in Seq(Int) /\ pos \in 0 .. D /\ acc = v[pos] /\ acc \in 0 .. U
        /\ U \in Nat
    BY <1>1, <1>2, CodecAssumption, Zenon DEF DecimalInv
  <1>4. DigitsOf(src, text)
    BY <1>2, <1>3, LeadingDigitsAre, Zenon
  <1>5. /\ D \in 0 .. N /\ N \in Nat /\ (D < N => ~isdigit(src[D + 1]))
        /\ \A k \in 1 .. D : text[k] = src[k] /\ src[k] \in 48 .. 57
    BY <1>2, <1>4, Zenon DEF DigitsOf
  <1>6. pos < N /\ char = src[pos + 1]
    <2>1. pos < N \/ char = 0
      BY <1>2 DEF char
    <2>2. ~isdigit(0)
      BY DEF isdigit
    <2>3. pos < N
      BY <1>1, <2>1, <2>2
    <2> QED BY <1>2, <2>3, Zenon DEF char
  <1>7. pos + 1 \in 1 .. D
    <2>1. pos # D
      BY <1>1, <1>5, <1>6
    <2> QED BY ONLY <1>3, <1>5, <2>1
  <1>8. PICK d : d = char - 48
    OBVIOUS
  <1>9. text[pos + 1] = char /\ char \in 48 .. 57
    BY <1>5, <1>6, <1>7, Zenon
  <1>10. d \in 0 .. 9
    BY ONLY <1>8, <1>9
  <1>11. v[pos + 1] = 10 * acc + d
    <2>1. \A n \in 1 .. D : v[n] = 10 * v[n - 1] + text[n] - 48
      BY <1>2, <1>5, DecimalValuesDef
    <2>2. (pos + 1) - 1 = pos
      BY ONLY <1>3, <1>5
    <2>3. v[pos + 1] = 10 * acc + char - 48
      BY <1>3, <1>7, <1>9, <2>1, <2>2
    <2>4. PICK x, y : x = v[pos + 1] /\ y = 10 * acc
      OBVIOUS
    <2>5. acc \in Int /\ char \in Int
      BY ONLY <1>3, <1>9
    <2> QED BY ONLY <2>3, <2>5, <1>8
  <1>12. v[pos + 1] \in Nat /\ v[D] \in Nat /\ v[pos + 1] <= v[D]
    <2>1. \A n \in 1 .. Len(text) : text[n] \in 48 .. 57
      BY <1>2, <1>5
    <2>2. pos + 1 \in 0 .. Len(text) /\ Len(text) \in Nat
      BY <1>2, <1>5, <1>7
    <2> QED BY <1>2, <2>1, <2>2, ValuesGrow, Zenon
  <1>13. /\ acc > U \div 10 => 10 * acc + d > U
         /\ ~(acc > U \div 10) => (acc * 10) % (U + 1) = 10 * acc /\ 10 * acc <= U
         /\ 10 * acc <= U /\ ~(d > U - 10 * acc) =>
              (10 * acc + d) % (U + 1) = 10 * acc + d /\ 10 * acc + d <= U
    BY <1>3, <1>10, OneDigit
  <1>14. CASE too_large(char)
    <2>1. 10 * acc + d > U
      <3>1. acc > U \div 10 \/ d > U - ((acc * 10) % (U + 1))
        BY <1>2, <1>8, <1>14, Zenon DEF too_large, ulong
      <3>2. CASE acc > U \div 10
        BY <1>13, <3>2
      <3>3. CASE ~(acc > U \div 10)
        <4>1. d > U - 10 * acc
          BY <1>13, <3>1, <3>3, Zenon
        <4> QED BY ONLY <4>1, <1>3, <1>10
      <3> QED BY <3>2, <3>3
    <2>2. v[D] > U
      <3>1. PICK x, y : x = v[pos + 1] /\ y = v[D]
        OBVIOUS
      <3>2. x > U /\ x \in Nat /\ y \in Nat /\ x <= y
        BY <1>11, <1>12, <2>1, <3>1
      <3>3. y > U
        BY ONLY <1>3, <3>2
      <3> QED BY <3>1, <3>3
    <2>3. ret' = "NULL" /\ pos' = pos /\ acc' = acc
      BY <1>14 DEF PutDigit, Returned
    <2>4. Verdict(src, text, v[D], "NULL", acc, pos)
      <3>1. ~(v[D] <= U)
        BY <1>3, <1>12, <2>2
      <3> QED BY <1>2, <3>1 DEF Verdict
    <2> QED BY <1>1, <1>2, <1>3, <2>3, <2>4, Zenon DEF DecimalInv
  <1>15. CASE ~too_large(char)
    <2>1. ~(acc > U \div 10) /\ ~(d > U - ((acc * 10) % (U + 1)))
      BY <1>2, <1>8, <1>15, Zenon DEF too_large, ulong
    <2>2. (10 * acc + d) % (U + 1) = 10 * acc + d /\ 10 * acc + d <= U
      <3>1. 10 * acc <= U /\ ~(d > U - 10 * acc)
        BY <1>13, <2>1, Zenon
      <3> QED BY <1>13, <3>1, Zenon
    <2>3. acc' = ulong(ulong(acc * 10) + char - 48) /\ pos' = pos + 1 /\ ret' = ret
      BY <1>15 DEF PutDigit, GoOn
    <2>4. acc' = 10 * acc + d
      <3>1. acc' = (((acc * 10) % (U + 1)) + char - 48) % (U + 1)
        BY <1>2, <2>3 DEF ulong
      <3>2. acc' = (10 * acc + char - 48) % (U + 1)
        BY <1>13, <2>1, <3>1
      <3>3. 10 * acc + char - 48 = 10 * acc + d
        BY ONLY <1>3, <1>8, <1>9
      <3> QED BY <2>2, <3>2, <3>3
    <2>5. acc' \in 0 .. U /\ acc' = v[pos']
      <3>1. 10 * acc + d \in 0 .. U
        <4>1. acc \in 0 .. U /\ U \in Nat /\ 10 * acc + d <= U
          BY <1>3, <2>2, Zenon
        <4> QED BY ONLY <4>1, <1>10
      <3> QED BY <1>11, <2>3, <2>4, <3>1, Zenon
    <2>6. pos' \in 0 .. D
      BY <1>5, <1>7, <2>3
    <2>7. ret' = "none"
      BY <1>1, <2>3
    <2> QED BY <1>1, <1>2, <1>3, <2>5, <2>6, <2>7, Zenon DEF DecimalInv
  <1> QED BY <1>14, <1>15, Zenon

LEMMA StopDigitKeeps ==
    ASSUME DecimalInv, StopDigit
    PROVE  DecimalInv'
  <1>1. /\ fn = "decode_decimal" /\ ret = "none" /\ ~isdigit(char)
        /\ fn' = fn /\ src' = src /\ pos' = pos /\ acc' = acc
        /\ ret' = IF pos = 0 \/ (src[1] = 48 /\ pos # 1) THEN "NULL" ELSE "ok"
    BY DEF StopDigit, Running, Returned
  <1>2. PICK text, v, N, D, U :
          /\ text = LeadingDigits(src) /\ v = DecimalValues(text)
          /\ N = Len(src) /\ D = Len(text) /\ U = ULONG_MAX
    OBVIOUS
  <1>3. /\ src \in Seq(Int) /\ pos \in 0 .. D /\ acc = v[pos] /\ acc \in 0 .. U
        /\ U \in Nat
    BY <1>1, <1>2, CodecAssumption, Zenon DEF DecimalInv
  <1>4. DigitsOf(src, text)
    BY <1>2, <1>3, LeadingDigitsAre, Zenon
  <1>5. /\ D \in 0 .. N /\ N \in Nat /\ (D = 0 <=> text = <<>>)
        /\ \A k \in 1 .. D : text[k] = src[k] /\ src[k] \in 48 .. 57
    BY <1>2, <1>4, Zenon DEF DigitsOf
  <1>6. pos = D
    <2>1. SUFFICES ASSUME pos # D PROVE FALSE
      OBVIOUS
    <2>2. pos + 1 \in 1 .. D /\ pos < N
      BY <1>3, <1>5, <2>1
    <2>3. PICK x : x = src[pos + 1]
      OBVIOUS
    <2>4. x \in 48 .. 57
      BY <1>5, <2>2, <2>3
    <2>5. isdigit(x)
      BY ONLY <2>4 DEF isdigit
    <2>6. char = x
      BY <1>2, <2>2, <2>3 DEF char
    <2> QED BY <1>1, <2>5, <2>6
  <1>7. v[D] <= U
    BY <1>3, <1>6
  <1>8. D # 0 => text[1] = src[1]
    BY <1>5
  <1>9. text # <<>> /\ (D > 1 => text[1] # 48) <=> ~(pos = 0 \/ (src[1] = 48 /\ pos # 1))
    BY <1>3, <1>5, <1>6, <1>8
  <1>10. Verdict(src, text, v[D], ret', acc, pos)
    <2>1. ret' = "ok" <=> ~(pos = 0 \/ (src[1] = 48 /\ pos # 1))
      BY <1>1
    <2> QED BY <1>2, <1>3, <1>6, <1>7, <1>9, <2>1 DEF Verdict
  <1> QED BY <1>1, <1>2, <1>3, <1>10, Zenon DEF DecimalInv

(* encoding.c, decode_decimal on any text and for any size of unsigned long:  *)
(* the value is that of the digits, its computation never wraps, and exactly  *)
(* the texts that are not minimal decimals of an unsigned long are refused.   *)
THEOREM DecimalsExact == Spec => []DecimalExact
  <1>1. Init => DecimalInv
    <2> SUFFICES ASSUME Init, fn = "decode_decimal" PROVE DecimalInv
      BY Zenon DEF DecimalInv
    <2>1. CodecInit
      BY DEF Init
    <2>2. /\ pos = 0 /\ acc = 0 /\ ret = "none"
      BY <2>1 DEF CodecInit, CodecStart
    <2>3. src \in Seq(Int)
      BY <2>1, CodecAssumption, Zenon DEF CodecInit
    <2>4. PICK text, v : text = LeadingDigits(src) /\ v = DecimalValues(text)
      OBVIOUS
    <2>5. DigitsOf(src, text)
      BY <2>3, <2>4, LeadingDigitsAre, Zenon
    <2>6. Len(text) \in Nat
      BY <2>5 DEF DigitsOf
    <2>7. v[0] = 0
      BY <2>4, <2>6, DecimalValuesDef
    <2>8. 0 \in 0 .. Len(text) /\ 0 \in 0 .. ULONG_MAX
      BY <2>6, CodecAssumption
    <2> QED BY <2>2, <2>3, <2>4, <2>7, <2>8, Zenon DEF DecimalInv
  <1>2. DecimalInv /\ [Next]_<<input, codecVars>> => DecimalInv'
    <2> SUFFICES ASSUME DecimalInv, [Next]_<<input, codecVars>> PROVE DecimalInv'
      OBVIOUS
    <2>1. CASE UNCHANGED <<input, codecVars>>
      <3>1. fn' = fn /\ src' = src /\ pos' = pos /\ acc' = acc /\ ret' = ret
        BY <2>1 DEF codecVars
      <3> QED BY <3>1, Zenon DEF DecimalInv
    <2>2. CASE Next
      <3>1. CodecNext
        BY <2>2 DEF Next
      <3>2. CASE PutDigit
        BY <3>2, PutDigitKeeps
      <3>3. CASE StopDigit
        BY <3>3, StopDigitKeeps
      <3>4. CASE Refuse \/ PutByte \/ TakeChar \/ TakeRest
        <4>1. fn = "to_base64" /\ fn' = fn
          BY <3>4 DEF Refuse, PutByte, TakeChar, TakeRest, Running, Returned, GoOn
        <4> QED BY <4>1 DEF DecimalInv
      <3>5. CASE PutChar \/ StopChar
        <4>1. fn = "from_base64" /\ fn' = fn
          BY <3>5, Zenon DEF PutChar, StopChar, Running, Returned, GoOn
        <4> QED BY <4>1 DEF DecimalInv
      <3> QED BY <3>1, <3>2, <3>3, <3>4, <3>5 DEF CodecNext
    <2> QED BY <2>1, <2>2
  <1> QED BY <1>1, <1>2, DecimalInvIs, PTL DEF Spec

-----------------------------------------------------------------------------
(* The room that to_base64 and from_base64 write to. *)

(* encoding.c: to_base64 is refused exactly without room for the text and the *)
(* terminating zero, never writes past that room, and writes as many          *)
(* characters as it has computed; from_base64 never writes past dst_len.      *)
StaysInside ==
    /\ fn = "to_base64" =>
         /\ Len(dst) < dst_len \/ dst = <<>>
         /\ ret = "ok" => Len(dst) = olen(Len(src))
         /\ ret = "NULL" <=> ret # "none" /\ dst_len <= olen(Len(src))
    /\ fn = "from_base64" => Len(dst) <= dst_len

(* The characters of len bytes. *)
LEMMA OlenRange ==
    ASSUME NEW len \in Nat
    PROVE  olen(len) \in Nat /\ 8 * len <= 6 * olen(len) /\ 6 * olen(len) <= 8 * len + 5
  <1>1. PICK q, r : q = len \div 3 /\ r = len % 3
    OBVIOUS
  <1>2. q \in Nat /\ r \in {0, 1, 2} /\ len = 3 * q + r
    <2>1. q \in Nat /\ r \in 0 .. 2 /\ len = 3 * q + r
      BY ONLY <1>1, len \in Nat
    <2> QED BY ONLY <2>1
  <1>3. PICK o : o = olen(len)
    OBVIOUS
  <1>4. \/ r = 0 /\ o = 4 * q
        \/ r = 1 /\ o = 4 * q + 2
        \/ r = 2 /\ o = 4 * q + 3
    <2>1. CASE r = 0
      <3>1. o = 4 * q + 0
        BY <1>1, <1>3, <2>1 DEF olen
      <3> QED BY <1>2, <2>1, <3>1
    <2>2. CASE r = 1
      BY <1>1, <1>3, <2>2 DEF olen
    <2>3. CASE r = 2
      BY <1>1, <1>3, <2>3 DEF olen
    <2> QED BY <1>2, <2>1, <2>2, <2>3
  <1>5. o \in Nat /\ 8 * len <= 6 * o /\ 6 * o <= 8 * len + 5
    BY ONLY <1>2, <1>4
  <1> QED BY <1>3, <1>5

(* A sequence of whatever, and one element more. *)
IsList(s) == Len(s) \in Nat /\ s = [n \in 1 .. Len(s) |-> s[n]]

LEMMA AppendList ==
    ASSUME NEW s, IsList(s), NEW x, NEW u, u = Append(s, x)
    PROVE  IsList(u) /\ Len(u) = Len(s) + 1
  <1>1. PICK N, S : N = Len(s) /\ S = {s[n] : n \in 1 .. N} \cup {x}
    OBVIOUS
  <1>2. N \in Nat /\ s = [n \in 1 .. N |-> s[n]]
    BY <1>1 DEF IsList
  <1>3. s \in Seq(S) /\ x \in S
    <2>1. \A n \in 1 .. N : s[n] \in S
      BY <1>1
    <2>2. s \in [1 .. N -> S]
      BY <1>2, <2>1, Zenon
    <2> QED BY <1>1, <1>2, <2>2, SeqDef
  <1>4. u \in Seq(S) /\ Len(u) = Len(s) + 1
    BY <1>3, AppendProperties
  <1>5. Len(u) \in Nat /\ u \in [1 .. Len(u) -> S]
    BY <1>4, LenProperties
  <1>6. u = [n \in 1 .. Len(u) |-> u[n]]
    BY <1>5, Zenon
  <1> QED BY <1>4, <1>5, <1>6, Zenon DEF IsList

(* As long as to_base64 runs, the bits read are in the text or pending. *)
ToInv ==
    fn = "to_base64" =>
        LET len == Len(src)
        IN  /\ len \in Nat /\ dst_len \in Nat /\ IsList(dst)
            /\ pos \in 0 .. len /\ acc_len \in 0 .. 13
            /\ ret = "none" => /\ 6 * Len(dst) + acc_len = 8 * pos
                               /\ pos > 0 => dst_len > olen(len)
            /\ ret # "none" => /\ ret \in {"ok", "NULL"}
                               /\ ret = "ok" => /\ dst_len > olen(len)
                                                /\ Len(dst) = olen(len)
                               /\ ret = "NULL" => dst_len <= olen(len) /\ Len(dst) = 0

FromInv ==
    fn = "from_base64" => dst_len \in Nat /\ IsList(dst) /\ Len(dst) <= dst_len

LEMMA EmptyList ==
    /\ IsList(<<>>) /\ Len(<<>>) = 0
    /\ \A s : IsList(s) /\ Len(s) = 0 => s = <<>>
  <1>1. ASSUME NEW s, IsList(s), Len(s) = 0 PROVE s = <<>>
    <2>1. s = [n \in 1 .. 0 |-> s[n]]
      BY <1>1 DEF IsList
    <2>2. s \in Seq({})
      BY <2>1
    <2> QED BY <1>1, <2>2, EmptySeq
  <1>2. IsList(<<>>) /\ Len(<<>>) = 0
    BY DEF IsList
  <1> QED BY <1>1, <1>2, Zenon

LEMMA InsideIs ==
    ToInv /\ FromInv => StaysInside
  <1> SUFFICES ASSUME ToInv, FromInv PROVE StaysInside
    OBVIOUS
  <1>1. ASSUME fn = "to_base64"
        PROVE  /\ Len(dst) < dst_len \/ dst = <<>>
               /\ ret = "ok" => Len(dst) = olen(Len(src))
               /\ ret = "NULL" <=> ret # "none" /\ dst_len <= olen(Len(src))
    <2>1. PICK len, n, o : len = Len(src) /\ n = Len(dst) /\ o = olen(len)
      OBVIOUS
    <2>2. /\ len \in Nat /\ dst_len \in Nat /\ IsList(dst)
          /\ pos \in 0 .. len /\ acc_len \in 0 .. 13
          /\ ret = "none" => 6 * n + acc_len = 8 * pos /\ (pos > 0 => dst_len > o)
          /\ ret # "none" => /\ ret \in {"ok", "NULL"}
                             /\ ret = "ok" => dst_len > o /\ n = o
                             /\ ret = "NULL" => dst_len <= o /\ n = 0
      BY <1>1, <2>1, Zenon DEF ToInv
    <2>3. n \in Nat /\ (n = 0 => dst = <<>>)
      BY <2>1, <2>2, EmptyList DEF IsList
    <2>4. o \in Nat /\ 8 * len <= 6 * o
      BY <2>1, <2>2, OlenRange
    <2>5. n < dst_len \/ n = 0
      <3>1. CASE ret = "none"
        <4>1. /\ 6 * n + acc_len = 8 * pos /\ (pos > 0 => dst_len > o)
          BY <2>2, <3>1
        <4> QED BY ONLY <2>2, <2>3, <2>4, <4>1
      <3>2. CASE ret # "none"
        BY <2>2, <2>4, <3>2
      <3> QED BY <3>1, <3>2
    <2>6. ret = "NULL" <=> ret # "none" /\ dst_len <= o
      BY <2>2, <2>4
    <2> QED BY <2>1, <2>2, <2>3, <2>5, <2>6
  <1>2. fn = "from_base64" => Len(dst) <= dst_len
    BY Zenon DEF FromInv
  <1> QED BY <1>1, <1>2, Zenon DEF StaysInside

LEMMA ToKeeps ==
    ASSUME ToInv, Refuse \/ PutByte \/ TakeChar \/ TakeRest
    PROVE  ToInv'
  <1>1. fn = "to_base64" /\ ret = "none" /\ fn' = fn /\ src' = src /\ dst_len' = dst_len
    BY DEF Refuse, PutByte, TakeChar, TakeRest, Running, Returned, GoOn
  <1>2. PICK len, n, o : len = Len(src) /\ n = Len(dst) /\ o = olen(len)
    OBVIOUS
  <1>3. /\ len \in Nat /\ dst_len \in Nat /\ IsList(dst)
        /\ pos \in 0 .. len /\ acc_len \in 0 .. 13
        /\ 6 * n + acc_len = 8 * pos /\ (pos > 0 => dst_len > o)
    BY <1>1, <1>2, Zenon DEF ToInv
  <1>4. n \in Nat
    BY <1>2, <1>3 DEF IsList
  <1>5. o \in Nat /\ 8 * len <= 6 * o /\ 6 * o <= 8 * len + 5
    BY <1>2, <1>3, OlenRange
  <1>6. SUFFICES ASSUME NEW m, m = Len(dst')
                 PROVE  /\ IsList(dst') /\ pos' \in 0 .. len /\ acc_len' \in 0 .. 13
                        /\ ret' = "none" => /\ 6 * m + acc_len' = 8 * pos'
                                            /\ pos' > 0 => dst_len > o
                        /\ ret' # "none" => /\ ret' \in {"ok", "NULL"}
                                            /\ ret' = "ok" => dst_len > o /\ m = o
                                            /\ ret' = "NULL" => dst_len <= o /\ m = 0
    BY <1>1, <1>2, <1>3, Zenon DEF ToInv
  <1>7. CASE Refuse
    <2>1. /\ ret' = "NULL" /\ pos' = pos /\ dst' = dst /\ acc_len' = acc_len
          /\ pos = 0 /\ dst_len <= o
      BY <1>2, <1>7 DEF Refuse, Returned
    <2>2. m = n /\ n = 0
      <3>1. m = n
        BY <1>2, <1>6, <2>1
      <3>2. n = 0
        BY ONLY <1>3, <1>4, <2>1
      <3> QED BY <3>1, <3>2
    <2> QED BY <1>3, <2>1, <2>2
  <1>8. CASE PutByte
    <2>1. /\ ret' = "none" /\ pos' = pos + 1 /\ dst' = dst /\ acc_len' = acc_len + 8
          /\ acc_len < 6 /\ pos < len /\ dst_len > o
      BY <1>1, <1>2, <1>8 DEF PutByte, GoOn, Fits
    <2>2. m = n
      BY <1>2, <1>6, <2>1
    <2>3. PICK p, a : p = pos' /\ a = acc_len'
      OBVIOUS
    <2>4. p \in 0 .. len /\ a \in 0 .. 13 /\ 6 * n + a = 8 * p
      BY ONLY <1>3, <1>4, <2>1, <2>3
    <2> QED BY <1>3, <2>1, <2>2, <2>3, <2>4
  <1>9. CASE TakeChar
    <2>1. PICK x : dst' = Append(dst, x)
      BY <1>9 DEF TakeChar
    <2>2. /\ ret' = "none" /\ pos' = pos /\ acc_len' = acc_len - 6 /\ acc_len >= 6
          /\ dst_len > o
      BY <1>1, <1>2, <1>9 DEF TakeChar, GoOn, Fits
    <2>3. IsList(dst') /\ m = n + 1
      BY <1>2, <1>3, <1>6, <2>1, AppendList, Zenon
    <2>4. PICK a : a = acc_len'
      OBVIOUS
    <2>5. a \in 0 .. 13 /\ 6 * m + a = 8 * pos
      BY ONLY <1>3, <1>4, <2>2, <2>3, <2>4
    <2> QED BY <1>3, <2>2, <2>3, <2>4, <2>5
  <1>10. CASE TakeRest
    <2>1. /\ ret' = "ok" /\ pos' = pos /\ acc_len' = acc_len /\ acc_len < 6 /\ pos = len
          /\ dst_len > o
      BY <1>2, <1>10 DEF TakeRest, Returned, Fits
    <2>2. CASE acc_len > 0
      <3>1. PICK x : dst' = Append(dst, x)
        BY <1>10, <2>2 DEF TakeRest
      <3>2. IsList(dst') /\ m = n + 1
        BY <1>2, <1>3, <1>6, <3>1, AppendList, Zenon
      <3>3. m = o
        BY ONLY <1>3, <1>4, <1>5, <2>1, <2>2, <3>2
      <3> QED BY <1>3, <2>1, <3>2, <3>3
    <2>3. CASE ~(acc_len > 0)
      <3>1. dst' = dst
        BY <1>10, <2>3 DEF TakeRest
      <3>2. m = n
        BY <1>2, <1>6, <3>1
      <3>3. n = o
        BY ONLY <1>3, <1>4, <1>5, <2>1, <2>3
      <3> QED BY <1>3, <2>1, <3>1, <3>2, <3>3
    <2> QED BY <2>2, <2>3
  <1> QED BY <1>7, <1>8, <1>9, <1>10

LEMMA FromKeeps ==
    ASSUME FromInv, PutChar \/ StopChar
    PROVE  FromInv'
  <1>1. fn = "from_base64" /\ fn' = fn /\ dst_len' = dst_len
    BY Zenon DEF PutChar, StopChar, Running, Returned, GoOn
  <1>2. dst_len \in Nat /\ IsList(dst) /\ Len(dst) <= dst_len
    BY <1>1, Zenon DEF FromInv
  <1>3. CASE dst' = dst
    BY <1>1, <1>2, <1>3, Zenon DEF FromInv
  <1>4. CASE ~full /\ \E x : dst' = Append(dst, x)
    <2>1. PICK x : dst' = Append(dst, x)
      BY <1>4
    <2>2. PICK m, n : m = Len(dst') /\ n = Len(dst)
      OBVIOUS
    <2>3. IsList(dst') /\ m = n + 1
      BY <1>2, <2>1, <2>2, AppendList, Zenon
    <2>4. n \in Nat /\ ~(n >= dst_len)
      BY <1>2, <1>4, <2>2 DEF full, IsList
    <2>5. m <= dst_len
      BY ONLY <1>2, <2>3, <2>4
    <2> QED BY <1>1, <1>2, <2>2, <2>3, <2>5, Zenon DEF FromInv
  <1>5. dst' = dst \/ (~full /\ \E x : dst' = Append(dst, x))
    <2>1. CASE StopChar
      BY <2>1 DEF StopChar
    <2>2. CASE PutChar
      BY <2>2, Zenon DEF PutChar
    <2> QED BY <2>1, <2>2
  <1> QED BY <1>3, <1>4, <1>5

(* encoding.c, on any source and with any dst_len: neither to_base64 nor      *)
(* from_base64 writes outside of its destination, and to_base64 returns NULL  *)
(* exactly when there is not enough room.                                     *)
THEOREM Base64StaysInside == Spec => []StaysInside
  <1>1. Init => ToInv /\ FromInv
    <2> SUFFICES ASSUME Init, fn = "to_base64" \/ fn = "from_base64" PROVE ToInv /\ FromInv
      BY Zenon DEF ToInv, FromInv
    <2>1. CodecInit
      BY DEF Init
    <2>2. pos = 0 /\ dst = <<>> /\ acc_len = 0 /\ ret = "none"
      BY <2>1 DEF CodecInit, CodecStart
    <2>3. src \in Seq(Int) /\ dst_len \in Nat
      BY <2>1, CodecAssumption, Zenon DEF CodecInit
    <2>4. Len(src) \in Nat /\ IsList(dst) /\ Len(dst) = 0
      BY <2>2, <2>3, LenProperties, EmptyList
    <2>5. ToInv
      BY <2>2, <2>3, <2>4 DEF ToInv
    <2>6. FromInv
      BY <2>3, <2>4 DEF FromInv
    <2> QED BY <2>5, <2>6
  <1>2. ToInv /\ FromInv /\ [Next]_<<input, codecVars>> => ToInv' /\ FromInv'
    <2> SUFFICES ASSUME ToInv, FromInv, [Next]_<<input, codecVars>> PROVE ToInv' /\ FromInv'
      OBVIOUS
    <2>1. CASE UNCHANGED <<input, codecVars>>
      <3>1. /\ fn' = fn /\ src' = src /\ pos' = pos /\ dst' = dst
            /\ dst_len' = dst_len /\ acc_len' = acc_len /\ ret' = ret
        BY <2>1 DEF codecVars
      <3> QED BY <3>1, Zenon DEF ToInv, FromInv
    <2>2. CASE Next
      <3>1. CodecNext
        BY <2>2 DEF Next
      <3>2. CASE Refuse \/ PutByte \/ TakeChar \/ TakeRest
        <4>1. fn = "to_base64" /\ fn' = fn
          BY <3>2 DEF Refuse, PutByte, TakeChar, TakeRest, Running, Returned, GoOn
        <4>2. FromInv'
          BY <4>1 DEF FromInv
        <4> QED BY <3>2, <4>2, ToKeeps
      <3>3. CASE PutChar \/ StopChar
        <4>1. fn = "from_base64" /\ fn' = fn
          BY <3>3, Zenon DEF PutChar, StopChar, Running, Returned, GoOn
        <4>2. ToInv'
          BY <4>1 DEF ToInv
        <4> QED BY <3>3, <4>2, FromKeeps
      <3>4. CASE PutDigit \/ StopDigit
        <4>1. fn = "decode_decimal" /\ fn' = fn
          BY <3>4 DEF PutDigit, StopDigit, Running, Returned, GoOn
        <4> QED BY <4>1 DEF ToInv, FromInv
      <3> QED BY <3>1, <3>2, <3>3, <3>4 DEF CodecNext
    <2> QED BY <2>1, <2>2
  <1> QED BY <1>1, <1>2, InsideIs, PTL DEF Spec
=============================================================================
