----------------------------- MODULE ApiProofs ------------------------------
(* index.ts, for all requests, attempts, limits and numbers of calls: what    *)
(* hash writes, verify and needsRehash read back.                             *)
EXTENDS Api, SequenceTheorems, FiniteSetTheorems, TLAPS

-----------------------------------------------------------------------------
(* Decimal texts. *)
LEMMA Decimal ==
    ASSUME NEW n \in 0 .. MaxSafe
    PROVE  /\ ToString(n) \in Decimals /\ ToString(n) # ""
           /\ convert(ToString(n)) = Num(n)
  <1>1. ToString(n) \in Decimals /\ ToString(n) # ""
    BY PhcAssumption DEF Decimals
  <1>2. Value(ToString(n)) = n
    <2>1. \A k \in 0 .. MaxSafe : ToString(k) = ToString(n) => k = n
      BY PhcAssumption
    <2> QED BY <2>1 DEF Value
  <1> QED BY <1>1, <1>2 DEF convert

-----------------------------------------------------------------------------
(* The params of a digest: the costs, and the data if there is some. *)
CostTexts(o) == << ToString(o.memoryCost), ToString(o.timeCost), ToString(o.parallelism) >>

(* The entries of the field of the costs, as serialize writes them. *)
Entries(o, data) ==
    LET t == CostTexts(o)
    IN  IF data = "" THEN << <<"m", t[1]>>, <<"t", t[2]>>, <<"p", t[3]>> >>
        ELSE << <<"m", t[1]>>, <<"t", t[2]>>, <<"p", t[3]>>, <<"data", data>> >>

(* One more element at the end of a sequence. *)
LEMMA OneMore ==
    ASSUME NEW S, NEW s \in Seq(S), NEW x \in S, NEW n \in Nat, Len(s) = n
    PROVE  /\ s \o <<x>> \in Seq(S) /\ Len(s \o <<x>>) = n + 1
           /\ \A i \in 1 .. n : (s \o <<x>>)[i] = s[i]
           /\ (s \o <<x>>)[n + 1] = x
  <1>1. PICK t : t = <<x>>
    OBVIOUS
  <1>2. t \in Seq(S) /\ Len(t) = 1 /\ t[1] = x
    BY <1>1
  <1>3. /\ s \o t \in Seq(S)
        /\ Len(s \o t) = Len(s) + Len(t)
        /\ \A i \in 1 .. Len(s) + Len(t) : (s \o t)[i] =
              IF i <= Len(s) THEN s[i] ELSE t[i - Len(s)]
    BY <1>2, ConcatProperties, Zenon
  <1>4. PICK u : u = s \o t
    OBVIOUS
  <1>5. /\ Len(u) = n + 1
        /\ \A i \in 1 .. n + 1 : u[i] = IF i <= n THEN s[i] ELSE t[i - n]
    BY <1>2, <1>3, <1>4
  <1>6. (\A i \in 1 .. n : u[i] = s[i]) /\ u[n + 1] = t[1]
    BY <1>5
  <1> QED BY <1>1, <1>2, <1>3, <1>4, <1>5, <1>6

(* The same, with a name for the longer sequence. *)
Longer(S, s, x, n, u) ==
    u \in Seq(S) /\ Len(u) = n + 1 /\ (\A i \in 1 .. n : u[i] = s[i]) /\ u[n + 1] = x

LEMMA LongerByOne ==
    ASSUME NEW S, NEW s, NEW x, NEW n, NEW u,
           s \in Seq(S), x \in S, n \in Nat, Len(s) = n, u = s \o <<x>>
    PROVE  Longer(S, s, x, n, u)
  <1>1. Longer(S, s, x, n, s \o <<x>>)
    BY OneMore DEF Longer
  <1> QED BY <1>1

(* A sequence is known by its elements. *)
LEMMA Appended ==
    ASSUME NEW a, NEW b, NEW c, NEW d
    PROVE  <<a, b, c>> \o <<>> = <<a, b, c>> /\ <<a, b, c>> \o <<d>> = <<a, b, c, d>>
  <1>1. PICK s, u, S : s = <<a, b, c>> /\ u = <<a, b, c, d>> /\ S = {a, b, c, d}
    OBVIOUS
  <1>2. s \in Seq(S) /\ Len(s) = 3 /\ s[1] = a /\ s[2] = b /\ s[3] = c /\ d \in S
    BY <1>1
  <1>3. /\ u \in Seq(S) /\ Len(u) = 4 /\ u[1] = a /\ u[2] = b /\ u[3] = c /\ u[4] = d
    BY <1>1
  <1>4. s \o <<>> = s
    BY <1>2, ConcatEmptySeq
  <1>5. PICK w : w = s \o <<d>>
    OBVIOUS
  <1>6. w \in Seq(S) /\ Len(w) = 4 /\ (\A i \in 1 .. 3 : w[i] = s[i]) /\ w[4] = d
    BY <1>2, <1>5, OneMore
  <1>7. \A i \in 1 .. 4 : w[i] = u[i]
    <2>1. \A i \in 1 .. 4 : i \in {1, 2, 3, 4}
      OBVIOUS
    <2>2. 1 \in 1 .. 3 /\ 2 \in 1 .. 3 /\ 3 \in 1 .. 3
      OBVIOUS
    <2> QED BY <1>2, <1>3, <1>6, <2>1, <2>2
  <1>8. w = u
    BY <1>3, <1>6, <1>7, SeqEqual
  <1> QED BY <1>1, <1>4, <1>5, <1>8

(* Five fields, one after the other. *)
LEMMA FiveFields ==
    ASSUME NEW a, NEW b, NEW c, NEW d, NEW e
    PROVE  <<a>> \o <<b>> \o <<c>> \o <<d>> \o <<e>> = <<a, b, c, d, e>>
  <1>1. PICK s, S, z : s = <<a>> /\ z = <<a, b, c, d, e>> /\ S = {a, b, c, d, e}
    OBVIOUS
  <1>2. s \in Seq(S) /\ Len(s) = 1 /\ s[1] = a /\ b \in S /\ c \in S /\ d \in S /\ e \in S
    BY <1>1
  <1>3. /\ z \in Seq(S) /\ Len(z) = 5
        /\ z[1] = a /\ z[2] = b /\ z[3] = c /\ z[4] = d /\ z[5] = e
    BY <1>1
  <1>4. PICK t : t = s \o <<b>>
    OBVIOUS
  <1>5. t \in Seq(S) /\ Len(t) = 2 /\ t[1] = a /\ t[2] = b
    BY <1>2, <1>4, OneMore
  <1>6. PICK u : u = t \o <<c>>
    OBVIOUS
  <1>7. u \in Seq(S) /\ Len(u) = 3 /\ u[1] = a /\ u[2] = b /\ u[3] = c
    <2>1. Longer(S, t, c, 2, u)
      <3>1. 2 \in Nat
        OBVIOUS
      <3> QED BY <1>2, <1>5, <1>6, <3>1, LongerByOne, Zenon
    <2>2. 1 \in 1 .. 2 /\ 2 \in 1 .. 2
      OBVIOUS
    <2> QED BY <1>2, <1>5, <1>6, <2>1, <2>2 DEF Longer
  <1>8. PICK v : v = u \o <<d>>
    OBVIOUS
  <1>9. v \in Seq(S) /\ Len(v) = 4 /\ v[1] = a /\ v[2] = b /\ v[3] = c /\ v[4] = d
    <2>1. Longer(S, u, d, 3, v)
      <3>1. 3 \in Nat
        OBVIOUS
      <3> QED BY <1>2, <1>7, <1>8, <3>1, LongerByOne, Zenon
    <2>2. 1 \in 1 .. 3 /\ 2 \in 1 .. 3 /\ 3 \in 1 .. 3
      OBVIOUS
    <2> QED BY <1>2, <1>7, <1>8, <2>1, <2>2 DEF Longer
  <1>10. PICK w : w = v \o <<e>>
    OBVIOUS
  <1>11. w \in Seq(S) /\ Len(w) = 5 /\ w[1] = a /\ w[2] = b /\ w[3] = c /\ w[4] = d /\ w[5] = e
    <2>1. Longer(S, v, e, 4, w)
      <3>1. 4 \in Nat
        OBVIOUS
      <3> QED BY <1>2, <1>9, <1>10, <3>1, LongerByOne, Zenon
    <2>2. 1 \in 1 .. 4 /\ 2 \in 1 .. 4 /\ 3 \in 1 .. 4 /\ 4 \in 1 .. 4
      OBVIOUS
    <2> QED BY <1>2, <1>9, <1>10, <2>1, <2>2 DEF Longer
  <1>12. \A i \in 1 .. 5 : w[i] = z[i]
    <2>1. \A i \in 1 .. 5 : i \in {1, 2, 3, 4, 5}
      OBVIOUS
    <2> QED BY <1>3, <1>11, <2>1
  <1>13. w = z
    BY <1>3, <1>11, <1>12, SeqEqual
  <1> QED BY <1>1, <1>4, <1>6, <1>8, <1>10, <1>13, Zenon

(* Object.keys keeps the order of params whose names are no array indices. *)
LEMMA KeyedAsAssigned ==
    ASSUME NEW list, NEW n \in Nat, DOMAIN list = 1 .. n,
           list = [k \in 1 .. n |-> list[k]],
           \A k \in 1 .. n : list[k][1] \notin Indices
    PROVE  keyed(list) = list
  <1>1. ASSUME NEW k \in 1 .. n PROVE place(list, k) = k
    <2>1. {i \in DOMAIN list : before(list, i, k)} = 1 .. k - 1
      BY DEF before
    <2>2. Cardinality(1 .. k - 1) = k - 1
      <3>1. 1 \in Int /\ k - 1 \in Int
        OBVIOUS
      <3>2. Cardinality(1 .. k - 1) = IF 1 > k - 1 THEN 0 ELSE k - 1 - 1 + 1
        BY <3>1, FS_Interval
      <3> QED BY <3>2
    <2>3. place(list, k) = Cardinality({i \in DOMAIN list : before(list, i, k)}) + 1
      BY Zenon DEF place
    <2>4. place(list, k) = (k - 1) + 1
      BY <2>1, <2>2, <2>3, Zenon
    <2> QED BY <2>4
  <1>2. ASSUME NEW p \in 1 .. n
        PROVE  (CHOOSE k \in DOMAIN list : place(list, k) = p) = p
    BY <1>1
  <1>3. keyed(list) = [p \in 1 .. n |-> list[p]]
    BY <1>2 DEF keyed
  <1> QED BY <1>3

LEMMA NamesAreNoIndices == \A name \in {"m", "t", "p", "data"} : name \notin Indices
  <1>1. \A n \in 0 .. MaxIndex : n \in 0 .. MaxSafe
    <2>1. MaxSafe \in Nat /\ MaxIndex \in 0 .. MaxSafe
      BY PhcAssumption, Zenon
    <2> QED BY <2>1
  <1>2. \A n \in 0 .. MaxSafe : ToString(n) \notin {"", "m", "t", "p", "data"}
    BY PhcAssumption, Zenon
  <1>3. \A n \in 0 .. MaxIndex : ToString(n) \notin {"m", "t", "p", "data"}
    BY <1>1, <1>2, Zenon
  <1> QED BY <1>3, Zenon DEF Indices

LEMMA ParamsWritten ==
    ASSUME NEW o, NEW data
    PROVE  ParamsField(keyed(digest_params(o, data))) = Pairs(Entries(o, data))
  <1>1. PICK m, t, p, d :
          /\ m = Num(o.memoryCost) /\ t = Num(o.timeCost) /\ p = Num(o.parallelism)
          /\ d = Buf(data)
    OBVIOUS
  <1>2. /\ toText(m) = CostTexts(o)[1] /\ toText(t) = CostTexts(o)[2]
        /\ toText(p) = CostTexts(o)[3] /\ toText(d) = data
    BY <1>1 DEF toText, Num, Buf, CostTexts
  <1>3. CASE data = ""
    <2>1. digest_params(o, data) = << <<"m", m>>, <<"t", t>>, <<"p", p>> >>
      BY <1>1, <1>3, Appended, Zenon DEF digest_params, Field
    <2>2. PICK list : list = << <<"m", m>>, <<"t", t>>, <<"p", p>> >>
      OBVIOUS
    <2>3. [n \in DOMAIN list |-> <<list[n][1], toText(list[n][2])>>]
            = << <<"m", toText(m)>>, <<"t", toText(t)>>, <<"p", toText(p)>> >>
      BY <2>2
    <2>4. list # <<>>
      BY <2>2
    <2>5. keyed(list) = list
      <3>1. /\ DOMAIN list = 1 .. 3 /\ list = [k \in 1 .. 3 |-> list[k]]
            /\ \A k \in 1 .. 3 : list[k][1] \in {"m", "t", "p"}
        BY <2>2
      <3>2. \A k \in 1 .. 3 : list[k][1] \notin Indices
        BY <3>1, NamesAreNoIndices, Zenon
      <3>3. 3 \in Nat
        OBVIOUS
      <3> QED BY <3>1, <3>2, <3>3, KeyedAsAssigned, Zenon
    <2> QED BY <1>2, <1>3, <2>1, <2>2, <2>3, <2>4, <2>5 DEF ParamsField, Entries
  <1>4. CASE data # ""
    <2>1. digest_params(o, data) = << <<"m", m>>, <<"t", t>>, <<"p", p>>, <<"data", d>> >>
      <3>1. Field(data # "", <<"data", d>>) = << <<"data", d>> >>
        BY <1>4 DEF Field
      <3>2. digest_params(o, data)
              = << <<"m", m>>, <<"t", t>>, <<"p", p>> >> \o << <<"data", d>> >>
        BY <1>1, <3>1, Zenon DEF digest_params
      <3> QED BY <3>2, Appended, Zenon
    <2>2. PICK list : list = << <<"m", m>>, <<"t", t>>, <<"p", p>>, <<"data", d>> >>
      OBVIOUS
    <2>3. [n \in DOMAIN list |-> <<list[n][1], toText(list[n][2])>>]
            = << <<"m", toText(m)>>, <<"t", toText(t)>>, <<"p", toText(p)>>,
                 <<"data", toText(d)>> >>
      BY <2>2
    <2>4. list # <<>>
      BY <2>2
    <2>5. keyed(list) = list
      <3>1. /\ DOMAIN list = 1 .. 4 /\ list = [k \in 1 .. 4 |-> list[k]]
            /\ \A k \in 1 .. 4 : list[k][1] \in {"m", "t", "p", "data"}
        BY <2>2
      <3>2. \A k \in 1 .. 4 : list[k][1] \notin Indices
        BY <3>1, NamesAreNoIndices, Zenon
      <3>3. 4 \in Nat
        OBVIOUS
      <3> QED BY <3>1, <3>2, <3>3, KeyedAsAssigned, Zenon
    <2> QED BY <1>2, <1>4, <2>1, <2>2, <2>3, <2>4, <2>5 DEF ParamsField, Entries
  <1> QED BY <1>3, <1>4

(* What hash writes when serialize accepts it, and why it does. *)
Fields(o, salt, data, tag) ==
    <<Text(names[o.type]), Pairs(<< <<"v", ToString(o.version)>> >>),
      Pairs(Entries(o, data)), Text(salt), Text(tag)>>

Accepted(o, data) ==
    /\ names[o.type] \in Names /\ {"m", "t", "p"} \subseteq Names
    /\ data # "" => "data" \in Names

LEMMA DigestWritten ==
    ASSUME NEW o, NEW salt, NEW data, NEW tag, ~Failed(digest(o, salt, data, tag))
    PROVE  /\ digest(o, salt, data, tag) = [fields |-> Fields(o, salt, data, tag)]
           /\ Accepted(o, data)
  <1>1. PICK id, list, v, s, h :
          /\ id = names[o.type] /\ list = digest_params(o, data) /\ v = Num(o.version)
          /\ s = Buf(salt) /\ h = Buf(tag)
    OBVIOUS
  <1>2. PICK r : r = [id |-> id, version |-> v, params |-> Params(list), salt |-> s, hash |-> h]
    OBVIOUS
  <1>3. /\ r.id = id /\ r.version = v /\ r.params = Params(list) /\ r.salt = s /\ r.hash = h
    BY <1>2
  <1>4. digest(o, salt, data, tag) = serialize(r)
    BY <1>1, <1>2, Zenon DEF digest
  <1>5. ~Failed(serialize(r))
    BY <1>4
  <1>6. v # None /\ s # None /\ h # None /\ Params(list) # None
    BY <1>1 DEF None, Num, Buf, Params
  <1>7. Params(list).list = list
    BY DEF Params
  <1>8. PICK f1, f2, f3, f4, f5 :
          /\ f1 = Text(id) /\ f2 = Pairs(<< <<"v", toText(v)>> >>) /\ f3 = ParamsField(keyed(list))
          /\ f4 = Text(s.text) /\ f5 = Text(h.text)
    OBVIOUS
  <1>9. /\ Field(v # None, f2) = <<f2>> /\ Field(Params(list) # None, f3) = <<f3>>
        /\ Field(s # None, f4) = <<f4>> /\ Field(h # None, f5) = <<f5>>
    BY <1>6, Zenon DEF Field
  <1>10. toText(v) = ToString(o.version) /\ s.text = salt /\ h.text = tag
    BY <1>1 DEF toText, Num, Buf
  <1>11. /\ id \in Names /\ ~ \E n \in DOMAIN list : BadParam(list[n])
         /\ serialize(r) = [fields |-> <<f1, f2, f3, f4, f5>>]
    <2>1. Failed(TypeError)
      BY DEF Failed, TypeError
    <2>2. /\ r.id \in Names
          /\ ~ (r.params # None /\ \E n \in DOMAIN r.params.list : BadParam(r.params.list[n]))
          /\ serialize(r) = [fields |-> <<Text(r.id)>>
                \o Field(r.version # None, Pairs(<< <<"v", toText(r.version)>> >>))
                \o Field(r.params # None, ParamsField(keyed(r.params.list)))
                \o Field(r.salt # None, Text(r.salt.text))
                \o Field(r.hash # None, Text(r.hash.text))]
      <3> DEFINE refused ==
                  \/ r.id \notin Names
                  \/ r.hash # None /\ r.salt = None
                  \/ r.params # None
                     /\ \E n \in DOMAIN r.params.list : BadParam(r.params.list[n])
                 written == [fields |-> <<Text(r.id)>>
                   \o Field(r.version # None, Pairs(<< <<"v", toText(r.version)>> >>))
                   \o Field(r.params # None, ParamsField(keyed(r.params.list)))
                   \o Field(r.salt # None, Text(r.salt.text))
                   \o Field(r.hash # None, Text(r.hash.text))]
      <3>1. serialize(r) = IF refused THEN TypeError ELSE written
        BY Zenon DEF serialize
      <3>2. ~refused /\ serialize(r) = written
        <4>1. CASE refused
          <5>1. serialize(r) = TypeError
            BY <3>1, <4>1, Zenon
          <5> QED BY <1>5, <2>1, <5>1, Zenon
        <4>2. CASE ~refused
          BY <3>1, <4>2, Zenon
        <4> QED BY <4>1, <4>2, Zenon
      <3> QED BY <3>2, Zenon
    <2>3. id \in Names /\ ~ \E n \in DOMAIN list : BadParam(list[n])
      <3>1. r.params.list = list /\ r.params # None
        BY <1>3, <1>6, <1>7
      <3>2. r.id \in Names /\ ~ \E n \in DOMAIN r.params.list : BadParam(r.params.list[n])
        BY <2>2, <3>1, Zenon
      <3> QED BY <1>3, <3>1, <3>2, Zenon
    <2>4. serialize(r) = [fields |-> <<f1>> \o Field(v # None, f2)
            \o Field(Params(list) # None, f3) \o Field(s # None, f4) \o Field(h # None, f5)]
      <3>1. serialize(r) = [fields |-> <<Text(id)>>
                \o Field(v # None, Pairs(<< <<"v", toText(v)>> >>))
                \o Field(Params(list) # None, ParamsField(keyed(Params(list).list)))
                \o Field(s # None, Text(s.text))
                \o Field(h # None, Text(h.text))]
        BY <1>3, <2>2, Zenon
      <3> QED BY <1>7, <1>8, <3>1, Zenon
    <2>5. serialize(r) = [fields |-> <<f1>> \o <<f2>> \o <<f3>> \o <<f4>> \o <<f5>>]
      BY <1>9, <2>4, Zenon
    <2>6. <<f1>> \o <<f2>> \o <<f3>> \o <<f4>> \o <<f5>> = <<f1, f2, f3, f4, f5>>
      BY FiveFields, ZenonT(60)
    <2> QED BY <2>3, <2>5, <2>6, Zenon
  <1>12. ParamsField(keyed(list)) = Pairs(Entries(o, data))
    BY <1>1, ParamsWritten, Zenon
  <1>13. serialize(r) = [fields |-> Fields(o, salt, data, tag)]
    BY <1>1, <1>8, <1>10, <1>11, <1>12, Zenon DEF Fields
  <1>14. Accepted(o, data)
    <2>1. PICK m, t, p, d :
            /\ m = Num(o.memoryCost) /\ t = Num(o.timeCost) /\ p = Num(o.parallelism)
            /\ d = Buf(data)
      OBVIOUS
    <2>2. CASE data = ""
      <3>1. list = << <<"m", m>>, <<"t", t>>, <<"p", p>> >>
        BY <1>1, <2>1, <2>2, Appended, Zenon DEF digest_params, Field
      <3>2. 1 \in DOMAIN list /\ 2 \in DOMAIN list /\ 3 \in DOMAIN list
        BY <3>1
      <3>3. list[1][1] = "m" /\ list[2][1] = "t" /\ list[3][1] = "p"
        BY <3>1
      <3>4. "m" \in Names /\ "t" \in Names /\ "p" \in Names
        BY <1>11, <3>2, <3>3, Zenon DEF BadParam
      <3> QED BY <1>1, <1>11, <2>2, <3>4 DEF Accepted
    <2>3. CASE data # ""
      <3>1. Field(data # "", <<"data", d>>) = << <<"data", d>> >>
        BY <2>3 DEF Field
      <3>2. list = << <<"m", m>>, <<"t", t>>, <<"p", p>> >> \o << <<"data", d>> >>
        BY <1>1, <2>1, <3>1, Zenon DEF digest_params
      <3>3. list = << <<"m", m>>, <<"t", t>>, <<"p", p>>, <<"data", d>> >>
        BY <3>2, Appended, Zenon
      <3>4. 1 \in DOMAIN list /\ 2 \in DOMAIN list /\ 3 \in DOMAIN list /\ 4 \in DOMAIN list
        BY <3>3
      <3>5. list[1][1] = "m" /\ list[2][1] = "t" /\ list[3][1] = "p" /\ list[4][1] = "data"
        BY <3>3
      <3>6. "m" \in Names /\ "t" \in Names /\ "p" \in Names /\ "data" \in Names
        BY <1>11, <3>4, <3>5, Zenon DEF BadParam
      <3> QED BY <1>1, <1>11, <3>6 DEF Accepted
    <2> QED BY <2>2, <2>3
  <1> QED BY <1>4, <1>13, <1>14

-----------------------------------------------------------------------------
(* What verify and needsRehash read back. *)

(* The params of a parsed string: the value under a name that occurs once. *)
LEMMA ParamIs ==
    ASSUME NEW d, NEW list, NEW name, NEW k \in DOMAIN list, NEW value,
           d.params = Params(list), list[k][1] = name, list[k][2] = value,
           \A n \in DOMAIN list : list[n][1] = name => n = k
    PROVE  param(d, name) = value
  <1>1. d.params # None /\ d.params.list = list
    BY DEF Params, None
  <1>2. PICK hits : hits = {n \in DOMAIN list : list[n][1] = name}
    OBVIOUS
  <1>3. hits = {k}
    BY <1>2
  <1>4. param(d, name) = list[CHOOSE n \in hits : TRUE][2]
    BY <1>1, <1>2, <1>3 DEF param
  <1>5. (CHOOSE n \in hits : TRUE) = k
    BY <1>3
  <1> QED BY <1>4, <1>5

LEMMA ParamIsNone ==
    ASSUME NEW d, NEW list, NEW name, d.params = Params(list),
           \A n \in DOMAIN list : list[n][1] # name
    PROVE  param(d, name) = None
  <1>1. d.params # None /\ d.params.list = list
    BY DEF Params, None
  <1> QED BY <1>1 DEF param

(* Costs that hash may have been asked for: they are safe integers. *)
Priced(o) ==
    /\ o.memoryCost \in 0 .. MaxSafe /\ o.timeCost \in 0 .. MaxSafe
    /\ o.parallelism \in 0 .. MaxSafe /\ o.version \in {16, 19}

(* The entries are distinct, well named and not empty. *)
LEMMA EntriesGood ==
    ASSUME NEW o, NEW data, Priced(o), Accepted(o, data)
    PROVE  ~BadEntries(Entries(o, data)) /\ Len(Entries(o, data)) \in {3, 4}
  <1>1. PICK m, t, p : /\ m = ToString(o.memoryCost) /\ t = ToString(o.timeCost)
                       /\ p = ToString(o.parallelism)
    OBVIOUS
  <1>2. m # "" /\ t # "" /\ p # ""
    BY <1>1, Decimal DEF Priced
  <1>3. CostTexts(o)[1] = m /\ CostTexts(o)[2] = t /\ CostTexts(o)[3] = p
    BY <1>1 DEF CostTexts
  <1>4. {"m", "t", "p"} \subseteq Names \ Inherited /\ (data # "" => "data" \in Names \ Inherited)
    BY DEF Accepted, Inherited
  <1>5. PICK e : e = Entries(o, data)
    OBVIOUS
  <1>6. CASE data = ""
    <2>1. e = << <<"m", m>>, <<"t", t>>, <<"p", p>> >>
      BY <1>3, <1>5, <1>6 DEF Entries
    <2>2. /\ DOMAIN e = {1, 2, 3} /\ Len(e) = 3
          /\ e[1][1] = "m" /\ e[2][1] = "t" /\ e[3][1] = "p"
          /\ e[1][2] = m /\ e[2][2] = t /\ e[3][2] = p
      BY <2>1
    <2>3. ~BadEntries(e)
      BY <1>2, <1>4, <2>2 DEF BadEntries
    <2> QED BY <1>5, <2>2, <2>3
  <1>7. CASE data # ""
    <2>1. e = << <<"m", m>>, <<"t", t>>, <<"p", p>>, <<"data", data>> >>
      BY <1>3, <1>5, <1>7 DEF Entries
    <2>2. /\ DOMAIN e = {1, 2, 3, 4} /\ Len(e) = 4
          /\ e[1][1] = "m" /\ e[2][1] = "t" /\ e[3][1] = "p" /\ e[4][1] = "data"
          /\ e[1][2] = m /\ e[2][2] = t /\ e[3][2] = p /\ e[4][2] = data
      BY <2>1
    <2>3. ~BadEntries(e)
      BY <1>2, <1>4, <1>7, <2>2 DEF BadEntries
    <2> QED BY <1>5, <2>2, <2>3
  <1> QED BY <1>6, <1>7

(* The params of a parsed digest, and what verify makes of them. *)
Converted(entries) == [n \in DOMAIN entries |-> <<entries[n][1], convert(entries[n][2])>>]

CostsRead(d, o, data) ==
    /\ number(param(d, "m")) = o.memoryCost /\ number(param(d, "t")) = o.timeCost
    /\ number(param(d, "p")) = o.parallelism
    /\ data \notin Decimals => data_of(param(d, "data")) = data

LEMMA ParamsRead ==
    ASSUME NEW o, NEW data, NEW d, Priced(o),
           d.params = Params(Converted(Entries(o, data)))
    PROVE  CostsRead(d, o, data)
  <1>1. PICK m, t, p : /\ m = ToString(o.memoryCost) /\ t = ToString(o.timeCost)
                       /\ p = ToString(o.parallelism)
    OBVIOUS
  <1>2. /\ convert(m) = Num(o.memoryCost) /\ convert(t) = Num(o.timeCost)
        /\ convert(p) = Num(o.parallelism)
    BY <1>1, Decimal DEF Priced
  <1>3. CostTexts(o)[1] = m /\ CostTexts(o)[2] = t /\ CostTexts(o)[3] = p
    BY <1>1 DEF CostTexts
  <1>4. PICK e, c : e = Entries(o, data) /\ c = Converted(e)
    OBVIOUS
  <1>5. d.params = Params(c)
    BY <1>4
  <1>6. ASSUME NEW n PROVE number(Num(n)) = n
    BY DEF number, Num
  <1>7. CASE data = ""
    <2>1. e = << <<"m", m>>, <<"t", t>>, <<"p", p>> >>
      BY <1>3, <1>4, <1>7 DEF Entries
    <2>2. /\ DOMAIN c = {1, 2, 3}
          /\ c[1][1] = "m" /\ c[2][1] = "t" /\ c[3][1] = "p"
          /\ c[1][2] = convert(m) /\ c[2][2] = convert(t) /\ c[3][2] = convert(p)
      BY <1>4, <2>1 DEF Converted
    <2>3. /\ param(d, "m") = convert(m) /\ param(d, "t") = convert(t)
          /\ param(d, "p") = convert(p)
      BY <1>5, <2>2, ParamIs
    <2>4. param(d, "data") = None
      BY <1>5, <2>2, ParamIsNone
    <2>5. data_of(None) = ""
      BY DEF data_of, None
    <2> QED BY <1>2, <1>6, <1>7, <2>3, <2>4, <2>5 DEF CostsRead
  <1>8. CASE data # ""
    <2>1. e = << <<"m", m>>, <<"t", t>>, <<"p", p>>, <<"data", data>> >>
      BY <1>3, <1>4, <1>8 DEF Entries
    <2>2. /\ DOMAIN c = {1, 2, 3, 4}
          /\ c[1][1] = "m" /\ c[2][1] = "t" /\ c[3][1] = "p" /\ c[4][1] = "data"
          /\ c[1][2] = convert(m) /\ c[2][2] = convert(t) /\ c[3][2] = convert(p)
          /\ c[4][2] = convert(data)
      BY <1>4, <2>1 DEF Converted
    <2>3. /\ param(d, "m") = convert(m) /\ param(d, "t") = convert(t)
          /\ param(d, "p") = convert(p) /\ param(d, "data") = convert(data)
      BY <1>5, <2>2, ParamIs
    <2>4. data \notin Decimals => data_of(convert(data)) = data
      BY DEF convert, data_of, Str
    <2> QED BY <1>2, <1>6, <2>3, <2>4 DEF CostsRead
  <1> QED BY <1>7, <1>8

(* The parts of a string's fields. *)
LEMMA LastOfFive ==
    ASSUME NEW a, NEW b, NEW c, NEW d, NEW e, NEW s, s = <<a, b, c, d, e>>
    PROVE  SubSeq(s, 3, 5) = <<c, d, e>>
  <1>1. PICK S, u : S = {c, d, e} /\ u = <<c, d, e>>
    OBVIOUS
  <1>2. /\ s[3] = c /\ s[4] = d /\ s[5] = e /\ c \in S /\ d \in S /\ e \in S
        /\ u \in Seq(S) /\ Len(u) = 3 /\ u[1] = c /\ u[2] = d /\ u[3] = e
    BY <1>1
  <1>3. \A i \in 3 .. 5 : s[i] \in S
    <2>1. \A i \in 3 .. 5 : i \in {3, 4, 5}
      OBVIOUS
    <2> QED BY <1>2, <2>1
  <1>4. PICK w : w = SubSeq(s, 3, 5)
    OBVIOUS
  <1>5. w \in Seq(S) /\ Len(w) = 3 /\ \A i \in 1 .. 3 : w[i] = s[3 + i - 1]
    BY <1>3, <1>4, SubSeqProperties
  <1>6. \A i \in 1 .. 3 : w[i] = u[i]
    <2>1. w[1] = s[3] /\ w[2] = s[4] /\ w[3] = s[5]
      BY <1>5
    <2>2. \A i \in 1 .. 3 : i \in {1, 2, 3}
      OBVIOUS
    <2> QED BY <1>2, <2>1, <2>2
  <1>7. w = u
    BY <1>2, <1>5, <1>6, SeqEqual
  <1> QED BY <1>1, <1>4, <1>7

LEMMA LastOfFour ==
    ASSUME NEW b, NEW c, NEW d, NEW e, NEW s, s = <<b, c, d, e>>
    PROVE  SubSeq(s, 2, 4) = <<c, d, e>>
  <1>1. PICK S, u : S = {c, d, e} /\ u = <<c, d, e>>
    OBVIOUS
  <1>2. /\ s[2] = c /\ s[3] = d /\ s[4] = e /\ c \in S /\ d \in S /\ e \in S
        /\ u \in Seq(S) /\ Len(u) = 3 /\ u[1] = c /\ u[2] = d /\ u[3] = e
    BY <1>1
  <1>3. \A i \in 2 .. 4 : s[i] \in S
    <2>1. \A i \in 2 .. 4 : i \in {2, 3, 4}
      OBVIOUS
    <2> QED BY <1>2, <2>1
  <1>4. PICK w : w = SubSeq(s, 2, 4)
    OBVIOUS
  <1>5. w \in Seq(S) /\ Len(w) = 3 /\ \A i \in 1 .. 3 : w[i] = s[2 + i - 1]
    BY <1>3, <1>4, SubSeqProperties
  <1>6. \A i \in 1 .. 3 : w[i] = u[i]
    <2>1. w[1] = s[2] /\ w[2] = s[3] /\ w[3] = s[4]
      BY <1>5
    <2>2. \A i \in 1 .. 3 : i \in {1, 2, 3}
      OBVIOUS
    <2> QED BY <1>2, <2>1, <2>2
  <1>7. w = u
    BY <1>2, <1>5, <1>6, SeqEqual
  <1> QED BY <1>1, <1>4, <1>7

LEMMA FirstOfThree ==
    ASSUME NEW c, NEW d, NEW e, NEW s, s = <<c, d, e>>
    PROVE  SubSeq(s, 1, 1) = <<c>>
  <1>1. PICK S, z : S = {c} /\ z = <<c>>
    OBVIOUS
  <1>2. s[1] = c /\ c \in S /\ z \in Seq(S) /\ Len(z) = 1 /\ z[1] = c
    BY <1>1
  <1>3. \A i \in 1 .. 1 : s[i] \in S
    BY <1>2
  <1>4. PICK w : w = SubSeq(s, 1, 1)
    OBVIOUS
  <1>5. w \in Seq(S) /\ Len(w) = 1 /\ w[1] = s[1]
    BY <1>3, <1>4, SubSeqProperties
  <1>6. w = z
    BY <1>2, <1>5, SeqEqual
  <1> QED BY <1>1, <1>4, <1>6

LEMMA OneAndThree ==
    ASSUME NEW a, NEW b, NEW c, NEW d
    PROVE  <<a>> \o <<b, c, d>> = <<a, b, c, d>>
  <1>1. PICK s, t, u, S : /\ s = <<a>> /\ t = <<b, c, d>> /\ u = <<a, b, c, d>>
                          /\ S = {a, b, c, d}
    OBVIOUS
  <1>2. s \in Seq(S) /\ Len(s) = 1 /\ s[1] = a
    BY <1>1
  <1>3. t \in Seq(S) /\ Len(t) = 3 /\ t[1] = b /\ t[2] = c /\ t[3] = d
    BY <1>1
  <1>4. u \in Seq(S) /\ Len(u) = 4 /\ u[1] = a /\ u[2] = b /\ u[3] = c /\ u[4] = d
    BY <1>1
  <1>5. /\ s \o t \in Seq(S)
        /\ Len(s \o t) = Len(s) + Len(t)
        /\ \A i \in 1 .. Len(s) + Len(t) : (s \o t)[i] =
              IF i <= Len(s) THEN s[i] ELSE t[i - Len(s)]
    BY <1>2, <1>3, ConcatProperties, Zenon
  <1>6. PICK w : w = s \o t
    OBVIOUS
  <1>7. Len(w) = 4 /\ \A i \in 1 .. 4 : w[i] = IF i <= 1 THEN s[i] ELSE t[i - 1]
    BY <1>2, <1>3, <1>5, <1>6
  <1>8. \A i \in 1 .. 4 : w[i] = u[i]
    <2>1. \A i \in 1 .. 4 : i \in {1, 2, 3, 4}
      OBVIOUS
    <2>2. w[1] = s[1] /\ w[2] = t[1] /\ w[3] = t[2] /\ w[4] = t[3]
      BY <1>7
    <2> QED BY <1>2, <1>3, <1>4, <2>1, <2>2
  <1>9. w = u
    BY <1>4, <1>5, <1>6, <1>7, <1>8, SeqEqual
  <1> QED BY <1>1, <1>6, <1>9

LEMMA TrailingWords ==
    ASSUME NEW a, NEW b, NEW c, b.is = "word", c.is = "word"
    PROVE  Trailing(<<a, b, c>>)
             = [left |-> <<a>>, salt |-> Buf(b.bytes), hash |-> Buf(c.bytes)]
  <1>1. PICK s : s = <<a, b, c>>
    OBVIOUS
  <1>2. Len(s) = 3 /\ s[2] = b /\ s[3] = c
    BY <1>1
  <1>3. PICK left : left = SubSeq(s, 1, 1)
    OBVIOUS
  <1>4. left = <<a>>
    BY <1>1, <1>3, FirstOfThree
  <1>5. Trailing(s) = [left |-> SubSeq(s, 1, 1), salt |-> Buf(s[2].bytes), hash |-> Buf(s[3].bytes)]
    BY <1>2 DEF Trailing
  <1> QED BY <1>1, <1>2, <1>3, <1>4, <1>5

(* deserialize, once the version field is found or not. *)
Sound(fields, maxf, left) ==
    /\ fields # <<>> /\ ~ (Len(fields) > maxf)
    /\ fields[1].is = "word" /\ fields[1].text \in Names
    /\ left # <<>> => /\ left[Len(left)].is = "pairs"
                      /\ ~BadEntries(left[Len(left)].entries)
    /\ ~unrecognized(left)

Parsed(fields, version, left, tail) ==
    [id |-> fields[1].text, version |-> version,
     params |-> IF left = <<>> THEN None ELSE Params(Converted(left[Len(left)].entries)),
     salt |-> tail.salt, hash |-> tail.hash]

Deserialized(fields, version, maxf, tail) ==
    IF ~Sound(fields, maxf, tail.left) THEN TypeError
    ELSE Parsed(fields, version, tail.left, tail)

LEMMA Deserializes ==
    ASSUME NEW fields
    PROVE  deserialize(fields) =
             IF Len(fields) >= 2 /\ isVersion(fields[2])
             THEN Deserialized(fields, Num(parseInt(fields[2].entries[1][2])), 5,
                               Trailing(SubSeq(fields, 3, Len(fields))))
             ELSE Deserialized(fields, None, 4, Trailing(SubSeq(fields, 2, Len(fields))))
  <1>1. CASE Len(fields) >= 2 /\ isVersion(fields[2])
    BY <1>1, Zenon DEF deserialize, Deserialized, Sound, Parsed, Converted
  <1>2. CASE ~ (Len(fields) >= 2 /\ isVersion(fields[2]))
    BY <1>2, Zenon DEF deserialize, Deserialized, Sound, Parsed, Converted
  <1> QED BY <1>1, <1>2

(* deserialize reads a digest of hash, and one without its version field. *)
Readable(d, o, salt, data, tag) ==
    /\ ~Failed(d) /\ d.id = names[o.type] /\ d.salt = Buf(salt) /\ d.hash = Buf(tag)
    /\ version_of(d) = o.version /\ CostsRead(d, o, data)

Unversioned(w) == <<w[1]>> \o SubSeq(w, 3, 5)

LEMMA ReadBack ==
    ASSUME NEW o, NEW salt, NEW data, NEW tag, Priced(o), Accepted(o, data),
           19 \in 0 .. MaxSafe
    PROVE  Readable(deserialize(Fields(o, salt, data, tag)), o, salt, data, tag)
  <1>1. PICK a, v, c, s, h :
          /\ a = Text(names[o.type]) /\ v = Pairs(<< <<"v", ToString(o.version)>> >>)
          /\ c = Pairs(Entries(o, data)) /\ s = Text(salt) /\ h = Text(tag)
    OBVIOUS
  <1>2. /\ a.is = "word" /\ a.text = names[o.type] /\ a.text \in Names
        /\ c.is = "pairs" /\ c.entries = Entries(o, data)
        /\ s.is = "word" /\ s.bytes = salt /\ h.is = "word" /\ h.bytes = tag
    BY <1>1 DEF Text, B64, Pairs, Accepted
  <1>3. o.version \in 0 .. MaxSafe
    <2>1. MaxSafe \in Nat
      BY PhcAssumption
    <2>2. 16 \in 0 .. MaxSafe
      BY <2>1
    <2> QED BY <2>2 DEF Priced
  <1>4. /\ v.is = "pairs" /\ Len(v.entries) = 1 /\ v.entries[1][1] = "v"
        /\ v.entries[1][2] = ToString(o.version)
    BY <1>1 DEF Pairs
  <1>5. isVersion(v) /\ parseInt(v.entries[1][2]) = o.version
    <2>1. ToString(o.version) \in Decimals /\ convert(ToString(o.version)) = Num(o.version)
      BY <1>3, Decimal
    <2>2. Value(ToString(o.version)) = o.version
      BY <2>1 DEF convert, Num
    <2> QED BY <1>4, <2>1, <2>2 DEF isVersion, parseInt, Numerals
  <1>6. PICK w : w = <<a, v, c, s, h>>
    OBVIOUS
  <1>7. w = Fields(o, salt, data, tag)
    BY <1>1, <1>6, Zenon DEF Fields
  <1>8. Len(w) = 5 /\ w[1] = a /\ w[2] = v /\ w # <<>> /\ SubSeq(w, 3, 5) = <<c, s, h>>
    <2>1. Len(w) = 5 /\ w[1] = a /\ w[2] = v /\ w # <<>>
      BY <1>6
    <2>2. SubSeq(w, 3, 5) = <<c, s, h>>
      BY <1>6, LastOfFive
    <2> QED BY <2>1, <2>2
  <1>9. PICK tail : tail = Trailing(<<c, s, h>>)
    OBVIOUS
  <1>10. tail.left = <<c>> /\ tail.salt = Buf(salt) /\ tail.hash = Buf(tag)
    <2>1. tail = [left |-> <<c>>, salt |-> Buf(s.bytes), hash |-> Buf(h.bytes)]
      BY <1>2, <1>9, TrailingWords, Zenon
    <2> QED BY <1>2, <2>1
  <1>11. PICK left : left = tail.left
    OBVIOUS
  <1>12. left # <<>> /\ Len(left) = 1 /\ left[1] = c
    BY <1>10, <1>11
  <1>13. ~BadEntries(c.entries)
    BY <1>2, EntriesGood
  <1>14. PICK d : d = deserialize(w)
    OBVIOUS
  <1>15. d = [id |-> a.text, version |-> Num(parseInt(v.entries[1][2])),
              params |-> Params(Converted(c.entries)), salt |-> tail.salt, hash |-> tail.hash]
    <2>1. Len(w) >= 2 /\ isVersion(w[2]) /\ Len(w) > 2
      BY <1>5, <1>8
    <2>2. Trailing(SubSeq(w, 3, Len(w))) = tail
      BY <1>8, <1>9
    <2>3. Sound(w, 5, left)
      BY <1>2, <1>8, <1>12, <1>13 DEF Sound, unrecognized
    <2>4. d = Parsed(w, Num(parseInt(w[2].entries[1][2])), left, tail)
      BY <1>11, <1>14, <2>1, <2>2, <2>3, Deserializes, Zenon DEF Deserialized
    <2>5. d = [id |-> w[1].text, version |-> Num(parseInt(w[2].entries[1][2])),
               params |-> Params(Converted(left[Len(left)].entries)),
               salt |-> tail.salt, hash |-> tail.hash]
      BY <1>12, <2>4 DEF Parsed
    <2> QED BY <1>8, <1>12, <2>5
  <1>16. /\ ~Failed(d) /\ d.id = a.text /\ d.version = Num(o.version)
         /\ d.params = Params(Converted(c.entries)) /\ d.salt = tail.salt /\ d.hash = tail.hash
    BY <1>5, <1>15 DEF Failed
  <1>17. version_of(d) = o.version
    BY <1>16 DEF version_of, Num, None
  <1>18. CostsRead(d, o, data)
    BY <1>2, <1>16, ParamsRead
  <1> QED BY <1>2, <1>7, <1>10, <1>14, <1>16, <1>17, <1>18 DEF Readable

LEMMA ReadBackOld ==
    ASSUME NEW o, NEW salt, NEW data, NEW tag, Priced(o), Accepted(o, data),
           o.version = 16
    PROVE  Readable(deserialize(Unversioned(Fields(o, salt, data, tag))), o, salt, data, tag)
  <1>1. PICK a, v, c, s, h :
          /\ a = Text(names[o.type]) /\ v = Pairs(<< <<"v", ToString(o.version)>> >>)
          /\ c = Pairs(Entries(o, data)) /\ s = Text(salt) /\ h = Text(tag)
    OBVIOUS
  <1>2. /\ a.is = "word" /\ a.text = names[o.type] /\ a.text \in Names
        /\ c.is = "pairs" /\ c.entries = Entries(o, data)
        /\ s.is = "word" /\ s.bytes = salt /\ h.is = "word" /\ h.bytes = tag
    BY <1>1 DEF Text, B64, Pairs, Accepted
  <1>3. ~BadEntries(c.entries) /\ Len(c.entries) \in {3, 4}
    BY <1>2, EntriesGood
  <1>4. ~isVersion(c)
    BY <1>3 DEF isVersion
  <1>5. PICK z : z = <<a, v, c, s, h>>
    OBVIOUS
  <1>6. z = Fields(o, salt, data, tag)
    BY <1>1, <1>5, Zenon DEF Fields
  <1>7. z[1] = a /\ SubSeq(z, 3, 5) = <<c, s, h>>
    <2>1. z[1] = a
      BY <1>5
    <2>2. SubSeq(z, 3, 5) = <<c, s, h>>
      BY <1>5, LastOfFive
    <2> QED BY <2>1, <2>2
  <1>8. PICK w : w = <<a, c, s, h>>
    OBVIOUS
  <1>9. Unversioned(z) = w
    <2>1. <<a>> \o <<c, s, h>> = <<a, c, s, h>>
      BY OneAndThree, Zenon
    <2> QED BY <1>7, <1>8, <2>1, Zenon DEF Unversioned
  <1>10. Len(w) = 4 /\ w[1] = a /\ w[2] = c /\ w # <<>> /\ SubSeq(w, 2, 4) = <<c, s, h>>
    <2>1. Len(w) = 4 /\ w[1] = a /\ w[2] = c /\ w # <<>>
      BY <1>8
    <2>2. SubSeq(w, 2, 4) = <<c, s, h>>
      BY <1>8, LastOfFour
    <2> QED BY <2>1, <2>2
  <1>11. PICK tail : tail = Trailing(<<c, s, h>>)
    OBVIOUS
  <1>12. tail.left = <<c>> /\ tail.salt = Buf(salt) /\ tail.hash = Buf(tag)
    <2>1. tail = [left |-> <<c>>, salt |-> Buf(s.bytes), hash |-> Buf(h.bytes)]
      BY <1>2, <1>11, TrailingWords, Zenon
    <2> QED BY <1>2, <2>1
  <1>13. PICK left : left = tail.left
    OBVIOUS
  <1>14. left # <<>> /\ Len(left) = 1 /\ left[1] = c
    BY <1>12, <1>13
  <1>15. PICK d : d = deserialize(w)
    OBVIOUS
  <1>16. d = [id |-> a.text, version |-> None,
              params |-> Params(Converted(c.entries)), salt |-> tail.salt, hash |-> tail.hash]
    <2>1. ~ (Len(w) >= 2 /\ isVersion(w[2]))
      BY <1>4, <1>10
    <2>2. Trailing(SubSeq(w, 2, Len(w))) = tail
      BY <1>10, <1>11
    <2>3. Sound(w, 4, left)
      BY <1>2, <1>3, <1>10, <1>14 DEF Sound, unrecognized
    <2>4. d = Parsed(w, None, left, tail)
      BY <1>13, <1>15, <2>1, <2>2, <2>3, Deserializes, Zenon DEF Deserialized
    <2>5. d = [id |-> w[1].text, version |-> None,
               params |-> Params(Converted(left[Len(left)].entries)),
               salt |-> tail.salt, hash |-> tail.hash]
      BY <1>14, <2>4 DEF Parsed
    <2> QED BY <1>10, <1>14, <2>5
  <1>17. /\ ~Failed(d) /\ d.id = a.text /\ d.version = None
         /\ d.params = Params(Converted(c.entries)) /\ d.salt = tail.salt /\ d.hash = tail.hash
    BY <1>16 DEF Failed
  <1>18. version_of(d) = o.version
    BY <1>17 DEF version_of
  <1>19. CostsRead(d, o, data)
    BY <1>2, <1>17, ParamsRead
  <1> QED BY <1>2, <1>6, <1>9, <1>12, <1>15, <1>17, <1>18, <1>19 DEF Readable

-----------------------------------------------------------------------------
(* A digest whose arguments are known: hash has written it, or it was left    *)
(* without a version field by a release that knew only one.                   *)
Genuine(o, fields) ==
    /\ ~OutOfBounds(HashArguments(o)) /\ textOf(o.associatedData) \notin Decimals
    /\ Readable(deserialize(fields), o, saltOf(o), textOf(o.associatedData),
                Engine!TagOf(HashArguments(o)))

(* hash's arguments, one by one. *)
LEMMA ArgumentsAre ==
    ASSUME NEW o
    PROVE  LET a == HashArguments(o)
           IN  /\ a.kind = "hash" /\ a.typed = TRUE /\ a.password = o.password
               /\ a.salt = saltOf(o) /\ a.saltlen = 1 /\ a.secret = textOf(o.secret)
               /\ a.data = textOf(o.associatedData) /\ a.m = o.memoryCost
               /\ a.t = o.timeCost /\ a.p = o.parallelism /\ a.outlen = o.hashLength
               /\ a.version = o.version /\ a.type = o.type
  BY DEF HashArguments

LEMMA InBounds ==
    ASSUME NEW o, ~OutOfBounds(HashArguments(o))
    PROVE  /\ Priced(o) /\ 19 \in 0 .. MaxSafe /\ o.type \in {"d", "i", "id"}
           /\ o.memoryCost \in 8 .. MaxCost /\ o.timeCost \in 1 .. MaxCost
           /\ o.parallelism \in 1 .. MaxParallelism
  <1>1. /\ o.memoryCost \in 8 .. MaxCost /\ o.timeCost \in 1 .. MaxCost
        /\ o.parallelism \in 1 .. MaxParallelism /\ o.version \in {16, 19}
        /\ o.type \in DOMAIN names
    BY ArgumentsAre DEF OutOfBounds
  <1>2. DOMAIN names = {"d", "i", "id"}
    BY DEF names
  <1>3. MaxCost \in 0 .. MaxSafe /\ MaxParallelism \in 0 .. MaxSafe /\ 19 \in 0 .. MaxSafe
    BY CostsAssumption
  <1>4. MaxSafe \in Nat
    BY PhcAssumption
  <1> QED BY <1>1, <1>2, <1>3, <1>4 DEF Priced

(* What is on record for a stored digest is enough to read it. *)
LEMMA StoredGenuine ==
    ASSUME NEW s \in DOMAIN Stored, Stored[s].maker # None
    PROVE  Genuine(Stored[s].maker, Stored[s].fields)
  <1>1. PICK o, fields, a, written, w :
          /\ o = Stored[s].maker /\ fields = Stored[s].fields /\ a = HashArguments(o)
          /\ written = digest(o, a.salt, a.data, Engine!TagOf(a)) /\ w = written.fields
    OBVIOUS
  <1>2. made_by(o, fields)
    BY <1>1, StoredAssumption
  <1>3. /\ ~OutOfBounds(a) /\ ~Failed(written) /\ a.data \notin Decimals
        /\ fields = w \/ (o.version = 16 /\ fields = Unversioned(w))
    BY <1>1, <1>2 DEF made_by, Unversioned
  <1>4. a.salt = saltOf(o) /\ a.data = textOf(o.associatedData)
    BY <1>1, ArgumentsAre
  <1>5. Priced(o) /\ 19 \in 0 .. MaxSafe
    BY <1>1, <1>3, InBounds
  <1>6. w = Fields(o, a.salt, a.data, Engine!TagOf(a)) /\ Accepted(o, a.data)
    BY <1>1, <1>3, DigestWritten
  <1>7. Readable(deserialize(fields), o, a.salt, a.data, Engine!TagOf(a))
    <2>1. CASE fields = w
      BY <1>5, <1>6, <2>1, ReadBack
    <2>2. CASE o.version = 16 /\ fields = Unversioned(w)
      BY <1>5, <1>6, <2>2, ReadBackOld
    <2> QED BY <1>3, <2>1, <2>2
  <1> QED BY <1>1, <1>3, <1>4, <1>7 DEF Genuine

(* What verify does with a genuine digest. *)
Right(attempt, maker) ==
    attempt.password = maker.password /\ textOf(attempt.secret) = textOf(maker.secret)

Above(maker, limits) ==
    \/ maker.memoryCost > limits.memoryCost
    \/ maker.timeCost > limits.timeCost
    \/ maker.parallelism > limits.parallelism

LEMMA GivenOnce ==
    ASSUME NEW x, NEW y, Engine!Length(x) = Engine!Length(y),
           Engine!Given(x) = Engine!Given(y)
    PROVE  x = y
  <1>1. PICK k, l, g, h : /\ k = Engine!Length(x) /\ l = Engine!Length(y)
                          /\ g = Engine!Given(x) /\ h = Engine!Given(y)
    OBVIOUS
  <1>2. k = (IF x = "" THEN 0 ELSE 1) /\ (x # "" => g = x)
    BY <1>1, Zenon DEF Engine!Length, Engine!Given, Engine!EMPTY
  <1>3. l = (IF y = "" THEN 0 ELSE 1) /\ (y # "" => h = y)
    BY <1>1, Zenon DEF Engine!Length, Engine!Given, Engine!EMPTY
  <1>4. k = l /\ g = h
    BY <1>1, Zenon
  <1>5. 0 # 1
    OBVIOUS
  <1>6. CASE x = "" /\ y = ""
    BY <1>6, Zenon
  <1>7. CASE x # "" /\ y # ""
    BY <1>2, <1>3, <1>4, <1>7, Zenon
  <1>8. CASE x = "" /\ y # ""
    BY <1>2, <1>3, <1>4, <1>5, <1>8, Zenon
  <1>9. CASE x # "" /\ y = ""
    BY <1>2, <1>3, <1>4, <1>5, <1>9, Zenon
  <1> QED BY <1>6, <1>7, <1>8, <1>9, Zenon

LEMMA TagsCompared ==
    ASSUME NEW a, NEW b, a.p = b.p, a.outlen = b.outlen, a.m = b.m, a.t = b.t,
           a.version = b.version, a.type = b.type, a.saltlen = b.saltlen,
           a.salt = b.salt, a.data = b.data
    PROVE  Engine!TagOf(a) = Engine!TagOf(b) <=>
             a.password = b.password /\ a.secret = b.secret
  <1>1. PICK s, t : s = Engine!TagOf(a) /\ t = Engine!TagOf(b)
    OBVIOUS
  <1>2. CASE a.password = b.password /\ a.secret = b.secret
    BY <1>2 DEF Engine!TagOf
  <1>3. CASE s = t
    <2>1. /\ s.pwdlen = Engine!Length(a.password) /\ s.pwd = Engine!Given(a.password)
          /\ s.secretlen = Engine!Length(a.secret) /\ s.secret = Engine!Given(a.secret)
      BY <1>1 DEF Engine!TagOf
    <2>2. /\ t.pwdlen = Engine!Length(b.password) /\ t.pwd = Engine!Given(b.password)
          /\ t.secretlen = Engine!Length(b.secret) /\ t.secret = Engine!Given(b.secret)
      BY <1>1 DEF Engine!TagOf
    <2>3. a.password = b.password
      BY <1>3, <2>1, <2>2, GivenOnce
    <2>4. a.secret = b.secret
      BY <1>3, <2>1, <2>2, GivenOnce
    <2> QED BY <2>3, <2>4, <1>1, <1>3
  <1> QED BY <1>1, <1>2, <1>3

LEMMA TypeRead ==
    ASSUME NEW x \in {"d", "i", "id"}
    PROVE  type_of(names[x]) = x
  <1>1. names["d"] = "argon2d" /\ names["i"] = "argon2i" /\ names["id"] = "argon2id"
    BY DEF names
  <1>2. /\ DOMAIN types = {"argon2d", "argon2i", "argon2id"}
        /\ types["argon2d"] = "d" /\ types["argon2i"] = "i" /\ types["argon2id"] = "id"
    BY DEF types
  <1> QED BY <1>1, <1>2 DEF type_of

LEMMA CostsAreNumbers ==
    ASSUME NEW o, NEW fields, NEW d, Genuine(o, fields), d = deserialize(fields)
    PROVE  /\ ~Failed(d) /\ d.salt # None /\ d.hash # None
           /\ type_of(d.id) = o.type /\ type_of(d.id) # "undefined"
           /\ ~ \E name \in {"m", "t", "p"} : number(param(d, name)) = NaN
           /\ \A limits : AboveLimits(d, limits) <=> Above(o, limits)
  <1>1. /\ Priced(o) /\ o.type \in {"d", "i", "id"}
    BY InBounds DEF Genuine
  <1>2. /\ ~Failed(d) /\ d.id = names[o.type] /\ CostsRead(d, o, textOf(o.associatedData))
        /\ d.salt = Buf(saltOf(o)) /\ d.hash = Buf(Engine!TagOf(HashArguments(o)))
    BY DEF Genuine, Readable
  <1>3. d.salt # None /\ d.hash # None
    BY <1>2 DEF Buf, None
  <1>4. type_of(d.id) = o.type /\ type_of(d.id) # "undefined"
    BY <1>1, <1>2, TypeRead
  <1>5. /\ number(param(d, "m")) = o.memoryCost /\ number(param(d, "t")) = o.timeCost
        /\ number(param(d, "p")) = o.parallelism
    BY <1>2 DEF CostsRead
  <1>6. o.memoryCost # NaN /\ o.timeCost # NaN /\ o.parallelism # NaN
    BY <1>1 DEF Priced, NaN
  <1>7. ~ \E name \in {"m", "t", "p"} : number(param(d, name)) = NaN
    BY <1>5, <1>6, Zenon
  <1>8. \A limits : AboveLimits(d, limits) <=> Above(o, limits)
    BY <1>5, Zenon DEF AboveLimits, Above
  <1> QED BY <1>2, <1>3, <1>4, <1>7, <1>8

LEMMA AsksForTheSame ==
    ASSUME NEW o, NEW fields, NEW d, NEW attempt, NEW a, Genuine(o, fields),
           d = deserialize(fields), a = VerifyArguments(d, attempt)
    PROVE  /\ ~OutOfBounds(a)
           /\ Engine!TagOf(a) = a.expected <=> Right(attempt, o)
  <1>1. PICK b : b = HashArguments(o)
    OBVIOUS
  <1>2. PICK tag : tag = Engine!TagOf(b)
    OBVIOUS
  <1>3. /\ d.salt = Buf(saltOf(o)) /\ d.hash = Buf(tag) /\ version_of(d) = o.version
        /\ CostsRead(d, o, textOf(o.associatedData))
        /\ textOf(o.associatedData) \notin Decimals /\ ~OutOfBounds(b)
    BY <1>1, <1>2 DEF Genuine, Readable
  <1>4. d.salt.text = saltOf(o) /\ d.hash.text = tag
    BY <1>3 DEF Buf
  <1>5. tag.outlen = b.outlen
    BY <1>2 DEF Engine!TagOf
  <1>6. type_of(d.id) = o.type
    BY CostsAreNumbers
  <1>7. /\ a.password = attempt.password /\ a.salt = d.salt.text /\ a.saltlen = 1
        /\ a.secret = textOf(attempt.secret) /\ a.data = data_of(param(d, "data"))
        /\ a.m = number(param(d, "m")) /\ a.t = number(param(d, "t"))
        /\ a.p = number(param(d, "p")) /\ a.outlen = d.hash.text.outlen
        /\ a.version = version_of(d) /\ a.type = type_of(d.id) /\ a.expected = d.hash.text
    BY DEF VerifyArguments
  <1>8. /\ b.password = o.password /\ b.salt = saltOf(o) /\ b.saltlen = 1
        /\ b.secret = textOf(o.secret) /\ b.data = textOf(o.associatedData)
        /\ b.m = o.memoryCost /\ b.t = o.timeCost /\ b.p = o.parallelism
        /\ b.version = o.version /\ b.type = o.type
    BY <1>1, ArgumentsAre
  <1>9. /\ number(param(d, "m")) = o.memoryCost /\ number(param(d, "t")) = o.timeCost
        /\ number(param(d, "p")) = o.parallelism
        /\ data_of(param(d, "data")) = textOf(o.associatedData)
    BY <1>3 DEF CostsRead
  <1>10. /\ a.p = b.p /\ a.outlen = b.outlen /\ a.m = b.m /\ a.t = b.t
         /\ a.version = b.version /\ a.type = b.type /\ a.saltlen = b.saltlen
         /\ a.salt = b.salt /\ a.data = b.data /\ a.expected = tag
    BY <1>3, <1>4, <1>5, <1>6, <1>7, <1>8, <1>9, Zenon
  <1>11. ~OutOfBounds(a)
    BY <1>3, <1>10, Zenon DEF OutOfBounds
  <1>12. Engine!TagOf(a) = tag <=> a.password = b.password /\ a.secret = b.secret
    BY <1>2, <1>10, TagsCompared
  <1> QED BY <1>7, <1>8, <1>10, <1>11, <1>12, Zenon DEF Right

-----------------------------------------------------------------------------
(* The caller leaves the salt and the associated data alone, and no           *)
(* associated data looks like a number.                                       *)
Undisturbed == Writable \subseteq {"password"}
Faithful == Undisturbed /\ \A o \in Requests : textOf(o.associatedData) \notin Decimals

IsMade(outcome) == outcome.state = "resolved" /\ outcome.value.is = "phc"
Stages == {"idle", "awaiting", "done"}
Errors == {Engine!Rejected(code) : code \in EngineErrors}

(* A call of hash, from what it has of each variable. *)
Read(r, h) == h.salt = saltOf(r) /\ h.associatedData = textOf(r.associatedData)

Written(r, h, outcome) ==
    LET tag == Engine!TagOf(HashArguments(r))
    IN  /\ ~OutOfBounds(HashArguments(r)) /\ Accepted(r, h.associatedData)
        /\ outcome.value.fields = Fields(r, h.salt, h.associatedData, tag)
        /\ Undisturbed => Read(r, h)

HashAwaits(r, h, a, p) ==
    /\ a = HashArguments(r) /\ ~OutOfBounds(a)
    /\ p \in {Engine!Pending, Engine!Resolved(Engine!TagOf(a))} \cup Errors
    /\ DOMAIN h = {"password", "salt", "associatedData"}
    /\ Undisturbed => Read(r, h)

HashOk(r, h, st, outcome, a, p) ==
    /\ st \in Stages
    /\ st # "idle" => r \in Requests
    /\ st # "done" => outcome = Engine!Pending
    /\ st = "idle" => a = Engine!NoArguments /\ p = Engine!Pending
    /\ st = "awaiting" => HashAwaits(r, h, a, p)
    /\ IsMade(outcome) => Written(r, h, outcome)

(* A call of verify. *)
Limited(a, limits) ==
    a.m \in 8 .. limits.memoryCost /\ a.t \in 1 .. limits.timeCost
      /\ a.p \in 1 .. limits.parallelism

Judged(a, attempt, maker) ==
    /\ maker = None => Engine!TagOf(a) # a.expected
    /\ Faithful /\ maker # None => (Engine!TagOf(a) = a.expected <=> Right(attempt, maker))

Verdict(outcome, attempt, maker) ==
    \/ outcome = Engine!Resolved(Engine!Match(Right(attempt, maker)))
    \/ \E code \in EngineErrors : outcome = Engine!Rejected(code)
    \/ outcome = Engine!Rejected("RangeError") /\ Above(maker, attempt.limits)

VerifyAsks(attempt, a, p, maker) ==
    /\ a.kind = "verify" /\ a.typed = TRUE
    /\ Limited(a, attempt.limits)
    /\ Judged(a, attempt, maker)
    /\ p \in {Engine!Pending, Engine!Resolved(Engine!Answer(a))} \cup Errors

VerifyDone(attempt, outcome, maker) ==
    /\ Faithful /\ maker # None => Verdict(outcome, attempt, maker)
    /\ maker = None /\ outcome.state = "resolved" => outcome.value = Engine!Match(FALSE)

VerifyOk(attempt, st, outcome, a, p, maker) ==
    /\ st \in Stages
    /\ st = "idle" => a = Engine!NoArguments /\ p = Engine!Pending
    /\ st = "awaiting" => a # Engine!NoArguments
    /\ a # Engine!NoArguments => VerifyAsks(attempt, a, p, maker)
    /\ st = "done" => VerifyDone(attempt, outcome, maker)

(* A digest that names no type of Argon2: the engine is not asked, and but    *)
(* for an inherited name the answer is false.                                 *)
Foreign(fields, st, outcome, a) ==
    LET d == deserialize(fields)
    IN  (~Failed(d) /\ d.id \notin DOMAIN types) =>
           /\ a = Engine!NoArguments
           /\ st = "done" /\ d.id \notin Inherited =>
                outcome = Engine!Resolved(Engine!Match(FALSE))

(* The calls; the digest that is verified is one that will not change. *)
HashInv(q) == HashOk(request[q], heap[q], stage[q], settled[q], asked[q], promise[q])

VerifyInv(v) ==
    /\ VerifyOk(subject[v].attempt, stage[v], settled[v], asked[v], promise[v],
                Maker(subject[v].of))
    /\ stage[v] # "idle" =>
         /\ subject[v].of \in Made \cup DOMAIN Stored
         /\ Foreign(FieldsOf(subject[v].of), stage[v], settled[v], asked[v])

Shape ==
    /\ DOMAIN request = Hashes /\ DOMAIN heap = Hashes /\ DOMAIN subject = Verifies
    /\ DOMAIN stage = Callers /\ DOMAIN settled = Callers
    /\ DOMAIN asked = Callers /\ DOMAIN promise = Callers

IInv == Shape /\ (\A q \in Hashes : HashInv(q)) /\ (\A v \in Verifies : VerifyInv(v))
LEMMA InitInv == Init => IInv
  <1> SUFFICES ASSUME Init PROVE IInv
    OBVIOUS
  <1>1. Shape
    BY DEF Init, Engine!Init, Shape
  <1>2. ASSUME NEW c \in Callers
        PROVE  /\ stage[c] = "idle" /\ settled[c] = Engine!Pending
               /\ asked[c] = Engine!NoArguments /\ promise[c] = Engine!Pending
    BY DEF Init, Engine!Init
  <1>3. ~IsMade(Engine!Pending)
    BY DEF IsMade, Engine!Pending
  <1>4. ASSUME NEW q \in Hashes PROVE HashInv(q)
    BY <1>2, <1>3 DEF HashInv, HashOk, Stages, Callers
  <1>5. ASSUME NEW v \in Verifies PROVE VerifyInv(v)
    BY <1>2 DEF VerifyInv, VerifyOk, Stages, Callers
  <1> QED BY <1>1, <1>4, <1>5 DEF IInv

(* A step of one call, c, which leaves the others alone and what has been     *)
(* done as it is.                                                             *)
StepOf(c) ==
    /\ Shape'
    /\ \A d \in Callers \ {c} :
         /\ stage'[d] = stage[d] /\ settled'[d] = settled[d]
         /\ asked'[d] = asked[d] /\ promise'[d] = promise[d]
    /\ \A q \in Hashes \ {c} : request'[q] = request[q] /\ heap'[q] = heap[q]
    /\ \A v \in Verifies \ {c} : subject'[v] = subject[v]
    /\ c \in Hashes /\ stage[c] = "done" =>
         request'[c] = request[c] /\ settled'[c] = settled[c]

LEMMA MadeIsDone ==
    ASSUME IInv, NEW q \in Made
    PROVE  q \in Hashes /\ stage[q] = "done" /\ request[q] \in Requests
           /\ Written(request[q], heap[q], settled[q])
  <1>1. q \in Hashes /\ IsMade(settled[q]) /\ HashInv(q)
    BY DEF Made, IsMade, IInv
  <1>2. ~IsMade(Engine!Pending)
    BY DEF IsMade, Engine!Pending
  <1>3. stage[q] = "done"
    BY <1>1, <1>2 DEF HashInv, HashOk
  <1> QED BY <1>1, <1>3 DEF HashInv, HashOk

LEMMA MadeStays ==
    ASSUME IInv, NEW c \in Callers, StepOf(c), NEW of \in Made \cup DOMAIN Stored
    PROVE  /\ of \in Made' \cup DOMAIN Stored
           /\ Maker(of)' = Maker(of) /\ FieldsOf(of)' = FieldsOf(of)
  <1>1. CASE of \in Made
    <2>1. of \in Hashes /\ stage[of] = "done"
      BY <1>1, MadeIsDone
    <2>2. request'[of] = request[of] /\ settled'[of] = settled[of]
      BY <2>1 DEF StepOf, Callers
    <2> QED BY <1>1, <2>1, <2>2 DEF Made, Maker, FieldsOf
  <1>2. CASE of \in DOMAIN Stored
    <2>1. of \notin Hashes
      BY <1>2, CallsAssumption
    <2> QED BY <1>2, <2>1 DEF Maker, FieldsOf
  <1> QED BY <1>1, <1>2

LEMMA OthersKeep ==
    ASSUME IInv, NEW c \in Callers, StepOf(c)
    PROVE  /\ Shape'
           /\ \A q \in Hashes \ {c} : HashInv(q)'
           /\ \A v \in Verifies \ {c} : VerifyInv(v)'
  <1>1. ASSUME NEW q \in Hashes \ {c} PROVE HashInv(q)'
    <2>1. HashInv(q)
      BY DEF IInv
    <2>2. /\ stage'[q] = stage[q] /\ settled'[q] = settled[q] /\ asked'[q] = asked[q]
          /\ promise'[q] = promise[q] /\ request'[q] = request[q] /\ heap'[q] = heap[q]
      BY DEF StepOf, Callers
    <2> QED BY <2>1, <2>2 DEF HashInv
  <1>2. ASSUME NEW v \in Verifies \ {c} PROVE VerifyInv(v)'
    <2>1. VerifyInv(v)
      BY DEF IInv
    <2>2. /\ stage'[v] = stage[v] /\ settled'[v] = settled[v] /\ asked'[v] = asked[v]
          /\ promise'[v] = promise[v] /\ subject'[v] = subject[v]
      BY DEF StepOf, Callers
    <2>3. CASE stage[v] = "idle"
      BY <2>1, <2>2, <2>3 DEF VerifyInv, VerifyOk
    <2>4. CASE stage[v] # "idle"
      <3>1. subject[v].of \in Made \cup DOMAIN Stored
        BY <2>1, <2>4 DEF VerifyInv
      <3>2. /\ subject[v].of \in Made' \cup DOMAIN Stored
            /\ Maker(subject[v].of)' = Maker(subject[v].of)
            /\ FieldsOf(subject[v].of)' = FieldsOf(subject[v].of)
        <4>1. PICK of \in Made \cup DOMAIN Stored : of = subject[v].of
          BY <3>1
        <4>2. /\ of \in Made' \cup DOMAIN Stored /\ Maker(of)' = Maker(of)
              /\ FieldsOf(of)' = FieldsOf(of)
          BY MadeStays
        <4>3. /\ Maker(subject[v].of)' = Maker(of)'
              /\ FieldsOf(subject[v].of)' = FieldsOf(of)'
          BY <2>2, <4>1 DEF Maker, FieldsOf
        <4> QED BY <4>1, <4>2, <4>3
      <3> QED BY <2>1, <2>2, <3>2 DEF VerifyInv
    <2> QED BY <2>3, <2>4
  <1> QED BY <1>1, <1>2 DEF StepOf

(* The whole invariant, once the call that has moved keeps it. *)
LEMMA StepKeeps ==
    ASSUME IInv, NEW c \in Callers, StepOf(c),
           c \in Hashes => HashInv(c)', c \in Verifies => VerifyInv(c)'
    PROVE  IInv'
  BY OthersKeep DEF IInv
-----------------------------------------------------------------------------
(* The calls of hash. *)
LEMMA HashCallStep ==
    ASSUME IInv, NEW q \in Hashes, NEW o \in Requests, HashCall(q, o)
    PROVE  IInv'
  <1>1. PICK a : a = HashArguments(o)
    OBVIOUS
  <1>2. /\ stage[q] = "idle" /\ request' = [request EXCEPT ![q] = o] /\ subject' = subject
        /\ heap' = [heap EXCEPT ![q] = [password |-> o.password, salt |-> saltOf(o),
                                        associatedData |-> textOf(o.associatedData)]]
        /\ Raw(q, a)
    BY <1>1 DEF HashCall
  <1>3. Shape /\ HashInv(q) /\ q \in Callers /\ q \notin Verifies
    BY CallsAssumption DEF IInv, Callers
  <1>4. /\ DOMAIN request = Hashes /\ DOMAIN heap = Hashes /\ DOMAIN subject = Verifies
        /\ DOMAIN stage = Callers /\ DOMAIN settled = Callers
        /\ DOMAIN asked = Callers /\ DOMAIN promise = Callers
    BY <1>3 DEF Shape
  <1>5. settled[q] = Engine!Pending /\ promise[q] = Engine!Pending
    BY <1>2, <1>3 DEF HashInv, HashOk
  <1>6. request'[q] = o
    BY <1>2, <1>4
  <1>7. PICK h : h = heap'[q]
    OBVIOUS
  <1>8. DOMAIN h = {"password", "salt", "associatedData"} /\ Read(o, h)
    <2>1. h = [password |-> o.password, salt |-> saltOf(o),
               associatedData |-> textOf(o.associatedData)]
      BY <1>2, <1>4, <1>7
    <2> QED BY <2>1 DEF Read
  <1>9. /\ \A r \in Hashes \ {q} : request'[r] = request[r] /\ heap'[r] = heap[r]
        /\ DOMAIN request' = Hashes /\ DOMAIN heap' = Hashes
    BY <1>2, <1>4
  <1>10. ~IsMade(Engine!Pending) /\ ~IsMade(Engine!Rejected("RangeError"))
    BY DEF IsMade, Engine!Pending, Engine!Rejected
  <1>11. CASE OutOfBounds(a) /\ Finish(q, Engine!Rejected("RangeError"))
               /\ UNCHANGED <<asked, promise>>
    <2>1. /\ stage' = [stage EXCEPT ![q] = "done"]
          /\ settled' = [settled EXCEPT ![q] = Engine!Rejected("RangeError")]
          /\ asked' = asked /\ promise' = promise
      BY <1>11 DEF Finish
    <2>2. StepOf(q)
      BY <1>2, <1>4, <1>9, <2>1 DEF StepOf, Shape
    <2>3. stage'[q] = "done" /\ settled'[q] = Engine!Rejected("RangeError")
      BY <1>3, <1>4, <2>1
    <2>4. HashInv(q)'
      BY <1>6, <1>10, <2>3 DEF HashInv, HashOk, Stages
    <2> QED BY <1>3, <2>2, <2>4, StepKeeps
  <1>12. CASE /\ ~OutOfBounds(a) /\ Engine!Call(q, a)
              /\ stage' = [stage EXCEPT ![q] = "awaiting"] /\ settled' = settled
    <2>1. a.typed = TRUE
      BY <1>1, ArgumentsAre
    <2>2. asked' = [asked EXCEPT ![q] = a] /\ promise' = promise
      BY <1>12, <2>1 DEF Engine!Call
    <2>3. StepOf(q)
      BY <1>2, <1>4, <1>9, <1>12, <2>2 DEF StepOf, Shape
    <2>4. stage'[q] = "awaiting" /\ settled'[q] = Engine!Pending /\ asked'[q] = a
          /\ promise'[q] = Engine!Pending
      BY <1>3, <1>4, <1>5, <1>12, <2>2
    <2>5. HashAwaits(o, h, a, Engine!Pending)
      BY <1>1, <1>8, <1>12 DEF HashAwaits
    <2>6. HashInv(q)'
      BY <1>6, <1>7, <1>10, <2>4, <2>5 DEF HashInv, HashOk, Stages
    <2> QED BY <1>3, <2>3, <2>6, StepKeeps
  <1> QED BY <1>2, <1>11, <1>12 DEF Raw

LEMMA CallerWritesStep ==
    ASSUME IInv, NEW q \in Hashes, NEW name \in Writable, CallerWrites(q, name)
    PROVE  IInv'
  <1>1. /\ stage[q] = "awaiting" /\ heap' = [heap EXCEPT ![q][name] = "overwritten"]
        /\ request' = request /\ subject' = subject /\ stage' = stage
        /\ settled' = settled /\ asked' = asked /\ promise' = promise
    BY DEF CallerWrites
  <1>2. Shape /\ HashInv(q) /\ q \in Callers /\ q \notin Verifies
    BY CallsAssumption DEF IInv, Callers
  <1>3. DOMAIN heap = Hashes
    BY <1>2 DEF Shape
  <1>4. DOMAIN heap' = Hashes /\ \A r \in Hashes \ {q} : heap'[r] = heap[r]
    BY <1>1, <1>3
  <1>5. StepOf(q)
    BY <1>1, <1>2, <1>4 DEF StepOf, Shape
  <1>6. PICK h, g : h = heap[q] /\ g = heap'[q]
    OBVIOUS
  <1>7. g = [h EXCEPT ![name] = "overwritten"]
    BY <1>1, <1>3, <1>6
  <1>8. HashAwaits(request[q], h, asked[q], promise[q])
    BY <1>1, <1>2, <1>6 DEF HashInv, HashOk
  <1>9. DOMAIN h = {"password", "salt", "associatedData"}
    BY <1>8 DEF HashAwaits
  <1>10. DOMAIN g = {"password", "salt", "associatedData"}
    BY <1>7, <1>9
  <1>11. Undisturbed => g.salt = h.salt /\ g.associatedData = h.associatedData
    BY <1>7, <1>9 DEF Undisturbed
  <1>12. HashAwaits(request[q], g, asked[q], promise[q])
    BY <1>8, <1>10, <1>11 DEF HashAwaits, Read
  <1>13. settled[q] = Engine!Pending /\ ~IsMade(settled[q])
    BY <1>1, <1>2 DEF HashInv, HashOk, IsMade, Engine!Pending
  <1>14. HashInv(q)'
    BY <1>1, <1>2, <1>6, <1>12, <1>13 DEF HashInv, HashOk
  <1> QED BY <1>2, <1>5, <1>14, StepKeeps

LEMMA HashResumeStep ==
    ASSUME IInv, NEW q \in Hashes, HashResume(q)
    PROVE  IInv'
  <1>1. PICK r, h, a, p : r = request[q] /\ h = heap[q] /\ a = asked[q] /\ p = promise[q]
    OBVIOUS
  <1>2. /\ stage[q] = "awaiting" /\ p # Engine!Pending
        /\ request' = request /\ heap' = heap /\ subject' = subject
        /\ asked' = asked /\ promise' = promise
    BY <1>1 DEF HashResume
  <1>3. Shape /\ HashInv(q) /\ q \in Callers /\ q \notin Verifies
    BY CallsAssumption DEF IInv, Callers
  <1>4. HashAwaits(r, h, a, p) /\ r \in Requests
    BY <1>1, <1>2, <1>3 DEF HashInv, HashOk
  <1>5. PICK w : w = digest(r, h.salt, h.associatedData, p.value)
    OBVIOUS
  <1>6. Encoded(q) = w
    BY <1>1, <1>5 DEF Encoded, salt_used
  <1>7. PICK outcome : /\ Finish(q, outcome)
                       /\ \/ outcome = p
                          \/ outcome = Engine!Rejected("TypeError")
                          \/ /\ p.state = "resolved" /\ ~Failed(w)
                             /\ outcome = Engine!Resolved(Digest(w.fields))
    BY <1>1, <1>6 DEF HashResume
  <1>8. /\ stage' = [stage EXCEPT ![q] = "done"]
        /\ settled' = [settled EXCEPT ![q] = outcome]
    BY <1>7 DEF Finish
  <1>9. DOMAIN stage = Callers /\ DOMAIN settled = Callers
    BY <1>3 DEF Shape
  <1>10. stage'[q] = "done" /\ settled'[q] = outcome
    BY <1>3, <1>8, <1>9
  <1>11. StepOf(q)
    <2>1. /\ DOMAIN stage' = Callers /\ DOMAIN settled' = Callers
          /\ \A d \in Callers \ {q} : stage'[d] = stage[d] /\ settled'[d] = settled[d]
      BY <1>8, <1>9
    <2> QED BY <1>2, <1>3, <2>1 DEF StepOf, Shape
  <1>12. IsMade(outcome) => Written(r, h, outcome)
    <2>1. CASE outcome = p
      <3>1. \/ p = Engine!Resolved(Engine!TagOf(a))
            \/ \E code \in EngineErrors : p = Engine!Rejected(code)
        BY <1>2, <1>4 DEF HashAwaits, Errors
      <3>2. ~IsMade(p)
        BY <3>1 DEF IsMade, Engine!Resolved, Engine!Rejected, Engine!TagOf
      <3> QED BY <2>1, <3>2
    <2>2. CASE outcome = Engine!Rejected("TypeError")
      BY <2>2 DEF IsMade, Engine!Rejected
    <2>3. CASE /\ p.state = "resolved" /\ ~Failed(w)
               /\ outcome = Engine!Resolved(Digest(w.fields))
      <3>1. p = Engine!Resolved(Engine!TagOf(a))
        BY <1>2, <1>4, <2>3 DEF HashAwaits, Errors, Engine!Rejected
      <3>2. p.value = Engine!TagOf(HashArguments(r)) /\ ~OutOfBounds(HashArguments(r))
        BY <1>4, <3>1 DEF HashAwaits, Engine!Resolved
      <3>3. /\ w = [fields |-> Fields(r, h.salt, h.associatedData, p.value)]
            /\ Accepted(r, h.associatedData)
        BY <1>5, <2>3, DigestWritten
      <3>4. outcome.value.fields = w.fields
        BY <2>3 DEF Engine!Resolved, Digest
      <3>5. w.fields = Fields(r, h.salt, h.associatedData, p.value)
        BY <3>3
      <3>6. Undisturbed => Read(r, h)
        BY <1>4 DEF HashAwaits
      <3> QED BY <3>2, <3>3, <3>4, <3>5, <3>6, Zenon DEF Written
    <2> QED BY <1>7, <2>1, <2>2, <2>3
  <1>13. HashInv(q)'
    BY <1>1, <1>2, <1>4, <1>10, <1>12 DEF HashInv, HashOk, Stages
  <1> QED BY <1>3, <1>11, <1>13, StepKeeps

-----------------------------------------------------------------------------
(* The calls of verify. *)
LEMMA SubjectGenuine ==
    ASSUME IInv, NEW of \in Made \cup DOMAIN Stored, Faithful, Maker(of) # None
    PROVE  Genuine(Maker(of), FieldsOf(of))
  <1>1. CASE of \in Made
    <2>1. PICK r, h, f : r = request[of] /\ h = heap[of] /\ f = settled[of].value.fields
      OBVIOUS
    <2>2. of \in Hashes /\ r \in Requests /\ Written(r, h, settled[of])
      BY <1>1, <2>1, MadeIsDone
    <2>3. /\ ~OutOfBounds(HashArguments(r)) /\ Accepted(r, h.associatedData)
          /\ f = Fields(r, h.salt, h.associatedData, Engine!TagOf(HashArguments(r)))
          /\ h.salt = saltOf(r) /\ h.associatedData = textOf(r.associatedData)
      BY <2>1, <2>2 DEF Written, Faithful, Read
    <2>4. Priced(r) /\ 19 \in 0 .. MaxSafe
      BY <2>3, InBounds
    <2>5. Readable(deserialize(f), r, h.salt, h.associatedData,
                   Engine!TagOf(HashArguments(r)))
      BY <2>3, <2>4, ReadBack
    <2>6. textOf(r.associatedData) \notin Decimals
      BY <2>2 DEF Faithful
    <2>7. Genuine(r, f)
      BY <2>3, <2>5, <2>6 DEF Genuine
    <2> QED BY <2>1, <2>2, <2>7 DEF Maker, FieldsOf
  <1>2. CASE of \in DOMAIN Stored
    <2>1. of \notin Hashes
      BY <1>2, CallsAssumption
    <2>2. Maker(of) = Stored[of].maker /\ FieldsOf(of) = Stored[of].fields
      BY <2>1 DEF Maker, FieldsOf
    <2> QED BY <1>2, <2>2, StoredGenuine
  <1> QED BY <1>1, <1>2

(* No hash is the right one for a digest of another scheme. *)
LEMMA NoMakerNoMatch ==
    ASSUME IInv, NEW of \in Made \cup DOMAIN Stored, Maker(of) = None,
           NEW attempt \in Attempts, NEW d, d = deserialize(FieldsOf(of)), ~Failed(d),
           d.id \in DOMAIN types, d.salt # None, d.hash # None
    PROVE  Engine!TagOf(VerifyArguments(d, attempt)) # d.hash.text
  <1>1. of \notin Hashes
    <2>1. SUFFICES ASSUME of \in Hashes PROVE FALSE
      OBVIOUS
    <2>2. of \in Made
      BY <2>1, CallsAssumption
    <2>3. request[of] \in Requests /\ request[of] = None
      BY <2>1, <2>2, MadeIsDone DEF Maker
    <2>4. DOMAIN request[of] = Parameters
      BY <2>3, CostsAssumption
    <2> QED BY <2>3, <2>4 DEF None, Parameters
  <1>2. of \in DOMAIN Stored
    BY <1>1 DEF Made
  <1>3. Stored[of].maker = None /\ d = deserialize(Stored[of].fields)
    BY <1>1 DEF Maker, FieldsOf
  <1>4. PICK f : f = Stored[of].fields
    OBVIOUS
  <1>5. (/\ ~Failed(deserialize(f)) /\ deserialize(f).id \in DOMAIN types
         /\ deserialize(f).salt # None /\ deserialize(f).hash # None) =>
        Engine!TagOf(VerifyArguments(deserialize(f), attempt)) # deserialize(f).hash.text
    BY <1>2, <1>3, <1>4, StoredAssumption, Zenon
  <1> QED BY <1>3, <1>4, <1>5

(* What verify may have done: a refusal, or a question for the engine. *)
Refusal(v, outcome) ==
    /\ stage' = [stage EXCEPT ![v] = "done"]
    /\ settled' = [settled EXCEPT ![v] = outcome]
    /\ asked' = asked /\ promise' = promise

Question(v, a) ==
    /\ stage' = [stage EXCEPT ![v] = "awaiting"] /\ settled' = settled
    /\ asked' = [asked EXCEPT ![v] = a] /\ promise' = promise

(* The refusals of verify, in the order of its checks. *)
Unusable(d) ==
    \/ d.salt = None \/ d.hash = None
    \/ \E name \in {"m", "t", "p"} : number(param(d, name)) = NaN

Refuses(d, a, limits, outcome) ==
    \/ Failed(d) /\ outcome = Engine!Rejected("TypeError")
    \/ /\ ~Failed(d) /\ type_of(d.id) = "undefined"
       /\ outcome = Engine!Resolved(Engine!Match(FALSE))
    \/ /\ ~Failed(d) /\ type_of(d.id) # "undefined"
       /\ \/ Unusable(d) /\ outcome = Engine!Rejected("TypeError")
          \/ /\ AboveLimits(d, limits) \/ OutOfBounds(a)
             /\ outcome = Engine!Rejected("RangeError")

LEMMA VerifyDoes ==
    ASSUME NEW v, NEW fields, NEW attempt, Verify(v, fields, attempt), NEW d, NEW a,
           d = deserialize(fields), a = VerifyArguments(d, attempt)
    PROVE  \/ \E outcome : Refusal(v, outcome) /\ Refuses(d, a, attempt.limits, outcome)
           \/ /\ ~Failed(d) /\ d.salt # None /\ d.hash # None
              /\ ~AboveLimits(d, attempt.limits) /\ ~OutOfBounds(a)
              /\ Question(v, a)
  <1>1. ASSUME NEW outcome, Finish(v, outcome), UNCHANGED <<asked, promise>>
        PROVE  Refusal(v, outcome)
    BY <1>1 DEF Finish, Refusal
  <1>2. a.typed = TRUE
    BY DEF VerifyArguments
  <1>3. CASE Failed(d)
    <2>1. Refusal(v, Engine!Rejected("TypeError"))
      BY <1>1, <1>3, Zenon DEF Verify
    <2> QED BY <1>3, <2>1, Zenon DEF Refuses
  <1>4. CASE ~Failed(d) /\ type_of(d.id) = "undefined"
    <2>1. Refusal(v, Engine!Resolved(Engine!Match(FALSE)))
      BY <1>1, <1>4, Zenon DEF Verify
    <2> QED BY <1>4, <2>1, Zenon DEF Refuses
  <1>5. CASE ~Failed(d) /\ type_of(d.id) # "undefined" /\ Unusable(d)
    <2>1. Refusal(v, Engine!Rejected("TypeError"))
      BY <1>1, <1>5, Zenon DEF Verify, Unusable
    <2> QED BY <1>5, <2>1, Zenon DEF Refuses
  <1>6. CASE ~Failed(d) /\ type_of(d.id) # "undefined" /\ ~Unusable(d)
    <2>1. CASE AboveLimits(d, attempt.limits)
      <3>1. Refusal(v, Engine!Rejected("RangeError"))
        BY <1>1, <1>6, <2>1, Zenon DEF Verify, Unusable
      <3> QED BY <1>6, <2>1, <3>1, Zenon DEF Refuses
    <2>2. CASE ~AboveLimits(d, attempt.limits)
      <3>1. Raw(v, a)
        BY <1>6, <2>2, Zenon DEF Verify, Unusable
      <3>2. CASE /\ OutOfBounds(a) /\ Finish(v, Engine!Rejected("RangeError"))
                 /\ UNCHANGED <<asked, promise>>
        <4>1. Refusal(v, Engine!Rejected("RangeError"))
          BY <1>1, <3>2, Zenon
        <4> QED BY <1>6, <3>2, <4>1, Zenon DEF Refuses
      <3>3. CASE /\ ~OutOfBounds(a) /\ Engine!Call(v, a)
                 /\ stage' = [stage EXCEPT ![v] = "awaiting"] /\ settled' = settled
        <4>1. Question(v, a)
          BY <1>2, <3>3 DEF Question, Engine!Call
        <4> QED BY <1>6, <2>2, <3>3, <4>1, Zenon DEF Unusable
      <3> QED BY <3>1, <3>2, <3>3 DEF Raw
    <2> QED BY <2>1, <2>2
  <1> QED BY <1>3, <1>4, <1>5, <1>6

(* An id that is not in types is undefined there, or inherited. *)
LEMMA NotOurType ==
    ASSUME NEW id, id \notin DOMAIN types
    PROVE  /\ id \notin Inherited => type_of(id) = "undefined"
           /\ type_of(id) \notin DOMAIN names
  <1>1. DOMAIN names = {"d", "i", "id"}
    BY DEF names
  <1>2. type_of(id) = IF id \in Inherited THEN "inherited" ELSE "undefined"
    BY DEF type_of
  <1> QED BY <1>1, <1>2

LEMMA RefusalRight ==
    ASSUME IInv, NEW of \in Made \cup DOMAIN Stored, NEW attempt \in Attempts,
           NEW outcome, NEW d, NEW a,
           d = deserialize(FieldsOf(of)), a = VerifyArguments(d, attempt),
           Refuses(d, a, attempt.limits, outcome)
    PROVE  /\ VerifyDone(attempt, outcome, Maker(of))
           /\ Foreign(FieldsOf(of), "done", outcome, Engine!NoArguments)
  <1>1. PICK maker, fields : maker = Maker(of) /\ fields = FieldsOf(of)
    OBVIOUS
  <1>2. ASSUME Faithful, maker # None PROVE Verdict(outcome, attempt, maker)
    <2>1. Genuine(maker, fields)
      BY <1>1, <1>2, SubjectGenuine
    <2>2. /\ ~Failed(d) /\ d.salt # None /\ d.hash # None /\ type_of(d.id) # "undefined"
          /\ ~ \E name \in {"m", "t", "p"} : number(param(d, name)) = NaN
          /\ AboveLimits(d, attempt.limits) => Above(maker, attempt.limits)
      BY <1>1, <2>1, CostsAreNumbers
    <2>3. ~OutOfBounds(a)
      BY <1>1, <2>1, AsksForTheSame
    <2>4. AboveLimits(d, attempt.limits) /\ outcome = Engine!Rejected("RangeError")
      BY <2>2, <2>3, Zenon DEF Refuses, Unusable
    <2> QED BY <2>2, <2>4 DEF Verdict
  <1>3. ASSUME outcome.state = "resolved" PROVE outcome.value = Engine!Match(FALSE)
    <2>1. \A code : Engine!Rejected(code).state # "resolved"
      BY DEF Engine!Rejected
    <2>2. outcome = Engine!Resolved(Engine!Match(FALSE))
      BY <1>3, <2>1, Zenon DEF Refuses
    <2> QED BY <2>2 DEF Engine!Resolved
  <1>4. ASSUME ~Failed(d), d.id \notin DOMAIN types, d.id \notin Inherited
        PROVE  outcome = Engine!Resolved(Engine!Match(FALSE))
    <2>1. type_of(d.id) = "undefined"
      BY <1>4, NotOurType
    <2> QED BY <1>4, <2>1, Zenon DEF Refuses
  <1>5. Foreign(FieldsOf(of), "done", outcome, Engine!NoArguments)
    BY <1>4, Zenon DEF Foreign
  <1> QED BY <1>1, <1>2, <1>3, <1>5 DEF VerifyDone

LEMMA QuestionRight ==
    ASSUME IInv, NEW of \in Made \cup DOMAIN Stored, NEW attempt \in Attempts,
           NEW d, NEW a, d = deserialize(FieldsOf(of)), a = VerifyArguments(d, attempt),
           ~Failed(d), d.salt # None, d.hash # None,
           ~AboveLimits(d, attempt.limits), ~OutOfBounds(a)
    PROVE  /\ VerifyAsks(attempt, a, Engine!Pending, Maker(of))
           /\ a # Engine!NoArguments
           /\ d.id \in DOMAIN types
  <1>1. PICK maker, fields, limits :
          maker = Maker(of) /\ fields = FieldsOf(of) /\ limits = attempt.limits
    OBVIOUS
  <1>2. /\ a.kind = "verify" /\ a.typed = TRUE /\ a.m = number(param(d, "m"))
        /\ a.t = number(param(d, "t")) /\ a.p = number(param(d, "p"))
        /\ a.type = type_of(d.id) /\ a.expected = d.hash.text
    BY DEF VerifyArguments
  <1>3. a # Engine!NoArguments
    BY <1>2 DEF Engine!NoArguments, Engine!Absent
  <1>4. Limited(a, limits)
    <2>1. /\ a.m \in 8 .. MaxCost /\ a.t \in 1 .. MaxCost /\ a.p \in 1 .. MaxParallelism
      BY DEF OutOfBounds
    <2>2. /\ limits.memoryCost \in Nat /\ limits.timeCost \in Nat
          /\ limits.parallelism \in Nat
      BY <1>1, CostsAssumption
    <2>3. /\ ~ (a.m > limits.memoryCost) /\ ~ (a.t > limits.timeCost)
          /\ ~ (a.p > limits.parallelism)
      BY <1>1, <1>2 DEF AboveLimits
    <2>4. MaxCost \in Nat /\ MaxParallelism \in Nat
      BY CostsAssumption
    <2>5. PICK m, t, p : m = a.m /\ t = a.t /\ p = a.p
      OBVIOUS
    <2>6. m \in 8 .. limits.memoryCost
      BY <2>1, <2>2, <2>3, <2>4, <2>5
    <2>7. t \in 1 .. limits.timeCost
      BY <2>1, <2>2, <2>3, <2>4, <2>5
    <2>8. p \in 1 .. limits.parallelism
      BY <2>1, <2>2, <2>3, <2>4, <2>5
    <2> QED BY <2>5, <2>6, <2>7, <2>8 DEF Limited
  <1>5. d.id \in DOMAIN types
    <2>1. type_of(d.id) \in DOMAIN names
      BY <1>2 DEF OutOfBounds
    <2> QED BY <2>1, NotOurType
  <1>6. Judged(a, attempt, maker)
    <2>1. ASSUME maker = None PROVE Engine!TagOf(a) # a.expected
      BY <1>1, <1>2, <1>5, <2>1, NoMakerNoMatch
    <2>2. ASSUME Faithful, maker # None
          PROVE  Engine!TagOf(a) = a.expected <=> Right(attempt, maker)
      BY <1>1, <2>2, SubjectGenuine, AsksForTheSame
    <2> QED BY <2>1, <2>2 DEF Judged
  <1> QED BY <1>1, <1>2, <1>3, <1>4, <1>5, <1>6 DEF VerifyAsks

LEMMA VerifyCallStep ==
    ASSUME IInv, NEW v \in Verifies, NEW of \in Made \cup DOMAIN Stored,
           NEW attempt \in Attempts, VerifyCall(v, of, attempt)
    PROVE  IInv'
  <1>1. PICK d, a : d = deserialize(FieldsOf(of)) /\ a = VerifyArguments(d, attempt)
    OBVIOUS
  <1>2. /\ stage[v] = "idle" /\ request' = request /\ heap' = heap
        /\ subject' = [subject EXCEPT ![v] = [of |-> of, attempt |-> attempt]]
        /\ Verify(v, FieldsOf(of), attempt)
    BY DEF VerifyCall
  <1>3. Shape /\ VerifyInv(v) /\ v \in Callers /\ v \notin Hashes
    BY CallsAssumption DEF IInv, Callers
  <1>4. /\ DOMAIN request = Hashes /\ DOMAIN heap = Hashes /\ DOMAIN subject = Verifies
        /\ DOMAIN stage = Callers /\ DOMAIN settled = Callers
        /\ DOMAIN asked = Callers /\ DOMAIN promise = Callers
    BY <1>3 DEF Shape
  <1>5. asked[v] = Engine!NoArguments /\ promise[v] = Engine!Pending
    BY <1>2, <1>3 DEF VerifyInv, VerifyOk
  <1>6. subject'[v].of = of /\ subject'[v].attempt = attempt
    BY <1>2, <1>4
  <1>7. DOMAIN subject' = Verifies /\ \A u \in Verifies \ {v} : subject'[u] = subject[u]
    BY <1>2, <1>4
  <1>8. ASSUME NEW outcome, Refusal(v, outcome),
               VerifyDone(attempt, outcome, Maker(of)),
               Foreign(FieldsOf(of), "done", outcome, Engine!NoArguments)
        PROVE  IInv'
    <2>1. StepOf(v)
      BY <1>2, <1>3, <1>4, <1>7, <1>8 DEF StepOf, Shape, Refusal
    <2>2. /\ stage'[v] = "done" /\ settled'[v] = outcome
          /\ asked'[v] = Engine!NoArguments
      BY <1>3, <1>4, <1>5, <1>8 DEF Refusal
    <2>3. /\ of \in Made' \cup DOMAIN Stored /\ Maker(of)' = Maker(of)
          /\ FieldsOf(of)' = FieldsOf(of)
      BY <1>3, <2>1, MadeStays
    <2>4. /\ Maker(subject[v].of)' = Maker(of)
          /\ FieldsOf(subject[v].of)' = FieldsOf(of)
      BY <1>6, <2>3 DEF Maker, FieldsOf
    <2>5. VerifyInv(v)'
      BY <1>6, <1>8, <2>2, <2>3, <2>4 DEF VerifyInv, VerifyOk, Stages
    <2> QED BY <1>3, <2>1, <2>5, StepKeeps
  <1>9. ASSUME Question(v, a), VerifyAsks(attempt, a, Engine!Pending, Maker(of)),
               a # Engine!NoArguments, d.id \in DOMAIN types
        PROVE  IInv'
    <2>1. StepOf(v)
      BY <1>2, <1>3, <1>4, <1>7, <1>9 DEF StepOf, Shape, Question
    <2>2. /\ stage'[v] = "awaiting" /\ asked'[v] = a /\ promise'[v] = Engine!Pending
      BY <1>3, <1>4, <1>5, <1>9 DEF Question
    <2>3. /\ of \in Made' \cup DOMAIN Stored /\ Maker(of)' = Maker(of)
          /\ FieldsOf(of)' = FieldsOf(of)
      BY <1>3, <2>1, MadeStays
    <2>4. /\ Maker(subject[v].of)' = Maker(of)
          /\ FieldsOf(subject[v].of)' = FieldsOf(of)
      BY <1>6, <2>3 DEF Maker, FieldsOf
    <2>5. VerifyInv(v)'
      <3>1. Foreign(FieldsOf(of), "awaiting", settled'[v], a)
        BY <1>1, <1>9, Zenon DEF Foreign
      <3> QED BY <1>6, <1>9, <2>2, <2>3, <2>4, <3>1 DEF VerifyInv, VerifyOk, Stages
    <2> QED BY <1>3, <2>1, <2>5, StepKeeps
  <1>10. CASE \E outcome : Refusal(v, outcome) /\ Refuses(d, a, attempt.limits, outcome)
    <2>1. PICK outcome : Refusal(v, outcome) /\ Refuses(d, a, attempt.limits, outcome)
      BY <1>10
    <2>2. /\ VerifyDone(attempt, outcome, Maker(of))
          /\ Foreign(FieldsOf(of), "done", outcome, Engine!NoArguments)
      BY <1>1, <2>1, RefusalRight, Zenon
    <2> QED BY <1>8, <2>1, <2>2, Zenon
  <1>11. CASE /\ ~Failed(d) /\ d.salt # None /\ d.hash # None
              /\ ~AboveLimits(d, attempt.limits) /\ ~OutOfBounds(a)
              /\ Question(v, a)
    BY <1>1, <1>9, <1>11, QuestionRight, Zenon
  <1> QED BY <1>1, <1>2, <1>10, <1>11, VerifyDoes, Zenon

LEMMA VerifyResumeStep ==
    ASSUME IInv, NEW v \in Verifies, VerifyResume(v)
    PROVE  IInv'
  <1>1. PICK attempt, a, p, maker : /\ attempt = subject[v].attempt /\ a = asked[v]
                                    /\ p = promise[v] /\ maker = Maker(subject[v].of)
    OBVIOUS
  <1>2. /\ stage[v] = "awaiting" /\ p # Engine!Pending
        /\ stage' = [stage EXCEPT ![v] = "done"] /\ settled' = [settled EXCEPT ![v] = p]
        /\ request' = request /\ heap' = heap /\ subject' = subject
        /\ asked' = asked /\ promise' = promise
    BY <1>1 DEF VerifyResume, Finish
  <1>3. Shape /\ VerifyInv(v) /\ v \in Callers /\ v \notin Hashes
    BY CallsAssumption DEF IInv, Callers
  <1>4. DOMAIN stage = Callers /\ DOMAIN settled = Callers
    BY <1>3 DEF Shape
  <1>5. stage'[v] = "done" /\ settled'[v] = p
    BY <1>2, <1>3, <1>4
  <1>6. StepOf(v)
    <2>1. /\ DOMAIN stage' = Callers /\ DOMAIN settled' = Callers
          /\ \A d \in Callers \ {v} : stage'[d] = stage[d] /\ settled'[d] = settled[d]
      BY <1>2, <1>4
    <2> QED BY <1>2, <1>3, <2>1 DEF StepOf, Shape
  <1>7. /\ a # Engine!NoArguments /\ VerifyAsks(attempt, a, p, maker)
        /\ subject[v].of \in Made \cup DOMAIN Stored
        /\ Foreign(FieldsOf(subject[v].of), "awaiting", settled[v], a)
    BY <1>1, <1>2, <1>3 DEF VerifyInv, VerifyOk
  <1>8. VerifyDone(attempt, p, maker)
    <2>1. CASE p = Engine!Resolved(Engine!Answer(a))
      <3>1. Engine!Answer(a) = Engine!Match(Engine!TagOf(a) = a.expected)
        BY <1>7 DEF VerifyAsks, Engine!Answer
      <3>2. ASSUME Faithful, maker # None
            PROVE  Engine!Match(Engine!TagOf(a) = a.expected)
                     = Engine!Match(Right(attempt, maker))
        <4>1. Engine!TagOf(a) = a.expected <=> Right(attempt, maker)
          BY <1>7, <3>2 DEF VerifyAsks, Judged
        <4>2. (Engine!TagOf(a) = a.expected) = Right(attempt, maker)
          BY <4>1, Zenon DEF Right
        <4> QED BY <4>2, Zenon
      <3>3. ASSUME maker = None
            PROVE  Engine!Match(Engine!TagOf(a) = a.expected) = Engine!Match(FALSE)
        <4>1. Engine!TagOf(a) # a.expected
          BY <1>7, <3>3 DEF VerifyAsks, Judged
        <4>2. (Engine!TagOf(a) = a.expected) = FALSE
          BY <4>1, Zenon
        <4> QED BY <4>2, Zenon
      <3>4. p.value = Engine!Answer(a)
        BY <2>1 DEF Engine!Resolved
      <3> QED BY <2>1, <3>1, <3>2, <3>3, <3>4, Zenon DEF VerifyDone, Verdict
    <2>2. CASE p \in Errors
      <3>1. PICK code \in EngineErrors : p = Engine!Rejected(code)
        BY <2>2 DEF Errors
      <3>2. p.state # "resolved"
        BY <3>1 DEF Engine!Rejected
      <3> QED BY <3>1, <3>2, Zenon DEF VerifyDone, Verdict
    <2> QED BY <1>2, <1>7, <2>1, <2>2 DEF VerifyAsks
  <1>9. /\ subject[v].of \in Made' \cup DOMAIN Stored
        /\ Maker(subject[v].of)' = maker
        /\ FieldsOf(subject[v].of)' = FieldsOf(subject[v].of)
    <2>1. PICK of \in Made \cup DOMAIN Stored : of = subject[v].of
      BY <1>7
    <2>2. /\ of \in Made' \cup DOMAIN Stored /\ Maker(of)' = Maker(of)
          /\ FieldsOf(of)' = FieldsOf(of)
      BY <1>3, <1>6, MadeStays
    <2>3. Maker(subject[v].of)' = Maker(of)' /\ FieldsOf(subject[v].of)' = FieldsOf(of)'
      BY <1>2, <2>1 DEF Maker, FieldsOf
    <2> QED BY <1>1, <2>1, <2>2, <2>3
  <1>10. VerifyInv(v)'
    <2>1. Foreign(FieldsOf(subject[v].of), "done", p, a)
      BY <1>7, Zenon DEF Foreign
    <2> QED BY <1>1, <1>2, <1>5, <1>7, <1>8, <1>9, <2>1 DEF VerifyInv, VerifyOk, Stages
  <1> QED BY <1>3, <1>6, <1>10, StepKeeps

(* The engine settles a promise. *)
LEMMA EngineSettlesStep ==
    ASSUME IInv, NEW c \in Callers, EngineSettles(c)
    PROVE  IInv'
  <1>1. /\ asked[c] # Engine!NoArguments /\ promise[c] = Engine!Pending /\ asked' = asked
        /\ request' = request /\ heap' = heap /\ subject' = subject
        /\ stage' = stage /\ settled' = settled
    BY DEF EngineSettles, Engine!Settle
  <1>2. PICK p : /\ promise' = [promise EXCEPT ![c] = p]
                 /\ p \in {Engine!Resolved(Engine!Answer(asked[c]))} \cup Errors
    <2>1. CASE promise' = [promise EXCEPT ![c] = Engine!Resolved(Engine!Answer(asked[c]))]
      BY <2>1
    <2>2. CASE \E code \in EngineErrors : promise' = [promise EXCEPT ![c] = Engine!Rejected(code)]
      <3>1. PICK code \in EngineErrors : promise' = [promise EXCEPT ![c] = Engine!Rejected(code)]
        BY <2>2
      <3>2. Engine!Rejected(code) \in Errors
        BY DEF Errors
      <3> QED BY <3>1, <3>2
    <2> QED BY <2>1, <2>2 DEF EngineSettles, Engine!Settle
  <1>3. Shape /\ DOMAIN promise = Callers
    BY DEF IInv, Shape
  <1>4. promise'[c] = p
    BY <1>2, <1>3
  <1>5. StepOf(c)
    <2>1. DOMAIN promise' = Callers /\ \A d \in Callers \ {c} : promise'[d] = promise[d]
      BY <1>2, <1>3
    <2> QED BY <1>1, <1>3, <2>1 DEF StepOf, Shape
  <1>6. ASSUME c \in Hashes PROVE HashInv(c)'
    <2>1. HashInv(c)
      BY <1>6 DEF IInv
    <2>2. stage[c] # "idle"
      BY <1>1, <2>1 DEF HashInv, HashOk
    <2>3. ASSUME stage[c] = "awaiting"
          PROVE  HashAwaits(request[c], heap[c], asked[c], p)
      <3>1. HashAwaits(request[c], heap[c], asked[c], promise[c])
        BY <2>1, <2>3 DEF HashInv, HashOk
      <3>2. asked[c] = HashArguments(request[c])
        BY <3>1 DEF HashAwaits
      <3>3. asked[c].kind = "hash"
        BY <3>2, ArgumentsAre, ZenonT(60)
      <3>4. Engine!Answer(asked[c]) = Engine!TagOf(asked[c])
        BY <3>3 DEF Engine!Answer
      <3> QED BY <1>2, <3>1, <3>4 DEF HashAwaits
    <2> QED BY <1>1, <1>4, <2>1, <2>2, <2>3 DEF HashInv, HashOk
  <1>7. ASSUME c \in Verifies PROVE VerifyInv(c)'
    <2>1. VerifyInv(c)
      BY <1>7 DEF IInv
    <2>2. stage[c] # "idle"
      BY <1>1, <2>1 DEF VerifyInv, VerifyOk
    <2>3. /\ Maker(subject[c].of)' = Maker(subject[c].of) /\ Made' = Made
          /\ FieldsOf(subject[c].of)' = FieldsOf(subject[c].of)
      BY <1>1 DEF Maker, Made, FieldsOf
    <2>4. VerifyAsks(subject[c].attempt, asked[c], promise[c], Maker(subject[c].of))
      BY <1>1, <2>1 DEF VerifyInv, VerifyOk
    <2>5. VerifyAsks(subject[c].attempt, asked[c], p, Maker(subject[c].of))
      BY <1>2, <2>4 DEF VerifyAsks
    <2> QED BY <1>1, <1>4, <2>1, <2>2, <2>3, <2>5 DEF VerifyInv, VerifyOk
  <1> QED BY <1>5, <1>6, <1>7, StepKeeps

LEMMA NextInv ==
    ASSUME IInv, [Next]_vars
    PROVE  IInv'
  <1>1. CASE \E q \in Hashes, o \in Requests : HashCall(q, o)
    BY <1>1, HashCallStep
  <1>2. CASE \E q \in Hashes, name \in Writable : CallerWrites(q, name)
    BY <1>2, CallerWritesStep
  <1>3. CASE \E v \in Verifies, of \in Made \cup DOMAIN Stored, attempt \in Attempts :
               VerifyCall(v, of, attempt)
    BY <1>3, VerifyCallStep
  <1>4. CASE \E c \in Callers : EngineSettles(c) \/ Resume(c)
    BY <1>4, EngineSettlesStep, HashResumeStep, VerifyResumeStep DEF Resume
  <1>5. CASE UNCHANGED vars
    <2>1. /\ request' = request /\ heap' = heap /\ subject' = subject /\ stage' = stage
          /\ settled' = settled /\ asked' = asked /\ promise' = promise
      BY <1>5 DEF vars
    <2>2. Made' = Made /\ \A of : Maker(of)' = Maker(of)
      BY <2>1 DEF Made, Maker
    <2>3. ASSUME NEW q \in Hashes PROVE HashInv(q)'
      BY <2>1 DEF IInv, HashInv
    <2>4. ASSUME NEW v \in Verifies PROVE VerifyInv(v)'
      <3>1. VerifyInv(v)
        BY DEF IInv
      <3>2. /\ Maker(subject[v].of)' = Maker(subject[v].of)
            /\ FieldsOf(subject[v].of)' = FieldsOf(subject[v].of)
        BY <2>1 DEF Maker, FieldsOf
      <3> QED BY <2>1, <2>2, <3>1, <3>2 DEF VerifyInv
    <2> QED BY <2>1, <2>3, <2>4 DEF IInv, Shape
  <1> QED BY <1>1, <1>2, <1>3, <1>4, <1>5 DEF Next, AllDone

LEMMA InvariantHolds == Spec => []IInv
  <1>1. Init => IInv
    BY InitInv
  <1>2. IInv /\ [Next]_vars => IInv'
    BY NextInv
  <1> QED BY <1>1, <1>2, PTL DEF Spec

-----------------------------------------------------------------------------
(* The engine is never asked by verify for more than the caller's limits. *)
THEOREM LimitsCheckedFirst == Spec => []LimitsBeforeWork
  <1>1. IInv => LimitsBeforeWork
    <2> SUFFICES ASSUME IInv, NEW v \in Verifies, asked[v] # Engine!NoArguments
                 PROVE  Limited(asked[v], subject[v].attempt.limits)
      BY DEF LimitsBeforeWork, Limited
    <2>1. VerifyInv(v)
      BY DEF IInv
    <2> QED BY <2>1 DEF VerifyInv, VerifyOk, VerifyAsks
  <1> QED BY <1>1, InvariantHolds, PTL

(* A digest that Argon2 has not made never matches.  If it names another      *)
(* scheme and can be parsed, the engine is not asked and the answer is false, *)
(* but for the name that every object inherits.                               *)
THEOREM StrangersAnswered == Spec => []StrangersGetFalse
  <1>1. IInv => StrangersGetFalse
    <2> SUFFICES ASSUME IInv, NEW v \in Verifies, stage[v] = "done",
                        Maker(subject[v].of) = None,
                        NEW d, d = deserialize(FieldsOf(subject[v].of))
                 PROVE  /\ settled[v] # Engine!Resolved(Engine!Match(TRUE))
                        /\ (~Failed(d) /\ d.id \notin DOMAIN types) =>
                             /\ asked[v] = Engine!NoArguments
                             /\ d.id \in Inherited
                                  \/ settled[v] = Engine!Resolved(Engine!Match(FALSE))
      BY Zenon DEF StrangersGetFalse
    <2>1. VerifyInv(v)
      BY DEF IInv
    <2>2. settled[v].state = "resolved" => settled[v].value = Engine!Match(FALSE)
      BY <2>1 DEF VerifyInv, VerifyOk, VerifyDone
    <2>3. settled[v] # Engine!Resolved(Engine!Match(TRUE))
      <3>1. Engine!Match(TRUE) # Engine!Match(FALSE)
        BY DEF Engine!Match
      <3>2. /\ Engine!Resolved(Engine!Match(TRUE)).state = "resolved"
            /\ Engine!Resolved(Engine!Match(TRUE)).value = Engine!Match(TRUE)
        BY DEF Engine!Resolved
      <3> QED BY <2>2, <3>1, <3>2, Zenon
    <2>4. Foreign(FieldsOf(subject[v].of), "done", settled[v], asked[v])
      BY <2>1 DEF VerifyInv
    <2> QED BY <2>3, <2>4, Zenon DEF Foreign
  <1> QED BY <1>1, InvariantHolds, PTL

(* needsRehash says of a digest that hash has made, whatever the salt, the    *)
(* data and the costs, or that is on record, with or without its version,     *)
(* exactly whether its costs or its version are others than those in use.     *)
THEOREM RehashExact == Spec => []RehashAgrees
  <1>1. ASSUME NEW fields, NEW r, NEW salt, NEW data, NEW tag, NEW o,
               Readable(deserialize(fields), r, salt, data, tag)
        PROVE  needsRehash(fields, o) <=>
                 \/ r.version # o.version \/ r.memoryCost # o.memoryCost
                 \/ r.timeCost # o.timeCost \/ r.parallelism # o.parallelism
    <2>1. PICK d : d = deserialize(fields)
      OBVIOUS
    <2>2. /\ version_of(d) = r.version /\ number(param(d, "m")) = r.memoryCost
          /\ number(param(d, "t")) = r.timeCost /\ number(param(d, "p")) = r.parallelism
      BY <1>1, <2>1 DEF Readable, CostsRead
    <2> QED BY <2>1, <2>2, Zenon DEF needsRehash
  <1>2. IInv => RehashAgrees
    <2> SUFFICES ASSUME IInv, NEW o \in Requests,
                        NEW of \in Made \cup {s \in DOMAIN Stored : Stored[s].maker # None}
                 PROVE  needsRehash(FieldsOf(of), o) <=>
                          \/ Maker(of).version # o.version
                          \/ Maker(of).memoryCost # o.memoryCost
                          \/ Maker(of).timeCost # o.timeCost
                          \/ Maker(of).parallelism # o.parallelism
      BY Zenon DEF RehashAgrees
    <2>1. CASE of \in Made
      <3>1. PICK r, h, f, tag :
              /\ r = request[of] /\ h = heap[of] /\ f = settled[of].value.fields
              /\ tag = Engine!TagOf(HashArguments(r))
        OBVIOUS
      <3>2. /\ ~OutOfBounds(HashArguments(r)) /\ Accepted(r, h.associatedData)
            /\ f = Fields(r, h.salt, h.associatedData, tag) /\ of \in Hashes
        BY <2>1, <3>1, MadeIsDone DEF Written
      <3>3. Priced(r) /\ 19 \in 0 .. MaxSafe
        BY <3>2, InBounds
      <3>4. Readable(deserialize(f), r, h.salt, h.associatedData, tag)
        BY <3>1, <3>2, <3>3, ReadBack
      <3>5. f = FieldsOf(of) /\ r = Maker(of)
        BY <3>1, <3>2 DEF FieldsOf, Maker
      <3>6. needsRehash(f, o) <=>
              \/ r.version # o.version \/ r.memoryCost # o.memoryCost
              \/ r.timeCost # o.timeCost \/ r.parallelism # o.parallelism
        BY <1>1, <3>4
      <3> QED BY <3>5, <3>6
    <2>2. CASE of \in DOMAIN Stored /\ Stored[of].maker # None
      <3>1. of \notin Hashes
        BY <2>2, CallsAssumption
      <3>2. Genuine(Stored[of].maker, Stored[of].fields)
        BY <2>2, StoredGenuine
      <3>3. FieldsOf(of) = Stored[of].fields /\ Maker(of) = Stored[of].maker
        BY <3>1 DEF FieldsOf, Maker
      <3>4. PICK r, f : r = Stored[of].maker /\ f = Stored[of].fields
        OBVIOUS
      <3>5. PICK salt, data, tag : Readable(deserialize(f), r, salt, data, tag)
        BY <3>2, <3>4 DEF Genuine
      <3>6. needsRehash(f, o) <=>
              \/ r.version # o.version \/ r.memoryCost # o.memoryCost
              \/ r.timeCost # o.timeCost \/ r.parallelism # o.parallelism
        BY <1>1, <3>5
      <3> QED BY <3>3, <3>4, <3>6
    <2> QED BY <2>1, <2>2
  <1> QED BY <1>2, InvariantHolds, PTL

(* While the caller overwrites no Buffer but the password's, and the base64   *)
(* text of no associated data is a decimal number, verify answers true for    *)
(* exactly the password and the secret a digest was made with, and fails only *)
(* for the engine's errors or the caller's limits.  Without the second        *)
(* hypothesis the code is wrong: it reads such data back as a number and      *)
(* drops it.                                                                  *)
THEOREM DigestsVerify ==
    ASSUME Writable \subseteq {"password"},
           \A o \in Requests : textOf(o.associatedData) \notin Decimals
    PROVE  Spec => []DigestVerifies
  <1>1. Faithful
    BY DEF Faithful, Undisturbed
  <1>2. IInv => DigestVerifies
    <2> SUFFICES ASSUME IInv, NEW v \in Verifies, stage[v] = "done",
                        Maker(subject[v].of) # None
                 PROVE  Verdict(settled[v], subject[v].attempt, Maker(subject[v].of))
      BY Zenon DEF DigestVerifies, Verdict, Right, Above
    <2>1. VerifyInv(v)
      BY DEF IInv
    <2> QED BY <1>1, <2>1 DEF VerifyInv, VerifyOk, VerifyDone
  <1> QED BY <1>2, InvariantHolds, PTL
=============================================================================
