------------------------------ MODULE Encoding -------------------------------
(* The strings of the C interface (encoding.c):                               *)
(*                                                                            *)
(*     $argon2<T>[$v=<num>]$m=<num>,t=<num>,p=<num>$<bin>$<bin>               *)
(*                                                                            *)
(* A string is the sequence of its fields, between "$" signs: a literal, a    *)
(* list of <<name, number>>, or binary data.  A number that decode_decimal    *)
(* refuses is NoNumber, and data that from_base64 refuses is marked as bad;   *)
(* data may be followed by further characters (tail), where from_base64       *)
(* stops.  Data that is not bad has one text for its bytes, except that where *)
(* char is signed a byte above 127 is read like "/": a text with such a byte  *)
(* in the place of some "/" is marked as high.  What the two functions accept *)
(* is the subject of Codec.                                                   *)
EXTENDS ValidateInputs, SequencesExt, FiniteSetsExt

Lit(text) == [is |-> "lit", text |-> text]
Nums(entries) == [is |-> "nums", entries |-> entries]
Bin(content, len) == [is |-> "bin", content |-> content, len |-> len,
                      bad |-> FALSE, tail |-> FALSE, high |-> FALSE]
NoNumber == -1

(* What the fields of a string are made of. *)
c_field(field) ==
    \/ field.is = "lit" /\ field = Lit(field.text)
    \/ /\ field.is = "nums" /\ field = Nums(field.entries)
       /\ field.entries \in Seq(STRING \X (Nat \cup {NoNumber}))
    \/ /\ field.is = "bin" /\ {field.bad, field.tail, field.high} \subseteq BOOLEAN
       /\ field = [Bin(field.content, field.len) EXCEPT
                     !.bad = field.bad, !.tail = field.tail, !.high = field.high]
       /\ field.len \in Nat
c_string(str) ==
    /\ Len(str) \in Nat /\ str = [n \in 1 .. Len(str) |-> str[n]]
    /\ \A n \in DOMAIN str : c_field(str[n])

VERSION_10 == 16
VERSION_NUMBER == 19    \* ARGON2_VERSION_13

(* A uint32_t holds a version, and has at most ten digits. *)
ASSUME WordAssumption == VERSION_NUMBER < Word /\ (Word - 1) \div 1000000000 < 10

argon2_type2string(type) ==
    CASE type = "d" -> "argon2d" [] type = "i" -> "argon2i"
      [] type = "id" -> "argon2id" [] OTHER -> NULL

(* strlen of a type string. *)
TypeLength(type) == IF type = "id" THEN 8 ELSE 7

(* How many characters sprintf "%lu" writes of a uint32_t, and to_base64 of   *)
(* so many bytes.                                                             *)
PowersOfTen == <<10, 100, 1000, 10000, 100000, 1000000, 10000000, 100000000, 1000000000>>
Sprintf(n) ==
    CHOOSE d \in 1 .. 10 : /\ d > 1 => PowersOfTen[d - 1] <= n
                           /\ d < 10 => n < PowersOfTen[d]
to_base64_length(len) == (8 * len + 5) \div 6

(* What b64len and numlen compute for them. *)
b64len(len) ==
    4 * (len \div 3) + (CASE len % 3 = 0 -> 0 [] len % 3 = 1 -> 2 [] len % 3 = 2 -> 3)

numlen[num \in Nat] == IF num >= 10 THEN 1 + numlen[num \div 10] ELSE 1

argon2_encodedlen(t_cost, m_cost, parallelism, saltlen, hashlen, type) ==
    15 + TypeLength(type) + numlen[t_cost] + numlen[m_cost] + numlen[parallelism]
       + b64len(saltlen) + b64len(hashlen) + numlen[VERSION_NUMBER] + 1

-----------------------------------------------------------------------------
(* encode_string writes these pieces, as long as each leaves room for the     *)
(* terminating zero.                                                          *)
Pieces(c, type) ==
    << 1, TypeLength(type), 3, Sprintf(c.version), 3, Sprintf(c.m_cost),
       3, Sprintf(c.t_cost), 3, Sprintf(c.lanes), 1, to_base64_length(c.saltlen),
       1, to_base64_length(c.outlen) >>

(* The length of the first n pieces, for each n. *)
Sums(pieces) ==
    LET sum[n \in 0 .. Len(pieces)] == IF n = 0 THEN 0 ELSE sum[n - 1] + pieces[n]
    IN  sum
SumOf(pieces) == Sums(pieces)[Len(pieces)]

fits_without_zero(pieces, dst_len) == \A n \in DOMAIN pieces : Sums(pieces)[n] <= dst_len
fits(pieces, dst_len) == \A n \in DOMAIN pieces : Sums(pieces)[n] < dst_len

(* The content of context->out is passed beside the context. *)
Encoded(c, tag, type) ==
    << Lit(argon2_type2string(type)), Nums(<< <<"v", c.version>> >>),
       Nums(<< <<"m", c.m_cost>>, <<"t", c.t_cost>>, <<"p", c.lanes>> >>),
       Bin(c.salt, c.saltlen), Bin(tag, c.outlen) >>

encode_string(dst_len, c, type) ==
    IF argon2_type2string(type) = NULL THEN "ARGON2_ENCODING_FAIL"
    ELSE IF validate_inputs(c) # "ARGON2_OK" THEN validate_inputs(c)
    ELSE IF fits(Pieces(c, type), dst_len) THEN "ARGON2_OK"
    ELSE "ARGON2_ENCODING_FAIL"

(* The length of a string. *)
FieldLength(field) ==
    CASE field.is = "lit" -> IF field.text = "argon2id" THEN 8 ELSE 7
      [] field.is = "bin" -> to_base64_length(field.len) + (IF field.tail THEN 1 ELSE 0)
      [] field.is = "nums" ->
           SumOf([n \in DOMAIN field.entries |-> 3 + Sprintf(field.entries[n][2])]) - 1

Strlen(str) == SumOf([n \in DOMAIN str |-> 1 + FieldLength(str[n])])

-----------------------------------------------------------------------------
(* decode_string, given the context c with the password, and the sizes of its *)
(* salt and output buffers in saltlen and outlen.                             *)

decimal_u32(n) == n # NoNumber /\ n < Word
versioned(str) ==
    Len(str) >= 2 /\ str[2].is = "nums" /\ str[2].entries[1][1] = "v"

(* The fields after the type and the version. *)
Rest(str) == SubSeq(str, IF versioned(str) THEN 3 ELSE 2, Len(str))

isVersionField(field) ==
    Len(field.entries) = 1 /\ decimal_u32(field.entries[1][2])
isCosts(field) ==
    /\ field.is = "nums"
    /\ [n \in DOMAIN field.entries |-> field.entries[n][1]] = <<"m", "t", "p">>
    /\ \A n \in DOMAIN field.entries : decimal_u32(field.entries[n][2])
isBin(field, max_len) ==
    field.is = "bin" /\ ~field.bad /\ field.len <= max_len

WellFormed(str, c, type) ==
    /\ str # <<>> /\ str[1] = Lit(argon2_type2string(type))
    /\ versioned(str) => isVersionField(str[2])
    /\ Len(Rest(str)) >= 3
    /\ isCosts(Rest(str)[1])
    /\ isBin(Rest(str)[2], c.saltlen) /\ ~Rest(str)[2].tail
    /\ isBin(Rest(str)[3], c.outlen)

(* The default version, and the fields that are not in the string. *)
version_default_latest(str) ==
    IF versioned(str) THEN str[2].entries[1][2] ELSE VERSION_NUMBER
version_default(str) ==
    IF versioned(str) THEN str[2].entries[1][2] ELSE VERSION_10

DecodedContext(str, c) ==
    LET costs == Rest(str)[1].entries
    IN  [c EXCEPT !.version = version_default(str),
                  !.m_cost = costs[1][2], !.t_cost = costs[2][2],
                  !.lanes = costs[3][2], !.threads = costs[3][2],
                  !.salt = Rest(str)[2].content, !.saltlen = Rest(str)[2].len,
                  !.outlen = Rest(str)[3].len,
                  !.secret = NULL, !.secretlen = 0, !.ad = NULL, !.adlen = 0,
                  !.allocate_cbk = NULL, !.free_cbk = NULL, !.flags = {}]

DecodedOut(str) == Rest(str)[3].content

trailing_fields_ignored(str) == Rest(str)[3].tail
trailing(str) == Rest(str)[3].tail \/ Len(Rest(str)) > 3

decode_string(str, c, type) ==
    IF argon2_type2string(type) = NULL THEN "ARGON2_INCORRECT_TYPE"
    ELSE IF ~WellFormed(str, c, type) THEN "ARGON2_DECODING_FAIL"
    ELSE IF validate_inputs(DecodedContext(str, c)) # "ARGON2_OK"
    THEN validate_inputs(DecodedContext(str, c))
    ELSE IF trailing(str) THEN "ARGON2_DECODING_FAIL"
    ELSE "ARGON2_OK"
=============================================================================
