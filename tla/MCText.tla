------------------------------- MODULE MCText -------------------------------
(* Digests as text, over all inputs of small alphabets.  Phc: the objects     *)
(* given to serialize, and the field sequences given to deserialize, most of  *)
(* which serialize never writes.  Encoding: C strings, right and wrong in     *)
(* each field.  Codec: the texts its functions read, and the bytes they       *)
(* write, run character by character.  A behaviour is one of these inputs.    *)
EXTENDS Phc, Encoding, Codec

CONSTANTS
    MaxFields,          \* the longest field sequence that is tried
    MaxText,            \* the longest text that is decoded
    Letters             \* the characters of these texts

VARIABLE input

MCNames == {"argon2id", "argon2i", "argon2d", "m", "t", "p", "v", "constructor",
            "7", "124", "128"}
(* Digits that are no number's text, or that of a number that is not safe. *)
MCPadded == [text \in {"05", "999", "998"} |-> IF text = "05" THEN 5 ELSE 998]

Values == {Num(5), Str("5"), Str("x"), Str("05"), Buf("Zm9v"), Buf("124"), Str("")}
OneParam == {<< <<name, value>> >> : name \in Names \cup {"M"}, value \in Values}
TwoParams == {<< <<first, Num(5)>>, <<name, value>> >> :
                 first \in {"m", "124"}, name \in {"v", "7", "128"}, value \in Values}
Objects ==
    [id : {"argon2id", "m", "Argon2"}, version : {None, Num(0), Num(5)},
     params : {None} \cup {Params(list) : list \in {<<>>} \cup OneParam \cup TwoParams},
     salt : {None, Buf(""), Buf("c2FsdA")}, hash : {None, Buf("aGFzaA"), Buf("124")}]

Fields ==
    {Text(""), Text("argon2id"), B64("125", "124"), Other,
     Pairs(<< <<"v", "5">> >>), Pairs(<< <<"v", "05">> >>), Pairs(<< <<"v", "999">> >>),
     Pairs(<< <<"v", "x">> >>), Pairs(<< <<"m", "5">>, <<"m", "x">> >>),
     Pairs(<< <<"128", "5">>, <<"124", "05">>, <<"m", "x">>, <<"7", "7">> >>),
     Pairs(<< <<"m", "5">>, <<"v", "">> >>), Pairs(<< <<"constructor", "5">> >>)}

Marked(content, len, mark) == [Bin(content, len) EXCEPT ![mark] = TRUE]
CStrings ==
    {<<id>> \o version \o <<costs, salt, hash>> \o more :
        id \in {Lit("argon2id"), Lit("argon2i"), Lit("argon2")},
        version \in {<<>>} \cup {<<Nums(<< <<"v", n>> >>)>> :
                                     n \in {16, 19, NoNumber, Word}},
        costs \in {Nums(<< <<"m", 9>>, <<"t", 1>>, <<"p", p>> >>) : p \in {0, 1}}
                 \cup {Nums(<< <<"t", 1>>, <<"m", 9>>, <<"p", 1>> >>),
                       Nums(<< <<"m", 9>>, <<"t", 1>>, <<"p", 1>>, <<"data", 5>> >>)},
        salt \in {Bin("c2FsdA", 4), Bin("c2Fs", 3), Marked("c2Fsd", 3, "bad"),
                 Marked("c2FsdA", 4, "tail"), Marked("c2Fs/w", 4, "high")},
        hash \in {Bin("aGFzaA", 4), Bin("aGFzaGhhc2g", 8), Marked("aGFzaA", 4, "tail"),
                 Marked("aGF/aA", 4, "high")},
        more \in {<<>>, <<Bin("124", 2)>>}}

(* The context argon2_verify decodes into, with buffers of so many bytes. *)
Buffers == 6
Blank == [out |-> SET, outlen |-> Buffers, pwd |-> SET, pwdlen |-> 1,
          salt |-> SET, saltlen |-> Buffers, secret |-> SET, secretlen |-> 1,
          ad |-> SET, adlen |-> 1, m_cost |-> 0, t_cost |-> 0, lanes |-> 0,
          threads |-> 0, allocate_cbk |-> NULL, free_cbk |-> SET,
          flags |-> {"CLEAR_PASSWORD"}, version |-> 0]

Inputs == [call : {"serialize"}, object : Objects]
          \cup [call : {"deserialize"}, fields : SeqOf(Fields, MaxFields)]
          \cup [call : {"decode_string"}, str : CStrings, type : {"i", "id", "none"}]

-----------------------------------------------------------------------------
(* What phc.ts must know of what the C code writes: the numbers of a uint32_t *)
(* and these names.                                                           *)
SharedNames == {"argon2d", "argon2i", "argon2id", "m", "t", "p"}
ASSUME SharedAssumption == Word - 1 <= MaxSafe /\ SharedNames \subseteq Names

(* The fields of strings: words, and what they decode to, lists of one or     *)
(* more name=value pairs, and everything else.                                *)
pairs_of(entries) ==
    /\ Len(entries) \in Nat \ {0}
    /\ entries = [n \in 1 .. Len(entries) |-> <<entries[n][1], entries[n][2]>>]
phc_field(field) ==
    \/ field.is = "word" /\ field = B64(field.text, field.bytes)
    \/ field.is = "pairs" /\ field = Pairs(field.entries) /\ pairs_of(field.entries)
    \/ field = Other

(* A string of such fields. *)
phc_string(fields) ==
    /\ Len(fields) \in Nat /\ fields = [n \in 1 .. Len(fields) |-> fields[n]]
    /\ \A n \in 1 .. Len(fields) : phc_field(fields[n])

(* The objects given to serialize: params are the own properties of an        *)
(* object, so their names differ.                                             *)
param_list(list) ==
    /\ Len(list) \in Nat /\ list = [n \in 1 .. Len(list) |-> list[n]]
    /\ \A n, k \in 1 .. Len(list) : list[n][1] = list[k][1] => n = k
phc_object(o) ==
    /\ o = [id |-> o.id, version |-> o.version, params |-> o.params,
            salt |-> o.salt, hash |-> o.hash]
    /\ o.version = None \/ \E n \in 0 .. MaxSafe : o.version = Num(n)
    /\ o.params = None \/ (o.params = Params(o.params.list) /\ param_list(o.params.list))
    /\ o.salt = None \/ o.salt = Buf(o.salt.text)
    /\ o.hash = None \/ o.hash = Buf(o.hash.text)

(* All inputs are of these kinds. *)
ASSUME InputsAssumption ==
    \A i \in Inputs : /\ i.call = "serialize" => phc_object(i.object)
                      /\ i.call = "deserialize" => phc_string(i.fields)
                      /\ i.call = "decode_string" => c_string(i.str)

-----------------------------------------------------------------------------
(* All single bytes and single characters, and longer texts. *)
MCCodecCalls ==
    [fn : {"to_base64"}, dst_len : 0 .. 7,
     src : SeqOf({0, 1, 129, 255}, 4) \cup {<<x>> : x \in 0 .. 255}]
    \cup [fn : {"from_base64"}, dst_len : 0 .. 4,
          src : SeqOf(Letters, MaxText) \cup {<<c, 65>> : c \in 1 .. 127}]
    \cup [fn : {"decode_decimal"}, dst_len : {0},
          src : SeqOf({48, 49, 51, 55, 56, 120}, 4)]

(* A letter, "/" and a byte of a character that is not ASCII. *)
HighLetters == {65, 47, -61}

NoInput == [call |-> "none"]
Init ==
    \/ input \in Inputs /\ CodecStart /\ fn = "none" /\ src = <<>> /\ dst_len = 0
    \/ input = NoInput /\ CodecInit
Next == CodecNext /\ UNCHANGED input
Spec == Init /\ [][Next]_<<input, codecVars>>

-----------------------------------------------------------------------------
(* What an object is expected to come back as: params lose the distinction    *)
(* between a number, a text and a Buffer, they are assigned in the order of   *)
(* the keys, and nothing else is lost.                                        *)
Normal(o) ==
    [o EXCEPT !.params =
        IF o.params = None THEN None
        ELSE LET list == keyed(o.params.list)
             IN  Params([n \in DOMAIN list |-> <<list[n][1], convert(toText(list[n][2]))>>])]

(* The objects whose text is also the text of something else, or of nothing:  *)
(* no params in an object that has some, a lone v in the place of the         *)
(* version, and a name that deserialize takes for a repetition.               *)
Ambiguous(o) ==
    /\ o.params # None
    /\ \/ o.params.list = <<>>
       \/ /\ o.version = None /\ Len(o.params.list) = 1
          /\ o.params.list[1][1] = "v" /\ toText(o.params.list[1][2]) \in Numerals
       \/ \E n \in DOMAIN o.params.list : o.params.list[n][1] \in Inherited

(* phc.ts, deserialize after serialize: what serialize accepts is read back,  *)
(* field by field and although fields are taken from both ends, as what was   *)
(* written, except for exactly the ambiguous objects.  (Versions are safe     *)
(* integers.)                                                                 *)
RoundTrip ==
    input.call = "serialize" =>
        LET written == serialize(input.object)
        IN  ~Failed(written) =>
              ((deserialize(written.fields) = Normal(input.object))
                  <=> ~Ambiguous(input.object))

(* What serialize writes for a field of a string that deserialize accepts:    *)
(* the version without its leading zeros, params in the order of the keys,    *)
(* and the canonical text of the bytes of a salt or a hash.  (Other fields it *)
(* does not accept.)                                                          *)
Rewritten(fields, n) ==
    CASE n = 1 -> Text(fields[1].text)
      [] n = 2 /\ isVersion(fields[2]) ->
           Pairs(<< <<"v", ToString(parseInt(fields[2].entries[1][2]))>> >>)
      [] n > 1 /\ fields[n].is = "word" -> Text(fields[n].bytes)
      [] OTHER -> IF fields[n].is = "pairs" THEN Pairs(keyed(fields[n].entries))
                                            ELSE fields[n]

(* phc.ts, serialize after deserialize: every string that deserialize accepts *)
(* is written again field by field, in place, although fields are taken from  *)
(* both ends: no field is dropped, moved or taken for another, no param is    *)
(* lost, and its value keeps its text.                                        *)
ParsesFaithfully ==
    input.call = "deserialize" =>
        LET fields == input.fields
            d == deserialize(fields)
        IN  ~Failed(d) =>
              /\ ~Failed(serialize(d))
              /\ serialize(d).fields = [n \in DOMAIN fields |-> Rewritten(fields, n)]

-----------------------------------------------------------------------------
(* A string with every "/" written as such. *)
High(field) == field.is = "bin" /\ field.high
Slashed(str) ==
    [n \in DOMAIN str |-> IF High(str[n]) THEN [str[n] EXCEPT !.high = FALSE] ELSE str[n]]

(* decode_string (encoding.c) of what it accepts is undone by encode_string,  *)
(* except that a version left out is written, and "/" for bytes above 127: no *)
(* part of a string is ignored, and strings that differ in more than these    *)
(* two ways do not mean the same.                                             *)
DecodesFaithfully ==
    input.call = "decode_string" =>
        LET str == Slashed(input.str)
            c == DecodedContext(input.str, Blank)
            written == Encoded(c, DecodedOut(input.str), input.type)
        IN  decode_string(input.str, Blank, input.type) = "ARGON2_OK" =>
              /\ str \in {written, <<written[1]>> \o SubSeq(written, 3, 5)}
              /\ str # written => c.version = VERSION_10
              /\ decode_string(written, Blank, input.type) = "ARGON2_OK"
              /\ DecodedContext(written, Blank) = c

(* A C string that decode_string accepts, as phc.ts sees it: a character that *)
(* is not ASCII is in no word.                                                *)
AsPhc(field) ==
    CASE field.is = "lit" -> Text(field.text)
      [] field.is = "nums" -> Pairs([n \in DOMAIN field.entries |->
                                <<field.entries[n][1], ToString(field.entries[n][2])>>])
      [] field.is = "bin" -> IF field.high THEN Other ELSE Text(field.content)

(* phc.ts and encoding.c on the strings that the C code accepts: phc.ts       *)
(* refuses exactly those with bytes above 127, and of the others the same     *)
(* type, costs, salt and hash are read, the same version where it is left out *)
(* (verify of index.ts takes 0x10), and serialize writes what encode_string   *)
(* writes.                                                                    *)
LanguagesAgree ==
    input.call = "decode_string"
      /\ decode_string(input.str, Blank, input.type) = "ARGON2_OK" =>
        LET str == input.str
            c == DecodedContext(str, Blank)
            fields == [n \in DOMAIN str |-> AsPhc(str[n])]
            d == deserialize(fields)
        IN  IF \E n \in DOMAIN str : High(str[n]) THEN Failed(d)
            ELSE /\ ~Failed(d)
                 /\ d.id = argon2_type2string(input.type)
                 /\ c.version = IF d.version = None THEN 16 ELSE d.version.n
                 /\ <<param(d, "m"), param(d, "t"), param(d, "p")>>
                      = <<Num(c.m_cost), Num(c.t_cost), Num(c.lanes)>>
                 /\ d.salt = Buf(c.salt) /\ d.hash = Buf(DecodedOut(str))
                 /\ serialize(d).fields = fields
=============================================================================
