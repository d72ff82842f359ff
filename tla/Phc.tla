-------------------------------- MODULE Phc ---------------------------------
(* phc.ts: serialize and deserialize for the PHC string format                *)
(*                                                                            *)
(*     $<id>[$v=<version>][$<param>=<value>(,...)*][$<salt>[$<hash>]]         *)
(*                                                                            *)
(* A PHC string is the sequence of its fields, a field either a word (what    *)
(* b64Regex accepts), or a list of name=value pairs, or something else, which *)
(* no regular expression accepts.  A Buffer is identified by its canonical    *)
(* text, unpadded base64, and a number by its decimal text: as texts, the two *)
(* overlap.                                                                   *)
EXTENDS Integers, Sequences, FiniteSets, TLC

CONSTANTS
    MaxSafe,        \* Number.MAX_SAFE_INTEGER
    MaxIndex,       \* the largest array index, 2^32 - 2
    Names,          \* the texts that satisfy idRegex and nameRegex
    Padded          \* what parseInt makes of digits that are not in Decimals:
                    \* with leading zeros, or beyond the safe integers

(* The texts of numbers are not empty and not the names index.ts uses, and    *)
(* they tell the numbers apart.                                               *)
ASSUME PhcAssumption ==
    /\ MaxSafe \in Nat /\ MaxIndex \in 0 .. MaxSafe
    /\ \A n \in 0 .. MaxSafe : ToString(n) \notin {"", "m", "t", "p", "data"}
    /\ \A n, k \in 0 .. MaxSafe : ToString(n) = ToString(k) => n = k
    /\ Padded = [text \in DOMAIN Padded |-> Padded[text]]
    /\ \A text \in DOMAIN Padded :
         text # "" /\ Padded[text] \in Nat /\ \A n \in 0 .. MaxSafe : text # ToString(n)

None == [is |-> "undefined"]
Num(n) == [is |-> "number", n |-> n]
Str(text) == [is |-> "string", text |-> text]
Buf(text) == [is |-> "Buffer", text |-> text]
Params(list) == [is |-> "params", list |-> list]

(* A word, with the canonical text of the bytes that Buffer.from makes of it, *)
(* which is lenient: "125" has the two bytes of "124", "Zm9-" the three of    *)
(* "Zm9+".                                                                    *)
B64(text, bytes) == [is |-> "word", text |-> text, bytes |-> bytes]
Text(text) == B64(text, text)
Pairs(entries) == [is |-> "pairs", entries |-> entries]
Other == [is |-> "other"]

TypeError == [error |-> "TypeError"]
Failed(x) == "error" \in DOMAIN x

(* The texts that decimalRegex accepts and that are safe integers (negative   *)
(* ones are left out), and the numbers they stand for.                        *)
Decimals == {ToString(n) : n \in 0 .. MaxSafe}
Value(text) == CHOOSE n \in 0 .. MaxSafe : ToString(n) = text

(* All texts of digits, which are what versionRegex accepts. *)
Numerals == Decimals \cup DOMAIN Padded
parseInt(text) == IF text \in Decimals THEN Value(text) ELSE Padded[text]

-----------------------------------------------------------------------------
(* serialize: params is a sequence of <<name, value>>, in the order in which  *)
(* they were assigned.                                                        *)

(* Object.keys has the names that are array indices first, by their values,   *)
(* and the others in the order of their assignment: keyed is the list in this *)
(* order, place where an entry comes in it.                                   *)
Indices == {ToString(n) : n \in 0 .. MaxIndex}

before(list, n, k) ==
    LET name(i) == list[i][1]
    IN  IF name(n) \in Indices
        THEN name(k) \in Indices => Value(name(n)) < Value(name(k))
        ELSE name(k) \notin Indices /\ n < k
place(list, n) == Cardinality({k \in DOMAIN list : before(list, k, n)}) + 1

keyed(list) ==
    [p \in DOMAIN list |-> list[CHOOSE n \in DOMAIN list : place(list, n) = p]]

toText(value) == IF value.is = "number" THEN ToString(value.n) ELSE value.text

Field(present, field) == IF present THEN <<field>> ELSE <<>>

(* No entries at all join to the empty text, which is a word. *)
ParamsField(list) ==
    IF list = <<>> THEN Text("")
    ELSE Pairs([n \in DOMAIN list |-> <<list[n][1], toText(list[n][2])>>])

BadParam(param) == param[1] \notin Names \/ toText(param[2]) = ""

serialize(o) ==
    IF \/ o.id \notin Names
       \/ o.hash # None /\ o.salt = None
       \/ o.params # None /\ \E n \in DOMAIN o.params.list : BadParam(o.params.list[n])
    THEN TypeError
    ELSE [fields |->
            <<Text(o.id)>>
            \o Field(o.version # None, Pairs(<< <<"v", toText(o.version)>> >>))
            \o Field(o.params # None, ParamsField(keyed(o.params.list)))
            \o Field(o.salt # None, Text(o.salt.text))
            \o Field(o.hash # None, Text(o.hash.text))]

-----------------------------------------------------------------------------
(* deserialize takes the fields from both ends: the id and the version from   *)
(* the front, hash and salt from the back, and what is left is the params.    *)

isVersion(field) ==
    /\ field.is = "pairs" /\ Len(field.entries) = 1
    /\ field.entries[1][1] = "v" /\ field.entries[1][2] \in Numerals

(* Decimal texts become numbers, other texts stay as they are. *)
convert(text) == IF text \in Decimals THEN Num(Value(text)) ELSE Str(text)

(* Params are refused with a bad or a repeated name; "name in params" also    *)
(* finds what every object inherits.                                          *)
Inherited == {"constructor"}

BadEntries(entries) ==
    \/ \E n \in DOMAIN entries :
          entries[n][1] \notin Names \ Inherited \/ entries[n][2] = ""
    \/ \E n, k \in DOMAIN entries : n # k /\ entries[n][1] = entries[k][1]

(* The trailing words of the fields rest, and what is left of it. *)
Trailing_hash_first(rest) ==
    LET n == Len(rest)
        word(k) == k \in 1 .. n /\ rest[k].is = "word"
    IN  CASE word(n) /\ word(n - 1) ->
               [left |-> SubSeq(rest, 1, n - 2),
                salt |-> Buf(rest[n - 1].bytes), hash |-> Buf(rest[n].bytes)]
          [] word(n) /\ ~word(n - 1) ->
               [left |-> SubSeq(rest, 1, n - 1),
                salt |-> None, hash |-> Buf(rest[n].bytes)]
          [] ~word(n) -> [left |-> rest, salt |-> None, hash |-> None]

Trailing(rest) ==
    LET n == Len(rest)
        word(k) == k \in 1 .. n /\ rest[k].is = "word"
    IN  CASE word(n) /\ word(n - 1) ->
               [left |-> SubSeq(rest, 1, n - 2),
                salt |-> Buf(rest[n - 1].bytes), hash |-> Buf(rest[n].bytes)]
          [] word(n) /\ ~word(n - 1) ->
               [left |-> SubSeq(rest, 1, n - 1),
                salt |-> Buf(rest[n].bytes), hash |-> None]
          [] ~word(n) -> [left |-> rest, salt |-> None, hash |-> None]

(* The last of what is left is the params; there must be nothing before it. *)
unrecognized_ignored(left) == FALSE
unrecognized(left) == Len(left) > 1

deserialize(fields) ==
    LET versioned == Len(fields) >= 2 /\ isVersion(fields[2])
        maxf == IF versioned THEN 5 ELSE 4
        tail == Trailing(SubSeq(fields, IF versioned THEN 3 ELSE 2, Len(fields)))
        left == tail.left
        last == left[Len(left)]
    IN  IF \/ fields = <<>>
           \/ Len(fields) > maxf
           \/ fields[1].is # "word" \/ fields[1].text \notin Names
           \/ left # <<>> /\ (last.is # "pairs" \/ BadEntries(last.entries))
           \/ unrecognized(left)
        THEN TypeError
        ELSE [id |-> fields[1].text,
              version |-> IF versioned THEN Num(parseInt(fields[2].entries[1][2]))
                                       ELSE None,
              params |-> IF left = <<>> THEN None
                         ELSE Params([n \in DOMAIN last.entries |->
                                        <<last.entries[n][1],
                                          convert(last.entries[n][2])>>]),
              salt |-> tail.salt, hash |-> tail.hash]

(* A param of a parsed string, by its name. *)
param(parsed, name) ==
    IF parsed.params = None THEN None
    ELSE LET hits == {n \in DOMAIN parsed.params.list : parsed.params.list[n][1] = name}
         IN  IF hits = {} THEN None
             ELSE parsed.params.list[CHOOSE n \in hits : TRUE][2]
=============================================================================
