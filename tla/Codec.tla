------------------------------- MODULE Codec --------------------------------
(* The character level of encoding.c: to_base64, from_base64 and              *)
(* decode_decimal, character by character.  A character is its code, as a     *)
(* char that is signed (x86, and most other compilers): bytes from 0x80 up    *)
(* are negative.                                                              *)
EXTENDS Integers, Sequences, SequencesExt, FiniteSetsExt

CONSTANTS
    ULONG_MAX,      \* the largest unsigned long
    AccWord,        \* 2^32, the modulus of the accumulator, an unsigned
    CodecCalls      \* the calls: function, source and dst_len

ASSUME CodecAssumption ==
    /\ ULONG_MAX \in Nat
    /\ \E w \in 12 .. 32 : AccWord = 2 ^ w
    /\ \A call \in CodecCalls : call.src \in Seq(Int) /\ call.dst_len \in Nat

-----------------------------------------------------------------------------
(* Comparisons by masks: "These work over values in the 0..255 range".  They  *)
(* use bits 8 to 15 of a difference, so 16 bits of an unsigned are kept.      *)
unsigned(x) == x % 65536
bit(x, n) == (x \div 2 ^ n) % 2
bits(x, y, both(_, _)) ==
    MapThenSumSet(LAMBDA n : 2 ^ n * both(bit(x, n), bit(y, n)), 0 .. 15)
xor(x, y) == bits(x, y, LAMBDA a, b : (a + b) % 2)
or(x, y) == bits(x, y, LAMBDA a, b : IF a + b > 0 THEN 1 ELSE 0)

(* The masks 0xFF and 0x00 as truth values; mask & value. *)
mask(m, value) == IF m THEN value ELSE 0

EQ(x, y) == (unsigned(0 - xor(unsigned(x), unsigned(y))) \div 256) % 256 = 0
GT(x, y) == (unsigned(y - x) \div 256) % 256 # 0
GE(x, y) == ~GT(y, x)
LT(x, y) == GT(y, x)
LE(x, y) == GE(y, x)

b64_byte_to_char(x) ==
    or(or(mask(LT(x, 26), x + 65), mask(GE(x, 26) /\ LT(x, 52), x + 71)),
       or(mask(GE(x, 52) /\ LT(x, 62), x - 4),
          or(mask(EQ(x, 62), 43), mask(EQ(x, 63), 47))))

b64_char_to_byte(c) ==
    LET x == or(or(mask(GE(c, 65) /\ LE(c, 90), c - 65),
                   mask(GE(c, 97) /\ LE(c, 122), c - 71)),
                or(mask(GE(c, 48) /\ LE(c, 57), c + 4),
                   or(mask(EQ(c, 43), 62), mask(EQ(c, 47), 63))))
    IN  or(x, mask(EQ(x, 0) /\ ~EQ(c, 65), 255))

(* The two functions, tabulated. *)
Chars == -128 .. 127
CharOf == [x \in 0 .. 63 |-> b64_byte_to_char(x)]
ByteOf == [c \in Chars |-> b64_char_to_byte(c)]

(* The length of the text of len bytes, without the terminating zero. *)
olen_always_two(len) == 4 * (len \div 3) + (IF len % 3 = 0 THEN 0 ELSE 2)
olen(len) ==
    4 * (len \div 3) + (CASE len % 3 = 0 -> 0 [] len % 3 = 1 -> 2 [] len % 3 = 2 -> 3)

-----------------------------------------------------------------------------
VARIABLES
    fn,             \* the function that is called
    src,            \* the source: bytes, or the characters of a string
    dst_len,        \* the size of the destination
    pos,            \* how much of src has been read
    dst,            \* what has been written
    acc, acc_len,   \* the accumulator, and how many of its bits are pending
    ret             \* "none" while it runs, then "NULL" or "ok"

codecVars == <<fn, src, dst_len, pos, dst, acc, acc_len, ret>>

Running(f) == fn = f /\ ret = "none"
Returned(code) == ret' = code /\ UNCHANGED <<fn, src, dst_len>>
GoOn == UNCHANGED <<fn, src, dst_len, ret>>

(* The terminating zero is read at the end of a string. *)
char == IF pos < Len(src) THEN src[pos + 1] ELSE 0

CodecStart ==
    /\ pos = 0 /\ dst = <<>> /\ acc = 0 /\ acc_len = 0 /\ ret = "none"
CodecInit ==
    /\ CodecStart
    /\ \E call \in CodecCalls :
          fn = call.fn /\ src = call.src /\ dst_len = call.dst_len

(* to_base64: the size is checked first; a byte puts 8 bits into the          *)
(* accumulator, a character takes 6, the last one what is left.               *)
Refuse ==
    /\ Running("to_base64") /\ pos = 0
    /\ dst_len <= olen(Len(src))
    /\ Returned("NULL")
    /\ UNCHANGED <<pos, dst, acc, acc_len>>

Fits == dst_len > olen(Len(src))

PutByte ==
    /\ Running("to_base64") /\ Fits
    /\ acc_len < 6 /\ pos < Len(src)
    /\ acc' = (acc * 256 + src[pos + 1]) % AccWord
    /\ acc_len' = acc_len + 8
    /\ pos' = pos + 1
    /\ GoOn /\ UNCHANGED dst

TakeChar ==
    /\ Running("to_base64") /\ Fits
    /\ acc_len >= 6
    /\ acc_len' = acc_len - 6
    /\ dst' = Append(dst, CharOf[(acc \div 2 ^ (acc_len - 6)) % 64])
    /\ GoOn /\ UNCHANGED <<pos, acc>>

TakeRest ==
    /\ Running("to_base64") /\ Fits
    /\ acc_len < 6 /\ pos = Len(src)
    /\ dst' = IF acc_len > 0 THEN Append(dst, CharOf[(acc * 2 ^ (6 - acc_len)) % 64])
                             ELSE dst
    /\ Returned("ok")
    /\ UNCHANGED <<pos, acc, acc_len>>

(* from_base64: a character puts 6 bits, a byte takes 8; a byte for which     *)
(* there is no room, or bits left over at the end, are errors.                *)
full_off_by_one == Len(dst) > dst_len
full == Len(dst) >= dst_len

PutChar ==
    LET d == ByteOf[char]
        filled == (acc * 64 + d) % AccWord
        left == acc_len + 6 - 8
    IN  /\ Running("from_base64")
        /\ d # 255
        /\ acc' = filled
        /\ pos' = pos + 1
        /\ \/ /\ left < 0
              /\ acc_len' = acc_len + 6
              /\ GoOn /\ UNCHANGED dst
           \/ /\ left >= 0 /\ full
              /\ acc_len' = left
              /\ Returned("NULL") /\ UNCHANGED dst
           \/ /\ left >= 0 /\ ~full
              /\ acc_len' = left
              /\ dst' = Append(dst, (filled \div 2 ^ left) % 256)
              /\ GoOn

leftover == acc_len > 4 \/ acc % 2 ^ acc_len # 0

StopChar ==
    /\ Running("from_base64")
    /\ ByteOf[char] = 255
    /\ Returned(IF leftover THEN "NULL" ELSE "ok")
    /\ UNCHANGED <<pos, dst, acc, acc_len>>

(* decode_decimal: two checks keep acc from wrapping, and at the end the text *)
(* must be there and be minimal.                                              *)
isdigit(c) == c >= 48 /\ c <= 57
ulong(x) == x % (ULONG_MAX + 1)

too_large_multiplied_only(c) == acc > ULONG_MAX \div 10
too_large(c) ==
    \/ acc > ULONG_MAX \div 10
    \/ c - 48 > ULONG_MAX - ulong(acc * 10)

PutDigit ==
    /\ Running("decode_decimal")
    /\ isdigit(char)
    /\ IF too_large(char)
       THEN Returned("NULL") /\ UNCHANGED <<pos, acc>>
       ELSE /\ acc' = ulong(ulong(acc * 10) + char - 48)
            /\ pos' = pos + 1
            /\ GoOn
    /\ UNCHANGED <<dst, acc_len>>

StopDigit ==
    /\ Running("decode_decimal")
    /\ ~isdigit(char)
    /\ Returned(IF pos = 0 \/ (src[1] = 48 /\ pos # 1) THEN "NULL" ELSE "ok")
    /\ UNCHANGED <<pos, dst, acc, acc_len>>

CodecNext ==
    \/ Refuse \/ PutByte \/ TakeChar \/ TakeRest
    \/ PutChar \/ StopChar
    \/ PutDigit \/ StopDigit

CodecSpec == CodecInit /\ [][CodecNext]_codecVars

-----------------------------------------------------------------------------
(* The reference: base64 by its bits, from the most significant one of the    *)
(* first byte on, with zeros up to a whole character; and decimals by value.  *)
Alphabet ==
    [x \in 0 .. 63 |-> CASE x < 26 -> 65 + x
                         [] x \in 26 .. 51 -> 97 + x - 26
                         [] x \in 52 .. 61 -> 48 + x - 52
                         [] x = 62 -> 43
                         [] x = 63 -> 47]
AlphabetChars == {Alphabet[x] : x \in 0 .. 63}
Digit(c) == CHOOSE x \in 0 .. 63 : Alphabet[x] = c

BitOf(units, width, n) == bit(units[(n \div width) + 1], width - 1 - (n % width))

Encodes(text, bytes) ==
    LET digits == [n \in DOMAIN text |-> Digit(text[n])]
        bytebits == 8 * Len(bytes)
    IN  /\ 6 * Len(text) - bytebits \in 0 .. 5
        /\ \A n \in 0 .. 6 * Len(text) - 1 :
              BitOf(digits, 6, n) = IF n < bytebits THEN BitOf(bytes, 8, n) ELSE 0

(* The longest beginning of src whose characters all satisfy a test. *)
Leading(Test(_)) ==
    LET ends == {n \in 0 .. Len(src) : \A k \in 1 .. n : Test(src[k])}
    IN  SubSeq(src, 1, Max(ends))

(* The values of the beginnings of a text of digits. *)
DecimalValues(text) ==
    LET value[n \in 0 .. Len(text)] ==
          IF n = 0 THEN 0 ELSE 10 * value[n - 1] + text[n] - 48
    IN  value

(* to_base64: the text is the encoding of the bytes, it is written exactly    *)
(* when there is room for it and the terminating zero, and while it is        *)
(* written no character is put past the room.                                 *)
EncodesExactly ==
    fn = "to_base64" =>
        /\ Len(dst) < dst_len \/ dst = <<>>
        /\ ret = "ok" => Encodes(dst, src) /\ Len(dst) = olen(Len(src))
        /\ ret = "NULL" <=> ret # "none" /\ dst_len <= olen(Len(src))

(* from_base64: it never writes past dst_len, and accepts exactly the texts   *)
(* that to_base64 writes of what fits: each byte string has one text.         *)
DecodesExactly ==
    fn = "from_base64" =>
        LET text == Leading(LAMBDA c : c \in AlphabetChars)
            length == (6 * Len(text)) \div 8
        IN  /\ Len(dst) <= dst_len
            /\ ret = "ok" => Encodes(text, dst) /\ pos = Len(text)
            /\ ret = "NULL" =>
                 \/ length > dst_len
                 \/ Len(text) % 4 = 1
                 \/ \E n \in 8 * length .. 6 * Len(text) - 1 :
                       BitOf([k \in DOMAIN text |-> Digit(text[k])], 6, n) = 1

(* encoding.c, "Decoding stops when a non-Base64 character is encountered":   *)
(* from_base64 reads over characters of the alphabet only.                    *)
StopsAtNonBase64 ==
    fn = "from_base64" => \A n \in 1 .. pos : src[n] \in AlphabetChars

(* decode_decimal gives the value of the text, without a wrap, and refuses    *)
(* exactly the empty texts, the ones with extra leading zeros and the ones    *)
(* whose value is not an unsigned long.                                       *)
DecimalExact ==
    fn = "decode_decimal" /\ ret # "none" =>
        LET text == Leading(isdigit)
            value == DecimalValues(text)[Len(text)]
            minimal == text # <<>> /\ (Len(text) > 1 => text[1] # 48)
        IN  /\ ret = "ok" <=> minimal /\ value <= ULONG_MAX
            /\ ret = "ok" => acc = value /\ pos = Len(text)
=============================================================================
