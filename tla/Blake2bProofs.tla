---------------------------- MODULE Blake2bProofs ----------------------------
(* BLAKE2b for every size of blocks, digests and counters: the streaming      *)
(* functions give the hash of the whole message, however it is cut, and       *)
(* blake2b_long the variable-length hash of its definition.                   *)
EXTENDS Blake2bLong, SequenceTheorems, TLAPS

-----------------------------------------------------------------------------
(* Arithmetic: what is in n blocks, and the counter. *)

Upto(n) == n * BLOCKBYTES
Count(m) == <<m % Word64, (m \div Word64) % Word64>>

LEMMA UptoFacts ==
    /\ Upto(0) = 0
    /\ \A n \in Nat : Upto(n) \in Nat
    /\ \A n \in Nat : Upto(n + 1) = Upto(n) + BLOCKBYTES
    /\ \A k \in Nat : \A n \in Nat : k <= n => Upto(k) <= Upto(n)
  <1>1. \A n \in Nat : Upto(n) \in Nat
    BY Blake2bAssumption DEF Upto
  <1>2. \A n \in Nat : Upto(n + 1) = Upto(n) + BLOCKBYTES
    BY Blake2bAssumption DEF Upto
  <1>3. ASSUME NEW k \in Nat, NEW n \in Nat, k <= n PROVE Upto(k) <= Upto(n)
    BY <1>3, Blake2bAssumption DEF Upto
  <1>4. Upto(0) = 0
    BY Blake2bAssumption DEF Upto
  <1> QED BY <1>1, <1>2, <1>3, <1>4

LEMMA DivMod ==
    ASSUME NEW w \in Nat \ {0}, NEW m \in Nat
    PROVE  \E q \in Nat, r \in 0 .. w - 1 : m = w * q + r /\ m \div w = q /\ m % w = r
  <1>1. m \div w \in Nat
    OBVIOUS
  <1>2. m % w \in 0 .. w - 1
    OBVIOUS
  <1>3. m = w * (m \div w) + (m % w)
    BY SMTT(60)
  <1> QED BY <1>1, <1>2, <1>3

LEMMA DivModUnique ==
    ASSUME NEW w \in Nat \ {0}, NEW q \in Nat, NEW r \in 0 .. w - 1, NEW m, m = w * q + r
    PROVE  m \div w = q /\ m % w = r
  OBVIOUS

(* The last block of a message begins after a multiple of the block size. *)
LEMMA CountOfBlocks ==
    ASSUME NEW n \in Nat, NEW r \in 1 .. BLOCKBYTES
    PROVE  (Upto(n) + r + BLOCKBYTES - 1) \div BLOCKBYTES = n + 1
  <1>1. r - 1 \in 0 .. BLOCKBYTES - 1 /\ n + 1 \in Nat /\ BLOCKBYTES \in Nat \ {0}
    BY Blake2bAssumption
  <1>2. Upto(n) + r + BLOCKBYTES - 1 = BLOCKBYTES * (n + 1) + (r - 1)
    BY <1>1 DEF Upto
  <1>3. PICK m : m = Upto(n) + r + BLOCKBYTES - 1
    OBVIOUS
  <1>4. PICK q \in Nat, p \in 0 .. BLOCKBYTES - 1 : q = n + 1 /\ p = r - 1
    BY <1>1
  <1>5. m = BLOCKBYTES * q + p
    BY <1>2, <1>3, <1>4
  <1>6. m \div BLOCKBYTES = q
    BY <1>1, <1>5, DivModUnique
  <1> QED BY <1>3, <1>4, <1>6

(* Adding less than a word to a number changes its quotient by the carry. *)
LEMMA Carry ==
    ASSUME NEW w \in Nat \ {0}, NEW m \in Nat, NEW inc \in 0 .. w - 1
    PROVE  LET low == ((m % w) + inc) % w
           IN  /\ (m + inc) % w = low
               /\ (m + inc) \div w = (m \div w) + (IF low < inc THEN 1 ELSE 0)
  <1>1. PICK q \in Nat, r \in 0 .. w - 1 : m = w * q + r /\ m \div w = q /\ m % w = r
    BY DivMod
  <1>2. PICK x \in Nat : x = w * q
    OBVIOUS
  <1>3. m = x + r
    BY <1>1, <1>2
  <1>4. CASE r + inc < w
    <2>1. PICK a \in 0 .. w - 1, b \in Nat : a = r + inc /\ b = m + inc
      BY <1>4
    <2>2. b = x + a /\ a = 0 + a /\ 0 = w * 0
      BY <1>3, <2>1
    <2>3. b = w * q + a /\ a = w * 0 + a
      BY <1>2, <2>2
    <2>4. b \div w = q /\ b % w = a /\ a % w = a
      BY <2>3, DivModUnique
    <2>5. ~(a < inc) /\ q + 0 = q
      BY <2>1
    <2> QED BY <1>1, <2>1, <2>4, <2>5
  <1>5. CASE r + inc >= w
    <2>1. PICK a \in 0 .. w - 1, b \in Nat, c \in Nat :
             a = r + inc - w /\ b = m + inc /\ c = r + inc
      BY <1>5
    <2>2. b = (x + w) + a /\ c = w + a
      BY <1>3, <2>1
    <2>3. PICK p \in Nat : p = q + 1
      OBVIOUS
    <2>4. w * p = x + w /\ w * 1 = w
      BY <1>2, <2>3
    <2>5. b = w * p + a /\ c = w * 1 + a
      BY <2>2, <2>4
    <2>6. b \div w = p /\ b % w = a
      BY <2>5, DivModUnique
    <2>7. c % w = a
      BY <2>5, DivModUnique
    <2>8. a < inc
      BY <2>1
    <2> QED BY <1>1, <2>1, <2>3, <2>6, <2>7, <2>8
  <1> QED BY <1>4, <1>5

(* The counter counts bytes modulo the square of its word: the carry is       *)
(* noticed by the lower word having become less than what was added.          *)
LEMMA Incremented ==
    ASSUME NEW m \in Nat, NEW inc \in 0 .. BLOCKBYTES
    PROVE  incremented(Count(m), inc) = Count(m + inc)
  <1> DEFINE w == Word64
             low == ((m % w) + inc) % w
             c == IF low < inc THEN 1 ELSE 0
  <1>2. w \in Nat \ {0} /\ inc \in 0 .. w - 1 /\ 1 \in 0 .. w - 1 /\ 0 \in 0 .. w - 1
    BY Blake2bAssumption
  <1>3. (m + inc) % w = low /\ (m + inc) \div w = (m \div w) + c
    BY <1>2, Carry
  <1>4. PICK q \in Nat : q = m \div w
    BY <1>2
  <1>5. c \in {0, 1}
    OBVIOUS
  <1>6. (q + c) % w = ((q % w) + c) % w
    BY <1>2, <1>5, Carry
  <1> QED BY <1>3, <1>4, <1>6 DEF incremented, carry, Count

-----------------------------------------------------------------------------
(* The inductive invariant of the streaming functions. *)

Byte == ({"in", "key", "zero", "len"} \X Nat) \cup ({"v"} \X Nat \X Nat)
Block == [1 .. BLOCKBYTES -> Byte]
Compressed == [block : Block, t : Nat \X Nat, last : BOOLEAN]
Hash == [param : Nat \X Nat, h : Seq(Compressed)]
blake2b_state ==
    [param : Nat \X Nat, h : Seq(Compressed), t : Nat \X Nat, f : BOOLEAN,
     buf : Block, buflen : 0 .. BLOCKBYTES, outlen : Nat]

Types ==
    /\ S \in blake2b_state
    /\ call \in {"ready", "update"}
    /\ pin \in Seq(Byte) /\ given \in Seq(Byte)
    /\ digest \in Hash

(* Block k of a message, as it is compressed when more bytes follow. *)
FullBlock(message, k) ==
    [block |-> [j \in 1 .. BLOCKBYTES |-> message[Upto(k - 1) + j]],
     t |-> Count(Upto(k)), last |-> FALSE]

(* What has been given is in three places: full blocks are compressed, the    *)
(* next bytes are in the buffer, the rest is still to be read.  The block     *)
(* that may be the last is not compressed yet.                                *)
Accounted ==
    LET n == Len(S.h)
    IN  /\ Len(given) = Upto(n) + S.buflen + Len(pin)
        /\ \A k \in 1 .. n : S.h[k] = FullBlock(given, k)
        /\ S.t = Count(Upto(n))
        /\ \A j \in 1 .. S.buflen : S.buf[j] = given[Upto(n) + j]
        /\ \A j \in 1 .. Len(pin) : pin[j] = given[Upto(n) + S.buflen + j]
        /\ n > 0 => S.buflen + Len(pin) > 0
        /\ S.buflen = 0 \/ S.buflen + Len(pin) <= BLOCKBYTES
        /\ S.outlen = S.param[1]

StreamInv ==
    /\ Types
    /\ call = "ready" => pin = <<>>
    /\ S.f => call = "ready"
    /\ ~S.f => Accounted

-----------------------------------------------------------------------------
(* That of blake2b_long. *)

Labels ==
    {"stream", "init", "length", "input", "final", "chain", "chain_update",
     "chain_final", "done", "fail"}
Chaining == {"chain", "chain_update", "chain_final"}

LongTypes ==
    /\ user \in Labels
    /\ outlen \in Nat /\ inlen \in Nat /\ toproduce \in Nat
    /\ v \in Seq(Hash) /\ out \in Seq(Byte)

(* A hash of so many bytes is being computed, of message so far. *)
Hashing(size, message) == ~S.f /\ S.param = <<size, 0>> /\ given = message

OutByte(j) == <<"v", ((j - 1) \div Half) + 1, ((j - 1) % Half) + 1>>

(* After n digests, half of each has been put out. *)
Chained ==
    LET n == Len(v)
    IN  /\ outlen > OUTBYTES /\ n > 0
        /\ toproduce = outlen - Half * n /\ toproduce > Half
        /\ \A k \in 1 .. n : v[k] = H(OUTBYTES, 0, Message(k))
        /\ Len(out) = Half * n
        /\ \A j \in 1 .. Len(out) : out[j] = OutByte(j)

LongInv ==
    /\ LongTypes
    /\ user \in {"stream", "init", "length", "input", "final", "fail"} =>
          v = <<>> /\ out = <<>>
    /\ user \in {"length", "input", "final"} => outlen > 0
    /\ user \in {"init", "length", "chain", "chain_update"} => call = "ready"
    /\ user = "length" => Hashing(DigestLength(outlen), <<>>)
    /\ user = "input" =>
          Hashing(DigestLength(outlen), [j \in 1 .. LENBYTES |-> <<"len", outlen>>])
    /\ user = "final" => Hashing(DigestLength(outlen), Message(1))
    /\ user \in Chaining => Chained
    /\ user = "chain_update" => Hashing(NextLength, <<>>)
    /\ user = "chain_final" => Hashing(NextLength, Message(Len(v) + 1))
    /\ user = "done" => v = DigestsDefined /\ out = OutputDefined
    /\ user = "fail" => outlen = 0 \/ outlen > MaxOutlen

IInv == StreamInv /\ LongInv

-----------------------------------------------------------------------------
(* What the streaming functions do to the state. *)

LEMMA CountType ==
    ASSUME NEW m \in Nat
    PROVE  Count(m) \in Nat \X Nat
  BY Blake2bAssumption DEF Count

LEMMA ZeroByte == ZERO \in Byte
  BY DEF ZERO, Byte

LEMMA FreshState ==
    ASSUME NEW size \in Nat, NEW keylen \in Nat
    PROVE  Fresh(size, keylen) \in blake2b_state /\ Invalid \in blake2b_state
  <1>1. Blank \in Block /\ <<>> \in Seq(Compressed) /\ 0 \in 0 .. BLOCKBYTES
    BY ZeroByte, Blake2bAssumption DEF Blank, Block
  <1> QED BY <1>1 DEF Fresh, Invalid, blake2b_state

(* c is s with one more block, the last byte of which is number size. *)
OneMore(c, s, block, size, last) ==
    /\ c \in blake2b_state
    /\ Len(c.h) = Len(s.h) + 1
    /\ \A k \in 1 .. Len(s.h) : c.h[k] = s.h[k]
    /\ c.h[Len(s.h) + 1] = [block |-> block, t |-> Count(size), last |-> last]
    /\ c.t = Count(size) /\ c.f = last
    /\ c.param = s.param /\ c.outlen = s.outlen
    /\ c.buf = s.buf /\ c.buflen = s.buflen

LEMMA CompressFacts ==
    ASSUME NEW s \in blake2b_state, NEW block \in Block, NEW m \in Nat, s.t = Count(m),
           NEW inc \in 0 .. BLOCKBYTES, NEW last \in BOOLEAN
    PROVE  OneMore(Compress(s, block, inc, last), s, block, m + inc, last)
  <1>1. PICK t \in Nat \X Nat : t = Count(m + inc)
    BY CountType
  <1>2. incremented(s.t, inc) = t
    BY <1>1, Incremented
  <1>3. PICK e \in Compressed : e = [block |-> block, t |-> t, last |-> last]
    BY DEF Compressed
  <1>4. s.h \in Seq(Compressed)
    BY DEF blake2b_state
  <1>a. Append(s.h, e) \in Seq(Compressed)
    BY <1>3, <1>4, AppendProperties
  <1>5. PICK h \in Seq(Compressed) : h = Append(s.h, e)
    BY <1>a
  <1>6. /\ Len(h) = Len(s.h) + 1 /\ h[Len(s.h) + 1] = e
        /\ \A k \in 1 .. Len(s.h) : h[k] = s.h[k]
    BY <1>4, <1>5
  <1>7. Compress(s, block, inc, last) = [s EXCEPT !.t = t, !.f = last, !.h = h]
    BY <1>2, <1>3, <1>5 DEF Compress
  <1> QED BY <1>1, <1>3, <1>6, <1>7 DEF blake2b_state, OneMore

(* Full blocks depend only on the bytes that are in them. *)
LEMMA PrefixBlocks ==
    ASSUME NEW a, NEW b, NEW n \in Nat, \A i \in 1 .. Upto(n) : b[i] = a[i],
           NEW k \in 1 .. n
    PROVE  FullBlock(b, k) = FullBlock(a, k)
  <1>1. k - 1 \in Nat /\ (k - 1) + 1 = k /\ k \in Nat
    OBVIOUS
  <1>2. /\ Upto(k) = Upto(k - 1) + BLOCKBYTES
        /\ Upto(k) <= Upto(n) /\ Upto(k) \in Nat /\ Upto(k - 1) \in Nat /\ Upto(n) \in Nat
    BY <1>1, UptoFacts
  <1>3. ASSUME NEW j \in 1 .. BLOCKBYTES
        PROVE  b[Upto(k - 1) + j] = a[Upto(k - 1) + j]
    <2>1. Upto(k - 1) + j \in 1 .. Upto(n)
      BY <1>2, Blake2bAssumption
    <2> QED BY <2>1
  <1>4. [j \in 1 .. BLOCKBYTES |-> b[Upto(k - 1) + j]]
           = [j \in 1 .. BLOCKBYTES |-> a[Upto(k - 1) + j]]
    BY <1>3
  <1> QED BY <1>4, Zenon DEF FullBlock

LEMMA CopiedBlock ==
    ASSUME NEW s \in blake2b_state, NEW from \in Seq(Byte), NEW n \in 0 .. Len(from),
           s.buflen + n <= BLOCKBYTES
    PROVE  /\ Copied(s, from, n) \in Block
           /\ \A j \in 1 .. s.buflen : Copied(s, from, n)[j] = s.buf[j]
           /\ \A j \in 1 .. n : Copied(s, from, n)[s.buflen + j] = from[j]
  <1>1. s.buf \in Block /\ s.buflen \in 0 .. BLOCKBYTES /\ BLOCKBYTES \in Nat
    BY Blake2bAssumption DEF blake2b_state
  <1>2. PICK b : b = s.buflen
    OBVIOUS
  <1>3. ASSUME NEW j \in 1 .. BLOCKBYTES
        PROVE  (IF j \in b + 1 .. b + n THEN from[j - b] ELSE s.buf[j]) \in Byte
    <2>1. CASE j \in b + 1 .. b + n
      <3>1. j - b \in 1 .. Len(from)
        BY <1>1, <1>2, <2>1
      <3> QED BY <2>1, <3>1
    <2>2. CASE j \notin b + 1 .. b + n
      BY <1>1, <2>2 DEF Block
    <2> QED BY <2>1, <2>2
  <1>4. Copied(s, from, n) \in Block
    BY <1>2, <1>3 DEF Copied, Block
  <1>5. ASSUME NEW j \in 1 .. b PROVE Copied(s, from, n)[j] = s.buf[j]
    <2>1. j \in 1 .. BLOCKBYTES /\ j \notin b + 1 .. b + n
      BY <1>1, <1>2
    <2> QED BY <1>2, <2>1 DEF Copied
  <1>6. ASSUME NEW j \in 1 .. n PROVE Copied(s, from, n)[b + j] = from[j]
    <2>1. b + j \in 1 .. BLOCKBYTES /\ b + j \in b + 1 .. b + n /\ (b + j) - b = j
      BY <1>1, <1>2
    <2> QED BY <1>2, <2>1 DEF Copied
  <1> QED BY <1>2, <1>4, <1>5, <1>6

(* A fresh state, with all that is given still to be read. *)
LEMMA FreshAccounted ==
    ASSUME NEW size \in 1 .. OUTBYTES, NEW keylen \in Nat, NEW in \in Seq(Byte),
           S' = Fresh(size, keylen), pin' = in, given' = in
    PROVE  /\ S' \in blake2b_state /\ ~S'.f /\ S'.param = <<size, keylen>>
           /\ Accounted'
  <1>1. /\ S'.h = <<>> /\ Len(S'.h) = 0 /\ S'.buflen = 0 /\ S'.t = <<0, 0>> /\ ~S'.f
        /\ S'.param = <<size, keylen>> /\ S'.outlen = size /\ S'.outlen = S'.param[1]
    BY DEF Fresh
  <1>2. S' \in blake2b_state
    BY FreshState, Blake2bAssumption
  <1>3. Count(0) = <<0, 0>> /\ Upto(0) = 0
    BY UptoFacts, Blake2bAssumption DEF Count
  <1>4. Len(in) \in Nat
    OBVIOUS
  <1>5. /\ Len(given') = Upto(0) + 0 + Len(pin')
        /\ \A j \in 1 .. Len(pin') : pin'[j] = given'[Upto(0) + 0 + j]
    BY <1>3, <1>4
  <1>6. Accounted'
    BY <1>1, <1>3, <1>5 DEF Accounted
  <1> QED BY <1>1, <1>2, <1>6

LEMMA InitStep ==
    ASSUME StreamInv, NEW n \in Nat, blake2b_init(n)
    PROVE  /\ StreamInv' /\ call' = "ready" /\ given' = <<>>
           /\ ret' = IF n \in 1 .. OUTBYTES THEN 0 ELSE -1
           /\ n \in 1 .. OUTBYTES => ~S'.f /\ S'.param = <<n, 0>>
  <1>1. /\ Types /\ call = "ready" /\ pin = <<>> /\ call' = call /\ pin' = pin
        /\ given' = <<>> /\ digest' = digest /\ given' \in Seq(Byte)
    BY DEF StreamInv, blake2b_init
  <1>2. CASE n \in 1 .. OUTBYTES
    <2>1. S' = Fresh(n, 0) /\ ret' = 0
      BY <1>2 DEF blake2b_init
    <2>2. /\ S' \in blake2b_state /\ ~S'.f /\ S'.param = <<n, 0>>
          /\ Accounted'
      BY <1>1, <1>2, <2>1, FreshAccounted
    <2> QED BY <1>1, <1>2, <2>1, <2>2 DEF StreamInv, Types
  <1>3. CASE n \notin 1 .. OUTBYTES
    <2>1. S' = Invalid /\ ret' = -1
      BY <1>3 DEF blake2b_init
    <2>2. S' \in blake2b_state /\ S'.f
      BY <2>1, FreshState DEF Invalid, Fresh
    <2> QED BY <1>1, <1>3, <2>1, <2>2 DEF StreamInv, Types
  <1> QED BY <1>2, <1>3

LEMMA InitKeyStep ==
    ASSUME StreamInv, NEW n \in Nat, NEW k \in Nat, blake2b_init_key(n, k)
    PROVE  StreamInv'
  <1>1. Types /\ call = "ready" /\ pin = <<>> /\ digest' = digest
    BY DEF StreamInv, blake2b_init_key
  <1>2. CASE n \in 1 .. OUTBYTES /\ k \in 1 .. KEYBYTES
    <2> DEFINE zeros == [j \in 1 .. BLOCKBYTES - k |-> ZERO]
               block == Bytes("key", k) \o zeros
    <2>1. BLOCKBYTES - k \in Nat
      BY <1>2, Blake2bAssumption
    <2>2. zeros \in Seq(Byte) /\ Bytes("key", k) \in Seq(Byte)
      <3>1. \A j \in 1 .. k : <<"key", j>> \in Byte
        BY DEF Byte
      <3> QED BY <2>1, <3>1, ZeroByte DEF Bytes
    <2>3. block \in Seq(Byte)
      BY <2>2, ConcatProperties
    <2>4. S' = Fresh(n, k) /\ pin' = block /\ given' = block /\ call' = "update"
      BY <1>2 DEF blake2b_init_key
    <2> HIDE DEF block
    <2>5. S' \in blake2b_state /\ ~S'.f /\ Accounted'
      BY <1>2, <2>3, <2>4, FreshAccounted
    <2> QED BY <1>1, <2>3, <2>4, <2>5 DEF StreamInv, Types
  <1>3. CASE ~(n \in 1 .. OUTBYTES /\ k \in 1 .. KEYBYTES)
    <2>1. S' = Invalid /\ given' = <<>> /\ pin' = pin /\ call' = call
      BY <1>3 DEF blake2b_init_key
    <2>2. S' \in blake2b_state /\ S'.f
      BY <2>1, FreshState DEF Invalid, Fresh
    <2> QED BY <1>1, <2>1, <2>2 DEF StreamInv, Types
  <1> QED BY <1>2, <1>3

LEMMA BlockCompressed ==
    ASSUME NEW n \in Nat, NEW message, NEW block \in Block,
           \A j \in 1 .. BLOCKBYTES : block[j] = message[Upto(n) + j]
    PROVE  [block |-> block, t |-> Count(Upto(n) + BLOCKBYTES), last |-> FALSE]
             = FullBlock(message, n + 1)
  <1>1. (n + 1) - 1 = n /\ Upto(n + 1) = Upto(n) + BLOCKBYTES
    BY UptoFacts
  <1>2. block = [j \in 1 .. BLOCKBYTES |-> message[Upto(n) + j]]
    BY DEF Block
  <1> QED BY <1>1, <1>2 DEF FullBlock

(* A message that goes on. *)
LEMMA Concatenated ==
    ASSUME NEW a \in Seq(Byte), NEW b \in Seq(Byte)
    PROVE  /\ a \o b \in Seq(Byte) /\ Len(a \o b) = Len(a) + Len(b)
           /\ \A i \in 1 .. Len(a) : (a \o b)[i] = a[i]
           /\ \A i \in 1 .. Len(b) : (a \o b)[Len(a) + i] = b[i]
  OBVIOUS

LEMMA Rest ==
    ASSUME NEW a \in Seq(Byte), NEW n \in 0 .. Len(a)
    PROVE  LET b == SubSeq(a, n + 1, Len(a))
           IN  /\ b \in Seq(Byte) /\ Len(b) = Len(a) - n
               /\ \A j \in 1 .. Len(a) - n : b[j] = a[n + j]
  <1> DEFINE b == SubSeq(a, n + 1, Len(a))
  <1>1. Len(b) = Len(a) - n /\ b = [j \in 1 .. Len(a) - n |-> a[(n + 1) + j - 1]]
    OBVIOUS
  <1>2. ASSUME NEW j \in 1 .. Len(a) - n PROVE (n + 1) + j - 1 = n + j /\ a[n + j] \in Byte
    OBVIOUS
  <1>3. b = [j \in 1 .. Len(a) - n |-> a[n + j]]
    BY <1>1, <1>2
  <1> HIDE DEF b
  <1>4. b \in [1 .. Len(a) - n -> Byte] /\ Len(a) - n \in Nat
    BY <1>2, <1>3
  <1>5. b \in Seq(Byte)
    BY <1>4
  <1> QED BY <1>1, <1>3, <1>5 DEF b

LEMMA UpdateStep ==
    ASSUME StreamInv, NEW in \in Seq(Byte), blake2b_update(in)
    PROVE  /\ StreamInv' /\ digest' = digest /\ S'.f = S.f /\ S'.param = S.param
           /\ ~S.f => given' = given \o in
  <1>1. Types /\ call = "ready" /\ pin = <<>> /\ Len(pin) = 0 /\ digest' = digest
    BY DEF StreamInv, blake2b_update
  <1>2. CASE in = <<>> \/ S.f
    <2>1. S' = S /\ call' = call /\ pin' = pin /\ given' = given
      BY <1>2 DEF blake2b_update
    <2>2. Accounted => Accounted'
      BY <2>1 DEF Accounted
    <2>3. ~S.f => given' = given \o in
      BY <1>1, <1>2, <2>1 DEF Types
    <2> QED BY <1>1, <2>1, <2>2, <2>3 DEF StreamInv, Types
  <1>3. CASE in # <<>> /\ ~S.f
    <2>1. given' = given \o in /\ call' = "update" /\ Accounted
      BY <1>3 DEF blake2b_update, StreamInv
    <2>2. PICK n, b, g, m : n = Len(S.h) /\ b = S.buflen /\ g = Len(given) /\ m = Len(in)
      OBVIOUS
    <2>3. /\ n \in Nat /\ b \in 0 .. BLOCKBYTES /\ g \in Nat /\ m \in Nat /\ m > 0
          /\ Upto(n) \in Nat /\ BLOCKBYTES \in Nat \ {0}
      <3>1. S.h \in Seq(Compressed) /\ S.buflen \in 0 .. BLOCKBYTES /\ given \in Seq(Byte)
        BY <1>1 DEF Types, blake2b_state
      <3>2. n \in Nat /\ g \in Nat /\ m \in Nat /\ m # 0
        BY <1>3, <2>2, <3>1
      <3>3. Upto(n) \in Nat /\ BLOCKBYTES \in Nat \ {0}
        BY <3>2, UptoFacts, Blake2bAssumption
      <3>4. m > 0
        BY <3>2
      <3> QED BY <2>2, <3>1, <3>2, <3>3, <3>4
    <2>4. /\ g = Upto(n) + b
          /\ \A k \in 1 .. n : S.h[k] = FullBlock(given, k)
          /\ S.t = Count(Upto(n))
          /\ \A j \in 1 .. b : S.buf[j] = given[Upto(n) + j]
          /\ S.outlen = S.param[1]
      BY <1>1, <2>1, <2>2, <2>3 DEF Accounted
    <2>5. /\ given' \in Seq(Byte) /\ Len(given') = g + m
          /\ \A i \in 1 .. g : given'[i] = given[i]
          /\ \A i \in 1 .. m : given'[g + i] = in[i]
      BY <1>1, <2>1, <2>2, Concatenated DEF Types
    <2>6. \A k \in 1 .. n : S.h[k] = FullBlock(given', k)
      <3>1. \A i \in 1 .. Upto(n) : given'[i] = given[i]
        BY <2>3, <2>4, <2>5
      <3>2. \A k \in 1 .. n : FullBlock(given', k) = FullBlock(given, k)
        BY <2>3, <3>1, PrefixBlocks
      <3> QED BY <2>4, <3>2
    <2>7. \A j \in 1 .. b : S.buf[j] = given'[Upto(n) + j]
      <3>1. \A j \in 1 .. b : Upto(n) + j \in 1 .. g
        BY <2>3, <2>4
      <3> QED BY <2>4, <2>5, <3>1
    <2>8. CASE overflows_buffer(S, Len(in))
      <3>1. PICK fill, block : fill = BLOCKBYTES - b /\ block = Copied(S, in, fill)
        OBVIOUS
      <3>2. fill \in 0 .. m /\ b + fill = BLOCKBYTES /\ fill < m
        BY <2>2, <2>3, <2>8, <3>1 DEF overflows_buffer
      <3>3. PICK c : c = Compress(S, block, BLOCKBYTES, FALSE)
        OBVIOUS
      <3>4. S' = [c EXCEPT !.buflen = 0] /\ pin' = SubSeq(in, fill + 1, m)
        BY <1>3, <2>2, <2>8, <3>1, <3>3 DEF blake2b_update, completes
      <3>5. /\ block \in Block
            /\ \A j \in 1 .. b : block[j] = S.buf[j]
            /\ \A j \in 1 .. fill : block[b + j] = in[j]
        <4>1. /\ S \in blake2b_state /\ fill \in 0 .. Len(in)
              /\ S.buflen + fill <= BLOCKBYTES
          BY <1>1, <2>2, <2>3, <3>2 DEF Types
        <4> QED BY <2>2, <3>1, <4>1, CopiedBlock
      <3>6. ASSUME NEW j \in 1 .. BLOCKBYTES PROVE block[j] = given'[Upto(n) + j]
        <4>1. CASE j \in 1 .. b
          BY <2>7, <3>5, <4>1
        <4>2. CASE j \notin 1 .. b
          <5>1. PICK i : i = j - b
            OBVIOUS
          <5>2. i \in 1 .. fill /\ i \in 1 .. m /\ j = b + i /\ Upto(n) + j = g + i
            BY <2>3, <2>4, <3>2, <4>2, <5>1
          <5>3. block[b + i] = in[i] /\ given'[g + i] = in[i]
            BY <2>5, <3>5, <5>2
          <5> QED BY <5>2, <5>3
        <4> QED BY <4>1, <4>2
      <3>7. /\ c \in blake2b_state /\ Len(c.h) = n + 1
            /\ \A k \in 1 .. n : c.h[k] = S.h[k]
            /\ c.h[n + 1] = [block |-> block, t |-> Count(Upto(n) + BLOCKBYTES),
                             last |-> FALSE]
            /\ c.t = Count(Upto(n) + BLOCKBYTES) /\ c.f = FALSE
            /\ c.param = S.param /\ c.outlen = S.outlen
        <4>1. BLOCKBYTES \in 0 .. BLOCKBYTES /\ S \in blake2b_state /\ FALSE \in BOOLEAN
          BY <1>1, <2>3 DEF Types
        <4>2. OneMore(c, S, block, Upto(n) + BLOCKBYTES, FALSE)
          BY <2>3, <2>4, <3>3, <3>5, <4>1, CompressFacts, Zenon
        <4> QED BY <2>2, <4>2 DEF OneMore
      <3>8. /\ S' \in blake2b_state /\ S'.h = c.h /\ S'.t = c.t /\ S'.f = FALSE
            /\ S'.param = S.param /\ S'.outlen = S.outlen /\ S'.buflen = 0
        <4>1. 0 \in 0 .. BLOCKBYTES
          BY <2>3
        <4> QED BY <3>4, <3>7, <4>1 DEF blake2b_state
      <3>9. /\ pin' \in Seq(Byte) /\ Len(pin') = m - fill
            /\ \A j \in 1 .. m - fill : pin'[j] = in[fill + j]
        <4>1. fill + 1 \in 1 .. Len(in) + 1 /\ Len(in) \in fill .. Len(in) /\ fill \in Nat
          BY <2>2, <2>3, <3>2
        <4>2. /\ SubSeq(in, fill + 1, m) \in Seq(Byte)
              /\ Len(SubSeq(in, fill + 1, m)) = m - fill
              /\ \A j \in 1 .. m - fill : SubSeq(in, fill + 1, m)[j] = in[fill + j]
          BY <2>2, <4>1, Rest
        <4> QED BY <3>4, <4>2
      <3>10. Upto(n + 1) = Upto(n) + BLOCKBYTES
        BY <2>3, UptoFacts
      <3>11. \A k \in 1 .. n + 1 : S'.h[k] = FullBlock(given', k)
        <4>1. S'.h[n + 1] = FullBlock(given', n + 1)
          BY <2>3, <3>5, <3>6, <3>7, <3>8, BlockCompressed
        <4>2. \A k \in 1 .. n : S'.h[k] = FullBlock(given', k)
          BY <2>6, <3>7, <3>8
        <4> QED BY <2>3, <4>1, <4>2
      <3>12. Len(given') = Upto(n + 1) + 0 + Len(pin') /\ 0 + Len(pin') > 0
        <4>1. PICK u \in Nat : u = Upto(n)
          BY <2>3
        <4>2. PICK w, p : w = Upto(n + 1) /\ p = Len(pin')
          OBVIOUS
        <4>3. w = u + BLOCKBYTES /\ p = m - fill /\ g = u + b
          BY <2>4, <3>9, <3>10, <4>1, <4>2
        <4>4. g + m = w + 0 + p /\ 0 + p > 0
          <5>1. /\ b \in Int /\ m \in Int /\ fill \in Int /\ u \in Int
                /\ BLOCKBYTES = b + fill /\ fill < m
            BY <2>3, <3>2
          <5> QED BY <4>3, <5>1
        <4> QED BY <2>5, <4>2, <4>4
      <3>13. ASSUME NEW j \in 1 .. Len(pin')
             PROVE  pin'[j] = given'[Upto(n + 1) + 0 + j]
        <4>1. PICK i : i = fill + j
          OBVIOUS
        <4>2. j \in 1 .. m - fill
          BY <3>9
        <4>3. i \in 1 .. m /\ Upto(n + 1) + 0 + j = g + i
          <5>1. PICK u \in Nat : u = Upto(n)
            BY <2>3
          <5>2. Upto(n + 1) = u + BLOCKBYTES /\ g = u + b
            BY <2>4, <3>10, <5>1
          <5>3. /\ b \in Int /\ m \in Int /\ fill \in Nat /\ u \in Int
                /\ BLOCKBYTES = b + fill /\ fill < m
            BY <2>3, <3>2
          <5> QED BY <4>1, <4>2, <5>2, <5>3
        <4> QED BY <2>5, <3>9, <4>1, <4>2, <4>3
      <3>14. Accounted'
        <4>1. Len(S'.h) = n + 1 /\ S'.t = Count(Upto(n + 1))
          BY <3>7, <3>8, <3>10
        <4> QED BY <2>4, <3>8, <3>11, <3>12, <3>13, <4>1 DEF Accounted
      <3>15. S.f = FALSE
        BY <1>1, <1>3 DEF Types, blake2b_state
      <3>16. Types'
        BY <1>1, <2>1, <2>5, <3>8, <3>9 DEF Types
      <3>17. StreamInv'
        BY <2>1, <3>8, <3>14, <3>16 DEF StreamInv
      <3> QED BY <1>1, <2>1, <3>8, <3>15, <3>17
    <2>9. CASE ~overflows_buffer(S, Len(in))
      <3>1. S' = S /\ pin' = in
        BY <1>3, <2>9 DEF blake2b_update
      <3>2. b + m <= BLOCKBYTES /\ b + m > 0
        BY <2>2, <2>3, <2>9 DEF overflows_buffer
      <3>3. Len(given') = Upto(n) + b + Len(pin')
        BY <2>2, <2>3, <2>4, <2>5, <3>1
      <3>4. \A j \in 1 .. Len(pin') : pin'[j] = given'[Upto(n) + b + j]
        BY <2>2, <2>4, <2>5, <3>1
      <3>5. Accounted'
        BY <2>2, <2>4, <2>6, <2>7, <3>1, <3>2, <3>3, <3>4 DEF Accounted
      <3> QED BY <1>1, <1>3, <2>1, <2>5, <3>1, <3>5 DEF StreamInv, Types
    <2> QED BY <2>8, <2>9
  <1> QED BY <1>2, <1>3

(* The invariant with names for its lengths: n blocks have been compressed, of *)
(* u bytes, b are in the buffer and p still to be read.                        *)
Shares(n, b, p, u) ==
    /\ n = Len(S.h) /\ b = S.buflen /\ p = Len(pin) /\ u = Upto(n)
    /\ Upto(n + 1) = u + BLOCKBYTES
    /\ Len(given) = u + b + p
    /\ \A k \in 1 .. n : S.h[k] = FullBlock(given, k)
    /\ S.t = Count(u)
    /\ \A j \in 1 .. b : S.buf[j] = given[u + j]
    /\ \A j \in 1 .. p : pin[j] = given[u + b + j]
    /\ n > 0 => b + p > 0
    /\ b = 0 \/ b + p <= BLOCKBYTES
    /\ S.outlen = S.param[1]

LEMMA Parts ==
    ASSUME StreamInv, ~S.f
    PROVE  \E n \in Nat, b \in 0 .. BLOCKBYTES, p \in Nat, u \in Nat : Shares(n, b, p, u)
  <1>1. /\ Len(S.h) \in Nat /\ S.buflen \in 0 .. BLOCKBYTES /\ Len(pin) \in Nat
    <2>1. S.h \in Seq(Compressed) /\ S.buflen \in 0 .. BLOCKBYTES /\ pin \in Seq(Byte)
      BY DEF StreamInv, Types, blake2b_state
    <2> QED BY <2>1
  <1>2. PICK n \in Nat, b \in 0 .. BLOCKBYTES, p \in Nat :
           n = Len(S.h) /\ b = S.buflen /\ p = Len(pin)
    BY <1>1
  <1>3. Upto(n) \in Nat /\ Upto(n + 1) = Upto(n) + BLOCKBYTES
    BY UptoFacts
  <1>4. PICK u \in Nat : u = Upto(n)
    BY <1>3
  <1>5. Accounted
    BY DEF StreamInv
  <1>6. /\ Len(given) = u + b + p
        /\ \A k \in 1 .. n : S.h[k] = FullBlock(given, k)
        /\ S.t = Count(u)
        /\ \A j \in 1 .. b : S.buf[j] = given[u + j]
        /\ \A j \in 1 .. p : pin[j] = given[u + b + j]
        /\ n > 0 => b + p > 0
        /\ b = 0 \/ b + p <= BLOCKBYTES
        /\ S.outlen = S.param[1]
    BY <1>2, <1>4, <1>5, Zenon DEF Accounted
  <1>7. Shares(n, b, p, u)
    BY <1>2, <1>3, <1>4, <1>6, Zenon DEF Shares
  <1> QED BY <1>7

LEMMA UpdateBlockStep ==
    ASSUME StreamInv, UpdateBlock
    PROVE  /\ StreamInv' /\ digest' = digest /\ S'.f = S.f /\ S'.param = S.param
           /\ given' = given
  <1>1. /\ Types /\ call = "update" /\ Len(pin) > BLOCKBYTES /\ S.f = FALSE
        /\ call' = call /\ given' = given /\ digest' = digest
    BY DEF StreamInv, UpdateBlock, Types, blake2b_state
  <1>2. PICK n \in Nat, b \in 0 .. BLOCKBYTES, p \in Nat, u \in Nat : Shares(n, b, p, u)
    BY <1>1, Parts
  <1> USE DEF Shares
  <1>3. BLOCKBYTES \in Nat \ {0} /\ BLOCKBYTES \in 0 .. p /\ b = 0 /\ p > BLOCKBYTES
    BY <1>1, <1>2, Blake2bAssumption, SMTT(60)
  <1>4. PICK block : block = SubSeq(pin, 1, BLOCKBYTES)
    OBVIOUS
  <1>5. block \in Block /\ \A j \in 1 .. BLOCKBYTES : block[j] = given[u + j]
    <2>1. pin \in Seq(Byte) /\ BLOCKBYTES \in 0 .. Len(pin)
      BY <1>1, <1>2, <1>3 DEF Types
    <2>2. block = [j \in 1 .. BLOCKBYTES |-> pin[j]]
      BY <1>3, <1>4, <2>1
    <2>3. ASSUME NEW j \in 1 .. BLOCKBYTES
          PROVE  pin[j] \in Byte /\ pin[j] = given[u + j]
      <3>1. j \in 1 .. p /\ j \in 1 .. Len(pin) /\ u + b + j = u + j
        BY <1>2, <1>3
      <3> QED BY <1>2, <2>1, <3>1
    <2> QED BY <2>2, <2>3 DEF Block
  <1>6. PICK c : c = Compress(S, block, BLOCKBYTES, FALSE)
    OBVIOUS
  <1>7. S' = c /\ pin' = SubSeq(pin, BLOCKBYTES + 1, Len(pin))
    BY <1>4, <1>6 DEF UpdateBlock
  <1>8. OneMore(c, S, block, u + BLOCKBYTES, FALSE)
    <2>1. BLOCKBYTES \in 0 .. BLOCKBYTES /\ S \in blake2b_state /\ FALSE \in BOOLEAN
      BY <1>1, <1>3 DEF Types
    <2> QED BY <1>2, <1>5, <1>6, <2>1, CompressFacts, Zenon
  <1>9. /\ S' \in blake2b_state /\ Len(S'.h) = n + 1
        /\ \A k \in 1 .. n : S'.h[k] = S.h[k]
        /\ S'.h[n + 1] = [block |-> block, t |-> Count(u + BLOCKBYTES), last |-> FALSE]
        /\ S'.t = Count(u + BLOCKBYTES) /\ S'.f = FALSE
        /\ S'.param = S.param /\ S'.outlen = S.outlen
        /\ S'.buf = S.buf /\ S'.buflen = 0
    BY <1>2, <1>3, <1>7, <1>8 DEF OneMore
  <1>10. /\ pin' \in Seq(Byte) /\ Len(pin') = p - BLOCKBYTES
         /\ \A j \in 1 .. p - BLOCKBYTES : pin'[j] = pin[BLOCKBYTES + j]
    <2>1. pin \in Seq(Byte) /\ BLOCKBYTES \in 0 .. Len(pin)
      BY <1>1, <1>2, <1>3 DEF Types
    <2> QED BY <1>2, <1>7, <2>1, Rest
  <1>11. \A k \in 1 .. n + 1 : S'.h[k] = FullBlock(given', k)
    <2>1. \A j \in 1 .. BLOCKBYTES : block[j] = given[Upto(n) + j]
      BY <1>2, <1>5
    <2>2. [block |-> block, t |-> Count(Upto(n) + BLOCKBYTES), last |-> FALSE]
             = FullBlock(given, n + 1)
      BY <1>5, <2>1, BlockCompressed
    <2>3. S'.h[n + 1] = FullBlock(given', n + 1)
      BY <1>1, <1>2, <1>9, <2>2
    <2>4. \A k \in 1 .. n : S'.h[k] = FullBlock(given', k)
      BY <1>1, <1>2, <1>9
    <2> QED BY <2>3, <2>4
  <1>12. PICK w : w = u + BLOCKBYTES
    OBVIOUS
  <1>13. u + b + p = w + 0 + (p - BLOCKBYTES) /\ 0 + (p - BLOCKBYTES) > 0
    BY <1>3, <1>12
  <1>14. ASSUME NEW j \in 1 .. p - BLOCKBYTES PROVE pin'[j] = given'[w + 0 + j]
    <2>1. PICK i : i = BLOCKBYTES + j
      OBVIOUS
    <2>2. i \in 1 .. p /\ u + b + i = w + 0 + j
      BY <1>3, <1>12, <2>1
    <2> QED BY <1>1, <1>2, <1>10, <2>1, <2>2
  <1>15. Accounted'
    <2>1. /\ Len(S'.h) = n + 1 /\ Upto(n + 1) = w /\ S'.t = Count(w) /\ S'.buflen = 0
          /\ Len(pin') = p - BLOCKBYTES /\ S'.outlen = S'.param[1]
          /\ Len(given') = w + 0 + (p - BLOCKBYTES)
      BY <1>1, <1>2, <1>9, <1>10, <1>12, <1>13
    <2>2. \A j \in 1 .. 0 : S'.buf[j] = given'[w + j]
      OBVIOUS
    <2> QED BY <1>11, <1>13, <1>14, <2>1, <2>2 DEF Accounted
  <1>16. Types'
    BY <1>1, <1>9, <1>10 DEF Types
  <1>17. StreamInv'
    BY <1>1, <1>9, <1>15, <1>16 DEF StreamInv
  <1> QED BY <1>1, <1>9, <1>17

LEMMA UpdateRestStep ==
    ASSUME StreamInv, UpdateRest
    PROVE  /\ StreamInv' /\ digest' = digest /\ S'.f = S.f /\ S'.param = S.param
           /\ given' = given
  <1>1. /\ Types /\ call = "update" /\ Len(pin) <= BLOCKBYTES /\ S.f = FALSE
        /\ call' = "ready" /\ given' = given /\ digest' = digest /\ pin' = <<>>
    BY DEF StreamInv, UpdateRest, Types, blake2b_state
  <1>2. PICK n \in Nat, b \in 0 .. BLOCKBYTES, p \in Nat, u \in Nat : Shares(n, b, p, u)
    BY <1>1, Parts
  <1> USE DEF Shares
  <1>3. BLOCKBYTES \in Nat \ {0} /\ b + p \in 0 .. BLOCKBYTES
    BY <1>1, <1>2, Blake2bAssumption
  <1>4. PICK block : block = Copied(S, pin, p)
    OBVIOUS
  <1>5. /\ block \in Block
        /\ \A j \in 1 .. b : block[j] = S.buf[j]
        /\ \A j \in 1 .. p : block[b + j] = pin[j]
    <2>1. /\ S \in blake2b_state /\ pin \in Seq(Byte) /\ p \in 0 .. Len(pin)
          /\ S.buflen + p <= BLOCKBYTES
      BY <1>1, <1>2, <1>3 DEF Types
    <2> QED BY <1>2, <1>4, <2>1, CopiedBlock
  <1>6. /\ S' \in blake2b_state /\ S'.h = S.h /\ S'.t = S.t /\ S'.f = FALSE
        /\ S'.param = S.param /\ S'.outlen = S.outlen
        /\ S'.buf = block /\ S'.buflen = b + p
    <2>1. S' = [S EXCEPT !.buf = block, !.buflen = b + p] /\ S \in blake2b_state
      BY <1>1, <1>2, <1>4 DEF UpdateRest, Types
    <2> QED BY <1>1, <1>3, <1>5, <2>1 DEF blake2b_state
  <1>7. ASSUME NEW j \in 1 .. b + p PROVE block[j] = given'[u + j]
    <2>1. CASE j \in 1 .. b
      BY <1>1, <1>2, <1>5, <2>1
    <2>2. CASE j \notin 1 .. b
      <3>1. PICK i : i = j - b
        OBVIOUS
      <3>2. i \in 1 .. p /\ j = b + i /\ u + j = u + b + i
        BY <2>2, <3>1
      <3>3. block[b + i] = pin[i] /\ pin[i] = given[u + b + i]
        BY <1>2, <1>5, <3>2
      <3> QED BY <1>1, <3>2, <3>3
    <2> QED BY <2>1, <2>2
  <1>8. Accounted'
    <2>1. /\ Len(S'.h) = n /\ Upto(n) = u /\ S'.t = Count(u) /\ S'.buflen = b + p
          /\ Len(pin') = 0 /\ S'.outlen = S'.param[1] /\ Len(given') = u + (b + p) + 0
          /\ (b + p) + 0 <= BLOCKBYTES
      BY <1>1, <1>2, <1>3, <1>6, SMTT(60)
    <2>2. n > 0 => (b + p) + 0 > 0
      BY <1>2
    <2>3. \A k \in 1 .. n : S'.h[k] = FullBlock(given', k)
      BY <1>1, <1>2, <1>6
    <2>4. \A j \in 1 .. 0 : pin'[j] = given'[u + (b + p) + j]
      OBVIOUS
    <2> QED BY <1>6, <1>7, <2>1, <2>2, <2>3, <2>4 DEF Accounted
  <1>9. Types'
    BY <1>1, <1>6 DEF Types
  <1>10. StreamInv'
    BY <1>1, <1>6, <1>8, <1>9 DEF StreamInv
  <1> QED BY <1>1, <1>6, <1>10

(* The blocks of a message, cut where the last one begins. *)
LastBlock(message, n, b) ==
    [block |-> [j \in 1 .. BLOCKBYTES |-> IF j <= b THEN message[Upto(n) + j] ELSE ZERO],
     t |-> Count(Upto(n) + b), last |-> TRUE]

LEMMA BlocksCut ==
    ASSUME NEW message \in Seq(Byte), NEW n \in Nat, NEW b \in 0 .. BLOCKBYTES,
           Len(message) = Upto(n) + b, n > 0 => b > 0
    PROVE  Blocks(message) =
             [k \in 1 .. n + 1 |-> IF k <= n THEN FullBlock(message, k)
                                            ELSE LastBlock(message, n, b)]
  <1> DEFINE size == Len(message)
             count == IF size = 0 THEN 1 ELSE (size + BLOCKBYTES - 1) \div BLOCKBYTES
             upto(k) == IF k = count THEN size ELSE k * BLOCKBYTES
             entry(k) ==
                [block |-> [j \in 1 .. BLOCKBYTES |->
                              LET i == (k - 1) * BLOCKBYTES + j
                              IN  IF i <= size THEN message[i] ELSE ZERO],
                 t |-> <<upto(k) % Word64, (upto(k) \div Word64) % Word64>>,
                 last |-> k = count]
  <1>1. PICK u \in Nat : u = Upto(n)
    BY UptoFacts
  <1>2. BLOCKBYTES \in Nat \ {0} /\ size = u + b /\ size \in Nat
    BY <1>1, Blake2bAssumption
  <1>3. count = n + 1
    <2>1. CASE size = 0
      <3>1. u = 0 /\ b = 0
        BY <1>2, <2>1
      <3>2. n = 0
        BY <3>1
      <3> QED BY <2>1, <3>2
    <2>2. CASE size # 0
      <3>1. b \in 1 .. BLOCKBYTES
        <4>1. CASE n = 0
          <5>1. u = 0
            BY <1>1, <4>1, UptoFacts
          <5> QED BY <1>2, <2>2, <5>1
        <4>2. CASE n # 0
          BY <4>2
        <4> QED BY <4>1, <4>2
      <3>2. (Upto(n) + b + BLOCKBYTES - 1) \div BLOCKBYTES = n + 1
        BY <3>1, CountOfBlocks
      <3> QED BY <2>2, <3>2
    <2> QED BY <2>1, <2>2
  <1>4. Blocks(message) = [k \in 1 .. count |-> entry(k)]
    BY DEF Blocks
  <1> HIDE DEF count
  <1>5. ASSUME NEW k \in 1 .. n + 1, k <= n PROVE entry(k) = FullBlock(message, k)
    <2>1. k # count /\ upto(k) = Upto(k)
      BY <1>3, <1>5 DEF Upto
    <2>2. /\ k - 1 \in Nat /\ k \in Nat /\ (k - 1) + 1 = k
      OBVIOUS
    <2>3. /\ Upto(k - 1) \in Nat /\ Upto(k) = Upto(k - 1) + BLOCKBYTES
          /\ Upto(k) <= Upto(n)
      BY <1>5, <2>2, UptoFacts
    <2>4. PICK w \in Nat : w = Upto(k - 1)
      BY <2>3
    <2>5. (k - 1) * BLOCKBYTES = w
      BY <2>4 DEF Upto
    <2>6. w + BLOCKBYTES <= u
      BY <1>1, <2>3, <2>4
    <2>7. ASSUME NEW j \in 1 .. BLOCKBYTES PROVE w + j <= size
      BY <1>2, <2>6
    <2> HIDE DEF size
    <2>8. [j \in 1 .. BLOCKBYTES |->
              LET i == (k - 1) * BLOCKBYTES + j
              IN  IF i <= size THEN message[i] ELSE ZERO]
            = [j \in 1 .. BLOCKBYTES |-> message[Upto(k - 1) + j]]
      BY <2>4, <2>5, <2>7
    <2>9. <<upto(k) % Word64, (upto(k) \div Word64) % Word64>> = Count(Upto(k))
      BY <2>1 DEF Count
    <2>10. (k = count) = FALSE
      BY <2>1
    <2> HIDE DEF upto
    <2> QED BY <2>8, <2>9, <2>10 DEF FullBlock
  <1>6. ASSUME NEW k \in 1 .. n + 1, ~(k <= n)
        PROVE  entry(k) = LastBlock(message, n, b)
    <2>1. k = n + 1 /\ k = count /\ upto(k) = size /\ k - 1 = n
      BY <1>3, <1>6
    <2>2. (k - 1) * BLOCKBYTES = u
      BY <1>1, <2>1 DEF Upto
    <2>3. ASSUME NEW j \in 1 .. BLOCKBYTES PROVE u + j <= size <=> j <= b
      BY <1>2
    <2>4. <<upto(k) % Word64, (upto(k) \div Word64) % Word64>> = Count(Upto(n) + b)
      BY <1>1, <1>2, <2>1 DEF Count
    <2> HIDE DEF size
    <2>5. [j \in 1 .. BLOCKBYTES |->
              LET i == (k - 1) * BLOCKBYTES + j
              IN  IF i <= size THEN message[i] ELSE ZERO]
            = [j \in 1 .. BLOCKBYTES |-> IF j <= b THEN message[Upto(n) + j] ELSE ZERO]
      BY <1>1, <2>2, <2>3
    <2>6. (k = count) = TRUE
      BY <2>1
    <2> HIDE DEF upto
    <2> QED BY <2>4, <2>5, <2>6 DEF LastBlock
  <1> HIDE DEF entry
  <1> QED BY <1>3, <1>4, <1>5, <1>6

(* blake2b_final: the compressed blocks are those of the whole message. *)
LEMMA FinalStep ==
    ASSUME StreamInv, NEW size \in Nat, blake2b_final(size)
    PROVE  /\ StreamInv' /\ given' = given /\ call = "ready" /\ call' = "ready"
           /\ size < S.outlen \/ S.f => S' = S /\ digest' = digest
           /\ ~(size < S.outlen \/ S.f) => digest' = H(S.param[1], S.param[2], given)
  <1>1. /\ Types /\ call = "ready" /\ pin = <<>> /\ Len(pin) = 0
        /\ call' = call /\ pin' = pin /\ given' = given
    BY DEF StreamInv, blake2b_final
  <1>2. CASE size < S.outlen \/ S.f
    <2>1. S' = S /\ digest' = digest
      BY <1>2 DEF blake2b_final
    <2>2. Accounted => Accounted'
      BY <1>1, <2>1 DEF Accounted
    <2> QED BY <1>1, <1>2, <2>1, <2>2 DEF StreamInv, Types
  <1>3. CASE ~(size < S.outlen \/ S.f)
    <2>1. PICK n \in Nat, b \in 0 .. BLOCKBYTES, p \in Nat, u \in Nat : Shares(n, b, p, u)
      BY <1>3, Parts
    <2> USE DEF Shares
    <2>2. BLOCKBYTES \in Nat \ {0} /\ p = 0 /\ Len(given) = u + b /\ (n > 0 => b > 0)
      BY <1>1, <2>1, Blake2bAssumption
    <2>3. PICK block : block = padded(S)
      OBVIOUS
    <2>4. /\ block \in Block
          /\ block = [j \in 1 .. BLOCKBYTES |-> IF j <= b THEN given[Upto(n) + j] ELSE ZERO]
      <3>1. ASSUME NEW j \in 1 .. BLOCKBYTES
            PROVE  /\ (IF j > b THEN ZERO ELSE S.buf[j]) \in Byte
                   /\ (IF j > b THEN ZERO ELSE S.buf[j])
                        = IF j <= b THEN given[Upto(n) + j] ELSE ZERO
        <4>1. S.buf[j] \in Byte
          BY <1>1 DEF Types, blake2b_state, Block
        <4>2. CASE j <= b
          <5>1. j \in 1 .. b /\ ~(j > b)
            BY <4>2
          <5> QED BY <2>1, <4>1, <4>2, <5>1
        <4>3. CASE ~(j <= b)
          BY <4>3, ZeroByte
        <4> QED BY <4>2, <4>3
      <3>2. block = [j \in 1 .. BLOCKBYTES |-> IF j > b THEN ZERO ELSE S.buf[j]]
        BY <2>1, <2>3 DEF padded
      <3> QED BY <3>1, <3>2 DEF Block
    <2>5. PICK c : c = Compress(S, block, S.buflen, TRUE)
      OBVIOUS
    <2>6. /\ digest' = [param |-> c.param, h |-> c.h]
          /\ S' = [c EXCEPT !.h = <<>>, !.buf = Blank]
      BY <1>3, <2>3, <2>5 DEF blake2b_final
    <2>7. OneMore(c, S, block, u + b, TRUE)
      <3>1. S.buflen \in 0 .. BLOCKBYTES /\ S \in blake2b_state /\ TRUE \in BOOLEAN
        BY <1>1, <2>1 DEF Types
      <3>2. OneMore(c, S, block, u + S.buflen, TRUE)
        BY <2>1, <2>4, <2>5, <3>1, CompressFacts, Zenon
      <3> QED BY <2>1, <3>2
    <2>8. /\ c \in blake2b_state /\ Len(c.h) = n + 1 /\ c.f = TRUE /\ c.param = S.param
          /\ \A k \in 1 .. n : c.h[k] = FullBlock(given, k)
          /\ c.h[n + 1] = LastBlock(given, n, b)
      BY <2>1, <2>4, <2>7 DEF OneMore, LastBlock
    <2>9. c.h = Blocks(given)
      <3>1. c.h = [k \in 1 .. n + 1 |-> c.h[k]]
        BY <2>8 DEF blake2b_state
      <3>2. ASSUME NEW k \in 1 .. n + 1
            PROVE  c.h[k] = IF k <= n THEN FullBlock(given, k) ELSE LastBlock(given, n, b)
        <4>1. CASE k <= n
          BY <2>8, <4>1
        <4>2. CASE ~(k <= n)
          <5>1. k = n + 1
            BY <4>2
          <5> QED BY <2>8, <4>2, <5>1
        <4> QED BY <4>1, <4>2
      <3>3. given \in Seq(Byte) /\ Len(given) = Upto(n) + b
        BY <1>1, <2>1, <2>2 DEF Types
      <3>4. Blocks(given) = [k \in 1 .. n + 1 |-> IF k <= n THEN FullBlock(given, k)
                                                  ELSE LastBlock(given, n, b)]
        BY <2>2, <3>3, BlocksCut
      <3>5. [k \in 1 .. n + 1 |-> c.h[k]]
              = [k \in 1 .. n + 1 |-> IF k <= n THEN FullBlock(given, k)
                                                ELSE LastBlock(given, n, b)]
        BY <3>2
      <3> QED BY <3>1, <3>4, <3>5, Zenon
    <2>10. digest' = H(S.param[1], S.param[2], given)
      <3>1. S.param = <<S.param[1], S.param[2]>>
        BY <1>1 DEF Types, blake2b_state
      <3> QED BY <2>6, <2>8, <2>9, <3>1 DEF H
    <2>11. S' \in blake2b_state /\ S'.f /\ digest' \in Hash
      <3>1. Blank \in Block /\ <<>> \in Seq(Compressed)
        BY ZeroByte DEF Blank, Block
      <3>2. c.param \in Nat \X Nat /\ c.h \in Seq(Compressed)
        BY <2>8 DEF blake2b_state
      <3>3. S' \in blake2b_state /\ S'.f
        BY <2>6, <2>8, <3>1 DEF blake2b_state
      <3> QED BY <2>6, <3>2, <3>3 DEF Hash
    <2>12. StreamInv'
      BY <1>1, <2>11 DEF StreamInv, Types
    <2> QED BY <1>1, <1>3, <2>10, <2>12
  <1> QED BY <1>2, <1>3

-----------------------------------------------------------------------------
(* The steps of the users of the streaming functions. *)

DigestRight == digest' # digest => digest' = H(S.param[1], S.param[2], given)

LEMMA HalfFacts == Half \in Nat \ {0} /\ OUTBYTES = 2 * Half /\ OUTBYTES \in Nat \ {0}
  BY Blake2bAssumption DEF Half

(* The sequences of bytes that are hashed. *)
LEMMA ByteSequences ==
    /\ \A n \in Nat : Bytes("in", n) \in Seq(Byte) /\ Len(Bytes("in", n)) = n
    /\ \A n \in Nat, m \in Nat : [j \in 1 .. n |-> <<"in", m + j>>] \in Seq(Byte)
    /\ \A n \in Nat, m \in Nat : [j \in 1 .. n |-> <<"len", m>>] \in Seq(Byte)
    /\ \A n \in Nat, m \in Nat : /\ VBytes(m, n) \in Seq(Byte) /\ Len(VBytes(m, n)) = n
                                  /\ \A j \in 1 .. n : VBytes(m, n)[j] = <<"v", m, j>>
  <1>1. ASSUME NEW n \in Nat PROVE Bytes("in", n) \in Seq(Byte) /\ Len(Bytes("in", n)) = n
    <2>1. \A j \in 1 .. n : <<"in", j>> \in Byte
      BY DEF Byte
    <2> QED BY <2>1 DEF Bytes
  <1>2. ASSUME NEW n \in Nat, NEW m \in Nat
        PROVE  [j \in 1 .. n |-> <<"in", m + j>>] \in Seq(Byte)
    <2>1. \A j \in 1 .. n : <<"in", m + j>> \in Byte
      BY DEF Byte
    <2> QED BY <2>1
  <1>3. ASSUME NEW n \in Nat, NEW m \in Nat
        PROVE  [j \in 1 .. n |-> <<"len", m>>] \in Seq(Byte)
    <2>1. <<"len", m>> \in Byte
      BY DEF Byte
    <2> QED BY <2>1
  <1>4. ASSUME NEW n \in Nat, NEW m \in Nat
        PROVE  /\ VBytes(m, n) \in Seq(Byte) /\ Len(VBytes(m, n)) = n
               /\ \A j \in 1 .. n : VBytes(m, n)[j] = <<"v", m, j>>
    <2>1. \A j \in 1 .. n : <<"v", m, j>> \in Byte
      BY DEF Byte
    <2> QED BY <2>1 DEF VBytes
  <1> QED BY <1>1, <1>2, <1>3, <1>4

(* What is asked for does not change, and neither do the definitions of it. *)
LEMMA SameRequest ==
    ASSUME outlen' = outlen, inlen' = inlen
    PROVE  /\ \A k : Message(k)' = Message(k)
           /\ DigestLength(outlen)' = DigestLength(outlen)
           /\ DigestsDefined' = DigestsDefined /\ OutputDefined' = OutputDefined
  BY DEF Message, DigestsDefined, OutputDefined, FullDigests, DigestLength

LEMMA StreamingStep ==
    ASSUME IInv, Streaming
    PROVE  IInv' /\ DigestRight
  <1>1. /\ StreamInv /\ LongInv /\ user = "stream" /\ longVars' = longVars
        /\ Outlens \subseteq Nat /\ Inlens \subseteq Nat
    BY LongAssumption DEF IInv, Streaming
  <1>2. LongInv'
    BY <1>1 DEF LongInv, LongTypes, longVars, Chaining
  <1>3. StreamInv' /\ DigestRight
    <2>1. CASE \E n \in Outlens : blake2b_init(n)
      <3>1. PICK n \in Outlens : blake2b_init(n)
        BY <2>1
      <3>2. digest' = digest
        BY <3>1 DEF blake2b_init
      <3> QED BY <1>1, <3>1, <3>2, InitStep DEF DigestRight
    <2>2. CASE \E n \in Outlens : blake2b_final(n)
      <3>1. PICK n \in Outlens : blake2b_final(n)
        BY <2>2
      <3>2. n \in Nat
        BY <1>1
      <3> QED BY <1>1, <3>1, <3>2, FinalStep DEF DigestRight
    <2>3. CASE \E n \in Outlens : \E k \in 0 .. KEYBYTES + 1 : blake2b_init_key(n, k)
      <3>1. PICK n \in Outlens, k \in 0 .. KEYBYTES + 1 : blake2b_init_key(n, k)
        BY <2>3
      <3>2. n \in Nat /\ k \in Nat /\ digest' = digest
        BY <1>1, <3>1, Blake2bAssumption DEF blake2b_init_key
      <3> QED BY <1>1, <3>1, <3>2, InitKeyStep DEF DigestRight
    <2>4. CASE \E n \in Inlens :
                  blake2b_update([j \in 1 .. n |-> <<"in", Len(given) + j>>])
      <3>1. PICK n \in Inlens : blake2b_update([j \in 1 .. n |-> <<"in", Len(given) + j>>])
        BY <2>4
      <3>2. n \in Nat /\ Len(given) \in Nat
        BY <1>1 DEF StreamInv, Types
      <3>3. PICK in \in Seq(Byte) : in = [j \in 1 .. n |-> <<"in", Len(given) + j>>]
        BY <3>2, ByteSequences
      <3>4. blake2b_update(in)
        BY <3>1, <3>3
      <3> QED BY <1>1, <3>4, UpdateStep DEF DigestRight
    <2> QED BY <2>1, <2>2, <2>3, <2>4 DEF Streaming
  <1> QED BY <1>2, <1>3 DEF IInv

LEMMA UpdatingStep ==
    ASSUME IInv, Updating, UNCHANGED longVars
    PROVE  IInv' /\ DigestRight
  <1>1. StreamInv /\ LongInv /\ call = "update"
    BY DEF IInv, Updating, UpdateBlock, UpdateRest
  <1>2. /\ StreamInv' /\ digest' = digest /\ S'.f = S.f /\ S'.param = S.param
        /\ given' = given
    BY <1>1, UpdateBlockStep, UpdateRestStep DEF Updating
  <1>3. /\ user' = user /\ outlen' = outlen /\ inlen' = inlen /\ toproduce' = toproduce
        /\ v' = v /\ out' = out
    BY DEF longVars
  <1>4. /\ \A k : Message(k)' = Message(k)
        /\ DigestLength(outlen)' = DigestLength(outlen)
        /\ DigestsDefined' = DigestsDefined /\ OutputDefined' = OutputDefined
    BY <1>3, SameRequest
  <1>5. NextLength' = NextLength
    BY <1>3 DEF NextLength, more
  <1>6. user \notin {"init", "length", "chain", "chain_update"}
    BY <1>1 DEF LongInv
  <1>7. LongTypes' /\ (Chained => Chained')
    BY <1>1, <1>3, <1>4 DEF LongInv, LongTypes, Chained
  <1>8. \A size, message : Hashing(size, message) =>
           ~S'.f /\ S'.param = <<size, 0>> /\ given' = message
    BY <1>2 DEF Hashing
  <1>9. LongInv'
    BY <1>1, <1>3, <1>4, <1>5, <1>6, <1>7, <1>8 DEF LongInv, Hashing
  <1> QED BY <1>2, <1>9 DEF IInv, DigestRight

LEMMA LongRefuseStep ==
    ASSUME IInv, LongRefuse
    PROVE  IInv' /\ DigestRight
  <1>1. /\ StreamInv /\ LongInv /\ user = "init" /\ user' = "fail" /\ outlen > MaxOutlen
        /\ outlen' = outlen /\ inlen' = inlen /\ toproduce' = toproduce
        /\ v' = v /\ out' = out /\ S' = S /\ call' = call /\ pin' = pin
        /\ given' = given /\ digest' = digest
    BY DEF IInv, LongRefuse, Then, stateVars
  <1>2. StreamInv'
    BY <1>1 DEF StreamInv, Types, Accounted
  <1>3. LongTypes'
    BY <1>1 DEF LongInv, LongTypes, Labels
  <1>4. v = <<>> /\ out = <<>>
    BY <1>1 DEF LongInv
  <1>5. LongInv'
    BY <1>1, <1>3, <1>4 DEF LongInv, Chaining
  <1> QED BY <1>1, <1>2, <1>5 DEF IInv, DigestRight

LEMMA LongInitStep ==
    ASSUME IInv, LongInit
    PROVE  IInv' /\ DigestRight
  <1>1. /\ StreamInv /\ LongInv /\ user = "init" /\ blake2b_init(DigestLength(outlen))
        /\ outlen' = outlen /\ inlen' = inlen /\ toproduce' = toproduce
        /\ v' = v /\ out' = out /\ user' = IF ret' < 0 THEN "fail" ELSE "length"
    BY DEF IInv, LongInit, Then
  <1>2. LongTypes /\ outlen \in Nat /\ v = <<>> /\ out = <<>>
    BY <1>1 DEF LongInv, LongTypes
  <1>3. PICK size \in Nat : size = DigestLength(outlen)
    BY <1>2, HalfFacts DEF DigestLength
  <1>4. outlen > 0 <=> size \in 1 .. OUTBYTES
    BY <1>2, <1>3, HalfFacts DEF DigestLength
  <1>5. /\ StreamInv' /\ call' = "ready" /\ given' = <<>>
        /\ ret' = IF size \in 1 .. OUTBYTES THEN 0 ELSE -1
        /\ size \in 1 .. OUTBYTES => ~S'.f /\ S'.param = <<size, 0>>
    BY <1>1, <1>3, InitStep
  <1>6. digest' = digest
    BY <1>1 DEF blake2b_init
  <1>7. DigestLength(outlen)' = size
    BY <1>1, <1>3 DEF DigestLength
  <1>8. LongTypes'
    BY <1>1, <1>2 DEF LongTypes, Labels
  <1>9. CASE size \in 1 .. OUTBYTES
    <2>1. user' = "length" /\ outlen' > 0
      BY <1>1, <1>4, <1>5, <1>9
    <2>2. Hashing(DigestLength(outlen), <<>>)'
      BY <1>5, <1>7, <1>9 DEF Hashing
    <2>3. LongInv'
      BY <1>1, <1>2, <1>5, <1>8, <2>1, <2>2 DEF LongInv, Chaining
    <2> QED BY <1>5, <1>6, <2>3 DEF IInv, DigestRight
  <1>10. CASE size \notin 1 .. OUTBYTES
    <2>1. user' = "fail" /\ outlen' = 0
      BY <1>1, <1>2, <1>4, <1>5, <1>10
    <2>2. LongInv'
      BY <1>1, <1>2, <1>8, <2>1 DEF LongInv, Chaining
    <2> QED BY <1>5, <1>6, <2>2 DEF IInv, DigestRight
  <1> QED BY <1>9, <1>10

LEMMA LongLengthStep ==
    ASSUME IInv, LongLength
    PROVE  IInv' /\ DigestRight
  <1> DEFINE in == [j \in 1 .. LENBYTES |-> <<"len", outlen>>]
  <1>1. /\ StreamInv /\ LongInv /\ user = "length" /\ blake2b_update(in)
        /\ outlen' = outlen /\ inlen' = inlen /\ toproduce' = toproduce
        /\ v' = v /\ out' = out /\ user' = "input"
    BY DEF IInv, LongLength, Then
  <1>2. /\ LongTypes /\ v = <<>> /\ out = <<>> /\ outlen > 0
        /\ Hashing(DigestLength(outlen), <<>>)
    BY <1>1 DEF LongInv
  <1>3. in \in Seq(Byte)
    BY <1>2, LongAssumption, ByteSequences DEF LongTypes
  <1>4. /\ StreamInv' /\ digest' = digest /\ S'.f = S.f /\ S'.param = S.param
        /\ ~S.f => given' = given \o in
    BY <1>1, <1>3, UpdateStep
  <1>5. given' = in
    <2>1. given' = <<>> \o in
      BY <1>2, <1>4 DEF Hashing
    <2> QED BY <1>3, <2>1
  <1>6. Hashing(DigestLength(outlen), [j \in 1 .. LENBYTES |-> <<"len", outlen>>])'
    BY <1>1, <1>2, <1>4, <1>5 DEF Hashing, DigestLength
  <1>7. LongTypes'
    BY <1>1, <1>2 DEF LongTypes, Labels
  <1>8. LongInv'
    BY <1>1, <1>2, <1>6, <1>7 DEF LongInv, Chaining
  <1> QED BY <1>4, <1>8 DEF IInv, DigestRight

LEMMA LongInputStep ==
    ASSUME IInv, LongInput
    PROVE  IInv' /\ DigestRight
  <1> DEFINE in == Bytes("in", inlen)
  <1>1. /\ StreamInv /\ LongInv /\ user = "input" /\ blake2b_update(in)
        /\ outlen' = outlen /\ inlen' = inlen /\ toproduce' = toproduce
        /\ v' = v /\ out' = out /\ user' = "final"
    BY DEF IInv, LongInput, Then
  <1>2. /\ LongTypes /\ v = <<>> /\ out = <<>> /\ outlen > 0
        /\ Hashing(DigestLength(outlen), [j \in 1 .. LENBYTES |-> <<"len", outlen>>])
    BY <1>1 DEF LongInv
  <1>3. in \in Seq(Byte)
    BY <1>2, ByteSequences DEF LongTypes
  <1>4. /\ StreamInv' /\ digest' = digest /\ S'.f = S.f /\ S'.param = S.param
        /\ ~S.f => given' = given \o in
    BY <1>1, <1>3, UpdateStep
  <1>5. given' = Message(1)
    BY <1>2, <1>4 DEF Hashing, Message
  <1>6. Message(1)' = Message(1) /\ DigestLength(outlen)' = DigestLength(outlen)
    BY <1>1, SameRequest
  <1>7. Hashing(DigestLength(outlen), Message(1))'
    BY <1>2, <1>4, <1>5, <1>6 DEF Hashing
  <1>8. LongTypes'
    BY <1>1, <1>2 DEF LongTypes, Labels
  <1>9. LongInv'
    BY <1>1, <1>2, <1>7, <1>8 DEF LongInv, Chaining
  <1> QED BY <1>4, <1>9 DEF IInv, DigestRight

(* blake2b_final at the end of a hash that has been begun for its length. *)
LEMMA HashDone ==
    ASSUME StreamInv, NEW size \in Nat, NEW message, Hashing(size, message),
           blake2b_final(size)
    PROVE  /\ StreamInv' /\ call' = "ready" /\ digest' = H(size, 0, message)
           /\ digest' \in Hash /\ DigestRight
  <1>1. S.param = <<size, 0>> /\ ~S.f /\ given = message
    BY DEF Hashing
  <1>2. S.outlen = S.param[1] /\ S.param[1] = size /\ S.param[2] = 0
    BY <1>1 DEF StreamInv, Accounted
  <1>3. ~(size < S.outlen \/ S.f)
    BY <1>1, <1>2
  <1>4. StreamInv' /\ call' = "ready" /\ digest' = H(S.param[1], S.param[2], given)
    BY <1>3, FinalStep
  <1> QED BY <1>1, <1>2, <1>4 DEF StreamInv, Types, DigestRight

LEMMA LongFinalStep ==
    ASSUME IInv, LongFinal
    PROVE  IInv' /\ DigestRight
  <1>1. /\ StreamInv /\ LongInv /\ user = "final" /\ blake2b_final(DigestLength(outlen))
        /\ outlen' = outlen /\ inlen' = inlen /\ v' = Append(v, digest')
    BY DEF IInv, LongFinal
  <1>2. /\ LongTypes /\ outlen \in Nat /\ inlen \in Nat /\ toproduce \in Nat
        /\ v = <<>> /\ out = <<>> /\ outlen > 0
        /\ Hashing(DigestLength(outlen), Message(1))
    BY <1>1 DEF LongInv, LongTypes
  <1>3. PICK size \in Nat : size = DigestLength(outlen)
    BY <1>2, HalfFacts DEF DigestLength
  <1>4. /\ StreamInv' /\ call' = "ready" /\ digest' = H(size, 0, Message(1))
        /\ digest' \in Hash /\ DigestRight
    BY <1>1, <1>2, <1>3, HashDone
  <1>5. v' = <<digest'>> /\ v' \in Seq(Hash) /\ Len(v') = 1 /\ v'[1] = digest'
    BY <1>1, <1>2, <1>4
  <1>6. /\ \A k : Message(k)' = Message(k)
        /\ DigestsDefined' = DigestsDefined /\ OutputDefined' = OutputDefined
    BY <1>1, SameRequest
  <1>7. CASE outlen <= OUTBYTES
    <2>1. out' = VBytes(1, outlen) /\ user' = "done" /\ toproduce' = toproduce
      BY <1>7 DEF LongFinal
    <2>2. out' \in Seq(Byte)
      BY <1>2, <2>1, ByteSequences
    <2>3. v' = DigestsDefined' /\ out' = OutputDefined'
      BY <1>3, <1>4, <1>5, <1>6, <1>7, <2>1 DEF DigestsDefined, OutputDefined, DigestLength
    <2>4. LongTypes'
      BY <1>1, <1>2, <1>5, <2>1, <2>2 DEF LongTypes, Labels
    <2>5. LongInv'
      BY <2>1, <2>3, <2>4 DEF LongInv, Chaining
    <2> QED BY <1>4, <2>5 DEF IInv
  <1>8. CASE ~(outlen <= OUTBYTES)
    <2>1. out' = VBytes(1, Half) /\ user' = "chain" /\ toproduce' = outlen - Half
      BY <1>8 DEF LongFinal
    <2>2. /\ out' \in Seq(Byte) /\ Len(out') = Half
          /\ \A j \in 1 .. Half : out'[j] = <<"v", 1, j>>
      <3>1. 1 \in Nat /\ Half \in Nat
        BY HalfFacts
      <3> QED BY <2>1, <3>1, ByteSequences, Zenon
    <2>3. PICK h \in Nat \ {0} : h = Half /\ OUTBYTES = 2 * h
      BY HalfFacts
    <2>4. /\ outlen > OUTBYTES /\ toproduce' \in Nat /\ toproduce' > h
          /\ toproduce' = outlen - h * 1 /\ h = h * 1 /\ size = OUTBYTES
      BY <1>2, <1>3, <1>8, <2>1, <2>3 DEF DigestLength
    <2>5. ASSUME NEW j \in 1 .. Half PROVE out'[j] = OutByte(j)
      <3>1. PICK i \in 0 .. h - 1 : i = j - 1
        BY <2>3
      <3>2. i = h * 0 + i
        BY <2>3
      <3>3. i \div h = 0 /\ i % h = i
        BY <2>3, <3>2, DivModUnique
      <3>4. ((j - 1) \div Half) + 1 = 1 /\ ((j - 1) % Half) + 1 = j
        BY <2>3, <3>1, <3>3
      <3> QED BY <2>2, <3>4 DEF OutByte
    <2>6. Chained'
      <3>1. Len(out') = Half * Len(v') /\ toproduce' = outlen - Half * Len(v')
        BY <1>5, <2>2, <2>3, <2>4
      <3>2. \A k \in 1 .. Len(v') : v'[k] = H(OUTBYTES, 0, Message(k))
        BY <1>4, <1>5, <2>4
      <3>3. \A j \in 1 .. Len(out') : out'[j] = OutByte(j)
        BY <2>2, <2>5
      <3> QED BY <1>1, <1>5, <1>6, <2>3, <2>4, <3>1, <3>2, <3>3 DEF Chained
    <2>7. LongTypes'
      BY <1>1, <1>2, <1>5, <2>1, <2>2, <2>4 DEF LongTypes, Labels
    <2>8. LongInv'
      BY <1>4, <2>1, <2>6, <2>7 DEF LongInv, Chaining
    <2> QED BY <1>4, <2>8 DEF IInv
  <1> QED BY <1>7, <1>8

(* The length of the next digest of the chain. *)
LEMMA NextLengthFits ==
    ASSUME LongTypes, Chained
    PROVE  NextLength \in 1 .. OUTBYTES
  BY HalfFacts DEF LongTypes, Chained, NextLength, more

LEMMA LongChainStep ==
    ASSUME IInv, LongChain
    PROVE  IInv' /\ DigestRight
  <1>1. /\ StreamInv /\ LongInv /\ user = "chain" /\ blake2b_init(NextLength)
        /\ outlen' = outlen /\ inlen' = inlen /\ toproduce' = toproduce
        /\ v' = v /\ out' = out /\ user' = "chain_update"
    BY DEF IInv, LongChain, Then
  <1>2. LongTypes /\ Chained
    BY <1>1 DEF LongInv, Chaining
  <1>3. NextLength \in 1 .. OUTBYTES
    BY <1>2, NextLengthFits
  <1>4. /\ StreamInv' /\ call' = "ready" /\ given' = <<>>
        /\ ~S'.f /\ S'.param = <<NextLength, 0>>
    BY <1>1, <1>3, HalfFacts, InitStep
  <1>5. digest' = digest
    BY <1>1 DEF blake2b_init
  <1>6. \A k : Message(k)' = Message(k)
    BY <1>1, SameRequest
  <1>7. NextLength' = NextLength
    BY <1>1 DEF NextLength, more
  <1>8. LongTypes' /\ Chained'
    BY <1>1, <1>2, <1>6 DEF LongTypes, Chained, Labels
  <1>9. Hashing(NextLength, <<>>)'
    BY <1>4, <1>7 DEF Hashing
  <1>10. LongInv'
    BY <1>1, <1>4, <1>8, <1>9 DEF LongInv
  <1> QED BY <1>4, <1>5, <1>10 DEF IInv, DigestRight

LEMMA LongChainUpdateStep ==
    ASSUME IInv, LongChainUpdate
    PROVE  IInv' /\ DigestRight
  <1> DEFINE in == VBytes(Len(v), OUTBYTES)
  <1>1. /\ StreamInv /\ LongInv /\ user = "chain_update" /\ blake2b_update(in)
        /\ outlen' = outlen /\ inlen' = inlen /\ toproduce' = toproduce
        /\ v' = v /\ out' = out /\ user' = "chain_final"
    BY DEF IInv, LongChainUpdate, Then
  <1>2. LongTypes /\ Chained /\ Hashing(NextLength, <<>>)
    BY <1>1 DEF LongInv, Chaining
  <1>3. Len(v) \in Nat \ {0}
    BY <1>2 DEF LongTypes, Chained
  <1>4. in \in Seq(Byte)
    BY <1>3, HalfFacts, ByteSequences
  <1>5. /\ StreamInv' /\ digest' = digest /\ S'.f = S.f /\ S'.param = S.param
        /\ ~S.f => given' = given \o in
    BY <1>1, <1>4, UpdateStep
  <1>6. given' = Message(Len(v) + 1)
    <2>1. given' = <<>> \o in
      BY <1>2, <1>5 DEF Hashing
    <2>2. given' = in
      BY <1>4, <2>1
    <2>3. Len(v) + 1 # 1 /\ (Len(v) + 1) - 1 = Len(v)
      BY <1>3
    <2> QED BY <2>2, <2>3 DEF Message
  <1>7. \A k : Message(k)' = Message(k)
    BY <1>1, SameRequest
  <1>8. NextLength' = NextLength
    BY <1>1 DEF NextLength, more
  <1>9. LongTypes' /\ Chained'
    BY <1>1, <1>2, <1>7 DEF LongTypes, Chained, Labels
  <1>10. Hashing(NextLength, Message(Len(v) + 1))'
    <2>1. Message(Len(v) + 1)' = Message(Len(v) + 1)
      BY <1>1 DEF Message
    <2> QED BY <1>2, <1>5, <1>6, <1>8, <2>1 DEF Hashing
  <1>11. LongInv'
    BY <1>1, <1>9, <1>10 DEF LongInv
  <1> QED BY <1>5, <1>11 DEF IInv, DigestRight

(* One more digest, number n, of which the first size bytes are put out. *)
Longer(b, a, n, size) ==
    /\ b \in Seq(Byte) /\ Len(b) = Len(a) + size
    /\ \A j \in 1 .. Len(a) : b[j] = a[j]
    /\ \A j \in 1 .. size : b[Len(a) + j] = <<"v", n, j>>

LEMMA PutOut ==
    ASSUME NEW a \in Seq(Byte), NEW n \in Nat, NEW size \in Nat
    PROVE  Longer(a \o VBytes(n, size), a, n, size)
  <1>1. PICK w \in Seq(Byte) : /\ w = VBytes(n, size) /\ Len(w) = size
                               /\ \A j \in 1 .. size : w[j] = <<"v", n, j>>
    BY ByteSequences
  <1>2. /\ a \o w \in Seq(Byte) /\ Len(a \o w) = Len(a) + Len(w)
        /\ \A i \in 1 .. Len(a) : (a \o w)[i] = a[i]
        /\ \A i \in 1 .. Len(w) : (a \o w)[Len(a) + i] = w[i]
    BY Concatenated
  <1> QED BY <1>1, <1>2 DEF Longer

LEMMA LongChainFinalStep ==
    ASSUME IInv, LongChainFinal
    PROVE  IInv' /\ DigestRight
  <1>1. /\ StreamInv /\ LongInv /\ user = "chain_final" /\ blake2b_final(NextLength)
        /\ outlen' = outlen /\ inlen' = inlen /\ v' = Append(v, digest')
    BY DEF IInv, LongChainFinal
  <1>2. /\ LongTypes /\ Chained /\ Hashing(NextLength, Message(Len(v) + 1))
        /\ outlen \in Nat /\ toproduce \in Nat /\ v \in Seq(Hash) /\ out \in Seq(Byte)
    BY <1>1 DEF LongInv, LongTypes, Chaining
  <1>3. NextLength \in 1 .. OUTBYTES
    BY <1>2, NextLengthFits
  <1>4. /\ StreamInv' /\ call' = "ready" /\ digest' = H(NextLength, 0, Message(Len(v) + 1))
        /\ digest' \in Hash /\ DigestRight
    BY <1>1, <1>2, <1>3, HalfFacts, HashDone
  <1>5. PICK n \in Nat \ {0}, h \in Nat \ {0}, x \in Nat :
           n = Len(v) /\ h = Half /\ OUTBYTES = 2 * h /\ x = h * n
    BY <1>2, HalfFacts DEF Chained
  <1>6. /\ outlen > OUTBYTES /\ toproduce = outlen - x /\ toproduce > h /\ Len(out) = x
        /\ \A k \in 1 .. n : v[k] = H(OUTBYTES, 0, Message(k))
        /\ \A j \in 1 .. x : out[j] = OutByte(j)
    BY <1>2, <1>5 DEF Chained
  <1>7. /\ v' \in Seq(Hash) /\ Len(v') = n + 1 /\ v'[n + 1] = digest'
        /\ \A k \in 1 .. n : v'[k] = v[k]
    BY <1>1, <1>2, <1>4, <1>5
  <1>8. /\ \A k : Message(k)' = Message(k)
        /\ DigestsDefined' = DigestsDefined /\ OutputDefined' = OutputDefined
    BY <1>1, SameRequest
  <1>9. CASE more
    <2>1. /\ out' = out \o VBytes(n + 1, h) /\ toproduce' = toproduce - h
          /\ user' = "chain" /\ NextLength = OUTBYTES /\ toproduce > 2 * h
      BY <1>5, <1>9 DEF LongChainFinal, NextLength, more
    <2>2. /\ out' \in Seq(Byte) /\ Len(out') = x + h
          /\ \A j \in 1 .. x : out'[j] = out[j]
          /\ \A j \in 1 .. h : out'[x + j] = <<"v", n + 1, j>>
      <3>1. out \in Seq(Byte) /\ n + 1 \in Nat /\ h \in Nat
        BY <1>2
      <3>2. Longer(out', out, n + 1, h)
        BY <2>1, <3>1, PutOut, Zenon
      <3> QED BY <1>6, <3>2 DEF Longer
    <2>3. x + h = h * (n + 1)
      BY <1>5
    <2>4. ASSUME NEW j \in 1 .. x + h PROVE out'[j] = OutByte(j)
      <3>1. CASE j \in 1 .. x
        BY <1>6, <2>2, <3>1
      <3>2. CASE j \notin 1 .. x
        <4>1. PICK i \in 1 .. h, d \in 0 .. h - 1, m \in Nat :
                 i = j - x /\ d = i - 1 /\ m = j - 1
          BY <3>2
        <4>2. m = x + d /\ j = x + i
          BY <4>1
        <4>3. m = h * n + d
          BY <1>5, <4>2
        <4>4. m \div h = n /\ m % h = d
          BY <4>3, DivModUnique
        <4>5. ((j - 1) \div Half) + 1 = n + 1 /\ ((j - 1) % Half) + 1 = i
          BY <1>5, <4>1, <4>4
        <4> QED BY <2>2, <4>2, <4>5 DEF OutByte
      <3> QED BY <3>1, <3>2
    <2>5. /\ toproduce' \in Nat /\ toproduce' > h /\ toproduce' = outlen - (x + h)
      BY <1>2, <1>6, <2>1
    <2>6. Chained'
      <3>1. /\ Len(out') = Half * Len(v') /\ toproduce' = outlen' - Half * Len(v')
            /\ toproduce' > Half /\ outlen' > OUTBYTES /\ Len(v') > 0
        BY <1>1, <1>5, <1>6, <1>7, <2>2, <2>3, <2>5
      <3>2. ASSUME NEW k \in 1 .. n + 1 PROVE v'[k] = H(OUTBYTES, 0, Message(k))
        <4>1. CASE k \in 1 .. n
          BY <1>6, <1>7, <4>1
        <4>2. CASE k = n + 1
          BY <1>4, <1>5, <1>7, <2>1, <4>2
        <4> QED BY <4>1, <4>2
      <3>3. \A j \in 1 .. Len(out') : out'[j] = OutByte(j)
        BY <2>2, <2>4
      <3> QED BY <1>7, <1>8, <3>1, <3>2, <3>3 DEF Chained
    <2>7. LongTypes'
      BY <1>1, <1>2, <1>7, <2>1, <2>2, <2>5 DEF LongTypes, Labels
    <2>8. LongInv'
      BY <1>4, <2>1, <2>6, <2>7 DEF LongInv, Chaining
    <2> QED BY <1>4, <2>8 DEF IInv
  <1>10. CASE ~more
    <2>1. /\ out' = out \o VBytes(n + 1, toproduce) /\ toproduce' = toproduce
          /\ user' = "done" /\ NextLength = toproduce /\ toproduce <= 2 * h
      BY <1>2, <1>5, <1>10 DEF LongChainFinal, NextLength, more
    <2>2. /\ out' \in Seq(Byte) /\ Len(out') = x + toproduce
          /\ \A j \in 1 .. x : out'[j] = out[j]
          /\ \A j \in 1 .. toproduce : out'[x + j] = <<"v", n + 1, j>>
      <3>1. out \in Seq(Byte) /\ n + 1 \in Nat /\ toproduce \in Nat
        BY <1>2
      <3>2. Longer(out', out, n + 1, toproduce)
        BY <2>1, <3>1, PutOut, Zenon
      <3> QED BY <1>6, <3>2 DEF Longer
    <2>3. FullDigests = n
      <3>1. PICK m \in Nat, q \in Nat, d \in 0 .. h - 1 :
               m = outlen + h - 1 /\ q = n + 2 /\ d = toproduce - h - 1
        BY <1>2, <1>6, <2>1
      <3>2. h * q = x + 2 * h
        BY <1>5, <3>1
      <3>3. m = (x + 2 * h) + d
        BY <1>2, <1>6, <3>1
      <3>4. m = h * q + d
        BY <3>2, <3>3
      <3>5. m \div h = q
        BY <3>4, DivModUnique
      <3> QED BY <1>5, <3>1, <3>5 DEF FullDigests
    <2>4. ~(outlen <= OUTBYTES) /\ outlen = x + toproduce /\ outlen - x = toproduce
      BY <1>2, <1>5, <1>6
    <2>5. v' = DigestsDefined
      <3>1. v' = [k \in 1 .. n + 1 |-> v'[k]]
        BY <1>7
      <3>2. ASSUME NEW k \in 1 .. n + 1
            PROVE  v'[k] = H(IF k <= n THEN OUTBYTES ELSE outlen - x, 0, Message(k))
        <4>1. CASE k <= n
          BY <1>6, <1>7, <4>1
        <4>2. CASE ~(k <= n)
          <5>1. k = n + 1
            BY <4>2
          <5> QED BY <1>4, <1>5, <1>7, <2>1, <2>4, <4>2, <5>1
        <4> QED BY <4>1, <4>2
      <3>3. DigestsDefined = [k \in 1 .. n + 1 |->
                H(IF k <= n THEN OUTBYTES ELSE outlen - x, 0, Message(k))]
        BY <1>5, <2>3, <2>4 DEF DigestsDefined
      <3> QED BY <3>1, <3>2, <3>3
    <2>6. out' = OutputDefined
      <3>1. out' = [j \in 1 .. outlen |-> out'[j]]
        BY <2>2, <2>4
      <3>2. ASSUME NEW j \in 1 .. outlen
            PROVE  out'[j] = IF j <= x THEN OutByte(j) ELSE <<"v", n + 1, j - x>>
        <4>1. CASE j <= x
          BY <1>6, <2>2, <4>1
        <4>2. CASE ~(j <= x)
          <5>1. PICK i \in 1 .. toproduce : i = j - x
            BY <1>2, <2>4, <4>2
          <5>2. j = x + i
            BY <5>1
          <5> QED BY <2>2, <4>2, <5>1, <5>2
        <4> QED BY <4>1, <4>2
      <3>3. OutputDefined = [j \in 1 .. outlen |->
                IF j <= x THEN OutByte(j) ELSE <<"v", n + 1, j - x>>]
        BY <1>5, <2>3, <2>4 DEF OutputDefined, OutByte
      <3> QED BY <3>1, <3>2, <3>3
    <2>7. LongTypes'
      BY <1>1, <1>2, <1>7, <2>1, <2>2 DEF LongTypes, Labels
    <2>8. LongInv'
      BY <1>8, <2>1, <2>5, <2>6, <2>7 DEF LongInv, Chaining
    <2> QED BY <1>4, <2>8 DEF IInv
  <1> QED BY <1>9, <1>10

-----------------------------------------------------------------------------
(* The invariant holds, and every step gives the digest of what was given. *)

LEMMA InitInv == Init => IInv
  <1> SUFFICES ASSUME Init PROVE IInv
    OBVIOUS
  <1>1. /\ S = Invalid /\ call = "ready" /\ pin = <<>> /\ given = <<>> /\ digest = NoDigest
        /\ v = <<>> /\ out = <<>> /\ toproduce = 0
        /\ \/ user = "stream" /\ outlen = 0 /\ inlen = 0
           \/ user = "init" /\ outlen \in Outlens /\ inlen \in Inlens
    BY DEF Init, Uninitialised
  <1>2. S \in blake2b_state /\ S.f
    BY <1>1, FreshState DEF Invalid, Fresh
  <1>3. digest \in Hash
    BY <1>1 DEF NoDigest, Hash
  <1>4. StreamInv
    BY <1>1, <1>2, <1>3 DEF StreamInv, Types
  <1>5. LongInv
    <2>1. outlen \in Nat /\ inlen \in Nat
      <3>1. CASE user = "stream"
        BY <1>1, <3>1
      <3>2. CASE user = "init"
        BY <1>1, <3>2, LongAssumption, Zenon
      <3> QED BY <1>1, <3>1, <3>2
    <2>2. LongTypes
      BY <1>1, <2>1 DEF LongTypes, Labels
    <2> QED BY <1>1, <2>2 DEF LongInv, Chaining
  <1> QED BY <1>4, <1>5 DEF IInv

LEMMA StepInv == IInv /\ [Next]_vars => IInv' /\ DigestRight
  <1> SUFFICES ASSUME IInv, [Next]_vars PROVE IInv' /\ DigestRight
    OBVIOUS
  <1>1. CASE Streaming
    BY <1>1, StreamingStep
  <1>2. CASE blake2b_long
    BY <1>2, LongRefuseStep, LongInitStep, LongLengthStep, LongInputStep, LongFinalStep, LongChainStep,
       LongChainUpdateStep, LongChainFinalStep DEF blake2b_long
  <1>3. CASE Updating /\ UNCHANGED longVars
    BY <1>3, UpdatingStep
  <1>4. CASE UNCHANGED vars
    <2>1. /\ S' = S /\ call' = call /\ pin' = pin /\ given' = given /\ digest' = digest
          /\ user' = user /\ outlen' = outlen /\ inlen' = inlen /\ toproduce' = toproduce
          /\ v' = v /\ out' = out
      BY <1>4 DEF vars, stateVars, longVars
    <2>2. StreamInv'
      BY <2>1 DEF IInv, StreamInv, Types, Accounted
    <2>3. /\ \A k : Message(k)' = Message(k)
          /\ DigestLength(outlen)' = DigestLength(outlen)
          /\ DigestsDefined' = DigestsDefined /\ OutputDefined' = OutputDefined
      BY <2>1, SameRequest
    <2>4. NextLength' = NextLength
      BY <2>1 DEF NextLength, more
    <2>5. LongInv'
      BY <2>1, <2>3, <2>4 DEF IInv, LongInv, LongTypes, Chained, Hashing
    <2> QED BY <2>1, <2>2, <2>5 DEF IInv, DigestRight
  <1> QED BY <1>1, <1>2, <1>3, <1>4 DEF Next, Returned

LEMMA Invariance == Spec => []IInv
  BY InitInv, StepInv, PTL DEF Spec

(* However a message is cut into calls of blake2b_update, blake2b_final gives *)
(* the hash of the whole of it, for every size of blocks, also where the      *)
(* counter carries from its lower to its upper word.                          *)
THEOREM StreamHashesMessage == Spec => DigestOfMessage
  <1>1. IInv /\ [Next]_vars => [DigestRight]_stateVars
    BY StepInv
  <1>2. [DigestRight]_stateVars
          => [digest' # digest => digest' = H(S.param[1], S.param[2], given)]_stateVars
    BY DEF DigestRight
  <1> QED BY <1>1, <1>2, Invariance, PTL DEF Spec, DigestOfMessage

(* Past its first check, blake2b_long has a length that it can store. *)
Storable == user \notin {"stream", "init", "fail"} => outlen <= MaxOutlen

LEMMA StorableKept == Storable /\ [Next]_vars => Storable'
  <1> SUFFICES ASSUME Storable, [Next]_vars PROVE Storable'
    OBVIOUS
  <1>1. outlen' = outlen /\ (user' = user \/ user' = "fail" \/ outlen <= MaxOutlen)
    <2>1. CASE Streaming
      BY <2>1 DEF Streaming, longVars
    <2>2. CASE blake2b_long
      BY <2>2
      DEF blake2b_long, Storable, LongRefuse, LongInit, LongLength, LongInput, LongFinal,
          LongChain, LongChainUpdate, LongChainFinal, Then
    <2>3. CASE UNCHANGED longVars
      BY <2>3 DEF longVars
    <2>4. CASE Returned
      BY <2>4 DEF Returned, vars, longVars
    <2> QED BY <2>1, <2>2, <2>3, <2>4 DEF Next, vars
  <1> QED BY <1>1 DEF Storable

(* blake2b_long computes the variable-length hash of its definition, for      *)
(* every length of output and input and every size of digests, and refuses    *)
(* only the lengths 0 and above UINT32_MAX.                                   *)
THEOREM LongHashAsDefined == Spec => []LongOutput
  <1>1. IInv /\ Storable => LongOutput
    BY DEF IInv, LongInv, LongOutput, Storable
  <1>2. Init => Storable
    BY DEF Init, Storable
  <1> QED BY <1>1, <1>2, StorableKept, Invariance, PTL DEF Spec

(* Nothing is written outside of the buffer of the state, nor beyond the end  *)
(* of out.                                                                    *)
THEOREM BuffersAlwaysHold == Spec => []BuffersHold
  <1>1. ASSUME IInv PROVE BuffersHold
    <2>1. StreamInv /\ LongInv /\ Types /\ LongTypes
      BY <1>1 DEF IInv, StreamInv, LongInv
    <2>2. S.buflen \in 0 .. BLOCKBYTES
      BY <2>1 DEF Types, blake2b_state
    <2>3. ASSUME call = "update", Len(pin) <= BLOCKBYTES
          PROVE  S.buflen + Len(pin) <= BLOCKBYTES
      <3>1. Accounted /\ Len(pin) \in Nat
        BY <2>1, <2>3 DEF StreamInv, Types
      <3> QED BY <2>2, <2>3, <3>1, Blake2bAssumption DEF Accounted
    <2>4. Len(out) <= outlen
      <3>1. CASE user \in {"stream", "init", "length", "input", "final", "fail"}
        BY <2>1, <3>1 DEF LongInv, LongTypes
      <3>2. CASE user \in Chaining
        <4>1. Chained /\ Len(v) \in Nat /\ Half \in Nat /\ outlen \in Nat
          BY <2>1, <3>2, HalfFacts DEF LongInv, LongTypes
        <4>2. PICK x \in Nat : x = Half * Len(v)
          BY <4>1
        <4> QED BY <4>1, <4>2 DEF Chained
      <3>3. CASE user = "done"
        <4>1. out = OutputDefined /\ outlen \in Nat
          BY <2>1, <3>3 DEF LongInv, LongTypes
        <4>2. DOMAIN out = 1 .. outlen
          BY <4>1 DEF OutputDefined, VBytes
        <4>3. out \in Seq(Byte)
          BY <2>1 DEF LongTypes
        <4> QED BY <4>1, <4>2, <4>3
      <3> QED BY <2>1, <3>1, <3>2, <3>3 DEF LongTypes, Labels, Chaining
    <2> QED BY <2>2, <2>3, <2>4 DEF BuffersHold
  <1> QED BY <1>1, Invariance, PTL
=============================================================================
