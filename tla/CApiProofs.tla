----------------------------- MODULE CApiProofs ------------------------------
(* The C interface, for every word size, every program and all arguments:     *)
(* each buffer is freed once, what is handed to the caller is the digest of   *)
(* its arguments, and only the maker's password verifies a string.            *)
EXTENDS Cli, EncodingLemmas, TLAPS

-----------------------------------------------------------------------------
(* The inductive invariant. *)

Filling == {"initial_hash", "fill", "finalize"}
Labels == {"idle", "validate", "allocate", "returned"} \cup Filling
Verifying == {"decode", "decoded", "argon2_verify"}
InCtx == {"argon2_ctx", "argon2_hash", "argon2_verify"}

(* Where argon2_ctx is, for each place of its caller; and whose place it is. *)
Control(q) ==
    /\ at[q] \in {"idle", "done"} \cup Verifying \cup InCtx
    /\ pc[q] \in Labels
    /\ at[q] \in {"idle", "decode", "decoded"} => pc[q] = "idle"
    /\ at[q] \in InCtx => pc[q] # "idle"
    /\ at[q] = "done" => pc[q] \in {"idle", "returned"}
    /\ at[q] \in {"argon2_ctx", "argon2_hash"} => program[q] = at[q]
    /\ at[q] \in Verifying => program[q] = "argon2_verify"

(* The buffers that are live are those that the local pointers lead to. *)
Memory(q) ==
    /\ ptr[q] = [salt |-> ptr[q].salt, out |-> ptr[q].out, desired |-> ptr[q].desired]
    /\ at[q] \in {"idle", "argon2_ctx"} => \A b \in Buffers : heap[q][b] = "none"
    /\ at[q] = "argon2_hash" =>
          \A b \in Buffers : heap[q][b] = IF b = "first" THEN "live" ELSE "none"
    /\ at[q] \in Verifying =>
          \A b \in Buffers : heap[q][b] = IF b \in pointers(q) THEN "live" ELSE "none"
    /\ at[q] = "done" => \A b \in Buffers : heap[q][b] \in {"none", "freed"}
    /\ at[q] = "idle" => ptr[q] = NoPointers
    /\ at[q] = "decode" => /\ ptr[q].salt \in {"salt", NULL}
                           /\ ptr[q].out \in {"first", NULL}
                           /\ ptr[q].desired = NULL
    /\ at[q] \in {"decoded", "argon2_verify"} =>
          /\ ptr[q].salt = "salt" /\ ptr[q].desired = "first"
          /\ ptr[q].out \in {"second", NULL}

(* The lengths of some arguments fit a uint32_t. *)
FitsWord(a) == {a.pwdlen, a.saltlen, a.hashlen} \subseteq 0 .. MaxLength

(* What argon2_ctx accepts; and what argon2_hash makes a tag of. *)
Accepted(c) == valid(c) /\ c.type \in {"d", "i", "id"}
Hashable(a) == argument_types(a) /\ FitsWord(a) /\ Accepted(hash_context(a))

(* argon2_ctx has returned: with the digest, or for lack of resources, or     *)
(* because it has not accepted the context.                                   *)
Returned(q) ==
    /\ result[q] = "ARGON2_OK" => /\ out[q] = Digest(context[q], buf[q])
                                  /\ Accepted(context[q])
    /\ result[q] # "ARGON2_OK" => result[q] \in ResourceErrors \/ ~Accepted(context[q])
    /\ result[q] # "ARGON2_ENCODING_FAIL"

(* What argon2_ctx works on, and what it has made of it. *)
Digesting(q) ==
    /\ matrix[q] = [live |-> matrix[q].live, bytes |-> matrix[q].bytes,
                    content |-> matrix[q].content]
    /\ at[q] = "argon2_hash" => /\ argument_types(args[q]) /\ FitsWord(args[q])
                                /\ context[q] = hash_context(args[q])
    /\ at[q] = "argon2_verify" => context[q] = decoded_context(subject[q], args[q])
    /\ at[q] \in {"argon2_hash", "argon2_verify"} =>
          /\ buf[q] = buffers_of(args[q])
          /\ pc[q] \in {"fill", "finalize"} =>
                matrix[q].content = Digest(context[q], buf[q])
          /\ pc[q] \in {"allocate"} \cup Filling => Accepted(context[q])
          /\ pc[q] = "returned" => Returned(q)

(* The caller's buffers. *)
Untouched(q) == hash[q] = NoTag /\ encoded[q] = NoTag

(* The size of the caller's buffer is what argon2_encodedlen says, or more. *)
large_enough(a) ==
    a.encodedlen >= argon2_encodedlen(a.t_cost, a.m_cost, a.parallelism, a.saltlen,
                                      a.hashlen, a.type)

Matches(q) ==
    LET a == args[q]
    IN  /\ hash[q] \in {NoTag, DigestOf(a)}
        /\ encoded[q].is = "string" =>
             /\ ret[q] = "ARGON2_OK"
             /\ encoded[q].fields = Encoded(hash_context(a), DigestOf(a), a.type)
        /\ ret[q] = "ARGON2_OK" =>
             /\ a.hash # NULL => hash[q] = DigestOf(a)
             /\ wants_encoded(a) => encoded[q].is = "string"
        /\ ret[q] \notin {"ARGON2_OK", "ARGON2_ENCODING_FAIL"} => hash[q] = NoTag
        /\ ret[q] \in {"ARGON2_OK", "ARGON2_ENCODING_FAIL"} =>
             /\ Hashable(a)
             /\ wants_encoded(a) => (ret[q] = "ARGON2_OK" <=> large_enough(a))
        /\ out[q] \in {NoTag, ZeroTag}

Outputs(q) ==
    /\ at[q] = "idle" => out[q] = NoTag
    /\ at[q] # "done" => Untouched(q)
    /\ at[q] = "done" => \/ program[q] = "argon2_hash" /\ Matches(q)
                         \/ program[q] # "argon2_hash" /\ Untouched(q)

(* A string that argon2_hash has made; and what argon2_verify is given: such  *)
(* a string, or one from elsewhere.                                           *)
Made(s) ==
    \E b : Hashable(b) /\ s = Given(Encoded(hash_context(b), DigestOf(b), b.type), Maker(b))
Origin(s, a) ==
    /\ a.pwdlen \in Nat
    /\ (s \in Strings /\ a \in Attempts) \/ Made(s)

(* The first checks of argon2_verify have passed. *)
Readable(s, a) ==
    Origin(s, a) /\ a.pwdlen <= MaxLength /\ ~s.null /\ Strlen(s.fields) <= MaxLength

Right(s, a, code) ==
    /\ code = "ARGON2_OK" => s.maker = Maker(a)
    /\ s.maker = Maker(a) /\ Strlen(s.fields) <= MaxLength =>
          code \in {"ARGON2_OK"} \cup ResourceErrors

Verdict(q) ==
    /\ at[q] \in Verifying => Readable(subject[q], args[q])
    /\ at[q] \in {"decoded", "argon2_verify"} =>
          decodes(subject[q], args[q]) = "ARGON2_OK"
    /\ at[q] = "done" /\ program[q] = "argon2_verify" =>
          Right(subject[q], args[q], ret[q])

CallInv(q) == Control(q) /\ Memory(q) /\ Digesting(q) /\ Outputs(q) /\ Verdict(q)

(* Every variable but the program is a function of the calls. *)
Domains ==
    /\ DOMAIN pc = Calls /\ DOMAIN context = Calls /\ DOMAIN buf = Calls
    /\ DOMAIN instance = Calls /\ DOMAIN matrix = Calls /\ DOMAIN out = Calls
    /\ DOMAIN result = Calls /\ DOMAIN at = Calls /\ DOMAIN args = Calls
    /\ DOMAIN subject = Calls /\ DOMAIN heap = Calls /\ DOMAIN ptr = Calls
    /\ DOMAIN hash = Calls /\ DOMAIN encoded = Calls /\ DOMAIN ret = Calls

IInv == Domains /\ \A q \in Calls : CallInv(q)

-----------------------------------------------------------------------------
(* What the invariant rests on. *)

LEMMA SmallWord ==
    ASSUME NEW n \in 0 .. MaxLength
    PROVE  uint32(n) = n
  BY LimitsAssumption DEF uint32, MaxLength

(* argon2_hash's own checks are what makes the truncation to uint32_t exact:  *)
(* with them, the digest is that of the untruncated lengths.                  *)
LEMMA ChecksMakeLengthsFit ==
    ASSUME NEW a, argument_types(a), \A n \in DOMAIN hash_checks(a) : ~hash_checks(a)[n].fails
    PROVE  FitsWord(a)
  <1>1. DOMAIN hash_checks(a) = 1 .. 4
    BY DEF hash_checks
  <1>2. ~hash_checks(a)[1].fails /\ ~hash_checks(a)[2].fails /\ ~hash_checks(a)[3].fails
    BY <1>1
  <1>3. ~(a.pwdlen > MaxLength) /\ ~(a.saltlen > MaxLength) /\ ~(a.hashlen > MaxLength)
    BY <1>2 DEF hash_checks, Check
  <1>4. a.pwdlen \in Nat /\ a.saltlen \in Nat /\ a.hashlen \in Nat
    BY DEF argument_types
  <1> QED BY <1>3, <1>4, LimitsAssumption DEF FitsWord, MaxLength

LEMMA HashContextFields ==
    ASSUME NEW a, FitsWord(a), NEW c, c = hash_context(a)
    PROVE  /\ c.pwdlen = a.pwdlen /\ c.saltlen = a.saltlen /\ c.outlen = a.hashlen
           /\ c.t_cost = a.t_cost /\ c.m_cost = a.m_cost /\ c.lanes = a.parallelism
           /\ c.version = a.version /\ c.type = a.type
  <1>1. /\ uint32(a.pwdlen) = a.pwdlen /\ uint32(a.saltlen) = a.saltlen
        /\ uint32(a.hashlen) = a.hashlen
    BY SmallWord DEF FitsWord
  <1> QED BY <1>1 DEF hash_context

LEMMA DigestExact ==
    ASSUME NEW a, FitsWord(a)
    PROVE  Digest(hash_context(a), buffers_of(a)) = DigestOf(a)
  <1> DEFINE c == hash_context(a)
             b == buffers_of(a)
  <1>1. c.pwdlen = a.pwdlen /\ c.saltlen = a.saltlen /\ c.outlen = a.hashlen
    BY HashContextFields
  <1> HIDE DEF c, b
  <1>2. Digest(c, b) = [Digest(c, b) EXCEPT !.pwdlen = a.pwdlen, !.saltlen = a.saltlen,
                                            !.outlen = a.hashlen]
    <2> DEFINE d == Digest(c, b)
    <2>1. /\ d.pwdlen = a.pwdlen /\ d.saltlen = a.saltlen /\ d.outlen = a.hashlen
          /\ d = [x \in DOMAIN d |-> d[x]]
      BY <1>1 DEF Digest
    <2> HIDE DEF d
    <2>2. d = [d EXCEPT !.pwdlen = a.pwdlen, !.saltlen = a.saltlen,
                        !.outlen = a.hashlen]
      BY <2>1
    <2> QED BY <2>2 DEF d
  <1> QED BY <1>2 DEF DigestOf, c, b

(* The contexts of argon2_hash and argon2_verify have no flags: initial_hash  *)
(* leaves the caller's password, and the context, as they are.                *)
LEMMA NothingCleared ==
    ASSUME NEW c, NEW b, c.flags = {}, c = [x \in DOMAIN c |-> c[x]],
           b = [pwd |-> b.pwd, secret |-> b.secret]
    PROVE  ContextAfter(c) = c /\ BuffersAfter(c, b) = b
  <1>1. ~ClearPassword(c) /\ ~ClearSecret(c)
    BY DEF ClearPassword, ClearSecret
  <1>2. BuffersAfter(c, b) = b
    BY <1>1 DEF BuffersAfter
  <1>3. ContextAfter(c) = c
    <2>1. ContextAfter(c) = [c EXCEPT !.pwdlen = c.pwdlen, !.secretlen = c.secretlen]
      BY <1>1 DEF ContextAfter
    <2> QED BY <2>1
  <1> QED BY <1>2, <1>3

LEMMA HashContextFlags ==
    ASSUME NEW a
    PROVE  /\ hash_context(a).flags = {}
           /\ hash_context(a) = [x \in DOMAIN hash_context(a) |-> hash_context(a)[x]]
           /\ buffers_of(a) = [pwd |-> buffers_of(a).pwd, secret |-> buffers_of(a).secret]
  BY DEF hash_context, buffers_of

LEMMA DecodedContextFields ==
    ASSUME NEW s, NEW a
    PROVE  /\ decoded_context(s, a).flags = {}
           /\ decoded_context(s, a) =
                 [x \in DOMAIN decoded_context(s, a) |-> decoded_context(s, a)[x]]
           /\ decoded_context(s, a).pwdlen = uint32(a.pwdlen)
           /\ decoded_context(s, a).type = a.type
  <1> DEFINE v == verify_context(s, a)
             d == DecodedContext(s.fields, v)
  <1>1. /\ v.pwdlen = uint32(a.pwdlen) /\ v.type = a.type
        /\ {"flags", "pwdlen", "type"} \subseteq DOMAIN v
    BY DEF verify_context
  <1> HIDE DEF v
  <1>2. d.flags = {} /\ d.pwdlen = v.pwdlen /\ d.type = v.type
    BY <1>1 DEF DecodedContext
  <1>3. d = [x \in DOMAIN d |-> d[x]]
    BY ZenonT(90) DEF DecodedContext
  <1> QED BY <1>1, <1>2, <1>3, Zenon DEF decoded_context, v

LEMMA HashWritable ==
    ASSUME NEW a, Hashable(a)
    PROVE  Writable(hash_context(a))
  <1>1. PICK c : c = hash_context(a)
    OBVIOUS
  <1>2. /\ c.saltlen = a.saltlen /\ c.outlen = a.hashlen /\ c.t_cost = a.t_cost
        /\ c.m_cost = a.m_cost /\ c.lanes = a.parallelism /\ c.version = a.version
    BY <1>1, HashContextFields DEF Hashable
  <1>3. Writable(c)
    BY <1>2, LimitsAssumption
    DEF Hashable, argument_types, FitsWord, Writable, MaxLength
  <1> QED BY <1>1, <1>3

(* argon2_encodedlen says which buffers argon2_hash can encode to. *)
LEMMA EncodesWhenLarge ==
    ASSUME NEW a, Hashable(a)
    PROVE  encode_string(a.encodedlen, hash_context(a), a.type) = "ARGON2_OK"
             <=> large_enough(a)
  <1>1. PICK c : c = hash_context(a)
    OBVIOUS
  <1>2. /\ c.saltlen = a.saltlen /\ c.outlen = a.hashlen /\ c.t_cost = a.t_cost
        /\ c.m_cost = a.m_cost /\ c.lanes = a.parallelism /\ c.version = a.version
        /\ c.type = a.type
    BY <1>1, HashContextFields DEF Hashable
  <1>3. Writable(c) /\ a.encodedlen \in Nat
    BY <1>1, HashWritable DEF Hashable, argument_types
  <1>4. valid(c) /\ a.type \in {"d", "i", "id"}
    BY <1>1, <1>2 DEF Hashable, Accepted
  <1>5. encode_string(a.encodedlen, c, a.type) = "ARGON2_OK"
          <=> fits(Pieces(c, a.type), a.encodedlen)
    BY <1>4, EncodeString
  <1>6. fits(Pieces(c, a.type), a.encodedlen) <=>
           a.encodedlen >= argon2_encodedlen(c.t_cost, c.m_cost, c.lanes, c.saltlen,
                                             c.outlen, a.type)
    BY <1>3, FitsEncodedLength, Zenon
  <1> QED BY <1>1, <1>2, <1>5, <1>6, Zenon DEF large_enough

(* A string that argon2_hash has made decodes to the context it was made      *)
(* from, for its maker; for others, to that of another password or type.      *)
LEMMA MadeContext ==
    ASSUME NEW b, Hashable(b), NEW s, NEW a, Maker(a) = Maker(b),
           s.fields = Encoded(hash_context(b), DigestOf(b), b.type)
    PROVE  decoded_context(s, a) = hash_context(b)
  <1>1. PICK c, v, str : /\ c = hash_context(b) /\ v = verify_context(s, a)
                         /\ str = s.fields
    OBVIOUS
  <1>2. Reads(str, c, DigestOf(b), b.type)
    BY <1>1, EncodedParts
  <1>3. a.pwd = b.pwd /\ a.pwdlen = b.pwdlen /\ a.type = b.type
    BY DEF Maker
  <1>4. PICK e : e = << <<"m", c.m_cost>>, <<"t", c.t_cost>>, <<"p", c.lanes>> >>
    OBVIOUS
  <1>5. e[1][2] = c.m_cost /\ e[2][2] = c.t_cost /\ e[3][2] = c.lanes
    BY <1>4
  <1>6. /\ Rest(str)[1].entries = e
        /\ Rest(str)[2].content = c.salt /\ Rest(str)[2].len = c.saltlen
        /\ Rest(str)[3].len = c.outlen
    BY <1>2, <1>4 DEF Reads, Nums, Bin
  <1>7. version_default(str) = c.version
    <2>1. PICK ve : ve = << <<"v", c.version>> >>
      OBVIOUS
    <2>2. ve[1][2] = c.version
      BY <2>1
    <2> QED BY <1>2, <2>1, <2>2 DEF version_default, Reads
  <1>8. DecodedContext(str, v) =
          [v EXCEPT !.version = c.version, !.m_cost = c.m_cost, !.t_cost = c.t_cost,
                    !.lanes = c.lanes, !.threads = c.lanes, !.salt = c.salt,
                    !.saltlen = c.saltlen, !.outlen = c.outlen,
                    !.secret = NULL, !.secretlen = 0, !.ad = NULL, !.adlen = 0,
                    !.allocate_cbk = NULL, !.free_cbk = NULL, !.flags = {}]
    BY <1>5, <1>6, <1>7, Zenon DEF DecodedContext
  <1>9. /\ DOMAIN v = DOMAIN c /\ v.out = c.out /\ v.pwd = c.pwd
        /\ v.pwdlen = c.pwdlen /\ v.type = c.type /\ c.threads = c.lanes
        /\ c.secret = NULL /\ c.secretlen = 0 /\ c.ad = NULL /\ c.adlen = 0
        /\ c.allocate_cbk = NULL /\ c.free_cbk = NULL /\ c.flags = {}
        /\ c = [x \in DOMAIN c |-> c[x]]
        /\ DOMAIN c = {"out", "outlen", "pwd", "pwdlen", "salt", "saltlen", "secret",
                       "secretlen", "ad", "adlen", "t_cost", "m_cost", "lanes",
                       "threads", "allocate_cbk", "free_cbk", "flags", "version", "type"}
    BY <1>1, <1>3 DEF hash_context, verify_context
  <1>10. PICK d : d = DecodedContext(str, v)
    OBVIOUS
  <1>11. DOMAIN d = DOMAIN c /\ d = [x \in DOMAIN d |-> d[x]]
    BY <1>8, <1>9, <1>10
  <1>12. /\ d.version = c.version /\ d.m_cost = c.m_cost /\ d.t_cost = c.t_cost
         /\ d.lanes = c.lanes /\ d.threads = c.threads /\ d.salt = c.salt
         /\ d.saltlen = c.saltlen /\ d.outlen = c.outlen /\ d.secret = c.secret
         /\ d.secretlen = c.secretlen /\ d.ad = c.ad /\ d.adlen = c.adlen
         /\ d.allocate_cbk = c.allocate_cbk /\ d.free_cbk = c.free_cbk
         /\ d.flags = c.flags /\ d.out = c.out /\ d.pwd = c.pwd
         /\ d.pwdlen = c.pwdlen /\ d.type = c.type
    BY <1>8, <1>9, <1>10
  <1>13. \A x \in DOMAIN c : d[x] = c[x]
    BY <1>9, <1>12
  <1>14. d = c
    BY <1>9, <1>11, <1>13
  <1> QED BY <1>1, <1>10, <1>14 DEF decoded_context

(* The tag in a string is the digest of the context it decodes to just for    *)
(* its maker.                                                                 *)
LEMMA MakersTag ==
    ASSUME NEW s, NEW a, Readable(s, a)
    PROVE  s.maker = Maker(a) <=>
             /\ decodes(s, a) = "ARGON2_OK"
             /\ DecodedOut(s.fields) = Digest(decoded_context(s, a), buffers_of(a))
  <1> DEFINE Verifies == /\ decodes(s, a) = "ARGON2_OK"
                         /\ DecodedOut(s.fields) =
                               Digest(decoded_context(s, a), buffers_of(a))
  <1>1. CASE s \in Strings /\ a \in Attempts
    BY <1>1, StringsAssumption DEF Readable
  <1>2. CASE Made(s)
    <2>1. PICK b : /\ Hashable(b)
                   /\ s = Given(Encoded(hash_context(b), DigestOf(b), b.type), Maker(b))
      BY <1>2 DEF Made
    <2>2. PICK str, c : str = s.fields /\ c = hash_context(b)
      OBVIOUS
    <2>3. str = Encoded(c, DigestOf(b), b.type) /\ s.maker = Maker(b)
      BY <2>1, <2>2 DEF Given
    <2>4. DecodedOut(str) = DigestOf(b)
      <3>1. Reads(str, c, DigestOf(b), b.type)
        BY <2>3, EncodedParts
      <3> QED BY <3>1 DEF Reads, DecodedOut, Bin
    <2>5. DigestOf(b) = Digest(c, buffers_of(b))
      BY <2>1, <2>2, DigestExact DEF Hashable
    <2>6. /\ c.saltlen = b.saltlen /\ c.outlen = b.hashlen /\ c.pwdlen = b.pwdlen
          /\ c.t_cost = b.t_cost /\ c.m_cost = b.m_cost /\ c.lanes = b.parallelism
          /\ c.version = b.version /\ c.type = b.type
      BY <2>1, <2>2, HashContextFields DEF Hashable
    <2>7. ASSUME Maker(b) = Maker(a) PROVE Verifies
      <3>1. decoded_context(s, a) = c
        BY <2>1, <2>2, <2>3, <2>7, MadeContext
      <3>2. buffers_of(a) = buffers_of(b) /\ a.type = b.type
        BY <2>7 DEF Maker, buffers_of
      <3>3. decodes(s, a) = "ARGON2_OK"
        <4>1. PICK v : v = verify_context(s, a)
          OBVIOUS
        <4>2. Writable(c)
          BY <2>1, <2>2, HashWritable
        <4>3. /\ Strlen(str) \in 0 .. MaxLength
              /\ c.saltlen <= Strlen(str) /\ c.outlen <= Strlen(str)
          <5>1. /\ Strlen(str) \in Nat
                /\ c.saltlen <= Strlen(str) /\ c.outlen <= Strlen(str)
            BY <2>3, <4>2, EncodedStrlen
          <5> QED BY <2>2, <5>1, LimitsAssumption DEF Readable, MaxLength
        <4>4. v.saltlen = Strlen(str) /\ v.outlen = Strlen(str)
          BY <2>2, <4>1, <4>3, SmallWord DEF verify_context
        <4>5. valid(DecodedContext(str, v)) /\ b.type \in {"d", "i", "id"}
          BY <2>1, <2>2, <2>6, <3>1, <4>1 DEF decoded_context, Hashable, Accepted
        <4>6. {v.saltlen, v.outlen} \subseteq Nat
          BY <4>3, <4>4
        <4>7. decode_string(str, v, b.type) = "ARGON2_OK"
          BY <2>3, <4>2, <4>3, <4>4, <4>5, <4>6, DecodesEncoded
        <4> QED BY <2>2, <3>2, <4>1, <4>7 DEF decodes
      <3> QED BY <2>2, <2>4, <2>5, <3>1, <3>2, <3>3
    <2>8. ASSUME Verifies PROVE Maker(b) = Maker(a)
      <3>1. PICK d, x, y : d = decoded_context(s, a) /\ x = buffers_of(a)
                           /\ y = buffers_of(b)
        OBVIOUS
      <3>2. Digest(c, y) = Digest(d, x)
        BY <2>2, <2>4, <2>5, <2>8, <3>1
      <3>3. c.pwdlen = d.pwdlen /\ y.pwd = x.pwd /\ c.type = d.type
        <4>1. /\ Digest(c, y).pwdlen = c.pwdlen /\ Digest(d, x).pwdlen = d.pwdlen
              /\ Digest(c, y).pwd = y.pwd /\ Digest(d, x).pwd = x.pwd
              /\ Digest(c, y).type = c.type /\ Digest(d, x).type = d.type
          BY DEF Digest
        <4> QED BY <3>2, <4>1
      <3>4. d.pwdlen = a.pwdlen /\ d.type = a.type
        <4>1. a.pwdlen \in 0 .. MaxLength
          BY LimitsAssumption DEF Readable, Origin, MaxLength
        <4> QED BY <3>1, <4>1, DecodedContextFields, SmallWord
      <3>5. x.pwd = a.pwd /\ y.pwd = b.pwd
        BY <3>1 DEF buffers_of
      <3> QED BY <2>6, <3>3, <3>4, <3>5 DEF Maker
    <2> QED BY <2>3, <2>7, <2>8
  <1> QED BY <1>1, <1>2 DEF Readable, Origin

(* The first checks of argon2_verify refuse nobody his own string. *)
LEMMA MakersMayAsk ==
    ASSUME NEW s, NEW a, Origin(s, a), s.maker = Maker(a), Strlen(s.fields) <= MaxLength
    PROVE  ~(a.pwdlen > MaxLength) /\ ~s.null /\ ~(Strlen(s.fields) > MaxLength)
  <1>1. MaxLength \in Int /\ a.pwdlen \in Nat
    BY LimitsAssumption DEF MaxLength, Origin
  <1>2. CASE s \in Strings /\ a \in Attempts
    <2>1. Strlen(s.fields) \in Nat /\ ~s.null /\ a.pwdlen <= MaxLength
      BY <1>2, StringsAssumption
    <2> QED BY <1>1, <2>1
  <1>3. CASE Made(s)
    <2>1. PICK b : /\ Hashable(b)
                   /\ s = Given(Encoded(hash_context(b), DigestOf(b), b.type), Maker(b))
      BY <1>3 DEF Made
    <2>2. /\ s.maker = Maker(b) /\ ~s.null
          /\ s.fields = Encoded(hash_context(b), DigestOf(b), b.type)
      BY <2>1 DEF Given
    <2>3. a.pwdlen = b.pwdlen
      BY <2>2 DEF Maker
    <2>4. b.pwdlen \in 0 .. MaxLength
      BY <2>1 DEF Hashable, FitsWord
    <2>5. Strlen(s.fields) \in Nat
      BY <2>1, <2>2, HashWritable, EncodedStrlen
    <2> QED BY <1>1, <2>2, <2>3, <2>4, <2>5
  <1> QED BY <1>2, <1>3 DEF Origin

-----------------------------------------------------------------------------
(* The invariant is inductive. *)

LEMMA CInitInv == CInit => IInv
  <1> SUFFICES ASSUME CInit PROVE IInv
    OBVIOUS
  <1>1. Domains
    BY DEF CInit, Domains
  <1>2. ASSUME NEW q \in Calls PROVE CallInv(q)
    <2>1. /\ pc[q] = "idle" /\ at[q] = "idle" /\ matrix[q] = NoMatrix
          /\ out[q] = NoTag /\ hash[q] = NoTag /\ encoded[q] = NoTag
          /\ heap[q] = [b \in Buffers |-> "none"] /\ ptr[q] = NoPointers
      BY DEF CInit
    <2> QED
      BY <2>1
      DEF CallInv, Control, Memory, Digesting, Outputs, Untouched, Verdict, Labels, Filling,
          Verifying, InCtx, NoMatrix, NoPointers
  <1> QED BY <1>1, <1>2 DEF IInv

(* What a step of one call leaves alone in another. *)
Same(r) ==
    /\ pc'[r] = pc[r] /\ context'[r] = context[r] /\ buf'[r] = buf[r]
    /\ matrix'[r] = matrix[r] /\ out'[r] = out[r] /\ result'[r] = result[r]
    /\ at'[r] = at[r] /\ args'[r] = args[r] /\ subject'[r] = subject[r]
    /\ heap'[r] = heap[r] /\ ptr'[r] = ptr[r] /\ hash'[r] = hash[r]
    /\ encoded'[r] = encoded[r] /\ ret'[r] = ret[r]

LEMMA SameKeeps ==
    ASSUME NEW r \in Calls, CallInv(r), Same(r), program' = program
    PROVE  CallInv(r)'
  <1>1. Control(r)' /\ Memory(r)'
    BY DEF CallInv, Same, Control, Memory, pointers
  <1>2. Digesting(r)'
    BY DEF CallInv, Same, Digesting, Returned
  <1>3. Outputs(r)'
    BY DEF CallInv, Same, Outputs, Untouched, Matches
  <1>4. Verdict(r)'
    BY DEF CallInv, Same, Verdict
  <1> QED BY <1>1, <1>2, <1>3, <1>4 DEF CallInv

(* A step of one call: what is left to show of it. *)
LEMMA StepOf ==
    ASSUME IInv, NEW q \in Calls, program' = program, Domains',
           \A r \in Calls \ {q} : Same(r), CallInv(q)'
    PROVE  IInv'
  <1>1. ASSUME NEW r \in Calls PROVE CallInv(r)'
    <2>1. CASE r = q
      BY <2>1
    <2>2. CASE r # q
      BY <2>2, SameKeeps DEF IInv
    <2> QED BY <2>1, <2>2
  <1> QED BY <1>1 DEF IInv

-----------------------------------------------------------------------------
(* The calls, as they are made. *)

LEMMA CtxCallStep ==
    ASSUME IInv, NEW q \in Calls, NEW c, NEW b, CtxCall(q, c, b)
    PROVE  IInv'
  <1>1. /\ at[q] = "idle" /\ program[q] = "argon2_ctx"
        /\ pc' = [pc EXCEPT ![q] = "validate"]
        /\ context' = [context EXCEPT ![q] = c] /\ buf' = [buf EXCEPT ![q] = b]
        /\ at' = [at EXCEPT ![q] = "argon2_ctx"]
        /\ UNCHANGED <<instance, matrix, out, result, program, args, subject, heap,
                       ptr, hash, encoded, ret>>
    BY DEF CtxCall, Calling, Enter
  <1>2. Domains /\ CallInv(q)
    BY DEF IInv
  <1>3. Domains' /\ \A r \in Calls \ {q} : Same(r)
    BY <1>1, <1>2 DEF Domains, Same
  <1>4. at'[q] = "argon2_ctx" /\ pc'[q] = "validate"
    BY <1>1, <1>2 DEF Domains
  <1>5. CallInv(q)'
    <2>1. Control(q)'
      BY <1>1, <1>4 DEF Control, Labels, Verifying, InCtx
    <2>2. Memory(q)'
      BY <1>1, <1>2, <1>4 DEF CallInv, Memory, Verifying
    <2>3. Digesting(q)' /\ Outputs(q)'
      BY <1>1, <1>2, <1>4 DEF CallInv, Digesting, Outputs, Untouched
    <2>4. Verdict(q)'
      BY <1>4 DEF Verdict, Verifying
    <2> QED BY <2>1, <2>2, <2>3, <2>4 DEF CallInv
  <1> QED BY <1>1, <1>3, <1>5, StepOf

Succeeds == {"ARGON2_OK", "ARGON2_ENCODING_FAIL"}

LEMMA HashRefusesStep ==
    ASSUME IInv, NEW q \in Calls, NEW a, HashRefuses(q, a)
    PROVE  IInv'
  <1>1. /\ at[q] = "idle" /\ program[q] = "argon2_hash"
        /\ args' = [args EXCEPT ![q] = a] /\ at' = [at EXCEPT ![q] = "done"]
        /\ UNCHANGED <<pc, context, buf, instance, matrix, out, result, program,
                       subject, heap, ptr, hash, encoded>>
    BY DEF HashRefuses, Calling, Finish, ctxVars
  <1>2. PICK code : ret' = [ret EXCEPT ![q] = code] /\ code \notin Succeeds
    <2>1. CASE \E n \in DOMAIN hash_checks(a) :
                  FirstFailure(hash_checks(a), n) /\ Finish(q, hash_checks(a)[n].code)
      <3>1. PICK n \in DOMAIN hash_checks(a) : Finish(q, hash_checks(a)[n].code)
        BY <2>1
      <3>2. DOMAIN hash_checks(a) = 1 .. 4
        BY DEF hash_checks
      <3>3. n \in {1, 2, 3, 4}
        BY <3>1, <3>2
      <3>4. hash_checks(a)[n].code \notin Succeeds
        BY <3>3 DEF hash_checks, Check, Succeeds
      <3> QED BY <3>1, <3>4 DEF Finish
    <2>2. CASE Finish(q, "ARGON2_MEMORY_ALLOCATION_ERROR")
      <3>1. ret' = [ret EXCEPT ![q] = "ARGON2_MEMORY_ALLOCATION_ERROR"]
        BY <2>2 DEF Finish
      <3>2. "ARGON2_MEMORY_ALLOCATION_ERROR" \notin Succeeds
        BY DEF Succeeds
      <3> QED BY <3>1, <3>2, Zenon
    <2> QED BY <2>1, <2>2 DEF HashRefuses
  <1>3. Domains /\ CallInv(q)
    BY DEF IInv
  <1>4. Domains' /\ \A r \in Calls \ {q} : Same(r)
    BY <1>1, <1>2, <1>3 DEF Domains, Same
  <1>5. at'[q] = "done" /\ ret'[q] \notin Succeeds
    BY <1>1, <1>2, <1>3 DEF Domains
  <1>6. CallInv(q)'
    <2>1. Control(q)'
      BY <1>1, <1>3, <1>5 DEF CallInv, Control, Verifying, InCtx
    <2>2. Memory(q)'
      BY <1>1, <1>3, <1>5 DEF CallInv, Memory, Verifying
    <2>3. Digesting(q)'
      BY <1>1, <1>3, <1>5 DEF CallInv, Digesting
    <2>4. Outputs(q)'
      BY <1>1, <1>3, <1>5 DEF CallInv, Outputs, Untouched, Matches, NoTag, NULL, Succeeds
    <2>5. Verdict(q)'
      BY <1>1, <1>5 DEF Verdict, Verifying
    <2> QED BY <2>1, <2>2, <2>3, <2>4, <2>5 DEF CallInv
  <1> QED BY <1>1, <1>4, <1>6, StepOf

LEMMA HashCallStep ==
    ASSUME IInv, NEW q \in Calls, NEW a, argument_types(a), HashCall(q, a)
    PROVE  IInv'
  <1>1. /\ at[q] = "idle" /\ program[q] = "argon2_hash"
        /\ \A n \in DOMAIN hash_checks(a) : ~hash_checks(a)[n].fails
        /\ args' = [args EXCEPT ![q] = a]
        /\ heap' = [heap EXCEPT ![q] = Malloced(heap[q], {"first"})]
        /\ pc' = [pc EXCEPT ![q] = "validate"]
        /\ context' = [context EXCEPT ![q] = hash_context(a)]
        /\ buf' = [buf EXCEPT ![q] = buffers_of(a)]
        /\ at' = [at EXCEPT ![q] = "argon2_hash"]
        /\ UNCHANGED <<instance, matrix, out, result, program, subject, ptr, hash,
                       encoded, ret>>
    BY DEF HashCall, Calling, Enter
  <1>2. Domains /\ CallInv(q)
    BY DEF IInv
  <1>3. Domains' /\ \A r \in Calls \ {q} : Same(r)
    BY <1>1, <1>2 DEF Domains, Same
  <1>4. /\ at'[q] = "argon2_hash" /\ pc'[q] = "validate" /\ args'[q] = a
        /\ context'[q] = hash_context(a) /\ buf'[q] = buffers_of(a)
        /\ heap'[q] = Malloced(heap[q], {"first"})
    BY <1>1, <1>2 DEF Domains
  <1>5. CallInv(q)'
    <2>1. Control(q)'
      BY <1>1, <1>4 DEF Control, Labels, Verifying, InCtx
    <2>2. Memory(q)'
      BY <1>1, <1>2, <1>4 DEF CallInv, Memory, Verifying, Malloced
    <2>3. Digesting(q)'
      <3>1. FitsWord(a)
        BY <1>1, ChecksMakeLengthsFit
      <3> QED BY <1>1, <1>2, <1>4, <3>1 DEF CallInv, Digesting, Filling
    <2>4. Outputs(q)'
      BY <1>1, <1>2, <1>4 DEF CallInv, Outputs, Untouched
    <2>5. Verdict(q)'
      BY <1>1, <1>4 DEF Verdict, Verifying
    <2> QED BY <2>1, <2>2, <2>3, <2>4, <2>5 DEF CallInv
  <1> QED BY <1>1, <1>3, <1>5, StepOf

LEMMA VerifyRefusesStep ==
    ASSUME IInv, NEW q \in Calls, NEW s, NEW a, Origin(s, a), VerifyRefuses(q, s, a)
    PROVE  IInv'
  <1>1. /\ at[q] = "idle" /\ program[q] = "argon2_verify"
        /\ args' = [args EXCEPT ![q] = a] /\ at' = [at EXCEPT ![q] = "done"]
        /\ subject' = [subject EXCEPT ![q] = s]
        /\ UNCHANGED <<pc, context, buf, instance, matrix, out, result, program,
                       heap, ptr, hash, encoded>>
    BY DEF VerifyRefuses, Calling, Finish, ctxVars
  <1>2. PICK code : ret' = [ret EXCEPT ![q] = code] /\ Right(s, a, code)
    <2>1. PICK code \in {"ARGON2_PWD_TOO_LONG", "ARGON2_DECODING_FAIL"} :
             /\ ret' = [ret EXCEPT ![q] = code]
             /\ a.pwdlen > MaxLength \/ s.null \/ Strlen(s.fields) > MaxLength
      BY DEF VerifyRefuses, Finish
    <2>2. code # "ARGON2_OK"
      BY <2>1
    <2>3. Strlen(s.fields) <= MaxLength => s.maker # Maker(a)
      <3>1. ASSUME Strlen(s.fields) <= MaxLength, s.maker = Maker(a) PROVE FALSE
        BY <2>1, <3>1, MakersMayAsk
      <3> QED BY <3>1
    <2> QED BY <2>1, <2>2, <2>3 DEF Right
  <1>3. Domains /\ CallInv(q)
    BY DEF IInv
  <1>4. Domains' /\ \A r \in Calls \ {q} : Same(r)
    BY <1>1, <1>2, <1>3 DEF Domains, Same
  <1>5. at'[q] = "done" /\ subject'[q] = s /\ args'[q] = a /\ ret'[q] = code
    BY <1>1, <1>2, <1>3 DEF Domains
  <1>6. CallInv(q)'
    <2>1. Control(q)'
      BY <1>1, <1>3, <1>5 DEF CallInv, Control, Verifying, InCtx
    <2>2. Memory(q)'
      BY <1>1, <1>3, <1>5 DEF CallInv, Memory, Verifying
    <2>3. Digesting(q)'
      BY <1>1, <1>3, <1>5 DEF CallInv, Digesting
    <2>4. Outputs(q)'
      BY <1>1, <1>3, <1>5 DEF CallInv, Outputs, Untouched
    <2>5. Verdict(q)'
      BY <1>2, <1>5 DEF Verdict, Verifying
    <2> QED BY <2>1, <2>2, <2>3, <2>4, <2>5 DEF CallInv
  <1> QED BY <1>1, <1>4, <1>6, StepOf

(* A record of pointers is its three fields. *)
LEMMA PointersOf ==
    ASSUME NEW p, DOMAIN p = {"salt", "out", "desired"}, p = [z \in DOMAIN p |-> p[z]],
           NEW s, NEW o, NEW d, p.salt = s, p.out = o, p.desired = d
    PROVE  p = [salt |-> s, out |-> o, desired |-> d]
  OBVIOUS

LEMMA VerifyCallStep ==
    ASSUME IInv, NEW q \in Calls, NEW s, NEW a, Origin(s, a), VerifyCall(q, s, a)
    PROVE  IInv'
  <1>1. /\ at[q] = "idle" /\ program[q] = "argon2_verify"
        /\ args' = [args EXCEPT ![q] = a] /\ at' = [at EXCEPT ![q] = "decode"]
        /\ subject' = [subject EXCEPT ![q] = s]
        /\ UNCHANGED <<pc, context, buf, instance, matrix, out, result, program,
                       hash, encoded, ret>>
    BY DEF VerifyCall, Calling, ctxVars
  <1>2. PICK salt \in {"salt", NULL}, first \in {"first", NULL} :
          /\ ptr' = [ptr EXCEPT ![q] = [ptr[q] EXCEPT !.salt = salt, !.out = first]]
          /\ heap' = [heap EXCEPT ![q] = Malloced(heap[q], {salt, first} \ {NULL})]
    BY DEF VerifyCall
  <1>3. Domains /\ CallInv(q)
    BY DEF IInv
  <1>4. Domains' /\ \A r \in Calls \ {q} : Same(r)
    BY <1>1, <1>2, <1>3 DEF Domains, Same
  <1>5. /\ at'[q] = "decode" /\ subject'[q] = s /\ args'[q] = a
        /\ ptr'[q] = [ptr[q] EXCEPT !.salt = salt, !.out = first]
        /\ heap'[q] = Malloced(heap[q], {salt, first} \ {NULL})
    BY <1>1, <1>2, <1>3 DEF Domains
  <1>6. CallInv(q)'
    <2>1. Control(q)'
      BY <1>1, <1>3, <1>5 DEF CallInv, Control, Verifying, InCtx
    <2>2. Memory(q)'
      <3>1. ptr[q] = NoPointers /\ \A b \in Buffers : heap[q][b] = "none"
        BY <1>1, <1>3 DEF CallInv, Memory
      <3>2. ptr'[q] = [salt |-> salt, out |-> first, desired |-> NULL]
        <4>1. DOMAIN ptr[q] = {"salt", "out", "desired"} /\ ptr[q].desired = NULL
          BY <3>1 DEF NoPointers
        <4> DEFINE p == ptr'[q]
        <4>2. /\ DOMAIN p = {"salt", "out", "desired"} /\ p = [z \in DOMAIN p |-> p[z]]
              /\ p.salt = salt /\ p.out = first /\ p.desired = NULL
          BY <1>5, <4>1
        <4> HIDE DEF p
        <4>3. p = [salt |-> salt, out |-> first, desired |-> NULL]
          BY <4>2, PointersOf
        <4> QED BY <4>3 DEF p
      <3>3. pointers(q)' = {salt, first} \ {NULL}
        BY <3>2 DEF pointers
      <3>4. \A b \in Buffers : heap'[q][b] = IF b \in pointers(q)' THEN "live" ELSE "none"
        BY <1>5, <3>1, <3>3 DEF Malloced
      <3>5. ptr'[q].salt = salt /\ ptr'[q].out = first /\ ptr'[q].desired = NULL
        BY <3>2
      <3>6. ptr'[q] = [salt |-> ptr'[q].salt, out |-> ptr'[q].out,
                       desired |-> ptr'[q].desired]
        BY <3>2, <3>5
      <3> QED BY <1>5, <3>4, <3>5, <3>6 DEF Memory, Verifying
    <2>3. Digesting(q)'
      BY <1>1, <1>3, <1>5 DEF CallInv, Digesting
    <2>4. Outputs(q)'
      BY <1>1, <1>3, <1>5 DEF CallInv, Outputs, Untouched
    <2>5. Verdict(q)'
      <3>1. Readable(s, a)
        BY DEF VerifyCall, Readable
      <3> QED BY <1>5, <3>1 DEF Verdict, Verifying
    <2> QED BY <2>1, <2>2, <2>3, <2>4, <2>5 DEF CallInv
  <1> QED BY <1>1, <1>4, <1>6, StepOf

-----------------------------------------------------------------------------
(* The steps of argon2_verify, and the returns. *)

LEMMA CtxReturnsStep ==
    ASSUME IInv, NEW q \in Calls, CtxReturns(q)
    PROVE  IInv'
  <1>1. /\ at[q] = "argon2_ctx" /\ pc[q] = "returned"
        /\ at' = [at EXCEPT ![q] = "done"] /\ ret' = [ret EXCEPT ![q] = result[q]]
        /\ UNCHANGED <<pc, context, buf, instance, matrix, out, result, program, args,
                       subject, heap, ptr, hash, encoded>>
    BY DEF CtxReturns, Finish, ctxVars
  <1>2. Domains /\ CallInv(q)
    BY DEF IInv
  <1>3. Domains' /\ \A r \in Calls \ {q} : Same(r)
    BY <1>1, <1>2 DEF Domains, Same
  <1>4. at'[q] = "done"
    BY <1>1, <1>2 DEF Domains
  <1>5. CallInv(q)'
    <2>1. Control(q)'
      BY <1>1, <1>2, <1>4 DEF CallInv, Control, Verifying, InCtx
    <2>2. Memory(q)'
      BY <1>1, <1>2, <1>4 DEF CallInv, Memory, Verifying
    <2>3. Digesting(q)'
      BY <1>1, <1>2, <1>4 DEF CallInv, Digesting
    <2>4. Outputs(q)' /\ Verdict(q)'
      BY <1>1, <1>2, <1>4 DEF CallInv, Outputs, Untouched, Control, Verdict,
                                     Verifying
    <2> QED BY <2>1, <2>2, <2>3, <2>4 DEF CallInv
  <1> QED BY <1>1, <1>3, <1>5, StepOf

(* Whatever argon2_verify has allocated, the label fail frees. *)
LEMMA FailFrees ==
    ASSUME IInv, NEW q \in Calls, NEW code, at[q] \in Verifying,
           pc[q] \in {"idle", "returned"}, Fail(q, code),
           Right(subject[q], args[q], code),
           UNCHANGED <<ctxVars, program, args, subject, ptr, hash, encoded>>
    PROVE  IInv'
  <1>1. /\ at' = [at EXCEPT ![q] = "done"] /\ ret' = [ret EXCEPT ![q] = code]
        /\ heap' = [heap EXCEPT ![q] = Freed(heap[q], pointers(q))]
        /\ UNCHANGED <<pc, context, buf, instance, matrix, out, result, program, args,
                       subject, ptr, hash, encoded>>
    BY DEF Fail, Finish, ctxVars
  <1>2. Domains /\ CallInv(q)
    BY DEF IInv
  <1>3. Domains' /\ \A r \in Calls \ {q} : Same(r)
    BY <1>1, <1>2 DEF Domains, Same
  <1>4. at'[q] = "done" /\ ret'[q] = code /\ heap'[q] = Freed(heap[q], pointers(q))
    BY <1>1, <1>2 DEF Domains
  <1>5. CallInv(q)'
    <2>1. Control(q)'
      BY <1>1, <1>2, <1>4 DEF CallInv, Control, Verifying, InCtx
    <2>2. Memory(q)'
      <3>1. \A b \in Buffers : heap[q][b] = IF b \in pointers(q) THEN "live" ELSE "none"
        BY <1>2 DEF CallInv, Memory
      <3>2. \A b \in Buffers : heap'[q][b] \in {"none", "freed"}
        BY <1>4, <3>1 DEF Freed
      <3>3. ptr'[q] = [salt |-> ptr'[q].salt, out |-> ptr'[q].out,
                       desired |-> ptr'[q].desired]
        BY <1>1, <1>2 DEF CallInv, Memory
      <3> QED BY <1>4, <3>2, <3>3 DEF Memory, Verifying
    <2>3. Digesting(q)'
      BY <1>1, <1>2, <1>4 DEF CallInv, Digesting
    <2>4. Outputs(q)'
      <3>1. program[q] = "argon2_verify" /\ Untouched(q)
        BY <1>2 DEF CallInv, Control, Outputs, Verifying
      <3> QED BY <1>1, <1>4, <3>1 DEF Outputs, Untouched
    <2>5. Verdict(q)'
      BY <1>1, <1>4 DEF Verdict, Verifying
    <2> QED BY <2>1, <2>2, <2>3, <2>4, <2>5 DEF CallInv
  <1> QED BY <1>1, <1>3, <1>5, StepOf

LEMMA FailSteps ==
    ASSUME IInv, NEW q \in Calls,
           DecodeFails(q) \/ NoSecondBuffer(q) \/ VerifyReturns(q)
    PROVE  IInv'
  <1>1. Control(q)
    BY DEF IInv, CallInv
  <1>2. /\ at[q] \in Verifying /\ pc[q] \in {"idle", "returned"}
        /\ UNCHANGED <<ctxVars, program, args, subject, ptr, hash, encoded>>
    BY <1>1 DEF DecodeFails, NoSecondBuffer, VerifyReturns, Control, Verifying
  <1>3. Readable(subject[q], args[q])
    BY <1>2 DEF IInv, CallInv, Verdict
  <1>4. PICK s, a : s = subject[q] /\ a = args[q]
    OBVIOUS
  <1>5. /\ Readable(s, a)
        /\ s.maker = Maker(a) <=>
             /\ decodes(s, a) = "ARGON2_OK"
             /\ DecodedOut(s.fields) = Digest(decoded_context(s, a), buffers_of(a))
    BY <1>3, <1>4, MakersTag
  <1>6. PICK code : Fail(q, code) /\ Right(s, a, code)
    <2>1. CASE Fail(q, "ARGON2_MEMORY_ALLOCATION_ERROR")
      <3>1. Right(s, a, "ARGON2_MEMORY_ALLOCATION_ERROR")
        BY DEF Right, ResourceErrors
      <3> QED BY <2>1, <3>1
    <2>2. CASE decodes(s, a) # "ARGON2_OK" /\ Fail(q, decodes(s, a))
      <3>1. Right(s, a, decodes(s, a))
        BY <1>5, <2>2 DEF Right
      <3> QED BY <2>2, <3>1
    <2>3. CASE VerifyReturns(q)
      <3> DEFINE code == verify_ctx_result(q)
      <3>1. at[q] = "argon2_verify" /\ pc[q] = "returned" /\ Fail(q, code)
        BY <2>3 DEF VerifyReturns
      <3>2. /\ context[q] = decoded_context(s, a) /\ buf[q] = buffers_of(a)
            /\ decodes(s, a) = "ARGON2_OK" /\ Returned(q)
        BY <1>4, <3>1 DEF IInv, CallInv, Digesting, Verdict
      <3>3. Accepted(context[q])
        <4>1. /\ valid(decoded_context(s, a)) /\ a.type \in {"d", "i", "id"}
          BY <3>2, DecodeAccepts DEF decodes, decoded_context
        <4>2. decoded_context(s, a).type = a.type
          BY DecodedContextFields
        <4> QED BY <3>2, <4>1, <4>2 DEF Accepted
      <3>4. CASE result[q] # "ARGON2_OK"
        <4>1. code = result[q] /\ result[q] \in ResourceErrors
          BY <3>2, <3>3, <3>4 DEF verify_ctx_result, Returned
        <4> QED BY <3>1, <3>4, <4>1 DEF Right
      <3>5. CASE result[q] = "ARGON2_OK"
        <4>1. out[q] = Digest(decoded_context(s, a), buffers_of(a))
          BY <3>2, <3>5 DEF Returned
        <4>2. code = IF DecodedOut(s.fields) = out[q]
                     THEN "ARGON2_OK" ELSE "ARGON2_VERIFY_MISMATCH"
          BY <1>4, <3>5 DEF verify_ctx_result, argon2_compare
        <4>3. Right(s, a, code)
          BY <1>5, <3>2, <4>1, <4>2 DEF Right
        <4> QED BY <3>1, <4>3
      <3> QED BY <3>4, <3>5
    <2>4. \/ Fail(q, "ARGON2_MEMORY_ALLOCATION_ERROR")
          \/ decodes(s, a) # "ARGON2_OK" /\ Fail(q, decodes(s, a))
          \/ VerifyReturns(q)
      BY <1>4, Zenon DEF DecodeFails, NoSecondBuffer
    <2> QED BY <2>1, <2>2, <2>3, <2>4
  <1> QED BY <1>2, <1>4, <1>6, FailFrees

LEMMA SetAsideStep ==
    ASSUME IInv, NEW q \in Calls, SetAside(q)
    PROVE  IInv'
  <1>1. /\ at[q] = "decode" /\ ptr[q].salt # NULL /\ ptr[q].out # NULL
        /\ decodes(subject[q], args[q]) = "ARGON2_OK"
        /\ at' = [at EXCEPT ![q] = "decoded"]
        /\ UNCHANGED <<pc, context, buf, instance, matrix, out, result, program, args,
                       subject, hash, encoded, ret>>
    BY DEF SetAside, ctxVars
  <1>2. PICK second \in {"second", NULL} :
          /\ ptr' = [ptr EXCEPT ![q] = [ptr[q] EXCEPT !.desired = ptr[q].out,
                                                      !.out = second]]
          /\ heap' = [heap EXCEPT ![q] = Malloced(heap[q], {second} \ {NULL})]
    BY DEF SetAside
  <1>3. Domains /\ CallInv(q)
    BY DEF IInv
  <1>4. Domains' /\ \A r \in Calls \ {q} : Same(r)
    BY <1>1, <1>2, <1>3 DEF Domains, Same
  <1>5. /\ at'[q] = "decoded"
        /\ ptr'[q] = [ptr[q] EXCEPT !.desired = ptr[q].out, !.out = second]
        /\ heap'[q] = Malloced(heap[q], {second} \ {NULL})
    BY <1>1, <1>2, <1>3 DEF Domains
  <1>6. CallInv(q)'
    <2>1. Control(q)'
      BY <1>1, <1>3, <1>5 DEF CallInv, Control, Verifying, InCtx
    <2>2. Memory(q)'
      <3>1. /\ ptr[q] = [salt |-> "salt", out |-> "first", desired |-> NULL]
            /\ \A b \in Buffers : heap[q][b] = IF b \in pointers(q) THEN "live"
                                                                   ELSE "none"
        BY <1>1, <1>3 DEF CallInv, Memory, Verifying
      <3>2. ptr'[q] = [salt |-> "salt", out |-> second, desired |-> "first"]
        <4>1. /\ DOMAIN ptr[q] = {"salt", "out", "desired"}
              /\ ptr[q].salt = "salt" /\ ptr[q].out = "first"
          BY <3>1
        <4> DEFINE p == ptr'[q]
        <4>2. /\ DOMAIN p = {"salt", "out", "desired"} /\ p = [z \in DOMAIN p |-> p[z]]
              /\ p.salt = "salt" /\ p.out = second /\ p.desired = "first"
          BY <1>5, <4>1
        <4> HIDE DEF p
        <4>3. p = [salt |-> "salt", out |-> second, desired |-> "first"]
          BY <4>2, PointersOf
        <4> QED BY <4>3 DEF p
      <3>3. /\ pointers(q) = {"salt", "first"}
            /\ pointers(q)' = {"salt", "first"} \cup ({second} \ {NULL})
        BY <3>1, <3>2 DEF pointers, NULL
      <3>4. \A b \in Buffers : heap'[q][b] = IF b \in pointers(q)' THEN "live" ELSE "none"
        BY <1>5, <3>1, <3>3 DEF Malloced
      <3>5. ptr'[q].salt = "salt" /\ ptr'[q].out = second /\ ptr'[q].desired = "first"
        BY <3>2
      <3>6. ptr'[q] = [salt |-> ptr'[q].salt, out |-> ptr'[q].out,
                       desired |-> ptr'[q].desired]
        BY <3>2, <3>5
      <3> QED BY <1>5, <3>4, <3>5, <3>6 DEF Memory, Verifying
    <2>3. Digesting(q)'
      BY <1>1, <1>3, <1>5 DEF CallInv, Digesting
    <2>4. Outputs(q)'
      BY <1>1, <1>3, <1>5 DEF CallInv, Outputs, Untouched
    <2>5. Verdict(q)'
      BY <1>1, <1>3, <1>5 DEF CallInv, Verdict, Verifying
    <2> QED BY <2>1, <2>2, <2>3, <2>4, <2>5 DEF CallInv
  <1> QED BY <1>1, <1>4, <1>6, StepOf

LEMMA VerifyEntersStep ==
    ASSUME IInv, NEW q \in Calls, VerifyEnters(q)
    PROVE  IInv'
  <1>1. /\ at[q] = "decoded"
        /\ pc' = [pc EXCEPT ![q] = "validate"]
        /\ context' = [context EXCEPT ![q] = decoded_context(subject[q], args[q])]
        /\ buf' = [buf EXCEPT ![q] = buffers_of(args[q])]
        /\ at' = [at EXCEPT ![q] = "argon2_verify"]
        /\ UNCHANGED <<instance, matrix, out, result, program, args, subject, heap,
                       ptr, hash, encoded, ret>>
    BY DEF VerifyEnters, Enter
  <1>2. Domains /\ CallInv(q)
    BY DEF IInv
  <1>3. Domains' /\ \A r \in Calls \ {q} : Same(r)
    BY <1>1, <1>2 DEF Domains, Same
  <1>4. /\ at'[q] = "argon2_verify" /\ pc'[q] = "validate"
        /\ context'[q] = decoded_context(subject[q], args[q])
        /\ buf'[q] = buffers_of(args[q])
    BY <1>1, <1>2 DEF Domains
  <1>5. CallInv(q)'
    <2>1. Control(q)'
      BY <1>1, <1>2, <1>4 DEF CallInv, Control, Labels, Verifying, InCtx
    <2>2. Memory(q)'
      BY <1>1, <1>2, <1>4 DEF CallInv, Memory, Verifying, pointers
    <2>3. Digesting(q)'
      BY <1>1, <1>2, <1>4 DEF CallInv, Digesting, Filling
    <2>4. Outputs(q)'
      BY <1>1, <1>2, <1>4 DEF CallInv, Outputs, Untouched
    <2>5. Verdict(q)'
      BY <1>1, <1>2, <1>4 DEF CallInv, Verdict, Verifying
    <2> QED BY <2>1, <2>2, <2>3, <2>4, <2>5 DEF CallInv
  <1> QED BY <1>1, <1>3, <1>5, StepOf

(* What argon2_hash leaves when argon2_ctx has returned. *)
LEMMA HashReturnsStep ==
    ASSUME IInv, NEW q \in Calls, HashReturns(q)
    PROVE  IInv'
  <1> DEFINE a == args[q]
             hashed == result[q] = "ARGON2_OK"
             encodes == hashed /\ wants_encoded(a)
             ok == encode_string(a.encodedlen, context[q], a.type) = "ARGON2_OK"
             code == IF encodes /\ ~ok THEN "ARGON2_ENCODING_FAIL" ELSE result[q]
             tag == IF hashed /\ a.hash # NULL THEN out[q] ELSE hash[q]
             str == IF encodes THEN encoded_after(q, ok) ELSE encoded[q]
  <1>1. Domains /\ CallInv(q)
    BY DEF IInv
  <1>2. /\ at[q] = "argon2_hash" /\ pc[q] = "returned"
        /\ DOMAIN hash' = Calls /\ DOMAIN encoded' = Calls
        /\ hash'[q] = tag /\ encoded'[q] = str
        /\ \A r \in Calls \ {q} : hash'[r] = hash[r] /\ encoded'[r] = encoded[r]
        /\ at' = [at EXCEPT ![q] = "done"] /\ ret' = [ret EXCEPT ![q] = code]
        /\ out' = [out EXCEPT ![q] = ZeroTag]
        /\ heap' = [heap EXCEPT ![q] = Freed(heap[q], {"first"})]
        /\ UNCHANGED <<pc, context, buf, instance, matrix, result, program, args,
                       subject, ptr>>
    <2>1. /\ at[q] = "argon2_hash" /\ pc[q] = "returned"
          /\ hash' = IF hashed /\ a.hash # NULL THEN [hash EXCEPT ![q] = out[q]] ELSE hash
          /\ encoded' = IF encodes THEN [encoded EXCEPT ![q] = encoded_after(q, ok)]
                                   ELSE encoded
          /\ at' = [at EXCEPT ![q] = "done"] /\ ret' = [ret EXCEPT ![q] = code]
          /\ out' = [out EXCEPT ![q] = ZeroTag]
          /\ heap' = [heap EXCEPT ![q] = Freed(heap[q], {"first"})]
          /\ UNCHANGED <<pc, context, buf, instance, matrix, result, program, args,
                         subject, ptr>>
      BY DEF HashReturns, Finish
    <2> HIDE DEF hashed, encodes, ok, a
    <2>2. /\ DOMAIN hash' = Calls /\ hash'[q] = tag
          /\ \A r \in Calls \ {q} : hash'[r] = hash[r]
      BY <1>1, <2>1 DEF Domains
    <2>3. /\ DOMAIN encoded' = Calls /\ encoded'[q] = str
          /\ \A r \in Calls \ {q} : encoded'[r] = encoded[r]
      BY <1>1, <2>1 DEF Domains
    <2> QED BY <2>1, <2>2, <2>3
  <1>3. Domains' /\ \A r \in Calls \ {q} : Same(r)
    <2> HIDE DEF tag, str, code
    <2> QED BY <1>1, <1>2 DEF Domains, Same
  <1>4. /\ at'[q] = "done" /\ ret'[q] = code /\ hash'[q] = tag /\ encoded'[q] = str
        /\ out'[q] = ZeroTag /\ heap'[q] = Freed(heap[q], {"first"}) /\ args'[q] = a
    <2> HIDE DEF tag, str, code
    <2> QED BY <1>1, <1>2 DEF Domains
  <1>5. CallInv(q)'
    <2>1. program[q] = "argon2_hash"
      BY <1>1, <1>2 DEF CallInv, Control
    <2>2. Control(q)'
      BY <1>1, <1>2, <1>4 DEF CallInv, Control, Verifying, InCtx
    <2>3. Memory(q)'
      BY <1>1, <1>2, <1>4 DEF CallInv, Memory, Verifying, Freed
    <2>4. Digesting(q)'
      BY <1>1, <1>2, <1>4 DEF CallInv, Digesting
    <2>5. Outputs(q)'
      <3>1. hash[q] = NoTag /\ encoded[q] = NoTag
        BY <1>1, <1>2 DEF CallInv, Outputs, Untouched
      <3>2. /\ context[q] = hash_context(a) /\ (hashed => out[q] = DigestOf(a))
            /\ hashed => Hashable(a)
            /\ result[q] # "ARGON2_ENCODING_FAIL"
        <4>1. /\ argument_types(a) /\ FitsWord(a) /\ context[q] = hash_context(a)
              /\ buf[q] = buffers_of(a) /\ Returned(q)
          BY <1>1, <1>2 DEF CallInv, Digesting
        <4> QED BY <4>1, DigestExact, Zenon DEF Returned, Hashable
      <3>8. hashed => (ok <=> large_enough(a))
        BY <3>2, EncodesWhenLarge
      <3>3. encodes /\ ok => str = String(Encoded(hash_context(a), DigestOf(a), a.type))
        BY <3>2 DEF encoded_after
      <3>4. ~(encodes /\ ok) => str \in {NoTag, ZeroTag}
        BY <3>1 DEF encoded_after
      <3> HIDE DEF hashed, encodes, ok, a, str
      <3>5. str.is = "string" => /\ encodes /\ ok
                                 /\ str.fields = Encoded(hash_context(a), DigestOf(a), a.type)
        BY <3>3, <3>4 DEF NoTag, ZeroTag, String, NULL, Zero
      <3>6. encodes /\ ok => str.is = "string"
        BY <3>3 DEF String
      <3>7. Matches(q)'
        <4>1. tag \in {NoTag, DigestOf(a)} /\ (~hashed => tag = NoTag)
          BY <3>1, <3>2
        <4>2. /\ hashed /\ a.hash # NULL => tag = DigestOf(a)
          BY <3>2
        <4>3. /\ str.is = "string" => code = "ARGON2_OK"
              /\ code = "ARGON2_OK" => hashed /\ (encodes => ok)
              /\ code \notin {"ARGON2_OK", "ARGON2_ENCODING_FAIL"} => ~hashed
          BY <3>5 DEF hashed, encodes
        <4>4. code = "ARGON2_OK" /\ wants_encoded(a) => str.is = "string"
          BY <3>6, <4>3 DEF encodes
        <4>5. code \in {"ARGON2_OK", "ARGON2_ENCODING_FAIL"} =>
                /\ Hashable(a)
                /\ wants_encoded(a) => (code = "ARGON2_OK" <=> large_enough(a))
          BY <3>2, <3>8 DEF hashed, encodes
        <4> HIDE DEF tag, code
        <4> QED BY <1>4, <3>5, <4>1, <4>2, <4>3, <4>4, <4>5, Zenon DEF Matches
      <3> QED BY <1>2, <1>4, <2>1, <3>7 DEF Outputs
    <2>6. Verdict(q)'
      BY <1>2, <1>4, <2>1 DEF Verdict, Verifying
    <2> QED BY <2>2, <2>3, <2>4, <2>5, <2>6 DEF CallInv
  <1> QED BY <1>2, <1>3, <1>5, StepOf

-----------------------------------------------------------------------------
(* The steps of argon2_ctx. *)

LEMMA InsideCtx ==
    ASSUME IInv, NEW q \in Calls, UNCHANGED apiVars, Domains',
           pc[q] \notin {"idle", "returned"}, pc'[q] \in Labels \ {"idle"},
           \A r \in Calls \ {q} : Same(r), Digesting(q)'
    PROVE  IInv'
  <1>1. UNCHANGED <<program, at, args, subject, heap, ptr, hash, encoded, ret>>
    BY DEF apiVars
  <1>2. Domains /\ CallInv(q)
    BY DEF IInv
  <1>3. at[q] \in InCtx
    BY <1>2 DEF CallInv, Control, Verifying, InCtx
  <1>4. Control(q)'
    BY <1>1, <1>2, <1>3 DEF CallInv, Control, InCtx
  <1>5. Memory(q)'
    BY <1>1, <1>2 DEF CallInv, Memory, pointers
  <1>6. Outputs(q)'
    BY <1>1, <1>2, <1>3 DEF CallInv, Outputs, Untouched, InCtx
  <1>7. Verdict(q)'
    BY <1>1, <1>2, <1>3 DEF CallInv, Verdict, Verifying, InCtx
  <1>8. CallInv(q)'
    BY <1>4, <1>5, <1>6, <1>7 DEF CallInv
  <1> QED BY <1>1, <1>8, StepOf

(* A return of argon2_ctx, with an error. *)
LEMMA CtxFailsStep ==
    ASSUME IInv, NEW q \in Calls, UNCHANGED apiVars, NEW code, code \notin Succeeds,
           code \in ResourceErrors \/ ~Accepted(context[q]),
           pc[q] \notin {"idle", "returned"}, Return(q, code),
           UNCHANGED <<context, buf, instance, matrix, out>>
    PROVE  IInv'
  <1>1. /\ pc' = [pc EXCEPT ![q] = "returned"] /\ result' = [result EXCEPT ![q] = code]
        /\ UNCHANGED <<program, at, args, subject, heap, ptr, hash, encoded, ret>>
    BY DEF Return, apiVars
  <1>2. Domains /\ CallInv(q)
    BY DEF IInv
  <1>3. Domains' /\ \A r \in Calls \ {q} : Same(r)
    BY <1>1, <1>2 DEF Domains, Same
  <1>4. pc'[q] = "returned" /\ result'[q] = code
    BY <1>1, <1>2 DEF Domains
  <1>5. Digesting(q)'
    BY <1>1, <1>2, <1>4 DEF CallInv, Digesting, Returned, Succeeds, Filling
  <1> QED BY <1>3, <1>4, <1>5, InsideCtx DEF Labels

LEMMA InputsRejectedStep ==
    ASSUME IInv, NEW q \in Calls, InputsRejected(q), UNCHANGED apiVars
    PROVE  IInv'
  <1>1. pc[q] = "validate" /\ UNCHANGED <<context, buf, instance, matrix, out>>
    BY DEF InputsRejected
  <1>2. CASE \E n \in DOMAIN Checks(context[q]) :
                Checks(context[q])[n].fails /\ Return(q, Checks(context[q])[n].code)
    <2>1. PICK n \in DOMAIN Checks(context[q]) :
             Checks(context[q])[n].fails /\ Return(q, Checks(context[q])[n].code)
      BY <1>2
    <2>2. PICK code : code = Checks(context[q])[n].code
      OBVIOUS
    <2>3. code \notin Succeeds /\ Return(q, code)
      BY <2>1, <2>2, ChecksReportErrors DEF Succeeds
    <2>4. ~Accepted(context[q])
      BY <2>1, ValidMeansNoFailure DEF Accepted
    <2> QED BY <1>1, <2>3, <2>4, CtxFailsStep
  <1>3. CASE ~Accepted(context[q]) /\ Return(q, "ARGON2_INCORRECT_TYPE")
    <2>1. "ARGON2_INCORRECT_TYPE" \notin Succeeds
      BY DEF Succeeds
    <2> QED BY <1>1, <1>3, <2>1, CtxFailsStep
  <1>4. \/ \E n \in DOMAIN Checks(context[q]) :
              Checks(context[q])[n].fails /\ Return(q, Checks(context[q])[n].code)
        \/ ~Accepted(context[q]) /\ Return(q, "ARGON2_INCORRECT_TYPE")
    BY Zenon DEF InputsRejected, FirstFailure, Accepted
  <1> QED BY <1>2, <1>3, <1>4

LEMMA AllocateFailsStep ==
    ASSUME IInv, NEW q \in Calls, AllocateFails(q) \/ FillFails(q), UNCHANGED apiVars
    PROVE  IInv'
  <1>1. PICK code \in {"ARGON2_MEMORY_ALLOCATION_ERROR", "ARGON2_THREAD_FAIL"} :
           Return(q, code)
    BY DEF AllocateFails, FillFails
  <1>2. /\ pc[q] \in {"allocate", "fill"}
        /\ UNCHANGED <<context, buf, instance, matrix, out>>
    BY DEF AllocateFails, FillFails
  <1>3. code \notin Succeeds /\ code \in ResourceErrors
    BY <1>1 DEF Succeeds, ResourceErrors
  <1> QED BY <1>1, <1>2, <1>3, CtxFailsStep

LEMMA InputsAcceptedStep ==
    ASSUME IInv, NEW q \in Calls, InputsAccepted(q), UNCHANGED apiVars
    PROVE  IInv'
  <1>1. /\ pc[q] = "validate" /\ pc' = [pc EXCEPT ![q] = "allocate"]
        /\ Accepted(context[q])
        /\ instance' = [instance EXCEPT ![q] = align(context[q])]
        /\ UNCHANGED <<context, buf, matrix, out, result, program, at, args, subject,
                       heap, ptr, hash, encoded, ret>>
    BY DEF InputsAccepted, Goto, apiVars, Accepted
  <1>2. Domains /\ CallInv(q)
    BY DEF IInv
  <1>3. Domains' /\ \A r \in Calls \ {q} : Same(r)
    BY <1>1, <1>2 DEF Domains, Same
  <1>4. pc'[q] = "allocate"
    BY <1>1, <1>2 DEF Domains
  <1>5. Digesting(q)'
    BY <1>1, <1>2, <1>4 DEF CallInv, Digesting
  <1> QED BY <1>1, <1>3, <1>4, <1>5, InsideCtx DEF Labels

LEMMA AllocateStep ==
    ASSUME IInv, NEW q \in Calls, Allocate(q), UNCHANGED apiVars
    PROVE  IInv'
  <1>1. /\ pc[q] = "allocate" /\ pc' = [pc EXCEPT ![q] = "initial_hash"]
        /\ matrix' = [matrix EXCEPT ![q] = [live |-> TRUE, bytes |-> memory_size(q),
                                            content |-> NoTag]]
        /\ UNCHANGED <<context, buf, instance, out, result, program, at, args, subject,
                       heap, ptr, hash, encoded, ret>>
    BY DEF Allocate, Goto, apiVars
  <1>2. Domains /\ CallInv(q)
    BY DEF IInv
  <1>3. Domains' /\ \A r \in Calls \ {q} : Same(r)
    BY <1>1, <1>2 DEF Domains, Same
  <1>4. /\ pc'[q] = "initial_hash"
        /\ matrix'[q] = [live |-> TRUE, bytes |-> memory_size(q), content |-> NoTag]
    BY <1>1, <1>2 DEF Domains
  <1>5. Digesting(q)'
    BY <1>1, <1>2, <1>4 DEF CallInv, Digesting, Filling
  <1> QED BY <1>1, <1>3, <1>4, <1>5, InsideCtx DEF Labels, Filling

LEMMA InitialHashStep ==
    ASSUME IInv, NEW q \in Calls, InitialHash(q), UNCHANGED apiVars
    PROVE  IInv'
  <1> DEFINE c == context[q]
             b == buf[q]
  <1>1. /\ pc[q] = "initial_hash" /\ pc' = [pc EXCEPT ![q] = "fill"]
        /\ matrix' = [matrix EXCEPT ![q].content = Digest(c, b)]
        /\ buf' = [buf EXCEPT ![q] = BuffersAfter(c, b)]
        /\ context' = [context EXCEPT ![q] = ContextAfter(c)]
        /\ UNCHANGED <<instance, out, result, program, at, args, subject, heap, ptr,
                       hash, encoded, ret>>
    BY DEF InitialHash, Goto, apiVars
  <1>2. Domains /\ CallInv(q)
    BY DEF IInv
  <1> HIDE DEF c, b
  <1>3. Domains' /\ \A r \in Calls \ {q} : Same(r)
    BY <1>1, <1>2 DEF Domains, Same
  <1>4. /\ pc'[q] = "fill" /\ context'[q] = ContextAfter(c) /\ buf'[q] = BuffersAfter(c, b)
        /\ matrix'[q] = [matrix[q] EXCEPT !.content = Digest(c, b)]
    BY <1>1, <1>2 DEF Domains
  <1>5. at[q] \in {"argon2_hash", "argon2_verify"} =>
           ContextAfter(c) = c /\ BuffersAfter(c, b) = b
    <2> SUFFICES ASSUME at[q] \in {"argon2_hash", "argon2_verify"}
                 PROVE  ContextAfter(c) = c /\ BuffersAfter(c, b) = b
      OBVIOUS
    <2>1. /\ b = buffers_of(args[q])
          /\ c = hash_context(args[q]) \/ c = decoded_context(subject[q], args[q])
      BY <1>2 DEF CallInv, Digesting, c, b
    <2>2. c.flags = {} /\ c = [x \in DOMAIN c |-> c[x]]
      BY <2>1, HashContextFlags, DecodedContextFields
    <2>3. b = [pwd |-> b.pwd, secret |-> b.secret]
      BY <2>1, HashContextFlags
    <2> QED BY <2>2, <2>3, NothingCleared
  <1>6. Digesting(q)'
    <2>1. /\ matrix[q] = [live |-> matrix[q].live, bytes |-> matrix[q].bytes,
                          content |-> matrix[q].content]
      BY <1>2 DEF CallInv, Digesting
    <2>2. matrix'[q] = [live |-> matrix[q].live, bytes |-> matrix[q].bytes,
                        content |-> Digest(c, b)]
      BY <1>4, <2>1
    <2>3. matrix'[q].content = Digest(c, b)
      BY <2>2
    <2>4. matrix'[q] = [live |-> matrix'[q].live, bytes |-> matrix'[q].bytes,
                        content |-> matrix'[q].content]
      BY <2>2
    <2>5. at[q] \in {"argon2_hash", "argon2_verify"} =>
             context'[q] = context[q] /\ buf'[q] = buf[q]
      BY <1>4, <1>5 DEF c, b
    <2> QED BY <1>1, <1>2, <1>4, <2>3, <2>4, <2>5 DEF CallInv, Digesting, Filling, c, b
  <1> QED BY <1>1, <1>3, <1>4, <1>6, InsideCtx DEF Labels, Filling

LEMMA FillStep ==
    ASSUME IInv, NEW q \in Calls, Fill(q), UNCHANGED apiVars
    PROVE  IInv'
  <1>1. /\ pc[q] = "fill" /\ pc' = [pc EXCEPT ![q] = "finalize"]
        /\ UNCHANGED <<context, buf, instance, matrix, out, result, program, at, args,
                       subject, heap, ptr, hash, encoded, ret>>
    BY DEF Fill, Goto, apiVars
  <1>2. Domains /\ CallInv(q)
    BY DEF IInv
  <1>3. Domains' /\ \A r \in Calls \ {q} : Same(r)
    BY <1>1, <1>2 DEF Domains, Same
  <1>4. pc'[q] = "finalize"
    BY <1>1, <1>2 DEF Domains
  <1>5. Digesting(q)'
    BY <1>1, <1>2, <1>4 DEF CallInv, Digesting, Filling
  <1> QED BY <1>1, <1>3, <1>4, <1>5, InsideCtx DEF Labels, Filling

LEMMA FinalizeStep ==
    ASSUME IInv, NEW q \in Calls, Finalize(q), UNCHANGED apiVars
    PROVE  IInv'
  <1>1. /\ pc[q] = "finalize" /\ pc' = [pc EXCEPT ![q] = "returned"]
        /\ result' = [result EXCEPT ![q] = "ARGON2_OK"]
        /\ out' = [out EXCEPT ![q] = matrix[q].content]
        /\ matrix' = [matrix EXCEPT ![q] = [matrix[q] EXCEPT !.live = FALSE,
                                                            !.content = ZeroTag]]
        /\ UNCHANGED <<context, buf, instance, program, at, args, subject, heap, ptr,
                       hash, encoded, ret>>
    BY DEF Finalize, Return, apiVars
  <1>2. Domains /\ CallInv(q)
    BY DEF IInv
  <1>3. Domains' /\ \A r \in Calls \ {q} : Same(r)
    BY <1>1, <1>2 DEF Domains, Same
  <1>4. /\ pc'[q] = "returned" /\ out'[q] = matrix[q].content
        /\ result'[q] = "ARGON2_OK"
        /\ matrix'[q] = [matrix[q] EXCEPT !.live = FALSE, !.content = ZeroTag]
    BY <1>1, <1>2 DEF Domains
  <1>5. Digesting(q)'
    <2>1. matrix'[q] = [live |-> matrix'[q].live, bytes |-> matrix'[q].bytes,
                        content |-> matrix'[q].content]
      <3>1. DOMAIN matrix[q] = {"live", "bytes", "content"}
        <4>1. matrix[q] = [live |-> matrix[q].live, bytes |-> matrix[q].bytes,
                           content |-> matrix[q].content]
          BY <1>2 DEF CallInv, Digesting
        <4> QED BY <4>1
      <3> DEFINE m == matrix'[q]
      <3>2. DOMAIN m = {"live", "bytes", "content"} /\ m = [z \in DOMAIN m |-> m[z]]
        BY <1>4, <3>1
      <3> HIDE DEF m
      <3>3. m = [live |-> m.live, bytes |-> m.bytes, content |-> m.content]
        BY <3>2
      <3> QED BY <3>3 DEF m
    <2> QED BY <1>1, <1>2, <1>4, <2>1 DEF CallInv, Digesting, Returned, Filling
  <1> QED BY <1>1, <1>3, <1>4, <1>5, InsideCtx DEF Labels

(* Every step of a call that has been made. *)
LEMMA ProceedStep ==
    ASSUME IInv, NEW q \in Calls, Proceed(q)
    PROVE  IInv'
  <1>1. CASE argon2_ctx(q) /\ UNCHANGED apiVars
    BY <1>1, InputsRejectedStep, InputsAcceptedStep, AllocateStep, AllocateFailsStep,
       InitialHashStep, FillStep, FinalizeStep
    DEF argon2_ctx
  <1>2. CASE DecodeFails(q) \/ NoSecondBuffer(q) \/ VerifyReturns(q)
    BY <1>2, FailSteps
  <1> QED
    BY <1>1, <1>2, CtxReturnsStep, HashReturnsStep, SetAsideStep, VerifyEntersStep
    DEF Proceed

-----------------------------------------------------------------------------
(* argon2_ctx, as the programs call it: what validate_inputs accepts leads to *)
(* the geometry the fill relies on, in memory that is large enough, behind    *)
(* wiped secrets.                                                             *)

(* What is known of a context before it is validated. *)
CostTypes(c) ==
    /\ {"pwd", "secret", "flags", "lanes", "threads", "t_cost", "m_cost"} \subseteq DOMAIN c
    /\ {c.lanes, c.threads, c.t_cost, c.m_cost} \subseteq 0 .. Word - 1

LEMMA ModSmall ==
    ASSUME NEW w \in Nat, NEW a \in 0 .. w - 1
    PROVE  a % w = a
  OBVIOUS

LEMMA ModAtMost ==
    ASSUME NEW w \in Nat \ {0}, NEW a \in Nat
    PROVE  a % w \in 0 .. a
  OBVIOUS

(* The quotient, and what is lost by dividing. *)
LEMMA DivTimes ==
    ASSUME NEW a \in Nat, NEW d \in Nat \ {0}
    PROVE  /\ a \div d \in Nat
           /\ (a \div d) * d <= a
           /\ a - (a \div d) * d < d
  OBVIOUS

LEMMA DivAtLeast ==
    ASSUME NEW a \in Nat, NEW d \in Nat \ {0}, NEW k \in Nat, k * d <= a
    PROVE  a \div d >= k
  OBVIOUS

(* A product that does not fit its word is not divided back to its factor:    *)
(* allocate_memory's overflow check is exact.                                 *)
LEMMA OverflowCheckExact ==
    ASSUME NEW n \in Nat, NEW b \in Nat \ {0}, NEW w \in Nat \ {0},
           ((n * b) % w) \div b = n
    PROVE  (n * b) % w = n * b
  <1> DEFINE x == (n * b) % w
  <1>1. n * b \in Nat
    OBVIOUS
  <1>2. x \in 0 .. n * b
    BY <1>1, ModAtMost
  <1>3. x \in Nat
    BY <1>1, <1>2
  <1>4. x \div b = n
    OBVIOUS
  <1> HIDE DEF x
  <1>5. n * b <= x
    BY <1>3, <1>4, DivTimes
  <1>6. x = n * b
    BY <1>1, <1>2, <1>3, <1>5
  <1> QED BY <1>6 DEF x

-----------------------------------------------------------------------------
(* The geometry of accepted inputs. *)

LEMMA ValidCosts ==
    ASSUME NEW c, CostTypes(c), valid(c)
    PROVE  /\ c.lanes \in 1 .. MaxLanes
           /\ c.threads >= 1
           /\ c.t_cost >= 1
           /\ c.m_cost >= uint32(8 * c.lanes)
  <1>1. \A n \in DOMAIN CostChecks(c) : ~CostChecks(c)[n].fails
    BY DEF valid
  <1>2. /\ ~(c.m_cost < uint32(8 * c.lanes))
        /\ ~(1 > c.t_cost) /\ ~(1 > c.lanes) /\ ~(MaxLanes < c.lanes)
        /\ ~(1 > c.threads)
    <2>1. DOMAIN CostChecks(c) = 1 .. 10
      BY DEF CostChecks, Check
    <2>2. /\ CostChecks(c)[3].fails = (c.m_cost < uint32(8 * c.lanes))
          /\ CostChecks(c)[4].fails = (1 > c.t_cost)
          /\ CostChecks(c)[5].fails = (1 > c.lanes)
          /\ CostChecks(c)[6].fails = (MaxLanes < c.lanes)
          /\ CostChecks(c)[7].fails = (1 > c.threads)
      BY DEF CostChecks, Check
    <2>3. 3 \in 1 .. 10 /\ 4 \in 1 .. 10 /\ 5 \in 1 .. 10 /\ 6 \in 1 .. 10
          /\ 7 \in 1 .. 10
      OBVIOUS
    <2> QED BY <1>1, <2>1, <2>2, <2>3, Zenon
  <1>3. c.lanes \in Nat /\ c.threads \in Nat /\ c.t_cost \in Nat /\ c.m_cost \in Nat
    BY LimitsAssumption DEF CostTypes
  <1>4. uint32(8 * c.lanes) \in Nat
    BY <1>3, LimitsAssumption DEF uint32
  <1> QED BY <1>2, <1>3, <1>4, LimitsAssumption

LEMMA ValidGeometry ==
    ASSUME NEW c, CostTypes(c), valid(c)
    PROVE  /\ Geometry(align(c))
           /\ align(c).memory_blocks \in Nat
           /\ align(c).segment_length \in Nat
           /\ align(c).memory_blocks <= c.m_cost
           /\ c.m_cost - align(c).memory_blocks < SYNC_POINTS * align(c).lanes
  <1> DEFINE l == c.lanes
             m == c.m_cost
             d == 4 * l
             s == m \div d
  <1>1. /\ l \in 1 .. MaxLanes /\ m \in 0 .. Word - 1 /\ c.threads \in Nat
        /\ c.threads >= 1 /\ c.t_cost \in Nat /\ c.t_cost >= 1
        /\ m >= uint32(8 * l)
        /\ Word \in Nat /\ MaxLanes \in Nat /\ 8 * MaxLanes < Word
    BY ValidCosts, LimitsAssumption DEF CostTypes
  <1>2. 8 * l \in 0 .. Word - 1 /\ d \in 0 .. Word - 1 /\ d \in Nat \ {0}
    BY <1>1
  <1>3. uint32(8 * l) = 8 * l /\ uint32(l * SYNC_POINTS) = d
        /\ uint32(2 * SYNC_POINTS * l) = 8 * l
    <2>1. (8 * l) % Word = 8 * l /\ d % Word = d
      BY <1>1, <1>2, ModSmall
    <2>2. l * SYNC_POINTS = d /\ 2 * SYNC_POINTS * l = 8 * l
      BY <1>1 DEF SYNC_POINTS
    <2> QED BY <2>1, <2>2 DEF uint32
  <1>4. requested_blocks(c) = m
    BY <1>1, <1>3 DEF requested_blocks
  <1>5. segment_length(c) = s
    BY <1>3, <1>4 DEF segment_length
  <1>6. m \in Nat /\ 2 * d <= m
    BY <1>1, <1>3
  <1>7. /\ s \in Nat /\ s >= 2
        /\ s * d <= m /\ m - s * d < d
    BY <1>2, <1>6, DivTimes, DivAtLeast
  <1> HIDE DEF s, d
  <1>8. s * d \in 0 .. Word - 1
    BY <1>1, <1>2, <1>7
  <1>9. /\ s * d = l * (4 * s) /\ s * 4 = 4 * s /\ 4 * s \in Nat
        /\ 4 * s <= s * d
    <2>1. d = 4 * l /\ l \in Nat /\ l >= 1
      BY <1>1 DEF d
    <2>2. s * d = l * (4 * s)
      BY <2>1, <1>7
    <2>3. l * (4 * s) >= 4 * s
      BY <2>1, <1>7
    <2> QED BY <2>2, <2>3, <1>7
  <1>10. uint32(s * d) = s * d /\ uint32(s * SYNC_POINTS) = 4 * s
    <2>1. 4 * s \in 0 .. Word - 1
      BY <1>1, <1>7, <1>8, <1>9
    <2>2. (s * d) % Word = s * d /\ (4 * s) % Word = 4 * s
      BY <1>1, <1>8, <2>1, ModSmall
    <2> QED BY <2>2, <1>9 DEF uint32, SYNC_POINTS
  <1>11. align(c) =
            [memory_blocks |-> s * d, segment_length |-> s, lane_length |-> 4 * s,
             lanes |-> l, threads |-> IF c.threads > l THEN l ELSE c.threads,
             passes |-> c.t_cost]
    BY <1>3, <1>5, <1>10 DEF align
  <1>12. Geometry(align(c))
    BY <1>1, <1>7, <1>8, <1>9, <1>11 DEF Geometry, SYNC_POINTS
  <1>13. d = SYNC_POINTS * l
    BY <1>1 DEF d, SYNC_POINTS
  <1> QED
    BY <1>7, <1>8, <1>11, <1>12, <1>13

-----------------------------------------------------------------------------
(* The part of the invariant that is about argon2_ctx alone.  Nothing is      *)
(* allocated before the geometry is known, so that it cannot change behind an *)
(* allocation.                                                                *)
CtxSafe(q) ==
    /\ pc[q] \in {"validate", "allocate"} \cup Filling => CostTypes(context[q])
    /\ pc[q] \in {"idle", "validate", "allocate"} => ~matrix[q].live
    /\ pc[q] \in {"allocate"} \cup Filling =>
          /\ Geometry(instance[q]) /\ instance[q].memory_blocks \in Nat
          /\ instance[q].memory_blocks <= context[q].m_cost
          /\ context[q].m_cost - instance[q].memory_blocks
                < SYNC_POINTS * instance[q].lanes
    /\ matrix[q].live => matrix[q].bytes = instance[q].memory_blocks * BlockSize
    /\ pc[q] \in {"fill", "finalize"} =>
          /\ ClearPassword(context[q]) => buf[q].pwd = Zero
          /\ ClearSecret(context[q]) => buf[q].secret = Zero

CtxInv == \A q \in Calls : CtxSafe(q)

(* A step that argon2_ctx does not see, or of another call. *)
Unseen(r) ==
    /\ pc'[r] = pc[r] /\ context'[r] = context[r] /\ buf'[r] = buf[r]
    /\ instance'[r] = instance[r] /\ matrix'[r] = matrix[r]

LEMMA UnseenKeeps ==
    ASSUME NEW r \in Calls, CtxSafe(r), Unseen(r)
    PROVE  CtxSafe(r)'
  BY DEF CtxSafe, Unseen, Geometry, ClearPassword, ClearSecret, CostTypes

LEMMA CtxStepOf ==
    ASSUME CtxInv, NEW q \in Calls, \A r \in Calls \ {q} : Unseen(r), CtxSafe(q)'
    PROVE  CtxInv'
  <1>1. ASSUME NEW r \in Calls \ {q} PROVE CtxSafe(r)'
    BY <1>1, UnseenKeeps DEF CtxInv
  <1> QED BY <1>1 DEF CtxInv

(* argon2_ctx is entered with uint32_t costs. *)
LEMMA EnterSafe ==
    ASSUME IInv, CtxInv, NEW q \in Calls, NEW c, CostTypes(c), NEW b, NEW label,
           pc[q] = "idle", Enter(q, c, b, label)
    PROVE  CtxInv'
  <1>1. /\ pc' = [pc EXCEPT ![q] = "validate"] /\ context' = [context EXCEPT ![q] = c]
        /\ buf' = [buf EXCEPT ![q] = b] /\ UNCHANGED <<instance, matrix>>
    BY DEF Enter
  <1>2. Domains
    BY DEF IInv
  <1>3. \A r \in Calls \ {q} : Unseen(r)
    BY <1>1, <1>2 DEF Domains, Unseen
  <1>4. pc'[q] = "validate" /\ context'[q] = c /\ matrix'[q] = matrix[q] /\ ~matrix[q].live
    BY <1>1, <1>2 DEF Domains, CtxInv, CtxSafe
  <1>5. CtxSafe(q)'
    BY <1>4 DEF CtxSafe, Filling, CostTypes
  <1> QED BY <1>3, <1>5, CtxStepOf

(* The steps that only move on, no further than the geometry allows. *)
LEMMA MovesSafe ==
    ASSUME IInv, CtxInv, NEW q \in Calls, NEW label,
           pc' = [pc EXCEPT ![q] = label], UNCHANGED <<context, buf, instance, matrix>>,
           label = "returned" \/ (pc[q] = "fill" /\ label = "finalize")
    PROVE  CtxInv'
  <1>1. Domains /\ CtxSafe(q)
    BY DEF IInv, CtxInv
  <1>2. pc'[q] = label /\ \A r \in Calls \ {q} : Unseen(r)
    BY <1>1 DEF Domains, Unseen
  <1>3. CtxSafe(q)'
    <2>1. CASE label = "returned"
      BY <1>1, <1>2, <2>1 DEF CtxSafe, Filling
    <2>2. CASE pc[q] = "fill" /\ label = "finalize"
      BY <1>1, <1>2, <2>2 DEF CtxSafe, Filling, CostTypes, Geometry, ClearPassword,
                              ClearSecret
    <2> QED BY <2>1, <2>2
  <1> QED BY <1>2, <1>3, CtxStepOf

LEMMA CtxStepSafe ==
    ASSUME IInv, CtxInv, NEW q \in Calls, argon2_ctx(q)
    PROVE  CtxInv'
  <1>0. Domains /\ CallInv(q) /\ CtxSafe(q)
    BY DEF IInv, CtxInv
  <1>1. CASE InputsRejected(q) \/ AllocateFails(q) \/ FillFails(q)
    <2>1. /\ pc' = [pc EXCEPT ![q] = "returned"]
          /\ UNCHANGED <<context, buf, instance, matrix>>
      BY <1>1 DEF InputsRejected, AllocateFails, FillFails, Return
    <2> QED BY <2>1, MovesSafe
  <1>2. CASE Fill(q)
    <2>1. /\ pc' = [pc EXCEPT ![q] = "finalize"] /\ pc[q] = "fill"
          /\ UNCHANGED <<context, buf, instance, matrix>>
      BY <1>2 DEF Fill, Goto
    <2> QED BY <2>1, MovesSafe
  <1>3. CASE InputsAccepted(q)
    <2>1. PICK n : n = align(context[q])
      OBVIOUS
    <2>2. /\ pc[q] = "validate" /\ pc' = [pc EXCEPT ![q] = "allocate"]
          /\ instance' = [instance EXCEPT ![q] = n]
          /\ UNCHANGED <<context, buf, matrix>> /\ valid(context[q])
      BY <1>3, <2>1 DEF InputsAccepted, Goto
    <2>3. CostTypes(context[q]) /\ ~matrix[q].live
      BY <1>0, <2>2 DEF CtxSafe
    <2>4. /\ Geometry(n) /\ n.memory_blocks \in Nat
          /\ n.memory_blocks <= context[q].m_cost
          /\ context[q].m_cost - n.memory_blocks < SYNC_POINTS * n.lanes
      BY <2>1, <2>2, <2>3, ValidGeometry
    <2>5. /\ pc'[q] = "allocate" /\ instance'[q] = n /\ context'[q] = context[q]
          /\ matrix'[q] = matrix[q] /\ \A r \in Calls \ {q} : Unseen(r)
      BY <1>0, <2>2 DEF Domains, Unseen
    <2>6. CtxSafe(q)'
      BY <2>3, <2>4, <2>5 DEF CtxSafe, Filling, CostTypes, Geometry
    <2> QED BY <2>5, <2>6, CtxStepOf
  <1>4. CASE Allocate(q)
    <2>1. /\ pc[q] = "allocate" /\ pc' = [pc EXCEPT ![q] = "initial_hash"]
          /\ matrix' = [matrix EXCEPT ![q] = [live |-> TRUE, bytes |-> memory_size(q),
                                              content |-> NoTag]]
          /\ UNCHANGED <<context, buf, instance>> /\ ~overflows(q)
      BY <1>4 DEF Allocate, Goto
    <2>2. instance[q].memory_blocks \in Nat
      BY <1>0, <2>1 DEF CtxSafe
    <2>3. memory_size(q) = instance[q].memory_blocks * BlockSize
      BY <2>1, <2>2, SizesAssumption, OverflowCheckExact DEF memory_size, overflows
    <2>4. /\ pc'[q] = "initial_hash" /\ instance'[q] = instance[q]
          /\ context'[q] = context[q]
          /\ matrix'[q] = [live |-> TRUE, bytes |-> memory_size(q), content |-> NoTag]
          /\ \A r \in Calls \ {q} : Unseen(r)
      BY <1>0, <2>1 DEF Domains, Unseen
    <2>5. matrix'[q].bytes = instance'[q].memory_blocks * BlockSize
      BY <2>3, <2>4
    <2>6. CtxSafe(q)'
      BY <1>0, <2>1, <2>4, <2>5 DEF CtxSafe, Filling, CostTypes, Geometry
    <2> QED BY <2>4, <2>6, CtxStepOf
  <1>5. CASE InitialHash(q)
    <2>1. PICK c, b, d, n : c = context[q] /\ b = buf[q] /\ d = ContextAfter(c)
                            /\ n = BuffersAfter(c, b)
      OBVIOUS
    <2>2. /\ pc[q] = "initial_hash" /\ pc' = [pc EXCEPT ![q] = "fill"]
          /\ matrix' = [matrix EXCEPT ![q].content = Digest(c, b)]
          /\ buf' = [buf EXCEPT ![q] = n] /\ context' = [context EXCEPT ![q] = d]
          /\ instance' = instance
      BY <1>5, <2>1 DEF InitialHash, Goto
    <2>3. CostTypes(c)
      BY <1>0, <2>1, <2>2 DEF CtxSafe, Filling
    <2>4. /\ d.pwd = c.pwd /\ d.secret = c.secret /\ d.flags = c.flags
          /\ d.m_cost = c.m_cost /\ CostTypes(d)
      BY <2>1, <2>3 DEF ContextAfter, CostTypes
    <2>5. /\ pc'[q] = "fill" /\ buf'[q] = n /\ context'[q] = d
          /\ instance'[q] = instance[q] /\ matrix'[q].live = matrix[q].live
          /\ matrix'[q].bytes = matrix[q].bytes
          /\ \A r \in Calls \ {q} : Unseen(r)
      <3>1. matrix[q] = [live |-> matrix[q].live, bytes |-> matrix[q].bytes,
                         content |-> matrix[q].content]
        BY <1>0 DEF CallInv, Digesting
      <3>2. matrix'[q] = [matrix[q] EXCEPT !.content = Digest(c, b)]
        BY <1>0, <2>2 DEF Domains
      <3>3. matrix'[q].live = matrix[q].live /\ matrix'[q].bytes = matrix[q].bytes
        BY <3>1, <3>2
      <3> QED BY <1>0, <2>2, <3>3 DEF Domains, Unseen
    <2>6. /\ ClearPassword(d) => n.pwd = Zero
          /\ ClearSecret(d) => n.secret = Zero
      BY <2>1, <2>4 DEF ClearPassword, ClearSecret, BuffersAfter
    <2>7. CtxSafe(q)'
      <3>1. CostTypes(context'[q])
        BY <2>4, <2>5
      <3>2. /\ Geometry(instance'[q]) /\ instance'[q].memory_blocks \in Nat
            /\ instance'[q].memory_blocks <= context'[q].m_cost
            /\ context'[q].m_cost - instance'[q].memory_blocks
                  < SYNC_POINTS * instance'[q].lanes
            /\ matrix'[q].live =>
                  matrix'[q].bytes = instance'[q].memory_blocks * BlockSize
        BY <1>0, <2>1, <2>2, <2>4, <2>5 DEF CtxSafe, Filling
      <3>3. /\ ClearPassword(context'[q]) => buf'[q].pwd = Zero
            /\ ClearSecret(context'[q]) => buf'[q].secret = Zero
        BY <2>5, <2>6
      <3> QED BY <2>5, <3>1, <3>2, <3>3
              DEF CtxSafe, CostTypes, Geometry, ClearPassword, ClearSecret
    <2> QED BY <2>5, <2>7, CtxStepOf
  <1>6. CASE Finalize(q)
    <2>1. /\ pc' = [pc EXCEPT ![q] = "returned"]
          /\ matrix' = [matrix EXCEPT ![q] = [@ EXCEPT !.live = FALSE,
                                                     !.content = ZeroTag]]
          /\ UNCHANGED <<context, buf, instance>>
      BY <1>6 DEF Finalize, Return
    <2>2. pc'[q] = "returned" /\ ~matrix'[q].live /\ \A r \in Calls \ {q} : Unseen(r)
      <3>1. matrix[q] = [live |-> matrix[q].live, bytes |-> matrix[q].bytes,
                         content |-> matrix[q].content]
        BY <1>0 DEF CallInv, Digesting
      <3>2. matrix'[q] = [matrix[q] EXCEPT !.live = FALSE, !.content = ZeroTag]
        BY <1>0, <2>1 DEF Domains
      <3>3. matrix'[q].live = FALSE
        BY <3>1, <3>2
      <3> QED BY <1>0, <2>1, <3>3 DEF Domains, Unseen
    <2>3. CtxSafe(q)'
      BY <2>2 DEF CtxSafe, Filling
    <2> QED BY <2>2, <2>3, CtxStepOf
  <1> QED BY <1>1, <1>2, <1>3, <1>4, <1>5, <1>6 DEF argon2_ctx

(* What decode_string has accepted are uint32_t costs. *)
LEMMA CostsOfString ==
    ASSUME NEW str, c_string(str), NEW c, NEW type, WellFormed(str, c, type)
    PROVE  LET e == Rest(str)[1].entries
           IN  {e[1][2], e[2][2], e[3][2]} \subseteq 0 .. Word - 1
  <1>1. PICK m : m = IF versioned(str) THEN 3 ELSE 2
    OBVIOUS
  <1>2. /\ m \in {2, 3} /\ Rest(str) = SubSeq(str, m, Len(str))
        /\ Len(Rest(str)) >= 3 /\ isCosts(Rest(str)[1])
    BY <1>1 DEF Rest, WellFormed
  <1>3. Len(str) \in Nat /\ DOMAIN str = 1 .. Len(str) /\ \A n \in 1 .. Len(str) : c_field(str[n])
    BY DEF c_string
  <1>4. m \in 1 .. Len(str) /\ Rest(str)[1] = str[m]
    <2>1. str \in Seq({str[n] : n \in 1 .. Len(str)})
      BY <1>3 DEF c_string
    <2>2. Len(str) >= m + 2
      BY <1>2, <1>3, <2>1
    <2> QED BY <1>2, <1>3, <2>1, <2>2
  <1>5. PICK e : e = str[m].entries
    OBVIOUS
  <1>6. e \in Seq(STRING \X (Nat \cup {NoNumber}))
    BY <1>2, <1>3, <1>4, <1>5 DEF c_field, isCosts
  <1>7. DOMAIN e = 1 .. 3 /\ \A n \in 1 .. 3 : decimal_u32(e[n][2])
    <2>1. [n \in DOMAIN e |-> e[n][1]] = <<"m", "t", "p">>
      BY <1>2, <1>4, <1>5 DEF isCosts
    <2>2. DOMAIN e = 1 .. 3
      BY <2>1
    <2> QED BY <1>2, <1>4, <1>5, <2>2 DEF isCosts
  <1>8. ASSUME NEW n \in 1 .. 3 PROVE e[n][2] \in 0 .. Word - 1
    <2>1. e[n][2] \in Nat \cup {NoNumber}
      <3>1. e[n] \in STRING \X (Nat \cup {NoNumber})
        <4>1. PICK S : S = STRING \X (Nat \cup {NoNumber})
          OBVIOUS
        <4>2. e \in Seq(S) /\ DOMAIN e = 1 .. 3
          BY <1>6, <1>7, <4>1
        <4>3. e[n] \in S
          BY <4>2
        <4> QED BY <4>1, <4>3
      <3> QED BY <3>1
    <2>2. e[n][2] # NoNumber /\ e[n][2] < Word
      BY <1>7 DEF decimal_u32
    <2> QED BY <2>1, <2>2, LimitsAssumption
  <1> QED BY <1>4, <1>5, <1>8

LEMMA DecodedCosts ==
    ASSUME NEW s, NEW a, Readable(s, a), decodes(s, a) = "ARGON2_OK"
    PROVE  CostTypes(decoded_context(s, a))
  <1>1. PICK str, v, e : /\ str = s.fields /\ v = verify_context(s, a)
                         /\ e = Rest(str)[1].entries
    OBVIOUS
  <1>2. {e[1][2], e[2][2], e[3][2]} \subseteq 0 .. Word - 1
    <2>1. CASE s \in Strings
      <3>1. c_string(str)
        BY <1>1, <2>1, StringsAssumption
      <3>2. decode_string(str, v, a.type) = "ARGON2_OK"
        BY <1>1 DEF decodes
      <3>3. WellFormed(str, v, a.type)
        BY <3>2 DEF decode_string
      <3> QED BY <1>1, <3>1, <3>3, CostsOfString
    <2>2. CASE Made(s)
      <3>1. PICK b : /\ Hashable(b)
                     /\ s = Given(Encoded(hash_context(b), DigestOf(b), b.type), Maker(b))
        BY <2>2 DEF Made
      <3>2. PICK c : c = hash_context(b)
        OBVIOUS
      <3>3. str = Encoded(c, DigestOf(b), b.type)
        BY <1>1, <3>1, <3>2 DEF Given
      <3>4. Reads(str, c, DigestOf(b), b.type)
        BY <3>3, EncodedParts
      <3>5. e = << <<"m", c.m_cost>>, <<"t", c.t_cost>>, <<"p", c.lanes>> >>
        BY <1>1, <3>4 DEF Reads, Nums
      <3>6. {c.m_cost, c.t_cost, c.lanes} \subseteq 0 .. Word - 1
        BY <3>1, <3>2 DEF Hashable, argument_types, hash_context
      <3> QED BY <3>5, <3>6
    <2> QED BY <2>1, <2>2 DEF Readable, Origin
  <1>3. DOMAIN v = {"out", "outlen", "pwd", "pwdlen", "salt", "saltlen", "secret",
                    "secretlen", "ad", "adlen", "t_cost", "m_cost", "lanes",
                    "threads", "allocate_cbk", "free_cbk", "flags", "version", "type"}
    BY <1>1 DEF verify_context
  <1>4. PICK d : d = DecodedContext(str, v)
    OBVIOUS
  <1>5. /\ DOMAIN d = DOMAIN v
        /\ d.m_cost = e[1][2] /\ d.t_cost = e[2][2] /\ d.lanes = e[3][2]
        /\ d.threads = e[3][2]
    BY <1>1, <1>3, <1>4 DEF DecodedContext
  <1>6. CostTypes(d)
    BY <1>2, <1>3, <1>5 DEF CostTypes
  <1> QED BY <1>1, <1>4, <1>6 DEF decoded_context

LEMMA KeptSafe ==
    ASSUME CtxInv, UNCHANGED <<pc, context, buf, instance, matrix>>
    PROVE  CtxInv'
  BY UnseenKeeps DEF CtxInv, Unseen

LEMMA HashCallSafe ==
    ASSUME IInv, CtxInv, NEW q \in Calls, NEW a, argument_types(a),
           HashRefuses(q, a) \/ HashCall(q, a)
    PROVE  CtxInv'
  <1>1. CASE HashRefuses(q, a)
    BY <1>1, KeptSafe DEF HashRefuses, ctxVars
  <1>2. CASE HashCall(q, a)
    <2>1. Enter(q, hash_context(a), buffers_of(a), "argon2_hash") /\ at[q] = "idle"
      BY <1>2 DEF HashCall, Calling
    <2>2. pc[q] = "idle"
      BY <2>1 DEF IInv, CallInv, Control
    <2>3. CostTypes(hash_context(a))
      BY DEF CostTypes, hash_context, argument_types
    <2> QED BY <2>1, <2>2, <2>3, EnterSafe
  <1> QED BY <1>1, <1>2

LEMMA ProceedSafe ==
    ASSUME IInv, CtxInv, NEW q \in Calls, Proceed(q)
    PROVE  CtxInv'
  <1>1. CASE argon2_ctx(q)
    BY <1>1, CtxStepSafe
  <1>2. CASE VerifyEnters(q)
    <2>1. /\ Enter(q, decoded_context(subject[q], args[q]), buffers_of(args[q]),
                   "argon2_verify")
          /\ at[q] = "decoded"
      BY <1>2 DEF VerifyEnters
    <2>2. /\ pc[q] = "idle" /\ Readable(subject[q], args[q])
          /\ decodes(subject[q], args[q]) = "ARGON2_OK"
      BY <2>1 DEF IInv, CallInv, Control, Verdict, Verifying
    <2> QED BY <2>1, <2>2, DecodedCosts, EnterSafe
  <1>3. CASE \/ CtxReturns(q) \/ HashReturns(q) \/ DecodeFails(q) \/ SetAside(q)
             \/ NoSecondBuffer(q) \/ VerifyReturns(q)
    <2>1. UNCHANGED <<pc, context, buf, instance, matrix>>
      BY <1>3 DEF CtxReturns, HashReturns, DecodeFails, SetAside, NoSecondBuffer,
                  VerifyReturns, ctxVars
    <2> QED BY <2>1, KeptSafe
  <1> QED BY <1>1, <1>2, <1>3 DEF Proceed

-----------------------------------------------------------------------------
(* The programs that call the interface, and the tool. *)

(* The options keep the types of the variables of run.c. *)
OptionTypes(o) ==
    /\ DOMAIN o = DOMAIN Defaults
    /\ o.outlen \in 0 .. MaxLength
    /\ o.t_cost \in 0 .. MaxLength /\ o.m_cost \in 0 .. MaxLength
    /\ o.threads \in 0 .. MaxLength
    /\ o.version \in {VERSION_10, VERSION_NUMBER}

(* The calls of a program are calls; while the tool may still call            *)
(* argon2_hash, what its arguments come from is as it was read; and it goes   *)
(* on to verify only what it has hashed and encoded.                          *)
CliInv ==
    /\ DOMAIN program \subseteq Calls /\ stdin.len \in Nat
    /\ stage \in {"off", "main", "options", "run", "hash", "hashed", "verify", "exit",
                 "undefined"}
    /\ stage \in {"main", "options", "run"} =>
          argv \in Seq(DOMAIN Words) /\ i \in Nat /\ OptionTypes(options)
    /\ stage \in {"options", "run"} => argv # <<>>
    /\ stage \in {"hash", "hashed"} =>
          1 \in Calls /\ program[1] = "argon2_hash" /\ wants_encoded(args[1])
    /\ stage = "hashed" => at[1] = "done" /\ ret[1] = "ARGON2_OK"

(* What is encoded, argon2_hash has made. *)
LEMMA StringsAreMade ==
    ASSUME IInv, NEW k \in Calls, encoded[k].is = "string"
    PROVE  Made(Given(encoded[k].fields, Maker(args[k])))
  <1>1. Outputs(k)
    BY DEF IInv, CallInv
  <1>2. ~Untouched(k)
    BY DEF Untouched, NoTag, NULL
  <1>3. Matches(k)
    BY <1>1, <1>2 DEF Outputs
  <1>4. PICK a : a = args[k]
    OBVIOUS
  <1>5. Hashable(a) /\ encoded[k].fields = Encoded(hash_context(a), DigestOf(a), a.type)
    BY <1>3, <1>4 DEF Matches
  <1> QED BY <1>4, <1>5 DEF Made

LEMMA GivenTypes ==
    ASSUME NEW a \in HashArguments, NEW given \in {a, hash_encoded(a), hash_raw(a)}
    PROVE  argument_types(given)
  <1>1. DOMAIN a = HashParameters /\ argument_types(a)
    BY HashArgumentsAssumption
  <1>2. CASE given = a
    BY <1>1, <1>2
  <1>3. CASE given = hash_encoded(a)
    BY <1>1, <1>3 DEF argument_types, hash_encoded, HashParameters
  <1>4. CASE given = hash_raw(a)
    BY <1>1, <1>4 DEF argument_types, hash_raw, HashParameters
  <1> QED BY <1>2, <1>3, <1>4

LEMMA CNextStep ==
    ASSUME IInv, CNext
    PROVE  IInv' /\ program' = program
  <1>1. PICK q \in Calls : CallCtx(q) \/ CallHash(q) \/ CallVerify(q) \/ Proceed(q)
    BY DEF CNext
  <1>2. CASE CallCtx(q)
    <2>1. PICK c \in Contexts, pwd \in Contents, secret \in Contents :
             CtxCall(q, c, [pwd |-> pwd, secret |-> secret])
      BY <1>2 DEF CallCtx
    <2> QED BY <2>1, CtxCallStep, Zenon DEF CtxCall
  <1>3. CASE CallHash(q)
    <2>1. PICK a \in HashArguments : \E given \in {a, hash_encoded(a), hash_raw(a)} :
             HashRefuses(q, given) \/ HashCall(q, given)
      BY <1>3 DEF CallHash
    <2>2. PICK given \in {a, hash_encoded(a), hash_raw(a)} :
             HashRefuses(q, given) \/ HashCall(q, given)
      BY <2>1
    <2>3. argument_types(given)
      BY <2>1, <2>2, GivenTypes
    <2>4. CASE HashRefuses(q, given)
      BY <2>4, HashRefusesStep, Zenon DEF HashRefuses
    <2>5. CASE HashCall(q, given)
      BY <2>3, <2>5, HashCallStep, Zenon DEF HashCall
    <2> QED BY <2>2, <2>4, <2>5
  <1>4. CASE CallVerify(q)
    <2>1. PICK s \in Subjects(q), a \in Attempts : VerifyRefuses(q, s, a) \/ VerifyCall(q, s, a)
      BY <1>4 DEF CallVerify
    <2>2. Origin(s, a)
      <3>1. a.pwdlen \in Nat
        BY <2>1, AttemptsAssumption
      <3>2. CASE q = 1
        BY <2>1, <3>1, <3>2 DEF Subjects, Origin
      <3>3. CASE q # 1
        <4>1. PICK k \in Calls : /\ encoded[k].is = "string"
                                 /\ s = Given(encoded[k].fields, Maker(args[k]))
          BY <2>1, <3>3 DEF Subjects
        <4>2. Made(s)
          BY <4>1, StringsAreMade
        <4> QED BY <3>1, <4>2 DEF Origin
      <3> QED BY <3>2, <3>3
    <2>3. CASE VerifyRefuses(q, s, a)
      BY <2>2, <2>3, VerifyRefusesStep DEF VerifyRefuses
    <2>4. CASE VerifyCall(q, s, a)
      BY <2>2, <2>4, VerifyCallStep DEF VerifyCall
    <2> QED BY <2>1, <2>3, <2>4
  <1>5. CASE Proceed(q)
    BY <1>5, ProceedStep
    DEF Proceed, CtxReturns, HashReturns, DecodeFails, SetAside, NoSecondBuffer,
        VerifyEnters, VerifyReturns, apiVars
  <1> QED BY <1>1, <1>2, <1>3, <1>4, <1>5

LEMMA CVarsKept ==
    ASSUME IInv, UNCHANGED cVars
    PROVE  IInv' /\ program' = program
  <1>1. UNCHANGED <<pc, context, buf, instance, matrix, out, result, program, at, args,
                    subject, heap, ptr, hash, encoded, ret>>
    BY DEF cVars, ctxVars, apiVars
  <1>2. Domains'
    BY <1>1 DEF IInv, Domains
  <1>3. \A q \in Calls : Same(q)
    BY <1>1 DEF Same
  <1>4. \A q \in Calls : CallInv(q)'
    BY <1>1, <1>3, SameKeeps DEF IInv
  <1> QED BY <1>1, <1>2, <1>4 DEF IInv

LEMMA WithNumber ==
    ASSUME OptionTypes(options), NEW a \in Numeric, NEW n \in Nat, ~bad_input(a, n)
    PROVE  OptionTypes(with_number(a, n))
  <1>1. DOMAIN options =
          {"outlen", "m_cost", "t_cost", "threads", "type", "types_specified",
           "m_cost_specified", "encoded_only", "raw_only", "version"}
    BY DEF OptionTypes, Defaults
  <1>2. Word \in Nat /\ MaxLanes < Word /\ 0 < Word
    BY LimitsAssumption
  <1>3. CASE a = "-m"
    <2>1. ~(n > MaxMemoryBits)
      BY <1>3 DEF bad_input
    <2>2. 2 ^ n \in Nat
      BY <2>1, CliAssumption
    <2>3. PICK m : m = minimum(2 ^ n, Word - 1)
      OBVIOUS
    <2>4. m \in 0 .. MaxLength
      BY <1>2, <2>2, <2>3 DEF minimum, MaxLength
    <2>5. with_number(a, n) = [options EXCEPT !.m_cost = m, !.m_cost_specified = TRUE]
      BY <1>3, <2>3 DEF with_number
    <2> QED BY <1>1, <2>4, <2>5 DEF OptionTypes
  <1>4. CASE a = "-k"
    <2>1. PICK m : m = minimum(n, Word - 1)
      OBVIOUS
    <2>2. m \in 0 .. MaxLength
      BY <1>2, <2>1 DEF minimum, MaxLength
    <2>3. with_number(a, n) = [options EXCEPT !.m_cost = m, !.m_cost_specified = TRUE]
      BY <1>4, <2>1 DEF with_number
    <2> QED BY <1>1, <2>2, <2>3 DEF OptionTypes
  <1>5. CASE a = "-t"
    <2>1. ~(n > Word - 1)
      BY <1>5 DEF bad_input
    <2>2. with_number(a, n) = [options EXCEPT !.t_cost = n]
      BY <1>5 DEF with_number
    <2> QED BY <1>1, <1>2, <2>1, <2>2 DEF OptionTypes, MaxLength
  <1>6. CASE a = "-p"
    <2>1. ~(n > MaxLanes)
      BY <1>6 DEF bad_input
    <2>2. n \in 0 .. MaxLength
      BY <1>2, <2>1, LimitsAssumption DEF MaxLength
    <2>3. with_number(a, n) = [options EXCEPT !.threads = n]
      BY <1>6 DEF with_number
    <2> QED BY <1>1, <2>2, <2>3 DEF OptionTypes
  <1>7. CASE a = "-l"
    <2>1. uint32(n) \in 0 .. MaxLength
      BY <1>2 DEF uint32, MaxLength
    <2>2. with_number(a, n) = [options EXCEPT !.outlen = uint32(n)]
      BY <1>7 DEF with_number
    <2> QED BY <1>1, <2>1, <2>2 DEF OptionTypes
  <1> QED BY <1>3, <1>4, <1>5, <1>6, <1>7 DEF Numeric

LEMMA OptionStep ==
    ASSUME CliInv, Option
    PROVE  CliInv'
  <1>1. /\ stage = "options" /\ i <= Len(argv) /\ UNCHANGED <<program, argv, stdin>>
        /\ argv \in Seq(DOMAIN Words) /\ i \in Nat /\ argv # <<>>
        /\ OptionTypes(options)
    BY DEF Option, CliInv, cVars, apiVars
  <1>2. DOMAIN options =
          {"outlen", "m_cost", "t_cost", "threads", "type", "types_specified",
           "m_cost_specified", "encoded_only", "raw_only", "version"}
    BY <1>1 DEF OptionTypes, Defaults
  <1> DEFINE Typed == i' \in Nat /\ OptionTypes(options') /\ stage' \in {stage, "exit"}
  <1>3. Typed
    <2>1. CASE UNCHANGED <<i, options>> /\ stage' = "exit"
      BY <1>1, <2>1
    <2>2. ASSUME NEW a \in Numeric, NumericOption(a)
          PROVE  Typed
      <3> DEFINE n == Words[argv[i + 1]].strtoul
      <3>1. \/ stage' = "exit" /\ UNCHANGED <<i, options>>
            \/ /\ i # Len(argv) /\ ~bad_input(a, n)
               /\ i' = i + 2 /\ options' = with_number(a, n) /\ stage' = stage
        BY <2>2 DEF NumericOption, Exit
      <3>2. CASE /\ i # Len(argv) /\ ~bad_input(a, n)
                 /\ i' = i + 2 /\ options' = with_number(a, n) /\ stage' = stage
        <4>1. argv[i + 1] \in DOMAIN Words
          BY <1>1, <3>2
        <4>2. n \in Nat
          BY <4>1, CliAssumption
        <4> HIDE DEF n
        <4>3. OptionTypes(with_number(a, n))
          BY <1>1, <3>2, <4>2, WithNumber
        <4> QED BY <1>1, <3>2, <4>3
      <3> QED BY <1>1, <3>1, <3>2
    <2>3. ASSUME VersionOption
          PROVE  Typed
      <3>1. CASE stage' = "exit" /\ UNCHANGED <<i, options>>
        BY <1>1, <3>1
      <3>2. CASE /\ argv[i + 1] \in DOMAIN Versions /\ i' = i + 2 /\ stage' = stage
                 /\ options' = [options EXCEPT !.version = Versions[argv[i + 1]]]
        <4>1. PICK v : v = Versions[argv[i + 1]]
          OBVIOUS
        <4>2. v \in {VERSION_10, VERSION_NUMBER}
          BY <3>2, <4>1 DEF Versions
        <4>3. OptionTypes([options EXCEPT !.version = v])
          BY <1>1, <1>2, <4>2 DEF OptionTypes
        <4> QED BY <1>1, <3>2, <4>1, <4>3
      <3> QED BY <2>3, <3>1, <3>2 DEF VersionOption, Exit
    <2>4. ASSUME NEW a \in DOMAIN Types \cup {"-e", "-r"}, Flag(a)
          PROVE  Typed
      <3>1. i' = i + 1 /\ stage' = stage
        BY <2>4 DEF Flag
      <3>2. \/ options' = [options EXCEPT !.type = Types[a],
                                          !.types_specified = options.types_specified + 1]
            \/ options' = [options EXCEPT !.encoded_only = TRUE]
            \/ options' = [options EXCEPT !.raw_only = TRUE]
        BY <2>4 DEF Flag, Types
      <3>3. OptionTypes(options')
        <4>1. CASE options' = [options EXCEPT !.type = Types[a],
                                   !.types_specified = options.types_specified + 1]
          BY <1>1, <1>2, <4>1 DEF OptionTypes
        <4>2. CASE options' = [options EXCEPT !.encoded_only = TRUE]
          BY <1>1, <1>2, <4>2 DEF OptionTypes
        <4>3. CASE options' = [options EXCEPT !.raw_only = TRUE]
          BY <1>1, <1>2, <4>3 DEF OptionTypes
        <4> QED BY <3>2, <4>1, <4>2, <4>3
      <3> QED BY <1>1, <3>1, <3>3
    <2>5. \/ argv[i] \in Numeric /\ NumericOption(argv[i])
          \/ VersionOption
          \/ argv[i] \in DOMAIN Types \cup {"-e", "-r"} /\ Flag(argv[i])
          \/ UNCHANGED <<i, options>> /\ stage' = "exit"
      BY Zenon DEF Option, Exit
    <2> HIDE DEF Typed
    <2> QED BY <2>1, <2>2, <2>3, <2>4, <2>5, Zenon
  <1> QED BY <1>1, <1>3 DEF CliInv

(* The arguments of run are of the right types, and ask for a string. *)
LEMMA RunArguments ==
    ASSUME CliInv, stage = "run"
    PROVE  /\ argument_types(run_arguments(options))
           /\ wants_encoded(run_arguments(options))
  <1> DEFINE a == run_arguments(options)
             o == options
  <1>1. /\ argv \in Seq(DOMAIN Words) /\ argv # <<>> /\ stdin.len \in Nat
        /\ OptionTypes(o)
    BY DEF CliInv
  <1>2. strlen_salt \in Nat
    <2>1. argv[1] \in DOMAIN Words
      BY <1>1
    <2> QED BY <2>1, CliAssumption DEF strlen_salt
  <1>3. PICK len : len = argon2_encodedlen(o.t_cost, o.m_cost, o.threads,
                                           uint32(strlen_salt), o.outlen, o.type)
    OBVIOUS
  <1>4. len \in Nat \ {0}
    <2>1. PICK x1, x2, x3, x4, x5, x6, x7 :
            /\ x1 = numlen[o.t_cost] /\ x2 = numlen[o.m_cost] /\ x3 = numlen[o.threads]
            /\ x4 = b64len(uint32(strlen_salt)) /\ x5 = b64len(o.outlen)
            /\ x6 = numlen[VERSION_NUMBER] /\ x7 = TypeLength(o.type)
      OBVIOUS
    <2>2. o.t_cost \in Nat /\ o.m_cost \in Nat /\ o.threads \in Nat
      BY <1>1 DEF OptionTypes
    <2>3. x1 \in Nat /\ x2 \in Nat /\ x3 \in Nat
      BY <2>1, <2>2, NumlenDef DEF Digits
    <2>4. x4 \in Nat
      <3>1. uint32(strlen_salt) \in Nat
        BY <1>2, LimitsAssumption, WordAssumption DEF uint32, VERSION_NUMBER
      <3> QED BY <2>1, <3>1, Base64Lengths
    <2>5. x5 \in Nat
      BY <1>1, <2>1, Base64Lengths DEF OptionTypes
    <2>6. x6 \in Nat
      BY <2>1, NumlenDef DEF Digits, VERSION_NUMBER
    <2>7. x7 \in Nat
      BY <2>1 DEF TypeLength
    <2>8. len = 15 + x7 + x1 + x2 + x3 + x4 + x5 + x6 + 1
      BY <1>3, <2>1, Zenon DEF argon2_encodedlen
    <2> QED BY <2>3, <2>4, <2>5, <2>6, <2>7, <2>8
  <1>5. /\ a.pwdlen = stdin.len /\ a.saltlen = strlen_salt /\ a.hashlen = o.outlen
        /\ a.encodedlen = len /\ a.encoded = SET /\ a.t_cost = o.t_cost
        /\ a.m_cost = o.m_cost /\ a.parallelism = o.threads /\ a.version = o.version
    BY <1>3 DEF run_arguments
  <1> HIDE DEF a, o
  <1>6. argument_types(a)
    BY <1>1, <1>2, <1>4, <1>5 DEF argument_types, OptionTypes, MaxLength
  <1>7. wants_encoded(a)
    BY <1>4, <1>5 DEF wants_encoded, SET, NULL
  <1> QED BY <1>6, <1>7 DEF a

LEMMA CliStep ==
    ASSUME IInv, CliInv, CliNext
    PROVE  IInv' /\ CliInv'
  <1>1. CASE Option
    BY <1>1, OptionStep, CVarsKept DEF Option
  <1>2. CASE Main
    <2>1. UNCHANGED cVars
      BY <1>2 DEF Main
    <2>2. /\ stage = "main" /\ UNCHANGED <<argv, stdin, i, options>>
          /\ stage' = "exit" \/ (stage' = "options" /\ argv # <<>>)
      BY <1>2 DEF Main, Exit
    <2> QED BY <2>1, <2>2, CVarsKept DEF CliInv
  <1>3. CASE OptionsEnd \/ RunFails
    <2>1. UNCHANGED cVars /\ UNCHANGED <<argv, stdin, i, options>>
      BY <1>3 DEF OptionsEnd, RunFails
    <2>2. stage \in {"options", "run"} /\ stage' \in {"run", "exit"}
      BY <1>3 DEF OptionsEnd, RunFails, Exit
    <2> QED BY <2>1, <2>2, CVarsKept DEF CliInv
  <1>4. CASE RunHashed
    <2>1. UNCHANGED cVars /\ UNCHANGED <<program, at, args, ret, stdin>>
      BY <1>4 DEF RunHashed, cVars, apiVars
    <2>2. \/ stage' = "exit"
          \/ stage = "hash" /\ stage' = "hashed" /\ at[1] = "done" /\ ret[1] = "ARGON2_OK"
      BY <1>4 DEF RunHashed, Exit
    <2> QED BY <2>1, <2>2, CVarsKept DEF CliInv
  <1>5. CASE RunVerified \/ RunOverruns
    <2>1. UNCHANGED cVars /\ UNCHANGED <<program, stdin>> /\ stage' \in {"exit", "undefined"}
      BY <1>5 DEF RunVerified, RunOverruns, Exit, cVars, apiVars
    <2> QED BY <2>1, CVarsKept DEF CliInv
  <1>6. CASE RunHash
    <2>1. PICK a : a = run_arguments(options)
      OBVIOUS
    <2>2. /\ stage = "run" /\ stage' = "hash" /\ stdin' = stdin
          /\ HashRefuses(1, a) \/ HashCall(1, a)
      BY <1>6, <2>1 DEF RunHash
    <2>3. argument_types(a) /\ wants_encoded(a)
      BY <2>1, <2>2, RunArguments
    <2>4. /\ 1 \in Calls /\ program' = program /\ program[1] = "argon2_hash"
          /\ args' = [args EXCEPT ![1] = a]
      BY <2>2 DEF HashRefuses, HashCall, Calling, CliInv
    <2>5. args'[1] = a
      BY <2>4 DEF IInv, Domains
    <2>6. IInv'
      BY <2>2, <2>3, <2>4, HashRefusesStep, HashCallStep
    <2> QED BY <2>2, <2>3, <2>4, <2>5, <2>6 DEF CliInv
  <1>7. CASE RunVerify
    <2>1. PICK s, a : /\ s = Given(encoded[1].fields, Maker(args[1]))
                      /\ a = [pwd |-> stdin.pwd, pwdlen |-> stdin.len,
                              type |-> options.type]
      OBVIOUS
    <2>2. /\ stage = "hashed" /\ stage' = "verify" /\ stdin' = stdin
          /\ VerifyRefuses(2, s, a) \/ VerifyCall(2, s, a)
      BY <1>7, <2>1, Zenon DEF RunVerify
    <2>3. 2 \in Calls /\ program' = program
      BY <2>2 DEF VerifyRefuses, VerifyCall, Calling, CliInv
    <2>4. Origin(s, a)
      <3>1. /\ 1 \in Calls /\ at[1] = "done" /\ program[1] = "argon2_hash"
            /\ ret[1] = "ARGON2_OK" /\ wants_encoded(args[1]) /\ stdin.len \in Nat
        BY <2>2 DEF CliInv
      <3>2. Matches(1)
        BY <3>1 DEF IInv, CallInv, Outputs
      <3>3. encoded[1].is = "string"
        BY <3>1, <3>2 DEF Matches
      <3>4. Made(s)
        BY <2>1, <3>1, <3>3, StringsAreMade
      <3>5. a.pwdlen \in Nat
        BY <2>1, <3>1
      <3> QED BY <3>4, <3>5 DEF Origin
    <2>5. IInv'
      BY <2>2, <2>3, <2>4, VerifyRefusesStep, VerifyCallStep
    <2> QED BY <2>2, <2>3, <2>5 DEF CliInv
  <1>8. ASSUME NEW q \in Calls, Proceed(q), UNCHANGED cliVars,
               stage \in {"hash", "verify"}
        PROVE  IInv' /\ CliInv'
    <2>1. program' = program /\ args' = args
      BY <1>8
      DEF Proceed, CtxReturns, HashReturns, DecodeFails, SetAside, NoSecondBuffer,
          VerifyEnters, VerifyReturns, apiVars
    <2> QED BY <1>8, <2>1, ProceedStep DEF CliInv, cliVars
  <1> QED BY <1>1, <1>2, <1>3, <1>4, <1>5, <1>6, <1>7, <1>8 DEF CliNext

LEMMA ProgramInvariant == ProgramSpec => [](IInv /\ CliInv)
  <1>1. ProgramInit => IInv /\ CliInv
    <2> SUFFICES ASSUME ProgramInit PROVE IInv /\ CliInv
      OBVIOUS
    <2>1. CInit /\ DOMAIN program \subseteq Calls
      <3>1. CInit
        BY DEF ProgramInit, CliInit
      <3> QED BY <3>1, ProgramsAssumption DEF CInit
    <2>2. \/ stage = "off" /\ stdin = [pwd |-> NULL, len |-> 0]
          \/ /\ stage = "main" /\ argv \in CommandLines /\ stdin \in Inputs
             /\ i = 2 /\ options = Defaults
      BY DEF ProgramInit, CliOff, CliInit, CliStart
    <2>3. OptionTypes(Defaults)
      <3>1. /\ Defaults.outlen = OUTLEN_DEF /\ Defaults.t_cost = T_COST_DEF
            /\ Defaults.m_cost = 2 ^ LOG_M_COST_DEF /\ Defaults.threads = 1
            /\ Defaults.version = VERSION_NUMBER
        BY DEF Defaults
      <3>2. 1 \in 0 .. MaxLength
        BY LimitsAssumption, WordAssumption DEF MaxLength, VERSION_NUMBER
      <3> QED BY <3>1, <3>2, CliAssumption DEF OptionTypes, MaxLength
    <2>4. CliInv
      BY <2>1, <2>2, <2>3, CliAssumption DEF CliInv
    <2> QED BY <2>1, <2>4, CInitInv
  <1>2. IInv /\ CliInv /\ [ProgramNext]_<<cVars, cliVars>> => (IInv /\ CliInv)'
    <2> SUFFICES ASSUME IInv, CliInv, [ProgramNext]_<<cVars, cliVars>>
                 PROVE  IInv' /\ CliInv'
      OBVIOUS
    <2>1. CASE Off /\ CNext /\ UNCHANGED cliVars
      BY <2>1, CNextStep DEF CliInv, cliVars, Off
    <2>2. CASE CliNext
      BY <2>2, CliStep
    <2>3. CASE UNCHANGED <<cVars, cliVars>>
      BY <2>3, CVarsKept DEF CliInv, cliVars, cVars, apiVars
    <2> QED BY <2>1, <2>2, <2>3 DEF ProgramNext
  <1> QED BY <1>1, <1>2, PTL DEF ProgramSpec

LEMMA ProgramStepSafe ==
    ASSUME IInv, CliInv, CtxInv, ProgramNext
    PROVE  CtxInv'
  <1>1. CASE Off /\ CNext
    <2>1. PICK q \in Calls : CallCtx(q) \/ CallHash(q) \/ CallVerify(q) \/ Proceed(q)
      BY <1>1 DEF CNext
    <2>2. CASE CallCtx(q)
      <3>1. PICK c \in Contexts : \E b : CtxCall(q, c, b)
        BY <2>2, Zenon DEF CallCtx
      <3> PICK b : CtxCall(q, c, b)
        BY <3>1
      <3>2. Enter(q, c, b, "argon2_ctx") /\ at[q] = "idle"
        BY DEF CtxCall, Calling
      <3>3. pc[q] = "idle"
        BY <3>2 DEF IInv, CallInv, Control
      <3>4. CostTypes(c)
        BY ContextsAssumption DEF argon2_context, CostTypes
      <3> QED BY <3>2, <3>3, <3>4, EnterSafe
    <2>3. CASE CallHash(q)
      <3>1. PICK a \in HashArguments : \E given \in {a, hash_encoded(a), hash_raw(a)} :
               HashRefuses(q, given) \/ HashCall(q, given)
        BY <2>3 DEF CallHash
      <3>2. PICK given \in {a, hash_encoded(a), hash_raw(a)} :
               HashRefuses(q, given) \/ HashCall(q, given)
        BY <3>1
      <3>3. argument_types(given)
        BY <3>1, <3>2, GivenTypes
      <3> QED BY <3>2, <3>3, HashCallSafe
    <2>4. CASE CallVerify(q)
      <3>1. UNCHANGED <<pc, context, buf, instance, matrix>>
        BY <2>4 DEF CallVerify, VerifyRefuses, VerifyCall, ctxVars
      <3> QED BY <3>1, KeptSafe
    <2> QED BY <2>1, <2>2, <2>3, <2>4, ProceedSafe
  <1>2. CASE Main \/ Option \/ OptionsEnd \/ RunFails \/ RunHashed \/ RunVerified
             \/ RunOverruns
    <2>1. UNCHANGED <<pc, context, buf, instance, matrix>>
      BY <1>2 DEF Main, Option, OptionsEnd, RunFails, RunHashed, RunVerified,
                  RunOverruns, cVars, ctxVars
    <2> QED BY <2>1, KeptSafe
  <1>3. CASE RunHash
    <2>1. PICK a : a = run_arguments(options)
      OBVIOUS
    <2>2. stage = "run" /\ (HashRefuses(1, a) \/ HashCall(1, a))
      BY <1>3, <2>1 DEF RunHash
    <2>3. argument_types(a)
      BY <2>1, <2>2, RunArguments
    <2>4. 1 \in Calls
      BY <2>2 DEF HashRefuses, HashCall, Calling, CliInv
    <2> QED BY <2>2, <2>3, <2>4, HashCallSafe
  <1>4. CASE RunVerify
    <2>1. UNCHANGED <<pc, context, buf, instance, matrix>>
      BY <1>4 DEF RunVerify, VerifyRefuses, VerifyCall, ctxVars
    <2> QED BY <2>1, KeptSafe
  <1> QED BY <1>1, <1>2, <1>3, <1>4, ProceedSafe DEF ProgramNext, CliNext

LEMMA ProgramSafe == ProgramSpec => []CtxInv
  <1>1. ProgramInit => CtxInv
    BY DEF ProgramInit, CliInit, CInit, CtxInv, CtxSafe, NoMatrix, Filling
  <1>2. IInv /\ CliInv /\ CtxInv /\ [ProgramNext]_<<cVars, cliVars>> => CtxInv'
    <2>1. ASSUME CtxInv, UNCHANGED <<cVars, cliVars>> PROVE CtxInv'
      BY <2>1, KeptSafe DEF cVars, ctxVars
    <2> QED BY <2>1, ProgramStepSafe
  <1> QED BY <1>1, <1>2, ProgramInvariant, PTL DEF ProgramSpec

-----------------------------------------------------------------------------
(* validate_inputs and the alignment in argon2_ctx establish the geometry     *)
(* that the fill and index_alpha assume (IndexAlpha's GeometryAssumption),    *)
(* for every word size and every limit with 8 * MaxLanes < Word, whether a    *)
(* program calls argon2_ctx itself, or argon2_hash or argon2_verify do.       *)
THEOREM GeometryForFill == ProgramSpec => []GeometryEstablished
  <1>1. CtxInv => GeometryEstablished
    BY DEF CtxInv, CtxSafe, GeometryEstablished, Filling
  <1> QED BY <1>1, ProgramSafe, PTL

(* allocate_memory never hands out a matrix that is smaller than the number   *)
(* of blocks the fill will write, whatever the width of size_t.               *)
THEOREM AllocationSafe == ProgramSpec => []AllocationCoversMatrix
  <1>1. CtxInv => AllocationCoversMatrix
    BY DEF CtxInv, CtxSafe, AllocationCoversMatrix
  <1> QED BY <1>1, ProgramSafe, PTL

(* With the flags set, initial_hash leaves no password or secret behind in    *)
(* the caller's buffers for the time of the fill.                             *)
THEOREM SecretsWipedEarly == ProgramSpec => []SecretsGoneWhileFilling
  <1>1. CtxInv => SecretsGoneWhileFilling
    BY DEF CtxInv, CtxSafe, SecretsGoneWhileFilling
  <1> QED BY <1>1, ProgramSafe, PTL

-----------------------------------------------------------------------------
(* argon2_hash and argon2_verify free each buffer they allocate, once, and on *)
(* no path leave the tag of argon2_hash in freed memory, whichever malloc     *)
(* fails.                                                                     *)
THEOREM EveryBufferFreed == ProgramSpec => []BuffersFreed
  <1>1. IInv => BuffersFreed
    BY DEF IInv, CallInv, Memory, Outputs, Matches, BuffersFreed
  <1> QED BY <1>1, ProgramInvariant, PTL

(* The tag is the fifth field of a string, behind the salt and the costs. *)
LEMMA EncodedTag ==
    ASSUME NEW c, NEW t, NEW type
    PROVE  Encoded(c, t, type)[5].content = t
  <1>1. PICK f1, f2, f3, f4, f5 :
          /\ f1 = Lit(argon2_type2string(type)) /\ f2 = Nums(<< <<"v", c.version>> >>)
          /\ f3 = Nums(<< <<"m", c.m_cost>>, <<"t", c.t_cost>>, <<"p", c.lanes>> >>)
          /\ f4 = Bin(c.salt, c.saltlen) /\ f5 = Bin(t, c.outlen)
    OBVIOUS
  <1>2. Encoded(c, t, type) = << f1, f2, f3, f4, f5 >>
    BY <1>1, Zenon DEF Encoded
  <1>3. << f1, f2, f3, f4, f5 >>[5] = f5
    OBVIOUS
  <1>4. f5.content = t
    BY <1>1 DEF Bin
  <1> QED BY <1>2, <1>3, <1>4, Zenon

(* argon2_hash: what is in the caller's buffers is the digest of exactly the  *)
(* arguments, with no length truncated; if the call fails the string is not   *)
(* there, or wiped, and a tag is left behind only when it was the string that *)
(* did not fit.                                                               *)
THEOREM OutputsAreDigests == ProgramSpec => []OutputsMatchArguments
  <1>1. IInv /\ CliInv => OutputsMatchArguments
    <2> SUFFICES ASSUME IInv, CliInv, NEW q \in Calls_of("argon2_hash")
                 PROVE  /\ hash[q] \in {NoTag, DigestOf(args[q])}
                        /\ encoded[q].is = "string" =>
                             /\ ret[q] = "ARGON2_OK"
                             /\ encoded[q].fields[5].content = DigestOf(args[q])
                        /\ ret[q] = "ARGON2_OK" =>
                             /\ args[q].hash # NULL => hash[q] = DigestOf(args[q])
                             /\ wants_encoded(args[q]) => encoded[q].is = "string"
                        /\ ret[q] \notin {"ARGON2_OK", "ARGON2_ENCODING_FAIL"} =>
                             hash[q] = NoTag
      BY DEF OutputsMatchArguments
    <2>1. q \in Calls /\ at[q] = "done" /\ program[q] = "argon2_hash"
      BY DEF Calls_of, Done, CliInv
    <2>2. Matches(q)
      BY <2>1 DEF IInv, CallInv, Outputs
    <2>3. ASSUME encoded[q].is = "string"
          PROVE  encoded[q].fields[5].content = DigestOf(args[q])
      <3>1. encoded[q].fields =
               Encoded(hash_context(args[q]), DigestOf(args[q]), args[q].type)
        BY <2>2, <2>3 DEF Matches
      <3>2. Encoded(hash_context(args[q]), DigestOf(args[q]), args[q].type)[5].content
               = DigestOf(args[q])
        BY EncodedTag
      <3> QED BY <3>1, <3>2
    <2> QED BY <2>2, <2>3, Zenon DEF Matches
  <1> QED BY <1>1, ProgramInvariant, PTL

(* argon2_verify of argon2_hash: whatever the costs, the version and the      *)
(* lengths, a string verifies with the password and the type it was made      *)
(* from, unless resources run out or its length is no uint32_t, and with no   *)
(* other; a string that nobody made never does.                               *)
THEOREM VerdictsAreRight == ProgramSpec => []VerdictIsRight
  <1>1. IInv /\ CliInv => VerdictIsRight
    <2> SUFFICES ASSUME IInv, CliInv, NEW q \in Calls_of("argon2_verify")
                 PROVE  Right(subject[q], args[q], ret[q])
      BY DEF VerdictIsRight, OnlyMakersVerify, MakersVerify, Right
    <2>1. q \in Calls /\ at[q] = "done" /\ program[q] = "argon2_verify"
      BY DEF Calls_of, Done, CliInv
    <2> QED BY <2>1 DEF IInv, CallInv, Verdict
  <1> QED BY <1>1, ProgramInvariant, PTL

(* argon2_encodedlen says how long the string is, to the character: with that *)
(* size argon2_hash never fails to encode, and with less it always does.      *)
THEOREM EncodedLenIsExact == ProgramSpec => []EncodedLenExact
  <1>1. IInv /\ CliInv => EncodedLenExact
    <2> SUFFICES ASSUME IInv, CliInv, NEW q \in Calls_of("argon2_hash"),
                        wants_encoded(args[q]),
                        ret[q] \in {"ARGON2_OK", "ARGON2_ENCODING_FAIL"}
                 PROVE  ret[q] = "ARGON2_OK" <=> large_enough(args[q])
      BY DEF EncodedLenExact, large_enough
    <2>1. q \in Calls /\ at[q] = "done" /\ program[q] = "argon2_hash"
      BY DEF Calls_of, Done, CliInv
    <2>2. Matches(q)
      BY <2>1 DEF IInv, CallInv, Outputs
    <2> QED BY <2>2 DEF Matches
  <1> QED BY <1>1, ProgramInvariant, PTL

-----------------------------------------------------------------------------
(* What the tool prints.  Seen are the places of options that main has        *)
(* passed; what an option has set is what the last place of its name says.    *)
Seen(line, k) == {n \in Places(line) : n < k}
Numbers(line) == [n \in Nat |-> Words[line[n + 1]].strtoul]
Memories(line) ==
    [n \in Nat |-> IF line[n] = "-m" THEN 2 ^ Words[line[n + 1]].strtoul
                                    ELSE Words[line[n + 1]].strtoul]
TypesAt(line) == [n \in Nat |-> Types[line[n]]]
VersionsAt(line) == [n \in Nat |-> Versions[line[n + 1]]]

LastIs(line, S, names, default, f, x) ==
    \/ x = default /\ \A n \in S : line[n] \notin names
    \/ \E n \in S : /\ line[n] \in names /\ x = f[n]
                    /\ \A k \in S : line[k] \in names => k <= n

Read(line, o, S) ==
    /\ LastIs(line, S, {"-t"}, T_COST_DEF, Numbers(line), o.t_cost)
    /\ \E x : /\ LastIs(line, S, {"-m", "-k"}, 2 ^ LOG_M_COST_DEF, Memories(line), x)
              /\ o.m_cost = minimum(x, Word - 1)
    /\ LastIs(line, S, {"-p"}, 1, Numbers(line), o.threads)
    /\ \E x : /\ LastIs(line, S, {"-l"}, OUTLEN_DEF, Numbers(line), x)
              /\ o.outlen = uint32(x)
    /\ LastIs(line, S, DOMAIN Types, "i", TypesAt(line), o.type)
    /\ LastIs(line, S, {"-v"}, VERSION_NUMBER, VersionsAt(line), o.version)

(* What main has passed ends where it looks at the next word. *)
Reading(line, o, k) ==
    /\ k \in Places(line) /\ Read(line, o, Seen(line, k))
    /\ \A n \in Seen(line, k) : after(line, n) <= k /\ n <= Len(line)

(* What main makes of what is asked for. *)
Clamped == [Asked EXCEPT !.m_cost = minimum(@, Word - 1), !.outlen = uint32(@)]

AskInv ==
    /\ stage # "exit" => exit = "none"
    /\ stage = "main" => i = 2 /\ options = Defaults
    /\ stage \in {"options", "run"} => Reading(argv, options, i)
    /\ stage = "run" => i > Len(argv)
    /\ stage \in {"run", "hash"} => ~(options.encoded_only /\ options.raw_only)
    /\ stage = "hash" => /\ args[1] = run_arguments(Clamped)
                         /\ options.outlen = Clamped.outlen /\ OptionTypes(options)
    /\ stage = "undefined" => Clamped.outlen = Word - 1
    /\ stage \in {"hashed", "verify"} \/ exit = "ARGON2_OK" =>
          Prints(DigestOf(run_arguments(Clamped)))

LEMMA LastNext ==
    ASSUME NEW line, NEW S \in SUBSET Nat, NEW k \in Nat, \A n \in S : n < k,
           NEW names, NEW default, NEW f, NEW x, LastIs(line, S, names, default, f, x),
           NEW y, IF line[k] \in names THEN y = f[k] ELSE y = x
    PROVE  LastIs(line, S \cup {k}, names, default, f, y)
  <1>1. CASE line[k] \in names
    <2>1. \A n \in S \cup {k} : n <= k
      OBVIOUS
    <2> QED BY <1>1, <2>1 DEF LastIs
  <1>2. CASE line[k] \notin names
    BY <1>2 DEF LastIs
  <1> QED BY <1>1, <1>2

LEMMA MaxIs ==
    ASSUME NEW S \in SUBSET Nat, NEW n \in S, \A k \in S : k <= n
    PROVE  Max(S) = n
  <1>1. \A x \in S : (\A y \in S : x >= y) => x = n
    OBVIOUS
  <1>2. \A y \in S : n >= y
    OBVIOUS
  <1> QED BY <1>1, <1>2 DEF Max

Named(line, S, names) == {n \in S : line[n] \in names}
IsLast(places, default, f, x) ==
    /\ x = IF places = {} THEN default ELSE f[Max(places)]
    /\ places # {} => Max(places) \in Nat

LEMMA LastIsLast ==
    ASSUME NEW line, NEW S \in SUBSET Nat, NEW names, NEW default, NEW f, NEW x,
           LastIs(line, S, names, default, f, x)
    PROVE  IsLast(Named(line, S, names), default, f, x)
  <1> DEFINE places == Named(line, S, names)
  <1>1. CASE x = default /\ \A n \in S : line[n] \notin names
    BY <1>1 DEF Named, IsLast
  <1>2. CASE \E n \in S : /\ line[n] \in names /\ x = f[n]
                          /\ \A k \in S : line[k] \in names => k <= n
    <2>1. PICK n \in S : /\ line[n] \in names /\ x = f[n]
                         /\ \A k \in S : line[k] \in names => k <= n
      BY <1>2
    <2>2. Max(places) = n
      BY <2>1, MaxIs DEF Named
    <2> QED BY <2>1, <2>2 DEF Named, IsLast
  <1> QED BY <1>1, <1>2 DEF LastIs

(* The places of a line are closed, and all that main comes to. *)
LEMMA PlacesClosed ==
    ASSUME NEW line \in Seq(DOMAIN Words)
    PROVE  /\ Places(line) \in SUBSET (2 .. Len(line) + 2)
           /\ closed(line, Places(line))
           /\ \A S \in SUBSET (2 .. Len(line) + 2) : closed(line, S) => Places(line) \subseteq S
  <1>1. Len(line) \in Nat
    OBVIOUS
  <1>2. PICK P : P = 2 .. Len(line) + 2
    OBVIOUS
  <1>3. Places(line) = {n \in P : \A S \in SUBSET P : closed(line, S) => n \in S}
    BY <1>2 DEF Places
  <1>4. 2 \in P
    BY <1>1, <1>2
  <1>5. ASSUME NEW n \in Places(line), n <= Len(line)
        PROVE  after(line, n) \in Places(line)
    <2>1. n \in P /\ n \in Nat
      BY <1>1, <1>2, <1>3
    <2>2. after(line, n) \in P
      BY <1>1, <1>2, <1>5, <2>1 DEF after
    <2>3. ASSUME NEW S \in SUBSET P, closed(line, S)
          PROVE  after(line, n) \in S
      BY <1>3, <1>5, <2>3 DEF closed
    <2> QED BY <1>3, <2>2, <2>3
  <1>6. 2 \in Places(line)
    BY <1>3, <1>4 DEF closed
  <1>7. closed(line, Places(line))
    BY <1>5, <1>6 DEF closed
  <1> QED BY <1>2, <1>3, <1>7

LEMMA NextPlace ==
    ASSUME NEW line \in Seq(DOMAIN Words), NEW p \in Places(line), p <= Len(line),
           \A n \in Seen(line, p) : after(line, n) <= p
    PROVE  /\ after(line, p) \in Places(line)
           /\ Seen(line, after(line, p)) = Seen(line, p) \cup {p}
           /\ \A n \in Seen(line, after(line, p)) : after(line, n) <= after(line, p)
  <1>1. Len(line) \in Nat /\ Places(line) \subseteq 2 .. Len(line) + 2
    BY PlacesClosed
  <1>2. PICK k : k = after(line, p)
    OBVIOUS
  <1>3. k \in Places(line) /\ k \in {p + 1, p + 2} /\ p \in Nat /\ p >= 2
    BY <1>1, <1>2, PlacesClosed DEF closed, after
  <1>4. ASSUME NEW n \in Places(line), n > p, n < k
        PROVE  FALSE
    <2>1. n = p + 1 /\ k = p + 2
      BY <1>1, <1>3, <1>4
    <2>2. PICK S : S = Places(line) \ {p + 1}
      OBVIOUS
    <2>3. 2 \in S
      BY <1>3, <2>2, PlacesClosed DEF closed
    <2>4. ASSUME NEW m \in S, m <= Len(line)
          PROVE  after(line, m) \in S
      <3>1. m \in Places(line) /\ m # p + 1 /\ m \in Nat
        BY <1>1, <2>2
      <3>2. after(line, m) \in Places(line)
        BY <2>4, <3>1, PlacesClosed DEF closed
      <3>3. CASE m < p
        <4>1. after(line, m) <= p
          BY <3>1, <3>3 DEF Seen
        <4>2. after(line, m) # p + 1
          BY <1>1, <1>3, <3>2, <4>1
        <4> QED BY <2>2, <3>2, <4>2
      <3>4. CASE m = p
        <4>1. after(line, m) = p + 2
          BY <1>2, <2>1, <3>4
        <4>2. p + 2 # p + 1
          BY <1>3
        <4> QED BY <2>2, <3>2, <4>1, <4>2
      <3>5. CASE m > p
        <4>1. after(line, m) # p + 1
          BY <1>3, <3>1, <3>5 DEF after
        <4> QED BY <2>2, <3>2, <4>1
      <3> QED BY <1>3, <3>1, <3>3, <3>4, <3>5
    <2>5. closed(line, S)
      BY <2>3, <2>4 DEF closed
    <2>6. Places(line) \subseteq S
      BY <1>1, <2>2, <2>5, PlacesClosed
    <2> QED BY <1>4, <2>1, <2>2, <2>6
  <1>5. Seen(line, k) = Seen(line, p) \cup {p}
    BY <1>1, <1>3, <1>4 DEF Seen
  <1>6. ASSUME NEW n \in Seen(line, k)
        PROVE  after(line, n) <= k
    <2>1. CASE n \in Seen(line, p)
      <3>1. n \in Nat
        BY <1>1, <2>1 DEF Seen
      <3>2. after(line, n) \in Nat
        BY <3>1 DEF after
      <3>3. after(line, n) <= p
        BY <2>1
      <3> QED BY <1>3, <3>2, <3>3
    <2>2. CASE n = p
      BY <1>2, <1>3, <2>2
    <2> QED BY <1>5, <2>1, <2>2
  <1> QED BY <1>2, <1>3, <1>5, <1>6

(* Looking at an option, main sets what belongs to its name. *)
LEMMA OptionReads ==
    ASSUME CliInv, Reading(argv, options, i), Option, stage' # "exit"
    PROVE  Reading(argv, options', i')
  <1>1. /\ stage = "options" /\ i <= Len(argv) /\ argv \in Seq(DOMAIN Words)
        /\ OptionTypes(options)
    BY DEF Option, CliInv
  <1>2. DOMAIN options =
          {"outlen", "m_cost", "t_cost", "threads", "type", "types_specified",
           "m_cost_specified", "encoded_only", "raw_only", "version"}
    BY <1>1 DEF OptionTypes, Defaults
  <1>3. PICK k, S : k = after(argv, i) /\ S = Seen(argv, i)
    OBVIOUS
  <1>4. /\ k \in Places(argv) /\ Seen(argv, k) = S \cup {i}
        /\ \A n \in Seen(argv, k) : after(argv, n) <= k
    BY <1>1, <1>3, NextPlace DEF Reading
  <1>5. i \in Nat /\ S \in SUBSET Nat /\ \A n \in S : n < i
    <2>1. Places(argv) \in SUBSET (2 .. Len(argv) + 2)
      BY <1>1, PlacesClosed
    <2> QED BY <1>1, <1>3, <2>1 DEF Reading, Seen
  <1>6. Read(argv, options, S)
    BY <1>3 DEF Reading
  <1> DEFINE number == Words[argv[i + 1]].strtoul
  <1>7. /\ Numbers(argv)[i] = number
        /\ Memories(argv)[i] = IF argv[i] = "-m" THEN 2 ^ number ELSE number
        /\ TypesAt(argv)[i] = Types[argv[i]]
        /\ VersionsAt(argv)[i] = Versions[argv[i + 1]]
    BY <1>5 DEF Numbers, Memories, TypesAt, VersionsAt
  <1> HIDE DEF number
  <1>8. DOMAIN Types = {"-i", "-d", "-id"}
    BY DEF Types
  <1>9. ASSUME NEW names, NEW default, NEW f, NEW x, LastIs(argv, S, names, default, f, x),
               NEW y, IF argv[i] \in names THEN y = f[i] ELSE y = x
        PROVE  LastIs(argv, S \cup {i}, names, default, f, y)
    BY <1>5, <1>9, LastNext
  <1> DEFINE Sets(names, field, value) ==
               options'[field] = IF argv[i] \in names THEN value ELSE options[field]
             AllSet == /\ Sets({"-t"}, "t_cost", number)
                       /\ Sets({"-m", "-k"}, "m_cost", minimum(Memories(argv)[i], Word - 1))
                       /\ Sets({"-p"}, "threads", number)
                       /\ Sets({"-l"}, "outlen", uint32(number))
                       /\ Sets(DOMAIN Types, "type", Types[argv[i]])
                       /\ Sets({"-v"}, "version", Versions[argv[i + 1]])
  <1>10. i' = k /\ AllSet
    <2>1. CASE argv[i] \in Numeric /\ NumericOption(argv[i])
      <3>1. i' = i + 2 /\ options' = with_number(argv[i], number)
        BY <2>1 DEF NumericOption, Exit, number
      <3>2. i' = k
        BY <1>3, <2>1, <3>1 DEF after
      <3>3. CASE argv[i] = "-m"
        <4>1. PICK m : m = minimum(2 ^ number, Word - 1)
          OBVIOUS
        <4>2. m = minimum(Memories(argv)[i], Word - 1)
          BY <1>7, <3>3, <4>1
        <4>3. options' = [options EXCEPT !.m_cost = m, !.m_cost_specified = TRUE]
          BY <3>1, <3>3, <4>1 DEF with_number
        <4> QED BY <1>2, <1>8, <3>2, <3>3, <4>2, <4>3
      <3>4. CASE argv[i] = "-k"
        <4>1. PICK m : m = minimum(number, Word - 1)
          OBVIOUS
        <4>2. m = minimum(Memories(argv)[i], Word - 1)
          BY <1>7, <3>4, <4>1
        <4>3. options' = [options EXCEPT !.m_cost = m, !.m_cost_specified = TRUE]
          BY <3>1, <3>4, <4>1 DEF with_number
        <4> QED BY <1>2, <1>8, <3>2, <3>4, <4>2, <4>3
      <3>5. CASE argv[i] = "-t"
        <4>1. options' = [options EXCEPT !.t_cost = number]
          BY <3>1, <3>5 DEF with_number
        <4> QED BY <1>2, <1>8, <3>2, <3>5, <4>1
      <3>6. CASE argv[i] = "-p"
        <4>1. options' = [options EXCEPT !.threads = number]
          BY <3>1, <3>6 DEF with_number
        <4> QED BY <1>2, <1>8, <3>2, <3>6, <4>1
      <3>7. CASE argv[i] = "-l"
        <4>1. options' = [options EXCEPT !.outlen = uint32(number)]
          BY <3>1, <3>7 DEF with_number
        <4> QED BY <1>2, <1>8, <3>2, <3>7, <4>1
      <3> QED BY <2>1, <3>3, <3>4, <3>5, <3>6, <3>7 DEF Numeric
    <2>2. CASE argv[i] = "-v" /\ VersionOption
      <3>1. i' = i + 2 /\ options' = [options EXCEPT !.version = Versions[argv[i + 1]]]
        BY <2>2 DEF VersionOption, Exit
      <3>2. i' = k
        BY <1>3, <2>2, <3>1 DEF after
      <3> QED BY <1>2, <1>8, <2>2, <3>1, <3>2
    <2>3. CASE argv[i] \in DOMAIN Types \cup {"-e", "-r"} /\ Flag(argv[i])
      <3>1. i' = i + 1
        BY <2>3 DEF Flag
      <3>2. argv[i] \notin Numeric \cup {"-v"}
        BY <1>8, <2>3 DEF Numeric
      <3>3. i' = k
        BY <1>3, <3>1, <3>2 DEF after
      <3>4. CASE argv[i] \in DOMAIN Types
        <4>1. PICK type, n : type = Types[argv[i]] /\ n = options.types_specified + 1
          OBVIOUS
        <4>2. options' = [options EXCEPT !.type = type, !.types_specified = n]
          BY <1>8, <2>3, <3>4, <4>1 DEF Flag
        <4> QED BY <1>2, <1>8, <3>3, <3>4, <4>1, <4>2
      <3>5. CASE argv[i] = "-e"
        <4>1. options' = [options EXCEPT !.encoded_only = TRUE]
          BY <1>8, <2>3, <3>5 DEF Flag
        <4> QED BY <1>2, <1>8, <3>3, <3>5, <4>1
      <3>6. CASE argv[i] = "-r"
        <4>1. options' = [options EXCEPT !.raw_only = TRUE]
          BY <1>8, <2>3, <3>6 DEF Flag
        <4> QED BY <1>2, <1>8, <3>3, <3>6, <4>1
      <3> QED BY <2>3, <3>4, <3>5, <3>6
    <2> HIDE DEF AllSet
    <2> QED BY <2>1, <2>2, <2>3, Zenon DEF Option, Exit
  <1>11. Read(argv, options', S \cup {i})
    <2>1. PICK x : /\ LastIs(argv, S, {"-m", "-k"}, 2 ^ LOG_M_COST_DEF, Memories(argv), x)
                   /\ options.m_cost = minimum(x, Word - 1)
      BY <1>6 DEF Read
    <2>2. PICK y : /\ LastIs(argv, S, {"-l"}, OUTLEN_DEF, Numbers(argv), y)
                   /\ options.outlen = uint32(y)
      BY <1>6 DEF Read
    <2>3. LastIs(argv, S \cup {i}, {"-t"}, T_COST_DEF, Numbers(argv), options'.t_cost)
      BY <1>6, <1>7, <1>9, <1>10 DEF Read
    <2>4. \E z : /\ LastIs(argv, S \cup {i}, {"-m", "-k"}, 2 ^ LOG_M_COST_DEF,
                           Memories(argv), z)
                 /\ options'.m_cost = minimum(z, Word - 1)
      <3>1. PICK z : z = IF argv[i] \in {"-m", "-k"} THEN Memories(argv)[i] ELSE x
        OBVIOUS
      <3>2. LastIs(argv, S \cup {i}, {"-m", "-k"}, 2 ^ LOG_M_COST_DEF, Memories(argv), z)
        BY <1>9, <2>1, <3>1
      <3> QED BY <1>10, <2>1, <3>1, <3>2
    <2>5. LastIs(argv, S \cup {i}, {"-p"}, 1, Numbers(argv), options'.threads)
      BY <1>6, <1>7, <1>9, <1>10 DEF Read
    <2>6. \E z : /\ LastIs(argv, S \cup {i}, {"-l"}, OUTLEN_DEF, Numbers(argv), z)
                 /\ options'.outlen = uint32(z)
      <3>1. PICK z : z = IF argv[i] \in {"-l"} THEN number ELSE y
        OBVIOUS
      <3>2. LastIs(argv, S \cup {i}, {"-l"}, OUTLEN_DEF, Numbers(argv), z)
        BY <1>7, <1>9, <2>2, <3>1
      <3> QED BY <1>10, <2>2, <3>1, <3>2
    <2>7. LastIs(argv, S \cup {i}, DOMAIN Types, "i", TypesAt(argv), options'.type)
      BY <1>6, <1>7, <1>9, <1>10 DEF Read
    <2>8. LastIs(argv, S \cup {i}, {"-v"}, VERSION_NUMBER, VersionsAt(argv),
                 options'.version)
      BY <1>6, <1>7, <1>9, <1>10 DEF Read
    <2> QED BY <2>3, <2>4, <2>5, <2>6, <2>7, <2>8 DEF Read
  <1> QED BY <1>1, <1>3, <1>4, <1>10, <1>11 DEF Reading

(* At the end of the line, what has been set is what is asked for. *)
LEMMA LastOption ==
    ASSUME argv \in Seq(DOMAIN Words), Reading(argv, options, i), i > Len(argv)
    PROVE  run_arguments(options) = run_arguments(Clamped) /\ options.outlen = Clamped.outlen
  <1>1. PICK S : S = Options(argv)
    OBVIOUS
  <1>2. S \in SUBSET Nat /\ Read(argv, options, S)
    <2>1. Places(argv) \in SUBSET (2 .. Len(argv) + 2) /\ Len(argv) \in Nat
      BY PlacesClosed
    <2>2. Seen(argv, i) = S
      BY <1>1, <2>1 DEF Seen, Options, Reading
    <2> QED BY <1>1, <2>1, <2>2 DEF Reading, Options
  <1>3. \A k \in Nat : /\ Numbers(argv)[k] = Words[argv[k + 1]].strtoul
                       /\ Memories(argv)[k] = IF argv[k] = "-m"
                                              THEN 2 ^ Words[argv[k + 1]].strtoul
                                              ELSE Words[argv[k + 1]].strtoul
                       /\ TypesAt(argv)[k] = Types[argv[k]]
                       /\ VersionsAt(argv)[k] = Versions[argv[k + 1]]
    BY DEF Numbers, Memories, TypesAt, VersionsAt
  <1>4. PICK x : /\ LastIs(argv, S, {"-m", "-k"}, 2 ^ LOG_M_COST_DEF, Memories(argv), x)
                 /\ options.m_cost = minimum(x, Word - 1)
    BY <1>2 DEF Read
  <1>5. PICK y : /\ LastIs(argv, S, {"-l"}, OUTLEN_DEF, Numbers(argv), y)
                 /\ options.outlen = uint32(y)
    BY <1>2 DEF Read
  <1> DEFINE number(n) == Words[argv[n + 1]].strtoul
             memory(n) == IF argv[n] = "-m" THEN 2 ^ number(n) ELSE number(n)
             t == LastOf(argv, {"-t"}, T_COST_DEF, number)
             m == LastOf(argv, {"-m", "-k"}, 2 ^ LOG_M_COST_DEF, memory)
             p == LastOf(argv, {"-p"}, 1, number)
             l == LastOf(argv, {"-l"}, OUTLEN_DEF, number)
             type == LastOf(argv, DOMAIN Types, "i", LAMBDA n : Types[argv[n]])
             version == LastOf(argv, {"-v"}, VERSION_NUMBER,
                               LAMBDA n : Versions[argv[n + 1]])
  <1>6. options.t_cost = t
    <2>1. PICK places : places = Named(argv, S, {"-t"})
      OBVIOUS
    <2>2. LastIs(argv, S, {"-t"}, T_COST_DEF, Numbers(argv), options.t_cost)
      BY <1>2 DEF Read
    <2>3. IsLast(places, T_COST_DEF, Numbers(argv), options.t_cost)
      BY <1>2, <2>1, <2>2, LastIsLast, Zenon
    <2>4. t = IF places = {} THEN T_COST_DEF ELSE number(Max(places))
      BY <1>1, <2>1, Zenon DEF LastOf, Named
    <2> QED BY <1>3, <2>3, <2>4 DEF IsLast
  <1>7. x = m
    <2>1. PICK places : places = Named(argv, S, {"-m", "-k"})
      OBVIOUS
    <2>2. LastIs(argv, S, {"-m", "-k"}, 2 ^ LOG_M_COST_DEF, Memories(argv), x)
      BY <1>4
    <2>3. IsLast(places, 2 ^ LOG_M_COST_DEF, Memories(argv), x)
      BY <1>2, <2>1, <2>2, LastIsLast, Zenon
    <2>4. m = IF places = {} THEN 2 ^ LOG_M_COST_DEF ELSE memory(Max(places))
      BY <1>1, <2>1, Zenon DEF LastOf, Named
    <2> QED BY <1>3, <2>3, <2>4 DEF IsLast
  <1>8. options.threads = p
    <2>1. PICK places : places = Named(argv, S, {"-p"})
      OBVIOUS
    <2>2. LastIs(argv, S, {"-p"}, 1, Numbers(argv), options.threads)
      BY <1>2 DEF Read
    <2>3. IsLast(places, 1, Numbers(argv), options.threads)
      BY <1>2, <2>1, <2>2, LastIsLast, Zenon
    <2>4. p = IF places = {} THEN 1 ELSE number(Max(places))
      BY <1>1, <2>1, Zenon DEF LastOf, Named
    <2> QED BY <1>3, <2>3, <2>4 DEF IsLast
  <1>9. y = l
    <2>1. PICK places : places = Named(argv, S, {"-l"})
      OBVIOUS
    <2>2. LastIs(argv, S, {"-l"}, OUTLEN_DEF, Numbers(argv), y)
      BY <1>5
    <2>3. IsLast(places, OUTLEN_DEF, Numbers(argv), y)
      BY <1>2, <2>1, <2>2, LastIsLast, Zenon
    <2>4. l = IF places = {} THEN OUTLEN_DEF ELSE number(Max(places))
      BY <1>1, <2>1, Zenon DEF LastOf, Named
    <2> QED BY <1>3, <2>3, <2>4 DEF IsLast
  <1>10. options.type = type
    <2>1. PICK places : places = Named(argv, S, DOMAIN Types)
      OBVIOUS
    <2>2. LastIs(argv, S, DOMAIN Types, "i", TypesAt(argv), options.type)
      BY <1>2 DEF Read
    <2>3. IsLast(places, "i", TypesAt(argv), options.type)
      BY <1>2, <2>1, <2>2, LastIsLast, Zenon
    <2>4. type = IF places = {} THEN "i" ELSE Types[argv[Max(places)]]
      BY <1>1, <2>1, Zenon DEF LastOf, Named
    <2> QED BY <1>3, <2>3, <2>4 DEF IsLast
  <1>11. options.version = version
    <2>1. PICK places : places = Named(argv, S, {"-v"})
      OBVIOUS
    <2>2. LastIs(argv, S, {"-v"}, VERSION_NUMBER, VersionsAt(argv), options.version)
      BY <1>2 DEF Read
    <2>3. IsLast(places, VERSION_NUMBER, VersionsAt(argv), options.version)
      BY <1>2, <2>1, <2>2, LastIsLast, Zenon
    <2>4. version = IF places = {} THEN VERSION_NUMBER ELSE Versions[argv[Max(places) + 1]]
      BY <1>1, <2>1, Zenon DEF LastOf, Named
    <2> QED BY <1>3, <2>3, <2>4 DEF IsLast
  <1>12. /\ Clamped.t_cost = t /\ Clamped.m_cost = minimum(m, Word - 1) /\ Clamped.threads = p
         /\ Clamped.outlen = uint32(l) /\ Clamped.type = type /\ Clamped.version = version
    <2>1. /\ Asked.t_cost = t /\ Asked.m_cost = m /\ Asked.threads = p
          /\ Asked.outlen = l /\ Asked.type = type /\ Asked.version = version
          /\ DOMAIN Asked = DOMAIN Defaults
      BY DEF Asked, Defaults
    <2>2. DOMAIN Asked = {"outlen", "m_cost", "t_cost", "threads", "type", "types_specified",
                          "m_cost_specified", "encoded_only", "raw_only", "version"}
      BY <2>1 DEF Defaults
    <2> HIDE DEF t, m, p, l, type, version
    <2> QED BY <2>1, <2>2 DEF Clamped
  <1> HIDE DEF t, m, p, l, type, version
  <1>13. /\ Clamped.t_cost = options.t_cost /\ Clamped.m_cost = options.m_cost
         /\ Clamped.threads = options.threads /\ Clamped.outlen = options.outlen
         /\ Clamped.type = options.type /\ Clamped.version = options.version
    BY <1>4, <1>5, <1>6, <1>7, <1>8, <1>9, <1>10, <1>11, <1>12
  <1> QED BY <1>13, Zenon DEF run_arguments

LEMMA AskedKept ==
    ASSUME UNCHANGED <<argv, stdin>>
    PROVE  run_arguments(Clamped)' = run_arguments(Clamped) /\ Clamped' = Clamped
  <1>1. Asked' = Asked
    BY SMT DEF Asked, LastOf
  <1>2. Clamped' = Clamped
    BY <1>1, Zenon DEF Clamped
  <1> QED BY <1>2, Zenon DEF run_arguments, strlen_salt

(* What can be represented is not changed. *)
LEMMA NotClamped == Representable => Clamped = Asked /\ Clamped.outlen # Word - 1
  <1> SUFFICES ASSUME Representable PROVE Clamped = Asked /\ Clamped.outlen # Word - 1
    OBVIOUS
  <1>1. PICK o : o = Asked
    OBVIOUS
  <1>2. /\ o.outlen \in 0 .. Word - 2 /\ o.m_cost \in 0 .. Word - 1
        /\ Word \in Nat /\ Word > 1
    BY <1>1, LimitsAssumption, WordAssumption DEF Representable, VERSION_NUMBER
  <1>3. minimum(o.m_cost, Word - 1) = o.m_cost
    BY <1>2 DEF minimum
  <1>4. uint32(o.outlen) = o.outlen
    BY <1>2, ModSmall DEF uint32
  <1>5. Clamped = [o EXCEPT !.m_cost = o.m_cost, !.outlen = o.outlen]
    BY <1>1, <1>3, <1>4 DEF Clamped
  <1>6. o = [x \in DOMAIN o |-> o[x]]
    BY <1>1, ZenonT(60) DEF Asked, Defaults
  <1>7. Clamped = o
    BY <1>5, <1>6
  <1> QED BY <1>1, <1>2, <1>7

LEMMA NothingRead ==
    ASSUME NEW line \in Seq(DOMAIN Words)
    PROVE  Reading(line, Defaults, 2)
  <1>1. /\ Defaults.outlen = OUTLEN_DEF /\ Defaults.t_cost = T_COST_DEF
        /\ Defaults.m_cost = 2 ^ LOG_M_COST_DEF /\ Defaults.threads = 1
        /\ Defaults.version = VERSION_NUMBER /\ Defaults.type = "i"
    BY DEF Defaults
  <1>2. Places(line) \in SUBSET (2 .. Len(line) + 2) /\ 2 \in Places(line)
    BY PlacesClosed DEF closed
  <1>3. Seen(line, 2) = {}
    BY <1>2 DEF Seen
  <1>4. uint32(OUTLEN_DEF) = OUTLEN_DEF
    BY CliAssumption, LimitsAssumption, ModSmall DEF uint32
  <1>5. PICK m : m = 2 ^ LOG_M_COST_DEF
    OBVIOUS
  <1>6. minimum(m, Word - 1) = m
    BY <1>5, CliAssumption, LimitsAssumption DEF minimum
  <1>7. ASSUME NEW names, NEW default, NEW f
        PROVE  LastIs(line, {}, names, default, f, default)
    BY DEF LastIs
  <1>8. Read(line, Defaults, {})
    BY <1>1, <1>4, <1>5, <1>6, <1>7 DEF Read
  <1> QED BY <1>2, <1>3, <1>8 DEF Reading

(* What is printed when argon2_hash has returned. *)
LEMMA HashIsPrinted ==
    ASSUME IInv, CliInv, AskInv, RunHashed, ret[1] = "ARGON2_OK"
    PROVE  Prints(DigestOf(run_arguments(Clamped)))'
  <1>1. PICK a : a = run_arguments(Clamped)
    OBVIOUS
  <1>2. PICK tag : tag = DigestOf(a)
    OBVIOUS
  <1>3. /\ stage = "hash" /\ at[1] = "done" /\ UNCHANGED <<argv, stdin>>
        /\ printed' = (IF options.raw_only THEN {} ELSE {encoded[1]})
                        \cup (IF options.encoded_only THEN {} ELSE {hash[1]})
    BY DEF RunHashed
  <1>4. 1 \in Calls /\ program[1] = "argon2_hash" /\ wants_encoded(args[1]) /\ args[1] = a
    BY <1>1, <1>3 DEF CliInv, AskInv
  <1>5. Matches(1)
    BY <1>3, <1>4 DEF IInv, CallInv, Outputs
  <1>6. a.hash # NULL
    BY <1>1 DEF run_arguments, SET, NULL
  <1>7. /\ hash[1] = tag /\ encoded[1].is = "string"
        /\ encoded[1].fields = Encoded(hash_context(a), tag, a.type)
    BY <1>2, <1>4, <1>5, <1>6 DEF Matches
  <1>8. encoded[1].fields[5].content = tag
    BY <1>7, EncodedTag
  <1>9. tag.is = "digest"
    <2>1. PICK d : d = Digest(hash_context(a), buffers_of(a))
      OBVIOUS
    <2>2. tag = [d EXCEPT !.pwdlen = a.pwdlen, !.saltlen = a.saltlen, !.outlen = a.hashlen]
      BY <1>2, <2>1 DEF DigestOf
    <2>3. d.is = "digest" /\ "is" \in DOMAIN d
      BY <2>1 DEF Digest
    <2> QED BY <2>2, <2>3
  <1>10. ~(options.encoded_only /\ options.raw_only)
    BY <1>3 DEF AskInv
  <1>11. DigestOf(run_arguments(Clamped))' = tag
    BY <1>1, <1>2, <1>3, AskedKept
  <1>12. /\ printed' # {} /\ printed' \subseteq {encoded[1], hash[1]}
    BY <1>3, <1>10
  <1>13. ASSUME NEW p \in printed'
         PROVE  /\ p.is = "string" => p.fields[5].content = tag
                /\ p.is # "string" => p = tag
    BY <1>7, <1>8, <1>9, <1>12
  <1> QED BY <1>11, <1>12, <1>13 DEF Prints

LEMMA AskStep ==
    ASSUME IInv, CliInv, AskInv, CliNext
    PROVE  AskInv'
  <1>1. PICK tag : tag = DigestOf(run_arguments(Clamped))
    OBVIOUS
  <1>2. ASSUME UNCHANGED <<argv, stdin>>
        PROVE  DigestOf(run_arguments(Clamped))' = tag
    BY <1>1, <1>2, AskedKept
  <1>3. ASSUME UNCHANGED <<argv, stdin, printed>>, Prints(tag)
        PROVE  Prints(DigestOf(run_arguments(Clamped)))'
    BY <1>2, <1>3 DEF Prints
  <1>4. CASE Main
    <2>1. /\ stage = "main" /\ UNCHANGED <<argv, stdin, i, options, printed>>
          /\ \/ stage' = "exit" /\ exit' \in {"usage", "fatal"}
             \/ stage' = "options" /\ exit' = exit
      BY <1>4 DEF Main, Exit
    <2>2. Reading(argv, options, i) /\ exit = "none"
      BY <2>1, NothingRead DEF CliInv, AskInv
    <2> QED BY <2>1, <2>2 DEF AskInv
  <1>5. CASE Option
    <2>1. /\ stage = "options" /\ UNCHANGED <<argv, stdin, printed>>
          /\ \/ stage' = "exit" /\ exit' \in {"usage", "fatal"}
             \/ stage' = stage /\ exit' = exit
      BY <1>5 DEF Option, NumericOption, VersionOption, Flag, Exit
    <2>2. CASE stage' = "exit" /\ exit' \in {"usage", "fatal"}
      BY <2>1, <2>2 DEF AskInv
    <2>3. CASE stage' = stage /\ exit' = exit
      <3>1. Reading(argv, options', i')
        BY <1>5, <2>1, <2>3, OptionReads DEF AskInv
      <3> QED BY <2>1, <2>3, <3>1 DEF AskInv
    <2> QED BY <2>1, <2>2, <2>3
  <1>6. CASE OptionsEnd \/ RunFails
    <2>1. /\ UNCHANGED <<argv, stdin, i, options, printed>>
          /\ \/ stage' = "exit" /\ exit' = "fatal"
             \/ /\ stage = "options" /\ i > Len(argv) /\ stage' = "run" /\ exit' = exit
                /\ ~(options.encoded_only /\ options.raw_only)
      BY <1>6 DEF OptionsEnd, RunFails, Exit
    <2> QED BY <2>1 DEF AskInv
  <1>7. CASE RunHash
    <2>1. PICK a : a = run_arguments(options)
      OBVIOUS
    <2>2. /\ stage = "run" /\ stage' = "hash"
          /\ UNCHANGED <<argv, stdin, i, options, exit, printed>>
          /\ HashRefuses(1, a) \/ HashCall(1, a)
      BY <1>7, <2>1 DEF RunHash
    <2>3. args' = [args EXCEPT ![1] = a] /\ 1 \in DOMAIN args
      BY <2>2 DEF HashRefuses, HashCall, Calling, CliInv, IInv, Domains
    <2>4. /\ a = run_arguments(Clamped) /\ options.outlen = Clamped.outlen
          /\ OptionTypes(options)
      BY <2>1, <2>2, LastOption DEF CliInv, AskInv
    <2>5. args'[1] = run_arguments(Clamped)'
      BY <2>2, <2>3, <2>4, AskedKept
    <2>6. (options.outlen = Clamped.outlen /\ OptionTypes(options))'
      BY <2>2, <2>4, AskedKept DEF OptionTypes
    <2> QED BY <2>2, <2>5, <2>6 DEF AskInv
  <1>8. CASE RunHashed
    <2>1. /\ stage = "hash" /\ exit = "none"
          /\ \/ stage' = "exit" /\ exit' # "ARGON2_OK"
             \/ /\ ret[1] = "ARGON2_OK"
                /\ stage' = "exit" \/ (stage' = "hashed" /\ exit' = exit)
      BY <1>8 DEF RunHashed, Exit, AskInv
    <2> QED BY <1>8, <2>1, HashIsPrinted DEF AskInv
  <1>9. CASE RunVerify
    <2>1. /\ stage = "hashed" /\ stage' = "verify"
          /\ UNCHANGED <<argv, stdin, exit, printed>>
      BY <1>9 DEF RunVerify
    <2> QED BY <1>1, <1>3, <2>1 DEF AskInv
  <1>10. CASE RunVerified
    <2>1. stage = "verify" /\ stage' = "exit" /\ UNCHANGED <<argv, stdin, printed>>
      BY <1>10 DEF RunVerified, Exit
    <2> QED BY <1>1, <1>3, <2>1 DEF AskInv
  <1>11. ASSUME NEW q \in Calls, Proceed(q), UNCHANGED cliVars, stage \in {"hash", "verify"}
         PROVE  AskInv'
    <2>1. args' = args /\ UNCHANGED <<argv, stdin, stage, i, options, exit, printed>>
      BY <1>11
      DEF Proceed, CtxReturns, HashReturns, DecodeFails, SetAside, NoSecondBuffer,
          VerifyEnters, VerifyReturns, apiVars, cliVars
    <2>2. run_arguments(Clamped)' = run_arguments(Clamped) /\ Clamped' = Clamped
      BY <2>1, AskedKept
    <2> QED BY <1>1, <1>3, <1>11, <2>1, <2>2 DEF AskInv, OptionTypes
  <1>12. CASE RunOverruns
    <2>1. /\ stage = "hash" /\ stage' = "undefined" /\ out_size(options) < options.outlen
          /\ UNCHANGED <<argv, stdin, i, options, exit, printed>>
      BY <1>12 DEF RunOverruns, Overrun
    <2>2. options.outlen = Clamped.outlen /\ options.outlen \in 0 .. Word - 1 /\ exit = "none"
      BY <2>1 DEF AskInv, OptionTypes, MaxLength
    <2>3. options.outlen = Word - 1
      <3>1. ASSUME options.outlen \in 0 .. Word - 2
            PROVE  FALSE
        <4>1. options.outlen + 1 \in 0 .. Word - 1 /\ Word \in Nat
          BY <3>1, LimitsAssumption
        <4>2. out_size(options) = options.outlen + 1
          BY <4>1, ModSmall DEF out_size, uint32
        <4> QED BY <2>1, <2>2, <4>2
      <3> QED BY <2>2, <3>1, LimitsAssumption
    <2>4. Clamped' = Clamped
      BY <2>1, AskedKept
    <2> QED BY <2>1, <2>2, <2>3, <2>4 DEF AskInv
  <1> QED BY <1>4, <1>5, <1>6, <1>7, <1>8, <1>9, <1>10, <1>11, <1>12 DEF CliNext

(* run.c: whatever the options, in whatever order and however often, as long  *)
(* as the length and the memory asked for can be represented: the tool stays  *)
(* within its output buffer, and what it prints when it succeeds is the hash  *)
(* of its standard input with what the last option of each name says, as      *)
(* usage explains it.                                                         *)
THEOREM ToolPrintsWhatIsAsked == ProgramSpec => []PrintsWhatIsAsked
  <1>1. ProgramInit => AskInv
    BY DEF ProgramInit, CliOff, CliInit, CliStart, AskInv
  <1>2. IInv /\ CliInv /\ AskInv /\ [ProgramNext]_<<cVars, cliVars>> => AskInv'
    <2> SUFFICES ASSUME IInv, CliInv, AskInv, [ProgramNext]_<<cVars, cliVars>>
                 PROVE  AskInv'
      OBVIOUS
    <2>1. CASE Off /\ UNCHANGED cliVars
      BY <2>1 DEF AskInv, cliVars, Off
    <2>2. CASE CliNext
      BY <2>2, AskStep
    <2>3. CASE UNCHANGED <<cVars, cliVars>>
      <3>1. args' = args /\ UNCHANGED <<argv, stdin, stage, i, options, exit, printed>>
        BY <2>3 DEF cVars, apiVars, cliVars
      <3>2. run_arguments(Clamped)' = run_arguments(Clamped) /\ Clamped' = Clamped
        BY <3>1, AskedKept
      <3> QED BY <3>1, <3>2 DEF AskInv, Prints, OptionTypes
    <2> QED BY <2>1, <2>2, <2>3 DEF ProgramNext
  <1>3. AskInv => PrintsWhatIsAsked
    BY NotClamped DEF AskInv, PrintsWhatIsAsked, PrintsAsked
  <1> QED BY <1>1, <1>2, <1>3, ProgramInvariant, PTL DEF ProgramSpec
=============================================================================
