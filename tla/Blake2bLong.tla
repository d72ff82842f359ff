---------------------------- MODULE Blake2bLong -----------------------------
(* The users of blake2b_state: programs that call the streaming functions in  *)
(* any order (initial_hash is one), and blake2b_long, which chains digests to *)
(* an output of any length.                                                   *)
EXTENDS Blake2b

CONSTANTS
    LENBYTES,       \* sizeof(uint32_t), the length of outlen_bytes
    MaxOutlen,      \* UINT32_MAX; outlen is a size_t
    Outlens,        \* the output lengths asked for
    Inlens,         \* the lengths of inputs
    MaxGiven        \* bound: the bytes a streaming program passes in all

ASSUME LongAssumption ==
    /\ LENBYTES \in Nat \ {0} /\ MaxOutlen \in Nat
    /\ Outlens \subseteq Nat /\ Inlens \subseteq Nat /\ MaxGiven \in Nat

VARIABLES
    user,           \* "stream" or where blake2b_long is
    outlen, inlen,  \* its arguments
    toproduce,      \* its local of that name
    v,              \* the digests it has computed; v[n] is also out_buffer
    out             \* the bytes it has written to out

longVars == <<user, outlen, inlen, toproduce, v, out>>
vars == <<stateVars, longVars>>

Half == OUTBYTES \div 2

Init ==
    /\ Uninitialised
    /\ \/ user = "stream" /\ outlen = 0 /\ inlen = 0
       \/ user = "init" /\ outlen \in Outlens /\ inlen \in Inlens
    /\ toproduce = 0
    /\ v = <<>> /\ out = <<>>

-----------------------------------------------------------------------------
(* A program that streams.  Bytes are numbered in the order they are given.   *)
Streaming ==
    /\ user = "stream"
    /\ \/ \E n \in Outlens :
             \/ blake2b_init(n) \/ blake2b_final(n)
             \/ \E k \in 0 .. KEYBYTES + 1 : blake2b_init_key(n, k)
       \/ \E n \in Inlens :
             /\ Len(given) + n <= MaxGiven
             /\ blake2b_update([j \in 1 .. n |-> <<"in", Len(given) + j>>])
    /\ UNCHANGED longVars

-----------------------------------------------------------------------------
(* blake2b_long, call by call: the labels are those of the next call.         *)

Then(label) == user' = label /\ UNCHANGED <<outlen, inlen, toproduce, v, out>>

DigestLength(n) == IF n <= OUTBYTES THEN n ELSE OUTBYTES

(* Byte j of the digest v[n]. *)
VBytes(n, size) == [j \in 1 .. size |-> <<"v", n, j>>]

(* The length must fit in outlen_bytes. *)
LongRefuse ==
    /\ user = "init" /\ outlen > MaxOutlen
    /\ Then("fail")
    /\ UNCHANGED stateVars

(* TRY: a call that fails ends blake2b_long, with its result. *)
LongInit ==
    /\ user = "init" /\ outlen <= MaxOutlen
    /\ blake2b_init(DigestLength(outlen))
    /\ Then(IF ret' < 0 THEN "fail" ELSE "length")

LongLength ==
    /\ user = "length" /\ call = "ready"
    /\ blake2b_update([j \in 1 .. LENBYTES |-> <<"len", outlen>>])
    /\ Then("input")

LongInput ==
    /\ user = "input" /\ call = "ready"
    /\ blake2b_update(Bytes("in", inlen))
    /\ Then("final")

(* The first digest is the output, or its first half is. *)
LongFinal ==
    /\ user = "final" /\ call = "ready"
    /\ blake2b_final(DigestLength(outlen))
    /\ v' = Append(v, digest')
    /\ IF outlen <= OUTBYTES
       THEN /\ out' = VBytes(1, outlen)
            /\ user' = "done"
            /\ UNCHANGED toproduce
       ELSE /\ out' = VBytes(1, Half)
            /\ toproduce' = outlen - Half
            /\ user' = "chain"
    /\ UNCHANGED <<outlen, inlen>>

(* The while loop, and the last digest behind it: each a call of blake2b on   *)
(* the digest before.                                                         *)
more_at_equal == toproduce >= OUTBYTES
more == toproduce > OUTBYTES

NextLength == IF more THEN OUTBYTES ELSE toproduce

LongChain ==
    /\ user = "chain" /\ call = "ready"
    /\ blake2b_init(NextLength)
    /\ Then("chain_update")

LongChainUpdate ==
    /\ user = "chain_update" /\ call = "ready"
    /\ blake2b_update(VBytes(Len(v), OUTBYTES))
    /\ Then("chain_final")

LongChainFinal ==
    /\ user = "chain_final" /\ call = "ready"
    /\ blake2b_final(NextLength)
    /\ v' = Append(v, digest')
    /\ IF more
       THEN /\ out' = out \o VBytes(Len(v) + 1, Half)
            /\ toproduce' = toproduce - Half
            /\ user' = "chain"
       ELSE /\ out' = out \o VBytes(Len(v) + 1, toproduce)
            /\ user' = "done"
            /\ UNCHANGED toproduce
    /\ UNCHANGED <<outlen, inlen>>

blake2b_long ==
    \/ LongRefuse \/ LongInit \/ LongLength \/ LongInput \/ LongFinal
    \/ LongChain \/ LongChainUpdate \/ LongChainFinal

Returned == user \in {"done", "fail"} /\ UNCHANGED vars

Next ==
    \/ Streaming
    \/ blake2b_long
    \/ Updating /\ UNCHANGED longVars
    \/ Returned

Spec == Init /\ [][Next]_vars

-----------------------------------------------------------------------------
(* Variable-length hashing as RFC 9106 defines it (3.3): r digests of full    *)
(* length, of each of which half is put out, and one of the rest.             *)
FullDigests == (outlen + Half - 1) \div Half - 2

Message(n) ==
    IF n = 1 THEN [j \in 1 .. LENBYTES |-> <<"len", outlen>>] \o Bytes("in", inlen)
    ELSE VBytes(n - 1, OUTBYTES)

DigestsDefined ==
    IF outlen <= OUTBYTES THEN <<H(outlen, 0, Message(1))>>
    ELSE [n \in 1 .. FullDigests + 1 |->
            H(IF n <= FullDigests THEN OUTBYTES ELSE outlen - Half * FullDigests,
              0, Message(n))]

OutputDefined ==
    IF outlen <= OUTBYTES THEN VBytes(1, outlen)
    ELSE [j \in 1 .. outlen |->
            IF j <= Half * FullDigests
            THEN <<"v", ((j - 1) \div Half) + 1, ((j - 1) % Half) + 1>>
            ELSE <<"v", FullDigests + 1, j - Half * FullDigests>>]

(* blake2b_long computes the variable-length hash of its definition, byte by  *)
(* byte, for every length of output and input, around multiples of half a     *)
(* digest too; it fails only for an output of no bytes, or of more than a     *)
(* uint32_t can say.                                                          *)
LongOutput ==
    /\ user = "done" => outlen <= MaxOutlen /\ v = DigestsDefined /\ out = OutputDefined
    /\ user = "fail" => outlen = 0 \/ outlen > MaxOutlen

(* Bytes never leave the buffers they are in: buf of the state, and out.      *)
BuffersHold ==
    /\ S.buflen \in 0 .. BLOCKBYTES
    /\ call = "update" /\ Len(pin) <= BLOCKBYTES => S.buflen + Len(pin) <= BLOCKBYTES
    /\ Len(out) <= outlen
=============================================================================
