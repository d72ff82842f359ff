------------------------------ MODULE Blake2b -------------------------------
(* blake2b.c as a stream: init, update and final on one blake2b_state.        *)
(*                                                                            *)
(* A byte is its origin, a pair such as <<"in", 5>>, so that no two bytes are *)
(* alike.  The compression function is a free constructor: h is the sequence  *)
(* of all that has been compressed into it, each block with the counter and   *)
(* the last-block flag of the moment.                                         *)
EXTENDS Integers, Sequences

CONSTANTS
    BLOCKBYTES,     \* BLAKE2B_BLOCKBYTES
    OUTBYTES,       \* BLAKE2B_OUTBYTES
    KEYBYTES,       \* BLAKE2B_KEYBYTES
    Word64          \* 2^64, the modulus of the two words of the counter

ASSUME Blake2bAssumption ==
    /\ BLOCKBYTES \in Nat \ {0}
    /\ OUTBYTES \in Nat \ {0} /\ OUTBYTES % 2 = 0
    /\ KEYBYTES \in 1 .. BLOCKBYTES
    /\ Word64 \in Nat /\ BLOCKBYTES < Word64

VARIABLES
    S,              \* the blake2b_state
    call,           \* "update" inside blake2b_update, else "ready"
    pin,            \* the input of blake2b_update that is not yet consumed
    given,          \* all bytes accepted since the initialisation
    digest,         \* what the last call has written to out
    ret             \* its return value

stateVars == <<S, call, pin, given, digest, ret>>

ZERO == <<"zero", 0>>
Blank == [n \in 1 .. BLOCKBYTES |-> ZERO]
NoDigest == [param |-> <<0, 0>>, h |-> <<>>]
Bytes(origin, n) == [j \in 1 .. n |-> <<origin, j>>]

(* blake2b_init_param: P holds the lengths of the digest and the key. *)
Fresh(outlen, keylen) ==
    [param |-> <<outlen, keylen>>, h |-> <<>>, t |-> <<0, 0>>, f |-> FALSE,
     buf |-> Blank, buflen |-> 0, outlen |-> outlen]

(* blake2b_invalidate_state *)
Invalid == [Fresh(0, 0) EXCEPT !.f = TRUE]

Uninitialised ==
    /\ S = Invalid
    /\ call = "ready"
    /\ pin = <<>> /\ given = <<>>
    /\ digest = NoDigest
    /\ ret = 0

-----------------------------------------------------------------------------
(* blake2b_increment_counter: the carry goes to the upper word. *)
carry(low, inc) == IF low < inc THEN 1 ELSE 0

incremented(t, inc) ==
    LET low == (t[1] + inc) % Word64
    IN  <<low, (t[2] + carry(low, inc)) % Word64>>

(* blake2b_increment_counter followed by blake2b_compress. *)
Compress(s, block, inc, last) ==
    LET t == incremented(s.t, inc)
    IN  [s EXCEPT !.t = t, !.f = last,
                  !.h = Append(@, [block |-> block, t |-> t, last |-> last])]

(* memcpy(&S->buf[buflen], from, n): what is behind stays as it is. *)
Copied(s, from, n) ==
    [j \in 1 .. BLOCKBYTES |->
        IF j \in s.buflen + 1 .. s.buflen + n THEN from[j - s.buflen] ELSE s.buf[j]]

(* blake2b_init and blake2b_init_key, which feeds a block with the key. *)
blake2b_init(outlen) ==
    /\ call = "ready"
    /\ IF outlen \in 1 .. OUTBYTES
       THEN S' = Fresh(outlen, 0) /\ ret' = 0
       ELSE S' = Invalid /\ ret' = -1
    /\ given' = <<>>
    /\ UNCHANGED <<call, pin, digest>>

blake2b_init_key(outlen, keylen) ==
    /\ call = "ready"
    /\ IF outlen \in 1 .. OUTBYTES /\ keylen \in 1 .. KEYBYTES
       THEN LET block == Bytes("key", keylen)
                           \o [j \in 1 .. BLOCKBYTES - keylen |-> ZERO]
            IN  /\ S' = Fresh(outlen, keylen)
                /\ pin' = block /\ given' = block
                /\ call' = "update"
                /\ UNCHANGED ret
       ELSE /\ S' = Invalid /\ given' = <<>> /\ ret' = -1
            /\ UNCHANGED <<pin, call>>
    /\ UNCHANGED digest

(* blake2b_update: a buffer that would overflow is completed and compressed.  *)
(* A full buffer stays, since it may be the last block.                       *)
overflows_ignoring_rest(s, n) == n > BLOCKBYTES
overflows_when_full(s, n) == s.buflen + n >= BLOCKBYTES
overflows_buffer(s, n) == s.buflen + n > BLOCKBYTES

completes(s, in) ==
    LET fill == BLOCKBYTES - s.buflen
    IN  /\ S' = [Compress(s, Copied(s, in, fill), BLOCKBYTES, FALSE) EXCEPT !.buflen = 0]
        /\ pin' = SubSeq(in, fill + 1, Len(in))

blake2b_update(in) ==
    /\ call = "ready"
    /\ \/ /\ in = <<>>
          /\ ret' = 0
          /\ UNCHANGED <<S, call, pin, given>>
       \/ /\ in # <<>> /\ S.f
          /\ ret' = -1
          /\ UNCHANGED <<S, call, pin, given>>
       \/ /\ in # <<>> /\ ~S.f
          /\ IF overflows_buffer(S, Len(in))
             THEN completes(S, in)
             ELSE pin' = in /\ UNCHANGED S
          /\ given' = given \o in
          /\ call' = "update"
          /\ UNCHANGED ret
    /\ UNCHANGED digest

(* Its loop over whole blocks, and the copy of the rest. *)
UpdateBlock ==
    /\ call = "update" /\ Len(pin) > BLOCKBYTES
    /\ S' = Compress(S, SubSeq(pin, 1, BLOCKBYTES), BLOCKBYTES, FALSE)
    /\ pin' = SubSeq(pin, BLOCKBYTES + 1, Len(pin))
    /\ UNCHANGED <<call, given, digest, ret>>

UpdateRest ==
    /\ call = "update" /\ Len(pin) <= BLOCKBYTES
    /\ S' = [S EXCEPT !.buf = Copied(S, pin, Len(pin)), !.buflen = @ + Len(pin)]
    /\ pin' = <<>>
    /\ call' = "ready"
    /\ ret' = 0
    /\ UNCHANGED <<given, digest>>

(* blake2b_final: the padded rest is the last block, then buffer and hash are *)
(* wiped.                                                                     *)
padded(s) == [j \in 1 .. BLOCKBYTES |-> IF j > s.buflen THEN ZERO ELSE s.buf[j]]

blake2b_final(outlen) ==
    /\ call = "ready"
    /\ IF outlen < S.outlen \/ S.f
       THEN ret' = -1 /\ UNCHANGED <<S, digest>>
       ELSE LET s == Compress(S, padded(S), S.buflen, TRUE)
            IN  /\ digest' = [param |-> s.param, h |-> s.h]
                /\ S' = [s EXCEPT !.h = <<>>, !.buf = Blank]
                /\ ret' = 0
    /\ UNCHANGED <<call, pin, given>>

Updating == UpdateBlock \/ UpdateRest

-----------------------------------------------------------------------------
(* BLAKE2b as it is defined: the message in blocks, the last one padded and   *)
(* never empty but for the empty message, each with the number of bytes so    *)
(* far.                                                                       *)
Blocks(message) ==
    LET size == Len(message)
        count == IF size = 0 THEN 1 ELSE (size + BLOCKBYTES - 1) \div BLOCKBYTES
        upto(k) == IF k = count THEN size ELSE k * BLOCKBYTES
    IN  [k \in 1 .. count |->
            [block |-> [j \in 1 .. BLOCKBYTES |->
                          LET n == (k - 1) * BLOCKBYTES + j
                          IN  IF n <= size THEN message[n] ELSE ZERO],
             t |-> <<upto(k) % Word64, (upto(k) \div Word64) % Word64>>,
             last |-> k = count]]

H(outlen, keylen, message) == [param |-> <<outlen, keylen>>, h |-> Blocks(message)]

(* However a message is cut into calls of blake2b_update, and whatever the    *)
(* buffer has held before, blake2b_final gives the hash of the whole message, *)
(* also at the exact end of a block and where the counter carries.            *)
DigestOfMessage ==
    [][digest' # digest => digest' = H(S.param[1], S.param[2], given)]_stateVars

=============================================================================
