----------------------------- MODULE Argon2Ctx ------------------------------
(* argon2_ctx: validation, alignment of the memory size, initialize, the fill *)
(* (FillMemory, here only its result) and finalize, for a set of calls that   *)
(* run beside each other.                                                     *)
(*                                                                            *)
(* What the password and secret pointers of a context lead to is kept beside  *)
(* it, as the content of the caller's buffer.  The hash functions are free    *)
(* constructors: two digests are equal when and only when everything that     *)
(* went into them is.                                                         *)
EXTENDS ValidateInputs, FiniteSets

CONSTANTS
    Calls,          \* the calls of argon2_ctx
    SizeWord,       \* the modulus of size_t
    BlockSize       \* ARGON2_BLOCK_SIZE

ASSUME SizesAssumption == SizeWord \in Nat \ {0} /\ BlockSize \in Nat \ {0}

VARIABLES
    pc,             \* per call: where argon2_ctx is
    context,        \* per call: the argon2_context
    buf,            \* per call: what context->pwd and context->secret point to
    instance,       \* per call: the geometry computed from the context
    matrix,         \* per call: the memory behind instance->memory
    out,            \* per call: the content of context->out
    result          \* per call: the return value

ctxVars == <<pc, context, buf, instance, matrix, out, result>>

Zero == "zero"      \* the content of wiped memory

(* What memory that may hold a digest contains: nothing, zeros, or a Digest. *)
NoTag == [is |-> NULL]
ZeroTag == [is |-> Zero]

-----------------------------------------------------------------------------
(* The geometry argon2_ctx derives from validated inputs. *)
requested_blocks(c) ==
    LET least == uint32(2 * SYNC_POINTS * c.lanes)
    IN  IF c.m_cost < least THEN least ELSE c.m_cost

segment_length(c) ==
    requested_blocks(c) \div uint32(c.lanes * SYNC_POINTS)

align(c) ==
    [memory_blocks  |-> uint32(segment_length(c) * uint32(c.lanes * SYNC_POINTS)),
     segment_length |-> segment_length(c),
     lane_length    |-> uint32(segment_length(c) * SYNC_POINTS),
     lanes          |-> c.lanes,
     threads        |-> IF c.threads > c.lanes THEN c.lanes ELSE c.threads,
     passes         |-> c.t_cost]

NoInstance == [memory_blocks |-> 0, segment_length |-> 0, lane_length |-> 0,
               lanes |-> 0, threads |-> 0, passes |-> 0]

NoMatrix == [live |-> FALSE, bytes |-> 0, content |-> NoTag]

-----------------------------------------------------------------------------
Return(q, code) ==
    /\ pc' = [pc EXCEPT ![q] = "returned"]
    /\ result' = [result EXCEPT ![q] = code]

Goto(q, label) ==
    /\ pc' = [pc EXCEPT ![q] = label]
    /\ result' = result

(* 1. The inputs are validated: invalid ones change nothing. *)
InputsRejected(q) ==
    /\ pc[q] = "validate"
    /\ \/ \E n \in DOMAIN Checks(context[q]) :
             /\ FirstFailure(Checks(context[q]), n)
             /\ Return(q, Checks(context[q])[n].code)
       \/ /\ valid(context[q])
          /\ context[q].type \notin {"d", "i", "id"}
          /\ Return(q, "ARGON2_INCORRECT_TYPE")
    /\ UNCHANGED <<context, buf, instance, matrix, out>>

(* 2. The memory size is aligned. *)
InputsAccepted(q) ==
    /\ pc[q] = "validate"
    /\ valid(context[q])
    /\ context[q].type \in {"d", "i", "id"}
    /\ Goto(q, "allocate")
    /\ instance' = [instance EXCEPT ![q] = align(context[q])]
    /\ UNCHANGED <<context, buf, matrix, out>>

(* 3. initialize: allocate_memory, which refuses a size that overflows size_t *)
(* and whose allocator may fail.                                              *)
memory_size(q) == (instance[q].memory_blocks * BlockSize) % SizeWord

overflows_never(q) == FALSE
overflows(q) == memory_size(q) \div BlockSize # instance[q].memory_blocks

Allocate(q) ==
    /\ pc[q] = "allocate"
    /\ ~overflows(q)
    /\ Goto(q, "initial_hash")
    /\ matrix' = [matrix EXCEPT ![q] = [live |-> TRUE, bytes |-> memory_size(q),
                                        content |-> NoTag]]
    /\ UNCHANGED <<context, buf, instance, out>>

AllocateFails(q) ==
    /\ pc[q] = "allocate"
    /\ Return(q, "ARGON2_MEMORY_ALLOCATION_ERROR")
    /\ UNCHANGED <<context, buf, instance, matrix, out>>

(* initial_hash and fill_first_blocks: all the inputs go into the digest; the *)
(* password and the secret are wiped behind it, if the flags say so.          *)
Digest(c, b) ==
    [is |-> "digest", lanes |-> c.lanes, outlen |-> c.outlen, m_cost |-> c.m_cost,
     t_cost |-> c.t_cost, version |-> c.version, type |-> c.type,
     pwdlen |-> c.pwdlen, pwd |-> b.pwd, saltlen |-> c.saltlen, salt |-> c.salt,
     secretlen |-> c.secretlen, secret |-> b.secret, adlen |-> c.adlen, ad |-> c.ad]

ClearPassword(c) == c.pwd # NULL /\ "CLEAR_PASSWORD" \in c.flags
ClearSecret(c) == c.secret # NULL /\ "CLEAR_SECRET" \in c.flags

BuffersAfter_pwd_only(c, b) ==
    [pwd |-> IF ClearPassword(c) THEN Zero ELSE b.pwd, secret |-> b.secret]
BuffersAfter(c, b) ==
    [pwd |-> IF ClearPassword(c) THEN Zero ELSE b.pwd,
     secret |-> IF ClearSecret(c) THEN Zero ELSE b.secret]

ContextAfter(c) ==
    [c EXCEPT !.pwdlen = IF ClearPassword(c) THEN 0 ELSE @,
              !.secretlen = IF ClearSecret(c) THEN 0 ELSE @]

InitialHash(q) ==
    LET c == context[q]
    IN  /\ pc[q] = "initial_hash"
        /\ Goto(q, "fill")
        /\ matrix' = [matrix EXCEPT ![q].content = Digest(c, buf[q])]
        /\ buf' = [buf EXCEPT ![q] = BuffersAfter(c, @)]
        /\ context' = [context EXCEPT ![q] = ContextAfter(@)]
        /\ UNCHANGED <<instance, out>>

(* 4. Filling the memory.  When it fails argon2_ctx returns at once, and the  *)
(* matrix stays as it is.                                                     *)
Fill(q) ==
    /\ pc[q] = "fill"
    /\ Goto(q, "finalize")
    /\ UNCHANGED <<context, buf, instance, matrix, out>>

FillFails(q) ==
    /\ pc[q] = "fill"
    /\ instance[q].threads > 1
    /\ \E code \in {"ARGON2_MEMORY_ALLOCATION_ERROR", "ARGON2_THREAD_FAIL"} :
          Return(q, code)
    /\ UNCHANGED <<context, buf, instance, matrix, out>>

(* 5. finalize: the tag is written, the matrix wiped and freed. *)
Finalize_no_free(q) ==
    /\ pc[q] = "finalize"
    /\ Return(q, "ARGON2_OK")
    /\ out' = [out EXCEPT ![q] = matrix[q].content]
    /\ UNCHANGED <<context, buf, instance, matrix>>

Finalize(q) ==
    /\ pc[q] = "finalize"
    /\ Return(q, "ARGON2_OK")
    /\ out' = [out EXCEPT ![q] = matrix[q].content]
    /\ matrix' = [matrix EXCEPT ![q] = [@ EXCEPT !.live = FALSE, !.content = ZeroTag]]
    /\ UNCHANGED <<context, buf, instance>>

argon2_ctx(q) ==
    \/ InputsRejected(q) \/ InputsAccepted(q)
    \/ Allocate(q) \/ AllocateFails(q) \/ InitialHash(q)
    \/ Fill(q) \/ FillFails(q) \/ Finalize(q)

-----------------------------------------------------------------------------
(* Properties of a call. *)

(* What fill_memory_blocks and index_alpha rely on: at least two blocks in a  *)
(* segment, a whole number of equal segments, and a uint32_t that can count   *)
(* the blocks.                                                                *)
Geometry(n) ==
    /\ n.lanes \in 1 .. MaxLanes
    /\ n.threads \in 1 .. n.lanes
    /\ n.passes >= 1
    /\ n.segment_length >= 2
    /\ n.lane_length = SYNC_POINTS * n.segment_length
    /\ n.memory_blocks = n.lanes * n.lane_length
    /\ n.memory_blocks < Word

(* Validation and alignment establish it, with no wrap of a uint32_t on the   *)
(* way (8 * lanes is compared before lanes itself is bounded), and with as    *)
(* many of the blocks that were asked for as equal segments allow.            *)
GeometryEstablished ==
    \A q \in Calls : pc[q] \in {"allocate", "initial_hash", "fill", "finalize"} =>
        /\ Geometry(instance[q])
        /\ instance[q].memory_blocks <= context[q].m_cost
        /\ context[q].m_cost - instance[q].memory_blocks
              < SYNC_POINTS * instance[q].lanes

(* The matrix that is filled has room for every block of the geometry: no     *)
(* size that wraps in size_t gets through.                                    *)
AllocationCoversMatrix ==
    \A q \in Calls : matrix[q].live =>
        matrix[q].bytes = instance[q].memory_blocks * BlockSize

(* While the matrix is being filled, by far the longest phase of a call, the  *)
(* buffers of the password and the secret are already wiped.                  *)
SecretsGoneWhileFilling ==
    \A q \in Calls : pc[q] \in {"fill", "finalize"} =>
        /\ ClearPassword(context[q]) => buf[q].pwd = Zero
        /\ ClearSecret(context[q]) => buf[q].secret = Zero
=============================================================================
