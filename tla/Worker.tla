------------------------------- MODULE Worker -------------------------------
(* The native addon: hash and verify, called on the JavaScript thread, copy   *)
(* their arguments into a worker, which is queued on the libuv thread pool;   *)
(* a pool thread executes it (Argon2Ctx), and the JavaScript thread settles   *)
(* the promise and deletes the worker.                                        *)
(*                                                                            *)
(* The queue, the pool and the order of the callbacks belong to libuv and     *)
(* node-addon-api (external): a request is taken in the order of queueing by  *)
(* one of PoolSize threads; Execute's exceptions become the worker's error;   *)
(* after Execute, OnOK or OnError runs once, then the worker is deleted.      *)
EXTENDS Argon2Ctx

CONSTANTS
    PoolSize,       \* UV_THREADPOOL_SIZE
    Arguments       \* the argument objects a caller may pass

ASSUME PoolAssumption == PoolSize \in Nat \ {0}

(* What is passed to hash or verify: contents that are no NULL pointers, and  *)
(* lengths that a uint32_t can hold (Buffers of less than 4 GiB; the length   *)
(* of the model's other contents is at most one).                             *)
ASSUME ArgumentsAssumption ==
    /\ 1 < Word
    /\ \A a \in Arguments :
          /\ a.kind \in {"hash", "verify"}
          /\ a.typed \in BOOLEAN
          /\ NULL \notin {a.password, a.secret, a.salt, a.data}
          /\ {a.outlen, a.saltlen} \subseteq 0 .. Word - 1

VARIABLES
    caller,         \* per call: the argument object, whose Buffers the caller owns
    asked,          \* per call: what caller was when the function was called
    args,           \* per call: the worker's copies of the other arguments
    stage,          \* per call: the life of the worker
    ok,             \* per call: both SecureBuffers could be allocated
    queue,          \* libuv's queue of work
    error,          \* per call: what SetError was given
    promise         \* per call: the promise handed to the caller

workerVars == <<caller, asked, args, stage, ok, queue, error, promise>>
vars == <<ctxVars, workerVars>>

Changed == "changed"
NoContext == [pwd |-> NULL, secret |-> NULL]
NoBuffers == [pwd |-> NULL, secret |-> NULL]

Errors ==
    {"Failed to allocate secure memory", "bad_alloc", "ARGON2_INCORRECT_TYPE",
     "ARGON2_MEMORY_ALLOCATION_ERROR", "ARGON2_THREAD_FAIL"}
    \cup {"ARGON2_OUTPUT_PTR_NULL", "ARGON2_OUTPUT_TOO_SHORT",
          "ARGON2_SALT_TOO_SHORT", "ARGON2_MEMORY_TOO_LITTLE",
          "ARGON2_MEMORY_TOO_MUCH", "ARGON2_TIME_TOO_SMALL",
          "ARGON2_LANES_TOO_FEW", "ARGON2_LANES_TOO_MANY"}

Service == INSTANCE HashService

Init ==
    /\ pc = [q \in Calls |-> "idle"]
    /\ context = [q \in Calls |-> NoContext]
    /\ buf = [q \in Calls |-> NoBuffers]
    /\ instance = [q \in Calls |-> NoInstance]
    /\ matrix = [q \in Calls |-> NoMatrix]
    /\ out = [q \in Calls |-> NoTag]
    /\ result = [q \in Calls |-> "ARGON2_OK"]
    /\ caller \in [Calls -> Arguments]
    /\ asked = [q \in Calls |-> Service!NoArguments]
    /\ args = [q \in Calls |-> Service!NoArguments]
    /\ stage = [q \in Calls |-> "idle"]
    /\ ok = [q \in Calls |-> TRUE]
    /\ queue = <<>>
    /\ error = [q \in Calls |-> NULL]
    /\ promise = [q \in Calls |-> Service!Pending]

Settle(q, outcome) == promise' = [promise EXCEPT ![q] = outcome]

-----------------------------------------------------------------------------
(* The JavaScript thread. *)

(* Hash or Verify with an argument of the wrong type: rejected at once. *)
Reject(q) ==
    /\ stage[q] = "idle" /\ ~caller[q].typed
    /\ asked' = [asked EXCEPT ![q] = caller[q]]
    /\ stage' = [stage EXCEPT ![q] = "deleted"]
    /\ Settle(q, Service!Rejected("TypeError"))
    /\ UNCHANGED <<ctxVars, caller, args, ok, queue, error>>

(* A SecureBuffer: nothing for an empty Buffer, a copy, or a failed           *)
(* allocation.                                                                *)
SecureBuffer(content) == IF content = Service!EMPTY THEN {NULL} ELSE {content, NULL}

(* Hash or Verify: the worker is built, with copies of all the arguments, and *)
(* queued.                                                                    *)
Call(q) ==
    LET a == caller[q]
    IN  /\ stage[q] = "idle" /\ a.typed
        /\ \E plain \in SecureBuffer(a.password), secret \in SecureBuffer(a.secret) :
              /\ buf' = [buf EXCEPT ![q] = [pwd |-> plain, secret |-> secret]]
              /\ ok' = [ok EXCEPT ![q] = (plain = NULL => a.password = Service!EMPTY)
                                         /\ (secret = NULL => a.secret = Service!EMPTY)]
        /\ asked' = [asked EXCEPT ![q] = a]
        /\ args' = [args EXCEPT ![q] = a]
        /\ stage' = [stage EXCEPT ![q] = "queued"]
        /\ queue' = Append(queue, q)
        /\ UNCHANGED <<pc, context, instance, matrix, out, result, caller, error,
                       promise>>

(* The caller overwrites its own Buffers, at any time after the call: the     *)
(* README tells it to wipe the password.                                      *)
CallerWrites(q) ==
    /\ stage[q] # "idle"
    /\ caller' = [caller EXCEPT ![q].password = Changed, ![q].secret = Changed,
                                ![q].salt = Changed, ![q].data = Changed,
                                ![q].expected = NoTag]
    /\ UNCHANGED <<ctxVars, asked, args, stage, ok, queue, error, promise>>

(* OnOK or OnError, and the destructors of the worker: the derived hash and   *)
(* the SecureBuffers are wiped, then freed.  (The comparison of verify is the *)
(* last line of its Execute; nothing it reads changes until OnOK.)            *)
Wiped_not(content) == content
Wiped(content) == IF content = NULL THEN NULL ELSE Zero

WipedTag(content) == IF content = NoTag THEN NoTag ELSE ZeroTag

(* The arguments Execute and OnOK use: the worker's copies. *)
own_not_copied(q) == caller[q]
own(q) == args[q]

Answer(q) ==
    IF own(q).kind = "hash" THEN out[q]
                            ELSE Service!Match(out[q] = own(q).expected)

Complete(q) ==
    /\ stage[q] = "executed"
    /\ IF error[q] = NULL THEN Settle(q, Service!Resolved(Answer(q)))
                          ELSE Settle(q, Service!Rejected(error[q]))
    /\ stage' = [stage EXCEPT ![q] = "deleted"]
    /\ out' = [out EXCEPT ![q] = WipedTag(@)]
    /\ buf' = [buf EXCEPT ![q].pwd = Wiped(@), ![q].secret = Wiped(@)]
    /\ UNCHANGED <<pc, context, instance, matrix, result, caller, asked, args, ok,
                   queue, error>>

-----------------------------------------------------------------------------
(* The thread pool. *)

Executing == {q \in Calls : stage[q] = "executing"}

FreeThread == Cardinality(Executing) < PoolSize

(* The context Execute builds, with the lengths of the model: one for every   *)
(* content but EMPTY, and the salt's own.                                     *)
ContextOf(q) ==
    LET a == own(q)
    IN  [out |-> IF a.outlen = 0 THEN NULL ELSE SET, outlen |-> uint32(a.outlen),
         pwd |-> IF buf[q].pwd = NULL THEN NULL ELSE SET,
         pwdlen |-> uint32(Service!Length(a.password)),
         salt |-> a.salt, saltlen |-> uint32(a.saltlen),
         secret |-> IF buf[q].secret = NULL THEN NULL ELSE SET,
         secretlen |-> uint32(Service!Length(a.secret)),
         ad |-> IF a.data = Service!EMPTY THEN NULL ELSE a.data,
         adlen |-> uint32(Service!Length(a.data)),
         m_cost |-> a.m, t_cost |-> a.t, lanes |-> a.p, threads |-> a.p,
         allocate_cbk |-> SET, free_cbk |-> SET,
         flags |-> {"CLEAR_PASSWORD", "CLEAR_SECRET"},
         version |-> a.version, type |-> a.type]

(* A pool thread takes the next request and starts Execute.  When it does not *)
(* come to argon2_ctx (a SecureBuffer is missing, or hash.resize throws), the *)
(* worker has an error.                                                       *)
Execute(q) ==
    /\ queue # <<>> /\ q = Head(queue) /\ FreeThread
    /\ ok[q]
    /\ queue' = Tail(queue)
    /\ stage' = [stage EXCEPT ![q] = "executing"]
    /\ pc' = [pc EXCEPT ![q] = "validate"]
    /\ context' = [context EXCEPT ![q] = ContextOf(q)]
    /\ out' = [out EXCEPT ![q] = ZeroTag]
    /\ UNCHANGED <<buf, instance, matrix, result, caller, asked, args, ok, error,
                   promise>>

ExecuteFails(q) ==
    /\ queue # <<>> /\ q = Head(queue) /\ FreeThread
    /\ error' = [error EXCEPT ![q] = IF ok[q] THEN "bad_alloc"
                                              ELSE "Failed to allocate secure memory"]
    /\ queue' = Tail(queue)
    /\ stage' = [stage EXCEPT ![q] = "executed"]
    /\ UNCHANGED <<ctxVars, caller, asked, args, ok, promise>>

(* The end of Execute. *)
Executed(q) ==
    /\ stage[q] = "executing" /\ pc[q] = "returned"
    /\ error' = [error EXCEPT ![q] = IF result[q] = "ARGON2_OK" THEN NULL ELSE result[q]]
    /\ stage' = [stage EXCEPT ![q] = "executed"]
    /\ UNCHANGED <<ctxVars, caller, asked, args, ok, queue, promise>>

(* argon2_ctx, inside Execute, with or without failures of the fill. *)
Hashing(q) == argon2_ctx(q) /\ UNCHANGED workerVars

PoolStep(q) == Execute(q) \/ ExecuteFails(q) \/ Hashing(q) \/ Executed(q)

Idle ==
    /\ \A q \in Calls : stage[q] = "deleted"
    /\ UNCHANGED vars

Next ==
    \/ \E q \in Calls : Reject(q) \/ Call(q) \/ CallerWrites(q) \/ Complete(q)
    \/ \E q \in Calls : PoolStep(q)
    \/ Idle

(* The event loop runs the completions, and the pool runs what is queued. *)
Fairness ==
    \A q \in Calls : WF_vars(Complete(q)) /\ WF_vars(PoolStep(q))

Spec == Init /\ [][Next]_vars
FairSpec == Spec /\ Fairness

-----------------------------------------------------------------------------
(* Properties. *)

(* "every native copy of the password is wiped": memory that has been given   *)
(* back, on whichever path, holds no password, secret or derived hash.        *)
NoResidue ==
    \A q \in Calls :
        /\ stage[q] = "deleted" =>
              /\ {buf[q].pwd, buf[q].secret} \subseteq {NULL, Zero}
              /\ out[q] \in {NoTag, ZeroTag}
        /\ ~matrix[q].live => matrix[q].content \in {NoTag, ZeroTag}

(* The addon implements the abstract service: a promise resolves with the     *)
(* answer to what was asked at the call, whatever the caller writes into its  *)
(* Buffers afterwards, whichever step fails and whatever else the pool is     *)
(* doing; it is settled once; and "every call is queued and resolves": every  *)
(* promise is settled in the end.                                             *)
ImplementsService == Service!Spec

(* "at any instant only UV_THREADPOOL_SIZE (default 4) Argon2 matrices are    *)
(* live": peak memory is bounded by the pool, not by the number of calls.     *)
LiveMatricesBounded ==
    Cardinality({q \in Calls : matrix[q].live}) <= PoolSize

(* What the code does keep: every matrix that is live belongs to a call that  *)
(* is executing, of which the pool allows PoolSize, or to one whose fill      *)
(* failed.                                                                    *)
MatricesAccountedFor ==
    LET failed == {q \in Calls : matrix[q].live /\ pc[q] = "returned"}
    IN  /\ Cardinality({q \in Calls : matrix[q].live} \ failed) <= PoolSize
        /\ \A q \in failed : instance[q].threads > 1 /\ result[q] # "ARGON2_OK"
=============================================================================
