---------------------------- MODULE WorkerProofs -----------------------------
(* The native addon, for every set of calls and arguments and every size of   *)
(* the thread pool: a promise resolves with the tag of what was asked, no     *)
(* freed memory holds a secret, and the pool bounds the matrices.             *)
EXTENDS Worker, EncodingLemmas, FiniteSetTheorems, SequenceTheorems, TLAPS

-----------------------------------------------------------------------------
(* The inductive invariant. *)

Stages == {"idle", "queued", "executing", "executed", "deleted"}
Filling == {"initial_hash", "fill", "finalize"}
Labels == {"idle", "validate", "allocate", "returned"} \cup Filling

(* The buffers of the call's own copies, before they are wiped. *)
OwnBuffers(a) ==
    [pwd |-> Service!Given(a.password), secret |-> Service!Given(a.secret)]

(* Where argon2_ctx can be in each stage of the worker; the promise is         *)
(* settled when the worker is deleted, not before.                            *)
Progress(q) ==
    /\ stage[q] \in Stages /\ pc[q] \in Labels
    /\ stage[q] \in {"idle", "queued"} => pc[q] = "idle"
    /\ stage[q] = "executing" => pc[q] # "idle"
    /\ stage[q] \in {"executed", "deleted"} => pc[q] \in {"idle", "returned"}
    /\ stage[q] # "deleted" => promise[q] = Service!Pending

(* The arguments: the caller's until the call is made, then those of the      *)
(* moment of the call.                                                        *)
OwnArguments(q) ==
    /\ stage[q] = "idle" => /\ caller[q] \in Arguments
                            /\ asked[q] = Service!NoArguments
                            /\ buf[q] = NoBuffers
                            /\ out[q] = NoTag
    /\ stage[q] # "idle" => asked[q] \in Arguments
    /\ stage[q] \in {"queued", "executing", "executed"} =>
          asked[q].typed /\ args[q] = asked[q]

(* The SecureBuffers, and the context that points to them, until they have    *)
(* been hashed.                                                               *)
Inputs(q) ==
    /\ buf[q] = [pwd |-> buf[q].pwd, secret |-> buf[q].secret]
    /\ stage[q] = "queued" /\ ok[q] => buf[q] = OwnBuffers(args[q])
    /\ pc[q] \in {"validate", "allocate", "initial_hash"} =>
          buf[q] = OwnBuffers(args[q]) /\ context[q] = ContextOf(q)

(* The matrix: live while it is being filled and after a failed fill; its     *)
(* content is wiped with it.                                                  *)
Matrix(q) ==
    /\ matrix[q] = [live |-> matrix[q].live, bytes |-> matrix[q].bytes,
                    content |-> matrix[q].content]
    /\ matrix[q].live \in BOOLEAN
    /\ pc[q] \in Filling => matrix[q].live
    /\ matrix[q].live =>
          \/ pc[q] \in Filling
          \/ pc[q] = "returned" /\ instance[q].threads > 1 /\ result[q] # "ARGON2_OK"
    /\ ~matrix[q].live => matrix[q].content \in {NoTag, ZeroTag}
    /\ pc[q] \in {"fill", "finalize"} =>
          matrix[q].content = Service!TagOf(args[q])

(* What Execute leaves behind, and what is left of it in the end. *)
Outcome(q) ==
    /\ stage[q] = "executing" /\ pc[q] = "returned" =>
          IF result[q] = "ARGON2_OK" THEN out[q] = Service!TagOf(args[q])
                                     ELSE result[q] \in Errors
    /\ stage[q] = "executed" =>
          IF error[q] = NULL THEN out[q] = Service!TagOf(args[q])
                             ELSE error[q] \in Errors
    /\ stage[q] = "deleted" =>
          /\ {buf[q].pwd, buf[q].secret} \subseteq {NULL, Zero}
          /\ out[q] \in {NoTag, ZeroTag}

CallInv(q) ==
    Progress(q) /\ OwnArguments(q) /\ Inputs(q) /\ Matrix(q) /\ Outcome(q)

(* Every variable but the queue is a function of the calls. *)
Domains ==
    /\ DOMAIN pc = Calls /\ DOMAIN context = Calls /\ DOMAIN buf = Calls
    /\ DOMAIN instance = Calls /\ DOMAIN matrix = Calls /\ DOMAIN out = Calls
    /\ DOMAIN result = Calls /\ DOMAIN caller = Calls /\ DOMAIN asked = Calls
    /\ DOMAIN args = Calls /\ DOMAIN stage = Calls /\ DOMAIN ok = Calls
    /\ DOMAIN error = Calls /\ DOMAIN promise = Calls

(* A call is in the queue at most once, and only while it waits. *)
QueueInv ==
    /\ queue \in Seq(Calls)
    /\ \A i \in 1 .. Len(queue) : stage[queue[i]] = "queued"
    /\ \A i, j \in 1 .. Len(queue) : queue[i] = queue[j] => i = j

PoolInv == IsFiniteSet(Executing) /\ Cardinality(Executing) <= PoolSize

IInv == Domains /\ (\A q \in Calls : CallInv(q)) /\ QueueInv /\ PoolInv

-----------------------------------------------------------------------------
(* What the invariant rests on. *)

LEMMA SmallWord ==
    ASSUME NEW n \in 0 .. Word - 1
    PROVE  uint32(n) = n
  BY LimitsAssumption DEF uint32

LEMMA LengthFits ==
    ASSUME NEW content
    PROVE  uint32(Service!Length(content)) = Service!Length(content)
  <1>1. Service!Length(content) \in 0 .. Word - 1
    BY LimitsAssumption, ArgumentsAssumption DEF Service!Length
  <1> QED BY <1>1, SmallWord

(* The context Execute builds from the worker's copies hashes to the tag of   *)
(* the arguments: nothing is lost or mixed up on the way into argon2_ctx.     *)
LEMMA ContextCarries ==
    ASSUME NEW q \in Calls, args[q] \in Arguments, buf[q] = OwnBuffers(args[q])
    PROVE  Digest(ContextOf(q), buf[q]) = Service!TagOf(args[q])
  <1> DEFINE a == args[q]
             c == ContextOf(q)
  <1>1. uint32(a.outlen) = a.outlen /\ uint32(a.saltlen) = a.saltlen
    BY ArgumentsAssumption, SmallWord
  <1>2. /\ c.outlen = a.outlen /\ c.saltlen = a.saltlen /\ c.salt = a.salt
        /\ c.pwdlen = Service!Length(a.password)
        /\ c.secretlen = Service!Length(a.secret)
        /\ c.adlen = Service!Length(a.data) /\ c.ad = Service!Given(a.data)
        /\ c.m_cost = a.m /\ c.t_cost = a.t /\ c.lanes = a.p
        /\ c.version = a.version /\ c.type = a.type
    BY <1>1, LengthFits DEF ContextOf, own, Service!Given, Service!EMPTY,
       Service!Absent, NULL
  <1>3. /\ buf[q].pwd = Service!Given(a.password)
        /\ buf[q].secret = Service!Given(a.secret)
    BY DEF OwnBuffers
  <1> HIDE DEF a, c
  <1> QED BY <1>2, <1>3 DEF Digest, Service!TagOf, a, c

(* The context of a call satisfies the pointer and the callback checks, so    *)
(* whatever validate_inputs reports of it is one of the service's errors.     *)
LEMMA ChecksReported ==
    ASSUME NEW q \in Calls, args[q] \in Arguments, buf[q] = OwnBuffers(args[q]),
           NEW n \in DOMAIN Checks(ContextOf(q)),
           FirstFailure(Checks(ContextOf(q)), n)
    PROVE  Checks(ContextOf(q))[n].code \in Errors
  <1> DEFINE a == args[q]
             c == ContextOf(q)
             ch == Checks(c)
  <1>1. /\ c.pwd = NULL => c.pwdlen = 0
        /\ c.secret = NULL => c.secretlen = 0
        /\ c.ad = NULL => c.adlen = 0
        /\ c.salt # NULL
        /\ c.threads = c.lanes
        /\ c.allocate_cbk # NULL /\ c.free_cbk # NULL
    <2>1. /\ c.pwdlen = Service!Length(a.password)
          /\ c.secretlen = Service!Length(a.secret)
          /\ c.adlen = Service!Length(a.data)
          /\ c.pwd = IF buf[q].pwd = NULL THEN NULL ELSE SET
          /\ c.secret = IF buf[q].secret = NULL THEN NULL ELSE SET
          /\ c.ad = IF a.data = Service!EMPTY THEN NULL ELSE a.data
          /\ c.salt = a.salt /\ c.threads = c.lanes
          /\ c.allocate_cbk = SET /\ c.free_cbk = SET
      BY LengthFits DEF ContextOf, own
    <2>2. NULL \notin {a.password, a.secret, a.salt, a.data}
      BY ArgumentsAssumption
    <2>3. SET # NULL
      BY DEF SET, NULL
    <2>4. /\ buf[q].pwd = Service!Given(a.password)
          /\ buf[q].secret = Service!Given(a.secret)
      BY DEF OwnBuffers
    <2> HIDE DEF a, c
    <2> QED
      BY <2>1, <2>2, <2>3, <2>4 DEF Service!Length, Service!Given
  <1>3. /\ DOMAIN ch = 1 .. 17
        /\ \A i \in 1 .. 7 : ch[i] = LengthChecks(c)[i]
        /\ \A i \in 8 .. 17 : ch[i] = CostChecks(c)[i - 7]
    BY ChecksParts, Zenon
  <1>4. ch[n].fails /\ \A k \in 1 .. n - 1 : ~ch[k].fails
    BY DEF FirstFailure
  <1> HIDE DEF ch, c
  <1>5. CASE n \in 1 .. 7
    <2>1. ch[n] = LengthChecks(c)[n]
      BY <1>3, <1>5
    <2>2. n # 3 /\ n # 4 /\ n # 6 /\ n # 7
      <3>1. /\ ~LengthChecks(c)[3].fails /\ ~LengthChecks(c)[4].fails
            /\ ~LengthChecks(c)[6].fails /\ ~LengthChecks(c)[7].fails
        BY <1>1 DEF LengthChecks, Check
      <3> QED BY <1>4, <2>1, <3>1
    <2>3. n \in {1, 2, 5}
      BY <1>5, <2>2
    <2>4. /\ LengthChecks(c)[1].code = "ARGON2_OUTPUT_PTR_NULL"
          /\ LengthChecks(c)[2].code = "ARGON2_OUTPUT_TOO_SHORT"
          /\ LengthChecks(c)[5].code = "ARGON2_SALT_TOO_SHORT"
      BY DEF LengthChecks, Check
    <2> QED BY <2>1, <2>3, <2>4 DEF Errors, ch, c
  <1>6. CASE n \in 8 .. 17
    <2>1. ch[n] = CostChecks(c)[n - 7]
      BY <1>3, <1>6
    <2>2. /\ ~CostChecks(c)[9].fails /\ ~CostChecks(c)[10].fails
          /\ CostChecks(c)[7].fails => CostChecks(c)[5].fails
          /\ CostChecks(c)[8].fails => CostChecks(c)[6].fails
      BY <1>1 DEF CostChecks, Check
    <2>3. ch[12] = CostChecks(c)[5] /\ ch[13] = CostChecks(c)[6]
      BY <1>3
    <2>4. n # 14 /\ n # 15 /\ n # 16 /\ n # 17
      BY <1>4, <2>1, <2>2, <2>3
    <2>5. n \in {8, 9, 10, 11, 12, 13}
      BY <1>6, <2>4
    <2>6. /\ CostChecks(c)[1].code = "ARGON2_MEMORY_TOO_LITTLE"
          /\ CostChecks(c)[2].code = "ARGON2_MEMORY_TOO_MUCH"
          /\ CostChecks(c)[3].code = "ARGON2_MEMORY_TOO_LITTLE"
          /\ CostChecks(c)[4].code = "ARGON2_TIME_TOO_SMALL"
          /\ CostChecks(c)[5].code = "ARGON2_LANES_TOO_FEW"
          /\ CostChecks(c)[6].code = "ARGON2_LANES_TOO_MANY"
      BY DEF CostChecks, Check
    <2>7. ch[n].code \in Errors
      <3> DEFINE k == n - 7
      <3>1. ch[n] = CostChecks(c)[k] /\ k \in {1, 2, 3, 4, 5, 6}
        BY <2>1, <2>5
      <3> HIDE DEF k
      <3>2. ch[n].code \in
              {"ARGON2_MEMORY_TOO_LITTLE", "ARGON2_MEMORY_TOO_MUCH",
               "ARGON2_TIME_TOO_SMALL", "ARGON2_LANES_TOO_FEW",
               "ARGON2_LANES_TOO_MANY"}
        BY <2>6, <3>1
      <3> QED BY <3>2 DEF Errors
    <2> QED BY <2>7 DEF ch, c
  <1> QED BY <1>3, <1>5, <1>6 DEF ch, c

-----------------------------------------------------------------------------
(* The invariant is inductive. *)

LEMMA InitInv == Init => IInv
  <1> SUFFICES ASSUME Init PROVE IInv
    OBVIOUS
  <1>1. Domains
    BY DEF Init, Domains
  <1>2. ASSUME NEW q \in Calls PROVE CallInv(q)
    <2>1. /\ pc[q] = "idle" /\ stage[q] = "idle" /\ promise[q] = Service!Pending
          /\ caller[q] \in Arguments /\ asked[q] = Service!NoArguments
          /\ buf[q] = NoBuffers /\ out[q] = NoTag /\ matrix[q] = NoMatrix
      BY DEF Init
    <2> QED
      BY <2>1
      DEF CallInv, Progress, OwnArguments, Inputs, Matrix, Outcome, Stages, Labels,
          Filling, NoBuffers, NoMatrix
  <1>3. QueueInv
    BY DEF Init, QueueInv
  <1>4. PoolInv
    <2>1. Executing = {}
      BY DEF Init, Executing
    <2> QED BY <2>1, FS_EmptySet, PoolAssumption DEF PoolInv
  <1> QED BY <1>1, <1>2, <1>3, <1>4 DEF IInv

(* What a step of one call leaves alone in another. *)
Same(r) ==
    /\ pc'[r] = pc[r] /\ context'[r] = context[r] /\ buf'[r] = buf[r]
    /\ instance'[r] = instance[r] /\ matrix'[r] = matrix[r] /\ out'[r] = out[r]
    /\ result'[r] = result[r] /\ caller'[r] = caller[r] /\ asked'[r] = asked[r]
    /\ args'[r] = args[r] /\ stage'[r] = stage[r] /\ ok'[r] = ok[r]
    /\ error'[r] = error[r] /\ promise'[r] = promise[r]

LEMMA SameKeeps ==
    ASSUME NEW r \in Calls, CallInv(r), Same(r)
    PROVE  CallInv(r)'
  <1>1. Progress(r)' /\ OwnArguments(r)'
    BY DEF CallInv, Same, Progress, OwnArguments
  <1>2. ContextOf(r)' = ContextOf(r)
    BY DEF Same, ContextOf, own
  <1>3. Inputs(r)'
    BY <1>2 DEF CallInv, Same, Inputs, OwnBuffers
  <1>4. Matrix(r)' /\ Outcome(r)'
    BY DEF CallInv, Same, Matrix, Outcome
  <1> QED BY <1>1, <1>3, <1>4 DEF CallInv

(* A step of one call: what is left to show of it. *)
LEMMA StepOf ==
    ASSUME IInv, NEW q \in Calls, Domains', \A r \in Calls \ {q} : Same(r),
           CallInv(q)', QueueInv', PoolInv'
    PROVE  IInv'
  <1>1. ASSUME NEW r \in Calls PROVE CallInv(r)'
    <2>1. CASE r = q
      BY <2>1
    <2>2. CASE r # q
      BY <2>2, SameKeeps DEF IInv
    <2> QED BY <2>1, <2>2
  <1> QED BY <1>1 DEF IInv

(* The queue and the pool depend on the stages alone. *)
LEMMA NotQueuedNorPooled ==
    ASSUME IInv, NEW q \in Calls, queue' = queue, DOMAIN stage' = Calls,
           \A r \in Calls \ {q} : stage'[r] = stage[r],
           stage'[q] = stage[q] \/ stage[q] # "queued",
           stage'[q] = stage[q] \/ stage'[q] # "executing"
    PROVE  QueueInv' /\ PoolInv'
  <1>1. QueueInv'
    <2>1. \A i \in 1 .. Len(queue) : queue[i] \in Calls
      BY DEF IInv, QueueInv
    <2> QED BY <2>1 DEF IInv, QueueInv
  <1>2. Executing' \in SUBSET Executing
    BY DEF Executing
  <1>3. PoolInv'
    <2>1. IsFiniteSet(Executing) /\ Cardinality(Executing) <= PoolSize
      BY DEF IInv, PoolInv
    <2>2. IsFiniteSet(Executing') /\ Cardinality(Executing') <= Cardinality(Executing)
      BY <1>2, <2>1, FS_Subset
    <2>3. Cardinality(Executing) \in Nat /\ Cardinality(Executing') \in Nat
      BY <2>1, <2>2, FS_CardinalityType
    <2> QED BY <2>1, <2>2, <2>3, PoolAssumption DEF PoolInv
  <1> QED BY <1>1, <1>3

-----------------------------------------------------------------------------
(* The JavaScript thread. *)

LEMMA RejectStep ==
    ASSUME IInv, NEW q \in Calls, Reject(q)
    PROVE  IInv'
  <1>1. /\ stage[q] = "idle" /\ ~caller[q].typed
        /\ asked' = [asked EXCEPT ![q] = caller[q]]
        /\ stage' = [stage EXCEPT ![q] = "deleted"]
        /\ promise' = [promise EXCEPT ![q] = Service!Rejected("TypeError")]
        /\ UNCHANGED <<pc, context, buf, instance, matrix, out, result, caller,
                       args, ok, queue, error>>
    BY DEF Reject, Settle, ctxVars
  <1>2. Domains /\ CallInv(q)
    BY DEF IInv
  <1>3. Domains' /\ \A r \in Calls \ {q} : Same(r)
    BY <1>1, <1>2 DEF Domains, Same
  <1>4. asked'[q] = caller[q] /\ stage'[q] = "deleted"
    BY <1>1, <1>2 DEF Domains
  <1>5. CallInv(q)'
    <2>1. Progress(q)' /\ OwnArguments(q)'
      BY <1>1, <1>2, <1>4 DEF CallInv, Progress, OwnArguments, Stages
    <2>2. Inputs(q)' /\ Matrix(q)'
      BY <1>1, <1>2, <1>4
      DEF CallInv, Progress, Inputs, Matrix, OwnBuffers, Labels, Filling
    <2>3. Outcome(q)'
      BY <1>1, <1>2, <1>4 DEF CallInv, OwnArguments, Outcome, NoBuffers
    <2> QED BY <2>1, <2>2, <2>3 DEF CallInv
  <1>6. QueueInv' /\ PoolInv'
    BY <1>1, <1>3, <1>4, NotQueuedNorPooled DEF Domains, Same
  <1> QED BY <1>3, <1>5, <1>6, StepOf

LEMMA CallerWritesStep ==
    ASSUME IInv, NEW q \in Calls, CallerWrites(q)
    PROVE  IInv'
  <1>1. /\ stage[q] # "idle"
        /\ \E v : caller' = [caller EXCEPT ![q] = v]
        /\ UNCHANGED <<pc, context, buf, instance, matrix, out, result, asked,
                       args, stage, ok, queue, error, promise>>
    BY DEF CallerWrites, ctxVars
  <1>2. Domains /\ CallInv(q)
    BY DEF IInv
  <1>3. Domains' /\ \A r \in Calls \ {q} : Same(r)
    BY <1>1, <1>2 DEF Domains, Same
  <1>4. CallInv(q)'
    <2>1. ContextOf(q)' = ContextOf(q)
      BY <1>1 DEF ContextOf, own
    <2>2. Progress(q)' /\ OwnArguments(q)' /\ Inputs(q)'
      BY <1>1, <1>2, <2>1 DEF CallInv, Progress, OwnArguments, Inputs
    <2>3. Matrix(q)' /\ Outcome(q)'
      BY <1>1, <1>2 DEF CallInv, Matrix, Outcome
    <2> QED BY <2>2, <2>3 DEF CallInv
  <1>5. QueueInv' /\ PoolInv'
    BY <1>1, <1>2, <1>3, NotQueuedNorPooled DEF Domains, Same
  <1> QED BY <1>3, <1>4, <1>5, StepOf

LEMMA CompleteStep ==
    ASSUME IInv, NEW q \in Calls, Complete(q)
    PROVE  IInv'
  <1>1. /\ stage[q] = "executed"
        /\ \E v : promise' = [promise EXCEPT ![q] = v]
        /\ stage' = [stage EXCEPT ![q] = "deleted"]
        /\ out' = [out EXCEPT ![q] = WipedTag(@)]
        /\ buf' = [buf EXCEPT ![q].pwd = Wiped(@), ![q].secret = Wiped(@)]
        /\ UNCHANGED <<pc, context, instance, matrix, result, caller, asked, args,
                       ok, queue, error>>
    BY DEF Complete, Settle
  <1>2. Domains /\ CallInv(q)
    BY DEF IInv
  <1>3. Domains' /\ \A r \in Calls \ {q} : Same(r)
    BY <1>1, <1>2 DEF Domains, Same
  <1>4. /\ stage'[q] = "deleted" /\ out'[q] = WipedTag(out[q])
        /\ buf'[q] = [pwd |-> Wiped(buf[q].pwd), secret |-> Wiped(buf[q].secret)]
    BY <1>1, <1>2 DEF Domains, CallInv, Inputs
  <1>5. CallInv(q)'
    <2>1. Progress(q)' /\ OwnArguments(q)'
      BY <1>1, <1>2, <1>4 DEF CallInv, Progress, OwnArguments, Stages
    <2>2. Inputs(q)'
      BY <1>1, <1>2, <1>4 DEF CallInv, Progress, Inputs
    <2>3. Matrix(q)'
      BY <1>1, <1>2, <1>4 DEF CallInv, Progress, Matrix, Filling
    <2>4. Outcome(q)'
      BY <1>4 DEF Outcome, Wiped, WipedTag
    <2> QED BY <2>1, <2>2, <2>3, <2>4 DEF CallInv
  <1>6. QueueInv' /\ PoolInv'
    BY <1>1, <1>3, <1>4, NotQueuedNorPooled DEF Domains, Same
  <1> QED BY <1>3, <1>5, <1>6, StepOf

LEMMA CallStep ==
    ASSUME IInv, NEW q \in Calls, Call(q)
    PROVE  IInv'
  <1> DEFINE a == caller[q]
  <1>1. PICK plain \in SecureBuffer(a.password), secret \in SecureBuffer(a.secret) :
          /\ buf' = [buf EXCEPT ![q] = [pwd |-> plain, secret |-> secret]]
          /\ ok' = [ok EXCEPT ![q] = (plain = NULL => a.password = Service!EMPTY)
                                     /\ (secret = NULL => a.secret = Service!EMPTY)]
    BY DEF Call
  <1>2. /\ stage[q] = "idle" /\ a.typed
        /\ asked' = [asked EXCEPT ![q] = a]
        /\ args' = [args EXCEPT ![q] = a]
        /\ stage' = [stage EXCEPT ![q] = "queued"]
        /\ queue' = Append(queue, q)
        /\ UNCHANGED <<pc, context, instance, matrix, out, result, caller, error,
                       promise>>
    BY DEF Call
  <1>3. Domains /\ CallInv(q)
    BY DEF IInv
  <1>4. Domains' /\ \A r \in Calls \ {q} : Same(r)
    BY <1>1, <1>2, <1>3 DEF Domains, Same
  <1>5. /\ stage'[q] = "queued" /\ asked'[q] = a /\ args'[q] = a
        /\ buf'[q] = [pwd |-> plain, secret |-> secret]
        /\ ok'[q] = ((plain = NULL => a.password = Service!EMPTY)
                     /\ (secret = NULL => a.secret = Service!EMPTY))
    BY <1>1, <1>2, <1>3 DEF Domains
  <1>6. a \in Arguments
    BY <1>2, <1>3 DEF CallInv, OwnArguments
  <1> HIDE DEF a
  <1>7. CallInv(q)'
    <2>1. Progress(q)' /\ OwnArguments(q)'
      BY <1>2, <1>3, <1>5, <1>6 DEF CallInv, Progress, OwnArguments, Stages
    <2>2. Inputs(q)'
      <3>1. ok'[q] => buf'[q] = OwnBuffers(a)
        BY <1>5 DEF SecureBuffer, OwnBuffers, Service!Given, Service!Absent, NULL
      <3> QED BY <1>2, <1>3, <1>5, <3>1 DEF CallInv, Progress, Inputs
    <2>3. Matrix(q)'
      BY <1>2, <1>3, <1>5 DEF CallInv, Progress, Matrix, Filling
    <2>4. Outcome(q)'
      BY <1>5 DEF Outcome
    <2> QED BY <2>1, <2>2, <2>3, <2>4 DEF CallInv
  <1>8. QueueInv'
    <2>1. /\ queue \in Seq(Calls)
          /\ \A i \in 1 .. Len(queue) : stage[queue[i]] = "queued"
          /\ \A i, j \in 1 .. Len(queue) : queue[i] = queue[j] => i = j
      BY DEF IInv, QueueInv
    <2>2. /\ queue' \in Seq(Calls) /\ Len(queue') = Len(queue) + 1
          /\ \A i \in 1 .. Len(queue) : queue'[i] = queue[i]
          /\ queue'[Len(queue) + 1] = q
      BY <1>2, <2>1, AppendProperties
    <2>3. \A i \in 1 .. Len(queue) : queue[i] \in Calls /\ queue[i] # q
      BY <1>2, <2>1
    <2>4. \A i \in 1 .. Len(queue') : stage'[queue'[i]] = "queued"
      BY <1>2, <1>3, <1>5, <2>1, <2>2, <2>3 DEF Domains
    <2>5. \A i, j \in 1 .. Len(queue') : queue'[i] = queue'[j] => i = j
      BY <2>1, <2>2, <2>3
    <2> QED BY <2>2, <2>4, <2>5 DEF QueueInv
  <1>9. PoolInv'
    <2>1. Executing' = Executing
      BY <1>2, <1>3, <1>5 DEF Domains, Executing
    <2> QED BY <2>1 DEF IInv, PoolInv
  <1> QED BY <1>4, <1>7, <1>8, <1>9, StepOf

-----------------------------------------------------------------------------
(* The thread pool. *)

(* Taking the head of the queue: it was waiting, and is not queued again. *)
LEMMA Dequeued ==
    ASSUME IInv, NEW q \in Calls, queue # <<>>, q = Head(queue), queue' = Tail(queue),
           NEW s, stage' = [stage EXCEPT ![q] = s]
    PROVE  stage[q] = "queued" /\ QueueInv'
  <1>1. /\ queue \in Seq(Calls)
        /\ \A i \in 1 .. Len(queue) : stage[queue[i]] = "queued"
        /\ \A i, j \in 1 .. Len(queue) : queue[i] = queue[j] => i = j
        /\ DOMAIN stage = Calls
    BY DEF IInv, QueueInv, Domains
  <1>2. q = queue[1] /\ Len(queue) \in Nat /\ Len(queue) >= 1
    BY <1>1
  <1>3. /\ queue' \in Seq(Calls) /\ Len(queue') = Len(queue) - 1
        /\ \A i \in 1 .. Len(queue') : queue'[i] = queue[i + 1]
    BY <1>1, HeadTailProperties
  <1>4. \A i \in 1 .. Len(queue') : i + 1 \in 1 .. Len(queue) /\ i + 1 # 1
    BY <1>2, <1>3
  <1>5. \A i \in 1 .. Len(queue') : queue'[i] # q /\ stage[queue'[i]] = "queued"
    BY <1>1, <1>2, <1>3, <1>4
  <1>6. \A i \in 1 .. Len(queue') : stage'[queue'[i]] = "queued"
    BY <1>1, <1>3, <1>5
  <1>7. \A i, j \in 1 .. Len(queue') : queue'[i] = queue'[j] => i = j
    BY <1>1, <1>2, <1>3, <1>4
  <1> QED BY <1>1, <1>2, <1>3, <1>6, <1>7 DEF QueueInv

LEMMA ExecuteStep ==
    ASSUME IInv, NEW q \in Calls, Execute(q)
    PROVE  IInv'
  <1>1. /\ queue # <<>> /\ q = Head(queue) /\ FreeThread /\ ok[q]
        /\ queue' = Tail(queue)
        /\ stage' = [stage EXCEPT ![q] = "executing"]
        /\ pc' = [pc EXCEPT ![q] = "validate"]
        /\ context' = [context EXCEPT ![q] = ContextOf(q)]
        /\ out' = [out EXCEPT ![q] = ZeroTag]
        /\ UNCHANGED <<buf, instance, matrix, result, caller, asked, args, ok, error,
                       promise>>
    BY DEF Execute
  <1>2. Domains /\ CallInv(q)
    BY DEF IInv
  <1>3. stage[q] = "queued" /\ QueueInv'
    BY <1>1, Dequeued
  <1>4. Domains' /\ \A r \in Calls \ {q} : Same(r)
    BY <1>1, <1>2 DEF Domains, Same
  <1>5. stage'[q] = "executing" /\ pc'[q] = "validate" /\ context'[q] = ContextOf(q)
    BY <1>1, <1>2 DEF Domains
  <1>6. CallInv(q)'
    <2>1. Progress(q)' /\ OwnArguments(q)'
      BY <1>1, <1>2, <1>3, <1>5
      DEF CallInv, Progress, OwnArguments, Stages, Labels, Filling
    <2>2. ContextOf(q)' = ContextOf(q)
      BY <1>1 DEF ContextOf, own
    <2>3. Inputs(q)'
      BY <1>1, <1>2, <1>3, <1>5, <2>2 DEF CallInv, Inputs
    <2>4. Matrix(q)'
      BY <1>1, <1>2, <1>3, <1>5 DEF CallInv, Progress, Matrix, Filling
    <2>5. Outcome(q)'
      BY <1>5 DEF Outcome
    <2> QED BY <2>1, <2>3, <2>4, <2>5 DEF CallInv
  <1>7. PoolInv'
    <2>1. Executing' = Executing \cup {q} /\ q \notin Executing
      BY <1>1, <1>2, <1>3, <1>5 DEF Domains, Executing
    <2>2. IsFiniteSet(Executing) /\ Cardinality(Executing) < PoolSize
      BY <1>1 DEF IInv, PoolInv, FreeThread
    <2>3. /\ IsFiniteSet(Executing \cup {q})
          /\ Cardinality(Executing \cup {q}) = Cardinality(Executing) + 1
      BY <2>1, <2>2, FS_AddElement
    <2>4. Cardinality(Executing) \in Nat
      BY <2>2, FS_CardinalityType
    <2> QED BY <2>1, <2>2, <2>3, <2>4, PoolAssumption DEF PoolInv
  <1> QED BY <1>3, <1>4, <1>6, <1>7, StepOf

LEMMA ExecuteFailsStep ==
    ASSUME IInv, NEW q \in Calls, ExecuteFails(q)
    PROVE  IInv'
  <1>1. /\ queue # <<>> /\ q = Head(queue)
        /\ error' = [error EXCEPT ![q] = IF ok[q] THEN "bad_alloc"
                                                  ELSE "Failed to allocate secure memory"]
        /\ queue' = Tail(queue)
        /\ stage' = [stage EXCEPT ![q] = "executed"]
        /\ UNCHANGED <<pc, context, buf, instance, matrix, out, result, caller,
                       asked, args, ok, promise>>
    BY DEF ExecuteFails, ctxVars
  <1>2. Domains /\ CallInv(q)
    BY DEF IInv
  <1>3. stage[q] = "queued" /\ QueueInv'
    BY <1>1, Dequeued
  <1>4. Domains' /\ \A r \in Calls \ {q} : Same(r)
    BY <1>1, <1>2 DEF Domains, Same
  <1>5. stage'[q] = "executed" /\ error'[q] \in Errors /\ error'[q] # NULL
    BY <1>1, <1>2 DEF Domains, Errors, NULL
  <1>6. CallInv(q)'
    <2>1. Progress(q)' /\ OwnArguments(q)'
      BY <1>1, <1>2, <1>3, <1>5 DEF CallInv, Progress, OwnArguments, Stages
    <2>2. Inputs(q)'
      BY <1>1, <1>2, <1>3, <1>5 DEF CallInv, Progress, Inputs
    <2>3. Matrix(q)'
      BY <1>1, <1>2, <1>3 DEF CallInv, Progress, Matrix, Filling
    <2>4. Outcome(q)'
      BY <1>5 DEF Outcome
    <2> QED BY <2>1, <2>2, <2>3, <2>4 DEF CallInv
  <1>7. PoolInv'
    <2>1. Executing' = Executing
      BY <1>1, <1>2, <1>3, <1>5 DEF Domains, Executing
    <2> QED BY <2>1 DEF IInv, PoolInv
  <1> QED BY <1>3, <1>4, <1>6, <1>7, StepOf

LEMMA ExecutedStep ==
    ASSUME IInv, NEW q \in Calls, Executed(q)
    PROVE  IInv'
  <1>1. /\ stage[q] = "executing" /\ pc[q] = "returned"
        /\ error' = [error EXCEPT ![q] = IF result[q] = "ARGON2_OK" THEN NULL
                                                                    ELSE result[q]]
        /\ stage' = [stage EXCEPT ![q] = "executed"]
        /\ UNCHANGED <<pc, context, buf, instance, matrix, out, result, caller,
                       asked, args, ok, queue, promise>>
    BY DEF Executed, ctxVars
  <1>2. Domains /\ CallInv(q)
    BY DEF IInv
  <1>3. Domains' /\ \A r \in Calls \ {q} : Same(r)
    BY <1>1, <1>2 DEF Domains, Same
  <1>4. /\ stage'[q] = "executed"
        /\ error'[q] = IF result[q] = "ARGON2_OK" THEN NULL ELSE result[q]
    BY <1>1, <1>2 DEF Domains
  <1>5. CallInv(q)'
    <2>1. Progress(q)' /\ OwnArguments(q)'
      BY <1>1, <1>2, <1>4 DEF CallInv, Progress, OwnArguments, Stages
    <2>2. Inputs(q)'
      BY <1>1, <1>2, <1>4 DEF CallInv, Inputs
    <2>3. Matrix(q)'
      BY <1>1, <1>2 DEF CallInv, Matrix, Filling
    <2>4. Outcome(q)'
      BY <1>1, <1>2, <1>4 DEF CallInv, Outcome, Errors, NULL
    <2> QED BY <2>1, <2>2, <2>3, <2>4 DEF CallInv
  <1>6. QueueInv' /\ PoolInv'
    BY <1>1, <1>3, <1>4, NotQueuedNorPooled DEF Domains, Same
  <1> QED BY <1>3, <1>5, <1>6, StepOf

(* argon2_ctx returns an error: with no matrix, or with the one of a fill     *)
(* that several threads have not completed.                                   *)
LEMMA ReturnsError ==
    ASSUME IInv, NEW q \in Calls, NEW code, code \in Errors,
           \/ pc[q] \in {"validate", "allocate"}
           \/ pc[q] = "fill" /\ instance[q].threads > 1,
           Return(q, code), UNCHANGED <<context, buf, instance, matrix, out>>,
           UNCHANGED workerVars
    PROVE  IInv'
  <1>1. /\ pc' = [pc EXCEPT ![q] = "returned"]
        /\ result' = [result EXCEPT ![q] = code]
        /\ UNCHANGED <<context, buf, instance, matrix, out, caller, asked, args,
                       stage, ok, queue, error, promise>>
    BY DEF Return, workerVars
  <1>2. Domains /\ CallInv(q)
    BY DEF IInv
  <1>3. Domains' /\ \A r \in Calls \ {q} : Same(r)
    BY <1>1, <1>2 DEF Domains, Same
  <1>4. pc'[q] = "returned" /\ result'[q] = code
    BY <1>1, <1>2 DEF Domains
  <1>5. stage[q] = "executing" /\ code # "ARGON2_OK"
    BY <1>2 DEF CallInv, Progress, Stages, Errors
  <1>6. CallInv(q)'
    <2>1. Progress(q)' /\ OwnArguments(q)'
      BY <1>1, <1>2, <1>4, <1>5 DEF CallInv, Progress, OwnArguments, Labels
    <2>2. Inputs(q)'
      BY <1>1, <1>2, <1>4, <1>5 DEF CallInv, Inputs
    <2>3. Matrix(q)'
      BY <1>1, <1>2, <1>4, <1>5 DEF CallInv, Matrix, Filling
    <2>4. Outcome(q)'
      BY <1>1, <1>4, <1>5 DEF Outcome
    <2> QED BY <2>1, <2>2, <2>3, <2>4 DEF CallInv
  <1>7. QueueInv' /\ PoolInv'
    BY <1>1, <1>2, <1>3, NotQueuedNorPooled DEF Domains, Same
  <1> QED BY <1>3, <1>6, <1>7, StepOf

LEMMA HashingStep ==
    ASSUME IInv, NEW q \in Calls, Hashing(q)
    PROVE  IInv'
  <1>1. /\ argon2_ctx(q)
        /\ UNCHANGED <<caller, asked, args, stage, ok, queue, error, promise>>
        /\ UNCHANGED workerVars
    BY DEF Hashing, workerVars
  <1>2. Domains /\ CallInv(q)
    BY DEF IInv
  <1>3. pc[q] \notin {"idle", "returned"} =>
          /\ stage[q] = "executing"
          /\ args[q] \in Arguments
    BY <1>2 DEF CallInv, Progress, OwnArguments, Stages
  <1>4. ASSUME \A r \in Calls \ {q} : Same(r), Domains'
        PROVE  QueueInv' /\ PoolInv'
    BY <1>1, <1>2, <1>4, NotQueuedNorPooled DEF Domains, Same
  <1>5. CASE InputsRejected(q)
    <2>1. /\ pc[q] = "validate"
          /\ UNCHANGED <<context, buf, instance, matrix, out>>
      BY <1>5 DEF InputsRejected
    <2>2. \E code \in Errors : Return(q, code)
      <3>1. CASE \E n \in DOMAIN Checks(context[q]) :
                    /\ FirstFailure(Checks(context[q]), n)
                    /\ Return(q, Checks(context[q])[n].code)
        <4>1. /\ args[q] \in Arguments /\ buf[q] = OwnBuffers(args[q])
              /\ context[q] = ContextOf(q)
          BY <1>2, <1>3, <2>1 DEF CallInv, Inputs
        <4> QED BY <3>1, <4>1, ChecksReported
      <3>2. CASE Return(q, "ARGON2_INCORRECT_TYPE")
        BY <3>2 DEF Errors
      <3> QED BY <1>5, <3>1, <3>2 DEF InputsRejected
    <2> QED BY <1>1, <2>1, <2>2, ReturnsError
  <1>6. CASE AllocateFails(q)
    <2>1. "ARGON2_MEMORY_ALLOCATION_ERROR" \in Errors
      BY DEF Errors
    <2> QED BY <1>1, <1>6, <2>1, ReturnsError DEF AllocateFails
  <1>7. CASE FillFails(q)
    <2>1. {"ARGON2_MEMORY_ALLOCATION_ERROR", "ARGON2_THREAD_FAIL"} \subseteq Errors
      BY DEF Errors
    <2>2. PICK code \in {"ARGON2_MEMORY_ALLOCATION_ERROR", "ARGON2_THREAD_FAIL"} :
             Return(q, code)
      BY <1>7 DEF FillFails
    <2> QED BY <1>1, <1>7, <2>1, <2>2, ReturnsError DEF FillFails
  <1>8. CASE InputsAccepted(q) \/ Fill(q)
    <2>1. /\ \/ pc[q] = "validate" /\ pc' = [pc EXCEPT ![q] = "allocate"]
             \/ pc[q] = "fill" /\ pc' = [pc EXCEPT ![q] = "finalize"]
          /\ instance' = instance \/ \E v : instance' = [instance EXCEPT ![q] = v]
          /\ UNCHANGED <<context, buf, matrix, out, result>>
      BY <1>8 DEF InputsAccepted, Fill, Goto
    <2>2. Domains' /\ \A r \in Calls \ {q} : Same(r)
      BY <1>1, <1>2, <2>1 DEF Domains, Same
    <2>3. \/ pc[q] = "validate" /\ pc'[q] = "allocate"
          \/ pc[q] = "fill" /\ pc'[q] = "finalize"
      BY <1>2, <2>1 DEF Domains
    <2>4. ContextOf(q)' = ContextOf(q)
      BY <1>1, <2>1 DEF ContextOf, own
    <2>5. Progress(q)' /\ OwnArguments(q)'
      BY <1>1, <1>2, <1>3, <2>1, <2>3
      DEF CallInv, Progress, OwnArguments, Labels, Filling
    <2>6. Inputs(q)'
      BY <1>1, <1>2, <1>3, <2>1, <2>3, <2>4 DEF CallInv, Inputs
    <2>7. Matrix(q)'
      BY <1>1, <1>2, <2>1, <2>3 DEF CallInv, Matrix, Filling
    <2>8. Outcome(q)'
      BY <1>1, <1>3, <2>3 DEF Outcome
    <2> QED BY <1>4, <2>2, <2>5, <2>6, <2>7, <2>8, StepOf DEF CallInv
  <1>9. CASE Allocate(q)
    <2>1. /\ pc[q] = "allocate" /\ pc' = [pc EXCEPT ![q] = "initial_hash"]
          /\ matrix' = [matrix EXCEPT ![q] = [live |-> TRUE, bytes |-> memory_size(q),
                                              content |-> NoTag]]
          /\ UNCHANGED <<context, buf, instance, out, result>>
      BY <1>9 DEF Allocate, Goto
    <2>2. Domains' /\ \A r \in Calls \ {q} : Same(r)
      BY <1>1, <1>2, <2>1 DEF Domains, Same
    <2>3. /\ pc'[q] = "initial_hash"
          /\ matrix'[q] = [live |-> TRUE, bytes |-> memory_size(q), content |-> NoTag]
      BY <1>2, <2>1 DEF Domains
    <2>4. ContextOf(q)' = ContextOf(q)
      BY <1>1, <2>1 DEF ContextOf, own
    <2>5. Progress(q)' /\ OwnArguments(q)'
      BY <1>1, <1>2, <1>3, <2>1, <2>3
      DEF CallInv, Progress, OwnArguments, Labels, Filling
    <2>6. Inputs(q)'
      BY <1>1, <1>2, <1>3, <2>1, <2>3, <2>4 DEF CallInv, Inputs
    <2>7. Matrix(q)'
      BY <2>3 DEF Matrix, Filling
    <2>8. Outcome(q)'
      BY <1>1, <1>3, <2>1, <2>3 DEF Outcome
    <2> QED BY <1>4, <2>2, <2>5, <2>6, <2>7, <2>8, StepOf DEF CallInv
  <1>10. CASE InitialHash(q)
    <2> DEFINE tag == Digest(context[q], buf[q])
               wiped == BuffersAfter(context[q], buf[q])
    <2>1. /\ pc[q] = "initial_hash" /\ pc' = [pc EXCEPT ![q] = "fill"]
          /\ matrix' = [matrix EXCEPT ![q].content = tag]
          /\ buf' = [buf EXCEPT ![q] = wiped]
          /\ \E v : context' = [context EXCEPT ![q] = v]
          /\ UNCHANGED <<instance, out, result>>
      BY <1>10 DEF InitialHash, Goto
    <2>2. tag = Service!TagOf(args[q])
      BY <1>2, <1>3, <2>1, ContextCarries DEF CallInv, Inputs
    <2>3. wiped = [pwd |-> wiped.pwd, secret |-> wiped.secret]
      BY DEF BuffersAfter
    <2> HIDE DEF tag, wiped
    <2>4. Domains' /\ \A r \in Calls \ {q} : Same(r)
      BY <1>1, <1>2, <2>1 DEF Domains, Same
    <2>5. /\ pc'[q] = "fill" /\ buf'[q] = wiped
          /\ matrix'[q] = [live |-> matrix[q].live, bytes |-> matrix[q].bytes,
                           content |-> tag]
      BY <1>2, <2>1 DEF Domains, CallInv, Matrix
    <2>6. Progress(q)' /\ OwnArguments(q)'
      BY <1>1, <1>2, <1>3, <2>1, <2>5
      DEF CallInv, Progress, OwnArguments, Labels, Filling
    <2>7. Inputs(q)'
      BY <1>1, <1>3, <2>1, <2>3, <2>5 DEF Inputs
    <2>8. Matrix(q)'
      BY <1>1, <1>2, <2>1, <2>2, <2>5 DEF CallInv, Matrix, Filling
    <2>9. Outcome(q)'
      BY <1>1, <1>3, <2>1, <2>5 DEF Outcome
    <2> QED BY <1>4, <2>4, <2>6, <2>7, <2>8, <2>9, StepOf DEF CallInv
  <1>11. CASE Finalize(q)
    <2>1. /\ pc[q] = "finalize" /\ pc' = [pc EXCEPT ![q] = "returned"]
          /\ result' = [result EXCEPT ![q] = "ARGON2_OK"]
          /\ out' = [out EXCEPT ![q] = matrix[q].content]
          /\ matrix' = [matrix EXCEPT ![q] = [@ EXCEPT !.live = FALSE,
                                                       !.content = ZeroTag]]
          /\ UNCHANGED <<context, buf, instance>>
      BY <1>11 DEF Finalize, Return
    <2>2. Domains' /\ \A r \in Calls \ {q} : Same(r)
      BY <1>1, <1>2, <2>1 DEF Domains, Same
    <2>3. /\ pc'[q] = "returned" /\ result'[q] = "ARGON2_OK"
          /\ out'[q] = Service!TagOf(args[q])
          /\ matrix'[q] = [live |-> FALSE, bytes |-> matrix[q].bytes,
                           content |-> ZeroTag]
      BY <1>2, <2>1 DEF Domains, CallInv, Matrix
    <2>4. Progress(q)' /\ OwnArguments(q)'
      BY <1>1, <1>2, <1>3, <2>1, <2>3 DEF CallInv, Progress, OwnArguments, Labels
    <2>5. Inputs(q)'
      BY <1>1, <1>2, <1>3, <2>1, <2>3 DEF CallInv, Inputs
    <2>6. Matrix(q)'
      BY <2>3 DEF Matrix, Filling
    <2>7. Outcome(q)'
      BY <1>1, <1>3, <2>1, <2>3 DEF Outcome
    <2> QED BY <1>4, <2>2, <2>4, <2>5, <2>6, <2>7, StepOf DEF CallInv
  <1> QED
    BY <1>1, <1>5, <1>6, <1>7, <1>8, <1>9, <1>10, <1>11 DEF argon2_ctx

LEMMA InvariantHolds == Spec => []IInv
  <1>1. IInv /\ [Next]_vars => IInv'
    <2> SUFFICES ASSUME IInv, [Next]_vars PROVE IInv'
      OBVIOUS
    <2>1. CASE \E q \in Calls : Reject(q) \/ Call(q) \/ CallerWrites(q) \/ Complete(q)
      BY <2>1, RejectStep, CallStep, CallerWritesStep, CompleteStep
    <2>2. CASE \E q \in Calls : PoolStep(q)
      BY <2>2, ExecuteStep, ExecuteFailsStep, HashingStep, ExecutedStep DEF PoolStep
    <2>3. CASE UNCHANGED vars
      <3>1. UNCHANGED <<pc, context, buf, instance, matrix, out, result, caller,
                        asked, args, stage, ok, queue, error, promise>>
        BY <2>3 DEF vars, ctxVars, workerVars
      <3>2. Domains' /\ QueueInv' /\ PoolInv'
        BY <3>1 DEF IInv, Domains, QueueInv, PoolInv, Executing
      <3>3. \A r \in Calls : CallInv(r)'
        BY <3>1, SameKeeps DEF IInv, Same
      <3> QED BY <3>2, <3>3 DEF IInv
    <2> QED BY <2>1, <2>2, <2>3 DEF Next, Idle
  <1> QED BY InitInv, <1>1, PTL DEF Spec

-----------------------------------------------------------------------------
(* Whatever path a call takes (rejected, out of memory, a failed or a         *)
(* completed fill), the destructors, initial_hash and finalize leave no       *)
(* password, secret or derived hash in memory that has been given back.       *)
THEOREM NothingLeftBehind == Spec => []NoResidue
  <1>1. IInv => NoResidue
    BY DEF IInv, NoResidue, CallInv, Outcome, Matrix
  <1> QED BY InvariantHolds, <1>1, PTL

(* The matrices of custom_allocate that are live belong to at most PoolSize   *)
(* executing workers, or to calls whose multi-threaded fill failed.           *)
THEOREM PoolBoundsMatrices == Spec => []MatricesAccountedFor
  <1>1. IInv => MatricesAccountedFor
    <2> SUFFICES ASSUME IInv PROVE MatricesAccountedFor
      OBVIOUS
    <2> DEFINE live == {q \in Calls : matrix[q].live}
               failed == {q \in Calls : matrix[q].live /\ pc[q] = "returned"}
    <2>1. live \ failed \in SUBSET Executing
      BY DEF IInv, CallInv, Matrix, Progress, Executing, Filling, Stages
    <2>2. IsFiniteSet(Executing) /\ Cardinality(Executing) <= PoolSize
      BY DEF IInv, PoolInv
    <2>3. /\ IsFiniteSet(live \ failed)
          /\ Cardinality(live \ failed) <= Cardinality(Executing)
      BY <2>1, <2>2, FS_Subset
    <2>4. Cardinality(live \ failed) \in Nat /\ Cardinality(Executing) \in Nat
      BY <2>2, <2>3, FS_CardinalityType
    <2>5. Cardinality(live \ failed) <= PoolSize
      BY <2>2, <2>3, <2>4, PoolAssumption
    <2>6. \A q \in failed : instance[q].threads > 1 /\ result[q] # "ARGON2_OK"
      BY DEF IInv, CallInv, Matrix, Filling
    <2> QED BY <2>5, <2>6 DEF MatricesAccountedFor
  <1> QED BY InvariantHolds, <1>1, PTL

(* A promise that is settled with a value carries the answer to what was      *)
(* asked; an error it is rejected with is one the service names.              *)
LEMMA CompleteSettles ==
    ASSUME IInv, NEW q \in Calls, Complete(q)
    PROVE  Service!Settle(q)
  <1>1. CallInv(q) /\ Domains /\ stage[q] = "executed" /\ asked' = asked
    BY DEF Complete, IInv
  <1>2. /\ asked[q] \in Arguments /\ asked[q].typed /\ args[q] = asked[q]
        /\ promise[q] = Service!Pending
    BY <1>1 DEF CallInv, OwnArguments, Progress
  <1>3. asked[q] # Service!NoArguments
    <2>1. asked[q].kind \in {"hash", "verify"}
      BY <1>2, ArgumentsAssumption
    <2> QED BY <2>1 DEF Service!NoArguments, Service!Absent
  <1>4. CASE error[q] = NULL
    <2>1. promise' = [promise EXCEPT ![q] = Service!Resolved(Answer(q))]
      BY <1>4 DEF Complete, Settle
    <2>2. out[q] = Service!TagOf(asked[q])
      BY <1>1, <1>2, <1>4 DEF CallInv, Outcome
    <2>3. Answer(q) = Service!Answer(asked[q])
      BY <1>2, <2>2, Zenon DEF Answer, own, Service!Answer
    <2> QED BY <1>1, <1>2, <1>3, <2>1, <2>3 DEF Service!Settle
  <1>5. CASE error[q] # NULL
    <2>1. promise' = [promise EXCEPT ![q] = Service!Rejected(error[q])]
      BY <1>5 DEF Complete, Settle
    <2>2. error[q] \in Errors
      BY <1>1, <1>5 DEF CallInv, Outcome
    <2> QED BY <1>1, <1>2, <1>3, <2>1, <2>2 DEF Service!Settle
  <1> QED BY <1>4, <1>5

(* The addon implements the abstract service, step by step: a promise         *)
(* resolves only with the answer to the arguments of the moment of the call,  *)
(* and is settled once.  (ImplementsService without its fairness: that every  *)
(* promise is settled in the end is TLC's to check.)                          *)
THEOREM AddonImplementsService ==
    Spec => Service!Init /\ [][Service!Next]_(Service!vars)
  <1>1. Init => Service!Init
    BY DEF Init, Service!Init
  <1>2. IInv /\ [Next]_vars => [Service!Next]_(Service!vars)
    <2> SUFFICES ASSUME IInv, [Next]_vars
                 PROVE  Service!Next \/ UNCHANGED <<asked, promise>>
      BY DEF Service!vars
    <2>1. ASSUME NEW q \in Calls, Reject(q) PROVE Service!Call(q, caller[q])
      BY <2>1 DEF IInv, CallInv, OwnArguments, Reject, Settle, Service!Call
    <2>2. ASSUME NEW q \in Calls, Call(q) PROVE Service!Call(q, caller[q])
      BY <2>2 DEF IInv, CallInv, OwnArguments, Call, Service!Call
    <2>3. ASSUME NEW q \in Calls, Reject(q) \/ Call(q) PROVE caller[q] \in Arguments
      BY <2>3 DEF IInv, CallInv, OwnArguments, Reject, Call
    <2>4. ASSUME NEW q \in Calls, CallerWrites(q) \/ PoolStep(q)
          PROVE  UNCHANGED <<asked, promise>>
      BY <2>4
      DEF CallerWrites, PoolStep, Execute, ExecuteFails, Hashing, Executed, workerVars
    <2>5. ASSUME UNCHANGED vars PROVE UNCHANGED <<asked, promise>>
      BY <2>5 DEF vars, workerVars
    <2> QED
      BY <2>1, <2>2, <2>3, <2>4, <2>5, CompleteSettles DEF Next, Idle, Service!Next
  <1> QED BY InvariantHolds, <1>1, <1>2, PTL DEF Spec

=============================================================================
