-------------------------------- MODULE Api ---------------------------------
(* index.ts: hash, verify and needsRehash over the native engine.             *)
(*                                                                            *)
(* JavaScript runs on one thread: what a function does up to its await is one *)
(* step, and what it does after it is another.  In between, other calls run   *)
(* and the caller may write into the Buffers it has passed.  The engine is    *)
(* the abstract HashService, which the native addon implements (Worker).      *)
EXTENDS Phc

CONSTANTS
    Hashes,         \* the calls of hash
    Verifies,       \* the calls of verify
    Requests,       \* what hash may be called with, the defaults filled in
    Attempts,       \* what verify may be called with, besides the digest
    Stored,         \* by name, digests that come from elsewhere: their fields,
                    \* and the arguments they were made with (None: no digest
                    \* of Argon2)
    Readings,       \* what Number makes of the texts that are not Decimals and
                    \* that it can read: large decimals, "0x10", ...
    Writable,       \* the Buffers a caller may overwrite after the call
    Short,          \* the texts of Buffers of fewer than 8 bytes
    MaxCost,        \* 4294967295, the upper bound of m, t and hashLength
    MaxParallelism  \* 16777215

VARIABLES
    request,        \* per hash: the arguments
    heap,           \* per hash: the present content of the caller's Buffers
    subject,        \* per verify: where the digest is from, and the attempt
    stage,          \* per call: "idle", "awaiting" or "done"
    settled,        \* per call: the promise of hash or verify
    asked,          \* per call: what the engine was asked
    promise         \* per call: the engine's promise

vars == <<request, heap, subject, stage, settled, asked, promise>>
Callers == Hashes \cup Verifies

EngineErrors == {"ARGON2_MEMORY_ALLOCATION_ERROR", "ARGON2_THREAD_FAIL"}

Engine ==
    INSTANCE HashService WITH
        Calls <- Callers, Arguments <- {}, Errors <- EngineErrors

Digest(fields) == [is |-> "phc", fields |-> fields]
NoSubject == [of |-> "nothing"]
NoRequest == [is |-> "none"]

Init ==
    /\ request = [q \in Hashes |-> NoRequest]
    /\ heap = [q \in Hashes |-> [password |-> "", salt |-> "", associatedData |-> ""]]
    /\ subject = [v \in Verifies |-> NoSubject]
    /\ stage = [c \in Callers |-> "idle"]
    /\ settled = [c \in Callers |-> Engine!Pending]
    /\ Engine!Init

names == [d |-> "argon2d", i |-> "argon2i", id |-> "argon2id"]
types == [argon2d |-> "d", argon2i |-> "i", argon2id |-> "id"]

(* types[id]: an id such as "constructor" finds what every object inherits.   *)
type_of_default(id) == IF id \in DOMAIN types THEN types[id] ELSE "i"
type_of(id) ==
    IF id \in DOMAIN types THEN types[id]
    ELSE IF id \in Inherited THEN "inherited" ELSE "undefined"

(* The text of an optional Buffer: none is an empty one. *)
textOf(buffer) == IF buffer = None THEN "" ELSE buffer.text

-----------------------------------------------------------------------------
(* hashRaw and verifyRaw: the checks of applyDefaultsAndValidate.             *)
OutOfBounds(a) ==
    \/ a.salt \in Short
    \/ a.m \notin 8 .. MaxCost \/ a.t \notin 1 .. MaxCost
    \/ a.p \notin 1 .. MaxParallelism
    \/ a.m < 8 * a.p
    \/ a.version \notin {16, 19}
    \/ a.type \notin DOMAIN names
    \/ a.outlen \notin 4 .. MaxCost

(* Ends a call with outcome, without asking the engine. *)
Finish(c, outcome) ==
    /\ stage' = [stage EXCEPT ![c] = "done"]
    /\ settled' = [settled EXCEPT ![c] = outcome]

(* Asks the engine, or refuses what is out of bounds. *)
Raw(c, a) ==
    \/ /\ OutOfBounds(a)
       /\ Finish(c, Engine!Rejected("RangeError"))
       /\ UNCHANGED <<asked, promise>>
    \/ /\ ~OutOfBounds(a)
       /\ Engine!Call(c, a)
       /\ stage' = [stage EXCEPT ![c] = "awaiting"]
       /\ settled' = settled

(* hash, up to its await.  Without a salt, one is generated. *)
saltOf(o) == IF o.salt = None THEN "random" ELSE o.salt.text

HashArguments(o) ==
    [kind |-> "hash", typed |-> TRUE, password |-> o.password, salt |-> saltOf(o),
     saltlen |-> 1, secret |-> textOf(o.secret), data |-> textOf(o.associatedData),
     m |-> o.memoryCost, t |-> o.timeCost, p |-> o.parallelism,
     outlen |-> o.hashLength, version |-> o.version, type |-> o.type,
     expected |-> None]

HashCall(q, o) ==
    /\ stage[q] = "idle"
    /\ request' = [request EXCEPT ![q] = o]
    /\ heap' = [heap EXCEPT ![q] = [password |-> o.password, salt |-> saltOf(o),
                                    associatedData |-> textOf(o.associatedData)]]
    /\ Raw(q, HashArguments(o))
    /\ UNCHANGED subject

(* The caller overwrites a Buffer: the password as the README says, or one    *)
(* it should have left alone.                                                 *)
CallerWrites(q, name) ==
    /\ stage[q] = "awaiting" /\ name \in Writable
    /\ heap' = [heap EXCEPT ![q][name] = "overwritten"]
    /\ UNCHANGED <<request, subject, stage, settled, asked, promise>>

(* hash, after its await: the salt and the associated data are read from the  *)
(* caller's Buffers, which hash still refers to.                              *)
salt_used(q) == heap[q].salt

digest_params(o, data) ==
    << <<"m", Num(o.memoryCost)>>, <<"t", Num(o.timeCost)>>, <<"p", Num(o.parallelism)>> >>
    \o Field(data # "", <<"data", Buf(data)>>)

digest(o, salt, data, tag) ==
    serialize([id |-> names[o.type], version |-> Num(o.version),
               params |-> Params(digest_params(o, data)), salt |-> Buf(salt),
               hash |-> Buf(tag)])

Encoded(q) ==
    digest(request[q], salt_used(q), heap[q].associatedData, promise[q].value)

HashResume_ok_only(q) ==
    /\ stage[q] = "awaiting" /\ promise[q].state = "resolved"
    /\ Finish(q, IF request[q].raw THEN promise[q]
                 ELSE Engine!Resolved(Digest(Encoded(q).fields)))
    /\ UNCHANGED <<request, heap, subject, asked, promise>>

HashResume(q) ==
    /\ stage[q] = "awaiting" /\ promise[q] # Engine!Pending
    /\ \/ /\ promise[q].state = "rejected" \/ request[q].raw
          /\ Finish(q, promise[q])
       \/ /\ promise[q].state = "resolved" /\ ~request[q].raw
          /\ Finish(q, IF Failed(Encoded(q)) THEN Engine!Rejected("TypeError")
                       ELSE Engine!Resolved(Digest(Encoded(q).fields)))
    /\ UNCHANGED <<request, heap, subject, asked, promise>>

-----------------------------------------------------------------------------
(* verify.  A cost is a number, or a text (deserialize keeps the decimals     *)
(* that are not safe) of which Number makes a number, or NaN: no cost.        *)
NaN == -1
number(value) ==
    CASE value.is = "number" -> value.n
      [] value.is = "string" /\ value.text \in DOMAIN Readings -> Readings[value.text]
      [] OTHER -> NaN

(* A param that looks like a number is none for data.  Buffer.from of another *)
(* is the Buffer it was written from: what hash writes is canonical.          *)
data_of(value) == IF value.is = "string" THEN value.text ELSE ""

AboveLimits_m_only(d, limits) == number(param(d, "m")) > limits.memoryCost

AboveLimits(d, limits) ==
    \/ number(param(d, "m")) > limits.memoryCost
    \/ number(param(d, "t")) > limits.timeCost
    \/ number(param(d, "p")) > limits.parallelism

version_of_latest(d) == IF d.version = None THEN 19 ELSE d.version.n

version_of(d) == IF d.version = None THEN 16 ELSE d.version.n

VerifyArguments(d, attempt) ==
    [kind |-> "verify", typed |-> TRUE, password |-> attempt.password,
     salt |-> d.salt.text, saltlen |-> 1, secret |-> textOf(attempt.secret),
     data |-> data_of(param(d, "data")),
     m |-> number(param(d, "m")), t |-> number(param(d, "t")),
     p |-> number(param(d, "p")), outlen |-> d.hash.text.outlen,
     version |-> version_of(d), type |-> type_of(d.id), expected |-> d.hash.text]

(* verify, up to its await. *)
Verify(v, fields, attempt) ==
    LET d == deserialize(fields)
        refuse(outcome) == Finish(v, outcome) /\ UNCHANGED <<asked, promise>>
    IN  IF Failed(d) THEN refuse(Engine!Rejected("TypeError"))
        ELSE IF type_of(d.id) = "undefined"
        THEN refuse(Engine!Resolved(Engine!Match(FALSE)))
        ELSE IF \/ d.salt = None \/ d.hash = None
                \/ \E name \in {"m", "t", "p"} : number(param(d, name)) = NaN
        THEN refuse(Engine!Rejected("TypeError"))
        ELSE IF AboveLimits(d, attempt.limits)
        THEN refuse(Engine!Rejected("RangeError"))
        ELSE Raw(v, VerifyArguments(d, attempt))

(* The largest costs are safe integers.  A digest from elsewhere has the      *)
(* fields that hash would have written, the version left out if it is the     *)
(* first one; or it holds the hash of no attempt.                             *)
Parameters ==
    {"password", "salt", "secret", "associatedData", "memoryCost", "timeCost",
     "parallelism", "hashLength", "version", "type", "raw"}

made_by(o, fields) ==
    LET a == HashArguments(o)
        written == digest(o, a.salt, a.data, Engine!TagOf(a))
        w == written.fields
    IN  /\ ~OutOfBounds(a) /\ ~Failed(written) /\ a.data \notin Decimals
        /\ fields = w \/ (o.version = 16 /\ fields = <<w[1]>> \o SubSeq(w, 3, 5))

ASSUME CallsAssumption == Hashes \cap Verifies = {} /\ Hashes \cap DOMAIN Stored = {}
ASSUME CostsAssumption ==
    /\ {MaxCost, MaxParallelism, 19} \subseteq 0 .. MaxSafe
    /\ \A o \in Requests : DOMAIN o = Parameters /\ o.raw \in BOOLEAN
    /\ \A attempt \in Attempts :
         {attempt.limits.memoryCost, attempt.limits.timeCost, attempt.limits.parallelism}
            \subseteq Nat
ASSUME StoredAssumption ==
    \A s \in DOMAIN Stored :
        LET d == deserialize(Stored[s].fields)
        IN  IF Stored[s].maker # None THEN made_by(Stored[s].maker, Stored[s].fields)
            ELSE \A attempt \in Attempts :
                    ~Failed(d) /\ d.id \in DOMAIN types
                       /\ d.salt # None /\ d.hash # None =>
                    Engine!TagOf(VerifyArguments(d, attempt)) # d.hash.text

(* The digests to verify: those that hash has made, and those from elsewhere. *)
Made == {q \in Hashes : settled[q].state = "resolved" /\ settled[q].value.is = "phc"}
FieldsOf(of) == IF of \in Hashes THEN settled[of].value.fields ELSE Stored[of].fields

VerifyCall(v, of, attempt) ==
    /\ stage[v] = "idle"
    /\ subject' = [subject EXCEPT ![v] = [of |-> of, attempt |-> attempt]]
    /\ Verify(v, FieldsOf(of), attempt)
    /\ UNCHANGED <<request, heap>>

VerifyResume(v) ==
    /\ stage[v] = "awaiting" /\ promise[v] # Engine!Pending
    /\ Finish(v, promise[v])
    /\ UNCHANGED <<request, heap, subject, asked, promise>>

(* The engine settles a promise of its own. *)
EngineSettles(c) ==
    /\ Engine!Settle(c)
    /\ UNCHANGED <<request, heap, subject, stage, settled>>

AllDone == (\A c \in Callers : stage[c] = "done") /\ UNCHANGED vars

Resume(c) ==
    \/ c \in Hashes /\ HashResume(c)
    \/ c \in Verifies /\ VerifyResume(c)

Next ==
    \/ \E q \in Hashes, o \in Requests : HashCall(q, o)
    \/ \E q \in Hashes, name \in Writable : CallerWrites(q, name)
    \/ \E v \in Verifies, of \in Made \cup DOMAIN Stored, attempt \in Attempts :
          VerifyCall(v, of, attempt)
    \/ \E c \in Callers : EngineSettles(c) \/ Resume(c)
    \/ AllDone

(* The engine settles its promises, and the event loop runs continuations. *)
Fairness == \A c \in Callers : WF_vars(EngineSettles(c)) /\ WF_vars(Resume(c))

Spec == Init /\ [][Next]_vars
FairSpec == Spec /\ Fairness

(* needsRehash, a synchronous function of a digest and the costs in use. *)
needsRehash_weaker_only(fields, o) ==
    LET d == deserialize(fields)
    IN  \/ version_of(d) < o.version
        \/ number(param(d, "m")) < o.memoryCost
        \/ number(param(d, "t")) < o.timeCost
        \/ number(param(d, "p")) < o.parallelism

needsRehash(fields, o) ==
    LET d == deserialize(fields)
    IN  \/ version_of(d) # o.version
        \/ number(param(d, "m")) # o.memoryCost
        \/ number(param(d, "t")) # o.timeCost
        \/ number(param(d, "p")) # o.parallelism

-----------------------------------------------------------------------------
(* Who made a digest: the options of a hash call, or what is on record for a  *)
(* stored one.                                                                *)
Maker(of) == IF of \in Hashes THEN request[of] ELSE Stored[of].maker

(* verify (index.ts) recomputes the hash with what it parses from the digest. *)
(* Whatever writes hash's caller does to the password Buffer meanwhile, and   *)
(* also for digests that predate the version field, verify answers true       *)
(* exactly for the password and the secret the digest was made with, and      *)
(* fails only for the engine's errors or costs above the limits.              *)
DigestVerifies ==
    \A v \in Verifies :
        (stage[v] = "done" /\ Maker(subject[v].of) # None) =>
            LET maker == Maker(subject[v].of)
                attempt == subject[v].attempt
                right == /\ attempt.password = maker.password
                         /\ textOf(attempt.secret) = textOf(maker.secret)
            IN  \/ settled[v] = Engine!Resolved(Engine!Match(right))
                \/ \E code \in EngineErrors : settled[v] = Engine!Rejected(code)
                \/ /\ settled[v] = Engine!Rejected("RangeError")
                   /\ \/ maker.memoryCost > attempt.limits.memoryCost
                      \/ maker.timeCost > attempt.limits.timeCost
                      \/ maker.parallelism > attempt.limits.parallelism

(* verify's costs come from a digest it has no reason to trust.  The engine   *)
(* is never asked for more than the caller's limits, whatever form the costs  *)
(* take in the digest.                                                        *)
LimitsBeforeWork ==
    \A v \in Verifies :
        asked[v] # Engine!NoArguments =>
            /\ asked[v].m \in 8 .. subject[v].attempt.limits.memoryCost
            /\ asked[v].t \in 1 .. subject[v].attempt.limits.timeCost
            /\ asked[v].p \in 1 .. subject[v].attempt.limits.parallelism

(* verify of digests that Argon2 has not made.  No password is right for one, *)
(* the engine is never asked about one that names another scheme, and where   *)
(* deserialize can parse such a digest the answer is false, except for the    *)
(* one name that types[id] finds although it is not there.  (The comment of   *)
(* verify promises false for the digests of all other schemes.)               *)
StrangersGetFalse ==
    \A v \in Verifies :
        (stage[v] = "done" /\ Maker(subject[v].of) = None) =>
            LET d == deserialize(FieldsOf(subject[v].of))
            IN  /\ settled[v] # Engine!Resolved(Engine!Match(TRUE))
                /\ (~Failed(d) /\ d.id \notin DOMAIN types) =>
                     /\ asked[v] = Engine!NoArguments
                     /\ d.id \in Inherited
                          \/ settled[v] = Engine!Resolved(Engine!Match(FALSE))

(* needsRehash reads the costs back from a digest, of hash or from before the *)
(* version field: it says that a digest is to be replaced exactly when the    *)
(* costs in use are not those it was made with, so that a digest just         *)
(* replaced is never again.                                                   *)
RehashAgrees ==
    \A of \in Made \cup {s \in DOMAIN Stored : Stored[s].maker # None} :
        \A o \in Requests :
            needsRehash(FieldsOf(of), o) <=>
                \/ Maker(of).version # o.version
                \/ Maker(of).memoryCost # o.memoryCost
                \/ Maker(of).timeCost # o.timeCost
                \/ Maker(of).parallelism # o.parallelism

(* Every promise of hash and verify is settled, the engine's errors included. *)
EveryPromiseSettles ==
    \A c \in Callers : stage[c] = "awaiting" ~> stage[c] = "done"
=============================================================================
