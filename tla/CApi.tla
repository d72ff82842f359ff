-------------------------------- MODULE CApi ---------------------------------
(* The C interface (argon2.c) over argon2_ctx and the strings of encoding.c:  *)
(* a program that calls argon2_ctx, argon2_hash and argon2_verify, one call   *)
(* after the other, and verifies the strings it has hashed or been given.     *)
(*                                                                            *)
(* Lengths that the interface takes are size_t, those of a context uint32_t.  *)
(* Any malloc may fail.                                                       *)
EXTENDS Argon2Ctx, Encoding

CONSTANTS
    Contexts,       \* the contexts the program passes to argon2_ctx
    Contents,       \* what their password and secret buffers may contain
    Programs,       \* sequences of the functions a program calls
    HashArguments,  \* the arguments of argon2_hash
    Attempts,       \* the password, its length and the type given to argon2_verify
    Strings         \* the strings given from elsewhere, each with its maker

(* argon2_context: of what a program passes to argon2_ctx, only the types of  *)
(* the fields are known.                                                      *)
argon2_context ==
    [out : {NULL, SET}, outlen : 0 .. Word - 1,
     pwd : {NULL, SET}, pwdlen : 0 .. Word - 1,
     salt : {NULL, SET}, saltlen : 0 .. Word - 1,
     secret : {NULL, SET}, secretlen : 0 .. Word - 1,
     ad : {NULL, SET}, adlen : 0 .. Word - 1,
     t_cost : 0 .. Word - 1, m_cost : 0 .. Word - 1,
     lanes : 0 .. Word - 1, threads : 0 .. Word - 1,
     allocate_cbk : {NULL, SET}, free_cbk : {NULL, SET},
     flags : SUBSET {"CLEAR_PASSWORD", "CLEAR_SECRET"},
     version : {16, 19}, type : {"d", "i", "id", "unknown"}]

ASSUME ContextsAssumption == \A c \in Contexts : c \in argon2_context
ASSUME ProgramsAssumption ==
    \A p \in Programs : /\ p \in Seq({"argon2_ctx", "argon2_hash", "argon2_verify"})
                        /\ DOMAIN p \subseteq Calls

VARIABLES
    program,        \* the calls the program makes
    at,             \* per call: where the function is
    args,           \* per call: its arguments
    subject,        \* per call of argon2_verify: the string
    heap,           \* per call: the life of each buffer it allocates
    ptr,            \* per call: what the local pointers point to
    hash,           \* per call: the caller's buffer for the tag
    encoded,        \* per call: the caller's buffer for the string
    ret             \* per call: the return value

apiVars == <<program, at, args, subject, heap, ptr, hash, encoded, ret>>
cVars == <<ctxVars, apiVars>>

Buffers == {"salt", "first", "second"}      \* by the malloc they come from
NoPointers == [salt |-> NULL, out |-> NULL, desired |-> NULL]
NoMaker == [pwd |-> NULL, pwdlen |-> 0, type |-> NULL]
Given(fields, maker) == [null |-> FALSE, fields |-> fields, maker |-> maker]
NoString == [Given(<<>>, NoMaker) EXCEPT !.null = TRUE]
String(fields) == [is |-> "string", fields |-> fields]
NoContext == [pwd |-> NULL, secret |-> NULL]

CInit ==
    /\ pc = [q \in Calls |-> "idle"]
    /\ context = [q \in Calls |-> NoContext]
    /\ buf = [q \in Calls |-> [pwd |-> NULL, secret |-> NULL]]
    /\ instance = [q \in Calls |-> NoInstance]
    /\ matrix = [q \in Calls |-> NoMatrix]
    /\ out = [q \in Calls |-> NoTag]
    /\ result = [q \in Calls |-> "ARGON2_OK"]
    /\ program \in Programs
    /\ at = [q \in Calls |-> "idle"]
    /\ args = [q \in Calls |-> NULL]
    /\ subject = [q \in Calls |-> NoString]
    /\ heap = [q \in Calls |-> [b \in Buffers |-> "none"]]
    /\ ptr = [q \in Calls |-> NoPointers]
    /\ hash = [q \in Calls |-> NoTag]
    /\ encoded = [q \in Calls |-> NoTag]
    /\ ret = [q \in Calls |-> NULL]

-----------------------------------------------------------------------------
(* Call q of the program, which is next. *)
Calling(q, function) ==
    /\ q \in DOMAIN program /\ program[q] = function
    /\ at[q] = "idle"
    /\ \A k \in Calls : k < q => at[k] = "done"

Finish(q, code) ==
    /\ at' = [at EXCEPT ![q] = "done"]
    /\ ret' = [ret EXCEPT ![q] = code]

(* argon2_ctx is entered with context c; label is where its caller waits. *)
Enter(q, c, contents, label) ==
    /\ pc' = [pc EXCEPT ![q] = "validate"]
    /\ context' = [context EXCEPT ![q] = c]
    /\ buf' = [buf EXCEPT ![q] = contents]
    /\ at' = [at EXCEPT ![q] = label]
    /\ UNCHANGED <<instance, matrix, out, result>>

Malloced(h, buffers) == [b \in Buffers |-> IF b \in buffers THEN "live" ELSE h[b]]
Freed(h, buffers) ==
    [b \in Buffers |-> IF b \notin buffers THEN h[b]
                       ELSE IF h[b] = "live" THEN "freed" ELSE "undefined"]

-----------------------------------------------------------------------------
(* A program's own call of argon2_ctx. *)
CtxCall(q, c, contents) ==
    /\ Calling(q, "argon2_ctx")
    /\ Enter(q, c, contents, "argon2_ctx")
    /\ UNCHANGED <<program, args, subject, heap, ptr, hash, encoded, ret>>

CtxReturns(q) ==
    /\ at[q] = "argon2_ctx" /\ pc[q] = "returned"
    /\ Finish(q, result[q])
    /\ UNCHANGED <<ctxVars, program, args, subject, heap, ptr, hash, encoded>>

-----------------------------------------------------------------------------
(* argon2_hash, and the functions that call it with a type, the current       *)
(* version and one of the two outputs.                                        *)
hash_encoded(a) == [a EXCEPT !.hash = NULL, !.version = VERSION_NUMBER]
hash_raw(a) ==
    [a EXCEPT !.encoded = NULL, !.encodedlen = 0, !.version = VERSION_NUMBER]

MaxLength == Word - 1       \* ARGON2_MAX_PWD_LENGTH and the like

hash_checks_but_pwdlen(a) ==
    << Check(a.saltlen > MaxLength, "ARGON2_SALT_TOO_LONG"),
       Check(a.hashlen > MaxLength, "ARGON2_OUTPUT_TOO_LONG"),
       Check(a.hashlen < MinOutlen, "ARGON2_OUTPUT_TOO_SHORT") >>
hash_checks(a) ==
    << Check(a.pwdlen > MaxLength, "ARGON2_PWD_TOO_LONG"),
       Check(a.saltlen > MaxLength, "ARGON2_SALT_TOO_LONG"),
       Check(a.hashlen > MaxLength, "ARGON2_OUTPUT_TOO_LONG"),
       Check(a.hashlen < MinOutlen, "ARGON2_OUTPUT_TOO_SHORT") >>

hash_context(a) ==
    [out |-> SET, outlen |-> uint32(a.hashlen),
     pwd |-> IF a.pwd = NULL THEN NULL ELSE SET, pwdlen |-> uint32(a.pwdlen),
     salt |-> a.salt, saltlen |-> uint32(a.saltlen), secret |-> NULL, secretlen |-> 0,
     ad |-> NULL, adlen |-> 0, t_cost |-> a.t_cost, m_cost |-> a.m_cost,
     lanes |-> a.parallelism, threads |-> a.parallelism,
     allocate_cbk |-> NULL, free_cbk |-> NULL, flags |-> {},
     version |-> a.version, type |-> a.type]

(* What its pointers lead to, for argon2_hash and argon2_verify. *)
buffers_of(a) == [pwd |-> a.pwd, secret |-> NULL]

HashRefuses(q, a) ==
    /\ Calling(q, "argon2_hash")
    /\ args' = [args EXCEPT ![q] = a]
    /\ \/ \E n \in DOMAIN hash_checks(a) :
             FirstFailure(hash_checks(a), n) /\ Finish(q, hash_checks(a)[n].code)
       \/ /\ \A n \in DOMAIN hash_checks(a) : ~hash_checks(a)[n].fails
          /\ Finish(q, "ARGON2_MEMORY_ALLOCATION_ERROR")
    /\ UNCHANGED <<ctxVars, program, subject, heap, ptr, hash, encoded>>

HashCall(q, a) ==
    /\ Calling(q, "argon2_hash")
    /\ \A n \in DOMAIN hash_checks(a) : ~hash_checks(a)[n].fails
    /\ args' = [args EXCEPT ![q] = a]
    /\ heap' = [heap EXCEPT ![q] = Malloced(@, {"first"})]
    /\ Enter(q, hash_context(a), buffers_of(a), "argon2_hash")
    /\ UNCHANGED <<program, subject, ptr, hash, encoded, ret>>

(* What is left when argon2_ctx has returned: the outputs are written, and    *)
(* out is wiped and freed, on every path.                                     *)
wants_encoded(a) == a.encoded # NULL /\ a.encodedlen # 0

encoded_after(q, ok) ==
    IF ok THEN String(Encoded(context[q], out[q], args[q].type)) ELSE ZeroTag

HashReturns(q) ==
    LET a == args[q]
        hashed == result[q] = "ARGON2_OK"
        encodes == hashed /\ wants_encoded(a)
        ok == encode_string(a.encodedlen, context[q], a.type) = "ARGON2_OK"
    IN  /\ at[q] = "argon2_hash" /\ pc[q] = "returned"
        /\ hash' = IF hashed /\ a.hash # NULL THEN [hash EXCEPT ![q] = out[q]] ELSE hash
        /\ encoded' = IF encodes THEN [encoded EXCEPT ![q] = encoded_after(q, ok)]
                                 ELSE encoded
        /\ Finish(q, IF encodes /\ ~ok THEN "ARGON2_ENCODING_FAIL" ELSE result[q])
        /\ out' = [out EXCEPT ![q] = ZeroTag]
        /\ heap' = [heap EXCEPT ![q] = Freed(@, {"first"})]
        /\ UNCHANGED <<pc, context, buf, instance, matrix, result, program, args,
                       subject, ptr>>

-----------------------------------------------------------------------------
(* argon2_verify: a is the password and the type, s the string. *)
VerifyRefuses(q, s, a) ==
    /\ Calling(q, "argon2_verify")
    /\ args' = [args EXCEPT ![q] = a]
    /\ subject' = [subject EXCEPT ![q] = s]
    /\ \/ a.pwdlen > MaxLength /\ Finish(q, "ARGON2_PWD_TOO_LONG")
       \/ /\ a.pwdlen <= MaxLength
          /\ s.null \/ Strlen(s.fields) > MaxLength
          /\ Finish(q, "ARGON2_DECODING_FAIL")
    /\ UNCHANGED <<ctxVars, program, heap, ptr, hash, encoded>>

(* The first two buffers, each as long as the string.  A pointer is NULL if   *)
(* its malloc fails.                                                          *)
VerifyCall(q, s, a) ==
    /\ Calling(q, "argon2_verify")
    /\ a.pwdlen <= MaxLength
    /\ ~s.null /\ Strlen(s.fields) <= MaxLength
    /\ args' = [args EXCEPT ![q] = a]
    /\ subject' = [subject EXCEPT ![q] = s]
    /\ \E salt \in {"salt", NULL}, first \in {"first", NULL} :
          /\ ptr' = [ptr EXCEPT ![q] = [@ EXCEPT !.salt = salt, !.out = first]]
          /\ heap' = [heap EXCEPT ![q] = Malloced(@, {salt, first} \ {NULL})]
    /\ at' = [at EXCEPT ![q] = "decode"]
    /\ UNCHANGED <<ctxVars, program, hash, encoded, ret>>

(* The label fail, which the end of the function runs through as well. *)
pointers_but_desired(q) == {ptr[q].salt, ptr[q].out} \ {NULL}
pointers(q) == {ptr[q].salt, ptr[q].out, ptr[q].desired} \ {NULL}

Fail(q, code) ==
    /\ heap' = [heap EXCEPT ![q] = Freed(@, pointers(q))]
    /\ Finish(q, code)

(* The context that decode_string is given: buffers as long as the string,    *)
(* the rest not initialized.                                                  *)
verify_context(s, a) ==
    LET max_field_len == uint32(Strlen(s.fields))
    IN  [out |-> SET, outlen |-> max_field_len, salt |-> SET, saltlen |-> max_field_len,
         pwd |-> IF a.pwd = NULL THEN NULL ELSE SET,
         pwdlen |-> uint32(a.pwdlen), type |-> a.type,
         secret |-> SET, secretlen |-> 1, ad |-> SET, adlen |-> 1,
         t_cost |-> 0, m_cost |-> 0, lanes |-> 0, threads |-> 0, version |-> 0,
         allocate_cbk |-> NULL, free_cbk |-> SET, flags |-> {"CLEAR_PASSWORD"}]

decodes(s, a) == decode_string(s.fields, verify_context(s, a), a.type)

(* What decode_string makes of it. *)
decoded_context(s, a) == DecodedContext(s.fields, verify_context(s, a))

DecodeFails(q) ==
    /\ at[q] = "decode"
    /\ IF ptr[q].salt = NULL \/ ptr[q].out = NULL
       THEN Fail(q, "ARGON2_MEMORY_ALLOCATION_ERROR")
       ELSE /\ decodes(subject[q], args[q]) # "ARGON2_OK"
            /\ Fail(q, decodes(subject[q], args[q]))
    /\ UNCHANGED <<ctxVars, program, args, subject, ptr, hash, encoded>>

(* Set aside the desired result, and get a new buffer. *)
SetAside(q) ==
    /\ at[q] = "decode"
    /\ ptr[q].salt # NULL /\ ptr[q].out # NULL
    /\ decodes(subject[q], args[q]) = "ARGON2_OK"
    /\ \E second \in {"second", NULL} :
          /\ ptr' = [ptr EXCEPT ![q] = [@ EXCEPT !.desired = ptr[q].out, !.out = second]]
          /\ heap' = [heap EXCEPT ![q] = Malloced(@, {second} \ {NULL})]
    /\ at' = [at EXCEPT ![q] = "decoded"]
    /\ UNCHANGED <<ctxVars, program, args, subject, hash, encoded, ret>>

NoSecondBuffer(q) ==
    /\ at[q] = "decoded" /\ ptr[q].out = NULL
    /\ Fail(q, "ARGON2_MEMORY_ALLOCATION_ERROR")
    /\ UNCHANGED <<ctxVars, program, args, subject, ptr, hash, encoded>>

VerifyEnters(q) ==
    /\ at[q] = "decoded" /\ ptr[q].out # NULL
    /\ Enter(q, decoded_context(subject[q], args[q]), buffers_of(args[q]),
             "argon2_verify")
    /\ UNCHANGED <<program, args, subject, heap, ptr, hash, encoded, ret>>

(* argon2_verify_ctx, from the return of argon2_ctx on. *)
argon2_compare(b1, b2) == IF b1 = b2 THEN 0 ELSE -1

verify_ctx_unchecked(q) ==
    IF argon2_compare(DecodedOut(subject[q].fields), out[q]) # 0
    THEN "ARGON2_VERIFY_MISMATCH" ELSE "ARGON2_OK"
verify_ctx_result(q) ==
    IF result[q] # "ARGON2_OK" THEN result[q]
    ELSE IF argon2_compare(DecodedOut(subject[q].fields), out[q]) # 0
    THEN "ARGON2_VERIFY_MISMATCH" ELSE "ARGON2_OK"

VerifyReturns(q) ==
    /\ at[q] = "argon2_verify" /\ pc[q] = "returned"
    /\ Fail(q, verify_ctx_result(q))
    /\ UNCHANGED <<ctxVars, program, args, subject, ptr, hash, encoded>>

-----------------------------------------------------------------------------
(* The first call verifies strings from elsewhere, a later one what has been  *)
(* hashed before it.                                                          *)
Maker(a) == [pwd |-> a.pwd, pwdlen |-> a.pwdlen, type |-> a.type]
Subjects(q) ==
    IF q = 1 THEN Strings
    ELSE {Given(encoded[k].fields, Maker(args[k])) :
            k \in {k \in Calls : k < q /\ encoded[k].is = "string"}}

(* The lengths are size_t, the costs uint32_t, and the version is one of      *)
(* argon2_version.  A string from elsewhere has as its maker who knows the    *)
(* password that its tag is the tag of, if anyone does.                       *)
HashParameters ==
    {"t_cost", "m_cost", "parallelism", "pwd", "pwdlen", "salt", "saltlen", "hash",
     "hashlen", "encoded", "encodedlen", "type", "version"}

argument_types(a) ==
    /\ {a.pwdlen, a.saltlen, a.hashlen, a.encodedlen} \subseteq Nat
    /\ {a.t_cost, a.m_cost, a.parallelism} \subseteq 0 .. Word - 1
    /\ a.version \in {VERSION_10, VERSION_NUMBER}

ASSUME HashArgumentsAssumption ==
    \A a \in HashArguments : DOMAIN a = HashParameters /\ argument_types(a)
ASSUME AttemptsAssumption == \A a \in Attempts : a.pwdlen \in Nat
ASSUME StringsAssumption ==
    /\ \A s \in Strings : c_string(s.fields) /\ Strlen(s.fields) \in Nat
    /\ \A s \in Strings, a \in Attempts : Strlen(s.fields) <= MaxLength =>
         (s.maker = Maker(a) <=>
             /\ ~s.null /\ a.pwdlen <= MaxLength /\ decodes(s, a) = "ARGON2_OK"
             /\ DecodedOut(s.fields) = Digest(decoded_context(s, a), buffers_of(a)))

CallCtx(q) ==
    /\ Calling(q, "argon2_ctx")
    /\ \E c \in Contexts, pwd, secret \in Contents :
          CtxCall(q, c, [pwd |-> pwd, secret |-> secret])

CallHash(q) ==
    /\ Calling(q, "argon2_hash")
    /\ \E a \in HashArguments :
          \E given \in {a, hash_encoded(a), hash_raw(a)} :
             HashRefuses(q, given) \/ HashCall(q, given)

CallVerify(q) ==
    /\ Calling(q, "argon2_verify")
    /\ \E s \in Subjects(q), a \in Attempts : VerifyRefuses(q, s, a) \/ VerifyCall(q, s, a)

(* The steps of a call that has been made. *)
Proceed(q) ==
    \/ CtxReturns(q) \/ HashReturns(q)
    \/ DecodeFails(q) \/ SetAside(q) \/ NoSecondBuffer(q) \/ VerifyEnters(q)
    \/ VerifyReturns(q)
    \/ argon2_ctx(q) /\ UNCHANGED apiVars

CNext == \E q \in Calls : CallCtx(q) \/ CallHash(q) \/ CallVerify(q) \/ Proceed(q)

CSpec == CInit /\ [][CNext]_cVars

-----------------------------------------------------------------------------
Done(q, function) == at[q] = "done" /\ program[q] = function
Calls_of(function) == {q \in DOMAIN program : Done(q, function)}

ResourceErrors == {"ARGON2_MEMORY_ALLOCATION_ERROR", "ARGON2_THREAD_FAIL"}

(* argon2_verify: what verifies was made from the password and the type that  *)
(* are given; a string that nobody made never verifies.                       *)
OnlyMakersVerify ==
    \A q \in Calls_of("argon2_verify") :
        ret[q] = "ARGON2_OK" => subject[q].maker = Maker(args[q])

(* argon2_verify of argon2_hash: a string verifies with what it was made      *)
(* from, whatever its costs, version and lengths, unless resources run out or *)
(* its length is no uint32_t.                                                 *)
MakersVerify ==
    \A q \in Calls_of("argon2_verify") :
        /\ subject[q].maker = Maker(args[q])
        /\ Strlen(subject[q].fields) <= MaxLength
        => ret[q] \in {"ARGON2_OK"} \cup ResourceErrors

(* argon2_verify answers ARGON2_OK to the maker of a string and to no other. *)
VerdictIsRight == OnlyMakersVerify /\ MakersVerify

(* The digest of the arguments of argon2_hash, with no length truncated. *)
DigestOf(a) ==
    [Digest(hash_context(a), buffers_of(a)) EXCEPT
        !.pwdlen = a.pwdlen, !.saltlen = a.saltlen, !.outlen = a.hashlen]

(* argon2_hash: what is in the caller's buffers is the digest of exactly the  *)
(* arguments; if the call fails the string is not there, or wiped, and a tag  *)
(* is left behind only when it was the string that did not fit.               *)
OutputsMatchArguments ==
    \A q \in Calls_of("argon2_hash") :
        LET a == args[q]
        IN  /\ hash[q] \in {NoTag, DigestOf(a)}
            /\ encoded[q].is = "string" =>
                 ret[q] = "ARGON2_OK" /\ encoded[q].fields[5].content = DigestOf(a)
            /\ ret[q] = "ARGON2_OK" =>
                 /\ a.hash # NULL => hash[q] = DigestOf(a)
                 /\ wants_encoded(a) => encoded[q].is = "string"
            /\ ret[q] \notin {"ARGON2_OK", "ARGON2_ENCODING_FAIL"} => hash[q] = NoTag

(* argon2_hash and argon2_verify free each buffer they allocate, once, and on *)
(* no path leave the tag of argon2_hash in freed memory.                      *)
BuffersFreed ==
    \A q \in Calls : at[q] = "done" =>
        /\ \A b \in Buffers : heap[q][b] \in {"none", "freed"}
        /\ program[q] = "argon2_hash" => out[q] \in {NoTag, ZeroTag}

(* argon2_encodedlen says how long the string is, to the character: with that *)
(* size argon2_hash never fails to encode, and with less it always does.      *)
EncodedLenExact ==
    \A q \in Calls_of("argon2_hash") :
        LET a == args[q]
        IN  wants_encoded(a) /\ ret[q] \in {"ARGON2_OK", "ARGON2_ENCODING_FAIL"} =>
              (ret[q] = "ARGON2_OK" <=>
                 a.encodedlen >= argon2_encodedlen(a.t_cost, a.m_cost, a.parallelism,
                                                   a.saltlen, a.hashlen, a.type))
=============================================================================
