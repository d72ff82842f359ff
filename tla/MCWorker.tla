------------------------------ MODULE MCWorker ------------------------------
(* Small instances of the addon: calls with few arguments. *)
EXTENDS Worker

(* The tags and the empty Buffer of the service. *)
Tags == INSTANCE HashService WITH Arguments <- {}, Errors <- {}

CONSTANTS HashCall, VerifyCall, BadCall, SerialCall

(* A hash with a secret and two lanes; m, t and p as small as they can be. *)
HashArguments ==
    [kind |-> "hash", typed |-> TRUE, password |-> "pw", secret |-> "pepper",
     salt |-> "salt", saltlen |-> 2, data |-> Tags!EMPTY, outlen |-> 1, expected |-> NoTag,
     m |-> 17, t |-> 1, p |-> 2, version |-> 19, type |-> "id"]

(* A verification, of the right digest, with one lane: the fill cannot fail. *)
SerialArguments ==
    [HashArguments EXCEPT !.p = 1, !.data = "ad", !.secret = Tags!EMPTY]

VerifyArguments ==
    [SerialArguments EXCEPT !.kind = "verify", !.expected = Tags!TagOf(SerialArguments)]

(* Rejected by argon2_ctx (the salt is too short), or by the argument check. *)
ShortSalt == [HashArguments EXCEPT !.saltlen = 1, !.password = Tags!EMPTY]
NotTyped == [HashArguments EXCEPT !.typed = FALSE]

MCArguments ==
    (IF HashCall THEN {HashArguments} ELSE {})
    \cup (IF VerifyCall THEN {VerifyArguments} ELSE {})
    \cup (IF BadCall THEN {ShortSalt, NotTyped} ELSE {})
    \cup (IF SerialCall THEN {SerialArguments} ELSE {})
=============================================================================
