---------------------------- MODULE HashService -----------------------------
(* What the native addon promises to its caller, whatever goes on inside: a   *)
(* call's arguments are those of the moment of the call, its promise is       *)
(* settled once, and a promise that resolves carries the tag of exactly those *)
(* arguments (hash), or whether that tag is the expected one (verify).        *)
EXTENDS Integers

CONSTANTS
    Calls,          \* the calls
    Arguments,      \* what a caller may pass
    Errors          \* the reasons for a rejection

VARIABLES
    asked,          \* per call: the arguments, once it has been made
    promise         \* per call: its promise

vars == <<asked, promise>>

EMPTY == ""         \* the content of a Buffer of length 0
Absent == "null"

Length(content) == IF content = EMPTY THEN 0 ELSE 1
Given(content) == IF content = EMPTY THEN Absent ELSE content

(* The tag of some arguments: a value that tells any two of them apart. *)
TagOf(a) ==
    [is |-> "digest", lanes |-> a.p, outlen |-> a.outlen, m_cost |-> a.m,
     t_cost |-> a.t, version |-> a.version, type |-> a.type,
     pwdlen |-> Length(a.password), pwd |-> Given(a.password),
     saltlen |-> a.saltlen, salt |-> a.salt,
     secretlen |-> Length(a.secret), secret |-> Given(a.secret),
     adlen |-> Length(a.data), ad |-> Given(a.data)]

NoArguments == [kind |-> Absent]
Pending == [state |-> "pending", value |-> [is |-> Absent]]
Resolved(value) == [state |-> "resolved", value |-> value]
Rejected(code) == [state |-> "rejected", value |-> [is |-> "error", code |-> code]]
Match(equal) == [is |-> "match", equal |-> equal]

Answer(a) ==
    IF a.kind = "hash" THEN TagOf(a) ELSE Match(TagOf(a) = a.expected)

Init ==
    /\ asked = [q \in Calls |-> NoArguments]
    /\ promise = [q \in Calls |-> Pending]

(* A call: arguments of the wrong types are rejected at once. *)
Call(q, a) ==
    /\ asked[q] = NoArguments
    /\ asked' = [asked EXCEPT ![q] = a]
    /\ promise' = IF a.typed THEN promise
                             ELSE [promise EXCEPT ![q] = Rejected("TypeError")]

Settle(q) ==
    /\ asked[q] # NoArguments /\ asked[q].typed
    /\ promise[q] = Pending
    /\ \/ promise' = [promise EXCEPT ![q] = Resolved(Answer(asked[q]))]
       \/ \E code \in Errors : promise' = [promise EXCEPT ![q] = Rejected(code)]
    /\ asked' = asked

Next == \E q \in Calls : Settle(q) \/ \E a \in Arguments : Call(q, a)

Spec == Init /\ [][Next]_vars /\ \A q \in Calls : WF_vars(Settle(q))
=============================================================================
