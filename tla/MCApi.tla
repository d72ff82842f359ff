------------------------------- MODULE MCApi --------------------------------
(* A small instance of the PHC interface.  Numbers are scaled down: MaxSafe   *)
(* stands for the largest safe integer, and MaxCost for 2^32 - 1.             *)
EXTENDS Api

CONSTANT AdText     \* the base64 text of the associated data

MCNames == {"argon2d", "argon2i", "argon2id", "2a", "y", "constructor",
            "m", "t", "p", "data", "v"}
MCPadded == [text \in {"019"} |-> 19]
MCReadings == [text \in {"9007199254740993"} |-> 1000]

Plain ==
    [password |-> "pw", salt |-> None, secret |-> None, associatedData |-> None,
     memoryCost |-> 16, timeCost |-> 1, parallelism |-> 2, hashLength |-> 4,
     version |-> 19, type |-> "id", raw |-> FALSE]

MCRequests ==
    {Plain,
     [Plain EXCEPT !.secret = Buf("pepper"), !.associatedData = Buf(AdText)],
     [Plain EXCEPT !.salt = Buf("shared"), !.version = 16, !.type = "i",
                   !.associatedData = Buf("")],
     [Plain EXCEPT !.timeCost = 3, !.type = "d"],       \* above the limits below
     [Plain EXCEPT !.raw = TRUE],
     [Plain EXCEPT !.salt = Buf("tiny")],
     [Plain EXCEPT !.memoryCost = 15]}                  \* less than 8 * p

Limits == [memoryCost |-> 16, timeCost |-> 2, parallelism |-> 2]

MCAttempts ==
    {[password |-> "pw", secret |-> None, limits |-> Limits],
     [password |-> "other", secret |-> None, limits |-> Limits],
     [password |-> "pw", secret |-> Buf("pepper"), limits |-> Limits]}

(* A digest of the first Argon2, which has no version field. *)
Old == [Plain EXCEPT !.salt = Buf("shared"), !.version = 16]
OldTag == Engine!TagOf(HashArguments(Old))
Costs(m, t, p) == Pairs(<< <<"m", m>>, <<"t", t>>, <<"p", p>> >>)
Scheme(id, fields) == [fields |-> <<Text(id)>> \o fields, maker |-> None]

MCStored ==
    [legacy |-> [maker |-> Old,
                 fields |-> <<Text("argon2id"), Costs("16", "1", "2"),
                              Text("shared"), Text(OldTag)>>],
     bcrypt |-> Scheme("2a", <<Text("12"), Text("R9h")>>),
     yescrypt |-> Scheme("y", <<Text("j9T"), Text("shared"), Text("R9h")>>),
     inherited |-> Scheme("constructor", <<Costs("16", "1", "2"), Text("shared"),
                                           Text(OldTag)>>),
     unhashed |-> Scheme("argon2i", <<Costs("16", "1", "2"), Text("shared")>>),
     unpriced |-> Scheme("argon2i", <<Text("shared"), Text(OldTag)>>),
     wide |-> Scheme("argon2id", <<Costs("16", "1", "3"), Text("shared"),
                                   Text(OldTag)>>),
     zeros |-> Scheme("argon2id", <<Pairs(<< <<"v", "019">> >>), Costs("16", "1", "2"),
                                    B64("sharee", "shared"), Text(OldTag)>>),
     huge |-> Scheme("argon2id", <<Costs("9007199254740993", "1", "2"),
                                   Text("shared"), Text(OldTag)>>),
     garbled |-> Scheme("argon2id", <<Text("m"), Costs("16", "1", "2"), Text("x")>>)]
=============================================================================
