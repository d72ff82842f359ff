------------------------------- MODULE MCCApi --------------------------------
(* Programs of one or two calls.  argon2_ctx: from every context of a small   *)
(* word, all the memory costs and numbers of lanes a uint32_t can hold, so    *)
(* that 8 * lanes wraps, and the size of the matrix overflows size_t, for     *)
(* some of them.  argon2_hash and argon2_verify: arguments at the limits of   *)
(* each length, and strings that are wrong in one way each.  The tool: all    *)
(* command lines of up to MaxOptions options.                                 *)
EXTENDS Cli

CONSTANT MaxOptions

NoSecret == [ptr |-> NULL, len |-> 0]

ContextsOf(outlens, ms, ls, ths, passes, nulls, secrets, flags, types) ==
    {[out |-> o, outlen |-> n, pwd |-> SET, pwdlen |-> 1,
      salt |-> s, saltlen |-> MinSaltLength, secret |-> k.ptr, secretlen |-> k.len,
      ad |-> NULL, adlen |-> 0, m_cost |-> m, t_cost |-> t, lanes |-> l,
      threads |-> th, allocate_cbk |-> cb[1], free_cbk |-> cb[2], flags |-> f,
      version |-> 19, type |-> ty] :
        o \in nulls, n \in outlens, s \in nulls,
        k \in secrets, cb \in nulls \X nulls, m \in ms, l \in ls, th \in ths,
        t \in passes, f \in flags, ty \in types}

(* Every memory cost and number of lanes, the rest being in order. *)
CostContexts ==
    ContextsOf({MinOutlen}, 0 .. Word - 1, 0 .. Word - 1, {2}, {1}, {SET},
               {NoSecret}, {{}}, {"id"})

(* Every combination of pointers and flags, of costs in and out of order. *)
PointerContexts ==
    ContextsOf({MinOutlen - 1, MinOutlen}, {MinMemory + 1}, {1}, {0, 1, MaxLanes + 1},
               {0, 1}, {NULL, SET},
               {NoSecret, [ptr |-> NULL, len |-> 1], [ptr |-> SET, len |-> 1]},
               SUBSET {"CLEAR_PASSWORD", "CLEAR_SECRET"}, {"i", "unknown"})

MCContexts == CostContexts \cup PointerContexts
MCContents == {"content"}

MCPrograms == {<<"argon2_ctx">>, <<"argon2_verify">>, <<"argon2_hash", "argon2_verify">>}

-----------------------------------------------------------------------------
Password(content, len) == [pwd |-> content, pwdlen |-> len]

(* A length truncated to a uint32_t is that of another password. *)
Passwords == {Password("right", 3), Password("right", Word + 3), Password(NULL, 0),
              Password(NULL, 2)}

(* encodedlen is what argon2_encodedlen says, or one less. *)
MCHashArguments ==
    {[pwd |-> p.pwd, pwdlen |-> p.pwdlen, salt |-> "salt", saltlen |-> saltlen,
      hash |-> SET, hashlen |-> hashlen, encoded |-> SET,
      encodedlen |-> argon2_encodedlen(1, m, lanes, saltlen, hashlen, type) - less,
      t_cost |-> 1, m_cost |-> m, parallelism |-> lanes, type |-> type,
      version |-> version] :
        p \in Passwords, saltlen \in {MinSaltLength - 1, MinSaltLength, Word},
        hashlen \in {MinOutlen - 1, MinOutlen, MinOutlen + 39, Word + MinOutlen},
        m \in {9, 10, 16}, lanes \in {1, 2}, type \in {"i", "id", "unknown"},
        version \in {16}, less \in {0, 1}}

MCAttempts ==
    {[pwd |-> p.pwd, pwdlen |-> p.pwdlen, type |-> type] :
        p \in Passwords \cup {Password("wrong", 3)}, type \in {"i", "id"}}

(* Strings that others have made: old ones have no version.                   *)
Digested(version) ==
    Digest(hash_context([pwd |-> "right", pwdlen |-> 3, salt |-> "salt",
                         saltlen |-> MinSaltLength, hashlen |-> MinOutlen,
                         t_cost |-> 1, m_cost |-> 9, parallelism |-> 1,
                         version |-> version, type |-> "i"]),
           [pwd |-> "right", secret |-> NULL])

Costs(m, p) == Nums(<< <<"m", m>>, <<"t", 1>>, <<"p", p>> >>)
OldString(version) == << Lit("argon2i"), Costs(9, 1), Bin("salt", MinSaltLength),
                         Bin(Digested(version), MinOutlen) >>
By == [pwd |-> "right", pwdlen |-> 3, type |-> "i"]
Marked(field, mark) == [field EXCEPT ![mark] = TRUE]
Altered(n, field) == Given([OldString(16) EXCEPT ![n] = field], NoMaker)

MCStrings ==
    { NoString, Given(<<>>, NoMaker),
      Given(OldString(16), By), Given(OldString(19), NoMaker),
      Given([OldString(16) EXCEPT ![4] = Marked(@, "high")], By),
      Given(<<Lit("argon2i"), Nums(<< <<"v", 19>> >>)>> \o SubSeq(OldString(19), 2, 4), By),
      Given(<<Lit("argon2i"), Nums(<< <<"v", Word + 16>> >>)>>
               \o SubSeq(OldString(16), 2, 4), NoMaker),
      Given(Append(OldString(16), Bin("more", 1)), NoMaker),
      Altered(1, Lit("argon2d")), Altered(2, Costs(9, 0)), Altered(2, Costs(NoNumber, 1)),
      Altered(2, Costs(Word + 9, 1)), Altered(2, Costs(10, 1)),
      Altered(3, Bin("salt", 0)), Altered(3, Marked(Bin("salt", MinSaltLength), "tail")),
      Altered(3, Bin("salt", Word)),
      Altered(4, Marked(Bin(Digested(16), MinOutlen), "bad")),
      Altered(4, Marked(Bin(Digested(16), MinOutlen), "tail")),
      Altered(4, Bin(ZeroTag, MinOutlen)) }

-----------------------------------------------------------------------------
(* Options, right and wrong, also with numbers that look like options of       *)
(* another kind and without what should be behind them.                       *)
OptionWords ==
    {<<"-m", "6">>, <<"-m", "3">>, <<"-m", "67">>, <<"-k", "9">>, <<"-k", "67">>,
     <<"-k", "max">>, <<"-t", "2">>, <<"-t", "10">>, <<"-t", "0">>, <<"-p", "2">>,
     <<"-p", "67">>, <<"-l", "2">>, <<"-l", "67">>, <<"-l", "0">>, <<"-l", "63">>,
     <<"-id">>, <<"-d">>, <<"-i">>, <<"-e">>, <<"-r">>, <<"-v", "10">>, <<"-v", "13">>,
     <<"-v", "9">>, <<"-v">>, <<"-t">>, <<"-h">>, <<"13">>}

MCWords ==
    [w \in {"salt", "s", "-h"} \cup UNION {ToSet(given) : given \in OptionWords} |->
        [strlen |-> IF w = "salt" THEN 4 ELSE 1,
         strtoul |-> CASE w = "2" -> 2 [] w = "3" -> 3 [] w = "6" -> 6
                       [] w = "9" -> 9 [] w = "10" -> 10 [] w = "13" -> 13
                       [] w = "63" -> 63 [] w = "67" -> 67 [] w = "max" -> ULongMax
                       [] OTHER -> 0]]

MCCommandLines ==
    {<<>>, <<"-h">>, <<"s">>}
    \cup {<<"salt">> \o FlattenSeq(given) : given \in SeqOf(OptionWords, MaxOptions)}

MCInputs == {[pwd |-> "right", len |-> 3], [pwd |-> NULL, len |-> 0],
             [pwd |-> "long", len |-> MAX_PASS_LEN]}
=============================================================================
