--------------------------------- MODULE Cli ---------------------------------
(* The command line tool (run.c): main parses the options, and run hashes the *)
(* password, prints, and verifies what it has printed: two calls of CApi.     *)
(*                                                                            *)
(* A word of the command line is known by its name; Words says how long it    *)
(* is and what strtoul makes of it.  Texts that are printed are left out, and *)
(* the reasons of fatal are not told apart, except for the error codes.       *)
EXTENDS CApi

CONSTANTS
    ULongMax,           \* ULONG_MAX
    MaxMemoryBits,      \* ARGON2_MAX_MEMORY_BITS
    T_COST_DEF, LOG_M_COST_DEF, OUTLEN_DEF, MAX_PASS_LEN,
    Words,              \* the words, and their [strlen, strtoul]
    CommandLines,       \* the command lines, as sequences of words after the name
    Inputs              \* what is on standard input: [pwd, len]

ASSUME CliAssumption ==
    /\ MaxMemoryBits \in Nat /\ OUTLEN_DEF \in 0 .. Word - 1
    /\ T_COST_DEF \in 0 .. Word - 1 /\ 2 ^ LOG_M_COST_DEF \in 0 .. Word - 1
    /\ \A n \in 0 .. MaxMemoryBits : 2 ^ n \in Nat
    /\ \A w \in DOMAIN Words : Words[w].strlen \in Nat /\ Words[w].strtoul \in Nat
    /\ \A line \in CommandLines : line \in Seq(DOMAIN Words)
    /\ \A input \in Inputs : input.len \in Nat

VARIABLES
    argv, stdin,        \* what the tool is given
    stage,              \* where it is
    i,                  \* the word that main looks at
    options,            \* what the options have set
    exit,               \* how it has ended: "usage", "fatal" or an error code
    printed             \* what it has printed

cliVars == <<argv, stdin, stage, i, options, exit, printed>>

Defaults ==
    [outlen |-> OUTLEN_DEF, m_cost |-> 2 ^ LOG_M_COST_DEF, t_cost |-> T_COST_DEF,
     threads |-> 1, type |-> "i", types_specified |-> 0, m_cost_specified |-> FALSE,
     encoded_only |-> FALSE, raw_only |-> FALSE, version |-> VERSION_NUMBER]

CliStart ==
    /\ i = 2 /\ options = Defaults /\ exit = "none" /\ printed = {}
CliInit ==
    /\ CInit /\ program = <<"argon2_hash", "argon2_verify">>
    /\ argv \in CommandLines /\ stdin \in Inputs
    /\ stage = "main" /\ CliStart
(* The program is another one. *)
CliOff ==
    /\ argv = <<>> /\ stdin = [pwd |-> NULL, len |-> 0] /\ stage = "off" /\ CliStart

Exit(how) == exit' = how /\ stage' = "exit"

-----------------------------------------------------------------------------
(* main, up to the options: no more than sizeof pwd bytes are read. *)
Main ==
    /\ stage = "main"
    /\ IF argv = <<>> \/ argv[1] = "-h" THEN Exit("usage")
       ELSE IF stdin.len < 1 \/ stdin.len >= MAX_PASS_LEN THEN Exit("fatal")
       ELSE stage' = "options" /\ exit' = exit
    /\ UNCHANGED <<cVars, argv, stdin, i, options, printed>>

Numeric == {"-m", "-k", "-t", "-p", "-l"}

bad_input(a, n) ==
    CASE a = "-m" -> n \in {0, ULongMax} \/ n > MaxMemoryBits
      [] a = "-k" -> n \in {0, ULongMax}
      [] a = "-t" -> n \in {0, ULongMax} \/ n > Word - 1
      [] a = "-p" -> n \in {0, ULongMax} \/ n > MaxLanes
      [] a = "-l" -> FALSE

minimum(x, y) == IF x < y THEN x ELSE y

(* The option a, with the number n behind it. *)
with_number_p_sets_t(a, n) ==
    CASE a = "-m" -> [options EXCEPT !.m_cost = minimum(2 ^ n, Word - 1),
                                     !.m_cost_specified = TRUE]
      [] a = "-k" -> [options EXCEPT !.m_cost = minimum(n, Word - 1),
                                     !.m_cost_specified = TRUE]
      [] a \in {"-t", "-p"} -> [options EXCEPT !.t_cost = n]
      [] a = "-l" -> [options EXCEPT !.outlen = uint32(n)]
with_number(a, n) ==
    CASE a = "-m" -> [options EXCEPT !.m_cost = minimum(2 ^ n, Word - 1),
                                     !.m_cost_specified = TRUE]
      [] a = "-k" -> [options EXCEPT !.m_cost = minimum(n, Word - 1),
                                     !.m_cost_specified = TRUE]
      [] a = "-t" -> [options EXCEPT !.t_cost = n]
      [] a = "-p" -> [options EXCEPT !.threads = n]
      [] a = "-l" -> [options EXCEPT !.outlen = uint32(n)]

NumericOption(a) ==
    LET n == Words[argv[i + 1]].strtoul
    IN  IF \/ a \in {"-m", "-k"} /\ options.m_cost_specified
           \/ i = Len(argv)
           \/ bad_input(a, n)
           \/ with_number(a, n).m_cost > MaxMemory
        THEN Exit("fatal") /\ UNCHANGED <<i, options>>
        ELSE i' = i + 2 /\ options' = with_number(a, n) /\ UNCHANGED <<stage, exit>>

Versions == [w \in {"10", "13"} |-> IF w = "10" THEN VERSION_10 ELSE VERSION_NUMBER]

VersionOption ==
    IF i = Len(argv) \/ argv[i + 1] \notin DOMAIN Versions
    THEN Exit("fatal") /\ UNCHANGED <<i, options>>
    ELSE /\ i' = i + 2
         /\ options' = [options EXCEPT !.version = Versions[argv[i + 1]]]
         /\ UNCHANGED <<stage, exit>>

Types == [a \in {"-i", "-d", "-id"} |->
            CASE a = "-i" -> "i" [] a = "-d" -> "d" [] a = "-id" -> "id"]

Flag(a) ==
    /\ i' = i + 1
    /\ options' =
         CASE a \in DOMAIN Types -> [options EXCEPT !.type = Types[a],
                                                   !.types_specified = @ + 1]
           [] a = "-e" -> [options EXCEPT !.encoded_only = TRUE]
           [] a = "-r" -> [options EXCEPT !.raw_only = TRUE]
    /\ UNCHANGED <<stage, exit>>

Option ==
    /\ stage = "options" /\ i <= Len(argv)
    /\ LET a == argv[i]
       IN  \/ a \in Numeric /\ NumericOption(a)
           \/ a = "-v" /\ VersionOption
           \/ a \in DOMAIN Types \cup {"-e", "-r"} /\ Flag(a)
           \/ /\ a \notin Numeric \cup DOMAIN Types \cup {"-v", "-e", "-r"}
              /\ Exit(IF a = "-h" THEN "usage" ELSE "fatal")
              /\ UNCHANGED <<i, options>>
    /\ UNCHANGED <<cVars, argv, stdin, printed>>

OptionsEnd ==
    /\ stage = "options" /\ i > Len(argv)
    /\ IF options.types_specified > 1 \/ (options.encoded_only /\ options.raw_only)
       THEN Exit("fatal") ELSE stage' = "run" /\ exit' = exit
    /\ UNCHANGED <<cVars, argv, stdin, i, options, printed>>

-----------------------------------------------------------------------------
(* run: either malloc may fail; then argon2_hash is called. *)
strlen_salt == Words[argv[1]].strlen

RunFails ==
    /\ stage = "run"
    /\ Exit("fatal")
    /\ UNCHANGED <<cVars, argv, stdin, i, options, printed>>

run_arguments(o) ==
    [t_cost |-> o.t_cost, m_cost |-> o.m_cost, parallelism |-> o.threads,
     pwd |-> stdin.pwd, pwdlen |-> stdin.len, salt |-> argv[1], saltlen |-> strlen_salt,
     hash |-> SET, hashlen |-> o.outlen, encoded |-> SET, type |-> o.type,
     version |-> o.version,
     encodedlen |-> argon2_encodedlen(o.t_cost, o.m_cost, o.threads, uint32(strlen_salt),
                                      o.outlen, o.type)]

RunHash ==
    /\ stage = "run" /\ strlen_salt <= MaxLength
    /\ HashRefuses(1, run_arguments(options)) \/ HashCall(1, run_arguments(options))
    /\ stage' = "hash"
    /\ UNCHANGED <<argv, stdin, i, options, exit, printed>>

(* out = malloc(outlen + 1), whose size is a uint32_t: it wraps to 0, and     *)
(* argon2_hash has then copied the hash past the end of it.                   *)
out_size(o) == uint32(o.outlen + 1)
Overrun == hash[1] # NoTag /\ out_size(options) < options.outlen

RunOverruns ==
    /\ stage = "hash" /\ at[1] = "done" /\ Overrun
    /\ stage' = "undefined"
    /\ UNCHANGED <<cVars, argv, stdin, i, options, exit, printed>>

RunHashed ==
    /\ stage = "hash" /\ at[1] = "done" /\ ~Overrun
    /\ IF ret[1] # "ARGON2_OK"
       THEN Exit(ret[1]) /\ UNCHANGED printed
       ELSE /\ printed' = (IF options.raw_only THEN {} ELSE {encoded[1]})
                          \cup (IF options.encoded_only THEN {} ELSE {hash[1]})
            /\ IF options.encoded_only \/ options.raw_only
               THEN Exit("ARGON2_OK") ELSE stage' = "hashed" /\ exit' = exit
    /\ UNCHANGED <<cVars, argv, stdin, i, options>>

RunVerify ==
    LET s == Given(encoded[1].fields, Maker(args[1]))
        a == [pwd |-> stdin.pwd, pwdlen |-> stdin.len, type |-> options.type]
    IN  /\ stage = "hashed"
        /\ VerifyRefuses(2, s, a) \/ VerifyCall(2, s, a)
        /\ stage' = "verify"
        /\ UNCHANGED <<argv, stdin, i, options, exit, printed>>

RunVerified ==
    /\ stage = "verify" /\ at[2] = "done"
    /\ Exit(ret[2])
    /\ UNCHANGED <<cVars, argv, stdin, i, options, printed>>

CliNext ==
    \/ Main \/ Option \/ OptionsEnd
    \/ RunFails \/ RunHash \/ RunOverruns \/ RunHashed \/ RunVerify \/ RunVerified
    \/ stage \in {"hash", "verify"} /\ UNCHANGED cliVars /\ \E q \in Calls : Proceed(q)

(* Another program, or the tool. *)
Off == stage = "off"
ProgramInit == (CInit /\ CliOff) \/ CliInit
ProgramNext == (Off /\ CNext /\ UNCHANGED cliVars) \/ (~Off /\ CliNext)
ProgramSpec == ProgramInit /\ [][ProgramNext]_<<cVars, cliVars>>

-----------------------------------------------------------------------------
(* What the options of a command line ask for: the words at the places of     *)
(* options, the last of each name, with what is behind it.  The places are    *)
(* the second word and, from each of them, the next word or the one after it. *)
(* A number is what the usage text says: no uint32_t, and not cut down to one. *)
after(line, n) == n + IF line[n] \in Numeric \cup {"-v"} THEN 2 ELSE 1

closed(line, S) == 2 \in S /\ \A n \in S : n <= Len(line) => after(line, n) \in S
Places(line) ==
    LET places == 2 .. Len(line) + 2
    IN  {n \in places : \A S \in SUBSET places : closed(line, S) => n \in S}
Options(line) == {n \in Places(line) : n <= Len(line)}

LastOf(line, names, default, Get(_)) ==
    LET places == {n \in Options(line) : line[n] \in names}
    IN  IF places = {} THEN default ELSE Get(Max(places))

Asked ==
    LET number(n) == Words[argv[n + 1]].strtoul
        memory(n) == IF argv[n] = "-m" THEN 2 ^ number(n) ELSE number(n)
    IN  [Defaults EXCEPT
           !.t_cost = LastOf(argv, {"-t"}, @, number),
           !.m_cost = LastOf(argv, {"-m", "-k"}, @, memory),
           !.threads = LastOf(argv, {"-p"}, @, number),
           !.outlen = LastOf(argv, {"-l"}, @, number),
           !.type = LastOf(argv, DOMAIN Types, @, LAMBDA n : Types[argv[n]]),
           !.version = LastOf(argv, {"-v"}, @, LAMBDA n : Versions[argv[n + 1]])]

(* The hash of that, of the password on standard input, is what is printed.   *)
Prints(tag) ==
    /\ printed # {}
    /\ \A p \in printed : p.is = "string" => p.fields[5].content = tag
    /\ \A p \in printed : p.is # "string" => p = tag
PrintsAsked == Prints(DigestOf(run_arguments(Asked)))

(* What is asked for fits in main's variables, and the length in out. *)
Representable == Asked.outlen \in 0 .. Word - 2 /\ Asked.m_cost \in 0 .. Word - 1

(* run.c: if the length and the memory asked for can be represented (usage    *)
(* makes no such exception, but main cuts these numbers down), the tool       *)
(* stays within its buffers, and what it prints is the hash of the password   *)
(* on its standard input with what the command line asks for, in each of its  *)
(* output modes.                                                              *)
PrintsWhatIsAsked ==
    /\ stage = "undefined" => ~Representable
    /\ exit = "ARGON2_OK" => (Representable => PrintsAsked)
=============================================================================
