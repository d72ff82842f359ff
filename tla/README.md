# argon2: a TLA+ model of the fill, the addon and its interfaces

This directory holds a TLA+ model of the repository: a Node.js binding of
Argon2 (`index.ts`, `phc.ts`, `argon2_core.cpp`) around a copy of the reference C
implementation (`argon2/`). TLC checks the modules on small instances; TLAPS
proves the core properties for every value of the constants.

## The system

A call passes through these parts, from the outside in.

| Part | Source | State it keeps | Operations |
|---|---|---|---|
| TypeScript API | `index.ts` | per call: arguments, the caller's Buffers, a promise | `hash`, `verify`, `needsRehash`, `hashRaw`, `verifyRaw` |
| PHC strings | `phc.ts` | none | `serialize`, `deserialize` |
| Native addon | `argon2_core.cpp` | per call: a worker with copies of all arguments (two in locked memory) | `Hash`, `Verify`, `Execute`, `OnOK`, `OnError`, destructors |
| `argon2_ctx` | `argon2.c`, `core.c` | context, instance (geometry), the memory matrix | validate, align, initialize, fill, finalize |
| Matrix fill | `core.c`, `ref.c`, `opt.c`, `thread.c` | threads and their handles, loop counters, blocks | `fill_memory_blocks`, `fill_segment`, `index_alpha` |
| BLAKE2b, compression | `blake2/` | hash state, buffer | `blake2b_update`, `blake2b_final`, `blake2b_long`, `fill_block` |
| C string encoding | `encoding.c` | the accumulator of a loop | `encode_string`, `decode_string`, `to_base64`, `from_base64`, `decode_decimal` |
| C interface | `argon2.c` | per call: a context, up to three buffers | `argon2_hash`, `argon2_verify`, `argon2_verify_ctx` and their variants by type |
| Command line | `run.c` | the options | `main`, `run` |

Interaction. `hash` builds a worker on the JavaScript thread and awaits its
promise; libuv runs `Execute` on a thread pool; `Execute` calls `argon2_ctx`, which
creates and joins one thread per lane and slice; the JavaScript thread settles
the promise, and `hash` goes on to write the digest. Memory is shared in two
places: the matrix, between the threads of a slice, and the Buffers of the caller,
which it may overwrite at any time after a call. The C interface and the command
line tool are a second way in, which the addon does not use: they are sequential,
and exchange strings with each other and with the TypeScript side.

What is hard here, and what would be wrong if it failed:

- *The parallel fill.* Threads read one another's lanes without locks. The tag must
  not depend on scheduling, which rests on the choice of reference blocks
  (off-by-one territory) and on a barrier that is spread over two join loops.
- *Errors in the middle.* A thread cannot be created, a join fails, an allocation
  fails: threads must not outlive what they use, secrets must be wiped, the promise
  must be settled.
- *Widths.* Costs come as arbitrary 32-bit numbers; products of them are compared,
  divided and allocated.
- *The caller's Buffers.* They change between the call and its completion.
- *The digest as text.* What `hash` writes is parsed later, among digests from
  elsewhere, by two implementations.
- *Builds.* The compression of a block exists five times, and a machine runs one.

## Modules

| Module | Models | Properties and proofs |
|---|---|---|
| `IndexAlpha` | `index_alpha` (`core.c` 189-257), with wrap-around | `MCIndexAlpha`, `MCBlock`; `IndexAlphaProofs` |
| `BlockMix` | `fill_block` of `opt.c` in four SIMD builds, and of `ref.c` | `MCBlock` |
| `FillMemory` | `fill_memory_blocks` and its threads; both `fill_segment`s | `MCFillModes`; `FillMemoryProofs` |
| `FillSchedule` | abstract: lanes fill segments in lockstep, or the call fails | implemented by `FillMemory` |
| `ValidateInputs` | the limits, and `validate_inputs` as the sequence of its checks | used by `Argon2Ctx` and `Encoding`; `EncodingLemmas` |
| `Argon2Ctx` | `argon2_ctx`, `initialize`, `finalize` as actions of a call | used by `CApi` and `Worker` |
| `Codec` | `to_base64`, `from_base64`, `decode_decimal` | `MCText`; `TextProofs` |
| `Encoding` | `encode_string`, `decode_string`, `argon2_encodedlen` | `MCText`; used by the next; `EncodingLemmas`, `TextProofs` |
| `CApi` | C callers of `argon2_ctx`, `argon2_hash` and `argon2_verify`, over `Argon2Ctx` and `Encoding` | `MCCApi`; `CApiProofs` |
| `Cli` | `run.c`, over `CApi` | `MCCApi`; `CApiProofs` |
| `HashService` | abstract: what the addon promises | implemented by `Worker`, used by `Api` |
| `Worker` | the addon, composed with `Argon2Ctx` | `MCWorker`; `WorkerProofs` |
| `Blake2b` | the streaming functions of `blake2b.c` | used by the next |
| `Blake2bLong` | their users: any streaming program, and `blake2b_long` | checked as it is; `Blake2bProofs` |
| `Phc` | `serialize`, `deserialize` | `MCText`; `ApiProofs`, `TextProofs` |
| `Api` | `hash`, `verify`, `needsRehash`, over `HashService` | `MCApi`; `ApiProofs` |

Definitions named `..._never`, `..._only`, `..._ignored` and the like, next to the
definition they vary, are wrong versions of it: each shows that some property
notices the mistake.

### How state and actions correspond to the code

**FillMemory.** `main` is the program point of `fill_memory_blocks`, and `r s l ll rc`
are its locals. `thread[k]` is the thread behind the handle `thread[k]`: `none`,
`created`, `fill` (at the head of the loop), `mix` (reference chosen, about to run
`fill_block`), `exited`, `joined`. `position i prev ref gen state` are the locals of
`fill_segment`: `gen` is `input_block.v[6]`, and `state` the registers of `opt.c`.
A block is its generation, the number of the pass that wrote it last: since the
content of a block is a function of the blocks it is computed from, reads that find
the generations of the sequential order compute the sequential matrix. One iteration
of the loop is two steps, `Address` and `Mix`, so that other threads and the main
thread run between the choice of a reference and its use; pseudo-random words are
arbitrary. Undefined behaviour (joining a handle twice, a thread that runs on after
the return) leads to `main = "undefined"`. The single-threaded version is the same
thread, waited for at once.

**BlockMix.** A register is the sequence of the words in its lanes, and a word the
list of half rounds it has been through, each with the four words it mixes, in their
roles, and its rotations. Half rounds on disjoint words commute, so a block whose
words have the lists of `ref.c` is the block of `ref.c`. A step is one macro of
`blamka-round-opt.h`: `Mix` is `G1` or `G2`, `Shuffle` the others. A rotation that a
build does by a byte shuffle is worked out from the table of the shuffle.

**Argon2Ctx.** One action per phase. `validate_inputs` is the sequence of its
checks, of which the first that fails is reported; comparisons that cannot fail
because of the type are left out, and so is the check for a null context. `Word` and `SizeWord` are the moduli of `uint32_t`
and `size_t`. Hash functions are free constructors: a `Digest` is the record of
everything that goes into it, so equal tags mean equal inputs. `Fill` is one step,
with the results that `FillMemory` can return.

**Codec.** A character is its code as a signed `char`, so bytes above 127 are
negative. The comparison macros are computed bit by bit; they use bits 8 to 15 of a
difference, so 16 bits of the `unsigned` are kept. A step is one turn of a loop.
`AccWord` is the modulus of the accumulator: both loops look at no more than 12 of
its bits, so any modulus from 2^12 shows what 2^32 does.

**Encoding.** A string is the sequence of its fields. A number that `decode_decimal`
refuses, and data that `from_base64` refuses or stops in, are marked, and so is data
with bytes above 127 in the place of `/`, which it accepts (`high`; finding 4): what
these functions do is `Codec`'s subject. `fits` says that
each of the pieces that `encode_string` writes leaves room for the terminating zero:
the code keeps the remaining `dst_len`, the model the sum of what has been written.

**CApi.** A program is a sequence of calls, made one after the other; `at` is where
a call is, `pc` where `argon2_ctx` is inside it. `heap` is the life of each buffer by
the `malloc` it comes from, `ptr` what the local pointers of `argon2_verify` hold, so
that a buffer freed twice or not at all shows. Lengths are as long as a `size_t`
where the interface has one. The fields that `argon2_verify` leaves uninitialized
have values that `decode_string` must overwrite. The maker of a string from elsewhere
is the password and type of which its tag is the digest, if there is one
(`StringsAssumption`); the maker of a string from `argon2_hash` is that call's.

**Cli.** A word of the command line is a name with its length and what `strtoul`
makes of it. `run` is two calls of `CApi`. The size `outlen + 1` of its buffer is
computed in 32 bits; when it wraps, and the hash has been copied into what was
allocated, the tool is in the stage `undefined` (`RunOverruns`). `Asked` is what a
command line asks for, apart from the code: its numbers are not those of a
`uint32_t`.

**Worker.** `caller` is the argument object whose Buffers the caller goes on to
write (`CallerWrites`), `args` and `buf` the worker's copies. libuv and
node-addon-api are external: a queue in order, `PoolSize` threads, exceptions of
`Execute` turned into the worker's error, one completion, then deletion.

**Blake2b, Blake2bLong.** A byte is its origin, so no two are alike, and the hash
is the sequence of compressed blocks with counters and flags: a byte that is lost,
repeated or left over from an earlier block shows. `call` and `pin` are inside
`blake2b_update`, whose loop goes block by block. `blake2b_long` is one action per
call that it makes, and one for its refusal of lengths above `MaxOutlen` (`UINT32_MAX`).

**Phc.** A string is the sequence of its fields. A field is a word, that is, a text
which `b64Regex` accepts, or a list of name=value pairs, or something else (`Other`):
this is as much as the regular expressions distinguish. A Buffer is identified by its
canonical base64 text. `Buffer.from` is lenient, so a word carries the canonical text
of the bytes it decodes to (`B64`). Digits with leading zeros, or beyond the safe
integers, are what `Padded` lists with the number that `parseInt` makes of them. The
keys of an object are in JavaScript's order, array indices first (`keyed`). Left out:
negative decimals, and versions given to `serialize` that are not safe integers.

**Api.** A step is what runs between two awaits. `heap` is the present content of
the caller's Buffers, which `hash` reads again after its await; `digest` is what it
then gives to `serialize`. A digest from elsewhere has a maker if its fields are
those that `hash` would have written for that request (`made_by`); digests of other
schemes, and broken ones, have none. Costs that are not
integers, and calls that the TypeScript compiler refuses, are left out.

## Runs

| Run | Bounds | What it shows |
|---|---|---|
| `block` | 4 blocks a segment (16 a lane), all words below 64; `fill_block` as it is | every reference is one the Argon2 definition allows; each of them is reachable; larger words mean older blocks; every build of `opt.c` stores the block of `ref.c` |
| `fill` | 2 lanes, 2 threads, 2 passes, 3 blocks a segment, `opt.c`, Argon2id | reads, races, address blocks, completeness, joins and termination, with creations that fail |
| `fill_modes` | 3 lanes on 2 threads and on 1, 2 passes, 2 blocks a segment, `ref.c`, Argon2i version 1.0, joins that fail | thread limit, the lockstep of `FillSchedule` |
| `fill_rejoin` | 3 lanes, 2 threads | *violation*, finding 1 |
| `c_api` | 64 for 2^32, 128 for the `size_t` modulus; one or two calls; all memory costs and lane counts; command lines of up to 3 of 27 options | geometry, allocation, wiping, for contexts at all the limits; strings verify with what they were made from and nothing else; outputs, buffers and lengths of the C interface; the tool prints what it is asked for, where that can be represented, and stays within its buffers |
| `worker` | 2 calls, 1 pool thread | the addon implements `HashService`; no residue; matrices accounted for |
| `worker_leak` | as above, fills that fail | *violation*, finding 2 |
| `blake2b` | blocks of 4 bytes, digests of 4, counter words below 8, up to 13 bytes streamed | digests of the whole message however it is cut; `blake2b_long` as RFC 9106 defines it |
| `text` | all objects and all sequences of up to 5 fields of a small alphabet; 2400 C strings; all texts of up to 5 characters, every byte and every ASCII character; 137 for `ULONG_MAX` | `serialize` and `deserialize` invert each other, with exactly the exceptions named in `Ambiguous`, up to the spellings named in `Rewritten`; neither parser drops a field or takes it for another; the strings that both accept mean the same to both, and those with bytes above 127 are the only ones that just the C code accepts; base64 and decimals are exact |
| `base64_high` | texts with a byte above 127 | *violation*, finding 4 |
| `api` | 1 hash, 1 verify, 7 requests, 3 attempts, 10 stored digests (an old one, three of other schemes, six not made by `hash`) | digests verify, strangers do not, limits hold, `needsRehash` agrees, promises settle |
| `api_data` | as above, with associated data whose base64 text is `124` | *violation*, finding 3 |

Why the bounds are enough. Two lanes are enough for a thread to read another's
lane; three lanes on two threads for the thread limit, for joins in both loops, and
for handles joined twice. Two passes have all cases of `index_alpha` (pass 0, later
passes) and the overwriting of blocks that other lanes may still refer to. Three or
four blocks a segment with 2 addresses a block (128 in the code) make the address
block be refreshed inside a segment. Small moduli make every product that can wrap
do so, the carry of BLAKE2b's counter included, and make a length that a cast
truncates another valid one. `fill_block` has no parameter: its run is the code's
size. Four bytes and five characters pass through every state of the base64
accumulators. Two calls are a string made and verified; three options hold one
option twice with another between. One pool thread and two calls give a queue that waits and a thread that is
reused. Calls of the API share nothing but the digests they exchange, so one of each
is enough.

Fairness. The fill assumes that the calling thread and every created thread are
scheduled (weak fairness); failures are never required. The addon assumes that libuv
runs what is queued and the event loop runs completions. The API assumes the
liveness that `Worker` is shown to have (`HashService` has it in its specification)
and that continuations run. Deadlock is checked in all runs but `block`,
`c_api`, `text` and `base64_high`, whose behaviours are inputs, or functions
and programs that end.

## Findings

1. `core.c` 338-340. After a creation that fails, every earlier handle of the slice
   is joined; with `threads < lanes` some of them have been joined already (line
   321), which is undefined. The addon passes `threads = lanes` and is not
   affected: theorem `JoinedOnce`.
2. `argon2.c` 91-93. When the fill fails, the matrix is neither wiped nor freed.
   The repository's README bounds live matrices by the size of the thread pool.
   What holds is `MatricesAccountedFor`.
3. `index.ts` 498-501 with `phc.ts` 217-220. Associated data whose base64 text is a
   decimal (two bytes giving `124`, say) comes back from the digest as a number, and
   `verify` ignores it: the right password is refused.
4. `encoding.c` 74, 94-102. The comparison masks take values in 0..255 and are given
   `char`s. Where `char` is signed, `EQ` is true of every negative one, so that
   `b64_char_to_byte` returns 63 for all bytes above 127, as for `/`, and
   `from_base64` reads on where its comment says it stops. `argon2_verify` accepts
   such variants of a string whose text has a `/`. On platforms where `char` is
   unsigned it does what the comment says. `phc.ts` refuses these strings: this is
   the one case in which `LanguagesAgree` says that the two parsers differ.

Two more places where the code does not do what its texts say. The properties about
them name the exceptions, and are false without them:

- `index.ts` 463. The comment of `verify` (434-436) says that it "returns `false`
  (instead of throwing) when the digest belongs to another hash scheme". It parses the
  digest before it looks at the scheme, so a digest that is not a PHC string is an
  error (yescrypt's `$y$j9T$salt$hash` has a field without `=`); and it looks the id up
  in an object that inherits names, so the id `constructor` passes for a type and is
  refused by a later check, with an error. What holds is `StrangersGetFalse`.
- `run.c` 282. The usage text (57) says that `-l N` "sets hash output length to N
  bytes". `N` is an `unsigned long`, stored in a `uint32_t` without a check: a length of
  2^32 + 32 prints 32 bytes. In the same way `-k N` (53) is cut down to 2^32 - 1 (243).
  What holds is `PrintsWhatIsAsked`.

Noted while modelling: `hash` reads the caller's salt and associated
data again after its await (overwriting them meanwhile makes a digest that does not
verify); sizes of Buffers of 4 GiB and more are truncated to 32 bits; `serialize`
writes three kinds of objects that `deserialize` does not read back (`Ambiguous`);
`deserialize` reads strings that `serialize` would spell otherwise, with leading zeros,
other base64 texts of the same bytes, or params in another order (`Rewritten`). In the
fill: a join that fails (Windows) leaves the threads of its slice running. In the C
interface: `argon2_hash` leaves the tag in the caller's `hash` when only the encoding fails; `argon2_verify`
frees the tag it has computed without wiping it; strings longer than `UINT32_MAX`
(tags of some 3 GiB) are written but cannot be verified; `decode_string` takes any
number for a version. In the tool: with `-l` at `UINT32_MAX` the size `outlen + 1` of its
buffer wraps to zero, and the hash is written past its end (stage `undefined`, which
`PrintsWhatIsAsked` allows only where what is asked for cannot be represented).

## Proofs

All for arbitrary constants, under assumptions that TLC evaluates in the runs:

- `GeometryAssumption`, `FillAssumption`: the sizes of the matrix and of the fill;
- `LimitsAssumption`, `SizesAssumption`, `PoolAssumption`: the limits of `argon2.h` are
  natural numbers, the largest memory and eight times the largest number of lanes fit
  a `uint32_t`, and `size_t`, blocks and pool have a positive size;
- `WordAssumption`: a `uint32_t` holds the version and has at most ten digits;
- `ContextsAssumption`, `ArgumentsAssumption`, `HashArgumentsAssumption`,
  `AttemptsAssumption`, `CliAssumption`: the arguments have their C types, the
  tool's defaults included;
- `ProgramsAssumption`, `StringsAssumption`: what programs are, and whose a string is;
- `PhcAssumption`: the decimal texts of numbers are not empty, are not the names of
  params that `index.ts` uses, and tell the numbers apart; array indices are safe
  integers; `Padded` is a function from other texts to numbers;
- `Blake2bAssumption`, `LongAssumption`: the sizes of BLAKE2b, and its lengths;
- `CodecAssumption`: sources are sequences of numbers, and the accumulator is wide enough;
- `SharedAssumption`: a `uint32_t` is a safe integer, and `phc.ts` takes the names which
  the C code writes; `InputsAssumption`: what the inputs of `MCText` are made of;
- `CallsAssumption`, `CostsAssumption`, `StoredAssumption`: calls of the API have
  names of their own, the largest costs are safe integers, limits are natural
  numbers, and a stored digest has the fields that `hash` writes for its maker (the
  version possibly left out if it is the first) or holds the hash of no attempt.

**IndexAlphaProofs** (`ReferenceAlwaysAllowed`, `NoReferenceLost`, `AlwaysOlder`). The first lemmas show that the
area is positive and fits a word, that the multiplication by a pseudo-random word
stays inside the area, and then, case by case (first pass or later, own lane or
another), that the offset is in the reference set. The assumption is that the matrix
has fewer blocks than a `uint32_t` can count and at least two blocks a segment, and
`GeometryForFill` (below) shows that `argon2_ctx` establishes it.
For the converse, that every allowed block is chosen for some word
(`EveryReferenceReachable`), the distance is looked at as a function of the word:
it starts at the newest block, ends at the oldest and never decreases, and from a
word to the next it moves by at most one block, since the two roundings of
`x * x / 2^32` and `area * x / 2^32` lose less than a block as long as the area is
at most half the number of words. A function that moves in steps of one takes all
values between its ends (least number principle). The hypothesis `2 * lane_length <=
Word` is needed: beyond it, references really are skipped. The first half, that the
distance never decreases, is `LargerIsOlder`.

**FillMemoryProofs.** None of the properties is inductive. `IInv` joins `TypeOK` to
what the loop counters say about the threads (`MainInv`: which handles are running,
exited or joined at each program point), to where each thread stands in its segment
(its position is that of the slice; `prev` is the predecessor, up to rotation; the
reference is in the set that the lemmas of `IndexAlphaProofs` give; they are about
`index_alpha`, and the variables of `MCIndexAlpha` play no part in them), to the generation of every
block as a function of slice and thread progress, to the registers of `opt.c`, and
to the count of address blocks. It is preserved by each action (one lemma per
action), and implies `TypeOK`, `ReadsAreSequential`, `NoDataRace`,
`AddressBlockFresh` and `CompleteOnOK`; with joins that do not fail,
`NoThreadOutlivesCall`; with `Threads = Lanes` too, `NoUndefinedJoin`. `ThreadBound`
needs a window of lanes that may be unjoined. `FillImplementsSchedule` is the
refinement of `FillSchedule`: the barrier is where `r` and `s` advance, and there
the mapped `done` does not change.

**EncodingLemmas.** First, which errors the checks of `validate_inputs` can report,
and that it returns `ARGON2_OK` exactly when none fails. The rest is about strings:
`numlen` and `Sums` are recursive functions, so it shows that they exist, and that
`numlen` counts the digits which `sprintf` writes, by the least number principle
applied to the counterexamples; `b64len` is what `to_base64` writes; hence
`encode_string` succeeds exactly in a buffer of `argon2_encodedlen` characters.
`DecodesEncoded` shows that `decode_string` undoes `encode_string`: it accepts what
was encoded, if the context was valid, and its context and output are those that went
in.

**CApiProofs**, for the programs of `CApi` and for the tool. First the call of
`argon2_ctx` inside, whoever makes it. `OverflowCheckExact` shows that
`memory_size / size != num` holds exactly when the product wraps; `ValidCosts` that
the checks, in the order they have, exclude the wrap of `8 * lanes`; `ValidGeometry`
follows. The invariant ties instance and matrix to the context at each program
point, and gives `GeometryForFill`, `AllocationSafe` and `SecretsWipedEarly`.

Then its callers (`EveryBufferFreed`, `OutputsAreDigests`, `VerdictsAreRight`,
`EncodedLenIsExact`). A call's invariant has five parts: where `argon2_ctx` is while its caller waits (`Control`);
that the live buffers are those the local pointers lead to (`Memory`); that context,
matrix and tag belong to the arguments (`Digesting`); what the caller's buffers hold
(`Outputs`); and that a string being verified has passed the steps so far
(`Verdict`). For `VerdictIsRight` a string must be traced to its maker across calls:
`Made` says that there are arguments which `argon2_hash` accepted and of which it is
the encoding, which is what `Outputs` says of a finished call. Then `DecodesEncoded`
makes the context of the verification that of the hashing, up to the password; tags
are free constructors, so they are equal exactly when the passwords are, with their
lengths, which no cast has truncated. `CliInv` says that the tool's calls have
arguments of their types, so that the same invariant holds of them.
`ToolPrintsWhatIsAsked` says that, if the length and the memory asked for can be
represented in `main`'s variables (`Representable`), the tool never writes past its
buffer, and when it ends well it has printed the hash for the options as a reader of
the command line understands them, the last occurrence of each counting. Without the
condition this is false (see the findings). Its invariant (`AskedKept`, `HashIsPrinted`)
compares what `main` has set so far, casts included, with what the words up to `i` ask
for; which words are options, and
not the arguments of others, is the least set of places closed under `main`'s step.

**WorkerProofs** (`NothingLeftBehind`, `PoolBoundsMatrices`,
`AddonImplementsService`), for any calls and pool size. The invariant ties the stage
of a worker to that of `argon2_ctx` within it (`Progress`), its copies to what was
asked at the call, whatever the caller has written since (`OwnArguments`, `Inputs`),
the content of the matrix to the tag of those arguments (`Matrix`), and what
`Execute` leaves to what the promise will be (`Outcome`); a call waits in the queue
once, and the pool bounds those that execute. `ContextCarries` shows that the
context which `Execute` builds has the digest which `HashService` promises.
`AddonImplementsService` is the refinement without fairness: `Init` maps to `Init`,
and each step to a step of `HashService` or to none.

**Blake2bProofs** (`StreamHashesMessage`, `LongHashAsDefined`, `BuffersAlwaysHold`), for
every size of blocks, digests and counter words. The invariant of a state that is
being fed (`Accounted`) shares what has been given between three places: full blocks
are compressed with the right counters, the next bytes are in the buffer, the rest
of the current call is still to be read; and the block that may turn out to be the
last is never compressed early. It is needed because the buffer keeps old bytes and
`blake2b_update` may stop between any two blocks. `Incremented` shows that the carry,
noticed by the lower word being less than what was added, makes the two words count
modulo the square of the word size; `BlocksCut` that the definition cuts a message
where `blake2b_final` finds the rest.
For `blake2b_long`, `Chained` counts: after `n` digests `n` halves have been put out
and more than a half is left, so that the loop ends with `n` as RFC 9106 gives it.

**ApiProofs** (`LimitsCheckedFirst`, `StrangersAnswered`, `RehashExact`,
`DigestsVerify`). The lemmas are
about text: `DigestWritten` gives the five fields that `serialize` writes for a
request within the bounds, `ReadBack` and `ReadBackOld` show that `deserialize` reads
the same id, version, costs, salt and hash out of them, with the version there or
left out, although it takes fields from both ends of the list and decides by their
form what they are. Associated data comes back if its text is not a decimal.
`IInv` says of a `hash` that while it awaits, the engine was asked for the request's
arguments and, unless the caller has written to its Buffers, the heap still has
them, and that a digest it has resolved with is the one of request and heap; of a
`verify`, that the digest it was given is still the one it was given, that what it
asked of the engine are the digest's own parameters, within the limits, and that the
answer compares their tag with the digest's hash. Tags are free constructors, so it
is `true` exactly when password and secret are those of the maker.
`LimitsCheckedFirst`, `StrangersAnswered` and `RehashExact` need no hypothesis; the
last covers stored digests without a version too (`ReadBackOld`). `DigestsVerify` has two,
each of which the code needs: the caller does not overwrite salt and data while
`hash` awaits (noted above), and no associated data has a decimal as its text
(finding 3). It may overwrite the password.

**TextProofs**, for strings and objects of any size. Their kinds: the fields of a PHC
string are words, lists of one or more pairs, or anything else (`phc_string`), an
object's params have different names (`phc_object`), a C string is made of literals,
lists of numbers and binary data, well or badly formed (`c_string`). The order of the
keys comes first: no two params of different names have the same place (`PlacesDiffer`),
so `keyed` is a permutation of them (`Permuted`), and it depends on the names only
(`KeyedAlike`), so that values may be converted before or after.
`StringsParseFaithfully`: `deserialize` finds a version or not (`Versioned`), takes the
trailing words off, by how many there are (`Reassembled`), and accepts only if at most
one field is left; so at most five fields are put back in their places, each as
`Rewritten` says: the text of every param is kept (`TextKept`), that of a version loses
its leading zeros, that of a word becomes the canonical one.
`ObjectsRoundTrip`, the other way: `TailOf` gives what is taken from the end of what
was written, and an object comes back unless its params are lost (`Lost`) or taken for
the version (`Mistaken`), which are exactly the ambiguous objects.
`CStringsDecodeFaithfully` and `BothLanguagesAgree`: `Accepted` gives every field of a
string that `decode_string` accepts; these are the fields that `encode_string` writes,
once bytes above 127 are written as the `/` they are read as (`Slashed`). If there are
such bytes, salt or tag is no word for `phc.ts`, which refuses the string
(`HighRefused`); if not, the fields are also those that `serialize` writes of an object
that is not ambiguous, so `ObjectsRoundTrip` applies to it. `TextIsFaithful` puts the
four together: their hypotheses hold of the inputs of `MCText`'s specification.
`DecimalsExact`: what `decode_decimal` has accumulated is the value of the digits read
(`DecimalInv`), both checks together fail exactly when the next value is above
`ULONG_MAX` (`OneDigit`), and then so is the value of all digits, since values grow.
`Base64StaysInside`: while `to_base64` runs, the bits read are those written or pending,
`6 * written + acc_len = 8 * read`, and the length computed before is the least number
of characters that hold all bits.

Only model-checked:

- liveness, which the prover does not do: `Termination`, `EveryPromiseSettles`, the
  fairness in `ImplementsService`;
- `BlockMix` (`StoresReferenceBlock`): a computation on one block of fixed size, which
  the run carries out;
- which characters and bytes `Codec` writes (`EncodesExactly`, `DecodesExactly`): these
  are about the bits of words (powers of two as shifts, sums over bits), of which the
  provers know nothing. How many it writes is proved (`Base64StaysInside`).

## Not modelled

The 64-bit arithmetic inside a half round of the compression (straight-line code,
covered by known-answer tests) and the rounds of `blake2b_compress`; the XOP build,
which differs from SSSE3 in one rotation instruction; `mlock` and `madvise` (no effect
on the state); error messages; benchmarks, the known-answer generator, tests and
build files, which have no state of their own.

## Plan

1. The bits of base64 (`EncodesExactly`, `DecodesExactly`) for every input, with a
   prover that knows bit vectors.
2. `FillMemory` in place of `Argon2Ctx`'s `Fill`: what a leaked matrix and a thread
   that outlives the call mean together.
