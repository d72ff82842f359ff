----------------------------- MODULE FillMemory -----------------------------
(* fill_memory_blocks and the threads it runs: the main loop of core.c that   *)
(* creates and joins one thread per lane and slice, thread.c, and the         *)
(* fill_segment of ref.c (portable) and of opt.c (SSE2, which keeps the       *)
(* previous block in registers).                                              *)
(*                                                                            *)
(* A block is abstracted to its generation: 0 before anything is written, and *)
(* pass + 1 once that pass has written it.  The content of a block is a       *)
(* function of the contents of the blocks it is computed from, so if every    *)
(* read finds the generation the sequential order gives, every execution      *)
(* produces the same matrix.                                                  *)
EXTENDS IndexAlpha, FiniteSets

CONSTANTS
    Threads,            \* instance->threads
    Passes,             \* instance->passes
    Type,               \* instance->type: "d", "i" or "id"
    Version10,          \* instance->version = ARGON2_VERSION_10
    Opt,                \* the build compiles opt.c in place of ref.c
    AddressesInBlock,   \* ARGON2_ADDRESSES_IN_BLOCK (128 in the code)
    JoinMayFail         \* argon2_thread_join may report failure (Windows)

ASSUME FillAssumption ==
    /\ Threads \in 1 .. Lanes       \* argon2_ctx clamps threads to lanes
    /\ Passes \in Nat \ {0}
    /\ Type \in {"d", "i", "id"}
    /\ Version10 \in BOOLEAN
    /\ Opt \in BOOLEAN
    /\ AddressesInBlock \in Nat \ {0, 1}
    /\ JoinMayFail \in BOOLEAN

VARIABLES
    main,               \* where fill_memory_blocks is
    r, s, l, ll,        \* its loop counters: pass, slice, lane, lane to unwind
    rc,                 \* its result
    thread,             \* per lane: the state of the thread behind thread[l]
    thr_data,           \* per lane: the position handed to the thread
    position,           \* per lane: fill_segment's own copy of it
    i,                  \* per lane: fill_segment's loop index
    prev,               \* per lane: prev_offset, relative to the lane
    ref,                \* per lane: the reference block, <<ref_lane, ref_index>>
    gen,                \* per lane: input_block.v[6], the address block counter
    state,              \* per lane: the block opt.c keeps in registers
    memory              \* the matrix: the generation of every block

mainVars == <<main, r, s, l, ll, rc>>
segmentVars == <<position, i, prev, ref, gen, state>>
vars == <<mainVars, thread, thr_data, segmentVars, memory>>

Positions == [pass : 0 .. Passes - 1, slice : Slices]
NoBlock == <<0, 0>>
NoPosition == [pass |-> 0, slice |-> 0]
Block(offset, generation) == [offset |-> offset, generation |-> generation]

Active == {"created", "fill", "mix"}

(* The first state fill_memory_blocks sees: fill_first_blocks has written the *)
(* first two blocks of every lane.                                            *)
Init ==
    /\ main = "start"
    /\ r = 0 /\ s = 0 /\ l = 0 /\ ll = 0
    /\ rc = "ARGON2_OK"
    /\ thread = [k \in LaneIds |-> "none"]
    /\ thr_data = [k \in LaneIds |-> NoPosition]
    /\ position = [k \in LaneIds |-> NoPosition]
    /\ i = [k \in LaneIds |-> 0]
    /\ prev = [k \in LaneIds |-> 0]
    /\ ref = [k \in LaneIds |-> NoBlock]
    /\ gen = [k \in LaneIds |-> 0]
    /\ state = [k \in LaneIds |-> Block(0, 0)]
    /\ memory = [k \in LaneIds |-> [o \in Offsets |-> IF o < 2 THEN 1 ELSE 0]]

Return(code) == main' = "returned" /\ rc' = code

-----------------------------------------------------------------------------
(* fill_memory_blocks: the choice between the two versions.  Both callocs of  *)
(* the multi-threaded one happen before any thread exists.                    *)
fill_memory_blocks ==
    /\ main = "start"
    /\ main' = IF Threads = 1 THEN "st" ELSE "limit"
    /\ UNCHANGED <<r, s, l, ll, rc, thread, thr_data, segmentVars, memory>>

CallocFails ==
    /\ main = "start" /\ Threads > 1
    /\ Return("ARGON2_MEMORY_ALLOCATION_ERROR")
    /\ UNCHANGED <<r, s, l, ll, thread, thr_data, segmentVars, memory>>

(* The end of a slice: the next slice, the next pass, or the return. *)
more_slices_one_pass == s < ARGON2_SYNC_POINTS - 1
more_slices == s < ARGON2_SYNC_POINTS - 1 \/ r < Passes - 1

AdvanceSlice(next) ==
    IF more_slices
    THEN /\ main' = next
         /\ s' = (s + 1) % ARGON2_SYNC_POINTS
         /\ r' = IF s = ARGON2_SYNC_POINTS - 1 THEN r + 1 ELSE r
         /\ l' = 0
         /\ thread' = [k \in LaneIds |-> "none"]
         /\ rc' = rc
    ELSE /\ Return("ARGON2_OK")
         /\ thread' = [thread EXCEPT ![l] = "joined"]
         /\ UNCHANGED <<r, s, l>>

(* fill_memory_blocks_st calls fill_segment for one lane after the other; its *)
(* call is modelled as a thread the caller does nothing beside but wait for.  *)
StCall ==
    /\ main = "st"
    /\ main' = "st_wait"
    /\ thr_data' = [thr_data EXCEPT ![l] = [pass |-> r, slice |-> s]]
    /\ thread' = [thread EXCEPT ![l] = "created"]
    /\ UNCHANGED <<r, s, l, ll, rc, segmentVars, memory>>

StReturn ==
    /\ main = "st_wait" /\ thread[l] = "exited"
    /\ IF l < Lanes - 1
       THEN /\ main' = "st"
            /\ l' = l + 1
            /\ thread' = [thread EXCEPT ![l] = "joined"]
            /\ UNCHANGED <<r, s, rc>>
       ELSE AdvanceSlice("st")
    /\ UNCHANGED <<ll, thr_data, segmentVars, memory>>

-----------------------------------------------------------------------------
(* fill_memory_blocks_mt. *)

(* 2.1 Join a thread if the limit is exceeded. *)
JoinLimit_never ==
    /\ main = "limit"
    /\ main' = "create"
    /\ UNCHANGED <<r, s, l, ll, rc, thread, thr_data, segmentVars, memory>>

JoinLimit ==
    /\ main = "limit"
    /\ IF l >= Threads
       THEN /\ thread[l - Threads] = "exited"
            /\ thread' = [thread EXCEPT ![l - Threads] = "joined"]
       ELSE UNCHANGED thread
    /\ main' = "create"
    /\ UNCHANGED <<r, s, l, ll, rc, thr_data, segmentVars, memory>>

(* 2.2 Create the thread of the next lane; after the last one, go on to       *)
(* 3. joining the remaining threads.                                          *)
CreateOk ==
    /\ main = "create"
    /\ thr_data' = [thr_data EXCEPT ![l] = [pass |-> r, slice |-> s]]
    /\ thread' = [thread EXCEPT ![l] = "created"]
    /\ IF l < Lanes - 1
       THEN main' = "limit" /\ l' = l + 1
       ELSE main' = "join" /\ l' = Lanes - Threads
    /\ UNCHANGED <<r, s, ll, rc, segmentVars, memory>>

CreateFails ==
    /\ main = "create"
    /\ thr_data' = [thr_data EXCEPT ![l] = [pass |-> r, slice |-> s]]
    /\ main' = "unwind"
    /\ ll' = 0
    /\ UNCHANGED <<r, s, l, rc, thread, segmentVars, memory>>

(* After a failed creation, every earlier handle of the slice is joined and   *)
(* the result of the join is ignored.  Joining a handle a second time is      *)
(* undefined behaviour (pthread_join).                                        *)
Unwind_no_wait ==
    /\ main = "unwind"
    /\ Return("ARGON2_THREAD_FAIL")
    /\ UNCHANGED <<r, s, l, ll, thread, thr_data, segmentVars, memory>>

Unwind ==
    /\ main = "unwind"
    /\ IF ll >= l
       THEN Return("ARGON2_THREAD_FAIL") /\ UNCHANGED <<ll, thread>>
       ELSE \/ /\ thread[ll] = "exited"
               /\ thread' = [thread EXCEPT ![ll] = "joined"]
               /\ ll' = ll + 1
               /\ UNCHANGED <<main, rc>>
            \/ /\ JoinMayFail
               /\ ll' = ll + 1
               /\ UNCHANGED <<main, rc, thread>>
            \/ /\ thread[ll] = "joined"
               /\ main' = "undefined"
               /\ UNCHANGED <<ll, rc, thread>>
    /\ UNCHANGED <<r, s, l, thr_data, segmentVars, memory>>

(* 3. Join the remaining threads. *)
JoinRest_one_too_many ==
    /\ main = "join" /\ l < Lanes - 1 /\ thread[l + 1] = "exited"
    /\ l' = l + 1
    /\ thread' = [thread EXCEPT ![l + 1] = "joined"]
    /\ UNCHANGED <<main, r, s, ll, rc, thr_data, segmentVars, memory>>

JoinRest ==
    /\ main = "join" /\ thread[l] = "exited"
    /\ IF l < Lanes - 1
       THEN /\ l' = l + 1
            /\ thread' = [thread EXCEPT ![l] = "joined"]
            /\ UNCHANGED <<main, r, s, rc>>
       ELSE AdvanceSlice("limit")
    /\ UNCHANGED <<ll, thr_data, segmentVars, memory>>

(* A join that reports failure makes the function free its arrays and return  *)
(* at once, whatever the threads are doing.                                   *)
JoinFails_keeps_rc ==
    /\ JoinMayFail
    /\ main = "join" \/ (main = "limit" /\ l >= Threads)
    /\ Return(rc)
    /\ UNCHANGED <<r, s, l, ll, thread, thr_data, segmentVars, memory>>

JoinFails ==
    /\ JoinMayFail
    /\ main = "join" \/ (main = "limit" /\ l >= Threads)
    /\ Return("ARGON2_THREAD_FAIL")
    /\ UNCHANGED <<r, s, l, ll, thread, thr_data, segmentVars, memory>>

Main ==
    \/ fill_memory_blocks \/ CallocFails \/ StCall \/ StReturn
    \/ JoinLimit \/ CreateOk \/ CreateFails \/ Unwind \/ JoinRest \/ JoinFails

-----------------------------------------------------------------------------
(* fill_segment, in the thread of lane k.  It may run as long as the arrays   *)
(* and the instance it points to are alive.                                   *)

Alive == main \notin {"returned", "undefined"}

data_independent_addressing(pos) ==
    \/ Type = "i"
    \/ Type = "id" /\ pos.pass = 0 /\ pos.slice < ARGON2_SYNC_POINTS \div 2

curr(k) == position[k].slice * SegmentLength + i[k]

(* The number of address blocks generated before the loop: "Don't forget to   *)
(* generate the first block of addresses".                                    *)
first_addresses_forgotten(pos) == 0
first_addresses(pos) ==
    IF data_independent_addressing(pos) /\ starting_index(pos.pass, pos.slice) = 2
    THEN 1 ELSE 0

(* Entry, up to the loop: the argument is copied, the first address block of  *)
(* the first segment generated, and (opt.c) the previous block loaded.        *)
Enter(k) ==
    LET pos == thr_data[k]
        start == starting_index(pos.pass, pos.slice)
        offset == pos.slice * SegmentLength + start
    IN  /\ Alive /\ thread[k] = "created"
        /\ position' = [position EXCEPT ![k] = pos]
        /\ i' = [i EXCEPT ![k] = start]
        /\ prev' = [prev EXCEPT ![k] = predecessor(offset)]
        /\ gen' = [gen EXCEPT ![k] = first_addresses(pos)]
        /\ state' = [state EXCEPT ![k] =
                        IF Opt THEN Block(predecessor(offset),
                                          memory[k][predecessor(offset)])
                               ELSE @]
        /\ thread' = [thread EXCEPT ![k] = "fill"]
        /\ UNCHANGED <<mainVars, thr_data, ref, memory>>

(* 1.1 Rotating prev_offset if needed. *)
rotated_never(k) == prev[k]
rotated(k) == IF curr(k) % lane_length = 1 THEN curr(k) - 1 ELSE prev[k]

(* 1.2 The reference block.  The 64 pseudo-random bits come from the address  *)
(* block or from the previous block and are arbitrary here: hi stands for the *)
(* residue of the upper half, lo is the lower half.                           *)
Address(k, hi, lo) ==
    LET pos == position[k]
        ref_lane == IF pos.pass = 0 /\ pos.slice = 0 THEN k ELSE hi % Lanes
    IN  /\ Alive /\ thread[k] = "fill" /\ i[k] < SegmentLength
        /\ prev' = [prev EXCEPT ![k] = rotated(k)]
        /\ gen' = [gen EXCEPT ![k] =
                      IF /\ data_independent_addressing(pos)
                         /\ i[k] % AddressesInBlock = 0
                      THEN @ + 1 ELSE @]
        /\ ref' = [ref EXCEPT ![k] =
                      <<ref_lane, index_alpha(pos.pass, pos.slice, i[k], lo,
                                              ref_lane = k)>>]
        /\ thread' = [thread EXCEPT ![k] = "mix"]
        /\ UNCHANGED <<mainVars, thr_data, position, i, state, memory>>

(* The blocks fill_block reads: the previous one (which opt.c has at hand),   *)
(* the reference block, and from the second pass on, in version 1.3, the      *)
(* block that is about to be overwritten.                                     *)
with_xor(pos) == ~Version10 /\ pos.pass # 0

fill_block_reads(k) ==
    {ref[k]} \cup (IF Opt THEN {} ELSE {<<k, prev[k]>>})
             \cup (IF with_xor(position[k]) THEN {<<k, curr(k)>>} ELSE {})

(* 2 Creating a new block, and the increments of the loop.  ref_block is      *)
(* dead from here to the next Address, and cleared.                           *)
Mix(k) ==
    LET generation == position[k].pass + 1
    IN  /\ Alive /\ thread[k] = "mix"
        /\ memory' = [memory EXCEPT ![k][curr(k)] = generation]
        /\ state' = [state EXCEPT ![k] =
                        IF Opt THEN Block(curr(k), generation) ELSE @]
        /\ i' = [i EXCEPT ![k] = @ + 1]
        /\ prev' = [prev EXCEPT ![k] = @ + 1]
        /\ ref' = [ref EXCEPT ![k] = NoBlock]
        /\ thread' = [thread EXCEPT ![k] = "fill"]
        /\ UNCHANGED <<mainVars, thr_data, position, gen>>

(* argon2_thread_exit, or the return from fill_segment. *)
Exit(k) ==
    /\ Alive /\ thread[k] = "fill" /\ i[k] >= SegmentLength
    /\ thread' = [thread EXCEPT ![k] = "exited"]
    /\ UNCHANGED <<mainVars, thr_data, segmentVars, memory>>

Segment(k) ==
    \/ Enter(k)
    \/ \E hi \in LaneIds, lo \in 0 .. Word - 1 : Address(k, hi, lo)
    \/ Mix(k)
    \/ Exit(k)

(* A thread that runs on after the call has returned uses freed arrays and a  *)
(* dead instance: undefined behaviour.                                        *)
Dangling(k) ==
    /\ main = "returned" /\ thread[k] \in Active
    /\ main' = "undefined"
    /\ UNCHANGED <<r, s, l, ll, rc, thread, thr_data, segmentVars, memory>>

(* The call is over and no thread is left. *)
Finished ==
    /\ ~Alive
    /\ main = "returned" => \A k \in LaneIds : thread[k] \notin Active
    /\ UNCHANGED vars

Next ==
    \/ Main
    \/ \E k \in LaneIds : Segment(k) \/ Dangling(k)
    \/ Finished

(* The caller's thread runs, and the operating system runs every thread.  A   *)
(* disjunct that only a failure takes (CallocFails, CreateFails, JoinFails)   *)
(* is never required.                                                         *)
Fairness ==
    /\ WF_vars(Main)
    /\ \A k \in LaneIds : WF_vars(Segment(k))

Spec == Init /\ [][Next]_vars
FairSpec == Spec /\ Fairness

-----------------------------------------------------------------------------
(* Properties. *)

(* Every variable stays in the range the code gives it: loop counters in      *)
(* bounds, offsets inside the lane (prev_offset may step once past the end,   *)
(* before it is rotated), generations no later than the last pass.            *)
TypeOK ==
    /\ main \in {"start", "st", "st_wait", "limit", "create", "unwind", "join",
                 "returned", "undefined"}
    /\ r \in 0 .. Passes - 1
    /\ s \in Slices
    /\ l \in LaneIds
    /\ ll \in LaneIds
    /\ rc \in {"ARGON2_OK", "ARGON2_MEMORY_ALLOCATION_ERROR",
               "ARGON2_THREAD_FAIL"}
    /\ thread \in [LaneIds -> {"none", "exited", "joined"} \cup Active]
    /\ thr_data \in [LaneIds -> Positions]
    /\ position \in [LaneIds -> Positions]
    /\ i \in [LaneIds -> 0 .. SegmentLength]
    /\ prev \in [LaneIds -> 0 .. lane_length]
    /\ ref \in [LaneIds -> LaneIds \X Offsets]
    /\ gen \in [LaneIds -> 0 .. SegmentLength + 1]
    /\ state \in [LaneIds -> [offset : Offsets, generation : 0 .. Passes]]
    /\ memory \in [LaneIds -> [Offsets -> 0 .. Passes]]

(* The generation the block at offset of lane has when the single-threaded    *)
(* order (pass by pass, slice by slice, lane by lane) is about to compute     *)
(* block i[k] of lane k.                                                      *)
SequentialGeneration(k, lane, offset) ==
    LET pos == position[k]
        upto == CASE lane < k -> (pos.slice + 1) * SegmentLength
                  [] lane = k -> curr(k)
                  [] lane > k -> pos.slice * SegmentLength
    IN  IF offset < upto THEN pos.pass + 1 ELSE pos.pass

(* The parallel fill computes what the single-threaded fill computes: at the  *)
(* moment fill_block runs, every block it reads has been written, and has the *)
(* generation it has in the sequential order; the block chained to is the     *)
(* predecessor in the lane, and the registers of opt.c hold exactly it.       *)
ReadsAreSequential ==
    \A k \in LaneIds : Alive /\ thread[k] = "mix" =>
        /\ \A b \in fill_block_reads(k) :
               /\ memory[b[1]][b[2]] = SequentialGeneration(k, b[1], b[2])
               /\ memory[b[1]][b[2]] > 0
        /\ prev[k] = predecessor(curr(k))
        /\ Opt => state[k] = Block(prev[k], memory[k][prev[k]])
        /\ ref[k] \notin {<<k, curr(k)>>, <<k, prev[k]>>}

(* The blocks the thread of lane k writes between its creation and its join. *)
SegmentWrites(k) == {<<k, o>> : o \in InSlice(thr_data[k].slice)}

(* No thread reads a block that a thread not yet joined may be writing, has   *)
(* just written or is going to write: only the join orders the two accesses.  *)
NoDataRace ==
    \A j, k \in LaneIds :
        /\ j # k /\ Alive
        /\ thread[j] = "mix"
        /\ thread[k] \in Active \cup {"exited"}
        => fill_block_reads(j) \cap SegmentWrites(k) = {}

(* Data-independent addressing takes address i % 128 of address block         *)
(* i \div 128 + 1 of the segment: next_addresses has run exactly that often,  *)
(* in the first segment, which starts at index 2, too.                        *)
AddressBlockFresh ==
    \A k \in LaneIds :
        Alive /\ thread[k] = "mix" /\ data_independent_addressing(position[k])
            => gen[k] = i[k] \div AddressesInBlock + 1

(* When fill_memory_blocks reports ARGON2_OK the whole matrix has been        *)
(* written by the last pass and no thread is left; otherwise the code says so.*)
CompleteOnOK ==
    main = "returned" /\ rc = "ARGON2_OK" =>
        \A k \in LaneIds :
            /\ thread[k] = "joined"
            /\ \A o \in Offsets : memory[k][o] = Passes

(* The threads that exist (created and not yet joined) at any time are at     *)
(* most instance->threads, which is what a caller sets to bound them.         *)
ThreadBound ==
    Cardinality({k \in LaneIds : thread[k] \in Active \cup {"exited"}}) <= Threads

(* When the call returns, on an error path too, no thread uses the matrix,    *)
(* the instance or the arrays any more.                                       *)
NoThreadOutlivesCall ==
    main = "returned" => \A k \in LaneIds : thread[k] \notin Active

(* "Wait for already running threads": after a failed creation the threads    *)
(* created so far are joined, each of them once.                              *)
NoUndefinedJoin == main # "undefined"

(* fill_memory_blocks returns, and leaves no thread behind, however threads   *)
(* are scheduled and whichever creation fails.                                *)
Termination == <>[](main = "returned" /\ NoThreadOutlivesCall)

-----------------------------------------------------------------------------
(* The refinement: the segments of lane k that are complete. *)
SegmentsDone(k) ==
    ARGON2_SYNC_POINTS * r + s + (IF thread[k] \in {"exited", "joined"}
                                  THEN 1 ELSE 0)

Outcome ==
    CASE Alive -> "running"
      [] main = "returned" /\ rc = "ARGON2_OK" -> "ok"
      [] OTHER -> "failed"

Schedule ==
    INSTANCE FillSchedule WITH
        Segments <- ARGON2_SYNC_POINTS * Passes,
        done <- [k \in LaneIds |-> SegmentsDone(k)],
        outcome <- Outcome

(* The threads, the joins and the thread limit implement the lockstep of      *)
(* lanes and segments.                                                        *)
ImplementsSchedule == Schedule!Spec
=============================================================================
