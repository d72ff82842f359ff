-------------------------- MODULE FillMemoryProofs --------------------------
(* The properties of FillMemory for every number of lanes, threads and        *)
(* passes, every segment length and every word size: the inductive invariant  *)
(* and what follows from it.                                                  *)
EXTENDS FillMemory, IndexAlphaProofs, FiniteSetTheorems

Here == [pass |-> r, slice |-> s]
Base == s * SegmentLength

-----------------------------------------------------------------------------
(* The inductive invariant. *)

(* How far the thread of lane k is in the current segment. *)
Progress(k) ==
    IF thread[k] \in {"none", "created"} THEN starting_index(r, s)
    ELSE IF thread[k] \in {"fill", "mix"} THEN i[k] ELSE SegmentLength

(* The matrix: lane k has generation r + 1 up to its progress, r after it. *)
MatrixInv ==
    \A k \in LaneIds : \A o \in Offsets :
        memory[k][o] = IF o < Base + Progress(k) THEN r + 1 ELSE r

(* The threads of a slice all work on that slice. *)
PositionInv ==
    \A k \in LaneIds :
        /\ thread[k] # "none" => thr_data[k] = Here
        /\ thread[k] \in {"fill", "mix"} =>
              position[k] = Here /\ i[k] >= starting_index(r, s)

(* The loop of fill_segment: prev_offset and the registers of opt.c. *)
ChainInv ==
    \A k \in LaneIds :
        /\ thread[k] = "fill" /\ i[k] < SegmentLength =>
              /\ curr(k) = 1 \/ prev[k] = predecessor(curr(k))
              /\ Opt => state[k].offset = predecessor(curr(k))
        /\ thread[k] = "mix" =>
              /\ i[k] < SegmentLength
              /\ prev[k] = predecessor(curr(k))
              /\ Opt => state[k].offset = predecessor(curr(k))
        /\ thread[k] \in {"fill", "mix"} /\ Opt =>
              state[k].generation = memory[k][state[k].offset]

(* The address blocks generated before index n of a segment is reached. *)
Generated(n) == IF n = 0 THEN 0 ELSE (n - 1) \div AddressesInBlock + 1

AddressInv ==
    \A k \in LaneIds :
        /\ thread[k] = "fill" =>
              gen[k] = IF data_independent_addressing(position[k])
                       THEN Generated(i[k]) ELSE 0
        /\ thread[k] = "mix" =>
              gen[k] = IF data_independent_addressing(position[k])
                       THEN i[k] \div AddressesInBlock + 1 ELSE 0

ReferenceInv ==
    \A k \in LaneIds : thread[k] = "mix" =>
        /\ ref[k][2] \in ReferenceSet([pass |-> r, slice |-> s, index |-> i[k]],
                                      ref[k][1] = k)
        /\ r = 0 /\ s = 0 => ref[k][1] = k

(* Which lanes have a thread, and which of them are joined, at every point of *)
(* fill_memory_blocks.                                                        *)

MainInv ==
    /\ Alive => rc = "ARGON2_OK"
    /\ main = "start" =>
          /\ r = 0 /\ s = 0 /\ l = 0
          /\ \A k \in LaneIds : thread[k] = "none"
    /\ main = "st" =>
          \A k \in LaneIds : thread[k] = IF k < l THEN "joined" ELSE "none"
    /\ main = "st_wait" =>
          \A k \in LaneIds :
             /\ k < l => thread[k] = "joined"
             /\ k > l => thread[k] = "none"
             /\ k = l => thread[k] \in Active \cup {"exited"}
    /\ main \in {"limit", "create", "unwind"} =>
          \A k \in LaneIds : thread[k] = "none" <=> k >= l
    /\ main = "limit" => \A k \in LaneIds : thread[k] = "joined" <=> k < l - Threads
    /\ main = "create" => \A k \in LaneIds : thread[k] = "joined" <=> k <= l - Threads
    /\ main = "unwind" =>
          /\ \A k \in LaneIds : k <= l - Threads => thread[k] = "joined"
          /\ \A k \in LaneIds : thread[k] = "joined" => k < ll \/ k <= l - Threads
          /\ ~JoinMayFail => \A k \in LaneIds : k < ll => thread[k] = "joined"
    /\ main = "join" =>
          /\ l >= Lanes - Threads
          /\ \A k \in LaneIds :
                /\ thread[k] # "none"
                /\ thread[k] = "joined" <=> k < l
    /\ main = "returned" /\ rc = "ARGON2_OK" =>
          /\ r = Passes - 1 /\ s = ARGON2_SYNC_POINTS - 1
          /\ \A k \in LaneIds : thread[k] = "joined"
    /\ main = "returned" /\ ~JoinMayFail =>
          \A k \in LaneIds : thread[k] \in {"none", "joined"}
    /\ main = "undefined" => JoinMayFail \/ Threads < Lanes

IInv ==
    /\ TypeOK /\ MatrixInv /\ PositionInv /\ ChainInv /\ AddressInv
    /\ ReferenceInv /\ MainInv

SegmentInv == MatrixInv /\ PositionInv /\ ChainInv /\ AddressInv /\ ReferenceInv

-----------------------------------------------------------------------------
(* Arithmetic of segments. *)

LEMMA BaseFacts ==
    ASSUME NEW t \in Slices
    PROVE  /\ t * SegmentLength \in Nat
           /\ t * SegmentLength + SegmentLength <= lane_length
           /\ t = 0 <=> t * SegmentLength = 0
           /\ t # 0 => t * SegmentLength >= 2
           /\ t = 3 <=> t * SegmentLength + SegmentLength = lane_length
           /\ (t + 1) * SegmentLength = t * SegmentLength + SegmentLength
  <1>1. t \in {0, 1, 2, 3}
    BY DEF Slices, ARGON2_SYNC_POINTS
  <1> QED BY <1>1, LaneFits

LEMMA DivStep ==
    ASSUME NEW n \in Nat \ {0}, NEW a \in Nat \ {0, 1}
    PROVE  /\ n % a = 0 => n \div a = ((n - 1) \div a) + 1
           /\ n % a # 0 => n \div a = (n - 1) \div a
  OBVIOUS

LEMMA DivRange ==
    ASSUME NEW n \in Nat, NEW a \in Nat \ {0, 1}
    PROVE  n \div a \in 0 .. n
  OBVIOUS

(* next_addresses has run once, at n = 2 in the first segment and at n = 1    *)
(* otherwise.                                                                 *)
LEMMA GeneratedFacts ==
    /\ Generated(0) = 0 /\ Generated(2) = 1
    /\ \A n \in Nat : /\ Generated(n) \in 0 .. n
                      /\ Generated(n + 1) = n \div AddressesInBlock + 1
                      /\ (n % AddressesInBlock = 0 =>
                            Generated(n) + 1 = n \div AddressesInBlock + 1)
                      /\ (n % AddressesInBlock # 0 =>
                            Generated(n) = n \div AddressesInBlock + 1)
  <1>1. AddressesInBlock \in Nat \ {0, 1}
    BY FillAssumption
  <1>2. Generated(0) = 0 /\ Generated(2) = 1
    BY <1>1 DEF Generated
  <1>3. ASSUME NEW n \in Nat
        PROVE  /\ Generated(n) \in 0 .. n
               /\ Generated(n + 1) = n \div AddressesInBlock + 1
               /\ n % AddressesInBlock = 0 =>
                     Generated(n) + 1 = n \div AddressesInBlock + 1
               /\ n % AddressesInBlock # 0 =>
                     Generated(n) = n \div AddressesInBlock + 1
    <2>1. CASE n = 0
      BY <1>1, <2>1 DEF Generated
    <2>2. CASE n # 0
      <3>1. (n - 1) \div AddressesInBlock \in 0 .. n - 1
        BY <1>1, <2>2, DivRange
      <3>2. /\ n % AddressesInBlock = 0 => n \div AddressesInBlock
                  = ((n - 1) \div AddressesInBlock) + 1
            /\ n % AddressesInBlock # 0 => n \div AddressesInBlock
                  = (n - 1) \div AddressesInBlock
        BY <1>1, <2>2, DivStep
      <3>3. n + 1 # 0 /\ (n + 1) - 1 = n
        OBVIOUS
      <3> QED BY <2>2, <3>1, <3>2, <3>3 DEF Generated
    <2> QED BY <2>1, <2>2
  <1> QED BY <1>2, <1>3

-----------------------------------------------------------------------------
LEMMA InitIInv == Init => IInv
  <1> SUFFICES ASSUME Init PROVE IInv
    OBVIOUS
  <1>0. /\ 0 \in Slices /\ 0 \in LaneIds /\ 0 \in 0 .. Passes - 1 /\ 0 \in Offsets
        /\ Passes \in Nat \ {0}
    BY GeometryAssumption, FillAssumption, LaneFits
    DEF Slices, LaneIds, Offsets, ARGON2_SYNC_POINTS
  <1>1. TypeOK
    <2>1. /\ NoPosition \in Positions
          /\ Block(0, 0) \in [offset : Offsets, generation : 0 .. Passes]
          /\ NoBlock \in LaneIds \X Offsets
      BY <1>0 DEF NoPosition, Positions, Block, NoBlock
    <2>2. \A o \in Offsets : (IF o < 2 THEN 1 ELSE 0) \in 0 .. Passes
      BY <1>0
    <2>3. 0 \in 0 .. SegmentLength /\ 0 \in 0 .. lane_length
          /\ 0 \in 0 .. SegmentLength + 1
      BY LaneFits
    <2> QED BY <1>0, <2>1, <2>2, <2>3 DEF Init, TypeOK
  <1>2. MatrixInv
    BY LaneFits DEF Init, MatrixInv, Progress, Base, starting_index, Offsets
  <1>3. PositionInv /\ ChainInv /\ AddressInv /\ ReferenceInv
    BY DEF Init, PositionInv, ChainInv, AddressInv, ReferenceInv
  <1>4. MainInv
    BY DEF Init, MainInv
  <1> QED BY <1>1, <1>2, <1>3, <1>4 DEF IInv

(* What the main function does to a thread inside a slice, creating or        *)
(* joining it, leaves the segments as they are.                               *)
Handled(k) ==
    \/ thread'[k] = thread[k] /\ (thread[k] # "none" => thr_data'[k] = thr_data[k])
    \/ thread[k] = "none" /\ thread'[k] = "created" /\ thr_data'[k] = Here
    \/ thread[k] = "exited" /\ thread'[k] = "joined" /\ thr_data'[k] = thr_data[k]

LEMMA MainKeepsSegments ==
    ASSUME IInv,
           UNCHANGED <<r, s, segmentVars, memory>>,
           \A k \in LaneIds : Handled(k)
    PROVE  SegmentInv'
  <1>1. /\ r' = r /\ s' = s /\ i' = i /\ memory' = memory /\ position' = position
        /\ prev' = prev /\ state' = state /\ gen' = gen /\ ref' = ref
    BY DEF segmentVars
  <1>2. ASSUME NEW k \in LaneIds
        PROVE  /\ Progress(k)' = Progress(k)
               /\ thread'[k] \in {"fill", "mix"} => thread[k] = thread'[k]
               /\ thread'[k] # "none" => thr_data'[k] = Here'
    BY <1>1 DEF Handled, Progress, IInv, PositionInv, Here
  <1>3. MatrixInv'
    BY <1>1, <1>2 DEF IInv, MatrixInv, Base
  <1>4. PositionInv'
    BY <1>1, <1>2 DEF IInv, PositionInv, Here
  <1>5. ChainInv'
    BY <1>1, <1>2 DEF IInv, ChainInv, curr
  <1>6. AddressInv'
    BY <1>1, <1>2 DEF IInv, AddressInv, data_independent_addressing
  <1>7. ReferenceInv'
    BY <1>1, <1>2 DEF IInv, ReferenceInv
  <1> QED BY <1>3, <1>4, <1>5, <1>6, <1>7 DEF SegmentInv

-----------------------------------------------------------------------------
(* fill_memory_blocks. *)

LEMMA StartStep ==
    ASSUME IInv, fill_memory_blocks \/ CallocFails
    PROVE  IInv'
  <1>1. UNCHANGED <<r, s, l, ll, thread, thr_data, segmentVars, memory>>
    BY DEF fill_memory_blocks, CallocFails
  <1>2. \A k \in LaneIds : Handled(k)
    BY <1>1 DEF Handled
  <1>3. SegmentInv'
    BY <1>1, <1>2, MainKeepsSegments
  <1>4. TypeOK'
    BY <1>1 DEF IInv, TypeOK, fill_memory_blocks, CallocFails, Return, segmentVars
  <1>5. MainInv'
    BY <1>1, FillAssumption, GeometryAssumption
    DEF IInv, MainInv, fill_memory_blocks, CallocFails, Return, Alive, LaneIds
  <1> QED BY <1>3, <1>4, <1>5 DEF IInv, SegmentInv

LEMMA HereType ==
    ASSUME TypeOK PROVE Here \in Positions
  BY DEF TypeOK, Here, Positions

LEMMA StCallStep ==
    ASSUME IInv, StCall
    PROVE  IInv'
  <1>0. l \in LaneIds /\ l \in Int /\ thread[l] = "none"
    BY DEF IInv, TypeOK, MainInv, StCall, LaneIds
  <1>1. \A k \in LaneIds : Handled(k)
    BY <1>0 DEF IInv, TypeOK, StCall, Handled, Here
  <1>2. SegmentInv'
    BY <1>1, MainKeepsSegments DEF StCall
  <1>3. TypeOK'
    BY HereType DEF IInv, TypeOK, StCall, segmentVars, Active, Here
  <1>4. MainInv'
    BY DEF IInv, TypeOK, MainInv, StCall, Alive, Active, LaneIds
  <1> QED BY <1>2, <1>3, <1>4 DEF IInv, SegmentInv

(* The end of a slice, with every thread of it done. *)
LEMMA AdvanceSliceStep ==
    ASSUME IInv, NEW next \in {"st", "limit"}, AdvanceSlice(next),
           UNCHANGED <<ll, thr_data, segmentVars, memory>>,
           Alive, l = Lanes - 1, thread[l] = "exited",
           \A k \in LaneIds : k # l => thread[k] = "joined"
    PROVE  IInv'
  <1> DEFINE last == ~(s < ARGON2_SYNC_POINTS - 1 \/ r < Passes - 1)
  <1>0. /\ TypeOK /\ l \in LaneIds /\ s \in Slices /\ r \in 0 .. Passes - 1
        /\ Passes \in Nat \ {0}
        /\ i' = i /\ memory' = memory /\ position' = position
        /\ prev' = prev /\ state' = state /\ gen' = gen /\ ref' = ref
    BY FillAssumption DEF IInv, TypeOK, segmentVars
  <1>1. CASE last
    <2>1. /\ main' = "returned" /\ rc' = "ARGON2_OK" /\ UNCHANGED <<r, s, l>>
          /\ thread' = [thread EXCEPT ![l] = "joined"]
      BY <1>1 DEF AdvanceSlice, more_slices, Return
    <2>2. \A k \in LaneIds : Handled(k)
      BY <1>0, <2>1 DEF Handled, TypeOK
    <2>3. SegmentInv'
      BY <2>1, <2>2, MainKeepsSegments
    <2>4. TypeOK'
      BY <1>0, <2>1 DEF TypeOK
    <2>5. \A k \in LaneIds : thread'[k] = "joined"
      BY <1>0, <2>1 DEF TypeOK
    <2>6. r = Passes - 1 /\ s = ARGON2_SYNC_POINTS - 1
      BY <1>0, <1>1 DEF Slices, ARGON2_SYNC_POINTS
    <2>7. MainInv'
      BY <2>1, <2>5, <2>6 DEF MainInv, Alive
    <2> QED BY <2>3, <2>4, <2>7 DEF IInv, SegmentInv
  <1>2. CASE ~last
    <2>1. /\ main' = next /\ s' = (s + 1) % ARGON2_SYNC_POINTS
          /\ r' = (IF s = ARGON2_SYNC_POINTS - 1 THEN r + 1 ELSE r)
          /\ l' = 0 /\ rc' = rc
          /\ thread' = [k \in LaneIds |-> "none"]
      BY <1>2 DEF AdvanceSlice, more_slices
    <2>2. \/ s \in 0 .. 2 /\ s' = s + 1 /\ r' = r
          \/ s = 3 /\ s' = 0 /\ r' = r + 1 /\ r + 1 \in 0 .. Passes - 1
      BY <1>0, <1>2, <2>1 DEF Slices, ARGON2_SYNC_POINTS
    <2>3. s' \in Slices /\ r' \in 0 .. Passes - 1 /\ 0 \in LaneIds
      BY <1>0, <2>2, GeometryAssumption DEF Slices, ARGON2_SYNC_POINTS, LaneIds
    <2>4. TypeOK'
      BY <1>0, <2>1, <2>3 DEF TypeOK
    <2>5. ~(r' = 0 /\ s' = 0)
      BY <1>0, <2>2
    <2>6. \A k \in LaneIds : thread'[k] = "none" /\ Progress(k)' = 0
      BY <2>1, <2>5 DEF Progress, starting_index
    <2>7. \A k \in LaneIds : \A o \in Offsets :
              memory[k][o] = IF o < Base + SegmentLength THEN r + 1 ELSE r
      BY <1>0 DEF IInv, MatrixInv, Progress
    <2>8. /\ Base \in Nat /\ (s # 3 => Base' = Base + SegmentLength)
          /\ (s = 3 => Base' = 0 /\ Base + SegmentLength = lane_length)
      BY <1>0, <2>2, BaseFacts, LaneFits DEF Base
    <2>9. MatrixInv'
      <3> SUFFICES ASSUME NEW k \in LaneIds, NEW o \in Offsets
                   PROVE  memory[k][o] = IF o < Base' THEN r' + 1 ELSE r'
        BY <1>0, <2>6, <2>8, LaneFits DEF MatrixInv
      <3> QED BY <1>0, <2>2, <2>7, <2>8, LaneFits DEF Offsets
    <2>10. PositionInv' /\ ChainInv' /\ AddressInv' /\ ReferenceInv'
      BY <2>6 DEF PositionInv, ChainInv, AddressInv, ReferenceInv
    <2>11. MainInv'
      BY <2>1, <2>6, FillAssumption DEF IInv, MainInv, Alive, LaneIds
    <2> QED BY <2>4, <2>9, <2>10, <2>11 DEF IInv
  <1> QED BY <1>1, <1>2

LEMMA StReturnStep ==
    ASSUME IInv, StReturn
    PROVE  IInv'
  <1>0. l \in LaneIds /\ main = "st_wait" /\ Alive /\ thread[l] = "exited"
    BY DEF IInv, TypeOK, StReturn, Alive
  <1>1. CASE l < Lanes - 1
    <2>1. /\ main' = "st" /\ l' = l + 1 /\ UNCHANGED <<r, s, rc>>
          /\ thread' = [thread EXCEPT ![l] = "joined"]
          /\ UNCHANGED <<ll, thr_data, segmentVars, memory>>
      BY <1>1 DEF StReturn
    <2>2. \A k \in LaneIds : Handled(k)
      BY <1>0, <2>1 DEF IInv, TypeOK, Handled
    <2>3. SegmentInv'
      BY <2>1, <2>2, MainKeepsSegments
    <2>4. TypeOK'
      <3>1. l + 1 \in LaneIds
        BY <1>0, <1>1, GeometryAssumption DEF LaneIds
      <3> QED BY <1>0, <2>1, <3>1 DEF IInv, TypeOK, segmentVars
    <2>5. MainInv'
      <3>1. \A k \in LaneIds :
               thread'[k] = IF k < l + 1 THEN "joined" ELSE "none"
        BY <1>0, <2>1 DEF IInv, TypeOK, MainInv, LaneIds
      <3> QED BY <1>0, <2>1, <3>1 DEF IInv, MainInv, Alive
    <2> QED BY <2>3, <2>4, <2>5 DEF IInv, SegmentInv
  <1>2. CASE ~(l < Lanes - 1)
    <2>1. l = Lanes - 1
      BY <1>0, <1>2, GeometryAssumption DEF LaneIds
    <2>2. \A k \in LaneIds : k # l => thread[k] = "joined"
      BY <1>0, <2>1, GeometryAssumption DEF IInv, MainInv, LaneIds
    <2>3. AdvanceSlice("st") /\ UNCHANGED <<ll, thr_data, segmentVars, memory>>
      BY <1>2 DEF StReturn
    <2> QED BY <1>0, <2>1, <2>2, <2>3, AdvanceSliceStep
  <1> QED BY <1>1, <1>2

-----------------------------------------------------------------------------
(* fill_memory_blocks_mt. *)

LEMMA JoinLimitStep ==
    ASSUME IInv, JoinLimit
    PROVE  IInv'
  <1>0. /\ l \in LaneIds /\ l \in Int /\ Threads \in Int /\ Threads >= 1
        /\ main = "limit" /\ main' = "create"
        /\ UNCHANGED <<r, s, l, ll, rc, thr_data, segmentVars, memory>>
    BY FillAssumption DEF IInv, TypeOK, JoinLimit, LaneIds
  <1>1. CASE l >= Threads
    <2>1. /\ l - Threads \in LaneIds /\ thread[l - Threads] = "exited"
          /\ thread' = [thread EXCEPT ![l - Threads] = "joined"]
      BY <1>0, <1>1, GeometryAssumption DEF JoinLimit, LaneIds
    <2>2. \A k \in LaneIds :
             /\ Handled(k)
             /\ thread'[k] = IF k = l - Threads THEN "joined" ELSE thread[k]
      BY <1>0, <2>1 DEF IInv, TypeOK, Handled
    <2>3. \A k \in LaneIds : /\ thread'[k] = "none" <=> k >= l
                             /\ thread'[k] = "joined" <=> k <= l - Threads
      BY <1>0, <2>1, <2>2 DEF IInv, MainInv, LaneIds
    <2>4. TypeOK'
      BY <1>0, <2>1 DEF IInv, TypeOK, segmentVars
    <2>5. MainInv'
      BY <1>0, <2>3 DEF IInv, MainInv, Alive
    <2> QED BY <1>0, <2>2, <2>4, <2>5, MainKeepsSegments DEF IInv, SegmentInv
  <1>2. CASE ~(l >= Threads)
    <2>1. thread' = thread
      BY <1>2 DEF JoinLimit
    <2>2. \A k \in LaneIds : Handled(k)
      BY <1>0, <2>1 DEF Handled
    <2>3. \A k \in LaneIds : /\ thread'[k] = "none" <=> k >= l
                             /\ thread'[k] = "joined" <=> k <= l - Threads
      BY <1>0, <1>2, <2>1 DEF IInv, MainInv, LaneIds
    <2>4. TypeOK'
      BY <1>0, <2>1 DEF IInv, TypeOK, segmentVars
    <2>5. MainInv'
      BY <1>0, <2>3 DEF IInv, MainInv, Alive
    <2> QED BY <1>0, <2>2, <2>4, <2>5, MainKeepsSegments DEF IInv, SegmentInv
  <1> QED BY <1>1, <1>2

LEMMA CreateOkStep ==
    ASSUME IInv, CreateOk
    PROVE  IInv'
  <1>0. /\ l \in LaneIds /\ l \in Int /\ Threads \in Int /\ Threads >= 1
        /\ Threads <= Lanes /\ Lanes \in Int
        /\ main = "create" /\ thread[l] = "none"
        /\ thr_data' = [thr_data EXCEPT ![l] = Here]
        /\ thread' = [thread EXCEPT ![l] = "created"]
        /\ UNCHANGED <<r, s, ll, rc, segmentVars, memory>>
    BY FillAssumption, GeometryAssumption
    DEF IInv, TypeOK, MainInv, CreateOk, LaneIds, Here
  <1>1. \A k \in LaneIds :
           /\ Handled(k)
           /\ thread'[k] = IF k = l THEN "created" ELSE thread[k]
    BY <1>0 DEF IInv, TypeOK, Handled
  <1>2. SegmentInv'
    BY <1>0, <1>1, MainKeepsSegments
  <1>3. CASE l < Lanes - 1
    <2>1. main' = "limit" /\ l' = l + 1 /\ l + 1 \in LaneIds
      BY <1>0, <1>3 DEF CreateOk, LaneIds
    <2>2. TypeOK'
      BY <1>0, <2>1, HereType DEF IInv, TypeOK, segmentVars, Active
    <2>3. \A k \in LaneIds : /\ thread'[k] = "none" <=> k >= l + 1
                             /\ thread'[k] = "joined" <=> k < l + 1 - Threads
      BY <1>0, <1>1 DEF IInv, MainInv, LaneIds
    <2>4. MainInv'
      BY <1>0, <2>1, <2>3 DEF IInv, MainInv, Alive
    <2> QED BY <1>2, <2>2, <2>4 DEF IInv, SegmentInv
  <1>4. CASE ~(l < Lanes - 1)
    <2>1. /\ l = Lanes - 1 /\ main' = "join" /\ l' = Lanes - Threads
          /\ Lanes - Threads \in LaneIds
      BY <1>0, <1>4 DEF CreateOk, LaneIds
    <2>2. TypeOK'
      BY <1>0, <2>1, HereType DEF IInv, TypeOK, segmentVars, Active
    <2>3. \A k \in LaneIds : /\ thread'[k] # "none"
                             /\ thread'[k] = "joined" <=> k < Lanes - Threads
      BY <1>0, <1>1, <2>1 DEF IInv, MainInv, LaneIds
    <2>4. MainInv'
      BY <1>0, <2>1, <2>3 DEF IInv, MainInv, Alive
    <2> QED BY <1>2, <2>2, <2>4 DEF IInv, SegmentInv
  <1> QED BY <1>3, <1>4

LEMMA CreateFailsStep ==
    ASSUME IInv, CreateFails
    PROVE  IInv'
  <1>0. /\ l \in LaneIds /\ l \in Int /\ 0 \in LaneIds /\ thread[l] = "none"
        /\ main = "create" /\ main' = "unwind" /\ ll' = 0
        /\ thr_data' = [thr_data EXCEPT ![l] = Here]
        /\ UNCHANGED <<r, s, l, rc, thread, segmentVars, memory>>
    BY GeometryAssumption DEF IInv, TypeOK, MainInv, CreateFails, LaneIds, Here
  <1>1. \A k \in LaneIds : Handled(k)
    BY <1>0 DEF IInv, TypeOK, Handled
  <1>2. SegmentInv'
    BY <1>0, <1>1, MainKeepsSegments
  <1>3. TypeOK'
    BY <1>0, HereType DEF IInv, TypeOK, segmentVars
  <1>4. MainInv'
    BY <1>0 DEF IInv, MainInv, Alive, LaneIds
  <1> QED BY <1>2, <1>3, <1>4 DEF IInv, SegmentInv

LEMMA UnwindStep ==
    ASSUME IInv, Unwind
    PROVE  IInv'
  <1>0. /\ l \in LaneIds /\ ll \in LaneIds /\ l \in Int /\ ll \in Int
        /\ Threads \in Int /\ Lanes \in Int /\ Threads <= Lanes /\ l < Lanes
        /\ main = "unwind"
        /\ UNCHANGED <<r, s, l, thr_data, segmentVars, memory>>
    BY FillAssumption, GeometryAssumption DEF IInv, TypeOK, Unwind, LaneIds
  <1>1. CASE ll >= l
    <2>1. /\ main' = "returned" /\ rc' = "ARGON2_THREAD_FAIL"
          /\ UNCHANGED <<ll, thread>>
      BY <1>1 DEF Unwind, Return
    <2>2. \A k \in LaneIds : Handled(k)
      BY <1>0, <2>1 DEF Handled
    <2>3. TypeOK'
      BY <1>0, <2>1 DEF IInv, TypeOK, segmentVars
    <2>4. ~JoinMayFail => \A k \in LaneIds : thread[k] \in {"none", "joined"}
      BY <1>0, <1>1 DEF IInv, MainInv, LaneIds
    <2>5. MainInv'
      BY <1>0, <2>1, <2>4 DEF MainInv, Alive
    <2> QED BY <1>0, <2>1, <2>2, <2>3, <2>5, MainKeepsSegments DEF IInv, SegmentInv
  <1>2. CASE /\ ~(ll >= l) /\ thread[ll] = "exited"
             /\ thread' = [thread EXCEPT ![ll] = "joined"]
             /\ ll' = ll + 1 /\ UNCHANGED <<main, rc>>
    <2>1. \A k \in LaneIds :
             /\ Handled(k)
             /\ thread'[k] = IF k = ll THEN "joined" ELSE thread[k]
      BY <1>0, <1>2 DEF IInv, TypeOK, Handled
    <2>2. ll + 1 \in LaneIds
      BY <1>0, <1>2 DEF LaneIds
    <2>3. TypeOK'
      BY <1>0, <1>2, <2>2 DEF IInv, TypeOK, segmentVars
    <2>4. MainInv'
      BY <1>0, <1>2, <2>1 DEF IInv, MainInv, Alive, LaneIds
    <2> QED BY <1>0, <2>1, <2>3, <2>4, MainKeepsSegments DEF IInv, SegmentInv
  <1>3. CASE /\ ~(ll >= l) /\ JoinMayFail
             /\ ll' = ll + 1 /\ UNCHANGED <<main, rc, thread>>
    <2>1. \A k \in LaneIds : Handled(k)
      BY <1>0, <1>3 DEF Handled
    <2>2. ll + 1 \in LaneIds
      BY <1>0, <1>3 DEF LaneIds
    <2>3. TypeOK'
      BY <1>0, <1>3, <2>2 DEF IInv, TypeOK, segmentVars
    <2>4. MainInv'
      BY <1>0, <1>3 DEF IInv, MainInv, Alive, LaneIds
    <2> QED BY <1>0, <1>3, <2>1, <2>3, <2>4, MainKeepsSegments DEF IInv, SegmentInv
  <1>4. CASE /\ ~(ll >= l) /\ thread[ll] = "joined"
             /\ main' = "undefined" /\ UNCHANGED <<ll, rc, thread>>
    <2>1. \A k \in LaneIds : Handled(k)
      BY <1>0, <1>4 DEF Handled
    <2>2. TypeOK'
      BY <1>0, <1>4 DEF IInv, TypeOK, segmentVars
    <2>3. ll <= l - Threads
      BY <1>0, <1>4 DEF IInv, MainInv
    <2>4. Threads < Lanes
      BY <1>0, <2>3 DEF LaneIds
    <2>5. MainInv'
      BY <1>0, <1>4, <2>4 DEF MainInv, Alive
    <2> QED BY <1>0, <1>4, <2>1, <2>2, <2>5, MainKeepsSegments DEF IInv, SegmentInv
  <1> QED BY <1>1, <1>2, <1>3, <1>4 DEF Unwind

LEMMA JoinRestStep ==
    ASSUME IInv, JoinRest
    PROVE  IInv'
  <1>0. /\ l \in LaneIds /\ l \in Int /\ Threads \in Int /\ Lanes \in Int
        /\ main = "join" /\ Alive /\ thread[l] = "exited"
        /\ UNCHANGED <<ll, thr_data, segmentVars, memory>>
    BY FillAssumption, GeometryAssumption DEF IInv, TypeOK, JoinRest, Alive, LaneIds
  <1>1. CASE l < Lanes - 1
    <2>1. /\ l' = l + 1 /\ UNCHANGED <<main, r, s, rc>>
          /\ thread' = [thread EXCEPT ![l] = "joined"]
          /\ l + 1 \in LaneIds
      BY <1>0, <1>1 DEF JoinRest, LaneIds
    <2>2. \A k \in LaneIds :
             /\ Handled(k)
             /\ thread'[k] = IF k = l THEN "joined" ELSE thread[k]
      BY <1>0, <2>1 DEF IInv, TypeOK, Handled
    <2>3. TypeOK'
      BY <1>0, <2>1 DEF IInv, TypeOK, segmentVars
    <2>4. \A k \in LaneIds : /\ thread'[k] # "none"
                             /\ thread'[k] = "joined" <=> k < l + 1
      BY <1>0, <2>2 DEF IInv, MainInv, LaneIds
    <2>5. l + 1 >= Lanes - Threads
      BY <1>0 DEF IInv, MainInv
    <2>6. MainInv'
      BY <1>0, <2>1, <2>4, <2>5 DEF IInv, MainInv, Alive
    <2> QED BY <1>0, <2>1, <2>2, <2>3, <2>6, MainKeepsSegments DEF IInv, SegmentInv
  <1>2. CASE ~(l < Lanes - 1)
    <2>1. l = Lanes - 1
      BY <1>0, <1>2 DEF LaneIds
    <2>2. \A k \in LaneIds : k # l => thread[k] = "joined"
      BY <1>0, <2>1 DEF IInv, MainInv, LaneIds
    <2>3. AdvanceSlice("limit")
      BY <1>2 DEF JoinRest
    <2> QED BY <1>0, <2>1, <2>2, <2>3, AdvanceSliceStep
  <1> QED BY <1>1, <1>2

LEMMA JoinFailsStep ==
    ASSUME IInv, JoinFails
    PROVE  IInv'
  <1>0. /\ JoinMayFail /\ main' = "returned" /\ rc' = "ARGON2_THREAD_FAIL"
        /\ UNCHANGED <<r, s, l, ll, thread, thr_data, segmentVars, memory>>
    BY DEF JoinFails, Return
  <1>1. \A k \in LaneIds : Handled(k)
    BY <1>0 DEF Handled
  <1>2. TypeOK'
    BY <1>0 DEF IInv, TypeOK, segmentVars
  <1>3. MainInv'
    BY <1>0 DEF MainInv, Alive
  <1> QED BY <1>0, <1>1, <1>2, <1>3, MainKeepsSegments DEF IInv, SegmentInv

-----------------------------------------------------------------------------
(* fill_segment.  A step of one thread leaves the main function alone and is  *)
(* never taken as a join.                                                     *)

LEMMA SegmentKeepsMain ==
    ASSUME IInv, TypeOK', UNCHANGED mainVars, NEW k \in LaneIds,
           Alive, thread[k] \in Active,
           NEW t \in Active \cup {"exited"},
           thread' = [thread EXCEPT ![k] = t]
    PROVE  MainInv'
  <1>1. /\ main' = main /\ r' = r /\ s' = s /\ l' = l /\ ll' = ll /\ rc' = rc
    BY DEF mainVars
  <1>2. \A j \in LaneIds : /\ thread'[j] = "none" <=> thread[j] = "none"
                           /\ thread'[j] = "joined" <=> thread[j] = "joined"
                           /\ thread[j] \in Active \cup {"exited"} =>
                                 thread'[j] \in Active \cup {"exited"}
    BY DEF IInv, TypeOK, Active
  <1>3. main \notin {"start", "st", "returned", "undefined"}
    BY DEF IInv, MainInv, Alive, Active, TypeOK, LaneIds
  <1> QED BY <1>1, <1>2, <1>3 DEF IInv, MainInv, Alive

LEMMA EnterStep ==
    ASSUME IInv, NEW k \in LaneIds, Enter(k)
    PROVE  IInv'
  <1> DEFINE start == starting_index(r, s)
             offset == s * SegmentLength + start
  <1>0. /\ TypeOK /\ r \in 0 .. Passes - 1 /\ s \in Slices
        /\ Passes \in Nat /\ thr_data[k] = Here /\ thread[k] = "created"
        /\ Here.pass = r /\ Here.slice = s /\ Here \in Positions
    BY HereType, FillAssumption DEF IInv, TypeOK, PositionInv, Enter, Here
  <1>1. start \in {0, 2} /\ (start = 2 <=> r = 0 /\ s = 0)
        /\ start \in 0 .. SegmentLength
    BY LaneFits DEF starting_index
  <1>2. /\ position' = [position EXCEPT ![k] = Here]
        /\ i' = [i EXCEPT ![k] = start]
        /\ prev' = [prev EXCEPT ![k] = predecessor(offset)]
        /\ gen' = [gen EXCEPT ![k] =
                      IF data_independent_addressing(Here) /\ start = 2
                      THEN 1 ELSE 0]
        /\ state' = [state EXCEPT ![k] =
                        IF Opt THEN Block(predecessor(offset),
                                          memory[k][predecessor(offset)])
                               ELSE state[k]]
        /\ thread' = [thread EXCEPT ![k] = "fill"]
        /\ UNCHANGED mainVars /\ r' = r /\ s' = s /\ ref' = ref
        /\ memory' = memory /\ thr_data' = thr_data /\ Alive
    BY <1>0 DEF Enter, mainVars, first_addresses
  <1>3. s * SegmentLength \in Nat /\ offset \in 0 .. lane_length
        /\ (offset = lane_length => start = 2)
    BY <1>0, <1>1, BaseFacts, LaneFits
  <1>4. predecessor(offset) \in Offsets /\ offset \in Nat
        /\ memory[k][predecessor(offset)] \in 0 .. Passes
    <2>1. predecessor(offset) \in Offsets /\ offset \in Nat
      BY <1>3, LaneFits DEF predecessor, Offsets
    <2> QED BY <1>0, <2>1 DEF TypeOK
  <1> HIDE DEF start, offset
  <1>5. TypeOK'
    <2>1. Block(predecessor(offset), memory[k][predecessor(offset)])
              \in [offset : Offsets, generation : 0 .. Passes]
      BY <1>4 DEF Block
    <2>2. predecessor(offset) \in 0 .. lane_length
      BY <1>4, LaneFits DEF Offsets
    <2>3. {0, 1} \subseteq 0 .. SegmentLength + 1
      BY LaneFits
    <2> QED BY <1>0, <1>1, <1>2, <2>1, <2>2, <2>3 DEF TypeOK, Active, mainVars
  <1>6. MainInv'
    BY <1>0, <1>2, <1>5, SegmentKeepsMain DEF Active
  <1>7. /\ position'[k] = Here /\ i'[k] = start /\ thread'[k] = "fill"
        /\ prev'[k] = predecessor(offset)
        /\ Opt => state'[k] = Block(predecessor(offset),
                                    memory[k][predecessor(offset)])
        /\ gen'[k] = IF data_independent_addressing(Here) /\ start = 2
                     THEN 1 ELSE 0
        /\ curr(k)' = offset
    BY <1>0, <1>2 DEF TypeOK, curr, offset
  <1>8. \A j \in LaneIds : j # k =>
          /\ thread'[j] = thread[j] /\ i'[j] = i[j] /\ prev'[j] = prev[j]
          /\ gen'[j] = gen[j] /\ state'[j] = state[j]
          /\ position'[j] = position[j] /\ curr(j)' = curr(j)
    BY <1>0, <1>2 DEF TypeOK, curr
  <1>9. MatrixInv'
    <2>1. \A j \in LaneIds : Progress(j)' = Progress(j)
      BY <1>0, <1>2, <1>7, <1>8 DEF Progress, start
    <2> QED BY <1>2, <2>1 DEF IInv, MatrixInv, Base
  <1>10. PositionInv'
    <2>1. Here' = Here /\ starting_index(r, s)' = start
          /\ start >= starting_index(r, s)
      BY <1>1, <1>2 DEF Here, start
    <2> QED BY <1>0, <1>2, <1>7, <1>8, <2>1 DEF IInv, PositionInv, start
  <1>11. ChainInv'
    BY <1>2, <1>7, <1>8 DEF IInv, ChainInv, Block
  <1>12. AddressInv'
    <2>1. Generated(start) = IF start = 2 THEN 1 ELSE 0
      BY <1>1, GeneratedFacts
    <2> QED BY <1>7, <1>8, <2>1 DEF IInv, AddressInv, data_independent_addressing
  <1>13. ReferenceInv'
    BY <1>2, <1>7, <1>8 DEF IInv, ReferenceInv
  <1> QED BY <1>5, <1>6, <1>9, <1>10, <1>11, <1>12, <1>13 DEF IInv

LEMMA ExitStep ==
    ASSUME IInv, NEW k \in LaneIds, Exit(k)
    PROVE  IInv'
  <1>0. /\ TypeOK /\ Alive /\ thread[k] = "fill" /\ i[k] = SegmentLength
        /\ thread' = [thread EXCEPT ![k] = "exited"]
        /\ UNCHANGED <<mainVars, thr_data, segmentVars, memory>>
        /\ UNCHANGED mainVars
    <2>1. TypeOK /\ i[k] \in 0 .. SegmentLength
      BY DEF IInv, TypeOK
    <2>2. i[k] >= SegmentLength
      BY DEF Exit
    <2>3. i[k] = SegmentLength
      BY <2>1, <2>2, LaneFits
    <2> QED BY <2>1, <2>3 DEF Exit, mainVars
  <1>1. /\ r' = r /\ s' = s /\ i' = i /\ memory' = memory /\ position' = position
        /\ prev' = prev /\ state' = state /\ gen' = gen /\ ref' = ref
        /\ thr_data' = thr_data /\ l' = l /\ ll' = ll /\ rc' = rc /\ main' = main
    BY <1>0 DEF segmentVars, mainVars
  <1>2. TypeOK'
    BY <1>0, <1>1 DEF TypeOK
  <1>3. MainInv'
    BY <1>0, <1>2, SegmentKeepsMain DEF Active
  <1>4. \A j \in LaneIds : /\ Progress(j)' = Progress(j)
                           /\ thread'[j] \in {"fill", "mix"} => thread'[j] = thread[j]
                           /\ thread'[j] # "none" => thread[j] # "none"
    BY <1>0, <1>1 DEF Progress, TypeOK
  <1>5. MatrixInv'
    BY <1>1, <1>4 DEF IInv, MatrixInv, Base
  <1>6. PositionInv'
    BY <1>1, <1>4 DEF IInv, PositionInv, Here
  <1>7. ChainInv' /\ AddressInv' /\ ReferenceInv'
    BY <1>1, <1>4
    DEF IInv, ChainInv, AddressInv, ReferenceInv, curr, data_independent_addressing
  <1> QED BY <1>2, <1>3, <1>5, <1>6, <1>7 DEF IInv

LEMMA AddressStep ==
    ASSUME IInv, NEW k \in LaneIds, NEW hi \in LaneIds, NEW lo \in 0 .. Word - 1,
           Address(k, hi, lo)
    PROVE  IInv'
  <1> DEFINE lane == IF r = 0 /\ s = 0 THEN k ELSE hi % Lanes
             index == index_alpha(r, s, i[k], lo, lane = k)
             p == [pass |-> r, slice |-> s, index |-> i[k]]
  <1>0. /\ TypeOK /\ Alive /\ thread[k] = "fill" /\ i[k] \in 0 .. SegmentLength - 1
        /\ r \in 0 .. Passes - 1 /\ s \in Slices /\ Passes \in Nat
        /\ position[k] = Here /\ Here.pass = r /\ Here.slice = s
        /\ i[k] >= starting_index(r, s)
    <2>1. /\ TypeOK /\ Alive /\ thread[k] = "fill" /\ i[k] < SegmentLength
          /\ i[k] \in 0 .. SegmentLength
      BY DEF IInv, TypeOK, Address
    <2>2. i[k] \in 0 .. SegmentLength - 1
      BY <2>1, LaneFits
    <2> QED BY <2>1, <2>2, FillAssumption DEF IInv, TypeOK, PositionInv, Here
  <1>1. lane \in LaneIds /\ (r = 0 /\ s = 0 => lane = k)
    BY GeometryAssumption DEF LaneIds
  <1>2. index \in ReferenceSet(p, lane = k) /\ index \in Offsets
    <2>1. /\ p \in [pass : Nat, slice : Slices, index : 0 .. SegmentLength - 1]
          /\ p.pass = r /\ p.slice = s /\ p.index = i[k]
      BY <1>0
    <2>2. (lane = k) \in BOOLEAN /\ p.index >= starting_index(p.pass, p.slice)
          /\ (p.pass = 0 /\ p.slice = 0 => (lane = k))
      BY <1>0, <1>1, <2>1
    <2> HIDE DEF p, lane
    <2>3. index_alpha(p.pass, p.slice, p.index, lo, lane = k)
              \in ReferenceSet(p, lane = k)
      BY <2>1, <2>2, IndexAlphaSound
    <2>4. index_alpha(p.pass, p.slice, p.index, lo, lane = k) \in Offsets
      BY <2>1, <2>2, IndexAlphaRange, ZenonT(60)
    <2> QED BY <2>1, <2>3, <2>4
  <1>3. /\ prev' = [prev EXCEPT ![k] = rotated(k)]
        /\ gen' = [gen EXCEPT ![k] =
                      IF /\ data_independent_addressing(Here)
                         /\ i[k] % AddressesInBlock = 0
                      THEN gen[k] + 1 ELSE gen[k]]
        /\ ref' = [ref EXCEPT ![k] = <<lane, index>>]
        /\ thread' = [thread EXCEPT ![k] = "mix"]
        /\ UNCHANGED mainVars /\ r' = r /\ s' = s
        /\ thr_data' = thr_data /\ position' = position /\ i' = i
        /\ state' = state /\ memory' = memory
    BY <1>0 DEF Address, mainVars
  <1>4. /\ curr(k) = s * SegmentLength + i[k] /\ curr(k) \in Offsets
        /\ rotated(k) = predecessor(curr(k)) /\ predecessor(curr(k)) \in Offsets
    <2>1. curr(k) = s * SegmentLength + i[k]
      BY <1>0 DEF curr
    <2>2. curr(k) \in 0 .. lane_length - 1
      BY <1>0, <2>1, BaseFacts, LaneFits
    <2>3. curr(k) % lane_length = curr(k)
      BY <2>2, ModSmall, LaneFits
    <2>4. curr(k) = 1 \/ prev[k] = predecessor(curr(k))
      BY <1>0, LaneFits DEF IInv, ChainInv
    <2>5. rotated(k) = predecessor(curr(k))
      BY <2>2, <2>3, <2>4 DEF rotated, predecessor
    <2>6. predecessor(curr(k)) \in Offsets
      BY <2>2, LaneFits DEF predecessor, Offsets
    <2> QED BY <2>1, <2>2, <2>5, <2>6 DEF Offsets
  <1>5. gen[k] = (IF data_independent_addressing(Here)
                  THEN Generated(i[k]) ELSE 0)
    BY <1>0 DEF IInv, AddressInv
  <1>6. /\ Generated(i[k]) \in 0 .. i[k]
        /\ i[k] % AddressesInBlock = 0 =>
              Generated(i[k]) + 1 = i[k] \div AddressesInBlock + 1
        /\ i[k] % AddressesInBlock # 0 =>
              Generated(i[k]) = i[k] \div AddressesInBlock + 1
    BY <1>0, GeneratedFacts
  <1> HIDE DEF lane, index, p
  <1>7. TypeOK'
    <2>1. rotated(k) \in 0 .. lane_length
      BY <1>4, LaneFits DEF Offsets
    <2>2. gen[k] \in 0 .. SegmentLength - 1
      BY <1>0, <1>5, <1>6, LaneFits
    <2>3. gen[k] + 1 \in 0 .. SegmentLength + 1
      BY <2>2, LaneFits
    <2>4. <<lane, index>> \in LaneIds \X Offsets
      BY <1>1, <1>2
    <2> QED BY <1>0, <1>3, <2>1, <2>3, <2>4 DEF TypeOK, Active, mainVars
  <1>8. MainInv'
    BY <1>0, <1>3, <1>7, SegmentKeepsMain DEF Active
  <1>9. /\ thread'[k] = "mix" /\ prev'[k] = predecessor(curr(k))
        /\ ref'[k] = <<lane, index>>
        /\ gen'[k] = IF data_independent_addressing(Here)
                     THEN i[k] \div AddressesInBlock + 1 ELSE 0
    <2>1. /\ thread'[k] = "mix" /\ prev'[k] = rotated(k)
          /\ ref'[k] = <<lane, index>>
          /\ gen'[k] = IF /\ data_independent_addressing(Here)
                          /\ i[k] % AddressesInBlock = 0
                       THEN gen[k] + 1 ELSE gen[k]
      BY <1>0, <1>3 DEF TypeOK
    <2>2. CASE data_independent_addressing(Here)
      BY <1>4, <1>5, <1>6, <2>1, <2>2
    <2>3. CASE ~data_independent_addressing(Here)
      BY <1>4, <1>5, <2>1, <2>3
    <2> QED BY <2>2, <2>3
  <1>10. \A j \in LaneIds : j # k =>
          /\ thread'[j] = thread[j] /\ prev'[j] = prev[j]
          /\ gen'[j] = gen[j] /\ ref'[j] = ref[j]
    BY <1>0, <1>3 DEF TypeOK
  <1>11. MatrixInv'
    <2>1. \A j \in LaneIds : Progress(j)' = Progress(j)
      BY <1>0, <1>3, <1>9, <1>10 DEF Progress
    <2> QED BY <1>3, <2>1 DEF IInv, MatrixInv, Base
  <1>12. PositionInv'
    BY <1>0, <1>3, <1>9, <1>10 DEF IInv, PositionInv, Here
  <1>13. ChainInv'
    <2>1. \A j \in LaneIds : curr(j)' = curr(j)
      BY <1>3 DEF curr
    <2> QED BY <1>0, <1>3, <1>9, <1>10, <2>1, LaneFits DEF IInv, ChainInv
  <1>14. AddressInv'
    BY <1>0, <1>3, <1>9, <1>10 DEF IInv, AddressInv, data_independent_addressing
  <1>15. ReferenceInv'
    <2>1. ref'[k][1] = lane /\ ref'[k][2] = index
      BY <1>9
    <2> QED BY <1>1, <1>2, <1>3, <1>9, <1>10, <2>1 DEF IInv, ReferenceInv, p
  <1> QED BY <1>7, <1>8, <1>11, <1>12, <1>13, <1>14, <1>15 DEF IInv

LEMMA MixStep ==
    ASSUME IInv, NEW k \in LaneIds, Mix(k)
    PROVE  IInv'
  <1>0. /\ TypeOK /\ Alive /\ thread[k] = "mix" /\ i[k] \in 0 .. SegmentLength - 1
        /\ r \in 0 .. Passes - 1 /\ s \in Slices /\ Passes \in Nat
        /\ position[k] = Here /\ Here.pass = r /\ Here.slice = s
        /\ i[k] >= starting_index(r, s) /\ starting_index(r, s) \in Nat
        /\ prev[k] = predecessor(curr(k))
    <2>1. /\ TypeOK /\ Alive /\ thread[k] = "mix" /\ i[k] < SegmentLength
          /\ i[k] \in 0 .. SegmentLength /\ prev[k] = predecessor(curr(k))
      BY DEF IInv, TypeOK, Mix, ChainInv
    <2>2. i[k] \in 0 .. SegmentLength - 1
      BY <2>1, LaneFits
    <2> QED BY <2>1, <2>2, FillAssumption
            DEF IInv, TypeOK, PositionInv, Here, starting_index
  <1> DEFINE c == curr(k)
  <1>1. /\ memory' = [memory EXCEPT ![k][c] = r + 1]
        /\ state' = [state EXCEPT ![k] = IF Opt THEN Block(c, r + 1)
                                                ELSE state[k]]
        /\ i' = [i EXCEPT ![k] = i[k] + 1]
        /\ prev' = [prev EXCEPT ![k] = prev[k] + 1]
        /\ ref' = [ref EXCEPT ![k] = NoBlock]
        /\ thread' = [thread EXCEPT ![k] = "fill"]
        /\ UNCHANGED mainVars /\ r' = r /\ s' = s
        /\ thr_data' = thr_data /\ position' = position /\ gen' = gen
    BY <1>0 DEF Mix, mainVars
  <1>2. c = Base + i[k] /\ Base \in Nat /\ c \in 0 .. lane_length - 1
    BY <1>0, BaseFacts, LaneFits DEF curr, Base
  <1>3. c \in Offsets /\ predecessor(c) \in 0 .. lane_length - 1
        /\ predecessor(c) \in Offsets
        /\ predecessor(c + 1) = c
    BY <1>2, LaneFits DEF Offsets, predecessor
  <1> HIDE DEF c
  <1>4. TypeOK'
    <2>1. /\ i[k] + 1 \in 0 .. SegmentLength /\ prev[k] + 1 \in 0 .. lane_length
          /\ r + 1 \in 0 .. Passes
      BY <1>0, <1>3, LaneFits DEF c
    <2>2. Block(c, r + 1) \in [offset : Offsets, generation : 0 .. Passes]
      BY <1>3, <2>1 DEF Block
    <2>3. NoBlock \in LaneIds \X Offsets
      BY GeometryAssumption, LaneFits DEF NoBlock, LaneIds, Offsets
    <2>4. memory' \in [LaneIds -> [Offsets -> 0 .. Passes]]
      BY <1>0, <1>1, <1>3, <2>1 DEF TypeOK
    <2> QED BY <1>0, <1>1, <2>1, <2>2, <2>3, <2>4 DEF TypeOK, Active, mainVars
  <1>5. MainInv'
    BY <1>0, <1>1, <1>4, SegmentKeepsMain DEF Active
  <1>6. /\ thread'[k] = "fill" /\ prev'[k] = prev[k] + 1 /\ i'[k] = i[k] + 1
        /\ Opt => state'[k] = Block(c, r + 1)
        /\ memory'[k][c] = r + 1
        /\ \A o \in Offsets : o # c => memory'[k][o] = memory[k][o]
        /\ curr(k)' = c + 1
    <2>1. curr(k)' = c + 1
      BY <1>0, <1>1, <1>2 DEF curr, TypeOK, Base
    <2> QED BY <1>0, <1>1, <1>3, <2>1 DEF TypeOK
  <1>7. \A j \in LaneIds : j # k =>
          /\ thread'[j] = thread[j] /\ i'[j] = i[j] /\ prev'[j] = prev[j]
          /\ state'[j] = state[j] /\ memory'[j] = memory[j] /\ ref'[j] = ref[j]
          /\ curr(j)' = curr(j)
    BY <1>0, <1>1 DEF TypeOK, curr
  <1>8. MatrixInv'
    <2>1. \A j \in LaneIds : j # k => Progress(j)' = Progress(j)
      BY <1>1, <1>7 DEF Progress
    <2>2. Progress(k) = i[k] /\ Progress(k)' = i[k] + 1
      BY <1>0, <1>6 DEF Progress
    <2>3. \A j \in LaneIds : j # k => \A o \in Offsets :
             memory'[j][o] = IF o < Base' + Progress(j)' THEN r' + 1 ELSE r'
      BY <1>1, <1>7, <2>1 DEF IInv, MatrixInv, Base
    <2>4. \A o \in Offsets :
             memory'[k][o] = IF o < Base' + Progress(k)' THEN r' + 1 ELSE r'
      <3>1. \A o \in Offsets :
               memory[k][o] = IF o < Base + i[k] THEN r + 1 ELSE r
        BY <2>2 DEF IInv, MatrixInv
      <3>2. Base' = Base
        BY <1>1 DEF Base
      <3> QED BY <1>0, <1>1, <1>2, <1>6, <2>2, <3>1, <3>2 DEF Offsets
    <2> QED BY <2>3, <2>4 DEF MatrixInv
  <1>9. PositionInv'
    <2>1. i[k] + 1 >= starting_index(r, s)
      BY <1>0
    <2> QED BY <1>0, <1>1, <1>6, <1>7, <2>1 DEF IInv, PositionInv, Here
  <1>10. ChainInv'
    <2>1. \A j \in LaneIds : j # k =>
            /\ thread'[j] = "fill" /\ i'[j] < SegmentLength =>
                  /\ curr(j)' = 1 \/ prev'[j] = predecessor(curr(j)')
                  /\ Opt => state'[j].offset = predecessor(curr(j)')
            /\ thread'[j] = "mix" =>
                  /\ i'[j] < SegmentLength
                  /\ prev'[j] = predecessor(curr(j)')
                  /\ Opt => state'[j].offset = predecessor(curr(j)')
            /\ thread'[j] \in {"fill", "mix"} /\ Opt =>
                  state'[j].generation = memory'[j][state'[j].offset]
      BY <1>7 DEF IInv, ChainInv
    <2>2. prev[k] + 1 = c \/ c + 1 = 1
      BY <1>0, <1>2 DEF predecessor, c
    <2>3. curr(k)' = 1 \/ prev'[k] = predecessor(curr(k)')
      BY <1>3, <1>6, <2>2
    <2>4. Opt => /\ state'[k].offset = predecessor(curr(k)')
                 /\ state'[k].generation = memory'[k][state'[k].offset]
      BY <1>3, <1>6 DEF Block
    <2> QED BY <1>6, <2>1, <2>3, <2>4 DEF ChainInv, predecessor
  <1>11. AddressInv'
    <2>1. gen[k] = IF data_independent_addressing(Here)
                   THEN i[k] \div AddressesInBlock + 1 ELSE 0
      BY <1>0 DEF IInv, AddressInv
    <2>2. Generated(i[k] + 1) = i[k] \div AddressesInBlock + 1
      BY <1>0, GeneratedFacts
    <2> QED BY <1>0, <1>1, <1>6, <1>7, <2>1, <2>2
            DEF IInv, AddressInv, data_independent_addressing
  <1>12. ReferenceInv'
    BY <1>1, <1>6, <1>7 DEF IInv, ReferenceInv
  <1> QED BY <1>4, <1>5, <1>8, <1>9, <1>10, <1>11, <1>12 DEF IInv

LEMMA DanglingStep ==
    ASSUME IInv, NEW k \in LaneIds, Dangling(k)
    PROVE  IInv'
  <1>0. /\ main = "returned" /\ main' = "undefined" /\ thread[k] \in Active
        /\ UNCHANGED <<r, s, l, ll, rc, thread, thr_data, segmentVars, memory>>
    BY DEF Dangling
  <1>1. \A j \in LaneIds : Handled(j)
    BY <1>0 DEF Handled
  <1>2. TypeOK'
    BY <1>0 DEF IInv, TypeOK, segmentVars
  <1>3. JoinMayFail
    BY <1>0 DEF IInv, MainInv, Active
  <1>4. MainInv'
    BY <1>0, <1>3 DEF MainInv, Alive
  <1> QED BY <1>0, <1>1, <1>2, <1>4, MainKeepsSegments DEF IInv, SegmentInv

LEMMA StutterStep ==
    ASSUME IInv, UNCHANGED vars
    PROVE  IInv'
  <1>0. UNCHANGED <<main, r, s, l, ll, rc, thread, thr_data, segmentVars, memory>>
    BY DEF vars, mainVars
  <1>1. \A j \in LaneIds : Handled(j)
    BY <1>0 DEF Handled
  <1>2. TypeOK'
    BY <1>0 DEF IInv, TypeOK, segmentVars
  <1>3. MainInv'
    BY <1>0 DEF IInv, MainInv, Alive
  <1> QED BY <1>0, <1>1, <1>2, <1>3, MainKeepsSegments DEF IInv, SegmentInv

(* The invariant is inductive. *)
LEMMA NextIInv == IInv /\ [Next]_vars => IInv'
  <1> SUFFICES ASSUME IInv, [Next]_vars PROVE IInv'
    OBVIOUS
  <1>1. CASE Main
    BY <1>1, StartStep, StCallStep, StReturnStep, JoinLimitStep, CreateOkStep,
       CreateFailsStep, UnwindStep, JoinRestStep, JoinFailsStep DEF Main
  <1>2. ASSUME NEW k \in LaneIds, Segment(k) PROVE IInv'
    BY <1>2, EnterStep, AddressStep, MixStep, ExitStep DEF Segment
  <1>3. ASSUME NEW k \in LaneIds, Dangling(k) PROVE IInv'
    BY <1>3, DanglingStep
  <1>4. CASE Finished \/ UNCHANGED vars
    BY <1>4, StutterStep DEF Finished
  <1> QED BY <1>1, <1>2, <1>3, <1>4 DEF Next

(* The inductive invariant holds in every reachable state. *)
THEOREM InvariantHolds == Spec => []IInv
  BY InitIInv, NextIInv, PTL DEF Spec

-----------------------------------------------------------------------------
(* The properties. *)

(* Loop counters, offsets and generations stay in range, for every instance:  *)
(* no access of fill_segment is outside the matrix.                           *)
THEOREM TypeCorrect == Spec => []TypeOK
  <1>1. IInv => TypeOK
    BY DEF IInv
  <1> QED BY InvariantHolds, <1>1, PTL

(* Where a thread about to mix stands. *)
LEMMA AtMix ==
    ASSUME IInv, NEW k \in LaneIds, thread[k] = "mix"
    PROVE  /\ r \in Nat /\ s \in Slices /\ k \in Int /\ Base \in Nat
           /\ i[k] \in 0 .. SegmentLength - 1 /\ i[k] >= starting_index(r, s)
           /\ position[k] = Here /\ Here.pass = r /\ Here.slice = s
           /\ curr(k) = Base + i[k] /\ curr(k) \in Offsets
           /\ Base + SegmentLength <= lane_length
           /\ prev[k] = predecessor(curr(k)) /\ prev[k] \in Offsets
           /\ (s + 1) * SegmentLength = Base + SegmentLength
           /\ (s = 0 <=> Base = 0)
           /\ \E lane \in LaneIds, o \in Offsets :
                 /\ ref[k] = <<lane, o>>
                 /\ o \in ReferenceSet([pass |-> r, slice |-> s, index |-> i[k]],
                                       lane = k)
                 /\ r = 0 /\ s = 0 => lane = k
  <1>1. /\ r \in 0 .. Passes - 1 /\ s \in Slices /\ Passes \in Nat
        /\ i[k] \in 0 .. SegmentLength /\ i[k] < SegmentLength
        /\ i[k] >= starting_index(r, s)
        /\ position[k] = Here /\ Here.pass = r /\ Here.slice = s
        /\ prev[k] = predecessor(curr(k)) /\ ref[k] \in LaneIds \X Offsets
    BY FillAssumption DEF IInv, TypeOK, PositionInv, ChainInv, Here
  <1>2. curr(k) = Base + i[k]
    BY <1>1 DEF curr, Base
  <1>3. /\ Base \in Nat /\ Base + SegmentLength <= lane_length
        /\ (s + 1) * SegmentLength = Base + SegmentLength
        /\ (s = 0 <=> Base = 0)
    BY <1>1, BaseFacts DEF Base
  <1>4. i[k] \in 0 .. SegmentLength - 1
    BY <1>1, LaneFits
  <1>5. curr(k) \in Offsets /\ prev[k] \in Offsets
    <2>1. curr(k) \in 0 .. lane_length - 1
      BY <1>2, <1>3, <1>4, LaneFits
    <2>2. \A q \in 0 .. lane_length - 1 : predecessor(q) \in 0 .. lane_length - 1
      BY LaneFits DEF predecessor
    <2> QED BY <1>1, <2>1, <2>2 DEF Offsets
  <1>6. PICK lane \in LaneIds, o \in Offsets : ref[k] = <<lane, o>>
    BY <1>1
  <1>7. /\ o \in ReferenceSet([pass |-> r, slice |-> s, index |-> i[k]], lane = k)
        /\ (r = 0 /\ s = 0 => lane = k)
    BY <1>6 DEF IInv, ReferenceInv
  <1>8. k \in Int /\ r \in Nat
    BY <1>1, GeometryAssumption DEF LaneIds
  <1> QED BY <1>1, <1>2, <1>3, <1>4, <1>5, <1>6, <1>7, <1>8

(* The reference block, in terms of the current segment. *)
LEMMA ReferencePlace ==
    ASSUME NEW t \in Slices, NEW pass \in Nat, NEW n \in 0 .. SegmentLength - 1,
           NEW same \in BOOLEAN,
           NEW o \in ReferenceSet([pass |-> pass, slice |-> t, index |-> n], same)
    PROVE  /\ ~same => ~(t * SegmentLength <= o /\ o < t * SegmentLength + SegmentLength)
           /\ pass = 0 => o < t * SegmentLength \/ (same /\ o < t * SegmentLength + n)
           /\ same => /\ o # predecessor(t * SegmentLength + n)
                      /\ o # t * SegmentLength + n
  <1> DEFINE base == t * SegmentLength
             p == [pass |-> pass, slice |-> t, index |-> n]
  <1>1. /\ base \in Nat /\ base + SegmentLength <= lane_length
        /\ (t + 1) * SegmentLength = base + SegmentLength
        /\ p.pass = pass /\ p.slice = t /\ p.index = n
        /\ curr_offset(p) = base + n
    BY BaseFacts DEF curr_offset
  <1>2. \/ pass = 0 /\ o \in 0 .. base - 1
        \/ pass # 0 /\ o \in Offsets /\ o \notin base .. (base + SegmentLength) - 1
        \/ same /\ o \in base .. (base + n) - 1
    BY <1>1 DEF ReferenceSet, InSlice
  <1>3. same => o # predecessor(base + n)
    BY <1>1 DEF ReferenceSet
  <1> HIDE DEF base, p
  <1> QED BY <1>1, <1>2, <1>3, LaneFits DEF Offsets, base

(* Every block fill_block reads has the generation of the sequential order,   *)
(* whatever the number of lanes and threads and however they are scheduled:   *)
(* the tag does not depend on the scheduling.                                 *)
THEOREM SequentialReads == Spec => []ReadsAreSequential
  <1>1. IInv => ReadsAreSequential
    <2> SUFFICES ASSUME IInv, NEW k \in LaneIds, thread[k] = "mix"
                 PROVE  /\ \A b \in fill_block_reads(k) :
                             /\ memory[b[1]][b[2]] = SequentialGeneration(k, b[1], b[2])
                             /\ memory[b[1]][b[2]] > 0
                        /\ prev[k] = predecessor(curr(k))
                        /\ Opt => state[k] = Block(prev[k], memory[k][prev[k]])
                        /\ ref[k] \notin {<<k, curr(k)>>, <<k, prev[k]>>}
      BY DEF ReadsAreSequential
    <2> DEFINE c == curr(k)
    <2>1. /\ r \in Nat /\ s \in Slices /\ k \in Int /\ Base \in Nat
          /\ i[k] \in 0 .. SegmentLength - 1 /\ i[k] >= starting_index(r, s)
          /\ position[k] = Here /\ Here.pass = r /\ Here.slice = s
          /\ c = Base + i[k] /\ c \in Offsets
          /\ Base + SegmentLength <= lane_length
          /\ prev[k] = predecessor(c) /\ prev[k] \in Offsets
          /\ (s + 1) * SegmentLength = Base + SegmentLength
          /\ (s = 0 <=> Base = 0)
      BY AtMix
    <2>2. PICK lane \in LaneIds, o \in Offsets :
             /\ ref[k] = <<lane, o>>
             /\ o \in ReferenceSet([pass |-> r, slice |-> s, index |-> i[k]],
                                   lane = k)
             /\ r = 0 /\ s = 0 => lane = k
      BY AtMix
    <2>3. /\ lane # k => ~(Base <= o /\ o < Base + SegmentLength)
          /\ r = 0 => o < Base \/ (lane = k /\ o < c)
          /\ lane = k => o # prev[k] /\ o # c
      <3> DEFINE same == (lane = k)
      <3>1. same \in BOOLEAN
        OBVIOUS
      <3>2. o \in ReferenceSet([pass |-> r, slice |-> s, index |-> i[k]], same)
        BY <2>2
      <3> HIDE DEF same
      <3>3. /\ ~same => ~(s * SegmentLength <= o
                           /\ o < s * SegmentLength + SegmentLength)
            /\ r = 0 => \/ o < s * SegmentLength
                        \/ same /\ o < s * SegmentLength + i[k]
            /\ same => /\ o # predecessor(s * SegmentLength + i[k])
                       /\ o # s * SegmentLength + i[k]
        BY <2>1, <3>1, <3>2, ReferencePlace
      <3>4. s * SegmentLength + i[k] = c /\ s * SegmentLength = Base
        BY <2>1 DEF Base
      <3> QED BY <2>1, <3>3, <3>4 DEF same
    <2>4. /\ \A q \in Offsets : SequentialGeneration(k, k, q)
                                   = IF q < c THEN r + 1 ELSE r
          /\ \A q \in Offsets : lane < k =>
                SequentialGeneration(k, lane, q)
                    = IF q < Base + SegmentLength THEN r + 1 ELSE r
          /\ \A q \in Offsets : lane > k =>
                SequentialGeneration(k, lane, q) = IF q < Base THEN r + 1 ELSE r
      <3>1. lane \in Int
        BY GeometryAssumption DEF LaneIds
      <3> QED BY <2>1, <3>1 DEF SequentialGeneration, Base
    <2>5. /\ \A q \in Offsets : memory[k][q] = IF q < c THEN r + 1 ELSE r
          /\ Progress(lane) \in 0 .. SegmentLength
          /\ \A q \in Offsets : memory[lane][q]
                                   = IF q < Base + Progress(lane) THEN r + 1 ELSE r
      <3>1. Progress(k) = i[k]
        BY DEF Progress
      <3>2. starting_index(r, s) \in 0 .. SegmentLength
        BY LaneFits DEF starting_index
      <3>3. i[lane] \in 0 .. SegmentLength
        BY DEF IInv, TypeOK
      <3>4. Progress(lane) \in 0 .. SegmentLength
        BY <3>2, <3>3, LaneFits DEF Progress
      <3> QED BY <2>1, <3>1, <3>4 DEF IInv, MatrixInv
    <2> HIDE DEF c
    <2>6. c \in Int /\ o \in Int /\ prev[k] \in Int
          /\ (prev[k] < c \/ c = 0)
      BY <2>1, <2>2, LaneFits DEF Offsets, predecessor
    <2>7. memory[lane][o] = SequentialGeneration(k, lane, o) /\ memory[lane][o] > 0
      <3>1. CASE lane = k
        BY <2>1, <2>2, <2>3, <2>4, <2>5, <2>6, <3>1
      <3>2. CASE lane < k
        BY <2>1, <2>2, <2>3, <2>4, <2>5, <2>6, <3>2, LaneFits
      <3>3. CASE lane > k
        BY <2>1, <2>2, <2>3, <2>4, <2>5, <2>6, <3>3, LaneFits
      <3>4. lane \in Int
        BY GeometryAssumption DEF LaneIds
      <3> QED BY <2>1, <3>1, <3>2, <3>3, <3>4
    <2>8. /\ memory[k][prev[k]] = SequentialGeneration(k, k, prev[k])
          /\ memory[k][prev[k]] > 0
      <3>1. c = 0 => r > 0
        BY <2>1 DEF starting_index
      <3> QED BY <2>1, <2>4, <2>5, <2>6, <3>1
    <2>9. with_xor(position[k]) => /\ memory[k][c] = SequentialGeneration(k, k, c)
                                   /\ memory[k][c] > 0
      BY <2>1, <2>4, <2>5, <2>6 DEF with_xor
    <2>10. \A b \in fill_block_reads(k) :
              \/ b = <<lane, o>> \/ b = <<k, prev[k]>>
              \/ b = <<k, c>> /\ with_xor(position[k])
      BY <2>2 DEF fill_block_reads, c
    <2>11. \A b \in fill_block_reads(k) :
              /\ memory[b[1]][b[2]] = SequentialGeneration(k, b[1], b[2])
              /\ memory[b[1]][b[2]] > 0
      BY <2>7, <2>8, <2>9, <2>10
    <2>12. Opt => state[k] = Block(prev[k], memory[k][prev[k]])
      <3>1. state[k] \in [offset : Offsets, generation : 0 .. Passes]
        BY DEF IInv, TypeOK
      <3>2. Opt => /\ state[k].offset = prev[k]
                   /\ state[k].generation = memory[k][prev[k]]
        BY <2>1 DEF IInv, ChainInv, c
      <3> QED BY <3>1, <3>2 DEF Block
    <2>13. ref[k] \notin {<<k, c>>, <<k, prev[k]>>}
      BY <2>2, <2>3
    <2> QED BY <2>1, <2>11, <2>12, <2>13 DEF c
  <1> QED BY <1>1, InvariantHolds, PTL

(* No read of a block is concurrent with a write of it. *)
THEOREM RaceFreedom == Spec => []NoDataRace
  <1>1. IInv => NoDataRace
    <2> SUFFICES ASSUME IInv, NEW j \in LaneIds, NEW k \in LaneIds, j # k,
                        thread[j] = "mix", thread[k] \in Active \cup {"exited"}
                 PROVE  fill_block_reads(j) \cap SegmentWrites(k) = {}
      BY DEF NoDataRace
    <2>1. s \in Slices /\ r \in Nat /\ i[j] \in 0 .. SegmentLength - 1
          /\ (s + 1) * SegmentLength = Base + SegmentLength /\ Base \in Nat
      BY AtMix
    <2>2. PICK lane \in LaneIds, o \in Offsets :
             /\ ref[j] = <<lane, o>>
             /\ o \in ReferenceSet([pass |-> r, slice |-> s, index |-> i[j]],
                                   lane = j)
      BY AtMix
    <2>3. lane # j => ~(Base <= o /\ o < Base + SegmentLength)
      <3>1. (lane = j) \in BOOLEAN
        OBVIOUS
      <3> QED BY <2>1, <2>2, <3>1, ReferencePlace DEF Base
    <2>4. thr_data[k].slice = s
      BY DEF IInv, PositionInv, Active, Here
    <2>5. lane # j => o \notin InSlice(s)
      BY <2>1, <2>3, LaneFits DEF InSlice, Base
    <2>6. \A b \in fill_block_reads(j) : b = <<lane, o>> \/ b[1] = j
      BY <2>2 DEF fill_block_reads
    <2>7. \A b \in SegmentWrites(k) : b[1] = k /\ b[2] \in InSlice(s)
      BY <2>4 DEF SegmentWrites
    <2> QED BY <2>5, <2>6, <2>7
  <1> QED BY <1>1, InvariantHolds, PTL

(* Data-independent addresses always come from the block that belongs to the  *)
(* index, for every size of address block and length of segment.              *)
THEOREM AddressBlocksFresh == Spec => []AddressBlockFresh
  <1>1. IInv => AddressBlockFresh
    BY DEF IInv, AddressInv, AddressBlockFresh
  <1> QED BY <1>1, InvariantHolds, PTL

(* ARGON2_OK means that the last pass has written the whole matrix. *)
THEOREM OKMeansComplete == Spec => []CompleteOnOK
  <1>1. IInv => CompleteOnOK
    <2> SUFFICES ASSUME IInv, main = "returned", rc = "ARGON2_OK",
                        NEW k \in LaneIds
                 PROVE  /\ thread[k] = "joined"
                        /\ \A o \in Offsets : memory[k][o] = Passes
      BY DEF CompleteOnOK
    <2>1. /\ thread[k] = "joined" /\ r = Passes - 1 /\ s = 3
          /\ Passes \in Nat
      BY FillAssumption DEF IInv, MainInv, ARGON2_SYNC_POINTS
    <2>2. Progress(k) = SegmentLength
      BY <2>1 DEF Progress
    <2>3. Base + Progress(k) = lane_length
      BY <2>1, <2>2, LaneFits DEF Base
    <2>4. \A o \in Offsets : memory[k][o] = r + 1
      BY <2>3, LaneFits DEF IInv, MatrixInv, Offsets
    <2> QED BY <2>1, <2>4
  <1> QED BY <1>1, InvariantHolds, PTL

(* With one thread per lane, and joins that do not fail, no thread is joined  *)
(* twice: the unwinding after a failed creation is sound.                     *)
THEOREM JoinedOnce ==
    ASSUME Threads = Lanes, ~JoinMayFail
    PROVE  Spec => []NoUndefinedJoin
  <1>1. IInv => NoUndefinedJoin
    BY GeometryAssumption DEF IInv, MainInv, NoUndefinedJoin
  <1> QED BY <1>1, InvariantHolds, PTL

(* When joins do not fail, every return of fill_memory_blocks, on the error   *)
(* paths too, leaves no thread behind.                                        *)
THEOREM NoThreadLeft ==
    ASSUME ~JoinMayFail
    PROVE  Spec => []NoThreadOutlivesCall
  <1>1. IInv => NoThreadOutlivesCall
    BY DEF IInv, MainInv, NoThreadOutlivesCall, Active
  <1> QED BY <1>1, InvariantHolds, PTL

-----------------------------------------------------------------------------
(* The thread limit: the lanes whose thread is not joined yet lie in a window *)
(* of at most Threads lanes.                                                  *)
InWindow(a) ==
    \A k \in LaneIds :
        thread[k] \in Active \cup {"exited"} => k \in a .. (a + Threads) - 1

ThreadWindow == \E a \in Int : InWindow(a)

LEMMA AliveWindow == IInv /\ Alive => ThreadWindow
  <1> SUFFICES ASSUME IInv, Alive PROVE ThreadWindow
    OBVIOUS
  <1>0. /\ l \in Int /\ Threads \in Int /\ Threads >= 1 /\ Lanes \in Int
        /\ \A k \in LaneIds : k \in Int /\ k < Lanes
    BY FillAssumption, GeometryAssumption DEF IInv, TypeOK, LaneIds
  <1>1. CASE main \in {"start", "st", "st_wait"}
    <2>1. \A k \in LaneIds : thread[k] \in Active \cup {"exited"} => k = l
      BY <1>0, <1>1 DEF IInv, MainInv, Active
    <2>2. InWindow(l)
      BY <1>0, <2>1 DEF InWindow
    <2> QED BY <1>0, <2>2 DEF ThreadWindow
  <1>2. CASE main \in {"limit", "create", "unwind"}
    <2>1. InWindow(l - Threads)
      BY <1>0, <1>2 DEF IInv, MainInv, InWindow, Active
    <2>2. l - Threads \in Int
      BY <1>0
    <2> QED BY <2>1, <2>2 DEF ThreadWindow
  <1>3. CASE main = "join"
    <2>1. InWindow(Lanes - Threads)
      BY <1>0, <1>3 DEF IInv, MainInv, InWindow, Active
    <2>2. Lanes - Threads \in Int
      BY <1>0
    <2> QED BY <2>1, <2>2 DEF ThreadWindow
  <1> QED BY <1>1, <1>2, <1>3 DEF IInv, TypeOK, Alive

(* A step that ends the call starts no thread. *)
LEMMA EndStartsNoThread ==
    ASSUME IInv, [Next]_vars, ~Alive'
    PROVE  \A k \in LaneIds : thread'[k] \in Active \cup {"exited"} =>
              thread[k] \in Active \cup {"exited"}
  <1>1. CASE Main
    <2>1. CASE CallocFails \/ JoinFails \/ Unwind
      BY <2>1 DEF CallocFails, JoinFails, Unwind, IInv, TypeOK, Active
    <2>2. CASE StReturn \/ JoinRest
      BY <2>2 DEF StReturn, JoinRest, AdvanceSlice, more_slices, IInv, TypeOK, Alive, Active
    <2>3. CASE fill_memory_blocks \/ StCall \/ JoinLimit \/ CreateOk \/ CreateFails
      BY <2>3 DEF fill_memory_blocks, StCall, JoinLimit, CreateOk, CreateFails, Alive
    <2> QED BY <1>1, <2>1, <2>2, <2>3 DEF Main
  <1>2. ASSUME NEW k \in LaneIds, Segment(k) PROVE FALSE
    BY <1>2 DEF Segment, Enter, Address, Mix, Exit, Alive, mainVars
  <1>3. CASE Finished \/ UNCHANGED vars \/ \E k \in LaneIds : Dangling(k)
    BY <1>3 DEF Finished, vars, Dangling
  <1> QED BY <1>1, <1>2, <1>3 DEF Next

(* At most instance->threads threads exist at any time. *)
THEOREM ThreadsBounded == Spec => []ThreadBound
  <1>1. Init => ThreadWindow
    BY InitIInv, AliveWindow DEF Init, Alive
  <1>2. IInv /\ IInv' /\ ThreadWindow /\ [Next]_vars => ThreadWindow'
    <2>1. (IInv /\ Alive => ThreadWindow)'
      BY AliveWindow, PTL
    <2>2. ASSUME IInv, ThreadWindow, [Next]_vars, ~Alive'
          PROVE  ThreadWindow'
      BY <2>2, EndStartsNoThread DEF ThreadWindow, InWindow
    <2> QED BY <2>1, <2>2
  <1>3. ThreadWindow => ThreadBound
    <2> SUFFICES ASSUME NEW a \in Int, InWindow(a) PROVE ThreadBound
      BY DEF ThreadWindow
    <2> DEFINE U == {k \in LaneIds : thread[k] \in Active \cup {"exited"}}
               W == a .. (a + Threads) - 1
    <2>1. U \subseteq W
      BY DEF InWindow
    <2>2. IsFiniteSet(W) /\ Cardinality(W) = Threads
      BY FillAssumption, GeometryAssumption, FS_Interval
    <2>3. Cardinality(U) <= Cardinality(W)
      BY <2>1, <2>2, FS_Subset
    <2> QED BY <2>2, <2>3 DEF ThreadBound
  <1> QED BY <1>1, <1>2, <1>3, InvariantHolds, PTL DEF Spec

-----------------------------------------------------------------------------
-----------------------------------------------------------------------------
(* The refinement. *)

done == [k \in LaneIds |-> SegmentsDone(k)]

LEMMA ScheduleInit == Init => Schedule!Init
  BY DEF Init, Schedule!Init, SegmentsDone, Outcome, Alive, ARGON2_SYNC_POINTS

LEMMA ScheduleStep == IInv /\ IInv' /\ [Next]_vars => [Schedule!Next]_(Schedule!vars)
  <1> SUFFICES ASSUME IInv, IInv', [Next]_vars
               PROVE  Schedule!Next \/ (done' = done /\ Outcome' = Outcome)
    BY DEF Schedule!vars, done
  <1>0. /\ r \in Int /\ s \in 0 .. 3 /\ Passes \in Int /\ r <= Passes - 1
        /\ r' \in Int /\ s' \in 0 .. 3 /\ Lanes \in Int
        /\ l \in LaneIds
    BY FillAssumption, GeometryAssumption DEF IInv, TypeOK, Slices, ARGON2_SYNC_POINTS
  <1>1. ASSUME r' = r, s' = s,
               \A k \in LaneIds : thread'[k] \in {"exited", "joined"}
                                     <=> thread[k] \in {"exited", "joined"}
        PROVE  done' = done
    BY <1>1 DEF done, SegmentsDone
  <1>2. ASSUME Alive, done' = done, Outcome' = "failed"
        PROVE  Schedule!Fail
    <2>1. Outcome = "running"
      BY <1>2 DEF Outcome, Alive
    <2> QED BY <1>2, <2>1 DEF Schedule!Fail, done
  <1>3. CASE fill_memory_blocks \/ StCall \/ JoinLimit \/ CreateOk \/ CreateFails
    <2>1. /\ r' = r /\ s' = s /\ Alive /\ Alive'
          /\ \A k \in LaneIds : thread'[k] \in {"exited", "joined"}
                                  <=> thread[k] \in {"exited", "joined"}
      <3>1. CASE fill_memory_blocks \/ CreateFails
        BY <3>1 DEF fill_memory_blocks, CreateFails, Alive
      <3>2. CASE StCall \/ CreateOk
        <4>1. thread[l] = "none" /\ thread' = [thread EXCEPT ![l] = "created"]
          BY <1>0, <3>2 DEF StCall, CreateOk, IInv, MainInv, LaneIds
        <4> QED BY <3>2, <4>1 DEF StCall, CreateOk, Alive, IInv, TypeOK
      <3>3. CASE JoinLimit
        BY <3>3 DEF JoinLimit, Alive, IInv, TypeOK
      <3> QED BY <1>3, <3>1, <3>2, <3>3
    <2> QED BY <1>1, <2>1 DEF Outcome
  <1>4. CASE CallocFails \/ JoinFails
    <2>1. /\ r' = r /\ s' = s /\ thread' = thread /\ Alive
          /\ main' = "returned" /\ rc' # "ARGON2_OK"
      BY <1>4 DEF CallocFails, JoinFails, Return, Alive
    <2> QED BY <1>1, <1>2, <2>1 DEF Schedule!Next, Outcome, Alive
  <1>5. CASE Unwind
    <2>1. /\ r' = r /\ s' = s /\ Alive
          /\ \A k \in LaneIds : thread'[k] \in {"exited", "joined"}
                                  <=> thread[k] \in {"exited", "joined"}
          /\ \/ Alive'
             \/ main' = "returned" /\ rc' # "ARGON2_OK"
             \/ main' = "undefined"
      BY <1>5 DEF Unwind, Return, Alive, IInv, TypeOK
    <2> QED BY <1>1, <1>2, <2>1 DEF Schedule!Next, Outcome, Alive
  <1>6. ASSUME NEW next \in {"st", "limit"}, AdvanceSlice(next), Alive,
               thread[l] = "exited",
               \A k \in LaneIds : k # l => thread[k] = "joined"
        PROVE  Schedule!Next \/ (done' = done /\ Outcome' = Outcome)
    <2>1. \A k \in LaneIds : thread[k] \in {"exited", "joined"}
      BY <1>6
    <2>2. CASE s < ARGON2_SYNC_POINTS - 1 \/ r < Passes - 1
      <3>1. /\ main' = next /\ s' = (s + 1) % 4 /\ r' = IF s = 3 THEN r + 1 ELSE r
            /\ thread' = [k \in LaneIds |-> "none"]
        BY <1>6, <2>2 DEF AdvanceSlice, more_slices, ARGON2_SYNC_POINTS
      <3>2. 4 * r' + s' = 4 * r + s + 1
        BY <1>0, <3>1
      <3>3. done' = done
        BY <1>0, <2>1, <3>1, <3>2 DEF done, SegmentsDone, ARGON2_SYNC_POINTS
      <3> QED BY <1>6, <3>1, <3>3 DEF Outcome, Alive
    <2>3. CASE ~(s < ARGON2_SYNC_POINTS - 1 \/ r < Passes - 1)
      <3>1. /\ main' = "returned" /\ rc' = "ARGON2_OK" /\ r' = r /\ s' = s
            /\ thread' = [thread EXCEPT ![l] = "joined"]
        BY <1>6, <2>3 DEF AdvanceSlice, more_slices, Return
      <3>2. done' = done
        BY <1>0, <1>1, <1>6, <3>1 DEF IInv, TypeOK
      <3>3. \A k \in LaneIds : done[k] = 4 * Passes
        BY <1>0, <2>1, <2>3 DEF done, SegmentsDone, ARGON2_SYNC_POINTS
      <3>4. Outcome = "running" /\ Outcome' = "ok"
        BY <1>6, <3>1 DEF Outcome, Alive
      <3> QED BY <3>2, <3>3, <3>4
              DEF Schedule!Next, Schedule!Succeed, done, ARGON2_SYNC_POINTS
    <2> QED BY <2>2, <2>3
  <1>7. CASE StReturn \/ JoinRest
    <2>1. CASE l < Lanes - 1
      <3>1. /\ r' = r /\ s' = s /\ Alive /\ Alive'
            /\ \A k \in LaneIds : thread'[k] \in {"exited", "joined"}
                                    <=> thread[k] \in {"exited", "joined"}
        BY <1>0, <1>7, <2>1 DEF StReturn, JoinRest, Alive, IInv, TypeOK
      <3> QED BY <1>1, <3>1 DEF Outcome
    <2>2. CASE ~(l < Lanes - 1)
      <3>1. l = Lanes - 1 /\ Alive /\ thread[l] = "exited"
        BY <1>0, <1>7, <2>2 DEF LaneIds, StReturn, JoinRest, Alive
      <3>2. \A k \in LaneIds : k # l => thread[k] = "joined"
        BY <1>0, <1>7, <3>1 DEF StReturn, JoinRest, IInv, MainInv, LaneIds
      <3>3. AdvanceSlice("st") \/ AdvanceSlice("limit")
        BY <1>7, <2>2 DEF StReturn, JoinRest
      <3> QED BY <1>6, <3>1, <3>2, <3>3
    <2> QED BY <2>1, <2>2
  <1>8. ASSUME NEW k \in LaneIds, Exit(k)
        PROVE  Schedule!FinishSegment(k)
    <2>1. /\ Alive /\ Alive' /\ r' = r /\ s' = s /\ thread[k] = "fill"
          /\ thread' = [thread EXCEPT ![k] = "exited"]
      BY <1>8 DEF Exit, mainVars, Alive
    <2>2. /\ done[k] = 4 * r + s
          /\ \A j \in LaneIds : done[j] \in {4 * r + s, 4 * r + s + 1}
          /\ done' = [done EXCEPT ![k] = @ + 1]
      <3>1. \A j \in LaneIds : done[j] = 4 * r + s +
                 (IF thread[j] \in {"exited", "joined"} THEN 1 ELSE 0)
        BY DEF done, SegmentsDone, ARGON2_SYNC_POINTS
      <3>2. \A j \in LaneIds : done'[j] = 4 * r + s +
                 (IF thread'[j] \in {"exited", "joined"} THEN 1 ELSE 0)
        BY <2>1 DEF done, SegmentsDone, ARGON2_SYNC_POINTS
      <3>3. \A j \in LaneIds :
               thread'[j] = IF j = k THEN "exited" ELSE thread[j]
        BY <2>1 DEF IInv, TypeOK
      <3>4. done' = [j \in LaneIds |-> done'[j]] /\ done = [j \in LaneIds |-> done[j]]
        BY DEF done
      <3>5. done[k] = 4 * r + s
        BY <1>0, <2>1, <3>1
      <3>6. \A j \in LaneIds : done[j] \in {4 * r + s, 4 * r + s + 1}
        BY <1>0, <3>1
      <3>7. \A j \in LaneIds : done'[j] = IF j = k THEN done[k] + 1 ELSE done[j]
        BY <1>0, <2>1, <3>1, <3>2, <3>3
      <3> QED BY <3>4, <3>5, <3>6, <3>7
    <2>3. done[k] < 4 * Passes /\ \A j \in LaneIds : done[j] >= done[k]
      BY <1>0, <2>2
    <2>4. Outcome = "running" /\ Outcome' = "running"
      BY <2>1 DEF Outcome, Alive
    <2>5. ARGON2_SYNC_POINTS * Passes = 4 * Passes
      BY DEF ARGON2_SYNC_POINTS
    <2> QED BY <2>2, <2>3, <2>4, <2>5 DEF Schedule!FinishSegment, done
  <1>9. ASSUME NEW k \in LaneIds,
               Enter(k) \/ Mix(k) \/ \E hi \in LaneIds, lo \in 0 .. Word - 1 :
                                        Address(k, hi, lo)
        PROVE  done' = done /\ Outcome' = Outcome
    <2>1. /\ Alive /\ Alive' /\ r' = r /\ s' = s
          /\ \A j \in LaneIds : thread'[j] \in {"exited", "joined"}
                                  <=> thread[j] \in {"exited", "joined"}
      BY <1>9 DEF Enter, Mix, Address, mainVars, Alive, IInv, TypeOK
    <2> QED BY <1>1, <2>1 DEF Outcome
  <1>10. ASSUME NEW k \in LaneIds, Dangling(k)
         PROVE  done' = done /\ Outcome' = Outcome
    <2>1. /\ r' = r /\ s' = s /\ thread' = thread /\ ~Alive /\ ~Alive'
          /\ main' = "undefined" /\ main = "returned"
      BY <1>10 DEF Dangling, Alive
    <2>2. rc # "ARGON2_OK"
      BY <1>10, <2>1 DEF Dangling, IInv, MainInv, Active
    <2> QED BY <1>1, <2>1, <2>2 DEF Outcome
  <1>11. CASE Finished \/ UNCHANGED vars
    <2>1. r' = r /\ s' = s /\ thread' = thread /\ main' = main /\ rc' = rc
      BY <1>11 DEF Finished, vars, mainVars
    <2> QED BY <1>1, <2>1 DEF Outcome, Alive
  <1> QED
    BY <1>3, <1>4, <1>5, <1>7, <1>8, <1>9, <1>10, <1>11
    DEF Next, Main, Segment, Schedule!Next

(* fill_memory_blocks implements the lockstep schedule of lanes and segments. *)
THEOREM FillImplementsSchedule == Spec => ImplementsSchedule
  BY ScheduleInit, ScheduleStep, InvariantHolds, PTL
  DEF Spec, ImplementsSchedule, Schedule!Spec
=============================================================================
