---------------------------- MODULE FillSchedule ----------------------------
(* What fill_memory_blocks promises, without threads: the lanes fill their    *)
(* segments in lockstep, ARGON2_SYNC_POINTS segments a pass, with a barrier   *)
(* after each, until every lane has filled them all; or the call fails.       *)
EXTENDS Integers

CONSTANTS LaneIds, Segments

VARIABLES
    done,       \* per lane: the number of segments filled
    outcome     \* what the call has reported

vars == <<done, outcome>>

Init ==
    /\ done = [k \in LaneIds |-> 0]
    /\ outcome = "running"

(* Lane k completes a segment that no lane lags behind. *)
FinishSegment(k) ==
    /\ outcome = "running"
    /\ done[k] < Segments
    /\ \A j \in LaneIds : done[j] >= done[k]
    /\ done' = [done EXCEPT ![k] = @ + 1]
    /\ outcome' = outcome

Succeed ==
    /\ outcome = "running"
    /\ \A k \in LaneIds : done[k] = Segments
    /\ outcome' = "ok"
    /\ done' = done

Fail ==
    /\ outcome = "running"
    /\ outcome' = "failed"
    /\ done' = done

Next == Succeed \/ Fail \/ \E k \in LaneIds : FinishSegment(k)

Spec == Init /\ [][Next]_vars
=============================================================================
