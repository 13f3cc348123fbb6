---------------------------- MODULE FrameStream ------------------------------
(***************************************************************************)
(* What a serial receiver promises the task that takes its frames: a frame *)
(* is the next run of the bytes received, never more than Capacity of them;*)
(* runs follow one another without a gap, and a run that finds the frame   *)
(* queue full is dropped whole.                                            *)
(***************************************************************************)
EXTENDS Integers, Sequences

CONSTANTS
    Capacity,   \* bytes of a frame
    FrameSlots  \* frames that wait for the reader

VARIABLES
    pending,    \* bytes received and not yet cut into a frame
    frames      \* frames waiting for the reader

Init == pending = <<>> /\ frames = <<>>

(* Any byte.                                                               *)
Arrive ==
    /\ Len(pending') = Len(pending) + 1
    /\ SubSeq(pending', 1, Len(pending)) = pending
    /\ UNCHANGED frames

(* The first bytes become a frame, or are dropped with it.                 *)
Cut ==
    \E n \in 1 .. Capacity :
        /\ n <= Len(pending)
        /\ pending' = SubSeq(pending, n + 1, Len(pending))
        /\ frames' = IF Len(frames) < FrameSlots
                     THEN Append(frames, SubSeq(pending, 1, n)) ELSE frames

Fetch ==
    /\ frames # <<>>
    /\ frames' = Tail(frames)
    /\ UNCHANGED pending

Next == Arrive \/ Cut \/ Fetch

Spec == Init /\ [][Next]_<<pending, frames>>
=============================================================================
