----------------------------- MODULE CapturedLog -----------------------------
(***************************************************************************)
(* What the write-ahead log of frames promises, whatever fails: a captured *)
(* frame stays readable until it is durable somewhere else, and is never   *)
(* lost again after that.                                                  *)
(***************************************************************************)
VARIABLES
    captured,  \* frames written to the log
    durable,   \* frames that outlive a crash of the host outside the log
    retired    \* frames no later boot will read from the log

vars == <<captured, durable, retired>>

Init == captured = {} /\ durable = {} /\ retired = {}

\* Frames are captured; a captured frame is not yet durable.
Capture ==
    /\ captured \subseteq captured'
    /\ UNCHANGED <<durable, retired>>

\* Captured frames become durable, for good.
Land ==
    /\ durable \subseteq durable' /\ durable' \subseteq captured
    /\ UNCHANGED <<captured, retired>>

\* Durable frames, and only those, may leave the log.
Retire ==
    /\ retired \subseteq retired' /\ retired' \subseteq durable
    /\ UNCHANGED <<captured, durable>>

Next == Capture \/ Land \/ Retire

Spec == Init /\ [][Next]_vars
=============================================================================
