----------------------------- MODULE MCFrameLog -----------------------------
(* The scenarios the runs of FrameLog explore: every fault with the fewest *)
(* frames, segments and crashes that let a segment be skipped wrongly.     *)
EXTENDS FrameLog

Of(faults, steps, frames, segments, deaths) ==
    [faults |-> faults, steps |-> steps, max_frames |-> frames, max_segments |-> segments, max_crashes |-> deaths]

Handled ==
    {Of({"shed"}, {1, 5}, 4, 3, 0),
     Of({"shed", "rescue"}, {5}, 3, 2, 1),
     Of({"host", "shed"}, {5}, 2, 2, 2),
     Of({"host"}, {5}, 3, 2, 1),
     Of({"suspend"}, {5}, 2, 1, 1),
     Of({"lag", "host"}, {5}, 1, 1, 1),
     Of({"suspend"}, {5}, 3, 2, 0),
     Of({"lag"}, {5}, 3, 2, 0),
     Of({"lag", "suspend"}, {1, 5}, 2, 2, 0)}

Unreadable == {Of({"read"}, {5}, 3, 2, 1)}
=============================================================================
