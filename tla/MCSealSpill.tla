----------------------------- MODULE MCSealSpill -----------------------------
(* The scenarios of the runs of SealSpill: copies of bar 1 and of bar 2. *)
EXTENDS SealSpill

Of(copies, crash, faults) == [copies |-> copies, crashes |-> crash, faults |-> faults]

Covered ==
    {Of(<<3, 0>>, 2, {}),
     Of(<<1, 2>>, 1, {}),
     Of(<<3, 0>>, 1, {"disk", "boot", "park"})}

Overflowed == {Of(<<3, 1>>, 0, {})}
=============================================================================
