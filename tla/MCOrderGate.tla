----------------------------- MODULE MCOrderGate -----------------------------
(* A minute, an hour and a day of a few seconds each. *)
EXTENDS OrderGate
MCLimit  == <<1, 2, 3>>
MCWindow == <<1, 3, 5>>
=============================================================================
