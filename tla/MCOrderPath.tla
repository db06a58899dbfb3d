----------------------------- MODULE MCOrderPath -----------------------------
(* OrderPath needs no model values: the module of its run. *)
EXTENDS OrderPath
=============================================================================
