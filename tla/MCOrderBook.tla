----------------------------- MODULE MCOrderBook -----------------------------
(* Small instances of OrderBook for TLC: the names of orders and numbers. *)
EXTENDS OrderBook
CONSTANTS o1, o2, n1, n2
=============================================================================
