---------------------------- MODULE MCCleaning ----------------------------
(* An instance of Cleaning for TLC: two calls with one capability, and the    *)
(* code's three POSTs per terminal receipt.                                   *)
EXTENDS Cleaning
=============================================================================
