------------------------------ MODULE MCThdIin ------------------------------
(* ThdIin on a source of a few sectors: full reads in the middle, a short  *)
(* read at the end and reads of every smaller size, in any order.          *)
EXTENDS ThdIin
=============================================================================
