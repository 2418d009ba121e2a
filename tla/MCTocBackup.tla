---------------------------- MODULE MCTocBackup -----------------------------
(* TocBackup on a small disk with a game that needs more than one partition. *)
EXTENDS TocBackup

MCSize == [a |-> 252]   \* of chunks of 128 MB, two joined ones or three
=============================================================================
