---------------------------- MODULE MCHddGames -----------------------------
(* HddGames on small disks, with games that fill their partitions to the   *)
(* last megabyte or need one more.                                         *)
EXTENDS HddGames

\* on chunks of 128 MB: a fills one, b fills two but for their headers
MCSize == [a |-> 124, b |-> 252]
MCSizeFits == [a |-> 124, b |-> 248]   \* b fills two chunks
=============================================================================
