----------------------------- MODULE MCCopyHdd ------------------------------
(* CopyHdd with a source disk of three games, the last of them hidden.      *)
EXTENDS CopyHdd

\* on chunks of 128 MB: b fills three chunks but for the headers, the others one
MCSize == [a |-> 124, b |-> 378, c |-> 100]

Game(prefix, name, title, chunks) ==
  [id |-> <<prefix, name>>, title |-> title, image |-> name, chunks |-> chunks]

MCSource == <<Game("PP", "a", "a", 1), Game("PP", "b", "b", 3), Game("__", "c", "c", 1)>>

MCSkipped == {1, 2}
=============================================================================
