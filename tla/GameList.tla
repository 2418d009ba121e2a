------------------------------ MODULE GameList ------------------------------
(***************************************************************************)
(* What hdl_dump promises whoever lists and plays the games of a hard      *)
(* disk.  A command takes the list through a few stages; wherever it is    *)
(* stopped, the list is that of one of its stages, or the disk is refused  *)
(* as a whole: a game is never lost, torn or listed twice.                 *)
(***************************************************************************)
CONSTANTS Ids,     \* partition names
          Images,  \* the images games are installed from, and their titles
          Broken,  \* what is seen of a disk that is refused
          Deletes  \* whether games are deleted, on the console

VARIABLES seen,    \* the games the next reader of the disk lists
          stages   \* the lists the command in progress may leave; none: {}

vars == <<seen, stages>>

Games == [id : Ids, title : Images, image : Images]

IdsIn(list) == {g.id : g \in list}

Init == seen \in SUBSET Games /\ stages = {}

\* a new game, under a name that is not taken
Installs(list) ==
  {{list, list \cup {[id |-> id, title |-> image, image |-> image]}} :
     id \in Ids \ IdsIn(list), image \in Images}

\* a new title, then a new partition name that is not taken
Renames(list) ==
  UNION {LET others == list \ {g}
             with(t, i) == others \cup {[g EXCEPT !.title = t, !.id = i]}
         IN {{list, with(title, g.id), with(title, id)} :
               title \in Images, id \in Ids \ IdsIn(others)}
         : g \in list}

\* a command that changes nothing of the list
Touches(list) == {{list}}

Begin == /\ stages = {}
         /\ \E list \in {seen} :
              /\ list # Broken
              /\ stages' \in Installs(list) \cup Renames(list) \cup Touches(list)
              /\ seen' = list

\* a write of the command in progress, or its end, wherever it comes
Write == \E lists \in {stages} :
           /\ lists # {}
           /\ seen' \in lists \cup {Broken}
           /\ stages' \in {lists, {}}

\* between two commands the console deletes a game
Delete == /\ Deletes /\ stages = {} /\ stages' = {}
          /\ \E list \in {seen} :
               list # Broken /\ seen' \in {list \ {g} : g \in list}

Next == Begin \/ Write \/ Delete

Spec == Init /\ [][Next]_vars
=============================================================================
