------------------------------ MODULE HddGames ------------------------------
(***************************************************************************)
(* The commands of HddCommands, with what the disk lists kept beside them: *)
(* seen and stages record, after every step, the list that the next reader *)
(* of the disk sees and the lists the command in progress may leave.  They *)
(* add no behaviour and are what GameList speaks of.                       *)
(***************************************************************************)
EXTENDS HddCommands

VARIABLES seen, stages

gamesVars == <<vars, seen, stages>>

GamesInit == /\ Init
             /\ seen = Seen(disk)
             /\ stages = {}

Record == \E list \in {Seen(disk')}, lists \in {Stages(phase', job', toc', disk')} :
            /\ seen' = list
            /\ stages' = {lists[k] : k \in DOMAIN lists}

GamesNext == Next /\ Record

GamesSpec == GamesInit /\ [][GamesNext]_gamesVars

-----------------------------------------------------------------------------
List == INSTANCE GameList WITH Images <- Names, Deletes <- "delete" \in Commands

\* Whatever command runs and wherever it is stopped, no game but its own is
\* harmed: the next reader sees the list of a stage of the command or refuses
\* the disk, and the data of the games stays where their tables say.
KeepsGames == List!Spec
=============================================================================
