------------------------------ MODULE CopyHdd -------------------------------
(***************************************************************************)
(* copy_hdd: the games of another disk are installed on this one, one      *)
(* after the other.  Each is opened by its title on the source disk, which *)
(* need not be its alone, and installed under its partition name; one that *)
(* is there already is skipped, and the first other error ends the copy.   *)
(***************************************************************************)
EXTENDS HddGames

CONSTANTS Source,  \* the list of the source disk: partition name, title and
                   \* image of each game, and the chunks it takes there
          Skipped  \* stands for the flags: the games that may be left out

ASSUME SourceAssumption ==
  /\ \A k \in DOMAIN Source : Source[k].id \in Ids /\ Source[k].image \in Names
  /\ Skipped \subseteq DOMAIN Source

VARIABLES
  turn,     \* the game of the source list that is next, 0 if no copy runs
  chosen,   \* the games the flags choose
  outcome   \* how the last copy ended

copyVars == <<turn, chosen, outcome>>
allVars  == <<gamesVars, copyVars>>

CopyInit == GamesInit /\ turn = 0 /\ chosen = {} /\ outcome = "none"

-----------------------------------------------------------------------------
\* chunks that are free, on both slices and with room for headers or not
FreeChunks(t) ==
  LET Free(i) == Cardinality(Available(SliceChunks(t.got, i), Headers(t.slice[i])))
  IN IF t.got THEN Free(0) + Free(1) ELSE Free(0)

\* (mutated form of Needed: a game takes one chunk)
NeededOneEach(games) == Cardinality(games)

Needed(games) ==
  LET sum[k \in 0 .. Len(Source)] ==
        IF k = 0 THEN 0
        ELSE sum[k - 1] + IF k \in games THEN Source[k].chunks ELSE 0
  IN sum[Len(Source)]

Finished(r) == turn' = 0 /\ outcome' = r /\ UNCHANGED chosen

StartCopy ==
  /\ turn = 0 /\ phase = "idle"
  /\ \E t \in {TocRead(disk)}, left \in SUBSET Skipped :
       LET games == DOMAIN Source \ left IN
       /\ chosen' = games
       /\ IF ~t.ok \/ FreeChunks(t) < Needed(games) \/ games = {}
          THEN turn' = 0 /\ outcome' = "err"
          ELSE turn' = 1 /\ outcome' = "none"
  /\ UNCHANGED gamesVars

\* iin_hio_probe_path: the first game of the source disk with that title
Lookup(title) ==
  LET k == CHOOSE k \in DOMAIN Source :
             /\ Source[k].title = title
             /\ \A j \in 1 .. k - 1 : Source[j].title # title
  IN Source[k].image

\* (mutated form of CopyGame: the flags are those of the next game)
CopyGameFlagsOff ==
  /\ turn \in DOMAIN Source /\ phase = "idle"
  /\ LET game == Source[turn] IN
     \E t \in {TocRead(disk)} :
       IF turn + 1 \in DOMAIN Source /\ turn + 1 \notin chosen
       THEN turn' = turn + 1 /\ UNCHANGED <<vars, chosen, outcome>>
       ELSE IF t.ok /\ Find(t, game.id) # {}
       THEN turn' = turn + 1 /\ UNCHANGED <<vars, chosen, outcome>>
       ELSE /\ IF t.ok THEN Install(t, game.id, Lookup(game.title), -1) ELSE Refuse
            /\ IF phase' = "idle" THEN Finished("err") ELSE UNCHANGED copyVars
  /\ Record

\* the game whose turn it is: left out, skipped, refused or begun
CopyGame ==
  /\ turn \in DOMAIN Source /\ phase = "idle"
  /\ LET game == Source[turn] IN
     \E t \in {TocRead(disk)} :
       IF turn \notin chosen \/ (t.ok /\ Find(t, game.id) # {})
       THEN turn' = turn + 1 /\ UNCHANGED <<vars, chosen, outcome>>
       ELSE /\ IF t.ok THEN Install(t, game.id, Lookup(game.title), -1) ELSE Refuse
            /\ IF phase' = "idle" THEN Finished("err") ELSE UNCHANGED copyVars
  /\ Record

\* (mutated form of CopyStep: an install that fails does not end the copy)
CopyStepGoesOn(step) ==
  /\ turn # 0 /\ step /\ Record
  /\ IF phase' # "idle" THEN UNCHANGED copyVars
     ELSE turn' = turn + 1 /\ UNCHANGED <<chosen, outcome>>

\* the install goes on, and after it the next game, unless it failed
CopyStep(step) ==
  /\ turn # 0 /\ step /\ Record
  /\ IF phase' # "idle" THEN UNCHANGED copyVars
     ELSE IF result' = "ok" THEN turn' = turn + 1 /\ UNCHANGED <<chosen, outcome>>
     ELSE Finished("err")

CopyGoesOn == CopyStep(CopyChunk \/ WriteMain \/ CommitHeader)
CopyStops  == CopyStep(Stop)

EndCopy == /\ turn = Len(Source) + 1
           /\ Finished("ok")
           /\ UNCHANGED gamesVars

\* between two copies, on the console
DeleteBetween == turn = 0 /\ ConsoleDelete /\ Record /\ UNCHANGED copyVars

CopyNext == \/ StartCopy \/ CopyGame \/ CopyGoesOn \/ CopyStops \/ EndCopy
            \/ DeleteBetween

CopySpec == CopyInit /\ [][CopyNext]_allVars

-----------------------------------------------------------------------------
\* A copy that ends well has brought every game that was chosen, each with its
\* own image, although copies before it may have been stopped anywhere and a
\* game that is there already is passed over.
CopyRight ==
  [][turn # 0 /\ turn' = 0 /\ outcome' = "ok" =>
       \A k \in chosen : \E g \in seen' : g.id = Source[k].id /\ g.image = Source[k].image]_allVars

\* A game that the flags leave out is not brought by the copy.
FlagsObeyed ==
  [][turn # 0 /\ Broken \notin {seen, seen'} =>
       LET Brought == {g.id : g \in seen'} \ {g.id : g \in seen}
       IN Brought \cap {Source[k].id : k \in DOMAIN Source \ chosen} = {}]_allVars

\* The space that is checked once, before the first game, is enough for all:
\* on a disk where every partition is one chunk no copy that has begun runs
\* out of it, however the free chunks lie.
SpaceEnough ==
  [][phase = "idle" /\ turn \in DOMAIN Source /\ turn' = 0 => TocRead(disk) = NoToc]_allVars
=============================================================================
