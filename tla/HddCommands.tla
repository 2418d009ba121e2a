---------------------------- MODULE HddCommands ----------------------------
(***************************************************************************)
(* The commands of hdl_dump that write to a PS2 hard disk: install         *)
(* (hdl_inject), modify (hdl_modify_game), modify_header                   *)
(* (hdd_inject_header) and inject_mbr (apa_initialize_ex).  A command      *)
(* reads the table, plans in memory, and writes to the disk step by step;  *)
(* it may be stopped before any of its writes, by the user, by an error of *)
(* the input, of the disk or of the network, or by a power failure.        *)
(***************************************************************************)
EXTENDS Apa

CONSTANTS Names,     \* of games: each is installed from an image of its own
          Prefixes,  \* of partition names: "PP" is visible, "__" is hidden
          Size,      \* megabytes in the image of each game
          Formats,   \* the dialects in which the disk may be formatted
          Commands,  \* the commands that are used
          ReadsFail, \* whether modify_header may fail to read the partition
          Broken     \* stands for the games of a disk that is refused

ASSUME CommandsAssumption ==
  /\ Size \in [Names -> Nat]
  /\ Names \cap {"mbr", "empty", "keep", "none"} = {}
  /\ Prefixes \subseteq {"PP", "__"}
  /\ Formats \subseteq {"plain", "toxic", "2slice"}
  /\ Commands \subseteq {"install", "modify", "header", "mbr", "delete"}
  /\ ReadsFail \in BOOLEAN

VARIABLES
  disk,    \* what is on the disk, chunk by chunk
  phase,   \* what the command in progress does next
  toc,     \* the table in memory
  job,     \* what was asked of the command
  todo,    \* chunks still to be written to in this phase
  result   \* what the last command returned

vars == <<disk, phase, toc, job, todo, result>>

Id(prefix, name) == <<prefix, name>>
Ids == Prefixes \X Names

NoJob == [op |-> "none"]

\* a freshly formatted disk: one system partition at the start of each slice
System(dialect) ==
  [id |-> MbrId, start |-> 0, len |-> 1, main |-> 0, subs |-> <<>>,
   next |-> 0, prev |-> 0, dialect |-> dialect]

Formatted(dialect) ==
  [c \in 0 .. Chunks - 1 |->
     [hdr  |-> IF c = 0 THEN System(dialect)
               ELSE IF c = Slice2 /\ dialect = "2slice" THEN System("plain")
               ELSE Junk,
      tab  |-> Junk,
      data |-> NoData]]

Init == /\ disk \in {Formatted(d) : d \in Formats}
        /\ phase = "idle" /\ toc = NoToc /\ job = NoJob
        /\ todo = {} /\ result = "none"

-----------------------------------------------------------------------------
(* How a command begins and ends.                                          *)

Begin(t, j, first, chunks) ==
  /\ toc' = t /\ job' = j /\ phase' = first /\ todo' = chunks
  /\ result' = "none"
  /\ UNCHANGED disk

End(r) == /\ phase' = "idle" /\ toc' = NoToc /\ job' = NoJob /\ todo' = {}
          /\ result' = r

\* the command returns an error and has written nothing
Refuse == /\ End("err") /\ UNCHANGED disk

\* the command is stopped between two writes, or the next one fails
Stop == /\ phase # "idle"
        /\ Refuse

-----------------------------------------------------------------------------
(* Committing the table, the end of install, modify and modify_header.     *)

ModifiedAt(t) ==
  UNION {{Base(i) + t.slice[i][k].h.start :
            k \in {k \in DOMAIN t.slice[i] : t.slice[i][k].modified}}
         : i \in Slices(t)}

\* the header the table has for a chunk of the disk
HeaderAt(t, c) ==
  LET at == CHOOSE ik \in UNION {{i} \X DOMAIN t.slice[i] : i \in Slices(t)} :
              Base(ik[1]) + t.slice[ik[1]][ik[2]].h.start = c
  IN t.slice[at[1]][at[2]].h

\* the table is checked; if it is good the modified headers are to be written
GoCommit ==
  IF ~TocCheck(toc) THEN End("err")
  ELSE IF ModifiedAt(toc) = {} THEN End("ok")
  ELSE /\ phase' = "commit" /\ todo' = ModifiedAt(toc)
       /\ UNCHANGED <<toc, job, result>>

\* slice by slice, in the order of the list
CommitHeader ==
  /\ phase = "commit"
  /\ LET c == Lowest(todo) IN
     /\ disk' = [disk EXCEPT ![c].hdr = HeaderAt(toc, c)]
     /\ IF todo = {c} THEN End("ok")
        ELSE todo' = todo \ {c} /\ UNCHANGED <<toc, job, phase, result>>

-----------------------------------------------------------------------------
(* install: hdl_inject and inject_data.                                    *)

\* the image data that goes to a chunk, if any
Runs(j)  == RunsOf(j.header)
Plan(j)  == Extents(Runs(j), j.slice, j.size)
PlanChunks(j) == UNION {Touched(e.start, e.len) : e \in Plan(j)}
PlanData(j, c) ==
  LET e == CHOOSE e \in Plan(j) : c \in Touched(e.start, e.len)
  IN [image |-> j.name, bias |-> e.from - (e.start - c * ChunkMB)]

MainChunk(j) == Base(j.slice) + j.header.start
Heads(j) == {Base(j.slice) + Runs(j)[k].start : k \in DOMAIN Runs(j)}

\* the image called name is installed as a game with the partition name id
Install(t, id, name, hint) ==
  \E tries \in {SlicesToTry(t, hint)} :
  \E fits \in {{k \in DOMAIN tries : RunsIn(t, tries[k], Size[name]) # <<>>}} :
    IF Find(t, id) # {} \/ fits = {} THEN Refuse
    ELSE \E i \in {tries[Lowest(fits)]} : \E runs \in {RunsIn(t, i, Size[name])} :
         \E j \in {[op |-> "install", name |-> name, id |-> id, slice |-> i,
                    size |-> Size[name], header |-> NewHeader(id, runs, 1)]} :
           Begin([t EXCEPT !.slice[i] = WithNew(@, id, runs)], j, "copy", PlanChunks(j))

InstallGame ==
  /\ "install" \in Commands /\ phase = "idle"
  /\ \E t \in {TocRead(disk)} :
       IF ~t.ok THEN Refuse
       ELSE \E name \in Names, prefix \in Prefixes, hint \in {-1, 0, 1} :
              Install(t, Id(prefix, name), name, hint)

\* (mutated form of CopyChunk: the main header is written with the data, as
\* it was before 0.9.0)
CopyChunkMainFirst ==
  /\ phase = "copy" /\ todo # {}
  /\ LET c == Lowest(todo) IN
     /\ disk' = [disk EXCEPT ![c] =
          [hdr  |-> IF c = MainChunk(job) THEN HeaderAt(toc, c)
                    ELSE IF c \in Heads(job) THEN @.hdr ELSE Junk,
           tab  |-> IF c = MainChunk(job) THEN @.tab ELSE Junk,
           data |-> PlanData(job, c)]]
     /\ todo' = todo \ {c}
  /\ UNCHANGED <<phase, toc, job, result>>

\* The data of a game starts 4 MB into its main partition and 1 MB into a
\* sub-partition: it leaves alone the header of the chunk a partition starts
\* in, and what is at 0x101000 only in the first.
CopyChunk ==
  /\ phase = "copy" /\ todo # {}
  /\ LET c == Lowest(todo) IN
     /\ disk' = [disk EXCEPT ![c] =
          [hdr  |-> IF c \in Heads(job) THEN @.hdr ELSE Junk,
           tab  |-> IF c = MainChunk(job) THEN @.tab ELSE Junk,
           data |-> PlanData(job, c)]]
     /\ todo' = todo \ {c}
  /\ UNCHANGED <<phase, toc, job, result>>

\* all copied, the main header last: the partition header, the title and the
\* allocation table in one write of 4 MB; then the commit
WriteMain ==
  /\ phase = "copy" /\ todo = {}
  /\ IF LeftOver(Runs(job), job.size) # 0 THEN Refuse
     ELSE LET c == MainChunk(job) IN
          /\ disk' = [disk EXCEPT
               ![c].hdr = HeaderAt(toc, c),
               ![c].tab = [title |-> job.name,
                           parts |-> AllocTable(Runs(job), job.slice, job.size)]]
          /\ GoCommit

-----------------------------------------------------------------------------
(* modify, modify_header and inject_mbr.                                   *)

\* the main partitions of games, as slice and index
GamesIn(t) ==
  UNION {{<<i, k>> : k \in {k \in DOMAIN t.slice[i] :
                              t.slice[i][k].h.main = 0 /\ t.slice[i][k].h.id \in Ids}}
         : i \in Slices(t)}

Keep == "keep"   \* an option that is not given

\* the title in a HDLoader header; one without the magic has none to speak of
TitleOf(tab) == IF tab = Junk THEN "junk" ELSE tab.title

\* (mutated form of Modify: the new name may be taken)
ModifyTaken(t, at, newName, hide) ==
  LET h      == t.slice[at[1]][at[2]].h
      c      == Base(at[1]) + h.start
      id     == Id(IF hide = Keep THEN h.id[1] ELSE hide,
                   IF newName = Keep THEN h.id[2] ELSE newName)
      title  == IF newName = Keep \/ disk[c].tab = Junk THEN TitleOf(disk[c].tab) ELSE newName
      new == [t EXCEPT !.slice[at[1]][at[2]] =
                [h |-> [h EXCEPT !.id = id], modified |-> TRUE]]
  IN Begin(IF id # h.id /\ ~t.toxic THEN new ELSE t,
           [op |-> "modify", at |-> c, title |-> title,
            oldId |-> h.id, oldTitle |-> TitleOf(disk[c].tab)], "title", {c})

\* hdl_modify_game, for a game that was found: with a new title or with -hide
\* or -unhide the partition gets a new name, unless the disk is a ToxicOS one
Modify(t, at, newName, hide) ==
  LET h      == t.slice[at[1]][at[2]].h
      c      == Base(at[1]) + h.start
      prefix == IF hide = Keep THEN h.id[1] ELSE hide
      id     == Id(prefix, IF newName = Keep THEN h.id[2] ELSE newName)
      title  == IF newName = Keep \/ disk[c].tab = Junk THEN TitleOf(disk[c].tab) ELSE newName
      renames == (prefix # h.id[1] \/ newName # Keep) /\ ~t.toxic
      new == [t EXCEPT !.slice[at[1]][at[2]] =
                [h |-> [h EXCEPT !.id = id], modified |-> TRUE]]
      j   == [op |-> "modify", at |-> c, title |-> title,
              oldId |-> h.id, oldTitle |-> TitleOf(disk[c].tab)]
  IN IF ~renames THEN Begin(t, j, "title", {c})
     ELSE IF Find(t, id) # {} THEN Refuse
     ELSE Begin(new, j, "title", {c})

ModifyGame ==
  /\ "modify" \in Commands /\ phase = "idle"
  /\ \E t \in {TocRead(disk)} :
       IF ~t.ok THEN Refuse
       ELSE \E at \in GamesIn(t), newName \in Names \cup {Keep},
               hide \in Prefixes \cup {Keep} : Modify(t, at, newName, hide)

\* the title is in the HDLoader header; the partition's name is committed next
WriteTitle ==
  /\ phase = "title"
  /\ disk' = IF disk[job.at].tab = Junk THEN disk
             ELSE [disk EXCEPT ![job.at].tab.title = job.title]
  /\ GoCommit

\* hdd_inject_header, for a game that was found
ModifyHeader ==
  /\ "header" \in Commands /\ phase = "idle"
  /\ \E t \in {TocRead(disk)} :
       IF ~t.ok THEN Refuse
       ELSE \E at \in GamesIn(t) :
            LET c == Base(at[1]) + t.slice[at[1]][at[2]].h.start
            IN Begin(t, [op |-> "header", at |-> c], "attributes", {c})

\* the first 4 MB and a bit of the partition are read, given new icons and
\* boot files, and written back
WriteAttributes ==
  /\ phase = "attributes"
  /\ UNCHANGED disk
  /\ GoCommit

\* the result of that read is not looked at before the write: what is written
\* back after a failed one is what happened to be in memory
WriteGarbage ==
  /\ ReadsFail /\ phase = "attributes"
  /\ disk' = [disk EXCEPT ![job.at] = [hdr |-> Junk, tab |-> Junk, data |-> NoData]]
  /\ GoCommit

\* (mutated form of InjectMbr: a new header without links)
InjectMbrUnlinked ==
  /\ "mbr" \in Commands /\ phase = "idle"
  /\ disk' = [disk EXCEPT ![0].hdr = System("plain")]
  /\ End("ok")

\* apa_initialize_ex: a new header for sector 0, of which only the links are
\* kept; the boot program goes inside the first partition
InjectMbr ==
  /\ "mbr" \in Commands /\ phase = "idle"
  /\ disk' = [disk EXCEPT ![0].hdr =
       [System("plain") EXCEPT !.next = disk[0].hdr.next, !.prev = disk[0].hdr.prev]]
  /\ End("ok")

-----------------------------------------------------------------------------
\* Not hdl_dump: on the console, a game is deleted by making each of its
\* partitions an __empty one.
ConsoleDelete ==
  /\ "delete" \in Commands /\ phase = "idle"
  /\ \E t \in {TocRead(disk)} :
     /\ t.ok
     /\ \E at \in GamesIn(t) :
          LET runs  == RunsOf(t.slice[at[1]][at[2]].h)
              heads == {Base(at[1]) + runs[k].start : k \in DOMAIN runs}
          IN disk' = [c \in DOMAIN disk |->
                        IF c \in heads
                        THEN [disk[c] EXCEPT !.hdr.id = EmptyId, !.hdr.main = 0,
                                             !.hdr.subs = <<>>]
                        ELSE disk[c]]
  /\ result' = "none"
  /\ UNCHANGED <<phase, toc, job, todo>>

Next == \/ InstallGame \/ CopyChunk \/ WriteMain
        \/ ModifyGame \/ WriteTitle
        \/ ModifyHeader \/ WriteAttributes \/ WriteGarbage
        \/ InjectMbr \/ CommitHeader \/ Stop \/ ConsoleDelete

Spec == Init /\ [][Next]_vars

-----------------------------------------------------------------------------
ChunkOf(t, at) == Base(at[1]) + t.slice[at[1]][at[2]].h.start

\* some games of a table, with what the disk has of each
Shown(t, d, games) ==
  LET Game(id, tab) == [id |-> id, title |-> TitleOf(tab),
                        image |-> Extracted(d, tab, Size)]
  IN {Game(t.slice[at[1]][at[2]].h.id, d[ChunkOf(t, at)].tab) : at \in games}

\* what the next command lists
Seen(d) == LET t == TocRead(d) IN IF t.ok THEN Shown(t, d, GamesIn(t)) ELSE Broken

\* the lists a command goes through, the last one last: p, j and t are the
\* phase, the job and the table in memory
Stages(p, j, t, d) ==
  LET mine == IF j.op = "install" THEN MainChunk(j) ELSE j.at
      Others == Shown(t, d, {at \in GamesIn(t) : ChunkOf(t, at) # mine})
      With(id, title, image) == Others \cup {[id |-> id, title |-> title, image |-> image]}
      image == Extracted(d, d[j.at].tab, Size)
  IN CASE p = "idle"       -> <<>>
       [] j.op = "install" -> <<Others, With(j.id, j.name, j.name)>>
       [] j.op = "header"  -> <<Shown(t, d, GamesIn(t))>>
       [] OTHER -> <<With(j.oldId, j.oldTitle, image), With(j.oldId, j.title, image),
                     With(HeaderAt(t, j.at).id, j.title, image)>>

-----------------------------------------------------------------------------
HeaderOK(h) ==
  h = Junk \/
  /\ h.id \in Ids \cup {MbrId, EmptyId}
  /\ {h.start, h.main, h.next, h.prev} \subseteq 0 .. Chunks - 1
  /\ h.len \in 1 .. Chunks /\ h.dialect \in {"plain", "toxic", "2slice"}
  /\ \A k \in DOMAIN h.subs : h.subs[k].start \in 0 .. Chunks - 1

TypeOK ==
  /\ DOMAIN disk = 0 .. Chunks - 1
  /\ \A c \in DOMAIN disk :
       /\ HeaderOK(disk[c].hdr)
       /\ disk[c].tab = Junk \/ disk[c].tab.title \in Names
       /\ disk[c].data.image \in Names \cup {"none"}
  /\ phase \in {"idle", "copy", "title", "attributes", "commit"}
  /\ (phase = "idle") = (toc = NoToc) /\ (phase = "idle") = (job = NoJob)
  /\ todo \subseteq DOMAIN disk
  /\ result \in {"none", "ok", "err"}

\* The table a command works on is one apa_check accepts, so that a commit is
\* never refused after the data was copied (apa_commit_ex).
TableGood == toc.ok => TocCheck(toc)

\* The space that was allocated holds the image: inject_data never ends with
\* kb_remaining ("the game does not fit in the allocated space... why?").
ImageFits == job.op = "install" => LeftOver(Runs(job), job.size) = 0

\* From the write of the main header on, hdl_extract gets the image that was
\* copied: the allocation table, which prepare_main computes before the copy,
\* tells where the loop of inject_data puts its parts, which overlap nowhere.
CopiedWhole == phase = "commit" /\ job.op = "install" =>
                 Extracted(disk, disk[MainChunk(job)].tab, Size) = job.name

\* the chunks of a slice that are in no partition of it
Unused(t, i) ==
  {Base(i) + c : c \in {c \in 0 .. SliceChunks(t.got, i) - 1 :
                          \A k \in DOMAIN t.slice[i] : c \notin Span(t.slice[i][k].h)}}

\* An install copies the image only to chunks of its slice that were in no
\* partition when it read the table (apa_allocate_space_in_slice, which looks
\* for them, and inject_data, which counts how much of the image each run
\* takes).
CopiesToFreeSpace ==
  [][/\ phase = "idle" /\ phase' = "copy" => todo' \subseteq Unused(TocRead(disk), job'.slice)
     /\ phase = "copy" /\ phase' = "copy" =>
          /\ todo' \subseteq todo
          /\ \A c \in DOMAIN disk : disk'[c] # disk[c] => c \in todo]_vars

\* A command that returns success has written exactly the table it had in
\* memory, and the disk lists what was asked: the next command reads it back.
OkMeansDone ==
  [][phase # "idle" /\ phase' = "idle" /\ result' = "ok" =>
       /\ TocRead(disk').ok
       /\ \A i \in 0 .. 1 : Headers(TocRead(disk').slice[i]) = Headers(toc.slice[i])
       /\ Seen(disk') = Last(Stages(phase, job, toc, disk))]_vars

\* Until its data is complete, an install can be interrupted with nothing
\* changed: the disk lists what it listed before (the NOTE in inject_data).
InterruptibleCopy ==
  [][phase = "copy" /\ phase' = "copy" => Seen(disk') = Seen(disk)]_vars
=============================================================================
