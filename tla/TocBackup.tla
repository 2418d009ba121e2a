----------------------------- MODULE TocBackup ------------------------------
(***************************************************************************)
(* backup_toc and restore_toc beside the other commands of HddCommands.    *)
(* Of each chunk of 128 MB the backup has the two sectors where the header *)
(* of a partition would be and the two where a game has its title and its  *)
(* allocation table, as they come and without saying which is which; the   *)
(* restore writes them back in the same order.                             *)
(***************************************************************************)
EXTENDS HddGames

CONSTANTS BackupReadsFail,  \* whether a read of the backup may fail
          MaxBackups        \* bound on the backups of a behaviour

ASSUME BackupAssumption == BackupReadsFail \in BOOLEAN /\ MaxBackups \in Nat

VARIABLES
  mode,     \* "idle", "backup", "restore", or "restored" after a restore
  place,    \* of the next two sectors, counted over all chunks
  file,     \* the backup, two sectors after the other
  failed,   \* whether the last read of the backup failed
  taken,    \* the disk when the backup was begun
  backups   \* backups so far

tocVars == <<mode, place, file, failed, taken, backups>>
allVars == <<gamesVars, tocVars>>

BackupInit == /\ GamesInit
              /\ mode = "idle" /\ place = 0 /\ file = <<>> /\ failed = FALSE
              /\ taken = disk /\ backups = 0

-----------------------------------------------------------------------------
\* two sectors of a chunk, what they are taken for at each of the two places
TwoSectors(d, p) ==
  LET c == p \div 2
  IN CASE c \notin DOMAIN d -> [hdr |-> Junk, tab |-> Junk]
       [] c \in DOMAIN d /\ p % 2 = 0 -> [hdr |-> d[c].hdr, tab |-> Junk]
       [] c \in DOMAIN d /\ p % 2 = 1 -> [hdr |-> Junk, tab |-> d[c].tab]

\* the chunk that is not whole is read, too
Places == 2 * (Chunks + IF LastPart THEN 1 ELSE 0)

Games == <<phase, toc, job, todo, stages>>

StartBackup ==
  /\ mode = "idle" /\ phase = "idle" /\ backups < MaxBackups
  /\ mode' = "backup" /\ place' = 0 /\ file' = <<>> /\ failed' = FALSE
  /\ taken' = disk /\ backups' = backups + 1
  /\ UNCHANGED gamesVars

\* the place after the one that was read; a read that fails or is short writes
\* nothing, and after a failed first one of a chunk the second is left out, too
Read(outcome) ==
  /\ mode = "backup" /\ place < Places
  /\ file' = IF outcome = "ok" THEN Append(file, TwoSectors(disk, place)) ELSE file
  /\ place' = IF outcome = "err" THEN place + 2 - (place % 2) ELSE place + 1
  /\ failed' = (outcome = "err")
  /\ UNCHANGED <<gamesVars, mode, taken, backups>>

BackupRead == Read("ok")

\* the backup goes on after it; behind the last whole chunk the disk may be
\* too short for it
BackupReadFails == /\ BackupReadsFail \/ place = 2 * Chunks + 1
                   /\ \E outcome \in {"short", "err"} : Read(outcome)

\* the result is that of the last read
EndBackup ==
  /\ mode = "backup" /\ place = Places
  /\ mode' = "idle" /\ result' = IF failed THEN "err" ELSE "ok"
  /\ UNCHANGED <<disk, seen, Games, place, file, failed, taken, backups>>

StartRestore ==
  /\ mode \in {"idle", "restored"} /\ phase = "idle" /\ file # <<>>
  /\ mode' = "restore" /\ place' = 0
  /\ UNCHANGED <<gamesVars, file, failed, taken, backups>>

\* (mutated form of Restored: the title and the allocation table of a chunk are
\* not written)
RestoredHeaders(d, p, s) ==
  LET c == p \div 2
  IN IF c \in DOMAIN d /\ p % 2 = 0 THEN [d EXCEPT ![c].hdr = s.hdr] ELSE d

\* the disk with two sectors of the backup written to a place
Restored(d, p, s) ==
  LET c == p \div 2
  IN CASE c \notin DOMAIN d -> d
       [] c \in DOMAIN d /\ p % 2 = 0 -> [d EXCEPT ![c].hdr = s.hdr]
       [] c \in DOMAIN d /\ p % 2 = 1 -> [d EXCEPT ![c].tab = s.tab]

RestoreWrite ==
  /\ mode = "restore" /\ place < Len(file)
  /\ disk' = Restored(disk, place, file[place + 1])
  /\ place' = place + 1
  /\ seen' = Seen(disk')
  /\ UNCHANGED <<phase, toc, job, todo, result, stages, mode, file, failed, taken, backups>>

\* a write fails, or the command is stopped
RestoreStops ==
  /\ mode = "restore" /\ mode' = "restored" /\ result' = "err"
  /\ UNCHANGED <<disk, seen, Games, place, file, failed, taken, backups>>

EndRestore ==
  /\ mode = "restore" /\ place = Len(file)
  /\ mode' = "restored" /\ result' = "ok"
  /\ UNCHANGED <<disk, seen, Games, place, file, failed, taken, backups>>

\* one command at a time; after a restore only another one is run
OtherCommand == mode = "idle" /\ GamesNext /\ UNCHANGED tocVars

BackupNext == \/ OtherCommand
              \/ StartBackup \/ BackupRead \/ BackupReadFails \/ EndBackup
              \/ StartRestore \/ RestoreWrite \/ RestoreStops \/ EndRestore

BackupSpec == BackupInit /\ [][BackupNext]_allVars

-----------------------------------------------------------------------------
\* A restore that returns success brings the table and the games' titles and
\* allocation tables back as the backup found them, whatever was installed,
\* renamed or half-written since then, and whichever restores were stopped.
RestoreRight ==
  [][mode = "restore" /\ mode' # "restore" /\ result' = "ok" =>
       \A c \in DOMAIN disk : /\ disk'[c].hdr = taken[c].hdr
                              /\ disk'[c].tab = taken[c].tab]_allVars

\* Until a restore is begun, which takes the list back to an older one, the
\* commands keep the promise of GameList, a backup in between or not.
KeepsGamesUntil ==
  List!Init /\ [][List!Next \/ mode = "restore"]_<<seen, stages>>
=============================================================================
