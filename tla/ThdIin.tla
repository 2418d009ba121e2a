------------------------------- MODULE ThdIin -------------------------------
(***************************************************************************)
(* The threaded decorator of an input, thd_iin.c: a worker thread reads    *)
(* the sectors that follow the ones the client just got, so that the       *)
(* client copies one buffer to the hard disk while the other is filled.    *)
(* Two POSIX semaphores hand the job record and the buffers back and       *)
(* forth.  Client and worker are interleaved at every access to the state  *)
(* they share.  A buffer's bytes are modelled by the span of the source    *)
(* they came from.                                                         *)
(***************************************************************************)
EXTENDS Integers

CONSTANTS TotalSectors,  \* total_sectors, from the stat() of the source
          NumSectors     \* IIN_NUM_SECTORS

ASSUME SectorAssumption == /\ TotalSectors \in Nat \ {0}
                           /\ NumSectors \in Nat \ {0}

VARIABLES
  masterLock, workerLock, \* the counts of the two semaphores
  job,                    \* start_sector, num_sectors and dest of the job
  buf,                    \* the two buffers
  activeBuf,              \* active_buf % 2
  done,                   \* asks the worker to end
  cpc, req, ret, held,    \* client: where it is, its read, what thd_read
                          \* returned, the buffer the data pointer names
  wpc, dest               \* worker: where it is, its local dest

locks  == <<masterLock, workerLock>>
client == <<cpc, req, ret, held>>
worker == <<wpc, dest>>
vars == <<masterLock, workerLock, job, buf, activeBuf, done,
          cpc, req, ret, held, wpc, dest>>

None == 2   \* no buffer is held

Requests == [start : 0 .. TotalSectors - 1, num : 1 .. NumSectors]
Spans    == [start : Nat, len : Nat]
Buffers  == [start : Nat, num : Nat, result : {"ok", "err"}, bytes : Nat,
             data : Spans]

\* mutated form of Init: both semaphores created unlocked
InitBothUnlocked ==
  /\ masterLock = 1 /\ workerLock = 1
  /\ job = [start |-> 0, num |-> 0, dest |-> 0]
  /\ buf = [b \in 0 .. 1 |->
              [start |-> 0, num |-> 0, result |-> "ok", bytes |-> 0,
               data |-> [start |-> 0, len |-> 0]]]
  /\ activeBuf = 0 /\ done = FALSE
  /\ cpc = "idle" /\ req = [start |-> 0, num |-> 0]
  /\ ret = "none" /\ held = None /\ wpc = "wait" /\ dest = 0

\* thd_create clears the decorator; the client's thread may run first
Init ==
  /\ masterLock = 1 /\ workerLock = 0
  /\ job = [start |-> 0, num |-> 0, dest |-> 0]
  /\ buf = [b \in 0 .. 1 |->
              [start |-> 0, num |-> 0, result |-> "ok", bytes |-> 0,
               data |-> [start |-> 0, len |-> 0]]]
  /\ activeBuf = 0
  /\ done = FALSE
  /\ cpc = "idle" /\ req = [start |-> 0, num |-> 0]
  /\ ret = "none" /\ held = None
  /\ wpc = "wait" /\ dest = 0

-----------------------------------------------------------------------------
(* The client, in thd_read.                                                *)

\* The client may ask for any span within the source; the data pointer of
\* its previous read is no longer its to use.
CallRead(r) ==
  /\ cpc = "idle"
  /\ cpc' = "wait" /\ req' = r /\ ret' = "none" /\ held' = None
  /\ UNCHANGED <<locks, job, buf, activeBuf, done, worker>>

\* mutated form of WaitMaster: the read does not wait for the worker
WaitMasterNoWait ==
  /\ cpc = "wait"
  /\ masterLock' = masterLock - 1
  /\ cpc' = "check"
  /\ UNCHANGED <<workerLock, job, buf, activeBuf, done, req, ret, held, worker>>

WaitMaster ==
  /\ cpc = "wait" /\ masterLock > 0
  /\ masterLock' = masterLock - 1
  /\ cpc' = "check"
  /\ UNCHANGED <<workerLock, job, buf, activeBuf, done, req, ret, held, worker>>

Available == /\ req.start = buf[activeBuf].start
             /\ req.num = buf[activeBuf].num

\* the sectors are in the active buffer, error or not: deliver them
Hit ==
  /\ cpc = "check" /\ Available
  /\ held' = activeBuf
  /\ ret' = buf[activeBuf].result
  /\ cpc' = "deliver"
  /\ UNCHANGED <<locks, job, buf, activeBuf, done, req, worker>>

\* they are not: have the worker read them into the active buffer
Miss ==
  /\ cpc = "check" /\ ~Available
  /\ job' = [start |-> req.start, num |-> req.num, dest |-> activeBuf]
  /\ workerLock' = workerLock + 1
  /\ cpc' = "wait"
  /\ UNCHANGED <<masterLock, buf, activeBuf, done, req, ret, held, worker>>

WantsMore == /\ ret = "ok"
             /\ req.num = NumSectors
             /\ req.start + req.num < TotalSectors

\* mutated form of Prefetch: active_buf is not advanced
PrefetchSameBuffer ==
  /\ cpc = "deliver" /\ WantsMore
  /\ job' = [start |-> req.start + req.num, num |-> NumSectors,
             dest |-> activeBuf]
  /\ workerLock' = workerLock + 1
  /\ cpc' = "idle"
  /\ UNCHANGED <<masterLock, buf, activeBuf, done, req, ret, held, worker>>

\* mutated form of Prefetch: the master is unlocked after a prefetch, too
PrefetchUnlocks ==
  /\ cpc = "deliver" /\ WantsMore
  /\ activeBuf' = 1 - activeBuf
  /\ job' = [start |-> req.start + req.num, num |-> NumSectors,
             dest |-> 1 - activeBuf]
  /\ workerLock' = workerLock + 1 /\ masterLock' = masterLock + 1
  /\ cpc' = "idle"
  /\ UNCHANGED <<buf, done, req, ret, held, worker>>

\* full-size reads in the middle of the source: fetch the next sectors into
\* the other buffer while the client uses this one
Prefetch ==
  /\ cpc = "deliver" /\ WantsMore
  /\ activeBuf' = 1 - activeBuf
  /\ job' = [start |-> req.start + req.num, num |-> NumSectors,
             dest |-> 1 - activeBuf]
  /\ workerLock' = workerLock + 1
  /\ cpc' = "idle"
  /\ UNCHANGED <<masterLock, buf, done, req, ret, held, worker>>

\* mutated form of NoPrefetch: the master stays locked
NoPrefetchLocked ==
  /\ cpc = "deliver" /\ ~WantsMore
  /\ cpc' = "idle"
  /\ UNCHANGED <<locks, job, buf, activeBuf, done, req, ret, held, worker>>

NoPrefetch ==
  /\ cpc = "deliver" /\ ~WantsMore
  /\ masterLock' = masterLock + 1
  /\ cpc' = "idle"
  /\ UNCHANGED <<workerLock, job, buf, activeBuf, done, req, ret, held, worker>>

-----------------------------------------------------------------------------
(* The client, in thd_close.                                               *)

CallClose ==
  /\ cpc = "idle"
  /\ cpc' = "quiesce" /\ ret' = "none" /\ held' = None
  /\ UNCHANGED <<locks, job, buf, activeBuf, done, req, worker>>

\* wait for the worker to finish, ask it to end, ...
Quiesce ==
  /\ cpc = "quiesce" /\ masterLock > 0
  /\ masterLock' = masterLock - 1
  /\ cpc' = "setdone"
  /\ UNCHANGED <<workerLock, job, buf, activeBuf, done, req, ret, held, worker>>

SetDone ==
  /\ cpc = "setdone"
  /\ done' = TRUE
  /\ cpc' = "wake"
  /\ UNCHANGED <<locks, job, buf, activeBuf, req, ret, held, worker>>

\* ... wake it, ...
WakeWorker ==
  /\ cpc = "wake"
  /\ workerLock' = workerLock + 1
  /\ cpc' = "join"
  /\ UNCHANGED <<masterLock, job, buf, activeBuf, done, req, ret, held, worker>>

\* mutated form of Join: the decorator is freed without waiting
JoinNoWait ==
  /\ cpc = "join"
  /\ cpc' = "freed"
  /\ UNCHANGED <<locks, job, buf, activeBuf, done, req, ret, held, worker>>

\* ... wait for its last signal, then destroy the semaphores and free both
Join ==
  /\ cpc = "join" /\ masterLock > 0
  /\ masterLock' = masterLock - 1
  /\ cpc' = "freed"
  /\ UNCHANGED <<workerLock, job, buf, activeBuf, done, req, ret, held, worker>>

-----------------------------------------------------------------------------
(* The worker, in thd_loop.                                                *)

WaitWorker ==
  /\ wpc = "wait" /\ workerLock > 0
  /\ workerLock' = workerLock - 1
  /\ wpc' = "test"
  /\ UNCHANGED <<masterLock, job, buf, activeBuf, done, client, dest>>

TestDone ==
  /\ wpc = "test"
  /\ IF done THEN wpc' = "loop" /\ dest' = dest
             ELSE wpc' = "read" /\ dest' = job.dest
  /\ UNCHANGED <<locks, job, buf, activeBuf, done, client>>

\* sectors the source has for the job
Readable(j) == IF j.start + j.num <= TotalSectors THEN j.num
               ELSE IF j.start < TotalSectors THEN TotalSectors - j.start
               ELSE 0

\* the source may fail at any time
SourceRead ==
  /\ wpc = "read"
  /\ \/ buf' = [buf EXCEPT ![dest].result = "ok", ![dest].bytes = Readable(job)]
     \/ buf' = [buf EXCEPT ![dest].result = "err"]
  /\ wpc' = "copy"
  /\ UNCHANGED <<locks, job, activeBuf, done, client, dest>>

CopyData ==
  /\ wpc = "copy"
  /\ buf' = IF buf[dest].result = "ok"
            THEN [buf EXCEPT ![dest].data =
                    [start |-> job.start, len |-> buf[dest].bytes]]
            ELSE buf
  /\ wpc' = "tag"
  /\ UNCHANGED <<locks, job, activeBuf, done, client, dest>>

\* mutated form of TagBuffer: a failed read leaves the old tags
TagOnSuccess ==
  /\ wpc = "tag"
  /\ buf' = IF buf[dest].result = "ok"
            THEN [buf EXCEPT ![dest].start = job.start, ![dest].num = job.num]
            ELSE buf
  /\ wpc' = "post"
  /\ UNCHANGED <<locks, job, activeBuf, done, client, dest>>

TagBuffer ==
  /\ wpc = "tag"
  /\ buf' = [buf EXCEPT ![dest].start = job.start, ![dest].num = job.num]
  /\ wpc' = "post"
  /\ UNCHANGED <<locks, job, activeBuf, done, client, dest>>

PostMaster ==
  /\ wpc = "post"
  /\ masterLock' = masterLock + 1
  /\ wpc' = "loop"
  /\ UNCHANGED <<workerLock, job, buf, activeBuf, done, client, dest>>

LoopTest ==
  /\ wpc = "loop"
  /\ wpc' = IF done THEN "notify" ELSE "wait"
  /\ UNCHANGED <<locks, job, buf, activeBuf, done, client, dest>>

\* mutated form of NotifyMaster: the worker ends without a last signal
NotifyNobody ==
  /\ wpc = "notify"
  /\ wpc' = "exit"
  /\ UNCHANGED <<locks, job, buf, activeBuf, done, client, dest>>

NotifyMaster ==
  /\ wpc = "notify"
  /\ masterLock' = masterLock + 1
  /\ wpc' = "exit"
  /\ UNCHANGED <<workerLock, job, buf, activeBuf, done, client, dest>>

-----------------------------------------------------------------------------
ClientCalls == (\E r \in Requests : CallRead(r)) \/ CallClose
ClientRuns  == WaitMaster \/ Hit \/ Miss \/ Prefetch \/ NoPrefetch
               \/ Quiesce \/ SetDone \/ WakeWorker \/ Join
WorkerRuns  == WaitWorker \/ TestDone \/ SourceRead \/ CopyData \/ TagBuffer
               \/ PostMaster \/ LoopTest \/ NotifyMaster

\* both threads have ended
Terminated == cpc = "freed" /\ wpc = "exit" /\ UNCHANGED vars

Next == ClientCalls \/ ClientRuns \/ WorkerRuns \/ Terminated

Spec == Init /\ [][Next]_vars

\* The scheduler runs both threads and the source answers; nobody is obliged
\* to call read or close again.
FairSpec == Spec /\ WF_vars(ClientRuns) /\ WF_vars(WorkerRuns)

-----------------------------------------------------------------------------
TypeOK ==
  /\ masterLock \in Nat /\ workerLock \in Nat
  /\ job \in [start : Nat, num : Nat, dest : 0 .. 1]
  /\ buf \in [0 .. 1 -> Buffers]
  /\ activeBuf \in 0 .. 1
  /\ done \in BOOLEAN
  /\ cpc \in {"idle", "wait", "check", "deliver",
              "quiesce", "setdone", "wake", "join", "freed"}
  /\ req \in [start : Nat, num : Nat]
  /\ ret \in {"none", "ok", "err"}
  /\ held \in 0 .. None
  /\ wpc \in {"wait", "test", "read", "copy", "tag", "post", "loop",
              "notify", "exit"}
  /\ dest \in 0 .. 1

ClientHas == cpc \in {"check", "deliver", "setdone"}
WorkerHas == wpc \in {"test", "read", "copy", "tag", "post"}

\* Between a successful wait and the next post of one thread, the other
\* thread is not between a wait and a post of its own: the job and the
\* buffers are never accessed by both at once (no mutex guards them).
MutualExclusion == ~(ClientHas /\ WorkerHas)

\* Neither semaphore ever counts past 1: win32 creates them with a maximum
\* of 1 (sema.h), where one post more would fail and its wake-up be lost.
SemaphoresBinary == masterLock <= 1 /\ workerLock <= 1

\* thd_close destroys the semaphores and frees the decorator only when the
\* worker has made its last access to it.
NoUseAfterFree == cpc = "freed" => wpc = "exit"

\* From the return of thd_read to the next call the bytes behind the data
\* pointer do not change, whatever the worker prefetches meanwhile: the
\* client writes them to the hard disk with no lock held (iin_copy_ex).
HeldDataStable == [][held # None /\ held' = held => buf'[held] = buf[held]]_vars

\* A read never sends the worker for the sectors it fetched last: what was
\* prefetched is what the next sequential read finds, errors included.
NoRepeatedJob ==
  [][cpc = "check" /\ cpc' = "wait"
       => <<req.start, req.num>> # <<job.start, job.num>>]_vars

\* Every thd_read returns and every thd_close ends, with the worker gone.
ReadReturns == cpc = "wait" ~> cpc = "idle"
CloseEnds   == cpc = "quiesce" ~> (cpc = "freed" /\ wpc = "exit")

-----------------------------------------------------------------------------
(* The decorator is a reader like the source it decorates.                 *)

View ==
  LET b == buf[held] IN
  CASE held = None -> [result |-> "none", start |-> 0, len |-> 0]
    [] held # None /\ ret = "err" -> [result |-> "err", start |-> 0, len |-> 0]
    [] OTHER -> [result |-> IF b.bytes = b.data.len THEN "ok" ELSE "torn",
                 start |-> b.data.start, len |-> b.bytes]

Phase == CASE cpc \in {"idle", "deliver"} -> "idle"
           [] cpc \in {"wait", "check"}   -> "reading"
           [] cpc = "freed"               -> "closed"
           [] OTHER                       -> "closing"

Reader == INSTANCE IinReader WITH phase <- Phase, view <- View

\* Every behaviour of client, worker and semaphores is one of a synchronous
\* reader of the source, calls answered in the end.
ImplementsReader == Reader!Spec
=============================================================================
