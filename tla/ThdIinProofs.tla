---------------------------- MODULE ThdIinProofs ----------------------------
(***************************************************************************)
(* Safety of the threaded decorator for a source of any length and reads   *)
(* of any size.  The argument: the two semaphores and the critical         *)
(* sections of the two threads share one token (OneToken) until thd_close  *)
(* sets done; from then on the worker's last post is the only one that     *)
(* can let the client go on (Closing).                                     *)
(***************************************************************************)
EXTENDS ThdIin, TLAPS

Count(b) == IF b THEN 1 ELSE 0

\* While open there is exactly one token, and no thread is on its way out.
OneToken ==
  ~done => /\ masterLock + workerLock + Count(ClientHas) + Count(WorkerHas) = 1
           /\ cpc \notin {"wake", "join", "freed"}
           /\ wpc \notin {"notify", "exit"}

\* Once done is set the worker reads no more, and the master semaphore is
\* posted by its last step and by nothing else.
Closing ==
  done => /\ cpc \in {"wake", "join", "freed"}
          /\ wpc \in {"wait", "test", "loop", "notify", "exit"}
          /\ masterLock = IF wpc = "exit" /\ cpc # "freed" THEN 1 ELSE 0
          /\ cpc = "wake" => workerLock = 0 /\ wpc # "test"
          /\ cpc = "join" => \/ workerLock = 1 /\ wpc # "test"
                             \/ workerLock = 0 /\ wpc # "wait"
          /\ cpc = "freed" => wpc = "exit" /\ workerLock <= 1

\* The buffer the client holds is not the one a pending job goes to.
HeldApart ==
  /\ held # None => cpc \in {"deliver", "idle"}
  /\ held # None /\ (workerLock > 0 \/ WorkerHas) => job.dest # held
  /\ wpc \in {"read", "copy", "tag"} => dest = job.dest
  /\ cpc = "deliver" => held = activeBuf

IInv == TypeOK /\ OneToken /\ Closing /\ HeldApart

\* What the invariant says of the properties the runs check.
LEMMA Consequences == IInv => /\ MutualExclusion
                              /\ SemaphoresBinary
                              /\ NoUseAfterFree
BY DEF IInv, TypeOK, OneToken, Closing, Count, ClientHas, WorkerHas,
       MutualExclusion, SemaphoresBinary, NoUseAfterFree

\* thd_create starts with the token in the master semaphore.
LEMMA InitIInv == Init => IInv
<1> SUFFICES ASSUME Init PROVE IInv
  OBVIOUS
<1>1. buf \in [0 .. 1 -> Buffers]
  <2> DEFINE empty == [start |-> 0, num |-> 0, result |-> "ok", bytes |-> 0,
                       data |-> [start |-> 0, len |-> 0]]
  <2>1. [start |-> 0, len |-> 0] \in Spans
    BY DEF Spans
  <2>2. empty \in Buffers
    BY <2>1 DEF Buffers
  <2>3. buf = [b \in 0 .. 1 |-> empty]
    BY DEF Init
  <2> QED BY <2>2, <2>3
<1>2. TypeOK
  <2>1. done \in BOOLEAN
    BY DEF Init
  <2>2. job \in [start : Nat, num : Nat, dest : 0 .. 1]
    BY DEF Init
  <2>3. req \in [start : Nat, num : Nat]
    BY DEF Init
  <2>4. /\ masterLock \in Nat /\ workerLock \in Nat
        /\ activeBuf \in 0 .. 1 /\ held \in 0 .. None /\ dest \in 0 .. 1
        /\ cpc = "idle" /\ ret = "none" /\ wpc = "wait"
    BY DEF Init, None
  <2> QED BY <1>1, <2>1, <2>2, <2>3, <2>4 DEF TypeOK
<1>3. OneToken
  BY DEF Init, OneToken, Count, ClientHas, WorkerHas
<1>4. Closing
  BY DEF Init, Closing
<1>5. HeldApart
  BY DEF Init, HeldApart, WorkerHas
<1> QED BY <1>2, <1>3, <1>4, <1>5 DEF IInv

\* The steps of thd_read keep the invariant.
LEMMA ReadKeeps ==
  ASSUME IInv,
         (\E r \in Requests : CallRead(r)) \/ WaitMaster \/ Hit \/ Miss
           \/ Prefetch \/ NoPrefetch
  PROVE  IInv'
<1> USE SectorAssumption DEF IInv, TypeOK, OneToken, Closing, HeldApart, Count,
        ClientHas, WorkerHas, Buffers, Spans, None, locks, client, worker
<1>1. CASE \E r \in Requests : CallRead(r)
  BY <1>1 DEF CallRead, Requests
<1>2. CASE WaitMaster
  BY <1>2 DEF WaitMaster
<1>3. CASE Hit
  BY <1>3 DEF Hit
<1>4. CASE Miss
  BY <1>4 DEF Miss
<1>5. CASE Prefetch
  BY <1>5 DEF Prefetch
<1>6. CASE NoPrefetch
  BY <1>6 DEF NoPrefetch
<1> QED BY <1>1, <1>2, <1>3, <1>4, <1>5, <1>6

\* The steps of thd_close keep the invariant.
LEMMA CloseKeeps ==
  ASSUME IInv, CallClose \/ Quiesce \/ SetDone \/ WakeWorker \/ Join
  PROVE  IInv'
<1> USE DEF IInv, TypeOK, OneToken, Closing, HeldApart, Count,
        ClientHas, WorkerHas, None, locks, client, worker
<1>1. CASE CallClose
  BY <1>1 DEF CallClose
<1>2. CASE Quiesce
  BY <1>2 DEF Quiesce
<1>3. CASE SetDone
  BY <1>3 DEF SetDone
<1>4. CASE WakeWorker
  BY <1>4 DEF WakeWorker
<1>5. CASE Join
  BY <1>5 DEF Join
<1> QED BY <1>1, <1>2, <1>3, <1>4, <1>5

\* The steps of thd_loop keep the invariant.
LEMMA WorkerKeeps ==
  ASSUME IInv, WorkerRuns
  PROVE  IInv'
<1> USE SectorAssumption DEF IInv, TypeOK, OneToken, Closing, HeldApart, Count,
        ClientHas, WorkerHas, Buffers, Spans, None, locks, client, worker
<1>1. CASE WaitWorker
  BY <1>1 DEF WaitWorker
<1>2. CASE TestDone
  BY <1>2 DEF TestDone
<1>3. CASE SourceRead
  <2>1. Readable(job) \in Nat
    BY DEF Readable
  <2> QED BY <1>3, <2>1 DEF SourceRead
<1>4. CASE CopyData
  BY <1>4 DEF CopyData
<1>5. CASE TagBuffer
  BY <1>5 DEF TagBuffer
<1>6. CASE PostMaster
  BY <1>6 DEF PostMaster
<1>7. CASE LoopTest
  BY <1>7 DEF LoopTest
<1>8. CASE NotifyMaster
  BY <1>8 DEF NotifyMaster
<1> QED BY <1>1, <1>2, <1>3, <1>4, <1>5, <1>6, <1>7, <1>8 DEF WorkerRuns

LEMMA NextKeeps == IInv /\ [Next]_vars => IInv'
<1> SUFFICES ASSUME IInv, [Next]_vars PROVE IInv'
  OBVIOUS
<1>1. CASE UNCHANGED vars
  BY <1>1 DEF vars, IInv, TypeOK, OneToken, Closing, HeldApart, Count,
              ClientHas, WorkerHas
<1>2. CASE Next
  BY <1>1, <1>2, ReadKeeps, CloseKeeps, WorkerKeeps
     DEF Next, ClientCalls, ClientRuns, Terminated
<1> QED BY <1>1, <1>2

THEOREM Invariance == Spec => []IInv
BY InitIInv, NextKeeps, PTL DEF Spec

\* Types of the decorator's state.
THEOREM TypeCorrect == Spec => []TypeOK
<1>1. IInv => TypeOK
  BY DEF IInv
<1> QED BY <1>1, Invariance, PTL

\* The job record, the buffers and done are never accessed by both threads,
\* neither semaphore overflows the win32 maximum, and nothing is freed under
\* the worker: for every source and every read size.
THEOREM Safe == Spec => [](MutualExclusion /\ SemaphoresBinary /\ NoUseAfterFree)
BY Invariance, Consequences, PTL

\* A semaphore is never posted twice, so that no post is lost.
THEOREM Binary == Spec => []SemaphoresBinary
BY Safe, PTL

\* When thd_close frees the decorator, the worker has made its last access.
THEOREM FreedLast == Spec => []NoUseAfterFree
BY Safe, PTL

\* No step changes the buffer that is held.
LEMMA HeldStep ==
  ASSUME IInv, Next, held # None
  PROVE  buf'[held] = buf[held]
<1>1. held \in 0 .. 1
  BY DEF IInv, TypeOK, None
<1>2. CASE ClientCalls \/ ClientRuns \/ Terminated
  BY <1>2 DEF ClientCalls, ClientRuns, Terminated, vars, CallRead, CallClose,
     WaitMaster, Hit, Miss, Prefetch, NoPrefetch, Quiesce, SetDone,
     WakeWorker, Join
<1>3. CASE WorkerRuns
  <2>1. wpc \in {"read", "copy", "tag"} => dest # held
    BY DEF IInv, HeldApart, WorkerHas
  <2>2. buf \in [0 .. 1 -> Buffers] /\ dest \in 0 .. 1
    BY DEF IInv, TypeOK
  <2> QED
    BY <1>1, <1>3, <2>1, <2>2
       DEF WorkerRuns, WaitWorker, TestDone, SourceRead, CopyData,
           TagBuffer, PostMaster, LoopTest, NotifyMaster
<1> QED BY <1>2, <1>3 DEF Next

\* The buffer thd_read returned is stable until the next call.
THEOREM HeldStable == Spec => HeldDataStable
<1>1. IInv /\ [Next]_vars
      => [held # None /\ held' = held => buf'[held] = buf[held]]_vars
  BY HeldStep DEF vars
<1> QED BY <1>1, Invariance, PTL DEF Spec, HeldDataStable

\* The buffer the last job went to is the active one, and when the job is done
\* it is tagged with what the job asked for.
JobTagged ==
  /\ job.dest = activeBuf
  /\ ~done /\ (wpc = "post" \/ (workerLock = 0 /\ ~WorkerHas)) =>
       buf[job.dest].start = job.start /\ buf[job.dest].num = job.num

LEMMA InitJobTagged == Init => JobTagged
BY DEF Init, JobTagged

LEMMA ClientKeepsTag ==
  ASSUME IInv, JobTagged, ClientCalls \/ ClientRuns
  PROVE  JobTagged'
<1> USE DEF IInv, TypeOK, OneToken, Closing, Count, ClientHas, WorkerHas, JobTagged
<1>1. buf' = buf /\ wpc' = wpc
  BY DEF ClientCalls, ClientRuns, CallRead, CallClose, WaitMaster, Hit, Miss,
         Prefetch, NoPrefetch, Quiesce, SetDone, WakeWorker, Join, worker
<1>2. CASE ClientCalls \/ WaitMaster \/ Hit \/ NoPrefetch
  BY <1>1, <1>2 DEF ClientCalls, CallRead, CallClose, WaitMaster, Hit, NoPrefetch, locks
<1>3. CASE Miss
  BY <1>1, <1>3 DEF Miss
<1>4. CASE Prefetch
  BY <1>1, <1>4 DEF Prefetch
<1>5. CASE Quiesce \/ SetDone \/ WakeWorker \/ Join
  BY <1>1, <1>5 DEF Quiesce, SetDone, WakeWorker, Join, locks
<1> QED BY <1>2, <1>3, <1>4, <1>5 DEF ClientRuns

LEMMA WorkerKeepsTag ==
  ASSUME IInv, JobTagged, WorkerRuns
  PROVE  JobTagged'
<1> USE DEF IInv, TypeOK, OneToken, Closing, HeldApart, Count, ClientHas, WorkerHas,
            JobTagged, locks, client
<1>1. CASE WaitWorker \/ TestDone \/ SourceRead \/ CopyData
  BY <1>1 DEF WaitWorker, TestDone, SourceRead, CopyData
<1>2. CASE TagBuffer
  <2>1. dest = job.dest /\ dest \in 0 .. 1 /\ UNCHANGED <<job, activeBuf>>
    BY <1>2 DEF TagBuffer
  <2>2. buf'[dest].start = job.start /\ buf'[dest].num = job.num
    BY <1>2, <2>1 DEF TagBuffer, Buffers
  <2> QED BY <2>1, <2>2
<1>3. CASE PostMaster \/ LoopTest \/ NotifyMaster
  BY <1>3 DEF PostMaster, LoopTest, NotifyMaster
<1> QED BY <1>1, <1>2, <1>3 DEF WorkerRuns

\* The worker is never sent for the sectors it fetched last: these are in the
\* active buffer, the result of a failed read included.
THEOREM NoJobRepeated == Spec => NoRepeatedJob
<1>1. IInv /\ JobTagged /\ [Next]_vars => JobTagged'
  <2> SUFFICES ASSUME IInv, JobTagged, [Next]_vars PROVE JobTagged'
    OBVIOUS
  <2>1. CASE UNCHANGED vars
    BY <2>1 DEF vars, JobTagged, WorkerHas, locks, client, worker
  <2>2. CASE Terminated
    BY <2>1, <2>2 DEF Terminated
  <2> QED BY <2>1, <2>2, ClientKeepsTag, WorkerKeepsTag DEF Next
<1>2. IInv /\ JobTagged /\ [Next]_vars =>
        [cpc = "check" /\ cpc' = "wait"
           => <<req.start, req.num>> # <<job.start, job.num>>]_vars
  <2> SUFFICES ASSUME IInv, JobTagged, Next, cpc = "check", cpc' = "wait"
               PROVE  <<req.start, req.num>> # <<job.start, job.num>>
    OBVIOUS
  <2>1. Miss
    BY DEF Next, ClientCalls, ClientRuns, WorkerRuns, Terminated, CallRead, CallClose,
           WaitMaster, Hit, Prefetch, NoPrefetch, Quiesce, SetDone, WakeWorker, Join,
           WaitWorker, TestDone, SourceRead, CopyData, TagBuffer, PostMaster, LoopTest,
           NotifyMaster, client, vars
  <2>2. buf[activeBuf].start = job.start /\ buf[activeBuf].num = job.num
    BY DEF IInv, TypeOK, OneToken, Closing, Count, ClientHas, WorkerHas, JobTagged
  <2> QED BY <2>1, <2>2 DEF Miss, Available
<1> QED BY <1>1, <1>2, InitJobTagged, Invariance, PTL DEF Spec, NoRepeatedJob

-----------------------------------------------------------------------------
(* The decorator implements the synchronous reader.  What a buffer holds   *)
(* is what its tags say it holds, except while the worker rewrites it.     *)

Good(b) ==
  b.result = "ok" => /\ b.bytes = Readable(b)
                     /\ b.data = [start |-> b.start, len |-> b.bytes]

BuffersGood ==
  \A b \in 0 .. 1 : Good(buf[b]) \/ (wpc \in {"copy", "tag"} /\ dest = b)

WorkInProgress ==
  /\ wpc \in {"copy", "tag"} /\ buf[dest].result = "ok"
       => buf[dest].bytes = Readable(job)
  /\ wpc = "tag" /\ buf[dest].result = "ok"
       => buf[dest].data = [start |-> job.start, len |-> buf[dest].bytes]

HeldIsAnswer ==
  /\ cpc \in {"wait", "check", "deliver"} => req \in Requests
  /\ cpc \in {"wait", "check"} => held = None
  /\ held # None => /\ req \in Requests
                    /\ buf[held].start = req.start /\ buf[held].num = req.num
                    /\ ret = buf[held].result

DataInv == BuffersGood /\ WorkInProgress /\ HeldIsAnswer

LEMMA InitDataInv == Init => DataInv
<1> SUFFICES ASSUME Init PROVE DataInv
  OBVIOUS
<1>1. \A b \in 0 .. 1 : /\ buf[b].start = 0 /\ buf[b].num = 0
                         /\ buf[b].bytes = 0
                         /\ buf[b].data = [start |-> 0, len |-> 0]
  BY DEF Init
<1>2. BuffersGood
  BY <1>1, SectorAssumption DEF BuffersGood, Good, Readable
<1>3. wpc = "wait" /\ cpc = "idle" /\ held = None
  BY DEF Init
<1> QED BY <1>2, <1>3 DEF DataInv, WorkInProgress, HeldIsAnswer

\* The client touches neither buffers nor a job in progress.
LEMMA ClientKeepsData ==
  ASSUME IInv, DataInv, ClientCalls \/ ClientRuns
  PROVE  DataInv'
<1>1. buf' = buf /\ wpc' = wpc /\ dest' = dest
  BY DEF ClientCalls, ClientRuns, CallRead, CallClose, WaitMaster, Hit, Miss,
         Prefetch, NoPrefetch, Quiesce, SetDone, WakeWorker, Join, worker
<1>2. wpc \in {"copy", "tag"} => job' = job
  <2>1. wpc \in {"copy", "tag"} => cpc \notin {"check", "deliver"}
    BY Consequences DEF MutualExclusion, ClientHas, WorkerHas
  <2> QED
    BY <2>1
       DEF ClientCalls, ClientRuns, CallRead, CallClose, WaitMaster, Hit, Miss,
           Prefetch, NoPrefetch, Quiesce, SetDone, WakeWorker, Join
<1>3. BuffersGood'
  BY <1>1 DEF DataInv, BuffersGood, Good, Readable
<1>4. WorkInProgress'
  BY <1>1, <1>2 DEF DataInv, WorkInProgress
<1>5. HeldIsAnswer'
  <2> USE <1>1 DEF DataInv, HeldIsAnswer
  <2>1. CASE \E r \in Requests : CallRead(r)
    BY <2>1 DEF CallRead
  <2>2. CASE Hit
    BY <2>2 DEF Hit, Available, IInv, TypeOK, None
  <2>3. CASE CallClose \/ Prefetch \/ NoPrefetch
    BY <2>3 DEF CallClose, Prefetch, NoPrefetch
  <2>4. CASE WaitMaster \/ Miss
    BY <2>4 DEF WaitMaster, Miss
  <2>5. CASE Quiesce \/ SetDone \/ WakeWorker \/ Join
    BY <2>5 DEF Quiesce, SetDone, WakeWorker, Join
  <2> QED BY <2>1, <2>2, <2>3, <2>4, <2>5 DEF ClientCalls, ClientRuns
<1> QED BY <1>3, <1>4, <1>5 DEF DataInv

\* The worker leaves the tags of a buffer right when it is through with it.
LEMMA WorkerKeepsData ==
  ASSUME IInv, DataInv, WorkerRuns
  PROVE  DataInv'
<1>1. UNCHANGED <<job, cpc, req, ret, held>>
  BY DEF WorkerRuns, WaitWorker, TestDone, SourceRead, CopyData, TagBuffer,
         PostMaster, LoopTest, NotifyMaster, client
<1>2. buf \in [0 .. 1 -> Buffers] /\ dest \in 0 .. 1
  BY DEF IInv, TypeOK
<1>3. HeldIsAnswer'
  <2>1. held # None => buf'[held] = buf[held]
    <3>1. wpc \in {"read", "copy", "tag"} /\ held # None => dest # held
      BY DEF IInv, HeldApart, WorkerHas
    <3>2. held \in 0 .. 1 \/ held = None
      BY DEF IInv, TypeOK, None
    <3> QED
      BY <1>2, <3>1, <3>2
         DEF WorkerRuns, WaitWorker, TestDone, SourceRead, CopyData,
             TagBuffer, PostMaster, LoopTest, NotifyMaster
  <2> QED BY <1>1, <2>1 DEF DataInv, HeldIsAnswer
<1>4. CASE SourceRead
  <2>1. /\ wpc = "read" /\ wpc' = "copy" /\ dest' = dest
        /\ \A b \in 0 .. 1 : b # dest => buf'[b] = buf[b]
        /\ buf'[dest].result = "ok" => buf'[dest].bytes = Readable(job)
    BY <1>2, <1>4 DEF SourceRead, Buffers
  <2>2. BuffersGood'
    BY <1>2, <2>1 DEF DataInv, BuffersGood, Good, Readable
  <2>3. WorkInProgress'
    BY <1>1, <2>1 DEF WorkInProgress, Readable
  <2> QED BY <1>3, <2>2, <2>3 DEF DataInv
<1>5. CASE CopyData
  <2>1. /\ wpc = "copy" /\ wpc' = "tag" /\ dest' = dest
        /\ \A b \in 0 .. 1 : b # dest => buf'[b] = buf[b]
        /\ buf'[dest].result = buf[dest].result
        /\ buf'[dest].bytes = buf[dest].bytes
        /\ buf'[dest].result = "ok" =>
              buf'[dest].data = [start |-> job.start, len |-> buf'[dest].bytes]
    BY <1>2, <1>5 DEF CopyData, Buffers
  <2>2. BuffersGood'
    BY <1>2, <2>1 DEF DataInv, BuffersGood, Good, Readable
  <2>3. WorkInProgress'
    BY <1>1, <2>1 DEF DataInv, WorkInProgress, Readable
  <2> QED BY <1>3, <2>2, <2>3 DEF DataInv
<1>6. CASE TagBuffer
  <2>1. /\ wpc = "tag" /\ wpc' = "post" /\ dest' = dest
        /\ \A b \in 0 .. 1 : b # dest => buf'[b] = buf[b]
        /\ buf'[dest].result = buf[dest].result
        /\ buf'[dest].bytes = buf[dest].bytes
        /\ buf'[dest].data = buf[dest].data
        /\ buf'[dest].start = job.start /\ buf'[dest].num = job.num
    BY <1>2, <1>6 DEF TagBuffer, Buffers
  <2>2. Good(buf'[dest])
    BY <2>1 DEF DataInv, WorkInProgress, Good, Readable
  <2>3. BuffersGood'
    BY <1>2, <2>1, <2>2 DEF DataInv, BuffersGood, Good, Readable
  <2>4. WorkInProgress'
    BY <2>1 DEF WorkInProgress
  <2> QED BY <1>3, <2>3, <2>4 DEF DataInv
<1>7. CASE WaitWorker \/ TestDone \/ PostMaster \/ LoopTest \/ NotifyMaster
  <2>1. /\ buf' = buf
        /\ wpc \notin {"copy", "tag"} /\ wpc' \notin {"copy", "tag"}
    BY <1>7 DEF WaitWorker, TestDone, PostMaster, LoopTest, NotifyMaster
  <2> QED BY <1>3, <2>1 DEF DataInv, BuffersGood, WorkInProgress, Good, Readable
<1> QED BY <1>4, <1>5, <1>6, <1>7 DEF WorkerRuns

LEMMA NextKeepsData == IInv /\ DataInv /\ [Next]_vars => DataInv'
<1> SUFFICES ASSUME IInv, DataInv, [Next]_vars PROVE DataInv'
  OBVIOUS
<1>1. CASE UNCHANGED vars
  BY <1>1 DEF vars, DataInv, BuffersGood, WorkInProgress, HeldIsAnswer, Good,
              Readable
<1>2. CASE Next
  BY <1>1, <1>2, ClientKeepsData, WorkerKeepsData DEF Next, Terminated
<1> QED BY <1>1, <1>2

ShowsAnswer ==
  held # None => /\ ret = "ok" => View = Reader!Success(req)
                 /\ ret # "ok" => View = Reader!Failure

\* What a held buffer shows the client is what the reader promises.
LEMMA HeldView == IInv /\ DataInv => ShowsAnswer
<1> SUFFICES ASSUME IInv, DataInv, held # None
             PROVE  /\ ret = "ok" => View = Reader!Success(req)
                    /\ ret # "ok" => View = Reader!Failure
  BY DEF ShowsAnswer
<1>1. held \in 0 .. 1 /\ buf[held] \in Buffers
  BY DEF IInv, TypeOK, None
<1>2. cpc \in {"deliver", "idle"} /\ req \in Requests /\ ret = buf[held].result
      /\ buf[held].start = req.start /\ buf[held].num = req.num
  BY DEF DataInv, HeldIsAnswer, IInv, HeldApart
<1>3. ~(wpc \in {"copy", "tag"} /\ dest = held)
  BY DEF IInv, HeldApart, WorkerHas
<1>4. Good(buf[held])
  BY <1>1, <1>3 DEF DataInv, BuffersGood
<1>5. CASE ret = "ok"
  <2>1. buf[held].data = [start |-> req.start, len |-> buf[held].bytes]
    BY <1>2, <1>4, <1>5 DEF Good
  <2>2. buf[held].bytes = Reader!Delivered(req)
    BY <1>2, <1>4, <1>5, SectorAssumption
       DEF Good, Readable, Reader!Delivered, Requests
  <2>3. View = [result |-> IF buf[held].bytes = buf[held].data.len
                           THEN "ok" ELSE "torn",
                start |-> buf[held].data.start, len |-> buf[held].bytes]
    BY <1>5 DEF View
  <2> QED BY <1>5, <2>1, <2>2, <2>3 DEF Reader!Success
<1>6. CASE ret # "ok"
  <2>1. ret = "err"
    BY <1>1, <1>2, <1>6 DEF Buffers
  <2> QED BY <1>6, <2>1 DEF View, Reader!Failure
<1> QED BY <1>5, <1>6

\* The same of the state a step leads to.
LEMMA HeldViewNext == IInv' /\ DataInv' => ShowsAnswer'
BY HeldView, PTL

\* While a buffer is held nothing the client sees of it changes.
LEMMA ViewStable ==
  ASSUME IInv, Next, held' = held, ret' = ret
  PROVE  View' = View
<1>1. CASE held = None
  BY <1>1 DEF View, None
<1>2. CASE held # None
  <2>1. buf'[held] = buf[held]
    BY <1>2, HeldStep
  <2> QED BY <1>2, <2>1 DEF View, None
<1> QED BY <1>1, <1>2

\* Every step of the two threads is a step of the reader, or none at all.
LEMMA StepRefines ==
  ASSUME IInv, DataInv, DataInv', IInv', Next
  PROVE  [Reader!Next]_(Reader!vars)
<1> USE DEF Reader!Next, Reader!vars
<1>1. CASE \E r \in Requests : CallRead(r)
  <2>1. Phase = "idle" /\ Phase' = "reading" /\ View' = Reader!Nothing
        /\ req' \in Reader!Requests
    BY <1>1 DEF CallRead, Phase, View, Reader!Nothing, None, Requests,
                Reader!Requests
  <2> QED BY <2>1 DEF Reader!Call
<1>2. CASE Hit
  <2>1. held' # None /\ req' = req
    BY <1>2 DEF Hit, IInv, TypeOK, None
  <2>2. View' \in {Reader!Success(req), Reader!Failure}
    <3>1. /\ ret' = "ok" => View' = Reader!Success(req)'
          /\ ret' # "ok" => View' = Reader!Failure'
      BY <2>1, HeldViewNext DEF ShowsAnswer, None
    <3>2. Reader!Success(req)' = Reader!Success(req)
          /\ Reader!Failure' = Reader!Failure
      BY <2>1 DEF Reader!Success, Reader!Delivered, Reader!Failure
    <3> QED BY <3>1, <3>2
  <2>3. Phase = "reading" /\ Phase' = "idle"
    BY <1>2 DEF Hit, Phase
  <2> QED BY <2>1, <2>2, <2>3 DEF Reader!Return
<1>3. CASE CallClose
  <2>1. Phase = "idle" /\ Phase' = "closing" /\ View' = Reader!Nothing
        /\ req' = req
    BY <1>3 DEF CallClose, Phase, View, Reader!Nothing, None
  <2> QED BY <2>1 DEF Reader!CallClose
<1>4. CASE Join
  <2>1. Phase = "closing" /\ Phase' = "closed" /\ req' = req
    BY <1>4 DEF Join, Phase
  <2>2. View' = View
    BY <1>4, ViewStable DEF Join
  <2> QED BY <2>1, <2>2 DEF Reader!Close
<1>5. CASE WaitMaster \/ Miss \/ Prefetch \/ NoPrefetch \/ Quiesce
           \/ SetDone \/ WakeWorker \/ WorkerRuns \/ Terminated
  <2>1. held' = held /\ ret' = ret /\ req' = req
    BY <1>5 DEF WaitMaster, Miss, Prefetch, NoPrefetch, Quiesce, SetDone,
       WakeWorker, WorkerRuns, WaitWorker, TestDone, SourceRead, CopyData,
       TagBuffer, PostMaster, LoopTest, NotifyMaster, Terminated, vars, client
  <2>2. Phase' = Phase
    BY <1>5 DEF WaitMaster, Miss, Prefetch, NoPrefetch, Quiesce, SetDone,
       WakeWorker, WorkerRuns, WaitWorker, TestDone, SourceRead, CopyData,
       TagBuffer, PostMaster, LoopTest, NotifyMaster, Terminated, vars, client,
       Phase
  <2>3. View' = View
    BY <2>1, ViewStable
  <2> QED BY <2>1, <2>2, <2>3
<1> QED BY <1>1, <1>2, <1>3, <1>4, <1>5 DEF Next, ClientCalls, ClientRuns

\* For every source and every read size the decorator, prefetching thread and
\* all, takes only steps a synchronous reader of the source could take: what
\* thd_read returns is the span that was asked for, or an error.
THEOREM Refinement == Spec => Reader!Init /\ [][Reader!Next]_(Reader!vars)
<1>1. Init => Reader!Init
  BY DEF Init, Reader!Init, Reader!Nothing, Phase, View, None
<1>2. IInv /\ DataInv /\ [Next]_vars => IInv' /\ DataInv'
  BY NextKeeps, NextKeepsData
<1>3. IInv /\ DataInv /\ (IInv /\ DataInv)' /\ [Next]_vars
      => [Reader!Next]_(Reader!vars)
  <2>1. ASSUME UNCHANGED vars PROVE UNCHANGED Reader!vars
    BY <2>1 DEF vars, Reader!vars, Phase, View
  <2> QED BY <2>1, StepRefines
<1> QED BY <1>1, <1>2, <1>3, InitIInv, InitDataInv, PTL DEF Spec
=============================================================================
