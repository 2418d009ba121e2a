------------------------------- MODULE UdpNet -------------------------------
(***************************************************************************)
(* A network disk: the client side of hio_udpnet2.c, a network that loses  *)
(* packets, and the server of Svr.  The client cuts a request into pieces  *)
(* and a piece into chunks of two sectors, keeps a few chunks outstanding, *)
(* and sends a chunk again when nothing is answered in time; a write ends  *)
(* with a sync of the server's buffer.  The client may be aborted between  *)
(* any two steps and started again, while the server stays.                *)
(***************************************************************************)
EXTENDS Svr

CONSTANTS Requests,    \* <<first sector, number of sectors>> that are asked for
          MaxOps,      \* bound on the operations of a behaviour
          PieceSize,   \* sectors in a piece (32)
          Window,      \* NET_READ_ and NET_WRITE_OUTSTANDING_CHUNKS (4)
          Retry,       \* NET_RETRY_COUNT (100)
          MaxTrouble,  \* bound on packets lost and on answers that come late
          Endless,     \* whether the network may go on like that for ever
          Restarts     \* whether the client may be aborted

ASSUME UdpAssumption ==
  /\ \A r \in Requests : r[1] \in Nat /\ r[2] \in Nat \ {0} /\ r[1] + r[2] <= Sectors
  /\ MaxOps \in Nat /\ PieceSize \in Nat \ {0} /\ PieceSize % 2 = 0
  /\ Window \in Nat \ {0} /\ Retry \in Nat \ {0} /\ MaxTrouble \in Nat
  /\ Endless \in BOOLEAN /\ Restarts \in BOOLEAN

VARIABLES
  svr,          \* the state of the server
  toServer,     \* packets on their way, in the order they were sent
  toClient,
  phase,        \* of the client: "idle", "piece" or "query"
  op,           \* the request in progress
  chunk,        \* the chunks of the piece in progress
  next,         \* next_chunk, counted from 0
  remaining,    \* chunks_remaining
  outstanding,  \* chunks_outstanding
  count,        \* of the iterations since the last answer
  sent,         \* the query of this iteration is sent
  seqNo,        \* seq_no
  last,         \* how the last operation ended
  ops,          \* operations so far
  trouble,      \* packets lost and answers late so far
  may           \* versions a sector may have for who reads it

server  == <<svr, toServer, toClient>>
piece   == <<chunk, next, remaining, outstanding>>
vars == <<svr, toServer, toClient, phase, op, chunk, next, remaining, outstanding,
          count, sent, seqNo, last, ops, trouble, may>>

NoOp == [kind |-> "none"]
NoResult == [kind |-> "none", status |-> "none"]

Init ==
  /\ svr = SvrInit /\ toServer = <<>> /\ toClient = <<>>
  /\ phase = "idle" /\ op = NoOp
  /\ chunk = <<>> /\ next = 0 /\ remaining = 0 /\ outstanding = 0
  /\ count = 0 /\ sent = FALSE /\ seqNo = 0
  /\ last = NoResult /\ ops = 0 /\ trouble = 0
  /\ may = [s \in 0 .. Sectors - 1 |-> {0}]

-----------------------------------------------------------------------------
(* The network: packets are lost, sent twice when the client retries, and   *)
(* otherwise delivered in order.                                           *)

\* something is lost or late
Trouble == \/ trouble < MaxTrouble /\ trouble' = trouble + 1
           \/ Endless /\ UNCHANGED trouble

Send(q, packet) ==
  \/ q' = Append(q, packet) /\ UNCHANGED trouble
  \/ Trouble /\ UNCHANGED q

\* The client waits 100 ms for an answer.  In vain it does so when nothing is
\* on its way, and otherwise only when the answer is late.
NothingArrives ==
  /\ toClient = <<>>
  /\ \/ toServer = <<>> /\ UNCHANGED trouble
     \/ toServer # <<>> /\ Trouble

ServerStep ==
  /\ toServer # <<>>
  /\ \E a \in SvrRequest(svr, Head(toServer)) :
       /\ svr' = a.svr
       /\ Send(toClient, [Head(toServer) EXCEPT !.result = a.result, !.data = a.data])
  /\ toServer' = Tail(toServer)
  /\ UNCHANGED <<phase, op, piece, count, sent, seqNo, last, ops, may>>

-----------------------------------------------------------------------------
(* How an operation goes from piece to piece.                              *)

\* the chunks of the piece of n sectors from start on
Chunks(start, n) ==
  [k \in 1 .. (n + 1) \div 2 |->
     [start |-> start + 2 * (k - 1), count |-> IF n >= 2 * k THEN 2 ELSE 1,
      seq |-> (seqNo + k) % 256, done |-> FALSE, data |-> <<Blank, Blank>>]]

BeginPiece(o, ck) ==
  /\ phase' = "piece" /\ op' = o /\ chunk' = ck
  /\ seqNo' = (seqNo + Len(ck)) % 256
  /\ next' = 0 /\ remaining' = Len(ck) /\ outstanding' = 0 /\ count' = 0

Lesser(a, b) == IF a < b THEN a ELSE b

\* net_read and net_write: up to PieceSize sectors at a time
Begin(kind, start, n) ==
  BeginPiece([kind |-> kind, first |-> start, sectors |-> n,
              start |-> start, left |-> n, version |-> ops + 1, got |-> <<>>],
             Chunks(start, Lesser(n, PieceSize)))

StartRead ==
  /\ phase = "idle" /\ ops < MaxOps /\ ops' = ops + 1
  /\ \E r \in Requests : Begin("read", r[1], r[2])
  /\ last' = NoResult
  /\ UNCHANGED <<server, sent, trouble, may>>

StartWrite ==
  /\ phase = "idle" /\ ops < MaxOps /\ ops' = ops + 1
  /\ \E r \in Requests :
       /\ Begin("write", r[1], r[2])
       /\ may' = [s \in DOMAIN may |->
                    IF s \in r[1] .. r[1] + r[2] - 1 THEN may[s] \cup {ops + 1} ELSE may[s]]
  /\ last' = NoResult
  /\ UNCHANGED <<server, sent, trouble>>

\* the operation returns; a write that succeeded leaves but its own version
Return(status, got) ==
  /\ phase' = "idle" /\ op' = NoOp /\ chunk' = <<>>
  /\ next' = 0 /\ remaining' = 0 /\ outstanding' = 0 /\ count' = 0 /\ sent' = FALSE
  /\ last' = [kind |-> op.kind, status |-> status, first |-> op.first,
              sectors |-> op.sectors, version |-> op.version, got |-> got]
  /\ may' = [s \in DOMAIN may |->
               IF op.kind = "write" /\ status = "ok"
                  /\ s \in op.first .. op.first + op.sectors - 1
               THEN {op.version} ELSE may[s]]

EndOp(status) == Return(status, <<>>)

\* the data of a piece of n sectors: each chunk has its two sectors' place
Data(ck, n) == [i \in 1 .. n |-> ck[(i + 1) \div 2].data[2 - (i % 2)]]

\* (mutated form of BeginQuery: no flush after a request)
BeginQueryNot == EndOp("ok") /\ UNCHANGED seqNo

\* net_flush: a sync, under a sequence number of its own
BeginQuery ==
  /\ phase' = "query" /\ chunk' = <<>> /\ next' = 0 /\ remaining' = 0 /\ outstanding' = 0
  /\ count' = 0 /\ sent' = FALSE /\ seqNo' = (seqNo + 1) % 256
  /\ UNCHANGED <<op, last, may>>

\* after a piece, all of it done or not: only net_read_32k looks
PieceEnds(ck, undone) ==
  LET n   == Lesser(op.left, PieceSize)
      rest == [op EXCEPT !.start = @ + n, !.left = @ - n,
                 !.got = IF op.kind = "read" THEN @ \o Data(ck, n) ELSE @]
  IN IF op.kind = "read" /\ undone > 0 THEN EndOp("timeout") /\ UNCHANGED seqNo
     ELSE IF rest.left > 0
     THEN /\ BeginPiece(rest, Chunks(rest.start, Lesser(rest.left, PieceSize)))
          /\ UNCHANGED <<sent, last, may>>
     ELSE IF op.kind = "read" THEN Return("ok", rest.got) /\ UNCHANGED seqNo
     ELSE BeginQuery

\* (mutated form of NextIteration: the iterations are not counted)
NextIterationUncounted(c, ck, undone, out) ==
  IF undone > 0
  THEN /\ count' = c /\ chunk' = ck /\ remaining' = undone /\ outstanding' = out
       /\ UNCHANGED <<phase, op, next, sent, seqNo, last, may>>
  ELSE PieceEnds(ck, undone)

\* the loop condition: with c iterations since the last answer
NextIteration(c, ck, undone, out) ==
  IF c + 1 < Retry /\ undone > 0
  THEN /\ count' = c + 1 /\ chunk' = ck /\ remaining' = undone /\ outstanding' = out
       /\ UNCHANGED <<phase, op, next, sent, seqNo, last, may>>
  ELSE PieceEnds(ck, undone)

-----------------------------------------------------------------------------
(* net_read_32k and net_write_32k.                                         *)

\* (mutated form of MaySend: one request too many)
MaySendOneMore == outstanding <= Window /\ outstanding < remaining

MaySend == outstanding < Window /\ outstanding < remaining

SendChunk ==
  /\ phase = "piece" /\ MaySend
  /\ LET n == Len(chunk)
         At(i) == (next + i) % n
     IN \E i \in 0 .. n - 1 :
          /\ ~chunk[At(i) + 1].done /\ \A j \in 0 .. i - 1 : chunk[At(j) + 1].done
          /\ next' = (next + i + 1) % n
          /\ LET ck == chunk[At(i) + 1]
             IN Send(toServer, [cmd |-> op.kind, seq |-> ck.seq, start |-> ck.start,
                                count |-> ck.count, result |-> 0,
                                data |-> IF op.kind = "write" THEN op.version ELSE 0])
  /\ outstanding' = outstanding + 1
  /\ UNCHANGED <<svr, toClient, phase, op, chunk, remaining, count, sent, seqNo,
                 last, ops, may>>

\* the chunk a packet answers; only an answer to a read has data, and an
\* answer to a read without data is not looked at
Matches(packet) ==
  {k \in DOMAIN chunk :
     /\ packet.cmd = op.kind /\ packet.seq = chunk[k].seq
     /\ packet.start = chunk[k].start /\ packet.count = chunk[k].count
     /\ op.kind = "read" => packet.result = Ok}

\* (mutated form of ReceivePiece: counters are decreased twice)
ReceivePieceTwice ==
  /\ phase = "piece" /\ ~MaySend /\ toClient # <<>>
  /\ LET packet == Head(toClient) IN
     IF Matches(packet) = {} THEN NextIteration(count, chunk, remaining, outstanding)
     ELSE IF packet.result # Ok THEN EndOp("proto_err") /\ UNCHANGED seqNo
     ELSE LET k == CHOOSE k \in Matches(packet) : TRUE
          IN NextIteration(0, [chunk EXCEPT ![k].done = TRUE, ![k].data = packet.data],
                           remaining - 1, outstanding - 1)
  /\ toClient' = Tail(toClient)
  /\ UNCHANGED <<svr, toServer, ops, trouble>>

ReceivePiece ==
  /\ phase = "piece" /\ ~MaySend /\ toClient # <<>>
  /\ LET packet == Head(toClient) IN
     IF Matches(packet) = {} THEN NextIteration(count, chunk, remaining, outstanding)
     ELSE IF packet.result # Ok THEN EndOp("proto_err") /\ UNCHANGED seqNo
     ELSE LET k == CHOOSE k \in Matches(packet) : TRUE
          IN IF chunk[k].done THEN NextIteration(0, chunk, remaining, outstanding)
             ELSE NextIteration(0, [chunk EXCEPT ![k].done = TRUE, ![k].data = packet.data],
                                remaining - 1, outstanding - 1)
  /\ toClient' = Tail(toClient)
  /\ UNCHANGED <<svr, toServer, ops, trouble>>

\* (mutated form of TimeoutPiece: the chunk stays outstanding)
TimeoutPieceKeeps ==
  /\ phase = "piece" /\ ~MaySend /\ NothingArrives
  /\ NextIteration(count, chunk, remaining, outstanding)
  /\ UNCHANGED <<server, ops>>

TimeoutPiece ==
  /\ phase = "piece" /\ ~MaySend /\ NothingArrives
  /\ NextIteration(count, chunk, remaining, outstanding - 1)
  /\ UNCHANGED <<server, ops>>

-----------------------------------------------------------------------------
(* query_result, for net_flush.                                            *)

SendQuery ==
  /\ phase = "query" /\ ~sent /\ sent' = TRUE
  /\ Send(toServer, [cmd |-> "sync", seq |-> seqNo, start |-> 0, count |-> 0,
                     result |-> 0, data |-> 0])
  /\ UNCHANGED <<svr, toClient, phase, op, piece, count, seqNo, last, ops, may>>

QueryAgain ==
  IF count + 1 < Retry
  THEN /\ count' = count + 1 /\ sent' = FALSE
       /\ UNCHANGED <<phase, op, piece, last, may>>
  ELSE EndOp("timeout")

ReceiveQuery ==
  /\ phase = "query" /\ sent /\ toClient # <<>>
  /\ LET packet == Head(toClient) IN
     IF packet.cmd = "sync" /\ packet.seq = seqNo
     THEN EndOp(IF packet.result = Ok THEN "ok" ELSE "proto_err")
     ELSE QueryAgain
  /\ toClient' = Tail(toClient)
  /\ UNCHANGED <<svr, toServer, seqNo, ops, trouble>>

TimeoutQuery ==
  /\ phase = "query" /\ sent /\ NothingArrives
  /\ QueryAgain
  /\ UNCHANGED <<server, seqNo, ops>>

\* the command is stopped, and another one is run: it has a socket of its own,
\* so that what is on its way to the old one is lost
Restart ==
  /\ Restarts /\ phase # "idle"
  /\ EndOp("aborted")
  /\ toClient' = <<>> /\ seqNo' = 0
  /\ UNCHANGED <<svr, toServer, ops, trouble>>

ClientStep == \/ SendChunk \/ ReceivePiece \/ TimeoutPiece
              \/ SendQuery \/ ReceiveQuery \/ TimeoutQuery

Next == StartRead \/ StartWrite \/ ClientStep \/ ServerStep \/ Restart

Spec == Init /\ [][Next]_vars

\* the client runs its loop and the server answers what reaches it
FairSpec == Spec /\ WF_vars(ClientStep) /\ WF_vars(ServerStep)

-----------------------------------------------------------------------------
TypeOK ==
  /\ svr.disk \in [0 .. Sectors - 1 -> 0 .. MaxOps]
  /\ svr.wrDirty \subseteq 0 .. WrSize - 1 /\ svr.wrCount \in Nat
  /\ svr.wrSector \in 0 .. Sectors - 1 \cup {NoSector}
  /\ svr.rdSector \in 0 .. Sectors - 1 \cup {NoSector}
  /\ phase \in {"idle", "piece", "query"}
  /\ next \in Nat /\ count \in 0 .. Retry - 1 /\ seqNo \in 0 .. 255
  /\ remaining \in 0 .. Len(chunk) /\ outstanding \in 0 .. Window
  /\ ops \in 0 .. MaxOps /\ trouble \in 0 .. MaxTrouble

Undone(ck) == {k \in DOMAIN ck : ~ck[k].done}

\* chunks_outstanding and chunks_remaining are unsigned: neither is ever
\* decreased below zero, whatever answers come late or twice, and
\* chunks_remaining is what is still to be done.
CountersRight ==
  /\ outstanding \in 0 .. Window
  /\ remaining = Cardinality(Undone(chunk))

\* What the read buffer holds is what a read of the disk would return, with
\* what is in the write buffer (svr_read, "buffer contains any data").
ReadBufferFresh ==
  svr.rdSector % RdSize = 0 =>
    \A i \in {i \in 0 .. RdSize - 1 : svr.rdSector + i < Sectors} :
      LET s == svr.rdSector + i
          w == s - svr.wrSector
      IN svr.rdBuf[i] = IF w \in svr.wrDirty THEN svr.wrBuf[w] ELSE svr.disk[s]

\* A read that succeeds returns, for each sector, the version of the last
\* write that succeeded or one of the writes that failed since then.
ReadsFresh ==
  last.kind = "read" /\ last.status = "ok" =>
    /\ Len(last.got) = last.sectors
    /\ \A i \in 1 .. last.sectors : last.got[i] \in may[last.first + i - 1]

\* A write that succeeds is on the disk, not only in the buffer of the server
\* (net_write, "flush after each request").
OkMeansStored ==
  last.kind = "write" /\ last.status = "ok" =>
    \A s \in last.first .. last.first + last.sectors - 1 : svr.disk[s] = last.version

\* Packets lost and answers late, fewer in all than the retries, do not make
\* an operation fail.
RidesOutTrouble == last.status # "timeout"

\* What a sector holds, on the disk or in the write buffer, changes only by a
\* write to it: not by a sync that fails half-way, nor when the buffer moves.
ContentKept ==
  [][\A s \in DOMAIN svr.disk :
       \/ Content(svr')[s] = Content(svr)[s]
       \/ LET req == Head(toServer) IN
            /\ req.cmd = "write" /\ s \in req.start .. req.start + req.count - 1
            /\ Content(svr')[s] = req.data]_vars

\* Every operation ends, whatever the network does, even if from some time on
\* nothing ever comes through: net_read_32k, net_write_32k and query_result
\* count every iteration that answers nothing.
OperationsEnd == phase # "idle" ~> phase = "idle"
=============================================================================
