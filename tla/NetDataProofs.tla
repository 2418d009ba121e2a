--------------------------- MODULE NetDataProofs ----------------------------
(***************************************************************************)
(* The network disk, for requests, pieces and windows of any size and for  *)
(* every network that loses or delays packets.  First the bookkeeping of   *)
(* net_read_32k and net_write_32k: while a piece is in progress something  *)
(* remains to be done, so that the client, when it waits, has at least one *)
(* chunk outstanding to take off.  Then what becomes of the data, for      *)
(* every abort of the client and every failure of the disk: the lemmas of  *)
(* SvrProofs on a single request, and the invariant that a packet on its   *)
(* way to the server is a request of one or two sectors.  At last that no  *)
(* operation times out while the disk does not fail, the client is not     *)
(* aborted, and fewer packets are lost or late than the client has         *)
(* patience for: packets are lost but never overtake one another, so the   *)
(* answers that belong to nothing any more come first, and each of them    *)
(* was sent again because of a packet lost or late.                        *)
(***************************************************************************)
EXTENDS UdpNet, SvrProofs, FiniteSetTheorems, SequenceTheorems, TLAPS

\* chunk[] is a finite array of structures with a field done.
ChunksOK(ck) ==
  /\ IsFiniteSet(DOMAIN ck)
  /\ ck = [k \in DOMAIN ck |-> ck[k]]
  /\ \A k \in DOMAIN ck : /\ ck[k] = [x \in DOMAIN ck[k] |-> ck[k][x]]
                          /\ "done" \in DOMAIN ck[k]

IInv ==
  /\ phase \in {"idle", "piece", "query"}
  /\ outstanding \in 0 .. Window
  /\ remaining \in Nat
  /\ ChunksOK(chunk)
  /\ remaining = Cardinality(Undone(chunk))
  /\ phase = "piece" => remaining >= 1 /\ op.left \in Nat \ {0}
                        /\ "left" \in DOMAIN op /\ op = [x \in DOMAIN op |-> op[x]]

\* The chunks of a new piece are all still to be done, and there are some.
LEMMA NewChunks ==
  ASSUME NEW start, NEW n \in Nat \ {0}
  PROVE  /\ ChunksOK(Chunks(start, n))
         /\ Len(Chunks(start, n)) \in Nat /\ Len(Chunks(start, n)) >= 1
         /\ Cardinality(Undone(Chunks(start, n))) = Len(Chunks(start, n))
<1> DEFINE m == (n + 1) \div 2
           ck == Chunks(start, n)
           R == {ck[k] : k \in 1 .. m}
<1>1. m \in Nat /\ m >= 1
  OBVIOUS
<1>2. DOMAIN ck = 1 .. m /\ ck = [k \in 1 .. m |-> ck[k]]
  BY DEF Chunks
<1>3. \A k \in 1 .. m : /\ ck[k] = [x \in DOMAIN ck[k] |-> ck[k][x]]
                        /\ "done" \in DOMAIN ck[k] /\ ck[k].done = FALSE
  BY DEF Chunks
<1>4. ck \in [1 .. m -> R]
  BY <1>2
<1>5. ck \in Seq(R)
  BY <1>1, <1>4, SeqDef
<1>6. Len(ck) \in Nat /\ DOMAIN ck = 1 .. Len(ck)
  BY <1>5, LenProperties
<1>7. Len(ck) = m
  BY <1>1, <1>2, <1>6
<1>8. Undone(ck) = 1 .. m
  BY <1>2, <1>3 DEF Undone
<1>9. IsFiniteSet(1 .. m) /\ Cardinality(1 .. m) = m
  BY <1>1, FS_Interval
<1> QED BY <1>1, <1>2, <1>3, <1>7, <1>8, <1>9 DEF ChunksOK

\* A chunk that is done leaves one less to be done.
LEMMA OneLess ==
  ASSUME NEW ck, ChunksOK(ck), NEW k \in DOMAIN ck, ~ck[k].done, NEW data
  PROVE  LET new == [ck EXCEPT ![k].done = TRUE, ![k].data = data] IN
         /\ ChunksOK(new)
         /\ Cardinality(Undone(new)) = Cardinality(Undone(ck)) - 1
<1> DEFINE new == [ck EXCEPT ![k].done = TRUE, ![k].data = data]
<1>1. DOMAIN new = DOMAIN ck /\ new = [j \in DOMAIN new |-> new[j]]
  BY DEF ChunksOK
<1>2. new[k] = [[ck[k] EXCEPT !.done = TRUE] EXCEPT !.data = data]
  BY DEF ChunksOK
<1>3. /\ DOMAIN new[k] = DOMAIN ck[k] /\ new[k].done = TRUE
      /\ new[k] = [x \in DOMAIN new[k] |-> new[k][x]]
  BY <1>2 DEF ChunksOK
<1>4. \A j \in DOMAIN ck : j # k => new[j] = ck[j]
  BY DEF ChunksOK
<1>5. ChunksOK(new)
  BY <1>1, <1>3, <1>4 DEF ChunksOK
<1>6. Undone(new) = Undone(ck) \ {k}
  BY <1>1, <1>3, <1>4 DEF Undone
<1>7. IsFiniteSet(Undone(ck)) /\ k \in Undone(ck)
  BY FS_Subset DEF Undone, ChunksOK
<1>8. Cardinality(Undone(ck) \ {k}) = Cardinality(Undone(ck)) - 1
  BY <1>7, FS_RemoveElement
<1> QED BY <1>5, <1>6, <1>8

\* Nothing is to be done of no chunks.
LEMMA NoChunks == ChunksOK(<<>>) /\ Cardinality(Undone(<<>>)) = 0
<1>1. DOMAIN <<>> = {} /\ Undone(<<>>) = {}
  BY DEF Undone
<1> QED BY <1>1, FS_EmptySet DEF ChunksOK

LEMMA InitIInv == Init => IInv
BY NoChunks, UdpAssumption DEF Init, IInv

\* An operation that returns.
LEMMA ReturnIInv == ASSUME NEW status, NEW got, Return(status, got)
                    PROVE  IInv'
BY NoChunks, UdpAssumption DEF Return, IInv

\* A piece that begins.
LEMMA BeginIInv ==
  ASSUME NEW o, NEW start, NEW n \in Nat \ {0}, BeginPiece(o, Chunks(start, n)),
         o.left \in Nat \ {0}, "left" \in DOMAIN o, o = [x \in DOMAIN o |-> o[x]]
  PROVE  IInv'
<1>1. chunk' = Chunks(start, n) /\ remaining' = Len(Chunks(start, n))
  BY DEF BeginPiece
<1>2. ChunksOK(chunk') /\ remaining' \in Nat /\ remaining' >= 1
      /\ remaining' = Cardinality(Undone(chunk'))
  BY <1>1, NewChunks
<1> QED BY <1>2, UdpAssumption DEF BeginPiece, IInv

\* The end of an iteration, whatever it is with: the loop goes on or ends.
LEMMA IterationIInv ==
  ASSUME IInv, phase = "piece", NEW c, NEW ck, NEW undone, NEW out,
         undone \in Nat, out \in 0 .. Window, ChunksOK(ck),
         undone = Cardinality(Undone(ck)),
         NextIteration(c, ck, undone, out)
  PROVE  IInv'
<1> DEFINE n == Lesser(op.left, PieceSize)
           rest == [op EXCEPT !.start = @ + n, !.left = @ - n,
                      !.got = IF op.kind = "read" THEN @ \o Data(ck, n) ELSE @]
<1>1. CASE c + 1 < Retry /\ undone > 0
  BY <1>1 DEF NextIteration, IInv
<1>2. CASE ~(c + 1 < Retry /\ undone > 0)
  <2>1. PieceEnds(ck, undone)
    BY <1>2 DEF NextIteration
  <2>2. n \in Nat /\ n <= op.left /\ op.left \in Nat \ {0}
    BY UdpAssumption DEF IInv, Lesser
  <2>3. /\ "left" \in DOMAIN rest /\ rest = [x \in DOMAIN rest |-> rest[x]]
        /\ rest.left = op.left - n
    BY DEF IInv
  <2>4. CASE op.kind = "read" /\ undone > 0
    BY <2>1, <2>4, ReturnIInv DEF PieceEnds, EndOp
  <2>5. CASE ~(op.kind = "read" /\ undone > 0) /\ rest.left > 0
    <3>1. BeginPiece(rest, Chunks(rest.start, Lesser(rest.left, PieceSize)))
      BY <2>1, <2>5 DEF PieceEnds
    <3>2. rest.left \in Nat \ {0}
      BY <2>2, <2>3, <2>5
    <3>3. Lesser(rest.left, PieceSize) \in Nat \ {0}
      BY <3>2, UdpAssumption DEF Lesser
    <3> HIDE DEF rest
    <3> QED BY <3>1, <3>2, <3>3, <2>3, BeginIInv
  <2>6. CASE ~(op.kind = "read" /\ undone > 0) /\ ~(rest.left > 0) /\ op.kind = "read"
    BY <2>1, <2>6, ReturnIInv DEF PieceEnds
  <2>7. CASE ~(op.kind = "read" /\ undone > 0) /\ ~(rest.left > 0) /\ op.kind # "read"
    <3>1. BeginQuery
      BY <2>1, <2>7 DEF PieceEnds
    <3> QED BY <3>1, NoChunks, UdpAssumption DEF BeginQuery, IInv
  <2> QED BY <2>4, <2>5, <2>6, <2>7
<1> QED BY <1>1, <1>2

\* While the client waits, a chunk is outstanding.
LEMMA Waiting == IInv /\ phase = "piece" /\ ~MaySend => outstanding - 1 \in 0 .. Window
BY UdpAssumption DEF IInv, MaySend

\* Every step of client, server and network keeps the books.
LEMMA StepIInv == IInv /\ [Next]_vars => IInv'
<1> SUFFICES ASSUME IInv, [Next]_vars PROVE IInv'
  OBVIOUS
<1>1. CASE StartRead \/ StartWrite
  <2>1. PICK kind \in {"read", "write"}, r \in Requests : Begin(kind, r[1], r[2])
    BY <1>1 DEF StartRead, StartWrite
  <2>2. r[2] \in Nat \ {0} /\ Lesser(r[2], PieceSize) \in Nat \ {0}
    BY UdpAssumption DEF Lesser
  <2> DEFINE o == [kind |-> kind, first |-> r[1], sectors |-> r[2], start |-> r[1],
                   left |-> r[2], version |-> ops + 1, got |-> <<>>]
  <2>3. BeginPiece(o, Chunks(r[1], Lesser(r[2], PieceSize)))
    BY <2>1 DEF Begin
  <2>4. o.left \in Nat \ {0} /\ "left" \in DOMAIN o /\ o = [x \in DOMAIN o |-> o[x]]
    BY <2>2
  <2> HIDE DEF o
  <2> QED BY <2>2, <2>3, <2>4, BeginIInv
<1>2. CASE SendChunk
  <2>1. UNCHANGED <<phase, op, chunk, remaining>>
    BY <1>2 DEF SendChunk
  <2>2. outstanding < Window /\ outstanding' = outstanding + 1
    BY <1>2 DEF SendChunk, MaySend
  <2>3. outstanding' \in 0 .. Window
    BY <2>2, UdpAssumption DEF IInv
  <2> QED BY <2>1, <2>3 DEF IInv
<1>3. CASE ReceivePiece
  <2> DEFINE packet == Head(toClient)
             k == CHOOSE k \in Matches(packet) : TRUE
  <2>1. phase = "piece" /\ ~MaySend
    BY <1>3 DEF ReceivePiece
  <2>2. CASE Matches(packet) = {}
    <3>1. NextIteration(count, chunk, remaining, outstanding)
      BY <1>3, <2>2 DEF ReceivePiece
    <3> QED BY <3>1, <2>1, IterationIInv DEF IInv
  <2>3. CASE Matches(packet) # {} /\ packet.result # Ok
    BY <1>3, <2>3, ReturnIInv DEF ReceivePiece, EndOp
  <2>4. CASE Matches(packet) # {} /\ packet.result = Ok /\ chunk[k].done
    <3>1. NextIteration(0, chunk, remaining, outstanding)
      BY <1>3, <2>4 DEF ReceivePiece
    <3> QED BY <3>1, <2>1, IterationIInv DEF IInv
  <2>5. CASE Matches(packet) # {} /\ packet.result = Ok /\ ~chunk[k].done
    <3> DEFINE new == [chunk EXCEPT ![k].done = TRUE, ![k].data = packet.data]
    <3>1. NextIteration(0, new, remaining - 1, outstanding - 1)
      BY <1>3, <2>5 DEF ReceivePiece
    <3>2. k \in DOMAIN chunk
      BY <2>5 DEF Matches
    <3>3. ChunksOK(new) /\ Cardinality(Undone(new)) = Cardinality(Undone(chunk)) - 1
      BY <3>2, <2>5, OneLess DEF IInv
    <3>4. remaining - 1 \in Nat /\ remaining - 1 = Cardinality(Undone(new))
      BY <3>3, <2>1 DEF IInv
    <3>5. outstanding - 1 \in 0 .. Window
      BY <2>1, Waiting
    <3> HIDE DEF new
    <3> QED BY <3>1, <3>3, <3>4, <3>5, <2>1, IterationIInv
  <2> QED BY <2>2, <2>3, <2>4, <2>5
<1>4. CASE TimeoutPiece
  <2>1. /\ phase = "piece" /\ ~MaySend
        /\ NextIteration(count, chunk, remaining, outstanding - 1)
    BY <1>4 DEF TimeoutPiece
  <2>2. outstanding - 1 \in 0 .. Window
    BY <2>1, Waiting
  <2> QED BY <2>1, <2>2, IterationIInv DEF IInv
<1>5. CASE SendQuery
  BY <1>5 DEF SendQuery, piece, IInv
<1>6. CASE ReceiveQuery \/ TimeoutQuery
  <2>1. \/ \E status : EndOp(status)
        \/ phase = "query" /\ UNCHANGED <<phase, op, piece>>
    BY <1>6 DEF ReceiveQuery, TimeoutQuery, QueryAgain
  <2>2. CASE \E status : EndOp(status)
    BY <2>2, ReturnIInv DEF EndOp
  <2>3. CASE phase = "query" /\ UNCHANGED <<phase, op, piece>>
    BY <2>3 DEF piece, IInv
  <2> QED BY <2>1, <2>2, <2>3
<1>7. CASE ServerStep
  BY <1>7 DEF ServerStep, piece, IInv
<1>8. CASE Restart
  BY <1>8, ReturnIInv DEF Restart, EndOp
<1>9. CASE UNCHANGED vars
  BY <1>9 DEF vars, IInv
<1> QED BY <1>1, <1>2, <1>3, <1>4, <1>5, <1>6, <1>7, <1>8, <1>9 DEF Next, ClientStep

\* chunks_outstanding and chunks_remaining never wrap around, and the loop of
\* a piece ends with chunks_remaining = 0 only when every chunk was answered.
THEOREM CountersStayRight == Spec => []CountersRight
<1>1. IInv => CountersRight
  BY DEF IInv, CountersRight
<1> QED BY <1>1, InitIInv, StepIInv, PTL DEF Spec

-----------------------------------------------------------------------------
(* The data.                                                                 *)

Packets ==
  [cmd : {"read", "write"}, seq : Int, start : Nat, count : {1, 2}, result : {0}, data : Int]
  \cup
  [cmd : {"sync"}, seq : Int, start : {0}, count : {0}, result : {0}, data : {0}]

TypedChunks(ck) ==
  /\ Len(ck) \in Nat /\ DOMAIN ck = 1 .. Len(ck)
  /\ \A k \in DOMAIN ck :
       /\ {"start", "count", "seq"} \subseteq DOMAIN ck[k]
       /\ ck[k].start \in Nat /\ ck[k].count \in {1, 2} /\ ck[k].seq \in Int

TypedOp(o) ==
  /\ o = [x \in DOMAIN o |-> o[x]] /\ {"kind", "version", "start", "got"} \subseteq DOMAIN o
  /\ o.kind \in {"read", "write"} /\ o.version \in Int /\ o.start \in Nat

ServerOK == SvrOK(svr) /\ toServer \in Seq(Packets)

ClientOK ==
  /\ TypedChunks(chunk) /\ next \in Nat /\ seqNo \in Int
  /\ phase = "piece" => TypedOp(op)

NetInv == IInv /\ ServerOK /\ ClientOK /\ ops \in Nat

\* No sector changes but by a write to it.
OnlyWritten(v, w, req) ==
  \A s \in 0 .. Sectors - 1 :
    \/ Content(w)[s] = Content(v)[s]
    \/ /\ req.cmd = "write" /\ s \in req.start .. req.start + req.count - 1
       /\ Content(w)[s] = req.data

\* What serving a request does.
LEMMA RequestKeeps ==
  ASSUME NEW v, SvrOK(v), NEW req \in Packets, NEW a \in SvrRequest(v, req)
  PROVE  /\ SvrOK(a.svr) /\ OnlyWritten(v, a.svr, req)
         /\ ~AtaFails /\ Fresh(v) => Fresh(a.svr)
<1>1. CASE req.cmd = "read"
  <2>1. a \in SvrRead(v, req.start, req.count) /\ req.start \in Nat /\ req.count \in Nat
    BY <1>1 DEF SvrRequest, Packets
  <2>2. /\ SvrOK(a.svr) /\ Same(v, a.svr)
        /\ ~AtaFails /\ Fresh(v) => Fresh(a.svr)
    BY <2>1, ReadKeeps
  <2> QED BY <2>2 DEF Same, OnlyWritten
<1>2. CASE req.cmd = "write"
  <2>1. /\ a \in SvrWrite(v, req.start, req.count, req.data)
        /\ req.start \in Nat /\ req.count \in {1, 2} /\ req.data \in Int
    BY <1>2 DEF SvrRequest, Packets
  <2>2. /\ SvrOK(a.svr) /\ Wrote(v, a.svr, req.start, req.count, req.data)
        /\ Fresh(v) => Fresh(a.svr)
    BY <2>1, WriteKeeps
  <2> QED BY <1>2, <2>2 DEF Wrote, OnlyWritten
<1>3. CASE req.cmd = "sync"
  <2>1. a \in SyncBuffer(v)
    BY <1>3 DEF SvrRequest
  <2>2. SvrOK(a.svr) /\ Same(v, a.svr) /\ SameReadBuffer(v, a.svr)
    BY <2>1, SyncKeeps
  <2> QED BY <2>2, SameFresh DEF Same, OnlyWritten
<1> QED BY <1>1, <1>2, <1>3 DEF Packets

\* The chunks of a new piece.
LEMMA NewTyped ==
  ASSUME NEW start \in Nat, NEW n \in Nat \ {0}, seqNo \in Int
  PROVE  TypedChunks(Chunks(start, n))
<1> DEFINE m == (n + 1) \div 2
           ck == Chunks(start, n)
           R == {ck[k] : k \in 1 .. m}
<1>1. m \in Nat
  OBVIOUS
<1>2. DOMAIN ck = 1 .. m /\ ck = [k \in 1 .. m |-> ck[k]]
  BY DEF Chunks
<1>3. ck \in Seq(R)
  <2>1. ck \in [1 .. m -> R]
    BY <1>2
  <2> QED BY <1>1, <2>1, SeqDef
<1>4. Len(ck) \in Nat /\ DOMAIN ck = 1 .. Len(ck)
  BY <1>3, LenProperties
<1>5. ASSUME NEW k \in 1 .. m
      PROVE  /\ {"start", "count", "seq"} \subseteq DOMAIN ck[k]
             /\ ck[k].start \in Nat /\ ck[k].count \in {1, 2} /\ ck[k].seq \in Int
  <2>1. ck[k] = [start |-> start + 2 * (k - 1), count |-> IF n >= 2 * k THEN 2 ELSE 1,
                 seq |-> (seqNo + k) % 256, done |-> FALSE, data |-> <<Blank, Blank>>]
    BY DEF Chunks
  <2>2. start + 2 * (k - 1) \in Nat /\ (seqNo + k) % 256 \in Int
    OBVIOUS
  <2> HIDE DEF ck
  <2> QED BY <2>1, <2>2
<1> QED BY <1>2, <1>4, <1>5 DEF TypedChunks

\* A chunk that is done keeps its place.
LEMMA DoneTyped ==
  ASSUME NEW ck, ChunksOK(ck), TypedChunks(ck), NEW k \in DOMAIN ck, NEW data
  PROVE  TypedChunks([ck EXCEPT ![k].done = TRUE, ![k].data = data])
<1> DEFINE new == [ck EXCEPT ![k].done = TRUE, ![k].data = data]
           R == {new[j] : j \in DOMAIN ck}
<1>1. DOMAIN new = DOMAIN ck /\ new = [j \in DOMAIN ck |-> new[j]]
  BY DEF ChunksOK
<1>2. new \in Seq(R)
  <2> HIDE DEF new
  <2>1. new \in [1 .. Len(ck) -> R]
    BY <1>1 DEF TypedChunks
  <2> QED BY <2>1, SeqDef DEF TypedChunks
<1>3. Len(new) \in Nat /\ DOMAIN new = 1 .. Len(new)
  BY <1>2, LenProperties
<1>4. new[k] = [[ck[k] EXCEPT !.done = TRUE] EXCEPT !.data = data]
  BY DEF ChunksOK
<1>5. /\ {"start", "count", "seq"} \subseteq DOMAIN new[k]
      /\ new[k].start = ck[k].start /\ new[k].count = ck[k].count /\ new[k].seq = ck[k].seq
  <2>1. ck[k] = [x \in DOMAIN ck[k] |-> ck[k][x]]
    BY DEF ChunksOK
  <2>2. {"start", "count", "seq"} \subseteq DOMAIN ck[k]
    BY DEF TypedChunks
  <2> QED BY <1>4, <2>1, <2>2
<1>6. \A j \in DOMAIN ck : j # k => new[j] = ck[j]
  BY DEF ChunksOK
<1> HIDE DEF new
<1> QED BY <1>1, <1>3, <1>5, <1>6 DEF TypedChunks

LEMMA NoneTyped == TypedChunks(<<>>)
BY DEF TypedChunks

\* An operation that returns.
LEMMA ReturnTyped ==
  ASSUME NEW status, NEW got, Return(status, got), seqNo' \in Int
  PROVE  ClientOK'
BY NoneTyped DEF Return, ClientOK

\* A piece that begins.
LEMMA BeginTyped ==
  ASSUME NEW o, TypedOp(o), NEW start \in Nat, NEW n \in Nat \ {0}, seqNo \in Int,
         BeginPiece(o, Chunks(start, n))
  PROVE  ClientOK'
<1>1. chunk' = Chunks(start, n) /\ op' = o /\ next' = 0
      /\ seqNo' = (seqNo + Len(Chunks(start, n))) % 256
  BY DEF BeginPiece
<1>2. TypedChunks(chunk') /\ Len(Chunks(start, n)) \in Nat
  BY <1>1, NewTyped DEF TypedChunks
<1>3. seqNo' \in Int
  BY <1>1, <1>2
<1> QED BY <1>1, <1>2, <1>3 DEF ClientOK

\* The end of an iteration.
LEMMA IterationTyped ==
  ASSUME IInv, ClientOK, phase = "piece", NEW c, NEW ck, NEW undone \in Nat, NEW out,
         TypedChunks(ck), NextIteration(c, ck, undone, out)
  PROVE  ClientOK'
<1> DEFINE n == Lesser(op.left, PieceSize)
           rest == [op EXCEPT !.start = @ + n, !.left = @ - n,
                      !.got = IF op.kind = "read" THEN @ \o Data(ck, n) ELSE @]
<1>1. CASE c + 1 < Retry /\ undone > 0
  BY <1>1 DEF NextIteration, ClientOK
<1>2. CASE ~(c + 1 < Retry /\ undone > 0)
  <2>1. PieceEnds(ck, undone)
    BY <1>2 DEF NextIteration
  <2>2. n \in Nat /\ n <= op.left /\ op.left \in Nat \ {0}
    BY UdpAssumption DEF IInv, Lesser
  <2>3. TypedOp(op) /\ "left" \in DOMAIN op /\ seqNo \in Int
    BY DEF ClientOK, IInv
  <2>4. /\ rest = [x \in DOMAIN rest |-> rest[x]] /\ DOMAIN rest = DOMAIN op
        /\ rest.kind = op.kind /\ rest.version = op.version
        /\ rest.start = op.start + n /\ rest.left = op.left - n
    BY <2>3 DEF TypedOp
  <2>5. TypedOp(rest) /\ rest.start \in Nat /\ rest.left \in Int
    <3> HIDE DEF rest
    <3> QED BY <2>2, <2>3, <2>4 DEF TypedOp
  <2>6. CASE (\E status, got : Return(status, got)) /\ UNCHANGED seqNo
    BY <2>3, <2>6, ReturnTyped
  <2>7. CASE rest.left > 0 /\
             BeginPiece(rest, Chunks(rest.start, Lesser(rest.left, PieceSize)))
    <3>1. Lesser(rest.left, PieceSize) \in Nat \ {0}
      BY <2>5, <2>7, UdpAssumption DEF Lesser
    <3> HIDE DEF rest
    <3> QED BY <2>3, <2>5, <2>7, <3>1, BeginTyped
  <2>8. CASE BeginQuery
    BY <2>3, <2>8, NoneTyped DEF BeginQuery, ClientOK
  <2> QED BY <2>1, <2>6, <2>7, <2>8 DEF PieceEnds, EndOp
<1> QED BY <1>1, <1>2

\* A packet is sent or lost.
LEMMA SendTyped ==
  ASSUME toServer \in Seq(Packets), NEW p \in Packets, Send(toServer, p)
  PROVE  toServer' \in Seq(Packets)
<1>1. toServer' = Append(toServer, p) \/ toServer' = toServer
  BY DEF Send
<1> QED BY <1>1, AppendProperties

LEMMA InitNet == Init => NetInv
<1> SUFFICES ASSUME Init PROVE NetInv
  OBVIOUS
<1>1. IInv
  BY InitIInv
<1>2. ServerOK
  BY InitOK DEF Init, ServerOK
<1>3. ClientOK
  BY NoneTyped DEF Init, ClientOK
<1> QED BY <1>1, <1>2, <1>3 DEF Init, NetInv

\* The client takes its steps, and sends nothing but requests.
LEMMA ClientNet ==
  ASSUME NetInv, StartRead \/ StartWrite \/ ClientStep \/ Restart
  PROVE  svr' = svr /\ toServer' \in Seq(Packets) /\ ClientOK' /\ ops' \in Nat
<1>0. /\ toServer \in Seq(Packets) /\ IInv /\ ClientOK /\ seqNo \in Int /\ next \in Nat
      /\ TypedChunks(chunk) /\ ops \in Nat
  BY DEF NetInv, ServerOK, ClientOK
<1>1. CASE StartRead \/ StartWrite
  <2>1. PICK kind \in {"read", "write"}, r \in Requests : Begin(kind, r[1], r[2])
    BY <1>1 DEF StartRead, StartWrite
  <2>2. r[1] \in Nat /\ r[2] \in Nat \ {0} /\ Lesser(r[2], PieceSize) \in Nat \ {0}
    BY UdpAssumption DEF Lesser
  <2> DEFINE o == [kind |-> kind, first |-> r[1], sectors |-> r[2], start |-> r[1],
                   left |-> r[2], version |-> ops + 1, got |-> <<>>]
  <2>3. BeginPiece(o, Chunks(r[1], Lesser(r[2], PieceSize)))
    BY <2>1 DEF Begin
  <2>4. TypedOp(o)
    BY <1>0, <2>2 DEF TypedOp
  <2>5. ClientOK'
    <3> HIDE DEF o
    <3> QED BY <1>0, <2>2, <2>3, <2>4, BeginTyped
  <2> QED BY <1>0, <1>1, <2>5 DEF StartRead, StartWrite, server
<1>2. CASE SendChunk
  <2>1. PICK i \in 0 .. Len(chunk) - 1 :
          LET ck == chunk[((next + i) % Len(chunk)) + 1] IN
          /\ next' = (next + i + 1) % Len(chunk)
          /\ Send(toServer, [cmd |-> op.kind, seq |-> ck.seq, start |-> ck.start,
                             count |-> ck.count, result |-> 0,
                             data |-> IF op.kind = "write" THEN op.version ELSE 0])
    BY <1>2 DEF SendChunk
  <2> DEFINE k == ((next + i) % Len(chunk)) + 1
             p == [cmd |-> op.kind, seq |-> chunk[k].seq, start |-> chunk[k].start,
                   count |-> chunk[k].count, result |-> 0,
                   data |-> IF op.kind = "write" THEN op.version ELSE 0]
  <2>2. Len(chunk) \in Nat /\ Len(chunk) >= 1
    BY <1>0, <2>1 DEF TypedChunks
  <2>3. next + i \in Nat
    BY <1>0, <2>1
  <2>4. (next + i) % Len(chunk) \in 0 .. Len(chunk) - 1 /\ next' \in Nat
    BY <1>0, <2>1, <2>2, <2>3
  <2>5. k \in DOMAIN chunk
    BY <1>0, <2>2, <2>4 DEF TypedChunks
  <2>6. TypedOp(op)
    BY <1>0, <1>2 DEF SendChunk, ClientOK
  <2>7. p \in Packets
    <3> HIDE DEF k
    <3> QED BY <1>0, <2>5, <2>6 DEF TypedChunks, TypedOp, Packets
  <2>8. toServer' \in Seq(Packets)
    BY <1>0, <2>1, <2>7, SendTyped
  <2>9. UNCHANGED <<svr, phase, op, chunk, seqNo, ops>>
    BY <1>2 DEF SendChunk
  <2> QED BY <1>0, <2>4, <2>8, <2>9 DEF ClientOK
<1>3. CASE ReceivePiece
  <2> DEFINE packet == Head(toClient)
             k == CHOOSE k \in Matches(packet) : TRUE
             new == [chunk EXCEPT ![k].done = TRUE, ![k].data = packet.data]
  <2>1. phase = "piece" /\ UNCHANGED <<svr, toServer, ops>>
    BY <1>3 DEF ReceivePiece
  <2>2. remaining \in Nat /\ ChunksOK(chunk) /\ (~MaySend => outstanding - 1 \in 0 .. Window)
    BY <1>0, <2>1, Waiting DEF IInv
  <2>3. CASE \/ NextIteration(count, chunk, remaining, outstanding)
             \/ NextIteration(0, chunk, remaining, outstanding)
    BY <1>0, <2>1, <2>2, <2>3, IterationTyped
  <2>4. CASE EndOp("proto_err") /\ UNCHANGED seqNo
    BY <1>0, <2>1, <2>4, ReturnTyped DEF EndOp
  <2>5. CASE /\ Matches(packet) # {} /\ ~chunk[k].done
             /\ NextIteration(0, new, remaining - 1, outstanding - 1)
    <3>1. k \in DOMAIN chunk
      BY <2>5 DEF Matches
    <3>2. TypedChunks(new)
      BY <1>0, <2>2, <3>1, DoneTyped
    <3>3. remaining - 1 \in Nat
      BY <1>0, <2>1 DEF IInv
    <3> HIDE DEF new
    <3> QED BY <1>0, <2>1, <2>5, <3>2, <3>3, IterationTyped
  <2>6. \/ NextIteration(count, chunk, remaining, outstanding)
        \/ NextIteration(0, chunk, remaining, outstanding)
        \/ EndOp("proto_err") /\ UNCHANGED seqNo
        \/ /\ Matches(packet) # {} /\ ~chunk[k].done
           /\ NextIteration(0, new, remaining - 1, outstanding - 1)
    BY <1>3 DEF ReceivePiece
  <2> QED BY <1>0, <2>1, <2>3, <2>4, <2>5, <2>6
<1>4. CASE TimeoutPiece
  <2>1. /\ phase = "piece" /\ UNCHANGED <<server, ops>>
        /\ NextIteration(count, chunk, remaining, outstanding - 1)
    BY <1>4 DEF TimeoutPiece
  <2>2. remaining \in Nat
    BY <1>0 DEF IInv
  <2> QED BY <1>0, <2>1, <2>2, IterationTyped DEF server
<1>5. CASE SendQuery
  <2>1. [cmd |-> "sync", seq |-> seqNo, start |-> 0, count |-> 0, result |-> 0,
         data |-> 0] \in Packets
    BY <1>0 DEF Packets
  <2>2. toServer' \in Seq(Packets)
    BY <1>0, <1>5, <2>1, SendTyped DEF SendQuery
  <2> QED BY <1>0, <1>5, <2>2 DEF SendQuery, piece, ClientOK
<1>6. CASE ReceiveQuery \/ TimeoutQuery
  <2>1. UNCHANGED <<svr, toServer, seqNo, ops>>
    BY <1>6 DEF ReceiveQuery, TimeoutQuery, server
  <2>2. \/ \E status : EndOp(status)
        \/ phase = "query" /\ UNCHANGED <<phase, op, piece>>
    BY <1>6 DEF ReceiveQuery, TimeoutQuery, QueryAgain
  <2>3. CASE \E status : EndOp(status)
    BY <1>0, <2>1, <2>3, ReturnTyped DEF EndOp
  <2>4. CASE phase = "query" /\ UNCHANGED <<phase, op, piece>>
    BY <1>0, <2>1, <2>4 DEF piece, ClientOK
  <2> QED BY <1>0, <2>1, <2>2, <2>3, <2>4
<1>7. CASE Restart
  <2>1. EndOp("aborted") /\ seqNo' = 0 /\ UNCHANGED <<svr, toServer, ops>>
    BY <1>7 DEF Restart
  <2> QED BY <1>0, <2>1, ReturnTyped DEF EndOp
<1> QED BY <1>1, <1>2, <1>3, <1>4, <1>5, <1>6, <1>7 DEF ClientStep

\* The server takes a request and serves it.
LEMMA ServerNet ==
  ASSUME NetInv, ServerStep
  PROVE  /\ ServerOK' /\ ClientOK' /\ ops' \in Nat
         /\ OnlyWritten(svr, svr', Head(toServer))
         /\ ~AtaFails /\ Fresh(svr) => Fresh(svr')
<1>1. Head(toServer) \in Packets /\ toServer' \in Seq(Packets)
  BY HeadTailProperties DEF ServerStep, NetInv, ServerOK
<1>2. PICK a \in SvrRequest(svr, Head(toServer)) : svr' = a.svr
  BY DEF ServerStep
<1>3. /\ SvrOK(svr') /\ OnlyWritten(svr, svr', Head(toServer))
      /\ ~AtaFails /\ Fresh(svr) => Fresh(svr')
  BY <1>1, <1>2, RequestKeeps DEF NetInv, ServerOK
<1> QED BY <1>1, <1>3 DEF ServerStep, piece, NetInv, ServerOK, ClientOK

LEMMA StepNet == NetInv /\ [Next]_vars => NetInv'
<1> SUFFICES ASSUME NetInv, [Next]_vars PROVE NetInv'
  OBVIOUS
<1>1. IInv'
  BY StepIInv DEF NetInv
<1>2. CASE StartRead \/ StartWrite \/ ClientStep \/ Restart
  <2>1. svr' = svr /\ toServer' \in Seq(Packets) /\ ClientOK' /\ ops' \in Nat
    BY <1>2, ClientNet
  <2> QED BY <1>1, <2>1 DEF NetInv, ServerOK
<1>3. CASE ServerStep
  BY <1>1, <1>3, ServerNet DEF NetInv
<1>4. CASE UNCHANGED vars
  BY <1>1, <1>4 DEF vars, NetInv, ServerOK, ClientOK
<1> QED BY <1>2, <1>3, <1>4 DEF Next

\* A sector, on the disk or in the server's buffer, changes only by a write to
\* it, for any number of requests, aborts, lost packets and failures of the
\* disk.
THEOREM DataKept == Spec => ContentKept
<1>1. ASSUME NetInv, [Next]_vars
      PROVE  [\A s \in DOMAIN svr.disk :
                \/ Content(svr')[s] = Content(svr)[s]
                \/ LET req == Head(toServer) IN
                     /\ req.cmd = "write" /\ s \in req.start .. req.start + req.count - 1
                     /\ Content(svr')[s] = req.data]_vars
  <2>1. CASE StartRead \/ StartWrite \/ ClientStep \/ Restart
    BY <1>1, <2>1, ClientNet
  <2>2. CASE ServerStep
    <3>1. OnlyWritten(svr, svr', Head(toServer))
      BY <1>1, <2>2, ServerNet
    <3>2. DOMAIN svr.disk = 0 .. Sectors - 1
      BY <1>1 DEF NetInv, ServerOK, SvrOK, States
    <3> QED BY <3>1, <3>2 DEF OnlyWritten
  <2>3. CASE UNCHANGED vars
    BY <2>3
  <2> QED BY <1>1, <2>1, <2>2, <2>3 DEF Next
<1> QED BY <1>1, InitNet, StepNet, PTL DEF Spec, ContentKept

\* If the disk does not fail, the read buffer of the server never has stale
\* data.
THEOREM NoStaleReads == AtaFails = FALSE => (Spec => []ReadBufferFresh)
<1> SUFFICES ASSUME AtaFails = FALSE PROVE Spec => []ReadBufferFresh
  OBVIOUS
<1> DEFINE FInv == NetInv /\ Fresh(svr)
<1>1. Init => FInv
  BY InitNet, InitOK DEF Init
<1>2. FInv /\ [Next]_vars => FInv'
  <2> SUFFICES ASSUME NetInv, Fresh(svr), [Next]_vars
               PROVE  Fresh(svr')
    BY StepNet
  <2>1. CASE StartRead \/ StartWrite \/ ClientStep \/ Restart
    BY <2>1, ClientNet
  <2>2. CASE ServerStep
    BY <2>2, ServerNet
  <2>3. CASE UNCHANGED vars
    BY <2>3 DEF vars
  <2> QED BY <2>1, <2>2, <2>3 DEF Next
<1>3. FInv => ReadBufferFresh
  <2> SUFFICES ASSUME NetInv, Fresh(svr), svr.rdSector % RdSize = 0,
                      NEW i \in 0 .. RdSize - 1, svr.rdSector + i < Sectors
               PROVE  LET s == svr.rdSector + i
                          w == s - svr.wrSector
                      IN svr.rdBuf[i] = IF w \in svr.wrDirty THEN svr.wrBuf[w]
                                        ELSE svr.disk[s]
    BY DEF ReadBufferFresh
  <2>1. svr \in States
    BY DEF NetInv, ServerOK, SvrOK
  <2>2. svr.rdSector + i \in DOMAIN svr.disk
    BY <2>1, SvrAssumption DEF States
  <2> QED BY <2>2 DEF Fresh, Content
<1> QED BY <1>1, <1>2, <1>3, PTL DEF Spec

-----------------------------------------------------------------------------
(* The bounds.                                                               *)

\* a request for sectors of the disk, with data of one of the first m operations
Asked(packet, m) == packet.start < Sectors /\ packet.data \in 0 .. m

ChunksInside(ck) == \A k \in DOMAIN ck : ck[k].start < Sectors

ClientBounds ==
  /\ count \in 0 .. Retry - 1 /\ seqNo \in 0 .. 255
  /\ phase = "piece" => /\ op.version \in 0 .. ops /\ op.start + op.left <= Sectors
                        /\ ChunksInside(chunk)

NetBounds ==
  /\ Bounded(svr, ops) /\ ops \in 0 .. MaxOps /\ trouble \in 0 .. MaxTrouble
  /\ \A i \in DOMAIN toServer : Asked(toServer[i], ops)
  /\ ClientBounds

\* The chunks of a piece inside the disk.
LEMMA NewInside ==
  ASSUME NEW start \in Nat, NEW n \in Nat \ {0}, start + n <= Sectors
  PROVE  ChunksInside(Chunks(start, n))
<1> SUFFICES ASSUME NEW k \in 1 .. (n + 1) \div 2
             PROVE  Chunks(start, n)[k].start < Sectors
  BY DEF ChunksInside, Chunks
<1>1. Chunks(start, n)[k].start = start + 2 * (k - 1)
  BY DEF Chunks
<1>2. 2 * (k - 1) < n
  OBVIOUS
<1> QED BY <1>1, <1>2, SvrAssumption

LEMMA DoneInside ==
  ASSUME NEW ck, ChunksOK(ck), TypedChunks(ck), ChunksInside(ck), NEW k \in DOMAIN ck, NEW data
  PROVE  ChunksInside([ck EXCEPT ![k].done = TRUE, ![k].data = data])
<1> DEFINE new == [ck EXCEPT ![k].done = TRUE, ![k].data = data]
<1>1. DOMAIN new = DOMAIN ck
  BY DEF ChunksOK
<1>2. new[k] = [[ck[k] EXCEPT !.done = TRUE] EXCEPT !.data = data]
  BY DEF ChunksOK
<1>3. new[k].start = ck[k].start
  <2>1. ck[k] = [x \in DOMAIN ck[k] |-> ck[k][x]] /\ "start" \in DOMAIN ck[k]
    BY DEF ChunksOK, TypedChunks
  <2> QED BY <1>2, <2>1
<1>4. \A j \in DOMAIN ck : j # k => new[j] = ck[j]
  BY DEF ChunksOK
<1> HIDE DEF new
<1> QED BY <1>1, <1>3, <1>4 DEF ChunksInside

LEMMA ByteWraps ==
  ASSUME NEW a \in 0 .. 255, NEW b \in Nat
  PROVE  (a + b) % 256 \in 0 .. 255
<1>1. PICK c \in Nat : c = a + b
  OBVIOUS
<1>2. c % 256 \in 0 .. 255
  OBVIOUS
<1> QED BY <1>1, <1>2

LEMMA ReturnBounds ==
  ASSUME NEW status, NEW got, Return(status, got), seqNo' \in 0 .. 255
  PROVE  ClientBounds'
BY UdpAssumption DEF Return, ClientBounds

LEMMA BeginBounds ==
  ASSUME NEW o, o.version \in 0 .. ops', o.start \in Nat, o.left \in Nat,
         o.start + o.left <= Sectors,
         NEW n \in Nat \ {0}, n <= o.left, seqNo \in 0 .. 255,
         BeginPiece(o, Chunks(o.start, n))
  PROVE  ClientBounds'
<1>1. /\ chunk' = Chunks(o.start, n) /\ op' = o /\ count' = 0
      /\ seqNo' = (seqNo + Len(Chunks(o.start, n))) % 256
  BY DEF BeginPiece
<1>2. o.start + n <= Sectors
  BY SvrAssumption
<1>3. ChunksInside(chunk') /\ Len(Chunks(o.start, n)) \in Nat
  BY <1>1, <1>2, NewInside, NewChunks
<1>4. seqNo' \in 0 .. 255
  BY <1>1, <1>3, ByteWraps
<1> QED BY <1>1, <1>3, <1>4, UdpAssumption DEF ClientBounds

\* The end of an iteration: the rest of the operation is inside the disk.
LEMMA IterationBounds ==
  ASSUME IInv, ClientOK, ClientBounds, phase = "piece", ops' = ops,
         NEW c \in Nat, NEW ck, NEW undone \in Nat, NEW out,
         ChunksInside(ck), NextIteration(c, ck, undone, out)
  PROVE  ClientBounds'
<1> DEFINE n == Lesser(op.left, PieceSize)
           rest == [op EXCEPT !.start = @ + n, !.left = @ - n,
                      !.got = IF op.kind = "read" THEN @ \o Data(ck, n) ELSE @]
<1>1. CASE c + 1 < Retry /\ undone > 0
  BY <1>1, UdpAssumption DEF NextIteration, ClientBounds
<1>2. CASE ~(c + 1 < Retry /\ undone > 0)
  <2>1. PieceEnds(ck, undone)
    BY <1>2 DEF NextIteration
  <2>2. n \in Nat /\ n <= op.left /\ op.left \in Nat \ {0}
    BY UdpAssumption DEF IInv, Lesser
  <2>3. /\ op = [x \in DOMAIN op |-> op[x]] /\ op.start \in Nat
        /\ {"version", "start", "got", "left", "kind"} \subseteq DOMAIN op
        /\ op.version \in 0 .. ops /\ op.start + op.left <= Sectors /\ seqNo \in 0 .. 255
    BY DEF ClientOK, TypedOp, IInv, ClientBounds
  <2>4. /\ rest.version = op.version
        /\ rest.start = op.start + n /\ rest.left = op.left - n
    BY <2>3
  <2> HIDE DEF rest
  <2>5. /\ rest.version \in 0 .. ops' /\ rest.start \in Nat /\ rest.left \in Nat
        /\ rest.start + rest.left <= Sectors
    <3> HIDE DEF n
    <3> QED BY <2>2, <2>3, <2>4, SvrAssumption
  <2>6. CASE (\E status, got : Return(status, got)) /\ UNCHANGED seqNo
    BY <2>3, <2>6, ReturnBounds
  <2>7. CASE rest.left > 0 /\
             BeginPiece(rest, Chunks(rest.start, Lesser(rest.left, PieceSize)))
    <3>1. Lesser(rest.left, PieceSize) \in Nat \ {0} /\ Lesser(rest.left, PieceSize) <= rest.left
      BY <2>5, <2>7, UdpAssumption DEF Lesser
    <3> QED BY <2>3, <2>5, <2>7, <3>1, BeginBounds
  <2>8. CASE BeginQuery
    <3>1. seqNo' \in 0 .. 255 /\ phase' = "query" /\ count' = 0
      BY <2>3, <2>8, ByteWraps DEF BeginQuery
    <3> QED BY <3>1, UdpAssumption DEF ClientBounds
  <2> QED BY <2>1, <2>6, <2>7, <2>8 DEF PieceEnds, EndOp, rest
<1> QED BY <1>1, <1>2

\* A packet is sent or lost.
LEMMA SendBounds ==
  ASSUME NEW q, NEW q2, NEW R, q \in Seq(R), NEW p \in R,
         NEW m, \A i \in DOMAIN q : Asked(q[i], m), Asked(p, m),
         q2 = Append(q, p) \/ q2 = q
  PROVE  \A i \in DOMAIN q2 : Asked(q2[i], m)
BY AppendProperties

LEMMA InitBounds == Init => NetBounds
<1> SUFFICES ASSUME Init PROVE NetBounds
  OBVIOUS
<1>1. Bounded(svr, 0)
  BY InitBounded DEF Init
<1>2. DOMAIN toServer = {}
  BY DEF Init
<1> QED BY <1>1, <1>2, UdpAssumption DEF Init, NetBounds, ClientBounds

\* The client takes a step.
LEMMA ClientStepBounds ==
  ASSUME NetInv, NetBounds, StartRead \/ StartWrite \/ ClientStep \/ Restart
  PROVE  /\ ClientBounds' /\ ops' \in 0 .. MaxOps /\ ops <= ops'
         /\ trouble' \in 0 .. MaxTrouble
         /\ \A i \in DOMAIN toServer' : Asked(toServer'[i], ops')
<1>0. /\ toServer \in Seq(Packets) /\ IInv /\ ClientOK /\ ClientBounds /\ TypedChunks(chunk)
      /\ ChunksOK(chunk) /\ next \in Nat /\ ops \in 0 .. MaxOps /\ trouble \in 0 .. MaxTrouble
      /\ seqNo \in 0 .. 255 /\ count \in Nat
      /\ \A i \in DOMAIN toServer : Asked(toServer[i], ops)
  BY UdpAssumption DEF NetInv, NetBounds, ServerOK, ClientOK, ClientBounds, IInv
<1>1. CASE StartRead \/ StartWrite
  <2>1. PICK kind \in {"read", "write"}, r \in Requests : Begin(kind, r[1], r[2])
    BY <1>1 DEF StartRead, StartWrite
  <2>2. /\ r[1] \in Nat /\ r[2] \in Nat \ {0} /\ r[1] + r[2] <= Sectors
        /\ Lesser(r[2], PieceSize) \in Nat \ {0} /\ Lesser(r[2], PieceSize) <= r[2]
    BY UdpAssumption DEF Lesser
  <2>3. /\ ops < MaxOps /\ ops' = ops + 1 /\ trouble' = trouble /\ toServer' = toServer
    BY <1>1 DEF StartRead, StartWrite, server
  <2>4. ops' \in 0 .. MaxOps /\ ops <= ops'
    BY <1>0, <2>3, UdpAssumption
  <2> DEFINE o == [kind |-> kind, first |-> r[1], sectors |-> r[2], start |-> r[1],
                   left |-> r[2], version |-> ops + 1, got |-> <<>>]
  <2>5. BeginPiece(o, Chunks(o.start, Lesser(r[2], PieceSize)))
    BY <2>1 DEF Begin
  <2>6. o.version \in 0 .. ops' /\ o.start = r[1] /\ o.left = r[2]
    BY <1>0, <2>3
  <2>7. ClientBounds'
    <3> HIDE DEF o
    <3> QED BY <1>0, <2>2, <2>5, <2>6, BeginBounds
  <2>8. \A i \in DOMAIN toServer' : Asked(toServer'[i], ops')
    BY <1>0, <2>3, <2>4 DEF Asked
  <2> QED BY <1>0, <2>3, <2>4, <2>7, <2>8
<1>2. CASE SendChunk
  <2>1. PICK i \in 0 .. Len(chunk) - 1 :
          LET ck == chunk[((next + i) % Len(chunk)) + 1] IN
          Send(toServer, [cmd |-> op.kind, seq |-> ck.seq, start |-> ck.start,
                          count |-> ck.count, result |-> 0,
                          data |-> IF op.kind = "write" THEN op.version ELSE 0])
    BY <1>2 DEF SendChunk
  <2> DEFINE k == ((next + i) % Len(chunk)) + 1
             p == [cmd |-> op.kind, seq |-> chunk[k].seq, start |-> chunk[k].start,
                   count |-> chunk[k].count, result |-> 0,
                   data |-> IF op.kind = "write" THEN op.version ELSE 0]
  <2>2. k \in DOMAIN chunk
    <3>0. Len(chunk) \in Nat /\ next \in Nat
      BY <1>0 DEF TypedChunks
    <3>1. Len(chunk) \in Nat /\ Len(chunk) >= 1 /\ next + i \in Nat
      BY <2>1, <3>0
    <3>2. (next + i) % Len(chunk) \in 0 .. Len(chunk) - 1
      BY <3>1
    <3> QED BY <1>0, <3>1, <3>2 DEF TypedChunks
  <2>3. TypedOp(op) /\ op.version \in 0 .. ops /\ ChunksInside(chunk)
    BY <1>0, <1>2 DEF SendChunk, ClientOK, ClientBounds
  <2> HIDE DEF k
  <2>4. p \in Packets
    BY <1>0, <2>2, <2>3 DEF TypedChunks, TypedOp, Packets
  <2>5. Asked(p, ops)
    BY <1>0, <2>2, <2>3 DEF ChunksInside, Asked
  <2>6. toServer' = Append(toServer, p) \/ toServer' = toServer
    BY <2>1 DEF Send, k
  <2>7. trouble' \in 0 .. MaxTrouble
    BY <1>0, <2>1, UdpAssumption DEF Send, Trouble
  <2>8. UNCHANGED <<phase, op, chunk, seqNo, count, ops>>
    BY <1>2 DEF SendChunk
  <2> HIDE DEF p
  <2>9. \A j \in DOMAIN toServer' : Asked(toServer'[j], ops)
    BY <1>0, <2>4, <2>5, <2>6, SendBounds
  <2> QED BY <1>0, <2>7, <2>8, <2>9 DEF ClientBounds
<1>3. CASE ReceivePiece
  <2> DEFINE packet == Head(toClient)
             k == CHOOSE k \in Matches(packet) : TRUE
             new == [chunk EXCEPT ![k].done = TRUE, ![k].data = packet.data]
  <2>1. phase = "piece" /\ UNCHANGED <<toServer, ops, trouble>>
    BY <1>3 DEF ReceivePiece
  <2>2. remaining \in Nat /\ ChunksInside(chunk)
    BY <1>0, <2>1 DEF IInv, ClientBounds
  <2>3. CASE \/ NextIteration(count, chunk, remaining, outstanding)
             \/ NextIteration(0, chunk, remaining, outstanding)
    BY <1>0, <2>1, <2>2, <2>3, IterationBounds
  <2>4. CASE EndOp("proto_err") /\ UNCHANGED seqNo
    BY <1>0, <2>1, <2>4, ReturnBounds DEF EndOp
  <2>5. CASE /\ Matches(packet) # {} /\ ~chunk[k].done
             /\ NextIteration(0, new, remaining - 1, outstanding - 1)
    <3>1. k \in DOMAIN chunk
      BY <2>5 DEF Matches
    <3>2. ChunksInside(new)
      BY <1>0, <2>2, <3>1, DoneInside
    <3>3. remaining - 1 \in Nat
      BY <1>0, <2>1 DEF IInv
    <3> HIDE DEF new
    <3> QED BY <1>0, <2>1, <2>5, <3>2, <3>3, IterationBounds
  <2>6. \/ NextIteration(count, chunk, remaining, outstanding)
        \/ NextIteration(0, chunk, remaining, outstanding)
        \/ EndOp("proto_err") /\ UNCHANGED seqNo
        \/ /\ Matches(packet) # {} /\ ~chunk[k].done
           /\ NextIteration(0, new, remaining - 1, outstanding - 1)
    BY <1>3 DEF ReceivePiece
  <2>7. ClientBounds'
    BY <2>3, <2>4, <2>5, <2>6
  <2> QED BY <1>0, <2>1, <2>7
<1>4. CASE TimeoutPiece
  <2>1. /\ phase = "piece" /\ UNCHANGED <<toServer, ops>>
        /\ NextIteration(count, chunk, remaining, outstanding - 1)
    BY <1>4 DEF TimeoutPiece, server
  <2>2. remaining \in Nat /\ ChunksInside(chunk)
    BY <1>0, <2>1 DEF IInv, ClientBounds
  <2>3. trouble' \in 0 .. MaxTrouble
    BY <1>0, <1>4, UdpAssumption DEF TimeoutPiece, NothingArrives, Trouble
  <2>4. ClientBounds'
    BY <1>0, <2>1, <2>2, IterationBounds
  <2> QED BY <1>0, <2>1, <2>3, <2>4
<1>5. CASE SendQuery
  <2> DEFINE p == [cmd |-> "sync", seq |-> seqNo, start |-> 0, count |-> 0, result |-> 0,
                   data |-> 0]
  <2>1. Send(toServer, p) /\ UNCHANGED <<phase, op, chunk, count, seqNo, ops>>
    BY <1>5 DEF SendQuery, piece
  <2>2. p \in Packets
    BY <1>0 DEF Packets
  <2>3. Asked(p, ops)
    BY <1>0, SvrAssumption DEF Asked
  <2> HIDE DEF p
  <2>4. toServer' = Append(toServer, p) \/ toServer' = toServer
    BY <2>1 DEF Send
  <2>5. \A j \in DOMAIN toServer' : Asked(toServer'[j], ops)
    BY <1>0, <2>2, <2>3, <2>4, SendBounds
  <2>6. trouble' \in 0 .. MaxTrouble
    BY <1>0, <2>1, UdpAssumption DEF Send, Trouble
  <2> QED BY <1>0, <2>1, <2>5, <2>6 DEF ClientBounds
<1>6. CASE ReceiveQuery \/ TimeoutQuery
  <2>1. UNCHANGED <<toServer, seqNo, ops>>
    BY <1>6 DEF ReceiveQuery, TimeoutQuery, server
  <2>2. trouble' \in 0 .. MaxTrouble
    BY <1>0, <1>6, UdpAssumption DEF ReceiveQuery, TimeoutQuery, NothingArrives,
                                        Trouble
  <2>3. phase = "query" /\ ((\E status : EndOp(status)) \/ QueryAgain)
    BY <1>6 DEF ReceiveQuery, TimeoutQuery
  <2>4. CASE \E status : EndOp(status)
    BY <1>0, <2>1, <2>2, <2>4, ReturnBounds DEF EndOp
  <2>5. CASE count + 1 < Retry /\ count' = count + 1 /\ UNCHANGED phase
    BY <1>0, <2>1, <2>2, <2>3, <2>5, UdpAssumption DEF ClientBounds
  <2> QED BY <2>3, <2>4, <2>5 DEF QueryAgain
<1>7. CASE Restart
  <2>1. EndOp("aborted") /\ seqNo' = 0 /\ UNCHANGED <<toServer, ops, trouble>>
    BY <1>7 DEF Restart
  <2> QED BY <1>0, <2>1, ReturnBounds DEF EndOp
<1> QED BY <1>1, <1>2, <1>3, <1>4, <1>5, <1>6, <1>7 DEF ClientStep

\* The server serves a request.
LEMMA ServerStepBounds ==
  ASSUME NetInv, NetBounds, ServerStep
  PROVE  NetBounds'
<1> DEFINE p == Head(toServer)
<1>1. toServer \in Seq(Packets) /\ toServer # <<>> /\ SvrOK(svr) /\ Bounded(svr, ops)
      /\ ops \in Nat
  BY UdpAssumption DEF ServerStep, NetInv, NetBounds, ServerOK
<1>2. p \in Packets /\ p = toServer[1] /\ 1 \in DOMAIN toServer
  BY <1>1, HeadTailProperties
<1>3. p.start < Sectors /\ p.data \in 0 .. ops
  BY <1>2 DEF NetBounds, Asked
<1>4. PICK a \in SvrRequest(svr, p) : svr' = a.svr
                                      /\ Send(toClient, [p EXCEPT !.result = a.result, !.data = a.data])
  BY DEF ServerStep
<1> HIDE DEF p
<1>5. Bounded(a.svr, ops)
  <2>1. CASE p.cmd = "read"
    <3>1. a \in SvrRead(svr, p.start, p.count) /\ p.start \in Nat /\ p.count \in Nat
      BY <1>2, <1>4, <2>1 DEF SvrRequest, Packets
    <3> QED BY <1>1, <1>3, <3>1, ReadBounded
  <2>2. CASE p.cmd = "write"
    <3>1. a \in SvrWrite(svr, p.start, p.count, p.data) /\ p.start \in Nat /\ p.count \in {1, 2}
      BY <1>2, <1>4, <2>2 DEF SvrRequest, Packets
    <3> QED BY <1>1, <1>3, <3>1, WriteBounded
  <2>3. CASE p.cmd = "sync"
    <3>1. a \in SyncBuffer(svr)
      BY <1>4, <2>3 DEF SvrRequest
    <3> QED BY <1>1, <3>1, SyncBounded
  <2> QED BY <1>2, <2>1, <2>2, <2>3 DEF Packets
<1>6. trouble' \in 0 .. MaxTrouble
  BY <1>4, UdpAssumption DEF Send, Trouble, NetBounds
<1>7. \A i \in DOMAIN toServer' : Asked(toServer'[i], ops)
  <2>1. toServer' = Tail(toServer)
    BY DEF ServerStep
  <2>2. \A i \in DOMAIN Tail(toServer) :
          Tail(toServer)[i] = toServer[i + 1] /\ i + 1 \in DOMAIN toServer
    BY <1>1, HeadTailProperties
  <2> QED BY <2>1, <2>2 DEF NetBounds
<1>8. UNCHANGED <<phase, op, chunk, count, seqNo, ops>>
  BY DEF ServerStep, piece
<1> QED BY <1>4, <1>5, <1>6, <1>7, <1>8 DEF NetBounds, ClientBounds

LEMMA StepBounds == NetInv /\ NetBounds /\ [Next]_vars => NetBounds'
<1> SUFFICES ASSUME NetInv, NetBounds, [Next]_vars PROVE NetBounds'
  OBVIOUS
<1>1. CASE StartRead \/ StartWrite \/ ClientStep \/ Restart
  <2>1. /\ ClientBounds' /\ ops' \in 0 .. MaxOps /\ ops <= ops'
        /\ trouble' \in 0 .. MaxTrouble
        /\ \A i \in DOMAIN toServer' : Asked(toServer'[i], ops')
    BY <1>1, ClientStepBounds
  <2>2. svr' = svr /\ ops \in Nat /\ ops' \in Nat /\ Bounded(svr, ops)
    BY <1>1, <2>1, ClientNet, UdpAssumption DEF NetInv, NetBounds
  <2>3. Bounded(svr, ops')
    BY <2>1, <2>2, BoundRises
  <2> QED BY <2>1, <2>2, <2>3 DEF NetBounds
<1>2. CASE ServerStep
  BY <1>2, ServerStepBounds
<1>3. CASE UNCHANGED vars
  BY <1>3 DEF vars, NetBounds, ClientBounds
<1> QED BY <1>1, <1>2, <1>3 DEF Next

\* No place of the server's buffer that was never filled and nothing an
\* operation did not send reaches the disk, whatever is lost, late, aborted or
\* fails; both buffers are somewhere on the disk or nowhere, and the client's
\* counters are in their bounds.
THEOREM NetTypeCorrect == Spec => []TypeOK
<1>1. Init => NetInv /\ NetBounds
  BY InitNet, InitBounds
<1>2. NetInv /\ NetBounds /\ [Next]_vars => (NetInv /\ NetBounds)'
  BY StepNet, StepBounds
<1>3. NetInv /\ NetBounds => TypeOK
  <2> SUFFICES ASSUME NetInv, NetBounds PROVE TypeOK
    OBVIOUS
  <2>1. svr \in States /\ Bounded(svr, ops) /\ ops \in 0 .. MaxOps /\ MaxOps \in Nat
    BY UdpAssumption DEF NetInv, NetBounds, ServerOK, SvrOK
  <2>2. svr.disk \in [0 .. Sectors - 1 -> 0 .. MaxOps]
    <3>1. \A s \in 0 .. Sectors - 1 : svr.disk[s] \in 0 .. MaxOps
      BY <2>1 DEF Bounded
    <3>2. svr.disk \in [0 .. Sectors - 1 -> Int]
      BY <2>1 DEF States
    <3> QED BY <3>1, <3>2
  <2>3. /\ svr.wrDirty \subseteq 0 .. WrSize - 1 /\ svr.wrCount \in Nat
        /\ svr.wrSector \in 0 .. Sectors - 1 \cup {NoSector}
        /\ svr.rdSector \in 0 .. Sectors - 1 \cup {NoSector}
    BY <2>1 DEF States, Bounded
  <2>4. remaining \in 0 .. Len(chunk)
    <3>1. Len(chunk) \in Nat /\ DOMAIN chunk = 1 .. Len(chunk)
          /\ remaining = Cardinality(Undone(chunk)) /\ remaining \in Nat
      BY DEF NetInv, ClientOK, TypedChunks, IInv
    <3>2. IsFiniteSet(1 .. Len(chunk)) /\ Cardinality(1 .. Len(chunk)) = Len(chunk)
      <4>1. PICK l \in Nat : l = Len(chunk)
        BY <3>1
      <4>2. IsFiniteSet(1 .. l) /\ Cardinality(1 .. l) = l
        BY FS_Interval
      <4> QED BY <4>1, <4>2
    <3>3. Undone(chunk) \subseteq 1 .. Len(chunk)
      BY <3>1 DEF Undone
    <3>4. Cardinality(Undone(chunk)) <= Len(chunk)
      BY <3>2, <3>3, FS_Subset
    <3> QED BY <3>1, <3>4
  <2>5. /\ phase \in {"idle", "piece", "query"} /\ next \in Nat
        /\ count \in 0 .. Retry - 1 /\ seqNo \in 0 .. 255
        /\ outstanding \in 0 .. Window /\ trouble \in 0 .. MaxTrouble
    BY DEF NetInv, NetBounds, ClientBounds, ClientOK, IInv
  <2> QED BY <2>1, <2>2, <2>3, <2>4, <2>5 DEF TypeOK
<1> QED BY <1>1, <1>2, <1>3, PTL DEF Spec

-----------------------------------------------------------------------------
\* What patience, and all of NetOrderProofs, depends on.
Calm == /\ AtaFails = FALSE /\ Restarts = FALSE /\ Endless = FALSE
        /\ Retry > MaxTrouble + 2

-----------------------------------------------------------------------------
(* Patience: why nothing times out.                                        *)

\* from the oldest packet to the newest
InTransit == toClient \o toServer

\* what tells a packet from others
Key(p) == [cmd |-> p.cmd, seq |-> p.seq, start |-> p.start, count |-> p.count]

\* The packets of the piece or query in progress; those of earlier ones are stale.
Expected ==
  CASE phase = "piece" ->
         {[cmd |-> op.kind, seq |-> chunk[k].seq, start |-> chunk[k].start,
           count |-> chunk[k].count] : k \in DOMAIN chunk}
    [] phase = "query" -> {[cmd |-> "sync", seq |-> seqNo, start |-> 0, count |-> 0]}
    [] OTHER -> {}

Current(p) == Key(p) \in Expected

\* answers the client counts on
Owed == CASE phase = "piece" -> outstanding
          [] phase = "query" -> IF sent THEN 1 ELSE 0
          [] OTHER -> 0

\* the client has sent what it may and waits
Waits == (phase = "piece" /\ ~MaySend) \/ (phase = "query" /\ sent)

\* At most v packets, the first ones, are stale; each was sent in vain.
StaleUpTo(v) ==
  /\ v \in 0 .. Len(InTransit) /\ v <= trouble
  /\ \A i \in v + 1 .. Len(InTransit) : Current(InTransit[i])
  /\ count + v <= trouble + 2
  /\ Waits /\ v = Len(InTransit) => count + v + 1 <= trouble + 2

Patience ==
  /\ trouble \in 0 .. MaxTrouble /\ count \in Nat /\ sent \in BOOLEAN
  /\ outstanding <= remaining
  /\ Len(InTransit) <= Owed + trouble
  /\ \E v \in Nat : StaleUpTo(v)
  /\ last.status # "timeout"

-----------------------------------------------------------------------------
(* Answers of the server while the disk does not fail.                     *)

Replies == [cmd : {"read", "write", "sync"}, seq : Int, start : Nat, count : {0, 1, 2},
            result : {Ok}, data : Seq(Int)]

\* data that is what sectors of a server hold
ReadFrom(v, data, first, n) ==
  /\ data \in Seq(Int) /\ Len(data) = n
  /\ \A i \in 1 .. n : data[i] = Content(v)[first + i - 1]

\* the read buffer has what the sectors have
Full(v) ==
  \A i \in 0 .. RdSize - 1 : v.rdSector + i < Sectors => v.rdBuf[i] = Content(v)[v.rdSector + i]

\* A sync of a disk that does not fail cleans the buffer.
LEMMA SyncCalm ==
  ASSUME AtaFails = FALSE, NEW v, SvrOK(v), NEW a \in SyncBuffer(v)
  PROVE  a.result = Ok /\ a.data = <<>> /\ a.svr.wrDirty = {} /\ a.svr.disk = Content(v)
<1>1. /\ SvrOK(a.svr) /\ Same(v, a.svr)
      /\ a.result = Ok => a.svr.wrDirty = {} /\ a.svr.disk = Content(a.svr)
  BY SyncKeeps
<1>2. PICK w : a = Answer(w, Ok, <<>>)
  BY DEF SyncBuffer
<1>3. a.result = Ok /\ a.data = <<>>
  BY <1>2 DEF Answer
<1> QED BY <1>1, <1>3 DEF Same

\* What is served from a read buffer that has the sectors.
LEMMA ServeCalm ==
  ASSUME NEW v, SvrOK(v), NEW start \in Nat, NEW n \in {1, 2},
         start >= v.rdSector, start + n <= v.rdSector + RdSize,
         NEW a, a = Serve(v, start, n)
  PROVE  /\ a.result = Ok /\ a.svr = v /\ a.data \in Seq(Int)
         /\ Full(v) /\ start + n <= Sectors => ReadFrom(v, a.data, start, n)
<1> DEFINE d == [i \in 1 .. n |-> v.rdBuf[start + i - 1 - v.rdSector]]
<1>0. n \in Nat /\ n >= 1
  OBVIOUS
<1>1. v.rdSector \in Nat /\ v.rdBuf \in [0 .. RdSize - 1 -> Int] /\ RdSize \in Nat
  BY SvrAssumption DEF SvrOK, States
<1>2. ASSUME NEW i \in 1 .. n
      PROVE  /\ start + i - 1 - v.rdSector \in 0 .. RdSize - 1
             /\ v.rdSector + (start + i - 1 - v.rdSector) = start + i - 1
  <2>1. i \in Nat /\ i >= 1 /\ i <= n /\ n \in Nat
    BY <1>0
  <2>2. PICK at \in Nat : at = v.rdSector
    BY <1>1
  <2>3. start >= at /\ start + n <= at + RdSize
    BY <2>2
  <2>4. start + i - 1 - at \in 0 .. RdSize - 1 /\ at + (start + i - 1 - at) = start + i - 1
    BY <1>1, <2>1, <2>3
  <2> QED BY <2>2, <2>4
<1>3. d \in [1 .. n -> Int]
  BY <1>1, <1>2
<1>4. d \in Seq(Int) /\ Len(d) = n
  <2> HIDE DEF d
  <2>1. d \in Seq(Int) /\ DOMAIN d = 1 .. n
    BY <1>0, <1>3, SeqDef
  <2>2. Len(d) \in Nat /\ DOMAIN d = 1 .. Len(d)
    BY <2>1, LenProperties
  <2> QED BY <1>0, <2>1, <2>2
<1>5. ASSUME Full(v), start + n <= Sectors, NEW i \in 1 .. n
      PROVE  d[i] = Content(v)[start + i - 1]
  <2> DEFINE j == start + i - 1 - v.rdSector
  <2>1. j \in 0 .. RdSize - 1 /\ v.rdSector + j = start + i - 1
    BY <1>2
  <2>2. v.rdSector + j < Sectors
    BY <1>0, <1>5, <2>1, SvrAssumption
  <2>3. v.rdBuf[j] = Content(v)[v.rdSector + j]
    BY <1>5, <2>1, <2>2 DEF Full
  <2> QED BY <2>1, <2>3
<1>6. a = Answer(v, Ok, d)
  BY DEF Serve
<1>7. a.data = d /\ a.svr = v /\ a.result = Ok
  BY <1>6 DEF Answer
<1> HIDE DEF d
<1> QED BY <1>4, <1>5, <1>7 DEF ReadFrom

\* What is served after the read buffer is filled.
LEMMA FillCalm ==
  ASSUME AtaFails = FALSE, NEW v, SvrOK(v), v.wrDirty = {},
         NEW start \in Nat, NEW n \in {1, 2}, NEW a \in Fill(v, start, n)
  PROVE  /\ a.result = Ok /\ a.svr.wrDirty = {} /\ a.data \in Seq(Int)
         /\ start + n <= Sectors => ReadFrom(v, a.data, start, n)
<1> DEFINE at == Align(RdSize, start, n)
           buf == [i \in DOMAIN v.rdBuf |->
                     IF at + i < Sectors THEN v.disk[at + i] ELSE Blank]
           filled == [v EXCEPT !.rdSector = at, !.rdBuf = buf]
<1>1. at \in Nat /\ start >= at /\ start + n <= at + RdSize
  BY SvrAssumption DEF Align
<1>2. a = Serve(filled, start, n)
  BY DEF Fill
<1>3. a.svr = filled
  BY <1>2 DEF Serve, Answer
<1>4. SvrOK(filled) /\ Content(filled) = Content(v)
  BY <1>3, FillKeeps DEF Same
<1>5. filled.rdSector = at /\ filled.rdBuf = buf /\ filled.wrDirty = {}
  BY DEF SvrOK, States
<1>6. Full(filled)
  <2>1. Content(v) = v.disk
    BY DEF Content, SvrOK, States
  <2>2. DOMAIN v.rdBuf = 0 .. RdSize - 1
    BY DEF SvrOK, States
  <2> HIDE DEF at, filled
  <2> QED BY <1>4, <1>5, <2>1, <2>2 DEF Full
<1> HIDE DEF filled, at, buf
<1>7. start >= filled.rdSector /\ start + n <= filled.rdSector + RdSize
  BY <1>1, <1>5
<1>8. /\ a.result = Ok /\ a.svr = filled /\ a.data \in Seq(Int)
      /\ Full(filled) /\ start + n <= Sectors => ReadFrom(filled, a.data, start, n)
  BY <1>2, <1>4, <1>7, ServeCalm
<1> QED BY <1>4, <1>5, <1>6, <1>8 DEF ReadFrom

\* A read of a disk that does not fail returns what the sectors hold.
LEMMA ReadCalm ==
  ASSUME AtaFails = FALSE, NEW v, SvrOK(v), NEW start \in Nat, NEW n \in {1, 2},
         NEW a \in SvrRead(v, start, n)
  PROVE  /\ a.result = Ok /\ a.data \in Seq(Int)
         /\ a.svr = v \/ a.svr.wrDirty = {}
         /\ Fresh(v) /\ start + n <= Sectors => ReadFrom(v, a.data, start, n)
<1>1. CASE Within(v.rdSector, RdSize, start, n)
  <2>1. a = Serve(v, start, n)
    BY <1>1 DEF SvrRead
  <2>2. Fresh(v) => Full(v)
    BY <1>1 DEF Within, Fresh, Full
  <2>3. start >= v.rdSector /\ start + n <= v.rdSector + RdSize
    BY <1>1 DEF Within
  <2>4. /\ a.result = Ok /\ a.svr = v /\ a.data \in Seq(Int)
        /\ Full(v) /\ start + n <= Sectors => ReadFrom(v, a.data, start, n)
    BY <2>1, <2>3, ServeCalm
  <2> QED BY <2>2, <2>4
<1>2. CASE ~Within(v.rdSector, RdSize, start, n) /\ v.wrCount = 0
  <2>1. a \in Fill(v, start, n)
    BY <1>2 DEF SvrRead, AfterSync
  <2>2. v.wrDirty = {}
    BY <1>2 DEF SvrOK
  <2> QED BY <2>1, <2>2, FillCalm
<1>3. CASE ~Within(v.rdSector, RdSize, start, n) /\ v.wrCount # 0
  <2>1. PICK b \in SyncBuffer(v) : a \in IF b.result = Ok THEN Fill(b.svr, start, n) ELSE {b}
    BY <1>3 DEF SvrRead, AfterSync
  <2>2. b.result = Ok /\ b.svr.wrDirty = {} /\ SvrOK(b.svr) /\ Content(b.svr) = Content(v)
    BY SyncCalm, SyncKeeps DEF Same
  <2>3. a \in Fill(b.svr, start, n)
    BY <2>1, <2>2
  <2>4. /\ a.result = Ok /\ a.svr.wrDirty = {} /\ a.data \in Seq(Int)
        /\ start + n <= Sectors => ReadFrom(b.svr, a.data, start, n)
    <3>1. PICK u : u = b.svr
      OBVIOUS
    <3>2. SvrOK(u) /\ u.wrDirty = {} /\ a \in Fill(u, start, n)
      BY <2>2, <2>3, <3>1
    <3>3. /\ a.result = Ok /\ a.svr.wrDirty = {} /\ a.data \in Seq(Int)
          /\ start + n <= Sectors => ReadFrom(u, a.data, start, n)
      BY <3>2, FillCalm
    <3> QED BY <3>1, <3>3
  <2> QED BY <2>2, <2>4 DEF ReadFrom
<1> QED BY <1>1, <1>2, <1>3

\* A write to a disk that does not fail succeeds.
LEMMA PutCalm ==
  ASSUME AtaFails = FALSE, NEW v, NEW start, NEW n, NEW data,
         NEW a \in Put(v, start, n, data)
  PROVE  a.result = Ok /\ a.data = <<>>
<1>1. PICK w : a = Answer(w, Ok, <<>>)
  BY DEF Put, SyncBuffer
<1> QED BY <1>1 DEF Answer

LEMMA WriteCalm ==
  ASSUME AtaFails = FALSE, NEW v, NEW start, NEW n, NEW data,
         NEW a \in SvrWrite(v, start, n, data)
  PROVE  a.result = Ok /\ a.data = <<>>
<1> DEFINE w == Invalidate(v, start, n)
           Moved(u) == Put([u EXCEPT !.wrSector = Align(WrSize, start, n)], start, n, data)
<1>1. \/ a \in Put(w, start, n, data)
      \/ a \in Moved(w)
      \/ \E b \in SyncBuffer(w) : IF b.result = Ok THEN a \in Moved(b.svr) ELSE a = b
  BY DEF SvrWrite, AfterSync
<1>2. ASSUME NEW b \in SyncBuffer(w) PROVE b.result = Ok
  <2>1. PICK u : b = Answer(u, Ok, <<>>)
    BY DEF SyncBuffer
  <2> QED BY <2>1 DEF Answer
<1>3. \E u : a \in Put(u, start, n, data)
  BY <1>1, <1>2
<1> QED BY <1>3, PutCalm

\* A disk that does not fail answers every request, and well.
LEMMA RequestCalm ==
  ASSUME AtaFails = FALSE, NEW v, SvrOK(v), NEW req \in Packets,
         NEW a \in SvrRequest(v, req)
  PROVE  a.result = Ok /\ a.data \in Seq(Int)
<1>0. <<>> \in Seq(Int)
  BY EmptySeq
<1>1. CASE req.cmd = "read"
  <2>1. a \in SvrRead(v, req.start, req.count) /\ req.start \in Nat /\ req.count \in {1, 2}
    BY <1>1 DEF SvrRequest, Packets
  <2> QED BY <2>1, ReadCalm
<1>2. CASE req.cmd = "write"
  <2>1. PICK start, n, data : a \in SvrWrite(v, start, n, data)
    BY <1>2 DEF SvrRequest
  <2>2. a.result = Ok /\ a.data = <<>>
    BY <2>1, WriteCalm
  <2> QED BY <1>0, <2>2
<1>3. CASE req.cmd = "sync"
  <2>1. a \in SyncBuffer(v)
    BY <1>3 DEF SvrRequest
  <2>2. a.result = Ok /\ a.data = <<>>
    BY <2>1, SyncCalm
  <2> QED BY <1>0, <2>2
<1> QED BY <1>1, <1>2, <1>3 DEF Packets

\* So what it sends is a reply.
LEMMA ReplyCalm ==
  ASSUME NEW req \in Packets, NEW data \in Seq(Int)
  PROVE  LET p == [req EXCEPT !.result = Ok, !.data = data] IN
         /\ p \in Replies /\ p.data = data
         /\ p.cmd = req.cmd /\ p.seq = req.seq /\ p.start = req.start /\ p.count = req.count
<1> DEFINE D == Seq(Int)
<1> HIDE DEF D
<1> DEFINE q == [req EXCEPT !.result = Ok]
           p == [q EXCEPT !.data = data]
           F == [cmd : {"read", "write", "sync"}, seq : Int, start : Nat, count : {0, 1, 2},
                 result : {Ok}, data : Int]
<1>1. data \in D
  BY DEF D
<1>2. q \in F /\ q.cmd = req.cmd /\ q.seq = req.seq /\ q.start = req.start
      /\ q.count = req.count
  BY DEF Packets
<1>3. /\ p \in [cmd : {"read", "write", "sync"}, seq : Int, start : Nat, count : {0, 1, 2},
                result : {Ok}, data : D]
      /\ p.cmd = q.cmd /\ p.seq = q.seq /\ p.start = q.start /\ p.count = q.count
      /\ p.data = data
  <2> HIDE DEF q
  <2> QED BY <1>1, <1>2
<1> QED BY <1>2, <1>3 DEF Replies, D

-----------------------------------------------------------------------------
(* What is in transit, from step to step.                                  *)

Moving == Packets \cup Replies

InOrder == toClient \in Seq(Replies) /\ toServer \in Seq(Packets)

LEMMA Joined ==
  ASSUME NEW a \in Seq(Moving), NEW b \in Seq(Moving)
  PROVE  /\ a \o b \in Seq(Moving) /\ Len(a) \in Nat /\ Len(b) \in Nat
         /\ Len(a \o b) = Len(a) + Len(b)
         /\ \A i \in 1 .. Len(a) : (a \o b)[i] = a[i]
         /\ \A i \in Len(a) + 1 .. Len(a) + Len(b) : (a \o b)[i] = b[i - Len(a)]
<1>1. Len(a) \in Nat /\ Len(b) \in Nat
  BY LenProperties
<1>2. /\ a \o b \in Seq(Moving) /\ Len(a \o b) = Len(a) + Len(b)
      /\ \A i \in 1 .. Len(a) + Len(b) :
           (a \o b)[i] = IF i <= Len(a) THEN a[i] ELSE b[i - Len(a)]
  BY ConcatProperties
<1>3. ASSUME NEW i \in 1 .. Len(a) PROVE (a \o b)[i] = a[i]
  BY <1>1, <1>2
<1>4. ASSUME NEW i \in Len(a) + 1 .. Len(a) + Len(b) PROVE (a \o b)[i] = b[i - Len(a)]
  BY <1>1, <1>2
<1> QED BY <1>1, <1>2, <1>3, <1>4

\* A packet joins the end.
LEMMA JoinedLast ==
  ASSUME NEW a \in Seq(Moving), NEW b \in Seq(Moving), NEW p \in Moving
  PROVE  LET t == a \o b
             u == a \o Append(b, p)
         IN /\ Len(t) \in Nat /\ Len(u) = Len(t) + 1 /\ u[Len(t) + 1] = p
            /\ \A i \in 1 .. Len(t) : u[i] = t[i]
<1>1. Append(b, p) = b \o <<p>> /\ <<p>> \in Seq(Moving)
  BY AppendIsConcat
<1>2. a \o Append(b, p) = (a \o b) \o <<p>>
  BY <1>1, ConcatAssociative
<1>3. a \o b \in Seq(Moving) /\ Len(a \o b) \in Nat
  BY Joined, LenProperties
<1>4. a \o Append(b, p) = Append(a \o b, p)
  BY <1>2, <1>3, AppendIsConcat
<1> QED BY <1>3, <1>4, AppendProperties

\* The first packet leaves.
LEMMA JoinedFirst ==
  ASSUME NEW a \in Seq(Moving), NEW b \in Seq(Moving), a # <<>>
  PROVE  LET t == a \o b
             u == Tail(a) \o b
         IN /\ Len(t) \in Nat /\ Len(t) >= 1 /\ Len(u) = Len(t) - 1 /\ t[1] = Head(a)
            /\ \A i \in 1 .. Len(u) : u[i] = t[i + 1]
<1> DEFINE t == a \o b
           u == Tail(a) \o b
<1>1. /\ Tail(a) \in Seq(Moving) /\ Len(Tail(a)) = Len(a) - 1
      /\ \A i \in 1 .. Len(Tail(a)) : Tail(a)[i] = a[i + 1]
  BY HeadTailProperties
<1>2. /\ Len(a) \in Nat /\ Len(b) \in Nat /\ Len(t) = Len(a) + Len(b)
      /\ \A i \in 1 .. Len(a) : t[i] = a[i]
      /\ \A i \in Len(a) + 1 .. Len(a) + Len(b) : t[i] = b[i - Len(a)]
  BY Joined
<1>3. /\ Len(u) = Len(Tail(a)) + Len(b)
      /\ \A i \in 1 .. Len(Tail(a)) : u[i] = Tail(a)[i]
      /\ \A i \in Len(Tail(a)) + 1 .. Len(Tail(a)) + Len(b) : u[i] = b[i - Len(Tail(a))]
  BY <1>1, Joined
<1>4. Len(a) >= 1 /\ Head(a) = a[1]
  BY <1>2, EmptySeq
<1> HIDE DEF t, u
<1>5. ASSUME NEW i \in 1 .. Len(u) PROVE u[i] = t[i + 1]
  <2>1. CASE i <= Len(a) - 1
    <3>1. i \in 1 .. Len(Tail(a)) /\ i + 1 \in 1 .. Len(a)
      BY <1>1, <1>2, <2>1
    <3> QED BY <1>1, <1>2, <1>3, <3>1
  <2>2. CASE i > Len(a) - 1
    <3>1. /\ i \in Len(Tail(a)) + 1 .. Len(Tail(a)) + Len(b)
          /\ i + 1 \in Len(a) + 1 .. Len(a) + Len(b)
          /\ i - Len(Tail(a)) = i + 1 - Len(a)
      BY <1>1, <1>2, <1>3, <2>2
    <3> QED BY <1>2, <1>3, <3>1
  <2> QED BY <1>2, <2>1, <2>2
<1>6. Len(t) \in Nat /\ Len(t) >= 1 /\ Len(u) = Len(t) - 1 /\ t[1] = Head(a)
  BY <1>1, <1>2, <1>3, <1>4
<1> QED BY <1>5, <1>6 DEF t, u

\* The server takes the first packet sent to it, and its answer is sent or lost.
LEMMA JoinedMiddle ==
  ASSUME NEW a \in Seq(Moving), NEW b \in Seq(Moving), b # <<>>, NEW p \in Moving
  PROVE  LET t == a \o b
             u == Append(a, p) \o Tail(b)
             w == a \o Tail(b)
             m == Len(a) + 1
         IN /\ Len(t) \in Nat /\ m \in 1 .. Len(t) /\ t[m] = Head(b)
            /\ Len(u) = Len(t) /\ u[m] = p
            /\ \A i \in 1 .. Len(t) : i # m => u[i] = t[i]
            /\ Len(w) = Len(t) - 1
            /\ \A i \in 1 .. Len(w) : w[i] = IF i < m THEN t[i] ELSE t[i + 1]
<1> DEFINE t == a \o b
           u == Append(a, p) \o Tail(b)
           w == a \o Tail(b)
           m == Len(a) + 1
<1>1. /\ Tail(b) \in Seq(Moving) /\ Len(Tail(b)) = Len(b) - 1
      /\ \A i \in 1 .. Len(Tail(b)) : Tail(b)[i] = b[i + 1]
  BY HeadTailProperties
<1>2. /\ Append(a, p) \in Seq(Moving) /\ Len(Append(a, p)) = m
      /\ \A i \in 1 .. Len(a) : Append(a, p)[i] = a[i]
      /\ Append(a, p)[m] = p
  BY AppendProperties
<1>3. /\ Len(a) \in Nat /\ Len(b) \in Nat /\ Len(t) = Len(a) + Len(b)
      /\ \A i \in 1 .. Len(a) : t[i] = a[i]
      /\ \A i \in Len(a) + 1 .. Len(a) + Len(b) : t[i] = b[i - Len(a)]
  BY Joined
<1>4. /\ Len(u) = m + Len(Tail(b))
      /\ \A i \in 1 .. m : u[i] = Append(a, p)[i]
      /\ \A i \in m + 1 .. m + Len(Tail(b)) : u[i] = Tail(b)[i - m]
  BY <1>1, <1>2, Joined
<1>5. /\ Len(w) = Len(a) + Len(Tail(b))
      /\ \A i \in 1 .. Len(a) : w[i] = a[i]
      /\ \A i \in Len(a) + 1 .. Len(a) + Len(Tail(b)) : w[i] = Tail(b)[i - Len(a)]
  BY <1>1, Joined
<1>6. Len(b) >= 1 /\ Head(b) = b[1]
  BY <1>3, EmptySeq
<1> HIDE DEF t, u, w, m
<1>7. m = Len(a) + 1 /\ m \in 1 .. Len(t)
  BY <1>3, <1>6 DEF m
<1>8. t[m] = Head(b) /\ u[m] = p
  <2>1. m \in Len(a) + 1 .. Len(a) + Len(b) /\ m - Len(a) = 1 /\ m \in 1 .. m
    BY <1>3, <1>6, <1>7
  <2> QED BY <1>2, <1>3, <1>4, <1>6, <2>1
<1>9. ASSUME NEW i \in 1 .. Len(t), i # m PROVE u[i] = t[i]
  <2>1. CASE i <= Len(a)
    <3>1. i \in 1 .. Len(a) /\ i \in 1 .. m
      BY <1>3, <1>7, <2>1
    <3> QED BY <1>2, <1>3, <1>4, <3>1
  <2>2. CASE i > Len(a)
    <3>1. /\ i \in m + 1 .. m + Len(Tail(b)) /\ i - m \in 1 .. Len(Tail(b))
          /\ i \in Len(a) + 1 .. Len(a) + Len(b) /\ (i - m) + 1 = i - Len(a)
      BY <1>1, <1>3, <1>7, <1>9, <2>2
    <3> QED BY <1>1, <1>3, <1>4, <3>1
  <2> QED BY <1>3, <2>1, <2>2
<1>10. ASSUME NEW i \in 1 .. Len(w) PROVE w[i] = IF i < m THEN t[i] ELSE t[i + 1]
  <2>1. CASE i < m
    <3>1. i \in 1 .. Len(a)
      BY <1>3, <1>7, <2>1
    <3> QED BY <1>3, <1>5, <2>1, <3>1
  <2>2. CASE ~(i < m)
    <3>1. /\ i \in Len(a) + 1 .. Len(a) + Len(Tail(b)) /\ i - Len(a) \in 1 .. Len(Tail(b))
          /\ i + 1 \in Len(a) + 1 .. Len(a) + Len(b) /\ (i - Len(a)) + 1 = (i + 1) - Len(a)
      BY <1>1, <1>3, <1>5, <1>7, <2>2
    <3> QED BY <1>1, <1>3, <1>5, <2>2, <3>1
  <2> QED BY <1>3, <1>5, <1>7, <2>1, <2>2
<1>11. Len(t) \in Nat /\ Len(u) = Len(t) /\ Len(w) = Len(t) - 1
  BY <1>1, <1>3, <1>4, <1>5, <1>7
<1> QED BY <1>7, <1>8, <1>9, <1>10, <1>11 DEF t, u, w, m

LEMMA OrderMoving ==
  ASSUME InOrder
  PROVE  /\ toClient \in Seq(Moving) /\ toServer \in Seq(Moving)
         /\ Replies \subseteq Moving /\ Packets \subseteq Moving
BY SeqMonotonic DEF InOrder, Moving

LEMMA FirstReply ==
  ASSUME InOrder, toClient # <<>>
  PROVE  Head(toClient) \in Replies /\ Head(toClient).result = Ok /\ Tail(toClient) \in Seq(Replies)
<1>1. Head(toClient) \in Replies /\ Tail(toClient) \in Seq(Replies)
  BY HeadTailProperties DEF InOrder
<1>2. PICK p \in Replies : p = Head(toClient)
  BY <1>1
<1>3. p.result = Ok
  BY DEF Replies
<1> QED BY <1>1, <1>2, <1>3

-----------------------------------------------------------------------------
(* The proof of patience.                                                  *)

\* What is expected stays so while the phase, the operation, the sequence number
\* and the places of the chunks do.
LEMMA ExpectedKept ==
  ASSUME phase' = phase, phase = "piece" => op'.kind = op.kind, seqNo' = seqNo,
         phase = "piece" => DOMAIN chunk' = DOMAIN chunk,
         phase = "piece" => \A k \in DOMAIN chunk :
           /\ chunk'[k].seq = chunk[k].seq /\ chunk'[k].start = chunk[k].start
           /\ chunk'[k].count = chunk[k].count
  PROVE  Expected' = Expected
<1>1. CASE phase = "piece"
  <2>1. /\ Expected = {[cmd |-> op.kind, seq |-> chunk[k].seq, start |-> chunk[k].start,
                        count |-> chunk[k].count] : k \in DOMAIN chunk}
        /\ Expected' = {[cmd |-> op'.kind, seq |-> chunk'[k].seq, start |-> chunk'[k].start,
                         count |-> chunk'[k].count] : k \in DOMAIN chunk'}
    BY <1>1 DEF Expected
  <2> QED BY <1>1, <2>1
<1>2. CASE phase # "piece"
  BY <1>2 DEF Expected
<1> QED BY <1>1, <1>2

\* A chunk that is done keeps its place.
LEMMA DonePlaces ==
  ASSUME NEW ck, ChunksOK(ck), TypedChunks(ck), NEW k \in DOMAIN ck, NEW data
  PROVE  LET new == [ck EXCEPT ![k].done = TRUE, ![k].data = data] IN
         /\ DOMAIN new = DOMAIN ck
         /\ \A j \in DOMAIN ck : /\ new[j].seq = ck[j].seq /\ new[j].start = ck[j].start
                                 /\ new[j].count = ck[j].count
<1> DEFINE new == [ck EXCEPT ![k].done = TRUE, ![k].data = data]
<1>1. DOMAIN new = DOMAIN ck /\ new[k] = [[ck[k] EXCEPT !.done = TRUE] EXCEPT !.data = data]
  BY DEF ChunksOK
<1>2. ck[k] = [x \in DOMAIN ck[k] |-> ck[k][x]] /\ {"start", "count", "seq"} \subseteq DOMAIN ck[k]
  BY DEF ChunksOK, TypedChunks
<1>3. /\ new[k].start = ck[k].start /\ new[k].count = ck[k].count /\ new[k].seq = ck[k].seq
  BY <1>1, <1>2
<1>4. \A j \in DOMAIN ck : j # k => new[j] = ck[j]
  BY DEF ChunksOK
<1> HIDE DEF new
<1> QED BY <1>1, <1>3, <1>4

\* The client starts to wait anew, or not at all.
Anew ==
  /\ outstanding' = 0 /\ remaining' \in Nat /\ count' = 0 /\ sent' \in BOOLEAN
  /\ phase' = "piece" => remaining' >= 1
  /\ phase' = "query" => ~sent'
  /\ last'.status # "timeout"

LEMMA BeginAnew ==
  ASSUME NEW o, NEW start, NEW n \in Nat \ {0}, BeginPiece(o, Chunks(start, n)),
         sent' \in BOOLEAN, last'.status # "timeout"
  PROVE  Anew
<1>1. Len(Chunks(start, n)) \in Nat /\ Len(Chunks(start, n)) >= 1
  BY NewChunks
<1> QED BY <1>1 DEF BeginPiece, Anew

LEMMA ReturnAnew ==
  ASSUME NEW status, NEW got, Return(status, got), status # "timeout"
  PROVE  Anew
<1>1. last'.status = status
  BY DEF Return
<1> QED BY <1>1 DEF Return, Anew

LEMMA EndsAnew ==
  ASSUME IInv, phase = "piece", sent \in BOOLEAN, last.status # "timeout",
         NEW ck, PieceEnds(ck, 0)
  PROVE  Anew
<1> DEFINE n == Lesser(op.left, PieceSize)
           rest == [op EXCEPT !.start = @ + n, !.left = @ - n,
                      !.got = IF op.kind = "read" THEN @ \o Data(ck, n) ELSE @]
<1>1. CASE /\ rest.left > 0 /\ UNCHANGED <<sent, last, may>>
           /\ BeginPiece(rest, Chunks(rest.start, Lesser(rest.left, PieceSize)))
  <2>1. n \in Nat /\ op.left \in Nat /\ rest.left = op.left - n
    BY UdpAssumption DEF IInv, Lesser
  <2>2. Lesser(rest.left, PieceSize) \in Nat \ {0}
    BY <1>1, <2>1, UdpAssumption DEF Lesser
  <2> HIDE DEF rest
  <2> QED BY <1>1, <2>2, BeginAnew
<1>2. CASE \E got : Return("ok", got)
  BY <1>2, ReturnAnew
<1>3. CASE BeginQuery
  BY <1>3 DEF BeginQuery, Anew
<1> QED BY <1>1, <1>2, <1>3 DEF PieceEnds

LEMMA AnewPatient ==
  ASSUME Anew, trouble' \in 0 .. MaxTrouble, Len(InTransit') \in Nat,
         Len(InTransit') <= trouble'
  PROVE  Patience'
<1>1. Owed' = 0 /\ ~Waits'
  <2>1. phase' = "piece" => MaySend'
    BY UdpAssumption DEF Anew, MaySend
  <2> QED BY <2>1 DEF Anew, Owed, Waits
<1>2. StaleUpTo(Len(InTransit))'
  BY <1>1, UdpAssumption DEF Anew, StaleUpTo
<1> QED BY <1>1, <1>2 DEF Anew, Patience

\* The rest of the client's state, which a step may touch.
Tidy == outstanding' <= remaining' /\ sent' \in BOOLEAN /\ last'.status # "timeout"

\* A packet is sent or lost.
LEMMA SendPatient ==
  ASSUME InOrder, Patience, NEW p \in Packets, Send(toServer, p), toClient' = toClient,
         Key(p) \in Expected', Expected' = Expected, count' = count,
         Owed \in Nat, Owed' = Owed + 1, Tidy, Endless = FALSE
  PROVE  Patience'
<1>1. /\ toClient \in Seq(Moving) /\ toServer \in Seq(Moving) /\ p \in Moving
  BY OrderMoving
<1>2. PICK v \in Nat : StaleUpTo(v)
  BY DEF Patience
<1>3. /\ trouble \in 0 .. MaxTrouble /\ trouble \in Nat /\ count \in Nat
      /\ Len(InTransit) <= Owed + trouble
  BY UdpAssumption DEF Patience
<1>4. /\ v <= trouble /\ v <= Len(InTransit) /\ count + v <= trouble + 2
      /\ \A i \in v + 1 .. Len(InTransit) : Key(InTransit[i]) \in Expected
  BY <1>2, <1>3 DEF StaleUpTo, Current
<1>5. Len(InTransit) \in Nat
  BY <1>1, JoinedLast DEF InTransit
<1>6. CASE toServer' = Append(toServer, p) /\ trouble' = trouble
  <2>0. /\ Len(InTransit') = Len(InTransit) + 1 /\ InTransit'[Len(InTransit) + 1] = p
        /\ \A i \in 1 .. Len(InTransit) : InTransit'[i] = InTransit[i]
    BY <1>1, <1>6, JoinedLast DEF InTransit
  <2>1. \A i \in v + 1 .. Len(InTransit') : Key(InTransit'[i]) \in Expected'
    <3> SUFFICES ASSUME NEW i \in v + 1 .. Len(InTransit')
                 PROVE  Key(InTransit'[i]) \in Expected'
      OBVIOUS
    <3>1. CASE i = Len(InTransit) + 1
      BY <2>0, <3>1
    <3>2. CASE i # Len(InTransit) + 1
      <4>1. i \in v + 1 .. Len(InTransit) /\ i \in 1 .. Len(InTransit)
        BY <1>5, <2>0, <3>2
      <4> QED BY <1>4, <2>0, <4>1
    <3> QED BY <3>1, <3>2
  <2>2. v \in 0 .. Len(InTransit') /\ v # Len(InTransit') /\ count' + v <= trouble' + 2
    BY <1>3, <1>4, <1>5, <1>6, <2>0
  <2>3. StaleUpTo(v)'
    BY <1>3, <1>4, <1>6, <2>1, <2>2 DEF StaleUpTo, Current
  <2> QED BY <1>3, <1>5, <1>6, <2>0, <2>3 DEF Patience, Tidy
<1>7. CASE toServer' = toServer /\ trouble < MaxTrouble /\ trouble' = trouble + 1
  <2>1. InTransit' = InTransit
    BY <1>7 DEF InTransit
  <2>2. v \in 0 .. Len(InTransit') /\ v <= trouble' /\ count' + v + 1 <= trouble' + 2
    BY <1>3, <1>4, <1>5, <1>7, <2>1
  <2>3. StaleUpTo(v)'
    BY <1>3, <1>4, <1>7, <2>1, <2>2 DEF StaleUpTo, Current
  <2>4. trouble' \in 0 .. MaxTrouble
    BY <1>3, <1>7, UdpAssumption
  <2> QED BY <1>3, <1>7, <1>5, <2>1, <2>3, <2>4 DEF Patience, Tidy
<1> QED BY <1>6, <1>7 DEF Send, Trouble

\* The client waits in vain.
LEMMA TimeoutPatient ==
  ASSUME InOrder, Patience, NothingArrives, UNCHANGED <<toClient, toServer>>, Waits,
         MaxTrouble + 2 < Retry, Endless = FALSE
  PROVE  /\ count + 1 < Retry
         /\ /\ Expected' = Expected /\ count' = count + 1 /\ ~Waits' /\ Tidy
            /\ Owed \in Int /\ Owed' = Owed - 1 /\ Owed' >= 0
            => Patience'
<1>1. /\ toClient \in Seq(Moving) /\ toServer \in Seq(Moving)
  BY OrderMoving
<1>2. PICK v \in Nat : StaleUpTo(v)
  BY DEF Patience
<1>3. /\ trouble \in 0 .. MaxTrouble /\ trouble \in Nat /\ count \in Nat
      /\ Len(InTransit) <= Owed + trouble /\ MaxTrouble \in Nat /\ Retry \in Nat
  BY UdpAssumption DEF Patience
<1>4. /\ v <= trouble /\ v <= Len(InTransit) /\ count + v <= trouble + 2
      /\ v = Len(InTransit) => count + v + 1 <= trouble + 2
      /\ \A i \in v + 1 .. Len(InTransit) : Key(InTransit[i]) \in Expected
  BY <1>2, <1>3 DEF StaleUpTo, Current
<1>5. InTransit' = InTransit /\ Len(InTransit) \in Nat
  BY <1>1, Joined, LenProperties DEF InTransit
<1>6. \/ toServer = <<>> /\ toClient = <<>> /\ trouble' = trouble
      \/ trouble < MaxTrouble /\ trouble' = trouble + 1
  BY DEF NothingArrives, Trouble
<1>7. toServer = <<>> /\ toClient = <<>> => Len(InTransit) = 0
  BY <1>1, Joined, EmptySeq DEF InTransit
<1>8. count + 1 + v <= trouble' + 2 /\ trouble' \in 0 .. MaxTrouble /\ count + 1 <= MaxTrouble + 2
  BY <1>3, <1>4, <1>5, <1>6, <1>7
<1>9. count + 1 < Retry
  BY <1>3, <1>8
<1>10. ASSUME Expected' = Expected, count' = count + 1, ~Waits', Tidy,
              Owed \in Int, Owed' = Owed - 1, Owed' >= 0
       PROVE  Patience'
  <2>1. v <= trouble' /\ Len(InTransit) <= Owed' + trouble' /\ trouble' \in Nat
    BY <1>3, <1>4, <1>5, <1>6, <1>7, <1>10
  <2>2. v \in 0 .. Len(InTransit')
    BY <1>4, <1>5
  <2>4. count' + v <= trouble' + 2
    BY <1>8, <1>10
  <2>3. StaleUpTo(v)'
    BY <1>4, <1>5, <1>10, <2>1, <2>2, <2>4 DEF StaleUpTo, Current
  <2> QED BY <1>3, <1>5, <1>8, <1>10, <2>1, <2>3 DEF Patience, Tidy
<1> QED BY <1>9, <1>10

\* The client takes an answer that it does not expect, or one that it does.
LEMMA ReceivePatient ==
  ASSUME InOrder, Patience, toClient # <<>>, toClient' = Tail(toClient),
         toServer' = toServer, trouble' = trouble, MaxTrouble + 2 < Retry
  PROVE  /\ Len(InTransit) \in Nat /\ Len(InTransit') = Len(InTransit) - 1
         /\ Key(Head(toClient)) \notin Expected => count + 1 < Retry
         /\ /\ Expected' = Expected /\ Tidy /\ (Waits' => Waits)
            /\ \/ Key(Head(toClient)) \notin Expected /\ count' = count + 1
               \/ count' = 1
            /\ Len(InTransit') <= Owed' + trouble
            => Patience'
<1>1. /\ toClient \in Seq(Moving) /\ toServer \in Seq(Moving)
  BY OrderMoving
<1>2. PICK v \in Nat : StaleUpTo(v)
  BY DEF Patience
<1>3. /\ trouble \in 0 .. MaxTrouble /\ trouble \in Nat /\ count \in Nat
      /\ MaxTrouble \in Nat /\ Retry \in Nat
  BY UdpAssumption DEF Patience
<1>4. /\ v <= trouble /\ v <= Len(InTransit) /\ count + v <= trouble + 2
      /\ Waits /\ v = Len(InTransit) => count + v + 1 <= trouble + 2
      /\ \A i \in v + 1 .. Len(InTransit) : Key(InTransit[i]) \in Expected
  BY <1>2, <1>3 DEF StaleUpTo, Current
<1>5. /\ Len(InTransit) \in Nat /\ Len(InTransit) >= 1 /\ InTransit[1] = Head(toClient)
      /\ Len(InTransit') = Len(InTransit) - 1
      /\ \A i \in 1 .. Len(InTransit') : InTransit'[i] = InTransit[i + 1]
  BY <1>1, JoinedFirst DEF InTransit
<1>6. Key(Head(toClient)) \notin Expected => v >= 1
  BY <1>4, <1>5
<1>7. Key(Head(toClient)) \notin Expected => count + 1 < Retry
  BY <1>3, <1>4, <1>6
<1>8. ASSUME Expected' = Expected, Tidy, Waits' => Waits,
             \/ Key(Head(toClient)) \notin Expected /\ count' = count + 1
             \/ count' = 1,
             Len(InTransit') <= Owed' + trouble
      PROVE  Patience'
  <2> DEFINE w == IF v = 0 THEN 0 ELSE v - 1
  <2>1. w \in Nat /\ w <= trouble /\ w <= Len(InTransit') /\ w <= v /\ v <= w + 1
        /\ (v >= 1 => v = w + 1)
    BY <1>3, <1>4, <1>5
  <2>2. \A i \in w + 1 .. Len(InTransit') : Key(InTransit'[i]) \in Expected'
    <3> SUFFICES ASSUME NEW i \in w + 1 .. Len(InTransit')
                 PROVE  Key(InTransit'[i]) \in Expected'
      OBVIOUS
    <3> HIDE DEF w
    <3>1. i \in 1 .. Len(InTransit') /\ i + 1 \in v + 1 .. Len(InTransit)
      BY <1>5, <2>1
    <3> QED BY <1>4, <1>5, <1>8, <3>1
  <2> HIDE DEF w
  <2>3. CASE Key(Head(toClient)) \notin Expected /\ count' = count + 1
    <3>1. v = w + 1 /\ count' \in Nat
      BY <1>3, <1>6, <2>1, <2>3
    <3>2. count' + w <= trouble + 2
      BY <1>3, <1>4, <2>1, <2>3, <3>1
    <3>3. Waits' /\ w = Len(InTransit') => count' + w + 1 <= trouble + 2
      BY <1>3, <1>4, <1>5, <1>8, <2>1, <2>3, <3>1
    <3>4. StaleUpTo(w)'
      BY <1>5, <2>1, <2>2, <3>2, <3>3 DEF StaleUpTo, Current
    <3> QED BY <1>3, <1>8, <2>1, <3>1, <3>4 DEF Patience, Tidy
  <2>4. CASE count' = 1
    <3>1. count' \in Nat /\ count' + w + 1 <= trouble + 2 /\ count' + w <= trouble + 2
      BY <1>3, <1>4, <2>1, <2>4
    <3>4. StaleUpTo(w)'
      BY <1>5, <2>1, <2>2, <3>1 DEF StaleUpTo, Current
    <3> QED BY <1>3, <1>8, <2>1, <3>1, <3>4 DEF Patience, Tidy
  <2> QED BY <1>8, <2>3, <2>4
<1> QED BY <1>5, <1>7, <1>8

\* The server serves a request.
LEMMA ServePatient ==
  ASSUME AtaFails = FALSE, Endless = FALSE, SvrOK(svr), InOrder, Patience, Owed \in Int,
         ServerStep
  PROVE  InOrder' /\ Patience'
<1>1. /\ toClient \in Seq(Moving) /\ toServer \in Seq(Moving)
      /\ Replies \subseteq Moving /\ Packets \subseteq Moving
  BY OrderMoving
<1>2. PICK v \in Nat : StaleUpTo(v)
  BY DEF Patience
<1>3. /\ trouble \in 0 .. MaxTrouble /\ trouble \in Nat /\ count \in Nat
      /\ MaxTrouble \in Nat /\ Len(InTransit) <= Owed + trouble
  BY UdpAssumption DEF Patience
<1>4. /\ v <= trouble /\ v <= Len(InTransit) /\ count + v <= trouble + 2
      /\ Waits /\ v = Len(InTransit) => count + v + 1 <= trouble + 2
      /\ \A i \in v + 1 .. Len(InTransit) : Key(InTransit[i]) \in Expected
  BY <1>2, <1>3 DEF StaleUpTo, Current
<1>5. /\ toServer # <<>> /\ Head(toServer) \in Packets /\ Tail(toServer) \in Seq(Packets)
      /\ toServer' = Tail(toServer)
  BY HeadTailProperties DEF ServerStep, InOrder
<1>6. PICK a \in SvrRequest(svr, Head(toServer)) :
        Send(toClient, [Head(toServer) EXCEPT !.result = a.result, !.data = a.data])
  BY DEF ServerStep
<1> DEFINE p == [Head(toServer) EXCEPT !.result = a.result, !.data = a.data]
           m == Len(toClient) + 1
<1>7. p \in Replies /\ Key(p) = Key(Head(toServer))
  <2>1. a.result = Ok /\ a.data \in Seq(Int)
    BY <1>5, RequestCalm
  <2>2. PICK data \in Seq(Int) : p = [Head(toServer) EXCEPT !.result = Ok, !.data = data]
    BY <2>1
  <2> HIDE DEF p
  <2>3. /\ p \in Replies /\ p.cmd = Head(toServer).cmd /\ p.seq = Head(toServer).seq
        /\ p.start = Head(toServer).start /\ p.count = Head(toServer).count
    BY <1>5, <2>2, ReplyCalm
  <2> QED BY <2>3 DEF Key
<1> HIDE DEF p
<1>8. /\ Waits' = Waits /\ Owed' = Owed /\ Expected' = Expected /\ Tidy /\ count' = count
  BY DEF ServerStep, piece, Patience, Tidy, Waits, MaySend, Owed, Expected
<1>9. Send(toClient, p)
  BY <1>6 DEF p
<1>10. /\ Len(InTransit) \in Nat /\ m \in 1 .. Len(InTransit)
       /\ InTransit[m] = Head(toServer)
  BY <1>1, <1>5, <1>7, JoinedMiddle DEF InTransit
<1>11. CASE toClient' = Append(toClient, p) /\ trouble' = trouble
  <2>1. /\ Len(InTransit') = Len(InTransit) /\ InTransit'[m] = p
        /\ \A i \in 1 .. Len(InTransit) : i # m => InTransit'[i] = InTransit[i]
    BY <1>1, <1>5, <1>7, <1>11, JoinedMiddle DEF InTransit
  <2> HIDE DEF m
  <2>2. \A i \in v + 1 .. Len(InTransit') : Key(InTransit'[i]) \in Expected'
    BY <1>4, <1>7, <1>8, <1>10, <2>1
  <2>3. StaleUpTo(v)'
    BY <1>4, <1>8, <1>10, <1>11, <2>1, <2>2 DEF StaleUpTo, Current
  <2>4. InOrder'
    BY <1>5, <1>7, <1>11, AppendProperties DEF InOrder
  <2> QED BY <1>3, <1>8, <1>11, <2>1, <2>3, <2>4 DEF Patience, Tidy
<1>12. CASE toClient' = toClient /\ trouble < MaxTrouble /\ trouble' = trouble + 1
  <2>1. /\ Len(InTransit') = Len(InTransit) - 1
        /\ \A i \in 1 .. Len(InTransit') :
             InTransit'[i] = IF i < m THEN InTransit[i] ELSE InTransit[i + 1]
    BY <1>1, <1>5, <1>7, <1>12, JoinedMiddle DEF InTransit
  <2> HIDE DEF m
  <2>0. PICK w \in Int : w = IF m <= v THEN v - 1 ELSE v
    OBVIOUS
  <2>2. w \in 0 .. Len(InTransit') /\ w <= v /\ w <= trouble' /\ w \in Nat
    BY <1>3, <1>4, <1>10, <1>12, <2>0, <2>1
  <2>3. \A i \in w + 1 .. Len(InTransit') : Key(InTransit'[i]) \in Expected'
    <3> SUFFICES ASSUME NEW i \in w + 1 .. Len(InTransit')
                 PROVE  Key(InTransit'[i]) \in Expected'
      OBVIOUS
    <3>0. i \in 1 .. Len(InTransit')
      BY <2>2
    <3>1. CASE i < m
      <4>1. i \in v + 1 .. Len(InTransit) /\ InTransit'[i] = InTransit[i]
        BY <1>10, <2>0, <2>1, <3>0, <3>1
      <4> QED BY <1>4, <1>8, <4>1
    <3>2. CASE ~(i < m)
      <4>1. i + 1 \in v + 1 .. Len(InTransit) /\ InTransit'[i] = InTransit[i + 1]
        BY <1>10, <2>0, <2>1, <3>0, <3>2
      <4> QED BY <1>4, <1>8, <4>1
    <3> QED BY <3>1, <3>2
  <2>4. count + w + 1 <= trouble' + 2 /\ count + w <= trouble' + 2 /\ trouble' \in 0 .. MaxTrouble
    BY <1>3, <1>4, <1>12, <2>2
  <2>5. StaleUpTo(w)'
    BY <1>8, <2>2, <2>3, <2>4 DEF StaleUpTo, Current
  <2>6. InOrder'
    BY <1>5, <1>12 DEF InOrder
  <2>7. Len(InTransit') <= Owed' + trouble'
    BY <1>3, <1>8, <1>10, <1>12, <2>1
  <2> QED BY <1>3, <1>8, <2>2, <2>4, <2>5, <2>6, <2>7 DEF Patience, Tidy
<1> QED BY <1>9, <1>11, <1>12 DEF Send, Trouble

\* what is owed and expected
LEMMA OwedInt ==
  ASSUME IInv, Patience
  PROVE  Owed \in Nat /\ (phase = "piece" => Owed = outstanding)
BY UdpAssumption DEF IInv, Patience, Owed

\* A new piece, the query or the end of an operation begins with nothing owed.
LEMMA ClientPatient ==
  ASSUME Calm, NetInv, InOrder, Patience, StartRead \/ StartWrite \/ ClientStep
  PROVE  InOrder' /\ Patience'
<1>0. /\ IInv /\ ClientOK /\ AtaFails = FALSE /\ Endless = FALSE /\ MaxTrouble + 2 < Retry
      /\ MaxTrouble \in Nat /\ Retry \in Nat
      /\ trouble \in 0 .. MaxTrouble /\ sent \in BOOLEAN /\ last.status # "timeout"
      /\ outstanding <= remaining /\ Len(InTransit) <= Owed + trouble
      /\ Owed \in Nat /\ (phase = "piece" => Owed = outstanding)
      /\ outstanding \in 0 .. Window /\ remaining \in Nat
  BY UdpAssumption, OwedInt DEF Calm, NetInv, Patience, IInv
<1>a. toServer' \in Seq(Packets)
  BY ClientNet DEF NetInv
<1>b. Len(InTransit) \in Nat
  BY OrderMoving, Joined, LenProperties DEF InTransit
<1>1. CASE StartRead \/ StartWrite
  <2>1. /\ UNCHANGED <<toClient, toServer, trouble, sent>> /\ phase = "idle"
        /\ last' = NoResult
    BY <1>1 DEF StartRead, StartWrite, server
  <2>2. PICK kind \in {"read", "write"}, r \in Requests : Begin(kind, r[1], r[2])
    BY <1>1 DEF StartRead, StartWrite
  <2>3. Lesser(r[2], PieceSize) \in Nat \ {0}
    BY UdpAssumption DEF Lesser
  <2>4. Anew
    BY <1>0, <2>1, <2>2, <2>3, BeginAnew DEF Begin, NoResult
  <2>5. InTransit' = InTransit /\ InOrder'
    BY <2>1 DEF InTransit, InOrder
  <2>6. Owed = 0
    BY <2>1 DEF Owed
  <2> QED BY <1>0, <1>b, <2>1, <2>4, <2>5, <2>6, AnewPatient
<1>2. CASE SendChunk
  <2>1. /\ phase = "piece" /\ MaySend /\ outstanding' = outstanding + 1
        /\ UNCHANGED <<svr, toClient, phase, op, chunk, remaining, count, sent, seqNo, last>>
    BY <1>2 DEF SendChunk
  <2>2. PICK i \in 0 .. Len(chunk) - 1 :
          LET ck == chunk[((next + i) % Len(chunk)) + 1] IN
          Send(toServer, [cmd |-> op.kind, seq |-> ck.seq, start |-> ck.start,
                          count |-> ck.count, result |-> 0,
                          data |-> IF op.kind = "write" THEN op.version ELSE 0])
    BY <1>2 DEF SendChunk
  <2> DEFINE k == ((next + i) % Len(chunk)) + 1
             p == [cmd |-> op.kind, seq |-> chunk[k].seq, start |-> chunk[k].start,
                   count |-> chunk[k].count, result |-> 0,
                   data |-> IF op.kind = "write" THEN op.version ELSE 0]
  <2>3. k \in DOMAIN chunk
    <3>1. Len(chunk) \in Nat /\ Len(chunk) >= 1 /\ next + i \in Nat /\ DOMAIN chunk = 1 .. Len(chunk)
      BY <1>0, <2>2 DEF ClientOK, TypedChunks
    <3>2. (next + i) % Len(chunk) \in 0 .. Len(chunk) - 1
      BY <3>1
    <3> QED BY <3>1, <3>2
  <2> HIDE DEF k
  <2>4. p \in Packets
    <3>1. TypedOp(op)
      BY <1>0, <2>1 DEF ClientOK
    <3> QED BY <1>0, <2>3, <3>1 DEF ClientOK, TypedChunks, TypedOp, Packets
  <2>5. Key(p) \in Expected
    BY <2>1, <2>3 DEF Key, Expected
  <2>6. Expected' = Expected
    BY <2>1, ExpectedKept
  <2>7. Owed' = Owed + 1
    BY <1>0, <2>1 DEF Owed
  <2>8. outstanding' <= remaining'
    BY <1>0, <2>1 DEF MaySend
  <2>9. Send(toServer, p)
    BY <2>2 DEF k
  <2> HIDE DEF p
  <2>10. Patience'
    BY <1>0, <2>1, <2>4, <2>5, <2>6, <2>7, <2>8, <2>9, SendPatient DEF Tidy
  <2> QED BY <1>a, <2>1, <2>10 DEF InOrder
<1>3. CASE ReceivePiece
  <2> DEFINE packet == Head(toClient)
             k == CHOOSE k \in Matches(packet) : TRUE
             new == [chunk EXCEPT ![k].done = TRUE, ![k].data = packet.data]
  <2>1. /\ phase = "piece" /\ ~MaySend /\ toClient # <<>> /\ toClient' = Tail(toClient)
        /\ UNCHANGED <<svr, toServer, trouble>>
    BY <1>3 DEF ReceivePiece
  <2>2. packet \in Replies /\ packet.result = Ok /\ InOrder'
    BY <1>a, <2>1, FirstReply DEF InOrder
  <2>3. /\ Len(InTransit') = Len(InTransit) - 1
        /\ Key(packet) \notin Expected => count + 1 < Retry
    BY <1>0, <2>1, ReceivePatient
  <2>4. Matches(packet) = {} => Key(packet) \notin Expected
    BY <2>1, <2>2 DEF Matches, Key, Expected
  <2>5. 0 + 1 < Retry /\ Waits /\ remaining >= 1 /\ outstanding >= 1 /\ ChunksOK(chunk)
    BY <1>0, <2>1, Waiting DEF Waits, IInv
  <2>6. CASE Matches(packet) = {}
    <3>1. NextIteration(count, chunk, remaining, outstanding)
      BY <1>3, <2>6 DEF ReceivePiece
    <3>2. /\ count' = count + 1 /\ chunk' = chunk /\ remaining' = remaining
          /\ outstanding' = outstanding /\ UNCHANGED <<phase, op, sent, seqNo, last>>
      BY <2>3, <2>4, <2>5, <2>6, <3>1, <1>0 DEF NextIteration
    <3>3. Expected' = Expected
      BY <3>2, ExpectedKept
    <3>4. Tidy /\ Owed' = Owed
      BY <1>0, <2>1, <3>2 DEF Tidy, Owed
    <3>5. Len(InTransit') <= Owed' + trouble
      BY <1>0, <1>b, <2>3, <3>4
    <3> QED BY <1>0, <2>1, <2>2, <2>4, <2>5, <2>6, <3>2, <3>3, <3>4, <3>5, ReceivePatient
  <2>7. CASE Matches(packet) # {} /\ chunk[k].done
    <3>1. NextIteration(0, chunk, remaining, outstanding)
      BY <1>3, <2>2, <2>7 DEF ReceivePiece
    <3>2. /\ count' = 1 /\ chunk' = chunk /\ remaining' = remaining
          /\ outstanding' = outstanding /\ UNCHANGED <<phase, op, sent, seqNo, last>>
      BY <1>0, <2>5, <3>1 DEF NextIteration
    <3>3. Expected' = Expected
      BY <3>2, ExpectedKept
    <3>4. Tidy /\ Owed' = Owed
      BY <1>0, <2>1, <3>2 DEF Tidy, Owed
    <3>5. Len(InTransit') <= Owed' + trouble
      BY <1>0, <1>b, <2>3, <3>4
    <3> QED BY <1>0, <2>1, <2>2, <2>5, <3>2, <3>3, <3>4, <3>5, ReceivePatient
  <2>8. CASE Matches(packet) # {} /\ ~chunk[k].done
    <3>1. NextIteration(0, new, remaining - 1, outstanding - 1)
      BY <1>3, <2>2, <2>8 DEF ReceivePiece
    <3>2. k \in DOMAIN chunk /\ remaining - 1 \in Nat
      BY <1>0, <2>5, <2>8 DEF Matches
    <3>3. \/ /\ remaining - 1 > 0 /\ count' = 1 /\ chunk' = new /\ remaining' = remaining - 1
             /\ outstanding' = outstanding - 1 /\ UNCHANGED <<phase, op, sent, seqNo, last>>
          \/ remaining - 1 = 0 /\ PieceEnds(new, 0)
      <4> HIDE DEF new
      <4> QED BY <1>0, <2>5, <3>1, <3>2 DEF NextIteration
    <3>4. CASE remaining - 1 = 0 /\ PieceEnds(new, 0)
      <4>1. Anew
        BY <1>0, <2>1, <3>4, EndsAnew
      <4>2. Len(InTransit') <= trouble' /\ Len(InTransit') \in Nat /\ trouble' \in 0 .. MaxTrouble
        <5>1. Len(InTransit) >= 1
          BY <1>0, <2>1, OrderMoving, JoinedFirst DEF InTransit
        <5> QED BY <1>0, <1>b, <2>1, <2>3, <3>4, <5>1
      <4> QED BY <2>2, <4>1, <4>2, AnewPatient
    <3>5. CASE /\ remaining - 1 > 0 /\ count' = 1 /\ chunk' = new /\ remaining' = remaining - 1
               /\ outstanding' = outstanding - 1 /\ UNCHANGED <<phase, op, sent, seqNo, last>>
      <4>1. Expected' = Expected
        <5>1. DOMAIN chunk' = DOMAIN chunk /\ \A j \in DOMAIN chunk :
                /\ chunk'[j].seq = chunk[j].seq /\ chunk'[j].start = chunk[j].start
                /\ chunk'[j].count = chunk[j].count
          <6>1. DOMAIN new = DOMAIN chunk /\ \A j \in DOMAIN chunk :
                  /\ new[j].seq = chunk[j].seq /\ new[j].start = chunk[j].start
                  /\ new[j].count = chunk[j].count
            <7> HIDE DEF k
            <7> QED BY <1>0, <2>5, <3>2, DonePlaces DEF ClientOK
          <6> HIDE DEF new
          <6> QED BY <3>5, <6>1
        <5> QED BY <3>5, <5>1, ExpectedKept
      <4>2. Tidy
        BY <1>0, <3>5 DEF Tidy
      <4>3. Owed' = Owed - 1
        BY <1>0, <2>1, <3>5 DEF Owed
      <4>4. Len(InTransit') <= Owed' + trouble
        BY <1>0, <1>b, <2>3, <4>3
      <4> QED BY <1>0, <2>1, <2>2, <2>5, <3>5, <4>1, <4>2, <4>4, ReceivePatient
    <3> QED BY <3>3, <3>4, <3>5
  <2> QED BY <2>6, <2>7, <2>8
<1>4. CASE TimeoutPiece
  <2>1. /\ phase = "piece" /\ ~MaySend /\ NothingArrives /\ UNCHANGED <<toServer, toClient>>
        /\ NextIteration(count, chunk, remaining, outstanding - 1)
    BY <1>4 DEF TimeoutPiece, server
  <2>2. Waits /\ remaining >= 1 /\ outstanding >= 1
    BY <1>0, <2>1, Waiting DEF Waits, IInv
  <2>3. /\ count + 1 < Retry
        /\ /\ Expected' = Expected /\ count' = count + 1 /\ ~Waits' /\ Tidy
           /\ Owed \in Int /\ Owed' = Owed - 1 /\ Owed' >= 0
           => Patience'
    BY <1>0, <2>1, <2>2, TimeoutPatient
  <2>4. /\ count' = count + 1 /\ chunk' = chunk /\ remaining' = remaining
        /\ outstanding' = outstanding - 1 /\ UNCHANGED <<phase, op, sent, seqNo, last>>
    BY <1>0, <2>1, <2>2, <2>3 DEF NextIteration
  <2>5. Expected' = Expected
    BY <2>4, ExpectedKept
  <2>6. ~Waits' /\ Tidy
    BY <1>0, <2>1, <2>2, <2>4, UdpAssumption DEF Waits, MaySend, Tidy
  <2>7. Owed' = Owed - 1 /\ Owed' >= 0
    BY <1>0, <2>1, <2>2, <2>4 DEF Owed
  <2>8. Patience'
    BY <1>0, <2>3, <2>4, <2>5, <2>6, <2>7
  <2> QED BY <1>a, <2>1, <2>8 DEF InOrder
<1>5. CASE SendQuery
  <2> DEFINE p == [cmd |-> "sync", seq |-> seqNo, start |-> 0, count |-> 0, result |-> 0,
                   data |-> 0]
  <2>1. /\ phase = "query" /\ ~sent /\ sent' = TRUE /\ Send(toServer, p)
        /\ UNCHANGED <<svr, toClient, phase, op, chunk, next, remaining, outstanding, count,
                       seqNo, last>>
    BY <1>5 DEF SendQuery, piece
  <2>2. p \in Packets
    BY <1>0 DEF Packets, ClientOK
  <2>3. Key(p) \in Expected /\ Expected' = Expected
    BY <2>1 DEF Key, Expected
  <2>4. Owed' = Owed + 1 /\ Tidy
    BY <1>0, <2>1 DEF Owed, Tidy
  <2> HIDE DEF p
  <2>5. Patience'
    BY <1>0, <2>1, <2>2, <2>3, <2>4, SendPatient
  <2> QED BY <1>a, <2>1, <2>5 DEF InOrder
<1>6. CASE ReceiveQuery
  <2> DEFINE packet == Head(toClient)
  <2>1. /\ phase = "query" /\ sent /\ toClient # <<>> /\ toClient' = Tail(toClient)
        /\ UNCHANGED <<svr, toServer, seqNo, trouble>>
    BY <1>6 DEF ReceiveQuery
  <2>2. packet \in Replies /\ packet.result = Ok /\ InOrder'
    BY <1>a, <2>1, FirstReply DEF InOrder
  <2>3. /\ Len(InTransit') = Len(InTransit) - 1
        /\ Key(packet) \notin Expected => count + 1 < Retry
    BY <1>0, <2>1, ReceivePatient
  <2>4. Owed = 1 /\ Waits
    BY <2>1 DEF Owed, Waits
  <2>5. Len(InTransit') <= trouble
    BY <1>0, <1>b, <2>3, <2>4
  <2>6. CASE packet.cmd = "sync" /\ packet.seq = seqNo
    <3>1. EndOp("ok")
      BY <1>6, <2>2, <2>6 DEF ReceiveQuery
    <3>2. Anew
      BY <3>1, ReturnAnew DEF EndOp
    <3>3. Len(InTransit') \in Nat /\ trouble' \in 0 .. MaxTrouble
      <4>1. Len(InTransit) >= 1
        BY <1>0, <2>1, OrderMoving, JoinedFirst DEF InTransit
      <4> QED BY <1>0, <1>b, <2>1, <2>3, <4>1
    <3> QED BY <2>1, <2>2, <2>5, <3>2, <3>3, AnewPatient
  <2>7. CASE ~(packet.cmd = "sync" /\ packet.seq = seqNo)
    <3>1. Key(packet) \notin Expected
      BY <2>1, <2>7 DEF Key, Expected
    <3>2. QueryAgain
      BY <1>6, <2>7 DEF ReceiveQuery
    <3>3. /\ count' = count + 1 /\ sent' = FALSE
          /\ UNCHANGED <<phase, op, chunk, next, remaining, outstanding, last>>
      BY <2>3, <3>1, <3>2 DEF QueryAgain, piece
    <3>4. Expected' = Expected /\ Tidy /\ Owed' = 0
      BY <1>0, <2>1, <3>3 DEF Expected, Tidy, Owed
    <3>5. Len(InTransit') <= Owed' + trouble
      BY <1>0, <1>b, <2>3, <2>5, <3>4
    <3> QED BY <1>0, <2>1, <2>2, <2>4, <3>1, <3>3, <3>4, <3>5, ReceivePatient
  <2> QED BY <2>6, <2>7
<1>7. CASE TimeoutQuery
  <2>1. /\ phase = "query" /\ sent /\ NothingArrives /\ QueryAgain
        /\ UNCHANGED <<toServer, toClient, seqNo>>
    BY <1>7 DEF TimeoutQuery, server
  <2>2. Waits /\ Owed = 1
    BY <2>1 DEF Waits, Owed
  <2>3. /\ count + 1 < Retry
        /\ /\ Expected' = Expected /\ count' = count + 1 /\ ~Waits' /\ Tidy
           /\ Owed \in Int /\ Owed' = Owed - 1 /\ Owed' >= 0
           => Patience'
    BY <1>0, <2>1, <2>2, TimeoutPatient
  <2>4. /\ count' = count + 1 /\ sent' = FALSE
        /\ UNCHANGED <<phase, op, chunk, next, remaining, outstanding, last>>
    BY <2>1, <2>3 DEF QueryAgain, piece
  <2>5. Expected' = Expected /\ Tidy /\ Owed' = 0 /\ ~Waits'
    BY <1>0, <2>1, <2>4 DEF Expected, Tidy, Owed, Waits
  <2>6. Owed \in Int /\ Owed' = Owed - 1 /\ Owed' >= 0
    BY <2>2, <2>5
  <2>7. Patience'
    BY <2>3, <2>4, <2>5, <2>6
  <2> QED BY <1>a, <2>1, <2>7 DEF InOrder
<1> QED BY <1>1, <1>2, <1>3, <1>4, <1>5, <1>6, <1>7 DEF ClientStep

PInv == NetInv /\ InOrder /\ Patience

LEMMA InitPatient == Init => PInv
<1> SUFFICES ASSUME Init PROVE PInv
  OBVIOUS
<1>1. InOrder
  BY EmptySeq DEF Init, InOrder
<1>2. InTransit = <<>> /\ Len(InTransit) = 0
  BY DEF Init, InTransit
<1>3. Owed = 0 /\ ~Waits
  BY DEF Init, Owed, Waits
<1>4. StaleUpTo(0)
  BY <1>2, <1>3 DEF Init, StaleUpTo
<1>5. trouble \in 0 .. MaxTrouble /\ count \in Nat /\ outstanding <= remaining
      /\ Len(InTransit) <= Owed + trouble
  BY <1>2, <1>3, UdpAssumption DEF Init
<1>6. sent \in BOOLEAN /\ last.status # "timeout"
  BY DEF Init, NoResult
<1>7. Patience
  BY <1>4, <1>5, <1>6 DEF Patience
<1> QED BY <1>1, <1>7, InitNet DEF PInv

LEMMA StepPatient == Calm /\ PInv /\ [Next]_vars => PInv'
<1> SUFFICES ASSUME Calm, PInv, [Next]_vars PROVE PInv'
  OBVIOUS
<1>1. NetInv'
  BY StepNet DEF PInv
<1>2. CASE StartRead \/ StartWrite \/ ClientStep
  BY <1>1, <1>2, ClientPatient DEF PInv
<1>3. CASE ServerStep
  <2>1. /\ IInv /\ Patience /\ InOrder /\ SvrOK(svr) /\ AtaFails = FALSE
          /\ Endless = FALSE
    BY DEF PInv, NetInv, ServerOK, Calm
  <2>2. Owed \in Int
    BY <2>1, OwedInt
  <2>3. InOrder' /\ Patience'
    BY <1>3, <2>1, <2>2, ServePatient
  <2> QED BY <1>1, <2>3 DEF PInv
<1>4. CASE UNCHANGED vars
  BY <1>1, <1>4 DEF vars, PInv, InOrder, Patience, StaleUpTo, InTransit, Current, Expected,
                    Owed, Waits, MaySend
<1>5. ~Restart
  BY DEF Calm, Restart
<1> QED BY <1>2, <1>3, <1>4, <1>5 DEF Next

\* No operation times out while fewer packets are lost or late, in all, than the
\* client has patience for (three less than NET_RETRY_COUNT), for requests of
\* any length, any window and any buffers of the server.
THEOREM TroubleIsRiddenOut == Calm => (Spec => []RidesOutTrouble)
<1> SUFFICES ASSUME Calm PROVE Spec => []RidesOutTrouble
  OBVIOUS
<1>1. PInv => RidesOutTrouble
  BY DEF PInv, Patience, RidesOutTrouble
<1>2. PInv /\ [Next]_vars => PInv'
  BY StepPatient
<1> QED BY <1>1, <1>2, InitPatient, PTL DEF Spec
=============================================================================
