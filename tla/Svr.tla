-------------------------------- MODULE Svr --------------------------------
(***************************************************************************)
(* The network server on the console (svr/pktdrv/svr.c) as functions of    *)
(* its state: a request is served at once and answered with one packet.    *)
(* Writes are collected in a buffer that is written to the disk when it is *)
(* full, when a request does not fit into it, and on demand; reads go      *)
(* through a buffer of their own.  A sector holds the version of the data  *)
(* last written to it.                                                     *)
(***************************************************************************)
EXTENDS Integers, FiniteSets, Sequences

CONSTANTS Sectors,   \* of the disk
          RdSize,    \* sectors in the read buffer (64)
          WrSize,    \* sectors in the write buffer (256)
          NoSector,  \* (unsigned long)-1
          AtaFails   \* whether the disk may fail to read or to write

ASSUME SvrAssumption ==
  /\ Sectors \in Nat \ {0} /\ RdSize \in Nat \ {0, 1} /\ WrSize \in Nat \ {0, 1}
  /\ NoSector \in Nat /\ NoSector > Sectors + RdSize
  /\ (NoSector + 1) % RdSize = 0 /\ (NoSector + 1) % WrSize = 0
  /\ AtaFails \in BOOLEAN

Versions == Nat    \* 0 is what was on the disk before
Blank == -1        \* in a buffer that was never filled

SvrInit ==
  [disk     |-> [s \in 0 .. Sectors - 1 |-> 0],
   wrSector |-> NoSector, wrBuf |-> [i \in 0 .. WrSize - 1 |-> Blank],
   wrDirty  |-> {}, wrCount |-> 0,
   rdSector |-> NoSector, rdBuf |-> [i \in 0 .. RdSize - 1 |-> Blank]]

\* what a request comes to: the new state, the result and the data it returns
Answer(v, result, data) == [svr |-> v, result |-> result, data |-> data]
Ok == 0
Failed == 1

\* the request lies in the buffer of n sectors at sector at, which is aligned
Within(at, n, start, count) ==
  at % n = 0 /\ start >= at /\ start + count <= at + n

\* where the buffer goes for a request that is not within it: at a multiple of
\* its size, or at the request itself if that crosses the end
Align(n, start, count) ==
  LET at == start - (start % n) IN IF start + count > at + n THEN start ELSE at

-----------------------------------------------------------------------------
(* svr_sync_buffer: the runs of dirty sectors are written one by one; after *)
(* a failure all of them stay dirty, those that were written too.          *)

FlushedBelow(v, limit) ==
  [s \in DOMAIN v.disk |->
     IF s - v.wrSector \in v.wrDirty /\ s - v.wrSector < limit
     THEN v.wrBuf[s - v.wrSector] ELSE v.disk[s]]

RunStarts(v) == {i \in v.wrDirty : i - 1 \notin v.wrDirty}

SyncBuffer(v) ==
  {Answer([v EXCEPT !.disk = FlushedBelow(v, WrSize), !.wrDirty = {}, !.wrCount = 0],
          Ok, <<>>)}
  \cup
  IF AtaFails
  THEN {Answer([v EXCEPT !.disk = FlushedBelow(v, i)], Failed, <<>>) : i \in RunStarts(v)}
  ELSE {}

\* on to op when the write buffer is clean, or the failure to clean it
AfterSync(v, Op(_)) ==
  IF v.wrCount = 0 THEN Op(v)
  ELSE UNION {IF a.result = Ok THEN Op(a.svr) ELSE {a} : a \in SyncBuffer(v)}

-----------------------------------------------------------------------------
(* svr_read                                                                *)

Serve(v, start, count) ==
  Answer(v, Ok, [i \in 1 .. count |-> v.rdBuf[start + i - 1 - v.rdSector]])

Fill(v, start, count) ==
  LET at == Align(RdSize, start, count)
      filled == [v EXCEPT !.rdSector = at,
                   !.rdBuf = [i \in DOMAIN v.rdBuf |->
                                IF at + i < Sectors THEN v.disk[at + i] ELSE Blank]]
  IN {Serve(filled, start, count)}
     \cup IF AtaFails THEN {Answer([v EXCEPT !.rdSector = at], Failed, <<>>)} ELSE {}

SvrRead(v, start, count) ==
  IF Within(v.rdSector, RdSize, start, count) THEN {Serve(v, start, count)}
  ELSE AfterSync(v, LAMBDA w : Fill(w, start, count))

-----------------------------------------------------------------------------
(* svr_write                                                               *)

\* (mutated form of Invalidate: the BUG that the comment on svr_request tells)
InvalidateNot(v, start, count) == v

Invalidate(v, start, count) ==
  LET In(s) == s >= v.rdSector /\ s <= v.rdSector + RdSize
  IN IF In(start) \/ In(start + count) THEN [v EXCEPT !.rdSector = NoSector] ELSE v

\* a sector that is dirty already is not written again
Put(v, start, count, data) ==
  LET at == start - v.wrSector
      put == [v EXCEPT
                !.wrBuf = [i \in DOMAIN v.wrBuf |->
                             IF i \in at .. at + count - 1 THEN data ELSE v.wrBuf[i]],
                !.wrDirty = @ \cup (at .. at + count - 1),
                !.wrCount = @ + count]
  IN IF at \in v.wrDirty THEN {Answer(v, Ok, <<>>)}
     ELSE IF put.wrCount = WrSize THEN SyncBuffer(put)
     ELSE {Answer(put, Ok, <<>>)}

\* (mutated form of SvrWrite: the buffer is moved with what is dirty in it)
SvrWriteMoves(v, start, count, data) ==
  LET w == Invalidate(v, start, count)
  IN IF Within(w.wrSector, WrSize, start, count) THEN Put(w, start, count, data)
     ELSE Put([w EXCEPT !.wrSector = Align(WrSize, start, count)], start, count, data)

SvrWrite(v, start, count, data) ==
  LET w == Invalidate(v, start, count)
      Moved(u) == Put([u EXCEPT !.wrSector = Align(WrSize, start, count)],
                      start, count, data)
  IN IF Within(w.wrSector, WrSize, start, count) THEN Put(w, start, count, data)
     ELSE AfterSync(w, Moved)

-----------------------------------------------------------------------------
\* svr_request
SvrRequest(v, req) ==
  CASE req.cmd = "read"  -> SvrRead(v, req.start, req.count)
    [] req.cmd = "write" -> SvrWrite(v, req.start, req.count, req.data)
    [] req.cmd = "sync"  -> SyncBuffer(v)

\* what each sector holds, on the disk or in the write buffer
Content(v) == [s \in DOMAIN v.disk |->
                 IF s - v.wrSector \in v.wrDirty THEN v.wrBuf[s - v.wrSector] ELSE v.disk[s]]
=============================================================================
