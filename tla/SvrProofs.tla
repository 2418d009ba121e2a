----------------------------- MODULE SvrProofs ------------------------------
(***************************************************************************)
(* What a request does to the server, for disks and buffers of any size:   *)
(* no sector changes that is not written to, whichever writes of the disk  *)
(* fail, and the read buffer holds what the sectors do.  The argument: a   *)
(* sector that is dirty is in the write buffer until all of it is on the   *)
(* disk, and the buffer is moved only when nothing in it is dirty.         *)
(***************************************************************************)
EXTENDS Svr, TLAPS

States ==
  [disk : [0 .. Sectors - 1 -> Int], wrSector : Nat, wrBuf : [0 .. WrSize - 1 -> Int],
   wrDirty : SUBSET (0 .. WrSize - 1), wrCount : Nat,
   rdSector : Nat, rdBuf : [0 .. RdSize - 1 -> Int]]

\* the state of a server; its count is 0 only if nothing is dirty
SvrOK(v) == v \in States /\ (v.wrCount = 0 => v.wrDirty = {})

\* no sector changes
Same(v, w) == Content(w) = Content(v)

\* the read buffer, if it is in use, has what the sectors have
Fresh(v) ==
  v.rdSector % RdSize = 0 =>
    \A i \in 0 .. RdSize - 1 :
      v.rdSector + i < Sectors => v.rdBuf[i] = Content(v)[v.rdSector + i]

SameReadBuffer(v, w) == w.rdSector = v.rdSector /\ w.rdBuf = v.rdBuf

LEMMA InitOK == SvrOK(SvrInit) /\ (AtaFails = FALSE => Fresh(SvrInit))
<1>1. SvrOK(SvrInit)
  BY SvrAssumption DEF SvrOK, SvrInit, States, Blank
<1>2. Fresh(SvrInit)
  BY SvrAssumption DEF Fresh, SvrInit
<1> QED BY <1>1, <1>2

\* A sync, whichever of its writes fails, changes no sector; if none fails
\* nothing is dirty afterwards.
LEMMA SyncKeeps ==
  ASSUME NEW v, SvrOK(v), NEW a \in SyncBuffer(v)
  PROVE  /\ SvrOK(a.svr) /\ Same(v, a.svr) /\ SameReadBuffer(v, a.svr)
         /\ a.result = Ok => a.svr.wrDirty = {} /\ a.svr.disk = Content(a.svr)
         /\ a.result \in {Ok, Failed}
<1>1. CASE a = Answer([v EXCEPT !.disk = FlushedBelow(v, WrSize), !.wrDirty = {},
                                !.wrCount = 0], Ok, <<>>)
  <2>1. FlushedBelow(v, WrSize) = Content(v)
    BY SvrAssumption DEF FlushedBelow, Content, SvrOK, States
  <2>2. Content(v) \in [0 .. Sectors - 1 -> Int]
    BY SvrAssumption DEF Content, SvrOK, States
  <2>3. /\ a.svr.disk = Content(v) /\ a.svr.wrDirty = {} /\ a.svr.wrCount = 0
        /\ a.svr.rdSector = v.rdSector /\ a.svr.rdBuf = v.rdBuf
        /\ a.svr \in States
    BY <1>1, <2>1, <2>2 DEF Answer, SvrOK, States
  <2>4. Content(a.svr) = a.svr.disk
    BY <2>3 DEF Content, States
  <2> QED BY <1>1, <2>3, <2>4 DEF SvrOK, Same, SameReadBuffer, Answer
<1>2. CASE \E i \in RunStarts(v) :
             a = Answer([v EXCEPT !.disk = FlushedBelow(v, i)], Failed, <<>>)
  <2>1. PICK i \in RunStarts(v) :
          a = Answer([v EXCEPT !.disk = FlushedBelow(v, i)], Failed, <<>>)
    BY <1>2
  <2>2. FlushedBelow(v, i) \in [0 .. Sectors - 1 -> Int]
    BY DEF FlushedBelow, SvrOK, States
  <2>3. /\ a.svr \in States /\ a.svr.disk = FlushedBelow(v, i)
        /\ \A x \in {"wrSector", "wrBuf", "wrDirty", "wrCount", "rdSector", "rdBuf"} :
             a.svr[x] = v[x]
    BY <2>1, <2>2 DEF Answer, SvrOK, States
  <2>4. Content(a.svr) = Content(v)
    BY <2>3 DEF Content, FlushedBelow, SvrOK, States
  <2> QED BY <2>1, <2>3, <2>4 DEF SvrOK, Same, SameReadBuffer, Answer, Ok, Failed
<1> QED BY <1>1, <1>2 DEF SyncBuffer

\* What neither changes a sector nor the read buffer keeps the buffer fresh.
LEMMA SameFresh ==
  ASSUME NEW v, NEW w, Same(v, w), SameReadBuffer(v, w), Fresh(v)
  PROVE  Fresh(w)
BY DEF Same, SameReadBuffer, Fresh

\* The read buffer is filled from the disk when nothing is dirty.
LEMMA FillKeeps ==
  ASSUME NEW v, SvrOK(v), v.wrDirty = {},
         NEW start \in Nat, NEW count \in Nat, NEW a \in Fill(v, start, count)
  PROVE  /\ SvrOK(a.svr) /\ Same(v, a.svr)
         /\ ~AtaFails => Fresh(a.svr)
<1> DEFINE at == Align(RdSize, start, count)
           buf == [i \in DOMAIN v.rdBuf |->
                     IF at + i < Sectors THEN v.disk[at + i] ELSE Blank]
           filled == [v EXCEPT !.rdSector = at, !.rdBuf = buf]
<1>1. at \in Nat
  BY SvrAssumption DEF Align
<1>2. buf \in [0 .. RdSize - 1 -> Int]
  <2>1. v.disk \in [0 .. Sectors - 1 -> Int] /\ DOMAIN v.rdBuf = 0 .. RdSize - 1
    BY DEF SvrOK, States
  <2>2. \A i \in 0 .. RdSize - 1 :
          (IF at + i < Sectors THEN v.disk[at + i] ELSE Blank) \in Int
    <3> HIDE DEF at
    <3> QED BY <1>1, <2>1, SvrAssumption DEF Blank
  <2> QED BY <2>1, <2>2, Zenon
<1>3. CASE a = Serve(filled, start, count)
  <2>1. a.svr = filled
    BY <1>3 DEF Serve, Answer
  <2>2. filled \in States /\ filled.rdSector = at /\ filled.rdBuf = buf
        /\ \A x \in {"disk", "wrSector", "wrBuf", "wrDirty", "wrCount"} : filled[x] = v[x]
    BY <1>1, <1>2 DEF SvrOK, States
  <2>3. Content(filled) = Content(v) /\ Content(filled) = v.disk
    BY <2>2 DEF Content, SvrOK, States
  <2>4. Fresh(filled)
    BY <2>2, <2>3, SvrAssumption DEF Fresh, SvrOK, States
  <2> QED BY <2>1, <2>2, <2>3, <2>4 DEF SvrOK, Same
<1>4. CASE AtaFails /\ a = Answer([v EXCEPT !.rdSector = at], Failed, <<>>)
  <2>1. a.svr \in States
        /\ \A x \in {"disk", "wrSector", "wrBuf", "wrDirty", "wrCount"} : a.svr[x] = v[x]
    BY <1>1, <1>4 DEF Answer, SvrOK, States
  <2>2. Content(a.svr) = Content(v)
    BY <2>1 DEF Content, SvrOK, States
  <2> QED BY <1>4, <2>1, <2>2 DEF SvrOK, Same
<1> QED BY <1>3, <1>4 DEF Fill

\* A read changes no sector, and if the disk does not fail it finds or leaves
\* the read buffer fresh.
LEMMA ReadKeeps ==
  ASSUME NEW v, SvrOK(v), NEW start \in Nat, NEW count \in Nat,
         NEW a \in SvrRead(v, start, count)
  PROVE  /\ SvrOK(a.svr) /\ Same(v, a.svr)
         /\ ~AtaFails /\ Fresh(v) => Fresh(a.svr)
<1>1. CASE a = Serve(v, start, count)
  BY <1>1 DEF Serve, Answer, Same
<1>2. CASE v.wrCount = 0 /\ a \in Fill(v, start, count)
  BY <1>2, FillKeeps DEF SvrOK
<1>3. CASE \E b \in SyncBuffer(v) : b.result = Ok /\ a \in Fill(b.svr, start, count)
  <2>1. PICK b \in SyncBuffer(v) : b.result = Ok /\ a \in Fill(b.svr, start, count)
    BY <1>3
  <2>2. SvrOK(b.svr) /\ Same(v, b.svr) /\ b.svr.wrDirty = {}
    BY <2>1, SyncKeeps
  <2>3. /\ SvrOK(a.svr) /\ Same(b.svr, a.svr)
        /\ ~AtaFails => Fresh(a.svr)
    BY <2>1, <2>2, FillKeeps
  <2> QED BY <2>2, <2>3 DEF Same
<1>4. CASE a \in SyncBuffer(v)
  BY <1>4, SyncKeeps, SameFresh
<1>5. \/ a = Serve(v, start, count)
      \/ v.wrCount = 0 /\ a \in Fill(v, start, count)
      \/ \E b \in SyncBuffer(v) : b.result = Ok /\ a \in Fill(b.svr, start, count)
      \/ a \in SyncBuffer(v)
  BY DEF SvrRead, AfterSync
<1> QED BY <1>1, <1>2, <1>3, <1>4, <1>5

\* From v to w only the sectors written to change.
Wrote(v, w, start, count, data) ==
  \A s \in 0 .. Sectors - 1 :
    \/ Content(w)[s] = Content(v)[s]
    \/ s \in start .. start + count - 1 /\ Content(w)[s] = data

\* The read buffer has none of the sectors.
Apart(v, start, count) ==
  \A s \in start .. start + count - 1 :
    s < Sectors => s \notin v.rdSector .. v.rdSector + RdSize - 1

\* A read buffer that has some of the sectors is given up.
LEMMA InvalidateKeeps ==
  ASSUME NEW v, SvrOK(v), NEW start \in Nat, NEW count \in {1, 2}
  PROVE  LET w == Invalidate(v, start, count) IN
         /\ SvrOK(w) /\ Same(v, w) /\ Apart(w, start, count)
         /\ w.wrSector = v.wrSector /\ w.wrDirty = v.wrDirty /\ w.wrCount = v.wrCount
         /\ Fresh(v) => Fresh(w)
<1> DEFINE In(s) == s >= v.rdSector /\ s <= v.rdSector + RdSize
           w == Invalidate(v, start, count)
           given == [v EXCEPT !.rdSector = NoSector]
<1>1. CASE In(start) \/ In(start + count)
  <2>1. w = given
    BY <1>1 DEF Invalidate
  <2>2. given \in States /\ given.rdSector = NoSector
        /\ \A x \in {"disk", "wrSector", "wrBuf", "wrDirty", "wrCount"} : given[x] = v[x]
    BY SvrAssumption DEF SvrOK, States
  <2>3. Content(given) = Content(v)
    BY <2>2 DEF Content, SvrOK, States
  <2>4. Fresh(given) /\ Apart(given, start, count)
    BY <2>2, SvrAssumption DEF Fresh, Apart
  <2> QED BY <2>1, <2>2, <2>3, <2>4 DEF SvrOK, Same
<1>2. CASE ~(In(start) \/ In(start + count))
  <2>1. w = v
    BY <1>2 DEF Invalidate
  <2>2. Apart(v, start, count)
    <3>1. v.rdSector \in Nat /\ RdSize \in Nat /\ RdSize >= 2
      BY SvrAssumption DEF SvrOK, States
    <3>2. CASE count = 1
      BY <1>2, <3>1, <3>2 DEF Apart
    <3>3. CASE count = 2
      BY <1>2, <3>1, <3>3 DEF Apart
    <3> QED BY <3>2, <3>3
  <2> QED BY <2>1, <2>2 DEF Same
<1> QED BY <1>1, <1>2

\* Sectors are put into the write buffer, where it is.
LEMMA PutKeeps ==
  ASSUME NEW v, SvrOK(v), NEW start \in Nat, NEW count \in {1, 2}, NEW data \in Int,
         start - v.wrSector \in 0 .. WrSize - count,
         NEW a \in Put(v, start, count, data)
  PROVE  SvrOK(a.svr) /\ SameReadBuffer(v, a.svr) /\ Wrote(v, a.svr, start, count, data)
<1> DEFINE at == start - v.wrSector
           buf == [i \in DOMAIN v.wrBuf |->
                     IF i \in at .. at + count - 1 THEN data ELSE v.wrBuf[i]]
           put == [v EXCEPT !.wrBuf = buf, !.wrDirty = @ \cup (at .. at + count - 1),
                            !.wrCount = @ + count]
<1>0. /\ at \in Nat /\ buf \in [0 .. WrSize - 1 -> Int]
      /\ v.wrDirty \cup (at .. at + count - 1) \in SUBSET (0 .. WrSize - 1)
      /\ v.wrCount + count \in Nat \ {0}
  <2>1. v.wrSector \in Nat /\ v.wrCount \in Nat /\ v.wrDirty \subseteq 0 .. WrSize - 1
        /\ v.wrBuf \in [0 .. WrSize - 1 -> Int]
    BY DEF SvrOK, States
  <2>2. buf \in [0 .. WrSize - 1 -> Int]
    <3>1. DOMAIN v.wrBuf = 0 .. WrSize - 1
      BY <2>1
    <3>2. \A i \in 0 .. WrSize - 1 :
            (IF i \in at .. at + count - 1 THEN data ELSE v.wrBuf[i]) \in Int
      <4> HIDE DEF at
      <4> QED BY <2>1, Zenon
    <3> QED BY <3>1, <3>2, Zenon
  <2>3. at \in Nat /\ at .. at + count - 1 \subseteq 0 .. WrSize - 1
    <3>1. at \in Nat /\ at <= WrSize - count /\ WrSize \in Nat
      BY SvrAssumption
    <3> HIDE DEF at
    <3> QED BY <3>1
  <2> QED BY <2>1, <2>2, <2>3
<1>1. put \in States /\ put.wrBuf = buf /\ put.wrCount = v.wrCount + count
      /\ put.wrDirty = v.wrDirty \cup (at .. at + count - 1)
      /\ \A x \in {"disk", "wrSector", "rdSector", "rdBuf"} : put[x] = v[x]
  <2> HIDE DEF buf
  <2> QED BY <1>0 DEF SvrOK, States
<1>2. SvrOK(put) /\ SameReadBuffer(v, put)
  <2>1. put.wrCount # 0
    BY <1>0, <1>1
  <2>2. put.rdSector = v.rdSector /\ put.rdBuf = v.rdBuf
    BY <1>1
  <2> HIDE DEF put
  <2> QED BY <1>1, <2>1, <2>2 DEF SvrOK, SameReadBuffer
<1>3. Wrote(v, put, start, count, data)
  <2> SUFFICES ASSUME NEW s \in 0 .. Sectors - 1
               PROVE  \/ Content(put)[s] = Content(v)[s]
                      \/ s \in start .. start + count - 1 /\ Content(put)[s] = data
    BY DEF Wrote
  <2> DEFINE w == s - v.wrSector
  <2>1. /\ Content(v)[s] = IF w \in v.wrDirty THEN v.wrBuf[w] ELSE v.disk[s]
        /\ Content(put)[s] = IF w \in put.wrDirty THEN buf[w] ELSE v.disk[s]
    BY <1>1 DEF Content, SvrOK, States
  <2>2. CASE w \in at .. at + count - 1
    <3>1. w \in put.wrDirty /\ buf[w] = data
      BY <1>1, <2>2 DEF SvrOK, States
    <3>2. s \in start .. start + count - 1
      BY <2>2 DEF SvrOK, States
    <3> QED BY <2>1, <3>1, <3>2
  <2>3. CASE w \notin at .. at + count - 1
    <3>1. w \in put.wrDirty <=> w \in v.wrDirty
      BY <1>1, <2>3
    <3>2. w \in v.wrDirty => buf[w] = v.wrBuf[w]
      BY <2>3 DEF SvrOK, States
    <3> QED BY <2>1, <3>1, <3>2
  <2> QED BY <2>2, <2>3
<1>4. \/ a.svr = v
      \/ a.svr = put
      \/ a \in SyncBuffer(put)
  BY DEF Put, Answer
<1>5. CASE a.svr = v
  BY <1>5 DEF SameReadBuffer, Wrote
<1>6. CASE a.svr = put
  BY <1>2, <1>3, <1>6
<1>7. CASE a \in SyncBuffer(put)
  <2>1. SvrOK(a.svr) /\ Same(put, a.svr) /\ SameReadBuffer(put, a.svr)
    BY <1>2, <1>7, SyncKeeps
  <2> QED BY <1>2, <1>3, <2>1 DEF Same, SameReadBuffer, Wrote
<1> QED BY <1>4, <1>5, <1>6, <1>7

\* A buffer in which nothing is dirty is moved to a request.
LEMMA MoveKeeps ==
  ASSUME NEW v, SvrOK(v), v.wrDirty = {}, NEW start \in Nat, NEW count \in {1, 2}
  PROVE  LET m == [v EXCEPT !.wrSector = Align(WrSize, start, count)] IN
         /\ SvrOK(m) /\ Same(v, m) /\ SameReadBuffer(v, m)
         /\ start - m.wrSector \in 0 .. WrSize - count
<1> DEFINE at == Align(WrSize, start, count)
           m == [v EXCEPT !.wrSector = at]
<1>1. at \in Nat /\ start - at \in 0 .. WrSize - count
  BY SvrAssumption DEF Align
<1>2. m \in States /\ m.wrSector = at
      /\ \A x \in {"disk", "wrBuf", "wrDirty", "wrCount", "rdSector", "rdBuf"} : m[x] = v[x]
  BY <1>1 DEF SvrOK, States
<1>3. Content(m) = Content(v)
  BY <1>2 DEF Content, SvrOK, States
<1> QED BY <1>1, <1>2, <1>3 DEF SvrOK, Same, SameReadBuffer

\* A write that the read buffer is apart from leaves it fresh.
LEMMA WriteFresh ==
  ASSUME NEW v, NEW w, SvrOK(v), NEW start \in Nat, NEW count \in {1, 2}, NEW data \in Int,
         Fresh(v), Apart(v, start, count), SameReadBuffer(v, w),
         Wrote(v, w, start, count, data)
  PROVE  Fresh(w)
<1> SUFFICES ASSUME w.rdSector % RdSize = 0, NEW i \in 0 .. RdSize - 1,
                    w.rdSector + i < Sectors
             PROVE  w.rdBuf[i] = Content(w)[w.rdSector + i]
  BY DEF Fresh
<1> DEFINE s == v.rdSector + i
<1>1. v.rdSector \in Nat /\ w.rdSector = v.rdSector /\ w.rdBuf = v.rdBuf
  BY DEF SvrOK, States, SameReadBuffer
<1>2. s \in 0 .. Sectors - 1 /\ s \in v.rdSector .. v.rdSector + RdSize - 1
  BY <1>1, SvrAssumption
<1>3. s \notin start .. start + count - 1
  BY <1>1, <1>2 DEF Apart
<1>4. Content(w)[s] = Content(v)[s]
  BY <1>2, <1>3 DEF Wrote
<1>5. v.rdBuf[i] = Content(v)[s]
  BY <1>1 DEF Fresh
<1> QED BY <1>1, <1>4, <1>5

\* What a write does from a buffer on that is where it has to be.
LEMMA WrittenFrom ==
  ASSUME NEW v, NEW w, SvrOK(v), SvrOK(w), NEW start \in Nat, NEW count \in {1, 2},
         NEW data \in Int, Same(v, w), SameReadBuffer(v, w),
         start - w.wrSector \in 0 .. WrSize - count,
         NEW a \in Put(w, start, count, data)
  PROVE  SvrOK(a.svr) /\ SameReadBuffer(v, a.svr) /\ Wrote(v, a.svr, start, count, data)
<1>1. /\ SvrOK(a.svr) /\ SameReadBuffer(w, a.svr)
      /\ Wrote(w, a.svr, start, count, data)
  BY PutKeeps
<1> QED BY <1>1 DEF Same, SameReadBuffer, Wrote

\* A write changes nothing but the sectors written to, and leaves the read
\* buffer fresh, if the disk fails too.
LEMMA WriteKeeps ==
  ASSUME NEW v, SvrOK(v), NEW start \in Nat, NEW count \in {1, 2}, NEW data \in Int,
         NEW a \in SvrWrite(v, start, count, data)
  PROVE  /\ SvrOK(a.svr) /\ Wrote(v, a.svr, start, count, data)
         /\ Fresh(v) => Fresh(a.svr)
<1> DEFINE w == Invalidate(v, start, count)
           Moved(u) == Put([u EXCEPT !.wrSector = Align(WrSize, start, count)],
                           start, count, data)
<1>1. /\ SvrOK(w) /\ Same(v, w) /\ Apart(w, start, count)
      /\ Fresh(v) => Fresh(w)
  BY InvalidateKeeps
<1>2. SvrOK(a.svr) /\ SameReadBuffer(w, a.svr) /\ Wrote(w, a.svr, start, count, data)
  <2> HIDE DEF w
  <2>1. \/ /\ Within(w.wrSector, WrSize, start, count)
           /\ a \in Put(w, start, count, data)
        \/ w.wrCount = 0 /\ a \in Moved(w)
        \/ \E b \in SyncBuffer(w) : b.result = Ok /\ a \in Moved(b.svr)
        \/ a \in SyncBuffer(w)
    BY DEF SvrWrite, AfterSync, w
  <2>2. CASE Within(w.wrSector, WrSize, start, count) /\ a \in Put(w, start, count, data)
    <3>1. start >= w.wrSector /\ start + count <= w.wrSector + WrSize
      BY <2>2 DEF Within
    <3>2. w.wrSector \in Nat
      BY <1>1 DEF SvrOK, States
    <3>3. start - w.wrSector \in 0 .. WrSize - count
      BY <3>1, <3>2, SvrAssumption
    <3> QED BY <1>1, <2>2, <3>3, PutKeeps
  <2>3. CASE w.wrCount = 0 /\ a \in Moved(w)
    <3> DEFINE m == [w EXCEPT !.wrSector = Align(WrSize, start, count)]
    <3>1. /\ SvrOK(m) /\ Same(w, m) /\ SameReadBuffer(w, m)
          /\ start - m.wrSector \in 0 .. WrSize - count
      BY <1>1, <2>3, MoveKeeps DEF SvrOK
    <3>2. a \in Put(m, start, count, data)
      BY <2>3
    <3> HIDE DEF m
    <3> QED BY <1>1, <3>1, <3>2, WrittenFrom
  <2>4. CASE \E b \in SyncBuffer(w) : b.result = Ok /\ a \in Moved(b.svr)
    <3>1. PICK b \in SyncBuffer(w) : b.result = Ok /\ a \in Moved(b.svr)
      BY <2>4
    <3>2. /\ SvrOK(b.svr) /\ Same(w, b.svr) /\ SameReadBuffer(w, b.svr)
          /\ b.svr.wrDirty = {}
      BY <1>1, <3>1, SyncKeeps
    <3> DEFINE m == [b.svr EXCEPT !.wrSector = Align(WrSize, start, count)]
    <3>3. /\ SvrOK(m) /\ Same(b.svr, m) /\ SameReadBuffer(b.svr, m)
          /\ start - m.wrSector \in 0 .. WrSize - count
      BY <3>2, MoveKeeps
    <3>4. a \in Put(m, start, count, data)
      BY <3>1
    <3> HIDE DEF m
    <3>5. Same(w, m) /\ SameReadBuffer(w, m)
      BY <3>2, <3>3 DEF Same, SameReadBuffer
    <3> QED BY <1>1, <3>3, <3>4, <3>5, WrittenFrom
  <2>5. CASE a \in SyncBuffer(w)
    <3>1. SvrOK(a.svr) /\ Same(w, a.svr) /\ SameReadBuffer(w, a.svr)
      BY <1>1, <2>5, SyncKeeps
    <3> QED BY <3>1 DEF Same, Wrote
  <2> QED BY <2>1, <2>2, <2>3, <2>4, <2>5
<1>3. Wrote(v, a.svr, start, count, data)
  BY <1>1, <1>2 DEF Same, Wrote
<1>4. Fresh(v) => Fresh(a.svr)
  <2> HIDE DEF w
  <2> QED BY <1>1, <1>2, WriteFresh
<1> QED BY <1>2, <1>3, <1>4

-----------------------------------------------------------------------------
(* What the disk may hold.                                                 *)

\* Both buffers are on the disk or nowhere, and what is on the disk or waits
\* to be written to it is a version up to m: no place of the buffer that was
\* never filled.
Bounded(v, m) ==
  /\ v.wrSector \in 0 .. Sectors - 1 \cup {NoSector}
  /\ v.rdSector \in 0 .. Sectors - 1 \cup {NoSector}
  /\ \A s \in 0 .. Sectors - 1 : v.disk[s] \in 0 .. m
  /\ \A i \in v.wrDirty : v.wrBuf[i] \in 0 .. m

LEMMA InitBounded == ASSUME NEW m \in Nat PROVE Bounded(SvrInit, m)
BY DEF Bounded, SvrInit

LEMMA BoundRises ==
  ASSUME NEW v, NEW m \in Nat, NEW n \in Nat, m <= n, Bounded(v, m)
  PROVE  Bounded(v, n)
<1>1. \A x \in 0 .. m : x \in 0 .. n
  OBVIOUS
<1> QED BY <1>1 DEF Bounded

LEMMA SyncBounded ==
  ASSUME NEW v, SvrOK(v), NEW m \in Nat, Bounded(v, m), NEW a \in SyncBuffer(v)
  PROVE  Bounded(a.svr, m)
<1>1. ASSUME NEW limit PROVE \A s \in 0 .. Sectors - 1 : FlushedBelow(v, limit)[s] \in 0 .. m
  BY DEF FlushedBelow, Bounded, SvrOK, States
<1>2. CASE a = Answer([v EXCEPT !.disk = FlushedBelow(v, WrSize), !.wrDirty = {},
                                !.wrCount = 0], Ok, <<>>)
  <2>1. /\ a.svr.disk = FlushedBelow(v, WrSize) /\ a.svr.wrDirty = {}
        /\ a.svr.rdSector = v.rdSector /\ a.svr.wrSector = v.wrSector
    BY <1>2 DEF Answer, SvrOK, States
  <2> QED BY <1>1, <2>1 DEF Bounded
<1>3. CASE \E i \in RunStarts(v) :
             a = Answer([v EXCEPT !.disk = FlushedBelow(v, i)], Failed, <<>>)
  <2>1. PICK i \in RunStarts(v) :
          a = Answer([v EXCEPT !.disk = FlushedBelow(v, i)], Failed, <<>>)
    BY <1>3
  <2>2. /\ a.svr.disk = FlushedBelow(v, i)
        /\ \A x \in {"wrSector", "wrBuf", "wrDirty", "rdSector"} : a.svr[x] = v[x]
    BY <2>1 DEF Answer, SvrOK, States
  <2> QED BY <1>1, <2>2 DEF Bounded
<1> QED BY <1>2, <1>3 DEF SyncBuffer

\* A buffer goes to a sector of the disk.
LEMMA AlignInside ==
  ASSUME NEW n \in Nat \ {0}, NEW start \in Nat, start < Sectors, NEW count \in Nat
  PROVE  Align(n, start, count) \in 0 .. Sectors - 1
BY SvrAssumption DEF Align

LEMMA ReadBounded ==
  ASSUME NEW v, SvrOK(v), NEW m \in Nat, Bounded(v, m),
         NEW start \in Nat, start < Sectors, NEW count \in Nat,
         NEW a \in SvrRead(v, start, count)
  PROVE  Bounded(a.svr, m)
<1>1. ASSUME NEW w, SvrOK(w), Bounded(w, m), NEW b \in Fill(w, start, count)
      PROVE  Bounded(b.svr, m)
  <2>1. Align(RdSize, start, count) \in 0 .. Sectors - 1
    BY AlignInside, SvrAssumption
  <2> DEFINE at == Align(RdSize, start, count)
             buf == [i \in DOMAIN w.rdBuf |-> IF at + i < Sectors THEN w.disk[at + i] ELSE Blank]
             filled == [w EXCEPT !.rdSector = at, !.rdBuf = buf]
             marked == [w EXCEPT !.rdSector = at]
  <2>2. b = Serve(filled, start, count) \/ b = Answer(marked, Failed, <<>>)
    BY <1>1 DEF Fill
  <2>3. b.svr = filled \/ b.svr = marked
    <3> HIDE DEF filled, marked
    <3> QED BY <2>2 DEF Serve, Answer
  <2>4. \A u \in {filled, marked} :
          u.rdSector = at /\ \A x \in {"disk", "wrSector", "wrBuf", "wrDirty"} : u[x] = w[x]
    <3> HIDE DEF at, buf
    <3> QED BY <1>1 DEF SvrOK, States
  <2> HIDE DEF filled, marked
  <2> QED BY <1>1, <2>1, <2>3, <2>4 DEF Bounded
<1>2. \/ a = Serve(v, start, count)
      \/ a \in Fill(v, start, count)
      \/ \E b \in SyncBuffer(v) : a \in Fill(b.svr, start, count)
      \/ a \in SyncBuffer(v)
  BY DEF SvrRead, AfterSync
<1>3. CASE a = Serve(v, start, count)
  BY <1>3 DEF Serve, Answer
<1>4. CASE a \in Fill(v, start, count)
  BY <1>1, <1>4
<1>5. CASE \E b \in SyncBuffer(v) : a \in Fill(b.svr, start, count)
  BY <1>1, <1>5, SyncKeeps, SyncBounded
<1>6. CASE a \in SyncBuffer(v)
  BY <1>6, SyncBounded
<1> QED BY <1>2, <1>3, <1>4, <1>5, <1>6

LEMMA PutBounded ==
  ASSUME NEW v, SvrOK(v), NEW m \in Nat, Bounded(v, m),
         NEW start \in Nat, NEW count \in {1, 2}, NEW data \in 0 .. m,
         start - v.wrSector \in 0 .. WrSize - count,
         NEW a \in Put(v, start, count, data)
  PROVE  Bounded(a.svr, m)
<1> DEFINE at == start - v.wrSector
           buf == [i \in DOMAIN v.wrBuf |->
                     IF i \in at .. at + count - 1 THEN data ELSE v.wrBuf[i]]
           put == [v EXCEPT !.wrBuf = buf, !.wrDirty = @ \cup (at .. at + count - 1),
                            !.wrCount = @ + count]
<1>1. /\ put.wrBuf = buf /\ put.wrDirty = v.wrDirty \cup (at .. at + count - 1)
      /\ \A x \in {"disk", "wrSector", "rdSector"} : put[x] = v[x]
  BY DEF SvrOK, States
<1>2. \A i \in put.wrDirty : buf[i] \in 0 .. m
  <2>1. DOMAIN v.wrBuf = 0 .. WrSize - 1 /\ v.wrDirty \subseteq 0 .. WrSize - 1
    BY DEF SvrOK, States
  <2>2. at .. at + count - 1 \subseteq 0 .. WrSize - 1
    <3>1. at \in Nat /\ at <= WrSize - count /\ WrSize \in Nat
      BY SvrAssumption
    <3> HIDE DEF at
    <3> QED BY <3>1
  <2> HIDE DEF put, at
  <2> QED BY <1>1, <2>1, <2>2 DEF Bounded
<1>3. Bounded(put, m)
  <2> HIDE DEF put
  <2> QED BY <1>1, <1>2 DEF Bounded
<1>4. \/ a.svr = v
      \/ a.svr = put
      \/ a \in SyncBuffer(put)
  BY DEF Put, Answer
<1>5. SvrOK(put)
  <2>1. v.wrSector \in Nat /\ v.wrCount \in Nat /\ v.wrBuf \in [0 .. WrSize - 1 -> Int]
        /\ v.wrDirty \subseteq 0 .. WrSize - 1
    BY DEF SvrOK, States
  <2>2. at .. at + count - 1 \subseteq 0 .. WrSize - 1
    <3>1. at \in Nat /\ at <= WrSize - count /\ WrSize \in Nat
      BY <2>1, SvrAssumption
    <3> HIDE DEF at
    <3> QED BY <3>1
  <2>3. buf \in [0 .. WrSize - 1 -> Int]
    <3>1. \A i \in 0 .. WrSize - 1 :
            (IF i \in at .. at + count - 1 THEN data ELSE v.wrBuf[i]) \in Int
      <4> HIDE DEF at
      <4>1. data \in Int
        OBVIOUS
      <4> QED BY <2>1, <4>1, Zenon
    <3>2. DOMAIN v.wrBuf = 0 .. WrSize - 1
      BY <2>1
    <3> QED BY <3>1, <3>2, Zenon
  <2>4. v.wrCount + count \in Nat \ {0}
    BY <2>1
  <2> HIDE DEF buf
  <2> QED BY <2>1, <2>2, <2>3, <2>4 DEF SvrOK, States
<1> HIDE DEF put
<1> QED BY <1>3, <1>4, <1>5, SyncBounded

LEMMA WriteBounded ==
  ASSUME NEW v, SvrOK(v), NEW m \in Nat, Bounded(v, m),
         NEW start \in Nat, start < Sectors, NEW count \in {1, 2}, NEW data \in 0 .. m,
         NEW a \in SvrWrite(v, start, count, data)
  PROVE  Bounded(a.svr, m)
<1> DEFINE w == Invalidate(v, start, count)
           Moved(u) == Put([u EXCEPT !.wrSector = Align(WrSize, start, count)],
                           start, count, data)
<1>1. SvrOK(w)
  BY InvalidateKeeps
<1>2. Bounded(w, m)
  BY DEF Invalidate, Bounded, SvrOK, States
<1>3. ASSUME NEW u, SvrOK(u), u.wrDirty = {}, Bounded(u, m), NEW b \in Moved(u)
      PROVE  Bounded(b.svr, m)
  <2> DEFINE x == [u EXCEPT !.wrSector = Align(WrSize, start, count)]
  <2>1. SvrOK(x) /\ start - x.wrSector \in 0 .. WrSize - count
    BY <1>3, MoveKeeps
  <2>2. Align(WrSize, start, count) \in 0 .. Sectors - 1
    BY AlignInside, SvrAssumption
  <2>3. Bounded(x, m)
    BY <1>3, <2>2 DEF Bounded, SvrOK, States
  <2>4. b \in Put(x, start, count, data)
    BY <1>3
  <2> HIDE DEF x
  <2> QED BY <2>1, <2>3, <2>4, PutBounded
<1> HIDE DEF w
<1>4. \/ Within(w.wrSector, WrSize, start, count) /\ a \in Put(w, start, count, data)
      \/ w.wrCount = 0 /\ a \in Moved(w)
      \/ \E b \in SyncBuffer(w) : b.result = Ok /\ a \in Moved(b.svr)
      \/ a \in SyncBuffer(w)
  BY DEF SvrWrite, AfterSync, w
<1>5. CASE Within(w.wrSector, WrSize, start, count) /\ a \in Put(w, start, count, data)
  <2>1. w.wrSector \in Nat
    BY <1>1 DEF SvrOK, States
  <2>2. start - w.wrSector \in 0 .. WrSize - count
    BY <1>5, <2>1, SvrAssumption DEF Within
  <2> QED BY <1>1, <1>2, <1>5, <2>2, PutBounded
<1>6. CASE w.wrCount = 0 /\ a \in Moved(w)
  BY <1>1, <1>2, <1>3, <1>6 DEF SvrOK
<1>7. CASE \E b \in SyncBuffer(w) : b.result = Ok /\ a \in Moved(b.svr)
  <2> HIDE DEF Moved
  <2> QED BY <1>1, <1>2, <1>3, <1>7, SyncKeeps, SyncBounded
<1>8. CASE a \in SyncBuffer(w)
  BY <1>1, <1>2, <1>8, SyncBounded
<1> QED BY <1>4, <1>5, <1>6, <1>7, <1>8
=============================================================================
