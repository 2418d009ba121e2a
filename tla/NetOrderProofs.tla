--------------------------- MODULE NetOrderProofs ---------------------------
(***************************************************************************)
(* That a network disk keeps its promises while it does not fail, its      *)
(* client is not aborted, and fewer packets are lost or late than the      *)
(* client has patience for: what is read is what was written, and what is  *)
(* written is on the disk.  The argument is the order of what is in        *)
(* transit.  Packets are lost but never overtake one another, so when a    *)
(* chunk is answered nothing older is left, and what is answered after a   *)
(* sync was sent after it.                                                 *)
(***************************************************************************)
EXTENDS NetDataProofs

-----------------------------------------------------------------------------
(* Order: what the packets in transit and the answered chunks say of the   *)
(* contents.                                                               *)

\* the packets of a queue
On(q) == {q[i] : i \in 1 .. Len(q)}

\* nothing of another command comes after a packet of command c
Trailing(q, c) == \A i, j \in 1 .. Len(q) : i < j /\ q[i].cmd = c => q[j].cmd = c

\* every packet is of a command of C
Only(q, C) == \A i \in 1 .. Len(q) : q[i].cmd \in C

\* sectors of a server that hold one version
Held(v, data, first, n) == \A s \in first .. first + n - 1 : Content(v)[s] = data

\* What is dirty belongs to one write, and a pair of its sectors is dirty as a
\* whole: so a write that the server skips, for its first sector is dirty, is
\* one it has already.
PairedAt(at, dirty, buf, first, n, data) ==
  \A i \in dirty :
    /\ at + i \in first .. first + n - 1 /\ buf[i] = data
    /\ (at + i - first) % 2 = 0 /\ at + i + 1 < first + n => i + 1 \in dirty

Paired(v, first, n, data) == PairedAt(v.wrSector, v.wrDirty, v.wrBuf, first, n, data)

\* start .. start + len - 1 is a pair of the sectors first .. first + n - 1, or
\* the last of them
IsPair(first, n, start, len) ==
  /\ start \in Nat /\ start >= first /\ (start - first) % 2 = 0 /\ start < first + n
  /\ len = IF start + 1 < first + n THEN 2 ELSE 1

OpOK(o) ==
  /\ o \in [kind : {"read", "write"}, first : Nat, sectors : Nat \ {0}, start : Nat,
            left : Nat \ {0}, version : Nat, got : Seq(Int)]
  /\ o.first + o.sectors <= Sectors
  /\ o.start >= o.first /\ o.start + o.left = o.first + o.sectors
  /\ (o.start - o.first) % 2 = 0

ChunkRecords ==
  [start : Nat, count : {1, 2}, seq : Int, done : BOOLEAN, data : Seq(Int)]

\* the chunks of a piece are its pairs of sectors
PieceOK(o, ck) ==
  LET n == Lesser(o.left, PieceSize) IN
  /\ DOMAIN ck = 1 .. (n + 1) \div 2
  /\ \A k \in DOMAIN ck :
       /\ ck[k] \in ChunkRecords
       /\ ck[k].start = o.start + 2 * (k - 1)
       /\ ck[k].count = IF n >= 2 * k THEN 2 ELSE 1

\* what is read is what the sectors hold
ReadSoFar(v, o, ck) ==
  /\ ReadFrom(v, o.got, o.first, o.start - o.first)
  /\ \A k \in DOMAIN ck : ck[k].done => ReadFrom(v, ck[k].data, ck[k].start, ck[k].count)

\* the sectors hold what is written
HeldSoFar(v, o, ck) ==
  /\ Held(v, o.version, o.first, o.start - o.first)
  /\ \A k \in DOMAIN ck : ck[k].done => Held(v, o.version, ck[k].start, ck[k].count)

\* in a read and between operations no write is left anywhere
Quiet(v, back, forth) ==
  /\ v.wrDirty = {}
  /\ \A p \in On(forth) : p.cmd # "write"
  /\ \A p \in On(back) :
       p.cmd # "write" /\ (p.cmd = "read" => ReadFrom(v, p.data, p.start, p.count))

\* in a write the only writes are its own
Written(v, o, back, forth) ==
  /\ \A p \in On(forth) : p.cmd = "write" =>
       IsPair(o.first, o.sectors, p.start, p.count) /\ p.data = o.version
  /\ \A p \in On(back) : p.cmd = "write" =>
       IsPair(o.first, o.sectors, p.start, p.count) /\ Held(v, o.version, p.start, p.count)
  /\ Paired(v, o.first, o.sectors, o.version)

\* nothing is sent between the writes, and what was sent before them is gone
\* when the first of them is answered
WritesLast(o, ck, q) ==
  /\ Trailing(q, "write")
  /\ o.start # o.first \/ (\E k \in DOMAIN ck : ck[k].done) => Only(q, {"write"})

\* what is answered after a sync was sent after it
Syncing(v, o, back, q) ==
  /\ Held(v, o.version, o.first, o.sectors)
  /\ Only(q, {"write", "sync"}) /\ Trailing(q, "sync")
  /\ (\E p \in On(back) : p.cmd = "sync") => v.wrDirty = {}

ReadsInside(q) == \A p \in On(q) : p.cmd = "read" => p.start + p.count <= Sectors

MayOK(v, m) ==
  /\ m \in [0 .. Sectors - 1 -> SUBSET Nat]
  /\ \A s \in 0 .. Sectors - 1 : Content(v)[s] \in m[s]

WriteMay(o, m) == \A s \in o.first .. o.first + o.sectors - 1 : o.version \in m[s]

Writing == phase # "idle" /\ op.kind = "write"

\* The data in transit and in the server is in order.
Order ==
  /\ MayOK(svr, may) /\ ReadsInside(toServer)
  /\ phase # "idle" => OpOK(op) /\ last = NoResult
  /\ phase = "piece" => PieceOK(op, chunk)
  /\ phase = "query" => op.kind = "write"
  /\ ~Writing => Quiet(svr, toClient, toServer)
  /\ ~Writing /\ phase = "piece" => ReadSoFar(svr, op, chunk)
  /\ Writing => WriteMay(op, may) /\ Written(svr, op, toClient, toServer)
  /\ Writing /\ phase = "piece" => HeldSoFar(svr, op, chunk) /\ WritesLast(op, chunk, InTransit)
  /\ phase = "query" => Syncing(svr, op, toClient, InTransit)
  /\ OkMeansStored /\ ReadsFresh

-----------------------------------------------------------------------------
(* Queues.                                                                 *)

LEMMA OnAppend ==
  ASSUME NEW q \in Seq(Moving), NEW p \in Moving
  PROVE  On(Append(q, p)) = On(q) \cup {p}
<1>1. /\ Len(q) \in Nat /\ Len(Append(q, p)) = Len(q) + 1 /\ Append(q, p)[Len(q) + 1] = p
      /\ \A i \in 1 .. Len(q) : Append(q, p)[i] = q[i]
  BY AppendProperties, LenProperties
<1>2. 1 .. Len(q) + 1 = 1 .. Len(q) \cup {Len(q) + 1}
  BY <1>1
<1>3. \A i \in 1 .. Len(q) + 1 : Append(q, p)[i] \in On(q) \cup {p}
  BY <1>1, <1>2 DEF On
<1>4. \A i \in 1 .. Len(q) : q[i] \in On(Append(q, p))
  <2> TAKE i \in 1 .. Len(q)
  <2>1. i \in 1 .. Len(q) + 1
    BY <1>2
  <2> QED BY <1>1, <2>1 DEF On
<1>5. p \in On(Append(q, p))
  BY <1>1, <1>2 DEF On
<1> QED BY <1>1, <1>3, <1>4, <1>5 DEF On

LEMMA OnTail ==
  ASSUME NEW q \in Seq(Moving), q # <<>>
  PROVE  Head(q) \in On(q) /\ On(Tail(q)) \subseteq On(q)
<1>1. /\ Len(Tail(q)) = Len(q) - 1 /\ Head(q) = q[1] /\ Len(q) \in Nat /\ Len(q) >= 1
      /\ \A i \in 1 .. Len(Tail(q)) : Tail(q)[i] = q[i + 1]
  BY HeadTailProperties, LenProperties, EmptySeq
<1>2. \A i \in 1 .. Len(q) - 1 : i + 1 \in 1 .. Len(q)
  BY <1>1
<1> QED BY <1>1, <1>2 DEF On

\* Some packets of a queue, in the same order.
Thinned(t, u) ==
  \E e \in [1 .. Len(u) -> 1 .. Len(t)] :
    /\ \A i, j \in 1 .. Len(u) : i < j => e[i] < e[j]
    /\ \A i \in 1 .. Len(u) : u[i].cmd = t[e[i]].cmd

LEMMA ThinnedKeeps ==
  ASSUME NEW t, NEW u, Thinned(t, u)
  PROVE  /\ \A c : Trailing(t, c) => Trailing(u, c)
         /\ \A C : Only(t, C) => Only(u, C)
<1>1. PICK e \in [1 .. Len(u) -> 1 .. Len(t)] :
        /\ \A i, j \in 1 .. Len(u) : i < j => e[i] < e[j]
        /\ \A i \in 1 .. Len(u) : u[i].cmd = t[e[i]].cmd
  BY DEF Thinned
<1>2. ASSUME NEW c, Trailing(t, c) PROVE Trailing(u, c)
  BY <1>1, <1>2 DEF Trailing
<1>3. ASSUME NEW C, Only(t, C) PROVE Only(u, C)
  BY <1>1, <1>3 DEF Only
<1> QED BY <1>2, <1>3

\* One more packet, of command c.
LEMMA OneMore ==
  ASSUME NEW t, NEW u, NEW c, Len(t) \in Nat, Len(u) = Len(t) + 1,
         u[Len(t) + 1].cmd = c, \A i \in 1 .. Len(t) : u[i] = t[i]
  PROVE  /\ Trailing(t, c) => Trailing(u, c)
         /\ \A C : c \in C /\ Only(t, C) => Only(u, C)
<1>1. \A i \in 1 .. Len(u) : i \in 1 .. Len(t) \/ i = Len(t) + 1
  OBVIOUS
<1>2. ASSUME Trailing(t, c) PROVE Trailing(u, c)
  <2> SUFFICES ASSUME NEW i \in 1 .. Len(u), NEW j \in 1 .. Len(u), i < j, u[i].cmd = c
               PROVE  u[j].cmd = c
    BY DEF Trailing
  <2>1. CASE j = Len(t) + 1
    BY <2>1
  <2>2. CASE j \in 1 .. Len(t)
    <3>1. i \in 1 .. Len(t)
      BY <2>2
    <3> QED BY <1>2, <2>2, <3>1 DEF Trailing
  <2> QED BY <1>1, <2>1, <2>2
<1>3. ASSUME NEW C, c \in C, Only(t, C) PROVE Only(u, C)
  BY <1>1, <1>3 DEF Only
<1> QED BY <1>2, <1>3

\* The packet that is answered first is of command c: then all are.
LEMMA FirstOf ==
  ASSUME NEW t, NEW c, Trailing(t, c), Len(t) \in Nat, Len(t) >= 1, t[1].cmd = c
  PROVE  Only(t, {c})
BY DEF Trailing, Only

\* What happens to the packets in transit: the client takes the first,
LEMMA TransitTaken ==
  ASSUME InOrder, toClient # <<>>, toClient' = Tail(toClient), toServer' = toServer
  PROVE  /\ Thinned(InTransit, InTransit') /\ InTransit[1] = Head(toClient)
         /\ Len(InTransit) \in Nat /\ Len(InTransit) >= 1
<1>1. toClient \in Seq(Moving) /\ toServer \in Seq(Moving)
  BY OrderMoving
<1>2. /\ Len(InTransit) \in Nat /\ Len(InTransit) >= 1 /\ Len(InTransit') = Len(InTransit) - 1
      /\ InTransit[1] = Head(toClient)
      /\ \A i \in 1 .. Len(InTransit') : InTransit'[i] = InTransit[i + 1]
  BY <1>1, JoinedFirst DEF InTransit
<1> DEFINE e == [i \in 1 .. Len(InTransit') |-> i + 1]
<1>3. e \in [1 .. Len(InTransit') -> 1 .. Len(InTransit)]
  BY <1>2
<1>4. \A i, j \in 1 .. Len(InTransit') : i < j => e[i] < e[j]
  BY <1>2
<1>5. \A i \in 1 .. Len(InTransit') : InTransit'[i].cmd = InTransit[e[i]].cmd
  BY <1>2
<1>6. Thinned(InTransit, InTransit')
  <2> HIDE DEF e
  <2> QED BY <1>3, <1>4, <1>5 DEF Thinned
<1> QED BY <1>2, <1>6

\* the server answers one or its answer is lost,
LEMMA TransitServed ==
  ASSUME InOrder, toServer # <<>>, toServer' = Tail(toServer), NEW p \in Replies,
         p.cmd = Head(toServer).cmd, Send(toClient, p)
  PROVE  /\ Thinned(InTransit, InTransit')
         /\ \A r \in On(toClient) : \E i \in 1 .. Len(InTransit) :
              \E j \in 1 .. Len(InTransit) :
                i < j /\ InTransit[i] = r /\ InTransit[j] = Head(toServer)
<1> DEFINE m == Len(toClient) + 1
<1>1. toClient \in Seq(Moving) /\ toServer \in Seq(Moving) /\ p \in Moving
  BY OrderMoving
<1>2. /\ Len(InTransit) \in Nat /\ m \in 1 .. Len(InTransit) /\ InTransit[m] = Head(toServer)
  BY <1>1, JoinedMiddle DEF InTransit
<1>3. Len(toClient) \in Nat /\ \A i \in 1 .. Len(toClient) : InTransit[i] = toClient[i]
  BY <1>1, Joined DEF InTransit
<1>4. \A r \in On(toClient) : \E i \in 1 .. Len(InTransit) :
         \E j \in 1 .. Len(InTransit) :
           i < j /\ InTransit[i] = r /\ InTransit[j] = Head(toServer)
  <2> TAKE r \in On(toClient)
  <2>1. PICK i \in 1 .. Len(toClient) : r = toClient[i]
    BY DEF On
  <2>2. i \in 1 .. Len(InTransit) /\ i < m
    BY <1>2, <1>3
  <2> QED BY <1>2, <1>3, <2>1, <2>2
<1>5. CASE toClient' = Append(toClient, p)
  <2>1. /\ Len(InTransit') = Len(InTransit) /\ InTransit'[m] = p
        /\ \A i \in 1 .. Len(InTransit) : i # m => InTransit'[i] = InTransit[i]
    BY <1>1, <1>5, JoinedMiddle DEF InTransit
  <2> DEFINE e == [i \in 1 .. Len(InTransit') |-> i]
  <2> HIDE DEF m
  <2>2. e \in [1 .. Len(InTransit') -> 1 .. Len(InTransit)]
    BY <2>1
  <2>3. \A i, j \in 1 .. Len(InTransit') : i < j => e[i] < e[j]
    OBVIOUS
  <2>4. \A i \in 1 .. Len(InTransit') : InTransit'[i].cmd = InTransit[e[i]].cmd
    BY <1>2, <2>1
  <2> HIDE DEF e
  <2> QED BY <1>4, <2>2, <2>3, <2>4 DEF Thinned
<1>6. CASE toClient' = toClient
  <2>1. /\ Len(InTransit') = Len(InTransit) - 1
        /\ \A i \in 1 .. Len(InTransit') :
             InTransit'[i] = IF i < m THEN InTransit[i] ELSE InTransit[i + 1]
    BY <1>1, <1>6, JoinedMiddle DEF InTransit
  <2> DEFINE e == [i \in 1 .. Len(InTransit') |-> IF i < m THEN i ELSE i + 1]
  <2> HIDE DEF m
  <2>2. e \in [1 .. Len(InTransit') -> 1 .. Len(InTransit)]
    BY <1>2, <2>1
  <2>3. \A i, j \in 1 .. Len(InTransit') : i < j => e[i] < e[j]
    BY <1>2
  <2>4. \A i \in 1 .. Len(InTransit') : InTransit'[i].cmd = InTransit[e[i]].cmd
    BY <2>1
  <2> HIDE DEF e
  <2> QED BY <1>4, <2>2, <2>3, <2>4 DEF Thinned
<1> QED BY <1>5, <1>6 DEF Send

\* and the client sends one, or it is lost.
LEMMA TransitSent ==
  ASSUME InOrder, NEW p \in Packets, Send(toServer, p), toClient' = toClient
  PROVE  \/ toServer' = toServer /\ InTransit' = InTransit
         \/ /\ On(toServer') = On(toServer) \cup {p}
            /\ Trailing(InTransit, p.cmd) => Trailing(InTransit', p.cmd)
            /\ \A C : p.cmd \in C /\ Only(InTransit, C) => Only(InTransit', C)
<1>1. toClient \in Seq(Moving) /\ toServer \in Seq(Moving) /\ p \in Moving
  BY OrderMoving
<1>2. CASE toServer' = toServer
  BY <1>2 DEF InTransit
<1>3. CASE toServer' = Append(toServer, p)
  <2>1. On(toServer') = On(toServer) \cup {p}
    BY <1>1, <1>3, OnAppend
  <2>2. /\ Len(InTransit) \in Nat /\ Len(InTransit') = Len(InTransit) + 1
        /\ InTransit'[Len(InTransit) + 1] = p
        /\ \A i \in 1 .. Len(InTransit) : InTransit'[i] = InTransit[i]
    BY <1>1, <1>3, JoinedLast DEF InTransit
  <2>3. /\ Trailing(InTransit, p.cmd) => Trailing(InTransit', p.cmd)
        /\ \A C : p.cmd \in C /\ Only(InTransit, C) => Only(InTransit', C)
    BY <2>2, OneMore
  <2> QED BY <2>1, <2>3
<1> QED BY <1>2, <1>3 DEF Send

-----------------------------------------------------------------------------
(* What a disk that does not fail makes of the pairs of a write.           *)

\* a buffer in which n sectors from at on are replaced
PutAt(new, old, dirty, at, n, data) ==
  /\ dirty \subseteq Nat
  /\ \A i \in dirty : i \notin at .. at + n - 1 => new[i] = old[i]
  /\ \A i \in at .. at + n - 1 : new[i] = data

\* A pair joins what is dirty.
LEMMA PairJoins ==
  ASSUME NEW sec \in Nat, NEW dirty, NEW buf,
         NEW f \in Nat, NEW m \in Nat, NEW data, PairedAt(sec, dirty, buf, f, m, data),
         NEW at \in Nat, NEW n \in {1, 2},
         NEW start, start = sec + at, IsPair(f, m, start, n),
         NEW new, PutAt(new, buf, dirty, at, n, data)
  PROVE  PairedAt(sec, dirty \cup (at .. at + n - 1), new, f, m, data)
<1>0. n \in Nat /\ n >= 1 /\ dirty \subseteq Nat
  BY DEF PutAt
<1>1. /\ sec + at >= f /\ (sec + at - f) % 2 = 0 /\ sec + at + n <= f + m
      /\ n = IF sec + at + 1 < f + m THEN 2 ELSE 1
  BY <1>0 DEF IsPair
<1> SUFFICES ASSUME NEW i \in dirty \cup (at .. at + n - 1)
             PROVE  /\ sec + i \in f .. f + m - 1 /\ new[i] = data
                    /\ (sec + i - f) % 2 = 0 /\ sec + i + 1 < f + m =>
                         i + 1 \in dirty \cup (at .. at + n - 1)
  BY DEF PairedAt
<1>2. CASE i \in at .. at + n - 1
  <2>1. sec + i \in f .. f + m - 1 /\ new[i] = data
    BY <1>0, <1>1, <1>2 DEF PutAt
  <2>2. i = at \/ (i = at + 1 /\ n = 2)
    BY <1>0, <1>2
  <2>3. CASE i = at
    <3>1. n = 2 => at + 1 \in at .. at + n - 1
      OBVIOUS
    <3> QED BY <1>1, <1>2, <2>1, <2>3, <3>1
  <2>4. CASE i = at + 1 /\ n = 2
    <3>1. PICK d \in Nat : d = sec + at - f
      BY <1>1
    <3>2. d % 2 = 0 /\ sec + i - f = d + 1
      BY <1>1, <2>4, <3>1
    <3>3. (d + 1) % 2 # 0
      BY <3>2
    <3> QED BY <1>2, <2>1, <3>2, <3>3
  <2> QED BY <2>2, <2>3, <2>4
<1>3. CASE i \notin at .. at + n - 1
  <2>1. i \in dirty /\ new[i] = buf[i]
    BY <1>3 DEF PutAt
  <2>2. /\ sec + i \in f .. f + m - 1 /\ buf[i] = data
        /\ (sec + i - f) % 2 = 0 /\ sec + i + 1 < f + m => i + 1 \in dirty
    BY <2>1 DEF PairedAt
  <2> QED BY <2>1, <2>2
<1> QED BY <1>2, <1>3

\* What is dirty is what the sectors hold.
LEMMA DirtyHeld ==
  ASSUME NEW v, SvrOK(v), NEW data, NEW at \in Nat, NEW n \in Nat,
         v.wrSector + at + n <= Sectors, \A i \in at .. at + n - 1 : i \in v.wrDirty,
         \A i \in at .. at + n - 1 : v.wrBuf[i] = data
  PROVE  Held(v, data, v.wrSector + at, n)
<1>1. v.wrSector \in Nat /\ DOMAIN v.disk = 0 .. Sectors - 1 /\ Sectors \in Nat
  BY SvrAssumption DEF SvrOK, States
<1> SUFFICES ASSUME NEW s \in v.wrSector + at .. v.wrSector + at + n - 1
             PROVE  Content(v)[s] = data
  BY DEF Held
<1>2. s - v.wrSector \in at .. at + n - 1 /\ s \in 0 .. Sectors - 1
  BY <1>1
<1> QED BY <1>1, <1>2 DEF Content

LEMMA PutPairs ==
  ASSUME AtaFails = FALSE, NEW v, SvrOK(v), NEW start \in Nat, NEW n \in {1, 2},
         NEW data \in Int, start - v.wrSector \in 0 .. WrSize - n, start + n <= Sectors,
         NEW f \in Nat, NEW m \in Nat, IsPair(f, m, start, n), Paired(v, f, m, data),
         NEW a \in Put(v, start, n, data)
  PROVE  Paired(a.svr, f, m, data) /\ Held(a.svr, data, start, n)
<1> DEFINE buf(at) == [i \in DOMAIN v.wrBuf |->
                         IF i \in at .. at + n - 1 THEN data ELSE v.wrBuf[i]]
           put(at) == [v EXCEPT !.wrBuf = buf(at), !.wrDirty = @ \cup (at .. at + n - 1),
                                !.wrCount = @ + n]
<1>1. PICK at \in Nat : at = start - v.wrSector /\ at + n <= WrSize /\ start = v.wrSector + at
  <2>1. v.wrSector \in Nat /\ WrSize \in Nat /\ n \in Nat
    BY SvrAssumption DEF SvrOK, States
  <2> QED BY <2>1
<1>2. \/ at \in v.wrDirty /\ a.svr = v
      \/ a.svr = put(at)
      \/ a \in SyncBuffer(put(at))
  BY <1>1 DEF Put, Answer
<1>3. /\ v.wrSector \in Nat /\ v.wrCount \in Nat /\ v.wrDirty \in SUBSET (0 .. WrSize - 1)
      /\ v.wrBuf \in [0 .. WrSize - 1 -> Int]
  BY DEF SvrOK, States
<1>4. at .. at + n - 1 \subseteq 0 .. WrSize - 1 /\ v.wrCount + n \in Nat \ {0}
  <2>1. n \in Nat /\ n >= 1 /\ WrSize \in Nat
    BY SvrAssumption
  <2>2. \A i \in at .. at + n - 1 : i \in 0 .. WrSize - 1
    BY <1>1, <2>1
  <2>3. PICK c \in Nat : c = v.wrCount
    BY <1>3
  <2>4. c + n \in Nat \ {0}
    BY <2>1
  <2> QED BY <2>2, <2>3, <2>4
<1>5. /\ buf(at) \in [0 .. WrSize - 1 -> Int]
      /\ \A i \in at .. at + n - 1 : buf(at)[i] = data
      /\ \A i \in v.wrDirty : i \notin at .. at + n - 1 => buf(at)[i] = v.wrBuf[i]
  <2>1. \A i \in 0 .. WrSize - 1 :
          (IF i \in at .. at + n - 1 THEN data ELSE v.wrBuf[i]) \in Int
    BY <1>3, Zenon
  <2>2. DOMAIN v.wrBuf = 0 .. WrSize - 1
    BY <1>3
  <2>3. buf(at) \in [0 .. WrSize - 1 -> Int]
    BY <2>1, <2>2, Zenon
  <2> QED BY <1>3, <1>4, <2>2, <2>3
<1>6. /\ put(at) \in States /\ put(at).wrBuf = buf(at) /\ put(at).wrCount = v.wrCount + n
      /\ put(at).wrDirty = v.wrDirty \cup (at .. at + n - 1)
      /\ put(at).wrSector = v.wrSector
  <2> HIDE DEF buf
  <2> QED BY <1>3, <1>4, <1>5 DEF SvrOK, States
<1>7. SvrOK(put(at))
  <2> HIDE DEF put
  <2> QED BY <1>3, <1>4, <1>6 DEF SvrOK
<1>8. /\ PairedAt(v.wrSector, v.wrDirty \cup (at .. at + n - 1), buf(at), f, m, data)
      /\ at \in v.wrDirty => \A i \in at .. at + n - 1 : i \in v.wrDirty
  <2> HIDE DEF buf
  <2>1. PICK new : new = buf(at)
    OBVIOUS
  <2>2. PICK sec \in Nat, dirty \in SUBSET Nat, old \in {v.wrBuf} :
          sec = v.wrSector /\ dirty = v.wrDirty /\ old = v.wrBuf
    BY <1>3
  <2>3. PairedAt(sec, dirty, old, f, m, data) /\ start = sec + at
    BY <1>1, <2>2 DEF Paired
  <2>4. PutAt(new, old, dirty, at, n, data)
    BY <1>5, <2>1, <2>2 DEF PutAt
  <2>5. PairedAt(sec, dirty \cup (at .. at + n - 1), new, f, m, data)
    BY <2>3, <2>4, PairJoins
  <2>6. ASSUME at \in dirty, NEW i \in at .. at + n - 1 PROVE i \in dirty
    <3>1. n = (IF sec + at + 1 < f + m THEN 2 ELSE 1) /\ (sec + at - f) % 2 = 0
      BY <2>3 DEF IsPair
    <3>2. i = at \/ (i = at + 1 /\ n = 2)
      BY <2>6
    <3>3. n = 2 => at + 1 \in dirty
      BY <2>3, <2>6, <3>1 DEF PairedAt
    <3> QED BY <2>6, <3>2, <3>3
  <2> QED BY <2>1, <2>2, <2>5, <2>6, Zenon
<1> HIDE DEF put, buf
<1>9. Paired(put(at), f, m, data) /\ Held(put(at), data, start, n)
  <2>1. Paired(put(at), f, m, data)
    BY <1>6, <1>8 DEF Paired
  <2>2. n \in Nat /\ start = put(at).wrSector + at
    BY <1>1, <1>6
  <2>3. Held(put(at), data, put(at).wrSector + at, n)
    BY <1>5, <1>6, <1>7, <2>2, DirtyHeld
  <2> QED BY <2>1, <2>2, <2>3
<1>10. CASE at \in v.wrDirty /\ a.svr = v
  <2>1. n \in Nat /\ \A i \in at .. at + n - 1 : i \in v.wrDirty
    BY <1>8, <1>10
  <2>2. \A i \in at .. at + n - 1 : v.wrBuf[i] = data
    BY <2>1 DEF Paired, PairedAt
  <2>3. Held(v, data, v.wrSector + at, n)
    BY <1>1, <2>1, <2>2, DirtyHeld
  <2> QED BY <1>1, <1>10, <2>3
<1>11. CASE a \in SyncBuffer(put(at))
  <2>1. a.svr.wrDirty = {} /\ Content(a.svr) = Content(put(at))
    BY <1>7, <1>11, SyncCalm, SyncKeeps DEF Same
  <2> QED BY <1>9, <2>1 DEF Paired, PairedAt, Held
<1> QED BY <1>2, <1>9, <1>10, <1>11

\* The buffer is moved to a pair when nothing is dirty.
LEMMA MovedPairs ==
  ASSUME AtaFails = FALSE, NEW v, SvrOK(v), v.wrDirty = {}, NEW start \in Nat,
         NEW n \in {1, 2}, NEW data \in Int, start + n <= Sectors,
         NEW f \in Nat, NEW m \in Nat, IsPair(f, m, start, n),
         NEW a \in Put([v EXCEPT !.wrSector = Align(WrSize, start, n)], start, n, data)
  PROVE  Paired(a.svr, f, m, data) /\ Held(a.svr, data, start, n)
<1> DEFINE u == [v EXCEPT !.wrSector = Align(WrSize, start, n)]
<1>1. SvrOK(u) /\ start - u.wrSector \in 0 .. WrSize - n
  BY MoveKeeps
<1>2. u.wrDirty = {}
  BY DEF SvrOK, States
<1>3. a \in Put(u, start, n, data)
  OBVIOUS
<1> HIDE DEF u
<1>4. Paired(u, f, m, data)
  BY <1>2 DEF Paired, PairedAt
<1> QED BY <1>1, <1>3, <1>4, PutPairs

LEMMA WritePairs ==
  ASSUME AtaFails = FALSE, NEW v, SvrOK(v), NEW start \in Nat, NEW n \in {1, 2},
         NEW data \in Int, start + n <= Sectors, NEW f \in Nat, NEW m \in Nat,
         IsPair(f, m, start, n), Paired(v, f, m, data), NEW a \in SvrWrite(v, start, n, data)
  PROVE  Paired(a.svr, f, m, data) /\ Held(a.svr, data, start, n)
<1>1. PICK w : w = Invalidate(v, start, n)
  OBVIOUS
<1>2. SvrOK(w) /\ Paired(w, f, m, data)
  <2>1. SvrOK(w)
    BY <1>1, InvalidateKeeps
  <2>2. w.wrSector = v.wrSector /\ w.wrDirty = v.wrDirty /\ w.wrBuf = v.wrBuf
    BY <1>1 DEF Invalidate, SvrOK, States
  <2> QED BY <2>1, <2>2 DEF Paired
<1> DEFINE Moved(u) == Put([u EXCEPT !.wrSector = Align(WrSize, start, n)], start, n, data)
<1>3. \/ /\ Within(w.wrSector, WrSize, start, n)
         /\ a \in Put(w, start, n, data)
      \/ w.wrCount = 0 /\ a \in Moved(w)
      \/ \E b \in SyncBuffer(w) : IF b.result = Ok THEN a \in Moved(b.svr) ELSE a = b
  BY <1>1 DEF SvrWrite, AfterSync
<1>4. CASE Within(w.wrSector, WrSize, start, n) /\ a \in Put(w, start, n, data)
  <2>1. w.wrSector \in Nat /\ WrSize \in Nat /\ n \in Nat
    BY <1>2, SvrAssumption DEF SvrOK, States
  <2>2. start - w.wrSector \in 0 .. WrSize - n
    BY <1>4, <2>1 DEF Within
  <2> QED BY <1>2, <1>4, <2>2, PutPairs
<1>5. CASE w.wrCount = 0 /\ a \in Moved(w)
  <2>1. w.wrDirty = {}
    BY <1>2, <1>5 DEF SvrOK
  <2> QED BY <1>2, <1>5, <2>1, MovedPairs
<1>6. CASE \E b \in SyncBuffer(w) : IF b.result = Ok THEN a \in Moved(b.svr) ELSE a = b
  <2>1. PICK b \in SyncBuffer(w) : IF b.result = Ok THEN a \in Moved(b.svr) ELSE a = b
    BY <1>6
  <2>2. b.result = Ok /\ SvrOK(b.svr) /\ b.svr.wrDirty = {}
    BY <1>2, SyncCalm, SyncKeeps
  <2>3. PICK u : u = b.svr
    OBVIOUS
  <2>4. SvrOK(u) /\ u.wrDirty = {} /\ a \in Moved(u)
    BY <2>1, <2>2, <2>3
  <2> QED BY <2>4, MovedPairs
<1> QED BY <1>3, <1>4, <1>5, <1>6

\* Any request, of which a write is one of the operation o.
LEMMA RequestPairs ==
  ASSUME AtaFails = FALSE, NEW v, SvrOK(v), NEW req \in Packets,
         NEW a \in SvrRequest(v, req), NEW f \in Nat, NEW m \in Nat, f + m <= Sectors,
         NEW data \in Int, Paired(v, f, m, data),
         req.cmd = "write" => IsPair(f, m, req.start, req.count) /\ req.data = data
  PROVE  /\ Paired(a.svr, f, m, data)
         /\ req.cmd = "write" => Held(a.svr, data, req.start, req.count)
<1>1. CASE req.cmd = "read"
  <2>1. a \in SvrRead(v, req.start, req.count) /\ req.start \in Nat /\ req.count \in {1, 2}
    BY <1>1 DEF SvrRequest, Packets
  <2>2. a.svr = v \/ a.svr.wrDirty = {}
    BY <2>1, ReadCalm
  <2> QED BY <1>1, <2>2 DEF Paired, PairedAt
<1>2. CASE req.cmd = "write"
  <2>1. PICK start \in Nat, n \in {1, 2} : start = req.start /\ n = req.count
    BY <1>2 DEF Packets
  <2>2. a \in SvrWrite(v, start, n, data) /\ IsPair(f, m, start, n)
    BY <1>2, <2>1 DEF SvrRequest
  <2>3. start + n <= Sectors
    BY <2>2, SvrAssumption DEF IsPair
  <2> QED BY <2>1, <2>2, <2>3, WritePairs
<1>3. CASE req.cmd = "sync"
  <2>1. a \in SyncBuffer(v)
    BY <1>3 DEF SvrRequest
  <2>2. a.svr.wrDirty = {}
    BY <2>1, SyncCalm
  <2> QED BY <1>3, <2>2 DEF Paired, PairedAt
<1> QED BY <1>1, <1>2, <1>3 DEF Packets

-----------------------------------------------------------------------------
(* The server takes a request.                                             *)

\* What holds the version that is written goes on holding it.
LEMMA HeldAfter ==
  ASSUME NEW v, NEW w, NEW req, OnlyWritten(v, w, req), NEW data,
         req.cmd = "write" => req.data = data,
         NEW f \in Nat, NEW n \in Int, f + n <= Sectors, Held(v, data, f, n)
  PROVE  Held(w, data, f, n)
<1> SUFFICES ASSUME NEW s \in f .. f + n - 1 PROVE Content(w)[s] = data
  BY DEF Held
<1>1. s \in 0 .. Sectors - 1 /\ Content(v)[s] = data
  BY SvrAssumption DEF Held
<1> QED BY <1>1 DEF OnlyWritten

LEMMA SameAfter ==
  ASSUME NEW v, NEW w, SvrOK(v), SvrOK(w), NEW req, OnlyWritten(v, w, req),
         req.cmd # "write"
  PROVE  Content(w) = Content(v)
<1>1. /\ Content(v) = [s \in 0 .. Sectors - 1 |-> Content(v)[s]]
      /\ Content(w) = [s \in 0 .. Sectors - 1 |-> Content(w)[s]]
  BY DEF Content, SvrOK, States
<1>2. \A s \in 0 .. Sectors - 1 : Content(w)[s] = Content(v)[s]
  BY DEF OnlyWritten
<1> QED BY <1>1, <1>2, Zenon

\* What a step of the server is.
Served(a, p) ==
  /\ toServer # <<>> /\ Head(toServer) \in Packets /\ Head(toServer) \in On(toServer)
  /\ a \in SvrRequest(svr, Head(toServer)) /\ svr' = a.svr
  /\ p \in Replies /\ p.data = a.data /\ Send(toClient, p)
  /\ p.cmd = Head(toServer).cmd /\ p.start = Head(toServer).start
  /\ p.count = Head(toServer).count
  /\ toServer' = Tail(toServer) /\ On(toServer') \subseteq On(toServer)
  /\ On(toClient') \subseteq On(toClient) \cup {p}
  /\ Thinned(InTransit, InTransit')
  /\ SvrOK(svr') /\ OnlyWritten(svr, svr', Head(toServer)) /\ Fresh(svr')

LEMMA ServerServes ==
  ASSUME AtaFails = FALSE, InOrder, SvrOK(svr), Fresh(svr), ServerStep
  PROVE  \E a, p : Served(a, p)
<1>1. /\ toServer # <<>> /\ toServer' = Tail(toServer) /\ toServer \in Seq(Packets)
      /\ toClient \in Seq(Moving) /\ toServer \in Seq(Moving) /\ Replies \subseteq Moving
  BY OrderMoving DEF ServerStep, InOrder
<1>2. /\ Head(toServer) \in Packets /\ Head(toServer) \in On(toServer)
      /\ On(toServer') \subseteq On(toServer)
  BY <1>1, OnTail, HeadTailProperties
<1>3. PICK a \in SvrRequest(svr, Head(toServer)) :
        /\ svr' = a.svr
        /\ Send(toClient, [Head(toServer) EXCEPT !.result = a.result, !.data = a.data])
  BY DEF ServerStep
<1>4. a.result = Ok /\ a.data \in Seq(Int)
  BY <1>2, RequestCalm
<1>5. PICK data \in Seq(Int) : data = a.data
  BY <1>4
<1>6. PICK p : p = [Head(toServer) EXCEPT !.result = Ok, !.data = data]
  OBVIOUS
<1>7. /\ p \in Replies /\ p.data = data /\ p.cmd = Head(toServer).cmd
      /\ p.start = Head(toServer).start /\ p.count = Head(toServer).count
  BY <1>2, <1>6, ReplyCalm
<1>8. Send(toClient, p)
  BY <1>3, <1>4, <1>5, <1>6
<1>9. On(toClient') \subseteq On(toClient) \cup {p}
  <2>1. On(Append(toClient, p)) = On(toClient) \cup {p}
    BY <1>1, <1>7, OnAppend
  <2> QED BY <1>8, <2>1 DEF Send
<1>10. Thinned(InTransit, InTransit')
  BY <1>1, <1>7, <1>8, TransitServed
<1>11. SvrOK(svr') /\ OnlyWritten(svr, svr', Head(toServer)) /\ Fresh(svr')
  BY <1>2, <1>3, RequestKeeps
<1> QED BY <1>1, <1>2, <1>3, <1>5, <1>7, <1>8, <1>9, <1>10, <1>11 DEF Served

LEMMA CleanDisk ==
  ASSUME NEW v, SvrOK(v), v.wrDirty = {}
  PROVE  Content(v) = v.disk
BY DEF Content, SvrOK, States

\* When no write is on its way, a request leaves the sectors as they are.
LEMMA ServeQuiet ==
  ASSUME AtaFails = FALSE, SvrOK(svr), Fresh(svr), NEW a, NEW p, Served(a, p),
         ReadsInside(toServer), Quiet(svr, toClient, toServer)
  PROVE  Quiet(svr', toClient', toServer') /\ Content(svr') = Content(svr)
<1>1. PICK req : req = Head(toServer)
  OBVIOUS
<1>2. /\ req \in Packets /\ req \in On(toServer) /\ a \in SvrRequest(svr, req)
      /\ svr' = a.svr /\ p.data = a.data /\ p.cmd = req.cmd
      /\ p.start = req.start /\ p.count = req.count
      /\ On(toServer') \subseteq On(toServer) /\ On(toClient') \subseteq On(toClient) \cup {p}
      /\ SvrOK(svr') /\ OnlyWritten(svr, svr', req)
  BY <1>1 DEF Served
<1>3. req.cmd # "write" /\ svr.wrDirty = {}
  BY <1>2 DEF Quiet
<1>4. Content(svr') = Content(svr)
  BY <1>2, <1>3, SameAfter
<1>5. CASE req.cmd = "read"
  <2>1. /\ a \in SvrRead(svr, req.start, req.count)
        /\ req.start \in Nat /\ req.count \in {1, 2}
    BY <1>2, <1>5 DEF SvrRequest, Packets
  <2>2. req.start + req.count <= Sectors
    BY <1>2, <1>5 DEF ReadsInside
  <2>3. /\ a.svr = svr \/ a.svr.wrDirty = {}
        /\ ReadFrom(svr, a.data, req.start, req.count)
    BY <2>1, <2>2, ReadCalm
  <2>4. svr'.wrDirty = {} /\ ReadFrom(svr, p.data, p.start, p.count)
    BY <1>2, <1>3, <2>3
  <2>5. \A r \in On(toClient') :
          r.cmd # "write" /\ (r.cmd = "read" => ReadFrom(svr, r.data, r.start, r.count))
    BY <1>2, <1>3, <2>4 DEF Quiet
  <2> QED BY <1>2, <1>4, <2>4, <2>5 DEF Quiet, ReadFrom
<1>6. CASE req.cmd = "sync"
  <2>1. svr'.wrDirty = {}
    BY <1>2, <1>6, SyncCalm DEF SvrRequest
  <2>2. \A r \in On(toClient') :
          r.cmd # "write" /\ (r.cmd = "read" => ReadFrom(svr, r.data, r.start, r.count))
    BY <1>2, <1>6 DEF Quiet
  <2> QED BY <1>2, <1>4, <2>1, <2>2 DEF Quiet, ReadFrom
<1>7. req.cmd \in {"read", "write", "sync"}
  BY <1>2 DEF Packets
<1> QED BY <1>3, <1>4, <1>5, <1>6, <1>7

\* In a write every request leaves what is written where it is.
LEMMA ServeWritten ==
  ASSUME AtaFails = FALSE, SvrOK(svr), NEW a, NEW p, Served(a, p), OpOK(op),
         Written(svr, op, toClient, toServer)
  PROVE  /\ Written(svr', op, toClient', toServer')
         /\ \A f \in Nat : \A n \in Int : f + n <= Sectors /\ Held(svr, op.version, f, n) =>
              Held(svr', op.version, f, n)
<1>1. PICK req : req = Head(toServer)
  OBVIOUS
<1>2. /\ req \in Packets /\ req \in On(toServer) /\ a \in SvrRequest(svr, req)
      /\ svr' = a.svr /\ p.cmd = req.cmd /\ p.start = req.start /\ p.count = req.count
      /\ On(toServer') \subseteq On(toServer) /\ On(toClient') \subseteq On(toClient) \cup {p}
      /\ OnlyWritten(svr, svr', req)
  BY <1>1 DEF Served
<1>3. PICK f0 \in Nat, m \in Nat, data \in Nat :
        /\ f0 = op.first /\ m = op.sectors /\ data = op.version /\ f0 + m <= Sectors
  BY DEF OpOK
<1>4. /\ \A r \in On(toServer) : r.cmd = "write" =>
           IsPair(f0, m, r.start, r.count) /\ r.data = data
      /\ \A r \in On(toClient) : r.cmd = "write" =>
           IsPair(f0, m, r.start, r.count) /\ Held(svr, data, r.start, r.count)
      /\ Paired(svr, f0, m, data)
  BY <1>3 DEF Written
<1>5. req.cmd = "write" => IsPair(f0, m, req.start, req.count) /\ req.data = data
  BY <1>2, <1>4
<1>6. /\ Paired(svr', f0, m, data)
      /\ req.cmd = "write" => Held(svr', data, req.start, req.count)
  <2>1. data \in Int
    OBVIOUS
  <2> QED BY <1>2, <1>3, <1>4, <1>5, <2>1, RequestPairs
<1>7. ASSUME NEW f \in Nat, NEW n \in Int, f + n <= Sectors, Held(svr, data, f, n)
      PROVE  Held(svr', data, f, n)
  BY <1>2, <1>5, <1>7, HeldAfter
<1>8. ASSUME NEW r \in On(toClient), r.cmd = "write"
      PROVE  IsPair(f0, m, r.start, r.count) /\ Held(svr', data, r.start, r.count)
  <2>1. IsPair(f0, m, r.start, r.count) /\ Held(svr, data, r.start, r.count)
    BY <1>4, <1>8
  <2>2. PICK f \in Nat, n \in {1, 2} : f = r.start /\ n = r.count
    BY <2>1 DEF IsPair
  <2>3. f + n <= Sectors /\ n \in Int
    BY <1>3, <2>1, <2>2, SvrAssumption DEF IsPair
  <2> QED BY <1>7, <2>1, <2>2, <2>3
<1>9. ASSUME NEW r \in On(toClient'), r.cmd = "write"
      PROVE  IsPair(f0, m, r.start, r.count) /\ Held(svr', data, r.start, r.count)
  BY <1>2, <1>5, <1>6, <1>8, <1>9
<1>10. \A r \in On(toServer') : r.cmd = "write" =>
         IsPair(f0, m, r.start, r.count) /\ r.data = data
  BY <1>2, <1>4
<1>11. Written(svr', op, toClient', toServer')
  BY <1>3, <1>6, <1>9, <1>10 DEF Written
<1> QED BY <1>3, <1>7, <1>11

-----------------------------------------------------------------------------
(* The chunks of a piece.                                                  *)

LEMMA ChunkPairs ==
  ASSUME NEW o, OpOK(o), NEW ck, PieceOK(o, ck), NEW k \in DOMAIN ck
  PROVE  /\ IsPair(o.first, o.sectors, ck[k].start, ck[k].count)
         /\ ck[k].start \in Nat /\ ck[k].count \in {1, 2}
         /\ ck[k].start + ck[k].count <= Sectors
<1>1. PICK f \in Nat, m \in Nat, start \in Nat, left \in Nat :
        /\ f = o.first /\ m = o.sectors /\ start = o.start /\ left = o.left
        /\ f + m <= Sectors /\ start >= f /\ start + left = f + m /\ (start - f) % 2 = 0
  BY DEF OpOK
<1>2. PICK n \in Nat : n = Lesser(left, PieceSize)
  BY UdpAssumption DEF Lesser
<1>3. /\ k \in 1 .. (n + 1) \div 2 /\ ck[k].start = start + 2 * (k - 1)
      /\ ck[k].count = IF n >= 2 * k THEN 2 ELSE 1
      /\ ck[k].start \in Nat /\ ck[k].count \in {1, 2}
  BY <1>1, <1>2 DEF PieceOK, ChunkRecords
<1>4. PICK at \in Nat, c \in {1, 2} : at = ck[k].start /\ c = ck[k].count
  BY <1>3
<1>5. k \in Nat /\ k >= 1 /\ 2 * k <= n + 1 /\ at = start + 2 * (k - 1)
  BY <1>3, <1>4
<1>6. n <= left /\ (n = left \/ n % 2 = 0)
  BY <1>2, UdpAssumption DEF Lesser
<1>7. at >= f /\ at < f + m
  BY <1>1, <1>5, <1>6
<1>8. (at - f) % 2 = 0
  <2>1. PICK d \in Nat, j \in Nat : d = start - f /\ j = k - 1
    BY <1>1, <1>5
  <2>2. at - f = d + 2 * j /\ d % 2 = 0
    BY <1>1, <1>5, <2>1
  <2>3. (d + 2 * j) % 2 = 0
    BY <2>2
  <2> QED BY <2>2, <2>3
<1>9. n >= 2 * k <=> at + 1 < f + m
  <2>1. CASE n >= 2 * k
    BY <1>1, <1>5, <1>6, <2>1
  <2>2. CASE n < 2 * k
    <3>1. PICK j \in Nat : k = j + 1
      BY <1>5
    <3>2. n = 2 * j + 1
      <4>1. 2 * k = 2 * j + 2
        BY <3>1
      <4> QED BY <1>5, <2>2, <4>1
    <3>3. n % 2 # 0
      BY <3>2
    <3>4. n = left
      BY <1>6, <3>3
    <3> QED BY <1>1, <1>5, <2>2, <3>1, <3>2, <3>4
  <2> QED BY <1>5, <2>1, <2>2
<1>10. c = IF at + 1 < f + m THEN 2 ELSE 1
  BY <1>3, <1>4, <1>9
<1>11. IsPair(f, m, at, c)
  BY <1>7, <1>8, <1>10 DEF IsPair
<1>12. at + c <= Sectors
  BY <1>1, <1>7, <1>10, SvrAssumption
<1> QED BY <1>1, <1>3, <1>4, <1>11, <1>12

LEMMA ServeOrder ==
  ASSUME AtaFails = FALSE, SvrOK(svr), Fresh(svr), InOrder, Order, ServerStep
  PROVE  Order'
<1>1. PICK a, p : Served(a, p)
  BY ServerServes
<1>2. /\ SvrOK(svr') /\ OnlyWritten(svr, svr', Head(toServer)) /\ Head(toServer) \in Packets
      /\ Head(toServer) \in On(toServer) /\ On(toServer') \subseteq On(toServer)
      /\ Thinned(InTransit, InTransit')
  BY <1>1 DEF Served
<1>3. UNCHANGED <<phase, op, chunk, last, may>>
  BY DEF ServerStep, piece
<1>4. /\ ~Writing => Quiet(svr', toClient', toServer') /\ Content(svr') = Content(svr)
      /\ Writing => /\ OpOK(op) /\ Written(svr', op, toClient', toServer')
                    /\ \A f \in Nat : \A n \in Int :
                         f + n <= Sectors /\ Held(svr, op.version, f, n) =>
                           Held(svr', op.version, f, n)
  <2>1. CASE ~Writing
    BY <1>1, <2>1, ServeQuiet DEF Order
  <2>2. CASE Writing
    <3>1. OpOK(op) /\ Written(svr, op, toClient, toServer)
      BY <2>2 DEF Order, Writing
    <3> QED BY <1>1, <2>2, <3>1, ServeWritten
  <2> QED BY <2>1, <2>2
<1>5. MayOK(svr', may)
  <2> SUFFICES ASSUME NEW s \in 0 .. Sectors - 1 PROVE Content(svr')[s] \in may[s]
    BY DEF MayOK, Order
  <2>1. Content(svr)[s] \in may[s]
    BY DEF Order, MayOK
  <2>2. CASE Content(svr')[s] = Content(svr)[s]
    BY <2>1, <2>2
  <2>3. CASE Content(svr')[s] # Content(svr)[s]
    <3>1. PICK req : req = Head(toServer)
      OBVIOUS
    <3>2. /\ req.cmd = "write" /\ s \in req.start .. req.start + req.count - 1
          /\ Content(svr')[s] = req.data
      BY <1>2, <2>3, <3>1 DEF OnlyWritten
    <3>3. Writing
      BY <1>4, <2>3
    <3>4. /\ IsPair(op.first, op.sectors, req.start, req.count) /\ req.data = op.version
          /\ WriteMay(op, may)
      BY <1>2, <3>1, <3>2, <3>3 DEF Order, Written
    <3>5. s \in op.first .. op.first + op.sectors - 1
      <4>1. PICK f \in Nat, m \in Nat : f = op.first /\ m = op.sectors
        BY <1>4, <3>3 DEF OpOK
      <4>2. PICK at \in Nat, n \in {1, 2} : at = req.start /\ n = req.count
        BY <3>4 DEF IsPair
      <4>3. s \in f .. f + m - 1
        BY <3>2, <3>4, <4>1, <4>2 DEF IsPair
      <4> QED BY <4>1, <4>3
    <3> QED BY <3>2, <3>4, <3>5 DEF WriteMay
  <2> QED BY <2>2, <2>3
<1>6. ReadsInside(toServer')
  BY <1>2 DEF Order, ReadsInside
<1>7. ~Writing /\ phase = "piece" => ReadSoFar(svr', op, chunk)
  BY <1>4 DEF Order, ReadSoFar, ReadFrom
<1>8. Writing /\ phase = "piece" => HeldSoFar(svr', op, chunk)
  <2> SUFFICES ASSUME Writing, phase = "piece" PROVE HeldSoFar(svr', op, chunk)
    OBVIOUS
  <2>1. HeldSoFar(svr, op, chunk) /\ OpOK(op) /\ PieceOK(op, chunk)
    BY <1>4 DEF Order
  <2>2. Held(svr', op.version, op.first, op.start - op.first)
    <3>1. PICK f \in Nat, n \in Int : f = op.first /\ n = op.start - op.first /\ f + n <= Sectors
      BY <2>1, SvrAssumption DEF OpOK
    <3> QED BY <1>4, <2>1, <3>1 DEF HeldSoFar
  <2>3. ASSUME NEW k \in DOMAIN chunk, chunk[k].done
        PROVE  Held(svr', op.version, chunk[k].start, chunk[k].count)
    <3>1. PICK f \in Nat, n \in {1, 2} :
            f = chunk[k].start /\ n = chunk[k].count /\ f + n <= Sectors
      BY <2>1, ChunkPairs
    <3>2. n \in Int /\ Held(svr, op.version, f, n)
      BY <2>1, <2>3, <3>1 DEF HeldSoFar
    <3> QED BY <1>4, <3>1, <3>2
  <2> QED BY <2>2, <2>3 DEF HeldSoFar
<1>9. Writing /\ phase = "piece" => WritesLast(op, chunk, InTransit')
  BY <1>2, ThinnedKeeps DEF Order, WritesLast
<1>10. phase = "query" => Syncing(svr', op, toClient', InTransit')
  <2> SUFFICES ASSUME phase = "query" PROVE Syncing(svr', op, toClient', InTransit')
    OBVIOUS
  <2>1. Writing /\ Syncing(svr, op, toClient, InTransit)
    BY DEF Order, Writing
  <2>2. Held(svr', op.version, op.first, op.sectors)
    <3>1. PICK f \in Nat, n \in Int : f = op.first /\ n = op.sectors /\ f + n <= Sectors
      BY <1>4, <2>1 DEF OpOK
    <3> QED BY <1>4, <2>1, <3>1 DEF Syncing
  <2>3. Only(InTransit', {"write", "sync"}) /\ Trailing(InTransit', "sync")
    BY <1>2, <2>1, ThinnedKeeps DEF Syncing
  <2>4. ASSUME NEW r \in On(toClient'), r.cmd = "sync" PROVE svr'.wrDirty = {}
    <3>1. PICK req : req = Head(toServer)
      OBVIOUS
    <3>2. /\ a \in SvrRequest(svr, req) /\ svr' = a.svr /\ p.cmd = req.cmd
          /\ On(toClient') \subseteq On(toClient) \cup {p} /\ req \in Packets
          /\ toServer' = Tail(toServer) /\ Send(toClient, p) /\ p \in Replies /\ toServer # <<>>
      BY <1>1, <3>1 DEF Served
    <3>3. CASE req.cmd = "sync"
      BY <3>2, <3>3, SyncCalm DEF SvrRequest
    <3>4. CASE req.cmd # "sync"
      <4>1. r \in On(toClient)
        BY <2>4, <3>2, <3>4
      <4>2. PICK i \in 1 .. Len(InTransit), j \in 1 .. Len(InTransit) :
              i < j /\ InTransit[i] = r /\ InTransit[j] = req
        BY <3>1, <3>2, <4>1, TransitServed
      <4> QED BY <2>1, <2>4, <3>4, <4>2 DEF Syncing, Trailing
    <3> QED BY <3>3, <3>4
  <2> QED BY <2>2, <2>3, <2>4 DEF Syncing
<1>11. OkMeansStored'
  <2>1. CASE phase = "idle"
    <3>1. ~Writing /\ svr.wrDirty = {} /\ svr'.wrDirty = {}
      BY <1>4, <2>1 DEF Writing, Order, Quiet
    <3>2. svr'.disk = svr.disk
      BY <1>2, <1>4, <3>1, CleanDisk
    <3> QED BY <1>3, <3>2 DEF Order, OkMeansStored
  <2>2. CASE phase # "idle"
    <3>1. last' = NoResult
      BY <1>3, <2>2 DEF Order
    <3> QED BY <3>1 DEF OkMeansStored, NoResult
  <2> QED BY <2>1, <2>2
<1>12. ReadsFresh'
  BY <1>3 DEF Order, ReadsFresh
<1>13. Writing' <=> Writing
  BY <1>3 DEF Writing
<1>14. Order
  OBVIOUS
<1> QED BY <1>3, <1>4, <1>5, <1>6, <1>7, <1>8, <1>9, <1>10, <1>11, <1>12, <1>13, <1>14
        DEF Order

-----------------------------------------------------------------------------
(* The steps of the client that go on with a piece or the query.           *)

\* A step that sends nothing and leaves the operation where it is: packets are
\* taken, and a chunk may be done.
LEMMA OrderGoesOn ==
  ASSUME Order, UNCHANGED <<svr, phase, op, last, may>>,
         On(toServer') \subseteq On(toServer), On(toClient') \subseteq On(toClient),
         InTransit' = InTransit \/ Thinned(InTransit, InTransit'),
         phase = "piece" => PieceOK(op, chunk'),
         ~Writing /\ phase = "piece" => ReadSoFar(svr, op, chunk'),
         Writing /\ phase = "piece" => HeldSoFar(svr, op, chunk'),
         Writing /\ phase = "piece" =>
           chunk' = chunk \/ Only(InTransit', {"write"})
  PROVE  Order'
<1>1. Writing' <=> Writing
  BY DEF Writing
<1>2. /\ \A c : Trailing(InTransit, c) => Trailing(InTransit', c)
      /\ \A C : Only(InTransit, C) => Only(InTransit', C)
  BY ThinnedKeeps
<1>3. MayOK(svr', may') /\ ReadsInside(toServer')
  BY DEF Order, ReadsInside
<1>4. /\ ~Writing => Quiet(svr, toClient', toServer')
      /\ Writing => WriteMay(op, may) /\ Written(svr, op, toClient', toServer')
  <2>1. ~Writing => Quiet(svr, toClient, toServer)
    BY DEF Order
  <2>2. ~Writing => Quiet(svr, toClient', toServer')
    BY <2>1 DEF Quiet
  <2>3. Writing => WriteMay(op, may) /\ Written(svr, op, toClient, toServer)
    BY DEF Order
  <2>4. Writing => Written(svr, op, toClient', toServer')
    BY <2>3 DEF Written
  <2> QED BY <2>2, <2>3, <2>4
<1>5. Writing /\ phase = "piece" => WritesLast(op, chunk', InTransit')
  <2>1. CASE chunk' = chunk
    BY <1>2, <2>1 DEF Order, WritesLast
  <2>2. CASE Only(InTransit', {"write"})
    BY <1>2, <2>2 DEF Order, WritesLast
  <2> QED BY <2>1, <2>2
<1>6. phase = "query" => Syncing(svr, op, toClient', InTransit')
  BY <1>2 DEF Order, Syncing
<1>7. OkMeansStored' /\ ReadsFresh'
  BY DEF Order, OkMeansStored, ReadsFresh
<1>8. Order
  OBVIOUS
<1> QED BY <1>1, <1>3, <1>4, <1>5, <1>6, <1>7, <1>8 DEF Order

\* A packet of the operation is sent or lost.
LEMMA SendOrder ==
  ASSUME Order, InOrder, UNCHANGED <<svr, toClient, phase, op, chunk, last, may>>,
         NEW p \in Packets, Send(toServer, p),
         \/ phase = "piece" /\ p.cmd = op.kind /\ IsPair(op.first, op.sectors, p.start, p.count)
            /\ (op.kind = "write" => p.data = op.version)
         \/ phase = "query" /\ p.cmd = "sync"
  PROVE  Order'
<1>0. Writing' <=> Writing
  BY DEF Writing
<1>1. OpOK(op) /\ last = NoResult
  BY DEF Order
<1>2. CASE toServer' = toServer /\ InTransit' = InTransit
  <2>1. Order
    OBVIOUS
  <2>2. OkMeansStored' /\ ReadsFresh'
    BY DEF Order, OkMeansStored, ReadsFresh
  <2> QED BY <1>0, <1>2, <2>1, <2>2 DEF Order
<1>3. CASE /\ On(toServer') = On(toServer) \cup {p}
           /\ Trailing(InTransit, p.cmd) => Trailing(InTransit', p.cmd)
           /\ \A C : p.cmd \in C /\ Only(InTransit, C) => Only(InTransit', C)
  <2>1. ReadsInside(toServer')
    <3>1. p.cmd = "read" => p.start + p.count <= Sectors
      <4> SUFFICES ASSUME p.cmd = "read" PROVE p.start + p.count <= Sectors
        OBVIOUS
      <4>1. IsPair(op.first, op.sectors, p.start, p.count)
        OBVIOUS
      <4>2. PICK f \in Nat, m \in Nat : f = op.first /\ m = op.sectors /\ f + m <= Sectors
        BY <1>1 DEF OpOK
      <4>3. PICK at \in Nat, n \in {1, 2} : at = p.start /\ n = p.count
        BY <4>1 DEF IsPair
      <4>4. at + n <= Sectors
        BY <4>1, <4>2, <4>3, SvrAssumption DEF IsPair
      <4> QED BY <4>3, <4>4
    <3>2. ReadsInside(toServer)
      BY DEF Order
    <3> QED BY <1>3, <3>1, <3>2 DEF ReadsInside
  <2>2. ~Writing => Quiet(svr, toClient, toServer')
    <3> SUFFICES ASSUME ~Writing PROVE Quiet(svr, toClient, toServer')
      OBVIOUS
    <3>1. Quiet(svr, toClient, toServer) /\ p.cmd # "write"
      BY DEF Order, Writing
    <3> QED BY <1>3, <3>1 DEF Quiet
  <2>3. Writing => Written(svr, op, toClient, toServer')
    <3> SUFFICES ASSUME Writing PROVE Written(svr, op, toClient, toServer')
      OBVIOUS
    <3>1. Written(svr, op, toClient, toServer)
      BY DEF Order
    <3>2. p.cmd = "write" => IsPair(op.first, op.sectors, p.start, p.count) /\ p.data = op.version
      BY DEF Writing
    <3> QED BY <1>3, <3>1, <3>2 DEF Written
  <2>4. Writing /\ phase = "piece" => WritesLast(op, chunk, InTransit')
    <3> SUFFICES ASSUME Writing, phase = "piece" PROVE WritesLast(op, chunk, InTransit')
      OBVIOUS
    <3>1. p.cmd = "write" /\ WritesLast(op, chunk, InTransit)
      BY DEF Order, Writing
    <3>2. p.cmd \in {"write"}
      BY <3>1
    <3> QED BY <1>3, <3>1, <3>2 DEF WritesLast
  <2>5. phase = "query" => Syncing(svr, op, toClient, InTransit')
    <3> SUFFICES ASSUME phase = "query" PROVE Syncing(svr, op, toClient, InTransit')
      OBVIOUS
    <3>1. p.cmd = "sync" /\ Syncing(svr, op, toClient, InTransit)
      BY DEF Order
    <3>2. p.cmd \in {"write", "sync"}
      BY <3>1
    <3> QED BY <1>3, <3>1, <3>2 DEF Syncing
  <2>6. OkMeansStored' /\ ReadsFresh'
    BY DEF Order, OkMeansStored, ReadsFresh
  <2>7. Order
    OBVIOUS
  <2> QED BY <1>0, <2>1, <2>2, <2>3, <2>4, <2>5, <2>6, <2>7 DEF Order
<1> QED BY <1>2, <1>3, TransitSent

-----------------------------------------------------------------------------
(* A chunk, a piece and an operation are done.                             *)

LEMMA NewPieceOK ==
  ASSUME NEW o, OpOK(o), seqNo \in Int,
         NEW ck, ck = Chunks(o.start, Lesser(o.left, PieceSize))
  PROVE  PieceOK(o, ck) /\ \A k \in DOMAIN ck : ~ck[k].done
<1>1. PICK start \in Nat, n \in Nat : start = o.start /\ n = Lesser(o.left, PieceSize)
  BY UdpAssumption DEF OpOK, Lesser
<1>2. DOMAIN ck = 1 .. (n + 1) \div 2
  BY <1>1 DEF Chunks
<1>3. ASSUME NEW k \in 1 .. (n + 1) \div 2
      PROVE  /\ ck[k] \in ChunkRecords
             /\ ck[k].start = start + 2 * (k - 1)
             /\ ck[k].count = IF n >= 2 * k THEN 2 ELSE 1
             /\ ck[k].done = FALSE
  <2>1. PICK at \in Nat, c \in {1, 2}, q \in Int, d \in Seq(Int) :
          /\ at = start + 2 * (k - 1) /\ c = IF n >= 2 * k THEN 2 ELSE 1
          /\ q = (seqNo + k) % 256 /\ d = <<Blank, Blank>>
    <3>1. start + 2 * (k - 1) \in Nat /\ (seqNo + k) % 256 \in Int
      OBVIOUS
    <3>2. <<Blank, Blank>> \in Seq(Int)
      BY DEF Blank
    <3> QED BY <3>1, <3>2
  <2>2. ck[k] = [start |-> at, count |-> c, seq |-> q, done |-> FALSE, data |-> d]
    BY <1>1, <2>1 DEF Chunks
  <2> QED BY <2>1, <2>2 DEF ChunkRecords
<1> QED BY <1>1, <1>2, <1>3 DEF PieceOK

\* a chunk is done
Marked(ck, k, data) == [ck EXCEPT ![k].done = TRUE, ![k].data = data]

LEMMA ChunkDone ==
  ASSUME NEW o, NEW ck, PieceOK(o, ck), NEW k \in DOMAIN ck, NEW data \in Seq(Int),
         NEW new, new = Marked(ck, k, data)
  PROVE  /\ PieceOK(o, new) /\ DOMAIN new = DOMAIN ck
         /\ \A j \in DOMAIN ck : j # k => new[j] = ck[j]
         /\ new[k].start = ck[k].start /\ new[k].count = ck[k].count /\ new[k].data = data
<1>1. /\ DOMAIN new = DOMAIN ck /\ \A j \in DOMAIN ck : j # k => new[j] = ck[j]
      /\ new[k] = [[ck[k] EXCEPT !.done = TRUE] EXCEPT !.data = data]
  BY DEF Marked
<1> DEFINE D == Seq(Int)
<1> HIDE DEF D
<1>2. PICK c \in [start : Nat, count : {1, 2}, seq : Int, done : BOOLEAN, data : D] : c = ck[k]
  BY DEF PieceOK, ChunkRecords, D
<1>3. PICK e : e = [[c EXCEPT !.done = TRUE] EXCEPT !.data = data]
  OBVIOUS
<1>4. data \in D
  BY DEF D
<1>5. /\ e \in [start : Nat, count : {1, 2}, seq : Int, done : BOOLEAN, data : D]
      /\ e.start = c.start /\ e.count = c.count /\ e.data = data
  BY <1>3, <1>4
<1>6. new[k] = e
  BY <1>1, <1>2, <1>3
<1>7. e \in ChunkRecords
  BY <1>5 DEF ChunkRecords, D
<1>8. PieceOK(o, new)
  <2>1. \A j \in DOMAIN ck :
          new[j] \in ChunkRecords /\ new[j].start = ck[j].start /\ new[j].count = ck[j].count
    <3> TAKE j \in DOMAIN ck
    <3>1. ck[j] \in ChunkRecords
      BY DEF PieceOK
    <3>2. CASE j = k
      BY <1>2, <1>5, <1>6, <1>7, <3>2
    <3>3. CASE j # k
      BY <1>1, <3>1, <3>3
    <3> QED BY <3>2, <3>3
  <2>2. PICK n, start : n = Lesser(o.left, PieceSize) /\ start = o.start
    OBVIOUS
  <2>3. /\ DOMAIN ck = 1 .. (n + 1) \div 2
        /\ \A j \in DOMAIN ck : /\ ck[j].start = start + 2 * (j - 1)
                                /\ ck[j].count = IF n >= 2 * j THEN 2 ELSE 1
    BY <2>2 DEF PieceOK
  <2>4. /\ DOMAIN new = 1 .. (n + 1) \div 2
        /\ \A j \in DOMAIN new : /\ new[j] \in ChunkRecords
                                 /\ new[j].start = start + 2 * (j - 1)
                                 /\ new[j].count = IF n >= 2 * j THEN 2 ELSE 1
    BY <1>1, <2>1, <2>3, Zenon
  <2> QED BY <2>2, <2>4, Zenon DEF PieceOK
<1> QED BY <1>1, <1>2, <1>5, <1>6, <1>8

\* what the chunk reads or writes
LEMMA DoneSoFar ==
  ASSUME NEW v, NEW o, NEW ck, PieceOK(o, ck), NEW k \in DOMAIN ck, NEW data \in Seq(Int),
         NEW new, new = Marked(ck, k, data)
  PROVE  /\ ReadSoFar(v, o, ck) /\ ReadFrom(v, data, ck[k].start, ck[k].count) =>
              ReadSoFar(v, o, new)
         /\ HeldSoFar(v, o, ck) /\ Held(v, o.version, ck[k].start, ck[k].count) =>
              HeldSoFar(v, o, new)
<1>1. /\ DOMAIN new = DOMAIN ck /\ \A j \in DOMAIN ck : j # k => new[j] = ck[j]
      /\ new[k].start = ck[k].start /\ new[k].count = ck[k].count /\ new[k].data = data
  BY ChunkDone
<1>2. ASSUME ReadSoFar(v, o, ck), ReadFrom(v, data, ck[k].start, ck[k].count)
      PROVE  ReadSoFar(v, o, new)
  BY <1>1, <1>2 DEF ReadSoFar
<1>3. ASSUME HeldSoFar(v, o, ck), Held(v, o.version, ck[k].start, ck[k].count)
      PROVE  HeldSoFar(v, o, new)
  BY <1>1, <1>3 DEF HeldSoFar
<1> QED BY <1>2, <1>3

\* The chunk and the place in it of a sector of a piece of n.
LEMMA Places ==
  ASSUME NEW n \in Nat, NEW i \in 1 .. n
  PROVE  /\ (i + 1) \div 2 \in 1 .. (n + 1) \div 2 /\ 2 - (i % 2) \in {1, 2}
         /\ 2 - (i % 2) = 2 => n >= 2 * ((i + 1) \div 2)
         /\ 2 * ((i + 1) \div 2 - 1) + (2 - (i % 2)) = i
<1>1. PICK k \in Nat : k = (i + 1) \div 2
  OBVIOUS
<1>2. i % 2 \in {0, 1}
  OBVIOUS
<1>3. (i % 2 = 0 => i = 2 * k) /\ (i % 2 = 1 => i = 2 * k - 1)
  BY <1>1
<1> QED BY <1>1, <1>2, <1>3

\* The data of a piece that is done is what its sectors hold.
LEMMA PieceRead ==
  ASSUME NEW v, NEW o, OpOK(o), NEW ck, PieceOK(o, ck), ReadSoFar(v, o, ck),
         \A k \in DOMAIN ck : ck[k].done, NEW n, n = Lesser(o.left, PieceSize)
  PROVE  ReadFrom(v, o.got \o Data(ck, n), o.first, (o.start + n) - o.first)
<1>1. PICK f \in Nat, start \in Nat, got \in Seq(Int) :
        f = o.first /\ start = o.start /\ got = o.got /\ start >= f
  BY DEF OpOK
<1>a. PICK m \in Nat : m = start - f
  BY <1>1
<1>2. n \in Nat
  BY UdpAssumption DEF OpOK, Lesser
<1>3. DOMAIN ck = 1 .. (n + 1) \div 2
  BY DEF PieceOK
<1>4. ASSUME NEW i \in 1 .. n
      PROVE  /\ ck[(i + 1) \div 2].data[2 - (i % 2)] \in Int
             /\ ck[(i + 1) \div 2].data[2 - (i % 2)] = Content(v)[start + i - 1]
  <2>1. PICK k \in 1 .. (n + 1) \div 2, j \in {1, 2} :
          /\ k = (i + 1) \div 2 /\ j = 2 - (i % 2)
          /\ j = 2 => n >= 2 * k
          /\ 2 * (k - 1) + j = i
    BY <1>2, Places
  <2>2. ReadFrom(v, ck[k].data, ck[k].start, ck[k].count)
    BY <1>3 DEF ReadSoFar
  <2>3. ck[k].start = start + 2 * (k - 1) /\ ck[k].count = IF n >= 2 * k THEN 2 ELSE 1
    BY <1>1, <1>3 DEF PieceOK
  <2>4. PICK at \in Int, c \in {1, 2} :
          /\ at = ck[k].start /\ c = ck[k].count
          /\ at = start + 2 * (k - 1) /\ c = IF n >= 2 * k THEN 2 ELSE 1
    BY <2>3
  <2>a. PICK d : d = ck[k].data
    OBVIOUS
  <2>5. d \in Seq(Int) /\ Len(d) = c /\ \A x \in 1 .. c : d[x] = Content(v)[at + x - 1]
    BY <2>2, <2>4, <2>a DEF ReadFrom
  <2>6. j \in 1 .. c /\ at + j - 1 = start + i - 1
    BY <2>1, <2>4
  <2>7. d[j] = Content(v)[start + i - 1]
    BY <2>5, <2>6
  <2>8. d[j] \in Int
    BY <2>5, <2>6, ElementOfSeq
  <2> QED BY <2>1, <2>a, <2>7, <2>8
<1>5. PICK d : d = Data(ck, n)
  OBVIOUS
<1>6. /\ d \in [1 .. n -> Int]
      /\ \A i \in 1 .. n : d[i] = Content(v)[start + i - 1]
  BY <1>4, <1>5 DEF Data
<1>7. d \in Seq(Int) /\ Len(d) = n
  <2>1. d \in Seq(Int) /\ DOMAIN d = 1 .. n
    BY <1>2, <1>6, SeqDef
  <2>2. Len(d) \in Nat /\ DOMAIN d = 1 .. Len(d)
    BY <2>1, LenProperties
  <2> QED BY <1>2, <2>1, <2>2
<1>8. Len(got) = m /\ \A i \in 1 .. m : got[i] = Content(v)[f + i - 1]
  BY <1>1, <1>a DEF ReadSoFar, ReadFrom
<1>b. /\ got \o d \in Seq(Int) /\ Len(got \o d) = Len(got) + Len(d)
      /\ \A i \in 1 .. Len(got) + Len(d) :
           (got \o d)[i] = IF i <= Len(got) THEN got[i] ELSE d[i - Len(got)]
  BY <1>7, ConcatProperties
<1>9. PICK t \in Seq(Int) :
        /\ t = got \o d /\ Len(t) = m + n
        /\ \A i \in 1 .. m + n : t[i] = IF i <= m THEN got[i] ELSE d[i - m]
  BY <1>b, <1>7, <1>8
<1>10. ASSUME NEW i \in 1 .. m + n PROVE t[i] = Content(v)[f + i - 1]
  <2>1. CASE i <= m
    <3>1. i \in 1 .. m /\ t[i] = got[i]
      BY <1>9, <2>1
    <3> QED BY <1>8, <3>1
  <2>2. CASE i > m
    <3>1. PICK j \in 1 .. n : j = i - m
      BY <1>2, <2>2
    <3>2. t[i] = d[j]
      BY <1>9, <2>2, <3>1
    <3>3. start + j - 1 = f + i - 1
      BY <1>a, <3>1
    <3> QED BY <1>6, <3>1, <3>2, <3>3
  <2> QED BY <1>2, <2>1, <2>2
<1>11. (start + n) - f = m + n
  BY <1>a, <1>2
<1>12. ReadFrom(v, t, f, (start + n) - f)
  BY <1>9, <1>10, <1>11 DEF ReadFrom
<1> QED BY <1>1, <1>5, <1>9, <1>12

\* The sectors of a piece that is done hold what is written.
LEMMA PieceHeld ==
  ASSUME NEW v, NEW o, OpOK(o), NEW ck, PieceOK(o, ck), HeldSoFar(v, o, ck),
         \A k \in DOMAIN ck : ck[k].done, NEW n, n = Lesser(o.left, PieceSize)
  PROVE  Held(v, o.version, o.first, (o.start + n) - o.first)
<1>1. PICK f \in Nat, start \in Nat, m \in Nat : f = o.first /\ start = o.start /\ m = start - f
  BY DEF OpOK
<1>2. n \in Nat
  BY UdpAssumption DEF OpOK, Lesser
<1>3. DOMAIN ck = 1 .. (n + 1) \div 2
  BY DEF PieceOK
<1>4. ASSUME NEW i \in 1 .. n PROVE Content(v)[start + i - 1] = o.version
  <2>1. PICK k \in 1 .. (n + 1) \div 2, j \in {1, 2} :
          /\ k = (i + 1) \div 2 /\ j = 2 - (i % 2)
          /\ j = 2 => n >= 2 * k
          /\ 2 * (k - 1) + j = i
    BY <1>2, Places
  <2>2. Held(v, o.version, ck[k].start, ck[k].count)
    BY <1>3 DEF HeldSoFar
  <2>3. ck[k].start = start + 2 * (k - 1) /\ ck[k].count = IF n >= 2 * k THEN 2 ELSE 1
    BY <1>1, <1>3 DEF PieceOK
  <2>4. PICK at \in Int, c \in {1, 2} : at = ck[k].start /\ c = ck[k].count
    BY <2>3
  <2>5. start + i - 1 \in at .. at + c - 1
    BY <2>1, <2>3, <2>4
  <2> QED BY <2>2, <2>4, <2>5 DEF Held
<1> SUFFICES ASSUME NEW s \in f .. f + ((start + n) - f) - 1 PROVE Content(v)[s] = o.version
  BY <1>1 DEF Held
<1>5. CASE s < start
  <2>1. s \in f .. f + m - 1
    BY <1>1, <1>5
  <2> QED BY <1>1, <2>1 DEF HeldSoFar, Held
<1>6. CASE s >= start
  <2>1. PICK i \in 1 .. n : s = start + i - 1
    <3>1. s - start + 1 \in 1 .. n /\ s = start + (s - start + 1) - 1
      BY <1>2, <1>6
    <3> QED BY <3>1
  <2> QED BY <1>4, <2>1
<1> QED BY <1>5, <1>6

-----------------------------------------------------------------------------
(* The steps of the client that begin and end something.                   *)

\* the operation after a piece of n sectors
After(o, n, got) == [o EXCEPT !.start = @ + n, !.left = @ - n, !.got = got]

LEMMA AfterPiece ==
  ASSUME NEW o, OpOK(o), NEW n, n = Lesser(o.left, PieceSize), NEW got \in Seq(Int),
         NEW new, new = After(o, n, got)
  PROVE  /\ new.kind = o.kind /\ new.first = o.first /\ new.sectors = o.sectors
         /\ new.version = o.version /\ new.start = o.start + n /\ new.left = o.left - n
         /\ new.got = got /\ n \in Nat /\ n >= 1 /\ new.left \in Nat
         /\ new.left > 0 => OpOK(new)
<1> DEFINE D == Seq(Int)
<1> HIDE DEF D
<1>1. PICK b \in [kind : {"read", "write"}, first : Nat, sectors : Nat \ {0}, start : Nat,
                  left : Nat \ {0}, version : Nat, got : D] : b = o
  BY DEF OpOK, D
<1>2. /\ n \in Nat /\ n >= 1 /\ n <= b.left /\ (b.left - n > 0 => n % 2 = 0)
  BY <1>1, UdpAssumption DEF Lesser
<1>3. PICK left \in Nat, start \in Nat : left = b.left - n /\ start = b.start + n
  BY <1>1, <1>2
<1>4. new = [b EXCEPT !.start = start, !.left = left, !.got = got]
  BY <1>1, <1>3 DEF After
<1>5. got \in D
  BY DEF D
<1>6. /\ new.kind = b.kind /\ new.first = b.first /\ new.sectors = b.sectors
      /\ new.version = b.version /\ new.start = start /\ new.left = left /\ new.got = got
      /\ left > 0 => new \in [kind : {"read", "write"}, first : Nat, sectors : Nat \ {0},
           start : Nat, left : Nat \ {0}, version : Nat, got : D]
  <2>1. PICK c \in [kind : {"read", "write"}, first : Nat, sectors : Nat \ {0}, start : Nat,
                    left : Nat \ {0}, version : Nat, got : D] : c = [b EXCEPT !.start = start]
    OBVIOUS
  <2>2. /\ c.kind = b.kind /\ c.first = b.first /\ c.sectors = b.sectors
        /\ c.version = b.version /\ c.start = start
    BY <2>1
  <2>3. PICK d \in [kind : {"read", "write"}, first : Nat, sectors : Nat \ {0}, start : Nat,
                    left : Nat, version : Nat, got : D] : d = [c EXCEPT !.left = left]
    OBVIOUS
  <2>4. /\ d.kind = c.kind /\ d.first = c.first /\ d.sectors = c.sectors
        /\ d.version = c.version /\ d.start = c.start /\ d.left = left
    BY <2>3
  <2>5. new = [d EXCEPT !.got = got]
    BY <1>4, <2>1, <2>3
  <2>6. /\ new \in [kind : {"read", "write"}, first : Nat, sectors : Nat \ {0}, start : Nat,
                    left : Nat, version : Nat, got : D]
        /\ new.kind = d.kind /\ new.first = d.first /\ new.sectors = d.sectors
        /\ new.version = d.version /\ new.start = d.start /\ new.left = d.left
        /\ new.got = got
    BY <1>5, <2>5
  <2>7. ASSUME left > 0
        PROVE  new \in [kind : {"read", "write"}, first : Nat, sectors : Nat \ {0}, start : Nat,
                        left : Nat \ {0}, version : Nat, got : D]
    <3>1. new.left \in Nat \ {0}
      BY <2>4, <2>6, <2>7
    <3> QED BY <2>6, <3>1
  <2> QED BY <2>2, <2>4, <2>6, <2>7
<1>7. ASSUME left > 0 PROVE OpOK(new)
  <2>1. PICK f \in Nat, m \in Nat, s \in Nat, l \in Nat :
          /\ f = b.first /\ m = b.sectors /\ s = b.start /\ l = b.left
          /\ f + m <= Sectors /\ s >= f /\ s + l = f + m /\ (s - f) % 2 = 0
    BY <1>1 DEF OpOK
  <2>a. n \in Nat /\ n <= l /\ left = l - n /\ start = s + n
    BY <1>2, <1>3, <2>1
  <2>b. s >= f /\ s + l = f + m
    BY <2>1
  <2>2. start >= f /\ start + left = f + m
    <3>1. PICK c \in Nat : c <= l /\ left = l - c /\ start = s + c
      BY <2>a
    <3> QED BY <2>b, <3>1
  <2>3. (start - f) % 2 = 0
    <3>1. PICK d \in Nat : d = s - f
      BY <2>1
    <3>2. d % 2 = 0 /\ n % 2 = 0
      BY <1>2, <1>3, <1>7, <2>1, <3>1
    <3>3. (d + n) % 2 = 0
      BY <1>2, <3>2
    <3>4. start - f = d + n
      BY <1>2, <1>3, <2>1, <3>1
    <3> QED BY <3>3, <3>4
  <2>4. new \in [kind : {"read", "write"}, first : Nat, sectors : Nat \ {0},
           start : Nat, left : Nat \ {0}, version : Nat, got : Seq(Int)]
    BY <1>6, <1>7 DEF D
  <2> QED BY <1>6, <2>1, <2>2, <2>3, <2>4 DEF OpOK
<1> QED BY <1>1, <1>2, <1>3, <1>6, <1>7

\* A packet in transit is on its way to one or the other.
LEMMA OnEither ==
  ASSUME NEW a \in Seq(Moving), NEW b \in Seq(Moving)
  PROVE  LET t == a \o b IN
         /\ \A i \in 1 .. Len(t) : t[i] \in On(a) \cup On(b)
         /\ \A p \in On(a) : \E i \in 1 .. Len(t) : t[i] = p
         /\ \A p \in On(b) : \E i \in 1 .. Len(t) : t[i] = p
<1>1. PICK t : t = a \o b
  OBVIOUS
<1>2. PICK m \in Nat, n \in Nat : m = Len(a) /\ n = Len(b)
  BY LenProperties
<1>3. /\ Len(t) = m + n
      /\ \A i \in 1 .. m : t[i] = a[i]
      /\ \A i \in m + 1 .. m + n : t[i] = b[i - m]
  BY <1>1, <1>2, Joined
<1>4. ASSUME NEW i \in 1 .. m + n PROVE t[i] \in On(a) \cup On(b)
  <2>1. CASE i <= m
    <3>1. i \in 1 .. m
      BY <2>1
    <3> QED BY <1>2, <1>3, <3>1 DEF On
  <2>2. CASE i > m
    <3>1. i \in m + 1 .. m + n /\ i - m \in 1 .. n
      BY <2>2
    <3> QED BY <1>2, <1>3, <3>1 DEF On
  <2> QED BY <2>1, <2>2
<1>5. ASSUME NEW p \in On(a) PROVE \E i \in 1 .. m + n : t[i] = p
  <2>1. PICK i \in 1 .. m : p = a[i]
    BY <1>2 DEF On
  <2>2. i \in 1 .. m + n
    OBVIOUS
  <2> QED BY <1>3, <2>1, <2>2
<1>6. ASSUME NEW p \in On(b) PROVE \E i \in 1 .. m + n : t[i] = p
  <2>1. PICK i \in 1 .. n : p = b[i]
    BY <1>2 DEF On
  <2>2. PICK j \in m + 1 .. m + n : j = m + i
    OBVIOUS
  <2>3. j \in 1 .. m + n /\ j - m = i
    BY <2>2
  <2> QED BY <1>3, <2>1, <2>2, <2>3
<1> QED BY <1>1, <1>3, <1>4, <1>5, <1>6

\* A piece begins.
LEMMA BeginOrder ==
  ASSUME NEW o, OpOK(o), seqNo \in Int,
         BeginPiece(o, Chunks(o.start, Lesser(o.left, PieceSize))),
         svr' = svr, last' = NoResult, MayOK(svr, may'), ReadsInside(toServer'),
         o.kind = "read" =>
           /\ Quiet(svr, toClient', toServer')
           /\ ReadFrom(svr, o.got, o.first, o.start - o.first),
         o.kind = "write" =>
           /\ WriteMay(o, may') /\ Written(svr, o, toClient', toServer')
           /\ Held(svr, o.version, o.first, o.start - o.first)
           /\ Trailing(InTransit', "write")
           /\ o.start # o.first => Only(InTransit', {"write"})
  PROVE  Order'
<1>1. PICK ck : ck = Chunks(o.start, Lesser(o.left, PieceSize))
  OBVIOUS
<1>2. phase' = "piece" /\ op' = o /\ chunk' = ck
  BY <1>1 DEF BeginPiece
<1>3. PieceOK(o, ck) /\ \A k \in DOMAIN ck : ~ck[k].done
  BY <1>1, NewPieceOK
<1>4. o.kind \in {"read", "write"} /\ (Writing' <=> o.kind = "write")
  BY <1>2 DEF OpOK, Writing
<1>5. o.kind = "read" => ReadSoFar(svr, o, ck)
  BY <1>3 DEF ReadSoFar
<1>6. o.kind = "write" => HeldSoFar(svr, o, ck) /\ WritesLast(o, ck, InTransit')
  BY <1>3 DEF HeldSoFar, WritesLast
<1>7. OkMeansStored' /\ ReadsFresh'
  BY DEF OkMeansStored, ReadsFresh, NoResult
<1> QED BY <1>2, <1>3, <1>4, <1>5, <1>6, <1>7 DEF Order

\* An operation is over.
LEMMA OverOrder ==
  ASSUME svr' = svr, phase' = "idle", MayOK(svr, may'), ReadsInside(toServer'),
         Quiet(svr, toClient', toServer'), OkMeansStored', ReadsFresh'
  PROVE  Order'
BY DEF Order, Writing

\* Nothing is written when a read returns; a write leaves its own version.
LEMMA ReturnMay ==
  ASSUME NEW got, Return("ok", got), OpOK(op), MayOK(svr, may),
         op.kind = "write" => Held(svr, op.version, op.first, op.sectors)
  PROVE  /\ MayOK(svr, may') /\ (op.kind = "read" => may' = may)
         /\ last' = [kind |-> op.kind, status |-> "ok", first |-> op.first,
                     sectors |-> op.sectors, version |-> op.version, got |-> got]
         /\ phase' = "idle"
<1>1. last' = [kind |-> op.kind, status |-> "ok", first |-> op.first,
               sectors |-> op.sectors, version |-> op.version, got |-> got]
  BY DEF Return
<1>2. may \in [0 .. Sectors - 1 -> SUBSET Nat] /\ op.version \in Nat
  BY DEF MayOK, OpOK
<1>3. CASE op.kind = "read"
  <2>1. may' = [s \in DOMAIN may |-> may[s]]
    BY <1>3 DEF Return
  <2>2. may' = may
    BY <1>2, <2>1
  <2> QED BY <1>1, <2>2 DEF Return
<1>4. CASE op.kind = "write"
  <2>1. may' = [s \in DOMAIN may |->
                  IF s \in op.first .. op.first + op.sectors - 1
                  THEN {op.version} ELSE may[s]]
    BY <1>4 DEF Return
  <2>2. may' \in [0 .. Sectors - 1 -> SUBSET Nat]
    BY <1>2, <2>1
  <2>3. ASSUME NEW s \in 0 .. Sectors - 1 PROVE Content(svr)[s] \in may'[s]
    <3>1. CASE s \in op.first .. op.first + op.sectors - 1
      BY <1>2, <1>4, <2>1, <3>1 DEF Held
    <3>2. CASE s \notin op.first .. op.first + op.sectors - 1
      BY <1>2, <2>1, <3>2 DEF MayOK
    <3> QED BY <3>1, <3>2
  <2> QED BY <1>1, <1>4, <2>2, <2>3 DEF Return, MayOK
<1> QED BY <1>3, <1>4 DEF OpOK

\* A read that returns what the sectors hold is fresh.
LEMMA ReadReturns ==
  ASSUME Order, svr' = svr, ReadsInside(toServer'), Quiet(svr, toClient', toServer'),
         OpOK(op), op.kind = "read", NEW got, Return("ok", got),
         ReadFrom(svr, got, op.first, op.sectors)
  PROVE  Order'
<1>1. /\ MayOK(svr, may) /\ may' = may /\ phase' = "idle"
      /\ last' = [kind |-> op.kind, status |-> "ok", first |-> op.first,
                  sectors |-> op.sectors, version |-> op.version, got |-> got]
  BY ReturnMay DEF Order
<1>2. OkMeansStored'
  BY <1>1 DEF OkMeansStored
<1>3. PICK f \in Nat, m \in Nat : f = op.first /\ m = op.sectors /\ f + m <= Sectors
  BY DEF OpOK
<1>4. Len(got) = m /\ \A i \in 1 .. m : got[i] = Content(svr)[f + i - 1]
  BY <1>3 DEF ReadFrom
<1>5. ASSUME NEW i \in 1 .. m PROVE got[i] \in may[f + i - 1]
  <2>1. f + i - 1 \in 0 .. Sectors - 1
    BY <1>3, SvrAssumption
  <2> QED BY <1>1, <1>4, <2>1 DEF MayOK
<1>6. last'.first = f /\ last'.sectors = m /\ last'.got = got
  BY <1>1, <1>3
<1>7. ReadsFresh'
  BY <1>1, <1>4, <1>5, <1>6 DEF ReadsFresh
<1> QED BY <1>1, <1>2, <1>7, OverOrder

\* A piece ends, all of it done.
LEMMA EndsOrder ==
  ASSUME Order, InOrder', phase = "piece", UNCHANGED <<svr, toServer>>, seqNo \in Int,
         On(toClient') \subseteq On(toClient),
         NEW ck, PieceOK(op, ck), \A k \in DOMAIN ck : ck[k].done, PieceEnds(ck, 0),
         op.kind = "read" => ReadSoFar(svr, op, ck),
         op.kind = "write" => HeldSoFar(svr, op, ck) /\ Only(InTransit', {"write"})
  PROVE  Order'
<1>1. /\ OpOK(op) /\ last = NoResult /\ MayOK(svr, may) /\ ReadsInside(toServer)
      /\ op.kind \in {"read", "write"} /\ (Writing <=> op.kind = "write")
  BY DEF Order, OpOK, Writing
<1>2. op.kind = "read" => Quiet(svr, toClient', toServer')
  <2>1. op.kind = "read" => Quiet(svr, toClient, toServer)
    BY <1>1 DEF Order
  <2> QED BY <2>1 DEF Quiet
<1>3. op.kind = "write" => WriteMay(op, may) /\ Written(svr, op, toClient', toServer')
  <2>1. op.kind = "write" => WriteMay(op, may) /\ Written(svr, op, toClient, toServer)
    BY <1>1 DEF Order
  <2> QED BY <2>1 DEF Written
<1>4. PICK n : n = Lesser(op.left, PieceSize)
  OBVIOUS
<1>5. PICK got : got = IF op.kind = "read" THEN op.got \o Data(ck, n) ELSE op.got
  OBVIOUS
<1>6. /\ op.kind = "read" => ReadFrom(svr, got, op.first, (op.start + n) - op.first)
      /\ op.kind = "write" => Held(svr, op.version, op.first, (op.start + n) - op.first)
  BY <1>1, <1>4, <1>5, PieceRead, PieceHeld
<1>7. got \in Seq(Int)
  BY <1>1, <1>5, <1>6 DEF ReadFrom, OpOK
<1>8. PICK rest : rest = After(op, n, got)
  OBVIOUS
<1>9. /\ rest.kind = op.kind /\ rest.first = op.first /\ rest.sectors = op.sectors
      /\ rest.version = op.version /\ rest.start = op.start + n /\ rest.left = op.left - n
      /\ rest.got = got /\ n \in Nat /\ n >= 1 /\ rest.left \in Nat
      /\ rest.left > 0 => OpOK(rest)
  BY <1>1, <1>4, <1>7, <1>8, AfterPiece
<1>10. IF rest.left > 0
       THEN /\ BeginPiece(rest, Chunks(rest.start, Lesser(rest.left, PieceSize)))
            /\ UNCHANGED <<sent, last, may>>
       ELSE IF op.kind = "read" THEN Return("ok", rest.got) /\ UNCHANGED seqNo
       ELSE BeginQuery
  BY <1>4, <1>5, <1>8 DEF PieceEnds, After
<1>11. CASE rest.left > 0
  <2>1. OpOK(rest)
    BY <1>9, <1>11
  <2>2. op.kind = "write" =>
          /\ WriteMay(rest, may') /\ Written(svr, rest, toClient', toServer')
          /\ Held(svr, rest.version, rest.first, rest.start - rest.first)
          /\ Trailing(InTransit', "write")
          /\ rest.start # rest.first => Only(InTransit', {"write"})
    BY <1>3, <1>6, <1>9, <1>10, <1>11 DEF WriteMay, Written, Trailing, Only
  <2>3. op.kind = "read" =>
          /\ Quiet(svr, toClient', toServer')
          /\ ReadFrom(svr, rest.got, rest.first, rest.start - rest.first)
    BY <1>2, <1>6, <1>9
  <2>4. last' = NoResult /\ MayOK(svr, may') /\ ReadsInside(toServer')
    BY <1>1, <1>10, <1>11
  <2> QED BY <1>9, <1>10, <1>11, <2>1, <2>2, <2>3, <2>4, BeginOrder
<1>12. CASE ~(rest.left > 0)
  <2>1. (op.start + n) - op.first = op.sectors
    <3>1. PICK f \in Nat, m \in Nat, s \in Nat, l \in Nat :
            /\ f = op.first /\ m = op.sectors /\ s = op.start /\ l = op.left
            /\ s + l = f + m
      BY <1>1 DEF OpOK
    <3>2. PICK c \in Nat : c = n /\ l - c \in Nat /\ ~(l - c > 0)
      BY <1>9, <1>12, <3>1
    <3>3. (s + c) - f = m
      BY <3>1, <3>2
    <3> QED BY <3>1, <3>2, <3>3
  <2>2. CASE op.kind = "read"
    <3>1. Return("ok", got) /\ ReadFrom(svr, got, op.first, op.sectors)
      BY <1>6, <1>9, <1>10, <1>12, <2>1, <2>2
    <3> QED BY <1>1, <1>2, <2>2, <3>1, ReadReturns
  <2>3. CASE op.kind = "write"
    <3>1. BeginQuery /\ Held(svr, op.version, op.first, op.sectors)
      BY <1>6, <1>10, <1>12, <2>1, <2>3
    <3>2. phase' = "query" /\ UNCHANGED <<op, last, may>>
      BY <3>1 DEF BeginQuery
    <3>3. Only(InTransit', {"write"})
      BY <2>3
    <3>4. \A p \in On(toClient') : p.cmd # "sync"
      <4>1. \A p \in On(toClient') : \E i \in 1 .. Len(InTransit') : InTransit'[i] = p
        <5>1. toClient' \in Seq(Moving) /\ toServer' \in Seq(Moving)
          BY SeqMonotonic DEF InOrder, Moving
        <5> QED BY <5>1, OnEither DEF InTransit
      <4> QED BY <3>3, <4>1 DEF Only
    <3>5. Syncing(svr, op, toClient', InTransit')
      BY <3>1, <3>3, <3>4 DEF Syncing, Only, Trailing
    <3>6. OkMeansStored' /\ ReadsFresh'
      BY <1>1, <3>2 DEF OkMeansStored, ReadsFresh, NoResult
    <3>7. Writing'
      BY <2>3, <3>2 DEF Writing
    <3> QED BY <1>1, <1>3, <2>3, <3>2, <3>5, <3>6, <3>7 DEF Order
  <2> QED BY <1>1, <2>2, <2>3
<1> QED BY <1>11, <1>12

\* An operation begins with no write left anywhere.
LEMMA StartOrder ==
  ASSUME PInv, Order, StartRead \/ StartWrite
  PROVE  Order'
<1>1. /\ UNCHANGED <<svr, toServer, toClient>> /\ phase = "idle" /\ last' = NoResult
      /\ seqNo \in Int /\ ops \in Nat /\ InOrder
  BY DEF StartRead, StartWrite, server, PInv, NetInv, ClientOK
<1>2. MayOK(svr, may) /\ ReadsInside(toServer) /\ Quiet(svr, toClient, toServer)
  BY <1>1 DEF Order, Writing
<1>3. PICK kind \in {"read", "write"}, r \in Requests :
        /\ Begin(kind, r[1], r[2])
        /\ kind = "read" => may' = may
        /\ kind = "write" => may' = [s \in DOMAIN may |->
             IF s \in r[1] .. r[1] + r[2] - 1 THEN may[s] \cup {ops + 1} ELSE may[s]]
  BY DEF StartRead, StartWrite
<1>4. PICK f \in Nat, m \in Nat \ {0} : f = r[1] /\ m = r[2] /\ f + m <= Sectors
  BY UdpAssumption
<1>5. PICK version \in Nat : version = ops + 1
  BY <1>1
<1>6. PICK o : o = [kind |-> kind, first |-> f, sectors |-> m, start |-> f, left |-> m,
                    version |-> version, got |-> <<>>]
  OBVIOUS
<1>7. <<>> \in Seq(Int) /\ f - f = 0 /\ Len(<<>>) = 0
  BY EmptySeq
<1>8. OpOK(o)
  <2>1. o \in [kind : {"read", "write"}, first : Nat, sectors : Nat \ {0}, start : Nat,
               left : Nat \ {0}, version : Nat, got : Seq(Int)]
    BY <1>6, <1>7
  <2> QED BY <1>4, <1>6, <1>7, <2>1 DEF OpOK
<1>9. BeginPiece(o, Chunks(o.start, Lesser(o.left, PieceSize)))
  BY <1>3, <1>4, <1>5, <1>6 DEF Begin
<1>10. MayOK(svr, may')
  <2>1. CASE kind = "read"
    BY <1>2, <1>3, <2>1
  <2>2. CASE kind = "write"
    <3>1. may' = [s \in DOMAIN may |->
                    IF s \in f .. f + m - 1 THEN may[s] \cup {version} ELSE may[s]]
      BY <1>3, <1>4, <1>5, <2>2
    <3> QED BY <1>2, <3>1 DEF MayOK
  <2> QED BY <2>1, <2>2
<1>11. kind = "read" => ReadFrom(svr, o.got, o.first, o.start - o.first)
  BY <1>6, <1>7 DEF ReadFrom
<1>12. kind = "write" => WriteMay(o, may')
  <2> SUFFICES ASSUME kind = "write", NEW s \in f .. f + m - 1 PROVE version \in may'[s]
    BY <1>6 DEF WriteMay
  <2>1. s \in DOMAIN may
    BY <1>2, <1>4, SvrAssumption DEF MayOK
  <2> QED BY <1>3, <1>4, <1>5, <2>1
<1>13. Written(svr, o, toClient, toServer)
  BY <1>2 DEF Quiet, Written, Paired, PairedAt
<1>14. Held(svr, o.version, o.first, o.start - o.first)
  BY <1>6, <1>7 DEF Held
<1>15. Trailing(InTransit, "write")
  <2>1. toClient \in Seq(Moving) /\ toServer \in Seq(Moving)
    BY <1>1, OrderMoving
  <2>2. \A i \in 1 .. Len(InTransit) : InTransit[i] \in On(toClient) \cup On(toServer)
    BY <2>1, OnEither DEF InTransit
  <2>3. \A i \in 1 .. Len(InTransit) : InTransit[i].cmd # "write"
    BY <1>2, <2>2 DEF Quiet
  <2> QED BY <2>3 DEF Trailing
<1>16. InTransit' = InTransit
  BY <1>1 DEF InTransit
<1>17. o.kind = kind /\ o.start = o.first
  BY <1>6
<1>18. /\ o.kind = "read" =>
             /\ Quiet(svr, toClient', toServer')
             /\ ReadFrom(svr, o.got, o.first, o.start - o.first)
       /\ o.kind = "write" =>
             /\ WriteMay(o, may') /\ Written(svr, o, toClient', toServer')
             /\ Held(svr, o.version, o.first, o.start - o.first)
             /\ Trailing(InTransit', "write")
             /\ o.start # o.first => Only(InTransit', {"write"})
  BY <1>1, <1>2, <1>11, <1>12, <1>13, <1>14, <1>15, <1>16, <1>17
<1> QED BY <1>1, <1>2, <1>8, <1>9, <1>10, <1>18, BeginOrder

\* A chunk or the query is sent, or lost.
LEMMA SendsOrder ==
  ASSUME PInv, Order, SendChunk \/ SendQuery
  PROVE  Order'
<1>1. CASE SendChunk
  <2>1. /\ phase = "piece" /\ UNCHANGED <<svr, toClient, phase, op, chunk, last, may>>
    BY <1>1 DEF SendChunk
  <2>2. /\ OpOK(op) /\ PieceOK(op, chunk) /\ seqNo \in Int
        /\ TypedChunks(chunk) /\ next \in Nat /\ InOrder
    BY <2>1 DEF Order, PInv, NetInv, ClientOK
  <2>3. PICK i \in 0 .. Len(chunk) - 1 :
          LET ck == chunk[((next + i) % Len(chunk)) + 1] IN
          Send(toServer, [cmd |-> op.kind, seq |-> ck.seq, start |-> ck.start,
                          count |-> ck.count, result |-> 0,
                          data |-> IF op.kind = "write" THEN op.version ELSE 0])
    BY <1>1 DEF SendChunk
  <2>4. PICK k : k = ((next + i) % Len(chunk)) + 1
    OBVIOUS
  <2>5. k \in DOMAIN chunk
    <3>1. Len(chunk) \in Nat /\ Len(chunk) >= 1 /\ next + i \in Nat /\ DOMAIN chunk = 1 .. Len(chunk)
      BY <2>2, <2>3 DEF TypedChunks
    <3>2. (next + i) % Len(chunk) \in 0 .. Len(chunk) - 1
      BY <3>1
    <3> QED BY <2>4, <3>1, <3>2
  <2>6. PICK p : p = [cmd |-> op.kind, seq |-> chunk[k].seq, start |-> chunk[k].start,
                      count |-> chunk[k].count, result |-> 0,
                      data |-> IF op.kind = "write" THEN op.version ELSE 0]
    OBVIOUS
  <2>7. p \in Packets
    BY <2>2, <2>5, <2>6 DEF TypedChunks, OpOK, Packets
  <2>8. Send(toServer, p)
    BY <2>3, <2>4, <2>6
  <2>9. IsPair(op.first, op.sectors, chunk[k].start, chunk[k].count)
    BY <2>2, <2>5, ChunkPairs
  <2>10. /\ p.cmd = op.kind /\ IsPair(op.first, op.sectors, p.start, p.count)
         /\ op.kind = "write" => p.data = op.version
    BY <2>6, <2>9
  <2> QED BY <2>1, <2>2, <2>7, <2>8, <2>10, SendOrder
<1>2. CASE SendQuery
  <2>1. PICK p : p = [cmd |-> "sync", seq |-> seqNo, start |-> 0, count |-> 0, result |-> 0,
                      data |-> 0]
    OBVIOUS
  <2>2. /\ phase = "query" /\ UNCHANGED <<svr, toClient, phase, op, chunk, last, may>>
        /\ Send(toServer, p)
    BY <1>2, <2>1 DEF SendQuery, piece
  <2>3. p \in Packets /\ p.cmd = "sync" /\ InOrder
    BY <2>1 DEF Packets, PInv, NetInv, ClientOK
  <2> QED BY <2>2, <2>3, SendOrder
<1> QED BY <1>1, <1>2

\* What the client takes from the network.
LEMMA Taken ==
  ASSUME InOrder, toClient # <<>>, toClient' = Tail(toClient), toServer' = toServer
  PROVE  /\ Head(toClient) \in On(toClient) /\ On(toClient') \subseteq On(toClient)
         /\ Head(toClient) \in Replies /\ Head(toClient).result = Ok
         /\ Thinned(InTransit, InTransit') /\ InTransit[1] = Head(toClient)
         /\ Len(InTransit) \in Nat /\ Len(InTransit) >= 1
<1>1. toClient \in Seq(Moving)
  BY OrderMoving
<1>2. Head(toClient) \in On(toClient) /\ On(Tail(toClient)) \subseteq On(toClient)
  BY <1>1, OnTail
<1> QED BY <1>2, FirstReply, TransitTaken

\* A chunk is answered: its sectors hold what was asked for.
LEMMA Answered ==
  ASSUME InOrder, Order, phase = "piece", toClient # <<>>, toClient' = Tail(toClient),
         toServer' = toServer, NEW k \in Matches(Head(toClient))
  PROVE  /\ op.kind = "read" =>
              ReadFrom(svr, Head(toClient).data, chunk[k].start, chunk[k].count)
         /\ op.kind = "write" =>
              /\ Held(svr, op.version, chunk[k].start, chunk[k].count)
              /\ Only(InTransit', {"write"})
<1>1. PICK p \in On(toClient) : p = Head(toClient)
  BY Taken
<1>2. p.cmd = op.kind /\ p.start = chunk[k].start /\ p.count = chunk[k].count
  BY <1>1 DEF Matches
<1>3. ASSUME op.kind = "read" PROVE ReadFrom(svr, p.data, p.start, p.count)
  <2>1. Quiet(svr, toClient, toServer)
    BY <1>3 DEF Order, Writing
  <2> QED BY <1>2, <1>3, <2>1 DEF Quiet
<1>4. ASSUME op.kind = "write"
      PROVE  Held(svr, op.version, p.start, p.count) /\ Only(InTransit', {"write"})
  <2>1. Written(svr, op, toClient, toServer) /\ WritesLast(op, chunk, InTransit)
    BY <1>4 DEF Order, Writing
  <2>2. Held(svr, op.version, p.start, p.count)
    BY <1>2, <1>4, <2>1 DEF Written
  <2>3. /\ Thinned(InTransit, InTransit') /\ InTransit[1].cmd = "write"
        /\ Len(InTransit) \in Nat /\ Len(InTransit) >= 1
    BY <1>1, <1>2, <1>4, Taken
  <2>4. Only(InTransit, {"write"})
    BY <2>1, <2>3, FirstOf DEF WritesLast
  <2>5. Only(InTransit', {"write"})
    BY <2>3, <2>4, ThinnedKeeps
  <2> QED BY <2>2, <2>5
<1> QED BY <1>1, <1>2, <1>3, <1>4

\* An answer to a piece arrives.
LEMMA ReceiveOrder ==
  ASSUME Calm, PInv, PInv', Order, ReceivePiece
  PROVE  Order'
<1> DEFINE packet == Head(toClient)
           k == CHOOSE k \in Matches(packet) : TRUE
<1>1. /\ phase = "piece" /\ ~MaySend /\ toClient # <<>> /\ toClient' = Tail(toClient)
      /\ UNCHANGED <<svr, toServer, trouble>>
  BY DEF ReceivePiece
<1>2. /\ IInv /\ InOrder /\ InOrder' /\ Patience /\ ClientOK /\ MaxTrouble + 2 < Retry
      /\ seqNo \in Int /\ MaxTrouble \in Nat /\ Retry \in Nat
  BY UdpAssumption DEF PInv, NetInv, ClientOK, Calm
<1>3. /\ On(toClient') \subseteq On(toClient) /\ packet \in Replies /\ packet.result = Ok
      /\ Thinned(InTransit, InTransit')
  BY <1>1, <1>2, Taken
<1>4. Key(packet) \notin Expected => count + 1 < Retry
  BY <1>1, <1>2, ReceivePatient
<1>5. remaining \in Nat /\ remaining >= 1 /\ ChunksOK(chunk) /\ remaining = Cardinality(Undone(chunk))
  BY <1>1, <1>2 DEF IInv
<1>6. /\ OpOK(op) /\ PieceOK(op, chunk) /\ op.kind \in {"read", "write"}
      /\ (Writing <=> op.kind = "write")
  BY <1>1 DEF Order, OpOK, Writing
<1>7. /\ op.kind = "read" => ReadSoFar(svr, op, chunk)
      /\ op.kind = "write" => HeldSoFar(svr, op, chunk)
  BY <1>1, <1>6 DEF Order
<1>8. ASSUME UNCHANGED <<phase, op, last, may>>, chunk' = chunk PROVE Order'
  BY <1>1, <1>3, <1>6, <1>7, <1>8, OrderGoesOn
<1>9. CASE Matches(packet) = {}
  <2>1. Key(packet) \notin Expected
    BY <1>1, <1>3, <1>9 DEF Matches, Key, Expected
  <2>2. NextIteration(count, chunk, remaining, outstanding)
    BY <1>9 DEF ReceivePiece
  <2>3. chunk' = chunk /\ UNCHANGED <<phase, op, last, may>>
    BY <1>4, <1>5, <2>1, <2>2 DEF NextIteration
  <2> QED BY <1>8, <2>3
<1>10. CASE Matches(packet) # {} /\ chunk[k].done
  <2>1. NextIteration(0, chunk, remaining, outstanding)
    BY <1>3, <1>10 DEF ReceivePiece
  <2>2. chunk' = chunk /\ UNCHANGED <<phase, op, last, may>>
    BY <1>2, <1>5, <2>1 DEF NextIteration
  <2> QED BY <1>8, <2>2
<1>11. CASE Matches(packet) # {} /\ ~chunk[k].done
  <2>1. PICK new : new = Marked(chunk, k, packet.data)
    OBVIOUS
  <2>2. NextIteration(0, new, remaining - 1, outstanding - 1)
    BY <1>3, <1>11, <2>1 DEF ReceivePiece, Marked
  <2>3. k \in Matches(packet) /\ k \in DOMAIN chunk
    BY <1>11 DEF Matches
  <2>4. PICK j \in DOMAIN chunk : j = k /\ ~chunk[j].done
    BY <1>11, <2>3
  <2>5. PICK data \in Seq(Int) : data = packet.data
    BY <1>3 DEF Replies
  <2>6. new = Marked(chunk, j, data)
    BY <2>1, <2>4, <2>5
  <2>7. PieceOK(op, new) /\ DOMAIN new = DOMAIN chunk
    BY <1>6, <2>6, ChunkDone
  <2>8. /\ op.kind = "read" => ReadFrom(svr, data, chunk[j].start, chunk[j].count)
        /\ op.kind = "write" =>
             /\ Held(svr, op.version, chunk[j].start, chunk[j].count)
             /\ Only(InTransit', {"write"})
    BY <1>1, <1>2, <2>3, <2>4, <2>5, Answered
  <2>9. /\ op.kind = "read" => ReadSoFar(svr, op, new)
        /\ op.kind = "write" => HeldSoFar(svr, op, new)
    BY <1>6, <1>7, <2>6, <2>8, DoneSoFar
  <2>10. \/ remaining - 1 > 0 /\ chunk' = new /\ UNCHANGED <<phase, op, last, may>>
         \/ remaining - 1 = 0 /\ PieceEnds(new, 0)
    BY <1>2, <1>5, <2>2 DEF NextIteration
  <2>11. CASE chunk' = new /\ UNCHANGED <<phase, op, last, may>>
    BY <1>1, <1>3, <1>6, <2>7, <2>8, <2>9, <2>11, OrderGoesOn
  <2>12. CASE remaining - 1 = 0 /\ PieceEnds(new, 0)
    <3>1. ChunksOK(new) /\ Cardinality(Undone(new)) = 0
      <4>1. ChunksOK(new) /\ Cardinality(Undone(new)) = Cardinality(Undone(chunk)) - 1
        BY <1>5, <2>4, <2>6, OneLess DEF Marked
      <4> QED BY <1>5, <2>12, <4>1
    <3>2. Undone(new) = {}
      <4>1. IsFiniteSet(Undone(new))
        BY <3>1, FS_Subset DEF Undone, ChunksOK
      <4> QED BY <3>1, <4>1, FS_EmptySet
    <3>3. \A i \in DOMAIN new : new[i].done
      BY <3>2 DEF Undone
    <3> QED BY <1>1, <1>2, <1>3, <2>7, <2>8, <2>9, <2>12, <3>3, EndsOrder
  <2> QED BY <2>10, <2>11, <2>12
<1> QED BY <1>9, <1>10, <1>11

\* Nothing arrives in time: the client tries again.
LEMMA TimeoutOrder ==
  ASSUME Calm, PInv, Order, TimeoutPiece \/ TimeoutQuery
  PROVE  Order'
<1>1. /\ IInv /\ InOrder /\ Patience /\ MaxTrouble + 2 < Retry /\ NothingArrives
      /\ Endless = FALSE
      /\ UNCHANGED <<svr, toServer, toClient>>
  BY DEF PInv, NetInv, Calm, TimeoutPiece, TimeoutQuery, server
<1>2. Waits
  BY DEF TimeoutPiece, TimeoutQuery, Waits
<1>3. count + 1 < Retry
  BY <1>1, <1>2, TimeoutPatient
<1>4. chunk' = chunk /\ UNCHANGED <<phase, op, last, may>>
  <2>1. CASE TimeoutPiece
    <3>1. remaining >= 1 /\ remaining \in Nat
      BY <1>1, <2>1 DEF TimeoutPiece, IInv
    <3>2. NextIteration(count, chunk, remaining, outstanding - 1)
      BY <2>1 DEF TimeoutPiece
    <3> QED BY <1>3, <3>1, <3>2 DEF NextIteration
  <2>2. CASE TimeoutQuery
    BY <1>3, <2>2 DEF TimeoutQuery, QueryAgain, piece
  <2> QED BY <2>1, <2>2
<1>5. InTransit' = InTransit
  BY <1>1 DEF InTransit
<1> QED BY <1>1, <1>4, <1>5, OrderGoesOn DEF Order

\* The answer to the sync of a write arrives, or another one.
LEMMA QueryOrder ==
  ASSUME Calm, PInv, Order, ReceiveQuery
  PROVE  Order'
<1>1. /\ phase = "query" /\ sent /\ toClient # <<>> /\ toClient' = Tail(toClient)
      /\ UNCHANGED <<svr, toServer, trouble>>
  BY DEF ReceiveQuery
<1>2. /\ InOrder /\ Patience /\ MaxTrouble + 2 < Retry /\ SvrOK(svr)
  BY DEF PInv, NetInv, ServerOK, Calm
<1>3. PICK packet \in On(toClient) : packet = Head(toClient) /\ packet.result = Ok
  BY <1>1, <1>2, Taken
<1>4. /\ On(toClient') \subseteq On(toClient) /\ Thinned(InTransit, InTransit')
      /\ InTransit[1] = packet /\ Len(InTransit) \in Nat /\ Len(InTransit) >= 1
  BY <1>1, <1>2, <1>3, Taken
<1>5. /\ OpOK(op) /\ op.kind = "write" /\ Writing /\ MayOK(svr, may)
      /\ ReadsInside(toServer) /\ Syncing(svr, op, toClient, InTransit)
  BY <1>1 DEF Order, Writing
<1>6. CASE packet.cmd = "sync" /\ packet.seq = seqNo
  <2>1. Return("ok", <<>>)
    BY <1>3, <1>6 DEF ReceiveQuery, EndOp
  <2>2. Only(InTransit, {"sync"}) /\ svr.wrDirty = {}
    BY <1>4, <1>5, <1>6, FirstOf DEF Syncing
  <2>3. /\ \A p \in On(toClient) : p.cmd = "sync"
        /\ \A p \in On(toServer) : p.cmd = "sync"
    <3>1. toClient \in Seq(Moving) /\ toServer \in Seq(Moving)
      BY <1>2, OrderMoving
    <3>2. /\ \A p \in On(toClient) : \E i \in 1 .. Len(InTransit) : InTransit[i] = p
          /\ \A p \in On(toServer) : \E i \in 1 .. Len(InTransit) : InTransit[i] = p
      BY <3>1, OnEither DEF InTransit
    <3> QED BY <2>2, <3>2 DEF Only
  <2>4. Quiet(svr, toClient', toServer')
    BY <1>1, <1>4, <2>2, <2>3 DEF Quiet
  <2>5. Held(svr, op.version, op.first, op.sectors)
    BY <1>5 DEF Syncing
  <2>6. /\ MayOK(svr, may') /\ phase' = "idle"
        /\ last' = [kind |-> op.kind, status |-> "ok", first |-> op.first,
                    sectors |-> op.sectors, version |-> op.version, got |-> <<>>]
    BY <1>5, <2>1, <2>5, ReturnMay
  <2>7. svr.disk = Content(svr)
    BY <1>2, <2>2, CleanDisk
  <2>8. OkMeansStored' /\ ReadsFresh'
    BY <1>1, <1>5, <2>5, <2>6, <2>7 DEF OkMeansStored, ReadsFresh, Held
  <2> QED BY <1>1, <1>5, <2>4, <2>6, <2>8, OverOrder
<1>7. CASE ~(packet.cmd = "sync" /\ packet.seq = seqNo)
  <2>1. Key(packet) \notin Expected
    BY <1>1, <1>7 DEF Key, Expected
  <2>2. count + 1 < Retry
    BY <1>1, <1>2, <1>3, <2>1, ReceivePatient
  <2>3. QueryAgain
    BY <1>3, <1>7 DEF ReceiveQuery
  <2>4. chunk' = chunk /\ UNCHANGED <<phase, op, last, may>>
    BY <2>2, <2>3 DEF QueryAgain, piece
  <2> QED BY <1>1, <1>4, <2>4, OrderGoesOn
<1> QED BY <1>6, <1>7

OInv == PInv /\ Fresh(svr) /\ Order

LEMMA InitOrder == Calm /\ Init => OInv
<1> SUFFICES ASSUME Calm, Init PROVE OInv
  OBVIOUS
<1>1. PInv
  BY InitPatient
<1>2. svr = SvrInit /\ toServer = <<>> /\ toClient = <<>> /\ phase = "idle" /\ last = NoResult
      /\ may = [s \in 0 .. Sectors - 1 |-> {0}]
  BY DEF Init
<1>3. Fresh(svr)
  BY <1>2, InitOK DEF Calm
<1>4. Quiet(svr, toClient, toServer) /\ ReadsInside(toServer)
  BY <1>2 DEF Quiet, ReadsInside, On, SvrInit
<1>5. MayOK(svr, may)
  <2>1. SvrOK(svr) /\ svr.wrDirty = {}
    BY <1>1, <1>2 DEF PInv, NetInv, ServerOK, SvrInit
  <2>2. Content(svr) = svr.disk
    BY <2>1, CleanDisk
  <2>3. \A s \in 0 .. Sectors - 1 : svr.disk[s] = 0
    BY <1>2 DEF SvrInit
  <2> QED BY <1>2, <2>2, <2>3 DEF MayOK
<1>6. OkMeansStored /\ ReadsFresh
  BY <1>2 DEF OkMeansStored, ReadsFresh, NoResult
<1> QED BY <1>1, <1>2, <1>3, <1>4, <1>5, <1>6 DEF OInv, Order, Writing

LEMMA StepOrder == Calm /\ OInv /\ [Next]_vars => OInv'
<1> SUFFICES ASSUME Calm, OInv, [Next]_vars PROVE OInv'
  OBVIOUS
<1>1. /\ PInv /\ PInv' /\ Fresh(svr) /\ Order /\ NetInv /\ SvrOK(svr) /\ InOrder
      /\ AtaFails = FALSE
  BY StepPatient DEF OInv, PInv, NetInv, ServerOK, Calm
<1>2. CASE StartRead \/ StartWrite \/ ClientStep
  <2>1. svr' = svr
    BY <1>1, <1>2, ClientNet
  <2>2. Fresh(svr')
    BY <1>1, <2>1
  <2>3. Order'
    BY <1>1, <1>2, StartOrder, SendsOrder, ReceiveOrder, TimeoutOrder, QueryOrder DEF ClientStep
  <2> QED BY <1>1, <2>2, <2>3 DEF OInv
<1>3. CASE ServerStep
  <2>1. Fresh(svr')
    BY <1>1, <1>3, ServerNet
  <2>2. Order'
    BY <1>1, <1>3, ServeOrder
  <2> QED BY <1>1, <2>1, <2>2 DEF OInv
<1>4. CASE UNCHANGED vars
  <2>1. UNCHANGED <<svr, toServer, toClient, phase, op, chunk, last, may>>
    BY <1>4 DEF vars
  <2>2. InTransit' = InTransit
    BY <2>1 DEF InTransit
  <2>3. Order'
    BY <1>1, <2>1, <2>2, OrderGoesOn DEF Order
  <2> QED BY <1>1, <2>1, <2>3 DEF OInv
<1>5. ~Restart
  BY DEF Calm, Restart
<1> QED BY <1>2, <1>3, <1>4, <1>5 DEF Next

\* A write that succeeds is on the disk and not only in the buffer of the
\* server (net_write, "flush after each request"), for requests of any length
\* and any buffers of the server: while the disk does not fail, the client is
\* not aborted, and packets are lost or late less often than it retries.
THEOREM WhatIsOkIsStored == Calm => (Spec => []OkMeansStored)
<1> SUFFICES ASSUME Calm PROVE Spec => []OkMeansStored
  OBVIOUS
<1>1. Init => OInv
  BY InitOrder
<1>2. OInv /\ [Next]_vars => OInv'
  BY StepOrder
<1>3. OInv => OkMeansStored
  BY DEF OInv, Order
<1> QED BY <1>1, <1>2, <1>3, PTL DEF Spec

\* Under the same conditions a read that succeeds returns, for each sector, a
\* version it may have, although the answers to a chunk that was sent again may
\* come twice, or under a sequence number that has wrapped.
THEOREM WhatIsReadIsFresh == Calm => (Spec => []ReadsFresh)
<1> SUFFICES ASSUME Calm PROVE Spec => []ReadsFresh
  OBVIOUS
<1>1. Init => OInv
  BY InitOrder
<1>2. OInv /\ [Next]_vars => OInv'
  BY StepOrder
<1>3. OInv => ReadsFresh
  BY DEF OInv, Order
<1> QED BY <1>1, <1>2, <1>3, PTL DEF Spec
=============================================================================
