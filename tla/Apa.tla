-------------------------------- MODULE Apa --------------------------------
(***************************************************************************)
(* The PS2 partition table (apa.c) and the HDLoader game layout (hdl.c) as *)
(* functions of the disk.  The table is a circular doubly linked list of   *)
(* partition headers, each in the first sectors of its partition; a ToxicOS *)
(* disk of more than 128 GB has a second list in a second slice.           *)
(*                                                                         *)
(* The unit of space is the 128 MB chunk: every start and length of the    *)
(* table is a multiple of it.  A chunk of the disk holds three things that *)
(* are written apart: hdr, its first two sectors, where a partition that   *)
(* starts here has its header; tab, the HDLoader header at 0x101000 with   *)
(* the title and the allocation table of a game; data, all the rest.       *)
(***************************************************************************)
EXTENDS Integers, Sequences, FiniteSets, TLC

CONSTANTS Chunks,       \* whole chunks of the disk
          LastPart,       \* the disk has some sectors after its last chunk
          Slice2,       \* SLICE_2_OFFS, in chunks (1024)
          SizeClasses,  \* a partition is at most 1/SizeClasses of a slice (32)
          ChunkMB       \* megabytes in a chunk (128)

ASSUME DiskAssumption ==
  /\ Chunks \in Nat \ {0} /\ Slice2 \in Nat \ {0}
  /\ SizeClasses \in Nat \ {0} /\ ChunkMB \in Nat \ {0}
  /\ LastPart \in BOOLEAN

MainHdrMB == 4   \* reserved at the start of a main partition
SubHdrMB  == 1   \* and at the start of a sub-partition

Lowest(S)  == CHOOSE x \in S : \A y \in S : x <= y
\* the last element
Last(s) == s[Len(s)]

\* the elements of a set of numbers in ascending order
Ascending(S) ==
  [i \in 1 .. Cardinality(S) |->
     CHOOSE x \in S : Cardinality({y \in S : y < x}) = i - 1]

Junk  == [junk |-> TRUE]           \* sectors without magic or good checksum
NoData == [image |-> "none", bias |-> 0]

MbrId   == <<"__", "mbr">>
EmptyId == <<"__", "empty">>

\* MAP_AVAIL chunks of a slice of n chunks with the partitions hs
Span(h) == h.start .. h.start + h.len - 1
\* (mutated form of Available: the chunk after the last one is available)
AvailablePastEnd(n, hs) == (0 .. n) \ UNION {Span(hs[i]) : i \in DOMAIN hs}
Available(n, hs) == (0 .. n - 1) \ UNION {Span(hs[i]) : i \in DOMAIN hs}

-----------------------------------------------------------------------------
(* Reading the table.                                                      *)

Dialect(disk) == IF disk[0].hdr = Junk THEN "plain" ELSE disk[0].hdr.dialect

\* the disk is more than 128 GB and formatted as two slices
GotSecondSlice(disk) ==
  /\ Dialect(disk) = "2slice"
  /\ Chunks > Slice2 \/ (Chunks = Slice2 /\ LastPart)

\* (mutated form of SliceChunks: the first slice is the whole disk)
SliceChunksWhole(got, i) == IF i = 0 THEN Chunks ELSE Chunks - Slice2

\* whole chunks of a slice; the first one ends 1 KB before the second begins
SliceChunks(got, i) ==
  CASE ~got         -> Chunks
    [] got /\ i = 0 -> Slice2 - 1
    [] got /\ i = 1 -> Chunks - Slice2

Base(i) == i * Slice2

\* apa_slice_read wants a partition to end before the last sector
EndsInside(got, i, h) ==
  LET n == SliceChunks(got, i) IN
  /\ h.start < n
  /\ \/ h.start + h.len < n
     \/ h.start + h.len = n /\ (LastPart \/ (got /\ i = 0))

\* The headers met from sector 0 of the slice along the next links, up to
\* the first that is refused.
Chain(disk, got, i) ==
  LET At(s) == IF Base(i) + s < Chunks THEN disk[Base(i) + s].hdr ELSE Junk
      More(h) == h # Junk /\ EndsInside(got, i, h) /\ h.next # 0
      follow[hs \in Seq({disk[c].hdr : c \in DOMAIN disk} \cup {Junk}) \ {<<>>}] ==
        IF More(hs[Len(hs)]) /\ Len(hs) <= Chunks
        THEN follow[Append(hs, At(hs[Len(hs)].next))] ELSE hs
  IN follow[<<At(0)>>]

Closed(got, i, hs) ==
  /\ \A k \in DOMAIN hs : hs[k] # Junk /\ EndsInside(got, i, hs[k])
  /\ hs[Len(hs)].next = 0

\* apa_check_slice, on the headers of a slice of n chunks
Check(n, hs) ==
  LET Subs(h) == {j \in DOMAIN hs : hs[j].main = h.start}
      Prev(k) == hs[IF k = 1 THEN Len(hs) ELSE k - 1]
      Next(k) == hs[IF k = Len(hs) THEN 1 ELSE k + 1]
  IN /\ \A k \in DOMAIN hs :
          LET h == hs[k] IN
          /\ h.start < n /\ h.start + h.len <= n
          /\ h.start % h.len = 0
          /\ h.main = 0 /\ h.start # 0 =>
               /\ \A j \in Subs(h) :
                    \E s \in DOMAIN h.subs :
                      h.subs[s] = [start |-> hs[j].start, len |-> hs[j].len]
               /\ Cardinality(Subs(h)) = Len(h.subs)
     /\ \A k \in DOMAIN hs : hs[k].prev = Prev(k).start /\ hs[k].next = Next(k).start

\* partitions in the order of their starts, no two of which are the same
InOrder(parts) ==
  LET starts == Ascending({p.h.start : p \in parts})
  IN [k \in DOMAIN starts |-> CHOOSE p \in parts : p.h.start = starts[k]]

\* (mutated form of Normalize: a header of which only a link changes is not
\* marked)
NormalizeLinksUnmarked(parts) ==
  LET s == InOrder(parts)
      n == Len(s)
  IN [k \in 1 .. n |->
        [s[k] EXCEPT !.h.prev = s[IF k = 1 THEN n ELSE k - 1].h.start,
                     !.h.next = s[IF k = n THEN 1 ELSE k + 1].h.start]]

\* normalize_linked_list: sort by start, link the neighbours, and remember
\* which headers differ from the ones on the disk
Normalize(parts) ==
  LET s == InOrder(parts)
      n == Len(s)
      prev(k) == s[IF k = 1 THEN n ELSE k - 1].h.start
      next(k) == s[IF k = n THEN 1 ELSE k + 1].h.start
  IN [k \in 1 .. n |->
        [h |-> [s[k].h EXCEPT !.prev = prev(k), !.next = next(k)],
         modified |-> s[k].modified \/ s[k].h.prev # prev(k)
                                    \/ s[k].h.next # next(k)]]

Among(parts) == {parts[k] : k \in DOMAIN parts}

\* apa_delete_partition_from_slice, repeated while there is an __empty one
DeleteEmpty(parts) ==
  LET Gone == {p \in Among(parts) : p.h.main = 0 /\ p.h.id = EmptyId}
      Starts == UNION {{p.h.start} \cup {p.h.subs[s].start : s \in DOMAIN p.h.subs}
                       : p \in Gone}
  IN IF Gone = {} THEN parts
     ELSE Normalize({p \in Among(parts) : p.h.start \notin Starts})

Headers(parts) == [k \in DOMAIN parts |-> parts[k].h]

\* apa_slice_read
SliceRead(disk, got, i) ==
  LET hs == Chain(disk, got, i)
      n  == SliceChunks(got, i)
      ps == DeleteEmpty([k \in DOMAIN hs |-> [h |-> hs[k], modified |-> FALSE]])
  IN IF Closed(got, i, hs) /\ Check(n, hs) /\ Check(n, Headers(ps))
     THEN [ok |-> TRUE, parts |-> ps] ELSE [ok |-> FALSE, parts |-> <<>>]

NoToc == [ok |-> FALSE]

\* apa_toc_read_ex; slice 1 has no partitions on a disk of one slice
TocRead(disk) ==
  LET got == GotSecondSlice(disk)
      s0  == SliceRead(disk, got, 0)
      s1  == IF got THEN SliceRead(disk, got, 1) ELSE [ok |-> TRUE, parts |-> <<>>]
  IN IF s0.ok /\ s1.ok
     THEN [ok |-> TRUE, got |-> got, toxic |-> Dialect(disk) # "plain",
           slice |-> [i \in 0 .. 1 |-> IF i = 0 THEN s0.parts ELSE s1.parts]]
     ELSE NoToc

Slices(toc) == IF toc.got THEN {0, 1} ELSE {0}

TocCheck(toc) ==
  \A i \in Slices(toc) : Check(SliceChunks(toc.got, i), Headers(toc.slice[i]))

\* apa_find_partition: where the main partitions called id are
Find(toc, id) ==
  UNION {{<<i, k>> : k \in {k \in DOMAIN toc.slice[i] :
                              toc.slice[i][k].h.main = 0 /\ toc.slice[i][k].h.id = id}}
         : i \in Slices(toc)}

-----------------------------------------------------------------------------
(* Allocating space.                                                       *)

\* the longest partition, in chunks, of a slice of n chunks
MaxRun(n) == IF n < SizeClasses THEN 1 ELSE n \div SizeClasses

\* (mutated form of Joined: neighbours are joined wherever they start)
JoinedUnaligned(chosen, n) ==
  LET firsts == {c \in chosen : c - 1 \notin chosen \/ MaxRun(n) = 1}
      len(c) == IF c + 1 \in chosen /\ MaxRun(n) > 1 THEN 2 ELSE 1
      starts == Ascending(firsts)
  IN [i \in DOMAIN starts |-> [start |-> starts[i], len |-> len(starts[i])]]

\* 1, 2, 4, 8...: no odd divisor but 1
PowerOfTwo(z) == \A d \in 1 .. z : z % d = 0 => d = 1 \/ d % 2 = 0

\* optimize_partitions: chunks are joined two by two into aligned runs of
\* 1, 2, 4... chunks; what remains when no two neighbours can be joined
Sizes(n) == {z \in 1 .. MaxRun(n) : PowerOfTwo(z)}
Block(a, z) == a .. a + z - 1
Chosen(chosen, a, z) == a % z = 0 /\ Block(a, z) \subseteq chosen
Joins(chosen, n, a, z) ==
  2 * z <= MaxRun(n) /\ Chosen(chosen, a - (a % (2 * z)), 2 * z)

JoinedRuns(chosen, n) ==
  {r \in [start : chosen, len : Sizes(n)] :
     Chosen(chosen, r.start, r.len) /\ ~Joins(chosen, n, r.start, r.len)}

Joined(chosen, n) ==
  LET runs   == JoinedRuns(chosen, n)
      starts == Ascending({r.start : r \in runs})
  IN [i \in DOMAIN starts |-> CHOOSE r \in runs : r.start = starts[i]]

CeilDiv(a, b) == (a + b - 1) \div b

\* (mutated form of Allocate: no chunk is added for the headers)
AllocateNoHeaders(n, hs, mb) ==
  LET avail == Ascending(Available(n, hs))
  IN IF mb = 0 \/ Len(avail) * ChunkMB < mb THEN <<>>
     ELSE Joined({avail[i] : i \in 1 .. CeilDiv(mb, ChunkMB)}, n)

\* apa_allocate_space_in_slice, up to the choice of the runs: the first
\* available chunks, and one more if the headers do not fit; <<>> if none
Allocate(n, hs, mb) ==
  LET avail == Ascending(Available(n, hs))
      k     == CeilDiv(mb, ChunkMB)
      First(j) == {avail[i] : i \in 1 .. j}
      short == k * ChunkMB < mb + 3 + Len(Joined(First(k), n))
  IN IF mb = 0 \/ Len(avail) * ChunkMB < mb THEN <<>>
     ELSE IF ~short THEN Joined(First(k), n)
     ELSE IF Len(avail) > k THEN Joined(First(k + 1), n) ELSE <<>>

\* setup_main_part and setup_sub_part; normalize_linked_list sets the links
NewHeader(id, runs, k) ==
  [id |-> id, start |-> runs[k].start, len |-> runs[k].len,
   main |-> IF k = 1 THEN 0 ELSE runs[1].start,
   subs |-> IF k = 1 THEN SubSeq(runs, 2, Len(runs)) ELSE <<>>,
   next |-> 0, prev |-> 0, dialect |-> "plain"]

WithNew(parts, id, runs) ==
  Normalize(Among(parts) \cup {[h |-> NewHeader(id, runs, k), modified |-> TRUE] :
                               k \in DOMAIN runs})

\* apa_allocate_space, in the order the slices are tried
SlicesToTry(toc, hint) ==
  LET first == IF hint = 0 \/ (hint = 1 /\ toc.got) THEN hint
               ELSE IF toc.got THEN 1 ELSE 0
  IN IF toc.got THEN <<first, 1 - first>> ELSE <<first>>

RunsIn(toc, i, mb) == Allocate(SliceChunks(toc.got, i), Headers(toc.slice[i]), mb)

-----------------------------------------------------------------------------
(* Laying out a game.  runs are the main partition and its subs; the image *)
(* of the game is cut to what each of them holds beyond its header.        *)

RunsOf(h) == <<[start |-> h.start, len |-> h.len]>> \o h.subs

HdrMB(k) == IF k = 1 THEN MainHdrMB ELSE SubHdrMB

\* megabytes of the image that come before the k-th run
Before(runs, k) ==
  LET sum[j \in 1 .. Len(runs) + 1] ==
        IF j = 1 THEN 0 ELSE sum[j - 1] + runs[j - 1].len * ChunkMB - HdrMB(j - 1)
  IN sum[k]

Least(a, b) == IF a < b THEN a ELSE b

\* (mutated form of Extent: a partition is filled from behind its header on
\* with as much as it holds without one)
ExtentWholeRun(runs, i, k, mb) ==
  [start |-> (Base(i) + runs[k].start) * ChunkMB + HdrMB(k),
   from  |-> Before(runs, k),
   len   |-> Least(mb - Before(runs, k), runs[k].len * ChunkMB)]

\* (mutated form of Extent: the second slice starts where the first does)
ExtentFirstSlice(runs, i, k, mb) ==
  [start |-> runs[k].start * ChunkMB + HdrMB(k),
   from  |-> Before(runs, k),
   len   |-> Least(mb - Before(runs, k), runs[k].len * ChunkMB - HdrMB(k))]

\* inject_data: where the data of the k-th run goes, in megabytes of the disk
\* (start, len) and of the image (from)
Extent(runs, i, k, mb) ==
  [start |-> (Base(i) + runs[k].start) * ChunkMB + HdrMB(k),
   from  |-> Before(runs, k),
   len   |-> Least(mb - Before(runs, k), runs[k].len * ChunkMB - HdrMB(k))]

Extents(runs, i, mb) ==
  {Extent(runs, i, k, mb) : k \in {k \in DOMAIN runs : Before(runs, k) < mb}}

\* kb_remaining after the last run
LeftOver(runs, mb) ==
  IF Before(runs, Len(runs) + 1) < mb THEN mb - Before(runs, Len(runs) + 1) ELSE 0

\* the allocation table prepare_main writes into the HDLoader header
AllocTable(runs, i, mb) ==
  LET used == {k \in DOMAIN runs : Before(runs, k) < mb}
  IN [k \in 1 .. Cardinality(used) |->
        [start |-> (Base(i) + runs[k].start) * ChunkMB + HdrMB(k),
         len   |-> Least(mb - Before(runs, k), runs[k].len * ChunkMB - HdrMB(k))]]

\* the chunks an extent of the disk touches
Touched(start, len) == start \div ChunkMB .. (start + len - 1) \div ChunkMB

\* hdl_extract_ex: the parts of the table, one after the other, are the
\* image of a game from its first byte to its last, or a torn one.  The data
\* of chunk c with bias b has the byte b + p of the image at its byte p.
Extracted(disk, tab, Size) ==
  LET Offset[k \in 1 .. Len(tab.parts) + 1] ==
        IF k = 1 THEN 0 ELSE Offset[k - 1] + tab.parts[k - 1].len
      Holds(g, k) ==
        \A c \in Touched(tab.parts[k].start, tab.parts[k].len) :
          /\ c \in DOMAIN disk
          /\ disk[c].data = [image |-> g,
                             bias  |-> Offset[k] - (tab.parts[k].start - c * ChunkMB)]
      Good == {g \in DOMAIN Size : /\ Offset[Len(tab.parts) + 1] = Size[g]
                                   /\ \A k \in DOMAIN tab.parts : Holds(g, k)}
  IN IF tab = Junk \/ Good = {} THEN "torn" ELSE CHOOSE g \in Good : TRUE
=============================================================================
