---------------------------- MODULE TableProofs -----------------------------
(***************************************************************************)
(* The partition table, for disks of any size: what is read along the      *)
(* links, what a command makes of it, and what is written back.            *)
(***************************************************************************)
EXTENDS AllocProofs

-----------------------------------------------------------------------------
(* Following links.                                                        *)

\* f takes the steps from x as long as they go on
Walk(f, S, Go, step) == f = [x \in S |-> IF x \in Go THEN f[step[x]] ELSE x]

\* every step leads down
Descends(S, Go, step, rank, M) ==
  /\ M \in Nat
  /\ \A x \in S : rank[x] \in 0 .. M
  /\ \A x \in S : x \in Go => step[x] \in S /\ rank[step[x]] < rank[x]

\* no step leaves P
Stays(P, S, Go, step) == \A x \in P : x \in S /\ (x \in Go => step[x] \in P)

\* Such a walk exists if the steps lead down.
LEMMA WalkExists ==
  ASSUME NEW S, NEW Go, NEW step, NEW rank, NEW M, Descends(S, Go, step, rank, M)
  PROVE  \E f : Walk(f, S, Go, step)
<1> DEFINE E(f, x) == IF x \in Go THEN f[step[x]] ELSE x
           Low(m) == {x \in S : rank[x] <= m}
           Upto(m) == \E f : f = [x \in Low(m) |-> E(f, x)]
           Bad == {m \in Nat : ~Upto(m)}
<1>0. /\ M \in Nat
      /\ \A x \in S : rank[x] \in 0 .. M
      /\ \A x \in S : x \in Go => step[x] \in S /\ rank[step[x]] < rank[x]
  BY DEF Descends
<1>1. Bad = {}
  <2> SUFFICES ASSUME Bad # {} PROVE FALSE
    OBVIOUS
  <2>1. PICK m \in Bad : \A k \in Bad : m <= k
    <3> HIDE DEF Bad
    <3>1. Bad \subseteq Nat
      BY DEF Bad
    <3> QED BY <3>1, LeastOf
  <2>2. m \in Nat /\ ~Upto(m)
    OBVIOUS
  <2>3. m # 0
    <3>1. Upto(0)
      <4> DEFINE z == [x \in Low(0) |-> x]
      <4>1. ASSUME NEW x \in Low(0) PROVE x \notin Go
        <5> SUFFICES ASSUME x \in Go PROVE FALSE
          OBVIOUS
        <5>1. rank[step[x]] \in 0 .. M /\ rank[step[x]] < rank[x] /\ rank[x] <= 0
          BY <1>0
        <5>2. rank[x] \in 0 .. M
          BY <1>0
        <5> QED BY <5>1, <5>2
      <4>2. z = [x \in Low(0) |-> E(z, x)]
        <5> HIDE DEF Low
        <5> QED BY <4>1
      <4> QED BY <4>2
    <3> HIDE DEF Upto
    <3> QED BY <2>2, <3>1
  <2>4. PICK p \in Nat : m = p + 1
    <3>1. m - 1 \in Nat /\ m = m - 1 + 1
      BY <2>2, <2>3
    <3> QED BY <3>1
  <2>5. Upto(p)
    <3> HIDE DEF Upto
    <3> QED BY <2>1, <2>4
  <2>6. PICK h : h = [x \in Low(p) |-> E(h, x)]
    BY <2>5
  <2> DEFINE g == [x \in Low(m) |-> IF x \in Low(p) THEN h[x] ELSE E(h, x)]
  <2>7. ASSUME NEW x \in Low(m) PROVE g[x] = E(g, x)
    <3>1. x \in Go => step[x] \in Low(p) /\ step[x] \in Low(m)
      <4> SUFFICES ASSUME x \in Go PROVE step[x] \in Low(p) /\ step[x] \in Low(m)
        OBVIOUS
      <4>1. step[x] \in S /\ rank[step[x]] < rank[x] /\ rank[x] <= m
        BY <1>0
      <4>2. rank[step[x]] \in 0 .. M /\ rank[x] \in 0 .. M
        BY <1>0, <4>1
      <4>3. rank[step[x]] <= p
        BY <2>4, <4>1, <4>2
      <4>4. rank[step[x]] <= m
        BY <2>4, <4>2, <4>3
      <4> QED BY <4>1, <4>3, <4>4
    <3>2. x \in Go => g[step[x]] = h[step[x]]
      <4> HIDE DEF Low, E
      <4> QED BY <3>1
    <3>3. E(g, x) = E(h, x)
      <4> HIDE DEF g
      <4> QED BY <3>2
    <3>4. x \in Low(p) => h[x] = E(h, x)
      <4> HIDE DEF Low, E
      <4> QED BY <2>6
    <3> HIDE DEF Low, E
    <3> QED BY <3>3, <3>4
  <2>8. g = [x \in Low(m) |-> E(g, x)]
    <3>1. g = [x \in Low(m) |-> g[x]]
      OBVIOUS
    <3> HIDE DEF g, E, Low
    <3> QED BY <2>7, <3>1
  <2>9. Upto(m)
    <3> HIDE DEF g, E, Low
    <3> QED BY <2>8
  <2> QED BY <2>2, <2>9
<1>2. Upto(M)
  <2> HIDE DEF Upto
  <2> QED BY <1>0, <1>1
<1>3. Low(M) = S
  BY <1>0
<1> QED BY <1>2, <1>3 DEF Walk

\* Where such a walk ends: where it must not go on, and in any set that no step
\* leaves.
LEMMA WalkEnds ==
  ASSUME NEW S, NEW Go, NEW step, NEW rank, NEW M, Descends(S, Go, step, rank, M),
         NEW f, Walk(f, S, Go, step), NEW P, Stays(P, S, Go, step)
  PROVE  \A x \in P : f[x] \in P /\ f[x] \notin Go
<1>0. /\ M \in Nat
      /\ \A x \in S : rank[x] \in 0 .. M
      /\ \A x \in S : x \in Go => step[x] \in S /\ rank[step[x]] < rank[x]
      /\ \A x \in P : x \in S /\ (x \in Go => step[x] \in P)
  BY DEF Descends, Stays
<1> DEFINE Bad == {m \in Nat : \E x \in P : rank[x] = m /\ ~(f[x] \in P /\ f[x] \notin Go)}
<1>1. Bad = {}
  <2> SUFFICES ASSUME Bad # {} PROVE FALSE
    OBVIOUS
  <2>1. PICK m \in Bad : \A k \in Bad : m <= k
    <3> HIDE DEF Bad
    <3>1. Bad \subseteq Nat
      BY DEF Bad
    <3> QED BY <3>1, LeastOf
  <2>2. PICK x \in P : rank[x] = m /\ ~(f[x] \in P /\ f[x] \notin Go)
    OBVIOUS
  <2>3. f[x] = IF x \in Go THEN f[step[x]] ELSE x
    BY <1>0 DEF Walk
  <2>4. x \in Go
    BY <2>2, <2>3
  <2>5. step[x] \in P /\ rank[step[x]] \in Nat /\ rank[step[x]] < m /\ m \in Nat
    BY <1>0, <2>2, <2>4
  <2>6. rank[step[x]] \in Bad
    <3>1. ~(f[step[x]] \in P /\ f[step[x]] \notin Go)
      BY <2>2, <2>3, <2>4
    <3> QED BY <2>5, <3>1
  <2> HIDE DEF Bad
  <2> QED BY <2>1, <2>5, <2>6
<1> SUFFICES ASSUME NEW x \in P PROVE f[x] \in P /\ f[x] \notin Go
  OBVIOUS
<1>2. rank[x] \in Nat
  BY <1>0
<1> QED BY <1>1, <1>2

At(d, i, s) == IF Base(i) + s < Chunks THEN d[Base(i) + s].hdr ELSE Junk

GoesOn(got, i, h) == h # Junk /\ EndsInside(got, i, h) /\ h.next # 0

HeadersOn(d) == {d[c].hdr : c \in DOMAIN d} \cup {Junk}

\* a disk on which links can be followed
Walkable(d) ==
  /\ DOMAIN d = 0 .. Chunks - 1
  /\ \A h \in HeadersOn(d) : h # Junk => h.next \in Nat

\* headers as they are met
Met(d, got, i, hs) ==
  /\ hs \in Seq(HeadersOn(d)) /\ Len(hs) \in 1 .. Chunks + 1
  /\ hs[1] = At(d, i, 0)
  /\ \A k \in 1 .. Len(hs) - 1 : GoesOn(got, i, hs[k]) /\ hs[k + 1] = At(d, i, hs[k].next)

LEMMA AtHeader ==
  ASSUME NEW d, Walkable(d), NEW i \in {0, 1}, NEW s \in Nat
  PROVE  At(d, i, s) \in HeadersOn(d)
<1>1. Base(i) + s \in Nat
  BY DiskAssumption DEF Base
<1>2. CASE Base(i) + s < Chunks
  <2>1. Base(i) + s \in DOMAIN d
    BY <1>1, <1>2, DiskAssumption DEF Walkable
  <2> QED BY <1>2, <2>1 DEF At, HeadersOn
<1>3. CASE ~(Base(i) + s < Chunks)
  BY <1>3 DEF At, HeadersOn
<1> QED BY <1>2, <1>3

\* What apa_slice_read reads: the headers along the links, up to the first that
\* is refused or is the last, or more than the disk has chunks.
LEMMA ChainMet ==
  ASSUME NEW d, Walkable(d), NEW got, NEW i \in {0, 1}
  PROVE  LET hs == Chain(d, got, i) IN
         /\ Met(d, got, i, hs)
         /\ Len(hs) <= Chunks => ~GoesOn(got, i, hs[Len(hs)])
<1> DEFINE H == HeadersOn(d)
           S == Seq(H) \ {<<>>}
           On(hs) == GoesOn(got, i, hs[Len(hs)]) /\ Len(hs) <= Chunks
           Longer(hs) == Append(hs, At(d, i, hs[Len(hs)].next))
           Go == {hs \in S : On(hs)}
           step == [hs \in Go |-> Longer(hs)]
           rank == [hs \in S |-> IF Len(hs) <= Chunks THEN Chunks + 1 - Len(hs) ELSE 0]
           P == {hs \in S : Met(d, got, i, hs)}
           Is(f) == f = [hs \in S |-> IF On(hs) THEN f[Longer(hs)] ELSE hs]
           chain == CHOOSE f : Is(f)
<1>1. Chain(d, got, i) = chain[<<At(d, i, 0)>>]
  BY DEF Chain, At, GoesOn, HeadersOn
<1>2. \A f : Is(f) <=> Walk(f, S, Go, step)
  <2> SUFFICES ASSUME NEW f PROVE Is(f) <=> Walk(f, S, Go, step)
    OBVIOUS
  <2>1. ASSUME NEW hs \in S
        PROVE  (IF On(hs) THEN f[Longer(hs)] ELSE hs) = (IF hs \in Go THEN f[step[hs]] ELSE hs)
    <3> HIDE DEF On, Longer, S
    <3> QED OBVIOUS
  <2> HIDE DEF On, Longer, S, Go, step
  <2> QED BY <2>1 DEF Walk
<1>3. ASSUME NEW hs \in S PROVE hs \in Seq(H) /\ Len(hs) \in Nat \ {0} /\ hs[Len(hs)] \in H
  OBVIOUS
<1>4. \A hs \in S : rank[hs] \in 0 .. Chunks + 1
  <2> SUFFICES ASSUME NEW hs \in S PROVE rank[hs] \in 0 .. Chunks + 1
    OBVIOUS
  <2>1. rank[hs] = IF Len(hs) <= Chunks THEN Chunks + 1 - Len(hs) ELSE 0
    OBVIOUS
  <2> HIDE DEF rank, S
  <2> QED BY <2>1, <1>3, DiskAssumption
<1>5. \A hs \in S : hs \in Go => step[hs] \in S /\ rank[step[hs]] < rank[hs]
  <2> SUFFICES ASSUME NEW hs \in S, hs \in Go
               PROVE  step[hs] \in S /\ rank[step[hs]] < rank[hs]
    OBVIOUS
  <2>1. step[hs] = Longer(hs) /\ On(hs)
    BY Zenon
  <2>2. hs[Len(hs)].next \in Nat
    BY <1>3, <2>1 DEF Walkable, GoesOn
  <2>3. At(d, i, hs[Len(hs)].next) \in H
    BY <2>2, AtHeader
  <2>4. Longer(hs) \in S /\ Len(Longer(hs)) = Len(hs) + 1
    <3> HIDE DEF H
    <3> QED BY <1>3, <2>3
  <2>5. rank[Longer(hs)] = IF Len(hs) + 1 <= Chunks THEN Chunks + 1 - (Len(hs) + 1) ELSE 0
    BY <2>4
  <2>6. rank[hs] = Chunks + 1 - Len(hs)
    BY <2>1
  <2> HIDE DEF rank, S, step, Longer
  <2> QED BY <1>3, <2>1, <2>4, <2>5, <2>6, DiskAssumption
<1>6. Descends(S, Go, step, rank, Chunks + 1)
  <2>1. Chunks + 1 \in Nat
    BY DiskAssumption
  <2> HIDE DEF S, Go, step, rank
  <2> QED BY <1>4, <1>5, <2>1 DEF Descends
<1>7. Walk(chain, S, Go, step)
  <2>1. PICK f : Walk(f, S, Go, step)
    <3> HIDE DEF S, Go, step, rank
    <3> QED BY <1>6, WalkExists
  <2>2. Is(f)
    BY <1>2, <2>1
  <2> HIDE DEF Is
  <2>3. Is(chain)
    BY <2>2
  <2> QED BY <1>2, <2>3
<1>8. ASSUME NEW hs \in P, hs \in Go PROVE step[hs] \in P
  <2>1. step[hs] = Longer(hs) /\ On(hs)
    BY <1>8
  <2>2. /\ hs \in S /\ Met(d, got, i, hs) /\ Longer(hs) \in S
    BY <1>5, <1>8, <2>1
  <2>3. /\ Longer(hs) \in Seq(H) /\ Len(Longer(hs)) = Len(hs) + 1
        /\ \A k \in 1 .. Len(hs) : Longer(hs)[k] = hs[k]
        /\ Longer(hs)[Len(hs) + 1] = At(d, i, hs[Len(hs)].next)
    BY <2>2
  <2>4. Len(hs) \in Nat /\ Len(hs) \in 1 .. Chunks
    BY <1>3, <2>1, <2>2, DiskAssumption
  <2> HIDE DEF Longer
  <2>5. ASSUME NEW k \in 1 .. Len(Longer(hs)) - 1
        PROVE  GoesOn(got, i, Longer(hs)[k]) /\ Longer(hs)[k + 1] = At(d, i, Longer(hs)[k].next)
    <3>1. k \in 1 .. Len(hs) /\ Longer(hs)[k] = hs[k]
      BY <2>3, <2>4
    <3>2. CASE k = Len(hs)
      BY <2>1, <2>3, <3>1, <3>2
    <3>3. CASE k # Len(hs)
      <4>1. k \in 1 .. Len(hs) - 1 /\ k + 1 \in 1 .. Len(hs)
        BY <2>4, <3>1, <3>3
      <4> QED BY <2>2, <2>3, <3>1, <4>1 DEF Met
    <3> QED BY <3>2, <3>3
  <2>6. Longer(hs)[1] = At(d, i, 0)
    BY <2>2, <2>3, <2>4 DEF Met
  <2>7. Len(Longer(hs)) \in 1 .. Chunks + 1
    BY <2>3, <2>4, DiskAssumption
  <2> HIDE DEF H, S
  <2>8. Met(d, got, i, Longer(hs))
    BY <2>3, <2>5, <2>6, <2>7 DEF Met, H
  <2> QED BY <2>1, <2>2, <2>8
<1>9. <<At(d, i, 0)>> \in P
  <2>1. At(d, i, 0) \in H
    BY AtHeader
  <2>2. <<At(d, i, 0)>> \in S /\ Len(<<At(d, i, 0)>>) = 1 /\ <<At(d, i, 0)>>[1] = At(d, i, 0)
    BY <2>1
  <2>3. Met(d, got, i, <<At(d, i, 0)>>)
    BY <2>2, DiskAssumption DEF Met
  <2> QED BY <2>2, <2>3
<1>10. \A hs \in P : chain[hs] \in P /\ chain[hs] \notin Go
  <2>1. \A hs \in P : hs \in S /\ (hs \in Go => step[hs] \in P)
    BY <1>8
  <2> HIDE DEF S, Go, step, rank, P, chain
  <2>2. Stays(P, S, Go, step)
    BY <2>1 DEF Stays
  <2> QED BY <1>6, <1>7, <2>2, WalkEnds
<1>11. Chain(d, got, i) \in P /\ Chain(d, got, i) \notin Go
  <2> HIDE DEF P, Go, chain
  <2> QED BY <1>1, <1>9, <1>10
<1> HIDE DEF H, chain
<1> QED BY <1>11

LEMMA SequenceIs ==
  ASSUME NEW S, NEW s \in Seq(S)
  PROVE  /\ Len(s) \in Nat /\ DOMAIN s = 1 .. Len(s) /\ s = [k \in 1 .. Len(s) |-> s[k]]
         /\ \A k \in 1 .. Len(s) : s[k] \in S
OBVIOUS

\* Only one sequence of headers is met.
LEMMA MetOnce ==
  ASSUME NEW d, NEW got, NEW i,
         NEW hs, Met(d, got, i, hs), Len(hs) <= Chunks => ~GoesOn(got, i, hs[Len(hs)]),
         NEW gs, Met(d, got, i, gs), Len(gs) <= Chunks => ~GoesOn(got, i, gs[Len(gs)])
  PROVE  hs = gs
<1>1. PICK m \in Nat, n \in Nat : m = Len(hs) /\ n = Len(gs)
  BY DiskAssumption DEF Met
<1>2. m \in 1 .. Chunks + 1 /\ n \in 1 .. Chunks + 1
  BY <1>1 DEF Met
<1> DEFINE Bad == {k \in 1 .. m : k <= n /\ hs[k] # gs[k]}
<1>3. Bad = {}
  <2> SUFFICES ASSUME Bad # {} PROVE FALSE
    OBVIOUS
  <2>1. PICK k \in Bad : \A j \in Bad : k <= j
    <3> HIDE DEF Bad
    <3>1. Bad \subseteq Nat
      BY DEF Bad
    <3> QED BY <3>1, LeastOf
  <2>2. k # 1
    BY DEF Met
  <2>3. PICK j \in 1 .. m - 1 : k = j + 1 /\ j <= n - 1
    <3>1. k - 1 \in 1 .. m - 1 /\ k = k - 1 + 1 /\ k - 1 <= n - 1
      BY <2>2, <1>1
    <3> QED BY <3>1
  <2>4. j \notin Bad
    <3> HIDE DEF Bad
    <3> QED BY <2>1, <2>3
  <2>5. hs[j] = gs[j]
    BY <1>1, <2>3, <2>4
  <2>6. hs[k] = At(d, i, hs[j].next) /\ gs[k] = At(d, i, gs[j].next)
    BY <1>1, <2>3 DEF Met
  <2> QED BY <2>5, <2>6
<1>4. m = n
  <2>1. ASSUME m < n PROVE FALSE
    <3>1. hs[m] = gs[m] /\ m \in 1 .. n - 1
      BY <1>2, <1>3, <2>1
    <3>2. GoesOn(got, i, gs[m])
      BY <1>1, <3>1 DEF Met
    <3> QED BY <1>1, <1>2, <2>1, <3>1, <3>2, DiskAssumption
  <2>2. ASSUME n < m PROVE FALSE
    <3>1. hs[n] = gs[n] /\ n \in 1 .. m - 1
      BY <1>2, <1>3, <2>2
    <3>2. GoesOn(got, i, hs[n])
      BY <1>1, <3>1 DEF Met
    <3> QED BY <1>1, <1>2, <2>2, <3>1, <3>2, DiskAssumption
  <2> QED BY <2>1, <2>2
<1>5. /\ hs = [k \in 1 .. m |-> hs[k]]
      /\ gs = [k \in 1 .. m |-> gs[k]]
  <2>1. hs \in Seq(HeadersOn(d)) /\ gs \in Seq(HeadersOn(d))
    BY DEF Met
  <2>2. hs = [k \in 1 .. Len(hs) |-> hs[k]] /\ gs = [k \in 1 .. Len(gs) |-> gs[k]]
    BY <2>1, SequenceIs
  <2> QED BY <1>1, <1>4, <2>2
<1>6. \A k \in 1 .. m : hs[k] = gs[k]
  BY <1>3, <1>4
<1> QED BY <1>5, <1>6

-----------------------------------------------------------------------------
(* What a good table is.                                                   *)

RunType == [start : 1 .. Chunks - 1, len : 1 .. Chunks]

HeaderType ==
  [id : Ids \cup {MbrId, EmptyId}, start : 0 .. Chunks - 1, len : 1 .. Chunks,
   main : 0 .. Chunks - 1, subs : Seq(RunType),
   next : 0 .. Chunks - 1, prev : 0 .. Chunks - 1,
   dialect : {"plain", "toxic", "2slice"}]

PartType == [h : HeaderType, modified : BOOLEAN]

LEMMA NotJunk == ASSUME NEW h \in HeaderType PROVE h # Junk
<1>1. "id" \in DOMAIN h
  BY DEF HeaderType
<1>2. "id" \notin DOMAIN Junk
  BY DEF Junk
<1> QED BY <1>1, <1>2

\* The fields of a header that the table is about.
LEMMA HeaderNumbers ==
  ASSUME NEW h \in HeaderType
  PROVE  /\ h.start \in 0 .. Chunks - 1 /\ h.len \in 1 .. Chunks /\ h.main \in 0 .. Chunks - 1
         /\ h.next \in 0 .. Chunks - 1 /\ h.prev \in 0 .. Chunks - 1
         /\ h.start \in Nat /\ h.len \in Nat /\ h.next \in Nat /\ h.main \in Nat
         /\ h.subs \in Seq(RunType) /\ h.id \in Ids \cup {MbrId, EmptyId}
         /\ h.dialect \in {"plain", "toxic", "2slice"}
BY DiskAssumption DEF HeaderType

\* where the links of n headers lead
After(n, k) == IF k = n THEN 1 ELSE k + 1
Behind(n, k) == IF k = 1 THEN n ELSE k - 1

LEMMA Checked ==
  ASSUME NEW n, NEW hs, Len(hs) \in Nat, DOMAIN hs = 1 .. Len(hs), Check(n, hs)
  PROVE  /\ \A k \in 1 .. Len(hs) : /\ hs[k].start < n /\ hs[k].start + hs[k].len <= n
                                    /\ hs[k].start % hs[k].len = 0
         /\ \A k \in 1 .. Len(hs) : /\ hs[k].next = hs[After(Len(hs), k)].start
                                    /\ hs[k].prev = hs[Behind(Len(hs), k)].start
BY DEF Check, After, Behind

\* headers are what they look like, or junk
HeadersTyped(d) ==
  DOMAIN d = 0 .. Chunks - 1 /\ \A c \in DOMAIN d : d[c].hdr \in HeaderType \cup {Junk}

LEMMA TypedWalkable == ASSUME NEW d, HeadersTyped(d) PROVE Walkable(d)
<1>1. ASSUME NEW h \in HeadersOn(d), h # Junk PROVE h.next \in Nat
  <2>1. h \in HeaderType
    BY <1>1 DEF HeadersOn, HeadersTyped
  <2> QED BY <2>1, HeaderNumbers
<1> QED BY <1>1 DEF Walkable, HeadersTyped

\* A header of the list is the one where it says that it starts.
InPlace(d, i, h) == Base(i) + h.start \in DOMAIN d /\ h = d[Base(i) + h.start].hdr

Distinct(hs) == \A j, k \in 1 .. Len(hs) : hs[j].start = hs[k].start => j = k

\* A list that apa_slice_read has accepted begins with the header at the start
\* of the slice, each of its headers is in its place, and none is met twice.
LEMMA AcceptedChain ==
  ASSUME NEW d, HeadersTyped(d), NEW got, NEW i \in {0, 1}, NEW n,
         NEW hs, hs = Chain(d, got, i), Closed(got, i, hs), Check(n, hs)
  PROVE  /\ hs \in Seq(HeaderType) /\ Len(hs) # 0 /\ hs[1].start = 0
         /\ \A k \in 1 .. Len(hs) : InPlace(d, i, hs[k])
         /\ Distinct(hs)
<1> DEFINE N == Len(hs)
<1>1. Met(d, got, i, hs)
  BY TypedWalkable, ChainMet
<1>2. hs \in Seq(HeadersOn(d)) /\ N \in 1 .. Chunks + 1 /\ N \in Nat
  BY <1>1, SequenceIs DEF Met
<1>3. DOMAIN hs = 1 .. N
  BY <1>2, SequenceIs
<1>4. \A k \in 1 .. N : hs[k] # Junk /\ hs[k] \in HeaderType
  <2> SUFFICES ASSUME NEW k \in 1 .. N PROVE hs[k] # Junk /\ hs[k] \in HeaderType
    OBVIOUS
  <2>1. hs[k] # Junk
    BY <1>3 DEF Closed
  <2>2. hs[k] \in HeadersOn(d)
    BY <1>2, SequenceIs
  <2> QED BY <2>1, <2>2 DEF HeadersOn, HeadersTyped
<1>5. hs \in Seq(HeaderType)
  <2>1. hs = [k \in 1 .. N |-> hs[k]]
    BY <1>2, SequenceIs
  <2>2. hs \in [1 .. N -> HeaderType]
    BY <1>4, <2>1
  <2> HIDE DEF N
  <2> QED BY <1>2, <2>2, SeqDef
<1>6. \A k \in 1 .. N : /\ hs[k].next = hs[After(N, k)].start
                        /\ hs[k].prev = hs[Behind(N, k)].start
  BY <1>2, <1>3, Checked
<1>7. hs[1].start = 0
  <2>1. hs[N].next = hs[1].start
    BY <1>2, <1>6 DEF After
  <2>2. hs[N].next = 0
    BY DEF Closed
  <2> QED BY <2>1, <2>2
<1>8. \A k \in 1 .. N : hs[k] = At(d, i, hs[k].start)
  <2> SUFFICES ASSUME NEW k \in 1 .. N PROVE hs[k] = At(d, i, hs[k].start)
    OBVIOUS
  <2>1. CASE k = 1
    BY <1>1, <1>7, <2>1 DEF Met
  <2>2. CASE k # 1
    <3>1. PICK j \in 1 .. N - 1 : k = j + 1
      <4>1. k - 1 \in 1 .. N - 1 /\ k = k - 1 + 1
        BY <1>2, <2>2
      <4> QED BY <4>1
    <3>2. hs[k] = At(d, i, hs[j].next)
      BY <1>1, <3>1 DEF Met
    <3>3. hs[j].next = hs[k].start
      <4>1. j \in 1 .. N /\ After(N, j) = k
        BY <1>2, <3>1 DEF After
      <4> QED BY <1>6, <4>1
    <3> QED BY <3>2, <3>3
  <2> QED BY <2>1, <2>2
<1>9. \A k \in 1 .. N : InPlace(d, i, hs[k])
  <2> SUFFICES ASSUME NEW k \in 1 .. N PROVE InPlace(d, i, hs[k])
    OBVIOUS
  <2>1. Base(i) + hs[k].start < Chunks /\ hs[k] = d[Base(i) + hs[k].start].hdr
    BY <1>4, <1>8 DEF At
  <2>2. Base(i) + hs[k].start \in Nat
    <3>1. hs[k].start \in Nat
      BY <1>4, HeaderNumbers
    <3> QED BY <3>1, DiskAssumption DEF Base
  <2>3. DOMAIN d = 0 .. Chunks - 1
    BY DEF HeadersTyped
  <2>4. Base(i) + hs[k].start \in 0 .. Chunks - 1
    BY <2>1, <2>2, DiskAssumption
  <2> QED BY <2>1, <2>3, <2>4 DEF InPlace
<1>10. \A k \in 1 .. N - 1 : hs[k].next # 0 /\ hs[k + 1] = At(d, i, hs[k].next)
  BY <1>1 DEF Met, GoesOn
<1> HIDE DEF N
\* were one met twice, so would be the next, up to the last
<1>11. ASSUME NEW j \in 1 .. N, NEW k \in 1 .. N, j < k PROVE hs[j].start # hs[k].start
  <2> SUFFICES ASSUME hs[j].start = hs[k].start PROVE FALSE
    OBVIOUS
  <2> DEFINE Bad == {m \in Nat : \E a, b \in 1 .. N : a < b /\ b + m = N /\ hs[a] = hs[b]}
  <2>1. Bad # {}
    <3>1. hs[j] = hs[k]
      BY <1>8
    <3>2. N - k \in Nat /\ k + (N - k) = N
      BY <1>2
    <3> QED BY <1>11, <3>1, <3>2
  <2>2. PICK m \in Bad : \A x \in Bad : m <= x
    <3> HIDE DEF Bad
    <3>1. Bad \subseteq Nat
      BY DEF Bad
    <3> QED BY <2>1, <3>1, LeastOf
  <2>3. PICK a \in 1 .. N, b \in 1 .. N : m \in Nat /\ a < b /\ b + m = N /\ hs[a] = hs[b]
    OBVIOUS
  <2>4. a \in 1 .. N - 1
    BY <1>2, <2>3
  <2>5. CASE m = 0
    <3>1. b = N
      BY <1>2, <2>3, <2>5
    <3>2. hs[N].next = 0
      BY DEF Closed, N
    <3> QED BY <1>10, <2>3, <2>4, <3>1, <3>2
  <2>6. CASE m # 0
    <3>1. b \in 1 .. N - 1 /\ m - 1 \in Nat /\ b + 1 + (m - 1) = N /\ a + 1 < b + 1
      BY <1>2, <2>3, <2>6
    <3>2. hs[a + 1] = hs[b + 1]
      BY <1>10, <2>3, <2>4, <3>1
    <3>3. a + 1 \in 1 .. N /\ b + 1 \in 1 .. N
      BY <1>2, <2>4, <3>1
    <3>4. m - 1 \in Bad
      BY <3>1, <3>2, <3>3
    <3>5. ~(m <= m - 1)
      BY <2>3
    <3> HIDE DEF Bad
    <3> QED BY <2>2, <3>4, <3>5
  <2> QED BY <2>5, <2>6
<1>12. Distinct(hs)
  <2> SUFFICES ASSUME NEW j \in 1 .. N, NEW k \in 1 .. N, hs[j].start = hs[k].start PROVE j = k
    BY DEF Distinct, N
  <2>1. ~(j < k) /\ ~(k < j)
    BY <1>11
  <2> QED BY <1>2, <2>1
<1>13. Len(hs) # 0
  BY <1>2 DEF N
<1> QED BY <1>5, <1>7, <1>9, <1>12, <1>13 DEF N

-----------------------------------------------------------------------------
(* Putting a list in order.                                                *)

\* h is g but for the links
Relinked(h, g) == /\ h.id = g.id /\ h.start = g.start /\ h.len = g.len /\ h.main = g.main
                  /\ h.subs = g.subs /\ h.dialect = g.dialect

Rising(hs) == \A j, k \in 1 .. Len(hs) : j < k => hs[j].start < hs[k].start

\* the neighbours of each header are those it is linked to
RingOf(hs) == \A k \in 1 .. Len(hs) : /\ hs[k].next = hs[After(Len(hs), k)].start
                                      /\ hs[k].prev = hs[Behind(Len(hs), k)].start

LEMMA OrderFacts ==
  ASSUME NEW parts, parts \subseteq PartType, IsFiniteSet(parts)
  PROVE  LET s == InOrder(parts) IN
         /\ s \in Seq(PartType) /\ Len(s) \in Nat /\ DOMAIN s = 1 .. Len(s)
         /\ \A k \in 1 .. Len(s) : s[k] \in parts
         /\ \A j, k \in 1 .. Len(s) : j < k => s[j].h.start < s[k].h.start
         /\ \A p \in parts : \E k \in 1 .. Len(s) : s[k].h.start = p.h.start
<1> DEFINE S == {p.h.start : p \in parts}
           s == InOrder(parts)
<1>1. S \subseteq Nat
  <2> SUFFICES ASSUME NEW p \in parts PROVE p.h.start \in Nat
    OBVIOUS
  <2>1. p.h \in HeaderType
    BY DEF PartType
  <2> QED BY <2>1, HeaderNumbers
<1>2. IsFiniteSet(S)
  <2> DEFINE f == [p \in parts |-> p.h.start]
  <2>1. f \in Surjection(parts, S)
    BY DEF Surjection
  <2> QED BY <2>1, FS_Surjection
<1>3. PICK m \in Nat : m = Cardinality(S)
  BY <1>2, FS_CardinalityType
<1>4. PICK asc : asc = Ascending(S)
  OBVIOUS
<1>5. /\ DOMAIN asc = 1 .. m /\ \A k \in 1 .. m : asc[k] \in S
      /\ \A j, k \in 1 .. m : j < k => asc[j] < asc[k]
      /\ \A x \in S : \E k \in 1 .. m : asc[k] = x
  <2> HIDE DEF S
  <2> QED BY <1>1, <1>2, <1>3, <1>4, AscendingFacts
<1>6. s = [k \in 1 .. m |-> CHOOSE p \in parts : p.h.start = asc[k]]
  BY <1>4, <1>5 DEF InOrder
<1>7. \A k \in 1 .. m : s[k] \in parts /\ s[k].h.start = asc[k]
  <2> SUFFICES ASSUME NEW k \in 1 .. m PROVE s[k] \in parts /\ s[k].h.start = asc[k]
    OBVIOUS
  <2>1. \E p \in parts : p.h.start = asc[k]
    BY <1>5
  <2>2. s[k] = CHOOSE p \in parts : p.h.start = asc[k]
    BY <1>6
  <2> HIDE DEF s
  <2> QED BY <2>1, <2>2
<1> HIDE DEF s
<1>8. s \in [1 .. m -> PartType] /\ s \in Seq(PartType)
  <2>1. s \in [1 .. m -> PartType]
    BY <1>6, <1>7
  <2> QED BY <2>1, SeqDef
<1>9. Len(s) = m /\ DOMAIN s = 1 .. m
  BY <1>8
<1>10. \A j, k \in 1 .. m : j < k => s[j].h.start < s[k].h.start
  BY <1>5, <1>7
<1>11. \A p \in parts : \E k \in 1 .. m : s[k].h.start = p.h.start
  <2> SUFFICES ASSUME NEW p \in parts PROVE \E k \in 1 .. m : s[k].h.start = p.h.start
    OBVIOUS
  <2>1. p.h.start \in S
    OBVIOUS
  <2> QED BY <1>5, <1>7, <2>1
<1> QED BY <1>7, <1>8, <1>9, <1>10, <1>11 DEF s

\* normalize_linked_list: the same partitions in the order of their starts,
\* linked in a ring; one that is not modified has the links it had.
LEMMA NormalizeFacts ==
  ASSUME NEW parts, parts \subseteq PartType, IsFiniteSet(parts)
  PROVE  LET t == Normalize(parts) IN
         /\ t \in Seq(PartType) /\ Rising(Headers(t)) /\ RingOf(Headers(t))
         /\ Len(Headers(t)) = Len(t) /\ \A k \in 1 .. Len(t) : Headers(t)[k] = t[k].h
         /\ \A k \in 1 .. Len(t) : \E p \in parts :
              /\ Relinked(t[k].h, p.h)
              /\ t[k].modified \/ (t[k].h = p.h /\ ~p.modified)
         /\ \A p \in parts : \E k \in 1 .. Len(t) : t[k].h.start = p.h.start
<1> DEFINE s == InOrder(parts)
           n == Len(s)
           prev(k) == s[Behind(n, k)].h.start
           next(k) == s[After(n, k)].h.start
           New(k) == [s[k].h EXCEPT !.prev = prev(k), !.next = next(k)]
           Changed(k) == s[k].modified \/ s[k].h.prev # prev(k) \/ s[k].h.next # next(k)
           t == Normalize(parts)
<1>1. /\ s \in Seq(PartType) /\ n \in Nat /\ DOMAIN s = 1 .. n
      /\ \A k \in 1 .. n : s[k] \in parts
      /\ \A j, k \in 1 .. n : j < k => s[j].h.start < s[k].h.start
      /\ \A p \in parts : \E k \in 1 .. n : s[k].h.start = p.h.start
  BY OrderFacts
<1>2. t = [k \in 1 .. n |-> [h |-> New(k), modified |-> Changed(k)]]
  BY DEF Normalize, Behind, After
<1> HIDE DEF s, t
<1>3. ASSUME NEW k \in 1 .. n
      PROVE  /\ s[k] \in PartType /\ s[k].h \in HeaderType /\ s[k].modified \in BOOLEAN
             /\ s[k].h.start \in 0 .. Chunks - 1
  <2>1. s[k] \in PartType
    BY <1>1
  <2>2. s[k].h \in HeaderType /\ s[k].modified \in BOOLEAN
    BY <2>1 DEF PartType
  <2> QED BY <2>1, <2>2, HeaderNumbers
<1>4. ASSUME NEW k \in 1 .. n PROVE Behind(n, k) \in 1 .. n /\ After(n, k) \in 1 .. n
  <2>1. PICK m \in Nat : m = n
    BY <1>1
  <2> QED BY <2>1, SMTT(30) DEF Behind, After
<1>5. ASSUME NEW k \in 1 .. n PROVE prev(k) \in 0 .. Chunks - 1 /\ next(k) \in 0 .. Chunks - 1
  BY <1>3, <1>4
<1> HIDE DEF n, prev, next
<1>6. ASSUME NEW k \in 1 .. n
      PROVE  /\ New(k) \in HeaderType /\ Relinked(New(k), s[k].h)
             /\ New(k).prev = prev(k) /\ New(k).next = next(k)
             /\ Changed(k) \in BOOLEAN
             /\ Changed(k) \/ (New(k) = s[k].h /\ ~s[k].modified)
  <2>1. s[k].h \in HeaderType
    BY <1>3
  <2>2. New(k) \in HeaderType /\ New(k).prev = prev(k) /\ New(k).next = next(k)
    BY <1>5, <2>1 DEF HeaderType
  <2>3. Relinked(New(k), s[k].h)
    BY <2>1 DEF Relinked, HeaderType
  <2>4. ~Changed(k) => New(k) = s[k].h
    BY <2>1, <1>5 DEF HeaderType
  <2>5. Changed(k) \in BOOLEAN
    BY <1>3
  <2> QED BY <2>2, <2>3, <2>4, <2>5
<1>7. \A k \in 1 .. n : t[k] = [h |-> New(k), modified |-> Changed(k)]
  BY <1>2
<1> HIDE DEF New, Changed
<1>8. \A k \in 1 .. n : t[k] \in PartType /\ t[k].h = New(k) /\ t[k].modified = Changed(k)
  <2> SUFFICES ASSUME NEW k \in 1 .. n
               PROVE t[k] \in PartType /\ t[k].h = New(k) /\ t[k].modified = Changed(k)
    OBVIOUS
  <2>1. PICK h \in HeaderType, m \in BOOLEAN : h = New(k) /\ m = Changed(k)
    BY <1>6
  <2>2. t[k] = [h |-> h, modified |-> m]
    BY <1>7, <2>1
  <2> QED BY <2>1, <2>2 DEF PartType
<1>9. t \in Seq(PartType) /\ Len(t) = n /\ DOMAIN t = 1 .. n
  <2>1. t \in [1 .. n -> PartType]
    BY <1>2, <1>8
  <2>2. n \in Nat
    BY <1>1 DEF n
  <2>3. t \in Seq(PartType)
    BY <2>1, <2>2, SeqDef
  <2> QED BY <2>1, <2>2, <2>3
<1>10. /\ Len(Headers(t)) = n /\ DOMAIN Headers(t) = 1 .. n
       /\ \A k \in 1 .. n : Headers(t)[k] = t[k].h
  <2>1. n \in Nat
    BY <1>1 DEF n
  <2>2. Headers(t) = [k \in 1 .. n |-> t[k].h]
    BY <1>9 DEF Headers
  <2> QED BY <2>1, <2>2
<1>11. \A k \in 1 .. n : t[k].h.start = s[k].h.start
  BY <1>6, <1>8 DEF Relinked
<1>12. Rising(Headers(t))
  <2> SUFFICES ASSUME NEW j \in 1 .. n, NEW k \in 1 .. n, j < k
               PROVE Headers(t)[j].start < Headers(t)[k].start
    BY <1>10 DEF Rising
  <2>1. s[j].h.start < s[k].h.start
    BY <1>1 DEF n
  <2> QED BY <2>1, <1>10, <1>11
<1>13. RingOf(Headers(t))
  <2> SUFFICES ASSUME NEW k \in 1 .. n
               PROVE  /\ Headers(t)[k].next = Headers(t)[After(n, k)].start
                      /\ Headers(t)[k].prev = Headers(t)[Behind(n, k)].start
    BY <1>10 DEF RingOf
  <2>1. After(n, k) \in 1 .. n /\ Behind(n, k) \in 1 .. n
    BY <1>4
  <2> QED BY <1>6, <1>8, <1>10, <1>11, <2>1 DEF prev, next
<1>14. \A k \in 1 .. n : \E p \in parts : /\ Relinked(t[k].h, p.h)
                                          /\ t[k].modified \/ (t[k].h = p.h /\ ~p.modified)
  <2> SUFFICES ASSUME NEW k \in 1 .. n
               PROVE  \E p \in parts : /\ Relinked(t[k].h, p.h)
                                       /\ t[k].modified \/ (t[k].h = p.h /\ ~p.modified)
    OBVIOUS
  <2>1. s[k] \in parts
    BY <1>1 DEF n
  <2> QED BY <1>6, <1>8, <2>1
<1>15. \A p \in parts : \E k \in 1 .. n : t[k].h.start = p.h.start
  BY <1>1, <1>11 DEF n
<1> QED BY <1>9, <1>10, <1>12, <1>13, <1>14, <1>15 DEF t

-----------------------------------------------------------------------------
(* What is read.                                                           *)

LEMMA AmongFacts ==
  ASSUME NEW S, NEW parts \in Seq(S)
  PROVE  /\ Among(parts) \subseteq S /\ IsFiniteSet(Among(parts))
         /\ \A k \in 1 .. Len(parts) : parts[k] \in Among(parts)
         /\ \A p \in Among(parts) : \E k \in 1 .. Len(parts) : p = parts[k]
<1>1. Len(parts) \in Nat /\ DOMAIN parts = 1 .. Len(parts)
      /\ \A k \in 1 .. Len(parts) : parts[k] \in S
  BY SequenceIs
<1>2. IsFiniteSet(Among(parts))
  <2> DEFINE f == [k \in 1 .. Len(parts) |-> parts[k]]
  <2>1. f \in Surjection(1 .. Len(parts), Among(parts))
    BY <1>1 DEF Surjection, Among
  <2>2. IsFiniteSet(1 .. Len(parts))
    BY <1>1, FS_Interval
  <2> HIDE DEF f
  <2> QED BY <2>1, <2>2, FS_Surjection
<1> QED BY <1>1, <1>2 DEF Among

\* the list of a slice as it was read, before anything is done with it
Read(hs) == [k \in DOMAIN hs |-> [h |-> hs[k], modified |-> FALSE]]

LEMMA ReadFacts ==
  ASSUME NEW hs \in Seq(HeaderType)
  PROVE  /\ Read(hs) \in Seq(PartType) /\ Len(Read(hs)) = Len(hs)
         /\ \A k \in 1 .. Len(hs) : Read(hs)[k] = [h |-> hs[k], modified |-> FALSE]
         /\ \A p \in Among(Read(hs)) :
              /\ p.modified = FALSE
              /\ \E k \in 1 .. Len(hs) : p = Read(hs)[k] /\ p.h = hs[k]
<1>1. Len(hs) \in Nat /\ DOMAIN hs = 1 .. Len(hs) /\ \A k \in 1 .. Len(hs) : hs[k] \in HeaderType
  BY SequenceIs
<1>2. Read(hs) = [k \in 1 .. Len(hs) |-> [h |-> hs[k], modified |-> FALSE]]
  BY <1>1 DEF Read
<1>3. \A h \in HeaderType : [h |-> h, modified |-> FALSE] \in PartType
  BY DEF PartType
<1>4. Read(hs) \in [1 .. Len(hs) -> PartType]
  <2> HIDE DEF HeaderType, PartType
  <2> QED BY <1>1, <1>2, <1>3
<1>5. Read(hs) \in Seq(PartType) /\ Len(Read(hs)) = Len(hs)
  <2>1. Read(hs) \in Seq(PartType)
    BY <1>1, <1>4, SeqDef
  <2> QED BY <1>1, <1>2, <2>1
<1>6. ASSUME NEW p \in Among(Read(hs))
      PROVE  p.modified = FALSE /\ \E k \in 1 .. Len(hs) : p = Read(hs)[k] /\ p.h = hs[k]
  <2>1. PICK k \in 1 .. Len(hs) : p = Read(hs)[k]
    BY <1>2 DEF Among
  <2>2. PICK h : h = hs[k]
    OBVIOUS
  <2>3. p = [h |-> h, modified |-> FALSE]
    BY <1>2, <2>1, <2>2
  <2>4. p.modified = FALSE
    BY <2>3
  <2>5. p.h = hs[k]
    BY <2>2, <2>3
  <2> QED BY <2>1, <2>4, <2>5
<1> QED BY <1>2, <1>5, <1>6

\* The list without its empty partitions: the others are all in it, each as it
\* was on the disk but for its links, or marked as modified.
EmptiesGone(hs, ps) ==
  /\ ps \in Seq(PartType)
  /\ \A k \in 1 .. Len(ps) : \E j \in 1 .. Len(hs) :
       Relinked(ps[k].h, hs[j]) /\ (ps[k].modified \/ ps[k].h = hs[j])
  /\ \A j \in 1 .. Len(hs) :
       hs[j].start = 0 /\ hs[j].id # EmptyId => \E k \in 1 .. Len(ps) : ps[k].h.start = 0
  /\ ps = Read(hs) \/ (Rising(Headers(ps)) /\ RingOf(Headers(ps)))

LEMMA DeleteEmptyFacts ==
  ASSUME NEW hs \in Seq(HeaderType), Distinct(hs)
  PROVE  EmptiesGone(hs, DeleteEmpty(Read(hs)))
<1> DEFINE parts == Read(hs)
           ps == DeleteEmpty(parts)
           Gone == {p \in Among(parts) : p.h.main = 0 /\ p.h.id = EmptyId}
           Of(p) == {p.h.start} \cup {p.h.subs[s].start : s \in DOMAIN p.h.subs}
           Starts == UNION {Of(p) : p \in Gone}
           Rest == {p \in Among(parts) : p.h.start \notin Starts}
<1>1. ps = IF Gone = {} THEN parts ELSE Normalize(Rest)
  BY DEF DeleteEmpty
<1>2. /\ parts \in Seq(PartType) /\ Len(parts) = Len(hs)
      /\ \A k \in 1 .. Len(hs) : parts[k] = [h |-> hs[k], modified |-> FALSE]
      /\ \A p \in Among(parts) :
           /\ p.modified = FALSE
           /\ \E k \in 1 .. Len(hs) : p = parts[k] /\ p.h = hs[k]
  BY ReadFacts
<1> SUFFICES EmptiesGone(hs, ps)
  BY DEF parts
<1> HIDE DEF ps, parts
<1>3. /\ Among(parts) \subseteq PartType /\ IsFiniteSet(Among(parts))
      /\ \A k \in 1 .. Len(hs) : parts[k] \in Among(parts)
  BY <1>2, AmongFacts
<1>4. CASE Gone = {}
  <2>1. ps = parts
    BY <1>1, <1>4
  <2>2. ASSUME NEW k \in 1 .. Len(hs) PROVE parts[k].h = hs[k]
    <3>1. PICK h : h = hs[k]
      OBVIOUS
    <3>2. parts[k] = [h |-> h, modified |-> FALSE]
      BY <1>2, <3>1
    <3> QED BY <3>1, <3>2
  <2>3. \A h : Relinked(h, h)
    BY DEF Relinked
  <2>4. \A k \in 1 .. Len(ps) : \E j \in 1 .. Len(hs) :
          Relinked(ps[k].h, hs[j]) /\ (ps[k].modified \/ ps[k].h = hs[j])
    BY <1>2, <2>1, <2>2, <2>3
  <2>5. \A j \in 1 .. Len(hs) : hs[j].start = 0 => \E k \in 1 .. Len(ps) : ps[k].h.start = 0
    BY <1>2, <2>1, <2>2
  <2> QED BY <1>2, <2>1, <2>4, <2>5 DEF EmptiesGone, parts
<1>5. CASE Gone # {}
  <2>1. ps = Normalize(Rest)
    BY <1>1, <1>5
  <2>2. Rest \subseteq PartType /\ IsFiniteSet(Rest) /\ Rest \subseteq Among(parts)
    <3>1. Rest \subseteq Among(parts)
      OBVIOUS
    <3> HIDE DEF Rest
    <3> QED BY <1>3, <3>1, FS_Subset
  <2> HIDE DEF Rest
  <2>3. /\ ps \in Seq(PartType) /\ Rising(Headers(ps)) /\ RingOf(Headers(ps))
        /\ \A k \in 1 .. Len(ps) : \E p \in Rest :
             Relinked(ps[k].h, p.h) /\ (ps[k].modified \/ (ps[k].h = p.h /\ ~p.modified))
        /\ \A p \in Rest : \E k \in 1 .. Len(ps) : ps[k].h.start = p.h.start
    BY <2>1, <2>2, NormalizeFacts
  <2>4. ASSUME NEW k \in 1 .. Len(ps)
        PROVE  \E j \in 1 .. Len(hs) :
                 Relinked(ps[k].h, hs[j]) /\ (ps[k].modified \/ ps[k].h = hs[j])
    <3>1. PICK p \in Rest : Relinked(ps[k].h, p.h) /\ (ps[k].modified \/ ps[k].h = p.h)
      BY <2>3
    <3>2. PICK j \in 1 .. Len(hs) : p.h = hs[j]
      BY <1>2, <2>2
    <3> QED BY <3>1, <3>2
  <2>5. ASSUME NEW j \in 1 .. Len(hs), hs[j].start = 0, hs[j].id # EmptyId
        PROVE  \E k \in 1 .. Len(ps) : ps[k].h.start = 0
    <3>1. parts[j] \in Among(parts) /\ parts[j].h = hs[j]
      <4>1. PICK h : h = hs[j]
        OBVIOUS
      <4>2. parts[j] = [h |-> h, modified |-> FALSE] /\ parts[j] \in Among(parts)
        BY <1>2, <1>3, <4>1
      <4> QED BY <4>1, <4>2
    <3>2. ASSUME NEW p \in Gone PROVE 0 \notin Of(p)
      <4>1. PICK k \in 1 .. Len(hs) : p.h = hs[k]
        BY <1>2
      <4>2. p.h.start # 0
        BY <4>1, <2>5 DEF Distinct
      <4>3. ASSUME NEW s \in DOMAIN p.h.subs PROVE p.h.subs[s].start # 0
        <5>1. p.h \in HeaderType
          BY <1>3 DEF PartType
        <5>2. p.h.subs \in Seq(RunType)
          BY <5>1, HeaderNumbers
        <5>3. p.h.subs[s] \in RunType
          BY <5>2, SequenceIs
        <5>4. p.h.subs[s].start \in 1 .. Chunks - 1
          BY <5>3 DEF RunType
        <5> QED BY <5>4, DiskAssumption
      <4> QED BY <4>2, <4>3
    <3>3. 0 \notin Starts
      BY <3>2
    <3>4. parts[j] \in Rest
      BY <2>5, <3>1, <3>3 DEF Rest
    <3>5. parts[j].h.start = 0
      BY <2>5, <3>1
    <3> QED BY <2>3, <3>4, <3>5
  <2> QED BY <2>3, <2>4, <2>5 DEF EmptiesGone
<1> QED BY <1>4, <1>5

\* what a list in memory has of a partition, and the disk where it starts
FromDisk(d, i, p) ==
  LET c == Base(i) + p.h.start
  IN /\ c \in DOMAIN d /\ d[c].hdr \in HeaderType
     /\ Relinked(p.h, d[c].hdr) /\ (p.modified \/ p.h = d[c].hdr)

LEMMA SliceReadFacts ==
  ASSUME NEW d, HeadersTyped(d), NEW got, NEW i \in {0, 1}, SliceRead(d, got, i).ok
  PROVE  LET ps == SliceRead(d, got, i).parts IN
         /\ ps \in Seq(PartType) /\ Check(SliceChunks(got, i), Headers(ps))
         /\ \A k \in 1 .. Len(ps) : FromDisk(d, i, ps[k])
         /\ d[Base(i)].hdr.id # EmptyId => \E k \in 1 .. Len(ps) : ps[k].h.start = 0
<1> DEFINE hs == Chain(d, got, i)
           n == SliceChunks(got, i)
           ps == DeleteEmpty(Read(hs))
<1>1. SliceRead(d, got, i) =
        IF Closed(got, i, hs) /\ Check(n, hs) /\ Check(n, Headers(ps))
        THEN [ok |-> TRUE, parts |-> ps] ELSE [ok |-> FALSE, parts |-> <<>>]
  BY DEF SliceRead, Read
<1> HIDE DEF ps
<1>2. Closed(got, i, hs) /\ Check(n, hs) /\ Check(n, Headers(ps))
      /\ SliceRead(d, got, i).parts = ps
  <2> HIDE DEF hs, n
  <2> QED BY <1>1
<1>3. /\ hs \in Seq(HeaderType) /\ Len(hs) # 0 /\ hs[1].start = 0
      /\ \A k \in 1 .. Len(hs) : InPlace(d, i, hs[k])
      /\ Distinct(hs)
  BY <1>2, AcceptedChain
<1> HIDE DEF hs, n
<1>4. /\ ps \in Seq(PartType)
      /\ \A k \in 1 .. Len(ps) : \E j \in 1 .. Len(hs) :
           Relinked(ps[k].h, hs[j]) /\ (ps[k].modified \/ ps[k].h = hs[j])
      /\ \A j \in 1 .. Len(hs) :
           hs[j].start = 0 /\ hs[j].id # EmptyId => \E k \in 1 .. Len(ps) : ps[k].h.start = 0
  BY <1>3, DeleteEmptyFacts DEF ps, EmptiesGone
<1>5. ASSUME NEW k \in 1 .. Len(ps) PROVE FromDisk(d, i, ps[k])
  <2>1. PICK j \in 1 .. Len(hs) :
          Relinked(ps[k].h, hs[j]) /\ (ps[k].modified \/ ps[k].h = hs[j])
    BY <1>4
  <2>2. hs[j] \in HeaderType /\ InPlace(d, i, hs[j]) /\ ps[k].h.start = hs[j].start
    BY <1>3, <2>1, SequenceIs DEF Relinked
  <2> QED BY <2>1, <2>2 DEF FromDisk, InPlace
<1>6. ASSUME d[Base(i)].hdr.id # EmptyId PROVE \E k \in 1 .. Len(ps) : ps[k].h.start = 0
  <2>1. Len(hs) \in Nat
    BY <1>3
  <2>2. 1 \in 1 .. Len(hs)
    BY <1>3, <2>1
  <2>3. hs[1] = d[Base(i) + 0].hdr
    BY <1>3, <2>2 DEF InPlace
  <2>4. Base(i) + 0 = Base(i)
    BY DiskAssumption DEF Base
  <2> QED BY <1>3, <1>4, <1>6, <2>2, <2>3, <2>4
<1> QED BY <1>2, <1>4, <1>5, <1>6 DEF n

-----------------------------------------------------------------------------
(* The disk and the table in memory are what they look like.               *)

\* the sectors of the HDLoader header: of a game, or anything else
TabOK(tab) == tab = Junk \/ ("title" \in DOMAIN tab /\ tab.title \in Names)

\* The first partition of the disk is the system's: it can be neither deleted
\* nor overwritten, for inject_mbr takes its links from it.
ChunkOK(c, v) ==
  /\ DOMAIN v = {"hdr", "tab", "data"}
  /\ v.hdr \in HeaderType \cup {Junk}
  /\ c = 0 => v.hdr # Junk /\ v.hdr.id = MbrId
  /\ TabOK(v.tab)
  /\ v.data.image \in Names \cup {"none"}

DiskOK(d) == DOMAIN d = 0 .. Chunks - 1 /\ \A c \in DOMAIN d : ChunkOK(c, d[c])

\* a partition of slice i, on the disk
PartOK(i, p) ==
  /\ p \in PartType /\ Base(i) + p.h.start \in 0 .. Chunks - 1
  /\ i = 0 /\ p.h.start = 0 => p.h.id = MbrId

PartsOK(i, ps) == ps \in Seq(PartType) /\ \A k \in 1 .. Len(ps) : PartOK(i, ps[k])

TocOK(t) ==
  /\ DOMAIN t = {"ok", "got", "toxic", "slice"} /\ t.ok = TRUE /\ t.got \in BOOLEAN
  /\ DOMAIN t.slice = 0 .. 1 /\ \A i \in Slices(t) : PartsOK(i, t.slice[i])

\* the chunks of the disk where the partitions of a table start
TocChunks(t) ==
  UNION {{Base(i) + t.slice[i][k].h.start : k \in DOMAIN t.slice[i]} : i \in Slices(t)}

LEMMA DiskTyped == ASSUME NEW d, DiskOK(d) PROVE HeadersTyped(d)
BY DEF DiskOK, ChunkOK, HeadersTyped

LEMMA BaseIs == Base(0) = 0 /\ Base(1) = Slice2 /\ Slice2 \in Nat \ {0}
BY DiskAssumption DEF Base

LEMMA SlicesAre ==
  ASSUME NEW t PROVE Slices(t) \subseteq {0, 1} /\ 0 \in Slices(t) /\ (1 \in Slices(t) <=> t.got)
BY DEF Slices

\* Games have names of their own.
LEMMA IdsOther == MbrId \notin Ids /\ EmptyId \notin Ids
<1>1. MbrId[2] = "mbr" /\ EmptyId[2] = "empty"
  BY DEF MbrId, EmptyId
<1>2. \A id \in Ids : id[2] \in Names
  BY DEF Ids
<1> QED BY <1>1, <1>2, CommandsAssumption

LEMMA TocReadOK ==
  ASSUME NEW d, DiskOK(d), NEW t, t = TocRead(d), t.ok
  PROVE  /\ TocOK(t) /\ t.got = GotSecondSlice(d)
         /\ \A i \in Slices(t) :
              /\ Check(SliceChunks(t.got, i), Headers(t.slice[i]))
              /\ \A k \in 1 .. Len(t.slice[i]) : FromDisk(d, i, t.slice[i][k])
         /\ \E k \in 1 .. Len(t.slice[0]) : t.slice[0][k].h.start = 0
<1> DEFINE got == GotSecondSlice(d)
           s0 == SliceRead(d, got, 0)
           s1 == IF got THEN SliceRead(d, got, 1) ELSE [ok |-> TRUE, parts |-> <<>>]
           slice == [i \in 0 .. 1 |-> IF i = 0 THEN s0.parts ELSE s1.parts]
<1>1. t = IF s0.ok /\ s1.ok
          THEN [ok |-> TRUE, got |-> got, toxic |-> Dialect(d) # "plain", slice |-> slice]
          ELSE NoToc
  BY DEF TocRead
<1>2. got \in BOOLEAN
  BY DEF GotSecondSlice
<1> HIDE DEF got, s0, s1, slice
<1>3. s0.ok /\ s1.ok
  BY <1>1 DEF NoToc
<1>4. /\ DOMAIN t = {"ok", "got", "toxic", "slice"} /\ t.ok = TRUE /\ t.got = got
      /\ t.slice = slice
  <2>1. PICK toxic : toxic = (Dialect(d) # "plain")
    OBVIOUS
  <2>2. t = [ok |-> TRUE, got |-> got, toxic |-> toxic, slice |-> slice]
    BY <1>1, <1>3, <2>1
  <2> QED BY <2>2
<1>5. DOMAIN slice = 0 .. 1 /\ slice[0] = s0.parts /\ (got => slice[1] = SliceRead(d, got, 1).parts)
  BY DEF slice, s1
<1>6. got => SliceRead(d, got, 1).ok
  BY <1>3 DEF s1
<1>7. ASSUME NEW i \in Slices(t)
      PROVE  /\ i \in {0, 1} /\ SliceRead(d, got, i).ok
             /\ t.slice[i] = SliceRead(d, got, i).parts
  <2>1. i = 0 \/ (i = 1 /\ got)
    BY <1>4, SlicesAre
  <2>2. CASE i = 0
    BY <2>2, <1>3, <1>4, <1>5 DEF s0
  <2>3. CASE i = 1 /\ got
    BY <2>3, <1>4, <1>5, <1>6
  <2> QED BY <2>1, <2>2, <2>3
<1>8. ASSUME NEW i \in Slices(t)
      PROVE  /\ t.slice[i] \in Seq(PartType)
             /\ Check(SliceChunks(t.got, i), Headers(t.slice[i]))
             /\ \A k \in 1 .. Len(t.slice[i]) : FromDisk(d, i, t.slice[i][k])
             /\ d[Base(i)].hdr.id # EmptyId =>
                  \E k \in 1 .. Len(t.slice[i]) : t.slice[i][k].h.start = 0
  BY <1>4, <1>7, DiskTyped, SliceReadFacts
<1>9. ASSUME NEW i \in Slices(t), NEW k \in 1 .. Len(t.slice[i])
      PROVE  PartOK(i, t.slice[i][k])
  <2>1. t.slice[i][k] \in PartType
    BY <1>8, SequenceIs
  <2>2. FromDisk(d, i, t.slice[i][k])
    BY <1>8
  <2>3. Base(i) + t.slice[i][k].h.start \in 0 .. Chunks - 1
    BY <2>2 DEF FromDisk, DiskOK
  <2>4. ASSUME i = 0, t.slice[i][k].h.start = 0 PROVE t.slice[i][k].h.id = MbrId
    <3>1. Base(i) + t.slice[i][k].h.start = 0
      BY <2>4, DiskAssumption DEF Base
    <3>2. d[0].hdr.id = MbrId
      BY <2>3, <3>1 DEF DiskOK, ChunkOK
    <3> QED BY <2>2, <3>1, <3>2 DEF FromDisk, Relinked
  <2> QED BY <2>1, <2>3, <2>4 DEF PartOK
<1>10. TocOK(t)
  BY <1>2, <1>4, <1>5, <1>8, <1>9 DEF TocOK, PartsOK
<1>11. \E k \in 1 .. Len(t.slice[0]) : t.slice[0][k].h.start = 0
  <2>1. Base(0) = 0 /\ 0 \in DOMAIN d
    BY DiskAssumption DEF Base, DiskOK
  <2>2. d[0].hdr.id = MbrId
    BY <2>1 DEF DiskOK, ChunkOK
  <2>3. MbrId # EmptyId
    BY DEF MbrId, EmptyId
  <2> QED BY <1>8, <2>1, <2>2, <2>3, SlicesAre
<1> QED BY <1>4, <1>8, <1>10, <1>11 DEF got

LEMMA HeaderAtFacts ==
  ASSUME NEW t, TocOK(t), NEW c \in TocChunks(t)
  PROVE  /\ c \in 0 .. Chunks - 1 /\ HeaderAt(t, c) \in HeaderType
         /\ c = 0 => HeaderAt(t, c).id = MbrId
         /\ \E i \in Slices(t) : \E k \in 1 .. Len(t.slice[i]) :
              HeaderAt(t, c) = t.slice[i][k].h /\ Base(i) + t.slice[i][k].h.start = c
<1> DEFINE Places == UNION {{i} \X DOMAIN t.slice[i] : i \in Slices(t)}
           Here(ik) == Base(ik[1]) + t.slice[ik[1]][ik[2]].h.start = c
<1>1. \A i \in Slices(t) : t.slice[i] \in Seq(PartType) /\ DOMAIN t.slice[i] = 1 .. Len(t.slice[i])
  BY SequenceIs DEF TocOK, PartsOK
<1>2. \E ik \in Places : Here(ik)
  <2>1. PICK i \in Slices(t) : \E k \in DOMAIN t.slice[i] : Base(i) + t.slice[i][k].h.start = c
    BY DEF TocChunks
  <2>2. PICK k \in DOMAIN t.slice[i] : Base(i) + t.slice[i][k].h.start = c
    BY <2>1
  <2>3. <<i, k>> \in Places /\ Here(<<i, k>>)
    BY <2>2
  <2> QED BY <2>3
<1>3. PICK ik \in Places : Here(ik) /\ HeaderAt(t, c) = t.slice[ik[1]][ik[2]].h
  <2> DEFINE at == CHOOSE ik \in Places : Here(ik)
  <2>1. at \in Places /\ Here(at)
    <3> HIDE DEF Places, Here
    <3> QED BY <1>2
  <2>2. HeaderAt(t, c) = t.slice[at[1]][at[2]].h
    BY DEF HeaderAt
  <2> HIDE DEF at
  <2> QED BY <2>1, <2>2
<1>4. PICK i \in Slices(t) : \E k \in DOMAIN t.slice[i] : ik = <<i, k>>
  BY <1>3
<1>10. PICK k \in DOMAIN t.slice[i] : ik = <<i, k>>
  BY <1>4
<1>5. /\ Base(i) + t.slice[i][k].h.start = c /\ HeaderAt(t, c) = t.slice[i][k].h
      /\ k \in 1 .. Len(t.slice[i])
  BY <1>1, <1>3, <1>10
<1>6. PartOK(i, t.slice[i][k])
  BY <1>5 DEF TocOK, PartsOK
<1>7. t.slice[i][k].h \in HeaderType
  BY <1>6 DEF PartOK, PartType
<1>8. c = 0 => t.slice[i][k].h.id = MbrId
  <2>1. t.slice[i][k].h.start \in Nat
    BY <1>7, HeaderNumbers
  <2>2. i \in {0, 1}
    BY SlicesAre
  <2>3. c = 0 => i = 0 /\ t.slice[i][k].h.start = 0
    BY <1>5, <2>1, <2>2, BaseIs
  <2> QED BY <1>6, <2>3 DEF PartOK
<1> QED BY <1>5, <1>6, <1>7, <1>8 DEF PartOK

LEMMA ModifiedFacts ==
  ASSUME NEW t, TocOK(t) PROVE ModifiedAt(t) \subseteq TocChunks(t) /\ TocChunks(t) \subseteq 0 .. Chunks - 1
BY HeaderAtFacts DEF ModifiedAt, TocChunks

-----------------------------------------------------------------------------
(* What an install puts in the table.                                      *)

\* runs that can be partitions of a new game: the first is the lowest
GoodRuns(runs) ==
  /\ runs \in Seq([start : Nat, len : Nat]) /\ Len(runs) # 0
  /\ \A k \in 1 .. Len(runs) : /\ runs[k].start \in 0 .. Chunks - 1 /\ runs[k].len \in 1 .. Chunks
                               /\ k # 1 => runs[k].start # 0

\* the list of a slice with new partitions in it
Grown(ps, id, runs, new) ==
  /\ new \in Seq(PartType) /\ Rising(Headers(new)) /\ RingOf(Headers(new))
  /\ \A k \in 1 .. Len(new) :
       \/ \E j \in 1 .. Len(ps) : /\ Relinked(new[k].h, ps[j].h)
                                  /\ new[k].modified \/ (new[k].h = ps[j].h /\ ~ps[j].modified)
       \/ \E m \in 1 .. Len(runs) : Relinked(new[k].h, NewHeader(id, runs, m)) /\ new[k].modified
  /\ \A j \in 1 .. Len(ps) : \E k \in 1 .. Len(new) : new[k].h.start = ps[j].h.start
  /\ \A m \in 1 .. Len(runs) : \E k \in 1 .. Len(new) : new[k].h.start = runs[m].start

LEMMA NewHeaderTyped ==
  ASSUME NEW runs, GoodRuns(runs), NEW id \in Ids, NEW k \in 1 .. Len(runs)
  PROVE  NewHeader(id, runs, k) \in HeaderType
<1>1. PICK n \in Nat \ {0} : n = Len(runs)
  BY DEF GoodRuns
<1>2. \A m \in 1 .. n : runs[m].start \in 0 .. Chunks - 1 /\ runs[m].len \in 1 .. Chunks
  BY <1>1 DEF GoodRuns
<1>3. \A m \in 2 .. n : runs[m] \in RunType
  <2> SUFFICES ASSUME NEW m \in 2 .. n PROVE runs[m] \in RunType
    OBVIOUS
  <2>1. m \in 1 .. n /\ m # 1
    OBVIOUS
  <2>2. runs[m] \in [start : Nat, len : Nat]
    BY <1>1, <2>1, SequenceIs DEF GoodRuns
  <2>3. runs[m].start # 0 /\ runs[m].start \in 0 .. Chunks - 1 /\ runs[m].len \in 1 .. Chunks
    BY <1>1, <2>1 DEF GoodRuns
  <2>4. runs[m].start \in 1 .. Chunks - 1
    BY <2>3, DiskAssumption
  <2> QED BY <2>2, <2>3, <2>4 DEF RunType
<1>4. SubSeq(runs, 2, n) \in Seq(RunType)
  <2>1. SubSeq(runs, 2, n) = [m \in 1 .. n - 1 |-> runs[m + 1]]
    BY <1>1 DEF GoodRuns
  <2>2. \A m \in 1 .. n - 1 : m + 1 \in 2 .. n
    BY <1>1
  <2>3. SubSeq(runs, 2, n) \in [1 .. n - 1 -> RunType]
    BY <1>3, <2>1, <2>2
  <2>4. n - 1 \in Nat
    OBVIOUS
  <2> QED BY <2>3, <2>4, SeqDef
<1>5. <<>> \in Seq(RunType)
  OBVIOUS
<1>6. 1 \in 1 .. n /\ k \in 1 .. n /\ 0 \in 0 .. Chunks - 1
  BY <1>1, DiskAssumption
<1>7. PICK subs \in Seq(RunType), main \in 0 .. Chunks - 1 :
        /\ subs = IF k = 1 THEN SubSeq(runs, 2, Len(runs)) ELSE <<>>
        /\ main = IF k = 1 THEN 0 ELSE runs[1].start
  BY <1>1, <1>2, <1>4, <1>5, <1>6
<1>8. NewHeader(id, runs, k) = [id |-> id, start |-> runs[k].start, len |-> runs[k].len,
                                main |-> main, subs |-> subs, next |-> 0, prev |-> 0,
                                dialect |-> "plain"]
  BY <1>7 DEF NewHeader
<1> QED BY <1>2, <1>6, <1>8 DEF HeaderType

LEMMA WithNewFacts ==
  ASSUME NEW ps \in Seq(PartType), NEW runs, GoodRuns(runs), NEW id \in Ids
  PROVE  Grown(ps, id, runs, WithNew(ps, id, runs))
<1> DEFINE Made(k) == [h |-> NewHeader(id, runs, k), modified |-> TRUE]
           made == {Made(k) : k \in DOMAIN runs}
           all == Among(ps) \cup made
           new == Normalize(all)
<1>1. WithNew(ps, id, runs) = new
  BY DEF WithNew
<1>2. Len(runs) \in Nat /\ DOMAIN runs = 1 .. Len(runs)
  BY SequenceIs DEF GoodRuns
<1>3. /\ Among(ps) \subseteq PartType /\ IsFiniteSet(Among(ps))
      /\ \A k \in 1 .. Len(ps) : ps[k] \in Among(ps)
      /\ \A p \in Among(ps) : \E k \in 1 .. Len(ps) : p = ps[k]
  BY AmongFacts
<1>4. ASSUME NEW k \in 1 .. Len(runs)
      PROVE  /\ Made(k) \in PartType /\ Made(k).h = NewHeader(id, runs, k)
             /\ Made(k).modified = TRUE /\ Made(k).h.start = runs[k].start
  <2>1. PICK h \in HeaderType : h = NewHeader(id, runs, k)
    BY NewHeaderTyped
  <2>2. Made(k) = [h |-> h, modified |-> TRUE]
    BY <2>1
  <2>3. h.start = runs[k].start
    BY <2>1 DEF NewHeader
  <2> QED BY <2>1, <2>2, <2>3 DEF PartType
<1> HIDE DEF Made
<1>5. made \subseteq PartType
  BY <1>2, <1>4
<1>6. IsFiniteSet(made)
  <2> DEFINE f == [k \in 1 .. Len(runs) |-> Made(k)]
  <2>1. f \in Surjection(1 .. Len(runs), made)
    BY <1>2 DEF Surjection
  <2>2. IsFiniteSet(1 .. Len(runs))
    BY <1>2, FS_Interval
  <2> HIDE DEF f, made
  <2> QED BY <2>1, <2>2, FS_Surjection
<1>7. \A p \in made : \E k \in 1 .. Len(runs) : p = Made(k)
  BY <1>2
<1>8. \A k \in 1 .. Len(runs) : Made(k) \in made
  BY <1>2
<1> HIDE DEF made
<1>9. all \subseteq PartType /\ IsFiniteSet(all)
  BY <1>3, <1>5, <1>6, FS_Union
<1>10. \A p \in all : p \in Among(ps) \/ p \in made
  OBVIOUS
<1>11. \A p : p \in Among(ps) \/ p \in made => p \in all
  OBVIOUS
<1> HIDE DEF all
<1>12. /\ new \in Seq(PartType) /\ Rising(Headers(new)) /\ RingOf(Headers(new))
       /\ \A k \in 1 .. Len(new) : \E p \in all :
            /\ Relinked(new[k].h, p.h)
            /\ new[k].modified \/ (new[k].h = p.h /\ ~p.modified)
       /\ \A p \in all : \E k \in 1 .. Len(new) : new[k].h.start = p.h.start
  BY <1>9, NormalizeFacts
<1> HIDE DEF new
<1>13. ASSUME NEW k \in 1 .. Len(new)
       PROVE  \/ \E j \in 1 .. Len(ps) :
                   /\ Relinked(new[k].h, ps[j].h)
                   /\ new[k].modified \/ (new[k].h = ps[j].h /\ ~ps[j].modified)
              \/ \E m \in 1 .. Len(runs) :
                   Relinked(new[k].h, NewHeader(id, runs, m)) /\ new[k].modified
  <2>1. PICK p \in all : /\ Relinked(new[k].h, p.h)
                         /\ new[k].modified \/ (new[k].h = p.h /\ ~p.modified)
    BY <1>12
  <2>2. CASE p \in Among(ps)
    BY <1>3, <2>1, <2>2
  <2>3. CASE p \in made
    <3>1. PICK m \in 1 .. Len(runs) : p = Made(m)
      BY <1>7, <2>3
    <3>2. p.h = NewHeader(id, runs, m) /\ p.modified = TRUE
      BY <1>4, <3>1
    <3> QED BY <2>1, <3>2
  <2> QED BY <1>10, <2>2, <2>3
<1>14. \A j \in 1 .. Len(ps) : \E k \in 1 .. Len(new) : new[k].h.start = ps[j].h.start
  BY <1>3, <1>11, <1>12
<1>15. \A m \in 1 .. Len(runs) : \E k \in 1 .. Len(new) : new[k].h.start = runs[m].start
  <2> SUFFICES ASSUME NEW m \in 1 .. Len(runs)
               PROVE \E k \in 1 .. Len(new) : new[k].h.start = runs[m].start
    OBVIOUS
  <2>1. Made(m) \in all
    BY <1>8, <1>11
  <2>2. PICK k \in 1 .. Len(new) : new[k].h.start = Made(m).h.start
    BY <1>12, <2>1
  <2> QED BY <1>4, <2>2
<1> QED BY <1>1, <1>12, <1>13, <1>14, <1>15 DEF Grown

\* What a command that installs a game has in memory when the copy begins.
Started(t, i, name, id, runs) ==
  /\ phase' = "copy" /\ disk' = disk /\ result' = "none"
  /\ toc' = [t EXCEPT !.slice[i] = WithNew(@, id, runs)]
  /\ job' = [op |-> "install", name |-> name, id |-> id, slice |-> i,
             size |-> Size[name], header |-> NewHeader(id, runs, 1)]
  /\ todo' = PlanChunks(job')

LEMMA InstallStarts ==
  ASSUME NEW t, t = TocRead(disk), t.ok, NEW id, NEW name \in Names,
         NEW hint \in {-1, 0, 1}, Install(t, id, name, hint), ~Refuse
  PROVE  /\ Find(t, id) = {}
         /\ \E i \in Slices(t) : \E runs :
              /\ runs = Allocate(SliceChunks(t.got, i), Headers(t.slice[i]), Size[name])
              /\ runs # <<>> /\ SliceChunks(t.got, i) \in Nat
              /\ Base(i) + SliceChunks(t.got, i) <= Chunks
              /\ Started(t, i, name, id, runs)
<1> DEFINE tries == SlicesToTry(t, hint)
           fits == {k \in DOMAIN tries : RunsIn(t, tries[k], Size[name]) # <<>>}
<1>1. PICK i \in {tries[Lowest(fits)]} : \E runs \in {RunsIn(t, i, Size[name])} :
        /\ fits # {} /\ Find(t, id) = {}
        /\ \E j \in {[op |-> "install", name |-> name, id |-> id, slice |-> i,
                      size |-> Size[name], header |-> NewHeader(id, runs, 1)]} :
             Begin([t EXCEPT !.slice[i] = WithNew(@, id, runs)], j, "copy", PlanChunks(j))
  BY ZenonT(40) DEF Install
<1>2. PICK runs : /\ runs = RunsIn(t, i, Size[name]) /\ fits # {}
                  /\ Started(t, i, name, id, runs)
  <2>1. PICK runs : /\ runs = RunsIn(t, i, Size[name]) /\ fits # {}
                    /\ \E j \in {[op |-> "install", name |-> name, id |-> id, slice |-> i,
                                  size |-> Size[name], header |-> NewHeader(id, runs, 1)]} :
                         Begin([t EXCEPT !.slice[i] = WithNew(@, id, runs)], j, "copy",
                               PlanChunks(j))
    <3> HIDE DEF fits
    <3> QED BY <1>1
  <2> QED BY <2>1, Zenon DEF Begin, Started
<1>3. PICK k \in fits : k = Lowest(fits)
  <2>1. fits \subseteq Nat
    BY SlicesTried
  <2>2. \E m \in fits : \A y \in fits : m <= y
    <3> HIDE DEF fits
    <3> QED BY <1>2, <2>1, LeastOf
  <2> HIDE DEF fits
  <2> QED BY <2>2 DEF Lowest
<1>4. i = tries[k] /\ runs # <<>> /\ k \in DOMAIN tries
  BY <1>1, <1>2, <1>3
<1>5. /\ i \in {0, 1} /\ SliceChunks(t.got, i) \in Nat
      /\ Base(i) + SliceChunks(t.got, i) <= Chunks
  BY <1>4, SlicesTried
<1>6. i \in Slices(t)
  <2>1. ~t.got => i = 0
    BY <1>4 DEF SlicesToTry
  <2> QED BY <1>5, <2>1 DEF Slices
<1> HIDE DEF fits, tries
<1> QED BY <1>1, <1>2, <1>4, <1>5, <1>6 DEF RunsIn

LEMMA RunsGood ==
  ASSUME NEW n \in Nat, n <= Chunks, NEW hs, NEW mb \in Nat, Allocate(n, hs, mb) # <<>>
  PROVE  /\ GoodRuns(Allocate(n, hs, mb))
         /\ \A k \in 1 .. Len(Allocate(n, hs, mb)) :
              /\ Allocate(n, hs, mb)[k].start \in 0 .. n - 1
              /\ Span(Allocate(n, hs, mb)[k]) \subseteq Available(n, hs)
              /\ Allocate(n, hs, mb)[k].start \in Available(n, hs)
<1> DEFINE runs == Allocate(n, hs, mb)
           R == [start : Nat, len : Nat]
<1>1. runs \in Seq(R) /\ Len(runs) # 0
  BY AllocatedShape
<1>2. Len(runs) \in Nat /\ DOMAIN runs = 1 .. Len(runs)
  <2> HIDE DEF runs, R
  <2> QED BY <1>1
<1>3. ASSUME NEW k \in 1 .. Len(runs)
      PROVE  /\ runs[k].start \in Nat /\ runs[k].len \in Nat \ {0} /\ runs[k].len <= n
             /\ runs[k].start \in 0 .. n - 1
             /\ Span(runs[k]) \subseteq Available(n, hs) /\ runs[k].start \in Available(n, hs)
             /\ \A j \in 1 .. Len(runs) : j < k => runs[j].start < runs[k].start
  <2>1. runs[k] \in R
    <3> HIDE DEF runs, R
    <3> QED BY <1>1
  <2>2. k \in DOMAIN Allocate(n, hs, mb)
    BY <1>2
  <2>3. /\ runs[k].len \in 1 .. MaxRun(n)
        /\ Span(runs[k]) \subseteq Available(n, hs) /\ Span(runs[k]) \subseteq 0 .. n - 1
        /\ \A j \in DOMAIN runs : j # k => (j < k <=> runs[j].start < runs[k].start)
    BY <2>2, AllocatedRuns
  <2>4. MaxRun(n) \in Nat
    BY MaxRunNat
  <2> HIDE DEF runs
  <2>5. runs[k].start \in Nat /\ runs[k].len \in Nat \ {0}
    BY <2>1, <2>3, <2>4
  <2>6. runs[k].start \in Span(runs[k]) /\ runs[k].start + runs[k].len - 1 \in Span(runs[k])
    BY <2>5 DEF Span
  <2>7. runs[k].start \in 0 .. n - 1 /\ runs[k].start + runs[k].len - 1 \in 0 .. n - 1
    BY <2>3, <2>6
  <2>8. runs[k].len <= n
    BY <2>5, <2>7
  <2>9. ASSUME NEW j \in 1 .. Len(runs), j < k PROVE runs[j].start < runs[k].start
    <3>1. j \in DOMAIN runs /\ j # k
      BY <1>2, <2>9
    <3> QED BY <2>3, <2>9, <3>1
  <2>10. Span(runs[k]) \subseteq Available(n, hs)
    BY <2>3
  <2>11. runs[k].start \in Available(n, hs)
    BY <2>6, <2>10
  <2>12. runs[k].start \in 0 .. n - 1
    BY <2>7
  <2> QED BY <2>5, <2>8, <2>9, <2>10, <2>11, <2>12
<1> HIDE DEF runs
<1>4. 1 \in 1 .. Len(runs)
  BY <1>1, <1>2
<1>5. \A k \in 1 .. Len(runs) : /\ runs[k].start \in 0 .. Chunks - 1 /\ runs[k].len \in 1 .. Chunks
                                /\ k # 1 => runs[k].start # 0
  <2> SUFFICES ASSUME NEW k \in 1 .. Len(runs)
               PROVE  /\ runs[k].start \in 0 .. Chunks - 1 /\ runs[k].len \in 1 .. Chunks
                      /\ k # 1 => runs[k].start # 0
    OBVIOUS
  <2>1. runs[k].start \in 0 .. Chunks - 1 /\ runs[k].len \in 1 .. Chunks
    BY <1>3, DiskAssumption
  <2>2. ASSUME k # 1 PROVE runs[k].start # 0
    <3>1. 1 < k
      BY <1>2, <2>2
    <3>2. runs[1].start < runs[k].start /\ runs[1].start \in Nat
      BY <1>3, <1>4, <3>1
    <3> QED BY <3>2
  <2> QED BY <2>1, <2>2
<1>6. GoodRuns(runs)
  BY <1>1, <1>5 DEF GoodRuns
<1> QED BY <1>3, <1>6 DEF runs

\* A table with one list changed.
WithSlice(t, i, ps) == [t EXCEPT !.slice[i] = ps]

\* u is t but for the list of slice i
Replaced(t, i, u) ==
  /\ TocOK(u) /\ \A j \in Slices(t) \ {i} : u.slice[j] = t.slice[j]
  /\ u.got = t.got /\ u.toxic = t.toxic /\ u.ok /\ Slices(u) = Slices(t)

LEMMA SliceChanged ==
  ASSUME NEW t, TocOK(t), NEW i \in Slices(t), NEW ps, PartsOK(i, ps),
         NEW u, u = WithSlice(t, i, ps)
  PROVE  u.slice[i] = ps /\ Replaced(t, i, u)
<1>1. DOMAIN t = {"ok", "got", "toxic", "slice"} /\ DOMAIN t.slice = 0 .. 1 /\ i \in {0, 1}
      /\ t.ok = TRUE /\ t.got \in BOOLEAN
  BY SlicesAre DEF TocOK
<1>2. u = [t EXCEPT !.slice = [t.slice EXCEPT ![i] = ps]]
  BY DEF WithSlice
<1>3. PICK s : s = [t.slice EXCEPT ![i] = ps]
  OBVIOUS
<1>4. DOMAIN s = 0 .. 1 /\ s[i] = ps /\ \A j \in {0, 1} \ {i} : s[j] = t.slice[j]
  BY <1>1, <1>3
<1>5. u = [t EXCEPT !.slice = s]
  BY <1>2, <1>3
<1>6. /\ DOMAIN u = {"ok", "got", "toxic", "slice"} /\ u.slice = s /\ u.ok = t.ok
      /\ u.got = t.got /\ u.toxic = t.toxic
  BY <1>1, <1>5
<1>7. Slices(u) = Slices(t)
  BY <1>6 DEF Slices
<1>8. \A j \in Slices(t) : PartsOK(j, u.slice[j])
  BY <1>4, <1>6, SlicesAre DEF TocOK
<1>9. \A j \in Slices(t) \ {i} : u.slice[j] = t.slice[j]
  BY <1>4, <1>6, SlicesAre
<1>10. TocOK(u)
  BY <1>1, <1>4, <1>6, <1>7, <1>8 DEF TocOK
<1> QED BY <1>1, <1>4, <1>6, <1>7, <1>9, <1>10 DEF Replaced

LEMMA GrownOK ==
  ASSUME NEW t, TocOK(t), NEW i \in Slices(t), NEW runs, GoodRuns(runs), NEW id \in Ids,
         \A m \in 1 .. Len(runs) : /\ Base(i) + runs[m].start \in 0 .. Chunks - 1
                                   /\ i = 0 => runs[m].start # 0,
         NEW u, u = [t EXCEPT !.slice[i] = WithNew(@, id, runs)]
  PROVE  /\ Grown(t.slice[i], id, runs, u.slice[i]) /\ Replaced(t, i, u)
         /\ Base(i) + runs[1].start \in TocChunks(u)
<1>1. PICK new : new = WithNew(t.slice[i], id, runs)
  OBVIOUS
<1>2. PICK ps : ps = t.slice[i]
  OBVIOUS
<1>3. ps \in Seq(PartType) /\ \A k \in 1 .. Len(ps) : PartOK(i, ps[k])
  BY <1>2 DEF TocOK, PartsOK
<1>4. Grown(ps, id, runs, new)
  BY <1>1, <1>2, <1>3, WithNewFacts
<1>5. ASSUME NEW k \in 1 .. Len(new) PROVE PartOK(i, new[k])
  <2>1. new[k] \in PartType
    BY <1>4, SequenceIs DEF Grown
  <2>2. \/ \E j \in 1 .. Len(ps) : Relinked(new[k].h, ps[j].h)
        \/ \E m \in 1 .. Len(runs) : Relinked(new[k].h, NewHeader(id, runs, m))
    BY <1>4 DEF Grown
  <2>3. CASE \E j \in 1 .. Len(ps) : Relinked(new[k].h, ps[j].h)
    BY <1>3, <2>1, <2>3 DEF PartOK, Relinked
  <2>4. CASE \E m \in 1 .. Len(runs) : Relinked(new[k].h, NewHeader(id, runs, m))
    <3>1. PICK m \in 1 .. Len(runs) : new[k].h.start = runs[m].start
      BY <2>4 DEF Relinked, NewHeader
    <3> QED BY <2>1, <3>1 DEF PartOK
  <2> QED BY <2>2, <2>3, <2>4
<1>6. PartsOK(i, new)
  BY <1>4, <1>5 DEF PartsOK, Grown
<1>7. u = WithSlice(t, i, new)
  BY <1>1 DEF WithSlice
<1>8. u.slice[i] = new /\ Replaced(t, i, u)
  BY <1>6, <1>7, SliceChanged
<1>9. Base(i) + runs[1].start \in TocChunks(u)
  <2>1. Len(runs) \in Nat /\ Len(runs) # 0
    BY SequenceIs DEF GoodRuns
  <2>2. 1 \in 1 .. Len(runs)
    BY <2>1
  <2>3. PICK k \in 1 .. Len(new) : new[k].h.start = runs[1].start
    BY <1>4, <2>2 DEF Grown
  <2>4. k \in DOMAIN u.slice[i]
    BY <1>4, <1>8, SequenceIs DEF Grown
  <2>5. Base(i) + runs[1].start \in {Base(i) + u.slice[i][x].h.start : x \in DOMAIN u.slice[i]}
    BY <1>8, <2>3, <2>4
  <2> QED BY <1>8, <2>5 DEF TocChunks, Replaced
<1> QED BY <1>2, <1>4, <1>8, <1>9

-----------------------------------------------------------------------------
(* The games a command finds in the table, and what it renames there.      *)

LEMMA GameAt ==
  ASSUME NEW t, TocOK(t), NEW at \in GamesIn(t)
  PROVE  /\ at[1] \in Slices(t) /\ at[2] \in 1 .. Len(t.slice[at[1]]) /\ at = <<at[1], at[2]>>
         /\ t.slice[at[1]] \in Seq(PartType) /\ t.slice[at[1]][at[2]] \in PartType
         /\ t.slice[at[1]][at[2]].h \in HeaderType
         /\ t.slice[at[1]][at[2]].h.id \in Ids /\ t.slice[at[1]][at[2]].h.main = 0
         /\ ChunkOf(t, at) \in TocChunks(t) /\ ChunkOf(t, at) \in 1 .. Chunks - 1
<1> DEFINE Game(i) == {k \in DOMAIN t.slice[i] : t.slice[i][k].h.main = 0
                                                 /\ t.slice[i][k].h.id \in Ids}
<1>1. PICK i \in Slices(t) : at \in {<<i, k>> : k \in Game(i)}
  BY DEF GamesIn
<1>2. PICK k \in Game(i) : at = <<i, k>>
  BY <1>1
<1>3. at[1] = i /\ at[2] = k
  BY <1>2
<1>4. t.slice[i] \in Seq(PartType) /\ k \in DOMAIN t.slice[i] /\ DOMAIN t.slice[i] = 1 .. Len(t.slice[i])
  BY SequenceIs DEF TocOK, PartsOK
<1>5. t.slice[i][k].h.main = 0 /\ t.slice[i][k].h.id \in Ids
  OBVIOUS
<1>6. PartOK(i, t.slice[i][k])
  BY <1>4 DEF TocOK, PartsOK
<1>7. t.slice[i][k] \in PartType /\ t.slice[i][k].h \in HeaderType
  BY <1>6 DEF PartOK, PartType
<1>8. ChunkOf(t, at) = Base(i) + t.slice[i][k].h.start
  BY <1>3 DEF ChunkOf
<1>9. ChunkOf(t, at) \in TocChunks(t)
  BY <1>4, <1>8 DEF TocChunks
<1>10. ChunkOf(t, at) # 0
  <2> SUFFICES ASSUME ChunkOf(t, at) = 0 PROVE FALSE
    OBVIOUS
  <2>1. t.slice[i][k].h.start \in Nat
    BY <1>7, HeaderNumbers
  <2>2. i \in {0, 1}
    BY SlicesAre
  <2>3. i = 0 /\ t.slice[i][k].h.start = 0
    BY <1>8, <2>1, <2>2, BaseIs
  <2> QED BY <1>5, <1>6, <2>3, IdsOther DEF PartOK
<1>11. ChunkOf(t, at) \in 1 .. Chunks - 1
  BY <1>8, <1>6, <1>10, DiskAssumption DEF PartOK
<1> HIDE DEF Game
<1> QED BY <1>2, <1>3, <1>4, <1>5, <1>7, <1>9, <1>11

\* a partition of the table with a new name
Renamed(p, id) == [h |-> [p.h EXCEPT !.id = id], modified |-> TRUE]
RenamedIn(t, at, id) == [t EXCEPT !.slice[at[1]][at[2]] = Renamed(t.slice[at[1]][at[2]], id)]

LEMMA RenamedFacts ==
  ASSUME NEW p \in PartType, NEW id \in Ids
  PROVE  /\ Renamed(p, id) \in PartType /\ Renamed(p, id).modified
         /\ Renamed(p, id).h = [p.h EXCEPT !.id = id] /\ Renamed(p, id).h.id = id
         /\ Renamed(p, id).h.start = p.h.start /\ Renamed(p, id).h.main = p.h.main
         /\ Renamed(p, id).h.len = p.h.len /\ Renamed(p, id).h.subs = p.h.subs
         /\ Renamed(p, id).h.next = p.h.next /\ Renamed(p, id).h.prev = p.h.prev
<1>1. p.h \in HeaderType
  BY DEF PartType
<1>2. PICK h : h = [p.h EXCEPT !.id = id]
  OBVIOUS
<1>3. /\ h \in HeaderType /\ h.id = id /\ h.start = p.h.start /\ h.main = p.h.main
      /\ h.len = p.h.len /\ h.subs = p.h.subs /\ h.next = p.h.next /\ h.prev = p.h.prev
  BY <1>1, <1>2 DEF HeaderType
<1>4. Renamed(p, id) = [h |-> h, modified |-> TRUE]
  BY <1>2 DEF Renamed
<1>5. Renamed(p, id).h = h
  BY <1>4
<1>6. Renamed(p, id).modified = TRUE
  BY <1>4
<1>7. Renamed(p, id) \in PartType
  BY <1>3, <1>4 DEF PartType
<1> QED BY <1>2, <1>3, <1>5, <1>6, <1>7

LEMMA RenamedOK ==
  ASSUME NEW t, TocOK(t), NEW at \in GamesIn(t), NEW id \in Ids, NEW u, u = RenamedIn(t, at, id)
  PROVE  /\ Replaced(t, at[1], u)
         /\ Len(u.slice[at[1]]) = Len(t.slice[at[1]])
         /\ u.slice[at[1]][at[2]] = Renamed(t.slice[at[1]][at[2]], id)
         /\ \A k \in 1 .. Len(t.slice[at[1]]) :
              k # at[2] => u.slice[at[1]][k] = t.slice[at[1]][k]
<1>1. PICK i, k, ps : i = at[1] /\ k = at[2] /\ ps = t.slice[i]
  OBVIOUS
<1>2. /\ i \in Slices(t) /\ k \in 1 .. Len(ps) /\ ps \in Seq(PartType) /\ ps[k] \in PartType
      /\ ps[k].h.id \in Ids /\ Base(i) + ps[k].h.start \in 1 .. Chunks - 1
  BY <1>1, GameAt DEF ChunkOf
<1>3. PICK p : p = Renamed(ps[k], id)
  OBVIOUS
<1>4. p \in PartType /\ p.h.start = ps[k].h.start
  BY <1>2, <1>3, RenamedFacts
<1>5. PICK new : new = [ps EXCEPT ![k] = p]
  OBVIOUS
<1>6. /\ new \in Seq(PartType) /\ Len(new) = Len(ps) /\ new[k] = p
      /\ \A m \in 1 .. Len(ps) : m # k => new[m] = ps[m]
  BY <1>2, <1>4, <1>5
<1>7. \A m \in 1 .. Len(ps) : PartOK(i, ps[m])
  BY <1>1, <1>2 DEF TocOK, PartsOK
<1>8. PartOK(i, p)
  <2>1. ~(i = 0 /\ p.h.start = 0)
    BY <1>2, <1>4, BaseIs
  <2>2. Base(i) + p.h.start \in 0 .. Chunks - 1
    BY <1>2, <1>4, <1>7 DEF PartOK
  <2> QED BY <1>4, <2>1, <2>2 DEF PartOK
<1>9. PartsOK(i, new)
  <2>1. \A m \in 1 .. Len(new) : PartOK(i, new[m])
    BY <1>6, <1>7, <1>8
  <2> QED BY <1>6, <2>1 DEF PartsOK
<1>10. u = WithSlice(t, i, new)
  BY <1>1, <1>3, <1>5 DEF RenamedIn, WithSlice
<1>11. u.slice[i] = new /\ Replaced(t, i, u)
  BY <1>2, <1>9, <1>10, SliceChanged
<1> QED BY <1>1, <1>3, <1>6, <1>11

\* What a command that changes a title has in memory when it begins.
LEMMA ModifyStarts ==
  ASSUME NEW t, TocOK(t), NEW at \in GamesIn(t), NEW newName \in Names \cup {Keep},
         NEW hide \in Prefixes \cup {Keep}, Modify(t, at, newName, hide), ~Refuse
  PROVE  LET c == ChunkOf(t, at)
             h == t.slice[at[1]][at[2]].h
         IN /\ phase' = "title" /\ disk' = disk /\ result' = "none" /\ todo' = {c}
            /\ \E title :
                 /\ job' = [op |-> "modify", at |-> c, title |-> title, oldId |-> h.id,
                            oldTitle |-> TitleOf(disk[c].tab)]
                 /\ disk[c].tab = Junk => title = TitleOf(disk[c].tab)
                 /\ title = TitleOf(disk[c].tab) \/ title \in Names
            /\ \/ toc' = t
               \/ \E id \in Ids : Find(t, id) = {} /\ toc' = RenamedIn(t, at, id)
<1> DEFINE h      == t.slice[at[1]][at[2]].h
           c      == ChunkOf(t, at)
           prefix == IF hide = Keep THEN h.id[1] ELSE hide
           id     == Id(prefix, IF newName = Keep THEN h.id[2] ELSE newName)
           title  == IF newName = Keep \/ disk[c].tab = Junk THEN TitleOf(disk[c].tab) ELSE newName
           renames == (prefix # h.id[1] \/ newName # Keep) /\ ~t.toxic
           j   == [op |-> "modify", at |-> c, title |-> title,
                   oldId |-> h.id, oldTitle |-> TitleOf(disk[c].tab)]
<1>1. id \in Ids
  <2>1. h.id \in Prefixes \X Names
    BY GameAt DEF Ids
  <2>2. h.id[1] \in Prefixes /\ h.id[2] \in Names
    BY <2>1
  <2>3. prefix \in Prefixes
    BY <2>2
  <2>4. (IF newName = Keep THEN h.id[2] ELSE newName) \in Names
    BY <2>2
  <2> HIDE DEF prefix, h
  <2> QED BY <2>3, <2>4 DEF Id, Ids
<1>2. IF ~renames THEN Begin(t, j, "title", {c})
      ELSE IF Find(t, id) # {} THEN Refuse
      ELSE Begin(RenamedIn(t, at, id), j, "title", {c})
  BY DEF Modify, RenamedIn, Renamed, ChunkOf
<1>3. disk[c].tab = Junk => title = TitleOf(disk[c].tab)
  OBVIOUS
<1>4. title = TitleOf(disk[c].tab) \/ title \in Names
  OBVIOUS
<1> HIDE DEF id, renames, title
<1>5. \/ Begin(t, j, "title", {c})
      \/ Find(t, id) = {} /\ Begin(RenamedIn(t, at, id), j, "title", {c})
  <2> HIDE DEF j, c
  <2> QED BY <1>2
<1>6. \A u : Begin(u, j, "title", {c}) =>
        /\ phase' = "title" /\ disk' = disk /\ result' = "none" /\ todo' = {c}
        /\ toc' = u /\ job' = j
  BY DEF Begin
<1>7. /\ phase' = "title" /\ disk' = disk /\ result' = "none" /\ todo' = {c} /\ job' = j
      /\ toc' = t \/ (Find(t, id) = {} /\ toc' = RenamedIn(t, at, id))
  <2> HIDE DEF j, c
  <2> QED BY <1>5, <1>6
<1> QED BY <1>1, <1>3, <1>4, <1>7

-----------------------------------------------------------------------------
(* Every step leaves a disk and a table that are what they look like.      *)

JobOK ==
  /\ job.op \in {"install", "modify", "header"} /\ TocOK(toc)
  /\ phase = "copy" => /\ Planned(job) /\ todo \subseteq PlanChunks(job) \ {0}
                       /\ MainChunk(job) \in TocChunks(toc)
  /\ phase \in {"title", "attributes"} => job.at \in 1 .. Chunks - 1 /\ todo = {job.at}
  /\ phase = "title" /\ disk[job.at].tab # Junk => job.title \in Names
  /\ phase = "commit" => todo # {} /\ todo \subseteq ModifiedAt(toc)

TypeInv ==
  /\ DiskOK(disk)
  /\ phase \in {"idle", "copy", "title", "attributes", "commit"}
  /\ result \in {"none", "ok", "err"}
  /\ phase = "idle" => toc = NoToc /\ job = NoJob /\ todo = {}
  /\ phase # "idle" => JobOK

\* One chunk of the disk is written to.
LEMMA DiskWritten ==
  ASSUME NEW d, DiskOK(d), NEW c, NEW v, c \in DOMAIN d => ChunkOK(c, v)
  PROVE  DiskOK([d EXCEPT ![c] = v])
BY DEF DiskOK

LEMMA HeaderWritten ==
  ASSUME NEW d, DiskOK(d), NEW c, NEW h \in HeaderType, c = 0 => h.id = MbrId
  PROVE  DiskOK([d EXCEPT ![c].hdr = h])
<1>1. [d EXCEPT ![c].hdr = h] = [d EXCEPT ![c] = [d[c] EXCEPT !.hdr = h]]
  OBVIOUS
<1>2. ASSUME c \in DOMAIN d PROVE ChunkOK(c, [d[c] EXCEPT !.hdr = h])
  <2>1. ChunkOK(c, d[c])
    BY <1>2 DEF DiskOK
  <2>2. PICK v : v = [d[c] EXCEPT !.hdr = h]
    OBVIOUS
  <2>3. DOMAIN v = {"hdr", "tab", "data"} /\ v.hdr = h /\ v.tab = d[c].tab /\ v.data = d[c].data
    BY <2>1, <2>2 DEF ChunkOK
  <2>4. h # Junk
    BY NotJunk
  <2> QED BY <2>1, <2>2, <2>3, <2>4 DEF ChunkOK
<1> QED BY <1>1, <1>2, DiskWritten

LEMMA TableWritten ==
  ASSUME NEW d, DiskOK(d), NEW c, NEW tab, TabOK(tab)
  PROVE  DiskOK([d EXCEPT ![c].tab = tab])
<1>1. [d EXCEPT ![c].tab = tab] = [d EXCEPT ![c] = [d[c] EXCEPT !.tab = tab]]
  OBVIOUS
<1>2. ASSUME c \in DOMAIN d PROVE ChunkOK(c, [d[c] EXCEPT !.tab = tab])
  <2>1. ChunkOK(c, d[c])
    BY <1>2 DEF DiskOK
  <2>2. PICK v : v = [d[c] EXCEPT !.tab = tab]
    OBVIOUS
  <2>3. DOMAIN v = {"hdr", "tab", "data"} /\ v.hdr = d[c].hdr /\ v.tab = tab /\ v.data = d[c].data
    BY <2>1, <2>2 DEF ChunkOK
  <2> QED BY <2>1, <2>2, <2>3 DEF ChunkOK
<1> QED BY <1>1, <1>2, DiskWritten

LEMMA EndTyped ==
  ASSUME DiskOK(disk'), NEW r \in {"ok", "err"}, End(r) PROVE TypeInv'
BY DEF End, TypeInv

\* The table is committed, or it is not.
LEMMA CommitTyped ==
  ASSUME DiskOK(disk'), GoCommit, phase # "idle", TypeInv PROVE TypeInv'
<1>1. CASE \E r \in {"ok", "err"} : End(r)
  BY <1>1, EndTyped
<1>2. CASE ~\E r \in {"ok", "err"} : End(r)
  <2>1. /\ ModifiedAt(toc) # {} /\ phase' = "commit" /\ todo' = ModifiedAt(toc)
        /\ UNCHANGED <<toc, job, result>>
    BY <1>2 DEF GoCommit
  <2>2. JobOK /\ result \in {"none", "ok", "err"}
    BY DEF TypeInv
  <2>3. ModifiedAt(toc)' = ModifiedAt(toc)
    BY <2>1 DEF ModifiedAt
  <2>4. JobOK'
    BY <2>1, <2>2, <2>3 DEF JobOK
  <2> QED BY <2>1, <2>2, <2>4 DEF TypeInv
<1> QED BY <1>1, <1>2

LEMMA InstallTyped ==
  ASSUME TypeInv, NEW t, t = TocRead(disk), t.ok, NEW prefix \in Prefixes, NEW name \in Names,
         NEW hint \in {-1, 0, 1}, Install(t, Id(prefix, name), name, hint), ~Refuse
  PROVE  TypeInv'
<1> DEFINE id == Id(prefix, name)
<1>1. PICK i \in Slices(t) : \E runs :
        /\ runs = Allocate(SliceChunks(t.got, i), Headers(t.slice[i]), Size[name])
        /\ runs # <<>> /\ SliceChunks(t.got, i) \in Nat
        /\ Base(i) + SliceChunks(t.got, i) <= Chunks
        /\ Started(t, i, name, id, runs)
  BY InstallStarts
<1> HIDE DEF id
<1>20. PICK runs :
        /\ runs = Allocate(SliceChunks(t.got, i), Headers(t.slice[i]), Size[name])
        /\ runs # <<>> /\ SliceChunks(t.got, i) \in Nat
        /\ Base(i) + SliceChunks(t.got, i) <= Chunks
        /\ Started(t, i, name, id, runs)
  BY <1>1
<1>21. PICK n \in Nat : n = SliceChunks(t.got, i)
  BY <1>20
<1>22. PICK mb \in Nat : mb = Size[name]
  BY CommandsAssumption
<1>23. PICK hs : hs = Headers(t.slice[i])
  OBVIOUS
<1>2. /\ n = SliceChunks(t.got, i) /\ hs = Headers(t.slice[i]) /\ mb = Size[name]
      /\ runs = Allocate(n, hs, mb) /\ runs # <<>>
      /\ Base(i) + n <= Chunks
      /\ Started(t, i, name, id, runs)
  BY <1>20, <1>21, <1>22, <1>23
<1>3. id \in Ids
  BY DEF Id, Ids, id
<1>4. DiskOK(disk) /\ TocOK(t) /\ i \in {0, 1} /\ \E k \in 1 .. Len(t.slice[0]) : t.slice[0][k].h.start = 0
  BY TocReadOK, SlicesAre DEF TypeInv
<1>5. n <= Chunks
  BY <1>2, <1>4, BaseIs, DiskAssumption
<1>6. /\ GoodRuns(runs)
      /\ \A k \in 1 .. Len(runs) : runs[k].start \in 0 .. n - 1 /\ runs[k].start \in Available(n, hs)
  BY <1>2, <1>5, RunsGood
<1>7. i = 0 => 0 \notin Available(n, hs) /\ 0 \notin Unused(t, 0)
  <2> SUFFICES ASSUME i = 0 PROVE 0 \notin Available(n, hs) /\ 0 \notin Unused(t, 0)
    OBVIOUS
  <2>1. PICK k \in 1 .. Len(t.slice[0]) : t.slice[0][k].h.start = 0
    BY <1>4
  <2>2. t.slice[0] \in Seq(PartType) /\ DOMAIN t.slice[0] = 1 .. Len(t.slice[0])
    BY <1>4, SlicesAre, SequenceIs DEF TocOK, PartsOK
  <2>3. t.slice[0][k] \in PartType
    BY <2>2, SequenceIs
  <2>4. t.slice[0][k].h.len \in Nat \ {0}
    <3>1. t.slice[0][k].h \in HeaderType
      BY <2>3 DEF PartType
    <3> QED BY <3>1, HeaderNumbers, DiskAssumption
  <2>5. 0 \in Span(t.slice[0][k].h)
    BY <2>1, <2>4 DEF Span
  <2>6. k \in DOMAIN hs /\ hs[k] = t.slice[0][k].h
    BY <1>2, <2>2 DEF Headers
  <2>7. 0 \notin Available(n, hs)
    BY <2>5, <2>6 DEF Available
  <2>8. \A c \in 0 .. SliceChunks(t.got, 0) - 1 : Base(0) + c = 0 => c = 0
    BY BaseIs
  <2>9. 0 \notin Unused(t, 0)
    BY <2>2, <2>5, <2>8 DEF Unused
  <2> QED BY <2>7, <2>9
<1>8. \A m \in 1 .. Len(runs) : /\ Base(i) + runs[m].start \in 0 .. Chunks - 1
                                /\ i = 0 => runs[m].start # 0
  <2> SUFFICES ASSUME NEW m \in 1 .. Len(runs)
               PROVE  /\ Base(i) + runs[m].start \in 0 .. Chunks - 1
                      /\ i = 0 => runs[m].start # 0
    OBVIOUS
  <2>1. runs[m].start \in 0 .. n - 1 /\ runs[m].start \in Available(n, hs)
    BY <1>6
  <2>2. PICK b \in Nat : b = Base(i)
    BY <1>4, BaseIs
  <2>4. PICK x \in 0 .. n - 1 : x = runs[m].start
    BY <2>1
  <2>5. b + n <= Chunks
    BY <1>2, <2>2
  <2>6. b + x \in 0 .. Chunks - 1
    BY <2>5, DiskAssumption
  <2>3. Base(i) + runs[m].start \in 0 .. Chunks - 1
    BY <2>2, <2>4, <2>6
  <2> QED BY <1>7, <2>1, <2>3
<1>9. toc' = [t EXCEPT !.slice[i] = WithNew(@, id, runs)]
  BY <1>2 DEF Started
<1>10. TocOK(toc') /\ Base(i) + runs[1].start \in TocChunks(toc')
  BY <1>3, <1>4, <1>6, <1>8, <1>9, GrownOK DEF Replaced
<1>11. phase' = "copy" /\ job'.op = "install" /\ Planned(job') /\ todo' = PlanChunks(job')
  BY InstallPlanned DEF id
<1>12. todo' \subseteq Unused(t, job'.slice)
  BY InstallFree DEF id
<1>13. job'.slice = i /\ job'.header.start = runs[1].start
  BY <1>2 DEF Started, NewHeader
<1>14. 0 \notin todo'
  <2>1. CASE i = 0
    BY <1>7, <1>12, <1>13, <2>1
  <2>2. CASE i = 1
    <3>1. \A c \in 0 .. SliceChunks(t.got, 1) - 1 : Base(1) + c # 0
      BY BaseIs
    <3>2. 0 \notin Unused(t, 1)
      BY <3>1 DEF Unused
    <3> QED BY <1>12, <1>13, <2>2, <3>2
  <2> QED BY <1>4, <2>1, <2>2
<1>15. MainChunk(job)' = Base(i) + runs[1].start
  BY <1>13 DEF MainChunk
<1>16. JobOK'
  BY <1>10, <1>11, <1>14, <1>15 DEF JobOK, Planned, PlanChunks, Plan, Runs, TocChunks
<1>17. disk' = disk /\ result' = "none"
  BY <1>2 DEF Started
<1> QED BY <1>4, <1>11, <1>16, <1>17 DEF TypeInv

LEMMA CopyChunkTyped == ASSUME TypeInv, CopyChunk PROVE TypeInv'
<1> DEFINE c == Lowest(todo)
           v == [hdr  |-> IF c \in Heads(job) THEN disk[c].hdr ELSE Junk,
                 tab  |-> IF c = MainChunk(job) THEN disk[c].tab ELSE Junk,
                 data |-> PlanData(job, c)]
<1>1. phase = "copy" /\ todo # {} /\ JobOK /\ DiskOK(disk)
  BY DEF CopyChunk, TypeInv
<1>2. Planned(job) /\ todo \subseteq PlanChunks(job) \ {0} /\ PlanChunks(job) \subseteq 0 .. Chunks - 1
  BY <1>1, PlannedChunks DEF JobOK
<1>3. c \in todo
  <2>1. todo \subseteq Nat
    BY <1>2
  <2>2. \E m \in todo : \A k \in todo : m <= k
    BY <1>1, <2>1, LeastOf
  <2> QED BY <2>2 DEF Lowest
<1>4. /\ disk' = [disk EXCEPT ![c] = v] /\ todo' = todo \ {c}
      /\ UNCHANGED <<phase, toc, job, result>>
  BY DEF CopyChunk
<1>5. c \in DOMAIN disk /\ c # 0
  BY <1>1, <1>2, <1>3 DEF DiskOK
<1>6. PlanData(job, c).image \in Names
  <2>1. PlanData(job, c).image = job.name
    BY DEF PlanData
  <2> QED BY <1>2, <2>1 DEF Planned
<1> HIDE DEF c
<1>7. ChunkOK(c, v)
  <2>1. ChunkOK(c, disk[c])
    BY <1>1, <1>5 DEF DiskOK
  <2>2. PICK h, t, a : /\ h = IF c \in Heads(job) THEN disk[c].hdr ELSE Junk
                       /\ t = IF c = MainChunk(job) THEN disk[c].tab ELSE Junk
                       /\ a = PlanData(job, c)
    OBVIOUS
  <2>3. v = [hdr |-> h, tab |-> t, data |-> a]
    BY <2>2
  <2>4. DOMAIN v = {"hdr", "tab", "data"} /\ v.hdr = h /\ v.tab = t /\ v.data = a
    BY <2>3
  <2>5. h \in HeaderType \cup {Junk} /\ TabOK(t)
    BY <2>1, <2>2 DEF ChunkOK, TabOK
  <2> HIDE DEF v
  <2> QED BY <1>5, <1>6, <2>2, <2>4, <2>5 DEF ChunkOK
<1> HIDE DEF v
<1>8. DiskOK(disk')
  BY <1>1, <1>4, <1>7, DiskWritten
<1>9. JobOK'
  BY <1>1, <1>2, <1>4 DEF JobOK, Planned, PlanChunks, Plan, Runs, MainChunk, TocChunks
<1> QED BY <1>1, <1>4, <1>8, <1>9 DEF TypeInv

LEMMA WriteMainTyped == ASSUME TypeInv, WriteMain PROVE TypeInv'
<1>1. phase = "copy" /\ JobOK /\ DiskOK(disk)
  BY DEF WriteMain, TypeInv
<1>2. CASE Refuse
  BY <1>1, <1>2, EndTyped DEF Refuse
<1>3. CASE ~Refuse
  <2>1. PICK c, h, tab : /\ c = MainChunk(job) /\ h = HeaderAt(toc, c)
                         /\ tab = [title |-> job.name,
                                   parts |-> AllocTable(Runs(job), job.slice, job.size)]
    OBVIOUS
  <2>2. GoCommit /\ disk' = [disk EXCEPT ![c].hdr = h, ![c].tab = tab]
    BY <1>3, <2>1 DEF WriteMain
  <2>3. h \in HeaderType /\ (c = 0 => h.id = MbrId)
    BY <1>1, <2>1, HeaderAtFacts DEF JobOK
  <2>4. TabOK(tab)
    <3>1. tab.title = job.name /\ "title" \in DOMAIN tab
      BY <2>1
    <3>2. job.name \in Names
      BY <1>1 DEF JobOK, Planned
    <3> QED BY <3>1, <3>2 DEF TabOK
  <2>5. PICK mid : mid = [disk EXCEPT ![c].hdr = h]
    OBVIOUS
  <2>6. DiskOK(mid)
    BY <1>1, <2>3, <2>5, HeaderWritten
  <2>7. disk' = [mid EXCEPT ![c].tab = tab]
    BY <2>2, <2>5
  <2>8. DiskOK(disk')
    BY <2>4, <2>6, <2>7, TableWritten
  <2> QED BY <1>1, <2>2, <2>8, CommitTyped
<1> QED BY <1>2, <1>3

LEMMA WriteTitleTyped == ASSUME TypeInv, WriteTitle PROVE TypeInv'
<1>1. /\ phase = "title" /\ JobOK /\ DiskOK(disk) /\ GoCommit
      /\ disk' = IF disk[job.at].tab = Junk THEN disk
                 ELSE [disk EXCEPT ![job.at].tab.title = job.title]
  BY DEF WriteTitle, TypeInv
<1>2. CASE disk[job.at].tab = Junk
  BY <1>1, <1>2, CommitTyped
<1>3. CASE disk[job.at].tab # Junk
  <2>1. PICK c, tab, title : /\ c = job.at /\ title = job.title
                             /\ tab = [disk[c].tab EXCEPT !.title = title]
    OBVIOUS
  <2>2. disk' = [disk EXCEPT ![c].tab = tab]
    BY <1>1, <1>3, <2>1
  <2>3. c \in DOMAIN disk /\ title \in Names
    BY <1>1, <1>3, <2>1, DiskAssumption DEF JobOK, DiskOK
  <2>4. "title" \in DOMAIN disk[c].tab
    BY <1>1, <1>3, <2>1, <2>3 DEF DiskOK, ChunkOK, TabOK
  <2>5. TabOK(tab)
    BY <2>1, <2>3, <2>4 DEF TabOK
  <2>7. DiskOK(disk)
    BY <1>1
  <2>8. DiskOK([disk EXCEPT ![c].tab = tab])
    BY <2>5, <2>7, TableWritten
  <2>6. DiskOK(disk')
    BY <2>2, <2>8
  <2> QED BY <1>1, <2>6, CommitTyped
<1> QED BY <1>2, <1>3

LEMMA CommitHeaderTyped == ASSUME TypeInv, CommitHeader PROVE TypeInv'
<1> DEFINE c == Lowest(todo)
           h == HeaderAt(toc, c)
<1>1. phase = "commit" /\ JobOK /\ DiskOK(disk) /\ todo # {} /\ todo \subseteq ModifiedAt(toc)
  BY DEF CommitHeader, TypeInv, JobOK
<1>2. ModifiedAt(toc) \subseteq TocChunks(toc) /\ TocChunks(toc) \subseteq 0 .. Chunks - 1
  BY <1>1, ModifiedFacts DEF JobOK
<1>3. c \in todo
  <2>1. todo \subseteq Nat
    BY <1>1, <1>2
  <2>2. \E m \in todo : \A k \in todo : m <= k
    BY <1>1, <2>1, LeastOf
  <2> QED BY <2>2 DEF Lowest
<1>4. /\ disk' = [disk EXCEPT ![c].hdr = h]
      /\ IF todo = {c} THEN End("ok")
         ELSE todo' = todo \ {c} /\ UNCHANGED <<toc, job, phase, result>>
  BY DEF CommitHeader
<1>5. h \in HeaderType /\ (c = 0 => h.id = MbrId)
  BY <1>1, <1>2, <1>3, HeaderAtFacts DEF JobOK
<1> HIDE DEF c, h
<1>6. DiskOK(disk')
  BY <1>1, <1>4, <1>5, HeaderWritten
<1>7. CASE todo = {c}
  BY <1>4, <1>6, <1>7, EndTyped
<1>8. CASE todo # {c}
  <2>1. todo' = todo \ {c} /\ UNCHANGED <<toc, job, phase, result>> /\ todo' # {}
    BY <1>3, <1>4, <1>8
  <2>2. ModifiedAt(toc)' = ModifiedAt(toc)
    BY <2>1 DEF ModifiedAt
  <2>3. JobOK'
    BY <1>1, <2>1, <2>2 DEF JobOK
  <2> QED BY <1>1, <1>6, <2>1, <2>3 DEF TypeInv
<1> QED BY <1>7, <1>8

LEMMA InjectMbrTyped == ASSUME TypeInv, InjectMbr PROVE TypeInv'
<1>1. DiskOK(disk) /\ End("ok")
  BY DEF TypeInv, InjectMbr
<1>2. PICK h : h = [System("plain") EXCEPT !.next = disk[0].hdr.next, !.prev = disk[0].hdr.prev]
  OBVIOUS
<1>3. disk' = [disk EXCEPT ![0].hdr = h]
  BY <1>2 DEF InjectMbr
<1>4. disk[0].hdr \in HeaderType
  BY <1>1, DiskAssumption DEF DiskOK, ChunkOK
<1>5. /\ disk[0].hdr.next \in 0 .. Chunks - 1 /\ disk[0].hdr.prev \in 0 .. Chunks - 1
      /\ 1 \in 1 .. Chunks /\ 0 \in 0 .. Chunks - 1 /\ <<>> \in Seq(RunType)
  BY <1>4, HeaderNumbers, DiskAssumption
<1>6. h = [id |-> MbrId, start |-> 0, len |-> 1, main |-> 0, subs |-> <<>>,
           next |-> disk[0].hdr.next, prev |-> disk[0].hdr.prev, dialect |-> "plain"]
  BY <1>2 DEF System
<1>7. h \in HeaderType /\ h.id = MbrId
  BY <1>5, <1>6 DEF HeaderType
<1>8. DiskOK(disk')
  BY <1>1, <1>3, <1>7, HeaderWritten
<1> QED BY <1>1, <1>8, EndTyped

\* The partitions of a game that is deleted on the console: the first of the
\* disk is not among them.
LEMMA HeadsOf ==
  ASSUME NEW i \in {0, 1}, NEW h \in HeaderType, Base(i) + h.start # 0,
         NEW k \in DOMAIN RunsOf(h)
  PROVE  Base(i) + RunsOf(h)[k].start # 0
<1>1. PICK subs, r : /\ subs \in Seq(RunType) /\ subs = h.subs
                     /\ r = [start |-> h.start, len |-> h.len]
  BY HeaderNumbers
<1>2. RunsOf(h) = <<r>> \o subs
  BY <1>1 DEF RunsOf
<1>3. Len(subs) \in Nat /\ \A m \in 1 .. Len(subs) : subs[m] \in RunType
  BY <1>1, SequenceIs
<1>4. k \in 1 .. Len(subs) + 1
  BY <1>2
<1>5. CASE k = 1
  <2>1. RunsOf(h)[k] = r
    BY <1>2, <1>5
  <2> QED BY <1>1, <2>1
<1>6. CASE k # 1
  <2>1. PICK m \in 1 .. Len(subs) : k = m + 1
    <3>1. k - 1 \in 1 .. Len(subs) /\ k = k - 1 + 1
      BY <1>3, <1>4, <1>6
    <3> QED BY <3>1
  <2>2. RunsOf(h)[k] = subs[m]
    BY <1>2, <1>3, <2>1
  <2>3. subs[m].start \in 1 .. Chunks - 1
    BY <1>3, <2>1 DEF RunType
  <2>4. PICK x \in Nat \ {0} : x = RunsOf(h)[k].start
    BY <2>2, <2>3
  <2>5. PICK b \in Nat : b = Base(i)
    BY BaseIs
  <2> QED BY <2>4, <2>5
<1> QED BY <1>5, <1>6

Deleted(d, heads) ==
  [c \in DOMAIN d |->
     IF c \in heads
     THEN [d[c] EXCEPT !.hdr.id = EmptyId, !.hdr.main = 0, !.hdr.subs = <<>>]
     ELSE d[c]]

\* a header made an empty one
AsEmpty(h) == [h EXCEPT !.id = EmptyId, !.main = 0, !.subs = <<>>]

LEMMA DeletedChunk ==
  ASSUME NEW d, DiskOK(d), NEW heads, NEW c \in DOMAIN d, c \in heads, NEW u, u = Deleted(d, heads)
  PROVE  /\ u[c] = [d[c] EXCEPT !.hdr = AsEmpty(d[c].hdr)]
         /\ u[c].hdr = AsEmpty(d[c].hdr)
<1>0. DOMAIN d[c] = {"hdr", "tab", "data"}
  BY DEF DiskOK, ChunkOK
<1>1. u[c] = [d[c] EXCEPT !.hdr.id = EmptyId, !.hdr.main = 0, !.hdr.subs = <<>>]
  BY DEF Deleted
<1>2. PICK v1 : v1 = [d[c] EXCEPT !.hdr = [d[c].hdr EXCEPT !.id = EmptyId]]
  OBVIOUS
<1>3. PICK v2 : v2 = [v1 EXCEPT !.hdr = [v1.hdr EXCEPT !.main = 0]]
  OBVIOUS
<1>4. u[c] = [v2 EXCEPT !.hdr = [v2.hdr EXCEPT !.subs = <<>>]]
  BY <1>1, <1>2, <1>3
<1>5. PICK g0, g1, g2, g3 : /\ g0 = d[c].hdr /\ g1 = [g0 EXCEPT !.id = EmptyId]
                            /\ g2 = [g1 EXCEPT !.main = 0] /\ g3 = [g2 EXCEPT !.subs = <<>>]
  OBVIOUS
<1>6. AsEmpty(d[c].hdr) = g3
  BY <1>5 DEF AsEmpty
<1>7. v1 = [d[c] EXCEPT !.hdr = g1] /\ v1.hdr = g1
  BY <1>0, <1>2, <1>5
<1>8. v2 = [d[c] EXCEPT !.hdr = g2] /\ v2.hdr = g2
  BY <1>0, <1>3, <1>5, <1>7
<1>9. u[c] = [d[c] EXCEPT !.hdr = g3]
  BY <1>0, <1>4, <1>5, <1>8
<1> QED BY <1>0, <1>6, <1>9

HeadsIn(i, h) == {Base(i) + RunsOf(h)[k].start : k \in DOMAIN RunsOf(h)}

LEMMA ConsoleDeletes ==
  ASSUME ConsoleDelete
  PROVE  \E t \in {TocRead(disk)} : t.ok /\ \E at \in GamesIn(t) :
           disk' = Deleted(disk, HeadsIn(at[1], t.slice[at[1]][at[2]].h))
BY Zenon DEF ConsoleDelete, Deleted, HeadsIn

LEMMA ConsoleDeleteTyped == ASSUME TypeInv, ConsoleDelete PROVE TypeInv'
<1>1. PICK t : t = TocRead(disk) /\ t.ok /\ \E at \in GamesIn(t) :
                 disk' = Deleted(disk, HeadsIn(at[1], t.slice[at[1]][at[2]].h))
  BY ConsoleDeletes
<1>9. PICK at \in GamesIn(t) : disk' = Deleted(disk, HeadsIn(at[1], t.slice[at[1]][at[2]].h))
  BY <1>1
<1>2. PICK i, h, heads :
        /\ i = at[1] /\ h = t.slice[at[1]][at[2]].h /\ heads = HeadsIn(i, h)
        /\ disk' = Deleted(disk, heads)
  BY <1>9
<1>3. DiskOK(disk) /\ TocOK(t) /\ phase = "idle"
  BY <1>1, TocReadOK DEF TypeInv, ConsoleDelete
<1>4. i \in {0, 1} /\ h \in HeaderType /\ Base(i) + h.start # 0
  <2>1. i \in Slices(t) /\ h \in HeaderType /\ Base(i) + h.start \in 1 .. Chunks - 1
    BY <1>2, <1>3, GameAt DEF ChunkOf
  <2> QED BY <2>1, SlicesAre
<1>5. 0 \notin heads
  BY <1>2, <1>4, HeadsOf DEF HeadsIn
<1>6. ASSUME NEW c \in DOMAIN disk PROVE ChunkOK(c, disk'[c])
  <2>1. ChunkOK(c, disk[c])
    BY <1>3 DEF DiskOK
  <2>2. CASE c \notin heads
    BY <1>2, <2>1, <2>2 DEF Deleted
  <2>3. CASE c \in heads
    <3>1. PICK v, g : /\ g = [disk[c].hdr EXCEPT !.id = EmptyId, !.main = 0, !.subs = <<>>]
                      /\ v = [disk[c] EXCEPT !.hdr = g]
      OBVIOUS
    <3>2. /\ DOMAIN disk[c] = {"hdr", "tab", "data"} /\ TabOK(disk[c].tab)
          /\ disk[c].data.image \in Names \cup {"none"}
          /\ disk[c].hdr \in HeaderType \cup {Junk}
      BY <2>1 DEF ChunkOK
    <3>3. DOMAIN v = {"hdr", "tab", "data"} /\ v.hdr = g /\ v.tab = disk[c].tab /\ v.data = disk[c].data
      BY <3>1, <3>2
    <3>4. disk'[c] = v
      <4>1. disk'[c] = [disk[c] EXCEPT !.hdr = AsEmpty(disk[c].hdr)]
        BY <1>2, <1>3, <2>3, DeletedChunk
      <4>2. AsEmpty(disk[c].hdr) = g
        BY <3>1 DEF AsEmpty
      <4> QED BY <3>1, <4>1, <4>2
    <3>5. g \in HeaderType \cup {Junk}
      <4>1. CASE disk[c].hdr \in HeaderType
        <5>1. <<>> \in Seq(RunType) /\ 0 \in 0 .. Chunks - 1
          BY DiskAssumption
        <5> QED BY <3>1, <4>1, <5>1 DEF HeaderType
      <4>2. CASE disk[c].hdr = Junk
        <5>1. [Junk EXCEPT !.id = EmptyId, !.main = 0, !.subs = <<>>] = Junk
          BY DEF Junk
        <5> QED BY <3>1, <4>2, <5>1
      <4> QED BY <3>2, <4>1, <4>2
    <3>6. c # 0
      BY <1>5, <2>3
    <3> QED BY <3>2, <3>3, <3>4, <3>5, <3>6 DEF ChunkOK
  <2> QED BY <2>2, <2>3
<1>7. DiskOK(disk')
  <2>1. DOMAIN disk' = DOMAIN disk
    BY <1>2 DEF Deleted
  <2> QED BY <1>3, <1>6, <2>1 DEF DiskOK
<1>8. UNCHANGED <<phase, toc, job, todo>> /\ result' = "none"
  BY DEF ConsoleDelete
<1> QED BY <1>3, <1>7, <1>8 DEF TypeInv

LEMMA StepTyped == TypeInv /\ [Next]_vars => TypeInv'
<1> SUFFICES ASSUME TypeInv, [Next]_vars PROVE TypeInv'
  OBVIOUS
<1>0. DiskOK(disk)
  BY DEF TypeInv
<1>1. ASSUME Refuse PROVE TypeInv'
  BY <1>0, <1>1, EndTyped DEF Refuse
<1>2. CASE UNCHANGED vars
  BY <1>2 DEF vars, TypeInv, JobOK, Planned, PlanChunks, Plan, Runs, MainChunk, TocChunks, ModifiedAt
<1>3. CASE InstallGame
  <2>1. PICK t : t = TocRead(disk) /\
          IF ~t.ok THEN Refuse
          ELSE \E name \in Names, prefix \in Prefixes, hint \in {-1, 0, 1} :
                 Install(t, Id(prefix, name), name, hint)
    BY <1>3 DEF InstallGame
  <2>2. CASE ~Refuse
    <3>1. PICK name \in Names, prefix \in Prefixes, hint \in {-1, 0, 1} :
            Install(t, Id(prefix, name), name, hint) /\ t.ok
      BY <2>1, <2>2
    <3> QED BY <2>1, <2>2, <3>1, InstallTyped
  <2> QED BY <1>1, <2>2
<1>4. CASE ModifyGame
  <2>1. PICK t : t = TocRead(disk) /\
          IF ~t.ok THEN Refuse
          ELSE \E at \in GamesIn(t), newName \in Names \cup {Keep},
                  hide \in Prefixes \cup {Keep} : Modify(t, at, newName, hide)
    BY <1>4 DEF ModifyGame
  <2>2. CASE ~Refuse
    <3>1. PICK at \in GamesIn(t), newName \in Names \cup {Keep}, hide \in Prefixes \cup {Keep} :
            Modify(t, at, newName, hide) /\ t.ok
      BY <2>1, <2>2
    <3>2. TocOK(t)
      BY <1>0, <2>1, <3>1, TocReadOK
    <3>3. PICK c : c = ChunkOf(t, at)
      OBVIOUS
    <3>4. c \in 1 .. Chunks - 1
      BY <3>2, <3>3, GameAt
    <3>5. /\ phase' = "title" /\ disk' = disk /\ result' = "none" /\ todo' = {c}
          /\ toc' = t \/ \E id \in Ids : toc' = RenamedIn(t, at, id)
      BY <2>2, <3>1, <3>2, <3>3, ModifyStarts
    <3>6. PICK title, oldId, old :
            /\ job' = [op |-> "modify", at |-> c, title |-> title, oldId |-> oldId,
                       oldTitle |-> old]
            /\ title = TitleOf(disk[c].tab) \/ title \in Names
      BY <2>2, <3>1, <3>2, <3>3, ModifyStarts
    <3>7. TocOK(toc')
      BY <3>1, <3>2, <3>5, RenamedOK DEF Replaced
    <3>8. job'.op = "modify" /\ job'.at = c /\ job'.title = title
      BY <3>6
    <3>9. disk[c].tab # Junk => title \in Names
      <4>1. c \in DOMAIN disk
        BY <1>0, <3>4, DiskAssumption DEF DiskOK
      <4>2. TabOK(disk[c].tab)
        BY <1>0, <4>1 DEF DiskOK, ChunkOK
      <4> QED BY <3>6, <4>2 DEF TabOK, TitleOf
    <3>10. JobOK'
      BY <3>4, <3>5, <3>7, <3>8, <3>9 DEF JobOK
    <3> QED BY <1>0, <3>5, <3>10 DEF TypeInv
  <2> QED BY <1>1, <2>2
<1>5. CASE ModifyHeader
  <2>1. PICK t : t = TocRead(disk) /\
          IF ~t.ok THEN Refuse
          ELSE \E at \in GamesIn(t) :
               LET c == Base(at[1]) + t.slice[at[1]][at[2]].h.start
               IN Begin(t, [op |-> "header", at |-> c], "attributes", {c})
    BY <1>5 DEF ModifyHeader
  <2>2. CASE ~Refuse
    <3>6. PICK at \in GamesIn(t) :
            /\ t.ok
            /\ Begin(t, [op |-> "header", at |-> ChunkOf(t, at)], "attributes", {ChunkOf(t, at)})
      BY <2>1, <2>2 DEF ChunkOf
    <3>1. PICK c : /\ t.ok /\ c = ChunkOf(t, at)
                   /\ Begin(t, [op |-> "header", at |-> c], "attributes", {c})
      BY <3>6
    <3>2. TocOK(t)
      BY <1>0, <2>1, <3>1, TocReadOK
    <3>3. c \in 1 .. Chunks - 1
      BY <3>1, <3>2, GameAt
    <3>4. /\ phase' = "attributes" /\ disk' = disk /\ result' = "none" /\ todo' = {c} /\ toc' = t
          /\ job'.op = "header" /\ job'.at = c
      BY <3>1 DEF Begin
    <3>5. JobOK'
      BY <3>2, <3>3, <3>4 DEF JobOK
    <3> QED BY <1>0, <3>4, <3>5 DEF TypeInv
  <2> QED BY <1>1, <2>2
<1>6. CASE WriteAttributes
  BY <1>0, <1>6, CommitTyped DEF WriteAttributes
<1>7. CASE WriteGarbage
  <2>1. /\ phase = "attributes" /\ GoCommit /\ JobOK
        /\ disk' = [disk EXCEPT ![job.at] = [hdr |-> Junk, tab |-> Junk, data |-> NoData]]
    BY <1>7 DEF WriteGarbage, TypeInv
  <2>2. job.at # 0
    BY <2>1 DEF JobOK
  <2>3. ChunkOK(job.at, [hdr |-> Junk, tab |-> Junk, data |-> NoData])
    <3>1. PICK v : v = [hdr |-> Junk, tab |-> Junk, data |-> NoData]
      OBVIOUS
    <3>2. DOMAIN v = {"hdr", "tab", "data"} /\ v.hdr = Junk /\ v.tab = Junk /\ v.data = NoData
      BY <3>1
    <3>3. NoData.image = "none"
      BY DEF NoData
    <3> QED BY <2>2, <3>1, <3>2, <3>3 DEF ChunkOK, TabOK
  <2>4. DiskOK(disk')
    BY <1>0, <2>1, <2>3, DiskWritten
  <2> QED BY <2>1, <2>4, CommitTyped
<1>8. CASE Stop
  BY <1>1, <1>8 DEF Stop
<1> QED BY <1>2, <1>3, <1>4, <1>5, <1>6, <1>7, <1>8, CopyChunkTyped, WriteMainTyped,
           WriteTitleTyped, CommitHeaderTyped, InjectMbrTyped, ConsoleDeleteTyped DEF Next

LEMMA InitTyped == Init => TypeInv
<1> SUFFICES ASSUME Init PROVE TypeInv
  OBVIOUS
<1>1. PICK dialect \in Formats : disk = Formatted(dialect)
  BY DEF Init
<1>2. ASSUME NEW d \in {"plain", "toxic", "2slice"}
      PROVE  System(d) \in HeaderType /\ System(d).id = MbrId /\ System(d) # Junk
  <2>1. 1 \in 1 .. Chunks /\ 0 \in 0 .. Chunks - 1 /\ <<>> \in Seq(RunType)
    BY DiskAssumption
  <2>2. System(d) \in HeaderType /\ System(d).id = MbrId
    BY <2>1 DEF System, HeaderType
  <2> QED BY <2>2, NotJunk
<1>3. ASSUME NEW c \in 0 .. Chunks - 1 PROVE ChunkOK(c, disk[c])
  <2>1. PICK h : h = IF c = 0 THEN System(dialect)
                     ELSE IF c = Slice2 /\ dialect = "2slice" THEN System("plain")
                     ELSE Junk
    OBVIOUS
  <2>2. disk[c] = [hdr |-> h, tab |-> Junk, data |-> NoData]
    BY <1>1, <2>1 DEF Formatted
  <2>3. /\ DOMAIN disk[c] = {"hdr", "tab", "data"} /\ disk[c].hdr = h /\ disk[c].tab = Junk
        /\ disk[c].data = NoData
    BY <2>2
  <2>4. dialect \in {"plain", "toxic", "2slice"}
    BY <1>1, CommandsAssumption
  <2>5. h \in HeaderType \cup {Junk} /\ (c = 0 => h # Junk /\ h.id = MbrId)
    BY <1>2, <2>1, <2>4
  <2>6. NoData.image = "none"
    BY DEF NoData
  <2> QED BY <2>3, <2>5, <2>6 DEF ChunkOK, TabOK
<1>4. DOMAIN disk = 0 .. Chunks - 1
  BY <1>1 DEF Formatted
<1> QED BY <1>3, <1>4 DEF Init, TypeInv, DiskOK

\* What is on the disk, and what a command has in memory, is of the right type
\* at every moment, whatever is installed, renamed, deleted or interrupted, and
\* whatever a failed read puts in the place of a game's header: each link can
\* be followed, and the first partition is always the system's, so that
\* inject_mbr finds the links it keeps.
THEOREM WellTyped == Spec => []TypeOK
<1>1. Init => TypeInv
  BY InitTyped
<1>2. TypeInv /\ [Next]_vars => TypeInv'
  BY StepTyped
<1>3. TypeInv => TypeOK
  <2> SUFFICES ASSUME TypeInv PROVE TypeOK
    OBVIOUS
  <2>1. ASSUME NEW h \in HeaderType PROVE HeaderOK(h)
    <3>1. /\ h.id \in Ids \cup {MbrId, EmptyId}
          /\ {h.start, h.main, h.next, h.prev} \subseteq 0 .. Chunks - 1
          /\ h.len \in 1 .. Chunks /\ h.dialect \in {"plain", "toxic", "2slice"}
      BY HeaderNumbers
    <3>2. \A k \in DOMAIN h.subs : h.subs[k].start \in 0 .. Chunks - 1
      <4> SUFFICES ASSUME NEW k \in DOMAIN h.subs PROVE h.subs[k].start \in 0 .. Chunks - 1
        OBVIOUS
      <4>1. h.subs \in Seq(RunType)
        BY HeaderNumbers
      <4>2. h.subs[k] \in RunType
        BY <4>1, SequenceIs
      <4>3. h.subs[k].start \in 1 .. Chunks - 1
        BY <4>2 DEF RunType
      <4> QED BY <4>3, DiskAssumption
    <3> QED BY <3>1, <3>2 DEF HeaderOK
  <2>2. \A c \in DOMAIN disk :
          /\ HeaderOK(disk[c].hdr)
          /\ disk[c].tab = Junk \/ disk[c].tab.title \in Names
          /\ disk[c].data.image \in Names \cup {"none"}
    <3> SUFFICES ASSUME NEW c \in DOMAIN disk
                 PROVE  /\ HeaderOK(disk[c].hdr)
                        /\ disk[c].tab = Junk \/ disk[c].tab.title \in Names
                        /\ disk[c].data.image \in Names \cup {"none"}
      OBVIOUS
    <3>1. ChunkOK(c, disk[c])
      BY DEF TypeInv, DiskOK
    <3>2. HeaderOK(Junk)
      BY DEF HeaderOK
    <3> QED BY <2>1, <3>1, <3>2 DEF ChunkOK, TabOK
  <2>3. DOMAIN disk = 0 .. Chunks - 1
    BY DEF TypeInv, DiskOK
  <2>4. phase # "idle" => toc # NoToc /\ job # NoJob
    <3>1. phase # "idle" => toc.ok = TRUE /\ job.op # "none"
      BY DEF TypeInv, JobOK, TocOK
    <3>2. NoToc.ok = FALSE /\ NoJob.op = "none"
      BY DEF NoToc, NoJob
    <3> QED BY <3>1, <3>2
  <2>5. (phase = "idle") = (toc = NoToc) /\ (phase = "idle") = (job = NoJob)
    <3>1. phase = "idle" <=> toc = NoToc
      BY <2>4 DEF TypeInv
    <3>2. phase = "idle" <=> job = NoJob
      BY <2>4 DEF TypeInv
    <3> QED BY <3>1, <3>2
  <2>6. todo \subseteq DOMAIN disk
    <3>1. CASE phase = "idle"
      BY <3>1 DEF TypeInv
    <3>2. CASE phase = "copy"
      BY <2>3, <3>2, PlannedChunks DEF TypeInv, JobOK
    <3>3. CASE phase \in {"title", "attributes"}
      BY <2>3, <3>3, DiskAssumption DEF TypeInv, JobOK
    <3>4. CASE phase = "commit"
      BY <2>3, <3>4, ModifiedFacts DEF TypeInv, JobOK
    <3> QED BY <3>1, <3>2, <3>3, <3>4 DEF TypeInv
  <2> QED BY <2>2, <2>3, <2>5, <2>6 DEF TypeOK, TypeInv
<1> QED BY <1>1, <1>2, <1>3, PTL DEF Spec

-----------------------------------------------------------------------------
(* What a list on the disk is like, in the middle of a commit too.         *)

\* the headers along the links, each in its place
Path(d, i, hs) ==
  /\ hs \in Seq(HeaderType) /\ Len(hs) # 0 /\ hs[1].start = 0
  /\ \A k \in 1 .. Len(hs) : InPlace(d, i, hs[k])
  /\ \A k \in 1 .. Len(hs) - 1 : hs[k].next # 0 /\ hs[k].next = hs[k + 1].start
  /\ hs[Len(hs)].next = 0

\* the subs of each main partition but the first are in the list
SubsMet(hs) ==
  \A k \in 1 .. Len(hs) : hs[k].main = 0 /\ hs[k].start # 0 =>
    /\ \A s \in DOMAIN hs[k].subs : \E j \in 1 .. Len(hs) :
         hs[j].main = hs[k].start /\ hs[j].start = hs[k].subs[s].start
    /\ \A j \in 1 .. Len(hs) : hs[j].main = hs[k].start => hs[k].subs # <<>>

Listed(d, i, hs) == Path(d, i, hs) /\ SubsMet(hs)

\* the main partition of each sub is in the list
Sound(hs) ==
  \A j \in 1 .. Len(hs) : hs[j].main # 0 =>
    \E k \in 1 .. Len(hs) : hs[k].start = hs[j].main /\ hs[k].main = 0

\* all subs that are on the disk are in the list
Complete(d, i, hs) ==
  \A c \in 0 .. Chunks - 1 :
    LET h == d[Base(i) + c].hdr IN
    Base(i) + c < Chunks /\ h # Junk /\ h.start = c /\ h.main # 0 =>
      \E k \in 1 .. Len(hs) : hs[k].start = c

ListGood(d, i, hs) == Rising(hs) /\ Sound(hs) /\ Complete(d, i, hs)

SlicesOn(d) == IF GotSecondSlice(d) THEN {0, 1} ELSE {0}

ListsGood(d) == \A i \in SlicesOn(d) : \A hs : Listed(d, i, hs) => ListGood(d, i, hs)

\* an empty partition has no subs
NoHeirs(h) == h.id = EmptyId => h.subs = <<>>

\* Each slice begins with a system partition.
SystemFirst(d) ==
  /\ d[0].hdr.start = 0 /\ d[0].hdr.main = 0
  /\ \A i \in SlicesOn(d) : Base(i) < Chunks /\ d[Base(i)].hdr # Junk => d[Base(i)].hdr.id = MbrId

\* From the first to the last, one after the other.
LEMMA Upward ==
  ASSUME NEW n \in Nat, NEW P, n # 0 => 1 \in P,
         \A k \in 1 .. n - 1 : 1 .. k \subseteq P => k + 1 \in P
  PROVE  1 .. n \subseteq P
<1> DEFINE Bad == {k \in 1 .. n : k \notin P}
<1> SUFFICES ASSUME Bad # {} PROVE FALSE
  OBVIOUS
<1>1. PICK k \in Bad : \A j \in Bad : k <= j
  <2>1. Bad \subseteq Nat
    OBVIOUS
  <2> HIDE DEF Bad
  <2> QED BY <2>1, LeastOf
<1>2. k \in 1 .. n /\ k \notin P /\ k # 1
  OBVIOUS
<1>3. k - 1 \in 1 .. n - 1 /\ k - 1 + 1 = k
  BY <1>2
<1>4. 1 .. k - 1 \subseteq P
  <2> SUFFICES ASSUME NEW j \in 1 .. k - 1 PROVE j \in P
    OBVIOUS
  <2>1. j \in 1 .. n /\ ~(k <= j)
    BY <1>2
  <2>2. j \notin Bad
    <3> HIDE DEF Bad
    <3> QED BY <1>1, <2>1
  <2> QED BY <2>1, <2>2
<1> QED BY <1>2, <1>3, <1>4

\* Numbers that rise from each to the next rise throughout.
LEMMA RisingThroughout ==
  ASSUME NEW hs \in Seq(HeaderType), NEW n \in Nat, n <= Len(hs),
         \A k \in 1 .. n - 1 : hs[k].start < hs[k + 1].start
  PROVE  \A j, k \in 1 .. n : j < k => hs[j].start < hs[k].start
<1>1. \A k \in 1 .. n : hs[k].start \in Nat
  <2> SUFFICES ASSUME NEW k \in 1 .. n PROVE hs[k].start \in Nat
    OBVIOUS
  <2>1. hs[k] \in HeaderType
    BY SequenceIs
  <2> QED BY <2>1, HeaderNumbers
<1> DEFINE P == {k \in 1 .. n : \A j \in 1 .. n : j < k => hs[j].start < hs[k].start}
<1>2. n # 0 => 1 \in P
  OBVIOUS
<1>3. ASSUME NEW k \in 1 .. n - 1, 1 .. k \subseteq P PROVE k + 1 \in P
  <2>1. k \in 1 .. n /\ k + 1 \in 1 .. n /\ k \in P
    BY <1>3
  <2>2. ASSUME NEW j \in 1 .. n, j < k + 1 PROVE hs[j].start < hs[k + 1].start
    <3>1. j = k \/ j < k
      BY <2>2
    <3>2. j = k \/ hs[j].start < hs[k].start
      BY <2>1, <3>1
    <3>3. hs[k].start < hs[k + 1].start
      OBVIOUS
    <3>4. hs[j].start \in Nat /\ hs[k].start \in Nat /\ hs[k + 1].start \in Nat
      BY <1>1, <2>1
    <3> QED BY <3>2, <3>3, <3>4
  <2> QED BY <2>1, <2>2
<1>4. 1 .. n \subseteq P
  <2> HIDE DEF P
  <2> QED BY <1>2, <1>3, Upward
<1> QED BY <1>4

\* a list in the order of its starts, linked from each to the next
Chained(hs) ==
  /\ hs \in Seq(HeaderType) /\ Len(hs) # 0 /\ hs[1].start = 0 /\ Rising(hs)
  /\ \A k \in 1 .. Len(hs) - 1 : hs[k].next # 0 /\ hs[k].next = hs[k + 1].start
  /\ hs[Len(hs)].next = 0

Starts(hs) == {hs[k].start : k \in 1 .. Len(hs)}

\* the header with a link from which a later one can be met
Upto(h, m) == h.next # 0 /\ h.start < h.next /\ h.next <= m

\* A link leads up, to a header of the list, and past none of them.
LEMMA ChainedLinks ==
  ASSUME NEW hs, Chained(hs), NEW k \in 1 .. Len(hs)
  PROVE  /\ hs[k] \in HeaderType
         /\ hs[k].next = 0 \/ (hs[k].start < hs[k].next /\ hs[k].next \in Starts(hs))
         /\ \A m \in Starts(hs) : hs[k].start < m => Upto(hs[k], m)
         /\ \A j \in 1 .. Len(hs) : hs[j].start = hs[k].start => j = k
<1>1. PICK n \in Nat : n = Len(hs)
  BY SequenceIs DEF Chained
<1>2. \A j \in 1 .. n : hs[j] \in HeaderType /\ hs[j].start \in Nat /\ hs[j].next \in Nat
  <2> SUFFICES ASSUME NEW j \in 1 .. n PROVE hs[j] \in HeaderType /\ hs[j].start \in Nat /\ hs[j].next \in Nat
    OBVIOUS
  <2>1. hs[j] \in HeaderType
    BY <1>1, SequenceIs DEF Chained
  <2> QED BY <2>1, HeaderNumbers
<1>3. \A a, b \in 1 .. n : a < b => hs[a].start < hs[b].start
  BY <1>1 DEF Chained, Rising
<1>4. \A j \in 1 .. n : hs[j].start = hs[k].start => j = k
  <2> SUFFICES ASSUME NEW j \in 1 .. n, hs[j].start = hs[k].start PROVE j = k
    OBVIOUS
  <2>1. k \in 1 .. n /\ ~(j < k) /\ ~(k < j)
    BY <1>1, <1>2, <1>3
  <2> QED BY <2>1
<1>5. CASE k = n
  <2>1. hs[k].next = 0
    BY <1>1, <1>5 DEF Chained
  <2>2. ASSUME NEW m \in Starts(hs) PROVE ~(hs[k].start < m)
    <3>1. PICK j \in 1 .. n : m = hs[j].start
      BY <1>1 DEF Starts
    <3>2. j = k \/ j < k
      BY <1>5
    <3>3. hs[j].start = hs[k].start \/ hs[j].start < hs[k].start
      BY <1>1, <1>3, <3>2
    <3> QED BY <1>1, <1>2, <3>1, <3>3
  <2> QED BY <1>1, <1>2, <1>4, <2>1, <2>2
<1>6. CASE k # n
  <2>1. k \in 1 .. n - 1 /\ k + 1 \in 1 .. n /\ k < k + 1
    BY <1>1, <1>6
  <2>2. hs[k].next # 0 /\ hs[k].next = hs[k + 1].start
    BY <1>1, <2>1 DEF Chained
  <2>3. hs[k].start < hs[k].next
    BY <1>1, <1>3, <2>1, <2>2
  <2>4. hs[k].next \in Starts(hs)
    BY <1>1, <2>1, <2>2 DEF Starts
  <2>5. ASSUME NEW m \in Starts(hs), hs[k].start < m PROVE hs[k].next <= m
    <3>1. PICK j \in 1 .. n : m = hs[j].start
      BY <1>1 DEF Starts
    <3>2. ~(j < k) /\ j # k
      <4>1. j # k
        BY <1>1, <1>2, <2>5, <3>1
      <4>2. ~(j < k)
        BY <1>1, <1>2, <1>3, <2>5, <3>1
      <4> QED BY <4>1, <4>2
    <3>3. j = k + 1 \/ k + 1 < j
      BY <1>1, <3>2
    <3>4. hs[j].start = hs[k + 1].start \/ hs[k + 1].start < hs[j].start
      BY <1>3, <2>1, <3>3
    <3> QED BY <1>2, <2>1, <2>2, <3>1, <3>4
  <2> QED BY <1>1, <1>2, <1>4, <2>2, <2>3, <2>4, <2>5 DEF Upto
<1> QED BY <1>5, <1>6

\* Links that go up and past nothing as long as m is not reached do reach it.
LEMMA Reached ==
  ASSUME NEW d, NEW i, NEW hs, Path(d, i, hs), NEW n \in 1 .. Len(hs), NEW m \in Nat,
         \A k \in 1 .. n : hs[k].start < m => Upto(hs[k], m),
         n = Len(hs) \/ m <= hs[n].start
  PROVE  \E k \in 1 .. n : hs[k].start = m
<1>1. PICK l \in Nat : l = Len(hs)
  BY SequenceIs DEF Path
<1>2. \A k \in 1 .. l : hs[k].start \in Nat /\ hs[k].next \in Nat
  <2> SUFFICES ASSUME NEW k \in 1 .. l PROVE hs[k].start \in Nat /\ hs[k].next \in Nat
    OBVIOUS
  <2>1. hs[k] \in HeaderType
    BY <1>1, SequenceIs DEF Path
  <2> QED BY <2>1, HeaderNumbers
<1> SUFFICES ASSUME \A k \in 1 .. n : hs[k].start # m PROVE FALSE
  OBVIOUS
<1> DEFINE P == {k \in 1 .. n : hs[k].start < m}
<1>3. 1 \in P
  <2>1. 1 \in 1 .. n /\ hs[1].start = 0
    BY <1>1 DEF Path
  <2> QED BY <2>1
<1>4. ASSUME NEW k \in 1 .. n - 1, 1 .. k \subseteq P PROVE k + 1 \in P
  <2>1. k \in P /\ k \in 1 .. l - 1 /\ k + 1 \in 1 .. n /\ k \in 1 .. n
    BY <1>1, <1>4
  <2>2. hs[k].next <= m /\ hs[k].next = hs[k + 1].start
    BY <1>1, <2>1 DEF Path, Upto
  <2>3. hs[k + 1].start # m /\ hs[k + 1].start \in Nat
    BY <1>1, <1>2, <2>1
  <2> QED BY <2>1, <2>2, <2>3
<1>5. n \in P
  <2>1. n \in Nat
    BY <1>1
  <2> HIDE DEF P
  <2>2. 1 .. n \subseteq P
    BY <1>3, <1>4, <2>1, Upward
  <2> QED BY <1>1, <2>2
<1>6. hs[n].next # 0 /\ hs[n].start < m
  BY <1>1, <1>5 DEF Upto
<1>7. n # Len(hs)
  BY <1>6 DEF Path
<1> QED BY <1>1, <1>2, <1>6, <1>7

\* h is g but for its name and its links
Alike(h, g) == /\ h.start = g.start /\ h.len = g.len /\ h.main = g.main
               /\ h.subs = g.subs /\ h.dialect = g.dialect

\* partitions of games, which are in the list as long as no game is deleted
Kept(was, j) ==
  \E k \in 1 .. Len(was) : was[k].main # 0 /\ was[j].start \in {was[k].start, was[k].main}

\* h is the main partition of the new game, or one of its subs
IsNewMain(h, new) == h.start = new.start /\ h.main = 0 /\ h.subs = new.subs
IsNewSub(h, new) == h.main = new.start /\ \E s \in DOMAIN new.subs : new.subs[s].start = h.start

\* The list a command makes of the one it has read: it has what was in it of
\* games, and in an install a new game.
Derived(was, is, new) ==
  /\ Chained(was) /\ Sound(was) /\ Chained(is)
  /\ \A k \in 1 .. Len(is) :
       \/ \E j \in 1 .. Len(was) : Alike(is[k], was[j])
       \/ IsNewMain(is[k], new) \/ IsNewSub(is[k], new)
  /\ \A j \in 1 .. Len(was) : Kept(was, j) =>
       /\ was[j].start # new.start
       /\ \E k \in 1 .. Len(is) : Alike(is[k], was[j])
  /\ new.start \in Int /\ new.start # 0
  /\ \A s \in DOMAIN new.subs : new.start < new.subs[s].start
  /\ new.subs # <<>> => \E k \in 1 .. Len(is) : IsNewMain(is[k], new)

\* What the disk has at c of a list: the header of the list is there if it is
\* not one of those that wait to be written, and else the header of the old
\* list, or one that is in no list and no sub that is where it says.
AsIs(v, c, is) == \E k \in 1 .. Len(is) : is[k].start = c /\ v = is[k]
AsWas(v, c, was) == \/ \E j \in 1 .. Len(was) : was[j].start = c /\ v = was[j]
                    \/ c \notin Starts(was) /\ (v.main = 0 \/ v.start # c)

Mixed(d, i, was, is, waits) ==
  \A c \in 0 .. Chunks - 1 : Base(i) + c < Chunks /\ d[Base(i) + c].hdr # Junk =>
    IF c \in Starts(is) \ waits THEN AsIs(d[Base(i) + c].hdr, c, is)
    ELSE AsWas(d[Base(i) + c].hdr, c, was)

\* Headers are written in the order of the list, but for the main partition of
\* a new game, which is written before all.
Ordered(was, is, new, waits) ==
  /\ waits \subseteq Starts(is) \ {new.start}
  /\ \A k \in 1 .. Len(is) : is[k].start \notin waits /\ is[k].start # new.start =>
       \/ \E j \in 1 .. Len(was) : is[k] = was[j]
       \/ \A e \in waits : is[k].start < e

\* what is met first is of the new list, and then of the old one
Below(m, waits) == \A e \in waits : m < e
Fresh(h, is, waits) == Below(h.start, waits) /\ \E k \in 1 .. Len(is) : h = is[k]
Old(h, was, is, new, waits) ==
  /\ ~Below(h.start, waits)
  /\ \/ \E j \in 1 .. Len(was) : h = was[j]
     \/ h.start = new.start /\ \E k \in 1 .. Len(is) : h = is[k]

LEMMA OneOrTheOther ==
  ASSUME NEW d, HeadersTyped(d), NEW i \in {0, 1}, NEW was, NEW is, NEW new, NEW waits,
         Derived(was, is, new), Mixed(d, i, was, is, waits), Ordered(was, is, new, waits),
         NEW hs, Listed(d, i, hs), NEW n \in 1 .. Len(hs) - 1,
         \A k \in 1 .. n : Fresh(hs[k], is, waits) \/ Old(hs[k], was, is, new, waits)
  PROVE  Fresh(hs[n + 1], is, waits) \/ Old(hs[n + 1], was, is, new, waits)
<1>1. PICK l \in Nat : l = Len(hs) /\ n \in 1 .. l - 1 /\ n + 1 \in 1 .. l /\ n \in 1 .. l
  <2>1. PICK l \in Nat : l = Len(hs)
    BY SequenceIs DEF Listed, Path
  <2> QED BY <2>1
<1>2. \A k \in 1 .. l : hs[k] \in HeaderType /\ hs[k].start \in 0 .. Chunks - 1 /\ hs[k].start \in Nat
  <2> SUFFICES ASSUME NEW k \in 1 .. l
               PROVE  hs[k] \in HeaderType /\ hs[k].start \in 0 .. Chunks - 1 /\ hs[k].start \in Nat
    OBVIOUS
  <2>1. hs[k] \in HeaderType
    BY <1>1, SequenceIs DEF Listed, Path
  <2> QED BY <2>1, HeaderNumbers
<1>3. PICK s \in 0 .. Chunks - 1 : s = hs[n + 1].start /\ s = hs[n].next /\ s # 0
  BY <1>1, <1>2 DEF Listed, Path
<1>4. PICK v : v = hs[n + 1] /\ v.start = s /\ v = d[Base(i) + s].hdr /\ v # Junk /\ Base(i) + s < Chunks
  <2>1. InPlace(d, i, hs[n + 1]) /\ hs[n + 1] # Junk
    BY <1>1, <1>2, NotJunk DEF Listed, Path
  <2>2. Base(i) + s \in 0 .. Chunks - 1
    BY <1>3, <2>1 DEF InPlace, HeadersTyped
  <2>3. Base(i) + s < Chunks
    BY <2>2, DiskAssumption
  <2> QED BY <1>3, <2>1, <2>3 DEF InPlace
<1>5. Chained(was) /\ Chained(is)
  BY DEF Derived
<1>6. IF s \in Starts(is) \ waits THEN AsIs(v, s, is) ELSE AsWas(v, s, was)
  BY <1>4 DEF Mixed
\* links go up
<1>7. \A k \in 1 .. n : hs[k].next = 0 \/ hs[k].start < hs[k].next
  BY <1>5, ChainedLinks DEF Fresh, Old
<1>8. \A j, k \in 1 .. n + 1 : j < k => hs[j].start < hs[k].start
  <2>1. ASSUME NEW k \in 1 .. n PROVE hs[k].start < hs[k + 1].start
    <3>1. k \in 1 .. l - 1
      BY <1>1
    <3>2. hs[k].next # 0 /\ hs[k].next = hs[k + 1].start
      BY <1>1, <3>1 DEF Listed, Path
    <3> QED BY <1>7, <3>2
  <2>2. hs \in Seq(HeaderType)
    BY DEF Listed, Path
  <2>3. PICK b \in Nat : b = n + 1 /\ b <= Len(hs) /\ b - 1 = n
    BY <1>1
  <2> QED BY <2>1, <2>2, <2>3, RisingThroughout
<1>9. waits \subseteq Nat /\ new.start \notin waits
  <2>1. \A k \in 1 .. Len(is) : is[k].start \in Nat
    BY <1>5, ChainedLinks, HeaderNumbers
  <2> QED BY <2>1 DEF Ordered, Starts
\* a header of the new list
<1>10. ASSUME s \in Starts(is), s \notin waits
       PROVE  Fresh(v, is, waits) \/ Old(v, was, is, new, waits)
  <2>1. PICK k \in 1 .. Len(is) : is[k].start = s /\ v = is[k]
    BY <1>6, <1>10 DEF AsIs
  <2>2. s = new.start \/ (\E j \in 1 .. Len(was) : is[k] = was[j]) \/ Below(s, waits)
    BY <1>10, <2>1 DEF Ordered, Below
  <2> QED BY <1>4, <2>1, <2>2 DEF Fresh, Old
\* a header that waits to be written
<1>11. s \in waits => ~Below(s, waits)
  BY DEF Below
<1>12. ASSUME s \in waits \/ s \notin Starts(is), s \in Starts(was), ~Below(s, waits)
       PROVE  Old(v, was, is, new, waits)
  BY <1>4, <1>6, <1>12 DEF AsWas, Old
<1>13. ASSUME s \in waits, s \notin Starts(was)
       PROVE  \E x \in DOMAIN new.subs : new.subs[x].start = s
  <2>1. PICK k \in 1 .. Len(is) : is[k].start = s
    BY <1>13 DEF Ordered, Starts
  <2>2. ~IsNewMain(is[k], new)
    BY <1>9, <1>13, <2>1 DEF IsNewMain
  <2>3. ASSUME NEW j \in 1 .. Len(was) PROVE ~Alike(is[k], was[j])
    BY <1>13, <2>1 DEF Alike, Starts
  <2> QED BY <2>1, <2>2, <2>3 DEF Derived, IsNewSub
\* no sub of a new game is missing if its main partition has been met
<1>14. ASSUME s \in waits, s \notin Starts(was), NEW k \in 1 .. n,
              hs[k].start = new.start, \E a \in 1 .. Len(is) : hs[k] = is[a]
       PROVE  FALSE
  <2>1. PICK x \in DOMAIN new.subs : new.subs[x].start = s
    BY <1>13, <1>14
  <2>2. new.subs # <<>>
    BY <2>1
  <2>3. PICK b \in 1 .. Len(is) : IsNewMain(is[b], new)
    BY <2>2 DEF Derived
  <2>4. IsNewMain(hs[k], new)
    <3>1. PICK a \in 1 .. Len(is) : hs[k] = is[a]
      BY <1>14
    <3>2. is[a].start = is[b].start
      BY <1>14, <2>3, <3>1 DEF IsNewMain
    <3>3. a = b
      BY <1>5, <3>2, ChainedLinks
    <3> QED BY <2>3, <3>1, <3>3
  <2>5. k \in 1 .. Len(hs) /\ hs[k].main = 0 /\ hs[k].start # 0 /\ x \in DOMAIN hs[k].subs
        /\ hs[k].subs[x].start = s
    BY <1>1, <2>1, <2>4 DEF IsNewMain, Derived
  <2>6. PICK j \in 1 .. Len(hs) : hs[j].main = hs[k].start /\ hs[j].start = s
    BY <2>5 DEF Listed, SubsMet
  <2>7. hs[j] = v
    BY <1>4, <2>6 DEF Listed, Path, InPlace
  <2>8. v.main # 0
    BY <2>5, <2>6, <2>7
  <2> QED BY <1>4, <1>6, <1>14, <2>8 DEF AsWas, Starts
<1>15. CASE Fresh(hs[n], is, waits)
  <2>1. s \in Starts(is)
    BY <1>3, <1>5, <1>15, ChainedLinks DEF Fresh
  <2>2. ASSUME s \in waits, s \notin Starts(was) PROVE FALSE
    <3>1. new.subs # <<>> /\ new.start < s
      BY <1>13, <2>2 DEF Derived
    <3>2. PICK m \in Nat : m = new.start /\ m \in Starts(is)
      <4>1. PICK b \in 1 .. Len(is) : is[b].start = new.start
        BY <3>1 DEF Derived, IsNewMain
      <4>2. is[b].start \in Nat
        BY <1>5, ChainedLinks, HeaderNumbers
      <4> QED BY <4>1, <4>2 DEF Starts
    <3>3. ASSUME NEW k \in 1 .. n PROVE Fresh(hs[k], is, waits)
      <4>1. hs[k].start <= hs[n].start
        <5>1. k = n \/ k < n
          BY <1>1
        <5>2. k \in 1 .. n + 1 /\ n \in 1 .. n + 1 /\ k \in 1 .. l
          BY <1>1
        <5> QED BY <1>1, <1>2, <1>8, <5>1, <5>2
      <4>2. Below(hs[k].start, waits)
        <5>1. k \in 1 .. l
          BY <1>1
        <5> QED BY <1>1, <1>2, <1>9, <1>15, <4>1, <5>1 DEF Fresh, Below
      <4> QED BY <4>2 DEF Old
    <3>4. PICK b \in 1 .. Len(hs) : b = n + 1 /\ hs[b].start = s /\ ~(hs[b].start < m) /\ m <= hs[b].start
      <4>1. PICK b \in 1 .. Len(hs) : b = n + 1
        BY <1>1
      <4>2. hs[b].start = s
        BY <1>3, <4>1
      <4>3. ~(s < m) /\ m <= s
        BY <3>1, <3>2
      <4> QED BY <4>1, <4>2, <4>3
    <3>5. \A k \in 1 .. b : k = b \/ k \in 1 .. n
      BY <1>1, <3>4
    <3>6. ASSUME NEW k \in 1 .. b, hs[k].start < m PROVE Upto(hs[k], m)
      <4>1. k \in 1 .. n
        BY <3>4, <3>5, <3>6
      <4> QED BY <1>5, <3>2, <3>3, <3>6, <4>1, ChainedLinks DEF Fresh
    <3>7. PICK k \in 1 .. b : hs[k].start = m
      <4>1. Path(d, i, hs)
        BY DEF Listed
      <4> QED BY <3>4, <3>6, <4>1, Reached
    <3>8. k \in 1 .. n
      <4>1. s # m
        BY <3>1, <3>2
      <4> QED BY <3>4, <3>5, <3>7, <4>1
    <3> QED BY <1>14, <2>2, <3>2, <3>3, <3>7, <3>8 DEF Fresh
  <2> QED BY <1>4, <1>10, <1>11, <1>12, <2>1, <2>2
<1>16. CASE Old(hs[n], was, is, new, waits)
  <2>1. hs[n].start < s
    BY <1>3, <1>7, <1>1
  <2>2. ~Below(s, waits)
    <3>1. PICK e \in waits : ~(hs[n].start < e)
      BY <1>16 DEF Old, Below
    <3>2. ~(s < e)
      BY <1>1, <1>2, <1>9, <2>1, <3>1
    <3> QED BY <3>2 DEF Below
  <2>3. CASE \E j \in 1 .. Len(was) : hs[n] = was[j]
    <3>1. s \in Starts(was)
      BY <1>3, <1>5, <2>3, ChainedLinks
    <3> QED BY <1>4, <1>10, <1>12, <2>2, <3>1
  <2>4. CASE hs[n].start = new.start /\ \E k \in 1 .. Len(is) : hs[n] = is[k]
    <3>1. s \in Starts(is)
      BY <1>3, <1>5, <2>4, ChainedLinks
    <3>2. n \in 1 .. n
      BY <1>1
    <3>3. ~(s \in waits /\ s \notin Starts(was))
      BY <1>14, <2>4, <3>2
    <3> QED BY <1>4, <1>10, <1>12, <2>2, <3>1, <3>3
  <2> QED BY <1>16, <2>3, <2>4 DEF Old
<1>17. Fresh(hs[n], is, waits) \/ Old(hs[n], was, is, new, waits)
  <2>1. n \in 1 .. n
    BY <1>1
  <2> QED BY <2>1
<1> QED BY <1>15, <1>16, <1>17

\* Half-way through a commit, as before and after it: whatever list the links
\* on the disk lead along, it rises, the main partition of each sub is in it,
\* and there is no other sub on the disk.
LEMMA MixedGood ==
  ASSUME NEW d, HeadersTyped(d), NEW i \in {0, 1}, NEW was, NEW is, NEW new, NEW waits,
         Derived(was, is, new), Mixed(d, i, was, is, waits), Ordered(was, is, new, waits),
         NEW hs, Listed(d, i, hs)
  PROVE  ListGood(d, i, hs)
<1>1. PICK l \in Nat : l = Len(hs) /\ 1 \in 1 .. l
  <2>1. PICK l \in Nat : l = Len(hs)
    BY SequenceIs DEF Listed, Path
  <2>2. l # 0
    BY <2>1 DEF Listed, Path
  <2> QED BY <2>1, <2>2
<1>2. \A k \in 1 .. l : /\ hs[k] \in HeaderType /\ hs[k] # Junk /\ hs[k].start \in 0 .. Chunks - 1
                        /\ Base(i) + hs[k].start < Chunks /\ hs[k] = d[Base(i) + hs[k].start].hdr
  <2> SUFFICES ASSUME NEW k \in 1 .. l
               PROVE  /\ hs[k] \in HeaderType /\ hs[k] # Junk /\ hs[k].start \in 0 .. Chunks - 1
                      /\ Base(i) + hs[k].start < Chunks /\ hs[k] = d[Base(i) + hs[k].start].hdr
    OBVIOUS
  <2>1. hs[k] \in HeaderType
    BY <1>1, SequenceIs DEF Listed, Path
  <2>2. InPlace(d, i, hs[k])
    BY <1>1 DEF Listed, Path
  <2>3. Base(i) + hs[k].start \in 0 .. Chunks - 1
    BY <2>2 DEF InPlace, HeadersTyped
  <2>4. Base(i) + hs[k].start < Chunks
    BY <2>3, DiskAssumption
  <2> QED BY <2>1, <2>2, <2>4, HeaderNumbers, NotJunk DEF InPlace
<1>3. Chained(was) /\ Chained(is)
  BY DEF Derived
<1>4. /\ \A k \in 1 .. Len(is) : is[k] \in HeaderType /\ is[k].start \in 0 .. Chunks - 1
      /\ \A k \in 1 .. Len(was) : was[k] \in HeaderType /\ was[k].start \in 0 .. Chunks - 1
  BY <1>3, ChainedLinks, HeaderNumbers
<1>5. waits \subseteq Nat
  BY <1>4 DEF Ordered, Starts
<1> DEFINE One(k) == Fresh(hs[k], is, waits) \/ Old(hs[k], was, is, new, waits)
<1>6. One(1)
  <2>1. hs[1].start = 0 /\ 0 \in 0 .. Chunks - 1 /\ is[1].start = 0 /\ 1 \in 1 .. Len(is)
    <3>1. Len(is) \in Nat /\ Len(is) # 0 /\ is[1].start = 0
      BY <1>3, SequenceIs DEF Chained
    <3> QED BY <3>1, DiskAssumption DEF Listed, Path
  <2>2. 0 \in Starts(is)
    BY <2>1 DEF Starts
  <2>3. IF 0 \in Starts(is) \ waits THEN AsIs(hs[1], 0, is) ELSE AsWas(hs[1], 0, was)
    <3>1. Base(i) + 0 < Chunks /\ hs[1] = d[Base(i) + 0].hdr /\ hs[1] # Junk
      BY <1>1, <1>2, <2>1
    <3> QED BY <2>1, <3>1 DEF Mixed
  <2>4. CASE 0 \in waits
    <3>1. 0 \in Starts(was)
      <4>1. Len(was) \in Nat /\ Len(was) # 0 /\ was[1].start = 0
        BY <1>3, SequenceIs DEF Chained
      <4>2. 1 \in 1 .. Len(was)
        BY <4>1
      <4> QED BY <4>1, <4>2 DEF Starts
    <3>2. ~Below(hs[1].start, waits)
      BY <2>1, <2>4 DEF Below
    <3> QED BY <2>3, <2>4, <3>1, <3>2 DEF AsWas, Old
  <2>5. CASE 0 \notin waits
    <3>1. Below(0, waits)
      BY <1>5, <2>5 DEF Below
    <3> QED BY <2>1, <2>2, <2>3, <2>5, <3>1 DEF AsIs, Fresh
  <2> QED BY <2>4, <2>5
<1>7. \A k \in 1 .. l : One(k)
  <2> DEFINE P == {k \in 1 .. l : One(k)}
  <2>1. 1 \in P
    BY <1>1, <1>6
  <2>2. ASSUME NEW k \in 1 .. l - 1, 1 .. k \subseteq P PROVE k + 1 \in P
    <3>1. k \in 1 .. Len(hs) - 1 /\ k + 1 \in 1 .. l
      BY <1>1
    <3>2. \A j \in 1 .. k : One(j)
      BY <2>2
    <3>3. One(k + 1)
      BY <3>1, <3>2, OneOrTheOther
    <3> QED BY <3>1, <3>3
  <2>3. 1 .. l \subseteq P
    <3> HIDE DEF P
    <3> QED BY <2>1, <2>2, Upward
  <2> QED BY <2>3
\* a header of the new list or of the old one
<1>8. ASSUME NEW k \in 1 .. l
      PROVE  \/ Fresh(hs[k], is, waits) /\ \E j \in 1 .. Len(is) : hs[k] = is[j]
             \/ /\ ~Below(hs[k].start, waits)
                /\ \/ \E j \in 1 .. Len(was) : hs[k] = was[j]
                   \/ hs[k].start = new.start /\ \E j \in 1 .. Len(is) : hs[k] = is[j]
  BY <1>7 DEF Fresh, Old
<1> HIDE DEF One
<1>9. Rising(hs)
  <2>1. \A k \in 1 .. l - 1 : hs[k].start < hs[k + 1].start
    <3> SUFFICES ASSUME NEW k \in 1 .. l - 1 PROVE hs[k].start < hs[k + 1].start
      OBVIOUS
    <3>1. hs[k].next # 0 /\ hs[k].next = hs[k + 1].start
      BY <1>1 DEF Listed, Path
    <3>2. k \in 1 .. l
      BY <1>1
    <3>3. hs[k].next = 0 \/ hs[k].start < hs[k].next
      BY <1>3, <1>8, <3>2, ChainedLinks
    <3> QED BY <3>1, <3>3
  <2>2. hs \in Seq(HeaderType) /\ l <= Len(hs)
    BY <1>1 DEF Listed, Path
  <2> QED BY <1>1, <2>1, <2>2, RisingThroughout DEF Rising
\* what is in both lists is met
<1>10. ASSUME NEW m \in Nat, \A k \in 1 .. l : hs[k].start < m => Upto(hs[k], m)
       PROVE  \E k \in 1 .. Len(hs) : hs[k].start = m
  <2>1. l \in 1 .. Len(hs) /\ l = Len(hs)
    BY <1>1
  <2> QED BY <1>10, <2>1, Reached DEF Listed
<1>11. ASSUME NEW m \in Starts(is), m \in Starts(was)
       PROVE  \E k \in 1 .. Len(hs) : hs[k].start = m
  <2>1. m \in Nat
    BY <1>4 DEF Starts
  <2>2. ASSUME NEW k \in 1 .. l, hs[k].start < m PROVE Upto(hs[k], m)
    BY <1>3, <1>8, <1>11, <2>2, ChainedLinks
  <2> QED BY <1>10, <2>1, <2>2
\* and so is what is new and not behind anything that waits
<1>12. ASSUME NEW m \in Starts(is), Below(m, waits)
       PROVE  \E k \in 1 .. Len(hs) : hs[k].start = m /\ Fresh(hs[k], is, waits)
  <2>1. m \in Nat
    BY <1>4 DEF Starts
  <2>2. ASSUME NEW k \in 1 .. l, hs[k].start < m PROVE Upto(hs[k], m)
    <3>1. Below(hs[k].start, waits)
      <4> SUFFICES ASSUME NEW e \in waits PROVE hs[k].start < e
        BY DEF Below
      <4>1. m < e /\ e \in Nat
        BY <1>5, <1>12 DEF Below
      <4> QED BY <1>2, <2>1, <2>2, <4>1
    <3> QED BY <1>3, <1>8, <1>12, <2>2, <3>1, ChainedLinks
  <2>3. PICK k \in 1 .. Len(hs) : hs[k].start = m
    BY <1>10, <2>1, <2>2
  <2> QED BY <1>1, <1>8, <1>12, <2>3
\* what was kept is in both
<1>13. ASSUME NEW j \in 1 .. Len(was), Kept(was, j)
       PROVE  /\ was[j].start # new.start
              /\ was[j].start \in Starts(is) /\ was[j].start \in Starts(was)
              /\ \E k \in 1 .. Len(is) : Alike(is[k], was[j])
  BY <1>13 DEF Derived, Alike, Starts
<1>14. \A j \in 1 .. Len(was) : was[j].main # 0 => Kept(was, j)
  BY DEF Kept
<1>15. Sound(hs)
  <2> SUFFICES ASSUME NEW j \in 1 .. Len(hs), hs[j].main # 0
               PROVE  \E k \in 1 .. Len(hs) : hs[k].start = hs[j].main /\ hs[k].main = 0
    BY DEF Sound
  <2>1. ASSUME NEW a \in 1 .. Len(was), was[a].main = hs[j].main
        PROVE  \E k \in 1 .. Len(hs) : hs[k].start = hs[j].main /\ hs[k].main = 0
    <3>1. PICK b \in 1 .. Len(was) : was[b].start = was[a].main /\ was[b].main = 0
      BY <2>1 DEF Derived, Sound
    <3>2. Kept(was, b)
      BY <2>1, <3>1 DEF Kept
    <3>3. PICK k \in 1 .. Len(hs) : hs[k].start = was[b].start
      BY <1>11, <1>13, <3>2
    <3>4. hs[k].main = 0
      <4>1. PICK x \in 1 .. Len(is) : Alike(is[x], was[b])
        BY <1>13, <3>2
      <4>2. CASE \E y \in 1 .. Len(is) : hs[k] = is[y]
        <5>1. PICK y \in 1 .. Len(is) : hs[k] = is[y]
          BY <4>2
        <5>2. is[x].start = is[y].start
          BY <3>3, <4>1, <5>1 DEF Alike
        <5>3. x = y
          BY <1>3, <5>2, ChainedLinks
        <5> QED BY <3>1, <4>1, <5>1, <5>3 DEF Alike
      <4>3. CASE \E y \in 1 .. Len(was) : hs[k] = was[y]
        <5>1. PICK y \in 1 .. Len(was) : hs[k] = was[y]
          BY <4>3
        <5>2. y = b
          BY <1>3, <3>3, <5>1, ChainedLinks
        <5> QED BY <3>1, <5>1, <5>2
      <4> QED BY <1>1, <1>8, <4>2, <4>3
    <3> QED BY <2>1, <3>1, <3>3, <3>4
  <2>2. CASE \E a \in 1 .. Len(was) : hs[j] = was[a]
    BY <2>1, <2>2
  <2>3. CASE \E x \in 1 .. Len(is) : hs[j] = is[x] /\ (Fresh(hs[j], is, waits) \/ hs[j].start = new.start)
    <3>1. PICK x \in 1 .. Len(is) : hs[j] = is[x]
      BY <2>3
    <3>2. CASE \E a \in 1 .. Len(was) : Alike(is[x], was[a])
      BY <2>1, <3>1, <3>2 DEF Alike
    <3>3. CASE IsNewMain(is[x], new)
      BY <3>1, <3>3 DEF IsNewMain
    <3>4. CASE IsNewSub(is[x], new)
      <4>1. PICK z \in DOMAIN new.subs : new.subs[z].start = is[x].start /\ new.start < is[x].start
        BY <3>4 DEF IsNewSub, Derived
      <4>2. new.subs # <<>> /\ hs[j].main = new.start
        BY <3>1, <3>4, <4>1 DEF IsNewSub
      <4>3. PICK b \in 1 .. Len(is) : IsNewMain(is[b], new)
        BY <4>2 DEF Derived
      <4>4. Fresh(hs[j], is, waits)
        <5>1. is[x].start \in Nat /\ is[b].start \in Nat /\ is[b].start = new.start
          BY <1>4, <4>3 DEF IsNewMain
        <5>2. is[x].start # new.start
          BY <4>1, <5>1
        <5> QED BY <2>3, <3>1, <5>2
      <4>5. is[b].start \in Starts(is) /\ Below(is[b].start, waits)
        <5>1. Below(is[x].start, waits)
          BY <3>1, <4>4 DEF Fresh
        <5>2. is[b].start < is[x].start /\ is[b].start \in Nat /\ is[x].start \in Nat
          BY <1>4, <4>1, <4>3 DEF IsNewMain
        <5> QED BY <1>5, <5>1, <5>2 DEF Below, Starts
      <4>6. PICK k \in 1 .. Len(hs) : hs[k].start = is[b].start /\ Fresh(hs[k], is, waits)
        BY <1>12, <4>5
      <4>7. PICK y \in 1 .. Len(is) : hs[k] = is[y]
        BY <4>6 DEF Fresh
      <4>8. y = b
        BY <1>3, <4>6, <4>7, ChainedLinks
      <4> QED BY <4>2, <4>3, <4>6, <4>7, <4>8 DEF IsNewMain
    <3> QED BY <3>2, <3>3, <3>4 DEF Derived
  <2>4. j \in 1 .. l
    BY <1>1
  <2> QED BY <1>8, <2>2, <2>3, <2>4
<1>16. Complete(d, i, hs)
  <2> SUFFICES ASSUME NEW c \in 0 .. Chunks - 1, NEW v, v = d[Base(i) + c].hdr, Base(i) + c < Chunks,
                      v # Junk, v.start = c, v.main # 0
               PROVE  \E k \in 1 .. Len(hs) : hs[k].start = c
    BY DEF Complete
  <2>1. ASSUME NEW a \in 1 .. Len(was), Kept(was, a), was[a].start = c
        PROVE  \E k \in 1 .. Len(hs) : hs[k].start = c
    BY <1>11, <1>13, <2>1
  <2>2. CASE c \in Starts(is) \ waits
    <3>1. PICK x \in 1 .. Len(is) : is[x].start = c /\ v = is[x]
      BY <2>2 DEF Mixed, AsIs
    <3>2. CASE \E a \in 1 .. Len(was) : Alike(is[x], was[a])
      <4>1. PICK a \in 1 .. Len(was) : Alike(is[x], was[a])
        BY <3>2
      <4>2. Kept(was, a) /\ was[a].start = c
        BY <1>14, <3>1, <4>1 DEF Alike
      <4> QED BY <2>1, <4>2
    <3>3. CASE IsNewMain(is[x], new)
      BY <3>1, <3>3 DEF IsNewMain
    <3>4. CASE IsNewSub(is[x], new)
      <4>1. new.start < c /\ new.start \in Int /\ is[x].start \notin waits
        BY <2>2, <3>1, <3>4 DEF IsNewSub, Derived
      <4>2. is[x].start # new.start
        BY <3>1, <4>1
      <4>3. CASE \E a \in 1 .. Len(was) : is[x] = was[a]
        <5>1. PICK a \in 1 .. Len(was) : is[x] = was[a]
          BY <4>3
        <5>2. Kept(was, a) /\ was[a].start = c
          BY <1>14, <3>1, <5>1
        <5> QED BY <2>1, <5>2
      <4>4. CASE Below(is[x].start, waits)
        BY <1>12, <2>2, <3>1, <4>4
      <4> QED BY <4>1, <4>2, <4>3, <4>4 DEF Ordered, Below
    <3> QED BY <3>2, <3>3, <3>4 DEF Derived
  <2>3. CASE c \notin Starts(is) \ waits
    <3>1. AsWas(v, c, was)
      BY <2>3 DEF Mixed
    <3>2. PICK a \in 1 .. Len(was) : was[a].start = c /\ v = was[a]
      BY <3>1 DEF AsWas
    <3> QED BY <1>14, <2>1, <3>2
  <2> QED BY <2>2, <2>3
<1> QED BY <1>9, <1>15, <1>16 DEF ListGood

-----------------------------------------------------------------------------
(* What apa_check asks of a list, and of the disk it was read from.        *)

SubsOf(hs, k) == {j \in 1 .. Len(hs) : hs[j].main = hs[k].start}

SubsRight(hs) ==
  \A k \in 1 .. Len(hs) : hs[k].main = 0 /\ hs[k].start # 0 =>
    /\ \A j \in SubsOf(hs, k) : \E s \in DOMAIN hs[k].subs :
         hs[k].subs[s] = [start |-> hs[j].start, len |-> hs[j].len]
    /\ Cardinality(SubsOf(hs, k)) = Len(hs[k].subs)

Within(n, hs) ==
  \A k \in 1 .. Len(hs) : /\ hs[k].start < n /\ hs[k].start + hs[k].len <= n
                          /\ hs[k].start % hs[k].len = 0

LEMMA CheckIs ==
  ASSUME NEW n, NEW hs, Len(hs) \in Nat, DOMAIN hs = 1 .. Len(hs)
  PROVE  Check(n, hs) <=> Within(n, hs) /\ SubsRight(hs) /\ RingOf(hs)
<1> DEFINE Subs(h) == {j \in DOMAIN hs : hs[j].main = h.start}
           Prev(k) == hs[IF k = 1 THEN Len(hs) ELSE k - 1]
           Nxt(k) == hs[IF k = Len(hs) THEN 1 ELSE k + 1]
           A == \A k \in DOMAIN hs :
                  LET h == hs[k] IN
                  /\ h.start < n /\ h.start + h.len <= n
                  /\ h.start % h.len = 0
                  /\ h.main = 0 /\ h.start # 0 =>
                       /\ \A j \in Subs(h) :
                            \E s \in DOMAIN h.subs :
                              h.subs[s] = [start |-> hs[j].start, len |-> hs[j].len]
                       /\ Cardinality(Subs(h)) = Len(h.subs)
           B == \A k \in DOMAIN hs : hs[k].prev = Prev(k).start /\ hs[k].next = Nxt(k).start
<1>1. Check(n, hs) <=> A /\ B
  BY DEF Check
<1>2. B <=> RingOf(hs)
  BY DEF RingOf, After, Behind
<1>3. A <=> Within(n, hs) /\ SubsRight(hs)
  <2> DEFINE W(k) == /\ hs[k].start < n /\ hs[k].start + hs[k].len <= n
                     /\ hs[k].start % hs[k].len = 0
             Q(k) == hs[k].main = 0 /\ hs[k].start # 0 =>
                       /\ \A j \in SubsOf(hs, k) : \E s \in DOMAIN hs[k].subs :
                            hs[k].subs[s] = [start |-> hs[j].start, len |-> hs[j].len]
                       /\ Cardinality(SubsOf(hs, k)) = Len(hs[k].subs)
  <2>1. \A k \in 1 .. Len(hs) : Subs(hs[k]) = SubsOf(hs, k)
    BY DEF SubsOf
  <2>2. A <=> \A k \in 1 .. Len(hs) : W(k) /\ Q(k)
    <3> HIDE DEF Subs
    <3> QED BY <2>1, ZenonT(40)
  <2>3. Within(n, hs) <=> \A k \in 1 .. Len(hs) : W(k)
    BY DEF Within
  <2>4. SubsRight(hs) <=> \A k \in 1 .. Len(hs) : Q(k)
    BY DEF SubsRight
  <2> HIDE DEF A, W, Q
  <2> QED BY <2>2, <2>3, <2>4
<1> HIDE DEF A, B
<1> QED BY <1>1, <1>2, <1>3

LEMMA SubsMetIfRight ==
  ASSUME NEW hs \in Seq(HeaderType), Distinct(hs), SubsRight(hs)
  PROVE  SubsMet(hs)
<1>1. PICK l \in Nat : l = Len(hs)
  BY SequenceIs
<1> SUFFICES ASSUME NEW k \in 1 .. l, hs[k].main = 0, hs[k].start # 0
             PROVE  /\ \A s \in DOMAIN hs[k].subs : \E j \in 1 .. Len(hs) :
                         hs[j].main = hs[k].start /\ hs[j].start = hs[k].subs[s].start
                    /\ \A j \in 1 .. Len(hs) : hs[j].main = hs[k].start => hs[k].subs # <<>>
  BY <1>1 DEF SubsMet
<1>2. PICK S : S = SubsOf(hs, k)
  OBVIOUS
<1>3. PICK subs \in Seq(RunType) : subs = hs[k].subs
  <2>1. hs[k] \in HeaderType
    BY <1>1, SequenceIs
  <2> QED BY <2>1, HeaderNumbers
<1>4. /\ \A j \in S : \E s \in DOMAIN subs : subs[s] = [start |-> hs[j].start, len |-> hs[j].len]
      /\ Cardinality(S) = Len(subs)
      /\ S \subseteq 1 .. l /\ \A j \in 1 .. l : j \in S <=> hs[j].main = hs[k].start
  BY <1>1, <1>2, <1>3 DEF SubsRight, SubsOf
<1>5. ASSUME NEW j \in S PROVE \E s \in DOMAIN subs : subs[s].start = hs[j].start
  <2>1. PICK s \in DOMAIN subs : subs[s] = [start |-> hs[j].start, len |-> hs[j].len]
    BY <1>4
  <2> QED BY <2>1
<1> DEFINE f == [j \in S |-> CHOOSE s \in DOMAIN subs : subs[s].start = hs[j].start]
<1>6. ASSUME NEW j \in S PROVE f[j] \in DOMAIN subs /\ subs[f[j]].start = hs[j].start
  BY <1>5
<1>7. f \in [S -> DOMAIN subs]
  BY <1>6
<1> HIDE DEF f
<1>8. f \in Injection(S, DOMAIN subs)
  <2> SUFFICES ASSUME NEW a \in S, NEW b \in S, f[a] = f[b] PROVE a = b
    BY <1>7 DEF Injection, IsInjective
  <2>1. hs[a].start = hs[b].start
    BY <1>6
  <2> QED BY <1>1, <1>4, <2>1 DEF Distinct
<1>9. IsFiniteSet(DOMAIN subs) /\ Cardinality(DOMAIN subs) = Len(subs)
  <2>1. DOMAIN subs = 1 .. Len(subs) /\ Len(subs) \in Nat
    BY <1>3, SequenceIs
  <2>2. PICK m \in Nat : m = Len(subs)
    BY <2>1
  <2>3. IsFiniteSet(1 .. m) /\ Cardinality(1 .. m) = IF 1 > m THEN 0 ELSE m - 1 + 1
    <3>1. 1 \in Int /\ m \in Int
      OBVIOUS
    <3> QED BY <3>1, FS_Interval, Zenon
  <2> QED BY <2>1, <2>2, <2>3
<1>10. f \in Surjection(S, DOMAIN subs)
  BY <1>4, <1>8, <1>9, FS_Injection
<1>11. ASSUME NEW s \in DOMAIN subs
       PROVE  \E j \in 1 .. Len(hs) : hs[j].main = hs[k].start /\ hs[j].start = subs[s].start
  <2>1. PICK j \in S : f[j] = s
    BY <1>10 DEF Surjection
  <2> QED BY <1>1, <1>4, <1>6, <2>1
<1>12. ASSUME NEW j \in 1 .. Len(hs), hs[j].main = hs[k].start PROVE hs[k].subs # <<>>
  <2>1. PICK s \in DOMAIN subs : subs[s].start = hs[j].start
    BY <1>1, <1>4, <1>5, <1>12
  <2> QED BY <1>3, <2>1
<1> QED BY <1>3, <1>11, <1>12

\* What apa_slice_read accepts is such a list, without its empty partitions.
LEMMA ReadListed ==
  ASSUME NEW d, HeadersTyped(d), NEW got, NEW i \in {0, 1}, SliceRead(d, got, i).ok
  PROVE  \E hs : /\ Listed(d, i, hs) /\ Distinct(hs)
                 /\ Check(SliceChunks(got, i), hs)
                 /\ SliceRead(d, got, i).parts = DeleteEmpty(Read(hs))
                 /\ Check(SliceChunks(got, i), Headers(DeleteEmpty(Read(hs))))
<1> DEFINE hs == Chain(d, got, i)
           n == SliceChunks(got, i)
           ps == DeleteEmpty(Read(hs))
<1>1. SliceRead(d, got, i) =
        IF Closed(got, i, hs) /\ Check(n, hs) /\ Check(n, Headers(ps))
        THEN [ok |-> TRUE, parts |-> ps] ELSE [ok |-> FALSE, parts |-> <<>>]
  BY DEF SliceRead, Read
<1> HIDE DEF ps
<1>2. Closed(got, i, hs) /\ Check(n, hs) /\ Check(n, Headers(ps))
      /\ SliceRead(d, got, i).parts = ps
  <2> HIDE DEF hs, n
  <2> QED BY <1>1
<1>3. /\ hs \in Seq(HeaderType) /\ Len(hs) # 0 /\ hs[1].start = 0
      /\ \A k \in 1 .. Len(hs) : InPlace(d, i, hs[k])
      /\ Distinct(hs)
  BY <1>2, AcceptedChain
<1>4. hs[Len(hs)].next = 0
  BY <1>2 DEF Closed
<1> HIDE DEF hs, n
<1>5. PICK l \in Nat : l = Len(hs) /\ DOMAIN hs = 1 .. l
  BY <1>3, SequenceIs
<1>6. Within(n, hs) /\ SubsRight(hs) /\ RingOf(hs)
  BY <1>2, <1>5, CheckIs
<1>7. ASSUME NEW k \in 1 .. Len(hs) - 1 PROVE hs[k].next # 0 /\ hs[k].next = hs[k + 1].start
  <2>1. k \in 1 .. l /\ k + 1 \in 1 .. l /\ 1 \in 1 .. l /\ k + 1 # 1 /\ k # l
    BY <1>5
  <2>2. hs[k].next = hs[k + 1].start
    BY <1>5, <1>6, <2>1 DEF RingOf, After
  <2>3. hs[k + 1].start # hs[1].start
    BY <1>3, <1>5, <2>1 DEF Distinct
  <2> QED BY <1>3, <2>2, <2>3
<1>8. Path(d, i, hs)
  BY <1>3, <1>4, <1>7 DEF Path
<1>9. SubsMet(hs)
  BY <1>3, <1>6, SubsMetIfRight
<1> QED BY <1>2, <1>3, <1>8, <1>9 DEF Listed, ps, n

-----------------------------------------------------------------------------
(* The list in memory beside the one that was read.                        *)

LEMMA HeadersAre ==
  ASSUME NEW ps \in Seq(PartType)
  PROVE  /\ Headers(ps) \in Seq(HeaderType) /\ Len(Headers(ps)) = Len(ps)
         /\ DOMAIN Headers(ps) = 1 .. Len(ps) /\ Len(ps) \in Nat
         /\ \A k \in 1 .. Len(ps) : Headers(ps)[k] = ps[k].h /\ ps[k] \in PartType
                                    /\ ps[k].h \in HeaderType
<1>1. PICK l \in Nat : l = Len(ps) /\ DOMAIN ps = 1 .. l
  BY SequenceIs
<1>7. \A k \in 1 .. l : ps[k] \in PartType
  BY <1>1, SequenceIs
<1>2. \A k \in 1 .. l : ps[k] \in PartType /\ ps[k].h \in HeaderType
  BY <1>7 DEF PartType
<1>3. Headers(ps) = [k \in 1 .. l |-> ps[k].h]
  BY <1>1 DEF Headers
<1>4. Headers(ps) \in [1 .. l -> HeaderType]
  BY <1>2, <1>3
<1>5. Headers(ps) \in Seq(HeaderType)
  BY <1>4, SeqDef
<1>6. Len(Headers(ps)) = l
  BY <1>3, <1>5, SequenceIs
<1> QED BY <1>1, <1>2, <1>3, <1>5, <1>6

\* A ring in the order of its starts is a chain, if it begins at the beginning.
LEMMA ChainedIf ==
  ASSUME NEW hs \in Seq(HeaderType), Rising(hs), RingOf(hs), \E k \in 1 .. Len(hs) : hs[k].start = 0
  PROVE  Chained(hs)
<1>1. PICK l \in Nat : l = Len(hs)
  BY SequenceIs
<1>2. \A k \in 1 .. l : hs[k].start \in Nat
  <2> SUFFICES ASSUME NEW k \in 1 .. l PROVE hs[k].start \in Nat
    OBVIOUS
  <2>1. hs[k] \in HeaderType
    BY <1>1, SequenceIs
  <2> QED BY <2>1, HeaderNumbers
<1>3. PICK k \in 1 .. l : hs[k].start = 0
  BY <1>1
<1>4. 1 \in 1 .. l /\ l \in 1 .. l
  BY <1>3
<1>5. hs[1].start = 0
  <2>1. k = 1 \/ 1 < k
    BY <1>3
  <2>2. k = 1 \/ hs[1].start < hs[k].start
    BY <1>1, <1>4, <2>1 DEF Rising
  <2> QED BY <1>2, <1>3, <1>4, <2>2
<1>6. ASSUME NEW j \in 1 .. Len(hs) - 1 PROVE hs[j].next # 0 /\ hs[j].next = hs[j + 1].start
  <2>1. j \in 1 .. l /\ j + 1 \in 1 .. l /\ j # l /\ 1 < j + 1
    BY <1>1
  <2>2. hs[j].next = hs[j + 1].start
    BY <1>1, <2>1 DEF RingOf, After
  <2>3. hs[1].start < hs[j + 1].start
    BY <1>1, <1>4, <2>1 DEF Rising
  <2> QED BY <1>5, <2>2, <2>3
<1>7. hs[Len(hs)].next = 0
  BY <1>1, <1>4, <1>5 DEF RingOf, After
<1>8. Len(hs) # 0
  BY <1>1, <1>4
<1> QED BY <1>5, <1>6, <1>7, <1>8 DEF Chained

\* Only empty partitions are deleted.
LEMMA SurvivorsStay ==
  ASSUME NEW hs \in Seq(HeaderType), Distinct(hs), \A k \in 1 .. Len(hs) : NoHeirs(hs[k])
  PROVE  \A j \in 1 .. Len(hs) : ~(hs[j].main = 0 /\ hs[j].id = EmptyId) =>
           \E k \in 1 .. Len(DeleteEmpty(Read(hs))) : Relinked(DeleteEmpty(Read(hs))[k].h, hs[j])
<1> DEFINE parts == Read(hs)
           ps == DeleteEmpty(parts)
           Gone == {p \in Among(parts) : p.h.main = 0 /\ p.h.id = EmptyId}
           Of(p) == {p.h.start} \cup {p.h.subs[s].start : s \in DOMAIN p.h.subs}
           Places == UNION {Of(p) : p \in Gone}
           Rest == {p \in Among(parts) : p.h.start \notin Places}
<1>1. ps = IF Gone = {} THEN parts ELSE Normalize(Rest)
  BY DEF DeleteEmpty
<1>2. /\ parts \in Seq(PartType) /\ Len(parts) = Len(hs)
      /\ \A k \in 1 .. Len(hs) : parts[k] = [h |-> hs[k], modified |-> FALSE]
      /\ \A p \in Among(parts) :
           /\ p.modified = FALSE
           /\ \E k \in 1 .. Len(hs) : p = parts[k] /\ p.h = hs[k]
  BY ReadFacts
<1> SUFFICES ASSUME NEW j \in 1 .. Len(hs), ~(hs[j].main = 0 /\ hs[j].id = EmptyId)
             PROVE  \E k \in 1 .. Len(ps) : Relinked(ps[k].h, hs[j])
  BY DEF parts
<1> HIDE DEF ps, parts
<1>3. /\ Among(parts) \subseteq PartType /\ IsFiniteSet(Among(parts))
      /\ \A k \in 1 .. Len(hs) : parts[k] \in Among(parts)
  BY <1>2, AmongFacts
<1>4. parts[j] \in Among(parts) /\ parts[j].h = hs[j]
  <2>1. PICK h : h = hs[j]
    OBVIOUS
  <2>2. parts[j] = [h |-> h, modified |-> FALSE] /\ parts[j] \in Among(parts)
    BY <1>2, <1>3, <2>1
  <2> QED BY <2>1, <2>2
<1>5. CASE Gone = {}
  <2>1. ps = parts
    BY <1>1, <1>5
  <2>2. Relinked(parts[j].h, hs[j])
    BY <1>4 DEF Relinked
  <2> QED BY <1>2, <2>1, <2>2
<1>6. CASE Gone # {}
  <2>1. ps = Normalize(Rest)
    BY <1>1, <1>6
  <2>2. Rest \subseteq PartType /\ IsFiniteSet(Rest) /\ Rest \subseteq Among(parts)
    <3>1. Rest \subseteq Among(parts)
      OBVIOUS
    <3> HIDE DEF Rest
    <3> QED BY <1>3, <3>1, FS_Subset
  <2>3. ASSUME NEW p \in Gone PROVE hs[j].start \notin Of(p)
    <3>1. PICK k \in 1 .. Len(hs) : p.h = hs[k]
      BY <1>2
    <3>2. p.h.start # hs[j].start
      <4>1. k # j
        BY <3>1
      <4> QED BY <3>1, <4>1 DEF Distinct
    <3>3. p.h.subs = <<>>
      BY <3>1 DEF NoHeirs
    <3>4. DOMAIN p.h.subs = {}
      BY <3>3
    <3> QED BY <3>2, <3>4
  <2>4. hs[j].start \notin Places
    BY <2>3
  <2>5. parts[j] \in Rest
    BY <1>4, <2>4
  <2> HIDE DEF Rest
  <2>6. /\ \A k \in 1 .. Len(ps) : \E p \in Rest : Relinked(ps[k].h, p.h)
        /\ \A p \in Rest : \E k \in 1 .. Len(ps) : ps[k].h.start = p.h.start
    BY <2>1, <2>2, NormalizeFacts
  <2>7. PICK k \in 1 .. Len(ps) : ps[k].h.start = hs[j].start
    BY <1>4, <2>5, <2>6
  <2>8. PICK p \in Rest : Relinked(ps[k].h, p.h)
    BY <2>6
  <2>9. PICK m \in 1 .. Len(hs) : p.h = hs[m]
    BY <1>2, <2>2, <2>8
  <2>10. m = j
    BY <2>7, <2>8, <2>9 DEF Relinked, Distinct
  <2> QED BY <2>8, <2>9, <2>10
<1> QED BY <1>5, <1>6

\* no new game
NoNew == [start |-> -1, subs |-> <<>>]

ModStarts(ps) == {ps[k].h.start : k \in {k \in 1 .. Len(ps) : ps[k].modified}}

\* what is not modified is as it was read
Unchanged(was, ps) ==
  \A k \in 1 .. Len(ps) : ps[k].modified \/ \E j \in 1 .. Len(was) : ps[k].h = was[j]

Between(d, i, was, ps, new, waits) ==
  /\ ps \in Seq(PartType) /\ Derived(was, Headers(ps), new)
  /\ Mixed(d, i, was, Headers(ps), waits) /\ Unchanged(was, ps)

Heirless(d) == \A c \in DOMAIN d : d[c].hdr # Junk => NoHeirs(d[c].hdr)

\* an accepted list, and the one that is made of it
Accepted(d, got, i, hs, ps) ==
  /\ Listed(d, i, hs) /\ Distinct(hs) /\ Check(SliceChunks(got, i), hs) /\ ListGood(d, i, hs)
  /\ ps \in Seq(PartType) /\ ps = DeleteEmpty(Read(hs)) /\ Check(SliceChunks(got, i), Headers(ps))
  /\ Chained(hs) /\ \A k \in 1 .. Len(hs) : NoHeirs(hs[k]) /\ hs[k].start < SliceChunks(got, i)

LEMMA ReadAccepted ==
  ASSUME NEW d, HeadersTyped(d), NEW got, NEW i \in {0, 1}, SliceRead(d, got, i).ok, Heirless(d),
         \A hs : Listed(d, i, hs) => ListGood(d, i, hs)
  PROVE  \E hs : Accepted(d, got, i, hs, SliceRead(d, got, i).parts)
<1>1. PICK hs : /\ Listed(d, i, hs) /\ Distinct(hs) /\ Check(SliceChunks(got, i), hs)
                /\ SliceRead(d, got, i).parts = DeleteEmpty(Read(hs))
                /\ Check(SliceChunks(got, i), Headers(DeleteEmpty(Read(hs))))
  BY ReadListed
<1>2. PICK ps : ps = DeleteEmpty(Read(hs)) /\ ps = SliceRead(d, got, i).parts
  BY <1>1
<1>3. ListGood(d, i, hs) /\ Path(d, i, hs)
  BY <1>1 DEF Listed
<1>4. hs \in Seq(HeaderType)
  BY <1>3 DEF Path
<1>5. ps \in Seq(PartType)
  BY <1>1, <1>2, <1>4, DeleteEmptyFacts DEF EmptiesGone
<1>6. Chained(hs)
  BY <1>3 DEF Path, ListGood, Chained
<1>7. ASSUME NEW k \in 1 .. Len(hs) PROVE NoHeirs(hs[k])
  <2>1. InPlace(d, i, hs[k]) /\ hs[k] \in HeaderType
    BY <1>3, <1>4, SequenceIs DEF Path
  <2>2. hs[k] # Junk
    BY <2>1, NotJunk
  <2> QED BY <2>1, <2>2 DEF InPlace, Heirless
<1>8. ASSUME NEW k \in 1 .. Len(hs) PROVE hs[k].start < SliceChunks(got, i)
  <2>1. Len(hs) \in Nat /\ DOMAIN hs = 1 .. Len(hs)
    BY <1>4, SequenceIs
  <2> QED BY <1>1, <2>1, CheckIs DEF Within
<1> QED BY <1>1, <1>2, <1>3, <1>5, <1>6, <1>7, <1>8 DEF Accepted

LEMMA RelinkedAlike == ASSUME NEW h, NEW g, Relinked(h, g) PROVE Alike(h, g)
BY DEF Relinked, Alike

LEMMA NoNewIs == NoNew.start = -1 /\ NoNew.subs = <<>>
BY DEF NoNew

\* What is read is made of what was accepted, and nothing is lost but empty
\* partitions.
LEMMA ReadDerived ==
  ASSUME NEW d, NEW got, NEW i \in {0, 1}, NEW hs, NEW ps, Accepted(d, got, i, hs, ps),
         hs[1].id = MbrId
  PROVE  Derived(hs, Headers(ps), NoNew) /\ Unchanged(hs, ps)
<1>1. /\ Listed(d, i, hs) /\ Distinct(hs) /\ ListGood(d, i, hs) /\ ps \in Seq(PartType)
      /\ ps = DeleteEmpty(Read(hs)) /\ Chained(hs) /\ \A k \in 1 .. Len(hs) : NoHeirs(hs[k])
  BY DEF Accepted
<1>2. hs \in Seq(HeaderType)
  BY <1>1 DEF Chained
<1>20. PICK n \in Nat : n = Len(hs) /\ n # 0 /\ 1 \in 1 .. n
  BY <1>1, <1>2 DEF Chained
<1>21. \A k \in 1 .. n : hs[k] \in HeaderType
  BY <1>2, <1>20, SequenceIs
<1>30. PICK m \in Nat : m = Len(ps)
  BY <1>1, HeadersAre
<1>31. PICK is : is = Headers(ps)
  OBVIOUS
<1>3. /\ is = Headers(ps) /\ m = Len(ps) /\ is \in Seq(HeaderType) /\ Len(is) = m
      /\ \A k \in 1 .. m : is[k] = ps[k].h
  BY <1>1, <1>30, <1>31, HeadersAre
<1>4. /\ \A k \in 1 .. m : \E j \in 1 .. n :
           Relinked(ps[k].h, hs[j]) /\ (ps[k].modified \/ ps[k].h = hs[j])
      /\ \A j \in 1 .. n :
           hs[j].start = 0 /\ hs[j].id # EmptyId => \E k \in 1 .. m : ps[k].h.start = 0
      /\ ps = Read(hs) \/ (Rising(is) /\ RingOf(is))
  <2>1. EmptiesGone(hs, ps)
    BY <1>1, <1>2, DeleteEmptyFacts
  <2> QED BY <1>3, <1>20, <2>1 DEF EmptiesGone
<1>5. Chained(is)
  <2>1. CASE ps = Read(hs)
    <3>1. m = n /\ \A k \in 1 .. n : ps[k] = [h |-> hs[k], modified |-> FALSE]
      BY <1>2, <1>3, <1>20, <2>1, ReadFacts
    <3>2. \A k \in 1 .. n : is[k] = hs[k]
      <4> SUFFICES ASSUME NEW k \in 1 .. n PROVE is[k] = hs[k]
        OBVIOUS
      <4>1. PICK h : h = hs[k]
        OBVIOUS
      <4>2. ps[k] = [h |-> h, modified |-> FALSE]
        BY <3>1, <4>1
      <4>3. ps[k].h = h
        BY <4>2
      <4> QED BY <1>3, <3>1, <4>1, <4>3
    <3>3. is = hs
      BY <1>2, <1>3, <1>20, <3>1, <3>2
    <3> QED BY <1>1, <3>3
  <2>2. CASE Rising(is) /\ RingOf(is)
    <3>1. MbrId # EmptyId
      <4>1. MbrId[2] = "mbr" /\ EmptyId[2] = "empty"
        BY DEF MbrId, EmptyId
      <4> QED BY <4>1
    <3>2. hs[1].start = 0
      BY <1>1 DEF Chained
    <3>3. \E k \in 1 .. m : ps[k].h.start = 0
      BY <1>4, <1>20, <3>1, <3>2
    <3>4. \E k \in 1 .. Len(is) : is[k].start = 0
      BY <1>3, <3>3
    <3> QED BY <1>3, <2>2, <3>4, ChainedIf
  <2> QED BY <1>4, <2>1, <2>2
<1>6. \A k \in 1 .. m : \E j \in 1 .. n : Alike(is[k], hs[j])
  BY <1>3, <1>4, RelinkedAlike
<1>7. ASSUME NEW j \in 1 .. n, Kept(hs, j)
      PROVE  hs[j].start # NoNew.start /\ \E k \in 1 .. m : Alike(is[k], hs[j])
  <2>1. hs[j].start \in Nat /\ NoHeirs(hs[j])
    BY <1>1, <1>20, <1>21, HeaderNumbers
  <2>2. PICK k \in 1 .. n : hs[k].main # 0 /\ hs[j].start \in {hs[k].start, hs[k].main}
    BY <1>7, <1>20 DEF Kept
  <2>3. ~(hs[j].main = 0 /\ hs[j].id = EmptyId)
    <3>1. CASE hs[j].start = hs[k].start
      <4>1. j = k
        BY <1>1, <1>20, <3>1 DEF Distinct
      <4> QED BY <2>2, <4>1
    <3>2. CASE hs[j].start = hs[k].main
      <4>1. hs[j].main = 0 => hs[j].subs # <<>>
        BY <1>1, <1>20, <2>2, <3>2 DEF Listed, SubsMet
      <4> QED BY <2>1, <4>1 DEF NoHeirs
    <3> QED BY <2>2, <3>1, <3>2
  <2>4. \E q \in 1 .. Len(ps) : Relinked(ps[q].h, hs[j])
    BY <1>1, <1>2, <1>20, <2>3, SurvivorsStay
  <2>5. \E q \in 1 .. m : Alike(is[q], hs[j])
    BY <1>3, <2>4, RelinkedAlike
  <2> QED BY <2>1, <2>5, NoNewIs
<1>8. Derived(hs, is, NoNew)
  <2>1. Sound(hs)
    BY <1>1 DEF ListGood
  <2>2. NoNew.start \in Int /\ NoNew.start # 0 /\ DOMAIN NoNew.subs = {} /\ NoNew.subs = <<>>
    BY NoNewIs
  <2>3. Len(is) = m
    BY <1>3
  <2> QED BY <1>1, <1>5, <1>6, <1>7, <1>20, <2>1, <2>2, <2>3 DEF Derived
<1>9. Unchanged(hs, ps)
  BY <1>3, <1>4, <1>20 DEF Unchanged
<1> QED BY <1>3, <1>8, <1>9

\* What the disk has beside a list that was read: all is as it was.
LEMMA ReadMixed ==
  ASSUME NEW d, NEW got, NEW i \in {0, 1}, NEW hs, NEW ps, Accepted(d, got, i, hs, ps),
         Unchanged(hs, ps)
  PROVE  Mixed(d, i, hs, Headers(ps), ModStarts(ps))
<1>1. Listed(d, i, hs) /\ ListGood(d, i, hs) /\ ps \in Seq(PartType)
  BY DEF Accepted
<1>30. PICK m \in Nat : m = Len(ps)
  BY <1>1, HeadersAre
<1>31. PICK is : is = Headers(ps)
  OBVIOUS
<1>3. /\ is = Headers(ps) /\ m = Len(ps) /\ is \in Seq(HeaderType) /\ Len(is) = m
      /\ \A k \in 1 .. m : is[k] = ps[k].h
  BY <1>1, <1>30, <1>31, HeadersAre
<1>4. \A j \in 1 .. Len(hs) : hs[j] = d[Base(i) + hs[j].start].hdr
  BY <1>1 DEF Listed, Path, InPlace
<1> SUFFICES ASSUME NEW c \in 0 .. Chunks - 1, Base(i) + c < Chunks, d[Base(i) + c].hdr # Junk
             PROVE  IF c \in Starts(is) \ ModStarts(ps) THEN AsIs(d[Base(i) + c].hdr, c, is)
                    ELSE AsWas(d[Base(i) + c].hdr, c, hs)
  BY <1>3 DEF Mixed
<1>5. CASE c \in Starts(is) \ ModStarts(ps)
  <2>1. PICK k \in 1 .. m : is[k].start = c
    BY <1>3, <1>5 DEF Starts
  <2>2. ~ps[k].modified
    BY <1>3, <1>5, <2>1 DEF ModStarts
  <2>3. PICK j \in 1 .. Len(hs) : ps[k].h = hs[j]
    BY <1>3, <2>2 DEF Unchanged
  <2>4. d[Base(i) + c].hdr = is[k]
    BY <1>3, <1>4, <2>1, <2>3
  <2> QED BY <1>3, <1>5, <2>1, <2>4 DEF AsIs
<1>6. AsWas(d[Base(i) + c].hdr, c, hs)
  <2>1. CASE c \in Starts(hs)
    <3>1. PICK j \in 1 .. Len(hs) : hs[j].start = c
      BY <2>1 DEF Starts
    <3>2. d[Base(i) + c].hdr = hs[j]
      BY <1>4, <3>1
    <3> QED BY <3>1, <3>2 DEF AsWas
  <2>2. CASE c \notin Starts(hs)
    <3>1. d[Base(i) + c].hdr.start = c /\ d[Base(i) + c].hdr.main # 0 =>
            \E k \in 1 .. Len(hs) : hs[k].start = c
      BY <1>1 DEF ListGood, Complete
    <3>2. d[Base(i) + c].hdr.main = 0 \/ d[Base(i) + c].hdr.start # c
      BY <2>2, <3>1 DEF Starts
    <3> QED BY <2>2, <3>2 DEF AsWas
  <2> QED BY <2>1, <2>2
<1> QED BY <1>5, <1>6

\* a partition in memory that may be written to the disk
Fit(d, i, h) ==
  /\ NoHeirs(h)
  /\ h.start = 0 => /\ h.id = MbrId
                    /\ i = 0 => h.main = 0 /\ h.dialect = d[0].hdr.dialect

\* The list of a slice in memory, beside the disk: the one that was read, with
\* the changes the command makes, of which some wait to be written.
TableOn(d, got, i, ps, new, waits) ==
  /\ \E was : /\ Between(d, i, was, ps, new, waits)
              /\ \A j \in 1 .. Len(was) : was[j].start < SliceChunks(got, i)
  /\ \A k \in 1 .. Len(ps) : Fit(d, i, ps[k].h)
  /\ Check(SliceChunks(got, i), Headers(ps))

DiskSane(d) == Heirless(d) /\ SystemFirst(d) /\ ListsGood(d)

LEMMA ReadTable ==
  ASSUME NEW d, HeadersTyped(d), DiskSane(d), NEW got, NEW i \in SlicesOn(d),
         SliceRead(d, got, i).ok, NEW ps, ps = SliceRead(d, got, i).parts
  PROVE  TableOn(d, got, i, ps, NoNew, ModStarts(ps))
<1>1. i \in {0, 1} /\ Heirless(d) /\ \A hs : Listed(d, i, hs) => ListGood(d, i, hs)
  BY DEF SlicesOn, DiskSane, ListsGood
<1>2. PICK hs : Accepted(d, got, i, hs, ps)
  BY <1>1, ReadAccepted
<1>3. /\ hs \in Seq(HeaderType) /\ Len(hs) # 0 /\ hs[1].start = 0 /\ ps \in Seq(PartType)
      /\ \A k \in 1 .. Len(hs) : InPlace(d, i, hs[k]) /\ NoHeirs(hs[k])
      /\ \A j \in 1 .. Len(hs) : hs[j].start < SliceChunks(got, i)
      /\ ps = DeleteEmpty(Read(hs)) /\ Distinct(hs) /\ Check(SliceChunks(got, i), Headers(ps))
  BY <1>2 DEF Accepted, Listed, Path
<1>4. PICK n \in Nat : n = Len(hs) /\ 1 \in 1 .. n
  BY <1>3
<1>5. ASSUME NEW j \in 1 .. n PROVE Fit(d, i, hs[j])
  <2>1. NoHeirs(hs[j]) /\ InPlace(d, i, hs[j]) /\ hs[j] \in HeaderType
    BY <1>3, <1>4, SequenceIs
  <2>2. hs[j] # Junk
    BY <2>1, NotJunk
  <2>3. ASSUME hs[j].start = 0
        PROVE  hs[j].id = MbrId /\ (i = 0 => hs[j].main = 0 /\ hs[j].dialect = d[0].hdr.dialect)
    <3>1. PICK b \in Nat : b = Base(i)
      BY <1>1, BaseIs
    <3>2. b \in DOMAIN d /\ hs[j] = d[b].hdr
      <4>1. b + 0 = b
        OBVIOUS
      <4> QED BY <2>1, <2>3, <3>1, <4>1 DEF InPlace
    <3>3. b < Chunks
      BY <3>2, DiskAssumption DEF HeadersTyped
    <3>4. hs[j].id = MbrId
      BY <2>2, <3>1, <3>2, <3>3 DEF DiskSane, SystemFirst
    <3>5. i = 0 => hs[j] = d[0].hdr
      BY <3>1, <3>2, BaseIs
    <3> QED BY <3>4, <3>5 DEF DiskSane, SystemFirst
  <2> QED BY <2>1, <2>3 DEF Fit
<1>6. hs[1].id = MbrId
  BY <1>3, <1>4, <1>5 DEF Fit
<1>7. Derived(hs, Headers(ps), NoNew) /\ Unchanged(hs, ps)
  BY <1>1, <1>2, <1>6, ReadDerived
<1>8. Mixed(d, i, hs, Headers(ps), ModStarts(ps))
  BY <1>1, <1>2, <1>7, ReadMixed
<1>9. ASSUME NEW k \in 1 .. Len(ps) PROVE Fit(d, i, ps[k].h)
  <2>1. PICK j \in 1 .. Len(hs) : Relinked(ps[k].h, hs[j])
    <3>1. EmptiesGone(hs, ps)
      BY <1>3, DeleteEmptyFacts
    <3> QED BY <3>1 DEF EmptiesGone
  <2>2. Fit(d, i, hs[j])
    BY <1>4, <1>5
  <2> QED BY <2>1, <2>2 DEF Fit, Relinked, NoHeirs
<1> QED BY <1>3, <1>7, <1>8, <1>9 DEF TableOn, Between

-----------------------------------------------------------------------------
(* The list with a new game in it.                                         *)

\* runs that are available beside the partitions hs, in ascending order
RunsFit(n, hs, runs) ==
  /\ GoodRuns(runs)
  /\ \A k \in 1 .. Len(runs) :
       /\ runs[k].start \in Available(n, hs) /\ runs[k].start < n
       /\ runs[k].start + runs[k].len <= n /\ runs[k].start % runs[k].len = 0
       /\ \A j \in 1 .. Len(runs) : j < k => runs[j].start < runs[k].start

LEMMA RunsFitIn ==
  ASSUME NEW n \in Nat, n <= Chunks, NEW hs, NEW mb \in Nat, Allocate(n, hs, mb) # <<>>
  PROVE  RunsFit(n, hs, Allocate(n, hs, mb))
<1>1. PICK runs : runs = Allocate(n, hs, mb)
  OBVIOUS
<1>2. /\ GoodRuns(runs)
      /\ \A k \in 1 .. Len(runs) : runs[k].start \in 0 .. n - 1 /\ runs[k].start \in Available(n, hs)
  BY <1>1, RunsGood
<1>3. Len(runs) \in Nat /\ DOMAIN runs = 1 .. Len(runs)
  BY <1>2, SequenceIs DEF GoodRuns
<1>4. ASSUME NEW k \in 1 .. Len(runs)
      PROVE  /\ runs[k].start + runs[k].len <= n /\ runs[k].start % runs[k].len = 0
             /\ \A j \in 1 .. Len(runs) : j < k => runs[j].start < runs[k].start
  <2>1. k \in DOMAIN Allocate(n, hs, mb)
    BY <1>1, <1>3
  <2>2. /\ runs[k].start % runs[k].len = 0 /\ Span(runs[k]) \subseteq 0 .. n - 1
        /\ \A j \in DOMAIN runs : j # k => (j < k <=> runs[j].start < runs[k].start)
    BY <1>1, <2>1, AllocatedRuns
  <2>3. PICK a \in Nat, l \in Nat \ {0} : a = runs[k].start /\ l = runs[k].len
    <3>1. runs[k].start \in 0 .. Chunks - 1 /\ runs[k].len \in 1 .. Chunks
      BY <1>2 DEF GoodRuns
    <3> QED BY <3>1, DiskAssumption
  <2>4. a + l - 1 \in Span(runs[k])
    BY <2>3 DEF Span
  <2>5. a + l <= n
    BY <2>2, <2>3, <2>4
  <2>6. ASSUME NEW j \in 1 .. Len(runs), j < k PROVE runs[j].start < runs[k].start
    <3>1. j \in DOMAIN runs /\ j # k
      BY <1>3, <2>6
    <3> QED BY <2>2, <2>6, <3>1
  <2> QED BY <2>2, <2>3, <2>5, <2>6
<1>5. ASSUME NEW k \in 1 .. Len(runs) PROVE runs[k].start < n
  BY <1>2
<1> QED BY <1>1, <1>2, <1>4, <1>5 DEF RunsFit

\* the headers js with the partitions of a new game among them
Added(hs, js, id, runs) ==
  /\ hs \in Seq(HeaderType) /\ js \in Seq(HeaderType) /\ Rising(hs) /\ Rising(js)
  /\ \A k \in 1 .. Len(js) : \/ \E j \in 1 .. Len(hs) : Relinked(js[k], hs[j])
                             \/ \E m \in 1 .. Len(runs) : Relinked(js[k], NewHeader(id, runs, m))
  /\ \A j \in 1 .. Len(hs) : \E k \in 1 .. Len(js) : Relinked(js[k], hs[j])
  /\ \A m \in 1 .. Len(runs) : \E k \in 1 .. Len(js) : Relinked(js[k], NewHeader(id, runs, m))
  /\ \A j \in 1 .. Len(hs), m \in 1 .. Len(runs) : hs[j].start # runs[m].start

LEMMA AvailableOther ==
  ASSUME NEW n, NEW hs \in Seq(HeaderType), NEW k \in 1 .. Len(hs)
  PROVE  hs[k].start \notin Available(n, hs)
<1>1. k \in DOMAIN hs /\ hs[k] \in HeaderType
  BY SequenceIs
<1>2. hs[k].start \in Nat /\ hs[k].len \in Nat \ {0}
  BY <1>1, HeaderNumbers, DiskAssumption
<1>3. hs[k].start \in Span(hs[k])
  BY <1>2 DEF Span
<1> QED BY <1>1, <1>3 DEF Available

LEMMA RisingDistinct ==
  ASSUME NEW hs \in Seq(HeaderType), Rising(hs)
  PROVE  Distinct(hs)
<1>1. PICK l \in Nat : l = Len(hs)
  BY SequenceIs
<1> SUFFICES ASSUME NEW j \in 1 .. l, NEW k \in 1 .. l, hs[j].start = hs[k].start PROVE j = k
  BY <1>1 DEF Distinct
<1>2. hs[j].start \in Nat /\ hs[k].start \in Nat
  <2>1. hs[j] \in HeaderType /\ hs[k] \in HeaderType
    BY <1>1, SequenceIs
  <2> QED BY <2>1, HeaderNumbers
<1> QED BY <1>1, <1>2 DEF Rising

\* the runs of the subs of a new game
Rest(runs) == SubSeq(runs, 2, Len(runs))

LEMMA NewHeaderIs ==
  ASSUME NEW id, NEW runs, GoodRuns(runs), NEW m \in 1 .. Len(runs)
  PROVE  /\ NewHeader(id, runs, m).id = id
         /\ NewHeader(id, runs, m).start = runs[m].start /\ NewHeader(id, runs, m).len = runs[m].len
         /\ m = 1 => NewHeader(id, runs, m).main = 0
         /\ m # 1 => NewHeader(id, runs, m).main = runs[1].start
         /\ NewHeader(id, runs, m).subs = IF m = 1 THEN Rest(runs) ELSE <<>>
BY DEF NewHeader, Rest

\* The first run is the main partition, the others are its subs.
LEMMA NewSubs ==
  ASSUME NEW runs, GoodRuns(runs), NEW subs, subs = Rest(runs)
  PROVE  /\ Len(subs) = Len(runs) - 1 /\ DOMAIN subs = 1 .. Len(runs) - 1
         /\ \A m \in 1 .. Len(runs) : m # 1 => m - 1 \in DOMAIN subs /\ subs[m - 1] = runs[m]
         /\ \A s \in DOMAIN subs : s + 1 \in 1 .. Len(runs) /\ s + 1 # 1 /\ subs[s] = runs[s + 1]
<1>1. PICK n \in Nat \ {0} : n = Len(runs)
  BY SequenceIs DEF GoodRuns
<1>2. runs \in Seq([start : Nat, len : Nat])
  BY DEF GoodRuns
<1>3. Len(subs) = n - 1 /\ DOMAIN subs = 1 .. n - 1 /\ \A s \in 1 .. n - 1 : subs[s] = runs[s + 1]
  BY <1>1, <1>2 DEF Rest
<1> QED BY <1>1, <1>3

LEMMA GrownAdded ==
  ASSUME NEW n, NEW ps \in Seq(PartType), Rising(Headers(ps)), NEW id \in Ids,
         NEW runs, RunsFit(n, Headers(ps), runs), NEW new, Grown(ps, id, runs, new)
  PROVE  Added(Headers(ps), Headers(new), id, runs)
<1>1. PICK hs, js : hs = Headers(ps) /\ js = Headers(new)
  OBVIOUS
<1>2. new \in Seq(PartType) /\ Rising(js) /\ RingOf(js) /\ GoodRuns(runs) /\ Rising(hs)
  BY <1>1 DEF Grown, RunsFit
<1>3. PICK l \in Nat : l = Len(ps)
  BY HeadersAre
<1>4. PICK m \in Nat : m = Len(new)
  BY <1>2, HeadersAre
<1>5. /\ hs \in Seq(HeaderType) /\ Len(hs) = l /\ \A k \in 1 .. l : hs[k] = ps[k].h
      /\ js \in Seq(HeaderType) /\ Len(js) = m /\ \A k \in 1 .. m : js[k] = new[k].h
  BY <1>1, <1>2, <1>3, <1>4, HeadersAre
<1>6. ASSUME NEW j \in 1 .. l, NEW q \in 1 .. Len(runs) PROVE hs[j].start # runs[q].start
  <2>1. hs[j].start \notin Available(n, hs)
    BY <1>5, AvailableOther
  <2> QED BY <1>1, <2>1 DEF RunsFit
<1>7. /\ \A k \in 1 .. m : \/ \E j \in 1 .. l : Relinked(js[k], hs[j])
                           \/ \E q \in 1 .. Len(runs) : Relinked(js[k], NewHeader(id, runs, q))
      /\ \A j \in 1 .. l : \E k \in 1 .. m : js[k].start = hs[j].start
      /\ \A q \in 1 .. Len(runs) : \E k \in 1 .. m : js[k].start = runs[q].start
  <2>1. ASSUME NEW k \in 1 .. m
        PROVE  \/ \E j \in 1 .. l : Relinked(js[k], hs[j])
               \/ \E q \in 1 .. Len(runs) : Relinked(js[k], NewHeader(id, runs, q))
    BY <1>3, <1>4, <1>5 DEF Grown
  <2>2. ASSUME NEW j \in 1 .. l PROVE \E k \in 1 .. m : js[k].start = hs[j].start
    <3>1. \E k \in 1 .. Len(new) : new[k].h.start = ps[j].h.start
      BY <1>3 DEF Grown
    <3>2. PICK k \in 1 .. m : new[k].h.start = ps[j].h.start
      BY <1>4, <3>1
    <3> QED BY <1>5, <3>2
  <2>3. ASSUME NEW q \in 1 .. Len(runs) PROVE \E k \in 1 .. m : js[k].start = runs[q].start
    <3>1. \E k \in 1 .. Len(new) : new[k].h.start = runs[q].start
      BY DEF Grown
    <3>2. PICK k \in 1 .. m : new[k].h.start = runs[q].start
      BY <1>4, <3>1
    <3> QED BY <1>5, <3>2
  <2> QED BY <2>1, <2>2, <2>3
<1>8. Distinct(hs)
  BY <1>2, <1>5, RisingDistinct
<1>9. ASSUME NEW j \in 1 .. l PROVE \E k \in 1 .. m : Relinked(js[k], hs[j])
  <2>1. PICK k \in 1 .. m : js[k].start = hs[j].start
    BY <1>7
  <2>2. CASE \E q \in 1 .. Len(runs) : Relinked(js[k], NewHeader(id, runs, q))
    <3>1. PICK q \in 1 .. Len(runs) : Relinked(js[k], NewHeader(id, runs, q))
      BY <2>2
    <3>2. js[k].start = runs[q].start
      BY <1>2, <3>1, NewHeaderIs DEF Relinked
    <3> QED BY <1>6, <2>1, <3>2
  <2>3. CASE \E q \in 1 .. l : Relinked(js[k], hs[q])
    <3>1. PICK q \in 1 .. l : Relinked(js[k], hs[q])
      BY <2>3
    <3>2. hs[q].start = hs[j].start
      BY <2>1, <3>1 DEF Relinked
    <3>3. q = j
      BY <1>5, <1>8, <3>2 DEF Distinct
    <3> QED BY <3>1, <3>3
  <2> QED BY <1>7, <2>2, <2>3
<1>10. ASSUME NEW q \in 1 .. Len(runs) PROVE \E k \in 1 .. m : Relinked(js[k], NewHeader(id, runs, q))
  <2>0. PICK r \in Nat : r = Len(runs)
    BY <1>2, SequenceIs DEF GoodRuns
  <2>1. PICK k \in 1 .. m : js[k].start = runs[q].start
    BY <1>7
  <2>2. CASE \E j \in 1 .. l : Relinked(js[k], hs[j])
    <3>1. PICK j \in 1 .. l : js[k].start = hs[j].start
      BY <2>2 DEF Relinked
    <3> QED BY <1>6, <2>1, <3>1
  <2>3. CASE \E p \in 1 .. Len(runs) : Relinked(js[k], NewHeader(id, runs, p))
    <3>1. PICK p \in 1 .. r : Relinked(js[k], NewHeader(id, runs, p))
      BY <2>0, <2>3
    <3>2. runs[p].start = runs[q].start
      BY <1>2, <2>0, <2>1, <3>1, NewHeaderIs DEF Relinked
    <3>3. runs[p].start \in Nat /\ runs[q].start \in Nat
      BY <1>2, <2>0, DiskAssumption DEF GoodRuns
    <3>4. ~(runs[p].start < runs[q].start) /\ ~(runs[q].start < runs[p].start)
      BY <3>2, <3>3
    <3>5. ~(p < q) /\ ~(q < p)
      BY <2>0, <3>4 DEF RunsFit
    <3>6. p = q
      BY <2>0, <3>5
    <3> QED BY <3>1, <3>6
  <2> QED BY <1>7, <2>2, <2>3
<1> QED BY <1>1, <1>2, <1>5, <1>6, <1>7, <1>9, <1>10 DEF Added

LEMMA AddedDerived ==
  ASSUME NEW n, NEW was, NEW hs, NEW js, NEW id \in Ids, NEW runs, RunsFit(n, hs, runs),
         Derived(was, hs, NoNew), Added(hs, js, id, runs), RingOf(js)
  PROVE  Derived(was, js, NewHeader(id, runs, 1))
<1> DEFINE main == NewHeader(id, runs, 1)
<1>1. PICK l \in Nat, m \in Nat, w \in Nat, r \in Nat \ {0} :
        l = Len(hs) /\ m = Len(js) /\ w = Len(was) /\ r = Len(runs)
  <2>1. hs \in Seq(HeaderType) /\ js \in Seq(HeaderType) /\ was \in Seq(HeaderType)
    BY DEF Added, Derived, Chained
  <2>2. GoodRuns(runs)
    BY DEF RunsFit
  <2> QED BY <2>1, <2>2, SequenceIs DEF GoodRuns
<1>2. GoodRuns(runs) /\ 1 \in 1 .. r
  BY <1>1 DEF RunsFit
<1>3. /\ main.start = runs[1].start /\ main.main = 0 /\ main.subs = Rest(runs)
  BY <1>1, <1>2, NewHeaderIs
<1> HIDE DEF main
<1>4. ASSUME NEW k \in 1 .. m, NEW q \in 1 .. r, Relinked(js[k], NewHeader(id, runs, q))
      PROVE  /\ q = 1 => IsNewMain(js[k], main)
             /\ q # 1 => IsNewSub(js[k], main)
  <2>1. /\ js[k].start = runs[q].start
        /\ q = 1 => js[k].main = 0 /\ js[k].subs = main.subs
        /\ q # 1 => js[k].main = main.start
    BY <1>1, <1>2, <1>3, <1>4, NewHeaderIs DEF Relinked
  <2>2. q # 1 => \E s \in DOMAIN main.subs : main.subs[s].start = js[k].start
    <3>1. q # 1 => q - 1 \in DOMAIN main.subs /\ main.subs[q - 1] = runs[q]
      BY <1>1, <1>2, <1>3, NewSubs
    <3> QED BY <2>1, <3>1
  <2> QED BY <1>3, <2>1, <2>2 DEF IsNewMain, IsNewSub
<1>5. ASSUME NEW j \in 1 .. l PROVE \E p \in 1 .. w : Alike(hs[j], was[p])
  <2>1. ~IsNewMain(hs[j], NoNew)
    <3>1. hs[j] \in HeaderType
      BY <1>1, SequenceIs DEF Added
    <3>2. hs[j].start \in Nat
      BY <3>1, HeaderNumbers
    <3> QED BY <3>2, NoNewIs DEF IsNewMain
  <2>2. ~IsNewSub(hs[j], NoNew)
    BY NoNewIs DEF IsNewSub
  <2> QED BY <1>1, <2>1, <2>2 DEF Derived
<1>6. Chained(js)
  <2>1. hs[1].start = 0 /\ 1 \in 1 .. l
    BY <1>1 DEF Derived, Chained
  <2>2. PICK k \in 1 .. Len(js) : Relinked(js[k], hs[1])
    BY <1>1, <2>1 DEF Added
  <2>3. \E q \in 1 .. Len(js) : js[q].start = 0
    BY <2>1, <2>2 DEF Relinked
  <2> QED BY <2>3, ChainedIf DEF Added
<1>7. ASSUME NEW k \in 1 .. m
      PROVE  \/ \E p \in 1 .. w : Alike(js[k], was[p])
             \/ IsNewMain(js[k], main) \/ IsNewSub(js[k], main)
  <2>1. CASE \E j \in 1 .. l : Relinked(js[k], hs[j])
    <3>1. PICK j \in 1 .. l : Relinked(js[k], hs[j])
      BY <2>1
    <3>2. PICK p \in 1 .. w : Alike(hs[j], was[p])
      BY <1>5
    <3> QED BY <3>1, <3>2 DEF Relinked, Alike
  <2>2. CASE \E q \in 1 .. r : Relinked(js[k], NewHeader(id, runs, q))
    BY <1>4, <2>2
  <2> QED BY <1>1, <2>1, <2>2 DEF Added
<1>8. ASSUME NEW p \in 1 .. w, Kept(was, p)
      PROVE  was[p].start # main.start /\ \E k \in 1 .. m : Alike(js[k], was[p])
  <2>1. PICK j \in 1 .. l : Alike(hs[j], was[p])
    BY <1>1, <1>8 DEF Derived
  <2>2. PICK k \in 1 .. m : Relinked(js[k], hs[j])
    BY <1>1 DEF Added
  <2>3. hs[j].start # runs[1].start
    BY <1>1, <1>2 DEF Added
  <2> QED BY <1>3, <2>1, <2>2, <2>3 DEF Relinked, Alike
<1>9. main.start \in Int /\ main.start # 0
  <2>1. runs[1].start \in Int
    BY <1>1, <1>2, DiskAssumption DEF GoodRuns
  <2>2. hs[1].start = 0 /\ 1 \in 1 .. l
    BY <1>1 DEF Derived, Chained
  <2>3. hs[1].start # runs[1].start
    BY <1>1, <1>2, <2>2 DEF Added
  <2> QED BY <1>3, <2>1, <2>2, <2>3
<1>10. ASSUME NEW s \in DOMAIN main.subs PROVE main.start < main.subs[s].start
  <2>1. s + 1 \in 1 .. r /\ s + 1 # 1 /\ main.subs[s] = runs[s + 1]
    BY <1>1, <1>2, <1>3, NewSubs
  <2>2. 1 < s + 1
    BY <2>1
  <2> QED BY <1>1, <1>2, <1>3, <2>1, <2>2 DEF RunsFit
<1>11. \E k \in 1 .. m : IsNewMain(js[k], main)
  <2>1. PICK k \in 1 .. m : Relinked(js[k], NewHeader(id, runs, 1))
    BY <1>1, <1>2 DEF Added
  <2> QED BY <1>2, <1>4, <2>1
<1>12. Chained(was) /\ Sound(was)
  BY DEF Derived
<1>13. Derived(was, js, main)
  BY <1>1, <1>6, <1>7, <1>8, <1>9, <1>10, <1>11, <1>12 DEF Derived
<1> QED BY <1>13 DEF main

\* one of S for each of T
Pairs(f, S, T) == /\ f \in [S -> T] /\ \A a, b \in S : f[a] = f[b] => a = b
                  /\ \A x \in T : \E a \in S : f[a] = x

LEMMA Paired ==
  ASSUME NEW m \in Nat, NEW S, S \subseteq 1 .. m, NEW T, NEW f, Pairs(f, S, T)
  PROVE  Cardinality(S) = Cardinality(T)
<1>1. IsFiniteSet(S)
  <2>1. IsFiniteSet(1 .. m)
    <3>1. 1 \in Int /\ m \in Int
      OBVIOUS
    <3> QED BY <3>1, FS_Interval, Zenon
  <2> QED BY <2>1, FS_Subset
<1>2. f \in Injection(S, T) /\ f \in Surjection(S, T)
  BY DEF Pairs, Injection, IsInjective, Surjection
<1> QED BY <1>1, <1>2, FS_Surjection

\* a main partition has the subs it says
RightAt(js, k) ==
  /\ \A q \in SubsOf(js, k) : \E s \in DOMAIN js[k].subs :
       js[k].subs[s] = [start |-> js[q].start, len |-> js[q].len]
  /\ Cardinality(SubsOf(js, k)) = Len(js[k].subs)

\* a partition of the old list keeps its subs
LEMMA AddedOld ==
  ASSUME NEW n, NEW hs, NEW js, NEW id \in Ids, NEW runs, RunsFit(n, hs, runs),
         Added(hs, js, id, runs), SubsRight(hs),
         NEW k \in 1 .. Len(js), js[k].main = 0, js[k].start # 0,
         NEW j \in 1 .. Len(hs), Relinked(js[k], hs[j])
  PROVE  RightAt(js, k)
<1>1. PICK l \in Nat, m \in Nat, r \in Nat \ {0} : l = Len(hs) /\ m = Len(js) /\ r = Len(runs)
  <2>1. hs \in Seq(HeaderType) /\ js \in Seq(HeaderType) /\ GoodRuns(runs)
    BY DEF Added, RunsFit
  <2> QED BY <2>1, SequenceIs DEF GoodRuns
<1>2. GoodRuns(runs) /\ 1 \in 1 .. r /\ Distinct(hs) /\ Distinct(js)
  BY <1>1, RisingDistinct DEF RunsFit, Added
<1>3. PICK S, T : S = SubsOf(js, k) /\ T = SubsOf(hs, j)
  OBVIOUS
<1>4. /\ S \subseteq 1 .. m /\ T \subseteq 1 .. l
      /\ \A q \in 1 .. m : q \in S <=> js[q].main = js[k].start
      /\ \A x \in 1 .. l : x \in T <=> hs[x].main = hs[j].start
  BY <1>1, <1>3 DEF SubsOf
<1>5. hs[j].main = 0 /\ hs[j].start = js[k].start /\ hs[j].start # 0 /\ hs[j].subs = js[k].subs
  BY DEF Relinked
<1>6. /\ \A x \in T : \E s \in DOMAIN hs[j].subs :
           hs[j].subs[s] = [start |-> hs[x].start, len |-> hs[x].len]
      /\ Cardinality(T) = Len(hs[j].subs)
  BY <1>1, <1>3, <1>5 DEF SubsRight
<1>7. ASSUME NEW q \in S PROVE \E x \in 1 .. l : Relinked(js[q], hs[x])
  <2>1. CASE \E p \in 1 .. r : Relinked(js[q], NewHeader(id, runs, p))
    <3>1. PICK p \in 1 .. r : Relinked(js[q], NewHeader(id, runs, p))
      BY <2>1
    <3>2. js[q].main = 0 \/ js[q].main = runs[1].start
      BY <1>1, <1>2, <3>1, NewHeaderIs DEF Relinked
    <3>3. hs[j].start # runs[1].start
      BY <1>1, <1>2 DEF Added
    <3> QED BY <1>4, <1>5, <3>2, <3>3
  <2> QED BY <1>1, <1>4, <2>1 DEF Added
<1> DEFINE f == [q \in S |-> CHOOSE x \in 1 .. l : Relinked(js[q], hs[x])]
<1>8. ASSUME NEW q \in S PROVE f[q] \in 1 .. l /\ Relinked(js[q], hs[f[q]])
  <2>1. f[q] = CHOOSE x \in 1 .. l : Relinked(js[q], hs[x])
    OBVIOUS
  <2> QED BY <1>7, <2>1
<1>80. DOMAIN f = S /\ f = [q \in S |-> f[q]]
  OBVIOUS
<1> HIDE DEF f
<1>9. ASSUME NEW q \in S PROVE f[q] \in T
  <2>1. hs[f[q]].main = hs[j].start
    BY <1>4, <1>5, <1>8 DEF Relinked
  <2> QED BY <1>4, <1>8, <2>1
<1>10. f \in [S -> T]
  BY <1>9, <1>80
<1>11. ASSUME NEW a \in S, NEW b \in S, f[a] = f[b] PROVE a = b
  <2>1. js[a].start = hs[f[a]].start /\ js[b].start = hs[f[b]].start
    BY <1>8 DEF Relinked
  <2> QED BY <1>1, <1>2, <1>4, <1>11, <2>1 DEF Distinct
<1>12. ASSUME NEW x \in T PROVE \E a \in S : f[a] = x
  <2>1. PICK q \in 1 .. m : Relinked(js[q], hs[x])
    BY <1>1, <1>4 DEF Added
  <2>2. q \in S
    BY <1>4, <1>5, <2>1 DEF Relinked
  <2>3. hs[f[q]].start = hs[x].start
    BY <1>8, <2>1, <2>2 DEF Relinked
  <2>4. f[q] = x
    BY <1>1, <1>2, <1>4, <1>8, <2>2, <2>3 DEF Distinct
  <2> QED BY <2>2, <2>4
<1>13. Cardinality(S) = Cardinality(T)
  <2>1. Pairs(f, S, T)
    BY <1>10, <1>11, <1>12 DEF Pairs
  <2> QED BY <1>4, <2>1, Paired
<1>14. ASSUME NEW q \in S
       PROVE  \E s \in DOMAIN js[k].subs : js[k].subs[s] = [start |-> js[q].start, len |-> js[q].len]
  <2>1. js[q].start = hs[f[q]].start /\ js[q].len = hs[f[q]].len
    BY <1>8 DEF Relinked
  <2> QED BY <1>5, <1>6, <1>9, <2>1
<1> QED BY <1>3, <1>5, <1>6, <1>13, <1>14 DEF RightAt

\* No sub that was in the list calls one of the new partitions its main one.
LEMMA NoOrphan ==
  ASSUME NEW was, NEW hs, NEW js, NEW id \in Ids, NEW runs, Derived(was, hs, NoNew),
         Added(hs, js, id, runs), NEW j \in 1 .. Len(hs), hs[j].main # 0, NEW m \in 1 .. Len(runs)
  PROVE  hs[j].main # runs[m].start
<1>1. PICK l \in Nat, w \in Nat : l = Len(hs) /\ w = Len(was)
  <2>1. hs \in Seq(HeaderType) /\ was \in Seq(HeaderType)
    BY DEF Added, Derived, Chained
  <2> QED BY <2>1, SequenceIs
<1>2. PICK p \in 1 .. w : Alike(hs[j], was[p])
  <2>1. hs[j].start \in Nat
    <3>1. hs[j] \in HeaderType
      BY SequenceIs DEF Added
    <3> QED BY <3>1, HeaderNumbers
  <2>2. ~IsNewMain(hs[j], NoNew) /\ ~IsNewSub(hs[j], NoNew)
    BY <2>1, NoNewIs DEF IsNewMain, IsNewSub
  <2> QED BY <1>1, <2>2 DEF Derived
<1>3. was[p].main # 0 /\ was[p].main = hs[j].main
  BY <1>2 DEF Alike
<1>4. PICK q \in 1 .. w : was[q].start = was[p].main
  BY <1>1, <1>3 DEF Derived, Sound
<1>5. Kept(was, q)
  BY <1>1, <1>3, <1>4 DEF Kept
<1>6. PICK x \in 1 .. l : Alike(hs[x], was[q])
  BY <1>1, <1>5 DEF Derived
<1>7. hs[x].start = hs[j].main
  BY <1>3, <1>4, <1>6 DEF Alike
<1> QED BY <1>1, <1>7 DEF Added

\* the new main partition has its subs
LEMMA AddedNew ==
  ASSUME NEW n, NEW was, NEW hs, NEW js, NEW id \in Ids, NEW runs, RunsFit(n, hs, runs),
         Added(hs, js, id, runs), Derived(was, hs, NoNew),
         NEW k \in 1 .. Len(js), js[k].main = 0, js[k].start # 0,
         NEW a \in 1 .. Len(runs), Relinked(js[k], NewHeader(id, runs, a))
  PROVE  RightAt(js, k)
<1>1. PICK l \in Nat, m \in Nat, r \in Nat \ {0} : l = Len(hs) /\ m = Len(js) /\ r = Len(runs)
  <2>1. hs \in Seq(HeaderType) /\ js \in Seq(HeaderType) /\ GoodRuns(runs)
    BY DEF Added, RunsFit
  <2> QED BY <2>1, SequenceIs DEF GoodRuns
<1>2. GoodRuns(runs) /\ 1 \in 1 .. r /\ Distinct(js)
  BY <1>1, RisingDistinct DEF RunsFit, Added
<1>3. \A q \in 1 .. r : /\ runs[q] \in [start : Nat, len : Nat]
                        /\ runs[q].start \in Nat /\ runs[q].len \in Nat
                        /\ runs[q] = [start |-> runs[q].start, len |-> runs[q].len]
  <2>1. \A q \in 1 .. r : runs[q] \in [start : Nat, len : Nat]
    BY <1>1, <1>2, SequenceIs DEF GoodRuns
  <2> QED BY <2>1
<1>20. a = 1
  <2>1. runs[1].start # 0
    <3>1. hs[1].start = 0 /\ 1 \in 1 .. l
      BY <1>1 DEF Derived, Chained
    <3>2. hs[1].start # runs[1].start
      BY <1>1, <1>2, <3>1 DEF Added
    <3> QED BY <3>1, <3>2
  <2>2. a # 1 => js[k].main = runs[1].start
    BY <1>1, <1>2, NewHeaderIs DEF Relinked
  <2> QED BY <2>1, <2>2
<1>21. PICK subs : subs = Rest(runs)
  OBVIOUS
<1>22. js[k].start = runs[1].start /\ js[k].subs = subs
  BY <1>1, <1>2, <1>20, <1>21, NewHeaderIs DEF Relinked
<1>23. /\ Len(subs) = r - 1 /\ DOMAIN subs = 1 .. r - 1
       /\ \A p \in 1 .. r : p # 1 => p - 1 \in DOMAIN subs /\ subs[p - 1] = runs[p]
       /\ \A s \in DOMAIN subs : s + 1 \in 1 .. r /\ s + 1 # 1 /\ subs[s] = runs[s + 1]
  BY <1>1, <1>2, <1>21, NewSubs
<1>4. PICK S : S = SubsOf(js, k)
  OBVIOUS
<1>5. S \subseteq 1 .. m /\ \A q \in 1 .. m : q \in S <=> js[q].main = runs[1].start
  BY <1>1, <1>4, <1>22 DEF SubsOf
<1>6. ASSUME NEW q \in S
      PROVE  \E s \in DOMAIN subs : Relinked(js[q], NewHeader(id, runs, s + 1))
  <2>1. js[q].main = runs[1].start /\ js[q].main # 0
    BY <1>5, <1>22
  <2>2. CASE \E x \in 1 .. l : Relinked(js[q], hs[x])
    <3>1. PICK x \in 1 .. l : Relinked(js[q], hs[x])
      BY <2>2
    <3>2. hs[x].main = js[q].main
      BY <3>1 DEF Relinked
    <3> QED BY <1>1, <1>2, <2>1, <3>2, NoOrphan
  <2>3. CASE \E p \in 1 .. r : Relinked(js[q], NewHeader(id, runs, p))
    <3>1. PICK p \in 1 .. r : Relinked(js[q], NewHeader(id, runs, p))
      BY <2>3
    <3>2. p # 1
      BY <1>1, <1>2, <2>1, <3>1, NewHeaderIs DEF Relinked
    <3>3. p - 1 \in DOMAIN subs /\ p - 1 + 1 = p
      BY <1>23, <3>2
    <3> QED BY <3>1, <3>3
  <2> QED BY <1>1, <1>5, <2>2, <2>3 DEF Added
<1> DEFINE f == [q \in S |-> CHOOSE s \in DOMAIN subs : Relinked(js[q], NewHeader(id, runs, s + 1))]
<1>8. ASSUME NEW q \in S
      PROVE  f[q] \in DOMAIN subs /\ Relinked(js[q], NewHeader(id, runs, f[q] + 1))
  <2>1. f[q] = CHOOSE s \in DOMAIN subs : Relinked(js[q], NewHeader(id, runs, s + 1))
    OBVIOUS
  <2> QED BY <1>6, <2>1
<1>80. DOMAIN f = S /\ f = [q \in S |-> f[q]]
  OBVIOUS
<1> HIDE DEF f
<1>9. ASSUME NEW q \in S
      PROVE  js[q].start = subs[f[q]].start /\ js[q].len = subs[f[q]].len
  <2>1. PICK p \in 1 .. r : p = f[q] + 1 /\ subs[f[q]] = runs[p]
    BY <1>8, <1>23
  <2>2. Relinked(js[q], NewHeader(id, runs, p))
    BY <1>8, <2>1
  <2> QED BY <1>1, <1>2, <2>1, <2>2, NewHeaderIs DEF Relinked
<1>10. ASSUME NEW b \in S, NEW c \in S, f[b] = f[c] PROVE b = c
  <2>1. js[b].start = js[c].start
    BY <1>9, <1>10
  <2> QED BY <1>1, <1>2, <1>5, <2>1 DEF Distinct
<1>11. ASSUME NEW s \in DOMAIN subs PROVE \E q \in S : f[q] = s
  <2>1. PICK p \in 1 .. r : p = s + 1 /\ p # 1 /\ subs[s] = runs[p]
    BY <1>23
  <2>2. PICK q \in 1 .. m : Relinked(js[q], NewHeader(id, runs, p))
    BY <1>1 DEF Added
  <2>3. js[q].main = runs[1].start /\ js[q].start = runs[p].start
    BY <1>1, <1>2, <2>1, <2>2, NewHeaderIs DEF Relinked
  <2>4. q \in S
    BY <1>5, <2>3
  <2>5. PICK p2 \in 1 .. r : p2 = f[q] + 1 /\ subs[f[q]] = runs[p2]
    BY <1>8, <1>23, <2>4
  <2>6. runs[p].start = runs[p2].start
    BY <1>9, <2>3, <2>4, <2>5
  <2>7. ~(p < p2) /\ ~(p2 < p)
    <3>1. \A x, y \in 1 .. r : x < y => runs[x].start < runs[y].start
      BY <1>1 DEF RunsFit
    <3>2. runs[p].start \in Nat /\ runs[p2].start \in Nat
      BY <1>3
    <3> QED BY <2>6, <3>1, <3>2
  <2>8. p = p2
    BY <2>7
  <2>9. f[q] = s
    <3>1. f[q] \in Int /\ s \in Int
      BY <1>8, <1>23, <2>4
    <3> QED BY <2>1, <2>5, <2>8, <3>1
  <2> QED BY <2>4, <2>9
<1>12. Cardinality(S) = r - 1
  <2>1. f \in [S -> DOMAIN subs]
    BY <1>8, <1>80
  <2>2. Pairs(f, S, DOMAIN subs)
    BY <1>10, <1>11, <2>1 DEF Pairs
  <2>3. Cardinality(S) = Cardinality(DOMAIN subs)
    BY <1>5, <2>2, Paired
  <2>4. PICK z \in Nat : z = r - 1
    OBVIOUS
  <2>5. Cardinality(1 .. z) = IF 1 > z THEN 0 ELSE z - 1 + 1
    <3>1. 1 \in Int /\ z \in Int
      OBVIOUS
    <3> QED BY <3>1, FS_Interval, Zenon
  <2> QED BY <1>23, <2>3, <2>4, <2>5
<1>13. ASSUME NEW q \in S
       PROVE  \E s \in DOMAIN subs : subs[s] = [start |-> js[q].start, len |-> js[q].len]
  <2>1. PICK p \in 1 .. r : subs[f[q]] = runs[p]
    BY <1>8, <1>23
  <2>2. subs[f[q]] = [start |-> subs[f[q]].start, len |-> subs[f[q]].len]
    BY <1>3, <2>1
  <2>3. subs[f[q]] = [start |-> js[q].start, len |-> js[q].len]
    BY <1>9, <2>2
  <2> QED BY <1>8, <2>3
<1> QED BY <1>4, <1>12, <1>13, <1>22, <1>23 DEF RightAt

LEMMA AddedCheck ==
  ASSUME NEW n, NEW was, NEW hs, NEW js, NEW id \in Ids, NEW runs, RunsFit(n, hs, runs),
         Added(hs, js, id, runs), Derived(was, hs, NoNew), Check(n, hs), RingOf(js)
  PROVE  Check(n, js)
<1>1. PICK l \in Nat, m \in Nat, r \in Nat \ {0} : l = Len(hs) /\ m = Len(js) /\ r = Len(runs)
  <2>1. hs \in Seq(HeaderType) /\ js \in Seq(HeaderType) /\ GoodRuns(runs)
    BY DEF Added, RunsFit
  <2> QED BY <2>1, SequenceIs DEF GoodRuns
<1>2. GoodRuns(runs) /\ DOMAIN hs = 1 .. Len(hs) /\ DOMAIN js = 1 .. Len(js)
  BY SequenceIs DEF RunsFit, Added
<1>3. Within(n, hs) /\ SubsRight(hs)
  BY <1>1, <1>2, CheckIs
<1>4. Within(n, js)
  <2> SUFFICES ASSUME NEW k \in 1 .. Len(js)
               PROVE  /\ js[k].start < n /\ js[k].start + js[k].len <= n
                      /\ js[k].start % js[k].len = 0
    BY DEF Within
  <2>1. CASE \E j \in 1 .. Len(hs) : Relinked(js[k], hs[j])
    <3>1. PICK j \in 1 .. Len(hs) : js[k].start = hs[j].start /\ js[k].len = hs[j].len
      BY <2>1 DEF Relinked
    <3> QED BY <1>3, <3>1 DEF Within
  <2>2. CASE \E q \in 1 .. Len(runs) : Relinked(js[k], NewHeader(id, runs, q))
    <3>1. PICK q \in 1 .. Len(runs) : js[k].start = runs[q].start /\ js[k].len = runs[q].len
      BY <1>2, <2>2, NewHeaderIs DEF Relinked
    <3> QED BY <3>1 DEF RunsFit
  <2> QED BY <2>1, <2>2 DEF Added
<1>5. SubsRight(js)
  <2> SUFFICES ASSUME NEW k \in 1 .. Len(js), js[k].main = 0, js[k].start # 0
               PROVE  RightAt(js, k)
    BY DEF SubsRight, RightAt
  <2>1. CASE \E j \in 1 .. Len(hs) : Relinked(js[k], hs[j])
    <3>1. PICK j \in 1 .. Len(hs) : Relinked(js[k], hs[j])
      BY <2>1
    <3> QED BY <1>3, <3>1, AddedOld
  <2>2. CASE \E q \in 1 .. Len(runs) : Relinked(js[k], NewHeader(id, runs, q))
    <3>1. PICK a \in 1 .. Len(runs) : Relinked(js[k], NewHeader(id, runs, a))
      BY <2>2
    <3> QED BY <3>1, AddedNew
  <2> QED BY <2>1, <2>2 DEF Added
<1> QED BY <1>1, <1>2, <1>4, <1>5, CheckIs

\* What a list has that is not modified was in the one that it was made of.
LEMMA Remixed ==
  ASSUME NEW d, NEW i, NEW was, NEW ps \in Seq(PartType), NEW new \in Seq(PartType),
         Distinct(Headers(ps)), Unchanged(was, ps),
         Mixed(d, i, was, Headers(ps), ModStarts(ps)),
         \A k \in 1 .. Len(new) :
           new[k].modified \/ \E j \in 1 .. Len(ps) : new[k].h = ps[j].h /\ ~ps[j].modified
  PROVE  Unchanged(was, new) /\ Mixed(d, i, was, Headers(new), ModStarts(new))
<1>1. PICK hs, js : hs = Headers(ps) /\ js = Headers(new)
  OBVIOUS
<1>11. PICK l \in Nat : l = Len(ps)
  BY HeadersAre
<1>12. PICK m \in Nat : m = Len(new)
  BY HeadersAre
<1>13. /\ Len(hs) = l /\ \A k \in 1 .. l : hs[k] = ps[k].h
       /\ Len(js) = m /\ \A k \in 1 .. m : js[k] = new[k].h
  BY <1>1, <1>11, <1>12, HeadersAre
<1>14. ASSUME NEW k \in 1 .. m, ~new[k].modified
       PROVE  \E j \in 1 .. l : js[k] = hs[j] /\ ~ps[j].modified
  <2>1. PICK j \in 1 .. l : new[k].h = ps[j].h /\ ~ps[j].modified
    BY <1>11, <1>12, <1>14
  <2> QED BY <1>13, <2>1
<1>15. Unchanged(was, new)
  <2> SUFFICES ASSUME NEW k \in 1 .. m, ~new[k].modified
               PROVE  \E j \in 1 .. Len(was) : new[k].h = was[j]
    BY <1>12 DEF Unchanged
  <2>1. PICK j \in 1 .. l : js[k] = hs[j] /\ ~ps[j].modified
    BY <1>14
  <2> QED BY <1>11, <1>13, <2>1, SMTT(30) DEF Unchanged
<1>16. Distinct(hs)
  BY <1>1
<1>17. Mixed(d, i, was, js, ModStarts(new))
  <2> SUFFICES ASSUME NEW c \in 0 .. Chunks - 1, Base(i) + c < Chunks, d[Base(i) + c].hdr # Junk
               PROVE  IF c \in Starts(js) \ ModStarts(new) THEN AsIs(d[Base(i) + c].hdr, c, js)
                      ELSE AsWas(d[Base(i) + c].hdr, c, was)
    BY DEF Mixed
  <2>1. PICK v : v = d[Base(i) + c].hdr
    OBVIOUS
  <2>2. IF c \in Starts(hs) \ ModStarts(ps) THEN AsIs(v, c, hs) ELSE AsWas(v, c, was)
    BY <1>1, <2>1 DEF Mixed
  <2>3. CASE c \in Starts(js) \ ModStarts(new)
    <3>1. PICK k \in 1 .. m : js[k].start = c
      BY <1>13, <2>3 DEF Starts
    <3>2. ~new[k].modified
      BY <1>12, <1>13, <2>3, <3>1 DEF ModStarts
    <3>3. PICK j \in 1 .. l : js[k] = hs[j] /\ ~ps[j].modified
      BY <1>14, <3>2
    <3>4. c \in Starts(hs)
      BY <1>13, <3>1, <3>3 DEF Starts
    <3>5. c \notin ModStarts(ps)
      <4> SUFFICES ASSUME NEW x \in 1 .. l, ps[x].modified, ps[x].h.start = c PROVE FALSE
        BY <1>11 DEF ModStarts
      <4>1. x = j
        BY <1>13, <1>16, <3>1, <3>3 DEF Distinct
      <4> QED BY <3>3, <4>1
    <3>6. PICK x \in 1 .. l : hs[x].start = c /\ v = hs[x]
      BY <1>13, <2>2, <3>4, <3>5 DEF AsIs
    <3>7. x = j
      BY <1>13, <1>16, <3>1, <3>3, <3>6 DEF Distinct
    <3>8. AsIs(v, c, js)
      BY <1>13, <3>1, <3>3, <3>6, <3>7 DEF AsIs
    <3> QED BY <2>1, <2>3, <3>8
  <2>4. CASE c \notin Starts(js) \ ModStarts(new)
    <3>1. CASE c \in Starts(hs) \ ModStarts(ps)
      <4>1. PICK x \in 1 .. l : hs[x].start = c /\ v = hs[x]
        BY <1>13, <2>2, <3>1 DEF AsIs
      <4>2. ~ps[x].modified
        BY <1>11, <1>13, <3>1, <4>1 DEF ModStarts
      <4>3. PICK j \in 1 .. Len(was) : hs[x] = was[j]
        BY <1>11, <1>13, <4>2 DEF Unchanged
      <4>4. AsWas(v, c, was)
        BY <4>1, <4>3 DEF AsWas
      <4> QED BY <2>1, <2>4, <4>4
    <3>2. CASE c \notin Starts(hs) \ ModStarts(ps)
      BY <2>1, <2>2, <2>4, <3>2
    <3> QED BY <3>1, <3>2
  <2> QED BY <2>3, <2>4
<1> QED BY <1>1, <1>15, <1>17

\* What is in memory of a slice when a game is to be installed there.
LEMMA InstalledTable ==
  ASSUME NEW d, HeadersTyped(d), NEW got, NEW i \in {0, 1}, NEW ps,
         TableOn(d, got, i, ps, NoNew, ModStarts(ps)), NEW id \in Ids,
         NEW runs, RunsFit(SliceChunks(got, i), Headers(ps), runs),
         NEW new, new = WithNew(ps, id, runs)
  PROVE  /\ TableOn(d, got, i, new, NewHeader(id, runs, 1), ModStarts(new))
         /\ \E k \in 1 .. Len(new) : new[k].modified /\ new[k].h.start = runs[1].start
<1>1. PICK n : n = SliceChunks(got, i)
  OBVIOUS
<1>2. PICK was : /\ Between(d, i, was, ps, NoNew, ModStarts(ps))
                 /\ \A j \in 1 .. Len(was) : was[j].start < n
  BY <1>1 DEF TableOn
<1>3. PICK hs, js, main : hs = Headers(ps) /\ js = Headers(new) /\ main = NewHeader(id, runs, 1)
  OBVIOUS
<1>4. /\ ps \in Seq(PartType) /\ Derived(was, hs, NoNew) /\ Mixed(d, i, was, hs, ModStarts(ps))
      /\ Unchanged(was, ps) /\ Check(n, hs) /\ \A k \in 1 .. Len(ps) : Fit(d, i, ps[k].h)
  BY <1>1, <1>2, <1>3 DEF Between, TableOn
<1>5. RunsFit(n, hs, runs) /\ GoodRuns(runs)
  BY <1>1, <1>3 DEF RunsFit
<1>6. Grown(ps, id, runs, new)
  BY <1>4, <1>5, WithNewFacts
<1>7. new \in Seq(PartType) /\ RingOf(js)
  BY <1>3, <1>6 DEF Grown
<1>8. Added(hs, js, id, runs)
  <2>1. Rising(hs)
    BY <1>4 DEF Derived, Chained
  <2> QED BY <1>3, <1>4, <1>5, <1>6, <2>1, GrownAdded
<1>9. Derived(was, js, main)
  BY <1>3, <1>4, <1>5, <1>7, <1>8, AddedDerived
<1>10. Check(n, js)
  BY <1>4, <1>5, <1>7, <1>8, AddedCheck
<1>11. PICK l \in Nat : l = Len(ps)
  BY <1>4, HeadersAre
<1>12. PICK m \in Nat : m = Len(new)
  BY <1>7, HeadersAre
<1>13. /\ hs \in Seq(HeaderType) /\ Len(hs) = l /\ \A k \in 1 .. l : hs[k] = ps[k].h
       /\ js \in Seq(HeaderType) /\ Len(js) = m /\ \A k \in 1 .. m : js[k] = new[k].h
  BY <1>3, <1>4, <1>7, <1>11, <1>12, HeadersAre
<1>14. /\ \A k \in 1 .. m :
            \/ \E j \in 1 .. l : /\ Relinked(js[k], hs[j])
                                 /\ new[k].modified \/ (js[k] = hs[j] /\ ~ps[j].modified)
            \/ \E q \in 1 .. Len(runs) : Relinked(js[k], NewHeader(id, runs, q)) /\ new[k].modified
  <2> SUFFICES ASSUME NEW k \in 1 .. m
               PROVE  \/ \E j \in 1 .. l : /\ Relinked(js[k], hs[j])
                                           /\ new[k].modified \/ (js[k] = hs[j] /\ ~ps[j].modified)
                      \/ \E q \in 1 .. Len(runs) :
                           Relinked(js[k], NewHeader(id, runs, q)) /\ new[k].modified
    OBVIOUS
  <2>1. CASE \E q \in 1 .. Len(runs) :
               Relinked(new[k].h, NewHeader(id, runs, q)) /\ new[k].modified
    BY <1>13, <2>1
  <2>2. CASE \E j \in 1 .. Len(ps) :
               /\ Relinked(new[k].h, ps[j].h)
               /\ new[k].modified \/ (new[k].h = ps[j].h /\ ~ps[j].modified)
    <3>1. PICK j \in 1 .. l : /\ Relinked(new[k].h, ps[j].h)
                              /\ new[k].modified \/ (new[k].h = ps[j].h /\ ~ps[j].modified)
      BY <1>11, <2>2
    <3> QED BY <1>13, <3>1
  <2> QED BY <1>6, <1>12, <2>1, <2>2 DEF Grown
<1>15. ASSUME NEW k \in 1 .. m, ~new[k].modified
       PROVE  \E j \in 1 .. l : new[k].h = ps[j].h /\ ~ps[j].modified
  <2>1. PICK j \in 1 .. l : js[k] = hs[j] /\ ~ps[j].modified
    BY <1>14, <1>15
  <2> QED BY <1>13, <2>1
<1>16. Distinct(hs)
  BY <1>8, RisingDistinct DEF Added
<1>17. Unchanged(was, new) /\ Mixed(d, i, was, js, ModStarts(new))
  <2>1. \A k \in 1 .. Len(new) :
          new[k].modified \/ \E j \in 1 .. Len(ps) : new[k].h = ps[j].h /\ ~ps[j].modified
    BY <1>11, <1>12, <1>15
  <2> QED BY <1>3, <1>4, <1>7, <1>16, <2>1, Remixed
<1>18. ASSUME NEW k \in 1 .. m PROVE Fit(d, i, new[k].h)
  <2>1. CASE \E j \in 1 .. l : Relinked(js[k], hs[j])
    <3>1. PICK j \in 1 .. l : Relinked(js[k], hs[j])
      BY <2>1
    <3>2. Fit(d, i, hs[j])
      BY <1>4, <1>11, <1>13
    <3> QED BY <1>13, <3>1, <3>2 DEF Fit, Relinked, NoHeirs
  <2>2. CASE \E q \in 1 .. Len(runs) : Relinked(js[k], NewHeader(id, runs, q))
    <3>1. PICK q \in 1 .. Len(runs) : js[k].id = id /\ js[k].start = runs[q].start
      BY <1>5, <2>2, NewHeaderIs DEF Relinked
    <3>2. hs[1].start = 0 /\ 1 \in 1 .. l
      BY <1>4, <1>13 DEF Derived, Chained
    <3>3. js[k].start # 0
      BY <1>8, <1>13, <3>1, <3>2 DEF Added
    <3>4. js[k].id # EmptyId
      BY <3>1, IdsOther
    <3> QED BY <1>13, <3>3, <3>4 DEF Fit, NoHeirs
  <2> QED BY <1>14, <2>1, <2>2
<1>19. \E k \in 1 .. m : new[k].modified /\ new[k].h.start = runs[1].start
  <2>0. PICK r \in Nat \ {0} : r = Len(runs)
    BY <1>5, SequenceIs DEF GoodRuns
  <2>1. PICK k \in 1 .. m : js[k].start = runs[1].start
    <3>1. PICK k \in 1 .. Len(js) : Relinked(js[k], NewHeader(id, runs, 1))
      BY <1>8, <2>0 DEF Added
    <3>2. js[k].start = runs[1].start
      BY <1>5, <2>0, <3>1, NewHeaderIs DEF Relinked
    <3> QED BY <1>13, <3>1, <3>2
  <2>2. ~\E j \in 1 .. l : Relinked(js[k], hs[j])
    <3> SUFFICES ASSUME NEW j \in 1 .. l, Relinked(js[k], hs[j]) PROVE FALSE
      OBVIOUS
    <3>1. hs[j].start = runs[1].start
      BY <2>1 DEF Relinked
    <3>2. j \in 1 .. Len(hs) /\ 1 \in 1 .. Len(runs)
      BY <1>13, <2>0
    <3>3. hs[j].start # runs[1].start
      BY <1>8, <3>2, Zenon DEF Added
    <3> QED BY <3>1, <3>3
  <2>3. new[k].modified
    BY <1>14, <2>2
  <2> QED BY <1>13, <2>1, <2>3
<1>20. Between(d, i, was, new, main, ModStarts(new))
  BY <1>3, <1>7, <1>9, <1>17 DEF Between
<1> QED BY <1>1, <1>2, <1>3, <1>10, <1>12, <1>18, <1>19, <1>20 DEF TableOn

\* h is g but for its name
SameButId(h, g) == /\ h.start = g.start /\ h.len = g.len /\ h.main = g.main /\ h.subs = g.subs
                   /\ h.dialect = g.dialect /\ h.next = g.next /\ h.prev = g.prev

\* apa_check does not look at names
LEMMA CheckSame ==
  ASSUME NEW n, NEW hs \in Seq(HeaderType), NEW js \in Seq(HeaderType), Len(js) = Len(hs),
         \A k \in 1 .. Len(hs) : SameButId(js[k], hs[k]), Check(n, hs)
  PROVE  Check(n, js)
<1>1. PICK l \in Nat : l = Len(hs) /\ l = Len(js) /\ DOMAIN hs = 1 .. l /\ DOMAIN js = 1 .. l
  BY SequenceIs
<1>2. Within(n, hs) /\ SubsRight(hs) /\ RingOf(hs)
  BY <1>1, CheckIs
<1>3. \A k \in 1 .. l : SameButId(js[k], hs[k])
  BY <1>1
<1>4. \A k \in 1 .. l : /\ js[k].start = hs[k].start /\ js[k].len = hs[k].len
                        /\ js[k].main = hs[k].main /\ js[k].subs = hs[k].subs
                        /\ js[k].next = hs[k].next /\ js[k].prev = hs[k].prev
  BY <1>3 DEF SameButId
<1>5. Within(n, js)
  BY <1>1, <1>2, <1>4 DEF Within
<1>6. SubsRight(js)
  <2> SUFFICES ASSUME NEW k \in 1 .. l, js[k].main = 0, js[k].start # 0 PROVE RightAt(js, k)
    BY <1>1 DEF SubsRight, RightAt
  <2>1. RightAt(hs, k)
    BY <1>1, <1>2, <1>4 DEF SubsRight, RightAt
  <2>2. SubsOf(js, k) = SubsOf(hs, k) /\ SubsOf(js, k) \subseteq 1 .. l
    BY <1>1, <1>4 DEF SubsOf
  <2>3. ASSUME NEW q \in SubsOf(js, k)
        PROVE  \E s \in DOMAIN js[k].subs : js[k].subs[s] = [start |-> js[q].start, len |-> js[q].len]
    BY <1>4, <2>1, <2>2 DEF RightAt
  <2>4. Cardinality(SubsOf(js, k)) = Len(js[k].subs)
    BY <1>4, <2>1, <2>2 DEF RightAt
  <2> QED BY <2>3, <2>4 DEF RightAt
<1>7. RingOf(js)
  <2>1. \A k \in 1 .. l : After(l, k) \in 1 .. l /\ Behind(l, k) \in 1 .. l
    BY DEF After, Behind
  <2> QED BY <1>1, <1>2, <1>4, <2>1 DEF RingOf
<1> QED BY <1>1, <1>5, <1>6, <1>7, CheckIs

\* a list with one game renamed
OneRenamed(ps, new, k, id) ==
  /\ ps \in Seq(PartType) /\ new \in Seq(PartType) /\ Len(new) = Len(ps) /\ k \in 1 .. Len(ps)
  /\ ps[k].h.id \in Ids /\ new[k] = Renamed(ps[k], id)
  /\ \A j \in 1 .. Len(ps) : j # k => new[j] = ps[j]

LEMMA RenamedTable ==
  ASSUME NEW d, NEW got, NEW i \in {0, 1}, NEW ps,
         TableOn(d, got, i, ps, NoNew, ModStarts(ps)), NEW id \in Ids,
         NEW new, NEW k, OneRenamed(ps, new, k, id)
  PROVE  TableOn(d, got, i, new, NoNew, ModStarts(new))
<1>1. PICK was : /\ Between(d, i, was, ps, NoNew, ModStarts(ps))
                 /\ \A j \in 1 .. Len(was) : was[j].start < SliceChunks(got, i)
  BY DEF TableOn
<1>2. PICK hs, js : hs = Headers(ps) /\ js = Headers(new)
  OBVIOUS
<1>3. PICK l \in Nat : l = Len(ps) /\ l = Len(new)
  BY HeadersAre DEF OneRenamed
<1>4. /\ ps \in Seq(PartType) /\ Derived(was, hs, NoNew) /\ Mixed(d, i, was, hs, ModStarts(ps))
      /\ Unchanged(was, ps) /\ Check(SliceChunks(got, i), hs)
      /\ \A j \in 1 .. l : Fit(d, i, ps[j].h)
      /\ new \in Seq(PartType) /\ k \in 1 .. l
  BY <1>1, <1>2, <1>3 DEF Between, TableOn, OneRenamed
<1>5. /\ hs \in Seq(HeaderType) /\ Len(hs) = l /\ \A j \in 1 .. l : hs[j] = ps[j].h
      /\ js \in Seq(HeaderType) /\ Len(js) = l /\ \A j \in 1 .. l : js[j] = new[j].h
      /\ \A j \in 1 .. l : ps[j] \in PartType /\ ps[j].h \in HeaderType
  BY <1>2, <1>3, <1>4, HeadersAre
<1>6. new[k].modified /\ new[k].h = [ps[k].h EXCEPT !.id = id] /\ new[k].h.id = id
  BY <1>4, <1>5, RenamedFacts DEF OneRenamed
<1>7. ASSUME NEW j \in 1 .. l PROVE SameButId(js[j], hs[j])
  <2>1. CASE j = k
    <3>1. PICK h \in HeaderType : h = ps[k].h
      BY <1>4, <1>5
    <3>2. js[j] = [h EXCEPT !.id = id]
      BY <1>5, <1>6, <2>1, <3>1
    <3>3. SameButId([h EXCEPT !.id = id], h)
      BY DEF SameButId, HeaderType
    <3> QED BY <1>5, <2>1, <3>1, <3>2, <3>3
  <2>2. CASE j # k
    BY <1>3, <1>5, <2>2 DEF OneRenamed, SameButId
  <2> QED BY <2>1, <2>2
<1>8. Check(SliceChunks(got, i), js)
  <2>1. \A j \in 1 .. Len(hs) : SameButId(js[j], hs[j])
    BY <1>5, <1>7
  <2> QED BY <1>4, <1>5, <2>1, CheckSame
<1>9. \A j \in 1 .. l : /\ js[j].start = hs[j].start /\ js[j].main = hs[j].main
                        /\ js[j].subs = hs[j].subs /\ js[j].next = hs[j].next
                        /\ js[j].len = hs[j].len /\ js[j].dialect = hs[j].dialect
  BY <1>7 DEF SameButId
<1>10. Chained(js)
  <2>1. /\ l # 0 /\ hs[1].start = 0 /\ Rising(hs) /\ hs[l].next = 0
        /\ \A j \in 1 .. l - 1 : hs[j].next # 0 /\ hs[j].next = hs[j + 1].start
    BY <1>4, <1>5 DEF Derived, Chained
  <2>2. Rising(js)
    BY <1>5, <1>9, <2>1 DEF Rising
  <2>3. \A j \in 1 .. l - 1 : j \in 1 .. l /\ j + 1 \in 1 .. l
    OBVIOUS
  <2>4. \A j \in 1 .. l - 1 : js[j].next # 0 /\ js[j].next = js[j + 1].start
    BY <1>9, <2>1, <2>3
  <2>5. js[1].start = 0 /\ js[l].next = 0
    BY <1>9, <2>1
  <2> QED BY <1>5, <2>1, <2>2, <2>4, <2>5 DEF Chained
<1>11. Derived(was, js, NoNew)
  <2>1. ASSUME NEW j \in 1 .. l
        PROVE  \/ \E p \in 1 .. Len(was) : Alike(js[j], was[p])
               \/ IsNewMain(js[j], NoNew) \/ IsNewSub(js[j], NoNew)
    <3>1. \/ \E p \in 1 .. Len(was) : Alike(hs[j], was[p])
          \/ IsNewMain(hs[j], NoNew) \/ IsNewSub(hs[j], NoNew)
      BY <1>4, <1>5 DEF Derived
    <3>2. CASE \E p \in 1 .. Len(was) : Alike(hs[j], was[p])
      <4>1. PICK p \in 1 .. Len(was) : Alike(hs[j], was[p])
        BY <3>2
      <4>2. Alike(js[j], was[p])
        BY <1>9, <4>1 DEF Alike
      <4> QED BY <4>2
    <3>3. CASE IsNewMain(hs[j], NoNew)
      BY <1>9, <3>3 DEF IsNewMain
    <3>4. CASE IsNewSub(hs[j], NoNew)
      BY <1>9, <3>4 DEF IsNewSub
    <3> QED BY <3>1, <3>2, <3>3, <3>4
  <2>2. ASSUME NEW p \in 1 .. Len(was), Kept(was, p)
        PROVE  was[p].start # NoNew.start /\ \E j \in 1 .. l : Alike(js[j], was[p])
    <3>1. PICK j \in 1 .. l : Alike(hs[j], was[p])
      BY <1>4, <1>5, <2>2 DEF Derived
    <3>2. Alike(js[j], was[p])
      BY <1>9, <3>1 DEF Alike
    <3>3. was[p].start # NoNew.start
      BY <1>4, <2>2 DEF Derived
    <3> QED BY <3>2, <3>3
  <2>3. /\ Chained(was) /\ Sound(was) /\ NoNew.start \in Int /\ NoNew.start # 0
        /\ DOMAIN NoNew.subs = {} /\ NoNew.subs = <<>>
    BY <1>4, NoNewIs DEF Derived
  <2> QED BY <1>5, <1>10, <2>1, <2>2, <2>3 DEF Derived
<1>12. Unchanged(was, new) /\ Mixed(d, i, was, js, ModStarts(new))
  <2>1. ASSUME NEW j \in 1 .. l
        PROVE  new[j].modified \/ \E p \in 1 .. l : new[j].h = ps[p].h /\ ~ps[p].modified
    <3>1. CASE j = k
      BY <1>6, <3>1
    <3>2. CASE j # k
      <4>1. new[j] = ps[j]
        BY <1>3, <3>2 DEF OneRenamed
      <4> QED BY <4>1
    <3> QED BY <3>1, <3>2
  <2>2. Distinct(hs)
    BY <1>4, <1>5, RisingDistinct DEF Derived, Chained
  <2> QED BY <1>2, <1>3, <1>4, <2>1, <2>2, Remixed
<1>13. ASSUME NEW j \in 1 .. l PROVE Fit(d, i, new[j].h)
  <2>1. CASE j = k
    <3>1. js[k].start # 0
      <4>1. hs[k].start # 0
        BY <1>4, <1>5, IdsOther DEF Fit, OneRenamed
      <4> QED BY <1>4, <1>9, <4>1
    <3>2. new[k].h.id # EmptyId
      BY <1>6, IdsOther
    <3> QED BY <1>4, <1>5, <2>1, <3>1, <3>2 DEF Fit, NoHeirs
  <2>2. CASE j # k
    BY <1>3, <1>4, <2>2 DEF OneRenamed
  <2> QED BY <2>1, <2>2
<1>14. Between(d, i, was, new, NoNew, ModStarts(new))
  BY <1>2, <1>4, <1>11, <1>12 DEF Between
<1> QED BY <1>1, <1>2, <1>3, <1>8, <1>13, <1>14 DEF TableOn

-----------------------------------------------------------------------------
(* What is written to the disk, and what the lists there are like then.    *)

\* data has been written, over headers perhaps
Thinned(d, e) == /\ DOMAIN e = DOMAIN d /\ e[0].hdr = d[0].hdr
                 /\ \A c \in DOMAIN d : e[c].hdr = d[c].hdr \/ e[c].hdr = Junk

LEMMA ChunkIn ==
  ASSUME NEW d, HeadersTyped(d), NEW i \in {0, 1}, NEW c \in 0 .. Chunks - 1, Base(i) + c < Chunks
  PROVE  Base(i) + c \in DOMAIN d
<1>3. PICK b \in Nat : b = Base(i)
  BY BaseIs
<1>4. b + c \in 0 .. Chunks - 1
  BY <1>3, DiskAssumption
<1> QED BY <1>3, <1>4 DEF HeadersTyped

LEMMA SameSlices ==
  ASSUME NEW d, NEW e, e[0].hdr # Junk, d[0].hdr # Junk, e[0].hdr.dialect = d[0].hdr.dialect
  PROVE  GotSecondSlice(e) = GotSecondSlice(d) /\ SlicesOn(e) = SlicesOn(d)
BY DEF GotSecondSlice, Dialect, SlicesOn

LEMMA ThinnedSane ==
  ASSUME NEW d, HeadersTyped(d), DiskSane(d), d[0].hdr # Junk, NEW e, Thinned(d, e)
  PROVE  DiskSane(e) /\ GotSecondSlice(e) = GotSecondSlice(d)
<1>3. GotSecondSlice(e) = GotSecondSlice(d) /\ SlicesOn(e) = SlicesOn(d) /\ DOMAIN e = DOMAIN d
  BY SameSlices DEF Thinned
<1>4. Heirless(e)
  BY DEF Thinned, DiskSane, Heirless
<1>5. SystemFirst(e)
  <2>1. e[0].hdr.start = 0 /\ e[0].hdr.main = 0
    BY DEF Thinned, DiskSane, SystemFirst
  <2>2. ASSUME NEW i \in SlicesOn(e), Base(i) < Chunks, e[Base(i)].hdr # Junk
        PROVE  e[Base(i)].hdr.id = MbrId
    <3>1. i \in {0, 1}
      BY DEF SlicesOn
    <3>2. PICK b \in Nat : b = Base(i)
      BY <3>1, BaseIs
    <3>3. b \in DOMAIN d
      BY <2>2, <3>2, DiskAssumption DEF HeadersTyped
    <3>4. e[b].hdr = d[b].hdr
      BY <2>2, <3>2, <3>3 DEF Thinned
    <3> QED BY <1>3, <2>2, <3>2, <3>4 DEF DiskSane, SystemFirst
  <2> QED BY <2>1, <2>2 DEF SystemFirst
<1>6. ASSUME NEW i \in SlicesOn(e), NEW hs, Listed(e, i, hs) PROVE ListGood(e, i, hs)
  <2>1. i \in {0, 1}
    BY DEF SlicesOn
  <2>2. hs \in Seq(HeaderType)
    BY <1>6 DEF Listed, Path
  <2>3. ASSUME NEW k \in 1 .. Len(hs) PROVE InPlace(d, i, hs[k])
    <3>1. InPlace(e, i, hs[k]) /\ hs[k] \in HeaderType
      BY <1>6, <2>2, SequenceIs DEF Listed, Path
    <3>2. hs[k] # Junk
      BY <3>1, NotJunk
    <3> QED BY <1>3, <3>1, <3>2 DEF InPlace, Thinned
  <2>4. Listed(d, i, hs)
    BY <1>6, <2>3 DEF Listed, Path
  <2>5. ListGood(d, i, hs)
    BY <1>3, <2>4 DEF DiskSane, ListsGood
  <2>6. Complete(e, i, hs)
    <3> SUFFICES ASSUME NEW c \in 0 .. Chunks - 1, Base(i) + c < Chunks,
                        e[Base(i) + c].hdr # Junk, e[Base(i) + c].hdr.start = c,
                        e[Base(i) + c].hdr.main # 0
                 PROVE  \E k \in 1 .. Len(hs) : hs[k].start = c
      BY DEF Complete
    <3>1. Base(i) + c \in DOMAIN d
      BY <2>1, ChunkIn
    <3>2. e[Base(i) + c].hdr = d[Base(i) + c].hdr
      BY <3>1 DEF Thinned
    <3> QED BY <2>5, <3>2 DEF ListGood, Complete
  <2> QED BY <2>5, <2>6 DEF ListGood
<1> QED BY <1>3, <1>4, <1>5, <1>6 DEF DiskSane, ListsGood

LEMMA ThinnedTable ==
  ASSUME NEW d, HeadersTyped(d), NEW e, Thinned(d, e), NEW got, NEW i \in {0, 1},
         NEW ps, NEW new, NEW waits, TableOn(d, got, i, ps, new, waits)
  PROVE  TableOn(e, got, i, ps, new, waits)
<1>3. PICK was : /\ Between(d, i, was, ps, new, waits)
                 /\ \A j \in 1 .. Len(was) : was[j].start < SliceChunks(got, i)
  BY DEF TableOn
<1>4. Mixed(e, i, was, Headers(ps), waits)
  <2> SUFFICES ASSUME NEW c \in 0 .. Chunks - 1, Base(i) + c < Chunks, e[Base(i) + c].hdr # Junk
               PROVE  IF c \in Starts(Headers(ps)) \ waits
                      THEN AsIs(e[Base(i) + c].hdr, c, Headers(ps))
                      ELSE AsWas(e[Base(i) + c].hdr, c, was)
    BY DEF Mixed
  <2>1. Base(i) + c \in DOMAIN d
    BY ChunkIn
  <2>2. e[Base(i) + c].hdr = d[Base(i) + c].hdr
    BY <2>1 DEF Thinned
  <2> QED BY <1>3, <2>2 DEF Between, Mixed
<1>5. \A k \in 1 .. Len(ps) : Fit(e, i, ps[k].h)
  BY DEF TableOn, Fit, Thinned
<1>6. Between(e, i, was, ps, new, waits)
  BY <1>3, <1>4 DEF Between
<1> QED BY <1>3, <1>5, <1>6 DEF TableOn

\* the header h has been written at c
Placed(d, e, c, h) == /\ DOMAIN e = DOMAIN d /\ c \in DOMAIN d /\ e[c].hdr = h
                      /\ \A b \in DOMAIN d \ {c} : e[b].hdr = d[b].hdr

\* the header of a partition has been written
Stored(d, e, i, ps, k) ==
  /\ HeadersTyped(d) /\ i \in {0, 1} /\ k \in 1 .. Len(ps)
  /\ Placed(d, e, Base(i) + ps[k].h.start, ps[k].h) /\ e[0].hdr.dialect = d[0].hdr.dialect

\* A header of the list is written, and waits no more.
LEMMA StoredTable ==
  ASSUME NEW d, NEW e, NEW i, NEW ps, NEW k, Stored(d, e, i, ps, k), NEW got, NEW new, NEW waits,
         TableOn(d, got, i, ps, new, waits), NEW left, left = waits \ {ps[k].h.start}
  PROVE  TableOn(e, got, i, ps, new, left)
<1>1. PICK h : h = ps[k].h
  OBVIOUS
<1>2. /\ HeadersTyped(d) /\ i \in {0, 1} /\ k \in 1 .. Len(ps) /\ left = waits \ {h.start}
      /\ Placed(d, e, Base(i) + h.start, h) /\ e[0].hdr.dialect = d[0].hdr.dialect
  BY <1>1 DEF Stored
<1>3. PICK was : /\ Between(d, i, was, ps, new, waits)
                 /\ \A j \in 1 .. Len(was) : was[j].start < SliceChunks(got, i)
  BY DEF TableOn
<1>4. PICK is : is = Headers(ps)
  OBVIOUS
<1>5. ps \in Seq(PartType) /\ Mixed(d, i, was, is, waits)
  BY <1>3, <1>4 DEF Between
<1>6. PICK l \in Nat : l = Len(ps)
  BY <1>5, HeadersAre
<1>7. is[k] = h /\ k \in 1 .. Len(is) /\ h \in HeaderType
  BY <1>1, <1>2, <1>4, <1>5, HeadersAre
<1>8. h.start \in 0 .. Chunks - 1
  BY <1>7, HeaderNumbers
<1>9. Mixed(e, i, was, is, left)
  <2> SUFFICES ASSUME NEW c \in 0 .. Chunks - 1, Base(i) + c < Chunks, e[Base(i) + c].hdr # Junk
               PROVE  IF c \in Starts(is) \ left
                      THEN AsIs(e[Base(i) + c].hdr, c, is) ELSE AsWas(e[Base(i) + c].hdr, c, was)
    BY DEF Mixed
  <2>1. CASE c = h.start
    <3>1. e[Base(i) + c].hdr = is[k]
      BY <1>2, <1>7, <2>1 DEF Placed
    <3>2. AsIs(e[Base(i) + c].hdr, c, is)
      BY <1>7, <2>1, <3>1 DEF AsIs
    <3>3. c \in Starts(is) \ left
      BY <1>2, <1>7, <2>1 DEF Starts
    <3> QED BY <3>2, <3>3
  <2>2. CASE c # h.start
    <3>1. Base(i) + c # Base(i) + h.start
      <4>1. PICK b \in Nat : b = Base(i)
        BY <1>2, BaseIs
      <4>2. b + c # b + h.start
        BY <1>8, <2>2
      <4> QED BY <4>1, <4>2
    <3>2. Base(i) + c \in DOMAIN d
      BY <1>2, ChunkIn
    <3>3. e[Base(i) + c].hdr = d[Base(i) + c].hdr
      BY <1>2, <3>1, <3>2 DEF Placed
    <3>4. c \in Starts(is) \ left <=> c \in Starts(is) \ waits
      BY <1>2, <2>2
    <3> QED BY <1>5, <3>3, <3>4 DEF Mixed
  <2> QED BY <2>1, <2>2
<1>10. \A j \in 1 .. Len(ps) : Fit(e, i, ps[j].h)
  BY <1>2 DEF TableOn, Fit
<1>11. Between(e, i, was, ps, new, left)
  BY <1>3, <1>4, <1>9 DEF Between
<1> QED BY <1>3, <1>10, <1>11 DEF TableOn

LEMMA TableStarts ==
  ASSUME NEW d, NEW got, NEW i, NEW ps, NEW new, NEW waits, TableOn(d, got, i, ps, new, waits)
  PROVE  /\ ps \in Seq(PartType) /\ Len(ps) \in Nat
         /\ \A k \in 1 .. Len(ps) : /\ ps[k].h.start < SliceChunks(got, i)
                                    /\ ps[k].h \in HeaderType /\ ps[k].h.start \in Nat
         /\ Distinct(Headers(ps))
<1>1. ps \in Seq(PartType) /\ Check(SliceChunks(got, i), Headers(ps)) /\ Rising(Headers(ps))
  BY DEF TableOn, Between, Derived, Chained
<1>2. PICK l \in Nat : l = Len(ps)
  BY <1>1, HeadersAre
<1>3. /\ Headers(ps) \in Seq(HeaderType) /\ Len(Headers(ps)) = l /\ DOMAIN Headers(ps) = 1 .. l
      /\ \A k \in 1 .. l : Headers(ps)[k] = ps[k].h /\ ps[k].h \in HeaderType
  BY <1>1, <1>2, HeadersAre
<1>4. Within(SliceChunks(got, i), Headers(ps))
  BY <1>1, <1>3, CheckIs
<1>5. \A k \in 1 .. l : ps[k].h.start < SliceChunks(got, i)
  BY <1>3, <1>4 DEF Within
<1>6. \A k \in 1 .. l : ps[k].h.start \in Nat
  BY <1>3, HeaderNumbers
<1>7. Distinct(Headers(ps))
  BY <1>1, <1>3, RisingDistinct
<1> QED BY <1>1, <1>2, <1>3, <1>5, <1>6, <1>7

\* The other slice is not disturbed.
LEMMA PlacedOther ==
  ASSUME NEW d, HeadersTyped(d), NEW i \in {0, 1}, NEW j \in {0, 1}, i # j,
         NEW ps, NEW new, NEW waits, TableOn(d, TRUE, i, ps, new, waits),
         NEW h \in HeaderType, h.start < SliceChunks(TRUE, j),
         NEW e, Placed(d, e, Base(j) + h.start, h), e[0].hdr.dialect = d[0].hdr.dialect
  PROVE  TableOn(e, TRUE, i, ps, new, waits)
<1>1. PICK was : /\ Between(d, i, was, ps, new, waits)
                 /\ \A q \in 1 .. Len(was) : was[q].start < SliceChunks(TRUE, i)
  BY DEF TableOn
<1>2. PICK is : is = Headers(ps)
  OBVIOUS
<1>3. ps \in Seq(PartType) /\ Mixed(d, i, was, is, waits)
  BY <1>1, <1>2 DEF Between
<1>4. PICK l \in Nat : l = Len(ps)
  BY <1>3, HeadersAre
<1>5. /\ Len(is) = l /\ \A k \in 1 .. l : is[k].start < SliceChunks(TRUE, i) /\ is[k].start \in Nat
  <2>1. \A k \in 1 .. l : ps[k].h.start < SliceChunks(TRUE, i) /\ ps[k].h.start \in Nat
    BY <1>4, TableStarts
  <2> QED BY <1>2, <1>3, <1>4, <2>1, HeadersAre
<1>6. PICK s \in Nat : s = h.start
  BY HeaderNumbers
<1>70. PICK z \in Nat : z = Slice2
  BY DiskAssumption
<1>7. SliceChunks(TRUE, 0) = z - 1 /\ Base(0) = 0 /\ Base(1) = z
  BY <1>70, BaseIs DEF SliceChunks
<1>8. Mixed(e, i, was, is, waits)
  <2> SUFFICES ASSUME NEW c \in 0 .. Chunks - 1, Base(i) + c < Chunks, e[Base(i) + c].hdr # Junk
               PROVE  IF c \in Starts(is) \ waits
                      THEN AsIs(e[Base(i) + c].hdr, c, is) ELSE AsWas(e[Base(i) + c].hdr, c, was)
    BY DEF Mixed
  <2>1. Base(i) + c \in DOMAIN d
    BY ChunkIn
  <2>2. CASE Base(i) + c # Base(j) + h.start
    <3>1. e[Base(i) + c].hdr = d[Base(i) + c].hdr
      BY <2>1, <2>2 DEF Placed
    <3> QED BY <1>3, <3>1 DEF Mixed
  <2>3. CASE Base(i) + c = Base(j) + h.start
    <3>1. i = 0 /\ j = 1
      <4>1. CASE i = 1
        <5>1. j = 0 /\ s < z - 1
          BY <1>6, <1>7, <4>1
        <5>2. z + c = 0 + s
          BY <1>6, <1>7, <2>3, <4>1, <5>1
        <5> QED BY <5>1, <5>2
      <4>2. CASE i = 0
        BY <4>2
      <4> QED BY <4>1, <4>2
    <3>2. c = z + s
      BY <1>6, <1>7, <2>3, <3>1
    <3>3. c \notin Starts(is)
      <4>1. ASSUME NEW k \in 1 .. l, is[k].start = c PROVE FALSE
        <5>1. z + s < z - 1
          BY <1>5, <1>7, <3>1, <3>2, <4>1
        <5> QED BY <5>1
      <4> QED BY <1>5, <4>1 DEF Starts
    <3>4. c \notin Starts(was)
      <4>1. ASSUME NEW k \in 1 .. Len(was), was[k].start = c PROVE FALSE
        <5>1. z + s < z - 1
          BY <1>1, <1>7, <3>1, <3>2, <4>1
        <5> QED BY <5>1
      <4> QED BY <4>1 DEF Starts
    <3>5. e[Base(i) + c].hdr = h
      BY <2>3 DEF Placed
    <3>6. h.start # c
      BY <1>6, <1>70, <3>2, DiskAssumption
    <3>7. AsWas(e[Base(i) + c].hdr, c, was)
      BY <3>4, <3>5, <3>6 DEF AsWas
    <3> QED BY <3>3, <3>7
  <2> QED BY <2>2, <2>3
<1>9. \A k \in 1 .. Len(ps) : Fit(e, i, ps[k].h)
  BY DEF TableOn, Fit
<1>10. Between(e, i, was, ps, new, waits)
  BY <1>1, <1>2, <1>8 DEF Between
<1> QED BY <1>1, <1>9, <1>10 DEF TableOn

\* What has been written of a list is below what waits.
InTurn(ps, new, waits) ==
  /\ waits \subseteq ModStarts(ps) \ {new.start}
  /\ \A s \in ModStarts(ps) \ waits : s = new.start \/ Below(s, waits)

LEMMA TableLists ==
  ASSUME NEW d, HeadersTyped(d), NEW got, NEW i \in {0, 1}, NEW ps, NEW new, NEW waits,
         TableOn(d, got, i, ps, new, waits), InTurn(ps, new, waits), NEW hs, Listed(d, i, hs)
  PROVE  ListGood(d, i, hs)
<1>1. PICK was : Between(d, i, was, ps, new, waits)
  BY DEF TableOn
<1>2. PICK is : is = Headers(ps)
  OBVIOUS
<1>3. /\ ps \in Seq(PartType) /\ Derived(was, is, new) /\ Mixed(d, i, was, is, waits)
      /\ Unchanged(was, ps)
  BY <1>1, <1>2 DEF Between
<1>4. PICK l \in Nat : l = Len(ps)
  BY <1>3, HeadersAre
<1>5. Len(is) = l /\ \A k \in 1 .. l : is[k] = ps[k].h
  BY <1>2, <1>3, <1>4, HeadersAre
<1>6. ModStarts(ps) \subseteq Starts(is)
  BY <1>4, <1>5 DEF ModStarts, Starts
<1>7. Ordered(was, is, new, waits)
  <2>1. waits \subseteq Starts(is) \ {new.start}
    BY <1>6 DEF InTurn
  <2>2. ASSUME NEW k \in 1 .. l, is[k].start \notin waits, is[k].start # new.start
        PROVE  \/ \E j \in 1 .. Len(was) : is[k] = was[j]
               \/ \A x \in waits : is[k].start < x
    <3>1. CASE ps[k].modified
      <4>1. is[k].start \in ModStarts(ps)
        BY <1>4, <1>5, <3>1 DEF ModStarts
      <4> QED BY <2>2, <4>1 DEF InTurn, Below
    <3>2. CASE ~ps[k].modified
      BY <1>3, <1>4, <1>5, <3>2 DEF Unchanged
    <3> QED BY <3>1, <3>2
  <2> QED BY <1>5, <2>1, <2>2 DEF Ordered
<1> QED BY <1>3, <1>7, MixedGood

\* the header of a partition of the slice other than i has been written
Elsewhere(d, e, got, i) ==
  /\ i \in {0, 1} /\ got = TRUE
  /\ \E j, js, k : /\ Stored(d, e, j, js, k) /\ js[k].h \in HeaderType /\ i # j
                   /\ js[k].h.start < SliceChunks(TRUE, j)

LEMMA StoredOther ==
  ASSUME NEW d, NEW e, NEW got, NEW i, Elsewhere(d, e, got, i),
         NEW ps, NEW new, NEW waits, TableOn(d, got, i, ps, new, waits)
  PROVE  TableOn(e, got, i, ps, new, waits)
BY PlacedOther DEF Stored, Elsewhere

\* the new game of a slice
NewOf(j, i) == IF j.op = "install" /\ j.slice = i THEN j.header ELSE NoNew

\* all lists in memory, w tells what waits
TablesOn(d, t, j, w) ==
  /\ t.got = GotSecondSlice(d)
  /\ \A i \in Slices(t) : TableOn(d, t.got, i, t.slice[i], NewOf(j, i), w[i])

\* the disk but for its lists
DiskKnown(d) == HeadersTyped(d) /\ d[0].hdr # Junk /\ Heirless(d) /\ SystemFirst(d)

\* s waits no more in slice i
Struck(t, w, i, s, v) == \A q \in Slices(t) : v[q] = IF q = i THEN w[q] \ {s} ELSE w[q]

LEMMA HeaderStep ==
  ASSUME NEW d, DiskKnown(d), NEW t, NEW j, NEW w, TablesOn(d, t, j, w),
         NEW i \in Slices(t), NEW k \in 1 .. Len(t.slice[i]), NEW h, h = t.slice[i][k].h,
         NEW e, HeadersTyped(e), Placed(d, e, Base(i) + h.start, h),
         NEW v, Struck(t, w, i, h.start, v)
  PROVE  DiskKnown(e) /\ TablesOn(e, t, j, v)
<1>1. i \in {0, 1} /\ TableOn(d, t.got, i, t.slice[i], NewOf(j, i), w[i])
  BY SlicesAre DEF TablesOn
<1>2. h \in HeaderType /\ h.start \in Nat /\ h.start < SliceChunks(t.got, i) /\ Fit(d, i, h)
  BY <1>1, TableStarts DEF TableOn
<1>3. PICK s \in Nat, b \in Nat : s = h.start /\ b = Base(i)
  BY <1>1, <1>2, BaseIs
<1>4. h # Junk
  BY <1>2, NotJunk
<1>5. /\ DOMAIN e = DOMAIN d /\ b + s \in DOMAIN d /\ e[b + s].hdr = h
      /\ \A c \in DOMAIN d \ {b + s} : e[c].hdr = d[c].hdr
  BY <1>3 DEF Placed
<1>6. 0 \in DOMAIN d
  BY DiskAssumption, SMTT(30) DEF DiskKnown, HeadersTyped
<1>7. i = 0 /\ s = 0 => h.main = 0 /\ h.dialect = d[0].hdr.dialect /\ h.id = MbrId
  BY <1>2, <1>3 DEF Fit
<1>8. b + s = 0 => i = 0 /\ s = 0
  BY <1>1, <1>3, BaseIs
<1>9. /\ e[0].hdr # Junk /\ e[0].hdr.dialect = d[0].hdr.dialect
      /\ e[0].hdr.start = 0 /\ e[0].hdr.main = 0
  <2>1. CASE b + s = 0
    BY <1>3, <1>4, <1>5, <1>7, <1>8, <2>1
  <2>2. CASE b + s # 0
    BY <1>5, <1>6, <2>2 DEF DiskKnown, SystemFirst
  <2> QED BY <2>1, <2>2
<1>10. GotSecondSlice(e) = GotSecondSlice(d) /\ SlicesOn(e) = SlicesOn(d)
  BY <1>9, SameSlices DEF DiskKnown
<1>11. Heirless(e)
  BY <1>2, <1>5 DEF Heirless, Fit, DiskKnown
<1>12. SystemFirst(e)
  <2> SUFFICES ASSUME NEW q \in SlicesOn(e), Base(q) < Chunks, e[Base(q)].hdr # Junk
               PROVE  e[Base(q)].hdr.id = MbrId
    BY <1>9 DEF SystemFirst
  <2>1. q \in {0, 1} /\ q \in SlicesOn(d) /\ q \in Slices(t)
    BY <1>10 DEF SlicesOn, TablesOn, Slices
  <2>2. PICK a \in Nat : a = Base(q)
    BY <2>1, BaseIs
  <2>3. CASE a = b + s
    <3>1. q = i /\ s = 0
      <4>1. CASE q = i
        <5>1. a = b
          BY <1>3, <2>2, <4>1
        <5>2. s = 0
          BY <2>3, <5>1
        <5> QED BY <4>1, <5>2
      <4>2. CASE q # i
        <5>1. t.got
          BY <1>1, <2>1, <4>2, SlicesAre
        <5>2. PICK z \in Nat : z = Slice2
          BY DiskAssumption
        <5>3. CASE i = 0
          <6>1. t.got = TRUE
            BY <5>1 DEF TablesOn, GotSecondSlice
          <6>2. s < z - 1
            BY <1>2, <1>3, <5>2, <5>3, <6>1 DEF SliceChunks
          <6>3. a = z /\ b = 0
            BY <1>3, <2>1, <2>2, <4>2, <5>2, <5>3, BaseIs
          <6> QED BY <2>3, <6>2, <6>3
        <5>4. CASE i = 1
          <6>1. a = 0 /\ b = z /\ z # 0
            BY <1>3, <2>1, <2>2, <4>2, <5>2, <5>4, BaseIs
          <6> QED BY <2>3, <6>1
        <5> QED BY <1>1, <5>3, <5>4
      <4> QED BY <4>1, <4>2
    <3> QED BY <1>2, <1>3, <1>5, <2>2, <2>3, <3>1 DEF Fit
  <2>4. CASE a # b + s
    <3>1. a \in DOMAIN d
      BY <2>2, DiskAssumption DEF DiskKnown, HeadersTyped
    <3>2. e[a].hdr = d[a].hdr
      BY <1>5, <2>4, <3>1
    <3> QED BY <2>1, <2>2, <3>2 DEF DiskKnown, SystemFirst
  <2> QED BY <2>3, <2>4
<1>13. Stored(d, e, i, t.slice[i], k)
  BY <1>1, <1>9 DEF Stored, DiskKnown
<1>14. ASSUME NEW q \in Slices(t) PROVE TableOn(e, t.got, q, t.slice[q], NewOf(j, q), v[q])
  <2>1. q \in {0, 1} /\ TableOn(d, t.got, q, t.slice[q], NewOf(j, q), w[q])
    BY SlicesAre DEF TablesOn
  <2>2. CASE q = i
    <3>1. v[q] = w[q] \ {h.start}
      BY <2>2 DEF Struck
    <3>2. PICK ps, new, waits : ps = t.slice[q] /\ new = NewOf(j, q) /\ waits = w[q]
      OBVIOUS
    <3>3. TableOn(d, t.got, q, ps, new, waits) /\ Stored(d, e, q, ps, k)
      BY <1>13, <2>1, <2>2, <3>2
    <3>4. v[q] = waits \ {ps[k].h.start}
      BY <2>2, <3>1, <3>2
    <3>5. TableOn(e, t.got, q, ps, new, v[q])
      BY <3>3, <3>4, StoredTable
    <3> QED BY <3>2, <3>5
  <2>3. CASE q # i
    <3>1. t.got = TRUE
      <4>1. t.got
        BY <1>1, <2>1, <2>3, SlicesAre
      <4>2. t.got \in BOOLEAN
        BY DEF TablesOn, GotSecondSlice
      <4> QED BY <4>1, <4>2
    <3>2. v[q] = w[q]
      BY <2>3 DEF Struck
    <3>3. PICK ps, new, waits : ps = t.slice[q] /\ new = NewOf(j, q) /\ waits = w[q]
      OBVIOUS
    <3>4. TableOn(d, t.got, q, ps, new, waits)
      BY <2>1, <3>3
    <3>5. Elsewhere(d, e, t.got, q)
      BY <1>2, <1>13, <2>1, <2>3, <3>1 DEF Elsewhere
    <3>6. TableOn(e, t.got, q, ps, new, waits)
      BY <3>4, <3>5, StoredOther
    <3> QED BY <3>2, <3>3, <3>6
  <2> QED BY <2>2, <2>3
<1>15. TablesOn(e, t, j, v)
  BY <1>10, <1>14 DEF TablesOn
<1> QED BY <1>9, <1>11, <1>12, <1>15 DEF DiskKnown

-----------------------------------------------------------------------------
(* The table in memory at every moment of a command.                       *)

\* what has not been committed yet
Left(t, j, chunks, i) ==
  {s \in ModStarts(t.slice[i]) : Base(i) + s \in chunks} \ {NewOf(j, i).start}

\* what waits to be written
Waits(p, t, j, chunks) ==
  [i \in {0, 1} |-> IF p = "commit" THEN Left(t, j, chunks, i) ELSE ModStarts(t.slice[i])]

\* The new game of an install is in the table, and no other command has one.
NewThere ==
  IF phase = "copy"
  THEN /\ job.op = "install" /\ job.slice \in Slices(toc)
       /\ \E k \in 1 .. Len(toc.slice[job.slice]) :
            toc.slice[job.slice][k].h.start = job.header.start
  ELSE phase = "commit" \/ job.op # "install"

\* Headers are written in the order of their places.
Forward == \A c \in ModifiedAt(toc) \ todo : \A e \in todo : c < e

TableInv ==
  /\ TypeInv /\ DiskSane(disk)
  /\ phase # "idle" => TablesOn(disk, toc, job, Waits(phase, toc, job, todo)) /\ NewThere
  /\ phase = "commit" => Forward

LEMMA KnownDisk ==
  ASSUME TypeInv, DiskSane(disk)
  PROVE  DiskKnown(disk) /\ HeadersTyped(disk) /\ disk[0].hdr # Junk
<1>1. HeadersTyped(disk)
  BY DiskTyped DEF TypeInv
<1>2. disk[0].hdr # Junk
  BY DiskAssumption DEF TypeInv, DiskOK, ChunkOK
<1> QED BY <1>1, <1>2 DEF DiskKnown, DiskSane

\* Two partitions of the table that start at the same place of the disk are
\* in the same slice.
LEMMA PlacesDiffer ==
  ASSUME NEW d, NEW t, NEW j, NEW w, TablesOn(d, t, j, w), NEW p \in Slices(t), NEW q \in Slices(t),
         NEW k \in 1 .. Len(t.slice[p]), NEW m \in 1 .. Len(t.slice[q]),
         Base(p) + t.slice[p][k].h.start = Base(q) + t.slice[q][m].h.start
  PROVE  p = q /\ t.slice[p][k].h.start = t.slice[q][m].h.start
<1>1. p \in {0, 1} /\ q \in {0, 1} /\ (p # q => t.got)
  BY SlicesAre
<1>2. PICK x, y : x = t.slice[p][k].h.start /\ y = t.slice[q][m].h.start
  OBVIOUS
<1>3. x \in Nat /\ y \in Nat /\ x < SliceChunks(t.got, p) /\ y < SliceChunks(t.got, q)
  BY <1>2, TableStarts DEF TablesOn
<1>4. PICK z \in Nat : z = Slice2
  BY DiskAssumption
<1>5. p # q => SliceChunks(t.got, 0) = z - 1
  BY <1>1, <1>4 DEF SliceChunks, TablesOn, GotSecondSlice
<1>6. p = q
  <2>1. CASE p = 0 /\ q = 1
    <3>1. 0 + x = z + y /\ x < z - 1
      BY <1>2, <1>3, <1>4, <1>5, <2>1, BaseIs
    <3> QED BY <1>3, <3>1
  <2>2. CASE p = 1 /\ q = 0
    <3>1. z + x = 0 + y /\ y < z - 1
      BY <1>2, <1>3, <1>4, <1>5, <2>2, BaseIs
    <3> QED BY <1>3, <3>1
  <2> QED BY <1>1, <2>1, <2>2
<1>7. x = y
  <2>1. PICK b \in Nat : b = Base(p)
    BY <1>1, BaseIs
  <2>2. b + x = b + y
    BY <1>2, <1>6, <2>1
  <2> QED BY <1>3, <2>2
<1> QED BY <1>2, <1>6, <1>7

\* The table a command reads.
LEMMA TocSlices ==
  ASSUME NEW d, NEW t, t = TocRead(d), t.ok
  PROVE  /\ t.got = GotSecondSlice(d) /\ Slices(t) = SlicesOn(d)
         /\ \A i \in Slices(t) : /\ i \in {0, 1} /\ SliceRead(d, t.got, i).ok
                                 /\ t.slice[i] = SliceRead(d, t.got, i).parts
<1> DEFINE got == GotSecondSlice(d)
           s0 == SliceRead(d, got, 0)
           s1 == IF got THEN SliceRead(d, got, 1) ELSE [ok |-> TRUE, parts |-> <<>>]
           slice == [i \in 0 .. 1 |-> IF i = 0 THEN s0.parts ELSE s1.parts]
<1>1. t = IF s0.ok /\ s1.ok
          THEN [ok |-> TRUE, got |-> got, toxic |-> Dialect(d) # "plain", slice |-> slice]
          ELSE NoToc
  BY DEF TocRead
<1>2. DOMAIN slice = 0 .. 1 /\ slice[0] = s0.parts /\ slice[1] = s1.parts
  OBVIOUS
<1>3. s0 = SliceRead(d, got, 0) /\ (got => s1 = SliceRead(d, got, 1))
  OBVIOUS
<1>4. got = GotSecondSlice(d)
  OBVIOUS
<1> HIDE DEF got, s0, s1, slice
<1>5. s0.ok /\ s1.ok
  BY <1>1 DEF NoToc
<1>6. t.got = got /\ t.slice = slice
  <2>1. PICK toxic : toxic = (Dialect(d) # "plain")
    OBVIOUS
  <2>2. t = [ok |-> TRUE, got |-> got, toxic |-> toxic, slice |-> slice]
    BY <1>1, <1>5, <2>1
  <2> QED BY <2>2
<1>7. Slices(t) = SlicesOn(d)
  BY <1>4, <1>6 DEF Slices, SlicesOn
<1>8. ASSUME NEW i \in Slices(t)
      PROVE  i \in {0, 1} /\ SliceRead(d, t.got, i).ok /\ t.slice[i] = SliceRead(d, t.got, i).parts
  <2>1. i = 0 \/ (i = 1 /\ t.got)
    BY SlicesAre
  <2>2. CASE i = 0
    BY <2>2, <1>2, <1>3, <1>5, <1>6
  <2>3. CASE i = 1 /\ t.got
    BY <2>3, <1>2, <1>3, <1>5, <1>6
  <2> QED BY <2>1, <2>2, <2>3
<1> QED BY <1>4, <1>6, <1>7, <1>8

LEMMA TocTables ==
  ASSUME NEW d, DiskOK(d), DiskSane(d), NEW t, t = TocRead(d), t.ok
  PROVE  /\ t.got = GotSecondSlice(d)
         /\ \A i \in Slices(t) : TableOn(d, t.got, i, t.slice[i], NoNew, ModStarts(t.slice[i]))
<1>1. ASSUME NEW i \in Slices(t)
      PROVE  TableOn(d, t.got, i, t.slice[i], NoNew, ModStarts(t.slice[i]))
  <2>1. PICK g, ps : g = t.got /\ ps = t.slice[i]
    OBVIOUS
  <2>2. SliceRead(d, g, i).ok /\ ps = SliceRead(d, g, i).parts /\ i \in SlicesOn(d)
    BY <2>1, TocSlices
  <2>3. HeadersTyped(d)
    BY DiskTyped
  <2>4. TableOn(d, g, i, ps, NoNew, ModStarts(ps))
    BY <2>2, <2>3, ReadTable
  <2> QED BY <2>1, <2>4
<1> QED BY <1>1, TocSlices

\* The disk is a good one again when what was written is below what waits.
LEMMA TablesSane ==
  ASSUME NEW d, DiskKnown(d), NEW t, NEW j, NEW w, TablesOn(d, t, j, w),
         \A i \in Slices(t) : InTurn(t.slice[i], NewOf(j, i), w[i])
  PROVE  DiskSane(d)
<1>1. ASSUME NEW i \in SlicesOn(d), NEW hs, Listed(d, i, hs) PROVE ListGood(d, i, hs)
  <2>1. i \in Slices(t) /\ i \in {0, 1}
    BY DEF SlicesOn, TablesOn, Slices
  <2>2. PICK got, ps, new, waits :
          got = t.got /\ ps = t.slice[i] /\ new = NewOf(j, i) /\ waits = w[i]
    OBVIOUS
  <2>3. TableOn(d, got, i, ps, new, waits) /\ InTurn(ps, new, waits) /\ HeadersTyped(d)
    BY <2>1, <2>2 DEF TablesOn, DiskKnown
  <2> QED BY <1>1, <2>1, <2>3, TableLists
<1> QED BY <1>1 DEF DiskKnown, DiskSane, ListsGood

\* where the headers are that have changed
LEMMA ModPlaces ==
  ASSUME NEW t, TocOK(t), NEW i \in Slices(t)
  PROVE  /\ \A s \in ModStarts(t.slice[i]) : s \in Nat /\ Base(i) + s \in ModifiedAt(t)
         /\ \A s \in ModStarts(t.slice[i]) :
              \E k \in 1 .. Len(t.slice[i]) : t.slice[i][k].h.start = s
<1>1. t.slice[i] \in Seq(PartType) /\ DOMAIN t.slice[i] = 1 .. Len(t.slice[i])
  BY SequenceIs, SMTT(30) DEF TocOK, PartsOK
<1>2. ASSUME NEW s \in ModStarts(t.slice[i]) PROVE s \in Nat /\ Base(i) + s \in ModifiedAt(t)
  <2>1. PICK k \in 1 .. Len(t.slice[i]) : t.slice[i][k].modified /\ s = t.slice[i][k].h.start
    BY DEF ModStarts
  <2>2. t.slice[i][k] \in PartType
    BY <1>1, SequenceIs
  <2>3. s \in Nat
    <3>1. t.slice[i][k].h \in HeaderType
      BY <2>2 DEF PartType
    <3> QED BY <2>1, <3>1, HeaderNumbers
  <2> QED BY <1>1, <2>1, <2>3 DEF ModifiedAt
<1>3. \A s \in ModStarts(t.slice[i]) : \E k \in 1 .. Len(t.slice[i]) : t.slice[i][k].h.start = s
  BY DEF ModStarts
<1> QED BY <1>2, <1>3

LEMMA WaitsAre ==
  ASSUME NEW p, NEW t, NEW j, NEW chunks, NEW i \in {0, 1}
  PROVE  Waits(p, t, j, chunks)[i] =
           IF p = "commit" THEN Left(t, j, chunks, i) ELSE ModStarts(t.slice[i])
BY DEF Waits

\* The commit begins when nothing of the table has been written but, in an
\* install, the main partition of the new game.
LEMMA CommitKnown ==
  ASSUME TypeInv, TypeInv', phase # "idle", GoCommit, DiskKnown(disk'), NEW w,
         TablesOn(disk', toc, job, w),
         \A i \in Slices(toc) : w[i] = ModStarts(toc.slice[i]) \ {NewOf(job, i).start}
  PROVE  TableInv'
<1>1. \A i \in Slices(toc) : InTurn(toc.slice[i], NewOf(job, i), w[i])
  BY DEF InTurn
<1>2. DiskSane(disk')
  BY <1>1, TablesSane
<1>3. \/ phase' = "idle"
      \/ phase' = "commit" /\ todo' = ModifiedAt(toc) /\ toc' = toc /\ job' = job
  BY DEF GoCommit, End
<1>4. CASE phase' = "idle"
  BY <1>2, <1>4 DEF TableInv
<1>5. CASE phase' = "commit" /\ todo' = ModifiedAt(toc) /\ toc' = toc /\ job' = job
  <2>1. TocOK(toc)
    BY DEF TypeInv, JobOK
  <2>2. PICK v : v = Waits("commit", toc, job, ModifiedAt(toc))
    OBVIOUS
  <2>3. ASSUME NEW i \in Slices(toc) PROVE v[i] = w[i]
    <3>1. v[i] = Left(toc, job, ModifiedAt(toc), i)
      BY <2>2, SlicesAre, WaitsAre
    <3>2. \A s \in ModStarts(toc.slice[i]) : Base(i) + s \in ModifiedAt(toc)
      BY <2>1, ModPlaces
    <3> QED BY <3>1, <3>2 DEF Left
  <2>4. TablesOn(disk', toc, job, v)
    BY <2>3 DEF TablesOn
  <2>5. TablesOn(disk', toc', job', Waits(phase', toc', job', todo'))
    BY <1>5, <2>2, <2>4
  <2>6. NewThere'
    BY <1>5 DEF NewThere
  <2>7. Forward'
    BY <1>5 DEF Forward, ModifiedAt
  <2> QED BY <1>2, <2>5, <2>6, <2>7 DEF TableInv
<1> QED BY <1>3, <1>4, <1>5

\* Data is written, and the table in memory is as good as it was.
LEMMA ThinnedKnown ==
  ASSUME TableInv, phase # "idle", DiskOK(disk'), Thinned(disk, disk')
  PROVE  /\ DiskSane(disk') /\ DiskKnown(disk')
         /\ TablesOn(disk', toc, job, Waits(phase, toc, job, todo))
<1>1. HeadersTyped(disk) /\ disk[0].hdr # Junk /\ DiskSane(disk)
  BY KnownDisk DEF TableInv
<1>2. DiskSane(disk') /\ GotSecondSlice(disk') = GotSecondSlice(disk)
  BY <1>1, ThinnedSane
<1>3. disk'[0].hdr # Junk /\ HeadersTyped(disk')
  BY <1>1, DiskTyped DEF Thinned
<1>4. PICK w : w = Waits(phase, toc, job, todo)
  OBVIOUS
<1>5. TablesOn(disk, toc, job, w)
  BY <1>4 DEF TableInv
<1>6. ASSUME NEW i \in Slices(toc)
      PROVE  TableOn(disk', toc.got, i, toc.slice[i], NewOf(job, i), w[i])
  <2>1. PICK got, ps, new, waits :
          got = toc.got /\ ps = toc.slice[i] /\ new = NewOf(job, i) /\ waits = w[i]
    OBVIOUS
  <2>2. TableOn(disk, got, i, ps, new, waits) /\ i \in {0, 1}
    BY <1>5, <2>1, SlicesAre DEF TablesOn
  <2>3. TableOn(disk', got, i, ps, new, waits)
    BY <1>1, <2>2, ThinnedTable
  <2> QED BY <2>1, <2>3
<1>7. TablesOn(disk', toc, job, w)
  BY <1>2, <1>5, <1>6 DEF TablesOn
<1> QED BY <1>2, <1>3, <1>4, <1>7 DEF DiskKnown, DiskSane

\* The title, the attributes or garbage has been written.
LEMMA WrittenKnown ==
  ASSUME TableInv, TypeInv', phase \in {"title", "attributes"}, Thinned(disk, disk'), GoCommit
  PROVE  TableInv'
<1>1. PICK w : w = Waits(phase, toc, job, todo)
  OBVIOUS
<1>2. DiskKnown(disk') /\ TablesOn(disk', toc, job, w) /\ TypeInv
  BY <1>1, ThinnedKnown DEF TableInv, TypeInv
<1>3. \A i \in Slices(toc) : w[i] = ModStarts(toc.slice[i]) \ {NewOf(job, i).start}
  <2> SUFFICES ASSUME NEW i \in Slices(toc)
               PROVE  w[i] = ModStarts(toc.slice[i]) \ {NewOf(job, i).start}
    OBVIOUS
  <2>1. w[i] = ModStarts(toc.slice[i])
    BY <1>1, SlicesAre, WaitsAre
  <2>2. job.op # "install"
    BY DEF TableInv, NewThere
  <2>3. NewOf(job, i).start = -1
    BY <2>2, NoNewIs DEF NewOf
  <2>4. \A s \in ModStarts(toc.slice[i]) : s \in Nat
    BY ModPlaces DEF TableInv, TypeInv, JobOK
  <2>5. -1 \notin Nat
    OBVIOUS
  <2> QED BY <2>1, <2>3, <2>4, <2>5
<1> QED BY <1>2, <1>3, CommitKnown

LEMMA EndKnown == ASSUME TypeInv', DiskSane(disk'), NEW r, End(r) PROVE TableInv'
BY DEF End, TableInv

LEMMA CopyKnown == ASSUME TableInv, TypeInv', CopyChunk PROVE TableInv'
<1> DEFINE c == Lowest(todo)
           v == [hdr  |-> IF c \in Heads(job) THEN disk[c].hdr ELSE Junk,
                 tab  |-> IF c = MainChunk(job) THEN disk[c].tab ELSE Junk,
                 data |-> PlanData(job, c)]
<1>1. phase = "copy" /\ todo # {} /\ JobOK /\ DiskOK(disk)
  BY DEF CopyChunk, TableInv, TypeInv
<1>2. Planned(job) /\ todo \subseteq PlanChunks(job) \ {0} /\ PlanChunks(job) \subseteq 0 .. Chunks - 1
  BY <1>1, PlannedChunks DEF JobOK
<1>3. c \in todo
  <2>1. todo \subseteq Nat
    BY <1>2
  <2>2. \E m \in todo : \A k \in todo : m <= k
    BY <1>1, <2>1, LeastOf
  <2> QED BY <2>2 DEF Lowest
<1>4. disk' = [disk EXCEPT ![c] = v] /\ UNCHANGED <<phase, toc, job, result>>
  BY DEF CopyChunk
<1>5. v.hdr = disk[c].hdr \/ v.hdr = Junk
  OBVIOUS
<1> HIDE DEF c, v
<1>6. c # 0 /\ 0 \in DOMAIN disk
  BY <1>1, <1>2, <1>3, DiskAssumption DEF DiskOK
<1>7. Thinned(disk, disk')
  BY <1>4, <1>5, <1>6 DEF Thinned
<1>8. DiskOK(disk')
  BY DEF TypeInv
<1>9. DiskSane(disk') /\ TablesOn(disk', toc, job, Waits(phase, toc, job, todo))
  BY <1>1, <1>7, <1>8, ThinnedKnown
<1>10. Waits(phase, toc, job, todo)' = Waits(phase, toc, job, todo)
  BY <1>1, <1>4 DEF Waits
<1>11. NewThere'
  <2>1. NewThere
    BY <1>1 DEF TableInv
  <2> QED BY <1>4, <2>1 DEF NewThere
<1> QED BY <1>1, <1>4, <1>9, <1>10, <1>11 DEF TableInv

LEMMA TitleKnown == ASSUME TableInv, TypeInv', WriteTitle PROVE TableInv'
<1>1. /\ phase = "title" /\ DiskOK(disk) /\ GoCommit
      /\ disk' = IF disk[job.at].tab = Junk THEN disk
                 ELSE [disk EXCEPT ![job.at].tab.title = job.title]
  BY DEF WriteTitle, TableInv, TypeInv
<1>2. Thinned(disk, disk')
  <2>1. CASE disk' = disk
    BY <2>1 DEF Thinned
  <2>2. CASE disk' # disk
    <3>1. PICK a, tab : a = job.at /\ tab = [disk[a].tab EXCEPT !.title = job.title]
      OBVIOUS
    <3>2. disk' = [disk EXCEPT ![a].tab = tab]
      BY <1>1, <2>2, <3>1
    <3>3. ASSUME NEW c \in DOMAIN disk PROVE disk'[c].hdr = disk[c].hdr
      <4>1. DOMAIN disk[c] = {"hdr", "tab", "data"}
        BY <1>1 DEF DiskOK, ChunkOK
      <4>2. disk'[c] = disk[c] \/ disk'[c] = [disk[c] EXCEPT !.tab = tab]
        BY <3>2
      <4> QED BY <4>1, <4>2
    <3>4. DOMAIN disk' = DOMAIN disk /\ 0 \in DOMAIN disk
      BY <1>1, <3>2, DiskAssumption DEF DiskOK
    <3> QED BY <3>3, <3>4 DEF Thinned
  <2> QED BY <2>1, <2>2
<1> QED BY <1>1, <1>2, WrittenKnown

LEMMA AttributesKnown == ASSUME TableInv, TypeInv', WriteAttributes PROVE TableInv'
<1>1. phase = "attributes" /\ disk' = disk /\ GoCommit
  BY DEF WriteAttributes
<1>2. Thinned(disk, disk')
  BY <1>1 DEF Thinned
<1> QED BY <1>1, <1>2, WrittenKnown

LEMMA GarbageKnown == ASSUME TableInv, TypeInv', WriteGarbage PROVE TableInv'
<1>1. PICK v : v = [hdr |-> Junk, tab |-> Junk, data |-> NoData]
  OBVIOUS
<1>2. /\ phase = "attributes" /\ GoCommit /\ JobOK /\ DiskOK(disk)
      /\ disk' = [disk EXCEPT ![job.at] = v]
  BY <1>1 DEF WriteGarbage, TableInv, TypeInv
<1>3. job.at # 0 /\ 0 \in DOMAIN disk
  BY <1>2, DiskAssumption DEF JobOK, DiskOK
<1>4. v.hdr = Junk
  BY <1>1
<1>5. Thinned(disk, disk')
  BY <1>2, <1>3, <1>4 DEF Thinned
<1> QED BY <1>2, <1>5, WrittenKnown

\* the header of chunk c has been written, and waits no more
Written(d, t, j, w, c) ==
  \E i \in Slices(t) : \E k \in 1 .. Len(t.slice[i]) :
    /\ Base(i) + t.slice[i][k].h.start = c
    /\ \A v : Struck(t, w, i, t.slice[i][k].h.start, v) => DiskKnown(d) /\ TablesOn(d, t, j, v)

LEMMA HeaderPut ==
  ASSUME TableInv, phase # "idle", NEW c \in TocChunks(toc), DiskOK(disk'),
         DOMAIN disk' = DOMAIN disk, disk'[c].hdr = HeaderAt(toc, c),
         \A b \in DOMAIN disk \ {c} : disk'[b].hdr = disk[b].hdr
  PROVE  Written(disk', toc, job, Waits(phase, toc, job, todo), c)
<1>1. TocOK(toc) /\ DiskKnown(disk) /\ HeadersTyped(disk')
  BY KnownDisk, DiskTyped DEF TableInv, TypeInv, JobOK
<1>2. c \in 0 .. Chunks - 1 /\ \E i \in Slices(toc) : \E k \in 1 .. Len(toc.slice[i]) :
        HeaderAt(toc, c) = toc.slice[i][k].h /\ Base(i) + toc.slice[i][k].h.start = c
  BY <1>1, HeaderAtFacts
<1>3. PICK i \in Slices(toc) : \E k \in 1 .. Len(toc.slice[i]) :
        HeaderAt(toc, c) = toc.slice[i][k].h /\ Base(i) + toc.slice[i][k].h.start = c
  BY <1>2
<1>4. PICK k \in 1 .. Len(toc.slice[i]) :
        HeaderAt(toc, c) = toc.slice[i][k].h /\ Base(i) + toc.slice[i][k].h.start = c
  BY <1>3
<1>5. PICK w, h : w = Waits(phase, toc, job, todo) /\ h = toc.slice[i][k].h
  OBVIOUS
<1>6. TablesOn(disk, toc, job, w) /\ c \in DOMAIN disk
  BY <1>1, <1>2, <1>5 DEF TableInv, DiskKnown, HeadersTyped
<1>7. Placed(disk, disk', Base(i) + h.start, h)
  BY <1>4, <1>5, <1>6 DEF Placed
<1>8. ASSUME NEW v, Struck(toc, w, i, h.start, v)
      PROVE  DiskKnown(disk') /\ TablesOn(disk', toc, job, v)
  BY <1>1, <1>5, <1>6, <1>7, <1>8, HeaderStep
<1> QED BY <1>4, <1>5, <1>8 DEF Written

LEMMA MainKnown == ASSUME TableInv, TypeInv', WriteMain PROVE TableInv'
<1>1. phase = "copy" /\ JobOK /\ DiskOK(disk) /\ DiskOK(disk') /\ TypeInv
  BY DEF WriteMain, TableInv, TypeInv
<1>2. CASE Refuse
  BY <1>2, EndKnown DEF Refuse, TableInv
<1>3. CASE ~Refuse
  <2>1. PICK c, h, tab : /\ c = MainChunk(job) /\ h = HeaderAt(toc, c)
                         /\ tab = [title |-> job.name,
                                   parts |-> AllocTable(Runs(job), job.slice, job.size)]
    OBVIOUS
  <2>2. GoCommit /\ disk' = [disk EXCEPT ![c].hdr = h, ![c].tab = tab]
    BY <1>3, <2>1 DEF WriteMain
  <2>3. c \in TocChunks(toc) /\ TocChunks(toc) \subseteq 0 .. Chunks - 1
    BY <1>1, <2>1, ModifiedFacts DEF JobOK
  <2>4. c \in DOMAIN disk /\ DOMAIN disk[c] = {"hdr", "tab", "data"}
    BY <1>1, <2>3 DEF DiskOK, ChunkOK
  <2>5. /\ DOMAIN disk' = DOMAIN disk /\ disk'[c].hdr = h
        /\ \A b \in DOMAIN disk \ {c} : disk'[b].hdr = disk[b].hdr
    BY <2>2, <2>4
  <2>6. PICK w : w = Waits(phase, toc, job, todo)
    OBVIOUS
  <2>7. Written(disk', toc, job, w, c)
    BY <1>1, <2>1, <2>3, <2>5, <2>6, HeaderPut
  <2>8. PICK i \in Slices(toc) : \E k \in 1 .. Len(toc.slice[i]) :
          /\ Base(i) + toc.slice[i][k].h.start = c
          /\ \A v : Struck(toc, w, i, toc.slice[i][k].h.start, v) =>
               DiskKnown(disk') /\ TablesOn(disk', toc, job, v)
    BY <2>7 DEF Written
  <2>9. PICK k \in 1 .. Len(toc.slice[i]) :
          /\ Base(i) + toc.slice[i][k].h.start = c
          /\ \A v : Struck(toc, w, i, toc.slice[i][k].h.start, v) =>
               DiskKnown(disk') /\ TablesOn(disk', toc, job, v)
    BY <2>8
  <2>10. i = job.slice /\ toc.slice[i][k].h.start = job.header.start /\ job.op = "install"
    <3>1. job.op = "install" /\ job.slice \in Slices(toc)
      BY <1>1 DEF TableInv, NewThere
    <3>2. PICK m \in 1 .. Len(toc.slice[job.slice]) :
            toc.slice[job.slice][m].h.start = job.header.start
      BY <1>1 DEF TableInv, NewThere
    <3>3. TablesOn(disk, toc, job, w)
      BY <1>1, <2>6 DEF TableInv
    <3>4. PICK p : p = job.slice
      OBVIOUS
    <3>5. p \in Slices(toc) /\ m \in 1 .. Len(toc.slice[p])
          /\ toc.slice[p][m].h.start = job.header.start
      BY <3>1, <3>2, <3>4
    <3>6. Base(i) + toc.slice[i][k].h.start = Base(p) + toc.slice[p][m].h.start
      BY <2>1, <2>9, <3>4, <3>5 DEF MainChunk
    <3>7. i = p /\ toc.slice[i][k].h.start = toc.slice[p][m].h.start
      BY <3>3, <3>5, <3>6, PlacesDiffer
    <3> QED BY <3>1, <3>4, <3>5, <3>7
  <2>11. PICK s : s = toc.slice[i][k].h.start
    OBVIOUS
  <2>12. PICK v : v = [q \in Slices(toc) |-> IF q = i THEN w[q] \ {s} ELSE w[q]]
    OBVIOUS
  <2>13. DiskKnown(disk') /\ TablesOn(disk', toc, job, v)
    <3>1. Struck(toc, w, i, s, v)
      BY <2>12 DEF Struck
    <3> QED BY <2>9, <2>11, <3>1
  <2>14. ASSUME NEW q \in Slices(toc)
         PROVE  v[q] = ModStarts(toc.slice[q]) \ {NewOf(job, q).start}
    <3>1. w[q] = ModStarts(toc.slice[q])
      BY <1>1, <2>6, SlicesAre, WaitsAre
    <3>2. CASE q = i
      BY <2>10, <2>11, <2>12, <3>1, <3>2 DEF NewOf
    <3>3. CASE q # i
      <4>1. NewOf(job, q).start = -1
        BY <2>10, <3>3, NoNewIs DEF NewOf
      <4>2. \A x \in ModStarts(toc.slice[q]) : x \in Nat
        BY <1>1, ModPlaces DEF JobOK
      <4>3. -1 \notin Nat
        OBVIOUS
      <4> QED BY <2>12, <3>1, <3>3, <4>1, <4>2, <4>3
    <3> QED BY <3>2, <3>3
  <2> QED BY <1>1, <2>2, <2>13, <2>14, CommitKnown
<1> QED BY <1>2, <1>3

LEMMA HeadersKnown == ASSUME TableInv, TypeInv', CommitHeader PROVE TableInv'
<1> DEFINE c == Lowest(todo)
           h == HeaderAt(toc, c)
<1>1. /\ phase = "commit" /\ JobOK /\ DiskOK(disk) /\ DiskOK(disk') /\ TocOK(toc)
      /\ todo # {} /\ todo \subseteq ModifiedAt(toc)
  BY DEF CommitHeader, TableInv, TypeInv, JobOK
<1>2. ModifiedAt(toc) \subseteq TocChunks(toc) /\ TocChunks(toc) \subseteq 0 .. Chunks - 1
  BY <1>1, ModifiedFacts
<1>3. c \in todo /\ \A m \in todo : c <= m
  <2>1. todo \subseteq Nat
    BY <1>1, <1>2
  <2>2. \E m \in todo : \A k \in todo : m <= k
    BY <1>1, <2>1, LeastOf
  <2> QED BY <2>2 DEF Lowest
<1>4. /\ disk' = [disk EXCEPT ![c].hdr = h]
      /\ IF todo = {c} THEN End("ok")
         ELSE todo' = todo \ {c} /\ UNCHANGED <<toc, job, phase, result>>
  BY DEF CommitHeader
<1>5. c \in DOMAIN disk /\ DOMAIN disk[c] = {"hdr", "tab", "data"} /\ c \in TocChunks(toc)
  BY <1>1, <1>2, <1>3 DEF DiskOK, ChunkOK
<1>6. h = HeaderAt(toc, c)
  OBVIOUS
<1> HIDE DEF c, h
<1>7. /\ DOMAIN disk' = DOMAIN disk /\ disk'[c].hdr = h
      /\ \A b \in DOMAIN disk \ {c} : disk'[b].hdr = disk[b].hdr
  BY <1>4, <1>5
<1>8. PICK w : w = Waits(phase, toc, job, todo)
  OBVIOUS
<1>9. Written(disk', toc, job, w, c)
  BY <1>1, <1>5, <1>6, <1>7, <1>8, HeaderPut
<1>10. PICK i \in Slices(toc) : \E k \in 1 .. Len(toc.slice[i]) :
        /\ Base(i) + toc.slice[i][k].h.start = c
        /\ \A v : Struck(toc, w, i, toc.slice[i][k].h.start, v) =>
             DiskKnown(disk') /\ TablesOn(disk', toc, job, v)
  BY <1>9 DEF Written
<1>11. PICK k \in 1 .. Len(toc.slice[i]) :
        /\ Base(i) + toc.slice[i][k].h.start = c
        /\ \A v : Struck(toc, w, i, toc.slice[i][k].h.start, v) =>
             DiskKnown(disk') /\ TablesOn(disk', toc, job, v)
  BY <1>10
<1>12. PICK s : s = toc.slice[i][k].h.start
  OBVIOUS
<1>13. PICK v : v = Waits("commit", toc, job, todo \ {c})
  OBVIOUS
<1>14. ASSUME NEW q \in Slices(toc)
       PROVE  v[q] = Left(toc, job, todo \ {c}, q) /\ w[q] = Left(toc, job, todo, q)
  BY <1>1, <1>8, <1>13, SlicesAre, WaitsAre
<1>15. ASSUME NEW q \in Slices(toc), NEW x \in ModStarts(toc.slice[q])
       PROVE  Base(q) + x = c <=> q = i /\ x = s
  <2>1. PICK m \in 1 .. Len(toc.slice[q]) : toc.slice[q][m].h.start = x
    BY <1>1, ModPlaces, SMTT(30)
  <2>2. TablesOn(disk, toc, job, w)
    BY <1>1, <1>8 DEF TableInv
  <2>3. ASSUME Base(q) + x = c PROVE q = i /\ x = s
    <3>1. Base(q) + toc.slice[q][m].h.start = Base(i) + toc.slice[i][k].h.start
      BY <1>11, <2>1, <2>3
    <3>2. q = i /\ toc.slice[q][m].h.start = toc.slice[i][k].h.start
      BY <2>2, <3>1, PlacesDiffer
    <3> QED BY <1>12, <2>1, <3>2
  <2>4. ASSUME q = i, x = s PROVE Base(q) + x = c
    BY <1>11, <1>12, <2>4
  <2> QED BY <2>3, <2>4
<1>16. Struck(toc, w, i, s, v)
  <2>1. ASSUME NEW q \in Slices(toc) PROVE v[q] = IF q = i THEN w[q] \ {s} ELSE w[q]
    <3>1. \A x \in ModStarts(toc.slice[q]) :
            Base(q) + x \in todo \ {c} <=> Base(q) + x \in todo /\ ~(q = i /\ x = s)
      BY <1>15
    <3> QED BY <1>14, <3>1 DEF Left
  <2> QED BY <2>1 DEF Struck
<1>17. DiskKnown(disk') /\ TablesOn(disk', toc, job, v)
  BY <1>11, <1>12, <1>16
<1>18. \A a \in ModifiedAt(toc) \ (todo \ {c}) : \A e \in todo \ {c} : a < e
  <2> SUFFICES ASSUME NEW a \in ModifiedAt(toc) \ (todo \ {c}), NEW e \in todo \ {c} PROVE a < e
    OBVIOUS
  <2>1. CASE a = c
    <3>1. c <= e /\ c # e /\ c \in Int /\ e \in Int
      BY <1>1, <1>2, <1>3
    <3> QED BY <2>1, <3>1
  <2>2. CASE a # c
    BY <1>1, <2>2 DEF TableInv, Forward
  <2> QED BY <2>1, <2>2
<1>19. ASSUME NEW q \in Slices(toc) PROVE InTurn(toc.slice[q], NewOf(job, q), v[q])
  <2>1. v[q] = Left(toc, job, todo \ {c}, q)
    BY <1>14
  <2>2. ASSUME NEW x \in ModStarts(toc.slice[q]) \ v[q], x # NewOf(job, q).start, NEW y \in v[q]
        PROVE  x < y
    <3>1. /\ Base(q) + x \notin todo \ {c} /\ Base(q) + y \in todo \ {c}
          /\ y \in ModStarts(toc.slice[q])
      BY <2>1, <2>2 DEF Left
    <3>2. x \in Nat /\ y \in Nat /\ Base(q) + x \in ModifiedAt(toc)
      BY <1>1, <3>1, ModPlaces
    <3>3. Base(q) + x < Base(q) + y
      BY <1>18, <3>1, <3>2
    <3>4. PICK b \in Nat : b = Base(q)
      BY SlicesAre, BaseIs
    <3>5. b + x < b + y
      BY <3>3, <3>4
    <3> QED BY <3>2, <3>5
  <2>3. v[q] \subseteq ModStarts(toc.slice[q]) \ {NewOf(job, q).start}
    BY <2>1 DEF Left
  <2> QED BY <2>2, <2>3 DEF InTurn, Below
<1>20. DiskSane(disk')
  BY <1>17, <1>19, TablesSane
<1>21. CASE todo = {c}
  BY <1>4, <1>20, <1>21, EndKnown
<1>22. CASE todo # {c}
  <2>1. todo' = todo \ {c} /\ UNCHANGED <<toc, job, phase, result>>
    BY <1>4, <1>22
  <2>2. TablesOn(disk', toc', job', Waits(phase', toc', job', todo'))
    BY <1>1, <1>13, <1>17, <2>1
  <2>3. NewThere'
    BY <1>1, <2>1 DEF NewThere
  <2>4. Forward'
    <3>1. ModifiedAt(toc)' = ModifiedAt(toc)
      BY <2>1 DEF ModifiedAt
    <3> QED BY <1>18, <2>1, <3>1 DEF Forward
  <2> QED BY <1>20, <2>2, <2>3, <2>4 DEF TableInv
<1> QED BY <1>21, <1>22

\* another list in the place of one
LEMMA SliceSet ==
  ASSUME NEW t, TocOK(t), NEW i \in Slices(t), NEW new, NEW u, u = [t EXCEPT !.slice[i] = new]
  PROVE  /\ u.got = t.got /\ Slices(u) = Slices(t) /\ u.slice[i] = new
         /\ \A q \in Slices(t) \ {i} : u.slice[q] = t.slice[q]
<1>1. PICK f, g : f = t.slice /\ g = [f EXCEPT ![i] = new]
  OBVIOUS
<1>2. DOMAIN t = {"ok", "got", "toxic", "slice"} /\ DOMAIN f = 0 .. 1 /\ Slices(t) \subseteq 0 .. 1
  BY <1>1, SlicesAre DEF TocOK
<1>3. u = [t EXCEPT !.slice = g]
  BY <1>1
<1>4. u.got = t.got /\ u.slice = g
  BY <1>2, <1>3
<1>5. g[i] = new /\ \A q \in Slices(t) \ {i} : g[q] = f[q]
  BY <1>1, <1>2
<1> QED BY <1>1, <1>4, <1>5 DEF Slices

LEMMA InstallKnown ==
  ASSUME TableInv, TypeInv', NEW t, t = TocRead(disk), t.ok,
         NEW prefix \in Prefixes, NEW name \in Names,
         NEW hint \in {-1, 0, 1}, Install(t, Id(prefix, name), name, hint), ~Refuse
  PROVE  TableInv'
<1> DEFINE id == Id(prefix, name)
<1>1. PICK i \in Slices(t) : \E runs :
        /\ runs = Allocate(SliceChunks(t.got, i), Headers(t.slice[i]), Size[name])
        /\ runs # <<>> /\ SliceChunks(t.got, i) \in Nat
        /\ Base(i) + SliceChunks(t.got, i) <= Chunks
        /\ Started(t, i, name, id, runs)
  BY InstallStarts
<1>2. id \in Ids
  BY DEF Id, Ids
<1> HIDE DEF id
<1>3. PICK runs :
        /\ runs = Allocate(SliceChunks(t.got, i), Headers(t.slice[i]), Size[name])
        /\ runs # <<>> /\ SliceChunks(t.got, i) \in Nat
        /\ Base(i) + SliceChunks(t.got, i) <= Chunks
        /\ Started(t, i, name, id, runs)
  BY <1>1
<1>16. PICK n \in Nat : n = SliceChunks(t.got, i)
  BY <1>3
<1>4. PICK got, ps, new, h :
        /\ n = SliceChunks(got, i) /\ got = t.got /\ ps = t.slice[i]
        /\ new = WithNew(ps, id, runs) /\ h = NewHeader(id, runs, 1)
  BY <1>16
<1>5. DiskOK(disk) /\ DiskSane(disk) /\ TocOK(t) /\ i \in {0, 1} /\ HeadersTyped(disk)
  BY TocReadOK, SlicesAre, DiskTyped DEF TableInv, TypeInv
<1>6. /\ t.got = GotSecondSlice(disk) /\ TableOn(disk, got, i, ps, NoNew, ModStarts(ps))
      /\ \A q \in Slices(t) : TableOn(disk, t.got, q, t.slice[q], NoNew, ModStarts(t.slice[q]))
  BY <1>4, <1>5, TocTables
<1>7. RunsFit(n, Headers(ps), runs)
  <2>1. PICK b \in Nat, mb \in Nat : b = Base(i) /\ mb = Size[name]
    BY <1>5, BaseIs, CommandsAssumption
  <2>2. n <= Chunks
    <3>1. b + n <= Chunks
      BY <1>3, <1>4, <2>1
    <3> QED BY <3>1, DiskAssumption
  <2>3. runs = Allocate(n, Headers(ps), mb) /\ runs # <<>>
    BY <1>3, <1>4, <2>1
  <2> QED BY <2>2, <2>3, RunsFitIn
<1>8. /\ TableOn(disk, got, i, new, h, ModStarts(new))
      /\ \E k \in 1 .. Len(new) : new[k].h.start = runs[1].start
  BY <1>2, <1>4, <1>5, <1>6, <1>7, InstalledTable
<1>9. /\ phase' = "copy" /\ disk' = disk /\ toc' = [t EXCEPT !.slice[i] = new]
      /\ job'.op = "install" /\ job'.slice = i /\ job'.header = h
  BY <1>3, <1>4 DEF Started
<1>10. /\ toc'.got = t.got /\ Slices(toc') = Slices(t) /\ toc'.slice[i] = new
       /\ \A q \in Slices(t) \ {i} : toc'.slice[q] = t.slice[q]
  BY <1>5, <1>9, SliceSet
<1>11. PICK w : w = Waits(phase', toc', job', todo')
  OBVIOUS
<1>12. ASSUME NEW q \in Slices(toc')
       PROVE  TableOn(disk', toc'.got, q, toc'.slice[q], NewOf(job', q), w[q])
  <2>1. w[q] = ModStarts(toc'.slice[q]) /\ q \in Slices(t)
    <3>1. q \in Slices(t) /\ q \in {0, 1}
      BY <1>10, SlicesAre
    <3>2. phase' # "commit"
      BY <1>9
    <3> QED BY <1>11, <3>1, <3>2, WaitsAre
  <2>2. CASE q = i
    <3>1. NewOf(job', q) = h /\ toc'.got = got
      BY <1>4, <1>9, <1>10, <2>2 DEF NewOf
    <3> QED BY <1>8, <1>9, <1>10, <2>1, <2>2, <3>1
  <2>3. CASE q # i
    <3>1. NewOf(job', q) = NoNew /\ toc'.slice[q] = t.slice[q]
      BY <1>9, <1>10, <2>1, <2>3 DEF NewOf
    <3> QED BY <1>6, <1>9, <1>10, <2>1, <3>1
  <2> QED BY <2>2, <2>3
<1>13. TablesOn(disk', toc', job', w)
  BY <1>6, <1>9, <1>10, <1>12 DEF TablesOn
<1>14. h.start = runs[1].start
  BY <1>4 DEF NewHeader
<1>15. NewThere'
  BY <1>8, <1>9, <1>10, <1>14 DEF NewThere
<1> QED BY <1>5, <1>9, <1>11, <1>13, <1>15 DEF TableInv

\* A command that changes no list but for a name has begun.
LEMMA BegunKnown ==
  ASSUME TableInv, TypeInv', NEW t, t = TocRead(disk), t.ok, disk' = disk,
         phase' \in {"title", "attributes"}, job'.op # "install",
         \/ toc' = t
         \/ \E at \in GamesIn(t), id \in Ids : toc' = RenamedIn(t, at, id)
  PROVE  TableInv'
<1>1. DiskOK(disk) /\ DiskSane(disk) /\ TocOK(t)
  BY TocReadOK DEF TableInv, TypeInv
<1>2. /\ t.got = GotSecondSlice(disk)
      /\ \A q \in Slices(t) : TableOn(disk, t.got, q, t.slice[q], NoNew, ModStarts(t.slice[q]))
  BY <1>1, TocTables
<1>3. /\ toc'.got = t.got /\ Slices(toc') = Slices(t)
      /\ \A q \in Slices(t) :
           TableOn(disk, t.got, q, toc'.slice[q], NoNew, ModStarts(toc'.slice[q]))
  <2>1. CASE toc' = t
    BY <1>2, <2>1
  <2>2. CASE toc' # t
    <3>1. PICK at \in GamesIn(t), id \in Ids : toc' = RenamedIn(t, at, id)
      BY <2>2
    <3>2. PICK u, i, k : u = toc' /\ i = at[1] /\ k = at[2]
      OBVIOUS
    <3>3. /\ i \in Slices(t) /\ k \in 1 .. Len(t.slice[i]) /\ t.slice[i] \in Seq(PartType)
          /\ t.slice[i][k].h.id \in Ids
      BY <1>1, <3>2, GameAt
    <3>4. /\ Replaced(t, i, u) /\ Len(u.slice[i]) = Len(t.slice[i])
          /\ u.slice[i][k] = Renamed(t.slice[i][k], id)
          /\ \A m \in 1 .. Len(t.slice[i]) : m # k => u.slice[i][m] = t.slice[i][m]
      BY <1>1, <3>1, <3>2, RenamedOK
    <3>5. PICK ps, new : ps = t.slice[i] /\ new = u.slice[i]
      OBVIOUS
    <3>6. u.slice[i] \in Seq(PartType)
      BY <3>3, <3>4 DEF Replaced, TocOK, PartsOK
    <3>7. OneRenamed(ps, new, k, id)
      BY <3>3, <3>4, <3>5, <3>6 DEF OneRenamed
    <3>8. PICK got : got = t.got
      OBVIOUS
    <3>9. TableOn(disk, got, i, ps, NoNew, ModStarts(ps)) /\ i \in {0, 1}
      BY <1>2, <3>3, <3>5, <3>8, SlicesAre
    <3>10. TableOn(disk, got, i, new, NoNew, ModStarts(new))
      BY <3>7, <3>9, RenamedTable
    <3>11. /\ u.got = t.got /\ Slices(u) = Slices(t)
           /\ \A q \in Slices(t) \ {i} : u.slice[q] = t.slice[q]
      BY <3>4 DEF Replaced
    <3> QED BY <1>2, <3>2, <3>5, <3>8, <3>10, <3>11
  <2> QED BY <2>1, <2>2
<1>4. PICK w : w = Waits(phase', toc', job', todo')
  OBVIOUS
<1>5. ASSUME NEW q \in Slices(toc')
      PROVE  TableOn(disk', toc'.got, q, toc'.slice[q], NewOf(job', q), w[q])
  <2>1. w[q] = ModStarts(toc'.slice[q])
    BY <1>4, SlicesAre, WaitsAre
  <2>2. NewOf(job', q) = NoNew
    BY DEF NewOf
  <2> QED BY <1>3, <2>1, <2>2
<1>6. TablesOn(disk', toc', job', w)
  BY <1>2, <1>3, <1>5 DEF TablesOn
<1>7. NewThere'
  BY DEF NewThere
<1> QED BY <1>1, <1>4, <1>6, <1>7 DEF TableInv

-----------------------------------------------------------------------------
(* Headers changed where they are: inject_mbr, and deleting on the console. *)

\* what a header says but for its links
SameLinks(d, e) ==
  /\ DOMAIN e = DOMAIN d
  /\ \A c \in DOMAIN d : /\ e[c].hdr = Junk <=> d[c].hdr = Junk
                         /\ d[c].hdr # Junk => /\ e[c].hdr.start = d[c].hdr.start
                                               /\ e[c].hdr.next = d[c].hdr.next

\* the headers on the disk d in the places of those of a list
Shadow(d, i, hs, gs) ==
  /\ gs \in Seq(HeaderType) /\ Len(gs) = Len(hs)
  /\ \A k \in 1 .. Len(hs) : gs[k] = d[Base(i) + hs[k].start].hdr /\ gs[k].start = hs[k].start

LEMMA ShadowPath ==
  ASSUME NEW d, HeadersTyped(d), NEW e, SameLinks(d, e), NEW i \in {0, 1}, NEW hs, Path(e, i, hs)
  PROVE  \E gs : Path(d, i, gs) /\ Shadow(d, i, hs, gs)
<1>1. PICK l \in Nat : l = Len(hs)
  BY SequenceIs DEF Path
<1>2. /\ l # 0 /\ hs[1].start = 0 /\ hs[l].next = 0
      /\ \A k \in 1 .. l : InPlace(e, i, hs[k]) /\ hs[k] \in HeaderType
      /\ \A k \in 1 .. l - 1 : hs[k].next # 0 /\ hs[k].next = hs[k + 1].start
  BY <1>1, SequenceIs DEF Path
<1>3. PICK gs : gs = [k \in 1 .. l |-> d[Base(i) + hs[k].start].hdr]
  OBVIOUS
<1>4. ASSUME NEW k \in 1 .. l
      PROVE  /\ gs[k] \in HeaderType /\ gs[k] = d[Base(i) + hs[k].start].hdr
             /\ gs[k].start = hs[k].start /\ gs[k].next = hs[k].next
             /\ Base(i) + hs[k].start \in DOMAIN d
  <2>1. hs[k] # Junk /\ InPlace(e, i, hs[k])
    BY <1>2, NotJunk
  <2>2. PICK c : c = Base(i) + hs[k].start
    OBVIOUS
  <2>3. c \in DOMAIN d /\ hs[k] = e[c].hdr
    BY <2>1, <2>2 DEF InPlace, SameLinks
  <2>4. gs[k] = d[c].hdr
    BY <1>3, <2>2
  <2>5. gs[k] # Junk /\ gs[k].start = hs[k].start /\ gs[k].next = hs[k].next
    BY <2>1, <2>3, <2>4 DEF SameLinks
  <2>6. gs[k] \in HeaderType
    BY <2>3, <2>4, <2>5 DEF HeadersTyped
  <2> QED BY <2>2, <2>3, <2>4, <2>5, <2>6
<1>5. gs \in Seq(HeaderType) /\ Len(gs) = l
  <2>1. \A k \in 1 .. l : gs[k] \in HeaderType
    BY <1>4
  <2> QED BY <1>3, <2>1
<1>6. \A k \in 1 .. l : InPlace(d, i, gs[k])
  BY <1>4 DEF InPlace
<1>7. gs[1].start = 0 /\ gs[l].next = 0
  BY <1>2, <1>4
<1>8. \A k \in 1 .. l - 1 : gs[k].next # 0 /\ gs[k].next = gs[k + 1].start
  <2> SUFFICES ASSUME NEW k \in 1 .. l - 1 PROVE gs[k].next # 0 /\ gs[k].next = gs[k + 1].start
    OBVIOUS
  <2>1. k \in 1 .. l /\ k + 1 \in 1 .. l
    OBVIOUS
  <2> QED BY <1>2, <1>4, <2>1
<1>9. Path(d, i, gs)
  BY <1>2, <1>5, <1>6, <1>7, <1>8 DEF Path
<1>10. Shadow(d, i, hs, gs)
  BY <1>1, <1>4, <1>5 DEF Shadow
<1> QED BY <1>9, <1>10

\* Only one list can be met.
LEMMA PathOnce ==
  ASSUME NEW d, NEW i, NEW hs, Path(d, i, hs), NEW gs, Path(d, i, gs)
  PROVE  hs = gs
<1>1. PICK l \in Nat, m \in Nat : l = Len(hs) /\ m = Len(gs)
  BY SequenceIs DEF Path
<1>2. /\ l # 0 /\ hs[1].start = 0 /\ hs[l].next = 0 /\ m # 0 /\ gs[1].start = 0 /\ gs[m].next = 0
      /\ \A k \in 1 .. l : hs[k] = d[Base(i) + hs[k].start].hdr
      /\ \A k \in 1 .. m : gs[k] = d[Base(i) + gs[k].start].hdr
      /\ \A k \in 1 .. l - 1 : hs[k].next # 0 /\ hs[k].next = hs[k + 1].start
      /\ \A k \in 1 .. m - 1 : gs[k].next # 0 /\ gs[k].next = gs[k + 1].start
  BY <1>1 DEF Path, InPlace
<1>3. PICK P : P = {k \in 1 .. l : k <= m /\ gs[k] = hs[k]}
  OBVIOUS
<1>4. 1 \in P
  BY <1>1, <1>2, <1>3
<1>5. \A k \in 1 .. l - 1 : 1 .. k \subseteq P => k + 1 \in P
  <2> SUFFICES ASSUME NEW k \in 1 .. l - 1, 1 .. k \subseteq P PROVE k + 1 \in P
    OBVIOUS
  <2>1. k \in P /\ k + 1 \in 1 .. l
    OBVIOUS
  <2>2. k <= m /\ gs[k] = hs[k]
    BY <1>3, <2>1
  <2>3. k # m
    BY <1>2, <2>2
  <2>4. k \in 1 .. m - 1 /\ k + 1 \in 1 .. m
    BY <1>1, <2>2, <2>3
  <2>5. gs[k + 1].start = hs[k + 1].start
    BY <1>2, <2>2, <2>4
  <2>6. gs[k + 1] = hs[k + 1]
    BY <1>2, <2>1, <2>4, <2>5
  <2> QED BY <1>3, <2>1, <2>4, <2>6
<1>6. 1 .. l \subseteq P
  BY <1>4, <1>5, Upward
<1>7. l <= m /\ \A k \in 1 .. l : gs[k] = hs[k]
  BY <1>2, <1>3, <1>6
<1>8. l = m
  <2>1. CASE l < m
    <3>1. l \in 1 .. m - 1 /\ l \in 1 .. l
      BY <1>2, <2>1
    <3> QED BY <1>2, <1>7, <3>1
  <2> QED BY <1>1, <1>7, <2>1
<1>9. hs = [k \in 1 .. l |-> hs[k]] /\ gs = [k \in 1 .. m |-> gs[k]]
  BY <1>1, SequenceIs DEF Path
<1> QED BY <1>7, <1>8, <1>9

\* the first header of the disk is written anew, with its links
MbrPut(d, e) ==
  /\ HeadersTyped(d) /\ HeadersTyped(e) /\ d[0].hdr # Junk /\ e[0].hdr # Junk
  /\ \A c \in DOMAIN d \ {0} : e[c].hdr = d[c].hdr
  /\ e[0].hdr.id = MbrId /\ e[0].hdr.start = 0 /\ e[0].hdr.main = 0
  /\ e[0].hdr.next = d[0].hdr.next /\ e[0].hdr.dialect = "plain"

LEMMA MbrPutList ==
  ASSUME NEW d, NEW e, MbrPut(d, e), DiskSane(d), NEW hs, Listed(e, 0, hs)
  PROVE  ListGood(e, 0, hs)
<1>1. /\ HeadersTyped(d) /\ DOMAIN d = 0 .. Chunks - 1 /\ DOMAIN e = DOMAIN d /\ 0 \in DOMAIN d
      /\ Base(0) = 0 /\ d[0].hdr.start = 0 /\ d[0].hdr.main = 0
  BY BaseIs, DiskAssumption DEF MbrPut, HeadersTyped, DiskSane, SystemFirst
<1>2. SameLinks(d, e)
  BY <1>1 DEF MbrPut, SameLinks
<1>3. PICK gs : Path(d, 0, gs) /\ Shadow(d, 0, hs, gs)
  BY <1>1, <1>2, ShadowPath DEF Listed
<1>4. PICK l \in Nat : l = Len(hs)
  BY SequenceIs DEF Listed, Path
<1>5. /\ l # 0 /\ hs[1].start = 0 /\ Len(gs) = l
      /\ \A k \in 1 .. l : InPlace(e, 0, hs[k]) /\ hs[k] \in HeaderType
      /\ \A k \in 1 .. l - 1 : hs[k].next # 0 /\ hs[k].next = hs[k + 1].start
      /\ \A k \in 1 .. l : gs[k] = d[Base(0) + hs[k].start].hdr /\ gs[k].start = hs[k].start
  BY <1>3, <1>4, SequenceIs DEF Listed, Path, Shadow
<1>6. ASSUME NEW k \in 1 .. l PROVE hs[k].start = 0 <=> k = 1
  <2>1. CASE k = 1
    BY <1>5, <2>1
  <2>2. CASE k # 1
    <3>1. k - 1 \in 1 .. l - 1 /\ (k - 1) + 1 = k
      BY <2>2
    <3> QED BY <1>5, <2>2, <3>1
  <2> QED BY <2>1, <2>2
<1>7. ASSUME NEW k \in 1 .. l
      PROVE  /\ gs[k].main = hs[k].main /\ gs[k].start = hs[k].start
             /\ k # 1 => gs[k] = hs[k]
  <2>1. PICK s \in Nat : s = hs[k].start
    BY <1>5, HeaderNumbers
  <2>2. s \in DOMAIN d /\ hs[k] = e[s].hdr /\ gs[k] = d[s].hdr
    <3>1. PICK p : p = Base(0) + hs[k].start
      OBVIOUS
    <3>2. p \in DOMAIN e /\ hs[k] = e[p].hdr /\ gs[k] = d[p].hdr
      BY <1>5, <3>1 DEF InPlace
    <3>3. p = s
      BY <1>1, <2>1, <3>1
    <3> QED BY <1>1, <3>2, <3>3
  <2>3. CASE k = 1
    <3>1. s = 0
      BY <1>6, <2>1, <2>3
    <3>2. gs[k].main = 0 /\ hs[k].main = 0
      BY <1>1, <2>2, <3>1 DEF MbrPut
    <3> QED BY <1>5, <2>3, <3>2
  <2>4. CASE k # 1
    BY <1>5, <1>6, <2>1, <2>2, <2>4 DEF MbrPut
  <2> QED BY <2>3, <2>4
<1>8. SubsMet(hs) /\ hs[1].main = 0
  <2>1. hs[1] = e[0].hdr
    <3>1. 1 \in 1 .. l /\ Base(0) + hs[1].start = 0
      BY <1>1, <1>5
    <3>2. InPlace(e, 0, hs[1])
      BY <1>5, <3>1
    <3> QED BY <3>1, <3>2 DEF InPlace
  <2> QED BY <2>1 DEF Listed, MbrPut
<1>9. SubsMet(gs)
  <2> SUFFICES ASSUME NEW k \in 1 .. l, gs[k].main = 0, gs[k].start # 0
               PROVE  /\ \A s \in DOMAIN gs[k].subs : \E j \in 1 .. l :
                           gs[j].main = gs[k].start /\ gs[j].start = gs[k].subs[s].start
                      /\ \A j \in 1 .. l : gs[j].main = gs[k].start => gs[k].subs # <<>>
    BY <1>5 DEF SubsMet
  <2>1. gs[k] = hs[k]
    BY <1>5, <1>6, <1>7
  <2>2. /\ \A s \in DOMAIN hs[k].subs : \E j \in 1 .. l :
             hs[j].main = hs[k].start /\ hs[j].start = hs[k].subs[s].start
        /\ \A j \in 1 .. l : hs[j].main = hs[k].start => hs[k].subs # <<>>
    BY <1>4, <1>8, <2>1 DEF SubsMet
  <2> QED BY <1>7, <2>1, <2>2
<1>10. Listed(d, 0, gs)
  BY <1>3, <1>9 DEF Listed
<1>11. ListGood(d, 0, gs)
  BY <1>10 DEF DiskSane, ListsGood, SlicesOn
<1>12. Rising(hs)
  BY <1>4, <1>5, <1>7, <1>11 DEF ListGood, Rising
<1>13. Sound(hs)
  BY <1>4, <1>5, <1>7, <1>11 DEF ListGood, Sound
<1>14. Complete(e, 0, hs)
  <2> SUFFICES ASSUME NEW c \in 0 .. Chunks - 1, Base(0) + c < Chunks, e[Base(0) + c].hdr # Junk,
                      e[Base(0) + c].hdr.start = c, e[Base(0) + c].hdr.main # 0
               PROVE  \E k \in 1 .. Len(hs) : hs[k].start = c
    BY DEF Complete
  <2>1. Base(0) + c = c
    BY <1>1
  <2>2. c # 0
    BY <2>1 DEF MbrPut
  <2>3. e[c].hdr = d[c].hdr
    BY <1>1, <2>2 DEF MbrPut
  <2>4. \E k \in 1 .. Len(gs) : gs[k].start = c
    BY <1>11, <2>1, <2>3 DEF ListGood, Complete
  <2> QED BY <1>4, <1>5, <1>7, <2>4
<1> QED BY <1>12, <1>13, <1>14 DEF ListGood

LEMMA MbrSane ==
  ASSUME NEW d, NEW e, MbrPut(d, e), DiskSane(d)
  PROVE  DiskSane(e)
<1>1. SlicesOn(e) = {0}
  BY DEF MbrPut, SlicesOn, GotSecondSlice, Dialect
<1>2. Heirless(e)
  <2>1. ASSUME NEW c \in DOMAIN e, e[c].hdr # Junk PROVE NoHeirs(e[c].hdr)
    <3>1. DOMAIN e = DOMAIN d
      BY DEF MbrPut, HeadersTyped
    <3>2. CASE c = 0
      <4>1. MbrId # EmptyId
        BY DEF MbrId, EmptyId
      <4> QED BY <3>2, <4>1 DEF MbrPut, NoHeirs
    <3>3. CASE c # 0
      BY <2>1, <3>1, <3>3 DEF MbrPut, DiskSane, Heirless
    <3> QED BY <3>2, <3>3
  <2> QED BY <2>1 DEF Heirless
<1>3. SystemFirst(e)
  BY <1>1, BaseIs DEF SystemFirst, MbrPut
<1>4. ListsGood(e)
  BY <1>1, MbrPutList DEF ListsGood
<1> QED BY <1>2, <1>3, <1>4 DEF DiskSane

LEMMA MbrKnown == ASSUME TableInv, TypeInv', InjectMbr PROVE TableInv'
<1>1. DiskOK(disk) /\ DiskOK(disk') /\ DiskSane(disk)
  BY DEF TableInv, TypeInv
<1>2. PICK h : h = [System("plain") EXCEPT !.next = disk[0].hdr.next, !.prev = disk[0].hdr.prev]
  OBVIOUS
<1>3. disk' = [disk EXCEPT ![0].hdr = h] /\ End("ok")
  BY <1>2 DEF InjectMbr
<1>4. 0 \in DOMAIN disk /\ DOMAIN disk[0] = {"hdr", "tab", "data"}
  BY <1>1, DiskAssumption DEF DiskOK, ChunkOK
<1>5. disk'[0].hdr = h /\ \A c \in DOMAIN disk \ {0} : disk'[c].hdr = disk[c].hdr
  BY <1>3, <1>4
<1>6. h = [id |-> MbrId, start |-> 0, len |-> 1, main |-> 0, subs |-> <<>>,
           next |-> disk[0].hdr.next, prev |-> disk[0].hdr.prev, dialect |-> "plain"]
  BY <1>2 DEF System
<1>7. h.id = MbrId /\ h.start = 0 /\ h.main = 0 /\ h.next = disk[0].hdr.next /\ h.dialect = "plain"
  BY <1>6
<1>8. disk[0].hdr # Junk /\ disk'[0].hdr # Junk
  BY <1>1, DiskAssumption DEF DiskOK, ChunkOK
<1>9. MbrPut(disk, disk')
  BY <1>1, <1>5, <1>7, <1>8, DiskTyped DEF MbrPut
<1> QED BY <1>1, <1>3, <1>9, MbrSane, EndKnown

\* Some partitions have been made empty ones, but the first of no slice.
Emptied(d, e) ==
  /\ HeadersTyped(d) /\ HeadersTyped(e) /\ e[0].hdr = d[0].hdr
  /\ \A c \in DOMAIN d :
       \/ e[c].hdr = d[c].hdr
       \/ /\ d[c].hdr # Junk /\ e[c].hdr # Junk
          /\ e[c].hdr.start = d[c].hdr.start /\ e[c].hdr.next = d[c].hdr.next
          /\ e[c].hdr.main = 0 /\ e[c].hdr.subs = <<>>
  /\ \A i \in SlicesOn(d) : Base(i) < Chunks => e[Base(i)].hdr = d[Base(i)].hdr

LEMMA EmptiedList ==
  ASSUME NEW d, NEW e, Emptied(d, e), DiskSane(d), NEW i \in SlicesOn(d),
         NEW is, Listed(d, i, is), NEW hs, Listed(e, i, hs)
  PROVE  ListGood(e, i, hs)
<1>1. HeadersTyped(d) /\ DOMAIN e = DOMAIN d /\ i \in {0, 1}
  BY DEF Emptied, HeadersTyped, SlicesOn
<1>2. SameLinks(d, e)
  BY <1>1 DEF Emptied, SameLinks
<1>3. PICK gs : Path(d, i, gs) /\ Shadow(d, i, hs, gs)
  BY <1>1, <1>2, ShadowPath DEF Listed
<1>4. gs = is
  BY <1>3, PathOnce DEF Listed
<1>5. ListGood(d, i, gs)
  BY <1>4 DEF DiskSane, ListsGood
<1>6. PICK l \in Nat : l = Len(hs)
  BY SequenceIs DEF Listed, Path
<1>7. /\ Len(gs) = l /\ \A k \in 1 .. l : InPlace(e, i, hs[k])
      /\ \A k \in 1 .. l : gs[k] = d[Base(i) + hs[k].start].hdr /\ gs[k].start = hs[k].start
  BY <1>3, <1>6 DEF Listed, Path, Shadow
<1>8. ASSUME NEW k \in 1 .. l
      PROVE  gs[k].start = hs[k].start /\ (hs[k] = gs[k] \/ hs[k].main = 0)
  <2>1. PICK c : c = Base(i) + hs[k].start
    OBVIOUS
  <2>2. c \in DOMAIN d /\ hs[k] = e[c].hdr /\ gs[k] = d[c].hdr
    BY <1>1, <1>7, <2>1 DEF InPlace
  <2> QED BY <1>7, <2>2 DEF Emptied
<1>9. Rising(hs)
  BY <1>5, <1>6, <1>7, <1>8 DEF ListGood, Rising
<1>10. Sound(hs)
  <2> SUFFICES ASSUME NEW j \in 1 .. l, hs[j].main # 0
               PROVE  \E k \in 1 .. l : hs[k].start = hs[j].main /\ hs[k].main = 0
    BY <1>6 DEF Sound
  <2>1. hs[j] = gs[j]
    BY <1>8
  <2>2. PICK k \in 1 .. l : gs[k].start = hs[j].main /\ gs[k].main = 0
    BY <1>5, <1>7, <2>1 DEF ListGood, Sound
  <2> QED BY <1>8, <2>2
<1>11. Complete(e, i, hs)
  <2> SUFFICES ASSUME NEW c \in 0 .. Chunks - 1, Base(i) + c < Chunks, e[Base(i) + c].hdr # Junk,
                      e[Base(i) + c].hdr.start = c, e[Base(i) + c].hdr.main # 0
               PROVE  \E k \in 1 .. Len(hs) : hs[k].start = c
    BY DEF Complete
  <2>1. Base(i) + c \in DOMAIN d
    BY <1>1, ChunkIn
  <2>2. e[Base(i) + c].hdr = d[Base(i) + c].hdr
    BY <2>1 DEF Emptied
  <2>3. \E k \in 1 .. Len(gs) : gs[k].start = c
    BY <1>5, <2>2 DEF ListGood, Complete
  <2> QED BY <1>6, <1>7, <1>8, <2>3
<1> QED BY <1>9, <1>10, <1>11 DEF ListGood

LEMMA EmptiedSane ==
  ASSUME NEW d, NEW e, Emptied(d, e), DiskSane(d), d[0].hdr # Junk,
         \A i \in SlicesOn(d) : \E is : Listed(d, i, is)
  PROVE  DiskSane(e)
<1>1. SlicesOn(e) = SlicesOn(d)
  BY SameSlices DEF Emptied
<1>2. Heirless(e)
  <2>1. ASSUME NEW c \in DOMAIN e, e[c].hdr # Junk PROVE NoHeirs(e[c].hdr)
    <3>1. c \in DOMAIN d
      BY DEF Emptied, HeadersTyped
    <3>2. e[c].hdr = d[c].hdr \/ e[c].hdr.subs = <<>>
      BY <3>1 DEF Emptied
    <3> QED BY <2>1, <3>1, <3>2 DEF DiskSane, Heirless, NoHeirs
  <2> QED BY <2>1 DEF Heirless
<1>3. SystemFirst(e)
  BY <1>1 DEF SystemFirst, Emptied, DiskSane
<1>4. ListsGood(e)
  <2>1. ASSUME NEW i \in SlicesOn(d), NEW hs, Listed(e, i, hs) PROVE ListGood(e, i, hs)
    BY <2>1, EmptiedList
  <2> QED BY <1>1, <2>1 DEF ListsGood
<1> QED BY <1>2, <1>3, <1>4 DEF DiskSane

\* The partitions of a game of an accepted list are inside the slice, and not
\* at its start.
LEMMA HeadsInside ==
  ASSUME NEW d, NEW i, NEW hs, Listed(d, i, hs), NEW n, Within(n, hs), NEW j \in 1 .. Len(hs),
         hs[j].main = 0, hs[j].start # 0, NEW h \in HeaderType, Relinked(h, hs[j]),
         NEW k \in DOMAIN RunsOf(h)
  PROVE  RunsOf(h)[k].start \in Nat \ {0} /\ RunsOf(h)[k].start < n
<1>1. PICK subs, r : /\ subs \in Seq(RunType) /\ subs = h.subs
                     /\ r = [start |-> h.start, len |-> h.len]
  BY HeaderNumbers
<1>2. RunsOf(h) = <<r>> \o subs
  BY <1>1 DEF RunsOf
<1>3. Len(subs) \in Nat /\ DOMAIN subs = 1 .. Len(subs) /\ \A m \in 1 .. Len(subs) : subs[m] \in RunType
  BY <1>1, SequenceIs
<1>4. k \in 1 .. Len(subs) + 1
  BY <1>2
<1>5. h.start = hs[j].start /\ subs = hs[j].subs /\ h.start \in Nat
  BY <1>1, HeaderNumbers DEF Relinked
<1>6. CASE k = 1
  <2>1. RunsOf(h)[k] = r
    BY <1>2, <1>6
  <2>2. r.start = h.start /\ h.start < n
    BY <1>1, <1>5 DEF Within
  <2> QED BY <1>5, <2>1, <2>2
<1>7. CASE k # 1
  <2>1. PICK m \in 1 .. Len(subs) : k = m + 1
    <3>1. k - 1 \in 1 .. Len(subs) /\ k = k - 1 + 1
      BY <1>3, <1>4, <1>7
    <3> QED BY <3>1
  <2>2. RunsOf(h)[k] = subs[m]
    BY <1>2, <1>3, <2>1
  <2>3. subs[m].start \in Nat \ {0}
    <3>1. subs[m].start \in 1 .. Chunks - 1
      BY <1>3, <2>1 DEF RunType
    <3> QED BY <3>1
  <2>4. PICK q \in 1 .. Len(hs) : hs[q].start = subs[m].start
    BY <1>3, <1>5, <2>1 DEF Listed, SubsMet
  <2>5. hs[q].start < n
    BY DEF Within
  <2> QED BY <2>2, <2>3, <2>4, <2>5
<1> QED BY <1>6, <1>7

\* u is d with the headers of these chunks emptied
HeadersEmptied(d, u, heads) == \A c \in DOMAIN d \cap heads : u[c].hdr = AsEmpty(d[c].hdr)

LEMMA DeletedHeaders ==
  ASSUME NEW d, DiskOK(d), NEW heads, NEW u, u = Deleted(d, heads) PROVE HeadersEmptied(d, u, heads)
<1> SUFFICES ASSUME NEW c \in DOMAIN d, c \in heads PROVE u[c].hdr = AsEmpty(d[c].hdr)
  BY DEF HeadersEmptied
<1>1. u[c] = [d[c] EXCEPT !.hdr = AsEmpty(d[c].hdr)]
  BY DeletedChunk
<1>2. DOMAIN d[c] = {"hdr", "tab", "data"}
  BY DEF DiskOK, ChunkOK
<1> QED BY <1>1, <1>2

LEMMA DeleteKnown == ASSUME TableInv, TypeInv', ConsoleDelete PROVE TableInv'
<1>1. PICK t : t = TocRead(disk) /\ t.ok /\ \E at \in GamesIn(t) :
                 disk' = Deleted(disk, HeadsIn(at[1], t.slice[at[1]][at[2]].h))
  BY ConsoleDeletes
<1>2. PICK at \in GamesIn(t) : disk' = Deleted(disk, HeadsIn(at[1], t.slice[at[1]][at[2]].h))
  BY <1>1
<1>3. PICK i, m, h, heads :
        /\ i = at[1] /\ m = at[2] /\ h = t.slice[i][m].h /\ heads = HeadsIn(i, h)
        /\ disk' = Deleted(disk, heads)
  BY <1>2
<1>4. /\ DiskOK(disk) /\ DiskOK(disk') /\ DiskSane(disk) /\ TocOK(t) /\ phase = "idle"
      /\ HeadersTyped(disk) /\ HeadersTyped(disk') /\ disk[0].hdr # Junk
  BY <1>1, TocReadOK, KnownDisk, DiskTyped DEF TableInv, TypeInv, ConsoleDelete
<1>5. /\ i \in Slices(t) /\ m \in 1 .. Len(t.slice[i]) /\ h \in HeaderType
      /\ h.id \in Ids /\ h.main = 0 /\ Base(i) + h.start # 0
  <2>1. h.id \in Ids /\ h.main = 0 /\ Base(i) + h.start \in 1 .. Chunks - 1
    BY <1>3, <1>4, GameAt DEF ChunkOf
  <2>2. i \in Slices(t) /\ m \in 1 .. Len(t.slice[i]) /\ h \in HeaderType
    BY <1>3, <1>4, GameAt
  <2> QED BY <2>1, <2>2
<1>6. /\ t.got = GotSecondSlice(disk) /\ Slices(t) = SlicesOn(disk)
      /\ \A q \in SlicesOn(disk) : /\ q \in {0, 1} /\ SliceRead(disk, t.got, q).ok
                                   /\ t.slice[q] = SliceRead(disk, t.got, q).parts
  BY <1>1, TocSlices
<1>7. PICK got, n : got = t.got /\ n = SliceChunks(got, i)
  OBVIOUS
<1>8. PICK hs : /\ Listed(disk, i, hs) /\ Distinct(hs) /\ Check(n, hs)
                /\ t.slice[i] = DeleteEmpty(Read(hs))
  BY <1>4, <1>5, <1>6, <1>7, ReadListed
<1>9. /\ hs \in Seq(HeaderType) /\ Len(hs) \in Nat /\ DOMAIN hs = 1 .. Len(hs)
      /\ \A j \in 1 .. Len(hs) : InPlace(disk, i, hs[j]) /\ hs[j] \in HeaderType
  BY <1>8, SequenceIs DEF Listed, Path
<1>10. Within(n, hs)
  BY <1>8, <1>9, CheckIs
<1>11. PICK j \in 1 .. Len(hs) : Relinked(h, hs[j])
  <2>1. EmptiesGone(hs, t.slice[i])
    BY <1>8, <1>9, DeleteEmptyFacts
  <2> QED BY <1>3, <1>5, <2>1 DEF EmptiesGone
<1>12. hs[j].main = 0 /\ hs[j].start = h.start /\ hs[j].id \in Ids
  BY <1>5, <1>11 DEF Relinked
<1>13. PICK s \in Nat, b \in Nat : s = h.start /\ b = Base(i)
  BY <1>5, <1>6, BaseIs, HeaderNumbers
<1>14. s # 0
  <2> SUFFICES ASSUME s = 0 PROVE FALSE
    OBVIOUS
  <2>1. Base(i) + hs[j].start = b
    BY <1>12, <1>13
  <2>2. b \in DOMAIN disk /\ hs[j] = disk[b].hdr
    BY <1>9, <2>1 DEF InPlace
  <2>3. b < Chunks /\ disk[b].hdr # Junk
    <3>1. b < Chunks
      BY <1>4, <1>13, <2>2, DiskAssumption DEF HeadersTyped
    <3> QED BY <1>9, <2>2, <3>1, NotJunk
  <2>4. disk[b].hdr.id = MbrId
    BY <1>4, <1>5, <1>6, <1>13, <2>3 DEF DiskSane, SystemFirst
  <2> QED BY <1>12, <2>2, <2>4, IdsOther
<1>15. \A x \in heads : \E r \in Nat \ {0} : x = b + r /\ r < n
  <2> SUFFICES ASSUME NEW x \in heads PROVE \E r \in Nat \ {0} : x = b + r /\ r < n
    OBVIOUS
  <2>1. PICK k \in DOMAIN RunsOf(h) : x = Base(i) + RunsOf(h)[k].start
    BY <1>3 DEF HeadsIn
  <2>2. RunsOf(h)[k].start \in Nat \ {0} /\ RunsOf(h)[k].start < n
    BY <1>5, <1>8, <1>10, <1>11, <1>12, <1>13, <1>14, HeadsInside
  <2> QED BY <1>13, <2>1, <2>2
<1>16. ASSUME NEW q \in SlicesOn(disk), Base(q) < Chunks PROVE Base(q) \notin heads
  <2> SUFFICES ASSUME Base(q) \in heads PROVE FALSE
    OBVIOUS
  <2>1. PICK r \in Nat \ {0} : Base(q) = b + r /\ r < n
    BY <1>15
  <2>2. PICK z \in Nat \ {0} : z = Slice2
    BY DiskAssumption
  <2>3. q \in {0, 1} /\ i \in {0, 1}
    BY <1>5, <1>6
  <2>4. CASE q = 0
    <3>1. 0 = b + r
      BY <2>1, <2>4, BaseIs
    <3> QED BY <3>1
  <2>5. CASE q = 1 /\ i = 1
    <3>1. b = b + r
      BY <1>13, <2>1, <2>5
    <3> QED BY <3>1
  <2>6. CASE q = 1 /\ i = 0
    <3>1. b = 0 /\ Base(q) = z
      BY <1>13, <2>2, <2>6, BaseIs
    <3>2. got = TRUE
      <4>1. GotSecondSlice(disk)
        BY <2>6 DEF SlicesOn
      <4>2. GotSecondSlice(disk) \in BOOLEAN
        BY DEF GotSecondSlice
      <4> QED BY <1>6, <1>7, <4>1, <4>2
    <3>3. n = z - 1
      BY <1>7, <2>2, <2>6, <3>2 DEF SliceChunks
    <3>4. z = 0 + r /\ r < z - 1
      BY <2>1, <3>1, <3>3
    <3> QED BY <3>4
  <2> QED BY <2>3, <2>4, <2>5, <2>6
<1>17. ASSUME NEW c \in DOMAIN disk
       PROVE  \/ disk'[c].hdr = disk[c].hdr
              \/ /\ c \in heads /\ disk[c].hdr # Junk /\ disk'[c].hdr # Junk
                 /\ disk'[c].hdr.start = disk[c].hdr.start /\ disk'[c].hdr.next = disk[c].hdr.next
                 /\ disk'[c].hdr.main = 0 /\ disk'[c].hdr.subs = <<>>
  <2>1. CASE c \notin heads
    BY <1>3, <2>1 DEF Deleted
  <2>2. CASE c \in heads
    <3>1. disk[c].hdr \in HeaderType \cup {Junk}
      BY <1>4 DEF HeadersTyped
    <3>2. PICK g : g = AsEmpty(disk[c].hdr)
      OBVIOUS
    <3>3. disk'[c].hdr = g
      <4>1. HeadersEmptied(disk, disk', heads)
        BY <1>3, <1>4, DeletedHeaders
      <4> QED BY <2>2, <3>2, <4>1, SMTT(30) DEF HeadersEmptied
    <3>4. CASE disk[c].hdr = Junk
      <4>1. AsEmpty(Junk) = Junk
        BY DEF AsEmpty, Junk
      <4> QED BY <3>2, <3>3, <3>4, <4>1
    <3>5. CASE disk[c].hdr \in HeaderType
      <4>1. PICK f : f = disk[c].hdr
        OBVIOUS
      <4>2. g = [f EXCEPT !.id = EmptyId, !.main = 0, !.subs = <<>>] /\ f \in HeaderType
        BY <3>2, <3>5, <4>1 DEF AsEmpty
      <4>3. g.start = f.start /\ g.next = f.next /\ g.main = 0 /\ g.subs = <<>> /\ "start" \in DOMAIN g
        BY <4>2 DEF HeaderType
      <4>4. g # Junk
        BY <4>3 DEF Junk
      <4> QED BY <2>2, <3>3, <3>5, <4>1, <4>3, <4>4, NotJunk
    <3> QED BY <3>1, <3>4, <3>5
  <2> QED BY <2>1, <2>2
<1>18. ASSUME NEW q \in SlicesOn(disk), Base(q) < Chunks
       PROVE  Base(q) \in DOMAIN disk /\ disk'[Base(q)].hdr = disk[Base(q)].hdr
  <2>1. PICK a \in Nat : a = Base(q)
    BY <1>6, BaseIs
  <2>2. a \in DOMAIN disk
    BY <1>4, <1>18, <2>1, DiskAssumption DEF HeadersTyped
  <2> QED BY <1>16, <1>17, <1>18, <2>1, <2>2
<1>19. disk'[0].hdr = disk[0].hdr
  BY <1>18, BaseIs, DiskAssumption DEF SlicesOn
<1>20. Emptied(disk, disk')
  BY <1>4, <1>17, <1>18, <1>19 DEF Emptied
<1>21. ASSUME NEW q \in SlicesOn(disk) PROVE \E is : Listed(disk, q, is)
  BY <1>4, <1>6, ReadListed
<1>22. DiskSane(disk')
  BY <1>4, <1>20, <1>21, EmptiedSane
<1>23. phase' = "idle"
  BY <1>4 DEF ConsoleDelete
<1> QED BY <1>22, <1>23 DEF TableInv

\* a disk as it was formatted: no header has a next one
LEMMA InitKnown == Init => TableInv
<1> SUFFICES ASSUME Init PROVE TableInv
  OBVIOUS
<1>1. TypeInv /\ phase = "idle" /\ DiskOK(disk) /\ HeadersTyped(disk)
  BY InitTyped, DiskTyped DEF Init, TypeInv
<1>2. PICK dialect \in Formats : disk = Formatted(dialect)
  BY DEF Init
<1>3. ASSUME NEW c \in DOMAIN disk, disk[c].hdr # Junk
      PROVE  /\ disk[c].hdr.id = MbrId /\ disk[c].hdr.start = 0 /\ disk[c].hdr.main = 0
             /\ disk[c].hdr.next = 0 /\ disk[c].hdr.subs = <<>>
  <2>1. PICK h : h = IF c = 0 THEN System(dialect)
                     ELSE IF c = Slice2 /\ dialect = "2slice" THEN System("plain")
                     ELSE Junk
    OBVIOUS
  <2>2. disk[c] = [hdr |-> h, tab |-> Junk, data |-> NoData]
    BY <1>2, <2>1 DEF Formatted
  <2>3. disk[c].hdr = h
    BY <2>2
  <2>4. \E d : h = System(d)
    BY <1>3, <2>1, <2>3
  <2> QED BY <2>3, <2>4 DEF System
<1>4. Heirless(disk)
  BY <1>3 DEF Heirless, NoHeirs
<1>5. SystemFirst(disk)
  <2>1. 0 \in DOMAIN disk /\ disk[0].hdr # Junk
    BY <1>1, DiskAssumption, KnownDisk DEF TypeInv, DiskOK, ChunkOK
  <2>2. ASSUME NEW i \in SlicesOn(disk), Base(i) < Chunks, disk[Base(i)].hdr # Junk
        PROVE  disk[Base(i)].hdr.id = MbrId
    <3>1. i \in {0, 1}
      BY DEF SlicesOn
    <3>2. PICK b \in Nat : b = Base(i)
      BY <3>1, BaseIs
    <3>3. b \in DOMAIN disk
      BY <1>1, <2>2, <3>2, DiskAssumption DEF HeadersTyped
    <3> QED BY <1>3, <2>2, <3>2, <3>3
  <2> QED BY <1>3, <2>1, <2>2 DEF SystemFirst
<1>6. ASSUME NEW i \in SlicesOn(disk), NEW hs, Listed(disk, i, hs) PROVE ListGood(disk, i, hs)
  <2>1. /\ hs \in Seq(HeaderType) /\ Len(hs) # 0 /\ Len(hs) \in Nat
        /\ \A k \in 1 .. Len(hs) : InPlace(disk, i, hs[k]) /\ hs[k] \in HeaderType
        /\ \A k \in 1 .. Len(hs) - 1 : hs[k].next # 0
    BY <1>6, SequenceIs DEF Listed, Path
  <2>2. ASSUME NEW k \in 1 .. Len(hs) PROVE hs[k].next = 0 /\ hs[k].main = 0
    BY <1>3, <2>1, NotJunk DEF InPlace
  <2>3. Len(hs) = 1
    <3>1. PICK n \in Nat : n = Len(hs)
      BY <2>1
    <3>2. CASE n \in Nat \ {0, 1}
      <4>1. 1 \in 1 .. n - 1 /\ 1 \in 1 .. n
        BY <3>2
      <4> QED BY <2>1, <2>2, <3>1, <4>1
    <3> QED BY <2>1, <3>1, <3>2
  <2>4. Rising(hs) /\ Sound(hs)
    BY <2>2, <2>3 DEF Rising, Sound
  <2>5. Complete(disk, i, hs)
    <3> SUFFICES ASSUME NEW c \in 0 .. Chunks - 1, Base(i) + c < Chunks,
                        disk[Base(i) + c].hdr # Junk, disk[Base(i) + c].hdr.main # 0
                 PROVE  FALSE
      BY DEF Complete
    <3>1. i \in {0, 1}
      BY DEF SlicesOn
    <3>2. PICK b \in Nat : b = Base(i)
      BY <3>1, BaseIs
    <3>3. b + c \in DOMAIN disk
      BY <1>1, <3>2, DiskAssumption DEF HeadersTyped
    <3> QED BY <1>3, <3>2, <3>3
  <2> QED BY <2>4, <2>5 DEF ListGood
<1>7. DiskSane(disk)
  BY <1>4, <1>5, <1>6 DEF DiskSane, ListsGood
<1> QED BY <1>1, <1>7 DEF TableInv

LEMMA RefuseKnown == ASSUME TableInv, TypeInv', Refuse PROVE TableInv'
<1>1. disk' = disk /\ DiskSane(disk)
  BY DEF Refuse, TableInv
<1>2. DiskSane(disk')
  BY <1>1
<1> QED BY <1>2, EndKnown DEF Refuse

LEMMA InstallGameKnown == ASSUME TableInv, TypeInv', InstallGame PROVE TableInv'
<1>1. PICK t : t = TocRead(disk) /\
        IF ~t.ok THEN Refuse
        ELSE \E name \in Names, prefix \in Prefixes, hint \in {-1, 0, 1} :
               Install(t, Id(prefix, name), name, hint)
  BY DEF InstallGame
<1>2. CASE ~Refuse
  <2>1. PICK name \in Names, prefix \in Prefixes, hint \in {-1, 0, 1} :
          Install(t, Id(prefix, name), name, hint) /\ t.ok
    BY <1>1, <1>2
  <2> QED BY <1>1, <1>2, <2>1, InstallKnown
<1> QED BY <1>2, RefuseKnown

LEMMA ModifyGameKnown == ASSUME TableInv, TypeInv', ModifyGame PROVE TableInv'
<1>1. PICK t : t = TocRead(disk) /\
        IF ~t.ok THEN Refuse
        ELSE \E at \in GamesIn(t), newName \in Names \cup {Keep},
                hide \in Prefixes \cup {Keep} : Modify(t, at, newName, hide)
  BY DEF ModifyGame
<1>2. CASE ~Refuse
  <2>1. PICK at \in GamesIn(t), newName \in Names \cup {Keep}, hide \in Prefixes \cup {Keep} :
          Modify(t, at, newName, hide) /\ t.ok
    BY <1>1, <1>2
  <2>2. DiskOK(disk)
    BY DEF TableInv, TypeInv
  <2>3. TocOK(t)
    BY <1>1, <2>1, <2>2, TocReadOK
  <2>4. PICK c : c = ChunkOf(t, at)
    OBVIOUS
  <2>5. /\ phase' = "title" /\ disk' = disk
        /\ toc' = t \/ \E id \in Ids : toc' = RenamedIn(t, at, id)
    BY <1>2, <2>1, <2>3, <2>4, ModifyStarts
  <2>6. \E title, oldId, old : job' = [op |-> "modify", at |-> c, title |-> title,
                                       oldId |-> oldId, oldTitle |-> old]
    BY <1>2, <2>1, <2>3, <2>4, ModifyStarts
  <2>7. job'.op # "install"
    BY <2>6
  <2> QED BY <1>1, <2>1, <2>5, <2>7, BegunKnown
<1> QED BY <1>2, RefuseKnown

LEMMA ModifyHeaderKnown == ASSUME TableInv, TypeInv', ModifyHeader PROVE TableInv'
<1>1. PICK t : t = TocRead(disk) /\
        IF ~t.ok THEN Refuse
        ELSE \E at \in GamesIn(t) :
             LET c == Base(at[1]) + t.slice[at[1]][at[2]].h.start
             IN Begin(t, [op |-> "header", at |-> c], "attributes", {c})
  BY DEF ModifyHeader
<1>2. CASE ~Refuse
  <2>1. PICK at \in GamesIn(t) :
          /\ t.ok
          /\ Begin(t, [op |-> "header", at |-> ChunkOf(t, at)], "attributes", {ChunkOf(t, at)})
    BY <1>1, <1>2 DEF ChunkOf
  <2>2. PICK c : Begin(t, [op |-> "header", at |-> c], "attributes", {c})
    BY <2>1
  <2>3. phase' = "attributes" /\ disk' = disk /\ toc' = t /\ job'.op = "header"
    BY <2>2 DEF Begin
  <2> QED BY <1>1, <2>1, <2>3, BegunKnown
<1> QED BY <1>2, RefuseKnown

LEMMA StepKnown == TableInv /\ [Next]_vars => TableInv'
<1> SUFFICES ASSUME TableInv, [Next]_vars PROVE TableInv'
  OBVIOUS
<1>1. TypeInv'
  BY StepTyped DEF TableInv
<1>2. CASE UNCHANGED vars
  BY <1>1, <1>2 DEF vars, TableInv, NewThere, Forward, ModifiedAt
<1>3. CASE Stop
  BY <1>1, <1>3, RefuseKnown DEF Stop
<1>4. CASE Next
  BY <1>1, <1>3, <1>4, InstallGameKnown, CopyKnown, MainKnown, ModifyGameKnown, TitleKnown,
     ModifyHeaderKnown, AttributesKnown, GarbageKnown, MbrKnown, HeadersKnown, DeleteKnown DEF Next
<1> QED BY <1>2, <1>4

\* The table in memory is one that apa_check accepts, at every moment of every
\* command: a commit is never refused after the data was copied, even when
\* earlier commits stopped in the middle and left a mix of two tables on the
\* disk, and even when the console has emptied partitions since.
THEOREM TablesStayGood == Spec => []TableGood
<1>1. Init => TableInv
  BY InitKnown
<1>2. TableInv /\ [Next]_vars => TableInv'
  BY StepKnown
<1>3. TableInv => TableGood
  <2> SUFFICES ASSUME TableInv, toc.ok PROVE TocCheck(toc)
    BY DEF TableGood
  <2>1. phase # "idle"
    BY DEF TableInv, TypeInv, NoToc
  <2>2. ASSUME NEW i \in Slices(toc) PROVE Check(SliceChunks(toc.got, i), Headers(toc.slice[i]))
    BY <2>1 DEF TableInv, TablesOn, TableOn
  <2> QED BY <2>2 DEF TocCheck
<1> QED BY <1>1, <1>2, <1>3, PTL DEF Spec

-----------------------------------------------------------------------------
(* Reading back what was written.                                          *)

IsEmpty(h) == h.main = 0 /\ h.id = EmptyId
NoEmpty(ps) == \A k \in 1 .. Len(ps) : ~IsEmpty(ps[k].h)

\* What apa_slice_read returns has no empty partitions.
LEMMA EmptiesDeleted ==
  ASSUME NEW hs \in Seq(HeaderType)
  PROVE  NoEmpty(DeleteEmpty(Read(hs)))
<1> DEFINE parts == Read(hs)
           ps == DeleteEmpty(parts)
           Gone == {p \in Among(parts) : p.h.main = 0 /\ p.h.id = EmptyId}
           Of(p) == {p.h.start} \cup {p.h.subs[s].start : s \in DOMAIN p.h.subs}
           Places == UNION {Of(p) : p \in Gone}
           Remaining == {p \in Among(parts) : p.h.start \notin Places}
<1>1. ps = IF Gone = {} THEN parts ELSE Normalize(Remaining)
  BY DEF DeleteEmpty
<1>2. parts \in Seq(PartType)
  BY ReadFacts
<1> SUFFICES NoEmpty(ps)
  BY DEF parts
<1> HIDE DEF ps, parts
<1>3. /\ Among(parts) \subseteq PartType /\ IsFiniteSet(Among(parts))
      /\ \A k \in 1 .. Len(parts) : parts[k] \in Among(parts)
  BY <1>2, AmongFacts
<1>4. CASE Gone = {}
  <2>1. ps = parts
    BY <1>1, <1>4
  <2> SUFFICES ASSUME NEW k \in 1 .. Len(parts), IsEmpty(parts[k].h) PROVE FALSE
    BY <2>1 DEF NoEmpty
  <2>2. parts[k] \in Gone
    BY <1>3 DEF IsEmpty
  <2> QED BY <1>4, <2>2
<1>5. CASE Gone # {}
  <2>1. ps = Normalize(Remaining)
    BY <1>1, <1>5
  <2>2. Remaining \subseteq PartType /\ IsFiniteSet(Remaining)
    <3>1. Remaining \subseteq Among(parts)
      OBVIOUS
    <3> HIDE DEF Remaining
    <3> QED BY <1>3, <3>1, FS_Subset
  <2>3. \A p \in Remaining : ~IsEmpty(p.h)
    <3> SUFFICES ASSUME NEW p \in Remaining, IsEmpty(p.h) PROVE FALSE
      OBVIOUS
    <3>1. p \in Gone
      BY DEF IsEmpty
    <3>2. p.h.start \in Of(p)
      OBVIOUS
    <3>3. p.h.start \in Places
      BY <3>1, <3>2
    <3> QED BY <3>3
  <2> HIDE DEF Remaining
  <2>4. \A k \in 1 .. Len(ps) : \E p \in Remaining : Relinked(ps[k].h, p.h)
    BY <2>1, <2>2, NormalizeFacts
  <2> QED BY <2>3, <2>4 DEF NoEmpty, Relinked, IsEmpty
<1> QED BY <1>4, <1>5

\* A list without empty partitions stays as it was read.
LEMMA NothingDeleted ==
  ASSUME NEW hs \in Seq(HeaderType), \A k \in 1 .. Len(hs) : ~IsEmpty(hs[k])
  PROVE  DeleteEmpty(Read(hs)) = Read(hs) /\ Headers(Read(hs)) = hs
<1>1. \A p \in Among(Read(hs)) : ~IsEmpty(p.h)
  <2> SUFFICES ASSUME NEW p \in Among(Read(hs)) PROVE ~IsEmpty(p.h)
    OBVIOUS
  <2>1. PICK k \in 1 .. Len(hs) : p.h = hs[k]
    BY ReadFacts
  <2> QED BY <2>1
<1>2. {p \in Among(Read(hs)) : p.h.main = 0 /\ p.h.id = EmptyId} = {}
  BY <1>1 DEF IsEmpty
<1>3. DeleteEmpty(Read(hs)) = Read(hs)
  BY <1>2 DEF DeleteEmpty
<1>4. PICK l \in Nat : l = Len(hs) /\ hs = [k \in 1 .. l |-> hs[k]]
  BY SequenceIs
<1>5. Read(hs) \in Seq(PartType) /\ Len(Read(hs)) = l
      /\ \A k \in 1 .. l : Read(hs)[k] = [h |-> hs[k], modified |-> FALSE]
  BY <1>4, ReadFacts
<1>6. \A k \in 1 .. l : Read(hs)[k].h = hs[k]
  <2> SUFFICES ASSUME NEW k \in 1 .. l PROVE Read(hs)[k].h = hs[k]
    OBVIOUS
  <2>1. PICK h : h = hs[k]
    OBVIOUS
  <2>2. Read(hs)[k] = [h |-> h, modified |-> FALSE]
    BY <1>5, <2>1
  <2> QED BY <2>1, <2>2
<1>7. DOMAIN Read(hs) = 1 .. l
  BY <1>5, SequenceIs
<1>8. Headers(Read(hs)) = [k \in 1 .. l |-> hs[k]]
  BY <1>6, <1>7 DEF Headers
<1> QED BY <1>3, <1>4, <1>8

\* A list in ascending order is no longer than the disk.
LEMMA RisingShort ==
  ASSUME NEW hs \in Seq(HeaderType), Rising(hs)
  PROVE  Len(hs) <= Chunks
<1>1. PICK l \in Nat : l = Len(hs)
  BY SequenceIs
<1>2. \A k \in 1 .. l : hs[k].start \in Nat /\ hs[k].start <= Chunks - 1
  <2> SUFFICES ASSUME NEW k \in 1 .. l PROVE hs[k].start \in Nat /\ hs[k].start <= Chunks - 1
    OBVIOUS
  <2>1. hs[k] \in HeaderType
    BY <1>1, SequenceIs
  <2> QED BY <2>1, HeaderNumbers, DiskAssumption
<1> DEFINE P == {k \in 1 .. l : k - 1 <= hs[k].start}
<1>3. l # 0 => 1 \in P
  BY <1>2
<1>4. ASSUME NEW k \in 1 .. l - 1, 1 .. k \subseteq P PROVE k + 1 \in P
  <2>1. k \in P /\ k \in 1 .. l /\ k + 1 \in 1 .. l /\ k < k + 1
    BY <1>4
  <2>2. hs[k].start < hs[k + 1].start
    BY <1>1, <2>1 DEF Rising
  <2>3. PICK a \in Nat, b \in Nat : a = hs[k].start /\ b = hs[k + 1].start
    BY <1>2, <2>1
  <2>4. k - 1 <= a /\ a < b
    BY <2>1, <2>2, <2>3
  <2>5. k + 1 - 1 <= b
    BY <2>4
  <2> QED BY <2>1, <2>3, <2>5
<1>5. 1 .. l \subseteq P
  <2> HIDE DEF P
  <2> QED BY <1>3, <1>4, Upward
<1>6. CASE l = 0
  BY <1>1, <1>6, DiskAssumption
<1>7. CASE l # 0
  <2>1. l \in P
    BY <1>5, <1>7
  <2>2. l - 1 <= hs[l].start /\ hs[l].start <= Chunks - 1 /\ hs[l].start \in Nat
    BY <1>2, <1>7, <2>1
  <2> QED BY <1>1, <2>2, DiskAssumption
<1> QED BY <1>6, <1>7

\* the disk has the header of each partition of a list
OnDisk(d, i, hs) == \A k \in 1 .. Len(hs) : hs[k] = At(d, i, hs[k].start)

\* A list that apa_check accepts and that is on the disk as a whole is what is
\* read from there next, if the end of a partition may be the end of the disk.
LEMMA ReadBack ==
  ASSUME LastPart, NEW d, HeadersTyped(d), NEW got \in BOOLEAN, NEW i \in {0, 1},
         NEW hs, Chained(hs), Check(SliceChunks(got, i), hs), OnDisk(d, i, hs),
         \A k \in 1 .. Len(hs) : ~IsEmpty(hs[k])
  PROVE  SliceRead(d, got, i).ok /\ Headers(SliceRead(d, got, i).parts) = hs
<1>1. PICK n \in Int : n = SliceChunks(got, i)
  BY DiskAssumption DEF SliceChunks
<1>2. PICK l \in Nat : l = Len(hs) /\ DOMAIN hs = 1 .. l
  BY SequenceIs DEF Chained
<1>3. l # 0 /\ hs \in Seq(HeaderType) /\ hs[1].start = 0 /\ Rising(hs) /\ hs[l].next = 0
      /\ \A k \in 1 .. l - 1 : hs[k].next # 0 /\ hs[k].next = hs[k + 1].start
  BY <1>2 DEF Chained
<1>4. \A k \in 1 .. l : hs[k] \in HeaderType /\ hs[k] # Junk
  BY <1>2, <1>3, SequenceIs, NotJunk
<1>5. ASSUME NEW k \in 1 .. l PROVE EndsInside(got, i, hs[k])
  <2>1. Within(n, hs)
    BY <1>1, <1>2, CheckIs
  <2>2. hs[k].start < n /\ hs[k].start + hs[k].len <= n
    BY <1>2, <2>1 DEF Within
  <2>3. PICK a \in Nat, b \in Nat : a = hs[k].start /\ b = hs[k].len
    BY <1>4, HeaderNumbers
  <2>5. a < n /\ a + b <= n
    BY <2>2, <2>3
  <2>4. a < n /\ (a + b < n \/ a + b = n)
    <3> HIDE DEF EndsInside
    <3> QED BY <1>1, <2>3, <2>5
  <2> QED BY <1>1, <2>3, <2>4 DEF EndsInside
<1>6. l <= Chunks
  BY <1>2, <1>3, RisingShort
<1>7. Met(d, got, i, hs)
  <2>1. \A k \in 1 .. l : hs[k] \in HeadersOn(d)
    <3> SUFFICES ASSUME NEW k \in 1 .. l PROVE hs[k] \in HeadersOn(d)
      OBVIOUS
    <3>1. hs[k] = At(d, i, hs[k].start) /\ hs[k].start \in Nat
      BY <1>2, <1>4, HeaderNumbers DEF OnDisk
    <3> QED BY <3>1, TypedWalkable, AtHeader
  <2>2. hs \in Seq(HeadersOn(d))
    <3>1. hs = [k \in 1 .. l |-> hs[k]]
      BY <1>2, <1>3, SequenceIs
    <3>2. hs \in [1 .. l -> HeadersOn(d)]
      BY <2>1, <3>1
    <3> QED BY <3>2, SeqDef
  <2>3. hs[1] = At(d, i, 0)
    <3>1. 1 \in 1 .. Len(hs)
      BY <1>2, <1>3
    <3> QED BY <1>3, <3>1 DEF OnDisk
  <2>4. ASSUME NEW k \in 1 .. Len(hs) - 1
        PROVE  GoesOn(got, i, hs[k]) /\ hs[k + 1] = At(d, i, hs[k].next)
    <3>1. k \in 1 .. l - 1 /\ k \in 1 .. l /\ k + 1 \in 1 .. l
      BY <1>2
    <3>2. hs[k].next # 0 /\ hs[k].next = hs[k + 1].start
      BY <1>3, <3>1
    <3>3. hs[k + 1] = At(d, i, hs[k + 1].start)
      BY <1>2, <3>1 DEF OnDisk
    <3> QED BY <1>4, <1>5, <3>1, <3>2, <3>3 DEF GoesOn
  <2>5. Len(hs) \in 1 .. Chunks + 1
    BY <1>2, <1>3, <1>6, DiskAssumption
  <2> QED BY <2>2, <2>3, <2>4, <2>5 DEF Met
<1>8. ~GoesOn(got, i, hs[Len(hs)])
  BY <1>2, <1>3 DEF GoesOn
<1>9. PICK gs : gs = Chain(d, got, i)
  OBVIOUS
<1>10. Met(d, got, i, gs) /\ (Len(gs) <= Chunks => ~GoesOn(got, i, gs[Len(gs)]))
  BY <1>9, TypedWalkable, ChainMet
<1>11. gs = hs
  BY <1>7, <1>8, <1>10, MetOnce
<1>12. Closed(got, i, hs)
  BY <1>2, <1>3, <1>4, <1>5 DEF Closed
<1>13. PICK ps : ps = DeleteEmpty(Read(hs))
  OBVIOUS
<1>14. ps = Read(hs) /\ Headers(ps) = hs
  BY <1>3, <1>13, NothingDeleted
<1>15. SliceRead(d, got, i) =
        IF Closed(got, i, gs) /\ Check(SliceChunks(got, i), gs) /\ Check(SliceChunks(got, i), Headers(ps))
        THEN [ok |-> TRUE, parts |-> ps] ELSE [ok |-> FALSE, parts |-> <<>>]
  BY <1>9, <1>11, <1>13 DEF SliceRead, Read
<1>16. SliceRead(d, got, i) = [ok |-> TRUE, parts |-> ps]
  BY <1>11, <1>12, <1>14, <1>15
<1> QED BY <1>14, <1>16

\* Nothing waits, and nothing was lost: all of the list is on the disk.
LEMMA TableOnDisk ==
  ASSUME NEW d, HeadersTyped(d), NEW got, NEW i \in {0, 1}, NEW ps, NEW new, NEW waits,
         TableOn(d, got, i, ps, new, waits),
         \A k \in 1 .. Len(ps) : /\ ps[k].h.start \notin waits
                                 /\ Base(i) + ps[k].h.start \in DOMAIN d
                                 /\ d[Base(i) + ps[k].h.start].hdr # Junk
  PROVE  /\ Chained(Headers(ps)) /\ Check(SliceChunks(got, i), Headers(ps))
         /\ OnDisk(d, i, Headers(ps))
<1>1. PICK was : Between(d, i, was, ps, new, waits)
  BY DEF TableOn
<1>2. PICK hs : hs = Headers(ps)
  OBVIOUS
<1>3. ps \in Seq(PartType) /\ Mixed(d, i, was, hs, waits) /\ Chained(hs)
  BY <1>1, <1>2 DEF Between, Derived
<1>4. PICK l \in Nat : l = Len(ps)
  BY <1>3, HeadersAre
<1>5. Len(hs) = l /\ \A k \in 1 .. l : hs[k] = ps[k].h /\ hs[k] \in HeaderType
  BY <1>2, <1>3, <1>4, HeadersAre
<1>6. Distinct(hs)
  BY <1>2, TableStarts
<1>7. ASSUME NEW k \in 1 .. l PROVE hs[k] = At(d, i, hs[k].start)
  <2>1. PICK c \in 0 .. Chunks - 1 : c = hs[k].start
    BY <1>5, HeaderNumbers
  <2>2. c \notin waits /\ Base(i) + c \in DOMAIN d /\ d[Base(i) + c].hdr # Junk
    BY <1>4, <1>5, <2>1
  <2>3. Base(i) + c < Chunks
    BY <2>2, DiskAssumption DEF HeadersTyped
  <2>4. c \in Starts(hs) \ waits
    BY <1>5, <2>1, <2>2 DEF Starts
  <2>5. AsIs(d[Base(i) + c].hdr, c, hs)
    BY <1>3, <2>2, <2>3, <2>4 DEF Mixed
  <2>6. PICK m \in 1 .. l : hs[m].start = c /\ d[Base(i) + c].hdr = hs[m]
    BY <1>5, <2>5 DEF AsIs
  <2>7. m = k
    BY <1>5, <1>6, <2>1, <2>6 DEF Distinct
  <2> QED BY <2>1, <2>3, <2>6, <2>7 DEF At
<1>8. OnDisk(d, i, hs)
  BY <1>5, <1>7 DEF OnDisk
<1> QED BY <1>2, <1>3, <1>8 DEF TableOn

\* one list where the other has another thing to say of modified
SameTable(u, t) ==
  /\ u.ok /\ u.got = t.got /\ \A i \in 0 .. 1 : Headers(u.slice[i]) = Headers(t.slice[i])

\* all of the table is on the disk
AllOnDisk(d, t) ==
  /\ TocOK(t) /\ t.got = GotSecondSlice(d) /\ (~t.got => t.slice[1] = <<>>)
  /\ \A i \in Slices(t) :
       /\ NoEmpty(t.slice[i]) /\ Chained(Headers(t.slice[i])) /\ OnDisk(d, i, Headers(t.slice[i]))
       /\ Check(SliceChunks(t.got, i), Headers(t.slice[i]))

LEMMA TableReadBack ==
  ASSUME LastPart, NEW d, HeadersTyped(d), NEW t, AllOnDisk(d, t)
  PROVE  SameTable(TocRead(d), t)
<1>1. PICK got \in BOOLEAN : got = t.got /\ got = GotSecondSlice(d)
  BY DEF AllOnDisk, TocOK
<1>2. ASSUME NEW i \in Slices(t)
      PROVE  SliceRead(d, got, i).ok /\ Headers(SliceRead(d, got, i).parts) = Headers(t.slice[i])
  <2>1. PICK hs : hs = Headers(t.slice[i])
    OBVIOUS
  <2>2. t.slice[i] \in Seq(PartType) /\ i \in {0, 1}
    BY SlicesAre DEF AllOnDisk, TocOK, PartsOK
  <2>3. /\ Chained(hs) /\ Check(SliceChunks(got, i), hs) /\ OnDisk(d, i, hs)
        /\ \A k \in 1 .. Len(hs) : ~IsEmpty(hs[k])
    BY <1>1, <2>1, <2>2, HeadersAre DEF AllOnDisk, NoEmpty
  <2> QED BY <2>1, <2>2, <2>3, ReadBack
<1> DEFINE s0 == SliceRead(d, got, 0)
           s1 == IF got THEN SliceRead(d, got, 1) ELSE [ok |-> TRUE, parts |-> <<>>]
           slice == [i \in 0 .. 1 |-> IF i = 0 THEN s0.parts ELSE s1.parts]
<1>3. TocRead(d) = IF s0.ok /\ s1.ok
          THEN [ok |-> TRUE, got |-> got, toxic |-> Dialect(d) # "plain", slice |-> slice]
          ELSE NoToc
  BY <1>1 DEF TocRead
<1>4. s0.ok /\ Headers(s0.parts) = Headers(t.slice[0])
  BY <1>2, SlicesAre
<1>5. s1.ok /\ Headers(s1.parts) = Headers(t.slice[1])
  <2>1. CASE got
    BY <1>1, <1>2, <2>1, SlicesAre
  <2>2. CASE ~got
    BY <1>1, <2>2 DEF AllOnDisk
  <2> QED BY <2>1, <2>2
<1>6. slice[0] = s0.parts /\ slice[1] = s1.parts
  OBVIOUS
<1> HIDE DEF s0, s1, slice
<1>7. PICK toxic : toxic = (Dialect(d) # "plain")
  OBVIOUS
<1>8. TocRead(d) = [ok |-> TRUE, got |-> got, toxic |-> toxic, slice |-> slice]
  BY <1>3, <1>4, <1>5, <1>7
<1>9. TocRead(d).ok /\ TocRead(d).got = got /\ TocRead(d).slice = slice
  BY <1>8
<1>10. ASSUME NEW i \in 0 .. 1 PROVE Headers(TocRead(d).slice[i]) = Headers(t.slice[i])
  <2>1. i = 0 \/ i = 1
    OBVIOUS
  <2> QED BY <1>4, <1>5, <1>6, <1>9, <2>1
<1> QED BY <1>1, <1>9, <1>10 DEF SameTable

LEMMA HeadersSame ==
  ASSUME NEW ps, NEW qs, Headers(ps) = Headers(qs)
  PROVE  DOMAIN ps = DOMAIN qs /\ \A k \in DOMAIN qs : ps[k].h = qs[k].h
<1>1. DOMAIN Headers(ps) = DOMAIN ps /\ DOMAIN Headers(qs) = DOMAIN qs
  BY DEF Headers
<1>2. \A k \in DOMAIN ps : Headers(ps)[k] = ps[k].h
  BY DEF Headers
<1>3. \A k \in DOMAIN qs : Headers(qs)[k] = qs[k].h
  BY DEF Headers
<1> QED BY <1>1, <1>2, <1>3

\* The same table has the same games.
LEMMA SameGames ==
  ASSUME NEW u, NEW t, SameTable(u, t), NEW d
  PROVE  Shown(u, d, GamesIn(u)) = Shown(t, d, GamesIn(t))
<1>1. ASSUME NEW i \in Slices(t)
      PROVE  DOMAIN u.slice[i] = DOMAIN t.slice[i]
             /\ \A k \in DOMAIN t.slice[i] : u.slice[i][k].h = t.slice[i][k].h
  <2>1. i \in 0 .. 1
    BY SlicesAre
  <2> QED BY <2>1, HeadersSame DEF SameTable
<1>2. Slices(u) = Slices(t)
  BY DEF SameTable, Slices
<1> DEFINE Game(v, i) == {k \in DOMAIN v.slice[i] : v.slice[i][k].h.main = 0
                                                    /\ v.slice[i][k].h.id \in Ids}
           At2(v, i) == {<<i, k>> : k \in Game(v, i)}
<1>3. ASSUME NEW i \in Slices(t) PROVE Game(u, i) = Game(t, i)
  BY <1>1
<1>4. GamesIn(u) = UNION {At2(u, i) : i \in Slices(u)} /\ GamesIn(t) = UNION {At2(t, i) : i \in Slices(t)}
  BY DEF GamesIn
<1>5. ASSUME NEW at \in GamesIn(t) PROVE u.slice[at[1]][at[2]].h = t.slice[at[1]][at[2]].h
  <2>1. PICK i \in Slices(t) : at \in At2(t, i)
    BY <1>4
  <2>2. PICK k \in Game(t, i) : at = <<i, k>>
    BY <2>1
  <2>3. k \in DOMAIN t.slice[i] /\ at[1] = i /\ at[2] = k
    BY <2>2
  <2> QED BY <1>1, <2>3
<1>6. \A i \in Slices(t) : At2(u, i) = At2(t, i)
  <2> HIDE DEF Game
  <2> QED BY <1>3
<1>7. GamesIn(u) = GamesIn(t)
  <2> HIDE DEF At2
  <2> QED BY <1>2, <1>4, <1>6
<1> DEFINE G(id, tab) == [id |-> id, title |-> TitleOf(tab), image |-> Extracted(d, tab, Size)]
           One(v, at) == G(v.slice[at[1]][at[2]].h.id, d[ChunkOf(v, at)].tab)
<1>8. Shown(u, d, GamesIn(u)) = {One(u, at) : at \in GamesIn(u)}
      /\ Shown(t, d, GamesIn(t)) = {One(t, at) : at \in GamesIn(t)}
  BY DEF Shown
<1>9. ASSUME NEW at \in GamesIn(t) PROVE One(u, at) = One(t, at)
  <2>1. ChunkOf(u, at) = ChunkOf(t, at)
    BY <1>5 DEF ChunkOf
  <2> HIDE DEF G
  <2> QED BY <1>5, <2>1
<1> HIDE DEF One
<1> QED BY <1>7, <1>8, <1>9

-----------------------------------------------------------------------------
(* What a command lists of a disk.                                         *)

SameData(d, e) == DOMAIN e = DOMAIN d /\ \A c \in DOMAIN d : e[c].data = d[c].data

\* What is extracted depends on the data and on the parts that the table tells.
LEMMA ExtractedSame ==
  ASSUME NEW d, NEW e, SameData(d, e), NEW tab, NEW new,
         new = Junk <=> tab = Junk, tab # Junk => new.parts = tab.parts
  PROVE  Extracted(e, new, Size) = Extracted(d, tab, Size)
<1>1. CASE tab = Junk
  BY <1>1 DEF Extracted
<1>2. CASE tab # Junk
  <2>1. PICK parts : parts = tab.parts /\ parts = new.parts
    BY <1>2
  <2> DEFINE Offset == CHOOSE g : AddsUp(g, parts)
             Holds(x, g, k) ==
               \A c \in Touched(parts[k].start, parts[k].len) :
                 /\ c \in DOMAIN x
                 /\ x[c].data = [image |-> g,
                                 bias |-> Offset[k] - (parts[k].start - c * ChunkMB)]
             Good(x) == {g \in DOMAIN Size : /\ Offset[Len(parts) + 1] = Size[g]
                                             /\ \A k \in DOMAIN parts : Holds(x, g, k)}
  <2>2. \A x : Extracted(x, tab, Size)
                 = IF tab = Junk \/ Good(x) = {} THEN "torn" ELSE CHOOSE g \in Good(x) : TRUE
    BY <2>1 DEF Extracted, AddsUp
  <2>3. \A x : Extracted(x, new, Size)
                 = IF new = Junk \/ Good(x) = {} THEN "torn" ELSE CHOOSE g \in Good(x) : TRUE
    BY <2>1 DEF Extracted, AddsUp
  <2> HIDE DEF Offset
  <2>4. \A g, k : Holds(e, g, k) <=> Holds(d, g, k)
    BY DEF SameData
  <2>5. Good(e) = Good(d)
    <3> HIDE DEF Holds
    <3> QED BY <2>4
  <2> HIDE DEF Good
  <2> QED BY <1>2, <2>2, <2>3, <2>5
<1> QED BY <1>1, <1>2

\* one game of the list
GameShown(t, d, at) ==
  [id |-> t.slice[at[1]][at[2]].h.id, title |-> TitleOf(d[ChunkOf(t, at)].tab),
   image |-> Extracted(d, d[ChunkOf(t, at)].tab, Size)]

LEMMA ShownIs ==
  ASSUME NEW t, NEW d, NEW G
  PROVE  Shown(t, d, G) = {GameShown(t, d, at) : at \in G}
BY DEF Shown, GameShown

\* Games whose HDLoader header is as it was, on a disk with the same data.
LEMMA ShownSame ==
  ASSUME NEW d, NEW e, SameData(d, e), NEW t, NEW G,
         \A at \in G : e[ChunkOf(t, at)].tab = d[ChunkOf(t, at)].tab
  PROVE  Shown(t, e, G) = Shown(t, d, G)
<1>1. ASSUME NEW at \in G PROVE GameShown(t, e, at) = GameShown(t, d, at)
  <2>1. PICK x, y : x = e[ChunkOf(t, at)].tab /\ y = d[ChunkOf(t, at)].tab
    OBVIOUS
  <2>2. x = y
    BY <2>1
  <2>3. Extracted(e, x, Size) = Extracted(d, y, Size)
    BY <2>2, ExtractedSame
  <2> QED BY <2>1, <2>2, <2>3 DEF GameShown
<1>2. {GameShown(t, e, at) : at \in G} = {GameShown(t, d, at) : at \in G}
  BY <1>1
<1> QED BY <1>2, ShownIs

\* the games of a table that start at chunk c, or elsewhere
GamesAt(t, c) == {at \in GamesIn(t) : ChunkOf(t, at) = c}
GamesOff(t, c) == {at \in GamesIn(t) : ChunkOf(t, at) # c}

\* the one game at chunk c is called id
OneAt(t, c, id) ==
  GamesAt(t, c) # {} /\ \A at \in GamesAt(t, c) : t.slice[at[1]][at[2]].h.id = id

LEMMA ShownSplit ==
  ASSUME NEW t, NEW d, NEW c, NEW id, OneAt(t, c, id)
  PROVE  Shown(t, d, GamesIn(t)) =
           Shown(t, d, GamesOff(t, c)) \cup
             {[id |-> id, title |-> TitleOf(d[c].tab), image |-> Extracted(d, d[c].tab, Size)]}
<1> DEFINE This == [id |-> id, title |-> TitleOf(d[c].tab), image |-> Extracted(d, d[c].tab, Size)]
<1>1. ASSUME NEW at \in GamesAt(t, c) PROVE GameShown(t, d, at) = This
  <2>1. ChunkOf(t, at) = c /\ t.slice[at[1]][at[2]].h.id = id
    BY DEF GamesAt, OneAt
  <2> QED BY <2>1 DEF GameShown
<1>2. {GameShown(t, d, at) : at \in GamesAt(t, c)} = {This}
  <2> HIDE DEF This
  <2> QED BY <1>1 DEF OneAt
<1>3. GamesIn(t) = GamesOff(t, c) \cup GamesAt(t, c)
  BY DEF GamesOff, GamesAt
<1>4. {GameShown(t, d, at) : at \in GamesIn(t)} =
        {GameShown(t, d, at) : at \in GamesOff(t, c)} \cup {GameShown(t, d, at) : at \in GamesAt(t, c)}
  BY <1>3
<1> HIDE DEF This
<1>5. Shown(t, d, GamesIn(t)) = Shown(t, d, GamesOff(t, c)) \cup {This}
  BY <1>2, <1>4, ShownIs
<1> QED BY <1>5 DEF This

\* What the last list of a command is.
LEMMA LastStage ==
  ASSUME phase # "idle"
  PROVE  /\ job.op = "install" =>
              Last(Stages(phase, job, toc, disk)) =
                Shown(toc, disk, GamesOff(toc, MainChunk(job))) \cup
                  {[id |-> job.id, title |-> job.name, image |-> job.name]}
         /\ job.op = "header" =>
              Last(Stages(phase, job, toc, disk)) = Shown(toc, disk, GamesIn(toc))
         /\ job.op \notin {"install", "header"} =>
              Last(Stages(phase, job, toc, disk)) =
                Shown(toc, disk, GamesOff(toc, job.at)) \cup
                  {[id |-> HeaderAt(toc, job.at).id, title |-> job.title,
                    image |-> Extracted(disk, disk[job.at].tab, Size)]}
<1> DEFINE mine == IF job.op = "install" THEN MainChunk(job) ELSE job.at
           Others == Shown(toc, disk, GamesOff(toc, mine))
           With(id, title, image) == Others \cup {[id |-> id, title |-> title, image |-> image]}
           image == Extracted(disk, disk[job.at].tab, Size)
           A == <<Others, With(job.id, job.name, job.name)>>
           B == <<Shown(toc, disk, GamesIn(toc))>>
           C == <<With(job.oldId, job.oldTitle, image), With(job.oldId, job.title, image),
                  With(HeaderAt(toc, job.at).id, job.title, image)>>
<1>1. Stages(phase, job, toc, disk) =
        CASE phase = "idle" -> <<>> [] job.op = "install" -> A [] job.op = "header" -> B [] OTHER -> C
  BY DEF Stages, GamesOff
<1>2. \A x, y : Last(<<x, y>>) = y
  BY DEF Last
<1>3. \A x : Last(<<x>>) = x
  BY DEF Last
<1>4. \A x, y, z : Last(<<x, y, z>>) = z
  BY DEF Last
<1>5. ASSUME job.op = "install" PROVE Last(Stages(phase, job, toc, disk)) = With(job.id, job.name, job.name)
  <2>1. Stages(phase, job, toc, disk) = A
    <3> HIDE DEF A, B, C
    <3> QED BY <1>1, <1>5
  <2> HIDE DEF With, Others
  <2> QED BY <1>2, <2>1
<1>6. ASSUME job.op = "header" PROVE Last(Stages(phase, job, toc, disk)) = Shown(toc, disk, GamesIn(toc))
  <2>1. Stages(phase, job, toc, disk) = B
    <3>1. job.op # "install"
      BY <1>6
    <3> HIDE DEF A, B, C
    <3> QED BY <1>1, <1>6, <3>1
  <2> QED BY <1>3, <2>1
<1>7. ASSUME job.op \notin {"install", "header"}
      PROVE  Last(Stages(phase, job, toc, disk)) = With(HeaderAt(toc, job.at).id, job.title, image)
  <2>1. Stages(phase, job, toc, disk) = C
    <3> HIDE DEF A, B, C
    <3> QED BY <1>1, <1>7
  <2> HIDE DEF With, Others, image
  <2> QED BY <1>4, <2>1
<1>8. job.op = "install" => mine = MainChunk(job)
  OBVIOUS
<1>9. job.op \notin {"install", "header"} => mine = job.at
  OBVIOUS
<1> HIDE DEF mine, image
<1> QED BY <1>5, <1>6, <1>7, <1>8, <1>9 DEF image

-----------------------------------------------------------------------------
(* What is known of a command until it has done what was asked.            *)

\* a HDLoader header is not written in part
TabWhole(d) == \A c \in DOMAIN d : d[c].tab = Junk \/ DOMAIN d[c].tab = {"title", "parts"}

TableWhole(t) == (~t.got => t.slice[1] = <<>>) /\ \A i \in Slices(t) : NoEmpty(t.slice[i])

\* the game that the command is about is in the table
GameThere(t, j) ==
  /\ j.op = "install" => \E at \in GamesAt(t, MainChunk(j)) : t.slice[at[1]][at[2]].h.id = j.id
  /\ j.op = "modify" => GamesAt(t, j.at) # {}

TitleRight(d, p, j) ==
  j.op = "modify" => IF p = "title" THEN d[j.at].tab = Junk => j.title = TitleOf(Junk)
                     ELSE TitleOf(d[j.at].tab) = j.title

\* but for the chunks that are still to be written, the disk has a header
\* where the table has a partition
Unlost(d, t, chunks) == \A c \in TocChunks(t) \ chunks : d[c].hdr # Junk
Pending(p, t, chunks) == IF p = "commit" THEN chunks ELSE ModifiedAt(t)

\* the copy spoils no header that will not be written again
CopyMarked(t, j, chunks) ==
  chunks \cap TocChunks(t) \subseteq ModifiedAt(t) /\ MainChunk(j) \in ModifiedAt(t)

Doing(d, p, t, j, chunks) ==
  /\ TableWhole(t) /\ GameThere(t, j) /\ TitleRight(d, p, j)
  /\ Unlost(d, t, Pending(p, t, chunks))
  /\ p = "copy" => CopyMarked(t, j, chunks)
  /\ p = "title" => j.op = "modify"
  /\ p = "attributes" => j.op = "header"

DoneInv == TabWhole(disk) /\ (phase # "idle" => Doing(disk, phase, toc, job, todo))

LEMMA EndDone == ASSUME TabWhole(disk'), phase' = "idle" PROVE DoneInv'
BY DEF DoneInv

LEMMA CommitDone ==
  ASSUME GoCommit, TabWhole(disk'), TableWhole(toc), GameThere(toc, job),
         TitleRight(disk', "commit", job), Unlost(disk', toc, ModifiedAt(toc))
  PROVE  DoneInv'
<1>1. CASE phase' = "idle"
  BY <1>1, EndDone
<1>2. CASE phase' # "idle"
  <2>1. phase' = "commit" /\ todo' = ModifiedAt(toc) /\ toc' = toc /\ job' = job
    BY <1>2 DEF GoCommit, End
  <2>2. Pending("commit", toc, ModifiedAt(toc)) = ModifiedAt(toc)
    BY DEF Pending
  <2>3. Doing(disk', "commit", toc, job, ModifiedAt(toc))
    BY <2>2 DEF Doing
  <2> QED BY <2>1, <2>3 DEF DoneInv
<1> QED BY <1>1, <1>2

\* one chunk is written to
ChunkPut(d, e, c, v) == e = [d EXCEPT ![c] = v]

LEMMA PutTab ==
  ASSUME NEW d, TabWhole(d), NEW c, NEW v, v.tab = Junk \/ DOMAIN v.tab = {"title", "parts"},
         NEW e, ChunkPut(d, e, c, v)
  PROVE  TabWhole(e)
<1>1. DOMAIN e = DOMAIN d /\ \A b \in DOMAIN d : e[b] = d[b] \/ e[b] = v
  BY DEF ChunkPut
<1> QED BY <1>1 DEF TabWhole

LEMMA CopyDone == ASSUME TableInv, DoneInv, CopyChunk PROVE DoneInv'
<1> DEFINE c == Lowest(todo)
           v == [hdr |-> IF c \in Heads(job) THEN disk[c].hdr ELSE Junk,
                 tab |-> IF c = MainChunk(job) THEN disk[c].tab ELSE Junk,
                 data |-> PlanData(job, c)]
<1>1. /\ phase = "copy" /\ todo # {} /\ JobOK /\ DiskOK(disk) /\ job.op = "install"
      /\ TabWhole(disk) /\ Doing(disk, phase, toc, job, todo)
  BY DEF CopyChunk, TableInv, TypeInv, NewThere, DoneInv
<1>2. Planned(job) /\ todo \subseteq PlanChunks(job) \ {0} /\ PlanChunks(job) \subseteq 0 .. Chunks - 1
  BY <1>1, PlannedChunks DEF JobOK
<1>3. c \in todo /\ c \in DOMAIN disk
  <2>1. todo \subseteq Nat
    BY <1>2
  <2>2. \E m \in todo : \A k \in todo : m <= k
    BY <1>1, <2>1, LeastOf
  <2>3. c \in todo
    BY <2>2 DEF Lowest
  <2> QED BY <1>1, <1>2, <2>3 DEF DiskOK
<1>4. disk' = [disk EXCEPT ![c] = v] /\ todo' = todo \ {c} /\ UNCHANGED <<phase, toc, job, result>>
  BY DEF CopyChunk
<1>5. v.tab = disk[c].tab \/ v.tab = Junk
  OBVIOUS
<1> HIDE DEF c, v
<1>6. TabWhole(disk')
  <2>1. v.tab = Junk \/ DOMAIN v.tab = {"title", "parts"}
    BY <1>1, <1>3, <1>5 DEF TabWhole
  <2> QED BY <1>1, <1>4, <2>1, PutTab DEF ChunkPut
<1>7. /\ TableWhole(toc) /\ GameThere(toc, job) /\ Unlost(disk, toc, ModifiedAt(toc))
      /\ todo \cap TocChunks(toc) \subseteq ModifiedAt(toc) /\ MainChunk(job) \in ModifiedAt(toc)
  BY <1>1 DEF Doing, Pending, CopyMarked
<1>8. Unlost(disk', toc, ModifiedAt(toc))
  <2> SUFFICES ASSUME NEW x \in TocChunks(toc) \ ModifiedAt(toc) PROVE disk'[x].hdr # Junk
    BY DEF Unlost
  <2>1. x # c
    BY <1>3, <1>7
  <2>2. disk'[x] = disk[x]
    BY <1>4, <2>1
  <2> QED BY <1>7, <2>2 DEF Unlost
<1>9. Doing(disk', "copy", toc, job, todo \ {c})
  BY <1>1, <1>7, <1>8 DEF Doing, Pending, CopyMarked, TitleRight
<1> QED BY <1>1, <1>4, <1>6, <1>9 DEF DoneInv

LEMMA MainDone == ASSUME TableInv, DoneInv, WriteMain PROVE DoneInv'
<1>1. /\ phase = "copy" /\ JobOK /\ DiskOK(disk) /\ job.op = "install"
      /\ TabWhole(disk) /\ Doing(disk, phase, toc, job, todo)
  BY DEF WriteMain, TableInv, TypeInv, NewThere, DoneInv
<1>2. CASE Refuse
  BY <1>1, <1>2, EndDone DEF Refuse, End
<1>3. CASE ~Refuse
  <2>1. PICK c, h, tab : /\ c = MainChunk(job) /\ h = HeaderAt(toc, c)
                         /\ tab = [title |-> job.name,
                                   parts |-> AllocTable(Runs(job), job.slice, job.size)]
    OBVIOUS
  <2>2. GoCommit /\ disk' = [disk EXCEPT ![c].hdr = h, ![c].tab = tab]
    BY <1>3, <2>1 DEF WriteMain
  <2>3. c \in TocChunks(toc) /\ TocChunks(toc) \subseteq 0 .. Chunks - 1 /\ h \in HeaderType
    BY <1>1, <2>1, ModifiedFacts, HeaderAtFacts DEF JobOK
  <2>4. c \in DOMAIN disk /\ DOMAIN disk[c] = {"hdr", "tab", "data"}
    BY <1>1, <2>3 DEF DiskOK, ChunkOK
  <2>5. /\ DOMAIN disk' = DOMAIN disk /\ disk'[c].hdr = h /\ disk'[c].tab = tab
        /\ \A b \in DOMAIN disk \ {c} : disk'[b] = disk[b]
    BY <2>2, <2>4
  <2>6. TabWhole(disk')
    <3>1. DOMAIN tab = {"title", "parts"}
      BY <2>1
    <3> QED BY <1>1, <2>5, <3>1 DEF TabWhole
  <2>7. TableWhole(toc) /\ GameThere(toc, job) /\ Unlost(disk, toc, ModifiedAt(toc))
    BY <1>1 DEF Doing, Pending
  <2>8. Unlost(disk', toc, ModifiedAt(toc))
    <3> SUFFICES ASSUME NEW x \in TocChunks(toc) \ ModifiedAt(toc) PROVE disk'[x].hdr # Junk
      BY DEF Unlost
    <3>1. x \in DOMAIN disk
      BY <1>1, <2>3 DEF DiskOK
    <3> QED BY <2>3, <2>5, <2>7, <3>1, NotJunk DEF Unlost
  <2>9. TitleRight(disk', "commit", job)
    BY <1>1 DEF TitleRight
  <2> QED BY <2>2, <2>6, <2>7, <2>8, <2>9, CommitDone
<1> QED BY <1>2, <1>3

\* what WriteTitle makes of a chunk
LEMMA TitleWritten ==
  ASSUME TypeInv, TabWhole(disk), WriteTitle
  PROVE  /\ DOMAIN disk' = DOMAIN disk /\ job.at \in DOMAIN disk /\ TabWhole(disk')
         /\ \A c \in DOMAIN disk : disk'[c].hdr = disk[c].hdr /\ disk'[c].data = disk[c].data
         /\ \A c \in DOMAIN disk \ {job.at} : disk'[c].tab = disk[c].tab
         /\ disk[job.at].tab = Junk <=> disk'[job.at].tab = Junk
         /\ disk[job.at].tab # Junk => /\ disk'[job.at].tab.parts = disk[job.at].tab.parts
                                       /\ TitleOf(disk'[job.at].tab) = job.title
<1>1. /\ phase = "title" /\ DiskOK(disk) /\ JobOK
      /\ disk' = IF disk[job.at].tab = Junk THEN disk
                 ELSE [disk EXCEPT ![job.at].tab.title = job.title]
  BY DEF WriteTitle, TypeInv
<1>2. job.at \in DOMAIN disk /\ \A c \in DOMAIN disk : DOMAIN disk[c] = {"hdr", "tab", "data"}
  BY <1>1 DEF JobOK, DiskOK, ChunkOK
<1>3. CASE disk[job.at].tab = Junk
  BY <1>1, <1>2, <1>3
<1>4. CASE disk[job.at].tab # Junk
  <2>1. PICK a, old, tab : a = job.at /\ old = disk[a].tab /\ tab = [old EXCEPT !.title = job.title]
    OBVIOUS
  <2>2. disk' = [disk EXCEPT ![a].tab = tab]
    BY <1>1, <1>4, <2>1
  <2>3. a \in DOMAIN disk /\ DOMAIN old = {"title", "parts"}
    BY <1>2, <1>4, <2>1 DEF TabWhole
  <2>4. /\ disk'[a].tab = tab /\ disk'[a].hdr = disk[a].hdr /\ disk'[a].data = disk[a].data
        /\ DOMAIN disk' = DOMAIN disk /\ \A c \in DOMAIN disk \ {a} : disk'[c] = disk[c]
    BY <1>2, <2>2, <2>3
  <2>5. DOMAIN tab = {"title", "parts"} /\ tab.parts = old.parts /\ tab.title = job.title
    BY <2>1, <2>3
  <2>6. tab # Junk
    <3>1. "title" \in DOMAIN tab /\ "title" \notin DOMAIN Junk
      BY <2>5 DEF Junk
    <3> QED BY <3>1
  <2>7. TabWhole(disk')
    BY <2>4, <2>5 DEF TabWhole
  <2> QED BY <1>4, <2>1, <2>3, <2>4, <2>5, <2>6, <2>7 DEF TitleOf
<1> QED BY <1>3, <1>4

LEMMA TitleDone == ASSUME TableInv, DoneInv, WriteTitle PROVE DoneInv'
<1>1. /\ phase = "title" /\ JobOK /\ DiskOK(disk) /\ TypeInv /\ GoCommit
      /\ TabWhole(disk) /\ Doing(disk, phase, toc, job, todo)
  BY DEF WriteTitle, TableInv, TypeInv, DoneInv
<1>2. /\ TableWhole(toc) /\ GameThere(toc, job) /\ Unlost(disk, toc, ModifiedAt(toc))
      /\ TitleRight(disk, "title", job)
  BY <1>1 DEF Doing, Pending
<1>3. TocChunks(toc) \subseteq DOMAIN disk
  BY <1>1, ModifiedFacts DEF JobOK, DiskOK
<1>4. Unlost(disk', toc, ModifiedAt(toc))
  BY <1>1, <1>2, <1>3, TitleWritten DEF Unlost
<1>5. TitleRight(disk', "commit", job)
  <2>1. CASE disk[job.at].tab = Junk
    BY <1>1, <1>2, <2>1, TitleWritten DEF TitleRight
  <2>2. CASE disk[job.at].tab # Junk
    BY <1>1, <2>2, TitleWritten DEF TitleRight
  <2> QED BY <2>1, <2>2
<1>6. TabWhole(disk')
  BY <1>1, TitleWritten
<1> QED BY <1>1, <1>2, <1>4, <1>5, <1>6, CommitDone

LEMMA AttributesDone == ASSUME TableInv, DoneInv, WriteAttributes PROVE DoneInv'
<1>1. /\ phase = "attributes" /\ disk' = disk /\ GoCommit
      /\ TabWhole(disk) /\ Doing(disk, phase, toc, job, todo)
  BY DEF WriteAttributes, DoneInv
<1>2. /\ TableWhole(toc) /\ GameThere(toc, job) /\ Unlost(disk, toc, ModifiedAt(toc))
      /\ job.op = "header"
  BY <1>1 DEF Doing, Pending
<1>3. TitleRight(disk', "commit", job)
  BY <1>2 DEF TitleRight
<1>4. TabWhole(disk') /\ Unlost(disk', toc, ModifiedAt(toc))
  BY <1>1, <1>2
<1> QED BY <1>1, <1>2, <1>3, <1>4, CommitDone

\* what CommitHeader makes of the disk
LEMMA HeaderWrittenAt ==
  ASSUME TypeInv, CommitHeader
  PROVE  \E c \in todo :
           /\ todo \subseteq ModifiedAt(toc) /\ c \in TocChunks(toc) /\ TocChunks(toc) \subseteq DOMAIN disk
           /\ DOMAIN disk' = DOMAIN disk
           /\ disk'[c].hdr = HeaderAt(toc, c) /\ HeaderAt(toc, c) \in HeaderType
           /\ \A b \in DOMAIN disk \ {c} : disk'[b].hdr = disk[b].hdr
           /\ \A b \in DOMAIN disk : disk'[b].tab = disk[b].tab /\ disk'[b].data = disk[b].data
           /\ IF todo = {c} THEN End("ok")
              ELSE todo' = todo \ {c} /\ UNCHANGED <<toc, job, phase, result>>
<1> DEFINE c == Lowest(todo)
           h == HeaderAt(toc, c)
<1>1. /\ phase = "commit" /\ JobOK /\ DiskOK(disk) /\ TocOK(toc)
      /\ todo # {} /\ todo \subseteq ModifiedAt(toc)
  BY DEF CommitHeader, TypeInv, JobOK
<1>2. ModifiedAt(toc) \subseteq TocChunks(toc) /\ TocChunks(toc) \subseteq 0 .. Chunks - 1
  BY <1>1, ModifiedFacts
<1>3. c \in todo
  <2>1. todo \subseteq Nat
    BY <1>1, <1>2
  <2>2. \E m \in todo : \A k \in todo : m <= k
    BY <1>1, <2>1, LeastOf
  <2> QED BY <2>2 DEF Lowest
<1>4. /\ disk' = [disk EXCEPT ![c].hdr = h]
      /\ IF todo = {c} THEN End("ok")
         ELSE todo' = todo \ {c} /\ UNCHANGED <<toc, job, phase, result>>
  BY DEF CommitHeader
<1>5. h = HeaderAt(toc, c)
  OBVIOUS
<1> HIDE DEF c, h
<1>6. /\ c \in DOMAIN disk /\ DOMAIN disk[c] = {"hdr", "tab", "data"}
      /\ c \in TocChunks(toc) /\ TocChunks(toc) \subseteq DOMAIN disk
  BY <1>1, <1>2, <1>3 DEF DiskOK, ChunkOK
<1>7. /\ DOMAIN disk' = DOMAIN disk /\ disk'[c].hdr = h
      /\ disk'[c].tab = disk[c].tab /\ disk'[c].data = disk[c].data
      /\ \A b \in DOMAIN disk \ {c} : disk'[b] = disk[b]
  BY <1>4, <1>6
<1>8. HeaderAt(toc, c) \in HeaderType
  BY <1>1, <1>6, HeaderAtFacts
<1> QED BY <1>1, <1>3, <1>4, <1>5, <1>6, <1>7, <1>8

LEMMA HeadersDone == ASSUME TableInv, DoneInv, CommitHeader PROVE DoneInv'
<1>1. /\ phase = "commit" /\ TypeInv /\ TabWhole(disk) /\ Doing(disk, phase, toc, job, todo)
      /\ TocOK(toc) /\ JobOK
  BY DEF CommitHeader, TableInv, TypeInv, DoneInv, JobOK
<1>2. PICK c \in todo :
           /\ c \in TocChunks(toc) /\ TocChunks(toc) \subseteq DOMAIN disk /\ DOMAIN disk' = DOMAIN disk
           /\ disk'[c].hdr = HeaderAt(toc, c) /\ HeaderAt(toc, c) \in HeaderType
           /\ \A b \in DOMAIN disk \ {c} : disk'[b].hdr = disk[b].hdr
           /\ \A b \in DOMAIN disk : disk'[b].tab = disk[b].tab /\ disk'[b].data = disk[b].data
           /\ IF todo = {c} THEN End("ok")
              ELSE todo' = todo \ {c} /\ UNCHANGED <<toc, job, phase, result>>
  BY <1>1, HeaderWrittenAt
<1>3. TabWhole(disk')
  BY <1>1, <1>2 DEF TabWhole
<1>4. CASE todo = {c}
  BY <1>2, <1>3, <1>4, EndDone DEF End
<1>5. CASE todo # {c}
  <2>1. todo' = todo \ {c} /\ UNCHANGED <<toc, job, phase, result>>
    BY <1>2, <1>5
  <2>2. TableWhole(toc) /\ GameThere(toc, job) /\ Unlost(disk, toc, todo) /\ TitleRight(disk, "commit", job)
    BY <1>1 DEF Doing, Pending
  <2>3. Unlost(disk', toc, todo \ {c})
    <3> SUFFICES ASSUME NEW x \in TocChunks(toc) \ (todo \ {c}) PROVE disk'[x].hdr # Junk
      BY DEF Unlost
    <3>1. CASE x = c
      BY <1>2, <3>1, NotJunk
    <3>2. CASE x # c
      BY <1>2, <2>2, <3>2 DEF Unlost
    <3> QED BY <3>1, <3>2
  <2>4. TitleRight(disk', "commit", job)
    <3> SUFFICES ASSUME job.op = "modify" PROVE TitleOf(disk'[job.at].tab) = job.title
      BY DEF TitleRight
    <3>1. job.at \in DOMAIN disk
      <4>1. GamesAt(toc, job.at) # {}
        BY <2>2 DEF GameThere
      <4>2. PICK at \in GamesIn(toc) : ChunkOf(toc, at) = job.at
        BY <4>1 DEF GamesAt
      <4>3. ChunkOf(toc, at) \in TocChunks(toc)
        BY <1>1, GameAt
      <4> QED BY <1>2, <4>2, <4>3
    <3> QED BY <1>2, <2>2, <3>1 DEF TitleRight
  <2>5. Doing(disk', "commit", toc, job, todo \ {c})
    BY <2>2, <2>3, <2>4 DEF Doing, Pending
  <2> QED BY <1>1, <1>3, <2>1, <2>5 DEF DoneInv
<1> QED BY <1>4, <1>5

\* each partition of a list was read from a header on the disk
ReadFrom(d, i, ps) == \A k \in 1 .. Len(ps) : FromDisk(d, i, ps[k])

\* A table as it is read: no partition of it is an empty one, and each has its
\* header on the disk.
LEMMA TocWhole ==
  ASSUME NEW d, DiskOK(d), NEW t, t = TocRead(d), t.ok
  PROVE  /\ TocOK(t) /\ TableWhole(t) /\ DOMAIN t.slice = 0 .. 1
         /\ \A i \in Slices(t) : ReadFrom(d, i, t.slice[i])
<1>1. /\ TocOK(t) /\ t.got = GotSecondSlice(d) /\ HeadersTyped(d)
      /\ \A i \in Slices(t) : ReadFrom(d, i, t.slice[i])
  BY TocReadOK, DiskTyped DEF ReadFrom
<1>2. \A i \in Slices(t) : /\ i \in {0, 1} /\ SliceRead(d, t.got, i).ok
                           /\ t.slice[i] = SliceRead(d, t.got, i).parts
  BY TocSlices
<1>3. ASSUME NEW i \in Slices(t) PROVE NoEmpty(t.slice[i])
  <2>1. PICK hs : Listed(d, i, hs) /\ SliceRead(d, t.got, i).parts = DeleteEmpty(Read(hs))
    BY <1>1, <1>2, ReadListed
  <2>2. hs \in Seq(HeaderType)
    BY <2>1 DEF Listed, Path
  <2>3. t.slice[i] = DeleteEmpty(Read(hs))
    BY <1>2, <2>1
  <2> QED BY <2>2, <2>3, EmptiesDeleted
<1>4. ~t.got => t.slice[1] = <<>>
  <2> SUFFICES ASSUME ~t.got PROVE t.slice[1] = <<>>
    OBVIOUS
  <2>1. PICK got : got = GotSecondSlice(d)
    OBVIOUS
  <2>2. ~got
    BY <1>1, <2>1
  <2> DEFINE s0 == SliceRead(d, got, 0)
             s1 == IF got THEN SliceRead(d, got, 1) ELSE [ok |-> TRUE, parts |-> <<>>]
             slice == [i \in 0 .. 1 |-> IF i = 0 THEN s0.parts ELSE s1.parts]
  <2>3. TocRead(d) = IF s0.ok /\ s1.ok
          THEN [ok |-> TRUE, got |-> got, toxic |-> Dialect(d) # "plain", slice |-> slice]
          ELSE NoToc
    BY <2>1 DEF TocRead
  <2>4. slice[1] = <<>>
    BY <2>2
  <2> HIDE DEF slice, s0, s1
  <2>5. PICK toxic : toxic = (Dialect(d) # "plain")
    OBVIOUS
  <2>6. t = [ok |-> TRUE, got |-> got, toxic |-> toxic, slice |-> slice]
    BY <2>3, <2>5 DEF NoToc
  <2> QED BY <2>4, <2>6
<1> QED BY <1>1, <1>3, <1>4 DEF TableWhole, TocOK

\* the header on the disk of a partition that was read
LEMMA ReadNotJunk ==
  ASSUME NEW d, NEW i, NEW ps, ReadFrom(d, i, ps), NEW k \in 1 .. Len(ps)
  PROVE  d[Base(i) + ps[k].h.start].hdr # Junk
<1>1. PICK c : c = Base(i) + ps[k].h.start
  OBVIOUS
<1>2. d[c].hdr \in HeaderType
  BY <1>1 DEF ReadFrom, FromDisk
<1> QED BY <1>1, <1>2, NotJunk

\* where a chunk of the table is in it
LEMMA TocPlace ==
  ASSUME NEW t, TocOK(t), NEW c \in TocChunks(t)
  PROVE  \E i \in Slices(t) : \E k \in 1 .. Len(t.slice[i]) : c = Base(i) + t.slice[i][k].h.start
<1>1. PICK i \in Slices(t) : c \in {Base(i) + t.slice[i][k].h.start : k \in DOMAIN t.slice[i]}
  BY DEF TocChunks
<1>2. t.slice[i] \in Seq(PartType)
  BY DEF TocOK, PartsOK
<1> QED BY <1>1, <1>2, SequenceIs

LEMMA ModifiedPlace ==
  ASSUME NEW t, TocOK(t), NEW i \in Slices(t), NEW k \in 1 .. Len(t.slice[i]), t.slice[i][k].modified
  PROVE  Base(i) + t.slice[i][k].h.start \in ModifiedAt(t)
<1>1. t.slice[i][k].h.start \in ModStarts(t.slice[i])
  BY DEF ModStarts
<1> QED BY <1>1, ModPlaces

\* a game of a table
LEMMA GameHere ==
  ASSUME NEW t, TocOK(t), NEW i \in Slices(t), NEW k \in 1 .. Len(t.slice[i]),
         t.slice[i][k].h.main = 0, t.slice[i][k].h.id \in Ids
  PROVE  <<i, k>> \in GamesAt(t, Base(i) + t.slice[i][k].h.start)
<1>1. k \in DOMAIN t.slice[i]
  BY SequenceIs DEF TocOK, PartsOK
<1> DEFINE G == {m \in DOMAIN t.slice[i] : t.slice[i][m].h.main = 0 /\ t.slice[i][m].h.id \in Ids}
<1>2. k \in G
  BY <1>1
<1>3. <<i, k>> \in {<<i, m>> : m \in G}
  BY <1>2
<1>4. <<i, k>> \in GamesIn(t)
  BY <1>3 DEF GamesIn
<1> QED BY <1>4 DEF GamesAt, ChunkOf

\* A command that changes no list but for a name has begun.
LEMMA NameWhole ==
  ASSUME NEW d, DiskOK(d), NEW t, t = TocRead(d), t.ok, NEW at \in GamesIn(t), NEW c, c = ChunkOf(t, at),
         NEW u, u = t \/ \E id \in Ids : u = RenamedIn(t, at, id)
  PROVE  TableWhole(u) /\ GamesAt(u, c) # {} /\ Unlost(d, u, {})
<1>1. /\ TocOK(t) /\ TableWhole(t) /\ DOMAIN t.slice = 0 .. 1
      /\ \A i \in Slices(t) : ReadFrom(d, i, t.slice[i])
  BY TocWhole
<1>2. CASE u = t
  <2>1. at \in GamesAt(u, c)
    BY <1>2 DEF GamesAt
  <2>2. Unlost(d, u, {})
    <3> SUFFICES ASSUME NEW x \in TocChunks(t) PROVE d[x].hdr # Junk
      BY <1>2 DEF Unlost
    <3> QED BY <1>1, TocPlace, ReadNotJunk
  <2> QED BY <1>1, <1>2, <2>1, <2>2
<1>3. CASE u # t
  <2>1. PICK id \in Ids : u = RenamedIn(t, at, id)
    BY <1>3
  <2>2. PICK i, k : i = at[1] /\ k = at[2]
    OBVIOUS
  <2>3. /\ i \in Slices(t) /\ k \in 1 .. Len(t.slice[i]) /\ t.slice[i] \in Seq(PartType)
        /\ t.slice[i][k] \in PartType /\ t.slice[i][k].h.main = 0
    BY <1>1, <2>2, GameAt
  <2>4. /\ Replaced(t, i, u) /\ Len(u.slice[i]) = Len(t.slice[i])
        /\ u.slice[i][k] = Renamed(t.slice[i][k], id)
        /\ \A m \in 1 .. Len(t.slice[i]) : m # k => u.slice[i][m] = t.slice[i][m]
    BY <1>1, <2>1, <2>2, RenamedOK
  <2>5. PICK p, q : p = t.slice[i][k] /\ q = u.slice[i][k]
    OBVIOUS
  <2>6. q.h.id = id /\ q.h.start = p.h.start /\ q.h.main = 0
    <3>1. q = Renamed(p, id) /\ p \in PartType /\ p.h.main = 0
      BY <2>3, <2>4, <2>5
    <3>2. Renamed(p, id).h.id = id /\ Renamed(p, id).h.start = p.h.start /\ Renamed(p, id).h.main = p.h.main
      BY <3>1, RenamedFacts
    <3> QED BY <3>1, <3>2
  <2>7. /\ TocOK(u) /\ u.got = t.got /\ Slices(u) = Slices(t)
        /\ \A j \in Slices(t) \ {i} : u.slice[j] = t.slice[j]
    BY <2>4 DEF Replaced
  <2>8. ASSUME NEW j \in Slices(t)
        PROVE  /\ NoEmpty(u.slice[j]) /\ Len(u.slice[j]) = Len(t.slice[j])
               /\ \A m \in 1 .. Len(t.slice[j]) : u.slice[j][m].h.start = t.slice[j][m].h.start
    <3>0. NoEmpty(t.slice[j])
      BY <1>1 DEF TableWhole
    <3>1. CASE j = i
      <4>1. ~IsEmpty(u.slice[i][k].h)
        BY <2>5, <2>6, IdsOther DEF IsEmpty
      <4>2. NoEmpty(u.slice[i])
        BY <2>4, <3>0, <3>1, <4>1 DEF NoEmpty
      <4> QED BY <2>4, <2>5, <2>6, <3>1, <4>2
    <3>2. CASE j # i
      BY <2>7, <3>0, <3>2
    <3> QED BY <3>1, <3>2
  <2>9. ~u.got => u.slice[1] = <<>>
    <3> SUFFICES ASSUME ~t.got PROVE u.slice[1] = <<>>
      BY <2>7
    <3>1. i = 0 /\ t.slice[1] = <<>>
      BY <1>1, <2>3, SlicesAre DEF TableWhole, Slices
    <3>2. PICK f, g : f = t.slice /\ g = [f EXCEPT ![i][k] = Renamed(t.slice[at[1]][at[2]], id)]
      OBVIOUS
    <3>3. u = [t EXCEPT !.slice = g]
      BY <2>1, <2>2, <3>2 DEF RenamedIn
    <3>4. u.slice = g
      BY <1>1, <3>3 DEF TocOK
    <3>5. g[1] = f[1]
      BY <1>1, <3>1, <3>2
    <3> QED BY <3>1, <3>2, <3>4, <3>5
  <2>10. TableWhole(u)
    BY <2>7, <2>8, <2>9 DEF TableWhole
  <2>11. <<i, k>> \in GamesAt(u, c)
    <3>1. c = Base(i) + u.slice[i][k].h.start
      BY <2>2, <2>5, <2>6 DEF ChunkOf
    <3>2. /\ i \in Slices(u) /\ k \in 1 .. Len(u.slice[i])
          /\ u.slice[i][k].h.main = 0 /\ u.slice[i][k].h.id \in Ids
      BY <2>3, <2>4, <2>5, <2>6, <2>7
    <3>3. <<i, k>> \in GamesAt(u, Base(i) + u.slice[i][k].h.start)
      BY <2>7, <3>2, GameHere
    <3> QED BY <3>1, <3>3, SMTT(30)
  <2>12. Unlost(d, u, {})
    <3> SUFFICES ASSUME NEW x \in TocChunks(u) PROVE d[x].hdr # Junk
      BY DEF Unlost
    <3>1. PICK j \in Slices(t) : \E m \in 1 .. Len(u.slice[j]) : x = Base(j) + u.slice[j][m].h.start
      BY <2>7, TocPlace
    <3>2. PICK m \in 1 .. Len(t.slice[j]) : x = Base(j) + t.slice[j][m].h.start
      BY <2>8, <3>1
    <3> QED BY <1>1, <3>2, ReadNotJunk
  <2> QED BY <2>10, <2>11, <2>12
<1> QED BY <1>2, <1>3

LEMMA RefuseDone == ASSUME DoneInv, Refuse PROVE DoneInv'
BY EndDone DEF Refuse, End, DoneInv

LEMMA ModifyDone == ASSUME TableInv, DoneInv, ModifyGame PROVE DoneInv'
<1>1. PICK t : t = TocRead(disk) /\
        IF ~t.ok THEN Refuse
        ELSE \E at \in GamesIn(t), newName \in Names \cup {Keep},
                hide \in Prefixes \cup {Keep} : Modify(t, at, newName, hide)
  BY DEF ModifyGame
<1>2. CASE ~Refuse
  <2>1. PICK at \in GamesIn(t), newName \in Names \cup {Keep}, hide \in Prefixes \cup {Keep} :
          Modify(t, at, newName, hide) /\ t.ok
    BY <1>1, <1>2
  <2>2. DiskOK(disk) /\ TabWhole(disk)
    BY DEF TableInv, TypeInv, DoneInv
  <2>3. TocOK(t)
    BY <1>1, <2>1, <2>2, TocReadOK
  <2>4. PICK c : c = ChunkOf(t, at)
    OBVIOUS
  <2>5. /\ phase' = "title" /\ disk' = disk
        /\ toc' = t \/ \E id \in Ids : toc' = RenamedIn(t, at, id)
    BY <1>2, <2>1, <2>3, <2>4, ModifyStarts
  <2>6. \E title, oldId, old : /\ job' = [op |-> "modify", at |-> c, title |-> title,
                                          oldId |-> oldId, oldTitle |-> old]
                               /\ disk[c].tab = Junk => title = TitleOf(Junk)
    BY <1>2, <2>1, <2>3, <2>4, ModifyStarts
  <2>7. job'.op = "modify" /\ job'.at = c /\ (disk[c].tab = Junk => job'.title = TitleOf(Junk))
    BY <2>6
  <2>8. TableWhole(toc') /\ GamesAt(toc', c) # {} /\ Unlost(disk, toc', {})
    BY <1>1, <2>1, <2>2, <2>4, <2>5, NameWhole
  <2>9. GameThere(toc', job') /\ TitleRight(disk, "title", job') /\ Unlost(disk, toc', ModifiedAt(toc'))
    BY <2>7, <2>8 DEF GameThere, TitleRight, Unlost
  <2>10. Doing(disk, "title", toc', job', todo')
    BY <2>7, <2>8, <2>9 DEF Doing, Pending
  <2> QED BY <2>2, <2>5, <2>10 DEF DoneInv
<1> QED BY <1>2, RefuseDone

LEMMA ModifyHeaderDone == ASSUME TableInv, DoneInv, ModifyHeader PROVE DoneInv'
<1>1. PICK t : t = TocRead(disk) /\
        IF ~t.ok THEN Refuse
        ELSE \E at \in GamesIn(t) :
             LET c == Base(at[1]) + t.slice[at[1]][at[2]].h.start
             IN Begin(t, [op |-> "header", at |-> c], "attributes", {c})
  BY DEF ModifyHeader
<1>2. CASE ~Refuse
  <2>1. PICK at \in GamesIn(t) :
          /\ t.ok
          /\ Begin(t, [op |-> "header", at |-> ChunkOf(t, at)], "attributes", {ChunkOf(t, at)})
    BY <1>1, <1>2 DEF ChunkOf
  <2>2. PICK c : c = ChunkOf(t, at) /\ Begin(t, [op |-> "header", at |-> c], "attributes", {c})
    BY <2>1
  <2>3. phase' = "attributes" /\ disk' = disk /\ toc' = t /\ job'.op = "header"
    BY <2>2 DEF Begin
  <2>4. DiskOK(disk) /\ TabWhole(disk)
    BY DEF TableInv, TypeInv, DoneInv
  <2>5. TableWhole(t) /\ Unlost(disk, t, {})
    BY <1>1, <2>1, <2>2, <2>4, NameWhole
  <2>6. GameThere(t, job') /\ TitleRight(disk, "attributes", job') /\ Unlost(disk, t, ModifiedAt(t))
    BY <2>3, <2>5 DEF GameThere, TitleRight, Unlost
  <2>7. Doing(disk, "attributes", t, job', todo')
    BY <2>3, <2>5, <2>6 DEF Doing, Pending
  <2> QED BY <2>3, <2>4, <2>7 DEF DoneInv
<1> QED BY <1>2, RefuseDone

\* a list with a new game: what is not marked is as it was
Enlarged(ps, new, id, runs) ==
  /\ NoEmpty(new)
  /\ \A k \in 1 .. Len(new) : new[k].modified \/ \E j \in 1 .. Len(ps) : new[k].h = ps[j].h
  /\ \E k \in 1 .. Len(new) : /\ new[k].modified /\ new[k].h.start = runs[1].start
                              /\ new[k].h.main = 0 /\ new[k].h.id = id

LEMMA GrownEnlarged ==
  ASSUME NEW ps \in Seq(PartType), NoEmpty(ps), NEW n, NEW runs, RunsFit(n, Headers(ps), runs),
         NEW id \in Ids, NEW new, Grown(ps, id, runs, new)
  PROVE  Enlarged(ps, new, id, runs)
<1>1. PICK l \in Nat, m \in Nat : l = Len(ps) /\ m = Len(new)
  BY HeadersAre DEF Grown
<1>2. ASSUME NEW k \in 1 .. m
      PROVE  \/ \E j \in 1 .. l : /\ Relinked(new[k].h, ps[j].h)
                                  /\ new[k].modified \/ new[k].h = ps[j].h
             \/ \E q \in 1 .. Len(runs) : Relinked(new[k].h, NewHeader(id, runs, q)) /\ new[k].modified
  BY <1>1 DEF Grown
<1>3. GoodRuns(runs) /\ Len(runs) \in Nat /\ 1 \in 1 .. Len(runs)
  BY SequenceIs DEF RunsFit, GoodRuns
<1>4. ASSUME NEW k \in 1 .. m PROVE ~IsEmpty(new[k].h)
  <2>1. CASE \E j \in 1 .. l : Relinked(new[k].h, ps[j].h)
    BY <1>1, <2>1 DEF NoEmpty, IsEmpty, Relinked
  <2>2. CASE \E q \in 1 .. Len(runs) : Relinked(new[k].h, NewHeader(id, runs, q))
    <3>1. PICK q \in 1 .. Len(runs) : Relinked(new[k].h, NewHeader(id, runs, q))
      BY <2>2
    <3>2. new[k].h.id = id
      BY <1>3, <3>1, NewHeaderIs DEF Relinked
    <3> QED BY <3>2, IdsOther DEF IsEmpty
  <2> QED BY <1>2, <2>1, <2>2
<1>5. ASSUME NEW k \in 1 .. m PROVE new[k].modified \/ \E j \in 1 .. l : new[k].h = ps[j].h
  BY <1>2
<1>6. PICK k \in 1 .. m : new[k].h.start = runs[1].start
  BY <1>1, <1>3 DEF Grown
<1>7. CASE \E j \in 1 .. l : Relinked(new[k].h, ps[j].h)
  <2>1. PICK j \in 1 .. l : Relinked(new[k].h, ps[j].h)
    BY <1>7
  <2>2. PICK hs : hs = Headers(ps)
    OBVIOUS
  <2>3. hs \in Seq(HeaderType) /\ j \in 1 .. Len(hs) /\ hs[j] = ps[j].h
    BY <1>1, <2>2, HeadersAre
  <2>4. runs[1].start \in Available(n, hs)
    BY <1>3, <2>2 DEF RunsFit
  <2>5. hs[j].start = runs[1].start
    BY <1>6, <2>1, <2>3 DEF Relinked
  <2> QED BY <2>3, <2>4, <2>5, AvailableOther
<1>8. CASE \E q \in 1 .. Len(runs) : Relinked(new[k].h, NewHeader(id, runs, q)) /\ new[k].modified
  <2>1. PICK q \in 1 .. Len(runs) : Relinked(new[k].h, NewHeader(id, runs, q)) /\ new[k].modified
    BY <1>8
  <2>2. new[k].h.id = id /\ new[k].h.start = runs[q].start /\ (q = 1 => new[k].h.main = 0)
    BY <1>3, <2>1, NewHeaderIs DEF Relinked
  <2>3. q = 1
    <3>1. CASE 1 < q
      <4>1. runs[1].start < runs[q].start /\ runs[1].start \in Nat
        BY <1>3, <3>1 DEF RunsFit, GoodRuns
      <4> QED BY <1>6, <2>2, <4>1
    <3> QED BY <1>3, <3>1
  <2>4. new[k].modified /\ new[k].h.start = runs[1].start /\ new[k].h.main = 0 /\ new[k].h.id = id
    BY <2>1, <2>2, <2>3
  <2> QED BY <1>1, <1>4, <1>5, <2>4 DEF Enlarged, NoEmpty
<1> QED BY <1>2, <1>6, <1>7, <1>8

\* A chunk that was unused when the table was read is where a marked
\* partition starts, if any does there.
LEMMA FreshMarked ==
  ASSUME NEW t, TocOK(t), NEW i \in Slices(t), NEW u, TocOK(u), u.got = t.got, Slices(u) = Slices(t),
         \A q \in Slices(t) \ {i} : u.slice[q] = t.slice[q],
         NEW id, NEW runs, Enlarged(t.slice[i], u.slice[i], id, runs),
         \A q \in Slices(t) : \A k \in 1 .. Len(t.slice[q]) :
           t.slice[q][k].h.start < SliceChunks(t.got, q),
         NEW c \in Unused(t, i), c \in TocChunks(u)
  PROVE  c \in ModifiedAt(u)
<1>1. PICK q \in Slices(t) : \E k \in 1 .. Len(u.slice[q]) : c = Base(q) + u.slice[q][k].h.start
  BY TocPlace
<1>2. PICK k \in 1 .. Len(u.slice[q]) : c = Base(q) + u.slice[q][k].h.start
  BY <1>1
<1>3. i \in {0, 1} /\ q \in {0, 1} /\ (q = 1 \/ i = 1 => t.got)
  BY SlicesAre
<1>4. PICK f : /\ f \in 0 .. SliceChunks(t.got, i) - 1 /\ c = Base(i) + f
               /\ \A m \in DOMAIN t.slice[i] : f \notin Span(t.slice[i][m].h)
  BY DEF Unused
<1>5. \A p \in Slices(t) : /\ u.slice[p] \in Seq(PartType) /\ t.slice[p] \in Seq(PartType)
                           /\ DOMAIN t.slice[p] = 1 .. Len(t.slice[p])
                           /\ \A m \in 1 .. Len(t.slice[p]) : t.slice[p][m].h \in HeaderType
  BY SequenceIs, HeadersAre DEF TocOK, PartsOK
<1>6. CASE q = i
  <2> SUFFICES ASSUME ~u.slice[i][k].modified PROVE FALSE
    BY <1>1, <1>2, <1>6, ModifiedPlace
  <2>1. PICK j \in 1 .. Len(t.slice[i]) : u.slice[i][k].h = t.slice[i][j].h
    BY <1>2, <1>6 DEF Enlarged
  <2>2. PICK h : h = t.slice[i][j].h
    OBVIOUS
  <2>3. h \in HeaderType /\ f \notin Span(h) /\ c = Base(i) + h.start
    BY <1>2, <1>4, <1>5, <1>6, <2>1, <2>2
  <2>4. PICK b \in Nat, s \in Nat, n \in Nat \ {0} : b = Base(i) /\ s = h.start /\ n = h.len
    <3>1. h.start \in Nat /\ h.len \in 1 .. Chunks /\ Base(i) \in Nat
      BY <1>3, <2>3, HeaderNumbers, BaseIs
    <3> QED BY <3>1
  <2>5. f \in Int /\ f = s
    BY <1>4, <2>3, <2>4
  <2> QED BY <2>3, <2>4, <2>5 DEF Span
<1>7. CASE q # i
  <2>1. PICK h : h = u.slice[q][k].h
    OBVIOUS
  <2>2. u.slice[q] = t.slice[q] /\ k \in 1 .. Len(t.slice[q])
    BY <1>2, <1>7
  <2>3. h \in HeaderType /\ h.start < SliceChunks(t.got, q) /\ c = Base(q) + h.start
    BY <1>2, <1>5, <2>1, <2>2
  <2>4. PICK s \in Nat, z \in Nat \ {0}, got \in BOOLEAN :
          s = h.start /\ z = Slice2 /\ got = t.got
    BY <2>3, HeaderNumbers, DiskAssumption DEF TocOK
  <2>5. got = TRUE
    BY <1>3, <1>7, <2>4
  <2>6. f \in Int /\ 0 <= f /\ f <= SliceChunks(TRUE, i) - 1 /\ s < SliceChunks(TRUE, q)
        /\ Base(i) + f = Base(q) + s
    <3>1. t.got = TRUE
      BY <2>4, <2>5
    <3>2. SliceChunks(t.got, i) = SliceChunks(TRUE, i) /\ SliceChunks(t.got, q) = SliceChunks(TRUE, q)
      BY <3>1
    <3>3. PICK m \in Int : m = SliceChunks(TRUE, i)
      BY <1>3, DiskAssumption DEF SliceChunks
    <3>4. f \in 0 .. m - 1
      BY <1>4, <3>2, <3>3
    <3>5. s < SliceChunks(TRUE, q) /\ Base(i) + f = Base(q) + s
      BY <1>4, <2>3, <2>4, <3>2
    <3>6. f \in Int /\ 0 <= f /\ f <= m - 1
      BY <3>4
    <3> QED BY <3>3, <3>5, <3>6
  <2>7. CASE i = 0 /\ q = 1
    BY <2>4, <2>6, <2>7, BaseIs DEF SliceChunks
  <2>8. CASE i = 1 /\ q = 0
    BY <2>4, <2>6, <2>8, BaseIs DEF SliceChunks
  <2> QED BY <1>3, <1>7, <2>7, <2>8
<1> QED BY <1>6, <1>7

LEMMA InstallBegun ==
  ASSUME TableInv, DoneInv, NEW t, t = TocRead(disk), t.ok,
         NEW prefix \in Prefixes, NEW name \in Names,
         NEW hint \in {-1, 0, 1}, Install(t, Id(prefix, name), name, hint), ~Refuse
  PROVE  DoneInv'
<1> DEFINE id == Id(prefix, name)
<1>1. PICK i \in Slices(t) : \E runs :
        /\ runs = Allocate(SliceChunks(t.got, i), Headers(t.slice[i]), Size[name])
        /\ runs # <<>> /\ SliceChunks(t.got, i) \in Nat
        /\ Base(i) + SliceChunks(t.got, i) <= Chunks
        /\ Started(t, i, name, id, runs)
  BY InstallStarts
<1>2. id \in Ids
  BY DEF Id, Ids
<1>3. todo' \subseteq Unused(t, job'.slice)
  BY InstallFree
<1> HIDE DEF id
<1>4. PICK runs :
        /\ runs = Allocate(SliceChunks(t.got, i), Headers(t.slice[i]), Size[name])
        /\ runs # <<>> /\ SliceChunks(t.got, i) \in Nat
        /\ Base(i) + SliceChunks(t.got, i) <= Chunks
        /\ Started(t, i, name, id, runs)
  BY <1>1
<1>5. PICK n \in Nat : n = SliceChunks(t.got, i)
  BY <1>4
<1>6. PICK ps, new, h : /\ ps = t.slice[i] /\ new = WithNew(ps, id, runs)
                        /\ h = NewHeader(id, runs, 1)
  OBVIOUS
<1>7. /\ DiskOK(disk) /\ DiskSane(disk) /\ i \in {0, 1} /\ HeadersTyped(disk) /\ TabWhole(disk)
      /\ TocOK(t) /\ TableWhole(t) /\ DOMAIN t.slice = 0 .. 1
      /\ \A q \in Slices(t) : ReadFrom(disk, q, t.slice[q])
  BY TocWhole, SlicesAre, DiskTyped DEF TableInv, TypeInv, DoneInv
<1>8. ASSUME NEW q \in Slices(t)
      PROVE  \A k \in 1 .. Len(t.slice[q]) : t.slice[q][k].h.start < SliceChunks(t.got, q)
  <2>1. TableOn(disk, t.got, q, t.slice[q], NoNew, ModStarts(t.slice[q]))
    BY <1>7, TocTables
  <2> QED BY <2>1, TableStarts
<1>9. RunsFit(n, Headers(ps), runs)
  <2>1. PICK b \in Nat, mb \in Nat : b = Base(i) /\ mb = Size[name]
    BY <1>7, BaseIs, CommandsAssumption
  <2>2. n <= Chunks
    <3>1. b + n <= Chunks
      BY <1>4, <1>5, <2>1
    <3> QED BY <3>1, DiskAssumption
  <2>3. runs = Allocate(n, Headers(ps), mb) /\ runs # <<>>
    BY <1>4, <1>5, <1>6, <2>1
  <2> QED BY <2>2, <2>3, RunsFitIn
<1>10. ps \in Seq(PartType) /\ NoEmpty(ps) /\ Grown(ps, id, runs, new)
  <2>1. ps \in Seq(PartType) /\ NoEmpty(ps) /\ GoodRuns(runs)
    BY <1>6, <1>7, <1>9 DEF TocOK, PartsOK, TableWhole, RunsFit
  <2> QED BY <1>2, <1>6, <2>1, WithNewFacts
<1>11. Enlarged(ps, new, id, runs)
  BY <1>2, <1>9, <1>10, GrownEnlarged
<1>12. PICK u, j : u = toc' /\ j = job'
  OBVIOUS
<1>13. /\ phase' = "copy" /\ disk' = disk /\ u = [t EXCEPT !.slice[i] = new]
       /\ j.op = "install" /\ j.slice = i /\ j.header = h /\ j.id = id
  BY <1>4, <1>6, <1>12 DEF Started
<1>14. /\ u.got = t.got /\ Slices(u) = Slices(t) /\ u.slice[i] = new
       /\ \A q \in Slices(t) \ {i} : u.slice[q] = t.slice[q]
  BY <1>7, <1>13, SliceSet
<1>15. ~u.got => u.slice[1] = <<>>
  <2> SUFFICES ASSUME ~t.got PROVE u.slice[1] = <<>>
    BY <1>14
  <2>1. i = 0 /\ t.slice[1] = <<>>
    BY <1>7 DEF TableWhole, Slices
  <2>2. PICK f, g : f = t.slice /\ g = [f EXCEPT ![i] = new]
    OBVIOUS
  <2>3. u = [t EXCEPT !.slice = g]
    BY <1>13, <2>2
  <2>4. u.slice = g
    BY <1>7, <2>3 DEF TocOK
  <2>5. g[1] = f[1]
    BY <1>7, <2>1, <2>2
  <2> QED BY <2>1, <2>2, <2>4, <2>5
<1>16. TableWhole(u)
  <2>1. \A q \in Slices(u) : NoEmpty(u.slice[q])
    BY <1>7, <1>11, <1>14 DEF TableWhole, Enlarged
  <2> QED BY <1>15, <2>1 DEF TableWhole
<1>17. TocOK(u)
  <2>1. TypeInv'
    BY InstallTyped DEF TableInv
  <2> QED BY <1>12, <1>13, <2>1 DEF TypeInv, JobOK
<1>18. h.start = runs[1].start /\ MainChunk(j) = Base(i) + runs[1].start
  BY <1>6, <1>13 DEF NewHeader, MainChunk
<1>19. PICK k \in 1 .. Len(new) : /\ new[k].modified /\ new[k].h.start = runs[1].start
                                  /\ new[k].h.main = 0 /\ new[k].h.id = id
  BY <1>11 DEF Enlarged
<1>20. GameThere(u, j)
  <2>1. <<i, k>> \in GamesAt(u, Base(i) + u.slice[i][k].h.start)
    BY <1>2, <1>14, <1>17, <1>19, GameHere
  <2>2. <<i, k>> \in GamesAt(u, MainChunk(j))
    BY <1>14, <1>18, <1>19, <2>1
  <2>3. \A at : at = <<i, k>> => u.slice[at[1]][at[2]].h.id = id
    BY <1>14, <1>19
  <2> QED BY <1>13, <2>2, <2>3 DEF GameThere
<1>21. MainChunk(j) \in ModifiedAt(u)
  <2>1. Base(i) + u.slice[i][k].h.start \in ModifiedAt(u)
    BY <1>14, <1>17, <1>19, ModifiedPlace
  <2> QED BY <1>14, <1>18, <1>19, <2>1
<1>22. todo' \cap TocChunks(u) \subseteq ModifiedAt(u)
  <2> SUFFICES ASSUME NEW c \in todo', c \in TocChunks(u) PROVE c \in ModifiedAt(u)
    OBVIOUS
  <2>1. c \in Unused(t, i)
    BY <1>3, <1>12, <1>13
  <2>2. Enlarged(t.slice[i], u.slice[i], id, runs)
    BY <1>6, <1>11, <1>14
  <2> QED BY <1>7, <1>8, <1>14, <1>17, <2>1, <2>2, FreshMarked
<1>23. Unlost(disk, u, ModifiedAt(u))
  <2> SUFFICES ASSUME NEW c \in TocChunks(u), c \notin ModifiedAt(u) PROVE disk[c].hdr # Junk
    BY DEF Unlost
  <2>1. PICK q \in Slices(u) : \E m \in 1 .. Len(u.slice[q]) : c = Base(q) + u.slice[q][m].h.start
    BY <1>17, TocPlace
  <2>2. PICK m \in 1 .. Len(u.slice[q]) : c = Base(q) + u.slice[q][m].h.start
    BY <2>1
  <2>3. ~u.slice[q][m].modified
    BY <1>17, <2>1, <2>2, ModifiedPlace
  <2>4. \E p \in 1 .. Len(t.slice[q]) : u.slice[q][m].h = t.slice[q][p].h
    <3>1. CASE q = i
      BY <1>6, <1>11, <1>14, <2>2, <2>3, <3>1 DEF Enlarged
    <3>2. CASE q # i
      BY <1>14, <2>1, <2>2, <3>2
    <3> QED BY <3>1, <3>2
  <2>5. PICK p \in 1 .. Len(t.slice[q]) : c = Base(q) + t.slice[q][p].h.start
    BY <2>2, <2>4
  <2>6. PICK x : x = t.slice[q]
    OBVIOUS
  <2>7. ReadFrom(disk, q, x)
    BY <1>7, <1>14, <2>6
  <2> QED BY <2>5, <2>6, <2>7, ReadNotJunk
<1>24. Doing(disk, "copy", u, j, todo')
  BY <1>13, <1>16, <1>20, <1>21, <1>22, <1>23 DEF Doing, Pending, CopyMarked, TitleRight
<1> QED BY <1>7, <1>12, <1>13, <1>24 DEF DoneInv

LEMMA InstallGameDone == ASSUME TableInv, DoneInv, InstallGame PROVE DoneInv'
<1>1. PICK t : t = TocRead(disk) /\
        IF ~t.ok THEN Refuse
        ELSE \E name \in Names, prefix \in Prefixes, hint \in {-1, 0, 1} :
               Install(t, Id(prefix, name), name, hint)
  BY DEF InstallGame
<1>2. CASE ~Refuse
  <2>1. PICK name \in Names, prefix \in Prefixes, hint \in {-1, 0, 1} :
          Install(t, Id(prefix, name), name, hint) /\ t.ok
    BY <1>1, <1>2
  <2> QED BY <1>1, <1>2, <2>1, InstallBegun
<1> QED BY <1>2, RefuseDone

-----------------------------------------------------------------------------
(* A command that succeeds has done what was asked.                        *)

\* Two partitions of a table start at one chunk only if they are the same.
LEMMA OnePlace ==
  ASSUME NEW d, NEW t, NEW j, NEW w, TablesOn(d, t, j, w), NEW p \in Slices(t), NEW q \in Slices(t),
         NEW k \in 1 .. Len(t.slice[p]), NEW m \in 1 .. Len(t.slice[q]),
         Base(p) + t.slice[p][k].h.start = Base(q) + t.slice[q][m].h.start
  PROVE  p = q /\ k = m
<1>1. p = q /\ t.slice[p][k].h.start = t.slice[q][m].h.start
  BY PlacesDiffer
<1>2. PICK ps : ps = t.slice[p]
  OBVIOUS
<1>3. k \in 1 .. Len(ps) /\ m \in 1 .. Len(ps) /\ ps[k].h.start = ps[m].h.start
  BY <1>1, <1>2
<1>4. TableOn(d, t.got, p, ps, NewOf(j, p), w[p])
  BY <1>2 DEF TablesOn
<1>5. ps \in Seq(PartType) /\ Distinct(Headers(ps))
  BY <1>4, TableStarts
<1>6. Len(Headers(ps)) = Len(ps) /\ Headers(ps)[k] = ps[k].h /\ Headers(ps)[m] = ps[m].h
  BY <1>3, <1>5, HeadersAre
<1>7. k = m
  BY <1>3, <1>5, <1>6 DEF Distinct
<1> QED BY <1>1, <1>7

LEMMA OneGame ==
  ASSUME NEW d, NEW t, TocOK(t), NEW j, NEW w, TablesOn(d, t, j, w), NEW c,
         NEW at \in GamesAt(t, c), NEW id, id = t.slice[at[1]][at[2]].h.id
  PROVE  OneAt(t, c, id) /\ HeaderAt(t, c).id = id /\ c \in TocChunks(t)
<1>1. /\ at[1] \in Slices(t) /\ at[2] \in 1 .. Len(t.slice[at[1]])
      /\ Base(at[1]) + t.slice[at[1]][at[2]].h.start = c /\ c \in TocChunks(t)
  BY GameAt DEF GamesAt, ChunkOf
<1>2. PICK p, k : p = at[1] /\ k = at[2]
  OBVIOUS
<1>3. p \in Slices(t) /\ k \in 1 .. Len(t.slice[p]) /\ Base(p) + t.slice[p][k].h.start = c
      /\ t.slice[p][k].h.id = id
  BY <1>1, <1>2
<1>4. ASSUME NEW q \in Slices(t), NEW m \in 1 .. Len(t.slice[q]), Base(q) + t.slice[q][m].h.start = c
      PROVE  t.slice[q][m].h.id = id
  <2>1. Base(p) + t.slice[p][k].h.start = Base(q) + t.slice[q][m].h.start
    BY <1>3, <1>4
  <2>2. p = q /\ k = m
    BY <1>3, <2>1, OnePlace
  <2> QED BY <1>3, <2>2
<1>5. OneAt(t, c, id)
  <2> SUFFICES ASSUME NEW b \in GamesAt(t, c) PROVE t.slice[b[1]][b[2]].h.id = id
    BY DEF OneAt
  <2>1. /\ b[1] \in Slices(t) /\ b[2] \in 1 .. Len(t.slice[b[1]])
        /\ Base(b[1]) + t.slice[b[1]][b[2]].h.start = c
    BY GameAt DEF GamesAt, ChunkOf
  <2>2. PICK q, m : q = b[1] /\ m = b[2]
    OBVIOUS
  <2>3. q \in Slices(t) /\ m \in 1 .. Len(t.slice[q]) /\ Base(q) + t.slice[q][m].h.start = c
    BY <2>1, <2>2
  <2>4. t.slice[q][m].h.id = id
    BY <1>4, <2>3
  <2> QED BY <2>2, <2>4
<1>6. HeaderAt(t, c).id = id
  <2>1. \E q \in Slices(t) : \E m \in 1 .. Len(t.slice[q]) :
          HeaderAt(t, c) = t.slice[q][m].h /\ Base(q) + t.slice[q][m].h.start = c
    BY <1>1, HeaderAtFacts
  <2>2. PICK q \in Slices(t) : \E m \in 1 .. Len(t.slice[q]) :
          HeaderAt(t, c) = t.slice[q][m].h /\ Base(q) + t.slice[q][m].h.start = c
    BY <2>1
  <2>3. PICK m \in 1 .. Len(t.slice[q]) :
          HeaderAt(t, c) = t.slice[q][m].h /\ Base(q) + t.slice[q][m].h.start = c
    BY <2>2
  <2>4. t.slice[q][m].h.id = id
    BY <1>4, <2>3
  <2> QED BY <2>3, <2>4
<1> QED BY <1>1, <1>5, <1>6

\* nothing of the table waits to be written
NothingLeft(d, t, j) ==
  \E v : /\ TablesOn(d, t, j, v) /\ \A q \in Slices(t) : v[q] = {}

LEMMA AllWritten ==
  ASSUME LastPart, NEW d, HeadersTyped(d), NEW t, TocOK(t), NEW j, NothingLeft(d, t, j),
         TableWhole(t), Unlost(d, t, {})
  PROVE  SameTable(TocRead(d), t) /\ Seen(d) = Shown(t, d, GamesIn(t))
<1>1. PICK v : TablesOn(d, t, j, v) /\ \A q \in Slices(t) : v[q] = {}
  BY DEF NothingLeft
<1>2. ASSUME NEW i \in Slices(t)
      PROVE  /\ Chained(Headers(t.slice[i])) /\ Check(SliceChunks(t.got, i), Headers(t.slice[i]))
             /\ OnDisk(d, i, Headers(t.slice[i]))
  <2>1. PICK ps, waits, new, got : /\ ps = t.slice[i] /\ waits = v[i] /\ new = NewOf(j, i)
                                   /\ got = t.got
    OBVIOUS
  <2>2. TableOn(d, got, i, ps, new, waits) /\ i \in {0, 1} /\ waits = {}
    BY <1>1, <2>1, SlicesAre DEF TablesOn
  <2>3. ASSUME NEW k \in 1 .. Len(ps)
        PROVE  /\ ps[k].h.start \notin waits /\ Base(i) + ps[k].h.start \in DOMAIN d
               /\ d[Base(i) + ps[k].h.start].hdr # Junk
    <3>1. PICK c : c = Base(i) + ps[k].h.start
      OBVIOUS
    <3>2. k \in DOMAIN ps
      BY <2>1, SequenceIs DEF TocOK, PartsOK
    <3>3. c \in {Base(i) + t.slice[i][m].h.start : m \in DOMAIN t.slice[i]}
      BY <2>1, <3>1, <3>2
    <3>4. c \in TocChunks(t)
      BY <3>3 DEF TocChunks
    <3>5. c \in DOMAIN d
      BY <3>4, ModifiedFacts DEF HeadersTyped
    <3> QED BY <2>2, <3>1, <3>4, <3>5 DEF Unlost
  <2>4. /\ Chained(Headers(ps)) /\ Check(SliceChunks(got, i), Headers(ps))
        /\ OnDisk(d, i, Headers(ps))
    BY <2>2, <2>3, TableOnDisk
  <2> QED BY <2>1, <2>4
<1>3. AllOnDisk(d, t)
  BY <1>1, <1>2 DEF AllOnDisk, TablesOn, TableWhole
<1>4. SameTable(TocRead(d), t)
  BY <1>3, TableReadBack
<1>5. Seen(d) = Shown(t, d, GamesIn(t))
  <2>1. PICK u : u = TocRead(d)
    OBVIOUS
  <2>2. SameTable(u, t) /\ u.ok
    BY <1>4, <2>1 DEF SameTable
  <2>3. Seen(d) = Shown(u, d, GamesIn(u))
    BY <2>1, <2>2 DEF Seen
  <2> QED BY <2>2, <2>3, SameGames
<1> QED BY <1>4, <1>5

\* modify_header asks for no other list than the one there was.
LEMMA HeaderListed ==
  ASSUME TypeInv, phase # "idle", job.op = "header", SameData(disk, disk'),
         \A c \in DOMAIN disk : disk'[c].tab = disk[c].tab
  PROVE  Shown(toc, disk', GamesIn(toc)) = Last(Stages(phase, job, toc, disk))
<1>1. TocOK(toc) /\ DOMAIN disk = 0 .. Chunks - 1
  BY DEF TypeInv, JobOK, DiskOK
<1>2. ASSUME NEW at \in GamesIn(toc) PROVE disk'[ChunkOf(toc, at)].tab = disk[ChunkOf(toc, at)].tab
  <2>1. ChunkOf(toc, at) \in DOMAIN disk
    BY <1>1, GameAt
  <2> QED BY <2>1
<1>3. Shown(toc, disk', GamesIn(toc)) = Shown(toc, disk, GamesIn(toc))
  BY <1>2, ShownSame
<1> QED BY <1>3, LastStage

\* the games that the command is not about
LEMMA OthersListed ==
  ASSUME TypeInv, phase # "idle", SameData(disk, disk'), NEW c,
         \A b \in DOMAIN disk \ {c} : disk'[b].tab = disk[b].tab
  PROVE  Shown(toc, disk', GamesOff(toc, c)) = Shown(toc, disk, GamesOff(toc, c))
<1>1. TocOK(toc) /\ DOMAIN disk = 0 .. Chunks - 1
  BY DEF TypeInv, JobOK, DiskOK
<1>2. ASSUME NEW at \in GamesOff(toc, c) PROVE disk'[ChunkOf(toc, at)].tab = disk[ChunkOf(toc, at)].tab
  <2>1. ChunkOf(toc, at) \in DOMAIN disk /\ ChunkOf(toc, at) # c
    BY <1>1, GameAt DEF GamesOff
  <2> QED BY <2>1
<1> QED BY <1>2, ShownSame

\* the same, for whoever has names for the parts
LEMMA ShownWith ==
  ASSUME NEW t, NEW d, NEW c, NEW id, OneAt(t, c, id), NEW title, TitleOf(d[c].tab) = title,
         NEW image, Extracted(d, d[c].tab, Size) = image
  PROVE  Shown(t, d, GamesIn(t)) =
           Shown(t, d, GamesOff(t, c)) \cup {[id |-> id, title |-> title, image |-> image]}
BY ShownSplit

LEMMA InstallListed ==
  ASSUME SmallEnough, TypeInv, CopyInv, phase = "commit", job.op = "install",
         SameData(disk, disk'), \A c \in DOMAIN disk : disk'[c].tab = disk[c].tab,
         GameThere(toc, job), NEW w, TablesOn(disk, toc, job, w)
  PROVE  Shown(toc, disk', GamesIn(toc)) = Last(Stages(phase, job, toc, disk))
<1>1. TocOK(toc) /\ DOMAIN disk = 0 .. Chunks - 1 /\ Planned(job)
      /\ \A b \in PlanChunks(job) : disk[b].data = PlanData(job, b)
  BY DEF TypeInv, JobOK, DiskOK, CopyInv, KeepsToPlan
<1>2. PICK c, tab : c = MainChunk(job) /\ tab = TableOf(job)
  OBVIOUS
<1>3. c \in DOMAIN disk /\ disk'[c].tab = tab
  <2>1. MainChunk(job) \in DOMAIN disk
    BY <1>1, PlannedChunks
  <2>2. disk[MainChunk(job)].tab = TableOf(job)
    BY DEF CopyInv, KeepsToPlan
  <2> QED BY <1>2, <2>1, <2>2
<1>4. PICK at \in GamesAt(toc, c) : toc.slice[at[1]][at[2]].h.id = job.id
  BY <1>2 DEF GameThere
<1>5. OneAt(toc, c, job.id)
  BY <1>1, <1>4, OneGame
<1>6. TitleOf(tab) = job.name
  <2>1. "title" \in DOMAIN tab /\ tab.title = job.name
    BY <1>2 DEF TableOf
  <2>2. "title" \notin DOMAIN Junk
    BY DEF Junk
  <2> QED BY <2>1, <2>2 DEF TitleOf
<1>7. Extracted(disk', tab, Size) = job.name
  <2>1. PICK e : e = disk'
    OBVIOUS
  <2>2. DOMAIN e = 0 .. Chunks - 1 /\ \A b \in PlanChunks(job) : e[b].data = PlanData(job, b)
    BY <1>1, <2>1, PlannedChunks DEF SameData
  <2>3. Extracted(e, [title |-> job.name,
                      parts |-> AllocTable(Runs(job), job.slice, job.size)], Size) = job.name
    BY <1>1, <2>2, PlanCopied
  <2> QED BY <1>2, <2>1, <2>3 DEF TableOf
<1>8. Shown(toc, disk', GamesOff(toc, c)) = Shown(toc, disk, GamesOff(toc, c))
  BY OthersListed
<1>9. Shown(toc, disk', GamesIn(toc)) =
        Shown(toc, disk, GamesOff(toc, c)) \cup
          {[id |-> job.id, title |-> job.name, image |-> job.name]}
  <2>1. PICK e : e = disk'
    OBVIOUS
  <2>2. TitleOf(e[c].tab) = job.name /\ Extracted(e, e[c].tab, Size) = job.name
    BY <1>3, <1>6, <1>7, <2>1
  <2>3. PICK t, id, name : t = toc /\ id = job.id /\ name = job.name
    OBVIOUS
  <2>4. OneAt(t, c, id) /\ TitleOf(e[c].tab) = name /\ Extracted(e, e[c].tab, Size) = name
    BY <1>5, <2>2, <2>3
  <2>5. Shown(t, e, GamesIn(t)) =
          Shown(t, e, GamesOff(t, c)) \cup {[id |-> id, title |-> name, image |-> name]}
    BY <2>4, ShownWith
  <2> QED BY <1>8, <2>1, <2>3, <2>5
<1>10. Last(Stages(phase, job, toc, disk)) =
         Shown(toc, disk, GamesOff(toc, c)) \cup
           {[id |-> job.id, title |-> job.name, image |-> job.name]}
  BY <1>2, LastStage
<1> QED BY <1>9, <1>10

LEMMA ModifyListed ==
  ASSUME TypeInv, phase # "idle", job.op = "modify", SameData(disk, disk'),
         \A b \in DOMAIN disk \ {job.at} : disk'[b].tab = disk[b].tab,
         disk'[job.at].tab = Junk <=> disk[job.at].tab = Junk,
         disk[job.at].tab # Junk => disk'[job.at].tab.parts = disk[job.at].tab.parts,
         TitleOf(disk'[job.at].tab) = job.title,
         GameThere(toc, job), NEW w, TablesOn(disk, toc, job, w)
  PROVE  Shown(toc, disk', GamesIn(toc)) = Last(Stages(phase, job, toc, disk))
<1>1. TocOK(toc)
  BY DEF TypeInv, JobOK
<1>2. PICK c, e, old, new : c = job.at /\ e = disk' /\ old = disk[c].tab /\ new = e[c].tab
  OBVIOUS
<1>3. PICK at \in GamesAt(toc, c) : TRUE
  BY <1>2 DEF GameThere
<1>4. PICK id : id = toc.slice[at[1]][at[2]].h.id
  OBVIOUS
<1>5. OneAt(toc, c, id) /\ HeaderAt(toc, c).id = id
  BY <1>1, <1>3, <1>4, OneGame
<1>6. Extracted(e, new, Size) = Extracted(disk, old, Size)
  BY <1>2, ExtractedSame
<1>7. Shown(toc, e, GamesOff(toc, c)) = Shown(toc, disk, GamesOff(toc, c))
  BY <1>2, OthersListed
<1>8. TitleOf(e[c].tab) = job.title /\ Extracted(e, e[c].tab, Size) = Extracted(disk, old, Size)
  BY <1>2, <1>6
<1>9. PICK t, title, image : t = toc /\ title = job.title /\ image = Extracted(disk, old, Size)
  OBVIOUS
<1>10. Shown(toc, e, GamesIn(toc)) =
        Shown(toc, disk, GamesOff(toc, c)) \cup
          {[id |-> id, title |-> job.title, image |-> Extracted(disk, old, Size)]}
  <2>1. OneAt(t, c, id) /\ TitleOf(e[c].tab) = title /\ Extracted(e, e[c].tab, Size) = image
    BY <1>5, <1>8, <1>9
  <2>2. Shown(t, e, GamesIn(t)) =
          Shown(t, e, GamesOff(t, c)) \cup {[id |-> id, title |-> title, image |-> image]}
    BY <2>1, ShownWith
  <2> QED BY <1>7, <1>9, <2>2
<1>11. Last(Stages(phase, job, toc, disk)) =
         Shown(toc, disk, GamesOff(toc, c)) \cup
           {[id |-> HeaderAt(toc, c).id, title |-> job.title, image |-> Extracted(disk, old, Size)]}
  <2>1. job.op \notin {"install", "header"}
    OBVIOUS
  <2> QED BY <1>2, <2>1, LastStage
<1> QED BY <1>2, <1>5, <1>10, <1>11

LEMMA InitDone == Init => DoneInv
<1> SUFFICES ASSUME Init PROVE DoneInv
  OBVIOUS
<1>1. PICK dialect : disk = Formatted(dialect)
  BY DEF Init
<1>2. phase = "idle"
  BY DEF Init
<1>3. TabWhole(disk)
  BY <1>1 DEF TabWhole, Formatted
<1> QED BY <1>2, <1>3 DEF DoneInv

LEMMA MbrDone == ASSUME TableInv, DoneInv, InjectMbr PROVE DoneInv'
<1>1. phase' = "idle"
  BY DEF InjectMbr, End
<1>2. PICK h : disk' = [disk EXCEPT ![0].hdr = h]
  BY DEF InjectMbr
<1>3. DiskOK(disk) /\ TabWhole(disk)
  BY DEF TableInv, TypeInv, DoneInv
<1>4. ASSUME NEW c \in DOMAIN disk PROVE disk'[c].tab = disk[c].tab
  <2>1. DOMAIN disk[c] = {"hdr", "tab", "data"}
    BY <1>3 DEF DiskOK, ChunkOK
  <2>2. disk'[c] = disk[c] \/ disk'[c] = [disk[c] EXCEPT !.hdr = h]
    BY <1>2
  <2> QED BY <2>1, <2>2
<1>5. DOMAIN disk' = DOMAIN disk
  BY <1>2
<1>6. TabWhole(disk')
  BY <1>3, <1>4, <1>5 DEF TabWhole
<1> QED BY <1>1, <1>6, EndDone

LEMMA DeleteDone == ASSUME TableInv, DoneInv, ConsoleDelete PROVE DoneInv'
<1>1. phase' = "idle"
  BY DEF ConsoleDelete
<1>2. PICK t : t = TocRead(disk) /\ \E at \in GamesIn(t) :
                 disk' = Deleted(disk, HeadsIn(at[1], t.slice[at[1]][at[2]].h))
  BY ConsoleDeletes
<1>3. PICK at \in GamesIn(t) : disk' = Deleted(disk, HeadsIn(at[1], t.slice[at[1]][at[2]].h))
  BY <1>2
<1>4. PICK heads : disk' = Deleted(disk, heads)
  BY <1>3
<1>5. DiskOK(disk) /\ TabWhole(disk)
  BY DEF TableInv, TypeInv, DoneInv
<1>6. ASSUME NEW c \in DOMAIN disk PROVE disk'[c].tab = disk[c].tab
  <2>1. CASE c \notin heads
    BY <1>4, <2>1 DEF Deleted
  <2>2. CASE c \in heads
    <3>1. PICK u : u = disk'
      OBVIOUS
    <3>2. u[c] = [disk[c] EXCEPT !.hdr = AsEmpty(disk[c].hdr)]
      BY <1>4, <1>5, <2>2, <3>1, DeletedChunk
    <3>3. PICK h : disk'[c] = [disk[c] EXCEPT !.hdr = h]
      BY <3>1, <3>2
    <3>4. DOMAIN disk[c] = {"hdr", "tab", "data"}
      BY <1>5 DEF DiskOK, ChunkOK
    <3> QED BY <3>3, <3>4
  <2> QED BY <2>1, <2>2
<1>7. DOMAIN disk' = DOMAIN disk
  BY <1>4 DEF Deleted
<1>8. TabWhole(disk')
  BY <1>5, <1>6, <1>7 DEF TabWhole
<1> QED BY <1>1, <1>8, EndDone

LEMMA StepDone == ~ReadsFail /\ TableInv /\ DoneInv /\ [Next]_vars => DoneInv'
<1> SUFFICES ASSUME ~ReadsFail, TableInv, DoneInv, [Next]_vars PROVE DoneInv'
  OBVIOUS
<1>1. CASE UNCHANGED vars
  BY <1>1 DEF vars, DoneInv
<1>2. CASE Stop
  BY <1>2, RefuseDone DEF Stop
<1>3. CASE WriteGarbage
  BY <1>3 DEF WriteGarbage
<1>4. CASE Next
  BY <1>2, <1>3, <1>4, InstallGameDone, CopyDone, MainDone, ModifyDone, TitleDone,
     ModifyHeaderDone, AttributesDone, MbrDone, HeadersDone, DeleteDone DEF Next
<1> QED BY <1>1, <1>4

\* A command whose table has no mark has nothing to commit.
LEMMA ThinnedLeft ==
  ASSUME TableInv, phase \notin {"idle", "commit"}, DiskOK(disk'), Thinned(disk, disk'),
         ModifiedAt(toc) = {}
  PROVE  NothingLeft(disk', toc, job)
<1>1. PICK w : w = Waits(phase, toc, job, todo)
  OBVIOUS
<1>2. TocOK(toc)
  BY DEF TableInv, TypeInv, JobOK
<1>3. TablesOn(disk', toc, job, w)
  BY <1>1, ThinnedKnown
<1>4. ASSUME NEW q \in Slices(toc) PROVE w[q] = {}
  <2>1. w[q] = ModStarts(toc.slice[q])
    BY <1>1, SlicesAre, WaitsAre
  <2>2. \A s \in ModStarts(toc.slice[q]) : Base(q) + s \in ModifiedAt(toc)
    BY <1>2, ModPlaces
  <2> QED BY <2>1, <2>2
<1> QED BY <1>3, <1>4 DEF NothingLeft

\* The last header of a commit has been written.
LEMMA LastLeft ==
  ASSUME TableInv, phase = "commit", DiskOK(disk'), NEW c \in TocChunks(toc), todo = {c},
         DOMAIN disk' = DOMAIN disk, disk'[c].hdr = HeaderAt(toc, c),
         \A b \in DOMAIN disk \ {c} : disk'[b].hdr = disk[b].hdr
  PROVE  NothingLeft(disk', toc, job)
<1>1. TocOK(toc)
  BY DEF TableInv, TypeInv, JobOK
<1>2. PICK w : w = Waits(phase, toc, job, todo)
  OBVIOUS
<1>3. Written(disk', toc, job, w, c)
  BY <1>2, HeaderPut
<1>4. PICK i \in Slices(toc) : \E k \in 1 .. Len(toc.slice[i]) :
        /\ Base(i) + toc.slice[i][k].h.start = c
        /\ \A v : Struck(toc, w, i, toc.slice[i][k].h.start, v) =>
             DiskKnown(disk') /\ TablesOn(disk', toc, job, v)
  BY <1>3 DEF Written
<1>5. PICK k \in 1 .. Len(toc.slice[i]) :
        /\ Base(i) + toc.slice[i][k].h.start = c
        /\ \A v : Struck(toc, w, i, toc.slice[i][k].h.start, v) =>
             DiskKnown(disk') /\ TablesOn(disk', toc, job, v)
  BY <1>4
<1>6. PICK s : s = toc.slice[i][k].h.start
  OBVIOUS
<1>7. PICK v : v = [q \in {0, 1} |-> {}]
  OBVIOUS
<1>8. ASSUME NEW q \in Slices(toc), NEW x \in w[q] PROVE q = i /\ x = s
  <2>1. w[q] = Left(toc, job, todo, q)
    BY <1>2, SlicesAre, WaitsAre
  <2>2. x \in ModStarts(toc.slice[q]) /\ Base(q) + x = c
    BY <1>8, <2>1 DEF Left
  <2>3. PICK m \in 1 .. Len(toc.slice[q]) : toc.slice[q][m].h.start = x
    BY <1>1, <2>2, ModPlaces, SMTT(30)
  <2>4. Base(q) + toc.slice[q][m].h.start = Base(i) + toc.slice[i][k].h.start
    BY <1>5, <2>2, <2>3
  <2>5. TablesOn(disk, toc, job, w)
    BY <1>2 DEF TableInv
  <2>6. q = i /\ toc.slice[q][m].h.start = toc.slice[i][k].h.start
    BY <2>4, <2>5, PlacesDiffer
  <2> QED BY <1>6, <2>3, <2>6
<1>9. ASSUME NEW q \in Slices(toc) PROVE v[q] = {}
  <2>1. q \in {0, 1}
    BY SlicesAre
  <2> QED BY <1>7, <2>1
<1>10. Struck(toc, w, i, s, v)
  <2>1. ASSUME NEW q \in Slices(toc) PROVE v[q] = IF q = i THEN w[q] \ {s} ELSE w[q]
    BY <1>8, <1>9
  <2> QED BY <2>1 DEF Struck
<1>11. TablesOn(disk', toc, job, v)
  BY <1>5, <1>6, <1>10
<1> QED BY <1>9, <1>11 DEF NothingLeft

\* the table has been written, and the disk lists what was asked
AsAsked ==
  /\ TocRead(disk').ok
  /\ \A i \in 0 .. 1 : Headers(TocRead(disk').slice[i]) = Headers(toc.slice[i])
  /\ Seen(disk') = Last(Stages(phase, job, toc, disk))

LEMMA AskedIs ==
  ASSUME LastPart, TableInv, phase # "idle", TypeInv', NothingLeft(disk', toc, job), TableWhole(toc),
         Unlost(disk', toc, {}),
         Shown(toc, disk', GamesIn(toc)) = Last(Stages(phase, job, toc, disk))
  PROVE  AsAsked
<1>1. TocOK(toc)
  BY DEF TableInv, TypeInv, JobOK
<1>2. PICK e : e = disk'
  OBVIOUS
<1>3. HeadersTyped(e)
  BY <1>2, DiskTyped DEF TypeInv
<1>4. SameTable(TocRead(e), toc) /\ Seen(e) = Shown(toc, e, GamesIn(toc))
  BY <1>1, <1>2, <1>3, AllWritten
<1> QED BY <1>2, <1>4 DEF AsAsked, SameTable

LEMMA TitleEnds ==
  ASSUME LastPart, TableInv, TypeInv', DoneInv, WriteTitle, phase' = "idle", result' = "ok"
  PROVE  AsAsked
<1>1. /\ phase = "title" /\ TypeInv /\ DiskOK(disk) /\ DiskOK(disk') /\ TocOK(toc) /\ GoCommit
      /\ TabWhole(disk) /\ Doing(disk, phase, toc, job, todo)
  BY DEF WriteTitle, TableInv, TypeInv, DoneInv, JobOK
<1>2. /\ TableWhole(toc) /\ GameThere(toc, job) /\ Unlost(disk, toc, ModifiedAt(toc))
      /\ TitleRight(disk, "title", job) /\ job.op = "modify"
  BY <1>1 DEF Doing, Pending
<1>3. ModifiedAt(toc) = {}
  BY <1>1 DEF GoCommit, End
<1>4. /\ DOMAIN disk' = DOMAIN disk
      /\ \A c \in DOMAIN disk : disk'[c].hdr = disk[c].hdr /\ disk'[c].data = disk[c].data
      /\ \A c \in DOMAIN disk \ {job.at} : disk'[c].tab = disk[c].tab
      /\ disk[job.at].tab = Junk <=> disk'[job.at].tab = Junk
      /\ disk[job.at].tab # Junk => /\ disk'[job.at].tab.parts = disk[job.at].tab.parts
                                    /\ TitleOf(disk'[job.at].tab) = job.title
  BY <1>1, TitleWritten
<1>5. Thinned(disk, disk')
  <2>1. 0 \in DOMAIN disk
    BY <1>1, DiskAssumption DEF DiskOK
  <2> QED BY <1>4, <2>1 DEF Thinned
<1>6. NothingLeft(disk', toc, job)
  BY <1>1, <1>3, <1>5, ThinnedLeft
<1>7. Unlost(disk', toc, {})
  <2>1. TocChunks(toc) \subseteq DOMAIN disk
    BY <1>1, ModifiedFacts DEF DiskOK
  <2> QED BY <1>2, <1>3, <1>4, <2>1 DEF Unlost
<1>8. TitleOf(disk'[job.at].tab) = job.title
  <2>1. CASE disk[job.at].tab = Junk
    BY <1>2, <1>4, <2>1 DEF TitleRight
  <2>2. CASE disk[job.at].tab # Junk
    BY <1>4, <2>2
  <2> QED BY <2>1, <2>2
<1>9. PICK w : TablesOn(disk, toc, job, w)
  BY <1>1 DEF TableInv
<1>10. SameData(disk, disk')
  BY <1>4 DEF SameData
<1>11. Shown(toc, disk', GamesIn(toc)) = Last(Stages(phase, job, toc, disk))
  BY <1>1, <1>2, <1>4, <1>8, <1>9, <1>10, ModifyListed
<1> QED BY <1>1, <1>2, <1>6, <1>7, <1>11, AskedIs

LEMMA AttributesEnd ==
  ASSUME LastPart, TableInv, TypeInv', DoneInv, WriteAttributes, phase' = "idle", result' = "ok"
  PROVE  AsAsked
<1>1. /\ phase = "attributes" /\ TypeInv /\ disk' = disk /\ DiskOK(disk) /\ DiskOK(disk') /\ TocOK(toc)
      /\ GoCommit /\ Doing(disk, phase, toc, job, todo)
  BY DEF WriteAttributes, TableInv, TypeInv, DoneInv, JobOK
<1>2. TableWhole(toc) /\ Unlost(disk, toc, ModifiedAt(toc)) /\ job.op = "header"
  BY <1>1 DEF Doing, Pending
<1>3. ModifiedAt(toc) = {}
  BY <1>1 DEF GoCommit, End
<1>4. Thinned(disk, disk') /\ SameData(disk, disk')
  BY <1>1 DEF Thinned, SameData
<1>5. NothingLeft(disk', toc, job)
  BY <1>1, <1>3, <1>4, ThinnedLeft
<1>6. Unlost(disk', toc, {})
  BY <1>1, <1>2, <1>3
<1>7. \A c \in DOMAIN disk : disk'[c].tab = disk[c].tab
  BY <1>1
<1>8. Shown(toc, disk', GamesIn(toc)) = Last(Stages(phase, job, toc, disk))
  BY <1>1, <1>2, <1>4, <1>7, HeaderListed
<1> QED BY <1>1, <1>2, <1>5, <1>6, <1>8, AskedIs

LEMMA HeadersEnd ==
  ASSUME LastPart, SmallEnough, TableInv, TypeInv', CopyInv, DoneInv, CommitHeader, phase' = "idle"
  PROVE  AsAsked
<1>1. /\ phase = "commit" /\ TypeInv /\ DiskOK(disk) /\ DiskOK(disk') /\ TocOK(toc)
      /\ Doing(disk, phase, toc, job, todo) /\ job.op \in {"install", "modify", "header"}
  BY DEF CommitHeader, TableInv, TypeInv, DoneInv, JobOK
<1>2. /\ TableWhole(toc) /\ GameThere(toc, job) /\ Unlost(disk, toc, todo)
      /\ TitleRight(disk, "commit", job)
  BY <1>1 DEF Doing, Pending
<1>3. PICK c \in todo :
           /\ c \in TocChunks(toc) /\ TocChunks(toc) \subseteq DOMAIN disk /\ DOMAIN disk' = DOMAIN disk
           /\ disk'[c].hdr = HeaderAt(toc, c) /\ HeaderAt(toc, c) \in HeaderType
           /\ \A b \in DOMAIN disk \ {c} : disk'[b].hdr = disk[b].hdr
           /\ \A b \in DOMAIN disk : disk'[b].tab = disk[b].tab /\ disk'[b].data = disk[b].data
           /\ IF todo = {c} THEN End("ok")
              ELSE todo' = todo \ {c} /\ UNCHANGED <<toc, job, phase, result>>
  BY <1>1, HeaderWrittenAt
<1>4. todo = {c}
  BY <1>1, <1>3
<1>5. NothingLeft(disk', toc, job)
  BY <1>1, <1>3, <1>4, LastLeft
<1>6. Unlost(disk', toc, {})
  <2> SUFFICES ASSUME NEW x \in TocChunks(toc) PROVE disk'[x].hdr # Junk
    BY DEF Unlost
  <2>1. CASE x = c
    BY <1>3, <2>1, NotJunk
  <2>2. CASE x # c
    BY <1>2, <1>3, <1>4, <2>2 DEF Unlost
  <2> QED BY <2>1, <2>2
<1>7. PICK w : TablesOn(disk, toc, job, w)
  BY <1>1 DEF TableInv
<1>8. SameData(disk, disk')
  BY <1>3 DEF SameData
<1>9. \A b \in DOMAIN disk : disk'[b].tab = disk[b].tab
  BY <1>3
<1>10. Shown(toc, disk', GamesIn(toc)) = Last(Stages(phase, job, toc, disk))
  <2>1. CASE job.op = "install"
    BY <1>1, <1>2, <1>7, <1>8, <1>9, <2>1, InstallListed
  <2>2. CASE job.op = "header"
    BY <1>1, <1>8, <1>9, <2>2, HeaderListed
  <2>3. CASE job.op = "modify"
    <3>1. job.at \in DOMAIN disk
      <4>1. GamesAt(toc, job.at) # {}
        BY <1>2, <2>3 DEF GameThere
      <4>2. PICK at \in GamesIn(toc) : ChunkOf(toc, at) = job.at
        BY <4>1 DEF GamesAt
      <4>3. ChunkOf(toc, at) \in TocChunks(toc)
        BY <1>1, GameAt
      <4> QED BY <1>3, <4>2, <4>3
    <3>2. disk'[job.at].tab = disk[job.at].tab
      BY <1>9, <3>1
    <3>3. TitleOf(disk'[job.at].tab) = job.title
      BY <1>2, <2>3, <3>2 DEF TitleRight
    <3> QED BY <1>1, <1>2, <1>7, <1>8, <1>9, <2>3, <3>2, <3>3, ModifyListed
  <2> QED BY <1>1, <2>1, <2>2, <2>3
<1> QED BY <1>1, <1>2, <1>5, <1>6, <1>10, AskedIs

LEMMA EndRight ==
  ASSUME LastPart, SmallEnough, ~ReadsFail, TableInv, CopyInv, DoneInv, [Next]_vars,
         phase # "idle", phase' = "idle", result' = "ok"
  PROVE  AsAsked
<1>1. TypeInv'
  BY StepTyped DEF TableInv
<1>2. Next
  BY DEF vars
<1>3. CASE Stop
  BY <1>3 DEF Stop, Refuse, End
<1>4. CASE WriteMain
  <2>1. phase = "copy" /\ Doing(disk, phase, toc, job, todo)
    BY <1>4 DEF WriteMain, DoneInv
  <2>2. ModifiedAt(toc) # {}
    BY <2>1 DEF Doing, CopyMarked
  <2>3. ~Refuse
    BY DEF Refuse, End
  <2>4. GoCommit
    BY <1>4, <2>3 DEF WriteMain
  <2> QED BY <2>2, <2>4 DEF GoCommit, End
<1>5. CASE WriteTitle
  BY <1>1, <1>5, TitleEnds
<1>6. CASE WriteAttributes
  BY <1>1, <1>6, AttributesEnd
<1>7. CASE CommitHeader
  BY <1>1, <1>7, HeadersEnd
<1>8. ~(InstallGame \/ ModifyGame \/ ModifyHeader \/ InjectMbr \/ ConsoleDelete)
  BY DEF InstallGame, ModifyGame, ModifyHeader, InjectMbr, ConsoleDelete
<1>9. ~CopyChunk /\ ~WriteGarbage
  BY DEF CopyChunk, WriteGarbage
<1> QED BY <1>2, <1>3, <1>4, <1>5, <1>6, <1>7, <1>8, <1>9 DEF Next

LEMMA InitCopy == Init => CopyInv
<1> SUFFICES ASSUME Init PROVE CopyInv
  OBVIOUS
<1>1. PICK dialect : disk = Formatted(dialect)
  BY DEF Init
<1>2. DiskWhole
  BY <1>1 DEF DiskWhole, Formatted
<1>3. KeepsToPlan
  BY DEF Init, NoJob, KeepsToPlan
<1> QED BY <1>2, <1>3 DEF CopyInv

\* A command that returns success has done what was asked: the next command
\* reads back exactly the table this one had in memory, and lists the game that
\* was installed, or the game under its new name, or all as it was.  The disk
\* must have sectors left after its last chunk, or a partition that ends with
\* the disk is one apa_check takes and apa_toc_read does not (apa.c:279);
\* modify_header must be able to read what it writes back, for it does not look
\* whether it was; and an image must have no more megabytes than prepare_main
\* can allocate in one game.
THEOREM SuccessIsDone == LastPart /\ ~ReadsFail /\ SmallEnough => (Spec => OkMeansDone)
<1> SUFFICES ASSUME LastPart, ~ReadsFail, SmallEnough PROVE Spec => OkMeansDone
  OBVIOUS
<1> DEFINE Known == TableInv /\ CopyInv /\ DoneInv
<1>1. Init => Known
  BY InitKnown, InitCopy, InitDone
<1>2. Known /\ [Next]_vars => Known'
  BY StepKnown, StepWhole, StepPlanned, StepDone DEF CopyInv
<1>3. Known /\ [Next]_vars =>
        [phase # "idle" /\ phase' = "idle" /\ result' = "ok" =>
           /\ TocRead(disk').ok
           /\ \A i \in 0 .. 1 : Headers(TocRead(disk').slice[i]) = Headers(toc.slice[i])
           /\ Seen(disk') = Last(Stages(phase, job, toc, disk))]_vars
  BY EndRight DEF AsAsked
<1> HIDE DEF Known
<1> QED BY <1>1, <1>2, <1>3, PTL DEF Spec, OkMeansDone
=============================================================================
