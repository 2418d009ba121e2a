---------------------------- MODULE AllocProofs -----------------------------
(***************************************************************************)
(* The allocator of apa.c, for disks of any number of chunks and any table: *)
(* what apa_allocate_space_in_slice and optimize_partitions choose are      *)
(* aligned runs of available chunks that do not overlap, and they hold the  *)
(* image with the headers it needs.  It follows that no install runs out of *)
(* the space that was allocated for it, that it copies to free space only,  *)
(* and that its allocation table gives back the image it copied.            *)
(***************************************************************************)
EXTENDS HddGames, FiniteSetTheorems, SequenceTheorems, WellFoundedInduction, TLAPS

-----------------------------------------------------------------------------
(* Arithmetic.                                                             *)

\* A set of numbers that is not empty has a least one.
LEMMA LeastOf ==
  ASSUME NEW S, S \subseteq Nat, S # {}
  PROVE  \E m \in S : \A k \in S : m <= k
<1>1. PICK m \in S : \A k \in S : <<k, m>> \notin OpToRel(<, Nat)
  BY WFMin, NatLessThanWellFounded, Zenon
<1>2. \A k \in S : ~(k < m)
  BY <1>1, Zenon DEF OpToRel
<1> QED BY <1>2

LEMMA TimesNat == ASSUME NEW a \in Nat, NEW b \in Nat PROVE a * b \in Nat
OBVIOUS

LEMMA TimesMonotone ==
  ASSUME NEW a \in Nat, NEW b \in Nat, NEW c \in Nat, a <= b
  PROVE  a * c <= b * c
OBVIOUS

LEMMA TimesCancel ==
  ASSUME NEW a \in Nat, NEW b \in Nat, NEW c \in Nat \ {0}, a * c < b * c
  PROVE  a < b
<1> SUFFICES ASSUME b <= a PROVE FALSE
  OBVIOUS
<1>1. b * c <= a * c
  BY TimesMonotone
<1>2. b * c \in Nat /\ a * c \in Nat
  BY TimesNat
<1> QED BY <1>1, <1>2

LEMMA DivisionUnique ==
  ASSUME NEW b \in Nat \ {0}, NEW q \in Nat, NEW t \in 0 .. b - 1, NEW x \in Nat,
         x = q * b + t
  PROVE  x \div b = q /\ x % b = t
<1>1. x % b \in 0 .. b - 1 /\ x \div b \in Nat /\ x = b * (x \div b) + (x % b)
  OBVIOUS
<1>2. PICK p \in Nat, u \in 0 .. b - 1 : p = x \div b /\ u = x % b
  BY <1>1
<1>3. x = p * b + u
  BY <1>1, <1>2
<1>4. ~(p < q)
  <2> SUFFICES ASSUME p < q PROVE FALSE
    OBVIOUS
  <2>1. (p + 1) * b <= q * b
    BY TimesMonotone
  <2>2. (p + 1) * b = p * b + b
    OBVIOUS
  <2> QED BY <1>3, <2>1, <2>2
<1>5. ~(q < p)
  <2> SUFFICES ASSUME q < p PROVE FALSE
    OBVIOUS
  <2>1. (q + 1) * b <= p * b
    BY TimesMonotone
  <2>2. (q + 1) * b = q * b + b
    OBVIOUS
  <2> QED BY <1>3, <2>1, <2>2
<1>6. p = q
  BY <1>4, <1>5
<1> QED BY <1>2, <1>3, <1>6

\* A number is a multiple of another exactly if nothing remains.
LEMMA NoRest ==
  ASSUME NEW b \in Nat \ {0}, NEW x \in Nat
  PROVE  x % b = 0 <=> \E q \in Nat : x = q * b
<1>1. PICK p \in Nat, t \in 0 .. b - 1 : t = x % b /\ x = p * b + t
  OBVIOUS
<1>2. ASSUME NEW q \in Nat, x = q * b PROVE x % b = 0
  <2>1. x = q * b + 0 /\ 0 \in 0 .. b - 1
    BY <1>2
  <2> QED BY <2>1, DivisionUnique
<1>3. ASSUME t = 0 PROVE x = p * b
  <2>1. p * b \in Nat
    BY TimesNat
  <2> QED BY <1>1, <1>3, <2>1
<1> QED BY <1>1, <1>2, <1>3

-----------------------------------------------------------------------------
(* Powers of two.                                                          *)

LEMMA PowerHalved ==
  ASSUME NEW z \in Nat, z > 1, PowerOfTwo(z)
  PROVE  \E h \in Nat \ {0} : z = 2 * h /\ PowerOfTwo(h)
<1>1. z = 1 * z
  OBVIOUS
<1>2. z % z = 0
  BY <1>1, NoRest
<1>3. z % 2 = 0
  BY <1>2 DEF PowerOfTwo
<1>4. PICK h \in Nat \ {0} : z = 2 * h
  BY <1>3
<1>5. ASSUME NEW d \in 1 .. h, h % d = 0 PROVE d = 1 \/ d % 2 = 0
  <2>1. PICK q \in Nat : h = q * d
    BY <1>5, NoRest
  <2>2. 2 * (q * d) = (2 * q) * d /\ 2 * q \in Nat
    OBVIOUS
  <2>3. z % d = 0
    BY <1>4, <2>1, <2>2, NoRest
  <2> QED BY <1>4, <2>3 DEF PowerOfTwo
<1> QED BY <1>4, <1>5 DEF PowerOfTwo

LEMMA PowerDoubled ==
  ASSUME NEW z \in Nat \ {0}, PowerOfTwo(z)
  PROVE  PowerOfTwo(2 * z)
<1> SUFFICES ASSUME NEW d \in 1 .. 2 * z, (2 * z) % d = 0, d % 2 # 0 PROVE d = 1
  BY DEF PowerOfTwo
<1>1. PICK q \in Nat : 2 * z = q * d
  BY NoRest
<1>2. PICK e \in Nat : d = 2 * e + 1
  <2>1. d \div 2 \in Nat /\ d = 2 * (d \div 2) + 1
    OBVIOUS
  <2> QED BY <2>1
<1>3. q * (2 * e + 1) = 2 * (q * e) + q /\ q * e \in Nat
  BY TimesNat
<1>4. PICK m \in Nat : m = q * e
  BY <1>3
<1>5. 2 * z = 2 * m + q
  BY <1>1, <1>2, <1>3, <1>4
<1>6. PICK r \in Nat : q = 2 * r
  <2>1. q = 2 * (z - m) /\ z - m \in Nat
    BY <1>5
  <2> QED BY <2>1
<1>7. (2 * r) * d = 2 * (r * d) /\ r * d \in Nat
  BY TimesNat
<1>8. z = r * d
  BY <1>1, <1>6, <1>7
<1>9. z % d = 0
  <2>1. d \in Nat \ {0} /\ r \in Nat /\ z \in Nat
    OBVIOUS
  <2> QED BY <1>8, <2>1, NoRest
<1>10. d \in 1 .. z
  <2>1. r # 0
    BY <1>8
  <2>2. 1 * d <= r * d
    BY <2>1, TimesMonotone
  <2> QED BY <1>8, <2>2
<1> QED BY <1>9, <1>10 DEF PowerOfTwo

\* The smaller of two powers divides the larger.
LEMMA PowersDivide ==
  ASSUME NEW y \in Nat \ {0}, NEW z \in Nat \ {0}, PowerOfTwo(y), PowerOfTwo(z), y <= z
  PROVE  \E m \in Nat \ {0} : z = m * y
<1> DEFINE Divides(b, a) == \E m \in Nat \ {0} : b = m * a
           Bad(b) == PowerOfTwo(b) /\ \E a \in 1 .. b : PowerOfTwo(a) /\ ~Divides(b, a)
           Odd == {b \in Nat \ {0} : Bad(b)}
<1>1. Odd = {}
  <2> SUFFICES ASSUME Odd # {} PROVE FALSE
    OBVIOUS
  <2>1. PICK b \in Odd : \A k \in Odd : b <= k
    BY LeastOf
  <2>2. b \in Nat \ {0} /\ PowerOfTwo(b)
    OBVIOUS
  <2>3. PICK a \in 1 .. b : PowerOfTwo(a) /\ ~Divides(b, a)
    OBVIOUS
  <2>4. a # 1
    <3>1. b = b * 1
      OBVIOUS
    <3> QED BY <2>2, <2>3, <3>1
  <2>5. PICK h \in Nat \ {0} : b = 2 * h /\ PowerOfTwo(h)
    BY <2>2, <2>4, PowerHalved
  <2>6. PICK g \in Nat \ {0} : a = 2 * g /\ PowerOfTwo(g)
    BY <2>3, <2>4, PowerHalved
  <2>7. h \notin Odd /\ g \in 1 .. h
    <3> HIDE DEF Bad
    <3> QED BY <2>1, <2>3, <2>5, <2>6
  <2>8. PICK m \in Nat \ {0} : h = m * g
    <3>1. ~Bad(h)
      BY <2>7
    <3> QED BY <2>5, <2>6, <2>7, <3>1
  <2>9. 2 * (m * g) = m * (2 * g)
    OBVIOUS
  <2> QED BY <2>3, <2>5, <2>6, <2>8, <2>9
<1> HIDE DEF Divides
<1>2. ~Bad(z)
  <2> HIDE DEF Bad
  <2> QED BY <1>1
<1>3. Divides(z, y)
  BY <1>2
<1> QED BY <1>3 DEF Divides

-----------------------------------------------------------------------------
(* Aligned blocks.                                                         *)

\* where the aligned block of z chunks begins that chunk c is in
Begins(c, z) == c - (c % z)

LEMMA BlockOf ==
  ASSUME NEW c \in Nat, NEW z \in Nat \ {0}
  PROVE  /\ Begins(c, z) \in Nat /\ Begins(c, z) % z = 0
         /\ \E p \in Nat : Begins(c, z) = p * z
         /\ c \in Block(Begins(c, z), z)
         /\ \A a \in Nat : a % z = 0 /\ c \in Block(a, z) => a = Begins(c, z)
<1>1. PICK p \in Nat, t \in 0 .. z - 1 : p = c \div z /\ t = c % z /\ c = p * z + t
  OBVIOUS
<1>2. p * z \in Nat
  BY TimesNat
<1>3. Begins(c, z) = p * z
  BY <1>1, <1>2 DEF Begins
<1>4. c \in Block(p * z, z)
  BY <1>1, <1>2 DEF Block
<1>5. ASSUME NEW a \in Nat, a % z = 0, c \in Block(a, z) PROVE a = p * z
  <2>1. PICK q \in Nat : a = q * z
    BY <1>5, NoRest
  <2>2. PICK u \in 0 .. z - 1 : c = q * z + u
    <3>1. a <= c /\ c <= a + z - 1
      BY <1>5 DEF Block
    <3>2. c - a \in 0 .. z - 1 /\ c = a + (c - a)
      BY <3>1
    <3> QED BY <2>1, <3>2
  <2>3. q = p
    BY <1>1, <2>2, DivisionUnique
  <2> QED BY <2>1, <2>3
<1> QED BY <1>2, <1>3, <1>4, <1>5, NoRest

LEMMA BlockBounds ==
  ASSUME NEW c \in Nat, NEW z \in Nat \ {0}
  PROVE  \E p \in Nat : Begins(c, z) = p * z /\ p * z <= c /\ c < p * z + z
<1>1. PICK a \in Nat : a = Begins(c, z)
  BY BlockOf
<1>2. c \in Block(a, z)
  BY <1>1, BlockOf
<1>3. a <= c /\ c < a + z
  BY <1>2 DEF Block
<1>4. PICK p \in Nat : a = p * z
  BY <1>1, BlockOf
<1> QED BY <1>1, <1>3, <1>4

\* The blocks of a chunk lie in each other.
LEMMA BlocksNest ==
  ASSUME NEW c \in Nat, NEW y \in Nat \ {0}, NEW m \in Nat \ {0}, NEW z, z = m * y
  PROVE  Block(Begins(c, y), y) \subseteq Block(Begins(c, z), z)
<1>1. z \in Nat \ {0}
  BY TimesNat
<1>2. PICK p \in Nat : Begins(c, y) = p * y /\ p * y <= c /\ c < p * y + y
  BY BlockBounds
<1>3. PICK q \in Nat : Begins(c, z) = q * z /\ q * z <= c /\ c < q * z + z
  BY <1>1, BlockBounds
<1>4. q * (m * y) = (q * m) * y /\ q * m \in Nat
  BY TimesNat
<1>5. PICK k \in Nat : k = q * m
  BY <1>4
<1>6. q * z = k * y
  BY <1>4, <1>5
<1>7. (p + 1) * y = p * y + y /\ (k + m) * y = k * y + m * y
  OBVIOUS
<1>8. PICK a \in Nat, b \in Nat : a = p * y /\ b = k * y
  BY TimesNat
<1>9. k * y < (p + 1) * y /\ p * y < (k + m) * y
  BY <1>1, <1>2, <1>3, <1>6, <1>7, <1>8
<1>10. k < p + 1 /\ p < k + m
  BY <1>9, TimesCancel
<1>11. k <= p /\ p + 1 <= k + m
  BY <1>10
<1>12. k * y <= p * y /\ (p + 1) * y <= (k + m) * y
  BY <1>11, TimesMonotone
<1>13. b <= a /\ a + y <= b + z
  BY <1>1, <1>7, <1>8, <1>12
<1> QED BY <1>1, <1>2, <1>3, <1>6, <1>8, <1>13 DEF Block

-----------------------------------------------------------------------------
(* Chunks joined into runs.                                                *)

LEMMA MaxRunNat == ASSUME NEW n \in Nat PROVE MaxRun(n) \in Nat \ {0}
<1>1. CASE n < SizeClasses
  BY <1>1 DEF MaxRun
<1>2. CASE ~(n < SizeClasses)
  <2>1. PICK S \in Nat \ {0} : S = SizeClasses
    BY DiskAssumption
  <2>2. PICK q \in Nat, t \in 0 .. S - 1 : q = n \div S /\ n = q * S + t
    BY <2>1
  <2>3. q # 0
    <3> SUFFICES ASSUME q = 0 PROVE FALSE
      OBVIOUS
    <3>1. n = t
      BY <2>2
    <3> QED BY <1>2, <2>1, <3>1
  <2> QED BY <1>2, <2>1, <2>2, <2>3 DEF MaxRun
<1> QED BY <1>1, <1>2

LEMMA RunFacts ==
  ASSUME NEW chosen, chosen \subseteq Nat, NEW n \in Nat, NEW r \in JoinedRuns(chosen, n)
  PROVE  /\ r = [start |-> r.start, len |-> r.len]
         /\ r.start \in chosen /\ r.len \in 1 .. MaxRun(n) /\ PowerOfTwo(r.len)
         /\ r.start \in Nat /\ r.len \in Nat \ {0}
         /\ r.start % r.len = 0 /\ Block(r.start, r.len) \subseteq chosen
         /\ ~Joins(chosen, n, r.start, r.len)
<1>1. r \in [start : chosen, len : Sizes(n)]
  BY DEF JoinedRuns
<1>2. Chosen(chosen, r.start, r.len) /\ ~Joins(chosen, n, r.start, r.len)
  BY DEF JoinedRuns
<1>3. r = [start |-> r.start, len |-> r.len] /\ r.start \in chosen /\ r.len \in Sizes(n)
  BY <1>1
<1>4. r.len \in 1 .. MaxRun(n) /\ PowerOfTwo(r.len)
  BY <1>3 DEF Sizes
<1>5. r.len \in Nat \ {0}
  BY <1>4, MaxRunNat
<1> QED BY <1>2, <1>3, <1>4, <1>5 DEF Chosen

\* Every chunk that was chosen is in a run.
LEMMA RunsCover ==
  ASSUME NEW chosen, chosen \subseteq Nat, NEW n \in Nat, NEW c \in chosen
  PROVE  \E r \in JoinedRuns(chosen, n) : c \in Block(r.start, r.len)
<1> DEFINE Fitting == {z \in Sizes(n) : Block(Begins(c, z), z) \subseteq chosen}
           Short == {k \in Nat : \E z \in Fitting : k = MaxRun(n) - z}
<1>1. PICK M \in Nat \ {0} : M = MaxRun(n)
  BY MaxRunNat
<1>2. 1 \in Fitting
  <2>1. PowerOfTwo(1)
    BY DEF PowerOfTwo
  <2>2. Begins(c, 1) = c
    <3>1. c = c * 1 + 0 /\ 0 \in 0 .. 1 - 1 /\ c \in Nat
      OBVIOUS
    <3>2. c % 1 = 0
      BY <3>1, DivisionUnique
    <3> QED BY <3>1, <3>2 DEF Begins
  <2> QED BY <1>1, <2>1, <2>2 DEF Sizes, Block
<1>3. PICK z \in Fitting : \A y \in Fitting : y <= z
  <2>1. \A z \in Fitting : z \in 1 .. M
    BY <1>1 DEF Sizes
  <2> HIDE DEF Fitting
  <2>2. M - 1 \in Short
    BY <1>1, <1>2
  <2>3. PICK k \in Short : \A j \in Short : k <= j
    BY <2>2, LeastOf
  <2>4. PICK z \in Fitting : k = M - z
    BY <1>1
  <2>5. ASSUME NEW y \in Fitting PROVE y <= z
    <3>1. M - y \in Short
      BY <1>1, <2>1
    <3> QED BY <2>1, <2>3, <2>4, <3>1
  <2> QED BY <2>5
<1>4. z \in Nat \ {0} /\ z <= M /\ PowerOfTwo(z) /\ Block(Begins(c, z), z) \subseteq chosen
  BY <1>1 DEF Sizes
<1>5. PICK a \in Nat : /\ a = Begins(c, z) /\ a % z = 0 /\ a \in Block(a, z) /\ c \in Block(a, z)
  BY <1>4, BlockOf DEF Block
<1>6. ~Joins(chosen, n, a, z)
  <2> SUFFICES ASSUME Joins(chosen, n, a, z) PROVE FALSE
    OBVIOUS
  <2>1. 2 * z <= M /\ Block(Begins(a, 2 * z), 2 * z) \subseteq chosen
    BY <1>1 DEF Joins, Chosen, Begins
  <2>2. PowerOfTwo(2 * z) /\ 2 * z \in Nat \ {0}
    BY <1>4, PowerDoubled
  <2>3. a \in Block(Begins(c, 2 * z), 2 * z)
    BY <1>4, <1>5, BlocksNest
  <2>4. Begins(c, 2 * z) = Begins(a, 2 * z)
    BY <2>2, <2>3, BlockOf
  <2>5. 2 * z \in Fitting
    BY <1>1, <2>1, <2>2, <2>4 DEF Sizes
  <2> QED BY <1>3, <1>4, <2>5
<1>7. [start |-> a, len |-> z] \in JoinedRuns(chosen, n)
  BY <1>1, <1>4, <1>5, <1>6 DEF JoinedRuns, Sizes, Chosen
<1> QED BY <1>5, <1>7

\* No chunk is in two of them.
LEMMA RunsApart ==
  ASSUME NEW chosen, chosen \subseteq Nat, NEW n \in Nat,
         NEW r \in JoinedRuns(chosen, n), NEW s \in JoinedRuns(chosen, n),
         NEW c, c \in Block(r.start, r.len), c \in Block(s.start, s.len)
  PROVE  r = s
<1>1. PICK M \in Nat \ {0} : M = MaxRun(n)
  BY MaxRunNat
<1>2. c \in Nat
  BY RunFacts
<1>3. ASSUME NEW x \in JoinedRuns(chosen, n), NEW y \in JoinedRuns(chosen, n),
             c \in Block(x.start, x.len), c \in Block(y.start, y.len)
      PROVE  ~(x.len < y.len)
  <2> SUFFICES ASSUME x.len < y.len PROVE FALSE
    OBVIOUS
  <2>1. PICK a \in Nat, k \in Nat \ {0} :
          /\ a = x.start /\ k = x.len /\ a % k = 0 /\ PowerOfTwo(k) /\ k <= M
          /\ ~Joins(chosen, n, a, k)
    BY <1>1, RunFacts
  <2>2. PICK b \in Nat, l \in Nat \ {0} :
          /\ b = y.start /\ l = y.len /\ b % l = 0 /\ PowerOfTwo(l) /\ l <= M
          /\ Block(b, l) \subseteq chosen
    BY <1>1, RunFacts
  <2>3. a = Begins(c, k) /\ b = Begins(c, l)
    BY <1>2, <1>3, <2>1, <2>2, BlockOf
  <2>4. PICK m \in Nat \ {0} : l = m * k
    <3>1. k <= l
      BY <2>1, <2>2
    <3> QED BY <2>1, <2>2, <3>1, PowersDivide
  <2>5. 2 * k <= l
    <3>1. m # 1
      BY <2>1, <2>2, <2>4
    <3>2. 2 * k <= m * k
      BY <3>1, TimesMonotone
    <3> QED BY <2>4, <3>2
  <2>6. PICK i \in Nat \ {0} : l = i * (2 * k)
    <3>1. PowerOfTwo(2 * k) /\ 2 * k \in Nat \ {0}
      BY <2>1, PowerDoubled
    <3> QED BY <2>2, <2>5, <3>1, PowersDivide
  <2>7. a \in Block(b, l)
    <3>1. a \in Block(a, k)
      BY DEF Block
    <3> QED BY <1>2, <2>3, <2>4, <3>1, BlocksNest
  <2>8. b = Begins(a, l)
    BY <2>2, <2>7, BlockOf
  <2>9. Block(Begins(a, 2 * k), 2 * k) \subseteq chosen
    BY <2>2, <2>6, <2>8, BlocksNest
  <2>10. Begins(a, 2 * k) % (2 * k) = 0
    BY BlockOf
  <2>11. 2 * k <= M
    BY <2>2, <2>5
  <2> QED BY <1>1, <2>1, <2>9, <2>10, <2>11 DEF Joins, Chosen, Begins
<1>4. r.len = s.len
  <2>1. r.len \in Nat /\ s.len \in Nat
    BY RunFacts
  <2> QED BY <1>3, <2>1
<1>5. r.start = s.start
  <2>1. PICK z \in Nat \ {0}, a \in Nat, b \in Nat :
          z = r.len /\ a = r.start /\ b = s.start /\ a % z = 0 /\ b % z = 0
    BY <1>4, RunFacts
  <2>2. c \in Block(a, z) /\ c \in Block(b, z)
    BY <1>4, <2>1
  <2>3. a = Begins(c, z) /\ b = Begins(c, z)
    BY <1>2, <2>1, <2>2, BlockOf
  <2> QED BY <2>1, <2>3
<1> QED BY <1>4, <1>5, RunFacts

-----------------------------------------------------------------------------
(* Numbers in ascending order.                                             *)

Rank(S, x) == Cardinality({y \in S : y < x})

LEMMA RankNat ==
  ASSUME NEW S, IsFiniteSet(S), NEW x \in S, S \subseteq Nat
  PROVE  Rank(S, x) \in Nat /\ Rank(S, x) < Cardinality(S) /\ Cardinality(S) \in Nat
<1> DEFINE B == {y \in S : y < x}
<1>1. B \in SUBSET S /\ x \notin B
  OBVIOUS
<1>2. Rank(S, x) = Cardinality(B)
  BY DEF Rank
<1> HIDE DEF B
<1>3. /\ IsFiniteSet(B) /\ Cardinality(B) <= Cardinality(S)
      /\ Cardinality(S) # Cardinality(B)
  BY <1>1, FS_Subset
<1>4. Cardinality(B) \in Nat /\ Cardinality(S) \in Nat
  BY <1>3, FS_CardinalityType
<1> QED BY <1>2, <1>3, <1>4

LEMMA RanksRise ==
  ASSUME NEW S, IsFiniteSet(S), S \subseteq Nat, NEW x \in S, NEW z \in S, x < z
  PROVE  Rank(S, x) < Rank(S, z)
<1> DEFINE A == {y \in S : y < x}
           B == {y \in S : y < z}
<1>1. x \in Nat /\ z \in Nat
  OBVIOUS
<1>2. B \in SUBSET S /\ A \in SUBSET B /\ x \in B /\ x \notin A
  <2>1. ASSUME NEW y \in A PROVE y \in B
    <3>1. y \in S /\ y \in Nat /\ y < x
      OBVIOUS
    <3>2. y < z
      BY <1>1, <3>1
    <3> QED BY <3>1, <3>2
  <2>2. x \in B /\ x \notin A
    BY <1>1
  <2>3. B \in SUBSET S
    OBVIOUS
  <2> QED BY <2>1, <2>2, <2>3
<1>3. Rank(S, x) = Cardinality(A) /\ Rank(S, z) = Cardinality(B)
  BY DEF Rank
<1> HIDE DEF A, B
<1>4. IsFiniteSet(B)
  BY <1>2, FS_Subset
<1>5. IsFiniteSet(A) /\ Cardinality(A) <= Cardinality(B) /\ Cardinality(A) # Cardinality(B)
  BY <1>2, <1>4, FS_Subset
<1>6. Cardinality(A) \in Nat /\ Cardinality(B) \in Nat
  BY <1>4, <1>5, FS_CardinalityType
<1> QED BY <1>3, <1>5, <1>6

LEMMA RanksTell ==
  ASSUME NEW S, IsFiniteSet(S), S \subseteq Nat, NEW x \in S, NEW z \in S
  PROVE  (Rank(S, x) < Rank(S, z) => x < z) /\ (Rank(S, x) = Rank(S, z) => x = z)
<1>1. x \in Nat /\ z \in Nat /\ Rank(S, x) \in Nat /\ Rank(S, z) \in Nat
  BY RankNat
<1>2. CASE x < z
  <2>1. Rank(S, x) < Rank(S, z)
    BY <1>2, RanksRise
  <2> QED BY <1>1, <1>2, <2>1
<1>3. CASE z < x
  <2>1. Rank(S, z) < Rank(S, x)
    BY <1>3, RanksRise
  <2> QED BY <1>1, <2>1
<1>4. CASE x = z
  BY <1>1, <1>4
<1> QED BY <1>1, <1>2, <1>3, <1>4

LEMMA Ranked ==
  ASSUME NEW S, S \subseteq Nat, IsFiniteSet(S), NEW i \in 0 .. Cardinality(S) - 1
  PROVE  \E x \in S : Rank(S, x) = i
<1> DEFINE T == 0 .. Cardinality(S) - 1
           f == [x \in S |-> Rank(S, x)]
<1>1. Cardinality(S) \in Nat
  BY FS_CardinalityType
<1>2. IsFiniteSet(T) /\ Cardinality(T) = Cardinality(S)
  <2>1. PICK n \in Nat : n = Cardinality(S)
    BY <1>1
  <2>2. IsFiniteSet(0 .. n - 1) /\ Cardinality(0 .. n - 1) = n
    BY FS_Interval
  <2> QED BY <2>1, <2>2
<1>3. f \in [S -> T]
  <2>1. ASSUME NEW x \in S PROVE Rank(S, x) \in T
    <3>1. Rank(S, x) \in Nat /\ Rank(S, x) < Cardinality(S)
      BY RankNat
    <3> QED BY <1>1, <3>1
  <2> QED BY <2>1
<1>4. ASSUME NEW x \in S, NEW z \in S, f[x] = f[z] PROVE x = z
  <2>1. Rank(S, x) = Rank(S, z)
    BY <1>4
  <2> QED BY <2>1, RanksTell
<1> HIDE DEF f, T
<1>5. f \in Injection(S, T)
  BY <1>3, <1>4 DEF Injection, IsInjective
<1>6. f \in Surjection(S, T)
  BY <1>2, <1>5, FS_Injection
<1>7. \E x \in S : f[x] = i
  BY <1>6 DEF Surjection, T
<1> QED BY <1>7 DEF f

LEMMA AscendingFacts ==
  ASSUME NEW S, S \subseteq Nat, IsFiniteSet(S)
  PROVE  /\ Cardinality(S) \in Nat
         /\ Len(Ascending(S)) = Cardinality(S) /\ DOMAIN Ascending(S) = 1 .. Cardinality(S)
         /\ \A i \in 1 .. Cardinality(S) : Ascending(S)[i] \in S
         /\ \A i, j \in 1 .. Cardinality(S) : i < j => Ascending(S)[i] < Ascending(S)[j]
         /\ \A x \in S : \E i \in 1 .. Cardinality(S) : Ascending(S)[i] = x
<1>1. PICK n \in Nat : n = Cardinality(S)
  BY FS_CardinalityType
<1>2. Ascending(S) = [i \in 1 .. n |-> CHOOSE x \in S : Rank(S, x) = i - 1]
  BY <1>1 DEF Ascending, Rank
<1>3. \A i \in 1 .. n : Ascending(S)[i] \in S /\ Rank(S, Ascending(S)[i]) = i - 1
  <2> SUFFICES ASSUME NEW i \in 1 .. n
               PROVE  Ascending(S)[i] \in S /\ Rank(S, Ascending(S)[i]) = i - 1
    OBVIOUS
  <2>1. i - 1 \in 0 .. n - 1
    OBVIOUS
  <2>2. \E x \in S : Rank(S, x) = i - 1
    BY <1>1, <2>1, Ranked
  <2> QED BY <1>2, <2>2
<1>4. ASSUME NEW i \in 1 .. n, NEW j \in 1 .. n, i < j
      PROVE  Ascending(S)[i] < Ascending(S)[j]
  <2>1. PICK x \in S, z \in S : x = Ascending(S)[i] /\ z = Ascending(S)[j]
    BY <1>3
  <2>2. Rank(S, x) < Rank(S, z)
    BY <1>3, <1>4, <2>1
  <2> QED BY <2>1, <2>2, RanksTell
<1>5. ASSUME NEW x \in S PROVE \E i \in 1 .. n : Ascending(S)[i] = x
  <2>1. PICK k \in 0 .. n - 1 : k = Rank(S, x)
    <3>1. Rank(S, x) \in Nat /\ Rank(S, x) < Cardinality(S)
      BY RankNat
    <3> QED BY <1>1, <3>1
  <2>2. PICK i \in 1 .. n : i - 1 = k
    <3>1. k + 1 \in 1 .. n /\ k + 1 - 1 = k
      OBVIOUS
    <3> QED BY <3>1
  <2>3. PICK z \in S : z = Ascending(S)[i] /\ Rank(S, z) = k
    BY <1>3, <2>2
  <2>4. x = z
    BY <2>1, <2>3, RanksTell
  <2> QED BY <2>3, <2>4
<1>6. Len(Ascending(S)) = n /\ DOMAIN Ascending(S) = 1 .. n
  BY <1>2
<1> QED BY <1>1, <1>3, <1>4, <1>5, <1>6

\* The runs that chunks are joined into: one for each of their starts, in
\* ascending order, which do not overlap and are all that was chosen.
LEMMA JoinedFacts ==
  ASSUME NEW chosen, chosen \subseteq Nat, IsFiniteSet(chosen), NEW n \in Nat
  PROVE  LET runs == Joined(chosen, n) IN
         /\ Len(runs) \in Nat /\ Len(runs) <= Cardinality(chosen)
         /\ DOMAIN runs = 1 .. Len(runs) /\ runs = [k \in 1 .. Len(runs) |-> runs[k]]
         /\ \A k \in DOMAIN runs : runs[k] \in JoinedRuns(chosen, n)
         /\ \A c \in chosen : \E k \in DOMAIN runs : c \in Block(runs[k].start, runs[k].len)
         /\ \A j, k \in DOMAIN runs : j < k => runs[j].start < runs[k].start
<1> DEFINE JR == JoinedRuns(chosen, n)
           S == {r.start : r \in JR}
           runs == Joined(chosen, n)
<1>1. \A r \in JR : r.start \in chosen /\ r.len \in Nat \ {0} /\ r.start \in Nat
  BY RunFacts
<1>2. S \subseteq chosen
  BY <1>1
<1>3. IsFiniteSet(S) /\ Cardinality(S) <= Cardinality(chosen) /\ S \subseteq Nat
  BY <1>2, FS_Subset
<1>4. PICK m \in Nat : m = Cardinality(S)
  BY <1>3, FS_CardinalityType
<1>5. PICK asc : asc = Ascending(S)
  OBVIOUS
<1>6. /\ DOMAIN asc = 1 .. m /\ \A i \in 1 .. m : asc[i] \in S
      /\ \A i, j \in 1 .. m : i < j => asc[i] < asc[j]
      /\ \A x \in S : \E i \in 1 .. m : asc[i] = x
  <2> HIDE DEF S
  <2> QED BY <1>3, <1>4, <1>5, AscendingFacts
<1>7. runs = [i \in 1 .. m |-> CHOOSE r \in JR : r.start = asc[i]]
  BY <1>5, <1>6 DEF Joined
<1>8. \A i \in 1 .. m : runs[i] \in JR /\ runs[i].start = asc[i]
  <2> SUFFICES ASSUME NEW i \in 1 .. m PROVE runs[i] \in JR /\ runs[i].start = asc[i]
    OBVIOUS
  <2>1. \E r \in JR : r.start = asc[i]
    BY <1>6
  <2>2. runs[i] = CHOOSE r \in JR : r.start = asc[i]
    BY <1>7
  <2> HIDE DEF JR, runs
  <2> QED BY <2>1, <2>2
<1>9. ASSUME NEW c \in chosen PROVE \E k \in 1 .. m : c \in Block(runs[k].start, runs[k].len)
  <2>1. PICK r \in JR : c \in Block(r.start, r.len)
    BY RunsCover
  <2>2. PICK i \in 1 .. m : asc[i] = r.start
    BY <1>6
  <2>3. PICK s \in JR : s = runs[i] /\ s.start = r.start
    BY <1>8, <2>2
  <2>4. r.start \in Block(r.start, r.len) /\ r.start \in Block(s.start, s.len)
    BY <1>1, <2>3 DEF Block
  <2>5. r = s
    BY <2>4, RunsApart
  <2> QED BY <2>1, <2>3, <2>5
<1>10. Len(runs) = m /\ DOMAIN runs = 1 .. m
  BY <1>7
<1>11. runs = [k \in 1 .. m |-> runs[k]]
  BY <1>7
<1>12. \A j, k \in 1 .. m : j < k => runs[j].start < runs[k].start
  BY <1>6, <1>8
<1> HIDE DEF runs, JR, S
<1>13. Len(runs) \in Nat /\ Len(runs) <= Cardinality(chosen)
  BY <1>3, <1>4, <1>10
<1> QED BY <1>8, <1>9, <1>10, <1>11, <1>12, <1>13 DEF runs, JR

-----------------------------------------------------------------------------
(* What the runs hold.                                                     *)

\* Before is defined: there is a function like the one it is defined by.
LEMMA SumExists ==
  ASSUME NEW runs, Len(runs) \in Nat
  PROVE  \E sum : sum = [j \in 1 .. Len(runs) + 1 |->
                           IF j = 1 THEN 0
                           ELSE sum[j - 1] + runs[j - 1].len * ChunkMB - HdrMB(j - 1)]
<1> DEFINE E(sum, j) == IF j = 1 THEN 0
                        ELSE sum[j - 1] + runs[j - 1].len * ChunkMB - HdrMB(j - 1)
           Upto(n) == \E sum : sum = [j \in 1 .. n + 1 |-> E(sum, j)]
           Bad == {n \in Nat : ~Upto(n)}
<1>1. Bad = {}
  <2> SUFFICES ASSUME Bad # {} PROVE FALSE
    OBVIOUS
  <2>1. PICK n \in Bad : \A k \in Bad : n <= k
    <3> HIDE DEF Bad
    <3>1. Bad \subseteq Nat
      BY DEF Bad
    <3> QED BY <3>1, LeastOf
  <2>2. n \in Nat /\ ~Upto(n)
    OBVIOUS
  <2>3. n # 0
    <3>1. Upto(0)
      <4> DEFINE z == [j \in 1 .. 1 |-> 0]
      <4>1. z = [j \in 1 .. 0 + 1 |-> E(z, j)]
        OBVIOUS
      <4> QED BY <4>1
    <3> QED BY <2>2, <3>1
  <2>4. PICK p \in Nat : n = p + 1
    <3>1. n - 1 \in Nat /\ n = n - 1 + 1
      BY <2>2, <2>3
    <3> QED BY <3>1
  <2>5. Upto(p)
    <3> HIDE DEF Upto
    <3> QED BY <2>1, <2>4
  <2>6. PICK h : h = [j \in 1 .. p + 1 |-> E(h, j)]
    BY <2>5
  <2> DEFINE g == [j \in 1 .. n + 1 |-> IF j <= n THEN h[j] ELSE E(h, j)]
  <2>7. ASSUME NEW j \in 1 .. n + 1 PROVE g[j] = E(g, j)
    <3>1. j # 1 => g[j - 1] = h[j - 1]
      <4> SUFFICES ASSUME j # 1 PROVE g[j - 1] = h[j - 1]
        OBVIOUS
      <4>1. j - 1 \in 1 .. n + 1 /\ j - 1 <= n
        BY <2>2
      <4> HIDE DEF E
      <4> QED BY <4>1
    <3>2. E(g, j) = E(h, j)
      <4> HIDE DEF g
      <4> QED BY <3>1
    <3>3. j <= n => h[j] = E(h, j)
      <4> HIDE DEF E
      <4> SUFFICES ASSUME j <= n PROVE h[j] = E(h, j)
        OBVIOUS
      <4>1. j \in 1 .. p + 1
        BY <2>4
      <4> QED BY <2>6, <4>1
    <3> HIDE DEF E
    <3> QED BY <3>2, <3>3
  <2>8. g = [j \in 1 .. n + 1 |-> E(g, j)]
    <3>1. g = [j \in 1 .. n + 1 |-> g[j]]
      OBVIOUS
    <3> HIDE DEF g, E
    <3> QED BY <2>7, <3>1
  <2>9. Upto(n)
    <3> HIDE DEF g, E
    <3> QED BY <2>8
  <2> QED BY <2>2, <2>9
<1>2. Upto(Len(runs))
  <2> HIDE DEF Upto
  <2> QED BY <1>1
<1> QED BY <1>2

LEMMA BeforeNext ==
  ASSUME NEW runs, Len(runs) \in Nat
  PROVE  /\ Before(runs, 1) = 0
         /\ \A j \in 1 .. Len(runs) :
              Before(runs, j + 1) = Before(runs, j) + runs[j].len * ChunkMB - HdrMB(j)
<1> DEFINE Is(f) == f = [j \in 1 .. Len(runs) + 1 |->
                           IF j = 1 THEN 0
                           ELSE f[j - 1] + runs[j - 1].len * ChunkMB - HdrMB(j - 1)]
           sum == CHOOSE f : Is(f)
<1>1. \E f : Is(f)
  BY SumExists
<1>2. Is(sum)
  <2> HIDE DEF Is
  <2> QED BY <1>1
<1>3. \A j : Before(runs, j) = sum[j]
  BY DEF Before
<1> HIDE DEF sum
<1>4. sum[1] = 0
  BY <1>2
<1>5. ASSUME NEW j \in 1 .. Len(runs)
      PROVE  sum[j + 1] = sum[j] + runs[j].len * ChunkMB - HdrMB(j)
  <2>1. j + 1 \in 1 .. Len(runs) + 1 /\ j + 1 # 1 /\ j + 1 - 1 = j
    OBVIOUS
  <2> QED BY <1>2, <2>1
<1> QED BY <1>3, <1>4, <1>5

\* the chunks of the first j runs
Covered(runs, j) == UNION {Block(runs[k].start, runs[k].len) : k \in 1 .. j}

\* The first runs hold all their chunks but a megabyte of each run, and three
\* more of the first.
LEMMA CoveredHolds ==
  ASSUME NEW runs, Len(runs) \in Nat,
         \A k \in 1 .. Len(runs) : runs[k].start \in Nat /\ runs[k].len \in Nat,
         NEW i \in 1 .. Len(runs)
  PROVE  /\ IsFiniteSet(Covered(runs, i)) /\ Before(runs, i + 1) \in Int
         /\ Cardinality(Covered(runs, i)) * ChunkMB <= Before(runs, i + 1) + 3 + i
<1> DEFINE P(j) == /\ IsFiniteSet(Covered(runs, j)) /\ Before(runs, j + 1) \in Int
                   /\ Cardinality(Covered(runs, j)) * ChunkMB <= Before(runs, j + 1) + 3 + j
           Bad == {j \in 1 .. Len(runs) : ~P(j)}
<1>1. PICK C \in Nat : C = ChunkMB
  BY DiskAssumption
<1>2. ASSUME NEW j \in 1 .. Len(runs)
      PROVE  /\ IsFiniteSet(Block(runs[j].start, runs[j].len))
             /\ Cardinality(Block(runs[j].start, runs[j].len)) = runs[j].len
  <2>1. PICK a \in Nat, l \in Nat : a = runs[j].start /\ l = runs[j].len
    OBVIOUS
  <2>2. PICK b \in Int : b = a + l - 1
    OBVIOUS
  <2>3. /\ IsFiniteSet(a .. b)
        /\ Cardinality(a .. b) = IF a > b THEN 0 ELSE b - a + 1
    <3>1. a \in Int
      OBVIOUS
    <3> QED BY <3>1, FS_Interval
  <2>4. Block(runs[j].start, runs[j].len) = a .. b
    BY <2>1, <2>2 DEF Block
  <2>5. Cardinality(a .. b) = l
    BY <2>2, <2>3
  <2> QED BY <2>1, <2>3, <2>4, <2>5
<1>3. Bad = {}
  <2> SUFFICES ASSUME Bad # {} PROVE FALSE
    OBVIOUS
  <2>1. PICK j \in Bad : \A k \in Bad : j <= k
    <3>1. Bad \subseteq Nat
      OBVIOUS
    <3> HIDE DEF Bad
    <3> QED BY <3>1, LeastOf
  <2>2. j \in 1 .. Len(runs) /\ ~P(j)
    OBVIOUS
  <2>3. PICK l \in Nat, c \in Nat : l = runs[j].len /\ c = l * C
    BY <2>2, TimesNat
  <2>4. Before(runs, j + 1) = Before(runs, j) + c - HdrMB(j)
    BY <1>1, <2>2, <2>3, BeforeNext
  <2> DEFINE B == Block(runs[j].start, runs[j].len)
  <2>5. IsFiniteSet(B) /\ Cardinality(B) = l
    BY <1>2, <2>2, <2>3
  <2>6. CASE j = 1
    <3>1. Covered(runs, 1) = B
      BY <2>6 DEF Covered
    <3>2. Before(runs, 2) = 0 + c - 4
      BY <2>4, <2>6, BeforeNext DEF HdrMB, MainHdrMB
    <3> HIDE DEF B
    <3>3. P(1)
      <4>1. Cardinality(Covered(runs, 1)) * ChunkMB = c /\ IsFiniteSet(Covered(runs, 1))
        BY <1>1, <2>3, <2>5, <3>1
      <4>2. Before(runs, 1 + 1) = c - 4
        BY <3>2
      <4>3. c - 4 \in Int /\ c <= c - 4 + 3 + 1
        OBVIOUS
      <4>4. c <= Before(runs, 1 + 1) + 3 + 1 /\ Before(runs, 1 + 1) \in Int
        BY <4>2, <4>3
      <4> QED BY <4>1, <4>4
    <3> QED BY <2>2, <2>6, <3>3
  <2>7. CASE j # 1
    <3>1. PICK p \in 1 .. Len(runs) : j = p + 1
      <4>1. j - 1 \in 1 .. Len(runs) /\ j = j - 1 + 1
        BY <2>2, <2>7
      <4> QED BY <4>1
    <3>2. P(p)
      <4> HIDE DEF P
      <4> QED BY <2>1, <3>1
    <3>3. Covered(runs, j) = Covered(runs, p) \cup B
      <4>1. 1 .. j = 1 .. p \cup {j}
        BY <3>1
      <4> QED BY <4>1 DEF Covered
    <3> DEFINE A == Covered(runs, p)
    <3>4. IsFiniteSet(A)
      BY <3>2
    <3> HIDE DEF A, B
    <3>5. /\ IsFiniteSet(A \cup B)
          /\ Cardinality(A \cup B) = Cardinality(A) + Cardinality(B) - Cardinality(A \cap B)
          /\ IsFiniteSet(A \cap B)
      BY <2>5, <3>4, FS_Union, FS_Intersection
    <3>6. PICK a \in Nat, u \in Nat : a = Cardinality(A) /\ u = Cardinality(A \cup B) /\ u <= a + l
      BY <2>5, <3>4, <3>5, FS_CardinalityType
    <3>7. u * C <= (a + l) * C /\ (a + l) * C = a * C + c
      BY <2>3, <3>6, TimesMonotone
    <3>8. PICK x \in Nat, y \in Nat : x = a * C /\ y = u * C
      BY TimesNat
    <3>9. x <= Before(runs, j) + 3 + p /\ Before(runs, j) \in Int
      BY <1>1, <3>1, <3>2, <3>6, <3>8 DEF A
    <3>10. HdrMB(j) = 1
      BY <2>7 DEF HdrMB, SubHdrMB
    <3>11. y <= Before(runs, j + 1) + 3 + j /\ Before(runs, j + 1) \in Int
      <4>1. PICK s \in Int : s = Before(runs, j)
        BY <3>9
      <4>2. Before(runs, j + 1) = s + c - 1
        BY <2>4, <3>10, <4>1
      <4>3. y <= s + c - 1 + 3 + j /\ s + c - 1 \in Int
        <5>1. y <= x + c
          BY <3>7, <3>8
        <5>2. x <= s + 3 + p
          BY <3>9, <4>1
        <5>3. y <= s + 3 + p + c /\ j = p + 1
          BY <3>1, <5>1, <5>2
        <5> QED BY <5>3
      <4> QED BY <4>2, <4>3
    <3>12. P(j)
      <4>1. IsFiniteSet(Covered(runs, j)) /\ Cardinality(Covered(runs, j)) * ChunkMB = y
        BY <1>1, <3>3, <3>5, <3>6, <3>8 DEF A
      <4> QED BY <3>11, <4>1
    <3> QED BY <2>2, <3>12
  <2> QED BY <2>6, <2>7
<1>4. P(i)
  <2> HIDE DEF P
  <2> QED BY <1>3
<1> QED BY <1>4

-----------------------------------------------------------------------------
(* What is allocated.                                                      *)

\* the j lowest elements of S
FirstOf(S, j) == {Ascending(S)[i] : i \in 1 .. j}

LEMMA FirstFacts ==
  ASSUME NEW S, S \subseteq Nat, IsFiniteSet(S), NEW j \in Nat, j <= Cardinality(S)
  PROVE  FirstOf(S, j) \subseteq S /\ IsFiniteSet(FirstOf(S, j))
         /\ Cardinality(FirstOf(S, j)) = j
<1>1. PICK n \in Nat : n = Cardinality(S)
  BY FS_CardinalityType
<1>2. PICK asc : asc = Ascending(S)
  OBVIOUS
<1>3. /\ \A i \in 1 .. n : asc[i] \in S
      /\ \A i, k \in 1 .. n : i < k => asc[i] < asc[k]
  BY <1>1, <1>2, AscendingFacts
<1> DEFINE F == {asc[i] : i \in 1 .. j}
           f == [i \in 1 .. j |-> asc[i]]
<1>4. FirstOf(S, j) = F
  BY <1>2 DEF FirstOf
<1>5. F \subseteq S
  BY <1>1, <1>3
<1>6. ASSUME NEW i \in 1 .. j, NEW k \in 1 .. j, f[i] = f[k] PROVE i = k
  <2>1. i \in 1 .. n /\ k \in 1 .. n /\ asc[i] = asc[k]
    BY <1>1, <1>6
  <2>2. asc[i] \in Nat
    BY <1>3, <2>1
  <2>3. ~(i < k) /\ ~(k < i)
    BY <1>3, <2>1, <2>2
  <2> QED BY <2>3
<1>7. f \in [1 .. j -> F] /\ \A y \in F : \E i \in 1 .. j : f[i] = y
  OBVIOUS
<1> HIDE DEF f, F
<1>8. f \in Bijection(1 .. j, F)
  BY <1>6, <1>7 DEF Bijection, Injection, Surjection, IsInjective
<1>9. IsFiniteSet(1 .. j) /\ Cardinality(1 .. j) = j
  BY FS_Interval
<1>10. IsFiniteSet(F) /\ Cardinality(F) = j
  BY <1>8, <1>9, FS_Bijection DEF ExistsBijection
<1> QED BY <1>4, <1>5, <1>10

LEMMA CeilDivFacts ==
  ASSUME NEW a \in Nat, NEW b \in Nat \ {0}
  PROVE  CeilDiv(a, b) \in Nat /\ a <= CeilDiv(a, b) * b /\ CeilDiv(a, b) * b < a + b
<1>1. PICK x \in Nat : x = a + b - 1
  OBVIOUS
<1>2. PICK p \in Nat, t \in 0 .. b - 1 : p = x \div b /\ x = p * b + t
  OBVIOUS
<1>3. CeilDiv(a, b) = p
  BY <1>1, <1>2 DEF CeilDiv
<1>4. PICK y \in Nat : y = p * b
  BY TimesNat
<1>5. a + b - 1 = y + t
  BY <1>1, <1>2, <1>4
<1>6. a <= y /\ y < a + b
  BY <1>5
<1> QED BY <1>3, <1>4, <1>6

\* The available chunks of a slice are among its chunks.
LEMMA AvailableFacts ==
  ASSUME NEW n \in Nat, NEW hs
  PROVE  Available(n, hs) \subseteq 0 .. n - 1 /\ IsFiniteSet(Available(n, hs))
         /\ Available(n, hs) \subseteq Nat
<1>1. Available(n, hs) \subseteq 0 .. n - 1
  BY DEF Available
<1>2. IsFiniteSet(0 .. n - 1)
  <2>1. n - 1 \in Int /\ 0 \in Int
    OBVIOUS
  <2> QED BY <2>1, FS_Interval
<1> QED BY <1>1, <1>2, FS_Subset

\* Space that is allocated is made of as many chunks as the image needs, if
\* they hold the headers too, and of one more if not.
LEMMA AllocatedFacts ==
  ASSUME NEW n \in Nat, NEW hs, NEW mb \in Nat, Allocate(n, hs, mb) # <<>>
  PROVE  \E chosen : \E k \in Nat :
           /\ chosen \subseteq Available(n, hs)
           /\ Allocate(n, hs, mb) = Joined(chosen, n)
           /\ mb # 0 /\ k = CeilDiv(mb, ChunkMB)
           /\ \/ /\ Cardinality(chosen) = k
                 /\ mb + 3 + Len(Joined(chosen, n)) <= k * ChunkMB
              \/ Cardinality(chosen) = k + 1
<1> DEFINE A == Available(n, hs)
           avail == Ascending(A)
           F(j) == {avail[i] : i \in 1 .. j}
           runs == Allocate(n, hs, mb)
<1>1. PICK C \in Nat \ {0} : C = ChunkMB
  BY DiskAssumption
<1>2. PICK k \in Nat : k = CeilDiv(mb, C)
  BY CeilDivFacts
<1>3. PICK m \in Nat : m = Len(avail) /\ m = Cardinality(A)
  <2> HIDE DEF A
  <2>1. IsFiniteSet(A) /\ A \subseteq Nat
    BY AvailableFacts DEF A
  <2> QED BY <2>1, AscendingFacts
<1> DEFINE short == k * C < mb + 3 + Len(Joined(F(k), n))
<1>4. runs = IF mb = 0 \/ m * C < mb THEN <<>>
             ELSE IF ~short THEN Joined(F(k), n)
             ELSE IF m > k THEN Joined(F(k + 1), n) ELSE <<>>
  BY <1>1, <1>2, <1>3, Zenon DEF Allocate
<1>5. ASSUME NEW j \in Nat, j <= m PROVE F(j) \subseteq A /\ IsFiniteSet(F(j)) /\ Cardinality(F(j)) = j
  <2>1. F(j) = FirstOf(A, j)
    BY DEF FirstOf
  <2>2. A \subseteq Nat /\ IsFiniteSet(A)
    BY AvailableFacts
  <2>3. /\ FirstOf(A, j) \subseteq A /\ IsFiniteSet(FirstOf(A, j))
        /\ Cardinality(FirstOf(A, j)) = j
    <3> HIDE DEF A
    <3> QED BY <1>3, <1>5, <2>2, FirstFacts
  <2> HIDE DEF F
  <2> QED BY <2>1, <2>3
<1>6. mb # 0 /\ ~(m * C < mb)
  <2> HIDE DEF runs, F, short
  <2>1. runs # <<>>
    BY DEF runs
  <2> QED BY <1>4, <2>1
<1>7. k <= m
  <2>1. PICK x \in Nat, y \in Nat : x = k * C /\ y = m * C
    BY TimesNat
  <2>2. x < mb + C /\ mb <= y
    BY <1>2, <1>6, <2>1, CeilDivFacts
  <2>3. (m + 1) * C = y + C
    BY <2>1
  <2>4. k * C < (m + 1) * C
    BY <2>1, <2>2, <2>3
  <2>5. k < m + 1
    BY <2>4, TimesCancel
  <2> QED BY <2>5
<1>8. CASE short
  <2>1. m > k
    <3> HIDE DEF F, short
    <3>1. runs # <<>>
      OBVIOUS
    <3> HIDE DEF runs
    <3> QED BY <1>4, <1>6, <1>8, <3>1
  <2>2. runs = Joined(F(k + 1), n)
    <3> HIDE DEF F, short, runs
    <3> QED BY <1>4, <1>6, <1>8, <2>1
  <2>3. k + 1 \in Nat /\ k + 1 <= m
    BY <2>1
  <2>4. F(k + 1) \subseteq A /\ Cardinality(F(k + 1)) = k + 1
    <3> HIDE DEF F, A
    <3> QED BY <1>5, <2>3
  <2> HIDE DEF F
  <2> QED BY <1>1, <1>2, <1>6, <2>2, <2>4
<1>9. CASE ~short
  <2>1. runs = Joined(F(k), n)
    <3> HIDE DEF F, short, runs
    <3> QED BY <1>4, <1>6, <1>9
  <2>2. F(k) \subseteq A /\ IsFiniteSet(F(k)) /\ Cardinality(F(k)) = k
    <3> HIDE DEF F, A
    <3> QED BY <1>5, <1>7
  <2>3. PICK c : c = F(k)
    OBVIOUS
  <2>4. PICK l \in Nat : l = Len(Joined(c, n))
    <3>1. c \subseteq Nat /\ IsFiniteSet(c)
      BY <2>2, <2>3, AvailableFacts
    <3> QED BY <3>1, JoinedFacts
  <2>5. PICK x \in Nat : x = k * C
    BY TimesNat
  <2>6. ~(x < mb + 3 + l)
    <3> HIDE DEF F
    <3> QED BY <1>9, <2>3, <2>4, <2>5
  <2>7. mb + 3 + l <= x
    BY <2>6
  <2> HIDE DEF F, short, runs
  <2> QED BY <1>1, <1>2, <1>6, <2>1, <2>2, <2>3, <2>4, <2>5, <2>7 DEF runs
<1> QED BY <1>8, <1>9

\* What apa_allocate_space_in_slice returns: runs of 1, 2, 4... chunks that
\* are available and inside the slice, each at a multiple of its length and no
\* longer than a partition may be, in ascending order and apart from each
\* other, as apa_check wants the partitions of a table to be.
THEOREM AllocatedRuns ==
  ASSUME NEW n \in Nat, NEW hs, NEW mb \in Nat,
         NEW k \in DOMAIN Allocate(n, hs, mb)
  PROVE  LET runs == Allocate(n, hs, mb)
             r    == runs[k]
         IN /\ PowerOfTwo(r.len) /\ r.len \in 1 .. MaxRun(n) /\ r.start % r.len = 0
            /\ Span(r) \subseteq Available(n, hs) /\ Span(r) \subseteq 0 .. n - 1
            /\ \A j \in DOMAIN runs :
                 j # k => Span(r) \cap Span(runs[j]) = {}
                          /\ (j < k <=> runs[j].start < r.start)
<1> DEFINE runs == Allocate(n, hs, mb)
<1>1. runs # <<>>
  OBVIOUS
<1>2. PICK chosen : chosen \subseteq Available(n, hs) /\ runs = Joined(chosen, n)
  BY <1>1, AllocatedFacts
<1>3. chosen \subseteq Nat /\ IsFiniteSet(chosen) /\ chosen \subseteq 0 .. n - 1
  BY <1>2, AvailableFacts, FS_Subset
<1> DEFINE JR == JoinedRuns(chosen, n)
<1>4. /\ \A j \in DOMAIN runs : runs[j] \in JR
      /\ \A i, j \in DOMAIN runs : i < j => runs[i].start < runs[j].start
      /\ DOMAIN runs \subseteq Nat
  <2> HIDE DEF runs
  <2> QED BY <1>2, <1>3, JoinedFacts
<1>5. k \in DOMAIN runs
  OBVIOUS
<1> HIDE DEF runs, JR
<1>6. \A j \in DOMAIN runs :
        /\ runs[j].start \in Nat /\ runs[j].len \in Nat \ {0}
        /\ PowerOfTwo(runs[j].len) /\ runs[j].len \in 1 .. MaxRun(n)
        /\ runs[j].start % runs[j].len = 0
        /\ Span(runs[j]) \subseteq chosen
        /\ Span(runs[j]) = Block(runs[j].start, runs[j].len)
  <2> SUFFICES ASSUME NEW j \in DOMAIN runs
               PROVE /\ runs[j].start \in Nat /\ runs[j].len \in Nat \ {0}
                     /\ PowerOfTwo(runs[j].len) /\ runs[j].len \in 1 .. MaxRun(n)
                     /\ runs[j].start % runs[j].len = 0
                     /\ Span(runs[j]) \subseteq chosen
                     /\ Span(runs[j]) = Block(runs[j].start, runs[j].len)
    OBVIOUS
  <2>1. PICK r \in JoinedRuns(chosen, n) : r = runs[j]
    BY <1>4 DEF JR
  <2>2. /\ r.start \in Nat /\ r.len \in Nat \ {0} /\ PowerOfTwo(r.len)
        /\ r.len \in 1 .. MaxRun(n) /\ r.start % r.len = 0
        /\ Block(r.start, r.len) \subseteq chosen
    BY <1>3, RunFacts
  <2>3. Span(r) = Block(r.start, r.len)
    BY DEF Span, Block
  <2> QED BY <2>1, <2>2, <2>3
<1>7. ASSUME NEW j \in DOMAIN runs, j # k
      PROVE  Span(runs[k]) \cap Span(runs[j]) = {} /\ (j < k <=> runs[j].start < runs[k].start)
  <2>1. j \in Nat /\ k \in Nat /\ runs[j].start \in Nat /\ runs[k].start \in Nat
    BY <1>4, <1>5, <1>6
  <2>2. j < k \/ k < j
    BY <1>7, <2>1
  <2>3. (j < k => runs[j].start < runs[k].start) /\ (k < j => runs[k].start < runs[j].start)
    BY <1>4, <1>5
  <2>4. runs[j] # runs[k]
    BY <2>1, <2>2, <2>3
  <2>5. ASSUME NEW c \in Span(runs[k]) \cap Span(runs[j]) PROVE FALSE
    <3>1. c \in Block(runs[k].start, runs[k].len) /\ c \in Block(runs[j].start, runs[j].len)
      BY <1>5, <1>6
    <3>2. runs[k] \in JoinedRuns(chosen, n) /\ runs[j] \in JoinedRuns(chosen, n)
      BY <1>4, <1>5 DEF JR
    <3> QED BY <1>3, <2>4, <3>1, <3>2, RunsApart
  <2> QED BY <2>1, <2>2, <2>3, <2>5
<1> QED BY <1>2, <1>3, <1>5, <1>6, <1>7 DEF runs

\* An image of so many chunks that with all their headers still need only one
\* chunk more fits into what is allocated for it.
LEMMA AllocFits ==
  ASSUME NEW n \in Nat, NEW hs, NEW mb \in Nat, Allocate(n, hs, mb) # <<>>,
         CeilDiv(mb, ChunkMB) + 4 <= ChunkMB
  PROVE  LeftOver(Allocate(n, hs, mb), mb) = 0
<1> DEFINE runs == Allocate(n, hs, mb)
<1>1. PICK C \in Nat \ {0} : C = ChunkMB
  BY DiskAssumption
<1>2. PICK chosen : \E k \in Nat :
        /\ chosen \subseteq Available(n, hs) /\ runs = Joined(chosen, n)
        /\ mb # 0 /\ k = CeilDiv(mb, ChunkMB)
        /\ \/ /\ Cardinality(chosen) = k
              /\ mb + 3 + Len(runs) <= k * ChunkMB
           \/ Cardinality(chosen) = k + 1
  BY AllocatedFacts
<1>3. PICK k \in Nat :
        /\ mb # 0 /\ k = CeilDiv(mb, ChunkMB)
        /\ \/ /\ Cardinality(chosen) = k
              /\ mb + 3 + Len(runs) <= k * ChunkMB
           \/ Cardinality(chosen) = k + 1
  BY <1>2
<1>4. chosen \subseteq Nat /\ IsFiniteSet(chosen)
  BY <1>2, AvailableFacts, FS_Subset
<1>5. PICK x \in Nat : x = k * C /\ mb <= x
  <2>1. mb <= k * C
    BY <1>1, <1>3, CeilDivFacts
  <2> QED BY <2>1, TimesNat
<1>6. k # 0
  BY <1>3, <1>5
<1>7. PICK s \in Nat : s = Cardinality(chosen) /\ (s = k \/ s = k + 1)
  BY <1>3
<1>8. /\ Len(runs) \in Nat /\ Len(runs) <= s /\ DOMAIN runs = 1 .. Len(runs)
      /\ \A j \in DOMAIN runs : runs[j] \in JoinedRuns(chosen, n)
      /\ \A c \in chosen : \E j \in DOMAIN runs : c \in Block(runs[j].start, runs[j].len)
  <2> HIDE DEF runs
  <2> QED BY <1>2, <1>4, <1>7, JoinedFacts
<1> HIDE DEF runs
<1>9. PICK L \in Nat : L = Len(runs)
  BY <1>8
<1>10. L # 0
  <2>1. chosen # {}
    BY <1>4, <1>6, <1>7, FS_EmptySet
  <2> QED BY <1>8, <1>9, <2>1
<1>11. \A j \in 1 .. Len(runs) : runs[j].start \in Nat /\ runs[j].len \in Nat
  BY <1>4, <1>8, RunFacts
<1>12. /\ IsFiniteSet(Covered(runs, L)) /\ Before(runs, L + 1) \in Int
       /\ Cardinality(Covered(runs, L)) * ChunkMB <= Before(runs, L + 1) + 3 + L
  <2>1. L \in 1 .. Len(runs)
    BY <1>9, <1>10
  <2> QED BY <1>8, <1>11, <2>1, CoveredHolds
<1>13. chosen \subseteq Covered(runs, L)
  BY <1>8, <1>9 DEF Covered
<1>14. PICK u \in Nat : u = Cardinality(Covered(runs, L)) /\ s <= u
  BY <1>7, <1>12, <1>13, FS_Subset, FS_CardinalityType
<1>15. PICK y \in Nat, z \in Nat : y = s * C /\ z = u * C /\ y <= z
  BY <1>14, TimesNat, TimesMonotone
<1>16. PICK b \in Int : b = Before(runs, L + 1) /\ z <= b + 3 + L
  BY <1>1, <1>12, <1>14, <1>15
<1>17. mb <= b
  <2>1. CASE s = k /\ mb + 3 + Len(runs) <= k * ChunkMB
    <3>1. mb + 3 + L <= x /\ y = x
      BY <1>1, <1>5, <1>9, <1>15, <2>1
    <3> HIDE <2>1
    <3>2. y <= b + 3 + L
      BY <1>15, <1>16
    <3> QED BY <3>1, <3>2
  <2>2. CASE s = k + 1
    <3>1. y = x + C
      <4>1. (k + 1) * C = k * C + C
        OBVIOUS
      <4> QED BY <1>5, <1>15, <2>2, <4>1
    <3>2. k + 4 <= C /\ L <= k + 1
      BY <1>1, <1>3, <1>8, <1>9, <2>2
    <3>3. y <= b + 3 + L
      BY <1>15, <1>16
    <3>4. mb <= x
      BY <1>5
    <3> QED BY <3>1, <3>2, <3>3, <3>4
  <2> QED BY <1>3, <1>7, <2>1, <2>2
<1>18. ~(b < mb)
  BY <1>17
<1>19. LeftOver(runs, mb) = 0
  BY <1>9, <1>16, <1>18 DEF LeftOver
<1> QED BY <1>19 DEF runs

-----------------------------------------------------------------------------
(* Every install.                                                          *)

LEMMA AllocatedShape ==
  ASSUME NEW n \in Nat, NEW hs, NEW mb \in Nat, Allocate(n, hs, mb) # <<>>
  PROVE  /\ Allocate(n, hs, mb) \in Seq([start : Nat, len : Nat])
         /\ Len(Allocate(n, hs, mb)) # 0
<1> DEFINE runs == Allocate(n, hs, mb)
<1>1. PICK chosen : chosen \subseteq Available(n, hs) /\ runs = Joined(chosen, n)
  BY AllocatedFacts
<1>2. chosen \subseteq Nat /\ IsFiniteSet(chosen)
  BY <1>1, AvailableFacts, FS_Subset
<1>3. runs # <<>>
  OBVIOUS
<1> HIDE DEF runs
<1>4. /\ Len(runs) \in Nat /\ runs = [k \in 1 .. Len(runs) |-> runs[k]]
      /\ \A k \in 1 .. Len(runs) : runs[k] \in JoinedRuns(chosen, n)
  BY <1>1, <1>2, JoinedFacts
<1>5. PICK m \in Nat : m = Len(runs)
  BY <1>4
<1>6. \A k \in 1 .. m : runs[k] \in [start : Nat, len : Nat]
  <2> SUFFICES ASSUME NEW k \in 1 .. m PROVE runs[k] \in [start : Nat, len : Nat]
    OBVIOUS
  <2>1. PICK r \in JoinedRuns(chosen, n) : r = runs[k]
    BY <1>4, <1>5
  <2>2. r = [start |-> r.start, len |-> r.len] /\ r.start \in Nat /\ r.len \in Nat
    BY <1>2, RunFacts
  <2> QED BY <2>1, <2>2
<1>7. runs \in [1 .. m -> [start : Nat, len : Nat]]
  BY <1>4, <1>5, <1>6
<1>8. runs \in Seq([start : Nat, len : Nat])
  BY <1>7, SeqDef
<1>9. m # 0
  BY <1>3, <1>5, <1>8
<1> QED BY <1>5, <1>8, <1>9 DEF runs

\* A main header names the runs it was made for.
LEMMA HeaderKeepsRuns ==
  ASSUME NEW runs \in Seq([start : Nat, len : Nat]), Len(runs) # 0, NEW id
  PROVE  RunsOf(NewHeader(id, runs, 1)) = runs
<1>1. /\ NewHeader(id, runs, 1).start = runs[1].start
      /\ NewHeader(id, runs, 1).len = runs[1].len
      /\ NewHeader(id, runs, 1).subs = SubSeq(runs, 2, Len(runs))
  BY DEF NewHeader
<1>2. runs[1] = [start |-> runs[1].start, len |-> runs[1].len]
  <2> DEFINE R == [start : Nat, len : Nat]
  <2>1. runs[1] \in R
    <3>1. runs \in Seq(R)
      OBVIOUS
    <3> HIDE DEF R
    <3> QED BY <3>1
  <2> QED BY <2>1
<1>3. <<runs[1]>> \o SubSeq(runs, 2, Len(runs)) = runs
  OBVIOUS
<1> QED BY <1>1, <1>2, <1>3 DEF RunsOf

\* The slices that are tried are those of the table, and their chunks are
\* counted right.
LEMMA SlicesTried ==
  ASSUME NEW t, t = TocRead(disk), t.ok, NEW hint \in {-1, 0, 1},
         NEW k \in DOMAIN SlicesToTry(t, hint)
  PROVE  /\ DOMAIN SlicesToTry(t, hint) \subseteq Nat
         /\ SlicesToTry(t, hint)[k] \in {0, 1}
         /\ SliceChunks(t.got, SlicesToTry(t, hint)[k]) \in Nat
         /\ Base(SlicesToTry(t, hint)[k]) + SliceChunks(t.got, SlicesToTry(t, hint)[k])
              <= Chunks
<1>1. t.got = GotSecondSlice(disk) /\ t.got \in BOOLEAN
  BY DEF TocRead, NoToc, GotSecondSlice
<1> DEFINE first == IF hint = 0 \/ (hint = 1 /\ t.got) THEN hint ELSE IF t.got THEN 1 ELSE 0
           tries == IF t.got THEN <<first, 1 - first>> ELSE <<first>>
<1>2. SlicesToTry(t, hint) = tries
  BY DEF SlicesToTry
<1>3. first \in {0, 1} /\ (~t.got => first = 0)
  OBVIOUS
<1> HIDE DEF first
<1>4. DOMAIN tries \subseteq Nat
  OBVIOUS
<1>5. k \in DOMAIN tries
  BY <1>2
<1>6. tries[k] \in {0, 1} /\ (~t.got => tries[k] = 0)
  BY <1>3, <1>5
<1> HIDE DEF tries
<1>7. /\ SliceChunks(t.got, tries[k]) \in Nat
      /\ Base(tries[k]) + SliceChunks(t.got, tries[k]) <= Chunks
  <2>1. t.got => Chunks > Slice2 \/ Chunks = Slice2
    BY <1>1, Zenon DEF GotSecondSlice
  <2>2. CASE ~t.got
    BY <1>6, <2>2, DiskAssumption DEF SliceChunks, Base
  <2>3. CASE t.got /\ tries[k] = 0
    BY <2>1, <2>3, DiskAssumption DEF SliceChunks, Base
  <2>4. CASE t.got /\ tries[k] = 1
    BY <2>1, <2>4, DiskAssumption DEF SliceChunks, Base
  <2> QED BY <1>6, <2>2, <2>3, <2>4
<1> QED BY <1>2, <1>4, <1>6, <1>7

\* An install that is not refused begins to copy to what was allocated for it
\* in one of the slices of the table.
LEMMA InstallFacts ==
  ASSUME NEW t, t = TocRead(disk), t.ok, NEW id, NEW name \in Names,
         NEW hint \in {-1, 0, 1}, Install(t, id, name, hint), ~Refuse
  PROVE  \E i \in {0, 1} : \E runs :
           /\ SliceChunks(t.got, i) \in Nat /\ runs = RunsIn(t, i, Size[name]) /\ runs # <<>>
           /\ Base(i) + SliceChunks(t.got, i) <= Chunks
           /\ runs \in Seq([start : Nat, len : Nat])
           /\ job'.op = "install" /\ job'.slice = i /\ job'.size = Size[name]
           /\ job'.name = name /\ job'.header.start = runs[1].start
           /\ Runs(job') = runs /\ todo' = PlanChunks(job')
<1> DEFINE tries == SlicesToTry(t, hint)
           fits == {k \in DOMAIN tries : RunsIn(t, tries[k], Size[name]) # <<>>}
<1>1. PICK i \in {tries[Lowest(fits)]} : \E runs \in {RunsIn(t, i, Size[name])} :
        /\ fits # {}
        /\ \E j \in {[op |-> "install", name |-> name, id |-> id, slice |-> i,
                      size |-> Size[name], header |-> NewHeader(id, runs, 1)]} :
             Begin([t EXCEPT !.slice[i] = WithNew(@, id, runs)], j, "copy", PlanChunks(j))
  BY DEF Install
<1>2. PICK runs : /\ runs = RunsIn(t, i, Size[name]) /\ fits # {}
                  /\ job' = [op |-> "install", name |-> name, id |-> id, slice |-> i,
                             size |-> Size[name], header |-> NewHeader(id, runs, 1)]
                  /\ todo' = PlanChunks(job')
  <2>1. PICK runs : /\ runs = RunsIn(t, i, Size[name]) /\ fits # {}
                    /\ \E j \in {[op |-> "install", name |-> name, id |-> id, slice |-> i,
                                  size |-> Size[name], header |-> NewHeader(id, runs, 1)]} :
                         job' = j /\ todo' = PlanChunks(j)
    <3> HIDE DEF fits
    <3> QED BY <1>1 DEF Begin
  <2> QED BY <2>1
<1>3. PICK k \in fits : k = Lowest(fits)
  <2>1. fits \subseteq Nat
    BY SlicesTried
  <2>2. \E m \in fits : \A y \in fits : m <= y
    <3> HIDE DEF fits
    <3> QED BY <1>2, <2>1, LeastOf
  <2> HIDE DEF fits
  <2> QED BY <2>2 DEF Lowest
<1>4. i = tries[k] /\ runs # <<>> /\ k \in DOMAIN tries
  BY <1>1, <1>2, <1>3
<1>5. /\ i \in {0, 1} /\ SliceChunks(t.got, i) \in Nat
      /\ Base(i) + SliceChunks(t.got, i) <= Chunks
  BY <1>4, SlicesTried
<1>6. runs \in Seq([start : Nat, len : Nat]) /\ Len(runs) # 0
  <2>1. Size[name] \in Nat
    BY CommandsAssumption
  <2> QED BY <1>2, <1>4, <1>5, <2>1, AllocatedShape DEF RunsIn
<1>7. Runs(job') = runs
  <2>1. job'.header = NewHeader(id, runs, 1)
    BY <1>2
  <2> QED BY <1>6, <2>1, HeaderKeepsRuns DEF Runs
<1>8. /\ job'.op = "install" /\ job'.slice = i /\ job'.size = Size[name]
      /\ job'.name = name /\ job'.header.start = runs[1].start
  BY <1>2 DEF NewHeader
<1> HIDE DEF fits, tries
<1> QED BY <1>2, <1>4, <1>5, <1>6, <1>7, <1>8

\* Images of at most ChunkMB - 4 chunks (15.5 GB on chunks of 128 MB, where a
\* dual-layer DVD has 8.5 GB).
SmallEnough == \A g \in Names : CeilDiv(Size[g], ChunkMB) + 4 <= ChunkMB

\* What hdl_inject asks inject_data to fill holds the image.
LEMMA InstallFits ==
  ASSUME SmallEnough, NEW t, t = TocRead(disk), t.ok, NEW id, NEW name \in Names,
         NEW hint \in {-1, 0, 1}, Install(t, id, name, hint)
  PROVE  ImageFits'
<1>1. CASE Refuse
  BY <1>1 DEF Refuse, End, NoJob, ImageFits
<1>2. CASE ~Refuse
  <2>1. PICK i \in {0, 1} : \E runs :
          /\ SliceChunks(t.got, i) \in Nat /\ runs = RunsIn(t, i, Size[name]) /\ runs # <<>>
          /\ job'.size = Size[name] /\ Runs(job') = runs
    BY <1>2, InstallFacts
  <2>2. PICK runs :
          /\ SliceChunks(t.got, i) \in Nat /\ runs = RunsIn(t, i, Size[name]) /\ runs # <<>>
          /\ job'.size = Size[name] /\ Runs(job') = runs
    BY <2>1
  <2>3. PICK mb \in Nat : mb = Size[name] /\ CeilDiv(mb, ChunkMB) + 4 <= ChunkMB
    BY CommandsAssumption DEF SmallEnough
  <2>4. LeftOver(runs, mb) = 0
    BY <2>2, <2>3, AllocFits DEF RunsIn
  <2> QED BY <2>2, <2>3, <2>4 DEF ImageFits
<1> QED BY <1>1, <1>2

\* No step of a command leaves an install whose space is too small.
LEMMA StepFits == SmallEnough /\ ImageFits /\ [Next]_vars => ImageFits'
<1> SUFFICES ASSUME SmallEnough, ImageFits, [Next]_vars PROVE ImageFits'
  OBVIOUS
<1>1. ASSUME job' = job PROVE ImageFits'
  BY <1>1 DEF ImageFits, Runs
<1>2. ASSUME job' = NoJob PROVE ImageFits'
  BY <1>2 DEF ImageFits, NoJob
<1>3. ASSUME GoCommit PROVE ImageFits'
  <2>1. job' = job \/ job' = NoJob
    BY <1>3 DEF GoCommit, End
  <2> QED BY <1>1, <1>2, <2>1
<1>4. CASE UNCHANGED vars
  BY <1>1, <1>4 DEF vars
<1>5. CASE InstallGame
  <2>1. PICK t : t = TocRead(disk) /\
          IF ~t.ok THEN Refuse
          ELSE \E name \in Names, prefix \in Prefixes, hint \in {-1, 0, 1} :
                 Install(t, Id(prefix, name), name, hint)
    BY <1>5 DEF InstallGame
  <2>2. CASE ~t.ok
    BY <1>2, <2>1, <2>2 DEF Refuse, End
  <2>3. CASE t.ok
    <3>1. PICK name \in Names, prefix \in Prefixes, hint \in {-1, 0, 1} :
            Install(t, Id(prefix, name), name, hint)
      BY <2>1, <2>3
    <3> QED BY <2>1, <2>3, <3>1, InstallFits
  <2> QED BY <2>2, <2>3
<1>6. CASE CopyChunk
  BY <1>1, <1>6 DEF CopyChunk
<1>7. CASE WriteMain
  <2>1. Refuse \/ GoCommit
    BY <1>7 DEF WriteMain
  <2> QED BY <1>2, <1>3, <2>1 DEF Refuse, End
<1>8. CASE ModifyGame
  <2>1. ASSUME NEW t, NEW at, NEW newName, NEW hide, Modify(t, at, newName, hide)
        PROVE  job' = NoJob \/ job'.op = "modify"
    <3>1. Refuse \/ \E u, a, title, oldId, oldTitle :
            Begin(u, [op |-> "modify", at |-> a, title |-> title,
                      oldId |-> oldId, oldTitle |-> oldTitle], "title", {a})
      BY <2>1, Zenon DEF Modify
    <3> QED BY <3>1 DEF Refuse, End, Begin
  <2>2. Refuse \/ \E t, at, newName, hide : Modify(t, at, newName, hide)
    BY <1>8 DEF ModifyGame
  <2>3. job' = NoJob \/ job'.op = "modify"
    BY <2>1, <2>2 DEF Refuse, End
  <2> QED BY <1>2, <2>3 DEF ImageFits
<1>9. CASE WriteTitle
  BY <1>3, <1>9 DEF WriteTitle
<1>10. CASE ModifyHeader
  <2>1. job' = NoJob \/ job'.op = "header"
    BY <1>10 DEF ModifyHeader, Refuse, End, Begin
  <2> QED BY <1>2, <2>1 DEF ImageFits
<1>11. CASE WriteAttributes \/ WriteGarbage
  BY <1>3, <1>11 DEF WriteAttributes, WriteGarbage
<1>12. CASE InjectMbr
  BY <1>2, <1>12 DEF InjectMbr, End
<1>13. CASE CommitHeader
  <2>1. job' = job \/ job' = NoJob
    BY <1>13 DEF CommitHeader, End
  <2> QED BY <1>1, <1>2, <2>1
<1>14. CASE Stop
  BY <1>2, <1>14 DEF Stop, Refuse, End
<1>15. CASE ConsoleDelete
  BY <1>1, <1>15 DEF ConsoleDelete
<1> QED BY <1>4, <1>5, <1>6, <1>7, <1>8, <1>9, <1>10, <1>11, <1>12, <1>13, <1>14, <1>15 DEF Next

\* The question of inject_data, "the game does not fit in the allocated
\* space... why?", is never asked of an image of an ordinary size: whatever is
\* on the disk, apa_allocate_space returns space for all of it or none.
THEOREM ImagesFit == SmallEnough => (Spec => []ImageFits)
<1> SUFFICES ASSUME SmallEnough PROVE Spec => []ImageFits
  OBVIOUS
<1>1. Init => ImageFits
  BY DEF Init, ImageFits, NoJob
<1>2. ImageFits /\ [Next]_vars => ImageFits'
  BY StepFits
<1> QED BY <1>1, <1>2, PTL DEF Spec

\* What HddGames keeps beside the commands adds no behaviour to them, so what
\* holds of the commands holds of the runs that keep it.
THEOREM RecordingAddsNothing == GamesSpec => Spec
<1>1. GamesInit => Init
  BY DEF GamesInit
<1>2. [GamesNext]_gamesVars => [Next]_vars
  BY DEF GamesNext, gamesVars
<1> QED BY <1>1, <1>2, PTL DEF GamesSpec, Spec

-----------------------------------------------------------------------------
(* Where an install copies to.                                             *)

\* The chunks of a stretch of the disk between two chunks are between them.
LEMMA TouchedBetween ==
  ASSUME NEW a \in Nat, NEW b \in Nat, NEW x \in Nat, NEW y \in Nat,
         a * ChunkMB <= x, y < b * ChunkMB
  PROVE  x \div ChunkMB .. y \div ChunkMB \subseteq a .. b - 1
<1>1. PICK C \in Nat \ {0} : C = ChunkMB
  BY DiskAssumption
<1>2. PICK q \in Nat, t \in 0 .. C - 1 : q = x \div C /\ x = q * C + t
  OBVIOUS
<1>3. PICK p \in Nat, u \in 0 .. C - 1 : p = y \div C /\ y = p * C + u
  OBVIOUS
<1>4. p < b
  <2>1. PICK v \in Nat, w \in Nat : v = p * C /\ w = b * C
    BY TimesNat
  <2>2. v < w
    BY <1>1, <1>3, <2>1
  <2> QED BY <2>1, <2>2, TimesCancel
<1>5. a <= q
  <2>1. PICK v \in Nat, w \in Nat : v = a * C /\ w = q * C
    BY TimesNat
  <2>2. v < w + C
    BY <1>1, <1>2, <2>1
  <2>3. (q + 1) * C = w + C
    BY <2>1
  <2>4. a * C < (q + 1) * C
    BY <2>1, <2>2, <2>3
  <2>5. a < q + 1
    BY <2>4, TimesCancel
  <2> QED BY <2>5
<1>6. q .. p \subseteq a .. b - 1
  BY <1>4, <1>5
<1> QED BY <1>1, <1>2, <1>3, <1>6

\* The image data of a run goes to the chunks of the run.
LEMMA ExtentInside ==
  ASSUME NEW runs, Len(runs) \in Nat,
         \A j \in 1 .. Len(runs) : runs[j].start \in Nat /\ runs[j].len \in Nat \ {0},
         NEW i \in {0, 1}, NEW k \in 1 .. Len(runs), NEW mb \in Nat, Before(runs, k) < mb
  PROVE  LET e == Extent(runs, i, k, mb)
         IN Touched(e.start, e.len) \subseteq {Base(i) + c : c \in Span(runs[k])}
<1>1. PICK a \in Nat : a = Base(i)
  BY DiskAssumption DEF Base
<1>2. PICK s \in Nat, l \in Nat \ {0} : s = runs[k].start /\ l = runs[k].len
  OBVIOUS
<1>3. PICK C \in Nat \ {0} : C = ChunkMB
  BY DiskAssumption
<1>4. PICK h \in Nat : h = HdrMB(k)
  BY DEF HdrMB, MainHdrMB, SubHdrMB
<1>5. PICK b \in Int : b = Before(runs, k) /\ b < mb
  <2>1. CASE k = 1
    BY <2>1, BeforeNext
  <2>2. CASE k # 1
    <3>1. PICK p \in 1 .. Len(runs) : k = p + 1
      <4>1. k - 1 \in 1 .. Len(runs) /\ k = k - 1 + 1
        BY <2>2
      <4> QED BY <4>1
    <3> QED BY <3>1, CoveredHolds
  <2> QED BY <2>1, <2>2
<1>6. PICK x \in Nat, y \in Nat : x = (a + s) * C /\ y = l * C /\ y # 0
  <2>1. (a + s) * C \in Nat /\ l * C \in Nat
    BY TimesNat
  <2>2. 1 * C <= l * C
    BY TimesMonotone
  <2> QED BY <2>1, <2>2
<1>7. PICK m \in Int : m = Least(mb - b, y - h)
  <2>1. mb - b \in Int /\ y - h \in Int
    OBVIOUS
  <2>2. Least(mb - b, y - h) \in {mb - b, y - h}
    BY DEF Least
  <2> QED BY <2>1, <2>2
<1>8. x + h + m - 1 \in Nat /\ x + h + m - 1 < x + y
  <2>1. m = mb - b \/ m = y - h
    BY <1>7 DEF Least
  <2>2. m <= y - h
    BY <1>5, <1>7 DEF Least
  <2>3. mb - b >= 1 /\ y >= 1
    BY <1>5, <1>6
  <2> QED BY <2>1, <2>2, <2>3
<1>9. PICK z \in Nat : z = x + h + m - 1
  BY <1>8
<1>10. Extent(runs, i, k, mb).start = x + h /\ Extent(runs, i, k, mb).len = m
  BY <1>1, <1>2, <1>3, <1>4, <1>5, <1>6, <1>7 DEF Extent
<1>11. Touched(x + h, m) = (x + h) \div C .. z \div C
  BY <1>3, <1>9 DEF Touched
<1>12. (x + h) \div C .. z \div C \subseteq a + s .. (a + s + l) - 1
  <2>1. (a + s + l) * C = x + y
    <3>1. (a + s + l) * C = (a + s) * C + l * C
      OBVIOUS
    <3> QED BY <1>6, <3>1
  <2>2. (a + s) * ChunkMB <= x + h /\ z < (a + s + l) * ChunkMB
    BY <1>3, <1>6, <1>8, <1>9, <2>1
  <2>3. x + h \in Nat /\ a + s \in Nat /\ a + s + l \in Nat
    OBVIOUS
  <2> QED BY <1>3, <2>2, <2>3, TouchedBetween
<1>13. ASSUME NEW c \in a + s .. (a + s + l) - 1 PROVE c \in {a + d : d \in s .. s + l - 1}
  <2>1. c - a \in s .. s + l - 1 /\ c = a + (c - a)
    OBVIOUS
  <2> QED BY <2>1
<1>14. Span(runs[k]) = s .. s + l - 1
  BY <1>2 DEF Span
<1> QED BY <1>1, <1>10, <1>11, <1>12, <1>13, <1>14

\* An install begins with chunks to copy to that are free.
LEMMA InstallFree ==
  ASSUME NEW t, t = TocRead(disk), t.ok, NEW id, NEW name \in Names,
         NEW hint \in {-1, 0, 1}, Install(t, id, name, hint), ~Refuse
  PROVE  todo' \subseteq Unused(t, job'.slice) /\ todo' \subseteq Nat
<1>1. PICK i \in {0, 1} : \E runs :
        /\ SliceChunks(t.got, i) \in Nat /\ runs = RunsIn(t, i, Size[name]) /\ runs # <<>>
        /\ runs \in Seq([start : Nat, len : Nat])
        /\ job'.slice = i /\ job'.size = Size[name]
        /\ Runs(job') = runs /\ todo' = PlanChunks(job')
  BY InstallFacts
<1>2. PICK runs :
        /\ SliceChunks(t.got, i) \in Nat /\ runs = RunsIn(t, i, Size[name]) /\ runs # <<>>
        /\ runs \in Seq([start : Nat, len : Nat])
        /\ job'.slice = i /\ job'.size = Size[name]
        /\ Runs(job') = runs /\ todo' = PlanChunks(job')
  BY <1>1
<1>3. PICK n \in Nat, mb \in Nat : n = SliceChunks(t.got, i) /\ mb = Size[name]
  BY <1>2, CommandsAssumption
<1> DEFINE hs == Headers(t.slice[i])
<1>4. runs = Allocate(n, hs, mb)
  BY <1>2, <1>3 DEF RunsIn
<1>5. Len(runs) \in Nat /\ DOMAIN runs = 1 .. Len(runs)
  BY <1>2
<1>6. \A k \in 1 .. Len(runs) :
        /\ runs[k].len \in Nat \ {0} /\ runs[k].start \in Nat
        /\ Span(runs[k]) \subseteq Available(n, hs)
  <2> SUFFICES ASSUME NEW k \in 1 .. Len(runs)
               PROVE  /\ runs[k].len \in Nat \ {0} /\ runs[k].start \in Nat
                      /\ Span(runs[k]) \subseteq Available(n, hs)
    OBVIOUS
  <2> DEFINE R == [start : Nat, len : Nat]
  <2>1. runs[k] \in R
    <3>1. runs \in Seq(R) /\ k \in 1 .. Len(runs)
      BY <1>2
    <3> HIDE DEF R
    <3> QED BY <3>1
  <2>2. k \in DOMAIN Allocate(n, hs, mb)
    BY <1>4, <1>5
  <2>3. runs[k].len \in 1 .. MaxRun(n) /\ Span(runs[k]) \subseteq Available(n, hs)
    <3> HIDE DEF hs
    <3> QED BY <1>4, <2>2, AllocatedRuns
  <2>4. MaxRun(n) \in Nat
    BY MaxRunNat
  <2> QED BY <2>1, <2>3, <2>4
<1>7. Available(n, hs) \subseteq {c \in 0 .. n - 1 : \A k \in DOMAIN t.slice[i] :
                                                  c \notin Span(t.slice[i][k].h)}
  BY DEF Available, Headers
<1>8. {Base(i) + c : c \in Available(n, hs)} \subseteq Unused(t, i)
  <2> HIDE DEF hs
  <2> QED BY <1>3, <1>7 DEF Unused
<1> HIDE DEF hs
<1>9. ASSUME NEW c \in todo' PROVE c \in {Base(i) + d : d \in Available(n, hs)}
  <2>1. PICK e \in Extents(runs, i, mb) : c \in Touched(e.start, e.len)
    BY <1>2, <1>3 DEF PlanChunks, Plan
  <2>2. PICK k \in DOMAIN runs : e = Extent(runs, i, k, mb) /\ Before(runs, k) < mb
    BY <2>1 DEF Extents
  <2>3. c \in {Base(i) + d : d \in Span(runs[k])}
    BY <1>5, <1>6, <2>1, <2>2, ExtentInside
  <2> QED BY <1>5, <1>6, <2>2, <2>3
<1>10. {Base(i) + d : d \in Available(n, hs)} \subseteq Nat
  <2>1. Base(i) \in Nat
    BY DiskAssumption DEF Base
  <2>2. Available(n, hs) \subseteq Nat
    BY AvailableFacts
  <2> QED BY <2>1, <2>2
<1> QED BY <1>2, <1>8, <1>9, <1>10

\* what is left to copy to: chunks
TodoChunks == phase = "copy" => todo \subseteq Nat

\* The step of an install that copies to a chunk.
LEMMA CopyChunkFree ==
  ASSUME TodoChunks, CopyChunk
  PROVE  /\ todo' \subseteq todo /\ TodoChunks'
         /\ \A c \in DOMAIN disk : disk'[c] # disk[c] => c \in todo
<1> DEFINE c == Lowest(todo)
<1>1. c \in todo
  <2>1. todo \subseteq Nat /\ todo # {}
    BY DEF CopyChunk, TodoChunks
  <2>2. \E m \in todo : \A k \in todo : m <= k
    BY <2>1, LeastOf
  <2> QED BY <2>2 DEF Lowest
<1>2. todo' = todo \ {c}
  BY DEF CopyChunk
<1>3. \E new : disk' = [disk EXCEPT ![c] = new]
  BY Zenon DEF CopyChunk
<1>4. \A d \in DOMAIN disk : d # c => disk'[d] = disk[d]
  <2> HIDE DEF c
  <2> QED BY <1>3
<1>5. todo \subseteq Nat
  BY DEF CopyChunk, TodoChunks
<1> HIDE DEF c
<1> QED BY <1>1, <1>2, <1>4, <1>5 DEF TodoChunks

\* How a step enters the copy of an install, and how it stays there.
LEMMA StepFree ==
  ASSUME TodoChunks, [Next]_vars
  PROVE  /\ TodoChunks'
         /\ phase = "idle" /\ phase' = "copy" =>
              todo' \subseteq Unused(TocRead(disk), job'.slice)
         /\ phase = "copy" /\ phase' = "copy" =>
              /\ todo' \subseteq todo
              /\ \A c \in DOMAIN disk : disk'[c] # disk[c] => c \in todo
<1> DEFINE Goal ==
      /\ TodoChunks'
      /\ phase = "idle" /\ phase' = "copy" =>
           todo' \subseteq Unused(TocRead(disk), job'.slice)
      /\ phase = "copy" /\ phase' = "copy" =>
           /\ todo' \subseteq todo
           /\ \A c \in DOMAIN disk : disk'[c] # disk[c] => c \in todo
<1> SUFFICES Goal
  OBVIOUS
<1> HIDE DEF Goal
<1>1. ASSUME phase' # "copy" PROVE Goal
  BY <1>1 DEF Goal, TodoChunks
<1>2. ASSUME phase' = phase, phase # "copy" PROVE Goal
  BY <1>2 DEF Goal, TodoChunks
<1>3. ASSUME GoCommit, phase # "copy" PROVE Goal
  <2>1. phase' = phase \/ phase' = "idle" \/ phase' = "commit"
    BY <1>3 DEF GoCommit, End
  <2> QED BY <1>1, <1>2, <1>3, <2>1
<1>4. CASE UNCHANGED vars
  BY <1>4 DEF vars, Goal, TodoChunks
<1>5. CASE InstallGame
  <2>1. PICK t : t = TocRead(disk) /\
          IF ~t.ok THEN Refuse
          ELSE \E name \in Names, prefix \in Prefixes, hint \in {-1, 0, 1} :
                 Install(t, Id(prefix, name), name, hint)
    BY <1>5 DEF InstallGame
  <2>2. CASE Refuse
    <3>1. phase' = "idle"
      BY <2>2 DEF Refuse, End
    <3> QED BY <1>1, <3>1
  <2>3. CASE ~Refuse
    <3>1. PICK name \in Names, prefix \in Prefixes, hint \in {-1, 0, 1} :
            Install(t, Id(prefix, name), name, hint) /\ t.ok
      BY <2>1, <2>3
    <3>2. todo' \subseteq Unused(t, job'.slice) /\ todo' \subseteq Nat
      BY <2>1, <2>3, <3>1, InstallFree
    <3>3. phase = "idle"
      BY <1>5 DEF InstallGame
    <3> QED BY <2>1, <3>2, <3>3 DEF Goal, TodoChunks
  <2> QED BY <2>2, <2>3
<1>6. CASE CopyChunk
  <2>1. phase = "copy"
    BY <1>6 DEF CopyChunk
  <2> QED BY <1>6, <2>1, CopyChunkFree DEF Goal
<1>7. CASE WriteMain
  <2>1. phase' = "commit" \/ phase' = "idle"
    BY <1>7 DEF WriteMain, GoCommit, Refuse, End
  <2> QED BY <1>1, <2>1
<1>8. CASE ModifyGame
  <2>1. phase' = "title" \/ phase' = "idle"
    <3>1. ASSUME NEW t, NEW at, NEW newName, NEW hide, Modify(t, at, newName, hide)
          PROVE  phase' = "title" \/ phase' = "idle"
      <4>1. Refuse \/ \E u, j, chunks : Begin(u, j, "title", chunks)
        BY <3>1, Zenon DEF Modify
      <4> QED BY <4>1 DEF Refuse, End, Begin
    <3>2. Refuse \/ \E t, at, newName, hide : Modify(t, at, newName, hide)
      BY <1>8 DEF ModifyGame
    <3> QED BY <3>1, <3>2 DEF Refuse, End
  <2> QED BY <1>1, <2>1
<1>9. CASE WriteTitle
  BY <1>3, <1>9 DEF WriteTitle
<1>10. CASE ModifyHeader
  <2>1. phase' = "attributes" \/ phase' = "idle"
    BY <1>10 DEF ModifyHeader, Refuse, End, Begin
  <2> QED BY <1>1, <2>1
<1>11. CASE WriteAttributes \/ WriteGarbage
  BY <1>3, <1>11 DEF WriteAttributes, WriteGarbage
<1>12. CASE InjectMbr \/ Stop
  <2>1. phase' = "idle"
    BY <1>12 DEF InjectMbr, Stop, Refuse, End
  <2> QED BY <1>1, <2>1
<1>13. CASE CommitHeader
  <2>1. phase = "commit" /\ (phase' = phase \/ phase' = "idle")
    BY <1>13 DEF CommitHeader, End
  <2> QED BY <1>1, <1>2, <2>1
<1>14. CASE ConsoleDelete
  <2>1. phase = "idle" /\ phase' = phase
    BY <1>14 DEF ConsoleDelete
  <2> QED BY <1>2, <2>1
<1> QED BY <1>4, <1>5, <1>6, <1>7, <1>8, <1>9, <1>10, <1>11, <1>12, <1>13, <1>14 DEF Next

\* The image goes only to chunks of the slice that were in no partition when
\* the install began: what inject_data writes before the new partition is
\* committed harms no game, on any disk that could be read.
THEOREM CopiesAreFree == Spec => CopiesToFreeSpace
<1>1. Init => TodoChunks
  BY DEF Init, TodoChunks
<1>2. TodoChunks /\ [Next]_vars => TodoChunks'
  BY StepFree
<1>3. TodoChunks /\ [Next]_vars =>
        [/\ phase = "idle" /\ phase' = "copy" =>
              todo' \subseteq Unused(TocRead(disk), job'.slice)
         /\ phase = "copy" /\ phase' = "copy" =>
              /\ todo' \subseteq todo
              /\ \A c \in DOMAIN disk : disk'[c] # disk[c] => c \in todo]_vars
  BY StepFree
<1> QED BY <1>1, <1>2, <1>3, PTL DEF Spec, CopiesToFreeSpace

-----------------------------------------------------------------------------
(* What is copied is where the allocation table says.                      *)

\* a run of chunks on the disk
Runlike(r) == r.start \in Nat /\ r.len \in Nat \ {0}

LEMMA BeforeInt ==
  ASSUME NEW runs, Len(runs) \in Nat, \A j \in 1 .. Len(runs) : Runlike(runs[j]),
         NEW k \in 1 .. Len(runs) + 1
  PROVE  Before(runs, k) \in Int
<1>1. CASE k = 1
  BY <1>1, BeforeNext
<1>2. CASE k # 1
  <2>1. PICK p \in 1 .. Len(runs) : k = p + 1
    <3>1. k - 1 \in 1 .. Len(runs) /\ k = k - 1 + 1
      BY <1>2
    <3> QED BY <3>1
  <2> QED BY <2>1, CoveredHolds DEF Runlike
<1> QED BY <1>1, <1>2

\* In a chunk there is room for more than the largest header: each run takes
\* a part of the image.
LEMMA RunTakes ==
  ASSUME ChunkMB > MainHdrMB, NEW runs, Len(runs) \in Nat,
         \A j \in 1 .. Len(runs) : Runlike(runs[j]), NEW k \in 1 .. Len(runs)
  PROVE  /\ runs[k].len * ChunkMB - HdrMB(k) \in Nat \ {0}
         /\ Before(runs, k + 1) = Before(runs, k) + (runs[k].len * ChunkMB - HdrMB(k))
         /\ Before(runs, k) < Before(runs, k + 1)
<1>1. PICK C \in Nat \ {0} : C = ChunkMB /\ C > 4
  BY DiskAssumption DEF MainHdrMB
<1>2. PICK h \in 1 .. 4 : h = HdrMB(k)
  BY DEF HdrMB, MainHdrMB, SubHdrMB
<1>3. PICK l \in Nat \ {0} : l = runs[k].len
  BY DEF Runlike
<1>4. PICK y \in Nat : y = l * C /\ C <= y
  <2>1. 1 * C <= l * C
    BY TimesMonotone
  <2> QED BY <2>1, TimesNat
<1>5. Before(runs, k + 1) = Before(runs, k) + y - h
  BY <1>1, <1>2, <1>3, <1>4, BeforeNext
<1>6. Before(runs, k) \in Int
  BY BeforeInt
<1>7. PICK w \in Nat \ {0} : w = y - h
  BY <1>1, <1>4
<1>8. runs[k].len * ChunkMB - HdrMB(k) = w
  BY <1>1, <1>2, <1>3, <1>4, <1>7
<1>9. Before(runs, k + 1) = Before(runs, k) + w /\ Before(runs, k) < Before(runs, k + 1)
  BY <1>2, <1>4, <1>5, <1>6, <1>7
<1> QED BY <1>8, <1>9

LEMMA BeforeRises ==
  ASSUME ChunkMB > MainHdrMB, NEW runs, Len(runs) \in Nat,
         \A j \in 1 .. Len(runs) : Runlike(runs[j]),
         NEW j \in 1 .. Len(runs) + 1, NEW k \in 1 .. Len(runs) + 1, j <= k
  PROVE  Before(runs, j) <= Before(runs, k)
<1> DEFINE Low == {m \in Nat : /\ m \in j .. Len(runs) + 1
                               /\ Before(runs, m) < Before(runs, j)}
<1>1. Low = {}
  <2> SUFFICES ASSUME Low # {} PROVE FALSE
    OBVIOUS
  <2>1. PICK m \in Low : \A x \in Low : m <= x
    <3>1. Low \subseteq Nat
      OBVIOUS
    <3> HIDE DEF Low
    <3> QED BY <3>1, LeastOf
  <2>2. /\ m \in Nat /\ j <= m /\ m <= Len(runs) + 1
        /\ Before(runs, m) < Before(runs, j)
    BY <2>1
  <2>3. Before(runs, j) \in Int
    BY BeforeInt
  <2>4. m # j
    BY <2>2, <2>3
  <2>5. PICK p \in 1 .. Len(runs) : m = p + 1 /\ j <= p
    <3>1. m - 1 \in 1 .. Len(runs) /\ m = m - 1 + 1 /\ j <= m - 1
      BY <2>2, <2>4
    <3> QED BY <3>1
  <2>6. Before(runs, p) < Before(runs, m) /\ Before(runs, p) \in Int /\ Before(runs, m) \in Int
    <3>1. p \in 1 .. Len(runs) + 1 /\ m \in 1 .. Len(runs) + 1
      BY <2>5
    <3> QED BY <2>5, <3>1, RunTakes, BeforeInt
  <2>7. p \in Low
    BY <2>2, <2>3, <2>5, <2>6
  <2> QED BY <2>1, <2>5, <2>7
<1>2. k \in Nat /\ k \in j .. Len(runs) + 1
  OBVIOUS
<1>3. ~(Before(runs, k) < Before(runs, j))
  BY <1>1, <1>2
<1>4. Before(runs, k) \in Int /\ Before(runs, j) \in Int
  BY BeforeInt
<1> QED BY <1>3, <1>4

\* the first u runs are used, each but the last of them to its end, and what
\* they get follows on each other
FilledTo(runs, i, mb, u) ==
  /\ {k \in 1 .. Len(runs) : Before(runs, k) < mb} = 1 .. u
  /\ \A k \in 1 .. u :
       LET end == IF k < u THEN Before(runs, k + 1) ELSE mb
           e   == Extent(runs, i, k, mb)
       IN e.len \in Nat \ {0} /\ Before(runs, k) + e.len = end

\* The loop of inject_data fills run after run.
LEMMA LaidOut ==
  ASSUME ChunkMB > MainHdrMB, NEW runs, Len(runs) \in Nat,
         \A j \in 1 .. Len(runs) : Runlike(runs[j]),
         NEW mb \in Nat \ {0}, LeftOver(runs, mb) = 0, NEW i
  PROVE  \E u \in 1 .. Len(runs) : FilledTo(runs, i, mb, u)
<1>1. PICK L \in Nat : L = Len(runs)
  OBVIOUS
<1>2. Before(runs, L + 1) \in Int /\ mb <= Before(runs, L + 1)
  <2>1. Before(runs, L + 1) \in Int
    BY <1>1, BeforeInt
  <2> QED BY <1>1, <2>1 DEF LeftOver
<1>3. L # 0
  BY <1>1, <1>2, BeforeNext
<1> DEFINE Full == {k \in Nat : k \in 1 .. L /\ mb <= Before(runs, k + 1)}
<1>4. PICK u \in Full : \A k \in Full : u <= k
  <2>1. L \in Full
    BY <1>2, <1>3
  <2>2. Full \subseteq Nat
    OBVIOUS
  <2> HIDE DEF Full
  <2> QED BY <2>1, <2>2, LeastOf
<1>5. u \in 1 .. L /\ mb <= Before(runs, u + 1)
  OBVIOUS
<1>6. \A k \in 1 .. L + 1 : Before(runs, k) \in Int
  BY <1>1, BeforeInt
<1>7. ASSUME NEW k \in 1 .. L PROVE Before(runs, k) < mb <=> k <= u
  <2>1. CASE k <= u /\ k = 1
    BY <2>1, BeforeNext
  <2>2. CASE k <= u /\ k # 1
    <3>1. PICK p \in 1 .. L : k = p + 1 /\ ~(u <= p)
      <4>1. k - 1 \in 1 .. L /\ k = k - 1 + 1 /\ ~(u <= k - 1)
        BY <1>5, <2>2
      <4> QED BY <4>1
    <3>2. p \notin Full
      BY <1>4, <3>1
    <3>3. ~(mb <= Before(runs, p + 1))
      BY <3>1, <3>2
    <3> QED BY <1>6, <2>2, <3>1, <3>3
  <2>3. CASE u < k
    <3>1. u + 1 \in 1 .. L + 1 /\ k \in 1 .. L + 1 /\ u + 1 <= k
      BY <1>5, <2>3
    <3>2. Before(runs, u + 1) <= Before(runs, k)
      BY <1>1, <3>1, BeforeRises
    <3> QED BY <1>5, <1>6, <2>3, <3>1, <3>2
  <2> QED BY <1>5, <2>1, <2>2, <2>3
<1>8. {k \in 1 .. Len(runs) : Before(runs, k) < mb} = 1 .. u
  BY <1>1, <1>5, <1>7
<1>9. ASSUME NEW k \in 1 .. u
      PROVE  LET end == IF k < u THEN Before(runs, k + 1) ELSE mb
                 e   == Extent(runs, i, k, mb)
             IN e.len \in Nat \ {0} /\ Before(runs, k) + e.len = end
  <2>1. k \in 1 .. Len(runs) /\ k \in 1 .. L /\ k + 1 \in 1 .. L + 1
    BY <1>1, <1>5
  <2>2. PICK w \in Nat \ {0} : w = runs[k].len * ChunkMB - HdrMB(k)
    BY <2>1, RunTakes
  <2>3. PICK b \in Int : b = Before(runs, k) /\ b < mb /\ Before(runs, k + 1) = b + w
    BY <1>6, <1>7, <2>1, <2>2, RunTakes
  <2>4. Extent(runs, i, k, mb).len = Least(mb - b, w)
    BY <2>2, <2>3 DEF Extent
  <2>5. CASE k < u
    <3>1. k + 1 \in 1 .. L /\ k + 1 <= u
      BY <1>5, <2>5
    <3>2. b + w < mb
      BY <1>7, <2>3, <3>1
    <3>3. Least(mb - b, w) = w
      BY <2>3, <3>2 DEF Least
    <3> QED BY <2>3, <2>4, <2>5, <3>3
  <2>6. CASE k = u
    <3>1. mb <= b + w
      BY <1>5, <2>3, <2>6
    <3>2. Least(mb - b, w) = mb - b
      BY <2>3, <3>1 DEF Least
    <3> QED BY <2>3, <2>4, <2>6, <3>2
  <2> QED BY <1>5, <2>5, <2>6
<1>10. FilledTo(runs, i, mb, u)
  BY <1>8, <1>9 DEF FilledTo
<1> QED BY <1>1, <1>5, <1>10

\* W[k] is the sum of the lengths before the k-th part
Sums(W, parts) == /\ W = [k \in 1 .. Len(parts) + 1 |-> W[k]]
                  /\ W[1] = 0
                  /\ \A k \in 1 .. Len(parts) : W[k + 1] = W[k] + parts[k].len

\* the same, as the recursive function of hdl_extract_ex
AddsUp(f, parts) == f = [k \in 1 .. Len(parts) + 1 |->
                           IF k = 1 THEN 0 ELSE f[k - 1] + parts[k - 1].len]

LEMMA OffsetsAre ==
  ASSUME NEW parts, Len(parts) \in Nat, NEW W, Sums(W, parts)
  PROVE  /\ AddsUp(W, parts)
         /\ \A f : AddsUp(f, parts) => \A k \in 1 .. Len(parts) + 1 : f[k] = W[k]
<1>0. /\ W = [k \in 1 .. Len(parts) + 1 |-> W[k]] /\ W[1] = 0
      /\ \A k \in 1 .. Len(parts) : W[k + 1] = W[k] + parts[k].len
  BY DEF Sums
<1>1. ASSUME NEW k \in 1 .. Len(parts) + 1
      PROVE  W[k] = IF k = 1 THEN 0 ELSE W[k - 1] + parts[k - 1].len
  <2>1. CASE k # 1
    <3>1. PICK p \in 1 .. Len(parts) : p = k - 1 /\ k = p + 1
      <4>1. k - 1 \in 1 .. Len(parts) /\ k = k - 1 + 1
        BY <2>1
      <4> QED BY <4>1
    <3> QED BY <1>0, <2>1, <3>1
  <2> QED BY <1>0, <2>1
<1>2. AddsUp(W, parts)
  <2> DEFINE E(k) == IF k = 1 THEN 0 ELSE W[k - 1] + parts[k - 1].len
  <2>1. \A k \in 1 .. Len(parts) + 1 : W[k] = E(k)
    BY <1>1
  <2>2. [k \in 1 .. Len(parts) + 1 |-> W[k]] = [k \in 1 .. Len(parts) + 1 |-> E(k)]
    <3> HIDE DEF E
    <3> QED BY <2>1
  <2> QED BY <1>0, <2>2 DEF AddsUp
<1> SUFFICES ASSUME NEW f, AddsUp(f, parts)
             PROVE  \A k \in 1 .. Len(parts) + 1 : f[k] = W[k]
  BY <1>2
<1> DEFINE Off == {k \in Nat : k \in 1 .. Len(parts) + 1 /\ f[k] # W[k]}
<1>4. Off = {}
  <2> SUFFICES ASSUME Off # {} PROVE FALSE
    OBVIOUS
  <2>1. PICK m \in Off : \A x \in Off : m <= x
    <3>1. Off \subseteq Nat
      OBVIOUS
    <3> HIDE DEF Off
    <3> QED BY <3>1, LeastOf
  <2>2. m \in 1 .. Len(parts) + 1 /\ f[m] # W[m]
    BY <2>1
  <2>3. f[m] = IF m = 1 THEN 0 ELSE f[m - 1] + parts[m - 1].len
    BY <2>2 DEF AddsUp
  <2>4. m # 1
    BY <1>0, <2>2, <2>3
  <2>5. PICK p \in 1 .. Len(parts) : p = m - 1 /\ m = p + 1
    <3>1. m - 1 \in 1 .. Len(parts) /\ m = m - 1 + 1
      BY <2>2, <2>4
    <3> QED BY <3>1
  <2>6. f[p] = W[p]
    <3>1. p \in Nat /\ p \in 1 .. Len(parts) + 1 /\ ~(m <= p)
      BY <2>5
    <3> QED BY <2>1, <3>1
  <2> QED BY <1>1, <2>2, <2>3, <2>4, <2>5, <2>6
<1>5. ASSUME NEW k \in 1 .. Len(parts) + 1 PROVE f[k] = W[k]
  <2>1. k \in Nat
    OBVIOUS
  <2>2. k \notin Off
    <3> HIDE DEF Off
    <3> QED BY <1>4
  <2> QED BY <2>1, <2>2
<1> QED BY <1>5

\* the parts are on the disk d, with the image called name in them
HoldsParts(d, parts, W, name) ==
  \A k \in 1 .. Len(parts) :
    /\ Touched(parts[k].start, parts[k].len) # {}
    /\ \A c \in Touched(parts[k].start, parts[k].len) :
         /\ c \in DOMAIN d
         /\ d[c].data = [image |-> name,
                         bias  |-> W[k] - (parts[k].start - c * ChunkMB)]

\* A table whose parts are where an image was put is extracted to that image.
LEMMA ExtractedIs ==
  ASSUME NEW d, NEW tab, tab # Junk, NEW parts, parts = tab.parts,
         Len(parts) \in Nat \ {0}, DOMAIN parts = 1 .. Len(parts),
         NEW W, Sums(W, parts), NEW name \in Names, Size[name] = W[Len(parts) + 1],
         HoldsParts(d, parts, W, name)
  PROVE  Extracted(d, tab, Size) = name
<1> DEFINE Offset == CHOOSE g : AddsUp(g, tab.parts)
           Holds(g, k) ==
             \A c \in Touched(tab.parts[k].start, tab.parts[k].len) :
               /\ c \in DOMAIN d
               /\ d[c].data = [image |-> g,
                               bias |-> Offset[k] - (tab.parts[k].start - c * ChunkMB)]
           Good == {g \in DOMAIN Size : /\ Offset[Len(tab.parts) + 1] = Size[g]
                                        /\ \A k \in DOMAIN tab.parts : Holds(g, k)}
<1>1. Extracted(d, tab, Size)
        = IF tab = Junk \/ Good = {} THEN "torn" ELSE CHOOSE g \in Good : TRUE
  BY DEF Extracted, AddsUp
<1>2. \A k \in 1 .. Len(parts) + 1 : Offset[k] = W[k]
  <2>1. Len(parts) \in Nat
    OBVIOUS
  <2>2. /\ AddsUp(W, parts)
        /\ \A f : AddsUp(f, parts) => \A k \in 1 .. Len(parts) + 1 : f[k] = W[k]
    BY <2>1, OffsetsAre
  <2>3. AddsUp(Offset, tab.parts)
    BY <2>2
  <2> HIDE DEF Offset
  <2> QED BY <2>2, <2>3
<1> HIDE DEF Offset
<1>3. Offset[Len(tab.parts) + 1] = W[Len(parts) + 1]
  <2>1. Len(parts) + 1 \in 1 .. Len(parts) + 1
    OBVIOUS
  <2> QED BY <1>2, <2>1
<1>4. ASSUME NEW k \in DOMAIN tab.parts PROVE Holds(name, k)
  <2>1. k \in 1 .. Len(parts) /\ k \in 1 .. Len(parts) + 1
    OBVIOUS
  <2>2. Offset[k] = W[k] /\ tab.parts[k] = parts[k]
    BY <1>2, <2>1
  <2> QED BY <2>1, <2>2 DEF HoldsParts
<1>5. DOMAIN Size = Names
  BY CommandsAssumption
<1>6. name \in Good
  <2> HIDE DEF Holds
  <2> QED BY <1>3, <1>4, <1>5
<1>7. ASSUME NEW g \in Good PROVE g = name
  <2>1. 1 \in DOMAIN tab.parts
    OBVIOUS
  <2>2. Holds(g, 1) /\ Holds(name, 1)
    <3> HIDE DEF Holds
    <3> QED BY <1>4, <2>1
  <2>3. PICK c : c \in Touched(tab.parts[1].start, tab.parts[1].len)
    BY <2>1 DEF HoldsParts
  <2>4. PICK b : b = Offset[1] - (tab.parts[1].start - c * ChunkMB)
    OBVIOUS
  <2>5. [image |-> g, bias |-> b] = [image |-> name, bias |-> b]
    BY <2>2, <2>3, <2>4
  <2> QED BY <2>5
<1>8. (CHOOSE g \in Good : TRUE) = name
  <2> HIDE DEF Good
  <2> QED BY <1>6, <1>7
<1>9. Good # {}
  <2> HIDE DEF Good
  <2> QED BY <1>6
<1> HIDE DEF Good
<1> QED BY <1>1, <1>8, <1>9

\* What an install has planned: to fill what was allocated for its image in a
\* slice of n chunks.
Planned(j) ==
  /\ j.name \in Names /\ j.size = Size[j.name] /\ j.slice \in {0, 1}
  /\ \E n \in Nat : \E hs : /\ Base(j.slice) + n <= Chunks
                            /\ Runs(j) = Allocate(n, hs, j.size) /\ Runs(j) # <<>>
  /\ j.header.start = Runs(j)[1].start

\* the chunks of the disk that a run of a slice has
ChunksOf(i, r) == {Base(i) + c : c \in Span(r)}

LEMMA PlannedRuns ==
  ASSUME NEW j, Planned(j)
  PROVE  LET runs == Runs(j) IN
         /\ j.size \in Nat
         /\ Len(runs) \in Nat \ {0} /\ DOMAIN runs = 1 .. Len(runs)
         /\ \A k \in 1 .. Len(runs) :
              Runlike(runs[k]) /\ ChunksOf(j.slice, runs[k]) \subseteq 0 .. Chunks - 1
         /\ \A k, m \in 1 .. Len(runs) :
              k # m => ChunksOf(j.slice, runs[k]) \cap ChunksOf(j.slice, runs[m]) = {}
<1> DEFINE runs == Runs(j)
<1>1. PICK mb \in Nat : mb = j.size
  BY CommandsAssumption DEF Planned
<1>2. PICK n \in Nat : \E hs : /\ Base(j.slice) + n <= Chunks
                               /\ runs = Allocate(n, hs, mb) /\ runs # <<>>
  BY <1>1 DEF Planned
<1>3. PICK hs : Base(j.slice) + n <= Chunks /\ runs = Allocate(n, hs, mb) /\ runs # <<>>
  BY <1>2
<1>4. PICK a \in Nat : a = Base(j.slice) /\ a + n <= Chunks
  BY <1>3, DiskAssumption DEF Planned, Base
<1> HIDE DEF runs
<1>5. runs \in Seq([start : Nat, len : Nat]) /\ Len(runs) # 0
  BY <1>3, AllocatedShape
<1>6. Len(runs) \in Nat \ {0} /\ DOMAIN runs = 1 .. Len(runs)
  BY <1>5
<1>7. \A k \in 1 .. Len(runs) :
        /\ runs[k].start \in Nat /\ runs[k].len \in Nat
        /\ runs[k].len \in 1 .. MaxRun(n) /\ Span(runs[k]) \subseteq 0 .. n - 1
        /\ \A m \in 1 .. Len(runs) : m # k => Span(runs[k]) \cap Span(runs[m]) = {}
  <2> SUFFICES ASSUME NEW k \in 1 .. Len(runs)
               PROVE  /\ runs[k].start \in Nat /\ runs[k].len \in Nat
                      /\ runs[k].len \in 1 .. MaxRun(n) /\ Span(runs[k]) \subseteq 0 .. n - 1
                      /\ \A m \in 1 .. Len(runs) :
                           m # k => Span(runs[k]) \cap Span(runs[m]) = {}
    OBVIOUS
  <2> DEFINE R == [start : Nat, len : Nat]
  <2>1. runs[k] \in R
    <3>1. runs \in Seq(R)
      BY <1>5
    <3> HIDE DEF R
    <3> QED BY <3>1
  <2>2. k \in DOMAIN Allocate(n, hs, mb)
    BY <1>3, <1>6
  <2> QED BY <1>3, <1>6, <2>1, <2>2, AllocatedRuns
<1>8. \A k \in 1 .. Len(runs) : Runlike(runs[k])
  BY <1>7, MaxRunNat DEF Runlike
<1>9. ASSUME NEW k \in 1 .. Len(runs)
      PROVE  ChunksOf(j.slice, runs[k]) \subseteq 0 .. Chunks - 1
  <2>1. Span(runs[k]) \subseteq 0 .. n - 1
    BY <1>7
  <2> QED BY <1>4, <2>1, DiskAssumption DEF ChunksOf
<1>10. ASSUME NEW k \in 1 .. Len(runs), NEW m \in 1 .. Len(runs), k # m
       PROVE  ChunksOf(j.slice, runs[k]) \cap ChunksOf(j.slice, runs[m]) = {}
  <2>1. /\ Span(runs[k]) \cap Span(runs[m]) = {}
        /\ Span(runs[k]) \subseteq 0 .. n - 1 /\ Span(runs[m]) \subseteq 0 .. n - 1
    BY <1>7, <1>10
  <2>2. \A x \in 0 .. n - 1 : \A y \in 0 .. n - 1 : a + x = a + y => x = y
    OBVIOUS
  <2> QED BY <1>4, <2>1, <2>2 DEF ChunksOf
<1> QED BY <1>1, <1>6, <1>8, <1>9, <1>10 DEF runs

\* What is copied for the k-th run stays in its chunks, which are chunks of
\* the disk.
LEMMA PlannedExtents ==
  ASSUME NEW j, Planned(j), NEW k \in 1 .. Len(Runs(j)), Before(Runs(j), k) < j.size
  PROVE  LET e == Extent(Runs(j), j.slice, k, j.size)
         IN Touched(e.start, e.len) \subseteq ChunksOf(j.slice, Runs(j)[k])
<1>1. PICK runs : runs = Runs(j)
  OBVIOUS
<1>2. j.size \in Nat /\ Len(runs) \in Nat /\ \A m \in 1 .. Len(runs) : Runlike(runs[m])
  BY <1>1, PlannedRuns
<1>3. j.slice \in {0, 1}
  BY DEF Planned
<1> QED BY <1>1, <1>2, <1>3, ExtentInside DEF Runlike, ChunksOf

LEMMA PlannedChunks ==
  ASSUME NEW j, Planned(j)
  PROVE  PlanChunks(j) \subseteq 0 .. Chunks - 1 /\ MainChunk(j) \in 0 .. Chunks - 1
<1>1. ASSUME NEW c \in PlanChunks(j) PROVE c \in 0 .. Chunks - 1
  <2>1. PICK e \in Extents(Runs(j), j.slice, j.size) : c \in Touched(e.start, e.len)
    BY DEF PlanChunks, Plan
  <2>2. PICK k \in DOMAIN Runs(j) : /\ e = Extent(Runs(j), j.slice, k, j.size)
                                    /\ Before(Runs(j), k) < j.size
    BY <2>1 DEF Extents
  <2>3. k \in 1 .. Len(Runs(j)) /\ ChunksOf(j.slice, Runs(j)[k]) \subseteq 0 .. Chunks - 1
    BY PlannedRuns
  <2> QED BY <2>1, <2>2, <2>3, PlannedExtents
<1>2. MainChunk(j) \in ChunksOf(j.slice, Runs(j)[1])
  <2>1. PICK r : r = Runs(j)[1]
    OBVIOUS
  <2>2. Runlike(r)
    <3>1. 1 \in 1 .. Len(Runs(j))
      BY PlannedRuns
    <3> QED BY <2>1, <3>1, PlannedRuns
  <2>3. j.header.start = r.start
    BY <2>1 DEF Planned
  <2>4. r.start \in Span(r)
    BY <2>2 DEF Runlike, Span
  <2> QED BY <2>1, <2>3, <2>4 DEF MainChunk, ChunksOf
<1>3. ChunksOf(j.slice, Runs(j)[1]) \subseteq 0 .. Chunks - 1
  <2>1. 1 \in 1 .. Len(Runs(j))
    BY PlannedRuns
  <2> QED BY <2>1, PlannedRuns
<1> QED BY <1>1, <1>2, <1>3

\* A stretch of the disk that is not empty is in some chunk.
LEMMA TouchedSome ==
  ASSUME NEW x \in Nat, NEW len \in Nat \ {0}
  PROVE  x \div ChunkMB \in Touched(x, len)
<1>1. PICK C \in Nat \ {0} : C = ChunkMB
  BY DiskAssumption
<1>2. PICK z \in Nat : z = x + len - 1 /\ x <= z
  <2>1. x + len - 1 \in Nat /\ x <= x + len - 1
    OBVIOUS
  <2> QED BY <2>1
<1>3. PICK q \in Nat, t \in 0 .. C - 1 : q = x \div C /\ x = q * C + t
  OBVIOUS
<1>4. PICK p \in Nat, v \in 0 .. C - 1 : p = z \div C /\ z = p * C + v
  OBVIOUS
<1>5. q <= p
  <2>1. PICK m \in Nat, w \in Nat : m = q * C /\ w = p * C
    BY TimesNat
  <2>2. m < w + C
    BY <1>2, <1>3, <1>4, <2>1
  <2>3. (p + 1) * C = w + C
    BY <2>1
  <2>4. q * C < (p + 1) * C
    BY <2>1, <2>2, <2>3
  <2>5. q < p + 1
    BY <2>4, TimesCancel
  <2> QED BY <2>5
<1>6. q \in q .. p
  BY <1>5
<1> QED BY <1>1, <1>2, <1>3, <1>4, <1>6 DEF Touched

\* A chunk that one run of a plan fills is filled from that run alone.
LEMMA PlannedData ==
  ASSUME NEW j, Planned(j), NEW k \in 1 .. Len(Runs(j)), Before(Runs(j), k) < j.size,
         NEW e, e = Extent(Runs(j), j.slice, k, j.size),
         NEW c, c \in Touched(e.start, e.len)
  PROVE  /\ c \in PlanChunks(j)
         /\ PlanData(j, c) = [image |-> j.name,
                              bias  |-> e.from - (e.start - c * ChunkMB)]
<1>1. DOMAIN Runs(j) = 1 .. Len(Runs(j))
  BY PlannedRuns
<1>2. e \in Plan(j)
  BY <1>1 DEF Plan, Extents
<1>3. ASSUME NEW f \in Plan(j), c \in Touched(f.start, f.len) PROVE f = e
  <2>1. PICK m \in 1 .. Len(Runs(j)) : /\ f = Extent(Runs(j), j.slice, m, j.size)
                                       /\ Before(Runs(j), m) < j.size
    BY <1>1 DEF Plan, Extents
  <2>2. c \in ChunksOf(j.slice, Runs(j)[m]) /\ c \in ChunksOf(j.slice, Runs(j)[k])
    BY <1>3, <2>1, PlannedExtents
  <2>3. k = m
    BY <2>2, PlannedRuns
  <2> QED BY <2>1, <2>3
<1>4. (CHOOSE f \in Plan(j) : c \in Touched(f.start, f.len)) = e
  BY <1>2, <1>3
<1> QED BY <1>2, <1>4 DEF PlanChunks, PlanData

\* With all its chunks copied, the table prepare_main writes for an install
\* gives its image back.
LEMMA PlanCopied ==
  ASSUME SmallEnough, NEW j, Planned(j), NEW d, DOMAIN d = 0 .. Chunks - 1,
         \A c \in PlanChunks(j) : d[c].data = PlanData(j, c)
  PROVE  Extracted(d, [title |-> j.name,
                       parts |-> AllocTable(Runs(j), j.slice, j.size)], Size) = j.name
<1>1. PICK runs, i, mb : runs = Runs(j) /\ i = j.slice /\ mb = j.size
  OBVIOUS
<1>2. j.name \in Names /\ mb = Size[j.name] /\ i \in {0, 1}
  BY <1>1 DEF Planned
<1>3. mb \in Nat
  BY <1>2, CommandsAssumption
<1>4. CeilDiv(mb, ChunkMB) + 4 <= ChunkMB
  BY <1>2 DEF SmallEnough
<1>5. LeftOver(runs, mb) = 0 /\ mb # 0
  <2>1. PICK n \in Nat : \E hs : runs = Allocate(n, hs, mb) /\ runs # <<>>
    BY <1>1 DEF Planned
  <2>2. PICK hs : runs = Allocate(n, hs, mb) /\ runs # <<>>
    BY <2>1
  <2>3. LeftOver(runs, mb) = 0
    BY <1>3, <1>4, <2>2, AllocFits
  <2>4. mb # 0
    BY <1>3, <2>2, AllocatedFacts
  <2> QED BY <2>3, <2>4
<1>6. ChunkMB > MainHdrMB
  <2>1. PICK C \in Nat \ {0} : C = ChunkMB
    BY DiskAssumption
  <2>2. CeilDiv(mb, C) \in Nat /\ mb <= CeilDiv(mb, C) * C
    BY <1>3, CeilDivFacts
  <2>3. CeilDiv(mb, C) # 0
    BY <1>3, <1>5, <2>2
  <2> QED BY <1>4, <2>1, <2>2, <2>3 DEF MainHdrMB
<1>7. /\ Len(runs) \in Nat /\ DOMAIN runs = 1 .. Len(runs)
      /\ \A k \in 1 .. Len(runs) : Runlike(runs[k])
  BY <1>1, PlannedRuns
<1>8. PICK u \in 1 .. Len(runs) :
        /\ {k \in 1 .. Len(runs) : Before(runs, k) < mb} = 1 .. u
        /\ \A k \in 1 .. u :
             LET end == IF k < u THEN Before(runs, k + 1) ELSE mb
                 e   == Extent(runs, i, k, mb)
             IN e.len \in Nat \ {0} /\ Before(runs, k) + e.len = end
  <2>1. mb \in Nat \ {0}
    BY <1>3, <1>5
  <2>2. PICK u \in 1 .. Len(runs) : FilledTo(runs, i, mb, u)
    BY <1>5, <1>6, <1>7, <2>1, LaidOut
  <2> QED BY <2>2 DEF FilledTo
<1>9. PICK parts : parts = [k \in 1 .. u |-> [start |-> Extent(runs, i, k, mb).start,
                                            len   |-> Extent(runs, i, k, mb).len]]
  OBVIOUS
<1>10. AllocTable(runs, i, mb) = parts
  <2>1. {k \in DOMAIN runs : Before(runs, k) < mb} = 1 .. u
    BY <1>7, <1>8
  <2>2. Cardinality(1 .. u) = u
    BY <1>7, <1>8, FS_Interval
  <2> QED BY <1>9, <2>1, <2>2 DEF AllocTable, Extent
<1>11. /\ Len(parts) = u /\ Len(parts) \in Nat \ {0} /\ DOMAIN parts = 1 .. Len(parts)
       /\ u \in Nat \ {0}
  BY <1>7, <1>9
<1>12. \A k \in 1 .. u : /\ parts[k].start = Extent(runs, i, k, mb).start
                         /\ parts[k].len = Extent(runs, i, k, mb).len
  BY <1>9
<1>13. PICK W : W = [k \in 1 .. u + 1 |-> IF k <= u THEN Before(runs, k) ELSE mb]
  OBVIOUS
<1>14. Sums(W, parts)
  <2>1. W = [k \in 1 .. Len(parts) + 1 |-> W[k]]
    BY <1>11, <1>13
  <2>2. W[1] = 0
    BY <1>7, <1>11, <1>13, BeforeNext
  <2>3. ASSUME NEW k \in 1 .. Len(parts) PROVE W[k + 1] = W[k] + parts[k].len
    <3>1. /\ k \in 1 .. u /\ k \in 1 .. u + 1 /\ k + 1 \in 1 .. u + 1 /\ k <= u
          /\ (k + 1 <= u <=> k < u)
      BY <1>11
    <3>2. W[k] = Before(runs, k) /\ W[k + 1] = IF k < u THEN Before(runs, k + 1) ELSE mb
      BY <1>13, <3>1
    <3> QED BY <1>8, <1>12, <3>1, <3>2
  <2> QED BY <2>1, <2>2, <2>3 DEF Sums
<1>15. Size[j.name] = W[Len(parts) + 1]
  <2>1. u + 1 \in 1 .. u + 1 /\ ~(u + 1 <= u)
    BY <1>11
  <2> QED BY <1>2, <1>11, <1>13, <2>1
<1>16. ASSUME NEW k \in 1 .. u
       PROVE  /\ Touched(parts[k].start, parts[k].len) # {}
              /\ \A c \in Touched(parts[k].start, parts[k].len) :
                   /\ c \in DOMAIN d
                   /\ d[c].data = [image |-> j.name,
                                   bias  |-> W[k] - (parts[k].start - c * ChunkMB)]
  <2>1. PICK e : e = Extent(runs, i, k, mb)
    OBVIOUS
  <2>2. k \in 1 .. Len(runs) /\ Before(runs, k) < mb
    BY <1>8
  <2>3. e.from = W[k]
    <3>1. k \in 1 .. u + 1 /\ k <= u
      BY <1>11
    <3> QED BY <1>13, <2>1, <3>1 DEF Extent
  <2>4. Touched(e.start, e.len) # {}
    <3>1. e.len \in Nat \ {0}
      BY <1>8, <2>1
    <3>2. PICK x \in Nat : x = e.start
      <4>1. PICK a \in Nat : a = Base(i)
        BY <1>2, DiskAssumption DEF Base
      <4>2. PICK s \in Nat : s = runs[k].start
        BY <1>7, <2>2 DEF Runlike
      <4>3. PICK y \in Nat : y = (a + s) * ChunkMB
        BY TimesNat, DiskAssumption
      <4>4. HdrMB(k) \in Nat
        BY DEF HdrMB, MainHdrMB, SubHdrMB
      <4>5. e.start = y + HdrMB(k)
        BY <2>1, <4>1, <4>2, <4>3 DEF Extent
      <4> QED BY <4>3, <4>4, <4>5
    <3> QED BY <3>1, <3>2, TouchedSome
  <2>5. ASSUME NEW c \in Touched(e.start, e.len)
        PROVE  /\ c \in DOMAIN d
               /\ d[c].data = [image |-> j.name,
                               bias  |-> W[k] - (e.start - c * ChunkMB)]
    <3>1. /\ c \in PlanChunks(j)
          /\ PlanData(j, c) = [image |-> j.name,
                               bias  |-> e.from - (e.start - c * ChunkMB)]
      BY <1>1, <2>1, <2>2, PlannedData
    <3> QED BY <2>3, <3>1, PlannedChunks
  <2> QED BY <1>12, <2>1, <2>4, <2>5
<1> DEFINE tab == [title |-> j.name, parts |-> parts]
<1>17. tab # Junk /\ parts = tab.parts
  BY DEF Junk
<1> HIDE DEF tab
<1>18. HoldsParts(d, parts, W, j.name)
  BY <1>11, <1>16 DEF HoldsParts
<1>19. Len(parts) \in Nat \ {0} /\ DOMAIN parts = 1 .. Len(parts) /\ j.name \in Names
  BY <1>2, <1>11
<1>20. Extracted(d, tab, Size) = j.name
  BY <1>14, <1>15, <1>17, <1>18, <1>19, ExtractedIs
<1> QED BY <1>1, <1>10, <1>20 DEF tab

\* the disk has its chunks, and each of them its three parts
DiskWhole == /\ DOMAIN disk = 0 .. Chunks - 1
             /\ \A c \in DOMAIN disk : DOMAIN disk[c] = {"hdr", "tab", "data"}

LEMMA StepWhole == DiskWhole /\ [Next]_vars => DiskWhole'
<1> SUFFICES ASSUME DiskWhole, [Next]_vars PROVE DiskWhole'
  OBVIOUS
<1>1. ASSUME disk' = disk PROVE DiskWhole'
  BY <1>1 DEF DiskWhole
<1>2. ASSUME NEW c, NEW new, disk' = [disk EXCEPT ![c] = new],
             c \in DOMAIN disk => DOMAIN new = {"hdr", "tab", "data"}
      PROVE  DiskWhole'
  BY <1>2 DEF DiskWhole
<1>3. ASSUME NEW c, NEW v, disk' = [disk EXCEPT ![c].hdr = v] PROVE DiskWhole'
  <2>1. disk' = [disk EXCEPT ![c] = [disk[c] EXCEPT !.hdr = v]]
    BY <1>3
  <2>2. c \in DOMAIN disk => DOMAIN [disk[c] EXCEPT !.hdr = v] = {"hdr", "tab", "data"}
    BY DEF DiskWhole
  <2> QED BY <1>2, <2>1, <2>2
<1>4. CASE UNCHANGED vars
  BY <1>1, <1>4 DEF vars
<1>5. CASE InstallGame
  <2>1. Refuse \/ \E t, id, name, hint : Install(t, id, name, hint)
    BY <1>5 DEF InstallGame
  <2>2. ASSUME NEW t, NEW id, NEW name, NEW hint, Install(t, id, name, hint)
        PROVE  disk' = disk
    <3>1. Refuse \/ \E u, j, chunks : Begin(u, j, "copy", chunks)
      BY <2>2, Zenon DEF Install
    <3> QED BY <3>1 DEF Refuse, Begin
  <2> QED BY <1>1, <2>1, <2>2 DEF Refuse
<1>6. CASE CopyChunk
  <2>1. PICK c, h, t, a : disk' = [disk EXCEPT ![c] = [hdr |-> h, tab |-> t, data |-> a]]
    <3> DEFINE c == Lowest(todo)
    <3>1. disk' = [disk EXCEPT ![c] =
                     [hdr  |-> IF c \in Heads(job) THEN disk[c].hdr ELSE Junk,
                      tab  |-> IF c = MainChunk(job) THEN disk[c].tab ELSE Junk,
                      data |-> PlanData(job, c)]]
      BY <1>6 DEF CopyChunk
    <3> HIDE DEF c
    <3> QED BY <3>1
  <2>2. DOMAIN [hdr |-> h, tab |-> t, data |-> a] = {"hdr", "tab", "data"}
    OBVIOUS
  <2> QED BY <1>2, <2>1, <2>2
<1>7. CASE WriteMain
  <2>1. CASE Refuse
    BY <1>1, <2>1 DEF Refuse
  <2>2. CASE ~Refuse
    <3>1. PICK c, v, w : disk' = [disk EXCEPT ![c].hdr = v, ![c].tab = w]
      BY <1>7, <2>2 DEF WriteMain
    <3>2. PICK mid : mid = [disk EXCEPT ![c].hdr = v]
      OBVIOUS
    <3>3. disk' = [mid EXCEPT ![c].tab = w]
      BY <3>1, <3>2
    <3>4. /\ DOMAIN mid = 0 .. Chunks - 1
          /\ \A b \in DOMAIN mid : DOMAIN mid[b] = {"hdr", "tab", "data"}
      BY <3>2 DEF DiskWhole
    <3> QED BY <3>3, <3>4 DEF DiskWhole
  <2> QED BY <2>1, <2>2
<1>8. CASE ModifyGame
  <2>1. Refuse \/ \E t, at, newName, hide : Modify(t, at, newName, hide)
    BY <1>8 DEF ModifyGame
  <2>2. ASSUME NEW t, NEW at, NEW newName, NEW hide, Modify(t, at, newName, hide)
        PROVE  disk' = disk
    <3>1. Refuse \/ \E u, j, chunks : Begin(u, j, "title", chunks)
      BY <2>2, Zenon DEF Modify
    <3> QED BY <3>1 DEF Refuse, Begin
  <2> QED BY <1>1, <2>1, <2>2 DEF Refuse
<1>9. CASE WriteTitle
  <2>1. PICK c, v : disk' = disk \/ disk' = [disk EXCEPT ![c].tab.title = v]
    BY <1>9 DEF WriteTitle
  <2>2. CASE disk' = [disk EXCEPT ![c].tab.title = v]
    <3>1. PICK w : w = [disk[c].tab EXCEPT !.title = v]
      OBVIOUS
    <3>2. disk' = [disk EXCEPT ![c] = [disk[c] EXCEPT !.tab = w]]
      BY <2>2, <3>1
    <3>3. c \in DOMAIN disk => DOMAIN [disk[c] EXCEPT !.tab = w] = {"hdr", "tab", "data"}
      BY DEF DiskWhole
    <3> QED BY <1>2, <3>2, <3>3
  <2> QED BY <1>1, <2>1, <2>2
<1>10. CASE ModifyHeader
  <2>1. disk' = disk
    BY <1>10 DEF ModifyHeader, Refuse, Begin
  <2> QED BY <1>1, <2>1
<1>11. CASE WriteAttributes
  BY <1>1, <1>11 DEF WriteAttributes
<1>12. CASE WriteGarbage
  <2>1. PICK c : disk' = [disk EXCEPT ![c] = [hdr |-> Junk, tab |-> Junk, data |-> NoData]]
    BY <1>12 DEF WriteGarbage
  <2>2. DOMAIN [hdr |-> Junk, tab |-> Junk, data |-> NoData] = {"hdr", "tab", "data"}
    OBVIOUS
  <2> QED BY <1>2, <2>1, <2>2
<1>13. CASE InjectMbr
  <2>1. PICK v : disk' = [disk EXCEPT ![0].hdr = v]
    BY <1>13, Zenon DEF InjectMbr
  <2> QED BY <1>3, <2>1
<1>14. CASE CommitHeader
  <2>1. PICK c, v : disk' = [disk EXCEPT ![c].hdr = v]
    BY <1>14, Zenon DEF CommitHeader
  <2> QED BY <1>3, <2>1
<1>15. CASE Stop
  BY <1>1, <1>15 DEF Stop, Refuse
<1>16. CASE ConsoleDelete
  <2>1. PICK heads :
          disk' = [c \in DOMAIN disk |->
                     IF c \in heads
                     THEN [disk[c] EXCEPT !.hdr.id = EmptyId, !.hdr.main = 0,
                                          !.hdr.subs = <<>>]
                     ELSE disk[c]]
    BY <1>16 DEF ConsoleDelete
  <2>2. \A c \in DOMAIN disk : DOMAIN disk'[c] = DOMAIN disk[c]
    BY <2>1
  <2>3. DOMAIN disk' = DOMAIN disk
    BY <2>1
  <2> QED BY <2>2, <2>3 DEF DiskWhole
<1> QED BY <1>4, <1>5, <1>6, <1>7, <1>8, <1>9, <1>10, <1>11, <1>12, <1>13, <1>14, <1>15,
           <1>16 DEF Next

\* the table prepare_main writes for an install
TableOf(j) == [title |-> j.name, parts |-> AllocTable(Runs(j), j.slice, j.size)]

\* An install keeps to its plan: what is not left to do is done, and when the
\* copy is over the disk has all of it and the table with it.
KeepsToPlan ==
  /\ phase = "copy" => job.op = "install"
  /\ phase \in {"title", "attributes"} => job.op # "install"
  /\ job.op = "install" => Planned(job)
  /\ phase = "copy" =>
       /\ todo \subseteq PlanChunks(job)
       /\ \A c \in PlanChunks(job) \ todo : disk[c].data = PlanData(job, c)
  /\ phase = "commit" /\ job.op = "install" =>
       /\ \A c \in PlanChunks(job) : disk[c].data = PlanData(job, c)
       /\ disk[MainChunk(job)].tab = TableOf(job)

CopyInv == DiskWhole /\ KeepsToPlan

\* How an install begins.
LEMMA InstallPlanned ==
  ASSUME NEW t, t = TocRead(disk), t.ok, NEW id, NEW name \in Names,
         NEW hint \in {-1, 0, 1}, Install(t, id, name, hint), ~Refuse
  PROVE  phase' = "copy" /\ job'.op = "install" /\ Planned(job') /\ todo' = PlanChunks(job')
<1>1. PICK i \in {0, 1} : \E runs :
        /\ SliceChunks(t.got, i) \in Nat /\ runs = RunsIn(t, i, Size[name]) /\ runs # <<>>
        /\ Base(i) + SliceChunks(t.got, i) <= Chunks
        /\ job'.op = "install" /\ job'.slice = i /\ job'.size = Size[name]
        /\ job'.name = name /\ job'.header.start = runs[1].start
        /\ Runs(job') = runs /\ todo' = PlanChunks(job')
  BY InstallFacts
<1>2. PICK runs :
        /\ SliceChunks(t.got, i) \in Nat /\ runs = RunsIn(t, i, Size[name]) /\ runs # <<>>
        /\ Base(i) + SliceChunks(t.got, i) <= Chunks
        /\ job'.op = "install" /\ job'.slice = i /\ job'.size = Size[name]
        /\ job'.name = name /\ job'.header.start = runs[1].start
        /\ Runs(job') = runs /\ todo' = PlanChunks(job')
  BY <1>1
<1>3. PICK n, hs : /\ n \in Nat /\ n = SliceChunks(t.got, i)
                   /\ hs = Headers(t.slice[i])
  BY <1>2
<1>4. runs = Allocate(n, hs, Size[name])
  BY <1>2, <1>3 DEF RunsIn
<1>5. Planned(job')
  <2>1. Base(job'.slice) + n <= Chunks
        /\ Runs(job') = Allocate(n, hs, job'.size) /\ Runs(job') # <<>>
    BY <1>2, <1>3, <1>4
  <2> QED BY <1>2, <1>3, <2>1 DEF Planned
<1>6. phase' = "copy"
  <2>1. \E u, j, chunks : Begin(u, j, "copy", chunks)
    BY Zenon DEF Install
  <2> QED BY <2>1 DEF Begin
<1> QED BY <1>2, <1>5, <1>6

\* How its copy goes on.
LEMMA CopyChunkPlanned ==
  ASSUME CopyInv, CopyChunk
  PROVE  KeepsToPlan'
<1> DEFINE c == Lowest(todo)
<1>1. Planned(job) /\ phase = "copy" /\ job.op = "install" /\ todo # {}
  BY DEF CopyInv, KeepsToPlan, CopyChunk
<1>2. PlanChunks(job) \subseteq 0 .. Chunks - 1
  BY <1>1, PlannedChunks
<1>3. todo \subseteq PlanChunks(job)
  BY <1>1 DEF CopyInv, KeepsToPlan
<1>4. c \in todo
  <2>1. todo \subseteq Nat
    BY <1>2, <1>3
  <2>2. \E m \in todo : \A k \in todo : m <= k
    BY <1>1, <2>1, LeastOf
  <2> QED BY <2>2 DEF Lowest
<1>5. PICK h, t : disk' = [disk EXCEPT ![c] = [hdr |-> h, tab |-> t,
                                               data |-> PlanData(job, c)]]
  <2>1. disk' = [disk EXCEPT ![c] =
                   [hdr  |-> IF c \in Heads(job) THEN disk[c].hdr ELSE Junk,
                    tab  |-> IF c = MainChunk(job) THEN disk[c].tab ELSE Junk,
                    data |-> PlanData(job, c)]]
    BY DEF CopyChunk
  <2> HIDE DEF c
  <2> QED BY <2>1
<1>6. todo' = todo \ {c} /\ phase' = phase /\ job' = job
  BY DEF CopyChunk
<1> HIDE DEF c
<1>7. c \in DOMAIN disk
  BY <1>2, <1>3, <1>4 DEF CopyInv, DiskWhole
<1>8. PlanChunks(job)' = PlanChunks(job) /\ \A b : PlanData(job, b)' = PlanData(job, b)
  BY <1>6 DEF PlanChunks, PlanData, Plan, Runs
<1>9. ASSUME NEW b \in PlanChunks(job), b \notin todo' PROVE disk'[b].data = PlanData(job, b)
  <2>1. b \in DOMAIN disk
    BY <1>2 DEF CopyInv, DiskWhole
  <2>2. CASE b = c
    BY <1>5, <1>7, <2>2
  <2>3. CASE b # c
    <3>1. b \notin todo
      BY <1>6, <1>9, <2>3
    <3>2. disk[b].data = PlanData(job, b)
      BY <1>1, <3>1 DEF CopyInv, KeepsToPlan
    <3> QED BY <1>5, <2>1, <2>3, <3>2
  <2> QED BY <2>2, <2>3
<1>10. todo' \subseteq PlanChunks(job)
  BY <1>3, <1>6
<1>11. Planned(job)'
  BY <1>1, <1>6 DEF Planned, Runs
<1> QED BY <1>1, <1>6, <1>8, <1>9, <1>10, <1>11 DEF KeepsToPlan

\* The step that ends it.
LEMMA WriteMainPlanned ==
  ASSUME CopyInv, WriteMain
  PROVE  KeepsToPlan'
<1>1. CASE Refuse
  BY <1>1 DEF Refuse, End, NoJob, KeepsToPlan
<1>2. CASE ~Refuse
  <2>1. /\ Planned(job) /\ phase = "copy" /\ job.op = "install" /\ todo = {}
        /\ \A c \in PlanChunks(job) : disk[c].data = PlanData(job, c)
    BY DEF WriteMain, CopyInv, KeepsToPlan
  <2>2. GoCommit /\ \E v : disk' = [disk EXCEPT ![MainChunk(job)].hdr = v,
                                               ![MainChunk(job)].tab = TableOf(job)]
    BY <1>2 DEF WriteMain, TableOf
  <2>3. PICK v : disk' = [disk EXCEPT ![MainChunk(job)].hdr = v,
                                      ![MainChunk(job)].tab = TableOf(job)]
    BY <2>2
  <2>4. PICK m, w : m = MainChunk(job) /\ w = TableOf(job)
    OBVIOUS
  <2>5. PICK mid : mid = [disk EXCEPT ![m].hdr = v]
    OBVIOUS
  <2>6. disk' = [mid EXCEPT ![m].tab = w]
    BY <2>3, <2>4, <2>5
  <2>7. m \in DOMAIN disk
    BY <2>1, <2>4, PlannedChunks DEF CopyInv, DiskWhole
  <2>8. \A c \in DOMAIN disk : DOMAIN disk[c] = {"hdr", "tab", "data"}
    BY DEF CopyInv, DiskWhole
  <2>9. \A c \in DOMAIN disk : mid[c].data = disk[c].data /\ DOMAIN mid[c] = {"hdr", "tab", "data"}
    BY <2>5, <2>8
  <2>10. DOMAIN mid = DOMAIN disk
    BY <2>5
  <2>11. disk'[m].tab = w /\ \A c \in DOMAIN disk : disk'[c].data = disk[c].data
    BY <2>6, <2>7, <2>9, <2>10
  <2>12. \A c \in PlanChunks(job) : disk'[c].data = PlanData(job, c)
    BY <2>1, <2>11, PlannedChunks DEF CopyInv, DiskWhole
  <2>13. CASE phase' = "commit" /\ job' = job
    <3>1. /\ PlanChunks(job)' = PlanChunks(job)
          /\ \A c : PlanData(job, c)' = PlanData(job, c)
          /\ MainChunk(job)' = MainChunk(job) /\ TableOf(job)' = TableOf(job)
      BY <2>13 DEF PlanChunks, PlanData, Plan, Runs, MainChunk, TableOf
    <3>2. Planned(job)'
      BY <2>1, <2>13 DEF Planned, Runs
    <3> QED BY <2>1, <2>4, <2>11, <2>12, <2>13, <3>1, <3>2 DEF KeepsToPlan
  <2>14. CASE phase' = "idle" /\ job' = NoJob
    BY <2>14 DEF NoJob, KeepsToPlan
  <2>15. (phase' = "commit" /\ job' = job) \/ (phase' = "idle" /\ job' = NoJob)
    BY <2>2 DEF GoCommit, End
  <2> QED BY <2>13, <2>14, <2>15
<1> QED BY <1>1, <1>2

\* After that only headers are written.
LEMMA CommitHeaderPlanned ==
  ASSUME CopyInv, CommitHeader
  PROVE  KeepsToPlan'
<1>1. CASE phase' = "idle" /\ job' = NoJob
  BY <1>1 DEF NoJob, KeepsToPlan
<1>2. CASE phase' = "commit" /\ job' = job
  <2>1. phase = "commit"
    BY DEF CommitHeader
  <2>2. CASE job.op # "install"
    BY <1>2, <2>2 DEF KeepsToPlan
  <2>3. CASE job.op = "install"
    <3>1. /\ Planned(job) /\ disk[MainChunk(job)].tab = TableOf(job)
          /\ \A c \in PlanChunks(job) : disk[c].data = PlanData(job, c)
      BY <2>1, <2>3 DEF CopyInv, KeepsToPlan
    <3>2. PICK b, v : disk' = [disk EXCEPT ![b].hdr = v]
      BY Zenon DEF CommitHeader
    <3>3. \A c \in DOMAIN disk : DOMAIN disk[c] = {"hdr", "tab", "data"}
      BY DEF CopyInv, DiskWhole
    <3>4. \A c \in DOMAIN disk : disk'[c].data = disk[c].data /\ disk'[c].tab = disk[c].tab
      BY <3>2, <3>3
    <3>5. PlanChunks(job) \subseteq DOMAIN disk /\ MainChunk(job) \in DOMAIN disk
      BY <3>1, PlannedChunks DEF CopyInv, DiskWhole
    <3>6. /\ PlanChunks(job)' = PlanChunks(job)
          /\ \A c : PlanData(job, c)' = PlanData(job, c)
          /\ MainChunk(job)' = MainChunk(job) /\ TableOf(job)' = TableOf(job)
      BY <1>2 DEF PlanChunks, PlanData, Plan, Runs, MainChunk, TableOf
    <3>7. Planned(job)'
      BY <1>2, <3>1 DEF Planned, Runs
    <3> QED BY <1>2, <3>1, <3>4, <3>5, <3>6, <3>7 DEF KeepsToPlan
  <2> QED BY <2>2, <2>3
<1>3. (phase' = "commit" /\ job' = job) \/ (phase' = "idle" /\ job' = NoJob)
  BY DEF CommitHeader, End
<1> QED BY <1>1, <1>2, <1>3

LEMMA StepPlanned == CopyInv /\ [Next]_vars => KeepsToPlan'
<1> SUFFICES ASSUME CopyInv, [Next]_vars PROVE KeepsToPlan'
  OBVIOUS
<1>1. ASSUME job'.op # "install", phase' # "copy" PROVE KeepsToPlan'
  BY <1>1 DEF KeepsToPlan
<1>2. ASSUME phase' = "idle", job' = NoJob PROVE KeepsToPlan'
  BY <1>1, <1>2 DEF NoJob
<1>3. ASSUME phase' = phase, job' = job, todo' = todo, disk' = disk PROVE KeepsToPlan'
  BY <1>3 DEF CopyInv, KeepsToPlan, Planned, PlanChunks, PlanData, Plan, Runs, MainChunk, TableOf
<1>4. ASSUME GoCommit, phase \in {"title", "attributes"} PROVE KeepsToPlan'
  <2>1. job.op # "install"
    BY <1>4 DEF CopyInv, KeepsToPlan
  <2>2. (phase' = "idle" /\ job' = NoJob) \/ (phase' = "commit" /\ job' = job)
    BY <1>4 DEF GoCommit, End
  <2> QED BY <1>1, <1>2, <2>1, <2>2
<1>5. CASE UNCHANGED vars
  BY <1>3, <1>5 DEF vars
<1>6. CASE InstallGame
  <2>1. PICK t : t = TocRead(disk) /\
          IF ~t.ok THEN Refuse
          ELSE \E name \in Names, prefix \in Prefixes, hint \in {-1, 0, 1} :
                 Install(t, Id(prefix, name), name, hint)
    BY <1>6 DEF InstallGame
  <2>2. CASE Refuse
    BY <1>2, <2>2 DEF Refuse, End
  <2>3. CASE ~Refuse
    <3>1. PICK name \in Names, prefix \in Prefixes, hint \in {-1, 0, 1} :
            Install(t, Id(prefix, name), name, hint) /\ t.ok
      BY <2>1, <2>3
    <3>2. /\ phase' = "copy" /\ job'.op = "install" /\ Planned(job')
          /\ todo' = PlanChunks(job')
      BY <2>1, <2>3, <3>1, InstallPlanned
    <3> QED BY <3>2 DEF KeepsToPlan, Planned, PlanChunks, Plan, Runs
  <2> QED BY <2>2, <2>3
<1>7. CASE CopyChunk
  BY <1>7, CopyChunkPlanned
<1>8. CASE WriteMain
  BY <1>8, WriteMainPlanned
<1>9. CASE ModifyGame
  <2>1. ASSUME NEW t, NEW at, NEW newName, NEW hide, Modify(t, at, newName, hide), ~Refuse
        PROVE  job'.op = "modify" /\ phase' = "title"
    <3>1. \E u, chunks, c, title, id, old :
            Begin(u, [op |-> "modify", at |-> c, title |-> title, oldId |-> id,
                      oldTitle |-> old], "title", chunks)
      BY <2>1, Zenon DEF Modify
    <3> QED BY <3>1 DEF Begin
  <2>2. Refuse \/ \E t, at, newName, hide : Modify(t, at, newName, hide)
    BY <1>9 DEF ModifyGame
  <2> QED BY <1>1, <1>2, <2>1, <2>2 DEF Refuse, End
<1>10. CASE WriteTitle
  BY <1>4, <1>10 DEF WriteTitle
<1>11. CASE ModifyHeader
  <2>1. (job' = NoJob /\ phase' = "idle") \/ (job'.op = "header" /\ phase' = "attributes")
    BY <1>11 DEF ModifyHeader, Refuse, End, Begin
  <2> QED BY <1>1, <1>2, <2>1
<1>12. CASE WriteAttributes \/ WriteGarbage
  BY <1>4, <1>12 DEF WriteAttributes, WriteGarbage
<1>13. CASE InjectMbr \/ Stop
  BY <1>2, <1>13 DEF InjectMbr, Stop, Refuse, End
<1>14. CASE CommitHeader
  BY <1>14, CommitHeaderPlanned
<1>15. CASE ConsoleDelete
  <2>1. phase = "idle" /\ phase' = phase /\ job' = job
    BY <1>15 DEF ConsoleDelete
  <2> QED BY <2>1 DEF CopyInv, KeepsToPlan, Planned, Runs
<1> QED BY <1>5, <1>6, <1>7, <1>8, <1>9, <1>10, <1>11, <1>12, <1>13, <1>14, <1>15 DEF Next

\* An image of an ordinary size that was copied is on the disk from its first
\* byte to its last, where the allocation table says that it is: what
\* prepare_main plans is what inject_data does, whatever runs the allocator
\* chose, and no part is put over another.
THEOREM CopiesAreWhole == SmallEnough => (Spec => []CopiedWhole)
<1> SUFFICES ASSUME SmallEnough PROVE Spec => []CopiedWhole
  OBVIOUS
<1>1. Init => CopyInv
  <2> SUFFICES ASSUME Init PROVE CopyInv
    OBVIOUS
  <2>1. PICK dialect : disk = Formatted(dialect)
    BY DEF Init
  <2>2. DiskWhole
    BY <2>1 DEF DiskWhole, Formatted
  <2>3. KeepsToPlan
    BY DEF Init, NoJob, KeepsToPlan
  <2> QED BY <2>2, <2>3 DEF CopyInv
<1>2. CopyInv /\ [Next]_vars => CopyInv'
  BY StepWhole, StepPlanned DEF CopyInv
<1>3. CopyInv => CopiedWhole
  <2> SUFFICES ASSUME CopyInv, phase = "commit", job.op = "install"
               PROVE  Extracted(disk, disk[MainChunk(job)].tab, Size) = job.name
    BY DEF CopiedWhole
  <2>1. /\ Planned(job) /\ disk[MainChunk(job)].tab = TableOf(job)
        /\ \A c \in PlanChunks(job) : disk[c].data = PlanData(job, c)
        /\ DOMAIN disk = 0 .. Chunks - 1
    BY DEF CopyInv, KeepsToPlan, DiskWhole
  <2>2. Extracted(disk, TableOf(job), Size) = job.name
    BY <2>1, PlanCopied DEF TableOf
  <2> QED BY <2>1, <2>2
<1> QED BY <1>1, <1>2, <1>3, PTL DEF Spec
=============================================================================
