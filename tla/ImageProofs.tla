---------------------------- MODULE ImageProofs -----------------------------
(***************************************************************************)
(* That an image is copied, dumped and compared right, whatever its parts  *)
(* and the sectors of its devices are, if its parts are well formed: the   *)
(* cache of al_read, a read of an input, and a read of the threaded reader, *)
(* which keeps what was read ahead.  CopyProofs has the loops of commands.  *)
(***************************************************************************)
EXTENDS CompareInputs, WellFoundedInduction, TLAPS

-----------------------------------------------------------------------------
(* The cache of al_read, for buffers, sectors and files of any size: a      *)
(* read without a fault leaves a cache whose bytes are the file's, and      *)
(* delivers, from a buffer that is large enough for the request and the     *)
(* bytes before it, exactly what the file has of the request.               *)

\* a cache on a file of flen bytes: it has nothing behind the end of the file
AlOK(al, flen) ==
  /\ al \in [unit : Nat \ {0}, size : Nat, buf : [0 .. al.size - 1 -> Int],
             offset : Nat, len : Nat]
  /\ al.len <= al.size
  /\ al.len > 0 => al.offset + al.len <= flen

\* al_alloc makes a cache that has nothing.
THEOREM AllocHolds ==
  ASSUME NEW unit \in Nat \ {0}, NEW sectors \in Nat, NEW flen \in Nat
  PROVE  LET al == AlAlloc(unit, sectors) IN AlOK(al, flen) /\ CacheHolds(al)
<1>1. unit * sectors \in Nat
  OBVIOUS
<1> QED BY <1>1, AlignedAssumption DEF AlAlloc, AlOK, CacheHolds, Junk

LEMMA RoundedDown ==
  ASSUME NEW offset \in Nat, NEW unit \in Nat \ {0}
  PROVE  /\ offset % unit \in Nat /\ offset % unit < unit
         /\ offset - (offset % unit) \in Nat
<1>1. offset % unit \in 0 .. unit - 1
  OBVIOUS
<1>2. offset = (unit * (offset \div unit)) + (offset % unit) /\ offset \div unit \in Nat
  OBVIOUS
<1>3. unit * (offset \div unit) \in Nat
  BY <1>2
<1> QED BY <1>1, <1>2, <1>3

\* The index in the old buffer of the byte kept i places into the new one.
LEMMA Shifted ==
  ASSUME NEW off \in Nat, NEW len \in Nat, NEW x, NEW k, NEW j,
         x \in Nat, k \in Nat, j \in Nat, j < k, off <= x, k = off + len - x
  PROVE  j + (x - off) \in 0 .. len - 1 /\ off + (j + (x - off)) = x + j
  OBVIOUS

\* What a file has for the room behind n bytes of a buffer.
LEMMA Room ==
  ASSUME NEW size \in Nat, NEW n \in 0 .. size, NEW a \in Nat, NEW flen \in Nat, a + n <= flen
  PROVE  LET m == Lesser(size - n, flen - (a + n)) IN
         /\ m \in 0 .. size - n /\ n + m = Lesser(size, flen - a) /\ a + n + m <= flen
BY DEF Lesser

\* The buffer that is filled behind what it had.
LEMMA FilledHolds ==
  ASSUME NEW flen \in Nat, NEW al, AlOK(al, flen), CacheHolds(al),
         NEW a \in Nat
  PROVE  LET new == Filled(al, flen, a) IN
         /\ AlOK(new, flen) /\ CacheHolds(new)
         /\ new.offset = a /\ new.size = al.size
         /\ a <= flen => new.len = Lesser(al.size, flen - a)
<1> DEFINE n == Kept(al, a)
           m == Got(al, flen, a)
           buf == [i \in DOMAIN al.buf |->
                     IF i >= n /\ i < n + m THEN a + i ELSE Moved(al, a)[i]]
           new == Filled(al, flen, a)
<1>1. /\ al.size \in Nat /\ al.buf \in [0 .. al.size - 1 -> Int]
      /\ al.offset \in Nat /\ al.len \in 0 .. al.size
      /\ al.len > 0 => al.offset + al.len <= flen
  BY DEF AlOK
<1>2. /\ n \in 0 .. al.len
      /\ n > 0 => al.offset <= a /\ n = al.offset + al.len - a /\ a + n <= flen
  BY <1>1 DEF Kept
<1>3. m \in 0 .. al.size - n /\ (a <= flen => n + m = Lesser(al.size, flen - a))
      /\ (n + m > 0 => a + n + m <= flen)
  <2>1. m = IF a + n <= flen THEN Lesser(al.size - n, flen - (a + n)) ELSE 0
    BY DEF Got
  <2>2. n \in 0 .. al.size /\ n \in Nat
    BY <1>1, <1>2
  <2> HIDE DEF n, m
  <2>3. CASE a + n <= flen
    <3>1. al.size \in Nat /\ m = Lesser(al.size - n, flen - (a + n))
      BY <1>1, <2>1, <2>3
    <3>2. /\ Lesser(al.size - n, flen - (a + n)) \in 0 .. al.size - n
          /\ n + Lesser(al.size - n, flen - (a + n)) = Lesser(al.size, flen - a)
          /\ a + n + Lesser(al.size - n, flen - (a + n)) <= flen
      BY <2>2, <2>3, <3>1, Room
    <3> QED BY <2>2, <3>1, <3>2
  <2>4. CASE ~(a + n <= flen)
    <3>1. n = 0 /\ m = 0
      BY <1>1, <1>2, <2>1, <2>2, <2>4
    <3> QED BY <1>1, <2>4, <3>1
  <2> QED BY <2>3, <2>4
<1>4. Moved(al, a) \in [0 .. al.size - 1 -> Int]
  <2>1. \A j : Byte(al.buf, j) \in Int
    BY <1>1 DEF Byte, Junk
  <2>2. \A i \in 0 .. al.size - 1 : al.buf[i] \in Int
    BY <1>1
  <2> QED BY <1>1, <2>1, <2>2, SMTT(30) DEF Moved
<1>5. \A i \in 0 .. n - 1 : Moved(al, a)[i] = a + i
  <2> SUFFICES ASSUME NEW i \in 0 .. n - 1 PROVE Moved(al, a)[i] = a + i
    OBVIOUS
  <2>1. Moved(al, a)[i] = Byte(al.buf, i + (a - al.offset))
    BY <1>1, <1>2 DEF Moved
  <2>2. /\ i + (a - al.offset) \in 0 .. al.len - 1
        /\ al.offset + (i + (a - al.offset)) = a + i
    <3> HIDE DEF n
    <3>1. n \in Nat /\ i \in Nat /\ i < n /\ al.len \in Nat /\ al.offset \in Nat /\ a \in Nat
      BY <1>1, <1>2
    <3>2. al.offset <= a /\ n = al.offset + al.len - a
      BY <1>2, <3>1
    <3> QED BY <3>1, <3>2, Shifted
  <2> QED BY <2>1, <2>2 DEF CacheHolds
<1>6. buf \in [0 .. al.size - 1 -> Int]
  <2> HIDE DEF n, m
  <2> QED BY <1>1, <1>2, <1>3, <1>4
<1>7. \A i \in 0 .. n + m - 1 : i \in DOMAIN buf /\ buf[i] = a + i
  <2> HIDE DEF n, m
  <2> QED BY <1>1, <1>2, <1>3, <1>5, SMTT(30)
<1>8. /\ new.buf = buf /\ new.offset = a /\ new.len = n + m
      /\ new.size = al.size /\ new.unit = al.unit
      /\ new \in [unit : Nat \ {0}, size : Nat, buf : [0 .. al.size - 1 -> Int],
                  offset : Nat, len : Nat]
  <2>1. new = [al EXCEPT !.buf = buf, !.offset = a, !.len = n + m]
    BY DEF Filled
  <2>2. n + m \in Nat
    BY <1>2, <1>3
  <2> HIDE DEF buf, n, m, new
  <2> QED BY <1>6, <2>1, <2>2 DEF AlOK
<1>9. AlOK(new, flen)
  <2> HIDE DEF new, n, m
  <2> QED BY <1>1, <1>2, <1>3, <1>8 DEF AlOK
<1>10. CacheHolds(new)
  <2> HIDE DEF new, n, m, buf
  <2>1. \A i \in 0 .. new.len - 1 : Byte(new.buf, i) = a + i
    <3> SUFFICES ASSUME NEW i \in 0 .. new.len - 1 PROVE Byte(new.buf, i) = a + i
      OBVIOUS
    <3>1. i \in 0 .. n + m - 1
      <4>1. new.len = n + m
        BY <1>8
      <4>2. n \in Nat /\ m \in Nat
        BY <1>1, <1>2, <1>3
      <4> QED BY <4>1, <4>2
    <3>2. i \in DOMAIN buf /\ buf[i] = a + i
      BY <1>7, <3>1
    <3> QED BY <1>8, <3>2 DEF Byte
  <2> QED BY <1>8, <2>1 DEF CacheHolds
<1> QED BY <1>3, <1>8, <1>9, <1>10

\* A read without a fault keeps the cache right, moved as it may be.
THEOREM ReadHolds ==
  ASSUME NEW flen \in Nat, NEW al, AlOK(al, flen), CacheHolds(al),
         NEW offset \in Nat, NEW bytes \in Nat
  PROVE  LET r == AlRead(al, flen, offset, bytes, "none")
         IN r.ok /\ AlOK(r.al, flen) /\ CacheHolds(r.al)
<1> DEFINE a == offset - (offset % al.unit)
<1>1. a \in Nat
  BY RoundedDown DEF AlOK
<1>2. AlOK(Filled(al, flen, a), flen) /\ CacheHolds(Filled(al, flen, a))
  BY <1>1, FilledHolds
<1> QED BY <1>2 DEF AlRead

\* Where a read without a fault finds what it delivers in the cache, and how much
\* it delivers: all that was asked for, or up to the end of the file, or as much
\* as there is room for.
LEMMA ReadGives ==
  ASSUME NEW flen \in Nat, NEW al, AlOK(al, flen), CacheHolds(al),
         NEW offset \in Nat, NEW bytes \in Nat, offset <= flen,
         offset % al.unit <= al.size
  PROVE  LET r == AlRead(al, flen, offset, bytes, "none") IN
         /\ r.ok /\ AlOK(r.al, flen) /\ CacheHolds(r.al)
         /\ r.al.unit = al.unit /\ r.al.size = al.size
         /\ r.at \in Nat /\ r.al.offset + r.at = offset
         /\ r.len \in Nat /\ r.len <= bytes /\ r.len <= flen - offset
         /\ r.at + r.len <= r.al.len
         /\ r.len = bytes \/ r.len = flen - offset \/ r.len = al.size - (offset % al.unit)
<1> DEFINE skip == offset % al.unit
           a == offset - skip
           new == Filled(al, flen, a)
           r == AlRead(al, flen, offset, bytes, "none")
<1>1. a \in Nat /\ skip \in Nat /\ offset = a + skip
  <2>1. a \in Nat /\ skip \in Nat
    BY RoundedDown DEF AlOK
  <2> QED BY <2>1
<1>2. /\ al.size \in Nat /\ al.offset \in Nat /\ al.len \in 0 .. al.size
      /\ al.len > 0 => al.offset + al.len <= flen
  BY DEF AlOK
<1>3. CASE Cached(al, offset, bytes)
  <2>1. r.len = bytes /\ r.al = al /\ r.at = offset - al.offset /\ r.ok
    BY <1>3 DEF AlRead
  <2>2. al.offset <= offset /\ offset + bytes <= al.offset + al.len
    BY <1>3 DEF Cached
  <2>3. /\ offset - al.offset \in Nat /\ al.offset + (offset - al.offset) = offset
        /\ bytes <= flen - offset /\ offset - al.offset + bytes <= al.len
    BY <1>2, <2>2
  <2> QED BY <2>1, <2>3
<1>4. CASE ~Cached(al, offset, bytes)
  <2>1. /\ AlOK(new, flen) /\ CacheHolds(new) /\ new.offset = a /\ new.size = al.size
        /\ new.unit = al.unit /\ new.len = Lesser(al.size, flen - a)
    <3>1. a <= flen
      BY <1>1
    <3>2. new.unit = al.unit
      BY DEF Filled, AlOK
    <3> HIDE DEF a
    <3> QED BY <1>1, <3>1, <3>2, FilledHolds
  <2>2. skip <= new.len /\ new.len \in Nat
    BY <1>1, <1>2, <2>1 DEF Lesser
  <2>3. r.al = new /\ r.at = skip /\ r.len = Lesser(bytes, new.len - skip) /\ r.ok
    BY <1>4, <2>2 DEF AlRead
  <2>4. /\ r.len \in Nat /\ r.len <= bytes /\ r.len <= flen - offset /\ skip + r.len <= new.len
        /\ r.len = bytes \/ r.len = flen - offset \/ r.len = al.size - skip
    <3> HIDE DEF skip, a, new, r
    <3> QED BY <1>1, <1>2, <2>1, <2>2, <2>3 DEF Lesser
  <2>5. r.al.offset + r.at = offset /\ r.at \in Nat
    <3> HIDE DEF skip, a, new, r
    <3> QED BY <1>1, <2>1, <2>3
  <2> QED BY <2>1, <2>3, <2>4, <2>5
<1> QED BY <1>3, <1>4

\* What a read delivers: the bytes of the file at the offset asked for, all of
\* them or up to its end, if the buffer has room for the request and for the
\* bytes of the device's sector before it.  iin_img_base.c:181 allocates a
\* buffer without that room, which is what MCImageFill shows.
THEOREM ReadDelivers ==
  ASSUME NEW flen \in Nat, NEW al, AlOK(al, flen), CacheHolds(al),
         NEW offset \in Nat, NEW bytes \in Nat, offset <= flen,
         (offset % al.unit) + bytes <= al.size
  PROVE  LET r == AlRead(al, flen, offset, bytes, "none")
         IN /\ r.len = Lesser(bytes, flen - offset)
            /\ \A i \in 0 .. r.len - 1 : Byte(r.al.buf, r.at + i) = offset + i
<1> DEFINE skip == offset % al.unit
           r == AlRead(al, flen, offset, bytes, "none")
<1>1. skip \in Nat /\ al.size \in Nat
  BY RoundedDown DEF AlOK
<1>2. skip <= al.size
  BY <1>1
<1>3. /\ CacheHolds(r.al) /\ AlOK(r.al, flen)
      /\ r.at \in Nat /\ r.al.offset + r.at = offset
      /\ r.len \in Nat /\ r.len <= bytes /\ r.len <= flen - offset
      /\ r.at + r.len <= r.al.len
      /\ r.len = bytes \/ r.len = flen - offset \/ r.len = al.size - skip
  BY <1>2, ReadGives
<1>4. r.al.offset \in Nat /\ r.al.len \in Nat
  BY <1>3 DEF AlOK
<1> HIDE DEF r, skip
<1>5. r.len = Lesser(bytes, flen - offset)
  BY <1>1, <1>3 DEF skip, Lesser
<1>6. \A i \in 0 .. r.len - 1 : Byte(r.al.buf, r.at + i) = offset + i
  <2> SUFFICES ASSUME NEW i \in 0 .. r.len - 1 PROVE Byte(r.al.buf, r.at + i) = offset + i
    OBVIOUS
  <2>1. r.at + i \in 0 .. r.al.len - 1 /\ r.al.offset + (r.at + i) = offset + i
    BY <1>3, <1>4
  <2> QED BY <1>3, <2>1 DEF CacheHolds
<1> QED BY <1>5, <1>6 DEF r

-----------------------------------------------------------------------------
(* Arithmetic.                                                             *)

LEMMA TimesMonotone ==
  ASSUME NEW a \in Nat, NEW b \in Nat, NEW c \in Nat, a <= b
  PROVE  a * c <= b * c
OBVIOUS

LEMMA TimesNat == ASSUME NEW a \in Nat, NEW b \in Nat PROVE a * b \in Nat
OBVIOUS

LEMMA AtLeastOne ==
  ASSUME NEW a \in Nat \ {0}, NEW b \in Nat PROVE a * b \in Nat /\ b <= a * b
<1>1. PICK c \in Nat : a = c + 1
  <2>1. a - 1 \in Nat /\ a = a - 1 + 1
    OBVIOUS
  <2> QED BY <2>1
<1>2. (c + 1) * b = c * b + b /\ c * b \in Nat
  BY TimesNat
<1> QED BY <1>1, <1>2

LEMMA DivisionUnique ==
  ASSUME NEW b \in Nat \ {0}, NEW q \in Nat, NEW t \in 0 .. b - 1, NEW x \in Nat,
         x = q * b + t
  PROVE  x \div b = q /\ x % b = t
<1>1. x % b \in 0 .. b - 1 /\ x \div b \in Nat /\ x = b * (x \div b) + (x % b)
  OBVIOUS
<1>2. PICK p \in Nat, u \in 0 .. b - 1 : p = x \div b /\ u = x % b
  BY <1>1
<1>3. x = p * b + u
  BY <1>1, <1>2
<1>4. ~(p < q)
  <2> SUFFICES ASSUME p < q PROVE FALSE
    OBVIOUS
  <2>1. (p + 1) * b <= q * b
    BY TimesMonotone
  <2>2. (p + 1) * b = p * b + b
    OBVIOUS
  <2> QED BY <1>3, <2>1, <2>2
<1>5. ~(q < p)
  <2> SUFFICES ASSUME q < p PROVE FALSE
    OBVIOUS
  <2>1. (q + 1) * b <= p * b
    BY TimesMonotone
  <2>2. (q + 1) * b = q * b + b
    OBVIOUS
  <2> QED BY <1>3, <2>1, <2>2
<1>6. p = q
  BY <1>4, <1>5
<1> QED BY <1>2, <1>3, <1>6

\* the place of a byte: its sector and where it is in it
LEMMA Divided ==
  ASSUME NEW x \in Nat, NEW b \in Nat \ {0}
  PROVE  \E q \in Nat, t \in 0 .. b - 1 : q = x \div b /\ t = x % b /\ x = q * b + t
<1>1. x % b \in 0 .. b - 1 /\ x \div b \in Nat /\ x = b * (x \div b) + (x % b)
  OBVIOUS
<1> QED BY <1>1

Divides(x, b, q, t) == q = x \div b /\ t = x % b /\ x = q * b + t

LEMMA DividedBy ==
  ASSUME NEW x \in Nat, NEW b \in Nat \ {0}
  PROVE  \E q \in Nat, t \in 0 .. b - 1 : Divides(x, b, q, t)
<1>1. x % b \in 0 .. b - 1 /\ x \div b \in Nat /\ x = (x \div b) * b + (x % b)
  OBVIOUS
<1>2. Divides(x, b, x \div b, x % b)
  BY <1>1 DEF Divides
<1> QED BY <1>1, <1>2, Zenon

\* A byte of the first n sectors is in one of them.
LEMMA SectorOf ==
  ASSUME NEW b \in Nat \ {0}, NEW n \in Nat, NEW q \in Nat, NEW t \in 0 .. b - 1,
         q * b + t < n * b
  PROVE  q < n
<1> SUFFICES ASSUME n <= q PROVE FALSE
  OBVIOUS
<1>1. n * b <= q * b
  BY TimesMonotone
<1> QED BY <1>1

\* A set of numbers that is not empty has a least one.
LEMMA Least ==
  ASSUME NEW S, S \subseteq Nat, S # {}
  PROVE  \E m \in S : \A k \in S : m <= k
<1>1. PICK m \in S : \A k \in S : <<k, m>> \notin OpToRel(<, Nat)
  BY WFMin, NatLessThanWellFounded, Zenon
<1>2. \A k \in S : ~(k < m)
  BY <1>1, Zenon DEF OpToRel
<1> QED BY <1>2

LEMMA TimesReflects ==
  ASSUME NEW a \in Nat, NEW b \in Nat, NEW c \in Nat \ {0}, a * c <= b * c
  PROVE  a <= b
<1> SUFFICES ASSUME b + 1 <= a PROVE FALSE
  OBVIOUS
<1>1. (b + 1) * c <= a * c
  BY TimesMonotone
<1>2. (b + 1) * c = b * c + c
  OBVIOUS
<1> QED BY <1>1, <1>2

\* Sectors in so many bytes, and bytes that lack in the last of them.
LEMMA WholeSectors ==
  ASSUME NEW raw \in Nat \ {0}, NEW c \in Nat
  PROVE  /\ CeilDiv(c * raw, raw) = c
         /\ (raw - ((c * raw) % raw)) % raw = 0
<1>1. c * raw \in Nat
  BY TimesNat
<1>2. (c * raw) % raw = 0
  BY <1>1, DivisionUnique
<1>3. (c * raw + raw - 1) \div raw = c
  <2>1. /\ c * raw + raw - 1 \in Nat /\ c * raw + raw - 1 = c * raw + (raw - 1)
        /\ raw - 1 \in 0 .. raw - 1
    BY <1>1
  <2> QED BY <2>1, DivisionUnique
<1>4. raw % raw = 0
  <2>1. raw = 1 * raw + 0 /\ 0 \in 0 .. raw - 1
    OBVIOUS
  <2> QED BY <2>1, DivisionUnique
<1> QED BY <1>2, <1>3, <1>4 DEF CeilDiv

LEMMA PartOfSector ==
  ASSUME NEW raw \in Nat \ {0}, NEW c \in Nat, NEW t \in 1 .. raw - 1, NEW x, x = c * raw + t
  PROVE  CeilDiv(x, raw) = c + 1 /\ (raw - (x % raw)) % raw = raw - t
<1>1. c * raw \in Nat /\ c * raw + t \in Nat
  BY TimesNat
<1>2. (c * raw + t) % raw = t
  BY <1>1, DivisionUnique
<1>3. (c * raw + t + raw - 1) \div raw = c + 1
  <2>1. (c + 1) * raw = c * raw + raw
    OBVIOUS
  <2>2. /\ c * raw + t + raw - 1 \in Nat /\ t - 1 \in 0 .. raw - 1
        /\ c * raw + t + raw - 1 = (c + 1) * raw + (t - 1)
    BY <1>1, <2>1
  <2> QED BY <2>2, DivisionUnique
<1>4. (raw - t) % raw = raw - t
  <2>1. raw - t = 0 * raw + (raw - t) /\ raw - t \in 0 .. raw - 1
    OBVIOUS
  <2> QED BY <2>1, DivisionUnique
<1> QED BY <1>2, <1>3, <1>4 DEF CeilDiv

\* x bytes end in the last of n sectors, t bytes behind where it starts
EndsIn(raw, n, t, x) ==
  raw \in Nat \ {0} /\ n \in Nat \ {0} /\ t \in 1 .. raw - 1 /\ x = (n - 1) * raw + t

LEMMA LastSector ==
  ASSUME NEW raw, NEW n, NEW t, NEW x, EndsIn(raw, n, t, x)
  PROVE  CeilDiv(x, raw) = n /\ (raw - (x % raw)) % raw = raw - t
<1>1. PICK c \in Nat : c = n - 1 /\ n = c + 1
  BY DEF EndsIn
<1>2. raw \in Nat \ {0} /\ t \in 1 .. raw - 1 /\ x = c * raw + t
  BY <1>1 DEF EndsIn
<1> QED BY <1>1, <1>2, PartOfSector

\* len bytes of num sectors from sector s of a part on, where before and size are
\* the bytes before them in the cache and those of the cache: if at least one
\* sector has room, and if all have, or those that have are whole
AskedOf(raw, skip, length, s, num, flen, len, before, size) ==
  /\ before + raw <= size /\ len <= num * raw /\ len <= flen - (skip + s * raw)
  /\ len = num * raw \/ len = flen - (skip + s * raw) \/ len = size - before
  /\ before + num * raw <= size \/ (size - before) % raw = 0
  /\ \/ skip + length * raw <= flen /\ ((flen - skip) % raw = 0 \/ s + num <= length)
     \/ skip + (length - 1) * raw < flen /\ flen < skip + length * raw

\* the rest of a file that ends in the last sector of the part
RestOf(raw, skip, length, s, num, flen, len) ==
  /\ skip + (length - 1) * raw < flen /\ flen < skip + length * raw
  /\ len = flen - (skip + s * raw) /\ length - s <= num
  /\ \E t \in 1 .. raw - 1 : len = (length - s - 1) * raw + t

\* fewer whole sectors
SomeOf(raw, length, s, num, len, before, size) ==
  /\ ~(before + num * raw <= size /\ s + num <= length)
  /\ \E c \in 1 .. num : len = c * raw

LEMMA Amount ==
  ASSUME NEW raw \in Nat \ {0}, NEW skip \in Nat, NEW length \in Nat \ {0},
         NEW s \in 0 .. length - 1, NEW num \in Nat \ {0}, NEW flen \in Nat,
         NEW len \in Nat, NEW before \in Nat, NEW size \in Nat,
         AskedOf(raw, skip, length, s, num, flen, len, before, size)
  PROVE  \/ len = num * raw
         \/ RestOf(raw, skip, length, s, num, flen, len)
         \/ SomeOf(raw, length, s, num, len, before, size)
<1> USE DEF AskedOf, RestOf, SomeOf
<1>1. /\ s * raw \in Nat /\ length * raw \in Nat /\ num * raw \in Nat
      /\ (length - 1) * raw \in Nat /\ (length - 1) * raw + raw = length * raw
  <2>1. length - 1 \in Nat
    OBVIOUS
  <2> QED BY <2>1, TimesNat
<1>2. s + num <= length => s * raw + num * raw <= length * raw
  <2>1. (s + num) * raw = s * raw + num * raw
    OBVIOUS
  <2> QED BY <2>1, TimesMonotone
<1>3. \A c \in Nat : len = c * raw /\ len >= raw => c \in 1 .. num
  <2> SUFFICES ASSUME NEW c \in Nat, len = c * raw, len >= raw PROVE c \in 1 .. num
    OBVIOUS
  <2>1. c <= num
    BY TimesReflects
  <2>2. 1 * raw <= c * raw
    OBVIOUS
  <2>3. 1 <= c
    BY <2>2, TimesReflects
  <2> QED BY <2>1, <2>3
<1>4. s * raw + raw <= length * raw
  <2>1. s + 1 <= length /\ s + 1 \in Nat /\ s \in Nat
    OBVIOUS
  <2>2. (s + 1) * raw <= length * raw
    BY <2>1, TimesMonotone
  <2>3. (s + 1) * raw = s * raw + raw
    BY <2>1
  <2> QED BY <2>2, <2>3
<1>5. CASE len = num * raw
  BY <1>5
<1>6. CASE len # num * raw /\ len = size - before
  <2>1. (size - before) % raw = 0 /\ ~(before + num * raw <= size)
    BY <1>1, <1>6
  <2>2. \E c \in Nat, t \in 0 .. raw - 1 : c = len \div raw /\ t = len % raw /\ len = c * raw + t
    BY Divided, Zenon
  <2> PICK c \in Nat, t \in 0 .. raw - 1 : t = len % raw /\ len = c * raw + t
    BY <2>2
  <2>3. len = c * raw /\ len >= raw
    <3>1. t = 0 /\ c * raw \in Nat
      BY <1>6, <2>1, <2>2, TimesNat
    <3> QED BY <1>6, <2>2, <3>1
  <2> QED BY <1>3, <2>1, <2>3
<1>7. CASE len # num * raw /\ len = flen - (skip + s * raw)
  <2>1. CASE skip + length * raw <= flen
    <3>1. ~(s + num <= length)
      BY <1>1, <1>2, <1>7, <2>1
    <3>2. (flen - skip) % raw = 0 /\ flen - skip \in Nat
      BY <1>1, <2>1, <3>1
    <3>3. PICK q \in Nat, t \in 0 .. raw - 1 : t = (flen - skip) % raw /\ flen - skip = q * raw + t
      BY <3>2, Divided
    <3>4. q * raw \in Nat /\ flen - skip = q * raw
      <4>1. t = 0 /\ q * raw \in Nat
        BY <3>2, <3>3, TimesNat
      <4> QED BY <3>2, <3>3, <4>1
    <3>5. length <= q
      <4>1. length * raw <= q * raw
        BY <1>1, <2>1, <3>4
      <4> QED BY <4>1, TimesReflects
    <3>6. q - s \in Nat /\ (q - s) * raw = q * raw - s * raw
      <4>1. q - s \in Nat /\ s \in Nat
        BY <3>5
      <4> QED BY <4>1
    <3>7. len = (q - s) * raw /\ len >= raw
      BY <1>1, <1>4, <1>7, <2>1, <3>4, <3>6
    <3> QED BY <1>3, <3>1, <3>6, <3>7
  <2>2. CASE skip + (length - 1) * raw < flen /\ flen < skip + length * raw
    <3>1. /\ length - s - 1 \in Nat
          /\ (length - s - 1) * raw = (length - 1) * raw - s * raw
          /\ (length - s - 1) * raw \in Nat
      <4>1. length - s - 1 \in Nat /\ s \in Nat
        OBVIOUS
      <4>2. (length - s - 1) * raw = (length - 1) * raw - s * raw
        BY <4>1
      <4> QED BY <4>1, <4>2, TimesNat
    <3>2. PICK t \in Int : t = flen - skip - (length - 1) * raw
      BY <1>1
    <3>3. t \in 1 .. raw - 1
      BY <1>1, <2>2, <3>2
    <3>4. len = (length - s - 1) * raw + t
      BY <1>1, <1>7, <3>1, <3>2
    <3>5. length - s - 1 < num
      <4> SUFFICES ASSUME num <= length - s - 1 PROVE FALSE
        BY <3>1
      <4>1. num * raw <= (length - s - 1) * raw
        BY <3>1, TimesMonotone
      <4> QED BY <1>1, <3>1, <3>3, <3>4, <4>1
    <3>6. length - s <= num
      BY <3>5
    <3>7. ~(skip + length * raw <= flen)
      BY <1>1, <2>2
    <3> QED BY <1>7, <2>2, <3>3, <3>4, <3>6, <3>7
  <2> QED BY <2>1, <2>2
<1> QED BY <1>5, <1>6, <1>7

-----------------------------------------------------------------------------
(* Parts.                                                                  *)

LEMMA SizesFacts == /\ Sector \in Nat \ {0} /\ HddSector \in Nat \ {0} /\ Num \in Nat \ {0}
BY SizesAssumption

LEMMA InputFacts ==
  ASSUME NEW in, WellFormed(in)
  PROVE  /\ in.kind \in {"image", "drive", "game"} /\ in.raw \in Nat \ {0} /\ in.skipIn \in Nat
         /\ in.skipIn + Sector <= in.raw
         /\ in.parts \in Seq(Parts) /\ Len(in.parts) \in Nat \ {0}
         /\ DOMAIN in.parts = 1 .. Len(in.parts)
<1>1. in.parts \in Seq(Parts) /\ in.parts # <<>>
  BY DEF WellFormed, InOrder
<1>2. Len(in.parts) \in Nat \ {0} /\ DOMAIN in.parts = 1 .. Len(in.parts)
  BY <1>1
<1> QED BY <1>1, <1>2 DEF WellFormed

LEMMA PartFacts ==
  ASSUME NEW in, WellFormed(in), NEW k \in DOMAIN in.parts
  PROVE  /\ in.parts[k].offset \in Nat /\ in.parts[k].length \in Nat \ {0}
         /\ in.parts[k].skip \in Nat /\ in.parts[k].file \in Nat \ {0}
         /\ in.parts[k].flen \in Nat /\ in.parts[k].unit \in Nat \ {0}
<1>1. in.parts[k] \in Parts
  BY InputFacts
<1> QED BY <1>1 DEF Parts

LEMMA PartsApart ==
  ASSUME NEW in, WellFormed(in), NEW j \in DOMAIN in.parts, NEW k \in DOMAIN in.parts, j < k
  PROVE  /\ in.parts[j].offset + in.parts[j].length <= in.parts[k].offset
         /\ in.parts[j].file = in.parts[k].file =>
              in.parts[j].flen = in.parts[k].flen /\ in.parts[j].unit = in.parts[k].unit
BY DEF WellFormed, InOrder

LEMMA TotalFacts ==
  ASSUME NEW in, WellFormed(in)
  PROVE  /\ Total(in) \in Nat \ {0}
         /\ \A k \in DOMAIN in.parts : in.parts[k].offset + in.parts[k].length <= Total(in)
<1> DEFINE last == Len(in.parts)
<1>1. last \in DOMAIN in.parts /\ DOMAIN in.parts = 1 .. last /\ last \in Nat
  BY InputFacts
<1>2. Total(in) = in.parts[last].offset + in.parts[last].length
  BY DEF Total
<1>3. in.parts[last].offset \in Nat /\ in.parts[last].length \in Nat \ {0}
  BY <1>1, PartFacts
<1>4. ASSUME NEW k \in DOMAIN in.parts
      PROVE  in.parts[k].offset + in.parts[k].length <= Total(in)
  <2>1. in.parts[k].offset \in Nat /\ in.parts[k].length \in Nat
    BY PartFacts
  <2>2. k = last \/ k < last
    BY <1>1
  <2>3. k < last => in.parts[k].offset + in.parts[k].length <= in.parts[last].offset
    BY <1>1, PartsApart
  <2> QED BY <1>2, <1>3, <2>1, <2>2, <2>3
<1> QED BY <1>2, <1>3, <1>4

LEMMA OnlyPart ==
  ASSUME NEW in, WellFormed(in), NEW j \in DOMAIN in.parts, NEW k \in DOMAIN in.parts,
         NEW s \in Nat, Contains(in.parts[j], s), Contains(in.parts[k], s)
  PROVE  j = k
<1>1. /\ in.parts[j].offset \in Nat /\ in.parts[j].length \in Nat
      /\ in.parts[k].offset \in Nat /\ in.parts[k].length \in Nat
      /\ j \in Nat /\ k \in Nat
  BY PartFacts, InputFacts
<1>2. /\ in.parts[j].offset <= s /\ s < in.parts[j].offset + in.parts[j].length
      /\ in.parts[k].offset <= s /\ s < in.parts[k].offset + in.parts[k].length
  BY DEF Contains
<1>3. ~(j < k)
  <2> SUFFICES ASSUME j < k PROVE FALSE
    OBVIOUS
  <2>1. in.parts[j].offset + in.parts[j].length <= in.parts[k].offset
    BY PartsApart
  <2> QED BY <1>1, <1>2, <2>1
<1>4. ~(k < j)
  <2> SUFFICES ASSUME k < j PROVE FALSE
    OBVIOUS
  <2>1. in.parts[k].offset + in.parts[k].length <= in.parts[j].offset
    BY PartsApart
  <2> QED BY <1>1, <1>2, <2>1
<1> QED BY <1>1, <1>3, <1>4

\* What an input has at a byte of a sector that a part contains, or none.
LEMMA SourceInPart ==
  ASSUME NEW in, WellFormed(in), NEW k \in DOMAIN in.parts, NEW s \in Nat,
         Contains(in.parts[k], s), NEW b, NEW x,
         x = in.parts[k].skip + (s - in.parts[k].offset) * in.raw + in.skipIn + b
  PROVE  Source(in, s, b) = IF x < in.parts[k].flen THEN FileByte(in.parts[k].file, x)
                            ELSE ZeroByte
<1>1. {j \in DOMAIN in.parts : Contains(in.parts[j], s)} = {k}
  BY OnlyPart
<1>2. (CHOOSE j \in {k} : TRUE) = k
  OBVIOUS
<1> QED BY <1>1, <1>2 DEF Source

LEMMA SourceInGap ==
  ASSUME NEW in, NEW s, \A j \in DOMAIN in.parts : ~Contains(in.parts[j], s), NEW b
  PROVE  Source(in, s, b) = ZeroByte
<1>1. {j \in DOMAIN in.parts : Contains(in.parts[j], s)} = {}
  OBVIOUS
<1> QED BY <1>1 DEF Source

\* A sector of the input is in a part or before one, the first that does not end
\* before it.
LEMMA FirstPart ==
  ASSUME NEW in, WellFormed(in), NEW s \in Nat
  PROVE  IF s < Total(in)
         THEN \E k \in DOMAIN in.parts :
                /\ AtOrAfter(in, s) = {k}
                /\ s < in.parts[k].offset + in.parts[k].length
                /\ \A j \in DOMAIN in.parts : Contains(in.parts[j], s) => j = k
                /\ \A j \in DOMAIN in.parts : j # k =>
                     \/ in.parts[j].offset + in.parts[j].length <= s
                     \/ in.parts[j].offset >= in.parts[k].offset
         ELSE AtOrAfter(in, s) = {} /\ \A j \in DOMAIN in.parts : ~Contains(in.parts[j], s)
<1> DEFINE D == {k \in DOMAIN in.parts : s < in.parts[k].offset + in.parts[k].length}
<1>1. /\ DOMAIN in.parts = 1 .. Len(in.parts) /\ Len(in.parts) \in Nat \ {0}
      /\ \A k \in DOMAIN in.parts : in.parts[k].offset \in Nat /\ in.parts[k].length \in Nat \ {0}
  BY InputFacts, PartFacts
<1>2. /\ Total(in) \in Nat
      /\ \A k \in DOMAIN in.parts : in.parts[k].offset + in.parts[k].length <= Total(in)
  BY TotalFacts
<1>3. CASE ~(s < Total(in))
  <2>1. \A k \in DOMAIN in.parts : ~(s < in.parts[k].offset + in.parts[k].length)
    BY <1>1, <1>2, <1>3
  <2>2. AtOrAfter(in, s) = {} /\ \A j \in DOMAIN in.parts : ~Contains(in.parts[j], s)
    BY <2>1 DEF AtOrAfter, Contains
  <2> QED BY <1>3, <2>2
<1>4. CASE s < Total(in)
  <2>1. Len(in.parts) \in D
    BY <1>1, <1>4 DEF Total
  <2>2. D \subseteq Nat
    BY <1>1
  <2>3. PICK k \in D : \A j \in D : k <= j
    BY <2>1, <2>2, Least
  <2> HIDE DEF D
  <2>4. k \in DOMAIN in.parts /\ s < in.parts[k].offset + in.parts[k].length
    BY <2>3 DEF D
  <2>5. \A j \in DOMAIN in.parts : j < k => s >= in.parts[j].offset + in.parts[j].length
    <3> SUFFICES ASSUME NEW j \in DOMAIN in.parts, j < k
                 PROVE  s >= in.parts[j].offset + in.parts[j].length
      OBVIOUS
    <3>1. j \notin D
      BY <1>1, <2>3, <2>4
    <3> QED BY <1>1, <3>1 DEF D
  <2>6. k \in AtOrAfter(in, s)
    <3>1. \A j \in 1 .. k - 1 : j \in DOMAIN in.parts /\ j < k
      BY <1>1, <2>4
    <3> QED BY <2>4, <2>5, <3>1 DEF AtOrAfter
  <2>7. \A j \in AtOrAfter(in, s) : j = k
    <3> SUFFICES ASSUME NEW j \in AtOrAfter(in, s) PROVE j = k
      OBVIOUS
    <3>1. /\ j \in DOMAIN in.parts /\ s < in.parts[j].offset + in.parts[j].length
          /\ \A i \in 1 .. j - 1 : s >= in.parts[i].offset + in.parts[i].length
      BY DEF AtOrAfter
    <3>2. ~(j < k)
      BY <1>1, <2>5, <3>1
    <3>3. ~(k < j)
      <4> SUFFICES ASSUME k < j PROVE FALSE
        OBVIOUS
      <4>1. k \in 1 .. j - 1
        BY <1>1, <2>4, <3>1
      <4> QED BY <1>1, <2>4, <3>1, <4>1
    <3> QED BY <1>1, <2>4, <3>1, <3>2, <3>3
  <2>8. AtOrAfter(in, s) = {k}
    BY <2>6, <2>7
  <2>9. \A j \in DOMAIN in.parts : j # k =>
          \/ in.parts[j].offset + in.parts[j].length <= s
          \/ in.parts[j].offset >= in.parts[k].offset + in.parts[k].length
    <3> SUFFICES ASSUME NEW j \in DOMAIN in.parts, j # k
                 PROVE  \/ in.parts[j].offset + in.parts[j].length <= s
                        \/ in.parts[j].offset >= in.parts[k].offset + in.parts[k].length
      OBVIOUS
    <3>1. CASE j < k
      BY <1>1, <2>5, <3>1
    <3>2. CASE k < j
      <4>1. in.parts[k].offset + in.parts[k].length <= in.parts[j].offset
        BY <2>4, <3>2, PartsApart
      <4> QED BY <1>1, <2>4, <4>1
    <3> QED BY <1>1, <2>4, <3>1, <3>2
  <2>10. \A j \in DOMAIN in.parts : Contains(in.parts[j], s) => j = k
    <3> SUFFICES ASSUME NEW j \in DOMAIN in.parts, Contains(in.parts[j], s), j # k PROVE FALSE
      OBVIOUS
    <3>1. /\ in.parts[j].offset \in Nat /\ in.parts[j].length \in Nat
          /\ in.parts[k].offset \in Nat /\ in.parts[k].length \in Nat
      BY <1>1, <2>4
    <3>2. in.parts[j].offset <= s /\ s < in.parts[j].offset + in.parts[j].length
      BY DEF Contains
    <3> QED BY <2>4, <2>9, <3>1, <3>2
  <2>11. \A j \in DOMAIN in.parts : j # k =>
           \/ in.parts[j].offset + in.parts[j].length <= s
           \/ in.parts[j].offset >= in.parts[k].offset
    BY <1>1, <2>4, <2>9
  <2> QED BY <1>4, <2>4, <2>8, <2>10, <2>11
<1> QED BY <1>3, <1>4

-----------------------------------------------------------------------------
(* A read of an input.                                                     *)

Bytes == Int \X Int

CacheOK(al, p, size) ==
  AlOK(al, p.flen) /\ CacheHolds(al) /\ al.unit = p.unit /\ al.size = size

CacheOf(in, p) == IF in.kind = "drive" THEN Num * Sector ELSE CacheSize(in, p)

\* The reader is at one of the parts, and its cache is right for the file.
RdOK(in, dev) ==
  /\ \E c, al : dev = [cur |-> c, al |-> al]
  /\ dev.cur \in 0 .. Len(in.parts) /\ (in.kind # "image" => dev.cur # 0)
  /\ IF dev.cur = 0 \/ in.kind = "game" THEN dev.al = AlAlloc(1, 0)
     ELSE CacheOK(dev.al, in.parts[dev.cur], CacheOf(in, in.parts[dev.cur]))

\* The first n sectors are delivered.
Delivers(in, start, n, data) ==
  /\ Len(data) = n * Sector
  /\ \A i \in 0 .. n * Sector - 1 :
       data[i + 1] = Source(in, start + (i \div Sector), i % Sector)

\* Data of a read of num sectors: at least one, and all of them where blocks of
\* an input of one part start.
Right(in, start, num, data) ==
  \E n \in 1 .. num : /\ Delivers(in, start, n, data)
                      /\ Len(in.parts) = 1 /\ start % Num = 0 => n = num

\* sectors that may be asked for
Fits(in, start, num) ==
  num = 1 \/ Len(in.parts) > 1 \/ start % Num = 0 \/ RoomAnywhere(in)

\* a file of an image is long enough for a sector of a part to start in it
LEMMA SectorStarts ==
  ASSUME NEW in, WellFormed(in), in.kind = "image", NEW k \in DOMAIN in.parts,
         NEW s \in 0 .. in.parts[k].length - 1
  PROVE  LET p == in.parts[k] IN
         /\ p.skip + s * in.raw \in Nat /\ p.skip + s * in.raw <= p.flen
         /\ p.skip + p.length * in.raw <= p.flen => p.skip + s * in.raw + in.raw <= p.flen
<1>1. PICK raw \in Nat \ {0}, L \in Nat \ {0}, skip \in Nat, flen \in Nat :
        raw = in.raw /\ L = in.parts[k].length /\ skip = in.parts[k].skip /\ flen = in.parts[k].flen
  BY InputFacts, PartFacts
<1>2. skip + L * raw <= flen \/ skip + (L - 1) * raw < flen
  BY <1>1 DEF WellFormed, EndsWell
<1>3. s \in Nat /\ s + 1 <= L /\ L - 1 \in Nat /\ s <= L - 1 /\ s + 1 \in Nat
  BY <1>1
<1>4. s * raw <= (L - 1) * raw /\ (s + 1) * raw <= L * raw
  BY <1>3, TimesMonotone
<1>5. (s + 1) * raw = s * raw + raw
  BY <1>3
<1>6. s * raw \in Nat /\ L * raw \in Nat /\ (L - 1) * raw \in Nat
  BY <1>3, TimesNat
<1>7. skip + s * raw \in Nat /\ skip + s * raw <= flen
      /\ (skip + L * raw <= flen => skip + s * raw + raw <= flen)
  BY <1>2, <1>4, <1>5, <1>6
<1> QED BY <1>1, <1>7

\* the room a cache has for the sectors of a read
LEMMA RoomFor ==
  ASSUME NEW in, WellFormed(in), in.kind = "image", NEW k \in DOMAIN in.parts,
         NEW start \in Nat, Contains(in.parts[k], start), NEW num \in 1 .. Num,
         Fits(in, start, num)
  PROVE  LET p == in.parts[k]
             before == Before(in, p, start - p.offset)
             size == CacheSize(in, p)
         IN /\ before \in Nat /\ size \in Nat /\ before + in.raw <= size
            /\ before + num * in.raw <= size \/ (size - before) % in.raw = 0
            /\ Len(in.parts) = 1 /\ start % Num = 0 => before + num * in.raw <= size
<1> DEFINE p == in.parts[k]
           s == start - p.offset
<1>0. PICK raw \in Nat \ {0} : raw = in.raw
  BY InputFacts
<1>1. s \in 0 .. p.length - 1 /\ s \in Nat
  <2>1. p.offset \in Nat /\ p.length \in Nat
    BY PartFacts
  <2>2. p.offset <= start /\ start < p.offset + p.length
    BY DEF Contains
  <2> QED BY <2>1, <2>2
<1>2. HasRoom(in, p)
  BY DEF WellFormed
<1>3. PICK before \in Int : before = Before(in, p, s) /\ before \in Nat
  <2>1. p.skip + s * raw \in Nat /\ p.unit \in Nat \ {0}
    BY <1>0, <1>1, SectorStarts, PartFacts
  <2>2. (p.skip + s * raw) % p.unit \in Nat
    BY <2>1, RoundedDown
  <2> QED BY <1>0, <2>2 DEF Before
<1>4. PICK size \in Nat : size = CacheSize(in, p)
  <2>1. p.unit \in Nat \ {0} /\ Num \in Nat
    BY PartFacts, SizesFacts
  <2>2. raw * Num \in Nat
    BY <2>1, TimesNat
  <2>3. raw * Num + raw - 1 \in Nat
    BY <2>2
  <2>4. (raw * Num + raw - 1) \div p.unit \in Nat
    BY <2>1, <2>3, Divided
  <2> QED BY <1>0, <2>1, <2>4, TimesNat DEF CacheSize, CacheUnits
<1>5. before + raw <= size
  BY <1>0, <1>1, <1>2, <1>3, <1>4 DEF HasRoom
<1>6. num * raw <= Num * raw /\ num * raw \in Nat /\ Num * raw \in Nat /\ 1 * raw = raw
  BY <1>0, SizesFacts, TimesMonotone, TimesNat
<1>7. BlockFits(in, p, s) => before + num * raw <= size
  BY <1>0, <1>3, <1>4, <1>6 DEF BlockFits
<1>8. SectorsFit(in, p, s) => before + num * raw <= size \/ (size - before) % raw = 0
  BY <1>0, <1>3, <1>4, <1>7 DEF SectorsFit
<1>14. (Len(in.parts) > 1 /\ Len(in.parts) # 1) \/ Len(in.parts) = 1
  <2>1. PICK n \in Nat \ {0} : n = Len(in.parts)
    BY InputFacts
  <2>2. (n > 1 /\ n # 1) \/ n = 1
    OBVIOUS
  <2> HIDE DEF p, s
  <2> QED BY <2>1, <2>2, Zenon
<1>9. Len(in.parts) = 1 => s = start
  <2>1. Len(in.parts) = 1 => k = 1
    BY InputFacts
  <2>2. in.parts[1].offset = 0
    BY DEF WellFormed, InOrder
  <2> QED BY <2>1, <2>2
<1>10. Len(in.parts) = 1 /\ start % Num = 0 => BlockFits(in, p, s)
  BY <1>1, <1>2, <1>9 DEF HasRoom
<1>11. Len(in.parts) > 1 => SectorsFit(in, p, s)
  <2>1. Len(in.parts) # 1 => SectorsFit(in, p, s)
    BY <1>1, <1>2 DEF HasRoom
  <2>2. ~(1 > 1)
    OBVIOUS
  <2> QED BY <2>1, <2>2, <1>14, Zenon
<1>12. RoomAnywhere(in) => SectorsFit(in, p, s)
  BY <1>1 DEF RoomAnywhere
<1>13. before + num * raw <= size \/ (size - before) % raw = 0
  <2>1. CASE num = 1
    BY <1>5, <1>6, <2>1
  <2>2. CASE Len(in.parts) > 1
    BY <1>8, <1>11, <2>2
  <2>3. CASE Len(in.parts) = 1 /\ start % Num = 0
    BY <1>7, <1>10, <2>3
  <2>4. CASE RoomAnywhere(in)
    BY <1>8, <1>12, <2>4
  <2>5. Len(in.parts) > 1 \/ Len(in.parts) = 1
    BY <1>14, Zenon
  <2> QED BY <2>1, <2>2, <2>3, <2>4, <2>5 DEF Fits
<1> QED BY <1>0, <1>3, <1>4, <1>5, <1>7, <1>10, <1>13

\* What comes of a request: sectors behind the end of the input are only read
\* ahead and not asked for, and no sectors are asked for at its end.
Good(in, start, num, data) ==
  /\ num = 0 => data = <<>>
  /\ num > 0 /\ start + num <= Total(in) => Right(in, start, num, data)

\* what a read leaves and returns
Served(in, start, num, w) ==
  /\ RdOK(in, w.rd) /\ w.result \in {"ok", "err"} /\ w.data \in Seq(Bytes)
  /\ w.result = "ok" => w.set /\ Good(in, start, num, w.data)

\* what al_read gives img_base_read of part k from sector start on
Cut(in, k, start, r) ==
  LET p == in.parts[k]
      offset == p.skip + (start - p.offset) * in.raw
  IN /\ CacheOK(r.al, p, CacheSize(in, p))
     /\ r.at \in Nat /\ r.len \in Nat /\ offset \in Nat /\ r.al.offset + r.at = offset
     /\ r.at + r.len <= r.al.len /\ r.len <= p.flen - offset

LEMMA RdAt ==
  ASSUME NEW in, NEW k \in 1 .. Len(in.parts), NEW al, in.kind # "game",
         CacheOK(al, in.parts[k], CacheOf(in, in.parts[k])), Len(in.parts) \in Nat
  PROVE  RdOK(in, [cur |-> k, al |-> al])
<1>1. k # 0 /\ k \in 0 .. Len(in.parts)
  OBVIOUS
<1>2. \E c, a : [cur |-> k, al |-> al] = [cur |-> c, al |-> a]
  OBVIOUS
<1>3. [cur |-> k, al |-> al].cur = k /\ [cur |-> k, al |-> al].al = al
  OBVIOUS
<1> QED BY <1>1, <1>2, <1>3, Zenon DEF RdOK

\* a reader without a cache
LEMMA RdWithout ==
  ASSUME NEW in, NEW c \in 0 .. Len(in.parts),
         \/ in.kind = "image" /\ c = 0
         \/ in.kind = "game" /\ c # 0
  PROVE  RdOK(in, [cur |-> c, al |-> AlAlloc(1, 0)])
<1>1. PICK none : none = AlAlloc(1, 0)
  OBVIOUS
<1>2. \E d, a : [cur |-> c, al |-> none] = [cur |-> d, al |-> a]
  OBVIOUS
<1>3. [cur |-> c, al |-> none].cur = c /\ [cur |-> c, al |-> none].al = none
  OBVIOUS
<1>4. (in.kind # "image" => c # 0) /\ (c = 0 \/ in.kind = "game")
  OBVIOUS
<1> QED BY <1>1, <1>2, <1>3, <1>4, Zenon DEF RdOK

\* A cache is right when its data is, and what is behind it does not matter.
LEMMA Zeroed ==
  ASSUME NEW flen \in Nat, NEW al, AlOK(al, flen), CacheHolds(al),
         NEW buf \in [0 .. al.size - 1 -> Int], \A i \in 0 .. al.len - 1 : buf[i] = al.buf[i]
  PROVE  LET new == [al EXCEPT !.buf = buf] IN
         AlOK(new, flen) /\ CacheHolds(new) /\ new.unit = al.unit /\ new.size = al.size
<1> DEFINE new == [al EXCEPT !.buf = buf]
<1>1. /\ al.size \in Nat /\ al.buf \in [0 .. al.size - 1 -> Int] /\ al.len \in 0 .. al.size
      /\ al.offset \in Nat
  BY DEF AlOK
<1>2. /\ new.buf = buf /\ new.len = al.len /\ new.offset = al.offset /\ new.size = al.size
      /\ new.unit = al.unit
      /\ new \in [unit : Nat \ {0}, size : Nat, buf : [0 .. al.size - 1 -> Int],
                  offset : Nat, len : Nat]
  BY DEF AlOK
<1> HIDE DEF new
<1>3. AlOK(new, flen)
  BY <1>2 DEF AlOK
<1>4. CacheHolds(new)
  <2> SUFFICES ASSUME NEW i \in 0 .. al.len - 1 PROVE Byte(buf, i) = al.offset + i
    BY <1>2 DEF CacheHolds
  <2>1. i \in DOMAIN buf /\ i \in DOMAIN al.buf
    BY <1>1
  <2>2. Byte(al.buf, i) = al.offset + i
    BY DEF CacheHolds
  <2> QED BY <2>1, <2>2 DEF Byte
<1> QED BY <1>2, <1>3, <1>4 DEF new

\* the byte of the cache that is delivered as byte i
From(in, at, i) ==
  IF Plain(in) THEN at + i
  ELSE at + (i \div Sector) * in.raw + in.skipIn + (i % Sector)

\* How many sectors are delivered, the bytes that lack in the last of them, and
\* those that are zeroed: in the cache of a plain part behind what is of the file.
Amounts(in, k, start, r, n, rest, zero) ==
  /\ n = Lesser(CeilDiv(r.len, in.raw), in.parts[k].offset + in.parts[k].length - start)
  /\ rest = (in.raw - (r.len % in.raw)) % in.raw
  /\ zero = IF rest > in.skipIn THEN n * Sector - (rest + in.skipIn) .. n * Sector - 1 ELSE {}
  /\ Plain(in) => \A z \in zero : z >= r.len /\ r.at + r.len >= r.al.len

MadeLen(n, rest, zero) == IF rest # 0 /\ zero = {} THEN n * Sector - 1 ELSE n * Sector

\* a successful read of an image
Answers(in, w) ==
  RdOK(in, w.rd) /\ w.result = "ok" /\ w.set /\ w.data \in Seq(Bytes)

\* the bytes of its data
Made(in, k, r, zero, len, data) ==
  /\ Len(data) = len
  /\ \A i \in 0 .. len - 1 :
       data[i + 1] = IF i \in zero THEN ZeroByte
                     ELSE FileByte(in.parts[k].file, Byte(r.al.buf, From(in, r.at, i)))

\* The data that img_base_read makes of n sectors, and the cache it leaves, if
\* the bytes it zeroes there are behind those it has of the file.
LEMMA DeliveredShape ==
  ASSUME NEW in, WellFormed(in), in.kind = "image", NEW dev, RdOK(in, dev),
         NEW k \in DOMAIN in.parts, dev.cur = k, NEW start \in Nat,
         NEW r, Cut(in, k, start, r), NEW n \in Nat \ {0}, NEW rest \in Nat, NEW zero,
         Amounts(in, k, start, r, n, rest, zero),
         NEW w, w = Delivered(in, dev, r, start), NEW len, len = MadeLen(n, rest, zero)
  PROVE  Answers(in, w) /\ len \in Nat /\ Made(in, k, r, zero, len, w.data)
<1> DEFINE p == in.parts[k]
           buf == [x \in DOMAIN r.al.buf |->
                     IF Plain(in) /\ (x - r.at) \in zero THEN Zero ELSE r.al.buf[x]]
           byte(i) == IF i \in zero THEN ZeroByte
                      ELSE FileByte(p.file, Byte(r.al.buf, From(in, r.at, i)))
           data == [i \in 1 .. len |-> byte(i - 1)]
<1>0. /\ n = Lesser(CeilDiv(r.len, in.raw), p.offset + p.length - start)
      /\ rest = (in.raw - (r.len % in.raw)) % in.raw
      /\ zero = IF rest > in.skipIn THEN n * Sector - (rest + in.skipIn) .. n * Sector - 1 ELSE {}
      /\ Plain(in) => \A z \in zero : z >= r.len /\ r.at + r.len >= r.al.len
      /\ len = IF rest # 0 /\ zero = {} THEN n * Sector - 1 ELSE n * Sector
  BY DEF Amounts, MadeLen
<1>1. /\ w.rd = [dev EXCEPT !.al = [r.al EXCEPT !.buf = buf]] /\ w.result = "ok" /\ w.set
      /\ w.data = data
  BY <1>0 DEF Delivered, Success, Plain, From
<1>2. /\ AlOK(r.al, p.flen) /\ CacheHolds(r.al) /\ r.al.unit = p.unit
      /\ r.al.size = CacheSize(in, p) /\ r.at \in Nat /\ r.len \in Nat
      /\ r.at + r.len <= r.al.len
  BY DEF Cut, CacheOK
<1>3. /\ r.al.size \in Nat /\ r.al.buf \in [0 .. r.al.size - 1 -> Int]
      /\ r.al.offset \in Nat /\ r.al.len \in 0 .. r.al.size
  BY <1>2 DEF AlOK
<1>4. /\ buf \in [0 .. r.al.size - 1 -> Int]
      /\ \A x \in 0 .. r.al.size - 1 :
           buf[x] = IF Plain(in) /\ (x - r.at) \in zero THEN Zero ELSE r.al.buf[x]
  <2>1. PICK size \in Nat, old \in [0 .. r.al.size - 1 -> Int] : size = r.al.size /\ old = r.al.buf
    BY <1>3
  <2>2. old \in [0 .. size - 1 -> Int] /\ DOMAIN old = 0 .. size - 1 /\ Zero \in Int
    BY <2>1 DEF Zero
  <2>3. buf = [x \in 0 .. size - 1 |-> IF Plain(in) /\ (x - r.at) \in zero THEN Zero ELSE old[x]]
    BY <2>1, <2>2, Zenon
  <2>4. \A x \in 0 .. size - 1 : old[x] \in Int
    BY <2>2
  <2> HIDE DEF buf
  <2> QED BY <2>1, <2>2, <2>3, <2>4
<1>5. \A i \in 0 .. r.al.len - 1 : buf[i] = r.al.buf[i]
  <2> SUFFICES ASSUME NEW i \in 0 .. r.al.len - 1 PROVE buf[i] = r.al.buf[i]
    OBVIOUS
  <2>1. i \in 0 .. r.al.size - 1 /\ i < r.al.len
    BY <1>3
  <2>2. Plain(in) => i - r.at \notin zero
    <3> SUFFICES ASSUME Plain(in), i - r.at \in zero PROVE FALSE
      OBVIOUS
    <3>1. i - r.at >= r.len /\ r.at + r.len >= r.al.len
      BY <1>0
    <3> QED BY <1>2, <1>3, <2>1, <3>1
  <2> HIDE DEF buf
  <2> QED BY <1>4, <2>1, <2>2
<1>6. CacheOK([r.al EXCEPT !.buf = buf], p, CacheSize(in, p))
  <2> HIDE DEF buf
  <2>1. p.flen \in Nat
    BY PartFacts
  <2>2. PICK flen \in Nat, al \in {r.al} : flen = p.flen /\ al = r.al
    BY <2>1
  <2>3. /\ AlOK(al, flen) /\ CacheHolds(al) /\ buf \in [0 .. al.size - 1 -> Int]
        /\ \A i \in 0 .. al.len - 1 : buf[i] = al.buf[i]
    BY <1>2, <1>4, <1>5, <2>2
  <2>4. LET new == [al EXCEPT !.buf = buf] IN
        AlOK(new, flen) /\ CacheHolds(new) /\ new.unit = al.unit /\ new.size = al.size
    BY <2>3, Zeroed
  <2> QED BY <1>2, <2>2, <2>4 DEF CacheOK
<1>9. RdOK(in, w.rd)
  <2>1. \E c, al : dev = [cur |-> c, al |-> al]
    BY DEF RdOK
  <2> PICK c, al : dev = [cur |-> c, al |-> al]
    BY <2>1
  <2>2. c = k /\ k \in 1 .. Len(in.parts) /\ Len(in.parts) \in Nat
    <3>1. k \in 1 .. Len(in.parts) /\ Len(in.parts) \in Nat
      BY InputFacts
    <3> QED BY <3>1
  <2>3. PICK new : new = [r.al EXCEPT !.buf = buf]
    OBVIOUS
  <2>4. w.rd = [cur |-> k, al |-> new]
    BY <1>1, <2>1, <2>2, <2>3
  <2>5. CacheOf(in, p) = CacheSize(in, p) /\ CacheOK(new, p, CacheSize(in, p))
    BY <1>6, <2>3 DEF CacheOf
  <2>6. RdOK(in, [cur |-> k, al |-> new])
    BY <2>2, <2>5, RdAt
  <2> HIDE DEF buf
  <2> QED BY <2>4, <2>6
<1>10. len \in Nat
  <2>1. PICK m \in Nat : m = n * Sector /\ Sector <= m
    BY SizesFacts, AtLeastOne
  <2>2. len = m - 1 \/ len = m
    BY <1>0, <2>1
  <2> QED BY <2>1, <2>2, SizesFacts
<1>11. \A i : byte(i) \in Bytes
  <2>1. \A x : Byte(r.al.buf, x) \in Int
    BY <1>3 DEF Byte, Junk
  <2>2. p.file \in Int
    BY PartFacts
  <2> QED BY <2>1, <2>2 DEF Bytes, ZeroByte, FileByte, Zero
<1>12. data \in Seq(Bytes) /\ Len(data) = len /\ \A i \in 1 .. len : data[i] = byte(i - 1)
  <2> HIDE DEF byte
  <2> QED BY <1>10, <1>11
<1>13. \A i \in 0 .. len - 1 : data[i + 1] = byte(i)
  <2> SUFFICES ASSUME NEW i \in 0 .. len - 1 PROVE data[i + 1] = byte(i)
    OBVIOUS
  <2>1. i + 1 \in 1 .. len /\ i + 1 - 1 = i
    BY <1>10
  <2> HIDE DEF byte, data
  <2> QED BY <1>12, <2>1
<1>14. Answers(in, w)
  <2> HIDE DEF data
  <2> QED BY <1>1, <1>9, <1>12 DEF Answers
<1>15. Made(in, k, r, zero, len, w.data)
  <2> HIDE DEF data
  <2> QED BY <1>1, <1>12, <1>13 DEF Made
<1> QED BY <1>10, <1>14, <1>15

\* the index in the cache of byte t of the sector q that is delivered
Place(in, at, i, q, t, j) ==
  /\ q \in Nat /\ t \in 0 .. Sector - 1 /\ j \in Nat
  /\ q = i \div Sector /\ t = i % Sector /\ i = q * Sector + t
  /\ j = q * in.raw + in.skipIn + t /\ j < q * in.raw + in.raw
  /\ From(in, at, i) = at + j

LEMMA Picks ==
  ASSUME NEW in, WellFormed(in), NEW at \in Nat, NEW i \in Nat
  PROVE  \E q, t, j : Place(in, at, i, q, t, j)
<1>1. PICK raw \in Nat \ {0}, skipIn \in Nat, S \in Nat \ {0} :
        raw = in.raw /\ skipIn = in.skipIn /\ S = Sector /\ skipIn + S <= raw
  BY InputFacts, SizesFacts
<1>2. PICK q \in Nat, t \in 0 .. S - 1 : q = i \div S /\ t = i % S /\ i = q * S + t
  <2>1. \E q \in Nat, t \in 0 .. S - 1 : q = i \div S /\ t = i % S /\ i = q * S + t
    BY Divided, Zenon
  <2> QED BY <2>1
<1>3. q * raw \in Nat
  BY TimesNat
<1>4. PICK j \in Nat : j = q * raw + skipIn + t /\ j < q * raw + raw
  <2>1. q * raw + skipIn + t \in Nat /\ q * raw + skipIn + t < q * raw + raw
    BY <1>1, <1>3
  <2> QED BY <2>1
<1>5. CASE Plain(in)
  <2>1. raw = S /\ skipIn = 0
    BY <1>1, <1>5 DEF Plain
  <2>2. at + i = at + j
    BY <1>2, <1>4, <2>1
  <2> QED BY <1>1, <1>2, <1>4, <1>5, <2>2 DEF Place, From
<1>6. CASE ~Plain(in)
  <2>1. at + q * raw + skipIn + t = at + j
    BY <1>3, <1>4
  <2> QED BY <1>1, <1>2, <1>4, <1>6, <2>1 DEF Place, From
<1> QED BY <1>5, <1>6

\* sectors left in a part
LEMMA PartLeft ==
  ASSUME NEW in, WellFormed(in), NEW k \in DOMAIN in.parts, NEW start \in Nat,
         Contains(in.parts[k], start)
  PROVE  \E m \in Nat \ {0} :
           /\ m = in.parts[k].offset + in.parts[k].length - start
           /\ \A q \in Nat : q < m => Contains(in.parts[k], start + q)
<1>1. PICK o \in Nat, L \in Nat : o = in.parts[k].offset /\ L = in.parts[k].length
  BY PartFacts
<1>2. o <= start /\ start < o + L
  BY <1>1 DEF Contains
<1>3. PICK m \in Nat \ {0} : m = o + L - start
  BY <1>2
<1>4. \A q \in Nat : q < m => o <= start + q /\ start + q < o + L
  BY <1>2, <1>3
<1> QED BY <1>1, <1>3, <1>4 DEF Contains

\* byte i of what is delivered is that of the input
Stands(in, k, start, r, i) ==
  FileByte(in.parts[k].file, Byte(r.al.buf, From(in, r.at, i)))
    = Source(in, start + (i \div Sector), i % Sector)

\* A byte of the file that is delivered is the byte of the input it is for.
LEMMA ByteDelivered ==
  ASSUME NEW in, WellFormed(in), NEW k \in DOMAIN in.parts, NEW start \in Nat,
         Contains(in.parts[k], start), NEW r, Cut(in, k, start, r),
         NEW i, NEW q, NEW t, NEW j, Place(in, r.at, i, q, t, j), j < r.len,
         Contains(in.parts[k], start + q)
  PROVE  Stands(in, k, start, r, i)
<1> DEFINE p == in.parts[k]
<1>1. PICK raw \in Nat \ {0}, skipIn \in Nat, o \in Nat, skip \in Nat, flen \in Nat :
        /\ raw = in.raw /\ skipIn = in.skipIn /\ o = p.offset /\ skip = p.skip /\ flen = p.flen
  BY InputFacts, PartFacts
<1>2. /\ AlOK(r.al, flen) /\ CacheHolds(r.al)
      /\ r.at \in Nat /\ r.len \in Nat /\ r.at + r.len <= r.al.len
      /\ skip + (start - o) * raw \in Nat
      /\ r.al.offset + r.at = skip + (start - o) * raw
      /\ r.len <= flen - (skip + (start - o) * raw)
  BY <1>1 DEF Cut, CacheOK
<1>3. PICK offset \in Nat, at \in Nat, len \in Nat, aloff \in Nat, allen \in Nat :
        /\ offset = skip + (start - o) * raw /\ at = r.at /\ len = r.len
        /\ aloff = r.al.offset /\ allen = r.al.len
  BY <1>2 DEF AlOK
<1>4. /\ at + len <= allen /\ aloff + at = offset /\ len <= flen - offset
  BY <1>2, <1>3
<1>5. /\ q \in Nat /\ t \in 0 .. Sector - 1 /\ j \in Nat
      /\ q = i \div Sector /\ t = i % Sector
      /\ j = q * raw + skipIn + t /\ From(in, r.at, i) = at + j
  BY <1>1, <1>3 DEF Place
<1>6. t \in Nat /\ j < len
  BY <1>3, <1>5, SizesFacts
<1>7. Byte(r.al.buf, at + j) = offset + j
  <2>1. at + j \in 0 .. allen - 1 /\ aloff + (at + j) = offset + j
    BY <1>4, <1>5, <1>6
  <2>2. at + j \in 0 .. r.al.len - 1 /\ r.al.offset + (at + j) = offset + j
    BY <1>3, <2>1, Zenon
  <2> QED BY <1>2, <2>2 DEF CacheHolds
<1>12. PICK s \in Nat : s = start + q
  BY <1>5
<1>8. skip + (s - o) * raw + skipIn + t = offset + j
  <2>1. PICK d \in Nat : d = start - o /\ s - o = d + q
    BY <1>1, <1>5, <1>12 DEF Contains
  <2>2. (d + q) * raw = d * raw + q * raw
    BY <1>5
  <2>3. d * raw \in Nat /\ q * raw \in Nat
    BY <1>5, TimesNat
  <2>4. offset = skip + d * raw /\ j = q * raw + skipIn + t
    BY <1>3, <1>5, <2>1
  <2>5. skip + (d + q) * raw + skipIn + t = offset + j
    BY <1>6, <2>2, <2>3, <2>4
  <2> QED BY <2>1, <2>5
<1>9. offset + j < flen
  BY <1>4, <1>5, <1>6
<1>10. Source(in, start + q, t) = FileByte(p.file, offset + j)
  <2>2. PICK x \in Nat : x = offset + j
    BY <1>5
  <2>3. x = p.skip + (s - p.offset) * in.raw + in.skipIn + t /\ Contains(p, s)
    <3>1. x = skip + (s - o) * raw + skipIn + t
      BY <1>8, <2>2, Zenon
    <3> QED BY <1>1, <1>12, <3>1, Zenon
  <2>4. Source(in, s, t) = IF x < p.flen THEN FileByte(p.file, x) ELSE ZeroByte
    BY <2>3, SourceInPart
  <2> QED BY <1>1, <1>9, <1>12, <2>2, <2>4
<1>11. FileByte(p.file, Byte(r.al.buf, From(in, r.at, i))) = Source(in, start + q, t)
  BY <1>5, <1>7, <1>10
<1> HIDE DEF p
<1> QED BY <1>5, <1>11 DEF p, Stands

\* Whole sectors are delivered, as far as the part goes.
LEMMA WholeDelivered ==
  ASSUME NEW in, WellFormed(in), in.kind = "image", NEW dev, RdOK(in, dev),
         NEW k \in DOMAIN in.parts, dev.cur = k, NEW start \in Nat, Contains(in.parts[k], start),
         NEW r, Cut(in, k, start, r), NEW c \in Nat \ {0}, r.len = c * in.raw,
         NEW w, w = Delivered(in, dev, r, start), NEW n \in Nat \ {0},
         n = Lesser(c, in.parts[k].offset + in.parts[k].length - start)
  PROVE  Answers(in, w) /\ Delivers(in, start, n, w.data)
<1> DEFINE p == in.parts[k]
<1>1. PICK raw \in Nat \ {0}, len \in Nat : raw = in.raw /\ len = r.len /\ len = c * raw
  BY InputFacts DEF Cut
<1>2. PICK m \in Nat \ {0} :
        /\ m = p.offset + p.length - start
        /\ \A q \in Nat : q < m => Contains(p, start + q)
  BY PartLeft
<1>3. n <= c /\ n <= m
  BY <1>2 DEF Lesser
<1>5. CeilDiv(len, raw) = c /\ (raw - (len % raw)) % raw = 0
  <2>1. CeilDiv(c * raw, raw) = c /\ (raw - ((c * raw) % raw)) % raw = 0
    BY WholeSectors, Zenon
  <2>2. len = c * raw
    BY <1>1
  <2> QED BY <2>1, <2>2, Zenon
<1>6. PICK rest \in Nat, zero \in SUBSET Int : rest = 0 /\ zero = {}
  OBVIOUS
<1>7. Amounts(in, k, start, r, n, rest, zero)
  <2>1. n = Lesser(CeilDiv(r.len, in.raw), p.offset + p.length - start)
    BY <1>1, <1>5
  <2>2. rest = (in.raw - (r.len % in.raw)) % in.raw
    BY <1>1, <1>5, <1>6
  <2>3. ~(rest > in.skipIn)
    BY <1>6, InputFacts
  <2> QED BY <1>6, <2>1, <2>2, <2>3 DEF Amounts
<1>8. n * Sector = MadeLen(n, rest, zero)
  BY <1>6 DEF MadeLen
<1>9. Answers(in, w) /\ n * Sector \in Nat /\ Made(in, k, r, zero, n * Sector, w.data)
  BY <1>7, <1>8, DeliveredShape
<1>10. ASSUME NEW i \in 0 .. n * Sector - 1
       PROVE  w.data[i + 1] = Source(in, start + (i \div Sector), i % Sector)
  <2>1. r.at \in Nat /\ i \in Nat
    BY <1>9 DEF Cut
  <2>2. PICK q, t, j : Place(in, r.at, i, q, t, j)
    BY <2>1, Picks
  <2>3. q < n /\ q \in Nat
    <3>1. q * Sector + t < n * Sector /\ q \in Nat /\ t \in 0 .. Sector - 1
      BY <1>9, <2>1, <2>2 DEF Place
    <3> QED BY <3>1, SizesFacts, SectorOf
  <2>4. j < len
    <3>1. q + 1 <= c /\ q + 1 \in Nat
      BY <1>3, <2>3
    <3>2. (q + 1) * raw <= c * raw
      BY <3>1, TimesMonotone
    <3>3. (q + 1) * raw = q * raw + raw /\ q * raw \in Nat /\ c * raw \in Nat
      BY <2>3, TimesNat
    <3>4. j \in Nat /\ j < q * raw + raw
      BY <1>1, <2>2 DEF Place
    <3> QED BY <1>1, <3>2, <3>3, <3>4
  <2>5. Contains(p, start + q)
    BY <1>2, <1>3, <2>3
  <2>6. Stands(in, k, start, r, i)
    <3>1. j < r.len
      BY <1>1, <2>4
    <3> HIDE DEF p
    <3> QED BY <2>2, <2>5, <3>1, ByteDelivered, Zenon DEF p
  <2>7. w.data[i + 1] = FileByte(p.file, Byte(r.al.buf, From(in, r.at, i)))
    BY <1>6, <1>9 DEF Made
  <2> QED BY <2>6, <2>7 DEF Stands
<1>11. Len(w.data) = n * Sector
  BY <1>9 DEF Made
<1> QED BY <1>9, <1>10, <1>11 DEF Delivers

\* All sectors that are left of a plain part are delivered when its file ends in
\* the last one, whose end is zeroed.
LEMMA PartialDelivered ==
  ASSUME NEW in, WellFormed(in), in.kind = "image", Plain(in), NEW dev, RdOK(in, dev),
         NEW k \in DOMAIN in.parts, dev.cur = k, NEW start \in Nat, Contains(in.parts[k], start),
         NEW r, Cut(in, k, start, r), NEW n \in Nat \ {0},
         n = in.parts[k].offset + in.parts[k].length - start,
         NEW t \in 1 .. in.raw - 1, r.len = (n - 1) * in.raw + t,
         r.len = in.parts[k].flen - (in.parts[k].skip + (start - in.parts[k].offset) * in.raw),
         NEW w, w = Delivered(in, dev, r, start)
  PROVE  Answers(in, w) /\ Delivers(in, start, n, w.data)
<1> DEFINE p == in.parts[k]
<1>1. PICK raw \in Nat \ {0}, len \in Nat, o \in Nat, skip \in Nat, flen \in Nat :
        /\ raw = in.raw /\ len = r.len /\ o = p.offset /\ skip = p.skip /\ flen = p.flen
  BY InputFacts, PartFacts DEF Cut
<1>2. raw = Sector /\ in.skipIn = 0
  BY <1>1 DEF Plain
<1>3. len = (n - 1) * raw + t /\ t \in 1 .. raw - 1 /\ n - 1 \in Nat
  BY <1>1
<1>4. (n - 1) * raw \in Nat /\ n * raw = (n - 1) * raw + raw
  BY <1>3, TimesNat
<1>5. CeilDiv(len, raw) = n /\ (raw - (len % raw)) % raw = raw - t
  <2>1. EndsIn(raw, n, t, len)
    BY <1>3 DEF EndsIn
  <2> QED BY <2>1, LastSector
<1>6. PICK rest \in Nat \ {0}, zero \in SUBSET Int : rest = raw - t /\ zero = len .. n * Sector - 1
  BY <1>3
<1>7. n * Sector - (rest + 0) = len /\ n * Sector \in Nat /\ n * Sector - 1 \in zero
  <2>1. PICK a \in Nat, b \in Nat : a = (n - 1) * raw /\ b = n * Sector
    BY <1>2, <1>4, SizesFacts, TimesNat
  <2>2. b = a + raw /\ len = a + t
    BY <1>2, <1>3, <1>4, <2>1, Zenon
  <2>3. b - (rest + 0) = len /\ b \in Nat /\ b - 1 \in len .. b - 1
    BY <1>3, <1>6, <2>2
  <2> QED BY <1>6, <2>1, <2>3, Zenon
<1>8. r.at + r.len >= r.al.len
  <2>1. PICK at \in Nat, offset \in Nat, aloff \in Nat, allen \in Nat :
          /\ at = r.at /\ offset = skip + (start - o) * raw
          /\ aloff = r.al.offset /\ allen = r.al.len
    BY <1>1 DEF Cut, CacheOK, AlOK
  <2>2. aloff + at = offset /\ len = flen - offset /\ (allen > 0 => aloff + allen <= flen)
    BY <1>1, <2>1 DEF Cut, CacheOK, AlOK
  <2>3. at + len >= allen
    BY <2>2
  <2> QED BY <1>1, <2>1, <2>3
<1>9. Amounts(in, k, start, r, n, rest, zero)
  <2>1. n = Lesser(CeilDiv(r.len, in.raw), p.offset + p.length - start)
    BY <1>1, <1>5 DEF Lesser
  <2>2. rest = (in.raw - (r.len % in.raw)) % in.raw
    BY <1>1, <1>5, <1>6
  <2>3. rest > in.skipIn /\ n * Sector - (rest + in.skipIn) = len
    BY <1>2, <1>6, <1>7
  <2>4. zero = n * Sector - (rest + in.skipIn) .. n * Sector - 1
    BY <1>6, <2>3
  <2>5. \A z \in zero : z >= r.len
    BY <1>1, <1>6, <1>7
  <2> QED BY <1>8, <2>1, <2>2, <2>3, <2>4, <2>5 DEF Amounts
<1>10. n * Sector = MadeLen(n, rest, zero)
  BY <1>7 DEF MadeLen
<1>11. Answers(in, w) /\ Made(in, k, r, zero, n * Sector, w.data)
  BY <1>9, <1>10, DeliveredShape
<1>12. \A q \in Nat : q < n => Contains(p, start + q)
  BY PartLeft
<1>13. ASSUME NEW i \in 0 .. n * Sector - 1
       PROVE  w.data[i + 1] = Source(in, start + (i \div Sector), i % Sector)
  <2>1. r.at \in Nat /\ i \in Nat
    BY <1>7 DEF Cut
  <2>2. PICK q, u, j : Place(in, r.at, i, q, u, j)
    BY <2>1, Picks
  <2>3. q < n /\ q \in Nat
    <3>1. q * Sector + u < n * Sector /\ q \in Nat /\ u \in 0 .. Sector - 1
      BY <1>7, <2>1, <2>2 DEF Place
    <3> QED BY <3>1, SizesFacts, SectorOf
  <2>4. Contains(p, start + q)
    BY <1>12, <2>3
  <2>5. j = i
    <3>1. PICK a \in Nat : a = q * Sector
      BY <2>3, SizesFacts, TimesNat
    <3>2. u \in Nat /\ i = q * Sector + u /\ j = q * in.raw + in.skipIn + u
      BY <2>2, SizesFacts DEF Place
    <3>3. i = a + u /\ j = a + 0 + u
      BY <1>1, <1>2, <3>1, <3>2, Zenon
    <3> QED BY <3>2, <3>3
  <2>6. CASE i < len
    <3>1. j < r.len
      BY <1>1, <2>5, <2>6
    <3>2. Stands(in, k, start, r, i)
      <4> HIDE DEF p
      <4> QED BY <2>2, <2>4, <3>1, ByteDelivered, Zenon DEF p
    <3>3. i \notin zero
      BY <1>6, <2>6
    <3> QED BY <1>11, <3>2, <3>3 DEF Made, Stands
  <2>7. CASE len <= i
    <3>1. i \in zero
      BY <1>6, <2>7
    <3>2. w.data[i + 1] = ZeroByte
      BY <1>11, <3>1 DEF Made
    <3>3. PICK s \in Nat, d \in Nat : s = start + q /\ d = start - o /\ s - o = d + q
      BY <1>1, <2>3 DEF Contains
    <3>4. (d + q) * raw = d * raw + q * raw /\ d * raw \in Nat /\ q * raw \in Nat
      BY <2>3, TimesNat
    <3>5. /\ q = i \div Sector /\ u = i % Sector /\ u \in Nat
          /\ i = q * raw + u
      BY <1>2, <2>2, SizesFacts DEF Place
    <3>6. len = flen - (skip + d * raw)
      BY <1>1, <3>3
    <3>7. PICK x \in Nat : x = skip + (d + q) * raw + 0 + u /\ ~(x < flen)
      BY <2>7, <3>4, <3>5, <3>6
    <3>8. x = p.skip + (s - p.offset) * in.raw + in.skipIn + u
      BY <1>1, <1>2, <3>3, <3>7, Zenon
    <3>9. Source(in, s, u) = ZeroByte
      <4>1. Source(in, s, u) = IF x < p.flen THEN FileByte(p.file, x) ELSE ZeroByte
        BY <2>4, <3>3, <3>8, SourceInPart
      <4> QED BY <1>1, <3>7, <4>1
    <3> QED BY <3>2, <3>3, <3>5, <3>9
  <2> QED BY <1>1, <2>1, <2>6, <2>7
<1>14. Len(w.data) = n * Sector
  BY <1>11 DEF Made
<1> QED BY <1>11, <1>13, <1>14 DEF Delivers

\* Some of a sector is delivered of raw sectors, whatever follows the last one.
LEMMA SomeDelivered ==
  ASSUME NEW in, WellFormed(in), in.kind = "image", ~Plain(in), NEW dev, RdOK(in, dev),
         NEW k \in DOMAIN in.parts, dev.cur = k, NEW start \in Nat, Contains(in.parts[k], start),
         NEW r, Cut(in, k, start, r), r.len > 0,
         NEW w, w = Delivered(in, dev, r, start)
  PROVE  Answers(in, w)
<1>1. PICK raw \in Nat \ {0}, len \in Nat \ {0} : raw = in.raw /\ len = r.len
  BY InputFacts DEF Cut
<1>2. PICK m \in Nat \ {0} : m = in.parts[k].offset + in.parts[k].length - start
  BY PartLeft
<1>3. \E q \in Nat, t \in 0 .. raw - 1 : q = len \div raw /\ t = len % raw /\ len = q * raw + t
  BY Divided, Zenon
<1>4. PICK q \in Nat, t \in 0 .. raw - 1 : len = q * raw + t
  BY <1>3
<1>5. PICK c \in Nat \ {0}, rest \in Nat :
        c = CeilDiv(len, raw) /\ rest = (raw - (len % raw)) % raw
  <2>1. CASE t = 0
    <3>1. len = q * raw /\ q # 0
      <4>1. q * raw \in Nat /\ (q = 0 => q * raw = 0)
        BY TimesNat
      <4> QED BY <1>4, <2>1, <4>1
    <3>2. CeilDiv(len, raw) = q /\ (raw - (len % raw)) % raw = 0
      BY <3>1, WholeSectors
    <3> QED BY <3>1, <3>2
  <2>2. CASE t # 0
    <3>1. t \in 1 .. raw - 1
      BY <2>2
    <3>2. PICK n \in Nat \ {0} : n = q + 1
      OBVIOUS
    <3>3. EndsIn(raw, n, t, len)
      BY <1>4, <3>1, <3>2 DEF EndsIn
    <3>4. CeilDiv(len, raw) = n /\ (raw - (len % raw)) % raw = raw - t
      BY <3>3, LastSector
    <3> QED BY <3>1, <3>4
  <2> QED BY <2>1, <2>2
<1>6. PICK n \in Nat \ {0} : n = Lesser(c, m)
  BY DEF Lesser
<1>7. PICK zero : zero = IF rest > in.skipIn THEN n * Sector - (rest + in.skipIn) .. n * Sector - 1
                         ELSE {}
  OBVIOUS
<1>8. Amounts(in, k, start, r, n, rest, zero)
  BY <1>1, <1>2, <1>5, <1>6, <1>7 DEF Amounts
<1>9. PICK len2 : len2 = MadeLen(n, rest, zero)
  OBVIOUS
<1> QED BY <1>8, <1>9, DeliveredShape

LEMMA OnePart ==
  ASSUME NEW in, WellFormed(in), Len(in.parts) = 1, NEW k \in DOMAIN in.parts
  PROVE  k = 1 /\ in.parts[k].offset = 0 /\ in.parts[k].length = Total(in)
<1>1. k = 1 /\ in.parts[1].length \in Nat
  BY InputFacts, PartFacts
<1>2. in.parts[1].offset = 0
  BY DEF WellFormed, InOrder
<1>3. Total(in) = in.parts[1].offset + in.parts[1].length
  BY DEF Total
<1> QED BY <1>1, <1>2, <1>3

\* what al_read gives without a fault
Given(al, flen, offset, bytes, r) ==
  /\ r.ok /\ AlOK(r.al, flen) /\ CacheHolds(r.al)
  /\ r.al.unit = al.unit /\ r.al.size = al.size
  /\ r.at \in Nat /\ r.al.offset + r.at = offset
  /\ r.len \in Nat /\ r.len <= bytes /\ r.len <= flen - offset
  /\ r.at + r.len <= r.al.len
  /\ r.len = bytes \/ r.len = flen - offset \/ r.len = al.size - (offset % al.unit)

LEMMA Gives ==
  ASSUME NEW flen \in Nat, NEW al, AlOK(al, flen), CacheHolds(al),
         NEW offset \in Nat, NEW bytes \in Nat, offset <= flen,
         offset % al.unit <= al.size
  PROVE  Given(al, flen, offset, bytes, AlRead(al, flen, offset, bytes, "none"))
BY ReadGives DEF Given

\* what al_read gives of the sectors that are asked for: Amount, of a part
CutOf(in, k, start, num, r) ==
  LET p == in.parts[k]
      s == start - p.offset
      before == Before(in, p, s)
      size == CacheSize(in, p)
  IN /\ Cut(in, k, start, r) /\ r.len <= num * in.raw
     /\ \/ r.len = num * in.raw
        \/ r.len = p.flen - (p.skip + s * in.raw)
        \/ r.len = size - before
     /\ p.skip + s * in.raw <= p.flen

LEMMA ReadCuts ==
  ASSUME NEW in, WellFormed(in), in.kind = "image", NEW dev, RdOK(in, dev),
         NEW k \in DOMAIN in.parts, dev.cur = k, NEW start \in Nat, Contains(in.parts[k], start),
         NEW num \in 1 .. Num, Fits(in, start, num)
  PROVE  \E r : /\ CutOf(in, k, start, num, r)
                /\ \A fault \in {"none", "open"} :
                     FromPart(in, dev, start, num, fault) = Delivered(in, dev, r, start)
<1> DEFINE p == in.parts[k]
           s == start - p.offset
<1>1. PICK raw \in Nat \ {0}, flen \in Nat, unit \in Nat \ {0}, bytes \in Nat :
        raw = in.raw /\ flen = p.flen /\ unit = p.unit /\ bytes = num * raw
  <2>1. PICK raw \in Nat \ {0} : raw = in.raw
    BY InputFacts
  <2>2. num * raw \in Nat
    BY TimesNat
  <2> QED BY <2>1, <2>2, PartFacts
<1>2. s \in 0 .. p.length - 1
  <2>1. p.offset \in Nat /\ p.length \in Nat
    BY PartFacts
  <2> QED BY <2>1 DEF Contains
<1>3. PICK offset \in Nat : offset = p.skip + s * raw /\ offset <= flen
  BY <1>1, <1>2, SectorStarts
<1>4. PICK al : al = dev.al /\ AlOK(al, flen) /\ CacheHolds(al) /\ al.unit = unit
                /\ al.size = CacheSize(in, p)
  <2>1. k # 0
    BY InputFacts
  <2> QED BY <1>1, <2>1 DEF RdOK, CacheOK, CacheOf
<1>5. offset % al.unit = Before(in, p, s) /\ offset % al.unit <= al.size
  <2>1. PICK before \in Nat, size \in Nat :
          before = Before(in, p, s) /\ size = CacheSize(in, p) /\ before + raw <= size
    BY <1>1, RoomFor
  <2>2. offset % al.unit = before
    BY <1>1, <1>3, <1>4, <2>1 DEF Before
  <2> QED BY <1>4, <2>1, <2>2
<1>6. PICK r : r = AlRead(al, flen, offset, bytes, "none")
  OBVIOUS
<1>7. Given(al, flen, offset, bytes, r)
  BY <1>3, <1>4, <1>5, <1>6, Gives
<1>8. CutOf(in, k, start, num, r)
  BY <1>1, <1>3, <1>4, <1>5, <1>7 DEF Given, CutOf, Cut, CacheOK
<1>9. ASSUME NEW fault \in {"none", "open"}
      PROVE  FromPart(in, dev, start, num, fault) = Delivered(in, dev, r, start)
  <2>1. (IF fault = "open" THEN "none" ELSE fault) = "none"
    OBVIOUS
  <2>2. r = AlRead(dev.al, in.parts[dev.cur].flen,
                   in.parts[dev.cur].skip + (start - in.parts[dev.cur].offset) * in.raw,
                   num * in.raw, IF fault = "open" THEN "none" ELSE fault)
    BY <1>1, <1>3, <1>4, <1>6, <2>1
  <2> QED BY <1>7, <2>2 DEF Given, FromPart, Picked
<1> QED BY <1>8, <1>9

\* A read from the part the reader is at.
LEMMA FromPartRight ==
  ASSUME NEW in, WellFormed(in), in.kind = "image", NEW dev, RdOK(in, dev),
         NEW k \in DOMAIN in.parts, dev.cur = k, NEW start \in Nat, Contains(in.parts[k], start),
         NEW num \in 1 .. Num, Fits(in, start, num),
         NEW r, CutOf(in, k, start, num, r), NEW w, w = Delivered(in, dev, r, start)
  PROVE  Answers(in, w) /\ (start + num <= Total(in) => Right(in, start, num, w.data))
<1> DEFINE p == in.parts[k]
<1>1. PICK raw \in Nat \ {0}, o \in Nat, length \in Nat \ {0}, skip \in Nat, flen \in Nat :
        /\ raw = in.raw /\ o = p.offset /\ length = p.length /\ skip = p.skip /\ flen = p.flen
  BY InputFacts, PartFacts
<1>2. PICK s \in 0 .. length - 1 : s = start - o
  <2>1. p.offset <= start /\ start < p.offset + p.length
    BY DEF Contains
  <2>2. o <= start /\ start < o + length
    BY <1>1, <2>1
  <2> QED BY <2>2
<1>3. PICK m \in Nat \ {0} : m = p.offset + p.length - start /\ m = length - s
  <2>1. PICK m \in Nat \ {0} : m = p.offset + p.length - start
    BY PartLeft
  <2> QED BY <1>1, <1>2, <2>1
<1>4. PICK before \in Nat, size \in Nat :
        /\ before = Before(in, p, s) /\ size = CacheSize(in, p) /\ before + raw <= size
        /\ before + num * raw <= size \/ (size - before) % raw = 0
        /\ Len(in.parts) = 1 /\ start % Num = 0 => before + num * raw <= size
  BY <1>1, <1>2, RoomFor
<1>5. Cut(in, k, start, r)
  BY DEF CutOf
<1>6. PICK len \in Nat :
        /\ len = r.len /\ len <= num * raw /\ len <= flen - (skip + s * raw)
        /\ len = num * raw \/ len = flen - (skip + s * raw) \/ len = size - before
  BY <1>1, <1>2, <1>4 DEF CutOf, Cut
<1>7. Len(in.parts) = 1 /\ start + num <= Total(in) => num <= m /\ s + num <= length
  <2> SUFFICES ASSUME Len(in.parts) = 1, start + num <= Total(in)
               PROVE  num <= m /\ s + num <= length
    OBVIOUS
  <2>1. o = 0 /\ length = Total(in)
    BY <1>1, OnePart
  <2> QED BY <1>2, <1>3, <2>1
<1>8. ASSUME NEW n \in 1 .. num, Delivers(in, start, n, w.data),
             start + num <= Total(in), Len(in.parts) = 1 /\ start % Num = 0 => n = num
      PROVE  Right(in, start, num, w.data)
  BY <1>8 DEF Right
<1>9. CASE len = num * raw
  <2>1. PICK n \in Nat \ {0} : n = Lesser(num, m) /\ n \in 1 .. num
    BY DEF Lesser
  <2>2. Answers(in, w) /\ Delivers(in, start, n, w.data)
    <3>1. /\ num \in Nat \ {0} /\ r.len = num * in.raw
          /\ n = Lesser(num, p.offset + p.length - start)
      BY <1>1, <1>3, <1>6, <1>9, <2>1
    <3> QED BY <1>5, <2>1, <3>1, WholeDelivered
  <2>3. Len(in.parts) = 1 /\ start + num <= Total(in) => n = num
    BY <1>7, <2>1 DEF Lesser
  <2> QED BY <1>8, <2>1, <2>2, <2>3
<1>10. CASE /\ skip + length * raw <= flen /\ ~((flen - skip) % raw = 0) /\ ~(s + num <= length)
            /\ ~Plain(in) /\ k = Len(in.parts)
  <2>1. ~(start + num <= Total(in))
    <3>1. Total(in) = o + length
      BY <1>1, <1>10 DEF Total
    <3>2. ~(s + num <= length)
      BY <1>10
    <3>3. ~(start + num <= o + length)
      BY <1>2, <3>2
    <3> QED BY <3>1, <3>3
  <2>2. len > 0
    <3>1. skip + s * raw + raw <= flen
      BY <1>1, <1>2, <1>10, SectorStarts
    <3>2. PICK a \in Nat : a = num * raw /\ raw <= a
      BY AtLeastOne
    <3>3. s * raw \in Nat
      BY TimesNat
    <3> QED BY <1>4, <1>6, <3>1, <3>2, <3>3
  <2>3. Answers(in, w)
    BY <1>5, <1>6, <1>10, <2>2, SomeDelivered
  <2> QED BY <2>1, <2>3
<1>11. CASE \/ skip + length * raw <= flen /\ ((flen - skip) % raw = 0 \/ s + num <= length)
            \/ Plain(in) /\ skip + (length - 1) * raw < flen /\ flen < skip + length * raw
  <2>1. AskedOf(raw, skip, length, s, num, flen, len, before, size)
    BY <1>4, <1>6, <1>11 DEF AskedOf
  <2>2. \/ len = num * raw
        \/ RestOf(raw, skip, length, s, num, flen, len)
        \/ SomeOf(raw, length, s, num, len, before, size)
    <3>1. num \in Nat \ {0} /\ s \in 0 .. length - 1
      OBVIOUS
    <3> QED BY <2>1, <3>1, Amount
  <2>3. CASE RestOf(raw, skip, length, s, num, flen, len)
    <3>1. Plain(in)
      BY <1>11, <2>3 DEF RestOf
    <3>2. PICK t \in 1 .. raw - 1 : len = (length - s - 1) * raw + t
      BY <2>3, Zenon DEF RestOf
    <3>3. m <= num /\ len = (m - 1) * raw + t /\ len = flen - (skip + s * raw)
      BY <1>3, <2>3, <3>2 DEF RestOf
    <3>4. t \in 1 .. in.raw - 1 /\ r.len = (m - 1) * in.raw + t
          /\ r.len = p.flen - (p.skip + (start - p.offset) * in.raw)
      BY <1>1, <1>2, <1>6, <3>3
    <3>5. Answers(in, w) /\ Delivers(in, start, m, w.data)
      BY <1>3, <1>5, <3>1, <3>4, PartialDelivered
    <3>6. Len(in.parts) = 1 /\ start + num <= Total(in) => m = num
      BY <1>7, <3>3
    <3>7. m \in 1 .. num
      BY <3>3
    <3> QED BY <1>8, <3>5, <3>6, <3>7
  <2>4. CASE SomeOf(raw, length, s, num, len, before, size)
    <3>1. PICK c \in 1 .. num : len = c * raw
      BY <2>4 DEF SomeOf
    <3>2. PICK n \in Nat \ {0} : n = Lesser(c, m) /\ n \in 1 .. num
      BY DEF Lesser
    <3>3. Answers(in, w) /\ Delivers(in, start, n, w.data)
      <4>1. c \in Nat \ {0} /\ r.len = c * in.raw /\ n = Lesser(c, p.offset + p.length - start)
        BY <1>1, <1>3, <1>6, <3>1, <3>2
      <4> QED BY <1>5, <3>2, <4>1, WholeDelivered
    <3>4. ~(Len(in.parts) = 1 /\ start % Num = 0 /\ start + num <= Total(in))
      BY <1>4, <1>7, <2>4 DEF SomeOf
    <3> QED BY <1>8, <3>2, <3>3, <3>4
  <2> QED BY <1>9, <2>2, <2>3, <2>4
<1>12. EndsWell(in, k)
  BY DEF WellFormed
<1> QED BY <1>1, <1>10, <1>11, <1>12 DEF EndsWell

\* The cache is kept for another part of its file, a new one is made for another
\* file.
LEMMA SwitchedOK ==
  ASSUME NEW in, WellFormed(in), in.kind = "image", NEW dev, RdOK(in, dev),
         NEW k \in DOMAIN in.parts
  PROVE  RdOK(in, Switched(in, dev, k)) /\ Switched(in, dev, k).cur = k
<1>1. PICK c, al : dev = [cur |-> c, al |-> al]
  BY DEF RdOK
<1>2. dev.cur = c /\ dev.al = al /\ c \in 0 .. Len(in.parts)
  BY <1>1 DEF RdOK
<1>3. k \in 1 .. Len(in.parts) /\ Len(in.parts) \in Nat
  BY InputFacts
<1>0. PICK p : p = in.parts[k]
  OBVIOUS
<1>4. PICK unit \in Nat \ {0}, flen \in Nat : p = in.parts[k] /\ unit = p.unit /\ flen = p.flen
  BY <1>0, PartFacts
<1>5. CASE c # 0 /\ in.parts[c].file = p.file
  <2>1. c \in DOMAIN in.parts /\ c \in Nat /\ k \in Nat
    BY <1>2, <1>3, <1>5, InputFacts
  <2>2. in.parts[c].flen = p.flen /\ in.parts[c].unit = p.unit
    <3>1. CASE c < k
      BY <1>4, <1>5, <2>1, <3>1, PartsApart
    <3>2. CASE k < c
      BY <1>4, <1>5, <2>1, <3>2, PartsApart
    <3> QED BY <1>4, <2>1, <3>1, <3>2
  <2>3. CacheOK(al, in.parts[c], CacheSize(in, in.parts[c]))
    BY <1>2, <1>5 DEF RdOK, CacheOf
  <2>4. CacheSize(in, in.parts[c]) = CacheSize(in, p)
    BY <2>2 DEF CacheSize, CacheUnits
  <2>5. CacheOK(al, p, CacheOf(in, p))
    BY <2>2, <2>3, <2>4 DEF CacheOK, CacheOf
  <2>6. Switched(in, dev, k) = [cur |-> k, al |-> al]
    BY <1>1, <1>2, <1>4, <1>5 DEF Switched
  <2>7. RdOK(in, [cur |-> k, al |-> al])
    BY <1>3, <1>4, <2>5, RdAt
  <2> QED BY <2>6, <2>7
<1>6. CASE ~(c # 0 /\ in.parts[c].file = p.file)
  <2>1. PICK units \in Nat : units = CacheUnits(in, p)
    <3>1. PICK raw \in Nat \ {0} : raw = in.raw
      BY InputFacts
    <3>2. raw * Num \in Nat
      BY SizesFacts, TimesNat
    <3>3. raw * Num + raw - 1 \in Nat
      BY <3>2
    <3>4. (raw * Num + raw - 1) \div unit \in Nat
      BY <3>3, Divided
    <3> QED BY <1>4, <3>1, <3>4 DEF CacheUnits
  <2>2. PICK new : new = AlAlloc(unit, units)
    OBVIOUS
  <2>3. AlOK(new, flen) /\ CacheHolds(new)
    BY <2>2, AllocHolds
  <2>4. new.unit = unit /\ new.size = unit * units
    BY <2>2 DEF AlAlloc
  <2>5. CacheOK(new, p, CacheOf(in, p))
    BY <1>4, <2>1, <2>3, <2>4 DEF CacheOK, CacheOf, CacheSize
  <2>6. Switched(in, dev, k) = [cur |-> k, al |-> new]
    BY <1>2, <1>4, <1>6, <2>1, <2>2 DEF Switched
  <2>7. RdOK(in, [cur |-> k, al |-> new])
    BY <1>3, <1>4, <2>5, RdAt
  <2> QED BY <2>6, <2>7
<1> QED BY <1>5, <1>6

\* zeroes of a gap between parts
Zeroes(n) == [i \in 1 .. n * Sector |-> ZeroByte]

LEMMA GapDelivered ==
  ASSUME NEW in, WellFormed(in), NEW start \in Nat, NEW n \in Nat,
         \A q \in Nat : q < n => \A j \in DOMAIN in.parts : ~Contains(in.parts[j], start + q)
  PROVE  Zeroes(n) \in Seq(Bytes) /\ Delivers(in, start, n, Zeroes(n))
<1>1. n * Sector \in Nat
  BY SizesFacts, TimesNat
<1>2. ZeroByte \in Bytes
  BY DEF ZeroByte, Bytes, Zero
<1>3. /\ Zeroes(n) \in Seq(Bytes) /\ Len(Zeroes(n)) = n * Sector
      /\ \A i \in 1 .. n * Sector : Zeroes(n)[i] = ZeroByte
  BY <1>1, <1>2 DEF Zeroes
<1>4. ASSUME NEW i \in 0 .. n * Sector - 1
      PROVE  Zeroes(n)[i + 1] = Source(in, start + (i \div Sector), i % Sector)
  <2>1. i \in Nat /\ i + 1 \in 1 .. n * Sector /\ i < n * Sector
    BY <1>1
  <2>2. PICK q \in Nat, t \in 0 .. Sector - 1 :
          q = i \div Sector /\ t = i % Sector /\ i = q * Sector + t
    BY <2>1, SizesFacts, Divided
  <2>3. q < n
    <3>1. q * Sector + t < n * Sector
      BY <2>1, <2>2
    <3> QED BY <3>1, SizesFacts, SectorOf
  <2>4. Source(in, start + q, t) = ZeroByte
    BY <2>3, SourceInGap
  <2> QED BY <1>3, <2>1, <2>2, <2>4
<1> QED BY <1>3, <1>4 DEF Delivers

LEMMA PartServed ==
  ASSUME NEW in, WellFormed(in), in.kind = "image", NEW dev, RdOK(in, dev),
         NEW k \in DOMAIN in.parts, dev.cur = k, NEW start \in Nat, Contains(in.parts[k], start),
         NEW num \in 1 .. Num, Fits(in, start, num), NEW fault \in {"none", "open"}
  PROVE  Served(in, start, num, FromPart(in, dev, start, num, fault))
<1>1. PICK r : /\ CutOf(in, k, start, num, r)
               /\ FromPart(in, dev, start, num, fault) = Delivered(in, dev, r, start)
  BY ReadCuts
<1>2. PICK w : w = Delivered(in, dev, r, start)
  OBVIOUS
<1>3. Answers(in, w) /\ (start + num <= Total(in) => Right(in, start, num, w.data))
  BY <1>1, <1>2, FromPartRight
<1>4. num # 0
  OBVIOUS
<1>5. Served(in, start, num, w)
  BY <1>3, <1>4 DEF Served, Good, Answers
<1> QED BY <1>1, <1>2, <1>5

\* a read of an image whose file may fail to be opened
LEMMA ImgReadServed ==
  ASSUME NEW in, WellFormed(in), in.kind = "image", NEW dev, RdOK(in, dev), NEW start \in Nat,
         NEW num \in 0 .. Num, num = 0 => start = Total(in), num > 0 => Fits(in, start, num),
         NEW fault \in {"none", "open"}
  PROVE  Served(in, start, num, ImgRead(in, dev, start, num, fault))
<1> DEFINE w == ImgRead(in, dev, start, num, fault)
           here == dev.cur # 0 /\ Contains(in.parts[dev.cur], start)
<1>1. /\ DOMAIN in.parts = 1 .. Len(in.parts) /\ Len(in.parts) \in Nat
      /\ dev.cur \in 0 .. Len(in.parts)
  BY InputFacts DEF RdOK
<1>2. here => dev.cur \in DOMAIN in.parts
  BY <1>1
<1>3. Total(in) \in Nat
  BY TotalFacts
<1>4. <<>> \in Seq(Bytes) /\ Len(<<>>) = 0
  OBVIOUS
<1>5. CASE ~(start < Total(in))
  <2>1. AtOrAfter(in, start) = {} /\ ~here
    BY <1>2, <1>5, FirstPart
  <2>2. w = Nothing(dev)
    BY <2>1 DEF ImgRead
  <2>3. num > 0 => ~(start + num <= Total(in))
    BY <1>3, <1>5
  <2> HIDE DEF w
  <2>4. w.rd = dev /\ w.result = "ok" /\ w.set /\ w.data = <<>>
    BY <2>2 DEF Nothing, Success
  <2> QED BY <1>4, <2>3, <2>4 DEF Served, Good, w
<1>6. CASE start < Total(in)
  <2>1. num \in 1 .. Num /\ Fits(in, start, num) /\ num # 0
    BY <1>3, <1>6
  <2>2. PICK k \in DOMAIN in.parts :
          /\ AtOrAfter(in, start) = {k}
          /\ start < in.parts[k].offset + in.parts[k].length
          /\ \A j \in DOMAIN in.parts : Contains(in.parts[j], start) => j = k
          /\ \A j \in DOMAIN in.parts : j # k =>
               \/ in.parts[j].offset + in.parts[j].length <= start
               \/ in.parts[j].offset >= in.parts[k].offset
    BY <1>6, FirstPart
  <2>3. AtOrAfter(in, start) # {} /\ (CHOOSE j \in AtOrAfter(in, start) : TRUE) = k
    BY <2>2
  <2>4. w = IF ~here /\ ~Contains(in.parts[k], start)
            THEN Success(dev, Zeroes(Lesser(num, in.parts[k].offset - start)))
            ELSE IF ~here /\ fault = "open" THEN Failure(dev)
            ELSE FromPart(in, IF here THEN dev ELSE Switched(in, dev, k), start, num, fault)
    BY <2>3 DEF ImgRead, Zeroes
  <2> HIDE DEF w, here
  <2>5. CASE here
    <3>1. dev.cur = k /\ Contains(in.parts[k], start)
      BY <1>2, <2>2, <2>5 DEF here
    <3>2. w = FromPart(in, dev, start, num, fault)
      BY <2>4, <2>5
    <3> QED BY <2>1, <3>1, <3>2, PartServed DEF w
  <2>6. CASE ~here /\ Contains(in.parts[k], start) /\ fault = "open"
    <3>1. w = Failure(dev)
      BY <2>4, <2>6
    <3>2. w.rd = dev /\ w.result = "err" /\ w.data = <<>>
      BY <3>1 DEF Failure
    <3> QED BY <1>4, <3>2 DEF Served, w
  <2>7. CASE ~here /\ Contains(in.parts[k], start) /\ fault # "open"
    <3>1. PICK new : new = Switched(in, dev, k)
      OBVIOUS
    <3>2. RdOK(in, new) /\ new.cur = k
      BY <3>1, SwitchedOK
    <3>3. w = FromPart(in, new, start, num, fault)
      BY <2>4, <2>7, <3>1
    <3> QED BY <2>1, <2>7, <3>2, <3>3, PartServed DEF w
  <2>8. CASE ~here /\ ~Contains(in.parts[k], start)
    <3>1. PICK o \in Nat, l \in Nat : o = in.parts[k].offset /\ l = in.parts[k].length
      BY PartFacts
    <3>2. start < o
      BY <2>2, <2>8, <3>1 DEF Contains
    <3>3. PICK n \in Nat : n = Lesser(num, o - start) /\ n \in 1 .. num /\ start + n <= o
      <4>1. PICK d \in Nat \ {0}, m \in Nat \ {0} : d = o - start /\ m = num /\ start + d = o
        BY <2>1, <3>2
      <4>2. PICK n \in Nat : n = Lesser(m, d) /\ n \in 1 .. m /\ n <= d
        BY DEF Lesser
      <4>3. start + n <= o
        BY <4>1, <4>2
      <4> QED BY <4>1, <4>2, <4>3
    <3>4. ASSUME NEW q \in Nat, q < n, NEW j \in DOMAIN in.parts, Contains(in.parts[j], start + q)
          PROVE  FALSE
      <4>1. in.parts[j].offset \in Nat /\ in.parts[j].length \in Nat
        BY PartFacts
      <4>2. \/ in.parts[j].offset + in.parts[j].length <= start
            \/ in.parts[j].offset >= o
        BY <2>2, <3>1
      <4> QED BY <3>3, <3>4, <4>1, <4>2 DEF Contains
    <3>5. Zeroes(n) \in Seq(Bytes) /\ Delivers(in, start, n, Zeroes(n))
      BY <3>4, GapDelivered
    <3>6. Len(in.parts) # 1
      BY <3>1, <3>2, OnePart
    <3>7. Right(in, start, num, Zeroes(n))
      BY <3>3, <3>5, <3>6 DEF Right
    <3>8. w = Success(dev, Zeroes(n))
      BY <2>4, <2>8, <3>1, <3>3
    <3>9. w.rd = dev /\ w.result = "ok" /\ w.set /\ w.data = Zeroes(n)
      BY <3>8 DEF Success
    <3> QED BY <2>1, <3>5, <3>7, <3>9 DEF Served, Good, w
  <2> QED BY <2>5, <2>6, <2>7, <2>8
<1> QED BY <1>3, <1>5, <1>6

\* Bytes of the file of a part of whole sectors.
LEMMA FileDelivered ==
  ASSUME NEW in, WellFormed(in), Plain(in), NEW k \in DOMAIN in.parts, in.parts[k].skip = 0,
         in.parts[k].flen = in.parts[k].length * Sector,
         NEW start \in Nat, Contains(in.parts[k], start), NEW n \in Nat,
         n <= in.parts[k].offset + in.parts[k].length - start,
         NEW data, Len(data) = n * Sector,
         \A i \in 0 .. n * Sector - 1 :
           data[i + 1] = FileByte(in.parts[k].file, (start - in.parts[k].offset) * Sector + i)
  PROVE  Delivers(in, start, n, data)
<1> DEFINE p == in.parts[k]
<1>1. PICK S \in Nat \ {0}, o \in Nat, length \in Nat, flen \in Nat :
        /\ S = Sector /\ o = p.offset /\ length = p.length /\ flen = p.flen
        /\ flen = length * S
  BY SizesFacts, PartFacts
<1>2. in.raw = S /\ in.skipIn = 0
  BY <1>1 DEF Plain
<1>3. PICK m \in Nat \ {0} :
        /\ m = p.offset + p.length - start
        /\ \A q \in Nat : q < m => Contains(p, start + q)
  BY PartLeft
<1>4. PICK d \in Nat : d = start - o /\ d + n <= length
  <2>1. n <= o + length - start /\ o <= start
    BY <1>1 DEF Contains
  <2>2. start - o \in Nat /\ (start - o) + n <= length
    BY <2>1
  <2> QED BY <2>2
<1>5. n * S \in Nat /\ d * S \in Nat /\ (d + n) * S = d * S + n * S /\ (d + n) * S <= length * S
  <2>1. n * S \in Nat /\ d * S \in Nat
    BY TimesNat
  <2>2. (d + n) * S = d * S + n * S
    OBVIOUS
  <2>3. PICK e \in Nat : e = d + n /\ e <= length
    BY <1>4
  <2>4. e * S <= length * S
    BY <2>3, TimesMonotone
  <2> QED BY <2>1, <2>2, <2>3, <2>4
<1>6. ASSUME NEW i \in 0 .. n * S - 1
      PROVE  data[i + 1] = Source(in, start + (i \div S), i % S)
  <2>1. i \in Nat /\ i < n * S
    BY <1>5
  <2>10. PICK q \in Nat, t \in 0 .. S - 1 : Divides(i, S, q, t)
    BY <2>1, DividedBy
  <2>2. q = i \div S /\ t = i % S /\ i = q * S + t
    BY <2>10 DEF Divides
  <2>3. q < n
    <3>1. q * S + t < n * S
      BY <2>1, <2>2
    <3> QED BY <3>1, SectorOf
  <2>4. PICK s \in Nat : s = start + q /\ Contains(p, s) /\ s - o = d + q
    <3>1. PICK e \in Nat : e = m /\ n <= e
      BY <1>3
    <3>2. start + q \in Nat /\ q < m
      BY <2>3, <3>1
    <3> QED BY <1>3, <1>4, <3>2
  <2>5. (d + q) * S = d * S + q * S /\ q * S \in Nat
    <3>1. q * S \in Nat
      BY TimesNat
    <3>2. (d + q) * S = d * S + q * S
      OBVIOUS
    <3> QED BY <3>1, <3>2
  <2>6. PICK x \in Nat : x = 0 + (d + q) * S + 0 + t /\ x = d * S + i /\ x < flen
    <3>1. PICK a \in Nat, b \in Nat, c \in Nat, e \in Int :
            a = d * S /\ b = q * S /\ c = n * S /\ e = (d + q) * S
      BY <1>5, <2>5
    <3>2. e = a + b /\ i = b + t /\ i < c /\ a + c <= flen
      BY <1>1, <1>5, <2>1, <2>2, <2>5, <3>1
    <3> QED BY <3>1, <3>2
  <2>7. x = p.skip + (s - p.offset) * in.raw + in.skipIn + t
    BY <1>1, <1>2, <2>4, <2>6, Zenon
  <2>8. Source(in, s, t) = IF x < p.flen THEN FileByte(p.file, x) ELSE ZeroByte
    BY <2>4, <2>7, SourceInPart
  <2>9. data[i + 1] = FileByte(p.file, d * S + i)
    BY <1>1, <1>4
  <2> QED BY <1>1, <2>2, <2>4, <2>6, <2>8, <2>9
<1> QED BY <1>1, <1>6 DEF Delivers

\* A read from a game on a disk.
LEMMA GameReadServed ==
  ASSUME NEW in, WellFormed(in), in.kind = "game", NEW dev, RdOK(in, dev), NEW start \in Nat,
         NEW num \in 0 .. Num, num = 0 => start = Total(in), NEW fault
  PROVE  Served(in, start, num, GameRead(in, dev, start, num, fault))
<1> DEFINE w == GameRead(in, dev, start, num, fault)
           here == IF Contains(in.parts[dev.cur], start) THEN {dev.cur}
                   ELSE {k \in DOMAIN in.parts : Contains(in.parts[k], start)}
<1>1. PICK c, al : dev = [cur |-> c, al |-> al]
  BY DEF RdOK
<1>2. /\ dev.cur = c /\ dev.al = al /\ c \in DOMAIN in.parts /\ al = AlAlloc(1, 0)
      /\ DOMAIN in.parts = 1 .. Len(in.parts) /\ Len(in.parts) \in Nat
  <2>1. DOMAIN in.parts = 1 .. Len(in.parts) /\ Len(in.parts) \in Nat
    BY InputFacts
  <2>2. dev.cur = c /\ dev.al = al
    BY <1>1
  <2>3. c \in 0 .. Len(in.parts) /\ c # 0 /\ al = AlAlloc(1, 0)
    BY <2>2 DEF RdOK
  <2> QED BY <2>1, <2>2, <2>3
<1>3. /\ Total(in) \in Nat
      /\ \A k \in DOMAIN in.parts : in.parts[k].offset + in.parts[k].length <= Total(in)
  BY TotalFacts
<1>4. <<>> \in Seq(Bytes) /\ num \in Nat
  BY SizesFacts
<1>5. CASE ~(start < Total(in))
  <2>1. here = {}
    BY <1>2, <1>5, FirstPart
  <2>2. w = Nothing(dev)
    BY <2>1 DEF GameRead
  <2>3. num > 0 => ~(start + num <= Total(in))
    BY <1>3, <1>4, <1>5
  <2> HIDE DEF w
  <2>4. w.rd = dev /\ w.result = "ok" /\ w.set /\ w.data = <<>>
    BY <2>2 DEF Nothing, Success
  <2> QED BY <1>4, <2>3, <2>4 DEF Served, Good, w
<1>6. CASE start < Total(in)
  <2>1. num \in Nat \ {0}
    BY <1>3, <1>4, <1>6
  <2>2. PICK k \in DOMAIN in.parts :
          /\ AtOrAfter(in, start) = {k}
          /\ start < in.parts[k].offset + in.parts[k].length
          /\ \A j \in DOMAIN in.parts : Contains(in.parts[j], start) => j = k
          /\ \A j \in DOMAIN in.parts : j # k =>
               \/ in.parts[j].offset + in.parts[j].length <= start
               \/ in.parts[j].offset >= in.parts[k].offset
    BY <1>6, FirstPart
  <2>3. Contains(in.parts[k], start)
    <3>1. in.parts[k].offset \in Nat /\ in.parts[k].length \in Nat
      BY PartFacts
    <3>2. CASE k = 1
      <4>1. in.parts[k].offset = 0
        BY <3>2 DEF WellFormed, InOrder
      <4> QED BY <2>2, <3>1, <4>1 DEF Contains
    <3>3. CASE k # 1
      <4>1. k > 1 /\ k - 1 \in DOMAIN in.parts /\ k - 1 # k
        BY <1>2, <3>3
      <4>2. in.parts[k - 1].offset \in Nat /\ in.parts[k - 1].length \in Nat \ {0}
        BY <4>1, PartFacts
      <4>3. in.parts[k].offset = in.parts[k - 1].offset + in.parts[k - 1].length
        BY <4>1 DEF WellFormed
      <4>4. in.parts[k].offset <= start
        BY <2>2, <3>1, <4>1, <4>2, <4>3
      <4> QED BY <2>2, <4>4 DEF Contains
    <3> QED BY <3>2, <3>3
  <2>4. here = {k}
    <3>1. Contains(in.parts[dev.cur], start) => dev.cur = k
      BY <1>2, <2>2
    <3>2. {j \in DOMAIN in.parts : Contains(in.parts[j], start)} = {k}
      BY <2>2, <2>3
    <3> QED BY <3>1, <3>2
  <2>5. here # {} /\ (CHOOSE j \in here : TRUE) = k
    BY <2>4
  <2> DEFINE new == [dev EXCEPT !.cur = k]
  <2>6. RdOK(in, new) /\ new.cur = k
    <3>1. new = [cur |-> k, al |-> al]
      BY <1>1
    <3>2. new.cur = k /\ new.al = al
      BY <3>1
    <3>3. k # 0 /\ k \in 0 .. Len(in.parts)
      BY <1>2
    <3>4. \E d, a : new = [cur |-> d, al |-> a]
      BY <3>1
    <3> HIDE DEF new
    <3> QED BY <1>2, <3>2, <3>3, <3>4 DEF RdOK
  <2>7. PICK m \in Nat \ {0} : m = in.parts[k].offset + in.parts[k].length - start
    BY <2>3, PartLeft
  <2>8. PICK n \in Nat : n = Lesser(num, m) /\ n \in 1 .. num /\ n <= m
    BY <2>1 DEF Lesser
  <2>9. PICK from \in Nat : from = (start - in.parts[k].offset) * Sector
    <3>1. PICK o \in Nat, d \in Nat : o = in.parts[k].offset /\ d = start - o
      <4>1. in.parts[k].offset \in Nat
        BY PartFacts
      <4> QED BY <2>3, <4>1 DEF Contains
    <3>2. d * Sector \in Nat
      BY SizesFacts, TimesNat
    <3> QED BY <3>1, <3>2
  <2> DEFINE data == [i \in 1 .. n * Sector |-> FileByte(k, from + i - 1)]
  <2>10. w = IF fault # "none" THEN Failure(new) ELSE Success(new, data)
    BY <2>5, <2>7, <2>8, <2>9 DEF GameRead
  <2>11. data \in Seq(Bytes) /\ Delivers(in, start, n, data)
    <3>1. n * Sector \in Nat
      BY SizesFacts, TimesNat
    <3>2. \A x \in Int : FileByte(k, x) \in Bytes
      BY <1>2 DEF FileByte, Bytes
    <3>3. \A i \in 1 .. n * Sector : from + i - 1 \in Int
      BY <3>1
    <3>4. \A i \in 1 .. n * Sector : FileByte(k, from + i - 1) \in Bytes
      BY <3>2, <3>3
    <3>5. data \in Seq(Bytes) /\ Len(data) = n * Sector
      BY <3>1, <3>4
    <3>6. \A i \in 0 .. n * Sector - 1 : data[i + 1] = FileByte(k, from + i)
      <4> SUFFICES ASSUME NEW i \in 0 .. n * Sector - 1 PROVE data[i + 1] = FileByte(k, from + i)
        OBVIOUS
      <4>1. i + 1 \in 1 .. n * Sector /\ from + (i + 1) - 1 = from + i
        BY <3>1
      <4> QED BY <4>1
    <3>7. /\ Plain(in) /\ in.parts[k].skip = 0 /\ in.parts[k].file = k
          /\ in.parts[k].flen = in.parts[k].length * Sector
      BY DEF WellFormed
    <3> HIDE DEF data
    <3>8. Delivers(in, start, n, data)
      BY <2>3, <2>7, <2>8, <2>9, <3>5, <3>6, <3>7, FileDelivered
    <3> QED BY <3>5, <3>8
  <2> HIDE DEF w, new, data
  <2>12. CASE fault # "none"
    <3>1. w.rd = new /\ w.result = "err" /\ w.data = <<>>
      BY <2>10, <2>12 DEF Failure
    <3> QED BY <1>4, <2>6, <3>1 DEF Served, w
  <2>13. CASE fault = "none"
    <3>1. w.rd = new /\ w.result = "ok" /\ w.set /\ w.data = data
      BY <2>10, <2>13 DEF Success
    <3>2. Len(in.parts) = 1 /\ start + num <= Total(in) => n = num
      <4> SUFFICES ASSUME Len(in.parts) = 1, start + num <= Total(in) PROVE n = num
        OBVIOUS
      <4>1. m = Total(in) - start
        BY <1>3, <2>7, OnePart
      <4> QED BY <1>3, <2>1, <2>8, <4>1 DEF Lesser
    <3>3. start + num <= Total(in) => Right(in, start, num, data)
      BY <2>8, <2>11, <3>2 DEF Right
    <3> QED BY <2>1, <2>6, <2>11, <3>1, <3>3 DEF Served, Good, w
  <2> QED BY <2>12, <2>13
<1> QED BY <1>3, <1>5, <1>6

\* The cache of a drive has nothing behind sector s.
Lined(in, dev, s) == in.kind = "drive" => dev.al.offset + dev.al.len <= s * Sector

\* A seek or a read that fails changes nothing in a cache that has nothing of
\* what was to be read.
LEMMA FailedSame ==
  ASSUME NEW flen \in Nat, NEW al, AlOK(al, flen), NEW a \in Nat, al.offset + al.len <= a,
         NEW fault
  PROVE  Failed(al, a, fault) = al
<1>0. al \in [unit : Nat \ {0}, size : Nat, buf : [0 .. al.size - 1 -> Int],
              offset : Nat, len : Nat]
  BY DEF AlOK
<1>10. PICK unit, size, buf, offset, len :
         al = [unit |-> unit, size |-> size, buf |-> buf, offset |-> offset, len |-> len]
  BY <1>0
<1>1. /\ buf = al.buf /\ size = al.size /\ size \in Nat /\ buf \in [0 .. size - 1 -> Int]
      /\ offset = al.offset /\ len = al.len /\ offset \in Nat /\ len \in Nat
  BY <1>0, <1>10
<1>2. Kept(al, a) = 0
  <2>1. ~(offset <= a /\ a < offset + len)
    BY <1>1
  <2> QED BY <1>1, <2>1 DEF Kept
<1>3. Moved(al, a) = buf
  <2>1. \A i \in DOMAIN buf : ~(i < 0)
    BY <1>1
  <2>2. Moved(al, a) = [i \in DOMAIN buf |-> buf[i]]
    BY <1>1, <1>2, <2>1 DEF Moved
  <2> QED BY <1>1, <2>2
<1>4. (IF fault = "read" THEN len + 0 ELSE len) = len
  BY <1>1
<1> QED BY <1>1, <1>10, <1>2, <1>3, <1>4 DEF Failed

\* What a successful read of the cache returns has no fault in it.
LEMMA SoundRead ==
  ASSUME NEW al, NEW flen, NEW offset, NEW bytes, NEW fault,
         AlRead(al, flen, offset, bytes, fault).ok
  PROVE  AlRead(al, flen, offset, bytes, fault) = AlRead(al, flen, offset, bytes, "none")
<1>1. CASE Cached(al, offset, bytes)
  BY <1>1 DEF AlRead
<1>2. CASE ~Cached(al, offset, bytes)
  <2>1. fault = "none"
    BY <1>2 DEF AlRead
  <2> QED BY <2>1
<1> QED BY <1>1, <1>2

LEMMA DriveFacts ==
  ASSUME NEW in, WellFormed(in), in.kind = "drive"
  PROVE  /\ DOMAIN in.parts = {1} /\ Len(in.parts) = 1 /\ Plain(in)
         /\ in.parts[1].unit \in Nat \ {0}
         /\ in.parts[1].offset = 0 /\ in.parts[1].skip = 0 /\ in.parts[1].file = 1
         /\ in.parts[1].length = Total(in) /\ in.parts[1].flen = Total(in) * Sector
         /\ \A s \in Nat : (s * Sector) % in.parts[1].unit = 0
<1>1. Len(in.parts) = 1 /\ Sector % in.parts[1].unit = 0
      /\ in = Drive(in.parts[1].length, in.parts[1].unit)
  BY DEF WellFormed
<1>2. DOMAIN in.parts = {1}
  BY <1>1, InputFacts
<1>3. in.parts[1].length = Total(in) /\ in.parts[1].offset = 0 /\ in.parts[1].unit \in Nat \ {0}
  BY <1>1, <1>2, OnePart, PartFacts
<1>4. PICK length, unit : length = in.parts[1].length /\ unit = in.parts[1].unit
  OBVIOUS
<1>5. in = [kind |-> "drive", raw |-> Sector, skipIn |-> 0,
            parts |-> <<[offset |-> 0, length |-> length, skip |-> 0, file |-> 1,
                         flen |-> length * Sector, unit |-> unit]>>]
  BY <1>1, <1>4 DEF Drive, Input, Part
<1>6. /\ in.raw = Sector /\ in.skipIn = 0 /\ in.parts[1].skip = 0 /\ in.parts[1].file = 1
      /\ in.parts[1].flen = length * Sector
  BY <1>5
<1>7. ASSUME NEW s \in Nat PROVE (s * Sector) % in.parts[1].unit = 0
  <2>1. PICK u \in Nat \ {0}, S \in Nat : u = in.parts[1].unit /\ S = Sector /\ S % u = 0
    BY <1>1, <1>3, SizesFacts
  <2>2. PICK c \in Nat : S = c * u
    <3>1. PICK q \in Nat, t \in 0 .. u - 1 : Divides(S, u, q, t)
      BY DividedBy
    <3>2. q * u \in Nat
      BY TimesNat
    <3>3. t = 0 /\ S = q * u + t
      BY <2>1, <3>1 DEF Divides
    <3> QED BY <3>2, <3>3
  <2>3. PICK d \in Nat : d = s * c
    BY TimesNat
  <2>4. d * u \in Nat /\ s * S = d * u
    BY <2>2, <2>3, TimesNat
  <2>5. (d * u) % u = 0
    <3>1. 0 \in 0 .. u - 1 /\ d * u = d * u + 0
      BY <2>4
    <3> QED BY <2>4, <3>1, DivisionUnique
  <2> QED BY <2>1, <2>4, <2>5
<1> QED BY <1>1, <1>2, <1>3, <1>4, <1>6, <1>7 DEF Plain

\* What a read leaves, with or without a fault of the device: one that fails
\* spoils nothing if the cache has nothing of what was to be read.
ReadOK(in, dev, start, num, w) ==
  /\ w.rd.cur \in 0 .. Len(in.parts) /\ w.result \in {"ok", "err"} /\ w.data \in Seq(Bytes)
  /\ w.result = "ok" => /\ RdOK(in, w.rd) /\ w.set /\ Good(in, start, num, w.data)
                        /\ num = Num => Lined(in, w.rd, start + num)
  /\ w.result = "err" /\ Lined(in, dev, start) => RdOK(in, w.rd)

LEMMA DriveReadOK ==
  ASSUME NEW in, WellFormed(in), in.kind = "drive", NEW dev, RdOK(in, dev),
         NEW start \in Nat, start <= Total(in),
         NEW num \in 0 .. Num, num = 0 => start = Total(in), NEW fault
  PROVE  ReadOK(in, dev, start, num, DriveRead(in, dev, start, num, fault))
<1> DEFINE w == DriveRead(in, dev, start, num, fault)
<1>1. PICK c, al : dev = [cur |-> c, al |-> al]
  BY DEF RdOK
<1>2. PICK S \in Nat \ {0}, N \in Nat \ {0}, T \in Nat, n \in Nat :
        S = Sector /\ N = Num /\ T = Total(in) /\ n = num /\ n <= N /\ start <= T
  BY SizesFacts, TotalFacts
<1>3. PICK size \in Nat, flen \in Nat, offset \in Nat, bytes \in Nat :
        /\ size = N * S /\ flen = T * S /\ offset = start * S /\ bytes = n * S
        /\ bytes <= size /\ offset <= flen
  BY <1>2, TimesNat, TimesMonotone
<1>4. /\ DOMAIN in.parts = {1} /\ Len(in.parts) = 1 /\ Plain(in)
      /\ in.parts[1].offset = 0 /\ in.parts[1].skip = 0 /\ in.parts[1].file = 1
      /\ in.parts[1].length = T /\ in.parts[1].flen = flen
      /\ offset % in.parts[1].unit = 0
  BY <1>2, <1>3, DriveFacts
<1>5. /\ dev.cur = 1 /\ dev.al = al
      /\ AlOK(al, flen) /\ CacheHolds(al) /\ al.unit = in.parts[1].unit /\ al.size = size
  <2>1. dev.cur \in 0 .. 1 /\ dev.cur # 0
    BY <1>4 DEF RdOK
  <2>2. dev.cur = 1
    BY <2>1
  <2>3. CacheOK(dev.al, in.parts[1], Num * Sector)
    BY <2>2 DEF RdOK, CacheOf
  <2> QED BY <1>1, <1>2, <1>3, <1>4, <2>2, <2>3 DEF CacheOK
<1>6. PICK r : r = AlRead(al, flen, offset, bytes, fault)
  OBVIOUS
<1>7. w = FromDrive([dev EXCEPT !.al = r.al], r)
  BY <1>2, <1>3, <1>4, <1>5, <1>6 DEF DriveRead
<1>12. PICK new : new = [cur |-> 1, al |-> r.al]
  OBVIOUS
<1>8. new = [dev EXCEPT !.al = r.al] /\ new.cur = 1 /\ new.al = r.al
  <2>1. c = 1
    BY <1>1, <1>5
  <2> QED BY <1>1, <1>12, <2>1
<1>9. CacheOK(r.al, in.parts[1], CacheOf(in, in.parts[1])) => RdOK(in, new)
  <2>1. 1 \in 1 .. Len(in.parts) /\ in.kind # "game" /\ Len(in.parts) \in Nat
    BY <1>4
  <2> QED BY <1>12, <2>1, RdAt
<1>10. CASE ~r.ok
  <2>1. w = Failure(new)
    BY <1>7, <1>8, <1>10 DEF FromDrive
  <2> HIDE DEF w
  <2>2. w.rd = new /\ w.result = "err" /\ w.data = <<>>
    BY <2>1 DEF Failure
  <2>3. ASSUME Lined(in, dev, start) PROVE RdOK(in, new)
    <3>1. r.al = IF fault = "none" THEN Filled(al, flen, offset) ELSE Failed(al, offset, fault)
      BY <1>4, <1>5, <1>6, <1>10 DEF AlRead
    <3>2. fault # "none"
      BY <1>6, <1>10 DEF AlRead
    <3>3. al.offset + al.len <= offset
      BY <1>2, <1>3, <1>5, <2>3 DEF Lined
    <3>4. r.al = al
      BY <1>5, <3>1, <3>2, <3>3, FailedSame
    <3>5. CacheOK(r.al, in.parts[1], CacheOf(in, in.parts[1]))
      BY <1>2, <1>3, <1>4, <1>5, <3>4 DEF CacheOK, CacheOf
    <3> QED BY <1>9, <3>5
  <2>4. w.rd.cur \in 0 .. Len(in.parts) /\ w.data \in Seq(Bytes)
    BY <1>4, <1>8, <2>2
  <2> QED BY <2>2, <2>3, <2>4 DEF ReadOK, w
<1>11. CASE r.ok
  <2>1. r = AlRead(al, flen, offset, bytes, "none")
    BY <1>6, <1>11, SoundRead
  <2>2. Given(al, flen, offset, bytes, r)
    <3>1. offset % al.unit <= al.size
      BY <1>4, <1>5
    <3> QED BY <1>3, <1>5, <2>1, <3>1, Gives
  <2>3. PICK at \in Nat, len \in Nat, aloff \in Nat, allen \in Nat :
          /\ at = r.at /\ len = r.len /\ aloff = r.al.offset /\ allen = r.al.len
          /\ allen <= size /\ aloff + at = offset /\ at + len <= allen
          /\ len <= bytes /\ len <= flen - offset
          /\ len = bytes \/ len = flen - offset \/ len = size
    <3>1. al.size - (offset % al.unit) = size
      BY <1>4, <1>5
    <3>2. PICK at \in Nat, len \in Nat, aloff \in Nat, allen \in Nat :
            at = r.at /\ len = r.len /\ aloff = r.al.offset /\ allen = r.al.len
      BY <2>2 DEF Given, AlOK
    <3>3. r.al.len <= r.al.size /\ r.al.size = size
      BY <1>5, <2>2 DEF Given, AlOK
    <3>4. /\ allen <= size /\ aloff + at = offset /\ at + len <= allen
          /\ len <= bytes /\ len <= flen - offset
          /\ len = bytes \/ len = flen - offset \/ len = size
      BY <2>2, <3>1, <3>2, <3>3 DEF Given
    <3> QED BY <3>2, <3>4
  <2>4. w = Success(new, [i \in 1 .. len |-> FileByte(1, Byte(r.al.buf, at + i - 1))])
    BY <1>7, <1>8, <1>11, <2>3 DEF FromDrive
  <2>5. PICK data : data = [i \in 1 .. len |-> FileByte(1, Byte(r.al.buf, at + i - 1))]
    OBVIOUS
  <2>6. w.rd = new /\ w.result = "ok" /\ w.set /\ w.data = data
    BY <2>4, <2>5 DEF Success
  <2>7. data \in Seq(Bytes) /\ Len(data) = len
        /\ \A i \in 0 .. len - 1 : data[i + 1] = FileByte(1, offset + i)
    <3>1. \A x : Byte(r.al.buf, x) \in Int
      <4>1. PICK m, buf : m = r.al.size /\ buf = r.al.buf /\ buf \in [0 .. m - 1 -> Int]
        BY <2>2 DEF Given, AlOK
      <4>2. \A x \in DOMAIN buf : buf[x] \in Int
        BY <4>1
      <4> QED BY <4>1, <4>2 DEF Byte, Junk
    <3>2. \A x : FileByte(1, Byte(r.al.buf, x)) \in Bytes
      BY <3>1 DEF FileByte, Bytes
    <3>3. data \in Seq(Bytes) /\ Len(data) = len
      BY <2>5, <3>2
    <3>4. ASSUME NEW i \in 0 .. len - 1 PROVE data[i + 1] = FileByte(1, offset + i)
      <4>1. i + 1 \in 1 .. len /\ at + (i + 1) - 1 = at + i /\ at + i \in 0 .. allen - 1
            /\ aloff + (at + i) = offset + i
        BY <2>3
      <4>2. Byte(r.al.buf, at + i) = offset + i
        BY <2>2, <2>3, <4>1 DEF Given, CacheHolds
      <4> QED BY <2>5, <4>1, <4>2
    <3> QED BY <3>3, <3>4
  <2>8. RdOK(in, new)
    <3>1. CacheOK(r.al, in.parts[1], CacheOf(in, in.parts[1]))
      BY <1>2, <1>3, <1>4, <1>5, <2>2 DEF Given, CacheOK, CacheOf
    <3> QED BY <1>9, <3>1
  <2>9. n = 0 => data = <<>>
    <3> SUFFICES ASSUME n = 0 PROVE data = <<>>
      OBVIOUS
    <3>1. len = 0
      BY <1>3, <2>3
    <3> QED BY <2>7, <3>1
  <2>10. ASSUME n > 0, start + n <= T PROVE Right(in, start, num, data)
    <3>1. len = n * S
      <4>1. PICK e \in Nat : e = start + n /\ e <= T
        BY <2>10
      <4>2. e * S <= T * S
        BY <4>1, TimesMonotone
      <4>3. e * S = start * S + n * S
        BY <4>1
      <4>4. bytes <= flen - offset
        BY <1>3, <4>2, <4>3
      <4> QED BY <1>3, <2>3, <4>4
    <3>2. Contains(in.parts[1], start) /\ n <= in.parts[1].offset + in.parts[1].length - start
      BY <1>4, <2>10 DEF Contains
    <3>3. (start - in.parts[1].offset) * Sector = offset
      BY <1>2, <1>3, <1>4
    <3>6. /\ 1 \in DOMAIN in.parts /\ in.parts[1].flen = in.parts[1].length * Sector
          /\ Len(data) = n * Sector
          /\ \A i \in 0 .. n * Sector - 1 :
               data[i + 1] = FileByte(in.parts[1].file,
                                      (start - in.parts[1].offset) * Sector + i)
      BY <1>2, <1>3, <1>4, <2>7, <3>1, <3>3
    <3>4. Delivers(in, start, n, data)
      BY <1>4, <3>2, <3>6, FileDelivered
    <3>5. n \in 1 .. num
      BY <1>2, <2>10
    <3> QED BY <1>2, <3>4, <3>5 DEF Right
  <2>11. num = Num => Lined(in, new, start + num)
    <3> SUFFICES ASSUME num = Num PROVE aloff + allen <= (start + n) * S
      BY <1>2, <1>8, <2>3 DEF Lined
    <3>1. (start + n) * S = start * S + n * S
      OBVIOUS
    <3>2. n * S = size
      BY <1>2, <1>3
    <3> QED BY <1>3, <2>3, <3>1, <3>2
  <2>12. Good(in, start, num, data)
    BY <1>2, <2>9, <2>10 DEF Good
  <2>13. new.cur \in 0 .. Len(in.parts)
    BY <1>4, <1>8
  <2> HIDE DEF w
  <2> QED BY <2>6, <2>7, <2>8, <2>11, <2>12, <2>13 DEF ReadOK, w
<1> QED BY <1>10, <1>11

\* the faults of a device that a read of an input gets over, or ends the command
Bearable(in, fault) == in.kind = "image" => fault \in {"none", "open"}

LEMMA ServedOK ==
  ASSUME NEW in, WellFormed(in), in.kind # "drive", NEW dev, NEW start, NEW num, NEW w,
         Served(in, start, num, w)
  PROVE  ReadOK(in, dev, start, num, w)
<1>1. w.rd.cur \in 0 .. Len(in.parts)
  BY DEF Served, RdOK
<1>2. Lined(in, w.rd, start + num)
  BY DEF Lined
<1> QED BY <1>1, <1>2 DEF Served, ReadOK

\* what a request for sectors must be like
Asked(in, start, num) ==
  /\ start \in Nat /\ start <= Total(in) /\ num \in 0 .. Num
  /\ num = 0 => start = Total(in)
  /\ num > 0 => Fits(in, start, num)

LEMMA ReadIsOK ==
  ASSUME NEW in, WellFormed(in), NEW dev, RdOK(in, dev), NEW start, NEW num,
         Asked(in, start, num), NEW fault, Bearable(in, fault)
  PROVE  ReadOK(in, dev, start, num, Read(in, dev, start, num, fault))
<1>1. /\ start \in Nat /\ start <= Total(in) /\ num \in 0 .. Num
      /\ num = 0 => start = Total(in)
      /\ num > 0 => Fits(in, start, num)
  BY DEF Asked
<1>2. CASE in.kind = "image"
  <2>1. fault \in {"none", "open"}
    BY <1>2 DEF Bearable
  <2>2. Served(in, start, num, ImgRead(in, dev, start, num, fault))
    BY <1>1, <1>2, <2>1, ImgReadServed
  <2>3. Read(in, dev, start, num, fault) = ImgRead(in, dev, start, num, fault)
    BY <1>2 DEF Read
  <2> QED BY <1>2, <2>2, <2>3, ServedOK
<1>3. CASE in.kind = "game"
  <2>1. Served(in, start, num, GameRead(in, dev, start, num, fault))
    BY <1>1, <1>3, GameReadServed
  <2>2. Read(in, dev, start, num, fault) = GameRead(in, dev, start, num, fault)
    BY <1>3 DEF Read
  <2> QED BY <1>3, <2>1, <2>2, ServedOK
<1>4. CASE in.kind = "drive"
  <2>1. ReadOK(in, dev, start, num, DriveRead(in, dev, start, num, fault))
    BY <1>1, <1>4, DriveReadOK
  <2>2. Read(in, dev, start, num, fault) = DriveRead(in, dev, start, num, fault)
    BY <1>4 DEF Read
  <2> QED BY <2>1, <2>2
<1> QED BY <1>2, <1>3, <1>4, InputFacts

\* A reader that was not used yet.
LEMMA OpenedOK ==
  ASSUME NEW in, WellFormed(in) PROVE RdOK(in, Opened(in))
<1>1. DOMAIN in.parts = 1 .. Len(in.parts) /\ Len(in.parts) \in Nat \ {0}
  BY InputFacts
<1>2. CASE in.kind = "image"
  <2>1. Opened(in) = [cur |-> 0, al |-> AlAlloc(1, 0)]
    BY <1>2 DEF Opened, NoReader
  <2>2. 0 \in 0 .. Len(in.parts) /\ in.kind = "image"
    BY <1>1, <1>2
  <2> QED BY <2>1, <2>2, RdWithout
<1>3. CASE in.kind = "game"
  <2>1. Opened(in) = [cur |-> 1, al |-> AlAlloc(1, 0)]
    BY <1>3 DEF Opened, NoReader
  <2>2. 1 \in 0 .. Len(in.parts) /\ in.kind = "game" /\ 1 # 0
    BY <1>1, <1>3
  <2> QED BY <2>1, <2>2, RdWithout
<1>4. CASE in.kind = "drive"
  <2>1. PICK p : p = in.parts[1]
    OBVIOUS
  <2>2. PICK unit \in Nat \ {0}, flen \in Nat, S \in Nat, N \in Nat :
          unit = p.unit /\ flen = p.flen /\ S = Sector /\ N = Num
    BY <1>1, <2>1, PartFacts, SizesFacts
  <2>3. (N * S) % unit = 0
    BY <1>4, <2>1, <2>2, DriveFacts
  <2>4. N * S \in Nat /\ S * N = N * S
    BY TimesNat
  <2>5. PICK q \in Nat : q = (N * S) \div unit /\ q * unit = N * S
    <3>1. PICK x \in Nat : x = N * S
      BY <2>4
    <3>2. PICK q \in Nat, t \in 0 .. unit - 1 : Divides(x, unit, q, t)
      BY DividedBy
    <3>3. q * unit \in Nat
      BY TimesNat
    <3>4. t = 0 /\ x = q * unit + t
      BY <2>3, <3>1, <3>2 DEF Divides
    <3> QED BY <3>1, <3>2, <3>3, <3>4 DEF Divides
  <2>6. PICK al : al = AlAlloc(unit, q)
    OBVIOUS
  <2>7. AlOK(al, flen) /\ CacheHolds(al)
    BY <2>6, AllocHolds
  <2>8. al.unit = unit /\ al.size = N * S
    <3>1. unit * q = q * unit
      OBVIOUS
    <3>2. al.unit = unit /\ al.size = unit * q
      BY <2>6 DEF AlAlloc
    <3> QED BY <2>5, <3>1, <3>2
  <2>9. CacheOK(al, p, CacheOf(in, p))
    BY <1>4, <2>2, <2>7, <2>8 DEF CacheOK, CacheOf
  <2>10. Opened(in) = [cur |-> 1, al |-> al]
    <3>1. (Sector * Num) \div p.unit = q
      BY <2>2, <2>4, <2>5
    <3> QED BY <1>4, <2>1, <2>2, <2>6, <3>1 DEF Opened
  <2>11. 1 \in 1 .. Len(in.parts) /\ Len(in.parts) \in Nat
    BY <1>1
  <2>12. RdOK(in, [cur |-> 1, al |-> al])
    BY <1>4, <2>1, <2>9, <2>11, RdAt
  <2> QED BY <2>10, <2>12
<1> QED BY <1>2, <1>3, <1>4, InputFacts

-----------------------------------------------------------------------------
(* A read of the threaded reader.                                          *)

\* a buffer has what was asked for, or the error
BufOK(in, b) ==
  /\ b.result \in {"ok", "err"}
  /\ b.result = "ok" => b.data \in Seq(Bytes) /\ Good(in, b.start, b.num, b.data)

\* two buffers, and no crash
TwoBuffers(t) ==
  \E buf, active, c :
    /\ t = [buf |-> buf, active |-> active, crashed |-> c] /\ c = FALSE
    /\ buf \in [0 .. 1 -> {buf[b] : b \in 0 .. 1}] /\ active \in 0 .. 1

\* The active buffer is right, and the cache of a drive has nothing of what
\* comes behind a block in it.
ThdOK(in, dev, t) ==
  /\ TwoBuffers(t) /\ BufOK(in, t.buf[t.active])
  /\ t.buf[t.active].result = "ok" /\ t.buf[t.active].num = Num =>
       Lined(in, dev, t.buf[t.active].start + Num)

\* what a read leaves and the client gets
AnswerOK(in, start, num, ans) ==
  /\ ~ans.thd.crashed /\ ans.thd.active \in 0 .. 1 /\ ans.rd.cur \in 0 .. Len(in.parts)
  /\ ans.got.result \in {"ok", "err"}
  /\ ans.got.result = "ok" =>
       /\ ans.got.data \in Seq(Bytes) /\ Good(in, start, num, ans.got.data)
       /\ RdOK(in, ans.rd) /\ ThdOK(in, ans.rd, ans.thd)

LEMMA SumMultiple ==
  ASSUME NEW a \in Nat, NEW b \in Nat, NEW n \in Nat \ {0}, a % n = 0, b % n = 0
  PROVE  (a + b) % n = 0
<1>1. PICK q \in Nat, t \in 0 .. n - 1 : Divides(a, n, q, t)
  BY DividedBy
<1>2. PICK r \in Nat, u \in 0 .. n - 1 : Divides(b, n, r, u)
  BY DividedBy
<1>3. (q + r) * n = q * n + r * n /\ q * n \in Nat /\ r * n \in Nat
  BY TimesNat
<1>4. a = q * n + 0 /\ b = r * n + 0
  BY <1>1, <1>2 DEF Divides
<1>5. PICK p \in Nat, x \in Nat : p = q + r /\ x = a + b
  OBVIOUS
<1>6. 0 \in 0 .. n - 1 /\ x = p * n + 0
  BY <1>3, <1>4, <1>5
<1>7. x % n = 0
  BY <1>6, DivisionUnique
<1> QED BY <1>5, <1>7

LEMMA NextMultiple ==
  ASSUME NEW s \in Nat, NEW n \in Nat \ {0}, s % n = 0 PROVE (s + n) % n = 0
<1>1. n = 1 * n + 0 /\ 0 \in 0 .. n - 1 /\ 1 \in Nat /\ n \in Nat
  OBVIOUS
<1>2. n % n = 0
  BY <1>1, DivisionUnique
<1> QED BY <1>1, <1>2, SumMultiple

LEMMA FitsAhead ==
  ASSUME NEW in, NEW start \in Nat, Fits(in, start, Num) PROVE Fits(in, start + Num, Num)
<1>1. PICK n \in Nat \ {0} : n = Num
  BY SizesFacts
<1>2. start % n = 0 => (start + n) % n = 0
  BY NextMultiple
<1> QED BY <1>1, <1>2 DEF Fits

LEMMA Changed ==
  ASSUME NEW buf, NEW active, NEW c, NEW x
  PROVE  [[buf |-> buf, active |-> active, crashed |-> c] EXCEPT !.active = x]
           = [buf |-> buf, active |-> x, crashed |-> c]

OBVIOUS

LEMMA StoredOK ==
  ASSUME NEW in, NEW dev, NEW t, TwoBuffers(t), NEW b, t.active = b,
         NEW start, NEW num, NEW w, ReadOK(in, dev, start, num, w),
         NEW a, a = Stored(t, b, start, num, w), NEW new, new = a.thd.buf[b]
  PROVE  /\ a.rd = w.rd /\ TwoBuffers(a.thd) /\ a.thd.active = b
         /\ new.start = start /\ new.num = num /\ new.result = w.result
         /\ BufOK(in, new)
<1>1. PICK buf, active, c :
                         /\ t = [buf |-> buf, active |-> active, crashed |-> c] /\ c = FALSE
                         /\ buf \in [0 .. 1 -> {buf[x] : x \in 0 .. 1}]
                         /\ active \in 0 .. 1
  BY DEF TwoBuffers
<1>11. active = b /\ t.buf = buf /\ DOMAIN buf = 0 .. 1
  BY <1>1
<1>2. PICK data : data = IF w.set THEN w.data ELSE t.buf[b].data
  OBVIOUS
<1>3. PICK n : n = [start |-> start, num |-> num, result |-> w.result, data |-> data]
  OBVIOUS
<1>4. ~(w.result = "ok" /\ ~w.set /\ t.buf[b].data # <<>>)
  BY DEF ReadOK
<1>5. a = [rd |-> w.rd,
           thd |-> [buf |-> [buf EXCEPT ![b] = n], active |-> b, crashed |-> c]]
  <2>1. a = [rd |-> w.rd,
             thd |-> [t EXCEPT !.buf = [t.buf EXCEPT ![b] = n], !.crashed = c]]
    BY <1>1, <1>2, <1>3, <1>4 DEF Stored
  <2>2. [t EXCEPT !.buf = [t.buf EXCEPT ![b] = n], !.crashed = c]
          = [buf |-> [buf EXCEPT ![b] = n], active |-> b, crashed |-> c]
    <3>1. PICK x : x = [t.buf EXCEPT ![b] = n] /\ x = [buf EXCEPT ![b] = n]
      BY <1>11
    <3>2. PICK u : u = [t EXCEPT !.buf = x]
      OBVIOUS
    <3>3. u = [buf |-> x, active |-> active, crashed |-> c]
      BY <1>1, <3>2
    <3>4. [u EXCEPT !.crashed = c] = [buf |-> x, active |-> active, crashed |-> c]
      BY <3>3
    <3> QED BY <1>11, <3>1, <3>2, <3>4
  <2> QED BY <2>1, <2>2
<1>6. PICK buf2 : buf2 = [buf EXCEPT ![b] = n]
  OBVIOUS
<1>12. buf2[b] = n /\ buf2 \in [0 .. 1 -> {buf2[x] : x \in 0 .. 1}]
  BY <1>1, <1>6, <1>11
<1>7. PICK pair : pair = [buf |-> buf2, active |-> b, crashed |-> c]
  OBVIOUS
<1>8. a.rd = w.rd /\ a.thd = pair /\ new = n
  BY <1>5, <1>6, <1>7, <1>12
<1>9. TwoBuffers(pair) /\ pair.active = b
  BY <1>1, <1>11, <1>12, <1>7 DEF TwoBuffers
<1>10. BufOK(in, n)
  BY <1>2, <1>3 DEF ReadOK, BufOK
<1> QED BY <1>3, <1>8, <1>9, <1>10

\* the answer is what the active buffer has, with the reader as it is now
LEMMA ActiveAnswered ==
  ASSUME NEW in, NEW dev, RdOK(in, dev), NEW t, ThdOK(in, dev, t), NEW start, NEW num,
         NEW b, b = t.buf[t.active], b.start = start, b.num = num
  PROVE  AnswerOK(in, start, num, Answered([rd |-> dev, thd |-> t], b))
<1>1. PICK ans : ans = Answered([rd |-> dev, thd |-> t], b)
  OBVIOUS
<1>2. ans.rd = dev /\ ans.thd = t /\ ans.got = b
  BY <1>1 DEF Answered
<1>3. t.crashed = FALSE /\ t.active \in 0 .. 1
  BY DEF ThdOK, TwoBuffers
<1>4. dev.cur \in 0 .. Len(in.parts)
  BY DEF RdOK
<1>5. BufOK(in, b)
  BY DEF ThdOK
<1>6. b.result \in {"ok", "err"}
      /\ (b.result = "ok" => b.data \in Seq(Bytes) /\ Good(in, start, num, b.data))
  BY <1>5 DEF BufOK
<1> QED BY <1>1, <1>2, <1>3, <1>4, <1>6 DEF AnswerOK

LEMMA AheadOK ==
  ASSUME NEW in, WellFormed(in), NEW dev, NEW t, TwoBuffers(t),
         NEW start, NEW num, Asked(in, start, num),
         NEW got, got = t.buf[t.active], got.start = start, got.num = num, BufOK(in, got),
         dev.cur \in 0 .. Len(in.parts),
         got.result = "ok" => RdOK(in, dev) /\ (num = Num => Lined(in, dev, start + Num)),
         NEW g, Bearable(in, g)
  PROVE  AnswerOK(in, start, num, Ahead(in, [rd |-> dev, thd |-> t], start, num, g))
<1> DEFINE a == [rd |-> dev, thd |-> t]
           more == got.result = "ok" /\ num = Num /\ start + num < Total(in)
<1>1. PICK buf, b, c :
                    /\ t = [buf |-> buf, active |-> b, crashed |-> c] /\ c = FALSE
                    /\ buf \in [0 .. 1 -> {buf[x] : x \in 0 .. 1}]
                    /\ b \in 0 .. 1
  BY DEF TwoBuffers
<1>2. a.thd.active = b /\ a.rd = dev /\ a.thd = t /\ t.crashed = FALSE /\ got = a.thd.buf[b]
  BY <1>1
<1>3. CASE ~more
  <2>1. Ahead(in, a, start, num, g) = Answered(a, got)
    BY <1>2, <1>3 DEF Ahead
  <2>2. CASE got.result = "ok"
    <3>1. ThdOK(in, dev, t)
      BY <2>2 DEF ThdOK
    <3> QED BY <2>1, <2>2, <3>1, ActiveAnswered
  <2>3. CASE got.result = "err"
    <3> HIDE DEF a
    <3>1. PICK ans : ans = Answered(a, got)
      OBVIOUS
    <3>3. ans.rd = dev /\ ans.thd = t /\ ans.got = got
      BY <1>2, <3>1 DEF Answered
    <3>2. b \in 0 .. 1 /\ t.active = b
      BY <1>1
    <3> QED BY <1>2, <2>1, <2>3, <3>1, <3>2, <3>3 DEF AnswerOK, a
  <2> QED BY <2>2, <2>3 DEF BufOK
<1>4. CASE more
  <2>1. PICK t2 : t2 = [t EXCEPT !.active = 1 - b]
    OBVIOUS
  <2>2. t2 = [buf |-> buf, active |-> 1 - b, crashed |-> c] /\ 1 - b \in 0 .. 1
    <3>1. t2 = [buf |-> buf, active |-> 1 - b, crashed |-> c]
      BY <1>1, <2>1, Changed, Zenon
    <3> QED BY <1>1, <3>1
  <2>3. TwoBuffers(t2) /\ t2.active = 1 - b
    BY <1>1, <2>2 DEF TwoBuffers
  <2>4. PICK w : w = Read(in, dev, start + Num, Num, g)
    OBVIOUS
  <2>5. Asked(in, start + Num, Num)
    <3>1. PICK n \in Nat \ {0}, T \in Nat : n = Num /\ T = Total(in)
      BY SizesFacts, TotalFacts
    <3>2. start \in Nat /\ start + n < T /\ Fits(in, start, Num)
      BY <1>4, <3>1 DEF Asked
    <3>3. Fits(in, start + Num, Num)
      BY <3>2, FitsAhead
    <3> QED BY <3>1, <3>2, <3>3 DEF Asked
  <2>6. ReadOK(in, dev, start + Num, Num, w)
    BY <1>4, <2>4, <2>5, ReadIsOK
  <2>7. PICK s : s = Stored(t2, 1 - b, start + Num, Num, w)
    OBVIOUS
  <2>8. Ahead(in, a, start, num, g) = Answered(s, got)
    BY <1>2, <1>4, <2>1, <2>4, <2>7 DEF Ahead, Fetch
  <2>9. PICK new : new = s.thd.buf[1 - b]
    OBVIOUS
  <2>10. /\ s.rd = w.rd /\ TwoBuffers(s.thd) /\ s.thd.active = 1 - b
         /\ new.start = start + Num /\ new.num = Num /\ new.result = w.result
         /\ BufOK(in, new)
    BY <2>3, <2>6, <2>7, <2>9, StoredOK
  <2>11. RdOK(in, w.rd)
    <3>1. Lined(in, dev, start + Num)
      BY <1>4
    <3>2. w.result \in {"ok", "err"}
      BY <2>6 DEF ReadOK
    <3> QED BY <2>6, <3>1, <3>2 DEF ReadOK
  <2>12. ThdOK(in, w.rd, s.thd)
    <3>1. new.result = "ok" => Lined(in, w.rd, start + Num + Num)
      BY <2>6, <2>10 DEF ReadOK
    <3> QED BY <2>9, <2>10, <3>1 DEF ThdOK
  <2>18. PICK ans : ans = Answered(s, got)
    OBVIOUS
  <2>13. ans.rd = w.rd /\ ans.thd = s.thd /\ ans.got = got
    BY <2>10, <2>18 DEF Answered
  <2>14. s.thd.active \in 0 .. 1 /\ ~s.thd.crashed
    BY <2>10 DEF TwoBuffers
  <2>15. w.rd.cur \in 0 .. Len(in.parts)
    BY <2>6 DEF ReadOK
  <2>16. got.result = "ok" /\ got.data \in Seq(Bytes) /\ Good(in, start, num, got.data)
    BY <1>4 DEF BufOK
  <2>17. AnswerOK(in, start, num, ans)
    BY <2>11, <2>12, <2>13, <2>14, <2>15, <2>16 DEF AnswerOK
  <2> QED BY <2>8, <2>18, <2>17
<1> QED BY <1>3, <1>4

\* What a read of the threaded reader gives the client, from the buffer that is
\* active or from the input, and what the block it reads ahead leaves.
LEMMA ThdReadOK ==
  ASSUME NEW in, WellFormed(in), NEW dev, RdOK(in, dev), NEW t, ThdOK(in, dev, t),
         NEW start, NEW num, Asked(in, start, num),
         NEW f, Bearable(in, f), NEW g, Bearable(in, g)
  PROVE  AnswerOK(in, start, num, ThdRead(in, dev, t, start, num, f, g))
<1>1. PICK b : b = t.active
  OBVIOUS
<1>2. TwoBuffers(t) /\ BufOK(in, t.buf[b])
  BY <1>1 DEF ThdOK
<1>3. CASE t.buf[b].start = start /\ t.buf[b].num = num
  <2>1. ThdRead(in, dev, t, start, num, f, g) = Ahead(in, [rd |-> dev, thd |-> t], start, num, g)
    BY <1>1, <1>3 DEF ThdRead
  <2>2. dev.cur \in 0 .. Len(in.parts)
    BY DEF RdOK
  <2>3. t.buf[b].result = "ok" /\ num = Num => Lined(in, dev, start + Num)
    BY <1>1, <1>3 DEF ThdOK
  <2>4. PICK got : got = t.buf[b]
    OBVIOUS
  <2> QED BY <1>1, <1>2, <1>3, <2>1, <2>2, <2>3, <2>4, AheadOK
<1>4. CASE ~(t.buf[b].start = start /\ t.buf[b].num = num)
  <2>1. PICK w : w = Read(in, dev, start, num, f)
    OBVIOUS
  <2>2. ReadOK(in, dev, start, num, w)
    BY <2>1, ReadIsOK
  <2>3. PICK s : s = Stored(t, b, start, num, w)
    OBVIOUS
  <2>4. PICK got : got = s.thd.buf[b]
    OBVIOUS
  <2>5. /\ s.rd = w.rd /\ TwoBuffers(s.thd) /\ s.thd.active = b
        /\ got.start = start /\ got.num = num /\ got.result = w.result
        /\ BufOK(in, got)
    BY <1>1, <1>2, <2>2, <2>3, <2>4, StoredOK
  <2>6. ThdRead(in, dev, t, start, num, f, g) = Ahead(in, s, start, num, g)
    BY <1>1, <1>4, <2>1, <2>3 DEF ThdRead, Fetch
  <2>7. s = [rd |-> w.rd, thd |-> s.thd]
    BY <2>3 DEF Stored
  <2>8. w.rd.cur \in 0 .. Len(in.parts)
    BY <2>2 DEF ReadOK
  <2>9. got.result = "ok" => RdOK(in, w.rd) /\ (num = Num => Lined(in, w.rd, start + Num))
    BY <2>2, <2>5 DEF ReadOK
  <2>10. PICK t2 : t2 = s.thd
    OBVIOUS
  <2>11. AnswerOK(in, start, num, Ahead(in, [rd |-> w.rd, thd |-> t2], start, num, g))
    BY <2>4, <2>5, <2>8, <2>9, <2>10, AheadOK
  <2> QED BY <2>6, <2>7, <2>10, <2>11
<1> QED BY <1>3, <1>4
=============================================================================
