--------------------------- MODULE AlignedReader ---------------------------
(***************************************************************************)
(* The cache every image and drive is read through, aligned.c: the device  *)
(* wants reads that start and end on its own sectors, so a request is      *)
(* rounded down and the whole buffer is filled; what the buffer already    *)
(* has of it is moved to the front first.                                  *)
(*                                                                         *)
(* A byte of the buffer is modelled by its position in the file, so that   *)
(* a byte that is not where the cache says shows.                          *)
(***************************************************************************)
EXTENDS Integers

CONSTANTS NoOffset,  \* (u_int64_t) -1, behind the end of any file
          U32        \* the modulus of u_int32_t

ASSUME AlignedAssumption == NoOffset \in Nat /\ U32 \in Nat \ {0}

Junk == -1   \* a byte of memory nobody has written
Zero == -2   \* a zero byte that is not from the file

Lesser(a, b) == IF a <= b THEN a ELSE b

\* al_alloc: unit is the sector size of the device
AlAlloc(unit, sectors) ==
  [unit |-> unit, size |-> unit * sectors,
   buf |-> [i \in 0 .. unit * sectors - 1 |-> Junk],
   offset |-> NoOffset, len |-> 0]

\* the memory at an index of the buffer
Byte(buf, i) == IF i \in DOMAIN buf THEN buf[i] ELSE Junk

\* the buffer contains all requested data
Cached(al, offset, bytes) ==
  al.offset <= offset /\ offset + bytes <= al.offset + al.len

\* bytes from a on that the buffer has already, the "correction"
Kept(al, a) ==
  IF al.offset <= a /\ a < al.offset + al.len THEN al.offset + al.len - a ELSE 0

\* they are moved to the front
Moved(al, a) ==
  [i \in DOMAIN al.buf |->
     IF i < Kept(al, a) THEN Byte(al.buf, i + (a - al.offset)) ELSE al.buf[i]]

\* (mutated form of Got: the whole buffer is filled behind what was kept)
GotTooMuch(al, flen, a) ==
  LET n == Kept(al, a) IN IF a + n <= flen THEN Lesser(al.size, flen - (a + n)) ELSE 0

\* bytes a file of flen bytes has for the rest of the buffer
Got(al, flen, a) ==
  LET n == Kept(al, a)
  IN IF a + n <= flen THEN Lesser(al.size - n, flen - (a + n)) ELSE 0

\* (mutated form of Filled: the data that was kept is not counted)
FilledNotKept(al, flen, a) ==
  LET n == Kept(al, a)
      m == Got(al, flen, a)
  IN [al EXCEPT !.buf = [i \in DOMAIN al.buf |->
                           IF i >= n /\ i < n + m THEN a + i - n ELSE Moved(al, a)[i]],
                !.offset = a, !.len = n + m]

\* the rest of the buffer is read from the file and the cache is at a
Filled(al, flen, a) ==
  LET n == Kept(al, a)
      m == Got(al, flen, a)
  IN [al EXCEPT !.buf = [i \in DOMAIN al.buf |->
                           IF i >= n /\ i < n + m THEN a + i ELSE Moved(al, a)[i]],
                !.offset = a, !.len = n + m]

\* The seek or the read fails: the data was moved, and after a failed read
\* counted once more, but the offset is the old one.
Failed(al, a, fault) ==
  [al EXCEPT !.buf = Moved(al, a),
             !.len = IF fault = "read" THEN @ + Kept(al, a) ELSE @]

\* al_read: at is where the data pointer points in the buffer.  Behind the end
\* of the file the length that is left is less than nothing and wraps.
AlRead(al, flen, offset, bytes, fault) ==
  LET a    == offset - (offset % al.unit)
      skip == offset % al.unit
      new  == IF fault = "none" THEN Filled(al, flen, a) ELSE Failed(al, a, fault)
      left == IF skip <= new.len THEN new.len - skip ELSE new.len - skip + U32
  IN IF Cached(al, offset, bytes)
     THEN [al |-> al, ok |-> TRUE, at |-> offset - al.offset, len |-> bytes]
     ELSE [al |-> new, ok |-> fault = "none", at |-> skip, len |-> Lesser(bytes, left)]

\* every byte of the cache is the byte of the file it stands for
CacheHolds(al) == \A i \in 0 .. al.len - 1 : Byte(al.buf, i) = al.offset + i
=============================================================================
