--------------------------- MODULE CompareInputs ----------------------------
(***************************************************************************)
(* compare_iin beside the commands of ImageCopy: two inputs, each with its *)
(* own threaded reader, are read side by side.  Their parts and gaps end   *)
(* at different places, so a block of one may be shorter than that of the  *)
(* other; both go on by the shorter one.                                   *)
(***************************************************************************)
EXTENDS ImageCopy

CONSTANT Others  \* the inputs the first one is compared with

VARIABLES
  other,    \* the second input
  rd2,      \* its reader
  thd2,     \* its threaded reader
  changed,  \* the sectors in which its contents are not those of the first
  left,     \* the sectors that are left of either
  longer    \* which of them goes on when the other has ended

cmpVars == <<other, rd2, thd2, changed, left, longer>>
allVars == <<vars, cmpVars>>

CompareInit ==
  /\ Init
  /\ other = input /\ rd2 = rd /\ thd2 = thd
  /\ changed = {} /\ left = <<0, 0>> /\ longer = 0

-----------------------------------------------------------------------------
\* The value of a byte of an input: the sector and the byte of the image it
\* stands for, another one in a changed sector, or a byte between sectors.
Value(in, ch, byte) ==
  LET k  == CHOOSE k \in DOMAIN in.parts : in.parts[k].file = byte[1]
      at == byte[2] - in.parts[k].skip
      s  == in.parts[k].offset + (at \div in.raw)
      b  == (at % in.raw) - in.skipIn
  IN IF byte[1] = 0 THEN <<"none", byte[2], 0, FALSE>>
     ELSE IF b \in 0 .. Sector - 1 THEN <<"image", s, b, s \in ch>>
     ELSE <<"frame", byte[1], byte[2], FALSE>>

SameBytes(a, b, n) ==
  \A i \in 1 .. n : Value(input, {}, a[i]) = Value(other, changed, b[i])

\* both inputs are opened, which reads nothing of them
StartCompare ==
  /\ phase = "probe" /\ rd = Opened(input)
  /\ \A b \in DOMAIN thd.buf : thd.buf[b] = EmptyBuffer
  /\ phase' = "compare"
  /\ other' \in Others
  /\ rd2' = Opened(other') /\ thd2' = thd
  /\ changed' \in {{}} \cup {{s} : s \in 0 .. Total(other') - 1}
  /\ left' = <<Total(input), Total(other')>>
  /\ UNCHANGED <<input, rd, thd, pos, upto, out, to, short, result, longer>>

EndCompare(r) == phase' = "compared" /\ result' = r

\* the result when nothing differs
Verdict(which) ==
  CASE which = 0 -> "ok" [] which = 1 -> "1st longer" [] which = 2 -> "2nd longer"

\* which input goes on when a block of only one of them is empty
LongerNow(a, b) == CASE Len(a) # 0 /\ Len(b) = 0 -> 1
                     [] Len(a) = 0 /\ Len(b) # 0 -> 2
                     [] OTHER -> longer

\* (mutated form of Judge: both go on by the block of the first input)
JudgeFirst(a, b) ==
  LET n == Lesser(Len(a), Len(b))
      whole == Len(a) \div Sector
  IN IF ~SameBytes(a, b, n)
     THEN EndCompare("different") /\ UNCHANGED <<pos, left, longer>>
     ELSE /\ longer' = LongerNow(a, b)
          /\ left' = <<left[1] - whole, left[2] - whole>>
          /\ pos' = pos + whole
          /\ IF Len(a) >= Sector /\ Len(b) >= Sector THEN Keep ELSE EndCompare(Verdict(longer'))

\* what is made of a block of each input
Judge(a, b) ==
  LET n == Lesser(Len(a), Len(b))
      whole == n \div Sector
  IN IF ~SameBytes(a, b, n)
     THEN EndCompare("different") /\ UNCHANGED <<pos, left, longer>>
     ELSE /\ longer' = LongerNow(a, b)
          /\ left' = <<left[1] - whole, left[2] - whole>>
          /\ pos' = pos + whole
          /\ IF Len(a) >= Sector /\ Len(b) >= Sector THEN Keep ELSE EndCompare(Verdict(longer'))

\* a reader that is of no more use, and the result it leaves
Bad(r) == r.thd.crashed \/ r.got.result = "err"
Why(r) == IF r.thd.crashed THEN "crashed" ELSE "err"

\* an iteration of the loop
Compare ==
  /\ phase = "compare"
  /\ \E f, g \in FaultsOf(input), f2, g2 \in FaultsOf(other) :
     \E r \in {ThdRead(input, rd, thd, pos, Lesser(Num, left[1]), f, g)} :
       /\ rd' = r.rd /\ thd' = r.thd
       /\ IF Bad(r)
          THEN EndCompare(Why(r)) /\ UNCHANGED <<rd2, thd2, pos, left, longer>>
          ELSE \E q \in {ThdRead(other, rd2, thd2, pos, Lesser(Num, left[2]), f2, g2)} :
                 /\ rd2' = q.rd /\ thd2' = q.thd
                 /\ IF Bad(q)
                    THEN EndCompare(Why(q)) /\ UNCHANGED <<pos, left, longer>>
                    ELSE Judge(r.got.data, q.got.data)
  /\ UNCHANGED <<input, upto, out, to, short, other, changed>>

\* Ctrl+C
InterruptCompare == /\ phase = "compare" /\ EndCompare("err")
                    /\ UNCHANGED <<input, rd, thd, pos, upto, out, to, short, cmpVars>>

CopyOrDump == Next /\ UNCHANGED cmpVars

CompareNext == CopyOrDump \/ StartCompare \/ Compare \/ InterruptCompare

CompareSpec == CompareInit /\ [][CompareNext]_allVars

-----------------------------------------------------------------------------
\* The answer of a comparison is that of the whole images, wherever the parts
\* of either end: what differs is found, and what is said to be longer is.
CompareRight ==
  phase = "compared" /\ result \notin {"err", "crashed"} =>
    LET n == Lesser(Total(input), Total(other)) * Sector IN
    result = IF ~SameBytes(Whole(input), Whole(other), n) THEN "different"
             ELSE Verdict(CASE Total(input) = Total(other) -> 0
                            [] Total(input) > Total(other) -> 1
                            [] Total(input) < Total(other) -> 2)
=============================================================================
