----------------------------- MODULE CopyProofs -----------------------------
(***************************************************************************)
(* Copies, dumps and comparisons of inputs, for inputs of any number of    *)
(* parts of any length, files on volumes of any sector size and blocks of  *)
(* any size.  ImageProofs has what one read delivers; here is the          *)
(* invariant of the commands that read one block after the other.          *)
(***************************************************************************)
EXTENDS ImageProofs

\* What the commands are asked to read: inputs that are as WellFormed says (in
\* two ways img_base_read goes wrong on others: MCFillInputs, MCTailInputs),
\* on files that can be missing but are read without errors (iin_img_base.c:221
\* hides those); what is compared has room for a block that starts anywhere.
Suited ==
  /\ Faults["image"] \subseteq {"open"}
  /\ \A in \in Inputs : WellFormed(in)
  /\ Others # {} => \A in \in Inputs \cup Others : WellFormed(in) /\ RoomAnywhere(in)

Phases == {"probe", "copy", "dump", "done", "dumped", "compare", "compared"}
Active == {"probe", "copy", "dump", "compare"}
Results == {"none", "ok", "err", "crashed", "different", "1st longer", "2nd longer"}

Typed ==
  /\ input \in Inputs
  /\ phase \in Phases /\ result \in Results /\ (result = "none" <=> phase \in Active)
  /\ rd.cur \in 0 .. Len(input.parts) /\ thd.active \in 0 .. 1
  /\ pos \in 0 .. Total(input) /\ upto \in 0 .. Total(input)
  /\ to \in 0 .. Total(input) * Sector /\ short \in BOOLEAN

\* the reader and its threaded reader are right while the command goes on
Reading == result = "none" => RdOK(input, rd) /\ ThdOK(input, rd, thd)

\* the first n sectors of an input
FirstOf(in, n) ==
  [i \in 1 .. n * Sector |-> Source(in, (i - 1) \div Sector, (i - 1) % Sector)]

\* In an input of one part a block starts at a multiple of its size.
OnBlock(in, s) == Len(in.parts) = 1 => s % Num = 0 \/ s = Total(in)

Started == phase = "probe" => pos = 0 /\ to = 0 /\ out = <<>>

Copied ==
  phase = "copy" =>
    /\ pos <= upto /\ OnBlock(input, pos) /\ OnBlock(input, upto)
    /\ to = pos * Sector /\ out = FirstOf(input, pos)

\* A dump leaves out what was not read, in an input of several parts, and what
\* the file did not take, and moves up the rest; it is in place as long as
\* nothing was left out.
Dumped ==
  phase = "dump" =>
    /\ upto = Total(input) /\ OnBlock(input, pos) /\ to <= pos * Sector
    /\ to = pos * Sector => out = FirstOf(input, pos)
    /\ Len(input.parts) = 1 /\ ~short => to = pos * Sector

Same(in, ot, ch, a, b, n) ==
  \A i \in 1 .. n : Value(in, {}, a[i]) = Value(ot, ch, b[i])

Compared ==
  phase = "compare" =>
    /\ other \in Others /\ RdOK(other, rd2) /\ ThdOK(other, rd2, thd2)
    /\ pos <= Total(other) /\ left = <<Total(input) - pos, Total(other) - pos>>
    /\ Same(input, other, changed, Whole(input), Whole(other), pos * Sector)

CopyInv ==
  /\ Typed /\ Reading /\ Started /\ Copied /\ Dumped /\ Compared
  /\ phase # "compared" => longer = 0
  /\ CopyRight /\ DumpRight /\ CompareRight

-----------------------------------------------------------------------------
(* What is written.                                                        *)

LEMMA FirstLen ==
  ASSUME NEW in, NEW n \in Nat
  PROVE  n * Sector \in Nat /\ Len(FirstOf(in, n)) = n * Sector
<1>1. PICK m \in Nat : m = n * Sector
  BY SizesFacts, TimesNat
<1> QED BY <1>1 DEF FirstOf

LEMMA NothingYet == ASSUME NEW in PROVE FirstOf(in, 0) = <<>>
<1>1. 0 * Sector = 0
  BY SizesFacts
<1> QED BY <1>1 DEF FirstOf

\* a byte that was delivered is the byte of the input it stands for
LEMMA Delivered1 ==
  ASSUME NEW in, NEW p \in Nat, NEW n \in Nat, NEW data, Delivers(in, p, n, data),
         NEW i \in 0 .. n * Sector - 1, NEW x, x = p * Sector + i
  PROVE  data[i + 1] = Source(in, x \div Sector, x % Sector)
<1>1. PICK S \in Nat \ {0}, j \in Nat : S = Sector /\ j = i
  BY SizesFacts, TimesNat
<1>2. PICK q \in Nat, t \in 0 .. S - 1 : Divides(j, S, q, t)
  BY DividedBy
<1>3. PICK s \in Nat, y \in Nat : s = p + q /\ y = x /\ x = p * S + j
  BY <1>1, TimesNat
<1>4. (p + q) * S = p * S + q * S
  OBVIOUS
<1>5. y = s * S + t
  BY <1>2, <1>3, <1>4 DEF Divides
<1>6. y \div S = s /\ y % S = t
  BY <1>5, DivisionUnique
<1>7. j \div S = q /\ j % S = t
  BY <1>2 DEF Divides
<1>8. data[i + 1] = Source(in, p + (i \div Sector), i % Sector)
  BY DEF Delivers
<1> QED BY <1>1, <1>3, <1>6, <1>7, <1>8

\* sectors that are written behind those before them
LEMMA WrittenBehind ==
  ASSUME NEW in, NEW p \in Nat, NEW n \in Nat, NEW data, Delivers(in, p, n, data)
  PROVE  Written(FirstOf(in, p), p * Sector, data) = FirstOf(in, p + n)
<1>1. PICK a \in Nat, b \in Nat : a = p * Sector /\ b = n * Sector
  BY SizesFacts, TimesNat
<1>2. (p + n) * Sector = p * Sector + n * Sector
  BY SizesFacts
<1>3. PICK o : o = FirstOf(in, p)
  OBVIOUS
<1>4. Len(o) = a /\ Len(data) = b
  BY <1>1, <1>3, FirstLen DEF Delivers
<1>5. PICK fill : fill = [i \in 1 .. a + b |-> IF i <= a THEN o[i] ELSE Hole]
  OBVIOUS
<1>6. Len(fill) = a + b
  BY <1>5
<1>7. Written(o, a, data) = [i \in 1 .. a + b |-> IF i > a THEN data[i - a] ELSE fill[i]]
  BY <1>4, <1>5, <1>6 DEF Written
<1>8. FirstOf(in, p + n) = [i \in 1 .. a + b |-> Source(in, (i - 1) \div Sector, (i - 1) % Sector)]
  BY <1>1, <1>2 DEF FirstOf
<1>9. ASSUME NEW i \in 1 .. a + b
      PROVE  (IF i > a THEN data[i - a] ELSE fill[i])
               = Source(in, (i - 1) \div Sector, (i - 1) % Sector)
  <2>1. CASE i > a
    <3>1. PICK j \in 0 .. b - 1 : j = i - 1 - a /\ j + 1 = i - a
      BY <2>1
    <3>2. PICK x : x = i - 1
      OBVIOUS
    <3>3. x = p * Sector + j /\ j \in 0 .. n * Sector - 1
      BY <1>1, <3>1, <3>2
    <3>4. data[j + 1] = Source(in, x \div Sector, x % Sector)
      BY <3>3, Delivered1
    <3> QED BY <2>1, <3>1, <3>2, <3>4
  <2>2. CASE ~(i > a)
    <3>1. fill[i] = o[i] /\ i \in 1 .. a
      BY <1>5, <2>2
    <3>2. o[i] = Source(in, (i - 1) \div Sector, (i - 1) % Sector)
      BY <1>1, <1>3, <3>1 DEF FirstOf
    <3> QED BY <2>2, <3>1, <3>2
  <2> QED BY <2>1, <2>2
<1> QED BY <1>1, <1>3, <1>7, <1>8, <1>9

\* A block that is delivered of what is left.
LEMMA BlockDelivered ==
  ASSUME NEW in, WellFormed(in), NEW s \in Nat, NEW end \in Nat, s < end, end <= Total(in),
         OnBlock(in, s), NEW data, NEW m, m = Lesser(Num, end - s), Good(in, s, m, data)
  PROVE  \E n \in 1 .. m : /\ Delivers(in, s, n, data)
                           /\ Len(in.parts) = 1 => n = m
<1>1. PICK N \in Nat \ {0}, T \in Nat :
        N = Num /\ T = Total(in) /\ m <= end - s /\ m <= N /\ m \in Nat \ {0}
  BY SizesFacts, TotalFacts DEF Lesser
<1>2. Right(in, s, m, data)
  BY <1>1 DEF Good
<1>3. Len(in.parts) = 1 => s % Num = 0
  BY <1>1 DEF OnBlock
<1> QED BY <1>1, <1>2, <1>3 DEF Right

\* It is asked for, and the next one starts at a multiple of its size again.
LEMMA BlockAsked ==
  ASSUME NEW in, WellFormed(in), NEW s \in Nat, NEW end \in Nat, s < end, end <= Total(in),
         OnBlock(in, s)
  PROVE  Asked(in, s, Lesser(Num, end - s))
<1>1. PICK N \in Nat \ {0}, T \in Nat, m \in Nat \ {0} :
        N = Num /\ T = Total(in) /\ m = Lesser(Num, end - s) /\ m <= end - s /\ m <= N
  BY SizesFacts, TotalFacts DEF Lesser
<1>2. Len(in.parts) = 1 \/ Len(in.parts) > 1
  <2>1. PICK n \in Nat \ {0} : n = Len(in.parts)
    BY InputFacts
  <2>2. n = 1 \/ n > 1
    OBVIOUS
  <2> QED BY <2>1, <2>2
<1>3. Fits(in, s, m)
  BY <1>1, <1>2 DEF OnBlock, Fits
<1> QED BY <1>1, <1>3 DEF Asked

LEMMA OnNextBlock ==
  ASSUME NEW in, WellFormed(in), NEW s \in Nat, NEW end \in Nat, s < end, end <= Total(in),
         OnBlock(in, s), OnBlock(in, end), NEW n, Len(in.parts) = 1 => n = Lesser(Num, end - s)
  PROVE  OnBlock(in, s + n)
<1> SUFFICES ASSUME Len(in.parts) = 1, s + n # end PROVE (s + n) % Num = 0
  BY DEF OnBlock
<1>1. PICK N \in Nat \ {0}, T \in Nat : N = Num /\ T = Total(in)
  BY SizesFacts, TotalFacts
<1>2. n = N
  BY <1>1 DEF Lesser
<1>3. s % N = 0
  BY <1>1 DEF OnBlock
<1> QED BY <1>1, <1>2, <1>3, NextMultiple

-----------------------------------------------------------------------------
(* The commands keep the invariant.                                        *)

\* a threaded reader with nothing in its active buffer
LEMMA EmptyOK ==
  ASSUME NEW in, NEW dev, NEW t, TwoBuffers(t), t.buf[t.active] = EmptyBuffer
  PROVE  ThdOK(in, dev, t)
<1>1. EmptyBuffer.num = 0 /\ EmptyBuffer.result = "ok" /\ EmptyBuffer.data = <<>>
  BY DEF EmptyBuffer
<1>2. Num # 0
  BY SizesFacts
<1>3. <<>> \in Seq(Bytes) /\ ~(0 > 0)
  OBVIOUS
<1> QED BY <1>1, <1>2, <1>3 DEF ThdOK, BufOK, Good

LEMMA InitInv == ASSUME Suited, CompareInit PROVE CopyInv
<1>1. /\ input \in Inputs /\ rd = Opened(input) /\ phase = "probe" /\ result = "none"
      /\ pos = 0 /\ upto = 0 /\ to = 0 /\ out = <<>> /\ short = FALSE /\ longer = 0
      /\ thd = [buf |-> [b \in 0 .. 1 |-> EmptyBuffer], active |-> 0, crashed |-> FALSE]
  BY DEF CompareInit, Init
<1>2. WellFormed(input)
  BY <1>1 DEF Suited
<1>3. RdOK(input, rd)
  BY <1>1, <1>2, OpenedOK
<1>4. TwoBuffers(thd) /\ thd.active = 0 /\ thd.buf[0] = EmptyBuffer
  <2>1. PICK buf, c : buf = [b \in 0 .. 1 |-> EmptyBuffer] /\ c = FALSE
    OBVIOUS
  <2>2. thd = [buf |-> buf, active |-> 0, crashed |-> c]
    BY <1>1, <2>1
  <2>3. buf \in [0 .. 1 -> {buf[b] : b \in 0 .. 1}] /\ buf[0] = EmptyBuffer
    BY <2>1
  <2> QED BY <2>1, <2>2, <2>3 DEF TwoBuffers
<1>5. ThdOK(input, rd, thd)
  BY <1>4, EmptyOK
<1>6. rd.cur \in 0 .. Len(input.parts)
  BY <1>3 DEF RdOK
<1>7. 0 \in 0 .. Total(input) /\ 0 \in 0 .. Total(input) * Sector
  <2>1. PICK T \in Nat, S \in Nat : T = Total(input) /\ S = Sector
    BY <1>2, TotalFacts, SizesFacts
  <2>2. T * S \in Nat
    BY TimesNat
  <2> QED BY <2>1, <2>2
<1>8. phase \in Phases /\ result \in Results /\ (result = "none" <=> phase \in Active)
  BY <1>1 DEF Phases, Results, Active
<1>9. short \in BOOLEAN /\ thd.active \in 0 .. 1
  BY <1>1, <1>4
<1>10. Typed
  BY <1>1, <1>6, <1>7, <1>8, <1>9 DEF Typed
<1> QED BY <1>1, <1>3, <1>5, <1>10
        DEF CopyInv, Reading, Started, Copied, Dumped, Compared, CopyRight, DumpRight, CompareRight

\* The command ends, but not with success.
LEMMA StoppedInv ==
  ASSUME Typed, input' = input, phase' \in {"done", "compared"}, result' \in {"err", "crashed"},
         rd'.cur \in 0 .. Len(input.parts), thd'.active \in 0 .. 1,
         pos' = pos, upto' = upto, to' = to, short' = short, phase' = "done" => longer' = 0
  PROVE  CopyInv'
<1>1. Typed'
  BY DEF Typed, Phases, Results, Active
<1> QED BY <1>1 DEF CopyInv, Reading, Started, Copied, Dumped, Compared,
                    CopyRight, DumpRight, CompareRight

\* what a step of a command that reads does
Answer(start, num, r) ==
  AnswerOK(input, start, num, r) /\ rd' = r.rd /\ thd' = r.thd /\ input' = input

LEMMA Answers1 ==
  ASSUME Suited, Typed, Reading, result = "none", NEW start, NEW num, Asked(input, start, num),
         NEW f \in FaultsOf(input), NEW g \in FaultsOf(input)
  PROVE  AnswerOK(input, start, num, ThdRead(input, rd, thd, start, num, f, g))
<1>1. WellFormed(input) /\ RdOK(input, rd) /\ ThdOK(input, rd, thd)
  BY DEF Suited, Typed, Reading
<1>2. Bearable(input, f) /\ Bearable(input, g)
  BY DEF Suited, FaultsOf, Bearable
<1> QED BY <1>1, <1>2, ThdReadOK

\* the command goes on, or it ends because of an error
Stops == phase' = "done" /\ result' = "err" /\ UNCHANGED <<pos, upto, out, to, short>>

LEMMA ProbeReads ==
  ASSUME Suited, CopyInv, Probe
  PROVE  \E s \in 0 .. Total(input) : \E r :
           /\ Answer(s, 1, r)
           /\ \/ r.got.result = "err" /\ Stops
              \/ r.got.result = "ok" /\ UNCHANGED <<phase, result, pos, upto, out, to, short>>
<1>1. PICK s \in 0 .. Total(input) : Reads(s, 1, Look)
  BY DEF Probe
<1>2. PICK f \in FaultsOf(input), g \in FaultsOf(input) :
        \E r \in {ThdRead(input, rd, thd, s, 1, f, g)} :
          /\ rd' = r.rd /\ thd' = r.thd
          /\ UNCHANGED input
          /\ IF r.thd.crashed THEN End("crashed") /\ UNCHANGED <<pos, upto, out, to, short>>
             ELSE IF r.got.result = "err" THEN End("err") /\ UNCHANGED <<pos, upto, out, to, short>>
             ELSE Look(r.got.data)
  BY <1>1 DEF Reads
<1>3. PICK r : /\ r = ThdRead(input, rd, thd, s, 1, f, g)
               /\ rd' = r.rd /\ thd' = r.thd
               /\ UNCHANGED input
               /\ IF r.thd.crashed THEN End("crashed") /\ UNCHANGED <<pos, upto, out, to, short>>
                  ELSE IF r.got.result = "err" THEN End("err") /\ UNCHANGED <<pos, upto, out, to, short>>
                  ELSE Look(r.got.data)
  BY <1>2
<1>4. Asked(input, s, 1)
  <2>1. s \in Nat /\ s <= Total(input) /\ 1 \in 0 .. Num
    <3>1. WellFormed(input)
      BY DEF Suited, CopyInv, Typed
    <3>2. PICK T \in Nat, N \in Nat \ {0} : T = Total(input) /\ N = Num
      BY <3>1, TotalFacts, SizesFacts
    <3> QED BY <3>2
  <2> QED BY <2>1 DEF Asked, Fits
<1>5. Typed /\ Reading /\ result = "none"
  BY DEF CopyInv, Typed, Probe, Active
<1>6. AnswerOK(input, s, 1, r)
  BY <1>3, <1>4, <1>5, Answers1
<1>7. ~r.thd.crashed /\ r.got.result \in {"ok", "err"}
  BY <1>6 DEF AnswerOK
<1>8. Answer(s, 1, r)
  BY <1>3, <1>6 DEF Answer
<1> QED BY <1>3, <1>7, <1>8 DEF End, Look, Keep, Stops

\* The command goes on with what it read.
LEMMA GoingInv ==
  ASSUME Typed, NEW start, NEW num, NEW r, Answer(start, num, r), r.got.result = "ok",
         result' = "none", phase' \in {"probe", "copy", "dump"}, longer' = 0,
         pos' \in 0 .. Total(input), upto' \in 0 .. Total(input),
         to' \in 0 .. Total(input) * Sector, short' \in BOOLEAN, Started', Copied', Dumped'
  PROVE  CopyInv'
<1>1. /\ input' = input /\ rd' = r.rd /\ thd' = r.thd
      /\ r.thd.active \in 0 .. 1 /\ r.rd.cur \in 0 .. Len(input.parts)
      /\ RdOK(input, r.rd) /\ ThdOK(input, r.rd, r.thd)
  BY DEF Answer, AnswerOK
<1>2. Typed'
  BY <1>1 DEF Typed, Phases, Results, Active
<1>3. Reading'
  BY <1>1 DEF Reading
<1> QED BY <1>2, <1>3 DEF CopyInv, Compared, CopyRight, DumpRight, CompareRight

LEMMA ErrorInv ==
  ASSUME Typed, NEW start, NEW num, NEW r, Answer(start, num, r), Stops, longer' = 0
  PROVE  CopyInv'
<1>1. /\ input' = input /\ rd' = r.rd /\ thd' = r.thd
      /\ r.thd.active \in 0 .. 1 /\ r.rd.cur \in 0 .. Len(input.parts)
  BY DEF Answer, AnswerOK
<1> QED BY <1>1, StoppedInv DEF Stops

LEMMA ProbeInv == ASSUME Suited, CopyInv, Probe, UNCHANGED cmpVars PROVE CopyInv'
<1>1. PICK s \in 0 .. Total(input) : \E r :
           /\ Answer(s, 1, r)
           /\ \/ r.got.result = "err" /\ Stops
              \/ r.got.result = "ok" /\ UNCHANGED <<phase, result, pos, upto, out, to, short>>
  BY ProbeReads
<1>2. PICK r : /\ Answer(s, 1, r)
               /\ \/ r.got.result = "err" /\ Stops
                  \/ r.got.result = "ok" /\ UNCHANGED <<phase, result, pos, upto, out, to, short>>
  BY <1>1
<1>3. Typed /\ phase = "probe" /\ result = "none" /\ longer' = 0
  BY DEF CopyInv, Typed, Probe, Active, cmpVars
<1>4. CASE Stops
  BY <1>2, <1>3, <1>4, ErrorInv
<1>5. CASE r.got.result = "ok" /\ UNCHANGED <<phase, result, pos, upto, out, to, short>>
  <2>1. Started' /\ Copied' /\ Dumped'
    BY <1>3, <1>5 DEF CopyInv, Started, Copied, Dumped
  <2>2. /\ pos' \in 0 .. Total(input) /\ upto' \in 0 .. Total(input)
        /\ to' \in 0 .. Total(input) * Sector /\ short' \in BOOLEAN
    BY <1>3, <1>5 DEF Typed
  <2> QED BY <1>2, <1>3, <1>5, <2>1, <2>2, GoingInv
<1> QED BY <1>2, <1>4, <1>5

\* the block of a copy or a dump
LEMMA CopyReads ==
  ASSUME Suited, CopyInv, Copy
  PROVE  \E r : /\ Answer(pos, Lesser(Num, upto - pos), r)
                /\ \/ r.got.result = "err" /\ Stops
                   \/ r.got.result = "ok" /\ CopySome(r.got.data)
<1>1. Reads(pos, Lesser(Num, upto - pos), CopySome)
  BY DEF Copy
<1>2. PICK m : m = Lesser(Num, upto - pos)
  OBVIOUS
<1>3. PICK f \in FaultsOf(input), g \in FaultsOf(input) :
        \E r \in {ThdRead(input, rd, thd, pos, m, f, g)} :
          /\ rd' = r.rd /\ thd' = r.thd
          /\ UNCHANGED input
          /\ IF r.thd.crashed THEN End("crashed") /\ UNCHANGED <<pos, upto, out, to, short>>
             ELSE IF r.got.result = "err" THEN End("err") /\ UNCHANGED <<pos, upto, out, to, short>>
             ELSE CopySome(r.got.data)
  BY <1>1, <1>2 DEF Reads
<1>4. PICK r : /\ r = ThdRead(input, rd, thd, pos, m, f, g)
               /\ rd' = r.rd /\ thd' = r.thd
               /\ UNCHANGED input
               /\ IF r.thd.crashed THEN End("crashed") /\ UNCHANGED <<pos, upto, out, to, short>>
                  ELSE IF r.got.result = "err" THEN End("err") /\ UNCHANGED <<pos, upto, out, to, short>>
                  ELSE CopySome(r.got.data)
  BY <1>3
<1>5. Typed /\ Reading /\ result = "none" /\ Copied /\ phase = "copy" /\ pos < upto
  BY DEF CopyInv, Typed, Copy, Active
<1>6. Asked(input, pos, m)
  <2>1. WellFormed(input) /\ pos \in Nat /\ upto \in Nat /\ upto <= Total(input)
    <3>1. WellFormed(input)
      BY <1>5 DEF Suited, Typed
    <3>2. PICK T \in Nat : T = Total(input)
      BY <3>1, TotalFacts
    <3> QED BY <1>5, <3>1, <3>2 DEF Typed
  <2> QED BY <1>2, <1>5, <2>1, BlockAsked DEF Copied
<1>7. AnswerOK(input, pos, m, r)
  BY <1>4, <1>5, <1>6, Answers1
<1>8. ~r.thd.crashed /\ r.got.result \in {"ok", "err"}
  BY <1>7 DEF AnswerOK
<1>9. Answer(pos, m, r)
  BY <1>4, <1>7 DEF Answer
<1> QED BY <1>2, <1>4, <1>8, <1>9 DEF End, Stops

LEMMA DumpReads ==
  ASSUME Suited, CopyInv, Dump
  PROVE  \E r : /\ Answer(pos, Lesser(Num, upto - pos), r)
                /\ \/ r.got.result = "err" /\ Stops
                   \/ r.got.result = "ok" /\ DumpSome(r.got.data)
<1>1. Reads(pos, Lesser(Num, upto - pos), DumpSome)
  BY DEF Dump
<1>2. PICK m : m = Lesser(Num, upto - pos)
  OBVIOUS
<1>3. PICK f \in FaultsOf(input), g \in FaultsOf(input) :
        \E r \in {ThdRead(input, rd, thd, pos, m, f, g)} :
          /\ rd' = r.rd /\ thd' = r.thd
          /\ UNCHANGED input
          /\ IF r.thd.crashed THEN End("crashed") /\ UNCHANGED <<pos, upto, out, to, short>>
             ELSE IF r.got.result = "err" THEN End("err") /\ UNCHANGED <<pos, upto, out, to, short>>
             ELSE DumpSome(r.got.data)
  BY <1>1, <1>2 DEF Reads
<1>4. PICK r : /\ r = ThdRead(input, rd, thd, pos, m, f, g)
               /\ rd' = r.rd /\ thd' = r.thd
               /\ UNCHANGED input
               /\ IF r.thd.crashed THEN End("crashed") /\ UNCHANGED <<pos, upto, out, to, short>>
                  ELSE IF r.got.result = "err" THEN End("err") /\ UNCHANGED <<pos, upto, out, to, short>>
                  ELSE DumpSome(r.got.data)
  BY <1>3
<1>5. Typed /\ Reading /\ result = "none" /\ Dumped /\ phase = "dump" /\ pos < upto
  BY DEF CopyInv, Typed, Dump, Active
<1>6. Asked(input, pos, m)
  <2>1. WellFormed(input) /\ pos \in Nat /\ upto \in Nat /\ upto <= Total(input)
    <3>1. WellFormed(input)
      BY <1>5 DEF Suited, Typed
    <3>2. PICK T \in Nat : T = Total(input)
      BY <3>1, TotalFacts
    <3> QED BY <1>5, <3>1, <3>2 DEF Typed
  <2> QED BY <1>2, <1>5, <2>1, BlockAsked DEF Dumped
<1>7. AnswerOK(input, pos, m, r)
  BY <1>4, <1>5, <1>6, Answers1
<1>8. ~r.thd.crashed /\ r.got.result \in {"ok", "err"}
  BY <1>7 DEF AnswerOK
<1>9. Answer(pos, m, r)
  BY <1>4, <1>7 DEF Answer
<1> QED BY <1>2, <1>4, <1>8, <1>9 DEF End, Stops

LEMMA CopyStepInv == ASSUME Suited, CopyInv, Copy, UNCHANGED cmpVars PROVE CopyInv'
<1>1. PICK r : /\ Answer(pos, Lesser(Num, upto - pos), r)
               /\ \/ r.got.result = "err" /\ Stops
                  \/ r.got.result = "ok" /\ CopySome(r.got.data)
  BY CopyReads
<1>2. /\ Typed /\ Copied /\ phase = "copy" /\ result = "none" /\ longer' = 0 /\ pos < upto
      /\ WellFormed(input)
  BY DEF CopyInv, Typed, Copy, Active, cmpVars, Suited
<1>3. CASE r.got.result = "err" /\ Stops
  BY <1>1, <1>2, <1>3, ErrorInv
<1>4. CASE r.got.result = "ok" /\ CopySome(r.got.data)
  <2>1. PICK T \in Nat, S \in Nat \ {0}, p \in Nat, u \in Nat :
          T = Total(input) /\ S = Sector /\ p = pos /\ u = upto /\ p < u /\ u <= T
    <3>1. PICK T \in Nat, S \in Nat \ {0} : T = Total(input) /\ S = Sector
      BY <1>2, TotalFacts, SizesFacts
    <3> QED BY <1>2, <3>1 DEF Typed
  <2>2. PICK m, data : m = Lesser(Num, upto - pos) /\ data = r.got.data
    OBVIOUS
  <2>3. data \in Seq(Bytes) /\ Good(input, pos, m, data)
    BY <1>1, <1>4, <2>2 DEF Answer, AnswerOK
  <2>4. /\ OnBlock(input, pos) /\ OnBlock(input, upto)
        /\ to = pos * Sector /\ out = FirstOf(input, pos)
    BY <1>2 DEF Copied
  <2>5. PICK n \in 1 .. m : /\ Delivers(input, pos, n, data)
                            /\ Len(input.parts) = 1 => n = m
    BY <1>2, <2>1, <2>2, <2>3, <2>4, BlockDelivered
  <2>6. PICK k \in Nat \ {0} : k = n /\ p + k <= u /\ p + k \in 0 .. T
    <3>1. m \in Nat /\ m <= u - p
      <4>1. Num \in Nat \ {0}
        BY SizesFacts
      <4> QED BY <2>1, <2>2, <4>1 DEF Lesser
    <3> QED BY <2>1, <3>1
  <2>11. /\ Delivers(input, p, k, data)
         /\ Len(input.parts) = 1 => k = Lesser(Num, u - p)
    BY <2>1, <2>2, <2>5, <2>6
  <2>7. PICK b \in Nat \ {0} : b = Len(data) /\ b = k * S
    <3>1. k * S \in Nat /\ S <= k * S
      BY AtLeastOne
    <3>2. Len(data) = k * S
      BY <2>1, <2>11 DEF Delivers
    <3> QED BY <3>1, <3>2
  <2>8. PICK whole : whole = (Len(data) \div HddSector) * HddSector
    OBVIOUS
  <2>9. CASE whole # Len(data)
    <3>1. phase' = "done" /\ result' = "err" /\ UNCHANGED <<pos, upto, to, short>>
      BY <1>4, <2>2, <2>8, <2>9 DEF CopySome, End
    <3>2. /\ input' = input /\ rd'.cur \in 0 .. Len(input.parts) /\ thd'.active \in 0 .. 1
      BY <1>1 DEF Answer, AnswerOK
    <3> QED BY <1>2, <3>1, <3>2, StoppedInv
  <2>10. CASE whole = Len(data)
    <3>1. SubSeq(data, 1, whole) = data
      BY <2>3, <2>10
    <3>2. /\ out' = Written(out, to, data) /\ pos' = pos + Len(data) \div Sector
          /\ to' = to + Len(data) /\ UNCHANGED <<phase, result, upto, short>>
      <4>1. data # <<>>
        BY <2>7
      <4> QED BY <1>4, <2>2, <2>8, <2>10, <3>1, <4>1 DEF CopySome, Keep
    <3>3. b \div S = k
      <4>1. b = k * S + 0 /\ 0 \in 0 .. S - 1
        BY <2>7
      <4> QED BY <4>1, DivisionUnique
    <3>4. pos' = p + k /\ pos' = pos + n
      BY <2>1, <2>6, <2>7, <3>2, <3>3
    <3>5. to' = pos' * Sector
      <4>1. (p + k) * S = p * S + k * S
        OBVIOUS
      <4> QED BY <2>1, <2>4, <2>7, <3>2, <3>4, <4>1
    <3>6. out' = FirstOf(input, pos')
      <4>1. Written(FirstOf(input, p), p * Sector, data) = FirstOf(input, p + k)
        BY <2>11, WrittenBehind
      <4> QED BY <2>1, <2>4, <3>2, <3>4, <4>1
    <3>7. OnBlock(input, pos')
      <4>1. OnBlock(input, p + k)
        BY <1>2, <2>1, <2>4, <2>11, OnNextBlock
      <4> QED BY <3>4, <4>1
    <3>8. input' = input /\ pos' <= upto' /\ upto' = upto /\ OnBlock(input, upto)
      BY <1>1, <2>1, <2>4, <2>6, <3>2, <3>4 DEF Answer
    <3>9. Started' /\ Copied' /\ Dumped'
      BY <1>2, <3>2, <3>5, <3>6, <3>7, <3>8 DEF Started, Copied, Dumped
    <3>10. /\ pos' \in 0 .. Total(input) /\ upto' \in 0 .. Total(input)
           /\ to' \in 0 .. Total(input) * Sector /\ short' \in BOOLEAN
      <4>1. (p + k) * S <= T * S /\ (p + k) * S \in Nat
        BY <2>6, TimesMonotone, TimesNat
      <4>2. short' \in BOOLEAN
        BY <1>2, <3>2 DEF Typed
      <4>3. upto \in 0 .. Total(input)
        BY <1>2 DEF Typed
      <4>4. /\ pos' \in 0 .. Total(input) /\ upto' \in 0 .. Total(input)
            /\ to' \in 0 .. Total(input) * Sector
        BY <2>1, <2>6, <3>2, <3>4, <3>5, <4>1, <4>3
      <4> QED BY <4>2, <4>4
    <3> QED BY <1>1, <1>2, <1>4, <3>2, <3>9, <3>10, GoingInv
  <2> QED BY <2>9, <2>10
<1> QED BY <1>1, <1>3, <1>4

LEMMA DumpStepInv == ASSUME Suited, CopyInv, Dump, UNCHANGED cmpVars PROVE CopyInv'
<1>1. PICK r : /\ Answer(pos, Lesser(Num, upto - pos), r)
               /\ \/ r.got.result = "err" /\ Stops
                  \/ r.got.result = "ok" /\ DumpSome(r.got.data)
  BY DumpReads
<1>2. /\ Typed /\ Dumped /\ phase = "dump" /\ result = "none" /\ longer' = 0 /\ pos < upto
      /\ WellFormed(input)
  BY DEF CopyInv, Typed, Dump, Active, cmpVars, Suited
<1>3. CASE r.got.result = "err" /\ Stops
  BY <1>1, <1>2, <1>3, ErrorInv
<1>4. CASE r.got.result = "ok" /\ DumpSome(r.got.data)
  <2>1. PICK T \in Nat, S \in Nat \ {0}, p \in Nat, N \in Nat \ {0}, at \in Nat :
          T = Total(input) /\ S = Sector /\ p = pos /\ T = upto /\ p < T /\ N = Num /\ at = to
    <3>1. PICK T \in Nat, S \in Nat \ {0}, N \in Nat \ {0} :
            T = Total(input) /\ S = Sector /\ N = Num
      BY <1>2, TotalFacts, SizesFacts
    <3>2. T * S \in Nat
      BY TimesNat
    <3> QED BY <1>2, <3>1, <3>2 DEF Typed, Dumped
  <2>2. PICK m \in Nat \ {0} : m = Lesser(Num, upto - pos) /\ m = Lesser(Num, T - p) /\ m <= T - p
    BY <2>1 DEF Lesser
  <2>16. PICK data : data = r.got.data
    OBVIOUS
  <2>3. data \in Seq(Bytes) /\ Good(input, p, m, data)
    BY <1>1, <1>4, <2>1, <2>2, <2>16 DEF Answer, AnswerOK
  <2>4. /\ OnBlock(input, p) /\ OnBlock(input, T) /\ at <= p * S
        /\ at = p * S => out = FirstOf(input, p)
        /\ Len(input.parts) = 1 /\ ~short => at = p * S
    BY <1>2, <2>1 DEF Dumped, OnBlock
  <2>5. PICK n \in 1 .. m : /\ Delivers(input, p, n, data)
                            /\ Len(input.parts) = 1 => n = m
    <3>1. PICK in : in = input
      OBVIOUS
    <3>4. p < T /\ T <= T
      BY <2>1
    <3>5. T <= Total(in)
      BY <2>1, <3>1, <3>4
    <3>2. /\ WellFormed(in) /\ p < T /\ T <= Total(in) /\ OnBlock(in, p)
          /\ m = Lesser(Num, T - p) /\ Good(in, p, m, data)
      BY <1>2, <2>2, <2>3, <2>4, <3>1, <3>4, <3>5, Zenon
    <3>3. \E n \in 1 .. m : /\ Delivers(in, p, n, data)
                            /\ Len(in.parts) = 1 => n = m
      BY <3>2, BlockDelivered
    <3> QED BY <3>1, <3>3
  <2>7. PICK k \in Nat : k = n /\ k <= m /\ k > 0 /\ Delivers(input, p, k, data)
    BY <2>1, <2>5
  <2>8. Len(data) = k * S /\ k * S <= m * S /\ k * S \in Nat /\ m * S \in Nat
    BY <2>1, <2>7, TimesMonotone, TimesNat DEF Delivers
  <2>17. PICK l \in Nat : l = Len(data) /\ l = k * S
    BY <2>8
  <2>6. PICK j \in 0 .. l :
          /\ out' = Written(out, to, SubSeq(data, 1, j)) /\ to' = at + j
          /\ short' = (short \/ j < l)
          /\ pos' = p + m /\ UNCHANGED <<phase, result, upto>>
    <3>1. PICK j \in Lesser(1, Len(data)) .. Len(data) :
            /\ out' = Written(out, to, SubSeq(data, 1, j)) /\ to' = to + j
            /\ short' = (short \/ j < Len(data))
      BY <1>4, <2>16 DEF DumpSome
    <3>2. pos' = p + m /\ UNCHANGED <<phase, result, upto>>
      BY <1>4, <2>1, <2>2, <2>16 DEF DumpSome, Keep, Lesser
    <3>3. j \in 0 .. l
      BY <2>17, <3>1 DEF Lesser
    <3> QED BY <2>1, <2>17, <3>1, <3>2, <3>3
  <2>9. (p + m) * S = p * S + m * S /\ p * S \in Nat
    BY TimesNat
  <2>10. to' \in Nat /\ to' <= (p + m) * S
    BY <2>4, <2>6, <2>8, <2>9, <2>17
  <2>11. to' = (p + m) * S => out' = FirstOf(input, p + m)
    <3> SUFFICES ASSUME to' = (p + m) * S PROVE out' = FirstOf(input, p + m)
      OBVIOUS
    <3>1. at = p * S /\ j = l /\ l = m * S
      BY <2>4, <2>6, <2>8, <2>9, <2>17
    <3>2. k = m
      <4>1. k < m => (k + 1) * S <= m * S
        BY TimesMonotone
      <4>2. (k + 1) * S = k * S + S
        OBVIOUS
      <4> QED BY <2>7, <2>8, <2>17, <3>1, <4>1, <4>2
    <3>3. SubSeq(data, 1, j) = data
      <4>1. j = Len(data) /\ data \in Seq(Bytes)
        BY <2>3, <2>17, <3>1
      <4> QED BY <4>1
    <3>4. Written(FirstOf(input, p), p * Sector, data) = FirstOf(input, p + k)
      BY <2>7, WrittenBehind
    <3> QED BY <2>1, <2>4, <2>6, <3>1, <3>2, <3>3, <3>4
  <2>18. Len(input.parts) = 1 /\ ~short' => to' = (p + m) * S
    <3> SUFFICES ASSUME Len(input.parts) = 1, ~short' PROVE to' = (p + m) * S
      OBVIOUS
    <3>3. ~short /\ ~(j < l)
      BY <2>6, Zenon
    <3>1. ~short /\ j = l
      BY <3>3
    <3>2. k = m /\ at = p * S
      BY <2>4, <2>5, <2>7, <3>1
    <3> QED BY <2>6, <2>9, <2>17, <3>1, <3>2
  <2>12. OnBlock(input, p + m)
    <3>1. T <= Total(input)
      BY <2>1
    <3> QED BY <1>2, <2>1, <2>2, <2>4, <3>1, OnNextBlock
  <2>13. input' = input /\ upto' = T
    BY <1>1, <2>1, <2>6 DEF Answer
  <2>14. Started' /\ Copied' /\ Dumped'
    BY <1>2, <2>1, <2>6, <2>10, <2>11, <2>12, <2>13, <2>18 DEF Started, Copied, Dumped
  <2>15. /\ pos' \in 0 .. Total(input) /\ upto' \in 0 .. Total(input)
         /\ to' \in 0 .. Total(input) * Sector /\ short' \in BOOLEAN
    <3>1. p + m \in Nat /\ p + m <= T
      BY <2>2
    <3>2. (p + m) * S <= T * S /\ (p + m) * S \in Nat /\ T * S \in Nat
      BY <3>1, TimesMonotone, TimesNat
    <3>3. short' \in BOOLEAN
      BY <1>2, <2>6 DEF Typed
    <3> QED BY <2>1, <2>6, <2>10, <2>13, <3>1, <3>2, <3>3
  <2> QED BY <1>1, <1>2, <1>4, <2>6, <2>14, <2>15, GoingInv
<1> QED BY <1>1, <1>3, <1>4

\* A step that reads nothing.
LEMMA QuietInv ==
  ASSUME CopyInv, UNCHANGED <<input, rd, thd>>, Typed', phase' # "compare",
         result' = "none" => result = "none",
         Started', Copied', Dumped', CopyRight', DumpRight', CompareRight',
         phase' # "compared" => longer' = 0
  PROVE  CopyInv'
<1>1. Reading'
  BY DEF CopyInv, Reading
<1> QED BY <1>1 DEF CopyInv, Compared

LEMMA NextPartitionInv ==
  ASSUME Suited, CopyInv, NextPartition, UNCHANGED cmpVars PROVE CopyInv'
<1>1. /\ Typed /\ Started /\ Copied /\ phase \in {"probe", "copy"} /\ result = "none"
      /\ longer' = 0 /\ phase' = "copy" /\ result' = "none" /\ WellFormed(input)
      /\ UNCHANGED <<input, rd, thd, pos, out, short>> /\ to' = pos * Sector
      /\ phase = "copy" => pos = upto
  BY DEF CopyInv, Typed, NextPartition, Active, cmpVars, Suited
<1>2. PICK T \in Nat, S \in Nat \ {0}, p \in Nat, N \in Nat \ {0} :
        T = Total(input) /\ S = Sector /\ p = pos /\ N = Num /\ p <= T
  <2>1. PICK T \in Nat, S \in Nat \ {0}, N \in Nat \ {0} :
          T = Total(input) /\ S = Sector /\ N = Num
    BY <1>1, TotalFacts, SizesFacts
  <2> QED BY <1>1, <2>1 DEF Typed
<1>3. PICK n \in 1 .. T : p + n <= T /\ (n % N = 0 \/ p + n = T) /\ upto' = p + n
  BY <1>2 DEF NextPartition
<1>4. out = FirstOf(input, p) /\ OnBlock(input, p)
  <2>1. CASE phase = "copy"
    BY <1>1, <1>2, <2>1 DEF Copied
  <2>2. CASE phase = "probe"
    <3>1. p = 0 /\ out = <<>>
      BY <1>1, <1>2, <2>2 DEF Started
    <3>2. 0 % N = 0
      OBVIOUS
    <3> QED BY <1>2, <3>1, <3>2, NothingYet DEF OnBlock
  <2> QED BY <1>1, <2>1, <2>2
<1>5. OnBlock(input, p + n)
  <2> SUFFICES ASSUME Len(input.parts) = 1, p + n # T PROVE (p + n) % N = 0
    BY <1>2 DEF OnBlock
  <2>1. p % N = 0 /\ n % N = 0 /\ n \in Nat
    BY <1>2, <1>3, <1>4 DEF OnBlock
  <2> QED BY <2>1, SumMultiple
<1>6. Started' /\ Copied' /\ Dumped'
  BY <1>1, <1>2, <1>3, <1>4, <1>5 DEF Started, Copied, Dumped
<1>7. Typed'
  <2>1. p * S <= T * S /\ p * S \in Nat /\ T * S \in Nat
    BY <1>2, TimesMonotone, TimesNat
  <2> QED BY <1>1, <1>2, <1>3, <2>1 DEF Typed, Phases, Results, Active
<1> QED BY <1>1, <1>6, <1>7, QuietInv DEF CopyRight, DumpRight, CompareRight

LEMMA WholeIsAll == ASSUME NEW in PROVE Whole(in) = FirstOf(in, Total(in))
BY DEF Whole, FirstOf

LEMMA FinishInv == ASSUME Suited, CopyInv, Finish, UNCHANGED cmpVars PROVE CopyInv'
<1>1. /\ Typed /\ phase = "copy" /\ longer' = 0
      /\ phase' = "done" /\ result' = "ok" /\ UNCHANGED <<input, rd, thd, pos, upto, out, to, short>>
      /\ pos = Total(input) /\ out = FirstOf(input, pos)
  BY DEF CopyInv, Finish, End, cmpVars, Copied
<1>2. out' = Whole(input')
  <2>1. out = Whole(input)
    BY <1>1, WholeIsAll
  <2> QED BY <1>1, <2>1
<1>3. CopyRight' /\ DumpRight' /\ CompareRight'
  BY <1>1, <1>2 DEF CopyRight, DumpRight, CompareRight
<1>4. Typed'
  BY <1>1 DEF Typed, Phases, Results, Active
<1> QED BY <1>1, <1>3, <1>4, QuietInv DEF Started, Copied, Dumped

LEMMA StartDumpInv == ASSUME Suited, CopyInv, StartDump, UNCHANGED cmpVars PROVE CopyInv'
<1>1. /\ Typed /\ Started /\ phase = "probe" /\ longer' = 0 /\ result = "none"
      /\ phase' = "dump" /\ upto' = Total(input)
      /\ UNCHANGED <<input, rd, thd, pos, out, to, short, result>> /\ WellFormed(input)
  BY DEF CopyInv, Typed, StartDump, Active, cmpVars, Suited
<1>2. pos = 0 /\ to = 0 /\ out = <<>>
  BY <1>1 DEF Started
<1>3. PICK T \in Nat, S \in Nat \ {0}, N \in Nat \ {0} :
        T = Total(input) /\ S = Sector /\ N = Num
  BY <1>1, TotalFacts, SizesFacts
<1>4. 0 * Sector = 0 /\ 0 % Num = 0
  BY <1>3
<1>5. Dumped'
  <2>1. OnBlock(input, 0)
    BY <1>4 DEF OnBlock
  <2> QED BY <1>1, <1>2, <1>4, <2>1, NothingYet DEF Dumped
<1>6. Typed'
  BY <1>1, <1>3 DEF Typed, Phases, Results, Active
<1> QED BY <1>1, <1>5, <1>6, QuietInv DEF Started, Copied, CopyRight, DumpRight, CompareRight

LEMMA FinishDumpInv == ASSUME Suited, CopyInv, FinishDump, UNCHANGED cmpVars PROVE CopyInv'
<1>1. /\ Typed /\ Dumped /\ phase = "dump" /\ longer' = 0
      /\ phase' = "dumped" /\ result' = "ok" /\ UNCHANGED <<input, rd, thd, pos, upto, out, to, short>>
      /\ pos = upto
  BY DEF CopyInv, FinishDump, cmpVars
<1>2. /\ to' = Total(input') * Sector => out' = Whole(input')
      /\ Len(input'.parts) = 1 /\ ~short' => out' = Whole(input')
  <2>1. /\ to = Total(input) * Sector => out = Whole(input)
        /\ Len(input.parts) = 1 /\ ~short => out = Whole(input)
    BY <1>1, WholeIsAll DEF Dumped
  <2> QED BY <1>1, <2>1
<1>3. CopyRight' /\ DumpRight' /\ CompareRight'
  BY <1>1, <1>2 DEF CopyRight, DumpRight, CompareRight
<1>4. Typed'
  BY <1>1 DEF Typed, Phases, Results, Active
<1> QED BY <1>1, <1>3, <1>4, QuietInv DEF Started, Copied, Dumped

LEMMA InterruptInv == ASSUME Suited, CopyInv, Interrupt, UNCHANGED cmpVars PROVE CopyInv'
<1>1. /\ Typed /\ longer' = 0 /\ phase' = "done" /\ result' = "err"
      /\ UNCHANGED <<input, rd, thd, pos, upto, out, to, short>>
  BY DEF CopyInv, Interrupt, End, cmpVars
<1> QED BY <1>1, StoppedInv DEF Typed

-----------------------------------------------------------------------------
(* Comparisons.                                                            *)

LEMMA StartCompareInv == ASSUME Suited, CopyInv, StartCompare PROVE CopyInv'
<1>1. /\ Typed /\ Started /\ phase = "probe" /\ longer' = 0 /\ result = "none"
      /\ phase' = "compare" /\ other' \in Others /\ rd2' = Opened(other') /\ thd2' = thd
      /\ left' = <<Total(input), Total(other')>> /\ rd = Opened(input)
      /\ UNCHANGED <<input, rd, thd, pos, upto, out, to, short, result>>
      /\ \A b \in DOMAIN thd.buf : thd.buf[b] = EmptyBuffer
      /\ RdOK(input, rd) /\ ThdOK(input, rd, thd)
  BY DEF CopyInv, Typed, StartCompare, Active, Reading
<1>2. PICK ot : ot = other' /\ ot \in Others /\ WellFormed(ot)
  BY <1>1 DEF Suited
<1>3. RdOK(ot, Opened(ot))
  BY <1>2, OpenedOK
<1>4. ThdOK(ot, Opened(ot), thd)
  <2>1. TwoBuffers(thd)
    BY <1>1 DEF ThdOK
  <2>2. DOMAIN thd.buf = 0 .. 1 /\ thd.active \in 0 .. 1
    BY <2>1 DEF TwoBuffers
  <2>3. thd.buf[thd.active] = EmptyBuffer
    BY <1>1, <2>2
  <2> QED BY <2>1, <2>3, EmptyOK
<1>5. pos = 0
  BY <1>1 DEF Started
<1>6. PICK T \in Nat, U \in Nat : T = Total(input) /\ U = Total(ot)
  <2>1. WellFormed(input)
    BY <1>1 DEF Suited, Typed
  <2> QED BY <1>2, <2>1, TotalFacts
<1>7. Compared'
  <2>1. 0 <= U /\ left' = <<T - 0, U - 0>> /\ 0 * Sector = 0
    BY <1>1, <1>2, <1>6, SizesFacts
  <2>2. \A a, b, ch : Same(input, ot, ch, a, b, 0)
    BY DEF Same
  <2>3. /\ other' \in Others /\ RdOK(other', rd2') /\ ThdOK(other', rd2', thd2')
        /\ pos' <= Total(other') /\ left' = <<Total(input) - pos', Total(other') - pos'>>
    BY <1>1, <1>2, <1>3, <1>4, <1>5, <1>6, <2>1
  <2>4. Same(input, other', changed', Whole(input), Whole(other'), pos' * Sector)
    BY <1>1, <1>2, <1>5, <2>1, <2>2
  <2> QED BY <1>1, <2>3, <2>4 DEF Compared
<1>8. Typed' /\ Reading'
  BY <1>1 DEF Typed, Phases, Results, Active, Reading
<1> QED BY <1>1, <1>7, <1>8
        DEF CopyInv, Started, Copied, Dumped, CopyRight, DumpRight, CompareRight

\* what a comparison reads of an input from sector s on
Block(in, s, a) ==
  /\ a \in Seq(Bytes)
  /\ s = Total(in) => a = <<>>
  /\ s < Total(in) => \E n \in Nat \ {0} : s + n <= Total(in) /\ Delivers(in, s, n, a)

LEMMA BlockRead ==
  ASSUME NEW in, WellFormed(in), RoomAnywhere(in), NEW s \in Nat, s <= Total(in),
         NEW m, m = Lesser(Num, Total(in) - s)
  PROVE  /\ Asked(in, s, m)
         /\ \A a : a \in Seq(Bytes) /\ Good(in, s, m, a) => Block(in, s, a)
<1>1. PICK N \in Nat \ {0}, T \in Nat : N = Num /\ T = Total(in)
  BY SizesFacts, TotalFacts
<1>2. /\ m \in Nat /\ m <= N /\ m <= T - s /\ (m = 0 <=> s = T)
  BY <1>1 DEF Lesser
<1>3. Asked(in, s, m)
  BY <1>1, <1>2 DEF Asked, Fits
<1>4. ASSUME NEW a \in Seq(Bytes), Good(in, s, m, a) PROVE Block(in, s, a)
  <2>1. CASE s = T
    BY <1>1, <1>2, <1>4, <2>1 DEF Good, Block
  <2>2. CASE s < T
    <3>1. m > 0 /\ s + m <= T
      BY <1>2, <2>2
    <3>2. PICK n \in 1 .. m : Delivers(in, s, n, a)
      BY <1>1, <1>4, <3>1 DEF Good, Right
    <3>3. n \in Nat \ {0} /\ s + n <= T
      BY <1>2, <3>1, <3>2
    <3> QED BY <1>1, <2>2, <3>2, <3>3 DEF Block
  <2> QED BY <1>1, <2>1, <2>2
<1> QED BY <1>3, <1>4

\* a block is a piece of the whole input, of a sector or more if any is left
LEMMA BlockOfWhole ==
  ASSUME NEW in, WellFormed(in), NEW s \in Nat, s <= Total(in), NEW a, Block(in, s, a)
  PROVE  \E n \in Nat :
           /\ Len(a) = n * Sector /\ s + n <= Total(in) /\ (n = 0 <=> s = Total(in))
           /\ \A i \in 1 .. n * Sector :
                /\ s * Sector + i \in 1 .. Total(in) * Sector
                /\ a[i] = Whole(in)[s * Sector + i]
<1>1. PICK S \in Nat \ {0}, T \in Nat : S = Sector /\ T = Total(in)
  BY SizesFacts, TotalFacts
<1>2. CASE s = T
  <2>1. a = <<>> /\ 0 * Sector = 0
    BY <1>1, <1>2 DEF Block
  <2>2. Len(a) = 0 * Sector /\ s + 0 <= T /\ (0 = 0 <=> s = T)
    BY <1>2, <2>1
  <2>3. \A i \in 1 .. 0 * Sector : FALSE
    BY <2>1
  <2> QED BY <1>1, <2>2, <2>3
<1>3. CASE s < T
  <2>1. PICK n \in Nat \ {0} : s + n <= T /\ Delivers(in, s, n, a)
    BY <1>1, <1>3 DEF Block
  <2>2. PICK from \in Nat, b \in Nat, all \in Nat : from = s * S /\ b = n * S /\ all = T * S
    BY TimesNat
  <2>3. from + b <= all
    <3>1. (s + n) * S = s * S + n * S /\ (s + n) * S <= T * S
      BY <2>1, TimesMonotone
    <3> QED BY <2>2, <3>1
  <2>4. ASSUME NEW i \in 1 .. b
        PROVE  from + i \in 1 .. all /\ a[i] = Whole(in)[from + i]
    <3>1. PICK j \in 0 .. b - 1 : j = i - 1 /\ j + 1 = i
      OBVIOUS
    <3>2. PICK x : x = from + j /\ x = from + i - 1
      BY <3>1
    <3>3. from + i \in 1 .. all
      BY <2>3
    <3>4. a[j + 1] = Source(in, x \div Sector, x % Sector)
      <4>1. j \in 0 .. n * Sector - 1 /\ x = s * Sector + j
        BY <1>1, <2>2, <3>1, <3>2
      <4> QED BY <2>1, <4>1, Delivered1
    <3>5. Whole(in)[from + i] = Source(in, (from + i - 1) \div Sector, (from + i - 1) % Sector)
      BY <1>1, <2>2, <3>3 DEF Whole
    <3> QED BY <3>1, <3>2, <3>3, <3>4, <3>5
  <2>5. Len(a) = n * Sector /\ (n = 0 <=> s = T) /\ n \in Nat
    BY <1>3, <2>1 DEF Delivers
  <2> QED BY <1>1, <2>1, <2>2, <2>4, <2>5
<1>4. s = T \/ s < T
  BY <1>1
<1> QED BY <1>2, <1>3, <1>4, Zenon

\* Two blocks that are the same, or not, say so of the images up to the end of
\* the shorter one.
LEMMA BlocksCompared ==
  ASSUME NEW in, WellFormed(in), NEW ot, WellFormed(ot), NEW ch,
         NEW s \in Nat, s <= Total(in), s <= Total(ot),
         NEW a, Block(in, s, a), NEW b, Block(ot, s, b),
         Same(in, ot, ch, Whole(in), Whole(ot), s * Sector),
         NEW n, n = Lesser(Len(a), Len(b)), NEW k, k = n \div Sector
  PROVE  /\ (Len(a) >= Sector <=> s # Total(in)) /\ (Len(a) # 0 <=> s # Total(in))
         /\ (Len(b) >= Sector <=> s # Total(ot)) /\ (Len(b) # 0 <=> s # Total(ot))
         /\ k \in Nat /\ s + k <= Total(in) /\ s + k <= Total(ot)
         /\ ~Same(in, ot, ch, a, b, n) =>
              ~Same(in, ot, ch, Whole(in), Whole(ot), Lesser(Total(in), Total(ot)) * Sector)
         /\ Same(in, ot, ch, a, b, n) =>
              Same(in, ot, ch, Whole(in), Whole(ot), (s + k) * Sector)
<1>1. PICK S \in Nat \ {0}, T \in Nat, U \in Nat : S = Sector /\ T = Total(in) /\ U = Total(ot)
  BY SizesFacts, TotalFacts
<1>2. PICK x \in Nat :
        /\ Len(a) = x * Sector /\ s + x <= Total(in) /\ (x = 0 <=> s = Total(in))
        /\ \A i \in 1 .. x * Sector :
             /\ s * Sector + i \in 1 .. Total(in) * Sector
             /\ a[i] = Whole(in)[s * Sector + i]
  BY BlockOfWhole
<1>3. PICK y \in Nat :
        /\ Len(b) = y * Sector /\ s + y <= Total(ot) /\ (y = 0 <=> s = Total(ot))
        /\ \A i \in 1 .. y * Sector :
             /\ s * Sector + i \in 1 .. Total(ot) * Sector
             /\ b[i] = Whole(ot)[s * Sector + i]
  BY BlockOfWhole
<1>4. PICK z \in Nat : z <= x /\ z <= y /\ n = z * S /\ (z = x \/ z = y)
  <2>1. CASE x <= y
    <3>1. x * S <= y * S
      BY <2>1, TimesMonotone
    <3>2. n = x * S
      BY <1>1, <1>2, <1>3, <3>1 DEF Lesser
    <3> QED BY <2>1, <3>2
  <2>2. CASE y <= x
    <3>1. y * S <= x * S /\ x * S \in Nat /\ y * S \in Nat
      BY <2>2, TimesMonotone, TimesNat
    <3>2. n = y * S
      <4>1. PICK p \in Nat, q \in Nat : p = x * S /\ q = y * S /\ q <= p
        BY <3>1
      <4>2. Len(a) = p /\ Len(b) = q
        BY <1>1, <1>2, <1>3, <4>1
      <4>3. n = q
        BY <4>1, <4>2 DEF Lesser
      <4> QED BY <4>1, <4>3
    <3> QED BY <2>2, <3>2
  <2> QED BY <2>1, <2>2
<1>5. k = z
  <2>1. z * S \in Nat /\ z * S = z * S + 0 /\ 0 \in 0 .. S - 1
    BY TimesNat
  <2>2. (z * S) \div S = z
    BY <2>1, DivisionUnique
  <2> QED BY <1>1, <1>4, <2>2
<1>6. s + k <= T /\ s + k <= U /\ k \in Nat
  <2>1. s + x <= T /\ s + y <= U
    BY <1>1, <1>2, <1>3
  <2>2. s + z <= T /\ s + z <= U
    BY <1>4, <2>1
  <2> QED BY <1>5, <2>2
<1>7. /\ (Len(a) >= Sector <=> s # T) /\ (Len(a) # 0 <=> s # T)
      /\ (Len(b) >= Sector <=> s # U) /\ (Len(b) # 0 <=> s # U)
  <2>1. ASSUME NEW w \in Nat PROVE (w * S >= S <=> w # 0) /\ (w * S # 0 <=> w # 0)
    <3>1. CASE w = 0
      BY <3>1
    <3>2. CASE w # 0
      <4>1. w \in Nat \ {0}
        BY <3>2
      <4>2. w * S \in Nat /\ S <= w * S
        BY <4>1, AtLeastOne
      <4> QED BY <3>2, <4>2
    <3> QED BY <3>1, <3>2
  <2> QED BY <1>1, <1>2, <1>3, <2>1
<1>8. PICK from \in Nat, len \in Nat, both \in Nat, lesser \in Nat :
        /\ from = s * S /\ len = z * S /\ lesser = Lesser(T, U) /\ both = lesser * S
        /\ from + len <= both /\ (s + z) * S = from + len
  <2>1. PICK lesser \in Nat : lesser = Lesser(T, U) /\ s + z <= lesser
    BY <1>5, <1>6 DEF Lesser
  <2>2. (s + z) * S <= lesser * S /\ lesser * S \in Nat /\ s * S \in Nat /\ z * S \in Nat
    BY <2>1, TimesMonotone, TimesNat
  <2>3. (s + z) * S = s * S + z * S
    OBVIOUS
  <2> QED BY <2>1, <2>2, <2>3
<1>9. ASSUME NEW i \in 1 .. len
      PROVE  a[i] = Whole(in)[from + i] /\ b[i] = Whole(ot)[from + i]
  <2>1. len <= x * S /\ len <= y * S
    BY <1>4, <1>8, TimesMonotone
  <2>2. i \in 1 .. x * S /\ i \in 1 .. y * S
    BY <2>1, TimesNat
  <2> QED BY <1>1, <1>2, <1>3, <1>8, <2>2
<1>10. ASSUME ~Same(in, ot, ch, a, b, n)
       PROVE  ~Same(in, ot, ch, Whole(in), Whole(ot), both)
  <2>1. PICK i \in 1 .. len : Value(in, {}, a[i]) # Value(ot, ch, b[i])
    BY <1>4, <1>8, <1>10 DEF Same
  <2>2. PICK j : j = from + i
    OBVIOUS
  <2>3. j \in 1 .. both
    BY <1>8, <2>2
  <2>4. Value(in, {}, Whole(in)[j]) # Value(ot, ch, Whole(ot)[j])
    BY <1>9, <2>1, <2>2
  <2> QED BY <2>3, <2>4 DEF Same
<1>11. ASSUME Same(in, ot, ch, a, b, n)
       PROVE  Same(in, ot, ch, Whole(in), Whole(ot), from + len)
  <2> SUFFICES ASSUME NEW j \in 1 .. from + len
               PROVE  Value(in, {}, Whole(in)[j]) = Value(ot, ch, Whole(ot)[j])
    BY DEF Same
  <2>1. CASE j <= from
    <3>1. j \in 1 .. s * Sector
      BY <1>1, <1>8, <2>1
    <3> QED BY <3>1 DEF Same
  <2>2. CASE from < j
    <3>1. PICK i \in 1 .. len : i = j - from /\ j = from + i
      BY <2>2
    <3>2. Value(in, {}, a[i]) = Value(ot, ch, b[i])
      BY <1>4, <1>8, <1>11 DEF Same
    <3> QED BY <1>9, <3>1, <3>2
  <2> QED BY <2>1, <2>2
<1> QED BY <1>1, <1>5, <1>6, <1>7, <1>8, <1>10, <1>11

\* what a comparison must answer
RightAnswer(in, ot, ch) ==
  IF ~Same(in, ot, ch, Whole(in), Whole(ot), Lesser(Total(in), Total(ot)) * Sector)
  THEN "different"
  ELSE Verdict(CASE Total(in) = Total(ot) -> 0
                 [] Total(in) > Total(ot) -> 1
                 [] Total(in) < Total(ot) -> 2)

LEMMA AnswerIsRight ==
  ASSUME phase' = "compared",
         result' \in {"err", "crashed"} \/ result' = RightAnswer(input', other', changed')
  PROVE  CompareRight'
BY DEF CompareRight, RightAnswer, Same, SameBytes

\* The comparison ends with an answer.
LEMMA JudgedInv ==
  ASSUME Typed, UNCHANGED <<input, upto, to, short>>, phase' = "compared", result' \in Results \ {"none"},
         rd'.cur \in 0 .. Len(input.parts), thd'.active \in 0 .. 1, pos' \in 0 .. Total(input),
         CompareRight'
  PROVE  CopyInv'
<1>1. Typed'
  BY DEF Typed, Phases, Results, Active
<1>2. result' # "none"
  BY DEF Results
<1> QED BY <1>1, <1>2 DEF CopyInv, Reading, Started, Copied, Dumped, Compared, CopyRight, DumpRight

LEMMA JudgeInv ==
  ASSUME Suited, CopyInv, phase = "compare", NEW a, Block(input, pos, a),
         NEW b, Block(other, pos, b), Judge(a, b),
         UNCHANGED <<input, upto, out, to, short, other, changed>>,
         RdOK(input, rd'), ThdOK(input, rd', thd'), RdOK(other, rd2'), ThdOK(other, rd2', thd2')
  PROVE  CopyInv'
<1>1. /\ Typed /\ Compared /\ longer = 0 /\ result = "none"
      /\ other \in Others /\ WellFormed(input) /\ WellFormed(other)
      /\ left = <<Total(input) - pos, Total(other) - pos>>
      /\ Same(input, other, changed, Whole(input), Whole(other), pos * Sector)
  <2>1. Typed /\ Compared /\ longer = 0 /\ result = "none"
    BY DEF CopyInv, Typed, Active
  <2>2. /\ other \in Others /\ left = <<Total(input) - pos, Total(other) - pos>>
        /\ Same(input, other, changed, Whole(input), Whole(other), pos * Sector)
    BY <2>1 DEF Compared
  <2>3. WellFormed(input) /\ WellFormed(other)
    BY <2>1, <2>2 DEF Suited, Typed
  <2> QED BY <2>1, <2>2, <2>3
<1>2. PICK S \in Nat \ {0}, T \in Nat, U \in Nat, s \in Nat :
        /\ S = Sector /\ T = Total(input) /\ U = Total(other) /\ s = pos
        /\ s <= T /\ s <= U
  <2>1. PICK S \in Nat \ {0}, T \in Nat, U \in Nat :
          S = Sector /\ T = Total(input) /\ U = Total(other)
    BY <1>1, SizesFacts, TotalFacts
  <2>2. pos \in 0 .. T
    BY <1>1, <2>1 DEF Typed
  <2>3. pos <= U
    BY <1>1, <2>1 DEF Compared
  <2> QED BY <2>1, <2>2, <2>3
<1>3. PICK in, ot, ch : in = input /\ ot = other /\ ch = changed
  OBVIOUS
<1>4. PICK n, k : n = Lesser(Len(a), Len(b)) /\ k = n \div Sector
  OBVIOUS
<1>5. /\ (Len(a) >= Sector <=> s # T) /\ (Len(a) # 0 <=> s # T)
      /\ (Len(b) >= Sector <=> s # U) /\ (Len(b) # 0 <=> s # U)
      /\ k \in Nat /\ s + k <= T /\ s + k <= U
      /\ ~Same(in, ot, ch, a, b, n) =>
           ~Same(in, ot, ch, Whole(in), Whole(ot), Lesser(T, U) * Sector)
      /\ Same(in, ot, ch, a, b, n) =>
           Same(in, ot, ch, Whole(in), Whole(ot), (s + k) * Sector)
  <2>1. /\ WellFormed(in) /\ WellFormed(ot) /\ s <= Total(in) /\ s <= Total(ot)
        /\ Block(in, s, a) /\ Block(ot, s, b)
        /\ Same(in, ot, ch, Whole(in), Whole(ot), s * Sector)
    BY <1>1, <1>2, <1>3
  <2>2. T = Total(in) /\ U = Total(ot)
    BY <1>2, <1>3
  <2> QED BY <1>4, <2>1, <2>2, BlocksCompared
<1>6. /\ rd'.cur \in 0 .. Len(input.parts) /\ thd'.active \in 0 .. 1
  BY DEF RdOK, ThdOK, TwoBuffers
<1>7. SameBytes(a, b, n) <=> Same(in, ot, ch, a, b, n)
  BY <1>3 DEF SameBytes, Same
<1>8. CASE ~Same(in, ot, ch, a, b, n)
  <2>1. phase' = "compared" /\ result' = "different" /\ UNCHANGED <<pos, left, longer>>
    BY <1>4, <1>7, <1>8 DEF Judge, EndCompare
  <2>2. RightAnswer(in, ot, ch) = "different"
    BY <1>2, <1>3, <1>5, <1>8 DEF RightAnswer
  <2>3. CompareRight'
    BY <1>3, <2>1, <2>2, AnswerIsRight
  <2>4. result' \in Results \ {"none"} /\ pos' \in 0 .. Total(input)
    BY <1>1, <2>1 DEF Results, Typed
  <2> QED BY <1>1, <1>6, <2>1, <2>3, <2>4, JudgedInv
<1>9. CASE Same(in, ot, ch, a, b, n)
  <2>1. /\ longer' = LongerNow(a, b)
        /\ left' = <<left[1] - k, left[2] - k>>
        /\ pos' = pos + k
        /\ IF Len(a) >= Sector /\ Len(b) >= Sector THEN Keep ELSE EndCompare(Verdict(longer'))
    BY <1>4, <1>7, <1>9 DEF Judge
  <2>2. pos' = s + k /\ pos' \in 0 .. Total(input)
    BY <1>2, <1>5, <2>1
  <2>3. Same(in, ot, ch, Whole(in), Whole(ot), pos' * Sector)
    BY <1>5, <1>9, <2>2
  <2>4. CASE s # T /\ s # U
    <3>1. longer' = 0 /\ UNCHANGED <<phase, result>>
      BY <1>1, <1>5, <2>1, <2>4 DEF LongerNow, Keep
    <3>2. left' = <<T - pos', U - pos'>>
      <4>1. left[1] = T - s /\ left[2] = U - s
        BY <1>1, <1>2
      <4>2. left[1] - k = T - pos' /\ left[2] - k = U - pos'
        BY <1>5, <2>2, <4>1
      <4> QED BY <2>1, <4>2
    <3>3. Compared'
      BY <1>1, <1>2, <1>3, <1>5, <2>2, <2>3, <3>1, <3>2 DEF Compared
    <3>4. Typed' /\ Reading'
      BY <1>1, <1>6, <2>2, <3>1 DEF Typed, Phases, Results, Active, Reading
    <3> QED BY <3>1, <3>3, <3>4
            DEF CopyInv, Started, Copied, Dumped, CopyRight, DumpRight, CompareRight
  <2>5. CASE s = T \/ s = U
    <3>1. phase' = "compared" /\ result' = Verdict(longer')
      BY <1>5, <2>1, <2>5 DEF EndCompare
    <3>2. k = 0 /\ s = Lesser(T, U)
      BY <1>2, <1>5, <2>5 DEF Lesser
    <3>3. Same(in, ot, ch, Whole(in), Whole(ot), Lesser(T, U) * Sector)
      BY <1>2, <2>2, <2>3, <3>2
    <3>4. longer' = CASE T = U -> 0 [] T > U -> 1 [] T < U -> 2
      <4>1. CASE s = T /\ s = U
        BY <1>1, <1>5, <2>1, <4>1 DEF LongerNow
      <4>2. CASE s = T /\ s # U
        <5>1. T < U /\ ~(T > U) /\ T # U
          BY <1>2, <4>2
        <5> QED BY <1>5, <2>1, <4>2, <5>1 DEF LongerNow
      <4>3. CASE s # T /\ s = U
        <5>1. T > U /\ ~(T < U) /\ T # U
          BY <1>2, <4>3
        <5> QED BY <1>5, <2>1, <4>3, <5>1 DEF LongerNow
      <4> QED BY <2>5, <4>1, <4>2, <4>3
    <3>5. result' = RightAnswer(in, ot, ch)
      BY <1>2, <1>3, <3>1, <3>3, <3>4 DEF RightAnswer
    <3>6. result' \in Results \ {"none"}
      <4>1. longer' \in {0, 1, 2}
        <5>1. T = U \/ T > U \/ T < U
          OBVIOUS
        <5> QED BY <3>4, <5>1
      <4> QED BY <3>1, <4>1 DEF Verdict, Results
    <3>7. CompareRight'
      BY <1>3, <3>1, <3>5, AnswerIsRight
    <3> QED BY <1>1, <1>6, <2>2, <3>1, <3>6, <3>7, JudgedInv
  <2> QED BY <2>4, <2>5
<1> QED BY <1>8, <1>9

LEMMA CompareStepInv == ASSUME Suited, CopyInv, Compare PROVE CopyInv'
<1>1. /\ Typed /\ Reading /\ Compared /\ phase = "compare" /\ result = "none" /\ longer = 0
      /\ UNCHANGED <<input, upto, out, to, short, other, changed>>
  BY DEF CopyInv, Typed, Active, Compare
<1>2. /\ other \in Others /\ RdOK(other, rd2) /\ ThdOK(other, rd2, thd2)
      /\ RdOK(input, rd) /\ ThdOK(input, rd, thd)
      /\ pos <= Total(other) /\ left[1] = Total(input) - pos /\ left[2] = Total(other) - pos
  BY <1>1 DEF Compared, Reading
<1>3. /\ WellFormed(input) /\ RoomAnywhere(input) /\ WellFormed(other) /\ RoomAnywhere(other)
      /\ Faults["image"] \subseteq {"open"}
  BY <1>1, <1>2 DEF Suited, Typed
<1>11. PICK m, l : m = Lesser(Num, left[1]) /\ l = Lesser(Num, left[2])
  OBVIOUS
<1>4. PICK s \in Nat, T \in Nat : s = pos /\ T = Total(input) /\ s <= T
  <2>1. PICK T \in Nat : T = Total(input)
    BY <1>3, TotalFacts
  <2> QED BY <1>1, <2>1 DEF Typed
<1>5. PICK f \in FaultsOf(input), g \in FaultsOf(input),
           f2 \in FaultsOf(other), g2 \in FaultsOf(other) :
     \E r \in {ThdRead(input, rd, thd, s, m, f, g)} :
       /\ rd' = r.rd /\ thd' = r.thd
       /\ IF Bad(r)
          THEN EndCompare(Why(r)) /\ UNCHANGED <<rd2, thd2, pos, left, longer>>
          ELSE \E q \in {ThdRead(other, rd2, thd2, s, l, f2, g2)} :
                 /\ rd2' = q.rd /\ thd2' = q.thd
                 /\ IF Bad(q)
                    THEN EndCompare(Why(q)) /\ UNCHANGED <<pos, left, longer>>
                    ELSE Judge(r.got.data, q.got.data)
  BY <1>4, <1>11 DEF Compare
<1>6. PICK r :
       /\ r = ThdRead(input, rd, thd, s, m, f, g)
       /\ rd' = r.rd /\ thd' = r.thd
       /\ IF Bad(r)
          THEN EndCompare(Why(r)) /\ UNCHANGED <<rd2, thd2, pos, left, longer>>
          ELSE \E q \in {ThdRead(other, rd2, thd2, s, l, f2, g2)} :
                 /\ rd2' = q.rd /\ thd2' = q.thd
                 /\ IF Bad(q)
                    THEN EndCompare(Why(q)) /\ UNCHANGED <<pos, left, longer>>
                    ELSE Judge(r.got.data, q.got.data)
  BY <1>5
<1>7. /\ Bearable(input, f) /\ Bearable(input, g) /\ Bearable(other, f2) /\ Bearable(other, g2)
  BY <1>3 DEF FaultsOf, Bearable
<1>8. AnswerOK(input, s, m, r)
  <2>1. Asked(input, s, m)
    BY <1>2, <1>3, <1>4, <1>11, BlockRead
  <2> QED BY <1>2, <1>3, <1>6, <1>7, <2>1, ThdReadOK
<1>9. CASE Bad(r)
  <2>1. phase' = "compared" /\ result' \in {"err", "crashed"} /\ UNCHANGED <<pos, longer>>
    BY <1>6, <1>9 DEF EndCompare, Why
  <2>2. rd'.cur \in 0 .. Len(input.parts) /\ thd'.active \in 0 .. 1
    BY <1>6, <1>8 DEF AnswerOK
  <2> QED BY <1>1, <2>1, <2>2, StoppedInv
<1>10. CASE ~Bad(r)
  <2>1. PICK q : /\ q = ThdRead(other, rd2, thd2, s, l, f2, g2)
                 /\ rd2' = q.rd /\ thd2' = q.thd
                 /\ IF Bad(q)
                    THEN EndCompare(Why(q)) /\ UNCHANGED <<pos, left, longer>>
                    ELSE Judge(r.got.data, q.got.data)
    BY <1>6, <1>10
  <2>2. /\ rd'.cur \in 0 .. Len(input.parts) /\ thd'.active \in 0 .. 1
    BY <1>6, <1>8 DEF AnswerOK
  <2>3. CASE Bad(q)
    <3>1. phase' = "compared" /\ result' \in {"err", "crashed"} /\ UNCHANGED <<pos, longer>>
      BY <2>1, <2>3 DEF EndCompare, Why
    <3> QED BY <1>1, <2>2, <3>1, StoppedInv
  <2>4. CASE ~Bad(q)
    <3>1. PICK a, b : a = r.got.data /\ b = q.got.data
      OBVIOUS
    <3>2. AnswerOK(other, s, l, q)
      <4>1. Asked(other, s, l)
        BY <1>2, <1>3, <1>4, <1>11, BlockRead
      <4> QED BY <1>2, <1>3, <1>7, <2>1, <4>1, ThdReadOK
    <3>3. r.got.result = "ok" /\ q.got.result = "ok"
      BY <1>8, <1>10, <2>4, <3>2 DEF AnswerOK, Bad
    <3>4. /\ a \in Seq(Bytes) /\ Good(input, s, m, a) /\ RdOK(input, rd') /\ ThdOK(input, rd', thd')
          /\ b \in Seq(Bytes) /\ Good(other, s, l, b)
          /\ RdOK(other, rd2') /\ ThdOK(other, rd2', thd2')
      BY <1>6, <1>8, <2>1, <3>1, <3>2, <3>3 DEF AnswerOK
    <3>5. Block(input, s, a) /\ Block(other, s, b)
      BY <1>2, <1>3, <1>4, <1>11, <3>4, BlockRead
    <3>6. Judge(a, b)
      BY <2>1, <2>4, <3>1
    <3> QED BY <1>1, <1>4, <3>4, <3>5, <3>6, JudgeInv
  <2> QED BY <2>3, <2>4
<1> QED BY <1>9, <1>10

LEMMA CacheOfReader ==
  ASSUME NEW in, WellFormed(in), NEW dev, RdOK(in, dev)
  PROVE  CacheHolds(dev.al) /\ dev.al.len \in 0 .. dev.al.size
<1>1. CASE dev.cur = 0 \/ in.kind = "game"
  <2>1. PICK al : al = AlAlloc(1, 0)
    OBVIOUS
  <2>2. dev.al = al
    BY <1>1, <2>1 DEF RdOK
  <2>3. CacheHolds(al) /\ AlOK(al, 0)
    <3>1. 1 \in Nat \ {0} /\ 0 \in Nat
      OBVIOUS
    <3> QED BY <2>1, <3>1, AllocHolds
  <2> QED BY <2>2, <2>3 DEF AlOK
<1>2. CASE ~(dev.cur = 0 \/ in.kind = "game")
  <2>1. CacheOK(dev.al, in.parts[dev.cur], CacheOf(in, in.parts[dev.cur]))
    BY <1>2 DEF RdOK
  <2>2. CacheHolds(dev.al) /\ AlOK(dev.al, in.parts[dev.cur].flen)
    BY <2>1 DEF CacheOK
  <2> QED BY <2>2 DEF AlOK
<1> QED BY <1>1, <1>2

LEMMA InterruptCompareInv == ASSUME Suited, CopyInv, InterruptCompare PROVE CopyInv'
<1>1. /\ Typed /\ phase' = "compared" /\ result' = "err"
      /\ UNCHANGED <<input, rd, thd, pos, upto, out, to, short>>
  BY DEF CopyInv, InterruptCompare, EndCompare
<1> QED BY <1>1, StoppedInv DEF Typed

LEMMA StepInv == ASSUME Suited, CopyInv, [CompareNext]_allVars PROVE CopyInv'
<1>1. CASE CopyOrDump
  <2>1. Next /\ UNCHANGED cmpVars
    BY <1>1 DEF CopyOrDump
  <2>2. CASE Probe
    BY <2>1, <2>2, ProbeInv
  <2>3. CASE NextPartition
    BY <2>1, <2>3, NextPartitionInv
  <2>4. CASE Copy
    BY <2>1, <2>4, CopyStepInv
  <2>5. CASE Finish
    BY <2>1, <2>5, FinishInv
  <2>6. CASE StartDump
    BY <2>1, <2>6, StartDumpInv
  <2>7. CASE Dump
    BY <2>1, <2>7, DumpStepInv
  <2>8. CASE FinishDump
    BY <2>1, <2>8, FinishDumpInv
  <2>9. CASE Interrupt
    BY <2>1, <2>9, InterruptInv
  <2> QED BY <2>1, <2>2, <2>3, <2>4, <2>5, <2>6, <2>7, <2>8, <2>9 DEF Next
<1>2. CASE StartCompare
  BY <1>2, StartCompareInv
<1>3. CASE Compare
  BY <1>3, CompareStepInv
<1>4. CASE InterruptCompare
  BY <1>4, InterruptCompareInv
<1>5. CASE UNCHANGED allVars
  BY <1>5, ZenonT(40) DEF allVars, vars, cmpVars, CopyInv, Typed, Reading, Started, Copied, Dumped,
              Compared, CopyRight, DumpRight, CompareRight, SameBytes
<1> QED BY <1>1, <1>2, <1>3, <1>4, <1>5 DEF CompareNext

-----------------------------------------------------------------------------
\* The invariant of all commands that read an input.
THEOREM Invariance == Suited => (CompareSpec => []CopyInv)
<1> SUFFICES ASSUME Suited PROVE CompareSpec => []CopyInv
  OBVIOUS
<1>1. CompareInit => CopyInv
  BY InitInv
<1>2. CopyInv /\ [CompareNext]_allVars => CopyInv'
  BY StepInv
<1> QED BY <1>1, <1>2, PTL DEF CompareSpec

\* The variables keep their types.  In particular neither iin_copy_ex nor
\* dump_device reads behind the end of the input or writes behind the space for
\* it, and the cache of al_read is never said to hold more than it has room for.
THEOREM TypeCorrect == Suited => (CompareSpec => []TypeOK)
<1> SUFFICES ASSUME Suited PROVE CompareSpec => []TypeOK
  OBVIOUS
<1>1. CompareSpec => []CopyInv
  BY Invariance
<1>2. CopyInv => TypeOK
  <2> SUFFICES ASSUME CopyInv PROVE TypeOK
    OBVIOUS
  <2>1. Typed /\ Reading
    BY DEF CopyInv
  <2>2. result = "none" => rd.al.len \in 0 .. rd.al.size
    <3> SUFFICES ASSUME result = "none" PROVE rd.al.len \in 0 .. rd.al.size
      OBVIOUS
    <3>1. WellFormed(input) /\ RdOK(input, rd)
      BY <2>1 DEF Suited, Typed, Reading
    <3> QED BY <3>1, CacheOfReader
  <2> QED BY <2>1, <2>2 DEF TypeOK, Typed, Phases, Results
<1> QED BY <1>1, <1>2, PTL

\* While a command goes on, the cache of al_read holds the bytes of the file it
\* is said to hold, although img_base_read moves data in it and zeroes its end.
THEOREM CacheStaysRight == Suited => (CompareSpec => []CacheRight)
<1> SUFFICES ASSUME Suited PROVE CompareSpec => []CacheRight
  OBVIOUS
<1>1. CompareSpec => []CopyInv
  BY Invariance
<1>2. CopyInv => CacheRight
  <2> SUFFICES ASSUME CopyInv, result = "none" PROVE CacheHolds(rd.al)
    BY DEF CacheRight
  <2>1. WellFormed(input) /\ RdOK(input, rd)
    BY DEF CopyInv, Suited, Typed, Reading
  <2> QED BY <2>1, CacheOfReader
<1> QED BY <1>1, <1>2, PTL

\* A copy by inject_data and iin_copy_ex that returns success has every byte of
\* the image in its place, whatever was looked at before, wherever the parts
\* and the gaps of the image end, and whichever drive or file failed on the way.
THEOREM CopiesAreWhole == Suited => (CompareSpec => []CopyRight)
<1> SUFFICES ASSUME Suited PROVE CompareSpec => []CopyRight
  OBVIOUS
<1>1. CompareSpec => []CopyInv
  BY Invariance
<1>2. CopyInv => CopyRight
  BY DEF CopyInv
<1> QED BY <1>1, <1>2, PTL

\* A dump by dump_device that returns success is the image of its input if it
\* stored as many bytes as that has, whatever the number of parts; and an
\* input of one part is stored whole, unless a write to the file took less than
\* it was given.  osal_write calls that a success and dump_device does not look
\* at how much was stored (common.c:213), so the theorem cannot leave it out.
THEOREM DumpsAreWhole == Suited => (CompareSpec => []DumpRight)
<1> SUFFICES ASSUME Suited PROVE CompareSpec => []DumpRight
  OBVIOUS
<1>1. CompareSpec => []CopyInv
  BY Invariance
<1>2. CopyInv => DumpRight
  BY DEF CopyInv
<1> QED BY <1>1, <1>2, PTL

\* compare_iin finds what differs, and which of two inputs is longer, although
\* their blocks are cut at different places.
THEOREM ComparesWhole == Suited => (CompareSpec => []CompareRight)
<1> SUFFICES ASSUME Suited PROVE CompareSpec => []CompareRight
  OBVIOUS
<1>1. CompareSpec => []CopyInv
  BY Invariance
<1>2. CopyInv => CompareRight
  BY DEF CopyInv
<1> QED BY <1>1, <1>2, PTL
=============================================================================
