----------------------------- MODULE ImageCopy ------------------------------
(***************************************************************************)
(* What the commands do with an input: look into its file system           *)
(* (isofs.c), copy it to the partitions of a game (inject_data and         *)
(* iin_copy_ex), or dump it into a file (dump_device).  Every input is     *)
(* wrapped in the threaded reader, which reads one block ahead into the    *)
(* other of its two buffers; ThdIin shows that it serves one read after    *)
(* the other, so here a read and the one ahead of it are one step.         *)
(***************************************************************************)
EXTENDS ImageInput

CONSTANTS Inputs,  \* the inputs that are tried
          Faults   \* the faults of their devices, by kind of input

VARIABLES
  input,   \* the input of the command
  rd,      \* its reader
  thd,     \* the two buffers of the threaded reader, and the active one
  phase,   \* what the command is doing
  pos,     \* the next sector to be read
  upto,    \* the end of the partition that is being filled
  out,     \* what was written, byte by byte
  to,      \* where the next byte is written
  short,   \* whether the file of a dump took less than it was given (history)
  result   \* what the command returned

vars == <<input, rd, thd, phase, pos, upto, out, to, short, result>>

Hole == <<0, 0>>   \* a byte of the partitions that was not written

FaultsOf(in) == Faults[in.kind] \cup {"none"}

EmptyBuffer == [start |-> 0, num |-> 0, result |-> "ok", data |-> <<>>]

Init ==
  /\ input \in Inputs
  /\ rd = Opened(input)
  /\ thd = [buf |-> [b \in 0 .. 1 |-> EmptyBuffer], active |-> 0, crashed |-> FALSE]
  /\ phase = "probe" /\ pos = 0 /\ upto = 0 /\ to = 0
  /\ out = <<>> /\ short = FALSE /\ result = "none"

-----------------------------------------------------------------------------
(* thd_read, and thd_loop on its job.                                      *)

\* The worker puts what it read into a buffer; a read that succeeds without
\* storing the pointer and the length makes it copy as many bytes as the buffer
\* had before, from nowhere.
Stored(t, b, start, num, w) ==
  LET new == [start |-> start, num |-> num, result |-> w.result,
              data |-> IF w.set THEN w.data ELSE t.buf[b].data]
  IN [rd |-> w.rd,
      thd |-> [t EXCEPT !.buf[b] = new,
                        !.crashed = w.result = "ok" /\ ~w.set /\ t.buf[b].data # <<>>]]
Fetch(in, r, t, b, start, num, fault) ==
  Stored(t, b, start, num, Read(in, r, start, num, fault))

\* what the client gets
Answered(a, got) == [rd |-> a.rd, thd |-> a.thd, got |-> got]

\* (mutated form of Ahead: the block ahead goes to the buffer that was
\* delivered)
AheadSameBuffer(in, a, start, num, g) ==
  LET b == a.thd.active
      Same(p) == Answered(p, p.thd.buf[b])
  IN Same(Fetch(in, a.rd, a.thd, b, start + num, Num, g))

\* the block behind the one that was delivered is read ahead, with fault g
Ahead(in, a, start, num, g) ==
  LET b    == a.thd.active
      got  == a.thd.buf[b]
      more == got.result = "ok" /\ num = Num /\ start + num < Total(in)
  IN Answered(IF more /\ ~a.thd.crashed
              THEN Fetch(in, a.rd, [a.thd EXCEPT !.active = 1 - b], 1 - b, start + num, Num, g)
              ELSE a, got)

\* the read of the client with fault f, unless the active buffer has it
ThdRead(in, r, t, start, num, f, g) ==
  LET has == t.buf[t.active].start = start /\ t.buf[t.active].num = num
  IN Ahead(in, IF has THEN [rd |-> r, thd |-> t]
               ELSE Fetch(in, r, t, t.active, start, num, f), start, num, g)

End(r) == phase' = "done" /\ result' = r

Keep == UNCHANGED <<phase, result>>

\* a read of the command; After(data) is what it does with the data
Reads(start, num, After(_)) ==
  \E f, g \in FaultsOf(input) : \E r \in {ThdRead(input, rd, thd, start, num, f, g)} :
    /\ rd' = r.rd /\ thd' = r.thd
    /\ UNCHANGED input
    /\ IF r.thd.crashed THEN End("crashed") /\ UNCHANGED <<pos, upto, out, to, short>>
       ELSE IF r.got.result = "err" THEN End("err") /\ UNCHANGED <<pos, upto, out, to, short>>
       ELSE After(r.got.data)

-----------------------------------------------------------------------------
(* The commands.                                                           *)

\* isofs_get_ps2_cdvd_info: single sectors, anywhere; the command goes on if
\* it likes what it finds
Look(data) == Keep /\ UNCHANGED <<pos, upto, out, to, short>>
Probe == /\ phase = "probe"
         /\ \E s \in 0 .. Total(input) : Reads(s, 1, Look)

\* inject_data: the image is cut to partitions, which hold whole megabytes
NextPartition ==
  /\ phase \in {"probe", "copy"} /\ (phase = "copy" => pos = upto)
  /\ phase' = "copy"
  /\ \E n \in 1 .. Total(input) :
       /\ pos + n <= Total(input)
       /\ n % Num = 0 \/ pos + n = Total(input)
       /\ upto' = pos + n
  /\ to' = pos * Sector
  /\ UNCHANGED <<input, rd, thd, pos, out, short, result>>

\* the bytes of data are written at place to
Written(o, at, data) ==
  LET fill == [i \in 1 .. at + Len(data) |-> IF i <= Len(o) THEN o[i] ELSE Hole]
  IN [i \in 1 .. Len(fill) |-> IF i > at THEN data[i - at] ELSE fill[i]]

\* An iteration of iin_copy_ex with the data that was read.  The loop ends when
\* no data comes, and inject_data goes on behind what was to be copied.
CopySome(data) ==
  LET whole == (Len(data) \div HddSector) * HddSector IN
  /\ out' = Written(out, to, SubSeq(data, 1, whole))
  /\ IF whole # Len(data) THEN End("err") /\ UNCHANGED <<pos, to>>
     ELSE /\ pos' = IF data = <<>> THEN upto ELSE pos + Len(data) \div Sector
          /\ to' = to + whole /\ Keep
  /\ UNCHANGED <<upto, short>>

Copy == /\ phase = "copy" /\ pos < upto
        /\ Reads(pos, Lesser(Num, upto - pos), CopySome)

\* all partitions are filled, the header is written and the table committed
Finish == /\ phase = "copy" /\ pos = Total(input)
          /\ End("ok")
          /\ UNCHANGED <<input, rd, thd, pos, upto, out, to, short>>

\* dump_device, of the whole input
StartDump == /\ phase = "probe"
             /\ phase' = "dump" /\ upto' = Total(input)
             /\ UNCHANGED <<input, rd, thd, pos, out, to, short, result>>

\* (mutated form of DumpSome: each block is written at the start)
DumpSomeBack(data) == /\ out' = Written(out, 0, data)
                      /\ pos' = Lesser(pos + Num, upto)
                      /\ UNCHANGED <<to, upto, short>> /\ Keep

\* What was read is appended.  A disk that fills up takes the first bytes only,
\* which osal_write calls OK, and nobody looks at how many were stored; the
\* offset goes on by what was asked for.
DumpSome(data) ==
  /\ \E n \in Lesser(1, Len(data)) .. Len(data) :
       /\ out' = Written(out, to, SubSeq(data, 1, n))
       /\ to' = to + n
       /\ short' = (short \/ n < Len(data))
  /\ pos' = Lesser(pos + Num, upto)
  /\ UNCHANGED upto /\ Keep

Dump == /\ phase = "dump" /\ pos < upto
        /\ Reads(pos, Lesser(Num, upto - pos), DumpSome)

FinishDump == /\ phase = "dump" /\ pos = upto
              /\ phase' = "dumped" /\ result' = "ok"
              /\ UNCHANGED <<input, rd, thd, pos, upto, out, to, short>>

\* Ctrl+C, seen by the progress callback, or a write that stores nothing
Interrupt == /\ phase \in {"copy", "dump"}
             /\ End("err")
             /\ UNCHANGED <<input, rd, thd, pos, upto, out, to, short>>

Next == \/ Probe \/ NextPartition \/ Copy \/ Finish
        \/ StartDump \/ Dump \/ FinishDump \/ Interrupt

Spec == Init /\ [][Next]_vars

-----------------------------------------------------------------------------
\* the whole of an input
Whole(in) == [i \in 1 .. Total(in) * Sector |->
                Source(in, (i - 1) \div Sector, (i - 1) % Sector)]

TypeOK ==
  /\ input \in Inputs
  /\ phase \in {"probe", "copy", "dump", "done", "dumped", "compare", "compared"}
  /\ result \in {"none", "ok", "err", "crashed", "different", "1st longer", "2nd longer"}
  /\ rd.cur \in 0 .. Len(input.parts)
  /\ result = "none" => rd.al.len \in 0 .. rd.al.size
  /\ thd.active \in 0 .. 1
  /\ pos \in 0 .. Total(input) /\ upto \in 0 .. Total(input) /\ to \in 0 .. Total(input) * Sector
  /\ short \in BOOLEAN

\* As long as the command goes on, the cache has the bytes of the file it
\* says it has, although data is moved in it and its end is zeroed (al_read,
\* img_base_read).
CacheRight == result = "none" => CacheHolds(rd.al)

\* A copy that returns success has put every byte of the image in its place:
\* neither a part that ends inside a block, nor a gap, nor the block that was
\* read ahead, nor an error on the way is passed over.
CopyRight == phase = "done" /\ result = "ok" => out = Whole(input)

\* A dump that returns success is the image if it stored as many bytes as the
\* image has, and of an input of one file it did unless the file's disk took
\* less than it was given: no other step of dump_device leaves bytes out, and
\* none puts them anywhere but in their place.
DumpRight ==
  /\ phase = "dumped" /\ to = Total(input) * Sector => out = Whole(input)
  /\ phase = "dumped" /\ Len(input.parts) = 1 /\ ~short => out = Whole(input)
=============================================================================
