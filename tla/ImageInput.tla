----------------------------- MODULE ImageInput -----------------------------
(***************************************************************************)
(* The inputs a game is installed from: image files in several formats     *)
(* (iin_img_base.c and the probes that set it up), optical drives          *)
(* (iin_optical.c) and games on another disk (iin_hio.c).  An input is a   *)
(* list of parts; what it has at a sector is a function of the input, and  *)
(* a read is a function of the input, of the state of its reader and of    *)
(* the faults of the device.                                               *)
(***************************************************************************)
EXTENDS AlignedReader, Sequences, FiniteSets

CONSTANTS Sector,     \* IIN_SECTOR_SIZE, bytes of a sector (2048)
          HddSector,  \* HDD_SECTOR_SIZE (512)
          Num         \* IIN_NUM_SECTORS, sectors read at once (512)

ASSUME SizesAssumption == {Sector, HddSector, Num} \subseteq Nat \ {0}

-----------------------------------------------------------------------------
(* What the probes make of a file.  raw and skipIn are the size of a sector *)
(* in the file and where its data starts in it; a part has its first sector *)
(* (offset), its sectors (length), the bytes before them (skip), its file   *)
(* and its bytes (flen), and the sector size of its volume (unit).          *)

Part(offset, length, skip, file, flen, unit) ==
  [offset |-> offset, length |-> length, skip |-> skip, file |-> file,
   flen |-> flen, unit |-> unit]

Input(kind, raw, skipIn, parts) ==
  [kind |-> kind, raw |-> raw, skipIn |-> skipIn, parts |-> parts]

\* one file: header bytes, whole raw sectors, and the rest, which is ignored
OneFile(raw, skipIn, header, footer, flen, unit) ==
  Input("image", raw, skipIn,
        <<Part(0, (flen - header - footer) \div raw, header, 1, flen, unit)>>)

\* iin_iso_probe_path, iin_cdrwin_probe_path, iin_nero_probe_path
Iso(flen, unit) == OneFile(Sector, 0, 0, 0, flen, unit)
Cue(raw, skipIn, flen, unit) == OneFile(raw, skipIn, 0, 0, flen, unit)
Nero(raw, skipIn, header, footer, flen, unit) ==
  OneFile(raw, skipIn, header, footer, flen, unit)

\* the first sector of each part, when the parts follow each other
Offsets(lengths) ==
  LET sum[k \in 1 .. Len(lengths) + 1] ==
        IF k = 1 THEN 0 ELSE sum[k - 1] + lengths[k - 1]
  IN sum

\* iin_gi_probe_path: one file behind a header, with the number of sectors
\* that the header says, or several files without one
GiFile(header, sectors, flen, unit) ==
  Input("image", Sector, 0, <<Part(0, sectors, header, 1, flen, unit)>>)
GiFiles(raw, skipIn, lengths, unit) ==
  Input("image", raw, skipIn,
        [k \in DOMAIN lengths |->
           Part(Offsets(lengths)[k], lengths[k], 0, k, lengths[k] * raw, unit)])

\* iin_iml_probe_path: each file is for the sectors first .. last, between
\* them are gaps; where the first one starts is not used
Iml(files, unit) ==
  Input("image", Sector, 0,
        [k \in DOMAIN files |->
           Part(files[k].first - files[1].first, files[k].last - files[k].first + 1,
                files[k].offset, files[k].file, files[k].flen, unit)])

\* iin_optical_probe_path and iin_hio_probe_path; the parts of a game on a
\* disk are whole megabytes
Drive(sectors, unit) ==
  Input("drive", Sector, 0, <<Part(0, sectors, 0, 1, sectors * Sector, unit)>>)
GameOnDisk(lengths) ==
  Input("game", Sector, 0,
        [k \in DOMAIN lengths |->
           Part(Offsets(lengths)[k], lengths[k], 0, k, lengths[k] * Sector, HddSector)])

\* img_base_stat, opt_stat, hio_stat
Total(in) == LET p == in.parts[Len(in.parts)] IN p.offset + p.length

Contains(p, s) == p.offset <= s /\ s < p.offset + p.length

\* a byte that is delivered: the file and the position in it
FileByte(file, x) == IF x < 0 THEN <<0, x>> ELSE <<file, x>>
ZeroByte == <<0, Zero>>

\* what the input has as byte b of sector s: zeroes in a gap and behind the
\* end of a file
Source(in, s, b) ==
  LET here == {k \in DOMAIN in.parts : Contains(in.parts[k], s)}
      p    == in.parts[CHOOSE k \in here : TRUE]
      x    == p.skip + (s - p.offset) * in.raw + in.skipIn + b
  IN IF here = {} THEN ZeroByte ELSE IF x < p.flen THEN FileByte(p.file, x) ELSE ZeroByte

\* What a list of parts must be like for the input to be read right.  The parts
\* are in order and apart, and a cache is for one file.
Parts == [offset : Nat, length : Nat \ {0}, skip : Nat, file : Nat \ {0}, flen : Nat,
          unit : Nat \ {0}]
InOrder(parts) ==
  /\ parts \in Seq(Parts) /\ parts # <<>> /\ parts[1].offset = 0
  /\ \A j, k \in DOMAIN parts : j < k =>
       /\ parts[j].offset + parts[j].length <= parts[k].offset
       /\ parts[j].file = parts[k].file =>
            parts[j].flen = parts[k].flen /\ parts[j].unit = parts[k].unit

\* the bytes of a file stand in it as they are
Plain(in) == in.raw = Sector /\ in.skipIn = 0

\* The file of a part ends with the part or whole sectors behind it, or inside
\* the last sector of a plain part.  Behind the last of raw sectors anything
\* may follow, behind plain ones it may not (iin_img_base.c:225).
EndsWell(in, k) ==
  LET p == in.parts[k]
  IN \/ /\ p.skip + p.length * in.raw <= p.flen
        /\ (p.flen - p.skip) % in.raw = 0 \/ (~Plain(in) /\ k = Len(in.parts))
     \/ /\ Plain(in) /\ p.skip + (p.length - 1) * in.raw < p.flen
        /\ p.flen < p.skip + p.length * in.raw

\* The cache of a part, and the bytes in it before sector s of the part, which
\* are of the same device sector (iin_img_base.c:181).
CacheUnits(in, p) == (in.raw * Num + in.raw - 1) \div p.unit
CacheSize(in, p) == p.unit * CacheUnits(in, p)
Before(in, p, s) == (p.skip + s * in.raw) % p.unit

\* A block from sector s on fits, or as much of it as fits is whole sectors.
BlockFits(in, p, s) == Before(in, p, s) + Num * in.raw <= CacheSize(in, p)
SectorsFit(in, p, s) ==
  BlockFits(in, p, s) \/ (CacheSize(in, p) - Before(in, p, s)) % in.raw = 0

\* Any one sector fits.  In an input of one part blocks start at multiples of
\* their size, in another they start anywhere.
HasRoom(in, p) ==
  \A s \in 0 .. p.length - 1 :
    /\ Before(in, p, s) + in.raw <= CacheSize(in, p)
    /\ IF Len(in.parts) = 1 THEN s % Num = 0 => BlockFits(in, p, s)
       ELSE SectorsFit(in, p, s)

WellFormed(in) ==
  /\ in \in [kind : {"image", "drive", "game"}, raw : Nat \ {0}, skipIn : Nat,
             parts : Seq(Parts)]
  /\ in.skipIn + Sector <= in.raw /\ InOrder(in.parts)
  /\ in.kind = "image" =>
       \A k \in DOMAIN in.parts : EndsWell(in, k) /\ HasRoom(in, in.parts[k])
  /\ in.kind = "drive" =>
       /\ Len(in.parts) = 1 /\ Sector % in.parts[1].unit = 0
       /\ in = Drive(in.parts[1].length, in.parts[1].unit)
  /\ in.kind = "game" =>
       /\ Plain(in)
       /\ \A k \in DOMAIN in.parts :
            /\ in.parts[k].skip = 0 /\ in.parts[k].file = k
            /\ in.parts[k].flen = in.parts[k].length * Sector
            /\ k > 1 => in.parts[k].offset = in.parts[k - 1].offset + in.parts[k - 1].length

\* An input that is compared with another is read from any sector on.
RoomAnywhere(in) ==
  in.kind = "image" =>
    \A k \in DOMAIN in.parts : \A s \in 0 .. in.parts[k].length - 1 :
      SectorsFit(in, in.parts[k], s)

-----------------------------------------------------------------------------
(* Reading.  cur is the part the reader is at (current, last_part), al the *)
(* cache on its file.                                                      *)

NoReader == [cur |-> 0, al |-> AlAlloc(1, 0)]

\* img_base_alloc and the probes leave no file open; a drive has its cache
\* and a game on a disk is at its first part
Opened(in) ==
  CASE in.kind = "image" -> NoReader
    [] in.kind = "drive" ->
         LET unit == in.parts[1].unit
         IN [cur |-> 1, al |-> AlAlloc(unit, (Sector * Num) \div unit)]
    [] in.kind = "game" -> [NoReader EXCEPT !.cur = 1]

\* what a read returns; set: whether it stored the data pointer and the length
Success(rd, data) == [rd |-> rd, result |-> "ok", set |-> TRUE, data |-> data]
Failure(rd)       == [rd |-> rd, result |-> "err", set |-> FALSE, data |-> <<>>]
Unset(rd)         == [rd |-> rd, result |-> "ok", set |-> FALSE, data |-> <<>>]
Nothing(rd)       == Success(rd, <<>>)

\* the first part that does not end before the sector
AtOrAfter(in, s) ==
  {k \in DOMAIN in.parts : /\ s < in.parts[k].offset + in.parts[k].length
                           /\ \A j \in 1 .. k - 1 :
                                s >= in.parts[j].offset + in.parts[j].length}

\* the cache on the file of a part, a new one if it is another file
Switched(in, rd, k) ==
  LET p == in.parts[k]
  IN IF rd.cur # 0 /\ in.parts[rd.cur].file = p.file THEN [rd EXCEPT !.cur = k]
     ELSE [cur |-> k,
           al |-> AlAlloc(p.unit, CacheUnits(in, p))]

CeilDiv(a, b) == (a + b - 1) \div b

\* The rest of img_base_read, on what al_read returned.  Sectors are cut to
\* the end of the part; the data of the sectors is picked out of the buffer,
\* unless the file has nothing else; and if the last one was not read as a
\* whole its end is zeroed, in the cache itself if nothing was picked.
Delivered(in, rd, r, start) ==
  LET p     == in.parts[rd.cur]
      n     == Lesser(CeilDiv(r.len, in.raw), p.offset + p.length - start)
      rest  == (in.raw - (r.len % in.raw)) % in.raw
      plain == in.raw = Sector /\ in.skipIn = 0
      zero  == IF rest > in.skipIn THEN n * Sector - (rest + in.skipIn) .. n * Sector - 1
               ELSE {}
      from(i) == IF plain THEN r.at + i
                 ELSE r.at + (i \div Sector) * in.raw + in.skipIn + (i % Sector)
      byte(i) == IF i \in zero THEN ZeroByte
                 ELSE FileByte(p.file, Byte(r.al.buf, from(i)))
      len   == IF rest # 0 /\ zero = {} THEN n * Sector - 1 ELSE n * Sector
      buf   == [x \in DOMAIN r.al.buf |->
                  IF plain /\ (x - r.at) \in zero THEN Zero ELSE r.al.buf[x]]
  IN Success([rd EXCEPT !.al = [r.al EXCEPT !.buf = buf]],
             [i \in 1 .. len |-> byte(i - 1)])

\* an error of al_read is kept in a second variable of the name "result" and is
\* not returned
Picked(in, rd, r, start) ==
  IF r.ok THEN Delivered(in, rd, r, start) ELSE Unset([rd EXCEPT !.al = r.al])

\* img_base_read from the part the reader is at now
FromPart(in, rd, start, num, fault) ==
  LET p == in.parts[rd.cur]
  IN Picked(in, rd,
            AlRead(rd.al, p.flen, p.skip + (start - p.offset) * in.raw, num * in.raw,
                   IF fault = "open" THEN "none" ELSE fault), start)

\* img_base_read: the part it is at, another part, a gap before one, or nothing
ImgRead(in, rd, start, num, fault) ==
  LET here == rd.cur # 0 /\ Contains(in.parts[rd.cur], start)
      next == AtOrAfter(in, start)
      k    == CHOOSE k \in next : TRUE
      til  == in.parts[k].offset - start
  IN CASE ~here /\ next = {} -> Nothing(rd)
       [] OTHER ->
            IF ~here /\ ~Contains(in.parts[k], start)
            THEN Success(rd, [i \in 1 .. Lesser(num, til) * Sector |-> ZeroByte])
            ELSE IF ~here /\ fault = "open" THEN Failure(rd)
            ELSE FromPart(in, IF here THEN rd ELSE Switched(in, rd, k), start, num, fault)

\* opt_read
FromDrive(rd, r) ==
  IF r.ok
  THEN Success(rd, [i \in 1 .. r.len |-> FileByte(1, Byte(r.al.buf, r.at + i - 1))])
  ELSE Failure(rd)
DriveRead(in, rd, start, num, fault) ==
  LET After(r) == FromDrive([rd EXCEPT !.al = r.al], r)
  IN After(AlRead(rd.al, in.parts[1].flen, start * Sector, num * Sector, fault))

\* hio_read: up to the end of the part, straight from the disk
GameRead(in, rd, start, num, fault) ==
  LET here == IF Contains(in.parts[rd.cur], start) THEN {rd.cur}
              ELSE {k \in DOMAIN in.parts : Contains(in.parts[k], start)}
      k    == CHOOSE k \in here : TRUE
      p    == in.parts[k]
      n    == Lesser(num, p.offset + p.length - start)
      next == [rd EXCEPT !.cur = k]
      from == (start - p.offset) * Sector
  IN CASE here = {}       -> Nothing(rd)
       [] here # {} /\ fault # "none" -> Failure(next)
       [] OTHER -> Success(next, [i \in 1 .. n * Sector |-> FileByte(k, from + i - 1)])

\* iin->read of the input
Read(in, rd, start, num, fault) ==
  CASE in.kind = "image" -> ImgRead(in, rd, start, num, fault)
    [] in.kind = "drive" -> DriveRead(in, rd, start, num, fault)
    [] in.kind = "game"  -> GameRead(in, rd, start, num, fault)
=============================================================================
