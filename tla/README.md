# hdl-dump in TLA+

hdl-dump installs PlayStation 2 games from disc images onto a PS2 hard disk,
attached locally or reached over the network through a server on the console.
This directory models the parts of it whose correctness is hardest to test: two
threads that share buffers without a lock, images of many formats read through
a cache, a partition table rewritten in place and never in one step, and a
protocol of retries over UDP with a cache at its far end. TLC checks the models
on small instances; TLAPS proves properties of the threaded reader, the image
inputs and their copies, the partition table and the allocation of space on the disk,
the network disk and its server for every size.

## 1. The system

| Part | State | Operations |
|---|---|---|
| Inputs (`iin_*.c`, `aligned.c`, `iin.h`) | parts of an image; the part it is at and a cache | stat, read, close |
| Threaded reader (`thd_iin.c`) | job, two buffers, two semaphores, `done` | thd_read, thd_close; thd_loop in a thread of its own |
| Partition table (`apa.c`) | linked headers on the disk; `apa_toc_t` in memory with a chunk map per slice | read, check, find, allocate, commit, initialise |
| Games (`hdl.c`) | HDLoader header and data of each game on the disk | inject, extract, list, modify, modify header |
| Commands (`hdl_dump.c`, `common.c`) | one command per process; a flag set by Ctrl+C | install, modify, modify_header, inject_mbr, copy_hdd, backup_toc, restore_toc, dump, compare_iin |
| Network disk (`hio_udpnet2.c`) | `seq_no`, chunk table, counters | read, write, flush, stat, poweroff |
| Network server (`svr/pktdrv/svr.c`) | write buffer with dirty map, read buffer | read, write, sync, stat, shutdown |
| The rest | | local disks, configuration, progress, GUI |

A command opens an input and a disk. `hdl_inject` reads the table, allocates
partitions in memory, copies the image from the input (through the threaded
reader) to the disk (perhaps over the network), writes the main header and
commits the table. Nothing is locked on the disk and nothing is undone: what a
stopped command leaves is what the next one reads.

What makes it correct:

* **Threaded reader**: behaves as the input it wraps; the client's data does not
  change under it; every call returns; nothing is touched after close.
* **Inputs**: a block is the bytes of the image, wherever parts and device
  sectors end; a copy or a comparison that succeeds has seen all of it.
* **Table and games**: a command that reports success has done what was asked;
  one that is stopped harms no other game; what is allocated suffices.
* **Network disk**: a read returns what was last written, a successful write is
  on the disk, losses and delays are ridden out, every operation ends.

Hard behaviours are listed with their line in the `hazards` of `PROJECT.json`,
each with the properties that cover it or the reason none does yet.

## 2. Modules

```
IinReader  <--implements--  ThdIin        <- ThdIinProofs, MCThdIin
AlignedReader <- ImageInput <- ImageCopy <- CompareInputs <- MCImageCopy
CompareInputs <- ImageProofs <- CopyProofs
Apa  <- HddCommands <- HddGames           <- MCHddGames
                       HddGames <- AllocProofs <- TableProofs
                       HddGames <- TocBackup  <- MCTocBackup
                       HddGames <- CopyHdd    <- MCCopyHdd
GameList <--implements-- HddGames
Svr  <- SvrProofs
Svr  <- UdpNet                            <- MCUdpNet
UdpNet, SvrProofs        <- NetDataProofs <- NetOrderProofs
```

* **IinReader** is the contract of `iin_t`: calls one at a time, a success
  delivers exactly the sectors asked for, cut at the end of the source, and what
  was delivered stays until the next call.
* **ThdIin** is `thd_iin.c`. `cpc` and `wpc` are the places of client and worker;
  each access to shared state is an action (the wait at line 130 is
  `WaitMaster`, the test at 133 `Hit` or `Miss`, lines 90-113 the worker's
  `WaitWorker` ... `NotifyMaster`). A buffer's bytes are the span of the source
  they came from, so wrong, torn or overwritten data shows. `ImplementsReader`
  is the refinement to `IinReader`.
* **AlignedReader** is `aligned.c`: a cache over a file whose reads start and end
  on sectors of the device. A byte of its buffer is its position in the file.
  `Kept`, `Moved` and `Filled` are the "correction" of al_read, `Failed` what a
  failed seek or read leaves.
* **ImageInput** is `iin_img_base.c` with what the probes set up for it, the reads
  of `iin_optical.c` and of `iin_hio.c`. An input is a list of parts; `Switched` is
  the change of file, `Delivered` the picking of sectors out of raw ones and the
  zero fill of the last.
* **ImageCopy** is the commands on an input: single sectors read anywhere
  (`isofs.c`), the copy loop of `inject_data` and `iin_copy_ex`, `dump_device`. Every
  read goes through the two buffers of the threaded reader with its prefetch
  (`ThdRead`); that the two threads serve one read after the other is ThdIin's
  result, so a read and its prefetch are one step here.
* **CompareInputs** adds compare_iin, which reads two inputs side by side.
* **Apa** holds `apa.c` and the layout of `hdl.c` as functions of the disk. The
  unit is the chunk of 128 MB; a chunk has `hdr` (its first two sectors), `tab`
  (the HDLoader header at 0x101000) and `data`, which are written apart.
  `Chain` follows the links as `apa_slice_read` does, `Check` is
  `apa_check_slice`, `DeleteEmpty` the automatic deletion of `__empty`,
  `Allocate` and `Joined` the allocation, `Normalize` the list with its
  modified marks, `Extents` and `AllocTable` the copy loop of `inject_data` and
  the table of `prepare_main`, `Extracted` what `hdl_extract_ex` would give.
  `Joined` states the outcome of the loop in `optimize_partitions`: the aligned
  runs that no further join enlarges.
* **HddCommands** is the commands, write by write: `InstallGame`, `CopyChunk`,
  `WriteMain`, `CommitHeader`, `ModifyGame`, `WriteTitle`, `ModifyHeader`,
  `WriteAttributes` or `WriteGarbage`, `InjectMbr`, and `Stop`, which ends a
  command between any two writes: Ctrl+C, an error, a power failure.
  `ConsoleDelete` is the console deleting a game (external).
* **HddGames** adds two recorders: `seen`, the list the next reader of the disk
  gets, and `stages`, the lists the command in progress may leave. **GameList**
  is the abstract specification over them, and `KeepsGames` the refinement.
* **CopyHdd** is copy_hdd: the games of a source list installed one after the other
  by the actions of HddCommands, with the check of the free space, the flags, the
  lookup by title and the skipping of games that are there.
* **TocBackup** is backup_toc and restore_toc beside the other commands: two
  sectors at a time, at two places of every chunk.
* **Svr** is `svr.c` as functions of a record with both buffers. A sector holds
  the version last written to it.
* **UdpNet** is `hio_udpnet2.c`, two packet queues and `Svr`. `SendChunk`,
  `ReceivePiece` and `TimeoutPiece` are one pass of the loop in net_read_32k and
  net_write_32k, `SendQuery`, `ReceiveQuery` and `TimeoutQuery` of the loop in
  query_result. `Restart` is a client that is stopped and started again.

An operator whose comment calls it a mutated form is used by no specification:
it is what a bug in the code would look like, kept to show that a property
notices it.

## 3. What TLC checks

| Run | Instance | Shows |
|---|---|---|
| MCThdIin | 5 sectors, reads of up to 2 | mutual exclusion, binary semaphores, no use after free, held data stable, no job repeated, reads and close end, implements IinReader |
| MCInstall | 8 chunks in one slice or two (4 and 4), runs of up to 2, two games (124 and 252 MB), install and modify | table good before each commit, allocation suffices, images go to free space only and are whole where the allocation table says, success means done, no game harmed |
| MCCopyHdd | 5 chunks, no joining, source of three games (124, 378, 100 MB; one hidden), flags on two of them, console deletion between copies | a copy that succeeds brought every chosen game and no other; an interrupted one changes nothing that is listed; the space checked suffices |
| MCTocBackup | 6 chunks, runs of up to 2, one game, all commands, plain and ToxicOS, failing reads of modify_header, one backup | a restore that succeeds brings the table back; until then no command harms another game |
| MCImage | 44 inputs of up to 6 sectors of 4 bytes (6 raw), blocks of 2, device sectors of 2, 4 and 8 bytes, compared with 7 others; failing opens, and seeks and reads of drives; writes of a dump that take less than they are given | cache right; copies complete; dumps complete, or with nothing left out but what their file did not take; comparisons right |
| MCUdpNet | 8 sectors, buffers of 2 and 4, pieces of 6, window 2, 3 operations, 4 losses or delays, 7 tries | counters right, reads fresh, successful writes stored, no timeout |
| MCUdpFaults | the same, 1 operation, 2 tries, any number of losses and delays (`Endless`), failing disk, aborted clients | content kept, every operation ends |

Why the bounds are enough. *MCThdIin*: with 5 sectors and full reads of 2 there
is a prefetch in the middle, a short one at the end, reads that miss, hit and
hit a failed prefetch, and any order of them. *Disk*: the games of 124 and
252 MB fill one chunk to the last megabyte and two but for the headers, which
forces the extra chunk; 5 to 8 chunks leave room for two or three games, gaps and
joined runs; the second game always finds a table that the first changed. With
`Slice2 = 4` the first slice has 3 whole chunks as its last one is short of a
kilobyte; the disk beyond has its own. In MCCopyHdd the game of 378 MB takes
three of five chunks, so that the copies meet a disk that is full. In MCTocBackup
a table is changed in every way after the backup was taken, the disk ends with a
chunk that is not whole, and a restore is stopped anywhere and begun again.
*Inputs*: blocks of two sectors make parts of 1, 2 and 3 sectors end before, at
and inside a block; device sectors of 2, 4 and 8 bytes lie below, at and above the
sector, and headers of 1 and 6 bytes put parts off them; images end inside a
sector, have gaps, several files, and raw sectors with a frame. The comparison
tries images cut at different places, equal or different in one sector, and of
different length. *Network*: the requests `<<0,7>>` and `<<3,2>>` overlap, are cut
at odd sectors, cross both buffers and take two pieces, the last one of a single
sector; a window of 2 with 3 chunks makes chunks wait. MaxTrouble is the number
of packets lost and answers that come late in a whole behaviour; 4 is enough for one chunk to
be answered twice while the two others of the piece are lost, so that a counter decreased
twice shows before the piece is over. `CountersRight` with a failing disk and aborted clients is
left to the theorem (`CountersStayRight`).
With `Endless` there is no such bound: from any time on nothing may come through, in
the middle of a read, of a piece of a write or of the flush, each of which then has to
use up its tries. MCUdpFaults has it, with one operation and two tries; the packets that are left over
from earlier pieces, and from tries that were given up, are those an earlier operation
would leave. A bound on the trouble instead would let the network recover, and a loop
that counts nothing end when it does.

Constants in place of the code's: `Slice2` for 0x10000000 sectors, `SizeClasses`
for 32, `NumSectors` for IIN_NUM_SECTORS, `RdSize` and `WrSize` for the buffers
of 64 and 256 sectors, `PieceSize` for 32, `Window` for 4, `Retry` for 100;
`Sector` for 2048 bytes, `HddSector` for 512, `Num` for IIN_NUM_SECTORS, `NoOffset`
and `U32` for -1 and 2^32. `MaxOps`, `MaxTrouble` and `MaxBackups` exist only to
bound the state space.
MCUdpNet's Retry exceeds MaxTrouble + 2, the condition under which
`TroubleIsRiddenOut` (section 5) excludes a timeout; the code's 100 tries allow 97
packets lost or late in a whole session, and no network that stays away (`Endless = FALSE`).

The disk, image and network runs turn the deadlock check off: a client that has
used its MaxOps operations may stop, a command ends, and so may a disk on which
nothing more can be done. MCThdIin keeps it on; its end state has a stuttering step of its own.

### Where code and documentation differ

Five runs check one property each that the code does not have:

* **MCGap** — the main header is written last so that an interrupted install
  does no harm (hdl.c:960-965, CHANGELOG:35). The data of a sub-partition may
  still overwrite the header of a deleted, linked partition.
* **MCMbr** — inject_mbr keeps the links of sector 0 but drops the ToxicOS mark:
  a second slice is no longer read (README.md:108: "All HDD data will remain
  intact").
* **MCUdpOutage** — net_write_32k returns success when its retries run out.
* **MCUdpAta** — after a failed disk read the server's read buffer claims to hold
  the sectors, and the next try of the client is served from it.
* **MCImageFill** — the cache of `img_base_read` has no room for the bytes between
  a device sector and the block (iin_img_base.c:181). Where blocks start off device
  sectors, the end of each block's last sector is zeroed. A Nero image of raw
  sectors has its first sector at byte 352800, which is 544 bytes behind a sector
  of 4096 (the st_blksize that osal_unix.c takes for it); iin_img_base.h:39 promises zeroes
  at the end of the input only. `ReadDelivers` (section 5) proves that the cache needs
  this room and nothing else.

The passing runs state what holds besides, and their constants name what they
leave out because the code does not have the property there:

* All disks have sectors behind the last chunk (`LastPart`). `apa_slice_read` wants
  a partition to end *before* the last sector (`<`, apa.c:279), `apa_check_slice` *at*
  it (`<=`, 1027), and the allocator fills the disk to its end: on a disk of a whole
  number of chunks an install into the last one succeeds and leaves a table that
  is refused. With `LastPart = FALSE` MCInstall finds it.
* MCCopyHdd has no joined chunks (MCGap), one slice, and distinct titles. A game
  that needs a run, or a chunk more for its headers, may not fit although the sum
  of free chunks suffices (`SpaceEnough`, hdl_dump.c:1369), and two games of one
  title are both copied from the first of them (hdl_dump.c:1387), so `CopyRight` fails.
* MCTocBackup has no second slice (MCMbr) and, with `BackupReadsFail = FALSE`, no
  errors in the backup: one of them, in reading or in writing, leaves a file in which all that
  follows is in the wrong place, and if the last read is good the backup reports success
  (nor does it look at the result of fclose, hdl_dump.c:1002).
* MCImage has failing opens, not reads, of image files: `img_base_read` keeps the
  result of `al_read` in a second variable of that name (iin_img_base.c:221) and
  returns success; `thd_loop` then copies from a null pointer, or the copy loop
  takes the empty block for the end of the image and goes on behind it.
* Plain images end with their files. The bytes missing from the last sector are counted
  before the sectors are cut to the end of the part (iin_img_base.c:225-234), so where
  the file goes on behind a plain image — a Nero image has a footer of 156 or 72 bytes
  there, an ISO file may have a size that is no multiple of 2048 — the block read ahead
  over the end zeroes the end of the last sector in the cache, from which the last read, a
  shorter one, is then served; iin_img_base.h:39 promises zeroes at the end of the input
  only. With `Inputs <- MCTailInputs` MCImage finds it.
* A dump that returns success need not be the image. `dump_device` does not look at how much
  `osal_write` stored (common.c:212-216), and on unix a write that stores some of the bytes is
  `OSAL_OK` (osal_unix.c:287-290). `osal_create_file` sets the length of the file but reserves
  no space (osal_unix.c:109-127). A disk that fills up in the last block leaves a dump that ends
  with zeroes; if there is room again after a short write, what follows is moved up. The usage text
  says of dump "make device image" (hdl_dump.c:1511). `DumpSome` therefore stores any number
  of the bytes it is given, and `DumpRight` says what holds: nothing else is ever left out, and
  a dump that stored as many bytes as the image has is the image. The history variable
  `short` records that a write took less than it was given; no guard reads it. Without `~short`
  in DumpRight MCImage finds the dump that lacks its end. `iin_copy_ex` compares the count (common.c:337).
* Images of raw sectors end with a whole one, or with a footer the probe leaves out. If
  the file of a Global Image ended inside its last raw sector, the zeroes would be
  counted back from the end of the sector's data as if no frame followed it, or one
  byte taken off the length (iin_img_base.c:253-258).
* MCUdpNet has no disk failures and enough tries; ReadsFresh is checked without
  aborted clients (see the hazard at svr.c:212).

## 4. Fairness

`ThdIin!FairSpec` has weak fairness of the client inside a call and of the
worker: the operating system runs both threads, and the source answers each
read, with data or an error. Nobody is obliged to call read or close.
`UdpNet!FairSpec` has weak fairness of the client's loop, whose select returns
after 100 ms at the latest, and of the server, which serves what reached it.
Nothing is assumed of the network, and MCUdpFaults lets it lose or delay everything for
ever: `OperationsEnd` holds as all three loops count their tries. The disk model states safety only.

## 5. What is proved

TLAPS proves, for every value of the constants that satisfies the named
assumptions (`SectorAssumption`; `SvrAssumption` and `UdpAssumption`;
`AlignedAssumption`):

* **ThdIinProofs** — `TypeCorrect`, `Safe` (MutualExclusion, SemaphoresBinary,
  NoUseAfterFree; `Binary` and `FreedLast` state the last two alone), `HeldStable`,
  `NoJobRepeated` and `Refinement`, the last being the safety part of `ImplementsReader`. None of these is inductive by itself; `IInv` strengthens
  them. `OneToken`: until `done` is set there is one token, held by a semaphore
  that counts one or by the one thread that is between its wait and its post.
  `Closing`: once `done` is set the worker reads no more, and only its last step
  posts the master semaphore, so that the client's second wait ends when the
  worker is gone. `HeldApart`: a pending or running job does not go to the buffer
  the client holds. Mutual exclusion, the counts and the lifetime follow from the
  first two (`Consequences`), held data being stable from the third. `DataInv`
  adds what the buffers contain, and with it each step of the pair is a step
  of the reader or leaves it as it is. `JobTagged`: the last job went to the active
  buffer, and once it is done that buffer is tagged with it; so a read of the same sectors
  is a hit and the worker is not sent again.
* **NetDataProofs** — `CountersStayRight`: the unsigned counters never underflow
  and `chunks_remaining` is the number of chunks not done, whatever the network,
  the server and the disk do. A late answer comes after its timeout has already
  taken the chunk off `chunks_outstanding`; that the second decrement does not go
  below zero needs the invariant that a piece in progress has a chunk that is
  not done: a client that waits has its window full or as many outstanding as
  remain, hence at least one.

  `DataKept`, with **SvrProofs**: what a sector of the server holds, on the disk or in
  the write buffer, changes only by a write to that sector, whatever is lost, repeated or
  aborted and whichever disk operation fails. `NoStaleReads`: if the disk does not fail, the read buffer agrees with disk and write buffer.
  SvrProofs has the lemmas on the functions of `svr.c`: well-formed buffers are kept
  by every request (`SyncKeeps`, `ReadKeeps`, `WriteKeeps`), a fresh read buffer stays
  fresh (`SameFresh`, `FillKeeps`, `WriteFresh`), a write changes its sectors only
  (`WrittenFrom`). The freshness of the read buffer is not inductive alone: a write
  that misses it must not overlap it, which `Invalidate` shows only for requests no
  longer than the buffer, and this is what NetDataProofs carries through the packets
  on their way (each request in a queue came from `SendChunk`, so it lies inside the disk
  and is no longer than two sectors).

  `NetTypeCorrect`: `TypeOK` of the network, with `NetBounds`. That the disk holds versions of operations
  only is not a matter of types: the write buffer has places that were never filled, and a
  run of dirty sectors must not take one of them along (`Bounded`, kept by `WriteBounded`).

  `TroubleIsRiddenOut`: no operation of the network disk runs into a timeout.
* **NetOrderProofs** — `WhatIsOkIsStored` and `WhatIsReadIsFresh`: a
  write that succeeds is on the disk, a read that succeeds has what was last
  written. These two and `TroubleIsRiddenOut` are under `Calm`: the disk does not fail, no client is aborted, and
  there are more tries than `MaxTrouble + 2`, with trouble that ends (`~Endless`). Each condition is needed: MCUdpOutage shows
  what a longer outage does, MCUdpAta a failing disk, and after an abort the buffer
  holds writes of which nobody was told (svr.c:212). There is no condition on `seq_no`.
  - *Patience* (`Patience`): of the packets in transit, oldest first, those that belong to
    nothing any more come before all others (`StaleUpTo`), as nothing overtakes; each was
    sent again because a packet was lost or late, and an answer that matches resets
    the count of tries. So `count` and the stale packets together are at most
    `trouble + 2`.
  - *Order* (`Order`): `Quiet` says that between operations and in a read no write is left
    in transit or in the buffer; `WritesLast` that in a write nothing is sent between the
    chunks, so that once one is answered nothing older is left; `Syncing` that an answer to
    a flush, while older flushes may still be on their way, was sent after all the writes
    were in the buffer or on the disk. A write repeated after its answer
    was lost must not be dropped because *some* of its sectors are dirty (svr_write looks at the first
    one only): `Paired` says that the dirty sectors of the buffer are whole pairs of the write in
    progress, with its data.
* **ImageProofs** — `AllocHolds`, `ReadHolds`: every byte of the cache is the byte of
  the file it stands for, after any successful read; `ReadDelivers`: a read delivers
  exactly what the file has of the request, if the request and the bytes before it in
  its device sector fit the buffer.
* **CopyProofs**, on the lemmas of ImageProofs — `CopiesAreWhole`, `DumpsAreWhole`, `ComparesWhole`,
  `CacheStaysRight` and `TypeCorrect`: what MCImage shows of 44 inputs, for inputs of
  any number of parts, files of any length, frames, gaps, blocks and device sectors.
  All are under `Suited`: image files may be missing but are read without errors
  (those are lost, iin_img_base.c:221), and inputs are `WellFormed`. That asks
  that the unit of a drive divide a sector (`osal_unix.c:207` would answer 4096, of a drive it can
  hardly open), and two things the code does not have otherwise: a block and the bytes before it in its device sector fit
  the cache (`HasRoom`, else MCImageFill), and nothing follows the last sector of a
  plain part that is not a whole sector (`EndsWell`, the inputs of section 3). A
  comparison starts blocks anywhere, also in inputs of one part, and asks for `RoomAnywhere`.
  MCImageCopy has TLC evaluate that the inputs of MCImage are well formed and that those of
  MCImageFill and `MCTailInputs` are not.
  - *A read of an input.* `RdOK`: the cache is that of the file of the part the reader is at,
    and holds its bytes. An image read (`Cut` and `Delivered`, from `ReadDelivers`) delivers
    at least one sector and every sector it delivers is right; that it is *all* that was asked for
    is so only where blocks of an input of one part start (`Right`), and dumps need it, as
    `dump_device` writes one block behind the other. A read of a drive that fails leaves the
    cache with data of the wrong place (`aligned.c` has moved what it kept) unless nothing
    was kept; `Lined` says that nothing is, as the block before ended where this one starts.
    Hence a drive that fails in the read *ahead*, of which the client is not told, does no harm.
  - *The threaded reader* (`ThdReadOK`). `ThdOK`: the active buffer holds what its start and number
    say or the error of its read, whatever the reader has since done.
    The block read ahead may lie behind the end of the input, where a drive is asked
    for sectors it does not have; `Good` promises nothing of such a block, and no
    client asks for it.
    What `DumpsAreWhole` says of dumps is conditional, as the code is (section 3): one that
    stored as many bytes as the image has is the image, and one of an input of one part
    stored them all unless a write took less than it was given. `Dumped`: as long as
    nothing was left out, what is stored is `FirstOf` the image.
  - *The commands* (`CopyInv`, which TLC checked on the instance of MCImage before it was
    proved). What is written is `FirstOf` the input up to the position; positions stay at
    multiples of the block in inputs of one part (`OnBlock`); two inputs have the `Same`
    bytes up to the position of a comparison, although each delivers blocks of its own
    length. CopyRight, DumpRight and CompareRight speak of the end of a command only
    and are not inductive without these.

* **AllocProofs** — the space an install gets, for slices of any number of chunks,
  any number of size classes, and tables of any shape, good or not.
  - *What is allocated* (`AllocatedRuns`): aligned runs of 1, 2, 4... available chunks
    inside the slice, in ascending order and apart. `RunsCover`: each chosen chunk
    is in exactly one run, as of the aligned blocks around it the largest that is wholly
    chosen is a run and any other is inside it (`BlocksNest`, `RunsApart`). `Ascending`
    is a choice of a sequence; that there is one is shown by ranking each element by
    those below it (`Ranked`).
  - *It suffices* (`ImagesFit`): the runs hold what they cover (`CoveredHolds`, the sum
    in `Before`), less 4 MB for the first and 1 MB for each other. Where the chunks
    are too few for that, one more is added. There are never more runs than chunks, so
    the megabytes of that chunk hold all headers if the chunks of the image and four more are no
    more than these. This is `SmallEnough`, images of up to 124 chunks (15.5 GB; a DVD of two
    layers has 8.5 GB). Beyond it the code does not check (apa.c:661-668).
  - *It was free* (`CopiesAreFree`): what `inject_data` writes lies inside the runs behind
    their headers (`ExtentInside`), and these are available chunks, also where the
    first slice ends a kilobyte short and where deleted partitions are taken for free.
    While the copy goes on only chunks of the plan are touched (`TodoChunks`). What
    harm a write to a deleted, still linked partition does is MCGap's matter.
  - *It is whole* (`CopiesAreWhole`): what hdl_extract would read back from the write of the main
    header on is the image. The amount that precedes a run rises from run to run, as a chunk
    holds more than a header (`BeforeRises`), so the runs that are used are the first ones, each
    full but the last (`LaidOut`); no chunk is filled for two of them (`PlannedData`); the
    table's lengths add up to where the copy began each part (`OffsetsAre`, `ExtractedIs`).
    The invariant `CopyInv` has of the disk that each chunk has its three
    parts, and of an install that its plan is an allocation in its slice, that
    what is not left to do is done, and that the commit undoes nothing of it.
  - `RecordingAddsNothing`: HddGames has the behaviours of HddCommands, so these results
    hold of what MCInstall checks.

* **TableProofs** — the partition table, for disks and slices of any size, any number of
  games, and any sequence of commands, each finished, refused or stopped between two writes.
  - *Reading* (`ReadListed`). What `Chain` gives is not computed but bounded: a walk whose rank
    goes down from step to step exists, and what holds of its start and is kept by a step
    holds of its end (`WalkExists` and the lemmas after it, an induction over the rank that
    needs no theorem with an operator as its parameter: the least rank that fails is taken). So a list that is read begins at the
    start of its slice, each header is in its place, none is met twice, all subs of the main
    partitions are there; and it is the only such list of this disk.
  - *Changing.* `DeleteEmpty` (a game the console emptied is taken off with its subs), `WithNew`
    (a new game) and `Normalize` keep a list that `apa_check_slice` accepts one that it
    accepts, which `CheckIs` takes apart: inside the slice, the subs of every main partition as it
    lists them, a ring of links.
  - *Types* (`WellTyped`, from `TypeInv` and one lemma for each action). That the first
    partition is always the system's is part of it: `InjectMbr` keeps the links of what is
    there, and no game and no copied chunk may ever be put at chunk 0. A read that fails
    in `WriteGarbage` leaves junk where a game was, so a header is well formed *or* junk.
  - *The table in memory* (`TablesStayGood`). `TableGood` is not inductive. A
    table that `apa_check` accepts may have a sub without its main partition, on which no check is
    made, until an install puts a main partition of its own into the gap; so something must be
    said of the disk, and of the disk in the middle of a commit. `TableInv` says:
    `DiskSane`, *whatever list can be followed* on the disk is in ascending order, has the main
    partition of each sub (`Sound`) and every sub that is on the disk (`Complete`), and
    empty partitions have no subs; `TablesOn`, the list in memory derives from one that was read, and
    the disk has of each header the old one where it still waits to be written and
    the new one elsewhere (`Mixed`, `Waits`); `Forward`, headers are written in ascending order, as
    `apa_commit_ex` does.
    A commit that stops leaves new headers below some place and old ones above it. What can be
    followed on such a disk meets headers of the new list first and then, beyond the first place that
    waits, headers of the old one only (`OneOrTheOther`), as links of either list lead up; where
    it passes from the one to the other, nothing that both have is left out, so it has every sub and main
    partition it needs (`MixedGood`). The main partition of a new game is the exception: it is
    written before all others, and a list that meets it early, over a deleted partition that
    was taken for free, must also have its subs, which `apa_check_slice` asks of each list
    (`SubsMet`). That data was copied over such a partition does no harm to the table: a list
    through it cannot be followed at all (`Thinned`). `InjectMbr` changes the first header but not its links; what
    `ConsoleDelete` empties loses its subs with it (`MbrPutList`, `EmptiedList`).
    Before the proof TLC checked `DiskSane`, of the lists that `Chain` follows, on a disk of eight
    chunks with two games and all commands.

  - *Success* (`SuccessIsDone`, which states `OkMeansDone`). Three parts. (a) A list on the disk
    is what is read: if every header of a list that `apa_check` accepts is in its place and none is an
    empty partition, then the walk along the links ends, meets that list and nothing else, and
    no partition of it is taken off (`ReadBack`, `TableReadBack`). (b) When the last header of a commit is
    written, nothing waits any more (`TablesOn` with empty sets, `NothingLeft`), and no header of the
    table was lost since it was read (`Unlost`: what the copy may overwrite is marked to be
    written again, `FreshMarked`), so that the list in memory is on the disk (`AllWritten`). (c) What
    is listed of it is what was asked: the games that the command is not about have their
    HDLoader headers and their data (`OthersListed`), the game it is about is in the table
    exactly once (`OneGame`), with the title of the request and, for an install, the image
    that `CopiesAreWhole` speaks of (`InstallListed`, `ModifyListed`, `HeaderListed`). `DoneInv` carries
    these facts through the phases. The hypotheses are where the code does not keep this promise:
    without `LastPart` an install into the last chunk of the disk is checked and then refused by the next read
    (apa.c:279), and a failed read in `WriteGarbage` is followed by "ok". `SmallEnough`, above, is what
    `ImageFits` asks of an image.

Only model-checked: `KeepsGames`, `InterruptibleCopy`, `RestoreRight` and what
copy_hdd does. They speak of what is listed in the middle of a command, on a mix of two tables, where
`TableInv` says only that what is read is a table; and `TableGood` of MCTocBackup, where a restored
table may be an older one, is TLC's alone.
All liveness (ENABLED and fairness are outside the prover) also stays with TLC.

## 6. Not modelled

* One `hio->write` is atomic, also the 4 MB of the main header.
* Extraction writes a file, not the disk: `Extracted` is what `hdl_extract_ex` would read. It
  ignores how much of it was stored (hdl.c:827), as dump does (section 3).
* The network loses and delays but does not reorder. The server never
  restarts; its buffers would be lost with it.
* Names: a game has one name, title and partition name apart; `hdl_pname`
  (truncation, collisions of sanitised names) is the identity on model values.
* How headers, cue sheets and iml files are parsed: ImageInput starts from the parts
  the probes add. What `isofs.c` finds in an image: it reads single sectors, and the
  command goes on or not. That a file can grow or shrink while it is read.
* `zero_device`, and the diagnostic listings; `delete_partition` is not compiled.
* Memory: lists that cannot be allocated, and pointers that are freed twice
  (hdl.c:1168).
* `hio_udpnet.c`, the older network client, is called by nothing, and its server is
  not in the repository. `hio_trace.c` and `hio_dbg.c` log and replay calls. The packet
  drivers under `svr/pktdrv` lose packets and do nothing else to the protocol. Windows
  drivers, the graphical front end and the start-up of the console program drive
  hardware and dialogs. Two thirds of the repository's lines are the byte arrays of
  `icon.h` and `kelf.h`.
* Sector arithmetic is unbounded; the code's is 32 bits, enough for 2 TB.
* More than 64 sub-partitions; loops in the links (the code gives up after
  10000 headers, the model after as many as the disk has chunks).
* Components with status `not_modelled` in `PROJECT.json`, with the reason.

## 7. Plan

Done: IinReader, ThdIin and its proofs; Apa, HddCommands, HddGames, GameList,
CopyHdd, TocBackup; AlignedReader and its proofs, ImageInput, ImageCopy,
CompareInputs and the proofs of what they deliver; Svr, UdpNet and ThdIin with all their
safety properties proved; the allocation of space and the copy of an install proved, that no
command ever works on a table `apa_check` would refuse, and that a command that succeeds has done what was asked.
What is left, in this order:

1. The main header's write in pieces over the network (hdl.c:970), and the server's
   buffers across clients (svr.c:212) as a property of what each client was told.
2. `optimize_partitions` as the loop it is, compared with `Joined` over every set of
   chunks; more than 64 sub-partitions (ps2_hdd.h:19).
3. Reordering networks and the wrap of `seq_no`, with the matching of answers stated
   as a property of its own; net_poweroff.
4. Proofs: what is listed of a mix of two tables, and with it `InterruptibleCopy` and the part of
   `KeepsGames` that no exception of section 3 touches.
