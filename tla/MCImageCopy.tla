---------------------------- MODULE MCImageCopy -----------------------------
(* ImageCopy on images of a few sectors: a sector is 4 bytes, or 6 with its *)
(* frame, a block read at once 2 sectors, and volumes have 2 or 4 bytes per *)
(* sector of theirs, so that headers and parts end inside one.              *)
EXTENDS CompareInputs

\* images on volumes whose sectors are small enough for the block to fit the
\* cache wherever it starts, whose last part ends with its file or, being of
\* raw sectors, before it
MCInputs ==
  {Iso(n * 4, unit) : n \in {1, 4, 5}, unit \in {2, 4, 8}}
  \cup {Cue(6, 1, n * 6, unit) : n \in {1, 5}, unit \in {2, 4}}
  \cup {Nero(6, 1, 6, 3, 6 + n * 6 + 3, unit) : n \in {4, 5}, unit \in {2, 4}}
  \cup {GiFile(1, n, 1 + 4 * n, 2) : n \in {3, 4}}
  \cup {GiFiles(4, 0, <<a, b>>, unit) : a \in {1, 2, 3}, b \in {2, 3}, unit \in {4, 8}}
  \cup {GiFiles(5, 1, <<3, 2>>, 4)}
  \cup {Iml(<<[first |-> 3, last |-> 3 + a, offset |-> 0, file |-> 1, flen |-> 4 * a + 3],
              [first |-> 5 + a, last |-> 6 + a, offset |-> 4, file |-> 2, flen |-> 10]>>, unit)
        : a \in {0, 1, 2}, unit \in {2, 4}}
  \cup {Iml(<<[first |-> 0, last |-> 1, offset |-> 0, file |-> 1, flen |-> 16],
              [first |-> 4, last |-> 5, offset |-> 8, file |-> 1, flen |-> 16]>>, 2)}
  \cup {Drive(n, 4) : n \in {3, 4, 5}}
  \cup {GameOnDisk(<<2, 2>>), GameOnDisk(<<4, 1>>)}

\* images of the same contents that are cut at different places, and others
MCOthers == {Iso(20, 4), Nero(6, 1, 6, 3, 33, 2), GiFiles(4, 0, <<3, 2>>, 4),
             GiFiles(4, 0, <<1, 3>>, 4), GameOnDisk(<<1, 4>>), Drive(5, 4),
             Iml(<<[first |-> 0, last |-> 1, offset |-> 0, file |-> 1, flen |-> 8],
                   [first |-> 3, last |-> 4, offset |-> 0, file |-> 2, flen |-> 8]>>, 2)}

\* a Nero image of raw sectors on a volume whose sectors are larger than its
\* header, as 4096 bytes are
MCFillInputs == {Nero(6, 1, 6, 3, 6 + 6 * n + 3, 8) : n \in {3, 4, 5}}

\* plain images whose file goes on behind the last sector of the image: an ISO
\* image with bytes left over, a Nero image with its footer
MCTailInputs ==
  {Iso(4 * n + 3, unit) : n \in {2, 3, 5}, unit \in {2, 4}}
  \cup {Nero(4, 0, 4, 1, 4 + 4 * n + 1, 4) : n \in {3, 4}}

\* What the proofs ask of an input is so of those of MCImage, and not of these.
ASSUME MCAssumption ==
  /\ \A in \in MCInputs \cup MCOthers : WellFormed(in) /\ RoomAnywhere(in)
  /\ \A in \in MCFillInputs \cup MCTailInputs : ~WellFormed(in)

MCNoFaults == [image |-> {}, drive |-> {}, game |-> {}]

\* errors of image files are left to MCImageFill
MCFaults == [image |-> {"open"}, drive |-> {"seek", "read"}, game |-> {"read"}]
=============================================================================
