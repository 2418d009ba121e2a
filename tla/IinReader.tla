------------------------------ MODULE IinReader ------------------------------
(***************************************************************************)
(* What an input (iin_t, iin.h) promises the code that installs a game     *)
(* from it: calls are served one at a time, a successful read delivers     *)
(* exactly the sectors asked for (fewer only at the end of the source),    *)
(* and what was delivered stays as it is until the next call.  A reader    *)
(* that never forgets its source is what hdl_inject is written against.    *)
(***************************************************************************)
EXTENDS Integers

CONSTANTS TotalSectors,  \* sectors of the source, as its stat() reports
          NumSectors     \* IIN_NUM_SECTORS, the largest read

VARIABLES phase,  \* what the client of the reader is doing
          req,    \* the read in progress, or the last one
          view    \* what the client sees of the last read

vars == <<phase, req, view>>

Requests == [start : 0 .. TotalSectors - 1, num : 1 .. NumSectors]
Nothing  == [result |-> "none", start |-> 0, len |-> 0]
Failure  == [result |-> "err", start |-> 0, len |-> 0]

\* the sectors a read of r delivers: the source ends at TotalSectors
Delivered(r) ==
  IF r.start + r.num <= TotalSectors THEN r.num ELSE TotalSectors - r.start

Success(r) == [result |-> "ok", start |-> r.start, len |-> Delivered(r)]

Init == /\ phase = "idle"
        /\ req = [start |-> 0, num |-> 0]
        /\ view = Nothing

Call == /\ phase = "idle"
        /\ req' \in Requests
        /\ phase' = "reading"
        /\ view' = Nothing

Return == /\ phase = "reading"
          /\ phase' = "idle"
          /\ view' \in {Success(req), Failure}
          /\ UNCHANGED req

CallClose == /\ phase = "idle"
             /\ phase' = "closing"
             /\ view' = Nothing
             /\ UNCHANGED req

Close == /\ phase = "closing"
         /\ phase' = "closed"
         /\ UNCHANGED <<req, view>>

Next == Call \/ Return \/ CallClose \/ Close

Spec == Init /\ [][Next]_vars /\ WF_vars(Return) /\ WF_vars(Close)
=============================================================================
