---------------------------- MODULE MessageChannel ----------------------------
(***************************************************************************)
(* One direction of a socket as the rest of the library sees it: whole     *)
(* messages in the order they were written, then an error or the end of    *)
(* the stream.  A message the writer did not finish is not there.          *)
(***************************************************************************)
EXTENDS Naturals

VARIABLES
    written, \* messages begun and not cut short by the end; numbers them
    taken,   \* messages received
    open,    \* the writer may go on
    reset,   \* the end of the stream is preceded by an error
    last     \* what the last receive got

vars == <<written, taken, open, reset, last>>

Got(what, n) == [got |-> what, number |-> n]

Init ==
    /\ written = 0 /\ taken = 0
    /\ open = TRUE /\ reset = FALSE
    /\ last = Got("nothing", 0)

Write ==
    /\ open
    /\ written' = written + 1
    /\ UNCHANGED <<taken, open, reset, last>>

\* What has not been read may be cut off.
Close ==
    /\ open
    /\ open' = FALSE
    /\ written' \in taken..written
    /\ reset' \in BOOLEAN
    /\ UNCHANGED <<taken, last>>

Receive ==
    /\ taken < written
    /\ taken' = taken + 1
    /\ last' = Got("message", taken')
    /\ UNCHANGED <<written, open, reset>>

\* A refused write, before anything is read.
Refuse ==
    /\ ~open
    /\ last' = Got("error", 0)
    /\ UNCHANGED <<written, taken, open, reset>>

ReceiveError ==
    /\ ~open /\ reset /\ taken = written
    /\ reset' = FALSE
    /\ last' = Got("error", 0)
    /\ UNCHANGED <<written, taken, open>>

ReceiveEof ==
    /\ ~open /\ ~reset /\ taken = written
    /\ last' = Got("eof", 0)
    /\ UNCHANGED <<written, taken, open, reset>>

\* An error right after part of a message does not show.
Absorb ==
    /\ ~open /\ reset /\ taken = written
    /\ reset' = FALSE
    /\ UNCHANGED <<written, taken, open, last>>

Next == Write \/ Close \/ Receive \/ Refuse \/ ReceiveError \/ ReceiveEof
        \/ Absorb

Spec == Init /\ [][Next]_vars
=============================================================================
