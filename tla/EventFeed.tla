------------------------------ MODULE EventFeed ------------------------------
(***************************************************************************)
(* What the events of a connection amount to for the application: a feed   *)
(* that i3 writes and that is consumed in order.  Each event is signalled  *)
(* at most once and none is made up, but the feed may lose an event, and   *)
(* for an event it has lost it may signal something that is none.  The end *)
(* of the feed is announced once, when nothing is left in it.              *)
(***************************************************************************)
EXTENDS Naturals, FiniteSets

VARIABLES
    published, \* events i3 has sent; numbers them
    coming,    \* events nobody has taken yet
    delivered, \* events signalled to the application
    lost,      \* events that are gone without a signal
    strays,    \* signals that stand for no event
    open,      \* i3 may send more
    ended      \* the end has been announced

vars == <<published, coming, delivered, lost, strays, open, ended>>

Init ==
    /\ published = 0
    /\ coming = {} /\ delivered = {} /\ lost = {}
    /\ strays = 0
    /\ open = TRUE /\ ended = FALSE

Oldest(n) == n \in coming /\ \A m \in coming : n <= m

Publish ==
    /\ open
    /\ published' = published + 1
    /\ coming' = coming \cup {published'}
    /\ UNCHANGED <<delivered, lost, strays, open, ended>>

Deliver ==
    /\ ~ended
    /\ \E n \in coming :
          /\ Oldest(n)
          /\ coming' = coming \ {n}
          /\ delivered' = delivered \cup {n}
    /\ UNCHANGED <<published, lost, strays, open, ended>>

Lose ==
    /\ \E n \in coming :
          /\ Oldest(n)
          /\ coming' = coming \ {n}
          /\ lost' = lost \cup {n}
    /\ UNCHANGED <<published, delivered, strays, open, ended>>

\* A stray signal takes the place of an event lost before.
Stray ==
    /\ ~ended
    /\ strays < Cardinality(lost)
    /\ strays' = strays + 1
    /\ UNCHANGED <<published, coming, delivered, lost, open, ended>>

Close ==
    /\ open
    /\ open' = FALSE
    /\ UNCHANGED <<published, coming, delivered, lost, strays, ended>>

End ==
    /\ ~open /\ ~ended
    /\ coming = {}
    /\ ended' = TRUE
    /\ UNCHANGED <<published, coming, delivered, lost, strays, open>>

Next == Publish \/ Deliver \/ Lose \/ Stray \/ Close \/ End

Spec == Init /\ [][Next]_vars
=============================================================================
