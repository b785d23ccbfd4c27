-------------------------- MODULE SessionFamilies --------------------------
(***************************************************************************)
(* What the refresh-token store promises to the rest of the program: a     *)
(* login opens a family (a session), the family is carried by one token at *)
(* a time, a rotation moves it to a younger token, and once it is closed   *)
(* it is never usable again.  Clocks, locks and rows do not appear here.   *)
(***************************************************************************)
EXTENDS Integers

CONSTANTS Families      \* names of families, positive integers; tokens are named alike

VARIABLES
    opened,     \* families opened so far
    live        \* family -> its usable token, 0 when it has none

vars == <<opened, live>>
Closed(f) == live[f] = 0

Init == opened = {} /\ live = [f \in Families |-> 0]

\* Closing may accompany the opening of another family: the session cap and
\* the password change do both in one transaction.
StaysOrCloses(f) == live'[f] \in {live[f], 0}

Open(f) ==
    /\ f \notin opened
    /\ opened' = opened \cup {f}
    /\ live'[f] = f
    /\ \A g \in Families \ {f} : StaysOrCloses(g)

\* Only the usable token can be exchanged, for a younger one.
Rotate(f) ==
    /\ ~Closed(f)
    /\ live'[f] > live[f]
    /\ \A g \in Families \ {f} : live'[g] = live[g]
    /\ UNCHANGED opened

Close ==
    /\ \A f \in Families : StaysOrCloses(f)
    /\ UNCHANGED opened

Next ==
    /\ live' \in [Families -> Families \cup {0}]
    /\ Close \/ (\E f \in Families : Open(f) \/ Rotate(f))

Spec == Init /\ [][Next]_vars
=============================================================================
