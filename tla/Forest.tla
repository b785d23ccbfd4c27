------------------------------- MODULE Forest -------------------------------
(***************************************************************************)
(* What the departments and the menus promise: a forest that changes one   *)
(* row at a time.  A new row is a leaf, a row moves to the root or below a *)
(* row outside its own subtree, and only a leaf is removed.                *)
(***************************************************************************)
CONSTANTS Nodes, Root
VARIABLES
    parent,     \* row -> its parent or Root
    used        \* rows that ever existed

vars == <<parent, used>>
Rows == DOMAIN parent
Leaf(n) == \A m \in Rows : parent[m] # n

\* The rows below n: the least set that holds n and the children of its rows.
ClosedDown(S) == \A m \in Rows : parent[m] \in S => m \in S
Outside(p, n) == p = Root \/ \E S \in SUBSET Rows : n \in S /\ p \in Rows \ S /\ ClosedDown(S)

Init == parent = [n \in {} |-> Root] /\ used = {}

Add(n, p) ==
    /\ n \notin used
    /\ p \in Rows \cup {Root}
    /\ used' = used \cup {n}
    /\ parent' = [m \in Rows \cup {n} |-> IF m = n THEN p ELSE parent[m]]

Move(n, p) ==
    /\ n \in Rows
    /\ Outside(p, n)
    /\ parent' = [parent EXCEPT ![n] = p]
    /\ UNCHANGED used

Remove(n) ==
    /\ n \in Rows /\ Leaf(n)
    /\ parent' = [m \in Rows \ {n} |-> parent[m]]
    /\ UNCHANGED used

Next ==
    \/ \E n \in Nodes, p \in Nodes \cup {Root} : Add(n, p) \/ Move(n, p)
    \/ \E n \in Nodes : Remove(n)

Spec == Init /\ [][Next]_vars
=============================================================================
