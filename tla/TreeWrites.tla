----------------------------- MODULE TreeWrites -----------------------------
(***************************************************************************)
(* Writes to the two trees of the program, departments and menus.  Both    *)
(* are adjacency lists with a RESTRICT foreign key, both serialise what    *)
(* could close a cycle behind one row of app_locks, and both check under   *)
(* that lock.  They differ in what takes the lock: a department is created *)
(* without it, a menu is moved to the root without it.                     *)
(*                                                                         *)
(* A request reads the row it changes before it queues for the lock and    *)
(* keeps that row in its identity map: the UPDATE writes only the columns  *)
(* whose new value differs from what was read then.                        *)
(*                                                                         *)
(* Abstracted: codes, names, data scope, and the types M and C, which both *)
(* are pages here.  Bound: one id of Nodes per row ever inserted.          *)
(***************************************************************************)
EXTENDS Integers

CONSTANTS
    Nodes,          \* ids of rows
    Requests,       \* request slots: how many transactions may overlap
    MaxDepth,       \* _MAX_DEPT_DEPTH, _MAX_MENU_DEPTH
    Root,           \* parent_id NULL
    None            \* absent

ASSUME DepthAssumption == MaxDepth \in Nat \ {0}
ASSUME NamesAssumption ==
    /\ Root \notin Nodes
    /\ None \notin Nodes \cup Requests \cup {Root, "page", "button"}

VARIABLES
    tree,       \* "dept" or "menu": which of the two tables this is
    rows,       \* the committed rows, by id
    used,       \* ids that were ever committed
    lock,       \* holder of the tree's row of app_locks
    phase,      \* how far each request is
    call        \* what each request was asked, and the row it read

vars == <<tree, rows, used, lock, phase, call>>

-----------------------------------------------------------------------------
(* Types.                                                                  *)

Stored == DOMAIN rows
Types == {"page", "button"}
Row == [parent: Nodes \cup {Root}, type: Types]
Phases == {"idle", "queued", "locked", "located", "ready", "written"}

\* to and type are None when the payload does not contain the field.
Call == [op: {"create", "update", "delete"}, node: Nodes \cup {None},
         to: Nodes \cup {Root, None}, type: Types \cup {None}, saw: Row \cup {None}]

TypeOK ==
    /\ tree \in {"dept", "menu"}
    /\ used \subseteq Nodes
    /\ Stored \subseteq used
    /\ rows \in [Stored -> Row]
    /\ lock \in Requests \cup {None}
    /\ phase \in [Requests -> Phases]
    /\ call \in [Requests -> Call \cup {None}]

-----------------------------------------------------------------------------
(* The rows.                                                               *)

Children(S) == {c \in Stored : rows[c].parent \in S}

\* The recursive query: the row itself, then one generation after the other,
\* cut off at MaxDepth.
Generations(n) ==
    LET g[k \in 1 .. MaxDepth] == IF k = 1 THEN Children({n}) ELSE Children(g[k - 1])
    IN  g
Below(n) == {n} \cup UNION {Generations(n)[k] : k \in 1 .. MaxDepth}

\* The columns an UPDATE sets: those that differ from the row read at first.
NewParent(p) == IF call[p].to = call[p].saw.parent THEN None ELSE call[p].to
NewType(p) == IF call[p].type = call[p].saw.type THEN None ELSE call[p].type
Changes(p) == NewParent(p) # None \/ NewType(p) # None

\* The parent that the written row refers to, None when it is not written.
Parent(p) ==
    IF call[p].op = "create" THEN call[p].to
    ELSE IF call[p].op = "update" THEN NewParent(p) ELSE None

-----------------------------------------------------------------------------
(* Locks.  A write locks its row; a foreign-key check locks the new parent *)
(* in shared mode.                                                         *)

Writes(q, n) ==
    /\ phase[q] = "written" /\ call[q].node = n
    /\ call[q].op = "update" => Changes(q)
Refers(q, n) == phase[q] = "written" /\ Parent(q) = n
NotWritten(p, n) == \A q \in Requests \ {p} : ~Writes(q, n)
RowFree(p, n) == \A q \in Requests \ {p} : ~Writes(q, n) /\ ~Refers(q, n)

Unlock(p) == lock' = IF lock = p THEN None ELSE lock

Leave(p) ==
    /\ phase' = [phase EXCEPT ![p] = "idle"]
    /\ call' = [call EXCEPT ![p] = None]
    /\ Unlock(p)

-----------------------------------------------------------------------------
Init ==
    /\ tree \in {"dept", "menu"}
    /\ rows = [n \in {} |-> None]
    /\ used = {}
    /\ lock = None
    /\ phase = [p \in Requests |-> "idle"]
    /\ call = [p \in Requests |-> None]

\* Faulty variant: a menu that becomes a button is checked without the lock.
TakesLock_MovesOnly(c) ==
    \/ c.op = "create" /\ tree = "menu" /\ c.to # Root
    \/ c.op = "update" /\ tree = "dept" /\ c.to # None
    \/ c.op = "update" /\ tree = "menu" /\ c.to \in Nodes
    \/ c.op = "delete"

\* What takes the tree lock.
TakesLock(c) ==
    \/ c.op = "create" /\ tree = "menu" /\ c.to # Root
    \/ c.op = "update" /\ tree = "dept" /\ c.to # None
    \/ c.op = "update" /\ tree = "menu" /\ (c.type = "button" \/ c.to \in Nodes)
    \/ c.op = "delete"

Enter(p, c) ==
    /\ phase[p] = "idle"
    /\ phase' = [phase EXCEPT ![p] = IF TakesLock(c) THEN "queued" ELSE "ready"]
    /\ call' = [call EXCEPT ![p] = c]
    /\ UNCHANGED <<tree, rows, used, lock>>

\* create: the parent of a department is looked up here, without a lock, that
\* of a menu under the lock.  A department has no type.
StartCreate(p, to, type) ==
    /\ tree = "dept" => type = "page" /\ to \in Stored \cup {Root}
    /\ Enter(p, [op |-> "create", node |-> None, to |-> to, type |-> type, saw |-> None])

\* update: the row is read.  An update of other columns is left out.
StartUpdate(p, n, to, type) ==
    /\ n \in Stored
    /\ tree = "dept" => type = None
    /\ to # None \/ type # None
    /\ Enter(p, [op |-> "update", node |-> n, to |-> to, type |-> type, saw |-> rows[n]])

StartDelete(p, n) ==
    /\ n \in Stored
    /\ Enter(p, [op |-> "delete", node |-> n, to |-> None, type |-> None, saw |-> rows[n]])

-----------------------------------------------------------------------------
(* Under the lock.                                                         *)

\* Faulty variant: the row is read without FOR UPDATE.
Acquire_Unlocked(p) ==
    /\ phase[p] = "queued"
    /\ phase' = [phase EXCEPT ![p] = "locked"]
    /\ UNCHANGED <<tree, rows, used, lock, call>>

Acquire(p) ==
    /\ phase[p] = "queued"
    /\ lock = None
    /\ lock' = p
    /\ phase' = [phase EXCEPT ![p] = "locked"]
    /\ UNCHANGED <<tree, rows, used, call>>

\* The parent exists and is not a button; a row that becomes a button or is
\* deleted has no children.
Located(p) ==
    LET c == call[p]
    IN  /\ c.to \in Nodes => /\ c.to \in Stored
                             /\ tree = "menu" => rows[c.to].type = "page"
        /\ c.op = "delete" \/ (c.op = "update" /\ c.type = "button") =>
              Children({c.node}) = {}

Locate(p) ==
    /\ phase[p] = "locked"
    /\ Located(p)
    /\ phase' = [phase EXCEPT ![p] = "located"]
    /\ UNCHANGED <<tree, rows, used, lock, call>>

\* _check_no_cycle: the new parent is neither the row nor a descendant of it.
CycleFree(p) ==
    call[p].op = "update" /\ call[p].to \in Nodes => call[p].to \notin Below(call[p].node)

CheckCycle(p) ==
    /\ phase[p] = "located"
    /\ CycleFree(p)
    /\ phase' = [phase EXCEPT ![p] = "ready"]
    /\ UNCHANGED <<tree, rows, used, lock, call>>

-----------------------------------------------------------------------------
(* The statement, commit and rollback.                                     *)

\* Faulty variant: no foreign key.
ForeignKeys_None(p) == call[p].op = "update" => call[p].node \in Stored

\* The foreign keys, and for an update the row itself: an UPDATE that matches
\* no row is an error, a DELETE that matches none is not.
ForeignKeys(p) ==
    /\ Parent(p) \in Nodes => Parent(p) \in Stored
    /\ call[p].op = "update" => call[p].node \in Stored
    /\ call[p].op = "delete" => Children({call[p].node}) = {}

InsertRow(p, n) ==
    /\ call[p].op = "create"
    /\ n \notin used /\ NotWritten(p, n)
    /\ call' = [call EXCEPT ![p].node = n]
ChangeRow(p) ==
    /\ call[p].op \in {"update", "delete"}
    /\ call[p].op = "delete" \/ Changes(p) => RowFree(p, call[p].node)
    /\ UNCHANGED call

\* INSERT, UPDATE or DELETE is flushed.
Write(p) ==
    /\ phase[p] = "ready"
    /\ ForeignKeys(p)
    /\ Parent(p) \in Nodes => NotWritten(p, Parent(p))
    /\ ChangeRow(p) \/ \E n \in Nodes : InsertRow(p, n)
    /\ phase' = [phase EXCEPT ![p] = "written"]
    /\ UNCHANGED <<tree, rows, used, lock>>

\* The row after the statement.
Inserted(p) == [parent |-> call[p].to, type |-> call[p].type]
\* Faulty variant: fields that the payload does not contain are written too.
Updated_WithUnset(p, old) == [parent |-> call[p].to, type |-> call[p].type]

Updated(p, old) ==
    [parent |-> IF NewParent(p) = None THEN old.parent ELSE NewParent(p),
     type |-> IF NewType(p) = None THEN old.type ELSE NewType(p)]

StoredAfter(p) ==
    IF call[p].op = "create" THEN Stored \cup {call[p].node}
    ELSE IF call[p].op = "delete" THEN Stored \ {call[p].node} ELSE Stored
Rewritten(p) ==
    [m \in StoredAfter(p) |-> IF m # call[p].node THEN rows[m]
                              ELSE IF call[p].op = "create" THEN Inserted(p)
                              ELSE Updated(p, rows[m])]

Commit(p) ==
    /\ phase[p] = "written"
    /\ rows' = Rewritten(p)
    /\ used' = used \cup {call[p].node}
    /\ Leave(p)
    /\ UNCHANGED tree

\* 404, 409, a violated foreign key or StaleDataError: rollback.
Refused(p) ==
    /\ \/ phase[p] = "locked" /\ ~Located(p)
       \/ phase[p] = "located" /\ ~CycleFree(p)
       \/ phase[p] = "ready" /\ ~ForeignKeys(p)
    /\ Leave(p)
    /\ UNCHANGED <<tree, rows, used>>

\* The client goes away, the process dies, or COMMIT fails.
Abort(p) ==
    /\ phase[p] # "idle"
    /\ Leave(p)
    /\ UNCHANGED <<tree, rows, used>>

Start(p) ==
    \/ \E to \in Nodes \cup {Root}, type \in Types : StartCreate(p, to, type)
    \/ \E n \in Nodes, to \in Nodes \cup {Root, None}, type \in Types \cup {None} :
          StartUpdate(p, n, to, type)
    \/ \E n \in Nodes : StartDelete(p, n)

Next ==
    \E p \in Requests :
        \/ Start(p)
        \/ Acquire(p)
        \/ Locate(p)
        \/ CheckCycle(p)
        \/ Write(p)
        \/ Commit(p)
        \/ Refused(p)
        \/ Abort(p)

Spec == Init /\ [][Next]_vars

-----------------------------------------------------------------------------
(* Properties.                                                             *)

\* No set of rows has all its parents in itself: moves that are legal one by
\* one never close a cycle together, so every subtree hangs from a root.
Acyclic ==
    \A S \in (SUBSET Stored) \ {{}} : \E n \in S : rows[n].parent \notin S

\* A button has no children, whoever creates a menu below it, moves one there
\* or turns a menu into a button at the same time.
ButtonsAreLeaves ==
    \A n \in Stored : rows[n].parent \in Stored => rows[rows[n].parent].type = "page"

\* Behind the locks and stale reads, every commit adds a leaf, moves one row
\* outside its subtree or removes a leaf, as Forest says; ids do not come back.
Forests == INSTANCE Forest WITH
               parent <- [n \in Stored |-> rows[n].parent]
ImplementsForest == Forests!Spec
=============================================================================
