------------------------------- MODULE MenuSeed -------------------------------
(* The command `rbac seed' brings the built-in menus to the state of a       *)
(* manifest, beside administrators who edit the same menus through the API.  *)
(* Seeds are serialised by the lock "rbac:seed", edits by "menu:tree"        *)
(* (AppLocks); a seed does not take the lock of the edits.                   *)
(*                                                                           *)
(* A seed reads the built-in menus once and keeps them in its identity map;  *)
(* each UPDATE sets the columns whose new value differs from what was read.  *)
(* READ COMMITTED; a written row is locked until the end, a row that a new   *)
(* parent_id names in shared mode. What a transaction has written is held    *)
(* back until it commits.                                                    *)
(*                                                                           *)
(* Abstracted: the menus' names, paths, icons, order and visibility (the     *)
(* columns here stand for all), the types M and C, which both are pages, and *)
(* the one built-in role, which the same lock protects. Edits are those of   *)
(* super admins. Bounds: MenuIds, MaxEdits, MaxWipes.                        *)
EXTENDS AppLocks, FiniteSets, Sequences

CONSTANTS
    Seeds,          \* runs of the command, each a process of its own
    Edits,          \* requests of one API process
    MenuIds,        \* ids of rows
    Keys,           \* seed_key of built-in menus
    Manifests,      \* versions of MENU_TREE: sequences of nodes, parents first
    Starts,         \* tables to start from
    Root,           \* parent_id NULL
    MaxEdits, MaxWipes

ASSUME TasksAssumption ==
    /\ Tasks = Seeds \cup Edits /\ Seeds \cap Edits = {}
    /\ {"rbac:seed", "menu:tree"} \subseteq Names

VARIABLES
    menus,      \* the committed rows, by id
    used,       \* ids given out
    pend,       \* what each transaction has written and not committed
    job,        \* a seed's manifest and the nodes left of it, an edit's request
    at,         \* where each task is
    saw,        \* the rows a task has read into its identity map
    changed,    \* rows changed by others since a seed has read them
    edits, wipes

menuVars == <<menus, used, pend, job, at, saw, changed, edits, wipes>>
vars == <<menus, used, pend, job, at, saw, changed, edits, wipes, locks>>

Columns == {"parent", "type", "status"}
Node == [key: Keys, parent: Keys \cup {None}, type: {"page", "button"}]
Menu == [key: Keys \cup {None}, parent: MenuIds \cup {Root}, type: {"page", "button"},
         status: {"active", "disabled"}]

(* The schema: the parent of a menu is a menu (RESTRICT), no two menus have  *)
(* one seed_key.                                                             *)
ParentsExist(rows) == \A i \in DOMAIN rows : rows[i].parent \in DOMAIN rows \cup {Root}
KeysDiffer(rows) ==
    \A i, j \in DOMAIN rows : i # j => rows[i].key # rows[j].key \/ rows[i].key = None

ASSUME MenusAssumption ==
    IsFiniteSet(MenuIds) /\ Root \notin MenuIds \cup {None} /\ None \notin MenuIds \cup Keys

ASSUME StartsAssumption ==
    \A rows \in Starts :
        /\ DOMAIN rows \subseteq MenuIds /\ \A i \in DOMAIN rows : rows[i] \in Menu
        /\ ParentsExist(rows) /\ KeysDiffer(rows)

(* A manifest names a menu once, after its parent.                           *)
ASSUME ManifestsAssumption ==
    \A m \in Manifests :
        /\ m \in Seq(Node)
        /\ \A x, y \in DOMAIN m : x # y => m[x].key # m[y].key
        /\ \A x \in DOMAIN m : m[x].parent # None => \E y \in DOMAIN m : y < x /\ m[y].key = m[x].parent

NoRows == [i \in {} |-> None]
NoWrites == [new |-> NoRows, set |-> NoRows, gone |-> {}]

TypeOK ==
    /\ LocksTypeOK
    /\ DOMAIN menus \subseteq used /\ used \subseteq MenuIds
    /\ \A i \in DOMAIN menus : menus[i] \in Menu
    /\ \A t \in Tasks : DOMAIN saw[t] \subseteq MenuIds /\ \A i \in DOMAIN saw[t] : saw[t][i] \in Menu
    /\ \A t \in Tasks : changed[t] \subseteq MenuIds

------------------------------------------------------------------------------
(* Rows as a transaction sees them: committed, with its own writes on top.   *)
SetIn(w, i) == {c \in Columns : <<i, c>> \in DOMAIN w.set}
Over(w, i, row) == [f \in DOMAIN row |-> IF f \in SetIn(w, i) THEN w.set[<<i, f>>] ELSE row[f]]

Applied(w, rows) ==
    [i \in (DOMAIN rows \cup DOMAIN w.new) \ w.gone |->
        Over(w, i, IF i \in DOMAIN w.new THEN w.new[i] ELSE rows[i])]

Mine(t) == Applied(pend[t], menus)

(* Locks on rows of menus.                                                   *)
Writes(w) == DOMAIN w.new \cup w.gone \cup {x[1] : x \in DOMAIN w.set}
Names_(w) == {w.new[i].parent : i \in DOMAIN w.new} \cup {w.set[x] : x \in {y \in DOMAIN w.set : y[2] = "parent"}}
Parents(w) == Names_(w) \cap MenuIds

Free(t, w) ==
    \A u \in Tasks \ {t} :
        /\ Writes(w) \cap (Writes(pend[u]) \cup Parents(pend[u])) = {}
        /\ Parents(w) \cap Writes(pend[u]) = {}
        /\ \A i \in DOMAIN w.new, j \in DOMAIN pend[u].new :
              w.new[i].key # None => w.new[i].key # pend[u].new[j].key
        /\ \A j \in DOMAIN menus : menus[j].parent \in w.gone => j \notin Writes(pend[u])

------------------------------------------------------------------------------
Init ==
    /\ LocksInit
    /\ menus \in Starts
    /\ used = DOMAIN menus
    /\ pend = [t \in Tasks |-> NoWrites]
    /\ job = [t \in Tasks |-> None]
    /\ at = [t \in Tasks |-> "idle"]
    /\ saw = [t \in Tasks |-> NoRows]
    /\ changed = [t \in Tasks |-> {}]
    /\ edits = 0 /\ wipes = 0

Goto(t, where) == at' = [at EXCEPT ![t] = where]
Quiet == UNCHANGED locks /\ UNCHANGED <<menus, changed, edits, wipes>>

(* The transaction ends; nothing of it is left when it is rolled back.       *)
Leave(t, commits) ==
    /\ Release(t, commits)
    /\ pend' = [pend EXCEPT ![t] = NoWrites]
    /\ saw' = [saw EXCEPT ![t] = NoRows]
    /\ job' = [job EXCEPT ![t] = None]
    /\ Goto(t, IF t \in Seeds THEN "done" ELSE "idle")
    /\ UNCHANGED wipes

Rollback(t) ==
    /\ Leave(t, FALSE)
    /\ changed' = [changed EXCEPT ![t] = {}]
    /\ UNCHANGED <<menus, used, edits>>

Commit(t) ==
    /\ at[t] = "commit"
    /\ menus' = Mine(t)
    /\ Leave(t, TRUE)
    /\ changed' = [u \in Tasks |-> IF u = t \/ ~(u \in Seeds /\ saw[u] # NoRows) THEN {}
                                   ELSE changed[u] \cup Writes(pend[t])]
    /\ UNCHANGED <<used, edits>>

------------------------------------------------------------------------------
(* The seed.                                                                 *)
Begin(s, manifest) ==
    /\ at[s] = "idle"
    /\ Want(s, "rbac:seed", FALSE)
    /\ job' = [job EXCEPT ![s] = [manifest |-> manifest, left |-> manifest]]
    /\ Goto(s, "lock")
    /\ UNCHANGED <<menus, used, pend, saw, changed, edits, wipes>>

(* existing: the built-in menus, as they are committed now.                  *)
BuiltIn(rows) == {i \in DOMAIN rows : rows[i].key # None}

Load(s) ==
    /\ at[s] = "lock" /\ step[s] = "holds" /\ s \in Seeds
    /\ saw' = [saw EXCEPT ![s] = [i \in BuiltIn(menus) |-> menus[i]]]
    /\ Goto(s, "seed")
    /\ UNCHANGED <<used, pend, job>> /\ Quiet

(* The row of a key: read, or inserted by this transaction.                  *)
RowsOf(s, k) ==
    {i \in DOMAIN saw[s] : saw[s][i].key = k} \cup {i \in DOMAIN pend[s].new : pend[s].new[i].key = k}
IdOf(s, k) == IF k = None THEN Root ELSE CHOOSE i \in RowsOf(s, k) : TRUE

Wanted(s, n) == [parent |-> IdOf(s, n.parent), type |-> n.type, status |-> "active"]

(* Faulty variant: a page that was turned into a button stays one.           *)
Differing_NotType(s, n, i) == {c \in Columns \ {"type"} : Wanted(s, n)[c] # saw[s][i][c]}

Differing(s, n, i) == {c \in Columns : Wanted(s, n)[c] # saw[s][i][c]}

Assign(s, n, i) ==
    [NoWrites EXCEPT !.set = [x \in {i} \X Differing(s, n, i) |-> Wanted(s, n)[x[2]]]]
Insertion(s, n, i) ==
    [NoWrites EXCEPT !.new = [j \in {i} |-> [key |-> n.key, parent |-> IdOf(s, n.parent),
                                            type |-> n.type, status |-> "active"]]]
Add(t, w) ==
    pend' = [pend EXCEPT ![t] =
                [new |-> [i \in DOMAIN @.new \cup DOMAIN w.new |-> IF i \in DOMAIN w.new THEN w.new[i] ELSE @.new[i]],
                 set |-> [x \in DOMAIN @.set \cup DOMAIN w.set |-> IF x \in DOMAIN w.set THEN w.set[x] ELSE @.set[x]],
                 gone |-> @.gone \cup w.gone]]

(* What a flush meets: the parent is gone, the row is gone, the key is taken,*)
(* the row still has children.                                               *)
Fails(t, w) ==
    \/ Parents(w) \ DOMAIN Mine(t) # {}
    \/ {x[1] : x \in DOMAIN w.set} \ DOMAIN Mine(t) # {}
    \/ \E i \in DOMAIN w.new, j \in DOMAIN Mine(t) : w.new[i].key # None /\ w.new[i].key = Mine(t)[j].key
    \/ \E i \in w.gone, j \in DOMAIN Mine(t) \ w.gone : Mine(t)[j].parent = i

Flush(t, w, where, rest) ==
    /\ Free(t, w)
    /\ IF Fails(t, w) THEN Rollback(t)
       ELSE /\ Add(t, w) /\ used' = used \cup DOMAIN w.new
            /\ Goto(t, where) /\ job' = [job EXCEPT ![t] = rest]
            /\ UNCHANGED saw /\ Quiet

(* upsert(node): in place when its key was read, a new row otherwise.        *)
Upsert(s) ==
    /\ at[s] = "seed" /\ job[s].left # <<>>
    /\ LET n == Head(job[s].left)
           rest == [manifest |-> job[s].manifest, left |-> Tail(job[s].left)]
       IN  \/ RowsOf(s, n.key) # {} /\ Flush(s, Assign(s, n, IdOf(s, n.key)), "seed", rest)
           \/ /\ RowsOf(s, n.key) = {}
              /\ \E i \in MenuIds \ used : Flush(s, Insertion(s, n, i), "seed", rest)

(* Built-in menus that the manifest no longer has, leaves first, each layer  *)
(* with a flush; the tree is the one that was read.                          *)
KeysOf(manifest) == {manifest[n].key : n \in DOMAIN manifest}
Stale(s) == {i \in DOMAIN saw[s] : saw[s][i].key \notin KeysOf(job[s].manifest)} \ pend[s].gone
Leaves(s) == {i \in Stale(s) : \A j \in Stale(s) : saw[s][j].parent # i}

Prune(s) ==
    /\ at[s] = "seed" /\ job[s].left = <<>>
    /\ IF Leaves(s) = {}
       THEN Goto(s, "commit") /\ UNCHANGED <<used, pend, saw, job>> /\ Quiet
       ELSE Flush(s, [NoWrites EXCEPT !.gone = Leaves(s)], "seed", job[s])

------------------------------------------------------------------------------
(* The edits. The lock of the tree is taken by what could close a cycle,     *)
(* give a button a child or delete a parent.                                 *)
Ask(op, id, parent, type, status) == [op |-> op, id |-> id, parent |-> parent, type |-> type, status |-> status]

Requests ==
    {Ask("create", None, p, "page", None) : p \in DOMAIN menus \cup {Root}}
    \cup {Ask("update", i, p, None, None) : i \in DOMAIN menus, p \in DOMAIN menus \cup {Root}}
    \cup {Ask("update", i, None, y, None) : i \in DOMAIN menus, y \in {"page", "button"}}
    \cup {Ask("update", i, None, None, "disabled") : i \in DOMAIN menus}
    \cup {Ask("delete", i, None, None, None) : i \in DOMAIN menus}

NeedsLock(q) == q.op = "delete" \/ q.parent \in MenuIds \/ (q.op = "update" /\ q.type = "button")

(* The guard has loaded the authority in the session of the request, so that *)
(* its connection is checked out when the service asks for the lock.         *)
Receive(e, q) ==
    /\ at[e] = "idle" /\ edits < MaxEdits /\ edits' = edits + 1
    /\ job' = [job EXCEPT ![e] = q]
    /\ saw' = [saw EXCEPT ![e] = [i \in {q.id} \cap MenuIds |-> menus[i]]]
    /\ IF NeedsLock(q) THEN Want(e, "menu:tree", TRUE) /\ Goto(e, "lock")
       ELSE Goto(e, "write") /\ UNCHANGED locks
    /\ UNCHANGED <<menus, used, pend, changed, wipes>>

(* The menus of A and those of S that hang below them; a menu and everything *)
(* below it.                                                                 *)
Down(A, S) ==
    LET f[n \in 0 .. Cardinality(MenuIds)] ==
            IF n = 0 THEN A ELSE LET found == f[n - 1] IN found \cup {j \in S : menus[j].parent \in found}
    IN  f[Cardinality(MenuIds)]

Below(i) == Down({i}, DOMAIN menus)

Refused(q) ==
    \/ q.parent \in MenuIds /\ q.parent \notin DOMAIN menus
    \/ q.parent \in DOMAIN menus /\ menus[q.parent].type = "button"
    \/ q.op = "update" /\ q.parent \in MenuIds /\ q.parent \in Below(q.id)
    \/ (q.op = "delete" \/ q.type = "button") /\ \E j \in DOMAIN menus : menus[j].parent = q.id

Check(e) ==
    /\ at[e] = "lock" /\ step[e] = "holds" /\ e \in Edits
    /\ IF Refused(job[e]) THEN Rollback(e)
       ELSE Goto(e, "write") /\ UNCHANGED <<used, pend, saw, job>> /\ Quiet

(* An update sets the columns that differ from the row in the identity map;  *)
(* deleting a row that is gone deletes nothing.                              *)
Update(e) ==
    LET q == job[e]
        row == saw[e][q.id]
        differs == {c \in Columns : q[c] # None /\ q[c] # row[c]}
    IN  [NoWrites EXCEPT !.set = [x \in {q.id} \X differs |-> q[x[2]]]]

Write(e) ==
    /\ at[e] = "write"
    /\ \/ /\ job[e].op = "create"
          /\ \E i \in MenuIds \ used :
                Flush(e, [NoWrites EXCEPT !.new = [j \in {i} |->
                            [key |-> None, parent |-> job[e].parent, type |-> job[e].type, status |-> "active"]]],
                      "commit", job[e])
       \/ job[e].op = "update" /\ Flush(e, Update(e), "commit", job[e])
       \/ job[e].op = "delete" /\ Flush(e, [NoWrites EXCEPT !.gone = {job[e].id} \cap DOMAIN menus], "commit", job[e])

------------------------------------------------------------------------------
(* The lock could not be had, two transactions wait for each other, the      *)
(* connection breaks or the process ends: rollback.                          *)
Abort(t) == at[t] \notin {"idle", "done"} /\ Rollback(t)

AcquireLock(t) == Acquire(t) /\ UNCHANGED menuVars

WipeLock(n) ==
    /\ wipes < MaxWipes /\ wipes' = wipes + 1
    /\ Wipe(n)
    /\ UNCHANGED <<menus, used, pend, job, at, saw, changed, edits>>

Next ==
    \/ \E t \in Tasks : AcquireLock(t) \/ Commit(t) \/ Abort(t)
    \/ \E s \in Seeds : Load(s) \/ Upsert(s) \/ Prune(s) \/ \E m \in Manifests : Begin(s, m)
    \/ \E e \in Edits : Check(e) \/ Write(e) \/ \E q \in Requests : Receive(e, q)
    \/ \E n \in Names : WipeLock(n)

Spec == Init /\ [][Next]_vars

------------------------------------------------------------------------------
(* What is shown of the menus: assemble_menu_forest on the active menus that *)
(* were granted, a menu without its parent becomes a root; build_routers     *)
(* leaves out the buttons, and what hangs below them.                        *)
Granted == SUBSET {i \in DOMAIN menus : menus[i].status = "active"}

(* Faulty variant: only a menu at the root is a root.                        *)
Tops_RootOnly(S) == {i \in S : menus[i].parent = Root}

Tops(S) == {i \in S : menus[i].parent \notin S}
Pages(S) == {i \in S : menus[i].type = "page"}

Routers(S) == Down(Pages(Tops(S)), Pages(S))

------------------------------------------------------------------------------
(* Two seeds never meet: whoever applies a manifest is alone, although the   *)
(* row of the lock may be missing, deleted under the processes or rolled     *)
(* back with the transaction that made it (locks.py:73, :83), so that no     *)
(* seed inserts a key that has come into the table since it read it.         *)
SeedsAreSerial ==
    /\ OneHolder
    /\ \A s \in Seeds : at[s] = "seed" =>
          /\ \A r \in Seeds \ {s} : at[r] \notin {"seed", "commit"}
          /\ \A i \in BuiltIn(menus) : i \in DOMAIN saw[s]

(* A committed seed has applied its manifest: each of its menus is what the  *)
(* manifest says, under its old id, those it no longer has are gone, and no  *)
(* menu of a user has changed, except for what administrators committed      *)
(* meanwhile (seed.py:426: the rows are read long before they are written)   *)
(* and for rows it no longer has that were read below each other in a cycle, *)
(* where the loop over the leaves ends early (seed.py:464).                  *)
HasKey(rows, i, k) == IF k = None THEN rows[i].parent = Root ELSE rows[rows[i].parent].key = k

SeedApplies ==
    [][\A s \in Seeds : Commit(s) =>
          /\ \A x \in DOMAIN job[s].manifest :
                LET n == job[s].manifest[x]
                IN  /\ RowsOf(s, n.key) # {}
                    /\ \A i \in RowsOf(s, n.key) \ changed[s] :
                          menus'[i].type = n.type /\ menus'[i].status = "active" /\ HasKey(menus', i, n.parent)
          /\ \A i \in BuiltIn(menus') :
                \/ menus'[i].key \in KeysOf(job[s].manifest)
                \/ i \in Stale(s) /\ \A j \in Stale(s) : \E k \in Stale(s) : saw[s][k].parent = j
          /\ \A i \in BuiltIn(menus), j \in BuiltIn(menus') : menus[i].key = menus'[j].key => i = j
          /\ \A i \in DOMAIN menus \ BuiltIn(menus) : i \in DOMAIN menus' /\ menus'[i] = menus[i]]_vars

(* Every page granted to a user is in the routers, whichever of its parents  *)
(* were not granted or are disabled; only a button above it and a cycle hide *)
(* it (menu/provider.py:39). And every variable keeps its type.              *)
Above(i, S) == {j \in S : i \in Down({k \in S : menus[k].parent = j}, S)}

GrantedPagesAreShown ==
    /\ TypeOK
    /\ \A S \in Granted : \A i \in Pages(S) :
          i \in Routers(S) <=> \A j \in Above(i, S) \cup {i} : menus[j].type = "page" /\ j \notin Above(j, S)

(* The lock of the edits keeps cycles out of the tree, says the comment in   *)
(* menu/provider.py:36; a seed that restores the parent of a menu does not   *)
(* take it.                                                                  *)
NoCycles == \A i \in DOMAIN menus : i \notin Above(i, DOMAIN menus)
===============================================================================
