---------------------------- MODULE MenuSeedProofs ----------------------------
(* Seeds are serial, for any number of seeds, edits, menus, manifests and    *)
(* names. First, what a task does with its lock follows the protocol of      *)
(* AppLocks, so that its theorem applies. Then no built-in menu can come     *)
(* into the table behind the back of a seed: only seeds insert them, and the *)
(* lock keeps the other seeds away.                                          *)
(*                                                                           *)
(* Then, what is shown of a tree of menus, whatever its shape. And last, the *)
(* work of a seed, node by node, and that it has applied its manifest when   *)
(* it commits.                                                               *)
EXTENDS MenuSeed, FiniteSetTheorems, WellFoundedInduction, TLAPS
------------------------------------------------------------------------------
(* The lock protocol is exclusive for any number of tasks, processes and     *)
(* names. The invariant says who has a row locked: a task that has found the *)
(* row, and nobody else may delete it or end its insertion.                  *)

(* A task at a SELECT has another one left; a row that is locked is there.   *)
RowsHeld ==
    \A n \in Names, t \in Tasks :
        /\ held[n] = t => step[t] = "holds" /\ name[t] = n /\ (n \in stored \/ inserting[n] = t)
        /\ inserting[n] = t => step[t] # "out" /\ name[t] = n

HoldersHold ==
    \A t \in Tasks :
        /\ step[t] # "out" => name[t] \in Names
        /\ step[t] = "holds" => held[name[t]] = t
        /\ step[t] \in {"ensure", "select"} => tries[t] \in 0 .. 1

LocksInv == LocksTypeOK /\ RowsHeld /\ HoldersHold

------------------------------------------------------------------------------
LEMMA InitHolds == LocksInit => LocksInv
  BY LocksAssumption DEF LocksInit, LocksInv, LocksTypeOK, RowsHeld, HoldersHold, Steps

LEMMA WantKeeps ==
    ASSUME LocksInv, NEW t \in Tasks, NEW n \in Names, NEW connected, step[t] = "out", Want(t, n, connected)
    PROVE  LocksInv'
  <1>1. LocksTypeOK'
    BY DEF LocksInv, LocksTypeOK, Want, Steps
  <1>2. RowsHeld'
    BY LocksAssumption DEF LocksInv, LocksTypeOK, RowsHeld, Want
  <1>3. HoldersHold'
    BY DEF LocksInv, LocksTypeOK, HoldersHold, Want
  <1> QED BY <1>1, <1>2, <1>3 DEF LocksInv

LEMMA LearnKeepsType ==
    ASSUME LocksTypeOK, NEW t \in Tasks, name[t] \in Names, Learn(t)
    PROVE  known' \in [Processes -> SUBSET Names]
  BY DEF LocksTypeOK, Learn, Processes

LEMMA EnsureKeeps ==
    ASSUME LocksInv, NEW t \in Tasks, Ensure(t)
    PROVE  LocksInv'
  <1>1. name[t] \in Names
    BY DEF LocksInv, HoldersHold, Ensure
  <1>2. LocksTypeOK'
    BY <1>1, LearnKeepsType DEF LocksInv, LocksTypeOK, Ensure, Steps
  <1>3. RowsHeld'
    BY <1>1 DEF LocksInv, LocksTypeOK, RowsHeld, Ensure
  <1>4. HoldersHold'
    BY <1>1 DEF LocksInv, LocksTypeOK, HoldersHold, Ensure
  <1> QED BY <1>2, <1>3, <1>4 DEF LocksInv

LEMMA InsertKeeps ==
    ASSUME LocksInv, NEW t \in Tasks, Insert(t)
    PROVE  LocksInv'
  <1>1. name[t] \in Names /\ step[t] = "insert"
    BY DEF LocksInv, HoldersHold, Insert
  <1>2. inserting' \in [Names -> Tasks \cup {None}] /\ sharing' \in [Names -> SUBSET Tasks]
    BY <1>1 DEF LocksInv, LocksTypeOK, Insert, InsertIgnore
  <1>3. known' \in [Processes -> SUBSET Names]
    BY <1>1, LearnKeepsType DEF LocksInv, LocksTypeOK, Insert
  <1>4. LocksTypeOK'
    BY <1>2, <1>3 DEF LocksInv, LocksTypeOK, Insert, Steps
  <1>5. RowsHeld'
    <2>1. \A n \in Names : inserting'[n] = inserting[n]
                           \/ (n = name[t] /\ inserting'[n] = t /\ inserting[n] \in {None, t})
      BY <1>1 DEF LocksInv, LocksTypeOK, Insert, InsertIgnore
    <2>2. \A u \in Tasks : u # t => step'[u] = step[u]
      BY DEF LocksInv, LocksTypeOK, Insert
    <2>3. step'[t] \in {"failed", "select"}
      BY DEF LocksInv, LocksTypeOK, Insert
    <2>4. held' = held /\ name' = name /\ stored' = stored
      BY DEF Insert
    <2> QED BY <1>1, <2>1, <2>2, <2>3, <2>4, LocksAssumption DEF LocksInv, RowsHeld
  <1>6. HoldersHold'
    BY <1>1 DEF LocksInv, LocksTypeOK, HoldersHold, Insert
  <1> QED BY <1>4, <1>5, <1>6 DEF LocksInv

LEMMA SelectKeeps ==
    ASSUME LocksInv, NEW t \in Tasks, Select(t)
    PROVE  LocksInv'
  <1>1. name[t] \in Names /\ step[t] = "select" /\ tries[t] \in 0 .. 1
    BY DEF LocksInv, HoldersHold, Select
  <1>2. CASE name[t] \in stored \/ inserting[name[t]] = t
    <2>1. Locked(t)
      BY <1>2 DEF Select
    <2>2. LocksTypeOK'
      BY <1>1, <2>1, LearnKeepsType DEF LocksInv, LocksTypeOK, Select, Locked, Steps
    <2>3. RowsHeld'
      BY <1>1, <1>2, <2>1, LocksAssumption DEF LocksInv, LocksTypeOK, RowsHeld, Select, Locked
    <2>4. HoldersHold'
      BY <1>1, <2>1, LocksAssumption DEF LocksInv, LocksTypeOK, RowsHeld, HoldersHold, Select, Locked
    <2> QED BY <2>2, <2>3, <2>4 DEF LocksInv
  <1>3. CASE ~(name[t] \in stored \/ inserting[name[t]] = t)
    <2>1. Missed(t)
      BY <1>3 DEF Select
    <2>2. known' \in [Processes -> SUBSET Names]
      BY <2>1 DEF LocksInv, LocksTypeOK, Missed, Processes
    <2>3. LocksTypeOK'
      BY <1>1, <2>1, <2>2 DEF LocksInv, LocksTypeOK, Select, Missed, Steps
    <2>4. RowsHeld'
      BY <1>1, <2>1 DEF LocksInv, LocksTypeOK, RowsHeld, Select, Missed
    <2>5. HoldersHold'
      BY <1>1, <2>1 DEF LocksInv, LocksTypeOK, HoldersHold, Select, Missed
    <2> QED BY <2>3, <2>4, <2>5 DEF LocksInv
  <1> QED BY <1>2, <1>3

LEMMA ReleaseKeeps ==
    ASSUME LocksInv, NEW t \in Tasks, NEW commits, Release(t, commits)
    PROVE  LocksInv'
  <1>1. LocksTypeOK'
    BY DEF LocksInv, LocksTypeOK, Release, Steps
  <1>2. RowsHeld'
    BY LocksAssumption DEF LocksInv, LocksTypeOK, RowsHeld, Release
  <1>3. HoldersHold'
    <2> SUFFICES ASSUME NEW u \in Tasks
                 PROVE  /\ step'[u] # "out" => name'[u] \in Names
                        /\ step'[u] = "holds" => held'[name'[u]] = u
                        /\ step'[u] \in {"ensure", "select"} => tries'[u] \in 0 .. 1
      BY DEF HoldersHold
    <2>1. CASE u = t
      BY <2>1 DEF LocksInv, LocksTypeOK, Release
    <2>2. CASE u # t
      BY <2>2 DEF LocksInv, LocksTypeOK, HoldersHold, Release
    <2> QED BY <2>1, <2>2
  <1> QED BY <1>1, <1>2, <1>3 DEF LocksInv

LEMMA WipeKeeps ==
    ASSUME LocksInv, NEW n \in Names, Wipe(n)
    PROVE  LocksInv'
  <1>1. LocksTypeOK'
    BY DEF LocksInv, LocksTypeOK, Wipe
  <1>2. RowsHeld'
    BY LocksAssumption DEF LocksInv, RowsHeld, Wipe
  <1>3. HoldersHold'
    BY DEF LocksInv, HoldersHold, Wipe
  <1> QED BY <1>1, <1>2, <1>3 DEF LocksInv

LEMMA StepKeeps == LocksInv /\ [LocksNext]_locks => LocksInv'
  <1> SUFFICES ASSUME LocksInv, [LocksNext]_locks
               PROVE  LocksInv'
    OBVIOUS
  <1>1. CASE UNCHANGED locks
    BY <1>1 DEF locks, LocksInv, LocksTypeOK, RowsHeld, HoldersHold, Processes
  <1>2. ASSUME NEW t \in Tasks, NEW n \in Names, NEW connected \in BOOLEAN, step[t] = "out", Want(t, n, connected)
        PROVE  LocksInv'
    BY <1>2, WantKeeps
  <1>3. ASSUME NEW t \in Tasks, Acquire(t)
        PROVE  LocksInv'
    BY <1>3, EnsureKeeps, InsertKeeps, SelectKeeps DEF Acquire
  <1>4. ASSUME NEW t \in Tasks, NEW commits \in BOOLEAN, Release(t, commits)
        PROVE  LocksInv'
    BY <1>4, ReleaseKeeps
  <1>5. ASSUME NEW n \in Names, Wipe(n)
        PROVE  LocksInv'
    BY <1>5, WipeKeeps
  <1> QED BY <1>1, <1>2, <1>3, <1>4, <1>5 DEF LocksNext

(* The invariant of the lock protocol (db/locks.py:66-95).                   *)
THEOREM LocksInvariance == LocksSpec => []LocksInv
  BY InitHolds, StepKeeps, PTL DEF LocksSpec

LEMMA InvGivesOneHolder == LocksInv => OneHolder
  BY DEF LocksInv, LocksTypeOK, RowsHeld, HoldersHold, OneHolder

(* A lock never has two holders, and its holder has found the row: for any   *)
(* tasks and processes, although rows are deleted under them and the         *)
(* transactions that make them are rolled back (db/locks.py:83).             *)
THEOREM LockIsExclusive == LocksSpec => []OneHolder
  BY LocksInvariance, InvGivesOneHolder, PTL

------------------------------------------------------------------------------
(* What the steps of seeds and edits keep.                                   *)

(* Where a task is and how far it is with its lock.                          *)
Functional == DOMAIN at = Tasks /\ DOMAIN saw = Tasks /\ DOMAIN pend = Tasks

PlaceOf(t) ==
    /\ at[t] \in {"idle", "done"} => step[t] = "out"
    /\ at[t] \in {"write", "commit"} => step[t] \in {"out", "holds"}
    /\ at[t] = "lock" => step[t] # "out"
    /\ at[t] = "seed" => t \in Seeds
    /\ at[t] = "write" => t \in Edits
    /\ at[t] \in {"idle", "lock", "seed", "write", "commit", "done"}
    /\ t \in Seeds /\ at[t] \in {"seed", "commit"} => step[t] = "holds"
    /\ t \in Seeds /\ at[t] \in {"lock", "seed", "commit"} => name[t] = "rbac:seed"

Places == Functional /\ \A t \in Tasks : PlaceOf(t)

(* Rows have a key, and those that an edit inserts have none of the seed's.  *)
Keyed ==
    /\ \A i \in DOMAIN menus : "key" \in DOMAIN menus[i]
    /\ \A t \in Tasks : \A i \in DOMAIN pend[t].new :
          "key" \in DOMAIN pend[t].new[i] /\ (t \in Edits => pend[t].new[i].key = None)

Known == \A s \in Seeds : at[s] = "seed" => BuiltIn(menus) \subseteq DOMAIN saw[s]

MenuInv == LocksInv /\ Places /\ Keyed /\ Known

------------------------------------------------------------------------------
(* The actions of the lock protocol that the steps of a task take.           *)
LEMMA StartPlaces == Init => Places /\ Keyed /\ Known
  BY StartsAssumption, TasksAssumption
     DEF Init, LocksInit, Places, Functional, PlaceOf, Keyed, Known, NoWrites, NoRows, Menu

LEMMA OthersStay ==
    ASSUME LocksTypeOK, NEW t \in Tasks, NEW commits, Release(t, commits) \/ Acquire(t)
    PROVE  \A u \in Tasks \ {t} : step'[u] = step[u] /\ name'[u] = name[u]
  BY DEF LocksTypeOK, Release, Acquire, Ensure, Insert, Select, Missed, Locked

LEMMA LeaveKeepsPlaces ==
    ASSUME LocksInv, Places, NEW t \in Tasks, NEW commits, Leave(t, commits)
    PROVE  Places'
  <1>1. Release(t, commits)
    BY DEF Leave
  <1>2. Functional'
    BY DEF Places, Functional, Leave, Goto
  <1>3. step'[t] = "out"
    BY <1>1 DEF LocksInv, LocksTypeOK, Release
  <1>4. at'[t] \in {"idle", "done"}
    BY DEF Places, Functional, Leave, Goto
  <1>5. ASSUME NEW u \in Tasks \ {t}
        PROVE  PlaceOf(u)'
    <2>1. step'[u] = step[u] /\ name'[u] = name[u]
      BY <1>1, OthersStay DEF LocksInv
    <2>2. at'[u] = at[u]
      BY DEF Places, Functional, Leave, Goto
    <2> QED BY <2>1, <2>2 DEF Places, PlaceOf
  <1> QED BY <1>2, <1>3, <1>4, <1>5 DEF Places, PlaceOf

LEMMA FlushPlaces ==
    ASSUME LocksInv, Places, NEW t \in Tasks, NEW w, NEW where, NEW rest, Flush(t, w, where, rest),
           \/ t \in Seeds /\ step[t] = "holds" /\ name[t] = "rbac:seed" /\ where \in {"seed", "commit"}
           \/ t \in Edits /\ step[t] \in {"out", "holds"} /\ where = "commit"
    PROVE  Places'
  <1>1. CASE Rollback(t)
    BY <1>1, LeaveKeepsPlaces DEF Rollback
  <1>2. CASE Add(t, w) /\ Goto(t, where) /\ UNCHANGED saw /\ Quiet
    <2>1. Functional'
      BY <1>2 DEF Places, Functional, Add, Goto
    <2>2. step' = step /\ name' = name
      BY <1>2 DEF Quiet, locks
    <2>3. at'[t] = where /\ \A u \in Tasks \ {t} : at'[u] = at[u]
      BY <1>2 DEF Places, Functional, Goto
    <2> QED BY <2>1, <2>2, <2>3, TasksAssumption DEF Places, PlaceOf
  <1> QED BY <1>1, <1>2 DEF Flush

LEMMA NextPlaces ==
    ASSUME LocksInv, Places, [Next]_vars
    PROVE  Places'
  <1>1. CASE UNCHANGED vars
    BY <1>1 DEF vars, locks, Places, Functional, PlaceOf
  <1>2. ASSUME NEW t \in Tasks, AcquireLock(t)
        PROVE  Places'
    <2>1. step[t] \in {"ensure", "insert", "select"}
      BY <1>2 DEF AcquireLock, Acquire, Ensure, Insert, Select
    <2>2. at[t] = "lock"
      BY <2>1, TasksAssumption DEF Places, PlaceOf
    <2>3. step'[t] # "out" /\ name' = name
      BY <1>2, <2>1 DEF AcquireLock, Acquire, Ensure, Insert, Select, Missed, Locked, LocksInv, LocksTypeOK
    <2>4. \A u \in Tasks \ {t} : step'[u] = step[u]
      BY <1>2, OthersStay DEF AcquireLock, LocksInv
    <2>5. at' = at /\ saw' = saw /\ pend' = pend
      BY <1>2 DEF AcquireLock, menuVars
    <2> QED BY <2>2, <2>3, <2>4, <2>5 DEF Places, Functional, PlaceOf
  <1>3. ASSUME NEW t \in Tasks, Commit(t) \/ Abort(t)
        PROVE  Places'
    BY <1>3, LeaveKeepsPlaces DEF Commit, Abort, Rollback
  <1>4. ASSUME NEW s \in Seeds, NEW m \in Manifests, Begin(s, m)
        PROVE  Places'
    <2>1. s \in Tasks /\ s \notin Edits
      BY TasksAssumption
    <2>2. step'[s] # "out" /\ name'[s] = "rbac:seed" /\ at'[s] = "lock"
      BY <1>4, <2>1 DEF Begin, Want, Goto, Places, Functional, LocksInv, LocksTypeOK
    <2>3. \A u \in Tasks \ {s} : step'[u] = step[u] /\ name'[u] = name[u] /\ at'[u] = at[u]
      BY <1>4, <2>1 DEF Begin, Want, Goto, Places, Functional, LocksInv, LocksTypeOK
    <2>4. Functional'
      BY <1>4 DEF Begin, Goto, Places, Functional
    <2> QED BY <2>1, <2>2, <2>3, <2>4 DEF Places, PlaceOf
  <1>5. ASSUME NEW s \in Seeds, Load(s)
        PROVE  Places'
    <2>1. s \in Tasks /\ s \notin Edits
      BY TasksAssumption
    <2>2. step' = step /\ name' = name
      BY <1>5 DEF Load, Quiet, locks
    <2>3. at'[s] = "seed" /\ \A u \in Tasks \ {s} : at'[u] = at[u]
      BY <1>5, <2>1 DEF Load, Goto, Places, Functional
    <2>4. Functional'
      BY <1>5 DEF Load, Goto, Places, Functional
    <2>5. step[s] = "holds" /\ name[s] = "rbac:seed"
      BY <1>5, <2>1 DEF Load, Places, PlaceOf
    <2> QED BY <2>1, <2>2, <2>3, <2>4, <2>5 DEF Places, PlaceOf
  <1>6. ASSUME NEW s \in Seeds, Upsert(s)
        PROVE  Places'
    <2>1. s \in Tasks /\ step[s] = "holds" /\ name[s] = "rbac:seed"
      BY <1>6, TasksAssumption DEF Upsert, Places, PlaceOf
    <2>2. \E w, rest : Flush(s, w, "seed", rest)
      BY <1>6 DEF Upsert
    <2> QED BY <2>1, <2>2, FlushPlaces
  <1>7. ASSUME NEW s \in Seeds, Prune(s)
        PROVE  Places'
    <2>1. s \in Tasks /\ s \notin Edits /\ step[s] = "holds" /\ name[s] = "rbac:seed"
      BY <1>7, TasksAssumption DEF Prune, Places, PlaceOf
    <2>2. CASE \E w : Flush(s, w, "seed", job[s])
      BY <2>1, <2>2, FlushPlaces
    <2>3. CASE Goto(s, "commit") /\ UNCHANGED <<pend, saw>> /\ Quiet
      <3>1. step' = step /\ name' = name
        BY <2>3 DEF Quiet, locks
      <3>2. Functional'
        BY <2>3 DEF Goto, Places, Functional
      <3>3. at'[s] = "commit" /\ \A u \in Tasks \ {s} : at'[u] = at[u]
        BY <2>1, <2>3 DEF Goto, Places, Functional
      <3> QED BY <2>1, <3>1, <3>2, <3>3 DEF Places, PlaceOf
    <2> QED BY <1>7, <2>2, <2>3 DEF Prune
  <1>8. ASSUME NEW e \in Edits, NEW q \in Requests, Receive(e, q)
        PROVE  Places'
    <2>1. e \in Tasks /\ e \notin Seeds
      BY TasksAssumption
    <2>2. Functional'
      BY <1>8 DEF Receive, Goto, Places, Functional
    <2>3. CASE Want(e, "menu:tree", TRUE) /\ Goto(e, "lock")
      <3>1. step'[e] # "out" /\ at'[e] = "lock"
        BY <2>1, <2>3 DEF Want, Goto, Places, Functional, LocksInv, LocksTypeOK
      <3>2. \A u \in Tasks \ {e} : step'[u] = step[u] /\ name'[u] = name[u] /\ at'[u] = at[u]
        BY <2>1, <2>3 DEF Want, Goto, Places, Functional, LocksInv, LocksTypeOK
      <3> QED BY <2>1, <2>2, <3>1, <3>2 DEF Places, PlaceOf
    <2>4. CASE Goto(e, "write") /\ UNCHANGED locks
      <3>1. step[e] = "out" /\ step' = step /\ name' = name
        BY <1>8, <2>1, <2>4 DEF Receive, Places, PlaceOf, locks
      <3>2. at'[e] = "write" /\ \A u \in Tasks \ {e} : at'[u] = at[u]
        BY <2>1, <2>4 DEF Goto, Places, Functional
      <3> QED BY <2>1, <2>2, <3>1, <3>2 DEF Places, PlaceOf
    <2> QED BY <1>8, <2>3, <2>4 DEF Receive
  <1>9. ASSUME NEW e \in Edits, Check(e)
        PROVE  Places'
    <2>1. e \in Tasks /\ e \notin Seeds
      BY TasksAssumption
    <2>2. CASE Rollback(e)
      BY <2>1, <2>2, LeaveKeepsPlaces DEF Rollback
    <2>3. CASE Goto(e, "write") /\ UNCHANGED <<pend, saw>> /\ Quiet
      <3>1. step[e] = "holds" /\ step' = step /\ name' = name
        BY <1>9, <2>3 DEF Check, Quiet, locks
      <3>2. Functional'
        BY <2>3 DEF Goto, Places, Functional
      <3>3. at'[e] = "write" /\ \A u \in Tasks \ {e} : at'[u] = at[u]
        BY <2>1, <2>3 DEF Goto, Places, Functional
      <3> QED BY <1>9, <2>1, <3>1, <3>2, <3>3 DEF Places, PlaceOf
    <2> QED BY <1>9, <2>2, <2>3 DEF Check
  <1>10. ASSUME NEW e \in Edits, Write(e)
         PROVE  Places'
    <2>1. e \in Tasks /\ step[e] \in {"out", "holds"}
      BY <1>10, TasksAssumption DEF Write, Places, PlaceOf
    <2>2. \E w, rest : Flush(e, w, "commit", rest)
      BY <1>10 DEF Write
    <2> QED BY <1>10, <2>1, <2>2, FlushPlaces
  <1>11. ASSUME NEW n \in Names, WipeLock(n)
         PROVE  Places'
    BY <1>11 DEF WipeLock, Wipe, Places, Functional, PlaceOf
  <1> QED BY <1>1, <1>2, <1>3, <1>4, <1>5, <1>6, <1>7, <1>8, <1>9, <1>10, <1>11 DEF Next

------------------------------------------------------------------------------
(* Every step of a task is one of the lock protocol, or leaves it alone.     *)
LEMMA LeaveReleases ==
    ASSUME LocksInv, Places, NEW t \in Tasks, Rollback(t) \/ Commit(t)
    PROVE  LocksNext
  <1>1. CASE Rollback(t)
    BY <1>1 DEF Rollback, Leave, LocksNext
  <1>2. CASE Commit(t)
    <2>1. step[t] \in {"out", "holds"}
      BY <1>2 DEF Commit, Places, PlaceOf
    <2> QED BY <1>2, <2>1 DEF Commit, Leave, LocksNext
  <1> QED BY <1>1, <1>2

LEMMA FlushFollows ==
    ASSUME LocksInv, Places, NEW t \in Tasks, NEW w, NEW where, NEW rest, Flush(t, w, where, rest)
    PROVE  [LocksNext]_locks
  BY LeaveReleases DEF Flush, Quiet

LEMMA NextFollows ==
    ASSUME LocksInv, Places, [Next]_vars
    PROVE  [LocksNext]_locks
  <1>1. CASE UNCHANGED vars
    BY <1>1 DEF vars
  <1>2. ASSUME NEW t \in Tasks, AcquireLock(t)
        PROVE  [LocksNext]_locks
    BY <1>2 DEF AcquireLock, LocksNext
  <1>3. ASSUME NEW t \in Tasks, Commit(t) \/ Abort(t)
        PROVE  [LocksNext]_locks
    BY <1>3, LeaveReleases DEF Abort
  <1>4. ASSUME NEW s \in Seeds, NEW m \in Manifests, Begin(s, m)
        PROVE  [LocksNext]_locks
    <2>1. s \in Tasks /\ step[s] = "out" /\ "rbac:seed" \in Names /\ Want(s, "rbac:seed", FALSE)
      BY <1>4, TasksAssumption DEF Begin, Places, PlaceOf
    <2> QED BY <2>1 DEF LocksNext
  <1>5. ASSUME NEW e \in Edits, NEW q \in Requests, Receive(e, q)
        PROVE  [LocksNext]_locks
    <2>1. e \in Tasks /\ step[e] = "out" /\ "menu:tree" \in Names
      BY <1>5, TasksAssumption DEF Receive, Places, PlaceOf
    <2>2. CASE Want(e, "menu:tree", TRUE)
      BY <2>1, <2>2 DEF LocksNext
    <2> QED BY <1>5, <2>2 DEF Receive
  <1>6. ASSUME NEW s \in Seeds, Load(s) \/ Upsert(s) \/ Prune(s)
        PROVE  [LocksNext]_locks
    <2>1. s \in Tasks
      BY TasksAssumption
    <2> QED BY <1>6, <2>1, FlushFollows DEF Load, Upsert, Prune, Quiet
  <1>7. ASSUME NEW e \in Edits, Check(e) \/ Write(e)
        PROVE  [LocksNext]_locks
    <2>1. e \in Tasks
      BY TasksAssumption
    <2> QED BY <1>7, <2>1, FlushFollows, LeaveReleases DEF Check, Write, Quiet
  <1>8. ASSUME NEW n \in Names, WipeLock(n)
        PROVE  [LocksNext]_locks
    BY <1>8 DEF WipeLock, LocksNext
  <1> QED BY <1>1, <1>2, <1>3, <1>4, <1>5, <1>6, <1>7, <1>8 DEF Next

(* Seeds and edits use the lock as the protocol says: each transaction asks  *)
(* for one lock, only while it holds none, and commits with the lock or      *)
(* without ever having asked (seed.py:406, menu/service.py:70-125).          *)
THEOREM SeedsFollowProtocol == Spec => LocksSpec
  <1> DEFINE Both == LocksInv /\ Places
  <1>1. Init => Both /\ LocksInit
    BY InitHolds, StartPlaces DEF Init
  <1>2. Both /\ [Next]_vars => Both' /\ [LocksNext]_locks
    BY NextPlaces, NextFollows, StepKeeps
  <1> QED BY <1>1, <1>2, PTL DEF Spec, LocksSpec

------------------------------------------------------------------------------
(* What becomes of the rows.                                                 *)
LEMMA CommitKeepsKeys ==
    ASSUME Keyed, NEW t \in Tasks, Commit(t)
    PROVE  /\ \A i \in DOMAIN menus' : "key" \in DOMAIN menus'[i]
           /\ t \in Edits => BuiltIn(menus)' \subseteq BuiltIn(menus)
  <1>1. "key" \notin Columns
    BY DEF Columns
  <1>2. ASSUME NEW w, NEW i, NEW row, "key" \in DOMAIN row
        PROVE  "key" \in DOMAIN Over(w, i, row) /\ Over(w, i, row).key = row.key
    BY <1>1, <1>2 DEF Over, SetIn
  <1>3. ASSUME NEW i \in DOMAIN menus'
        PROVE  \/ /\ i \in DOMAIN pend[t].new /\ "key" \in DOMAIN menus'[i]
                  /\ menus'[i].key = pend[t].new[i].key
               \/ /\ i \in DOMAIN menus /\ "key" \in DOMAIN menus'[i]
                  /\ menus'[i].key = menus[i].key
    <2>1. menus' = Applied(pend[t], menus)
      BY DEF Commit, Mine
    <2>2. i \in DOMAIN menus \cup DOMAIN pend[t].new
      BY <2>1 DEF Applied
    <2>3. CASE i \in DOMAIN pend[t].new
      <3>1. menus'[i] = Over(pend[t], i, pend[t].new[i])
        BY <2>1, <2>3 DEF Applied
      <3>2. "key" \in DOMAIN pend[t].new[i]
        BY <2>3 DEF Keyed
      <3> QED BY <1>2, <2>3, <3>1, <3>2
    <2>4. CASE i \notin DOMAIN pend[t].new
      <3>1. menus'[i] = Over(pend[t], i, menus[i])
        BY <2>1, <2>4 DEF Applied
      <3>2. i \in DOMAIN menus /\ "key" \in DOMAIN menus[i]
        BY <2>2, <2>4 DEF Keyed
      <3> QED BY <1>2, <3>1, <3>2
    <2> QED BY <2>3, <2>4
  <1>4. \A i \in DOMAIN menus' : "key" \in DOMAIN menus'[i]
    BY <1>3
  <1>5. ASSUME t \in Edits
        PROVE  BuiltIn(menus)' \subseteq BuiltIn(menus)
    BY <1>3, <1>5 DEF BuiltIn, Keyed
  <1> QED BY <1>4, <1>5
LEMMA LeaveKeepsKeyed ==
    ASSUME Functional, Keyed, NEW t \in Tasks, Rollback(t) \/ Commit(t)
    PROVE  Keyed'
  <1>1. \A u \in Tasks : pend'[u] = IF u = t THEN NoWrites ELSE pend[u]
    BY DEF Rollback, Commit, Leave, Functional
  <1>2. DOMAIN NoWrites.new = {}
    BY DEF NoWrites, NoRows
  <1>3. \A i \in DOMAIN menus' : "key" \in DOMAIN menus'[i]
    BY CommitKeepsKeys DEF Rollback, Keyed
  <1> QED BY <1>1, <1>2, <1>3 DEF Keyed

LEMMA FlushKeepsKeyed ==
    ASSUME Functional, Keyed, NEW t \in Tasks, NEW w, NEW where, NEW rest, Flush(t, w, where, rest),
           \A i \in DOMAIN w.new : "key" \in DOMAIN w.new[i] /\ (t \in Edits => w.new[i].key = None)
    PROVE  Keyed'
  <1>1. CASE Rollback(t)
    BY <1>1, LeaveKeepsKeyed
  <1>2. CASE Add(t, w) /\ Quiet
    <2>1. menus' = menus /\ \A u \in Tasks \ {t} : pend'[u] = pend[u]
      BY <1>2 DEF Add, Quiet, Functional
    <2>2. pend'[t].new = [i \in DOMAIN pend[t].new \cup DOMAIN w.new |->
                             IF i \in DOMAIN w.new THEN w.new[i] ELSE pend[t].new[i]]
      BY <1>2 DEF Add, Functional
    <2>3. \A i \in DOMAIN pend'[t].new :
             "key" \in DOMAIN pend'[t].new[i] /\ (t \in Edits => pend'[t].new[i].key = None)
      BY <2>2 DEF Keyed
    <2> QED BY <2>1, <2>3 DEF Keyed
  <1> QED BY <1>1, <1>2 DEF Flush

LEMMA NextKeepsKeyed ==
    ASSUME Functional, Keyed, [Next]_vars
    PROVE  Keyed'
  <1>1. CASE UNCHANGED <<menus, pend>>
    BY <1>1 DEF Keyed
  <1>2. ASSUME NEW t \in Tasks, Commit(t) \/ Abort(t)
        PROVE  Keyed'
    BY <1>2, LeaveKeepsKeyed DEF Abort
  <1>3. ASSUME NEW s \in Seeds, Upsert(s)
        PROVE  Keyed'
    <2>1. s \in Tasks /\ s \notin Edits
      BY TasksAssumption
    <2>2. ASSUME NEW w, NEW rest, Flush(s, w, "seed", rest), \A i \in DOMAIN w.new : "key" \in DOMAIN w.new[i]
          PROVE  Keyed'
      BY <2>1, <2>2, FlushKeepsKeyed
    <2>3. ASSUME NEW n, NEW i
          PROVE  /\ \A j \in DOMAIN Assign(s, n, i).new : "key" \in DOMAIN Assign(s, n, i).new[j]
                 /\ \A j \in DOMAIN Insertion(s, n, i).new : "key" \in DOMAIN Insertion(s, n, i).new[j]
      BY DEF Assign, Insertion, NoWrites, NoRows
    <2> QED BY <1>3, <2>2, <2>3 DEF Upsert
  <1>4. ASSUME NEW s \in Seeds, Prune(s)
        PROVE  Keyed'
    <2>1. s \in Tasks /\ s \notin Edits
      BY TasksAssumption
    <2>2. DOMAIN [NoWrites EXCEPT !.gone = Leaves(s)].new = {}
      BY DEF NoWrites, NoRows
    <2>3. CASE Flush(s, [NoWrites EXCEPT !.gone = Leaves(s)], "seed", job[s])
      BY <2>1, <2>2, <2>3, FlushKeepsKeyed
    <2> QED BY <1>1, <1>4, <2>3 DEF Prune, Quiet
  <1>5. ASSUME NEW e \in Edits, Check(e)
        PROVE  Keyed'
    BY <1>1, <1>5, LeaveKeepsKeyed, TasksAssumption DEF Check, Quiet
  <1>6. ASSUME NEW e \in Edits, Write(e)
        PROVE  Keyed'
    <2>1. e \in Tasks
      BY TasksAssumption
    <2>2. ASSUME NEW w, Flush(e, w, "commit", job[e]),
                 \A i \in DOMAIN w.new : "key" \in DOMAIN w.new[i] /\ w.new[i].key = None
          PROVE  Keyed'
      BY <2>1, <2>2, FlushKeepsKeyed
    <2>3. DOMAIN Update(e).new = {}
      BY DEF Update, NoWrites, NoRows
    <2>4. CASE job[e].op = "update" /\ Flush(e, Update(e), "commit", job[e])
      BY <2>2, <2>3, <2>4
    <2>5. CASE Flush(e, [NoWrites EXCEPT !.gone = {job[e].id} \cap DOMAIN menus], "commit", job[e])
      BY <2>2, <2>5 DEF NoWrites, NoRows
    <2> DEFINE row == [key |-> None, parent |-> job[e].parent, type |-> job[e].type, status |-> "active"]
               Created(i) == [NoWrites EXCEPT !.new = [j \in {i} |-> row]]
    <2>6. ASSUME NEW i \in MenuIds, Flush(e, Created(i), "commit", job[e])
          PROVE  Keyed'
      <3>1. Created(i).new = [j \in {i} |-> row]
        BY DEF NoWrites
      <3>2. "key" \in DOMAIN row /\ row.key = None
        OBVIOUS
      <3>3. \A j \in DOMAIN Created(i).new : "key" \in DOMAIN Created(i).new[j] /\ Created(i).new[j].key = None
        BY <3>1, <3>2
      <3> HIDE DEF Created
      <3> QED BY <2>2, <2>6, <3>3
    <2>7. CASE \E i \in MenuIds \ used : Flush(e, Created(i), "commit", job[e])
      <3> HIDE DEF Created
      <3> QED BY <2>6, <2>7
    <2> QED BY <1>6, <2>4, <2>5, <2>7, Zenon DEF Write
  <1>7. ASSUME NEW t \in Tasks, AcquireLock(t)
        PROVE  Keyed'
    BY <1>1, <1>7 DEF AcquireLock, menuVars
  <1> QED BY <1>1, <1>2, <1>3, <1>4, <1>5, <1>6, <1>7 DEF Next, Begin, Load, Receive, WipeLock, Quiet, vars
------------------------------------------------------------------------------
(* What a seed has read stays complete until it commits.                     *)
LEMMA CommitKeepsKnown ==
    ASSUME MenuInv, NEW t \in Tasks, Commit(t)
    PROVE  Known'
  <1> SUFFICES ASSUME NEW s \in Seeds, at'[s] = "seed"
               PROVE  BuiltIn(menus)' \subseteq DOMAIN saw'[s]
    BY DEF Known
  <1>1. s \in Tasks
    BY TasksAssumption
  <1>2. s # t /\ at[s] = "seed" /\ saw'[s] = saw[s]
    BY <1>1 DEF Commit, Leave, Goto, MenuInv, Places, Functional
  <1>3. t \in Edits
    <2>1. ASSUME t \in Seeds
          PROVE  FALSE
      <3>1. step[s] = "holds" /\ name[s] = "rbac:seed"
        BY <1>1, <1>2 DEF MenuInv, Places, PlaceOf
      <3>2. step[t] = "holds" /\ name[t] = "rbac:seed"
        BY <2>1 DEF MenuInv, Places, PlaceOf, Commit
      <3> QED BY <1>1, <1>2, <3>1, <3>2, InvGivesOneHolder DEF MenuInv, OneHolder
    <2> QED BY <2>1, TasksAssumption
  <1>4. BuiltIn(menus)' \subseteq BuiltIn(menus)
    BY <1>3, CommitKeepsKeys DEF MenuInv
  <1> QED BY <1>2, <1>4 DEF MenuInv, Known

LEMMA RollbackKeepsKnown ==
    ASSUME Functional, Known, NEW t \in Tasks, Rollback(t)
    PROVE  Known'
  BY TasksAssumption DEF Known, Functional, Rollback, Leave, Goto, BuiltIn

LEMMA FlushKeepsKnown ==
    ASSUME Functional, Known, NEW t \in Tasks, NEW w, NEW where, NEW rest, Flush(t, w, where, rest),
           t \in Seeds => at[t] = "seed"
    PROVE  Known'
  <1>1. CASE Rollback(t)
    BY <1>1, RollbackKeepsKnown
  <1>2. CASE UNCHANGED saw /\ Quiet /\ Goto(t, where)
    BY <1>2, TasksAssumption DEF Known, Functional, Quiet, Goto, BuiltIn
  <1> QED BY <1>1, <1>2 DEF Flush

LEMMA NextKeepsKnown ==
    ASSUME MenuInv, [Next]_vars
    PROVE  Known'
  <1> USE DEF MenuInv
  <1>0. Functional /\ Known
    BY DEF Places
  <1>1. CASE UNCHANGED <<menus, saw, at>>
    BY <1>0, <1>1 DEF Known, BuiltIn
  <1>2. ASSUME NEW t \in Tasks, Commit(t) \/ Abort(t)
        PROVE  Known'
    BY <1>0, <1>2, CommitKeepsKnown, RollbackKeepsKnown DEF Abort
  <1>3. ASSUME NEW s \in Seeds, NEW m \in Manifests, Begin(s, m)
        PROVE  Known'
    BY <1>0, <1>3, TasksAssumption DEF Begin, Goto, Known, Functional, BuiltIn
  <1>4. ASSUME NEW s \in Seeds, Load(s)
        PROVE  Known'
    <2>1. menus' = menus /\ \A r \in Seeds \ {s} : at'[r] = at[r] /\ saw'[r] = saw[r]
      BY <1>0, <1>4, TasksAssumption DEF Load, Goto, Quiet, Functional
    <2>2. DOMAIN saw'[s] = BuiltIn(menus)
      BY <1>0, <1>4, TasksAssumption DEF Load, Functional
    <2> QED BY <1>0, <2>1, <2>2 DEF Known, BuiltIn
  <1>5. ASSUME NEW s \in Seeds, Upsert(s)
        PROVE  Known'
    <2>1. s \in Tasks /\ at[s] = "seed" /\ \E w, rest : Flush(s, w, "seed", rest)
      BY <1>5, TasksAssumption DEF Upsert
    <2> QED BY <1>0, <2>1, FlushKeepsKnown
  <1>6. ASSUME NEW s \in Seeds, Prune(s)
        PROVE  Known'
    <2>1. s \in Tasks /\ at[s] = "seed"
      BY <1>6, TasksAssumption DEF Prune
    <2>2. CASE Goto(s, "commit") /\ UNCHANGED saw /\ Quiet
      BY <1>0, <2>1, <2>2, TasksAssumption DEF Known, Functional, Quiet, Goto, BuiltIn
    <2>3. CASE \E w : Flush(s, w, "seed", job[s])
      BY <1>0, <2>1, <2>3, FlushKeepsKnown
    <2> QED BY <1>6, <2>2, <2>3 DEF Prune
  <1>7. ASSUME NEW e \in Edits, Write(e)
        PROVE  Known'
    <2>1. e \in Tasks /\ e \notin Seeds /\ \E w, rest : Flush(e, w, "commit", rest)
      BY <1>7, TasksAssumption DEF Write
    <2> QED BY <1>0, <2>1, FlushKeepsKnown
  <1>8. ASSUME NEW e \in Edits, Check(e)
        PROVE  Known'
    <2>1. e \in Tasks /\ e \notin Seeds
      BY TasksAssumption
    <2>2. CASE UNCHANGED saw /\ Quiet /\ Goto(e, "write")
      BY <1>0, <2>1, <2>2 DEF Known, Functional, Quiet, Goto, BuiltIn
    <2> QED BY <1>0, <1>8, <2>1, <2>2, RollbackKeepsKnown DEF Check
  <1>9. ASSUME NEW e \in Edits, NEW q \in Requests, Receive(e, q)
        PROVE  Known'
    <2>1. e \notin Seeds /\ menus' = menus
      BY <1>9, TasksAssumption DEF Receive
    <2>2. \A s \in Seeds : at'[s] = at[s] /\ saw'[s] = saw[s]
      BY <1>0, <1>9, <2>1, TasksAssumption DEF Receive, Goto, Functional
    <2> QED BY <1>0, <2>1, <2>2 DEF Known, BuiltIn
  <1>10. ASSUME NEW t \in Tasks, AcquireLock(t)
         PROVE  Known'
    BY <1>1, <1>10 DEF AcquireLock, menuVars
  <1>11. ASSUME NEW n \in Names, WipeLock(n)
         PROVE  Known'
    BY <1>1, <1>11 DEF WipeLock
  <1> QED BY <1>1, <1>2, <1>3, <1>4, <1>5, <1>6, <1>7, <1>8, <1>9, <1>10, <1>11 DEF Next, vars

(* No built-in menu is in the table that a seed at work has not read.        *)
THEOREM MenuInvariance == Spec => []MenuInv
  <1>1. Init => MenuInv
    BY InitHolds, StartPlaces DEF Init, MenuInv
  <1>2. MenuInv /\ [Next]_vars => MenuInv'
    <2> SUFFICES ASSUME MenuInv, [Next]_vars
                 PROVE  MenuInv'
      OBVIOUS
    <2>1. LocksInv' /\ Places'
      BY NextPlaces, NextFollows, StepKeeps DEF MenuInv
    <2>2. Keyed'
      BY NextKeepsKeyed DEF MenuInv, Places
    <2>3. Known'
      BY NextKeepsKnown
    <2> QED BY <2>1, <2>2, <2>3 DEF MenuInv
  <1> QED BY <1>1, <1>2, PTL DEF Spec

LEMMA InvGivesSerial == MenuInv => SeedsAreSerial
  <1> SUFFICES ASSUME MenuInv
               PROVE  SeedsAreSerial
    OBVIOUS
  <1>1. OneHolder
    BY InvGivesOneHolder DEF MenuInv
  <1>2. ASSUME NEW s \in Seeds, at[s] = "seed", NEW r \in Seeds \ {s}, at[r] \in {"seed", "commit"}
        PROVE  FALSE
    <2>1. \A u \in {s, r} : u \in Tasks /\ step[u] = "holds" /\ name[u] = "rbac:seed"
      BY <1>2, TasksAssumption DEF MenuInv, Places, PlaceOf
    <2> QED BY <1>1, <2>1 DEF OneHolder
  <1> QED BY <1>1, <1>2 DEF SeedsAreSerial, MenuInv, Known

(* For any number of seeds and edits of any tables: whoever applies a        *)
(* manifest is the only one, holds the lock and has read every built-in      *)
(* menu there is, so that an insertion meets no key it does not know         *)
(* (seed.py:406, :426).                                                      *)
THEOREM SerialSeeds == Spec => []SeedsAreSerial
  BY MenuInvariance, InvGivesSerial, PTL

------------------------------------------------------------------------------
(* What is shown of a tree. Induction comes from a smallest counterexample.  *)

(* Of finite sets, one is the smallest: none of the others is part of it.    *)
LEMMA Smallest ==
    ASSUME NEW T, T # {}, \A x \in T : IsFiniteSet(x)
    PROVE  \E m \in T : \A x \in T : x \subseteq m => x = m
  <1> DEFINE All == UNION T
  <1>1. \A x \in T : x \in FiniteSubsetsOf(All)
    BY DEF FiniteSubsetsOf
  <1>2. IsWellFoundedOn(StrictSubsetOrdering(All), FiniteSubsetsOf(All))
    BY FS_StrictSubsetOrderingWellFounded
  <1>3. PICK m \in T : \A x \in T : ~(<<x, m>> \in StrictSubsetOrdering(All))
    <2> HIDE DEF All
    <2>1. T \subseteq FiniteSubsetsOf(All)
      BY <1>1
    <2> QED BY <1>2, <2>1, WFMin
  <1>4. ASSUME NEW x \in T, x \subseteq m, x # m
        PROVE  FALSE
    <2> HIDE DEF All
    <2>1. <<x, m>> \in StrictSubsetOrdering(All)
      BY <1>1, <1>4 DEF StrictSubsetOrdering, FiniteSubsetsOf
    <2> QED BY <1>3, <2>1
  <1> QED BY <1>4

(* What holds of 0 and goes from each number to the next holds of all.       *)
LEMMA Induct ==
    ASSUME NEW T, 0 \in T, \A n \in Nat : n \in T => n + 1 \in T
    PROVE  Nat \subseteq T
  <1> SUFFICES ASSUME Nat \ T # {} PROVE FALSE
    OBVIOUS
  <1> DEFINE Upto == {0 .. n : n \in Nat \ T}
  <1>1. Upto # {} /\ \A x \in Upto : IsFiniteSet(x)
    BY FS_Interval
  <1>2. PICK m \in Upto : \A x \in Upto : x \subseteq m => x = m
    <2> HIDE DEF Upto
    <2> QED BY <1>1, Smallest
  <1>3. PICK n \in Nat \ T : m = 0 .. n
    BY <1>2
  <1>4. n # 0 /\ n - 1 \in Nat /\ (n - 1) + 1 = n
    BY <1>3
  <1>5. n - 1 \notin T
    BY <1>3, <1>4
  <1>6. 0 .. (n - 1) \in Upto
    BY <1>4, <1>5
  <1>7. 0 .. (n - 1) \subseteq m /\ n \in m /\ n \notin 0 .. (n - 1)
    BY <1>3, <1>4
  <1> QED BY <1>2, <1>6, <1>7

Bound == Cardinality(MenuIds)

LEMMA BoundIsNat == Bound \in Nat
  BY MenusAssumption, FS_CardinalityType DEF Bound

(* One layer more.                                                           *)
Layer(found, S) == found \cup {j \in S : menus[j].parent \in found}

(* The layers as far as n.                                                   *)
IsLayers(g, n, A, S) ==
    /\ g \in [0 .. n -> SUBSET MenuIds]
    /\ g[0] = A
    /\ \A m \in 1 .. n : g[m] = Layer(g[m - 1], S)

LEMMA LayersExist ==
    ASSUME NEW A \in SUBSET MenuIds, NEW S \in SUBSET MenuIds, NEW n \in Nat
    PROVE  \E g : IsLayers(g, n, A, S)
  <1> DEFINE T == {m \in Nat : \E g : IsLayers(g, m, A, S)}
  <1>1. 0 \in T
    <2> DEFINE g == [m \in {0} |-> A]
    <2>1. IsLayers(g, 0, A, S)
      BY DEF IsLayers
    <2> QED BY <2>1
  <1>2. ASSUME NEW m \in Nat, m \in T
        PROVE  m + 1 \in T
    <2>1. PICK g : IsLayers(g, m, A, S)
      BY <1>2
    <2> DEFINE h == [x \in 0 .. m + 1 |-> IF x = m + 1 THEN Layer(g[m], S) ELSE g[x]]
    <2>2. Layer(g[m], S) \in SUBSET MenuIds
      BY <2>1 DEF IsLayers, Layer
    <2>3. h \in [0 .. m + 1 -> SUBSET MenuIds] /\ h[0] = A
      BY <2>1, <2>2 DEF IsLayers
    <2>4. ASSUME NEW x \in 1 .. m + 1
          PROVE  h[x] = Layer(h[x - 1], S)
      BY <2>1, <2>4 DEF IsLayers
    <2>5. IsLayers(h, m + 1, A, S)
      <3> HIDE DEF h
      <3> QED BY <2>3, <2>4 DEF IsLayers
    <2> QED BY <2>5
  <1> HIDE DEF T
  <1>3. n \in T
    BY <1>1, <1>2, Induct
  <1> QED BY <1>3 DEF T

LEMMA DownIsLayered ==
    ASSUME NEW A \in SUBSET MenuIds, NEW S \in SUBSET MenuIds
    PROVE  \E g : IsLayers(g, Bound, A, S) /\ Down(A, S) = g[Bound]
  <1> DEFINE rhs(h) == [n \in 0 .. Bound |-> IF n = 0 THEN A ELSE LET found == h[n - 1]
                            IN found \cup {j \in S : menus[j].parent \in found}]
  <1>1. PICK g : IsLayers(g, Bound, A, S)
    BY BoundIsNat, LayersExist
  <1>2. g = rhs(g)
    <2>1. \A n \in 0 .. Bound : g[n] = rhs(g)[n]
      BY <1>1, BoundIsNat DEF IsLayers, Layer
    <2>2. DOMAIN g = 0 .. Bound /\ g = [n \in 0 .. Bound |-> g[n]]
      BY <1>1 DEF IsLayers
    <2> QED BY <2>1, <2>2
  <1>3. PICK f : f = rhs(f) /\ Down(A, S) = f[Bound]
    <2> DEFINE f == CHOOSE f : f = rhs(f)
    <2>1. f = rhs(f)
      <3> HIDE DEF rhs
      <3> QED BY <1>2
    <2>2. Down(A, S) = f[Bound]
      BY DEF Down, Bound
    <2> QED BY <2>1, <2>2
  <1>4. \A n \in 0 .. Bound : f[n] = rhs(f)[n]
    <2> HIDE DEF rhs
    <2> QED BY <1>3
  <1>5. /\ f[0] = A /\ g[0] = A
        /\ \A n \in 1 .. Bound : f[n] = Layer(f[n - 1], S) /\ g[n] = Layer(g[n - 1], S)
    <2>0. \A n \in 0 .. Bound : rhs(f)[n] = IF n = 0 THEN A ELSE Layer(f[n - 1], S)
      BY DEF Layer
    <2> HIDE DEF rhs
    <2>1. f[0] = A
      BY <1>4, <2>0, BoundIsNat
    <2>2. ASSUME NEW n \in 1 .. Bound
          PROVE  f[n] = Layer(f[n - 1], S)
      <3>1. n \in 0 .. Bound /\ n # 0
        BY BoundIsNat
      <3> QED BY <1>4, <2>0, <3>1
    <2>3. g[0] = A /\ \A n \in 1 .. Bound : g[n] = Layer(g[n - 1], S)
      BY <1>1 DEF IsLayers
    <2> QED BY <2>1, <2>2, <2>3
  <1>6. \A n \in Nat : n =< Bound => f[n] = g[n]
    <2> DEFINE T == {n \in Nat : n =< Bound => f[n] = g[n]}
    <2>1. 0 \in T
      BY <1>5
    <2>2. ASSUME NEW n \in Nat, n \in T
          PROVE  n + 1 \in T
      BY <1>5, <2>2, BoundIsNat
    <2> HIDE DEF T
    <2>3. Nat \subseteq T
      BY <2>1, <2>2, Induct
    <2> QED BY <2>3 DEF T
  <1>7. f[Bound] = g[Bound]
    BY <1>6, BoundIsNat
  <1> HIDE DEF rhs
  <1> QED BY <1>1, <1>3, <1>7

(* The layers come to an end: there are no more of them than menus.          *)
LEMMA LayersEnd ==
    ASSUME NEW A \in SUBSET MenuIds, NEW S \in SUBSET MenuIds, NEW g, IsLayers(g, Bound, A, S)
    PROVE  Layer(g[Bound], S) \subseteq g[Bound]
  <1> DEFINE T == {n \in Nat : n =< Bound => Layer(g[n], S) \subseteq g[n] \/ Cardinality(g[n]) >= n}
  <1>0. \A n \in 0 .. Bound : g[n] \subseteq MenuIds /\ IsFiniteSet(g[n]) /\ Cardinality(g[n]) \in Nat
    BY MenusAssumption, FS_Subset, FS_CardinalityType DEF IsLayers
  <1>1. 0 \in T
    BY <1>0, BoundIsNat
  <1>2. ASSUME NEW n \in Nat, n \in T
        PROVE  n + 1 \in T
    <2>1. SUFFICES ASSUME n + 1 =< Bound, ~(Layer(g[n + 1], S) \subseteq g[n + 1])
                   PROVE  Cardinality(g[n + 1]) >= n + 1
      OBVIOUS
    <2>2. n \in 0 .. Bound /\ n + 1 \in 1 .. Bound /\ n + 1 \in 0 .. Bound /\ (n + 1) - 1 = n
      BY <2>1, BoundIsNat
    <2>3. g[n + 1] = Layer(g[n], S)
      BY <2>2 DEF IsLayers
    <2>4. g[n] \subseteq g[n + 1]
      BY <2>3 DEF Layer
    <2>5. g[n] # g[n + 1]
      BY <2>1, <2>3
    <2>6. Cardinality(g[n]) >= n
      <3>1. ~(Layer(g[n], S) \subseteq g[n])
        BY <2>3, <2>4, <2>5
      <3> QED BY <1>2, <2>2, <3>1
    <2>7. Cardinality(g[n]) < Cardinality(g[n + 1])
      <3>1. g[n] \in SUBSET g[n + 1]
        BY <2>4
      <3>2. /\ Cardinality(g[n]) =< Cardinality(g[n + 1])
            /\ Cardinality(g[n + 1]) = Cardinality(g[n]) => g[n + 1] = g[n]
        BY <1>0, <2>2, <3>1, FS_Subset
      <3> QED BY <1>0, <2>2, <2>5, <3>2
    <2> QED BY <1>0, <2>2, <2>6, <2>7
  <1> HIDE DEF T
  <1>3. Bound \in T
    BY <1>1, <1>2, Induct, BoundIsNat
  <1>4. Layer(g[Bound], S) \subseteq g[Bound] \/ Cardinality(g[Bound]) >= Bound
    BY <1>3, BoundIsNat DEF T
  <1>5. CASE Cardinality(g[Bound]) >= Bound
    <2>1. Bound \in 0 .. Bound
      BY BoundIsNat
    <2>2. g[Bound] = MenuIds
      BY <1>0, <1>5, <2>1, MenusAssumption, FS_Subset, BoundIsNat DEF Bound
    <2> QED BY <2>2 DEF Layer
  <1> QED BY <1>4, <1>5

(* Down is the smallest set that has A and, with a menu, those of S below    *)
(* it.                                                                       *)
LEMMA DownIsLeast ==
    ASSUME NEW A \in SUBSET MenuIds, NEW S \in SUBSET MenuIds
    PROVE  /\ A \subseteq Down(A, S)
           /\ Down(A, S) \subseteq MenuIds
           /\ \A j \in S : menus[j].parent \in Down(A, S) => j \in Down(A, S)
           /\ \A C : A \subseteq C /\ (\A j \in S : menus[j].parent \in C => j \in C) => Down(A, S) \subseteq C
  <1>1. PICK g : IsLayers(g, Bound, A, S) /\ Down(A, S) = g[Bound]
    BY DownIsLayered
  <1>2. \A j \in S : menus[j].parent \in Down(A, S) => j \in Down(A, S)
    BY <1>1, LayersEnd DEF Layer
  <1>3. ASSUME NEW C, A \subseteq C, \A j \in S : menus[j].parent \in C => j \in C
        PROVE  \A n \in Nat : n =< Bound => g[n] \subseteq C
    <2> DEFINE T == {n \in Nat : n =< Bound => g[n] \subseteq C}
    <2>1. 0 \in T
      BY <1>1, <1>3 DEF IsLayers
    <2>2. ASSUME NEW n \in Nat, n \in T
          PROVE  n + 1 \in T
      <3>1. SUFFICES ASSUME n + 1 =< Bound PROVE g[n + 1] \subseteq C
        OBVIOUS
      <3>2. g[n + 1] = Layer(g[n], S) /\ g[n] \subseteq C
        BY <1>1, <2>2, <3>1, BoundIsNat DEF IsLayers
      <3> QED BY <1>3, <3>2 DEF Layer
    <2> HIDE DEF T
    <2>3. Nat \subseteq T
      BY <2>1, <2>2, Induct
    <2> QED BY <2>3 DEF T
  <1>4. \A C : A \subseteq C /\ (\A j \in S : menus[j].parent \in C => j \in C) => Down(A, S) \subseteq C
    BY <1>1, <1>3, BoundIsNat
  <1>5. A \subseteq Down(A, S)
    <2> DEFINE T == {n \in Nat : n =< Bound => A \subseteq g[n]}
    <2>1. 0 \in T
      BY <1>1 DEF IsLayers
    <2>2. ASSUME NEW n \in Nat, n \in T
          PROVE  n + 1 \in T
      <3>1. SUFFICES ASSUME n + 1 =< Bound PROVE A \subseteq g[n + 1]
        OBVIOUS
      <3>2. g[n + 1] = Layer(g[n], S) /\ A \subseteq g[n]
        BY <1>1, <2>2, <3>1, BoundIsNat DEF IsLayers
      <3> QED BY <3>2 DEF Layer
    <2> HIDE DEF T
    <2>3. Nat \subseteq T
      BY <2>1, <2>2, Induct
    <2> QED BY <1>1, <2>3, BoundIsNat DEF T
  <1>6. Down(A, S) \subseteq MenuIds
    BY <1>1, BoundIsNat DEF IsLayers
  <1> QED BY <1>2, <1>4, <1>5, <1>6

(* A menu is in Down when it is in A or hangs below one that is.             *)
LEMMA DownUnfolds ==
    ASSUME NEW S \in SUBSET MenuIds, NEW A \in SUBSET S
    PROVE  /\ Down(A, S) \subseteq S
           /\ \A i \in S : i \in Down(A, S) <=> i \in A \/ menus[i].parent \in Down(A, S)
  <1>0. A \in SUBSET MenuIds
    OBVIOUS
  <1>1. /\ A \subseteq Down(A, S)
        /\ \A j \in S : menus[j].parent \in Down(A, S) => j \in Down(A, S)
    BY <1>0, DownIsLeast
  <1>2. \A C : A \subseteq C /\ (\A j \in S : menus[j].parent \in C => j \in C) => Down(A, S) \subseteq C
    BY <1>0, DownIsLeast
  <1>3. Down(A, S) \subseteq S
    BY <1>2
  <1> DEFINE C == A \cup {j \in S : menus[j].parent \in Down(A, S)}
  <1>4. Down(A, S) \subseteq C
    <2>1. C \subseteq Down(A, S)
      BY <1>1
    <2>2. \A j \in S : menus[j].parent \in C => j \in C
      BY <2>1
    <2>3. A \subseteq C
      OBVIOUS
    <2> HIDE DEF C
    <2> QED BY <1>2, <2>2, <2>3
  <1> QED BY <1>1, <1>3, <1>4

LEMMA AboveUnfolds ==
    ASSUME NEW S \in SUBSET MenuIds, NEW i \in S
    PROVE  \A j : j \in Above(i, S) <=>
              /\ j \in S
              /\ menus[i].parent = j \/ (menus[i].parent \in S /\ j \in Above(menus[i].parent, S))
  <1> SUFFICES ASSUME NEW j \in S
               PROVE  j \in Above(i, S) <=>
                        \/ menus[i].parent = j
                        \/ menus[i].parent \in S /\ j \in Above(menus[i].parent, S)
    BY DEF Above
  <1> DEFINE kids == {k \in S : menus[k].parent = j}
  <1>1. \A k : k \in S => (j \in Above(k, S) <=> k \in Down(kids, S))
    BY DEF Above
  <1>2. Down(kids, S) \subseteq S /\ (i \in Down(kids, S) <=> i \in kids \/ menus[i].parent \in Down(kids, S))
    BY DownUnfolds
  <1>3. i \in kids <=> menus[i].parent = j
    OBVIOUS
  <1> HIDE DEF kids
  <1> QED BY <1>1, <1>2, <1>3

(* Nothing above it, nor itself, is a button or in a cycle.                  *)
Reachable(S) ==
    {i \in Pages(S) : \A j \in Above(i, S) \cup {i} : menus[j].type = "page" /\ j \notin Above(j, S)}

(* The menu above one that is reachable is reachable, and shown if it is a   *)
(* top.                                                                      *)
LEMMA ReachableUp ==
    ASSUME NEW S \in SUBSET MenuIds, NEW i \in Reachable(S)
    PROVE  i \in Pages(Tops(S)) \/ (menus[i].parent \in Reachable(S) /\ menus[i].parent \in Above(i, S))
  <1>1. i \in S /\ i \in Pages(S) /\ menus[i].type = "page"
    BY DEF Reachable, Pages
  <1>2. CASE menus[i].parent \notin S
    BY <1>1, <1>2 DEF Pages, Tops
  <1>3. CASE menus[i].parent \in S
    <2> DEFINE p == menus[i].parent
    <2>1. p \in Above(i, S) /\ Above(p, S) \subseteq Above(i, S)
      <3>1. \A k : k \in Above(i, S) <=> k \in S /\ (p = k \/ (p \in S /\ k \in Above(p, S)))
        BY <1>1, AboveUnfolds
      <3>2. Above(p, S) \subseteq S
        BY DEF Above
      <3> QED BY <1>3, <3>1, <3>2
    <2>2. p \in Pages(S)
      BY <1>3, <2>1 DEF Reachable, Pages
    <2> QED BY <2>1, <2>2 DEF Reachable
  <1> QED BY <1>2, <1>3

(* A page below one that is reachable is.                                    *)
LEMMA ReachableDown ==
    ASSUME NEW S \in SUBSET MenuIds, NEW i \in Pages(S),
           menus[i].parent \in Reachable(S) \/ i \in Pages(Tops(S))
    PROVE  i \in Reachable(S)
  <1>1. i \in S /\ menus[i].type = "page"
    BY DEF Pages
  <1>2. CASE i \in Pages(Tops(S))
    <2>1. menus[i].parent \notin S
      BY <1>2 DEF Pages, Tops
    <2>2. Above(i, S) = {}
      BY <1>1, <2>1, AboveUnfolds
    <2> QED BY <1>1, <2>2 DEF Reachable
  <1>3. CASE menus[i].parent \in Reachable(S)
    <2> DEFINE p == menus[i].parent
    <2>1. p \in S /\ \A j \in Above(p, S) \cup {p} : menus[j].type = "page" /\ j \notin Above(j, S)
      BY <1>3 DEF Reachable, Pages
    <2>2. \A j : j \in Above(i, S) <=> j = p \/ j \in Above(p, S)
      BY <1>1, <2>1, AboveUnfolds DEF Above
    <2>3. i \notin Above(i, S)
      BY <2>1, <2>2
    <2> QED BY <1>1, <2>1, <2>2, <2>3 DEF Reachable
  <1> QED BY <1>2, <1>3

LEMMA ShownIsReachable ==
    ASSUME NEW S \in SUBSET MenuIds
    PROVE  Routers(S) = Reachable(S)
  <1> DEFINE P == Pages(S)
             A == Pages(Tops(S))
  <1>1. P \in SUBSET MenuIds /\ A \in SUBSET P /\ A \in SUBSET MenuIds
    BY DEF Pages, Tops
  <1>2. Routers(S) = Down(A, P)
    BY DEF Routers
  <1>3. Routers(S) \subseteq Reachable(S)
    <2>1. A \subseteq Reachable(S)
      BY <1>1, ReachableDown
    <2>2. \A i \in P : menus[i].parent \in Reachable(S) => i \in Reachable(S)
      BY ReachableDown
    <2>3. \A C : A \subseteq C /\ (\A j \in P : menus[j].parent \in C => j \in C) => Down(A, P) \subseteq C
      BY <1>1, DownIsLeast
    <2> HIDE DEF P, A
    <2> QED BY <1>2, <2>1, <2>2, <2>3
  <1>4. ASSUME NEW i \in Reachable(S), i \notin Routers(S)
        PROVE  FALSE
    <2> DEFINE Hidden == Reachable(S) \ Routers(S)
               Aboves == {Above(j, S) : j \in Hidden}
    <2>1. Aboves # {} /\ \A x \in Aboves : IsFiniteSet(x)
      <3>1. \A j : Above(j, S) \in SUBSET MenuIds
        BY DEF Above
      <3>2. \A j : IsFiniteSet(Above(j, S))
        BY <3>1, MenusAssumption, FS_Subset
      <3> QED BY <1>4, <3>2
    <2>2. PICK m \in Aboves : \A x \in Aboves : x \subseteq m => x = m
      <3> HIDE DEF Aboves
      <3> QED BY <2>1, Smallest
    <2>3. PICK j \in Hidden : m = Above(j, S)
      BY <2>2
    <2> DEFINE p == menus[j].parent
    <2>4. p \in Reachable(S) /\ p \in Above(j, S)
      <3>1. A \subseteq Down(A, P)
        BY <1>1, DownIsLeast
      <3>2. j \notin A
        <4> HIDE DEF P, A
        <4> QED BY <1>2, <2>3, <3>1
      <3> QED BY <2>3, <3>2, ReachableUp
    <2>5. p \in Hidden
      <3>1. j \in P
        BY <2>3 DEF Reachable
      <3> HIDE DEF P, A
      <3> QED BY <1>1, <1>2, <2>3, <2>4, <3>1, DownIsLeast
    <2>6. j \in S /\ p \in S /\ p \notin Above(p, S)
      BY <2>3, <2>4 DEF Reachable, Pages
    <2>7. Above(p, S) \subseteq Above(j, S)
      <3>1. \A k : k \in Above(j, S) <=> k \in S /\ (p = k \/ (p \in S /\ k \in Above(p, S)))
        BY <2>6, AboveUnfolds
      <3>2. Above(p, S) \subseteq S
        BY DEF Above
      <3> QED BY <2>6, <3>1, <3>2
    <2>8. Above(p, S) \in Aboves
      BY <2>5
    <2> QED BY <2>2, <2>3, <2>4, <2>6, <2>7, <2>8
  <1> QED BY <1>3, <1>4

(* Whatever the rows are, as long as they have their type.                   *)
LEMMA TypesGiveShown == TypeOK => GrantedPagesAreShown
  <1> SUFFICES ASSUME TypeOK, NEW S \in Granted, NEW i \in Pages(S)
               PROVE  i \in Routers(S) <=>
                        \A j \in Above(i, S) \cup {i} : menus[j].type = "page" /\ j \notin Above(j, S)
    BY DEF GrantedPagesAreShown
  <1>1. S \in SUBSET MenuIds
    BY DEF TypeOK, Granted
  <1>2. Routers(S) = Reachable(S)
    BY <1>1, ShownIsReachable
  <1> QED BY <1>2 DEF Reachable

------------------------------------------------------------------------------
(* What the transactions write, and the work of a seed.                      *)

(* The values of a column; rows and writes with ids that were given out; what*)
(* an edit asks for.                                                         *)
Values(c) ==
    IF c = "parent" THEN MenuIds \cup {Root}
    ELSE IF c = "type" THEN {"page", "button"} ELSE {"active", "disabled"}

RowsTyped(rows, ids) == \A i \in DOMAIN rows : i \in ids /\ rows[i] \in Menu

WritesTyped(w, ids) ==
    /\ RowsTyped(w.new, ids)
    /\ DOMAIN w.set \subseteq ids \X Columns
    /\ \A i \in ids, c \in Columns : <<i, c>> \in DOMAIN w.set => w.set[<<i, c>>] \in Values(c)
    /\ w.gone \subseteq ids

Request(q, ids) ==
    /\ q.op = "create" => q.parent \in MenuIds \cup {Root} /\ q.type = "page"
    /\ q.op = "update" => q.id \in ids /\ \A c \in Columns : q[c] # None => q[c] \in Values(c)

Data ==
    /\ DOMAIN job = Tasks /\ DOMAIN changed = Tasks
    /\ used \subseteq MenuIds /\ RowsTyped(menus, used)
    /\ \A t \in Tasks : RowsTyped(saw[t], used) /\ changed[t] \subseteq MenuIds /\ WritesTyped(pend[t], used)
    /\ \A e \in Edits : at[e] \in {"lock", "write"} => Request(job[e], used)

(* What is left of the manifest is its end; what is before has been passed.  *)
Passed(j) == 1 .. Len(j.manifest) - Len(j.left)
KeysIn(m, P) == {m[z].key : z \in P}
PassedKeys(j) == KeysIn(j.manifest, Passed(j))

Underway(j) ==
    /\ j \in [manifest : Manifests, left : Seq(Node)]
    /\ Len(j.left) =< Len(j.manifest)
    /\ \A x \in 1 .. Len(j.left) : j.left[x] = j.manifest[x + (Len(j.manifest) - Len(j.left))]

LEMMA OverTyped ==
    ASSUME NEW w, NEW ids, NEW i, NEW row \in Menu, WritesTyped(w, ids)
    PROVE  Over(w, i, row) \in Menu /\ Over(w, i, row).key = row.key
  <1> DEFINE o == Over(w, i, row)
  <1>1. DOMAIN row = {"key", "parent", "type", "status"} /\ DOMAIN o = DOMAIN row
    BY DEF Menu, Over
  <1>2. \A c \in Columns : o[c] = row[c] \/ (<<i, c>> \in DOMAIN w.set /\ i \in ids /\ o[c] = w.set[<<i, c>>])
    BY <1>1 DEF Over, SetIn, WritesTyped, Columns
  <1>3. \A c \in Columns : row[c] \in Values(c)
    BY DEF Menu, Values, Columns
  <1>4. \A c \in Columns : o[c] \in Values(c)
    BY <1>2, <1>3 DEF WritesTyped
  <1>5. o.key = row.key /\ row.key \in Keys \cup {None}
    BY <1>1 DEF Over, SetIn, Columns, Menu
  <1>6. o.parent \in MenuIds \cup {Root} /\ o.type \in {"page", "button"} /\ o.status \in {"active", "disabled"}
    BY <1>4 DEF Values, Columns
  <1>7. o = [f \in {"key", "parent", "type", "status"} |-> o[f]]
    BY <1>1 DEF Over
  <1> HIDE DEF o
  <1>8. o \in Menu
    BY <1>5, <1>6, <1>7 DEF Menu
  <1> QED BY <1>5, <1>8 DEF o

LEMMA MineTyped ==
    ASSUME NEW w, NEW rows, NEW ids, RowsTyped(rows, ids), WritesTyped(w, ids)
    PROVE  RowsTyped(Applied(w, rows), ids)
  <1> SUFFICES ASSUME NEW i \in DOMAIN Applied(w, rows)
               PROVE  i \in ids /\ Applied(w, rows)[i] \in Menu
    BY DEF RowsTyped
  <1>1. i \in DOMAIN rows \cup DOMAIN w.new
        /\ Applied(w, rows)[i] = Over(w, i, IF i \in DOMAIN w.new THEN w.new[i] ELSE rows[i])
    BY DEF Applied
  <1>2. i \in ids /\ (IF i \in DOMAIN w.new THEN w.new[i] ELSE rows[i]) \in Menu
    BY <1>1 DEF RowsTyped, WritesTyped
  <1> QED BY <1>1, <1>2, OverTyped

LEMMA Grows ==
    ASSUME NEW ids, NEW more, ids \subseteq more
    PROVE  /\ \A rows : RowsTyped(rows, ids) => RowsTyped(rows, more)
           /\ \A w : WritesTyped(w, ids) => WritesTyped(w, more)
           /\ \A q : Request(q, ids) => Request(q, more)
  <1>1. \A rows : RowsTyped(rows, ids) => RowsTyped(rows, more)
    BY DEF RowsTyped
  <1>2. ASSUME NEW w, WritesTyped(w, ids)
        PROVE  WritesTyped(w, more)
    <2>1. RowsTyped(w.new, more)
      BY <1>1, <1>2 DEF WritesTyped
    <2>2. \A i \in more, c \in Columns : <<i, c>> \in DOMAIN w.set => i \in ids
      BY <1>2 DEF WritesTyped
    <2>3. DOMAIN w.set \subseteq more \X Columns
      BY <1>2 DEF WritesTyped
    <2> QED BY <1>2, <2>1, <2>2, <2>3 DEF WritesTyped
  <1>3. \A q : Request(q, ids) => Request(q, more)
    BY DEF Request
  <1> QED BY <1>1, <1>2, <1>3

(* One set of writes after another.                                          *)
Joined(a, w) ==
    [new |-> [i \in DOMAIN a.new \cup DOMAIN w.new |-> IF i \in DOMAIN w.new THEN w.new[i] ELSE a.new[i]],
     set |-> [x \in DOMAIN a.set \cup DOMAIN w.set |-> IF x \in DOMAIN w.set THEN w.set[x] ELSE a.set[x]],
     gone |-> a.gone \cup w.gone]

LEMMA AddJoins ==
    ASSUME Functional, NEW t \in Tasks, NEW w, Add(t, w)
    PROVE  pend' = [pend EXCEPT ![t] = Joined(pend[t], w)]
  BY DEF Add, Joined, Functional

LEMMA JoinedTyped ==
    ASSUME NEW a, NEW w, NEW ids, WritesTyped(a, ids), WritesTyped(w, ids)
    PROVE  WritesTyped(Joined(a, w), ids)
  <1> DEFINE b == Joined(a, w)
  <1>1. RowsTyped(b.new, ids)
    BY DEF WritesTyped, RowsTyped, Joined
  <1>2. DOMAIN b.set \subseteq ids \X Columns
    BY DEF WritesTyped, Joined
  <1>3. ASSUME NEW i \in ids, NEW c \in Columns, <<i, c>> \in DOMAIN b.set
        PROVE  b.set[<<i, c>>] \in Values(c)
    <2>1. b.set[<<i, c>>] = IF <<i, c>> \in DOMAIN w.set THEN w.set[<<i, c>>] ELSE a.set[<<i, c>>]
      BY <1>3 DEF Joined
    <2>2. <<i, c>> \in DOMAIN w.set \/ <<i, c>> \in DOMAIN a.set
      BY <1>3 DEF Joined
    <2> QED BY <2>1, <2>2 DEF WritesTyped
  <1>4. b.gone \subseteq ids
    BY DEF WritesTyped, Joined
  <1> HIDE DEF b
  <1>5. WritesTyped(b, ids)
    BY <1>1, <1>2, <1>3, <1>4 DEF WritesTyped
  <1> QED BY <1>5 DEF b

LEMMA NothingTyped ==
    ASSUME NEW ids
    PROVE  WritesTyped(NoWrites, ids) /\ RowsTyped(NoRows, ids)
  BY DEF WritesTyped, RowsTyped, NoWrites, NoRows

LEMMA WritesUsed ==
    ASSUME NEW w, NEW ids, WritesTyped(w, ids)
    PROVE  Writes(w) \subseteq ids
  BY DEF WritesTyped, RowsTyped, Writes

(* The rows of a key, and a row, as a transaction knows them.                *)
RowsAt(sw, w, k) == {i \in DOMAIN sw : sw[i].key = k} \cup {i \in DOMAIN w.new : w.new[i].key = k}
IdAt(sw, w, k) == IF k = None THEN Root ELSE CHOOSE i \in RowsAt(sw, w, k) : TRUE
RowAt(sw, w, i) == Over(w, i, IF i \in DOMAIN w.new THEN w.new[i] ELSE sw[i])
Meant(sw, w, n) == [parent |-> IdAt(sw, w, n.parent), type |-> n.type, status |-> "active"]

(* The work of a seed on the nodes P of its manifest m: a key has one row,   *)
(* those of P are as the manifest says, and nothing else has been written.   *)
OneRowEach(sw, w) == \A k \in Keys : \A i, j \in RowsAt(sw, w, k) : i = j
Closed(m, P) ==
    /\ P \subseteq DOMAIN m
    /\ \A y \in P : m[y].parent # None => \E z \in P : m[z].key = m[y].parent
AsSaid(m, P, sw, w) ==
    \A y \in P : /\ RowsAt(sw, w, m[y].key) # {}
                 /\ \A i \in RowsAt(sw, w, m[y].key), c \in Columns : RowAt(sw, w, i)[c] = Meant(sw, w, m[y])[c]
OwnRows(m, P, sw, w) ==
    /\ \A i \in DOMAIN sw : sw[i].key \in Keys
    /\ \A i \in DOMAIN w.new : i \notin DOMAIN sw /\ \E y \in P : w.new[i].key = m[y].key
    /\ \A i, c : <<i, c>> \in DOMAIN w.set => i \in DOMAIN sw /\ \E y \in P : sw[i].key = m[y].key
    /\ \A i \in w.gone : i \in DOMAIN sw /\ sw[i].key \notin KeysOf(m)

Work(m, P, sw, w) == OneRowEach(sw, w) /\ Closed(m, P) /\ AsSaid(m, P, sw, w) /\ OwnRows(m, P, sw, w)

LEMMA WorkStarts ==
    ASSUME NEW m, NEW rows, NEW ids, RowsTyped(rows, ids), KeysDiffer(rows)
    PROVE  Work(m, {}, [i \in BuiltIn(rows) |-> rows[i]], NoWrites)
  <1> DEFINE sw == [i \in BuiltIn(rows) |-> rows[i]]
  <1>1. \A k : RowsAt(sw, NoWrites, k) = {i \in BuiltIn(rows) : rows[i].key = k}
    BY DEF RowsAt, NoWrites, NoRows
  <1>2. BuiltIn(rows) \subseteq DOMAIN rows /\ \A i \in BuiltIn(rows) : rows[i].key # None /\ rows[i].key \in Keys
    BY DEF BuiltIn, RowsTyped, Menu
  <1>3. OneRowEach(sw, NoWrites)
    BY <1>1, <1>2, MenusAssumption DEF OneRowEach, KeysDiffer
  <1>4. OwnRows(m, {}, sw, NoWrites)
    BY <1>2 DEF OwnRows, NoWrites, NoRows
  <1> HIDE DEF sw
  <1>5. Work(m, {}, sw, NoWrites)
    BY <1>3, <1>4 DEF Work, Closed, AsSaid
  <1> QED BY <1>5 DEF sw

LEMMA WorkPrunes ==
    ASSUME NEW m, NEW P, NEW sw, NEW w, NEW L, Work(m, P, sw, w),
           \A i \in L : i \in DOMAIN sw /\ sw[i].key \notin KeysOf(m)
    PROVE  Work(m, P, sw, Joined(w, [NoWrites EXCEPT !.gone = L]))
  <1> DEFINE v == Joined(w, [NoWrites EXCEPT !.gone = L])
  <1>1. DOMAIN v.new = DOMAIN w.new /\ (\A i \in DOMAIN w.new : v.new[i] = w.new[i])
        /\ DOMAIN v.set = DOMAIN w.set /\ (\A x \in DOMAIN w.set : v.set[x] = w.set[x]) /\ v.gone = w.gone \cup L
    BY DEF Joined, NoWrites, NoRows
  <1> HIDE DEF v
  <1>2. \A k : RowsAt(sw, v, k) = RowsAt(sw, w, k)
    BY <1>1 DEF RowsAt
  <1>3. ASSUME NEW n
        PROVE  Meant(sw, v, n) = Meant(sw, w, n)
    <2>1. RowsAt(sw, v, n.parent) = RowsAt(sw, w, n.parent)
      BY <1>2
    <2> QED BY <2>1 DEF Meant, IdAt
  <1>4. \A i : RowAt(sw, v, i) = RowAt(sw, w, i)
    BY <1>1 DEF RowAt, Over, SetIn
  <1>5. OwnRows(m, P, sw, v)
    BY <1>1 DEF OwnRows, Work
  <1>6. Work(m, P, sw, v)
    BY <1>2, <1>3, <1>4, <1>5 DEF Work, OneRowEach, AsSaid
  <1> QED BY <1>6 DEF v

(* The UPDATE and the INSERT of a node.                                      *)
AssignAt(sw, w, n) ==
    LET i == IdAt(sw, w, n.key)
    IN  [NoWrites EXCEPT !.set = [x \in {i} \X {c \in Columns : Meant(sw, w, n)[c] # sw[i][c]} |-> Meant(sw, w, n)[x[2]]]]
InsertionAt(sw, w, n, i) ==
    [NoWrites EXCEPT !.new = [j \in {i} |-> [key |-> n.key, parent |-> IdAt(sw, w, n.parent), type |-> n.type,
                                            status |-> "active"]]]

LEMMA WorkAssigns ==
    ASSUME NEW m, NEW P, NEW sw, NEW w, NEW ids, Work(m, P, sw, w), RowsTyped(sw, ids), WritesTyped(w, ids),
           NEW y \in DOMAIN m, NEW n \in Node, n = m[y], n.key \notin KeysIn(m, P),
           n.parent # None => n.parent \in KeysIn(m, P), RowsAt(sw, w, n.key) # {}
    PROVE  Work(m, P \cup {y}, sw, Joined(w, AssignAt(sw, w, n)))
  <1> DEFINE i == IdAt(sw, w, n.key)
             a == AssignAt(sw, w, n)
             D == {c \in Columns : Meant(sw, w, n)[c] # sw[i][c]}
             v == Joined(w, a)
  <1>0. a = [NoWrites EXCEPT !.set = [x \in {i} \X D |-> Meant(sw, w, n)[x[2]]]]
    BY DEF AssignAt
  <1> HIDE DEF a
  <1>1. n.key \in Keys /\ n.key # None /\ i \in RowsAt(sw, w, n.key)
    BY MenusAssumption DEF Node, IdAt
  <1> HIDE DEF i
  <1>2. i \in DOMAIN sw /\ sw[i].key = n.key /\ i \notin DOMAIN w.new /\ sw[i] \in Menu
    BY <1>1 DEF RowsAt, Work, OwnRows, RowsTyped, KeysIn
  <1>3. \A c : <<i, c>> \notin DOMAIN w.set
    BY <1>2 DEF Work, OwnRows, KeysIn
  <1>4. /\ DOMAIN a.new = {} /\ a.gone = {} /\ DOMAIN a.set = {i} \X D
        /\ \A c \in D : a.set[<<i, c>>] = Meant(sw, w, n)[c]
    BY <1>0 DEF NoWrites, NoRows
  <1> HIDE DEF D
  <1>5. /\ DOMAIN v.new = DOMAIN w.new /\ (\A j \in DOMAIN w.new : v.new[j] = w.new[j]) /\ v.gone = w.gone
        /\ DOMAIN v.set = DOMAIN w.set \cup ({i} \X D)
        /\ \A x \in DOMAIN v.set : v.set[x] = IF x \in {i} \X D THEN a.set[x] ELSE w.set[x]
    BY <1>4 DEF Joined
  <1> HIDE DEF v
  <1>6. \A k : RowsAt(sw, v, k) = RowsAt(sw, w, k)
    BY <1>5 DEF RowsAt
  <1>7. ASSUME NEW nd
        PROVE  Meant(sw, v, nd) = Meant(sw, w, nd)
    <2>1. RowsAt(sw, v, nd.parent) = RowsAt(sw, w, nd.parent)
      BY <1>6
    <2> QED BY <2>1 DEF Meant, IdAt
  <1>8. ASSUME NEW j, j # i
        PROVE  RowAt(sw, v, j) = RowAt(sw, w, j)
    <2>1. SetIn(v, j) = SetIn(w, j) /\ \A c : <<j, c>> \in DOMAIN w.set => v.set[<<j, c>>] = w.set[<<j, c>>]
      BY <1>5, <1>8 DEF SetIn
    <2> QED BY <1>5, <2>1 DEF RowAt, Over, SetIn
  <1>9. ASSUME NEW c \in Columns
        PROVE  RowAt(sw, v, i)[c] = Meant(sw, w, n)[c]
    <2>1. RowAt(sw, v, i) = Over(v, i, sw[i]) /\ c \in DOMAIN sw[i]
      BY <1>2, <1>5 DEF RowAt, Menu, Columns
    <2>2. SetIn(v, i) = D
      BY <1>3, <1>5 DEF SetIn, D
    <2>3. \A d \in D : v.set[<<i, d>>] = Meant(sw, w, n)[d]
      BY <1>4, <1>5
    <2> QED BY <2>1, <2>2, <2>3 DEF Over, D
  <1>10. OneRowEach(sw, v)
    BY <1>6 DEF Work, OneRowEach
  <1>11. Closed(m, P \cup {y})
    BY DEF Work, Closed, KeysIn
  <1>12. ASSUME NEW z \in P \cup {y}
         PROVE  /\ RowsAt(sw, v, m[z].key) # {}
                /\ \A j \in RowsAt(sw, v, m[z].key), c \in Columns : RowAt(sw, v, j)[c] = Meant(sw, v, m[z])[c]
    <2>1. CASE z \in P
      <3>1. i \notin RowsAt(sw, w, m[z].key)
        BY <1>2, <2>1 DEF RowsAt, KeysIn, Work, OwnRows
      <3> QED BY <1>6, <1>7, <1>8, <2>1, <3>1 DEF Work, AsSaid
    <2>2. CASE z = y
      <3>1. \A j \in RowsAt(sw, w, n.key) : j = i
        BY <1>1 DEF Work, OneRowEach
      <3> QED BY <1>1, <1>6, <1>7, <1>9, <2>2, <3>1
    <2> QED BY <2>1, <2>2
  <1>13. OwnRows(m, P \cup {y}, sw, v)
    <2>1. \A j \in DOMAIN v.new : j \notin DOMAIN sw /\ \E z \in P \cup {y} : v.new[j].key = m[z].key
      BY <1>5 DEF Work, OwnRows
    <2>2. ASSUME NEW j, NEW c, <<j, c>> \in DOMAIN v.set
          PROVE  j \in DOMAIN sw /\ \E z \in P \cup {y} : sw[j].key = m[z].key
      <3>1. <<j, c>> \in DOMAIN w.set \/ j = i
        BY <1>5, <2>2
      <3> QED BY <1>2, <3>1 DEF Work, OwnRows
    <2> QED BY <1>5, <2>1, <2>2 DEF Work, OwnRows
  <1>14. Work(m, P \cup {y}, sw, v)
    BY <1>10, <1>11, <1>12, <1>13 DEF Work, AsSaid
  <1> QED BY <1>14 DEF v, a

LEMMA WorkInserts ==
    ASSUME NEW m, NEW P, NEW sw, NEW w, NEW ids, Work(m, P, sw, w), RowsTyped(sw, ids), WritesTyped(w, ids),
           NEW y \in DOMAIN m, NEW n \in Node, n = m[y], n.key \notin KeysIn(m, P),
           n.parent # None => n.parent \in KeysIn(m, P), RowsAt(sw, w, n.key) = {}, NEW i, i \notin ids
    PROVE  Work(m, P \cup {y}, sw, Joined(w, InsertionAt(sw, w, n, i)))
  <1> DEFINE row == [key |-> n.key, parent |-> IdAt(sw, w, n.parent), type |-> n.type, status |-> "active"]
             a == InsertionAt(sw, w, n, i)
             v == Joined(w, a)
  <1>1. n.key \in Keys /\ n.key # None /\ i \notin DOMAIN sw /\ i \notin DOMAIN w.new
    BY MenusAssumption DEF Node, RowsTyped, WritesTyped
  <1>2. \A c : <<i, c>> \notin DOMAIN w.set
    BY <1>1 DEF Work, OwnRows
  <1>3. a.new = [j \in {i} |-> row] /\ DOMAIN a.set = {} /\ a.gone = {}
    BY DEF InsertionAt, NoWrites, NoRows
  <1> HIDE DEF a
  <1>4. /\ DOMAIN v.new = DOMAIN w.new \cup {i} /\ (\A j \in DOMAIN w.new : v.new[j] = w.new[j]) /\ v.new[i] = row
        /\ DOMAIN v.set = DOMAIN w.set /\ (\A x \in DOMAIN w.set : v.set[x] = w.set[x]) /\ v.gone = w.gone
    BY <1>1, <1>3 DEF Joined
  <1> HIDE DEF v
  <1>5. row.key = n.key
    OBVIOUS
  <1>6. \A k : RowsAt(sw, v, k) = RowsAt(sw, w, k) \cup (IF k = n.key THEN {i} ELSE {})
    BY <1>1, <1>4, <1>5 DEF RowsAt
  <1>7. ASSUME NEW nd, nd.parent # n.key
        PROVE  Meant(sw, v, nd) = Meant(sw, w, nd)
    <2>1. RowsAt(sw, v, nd.parent) = RowsAt(sw, w, nd.parent)
      BY <1>6, <1>7
    <2> QED BY <2>1 DEF Meant, IdAt
  <1>8. ASSUME NEW j, j # i
        PROVE  RowAt(sw, v, j) = RowAt(sw, w, j)
    <2>1. SetIn(v, j) = SetIn(w, j) /\ \A c : <<j, c>> \in DOMAIN w.set => v.set[<<j, c>>] = w.set[<<j, c>>]
      BY <1>4 DEF SetIn
    <2> QED BY <1>4, <1>8, <2>1 DEF RowAt, Over, SetIn
  <1>9. n.parent # n.key
    BY <1>1
  <1>10. ASSUME NEW c \in Columns
         PROVE  RowAt(sw, v, i)[c] = Meant(sw, w, n)[c]
    <2>1. RowAt(sw, v, i) = Over(v, i, row) /\ c \in DOMAIN row
      BY <1>4 DEF RowAt, Columns
    <2>2. SetIn(v, i) = {}
      BY <1>2, <1>4 DEF SetIn
    <2>3. RowAt(sw, v, i)[c] = row[c]
      BY <2>1, <2>2 DEF Over
    <2> QED BY <2>3 DEF Meant, Columns
  <1>11. OneRowEach(sw, v)
    <2>1. ASSUME NEW k \in Keys, NEW j \in RowsAt(sw, v, k), NEW l \in RowsAt(sw, v, k)
          PROVE  j = l
      BY <1>6, <2>1 DEF Work, OneRowEach
    <2> QED BY <2>1 DEF OneRowEach
  <1>12. Closed(m, P \cup {y})
    BY DEF Work, Closed, KeysIn
  <1>13. ASSUME NEW z \in P \cup {y}
         PROVE  /\ RowsAt(sw, v, m[z].key) # {}
                /\ \A j \in RowsAt(sw, v, m[z].key), c \in Columns : RowAt(sw, v, j)[c] = Meant(sw, v, m[z])[c]
    <2>1. CASE z \in P
      <3>1. m[z].key # n.key /\ RowsAt(sw, v, m[z].key) = RowsAt(sw, w, m[z].key)
        BY <1>6, <2>1 DEF KeysIn
      <3>2. m[z].parent # n.key
        BY <1>1, <2>1 DEF Work, Closed, KeysIn
      <3>3. i \notin RowsAt(sw, w, m[z].key)
        BY <1>1 DEF RowsAt
      <3> QED BY <1>7, <1>8, <2>1, <3>1, <3>2, <3>3 DEF Work, AsSaid
    <2>2. CASE z = y
      <3>1. RowsAt(sw, v, n.key) = {i} /\ Meant(sw, v, n) = Meant(sw, w, n)
        BY <1>6, <1>7, <1>9
      <3> QED BY <1>10, <2>2, <3>1
    <2> QED BY <2>1, <2>2
  <1>14. OwnRows(m, P \cup {y}, sw, v)
    <2>1. \A j \in DOMAIN v.new : j \notin DOMAIN sw /\ \E z \in P \cup {y} : v.new[j].key = m[z].key
      BY <1>1, <1>4, <1>5 DEF Work, OwnRows
    <2> QED BY <1>4, <2>1 DEF Work, OwnRows
  <1>15. Work(m, P \cup {y}, sw, v)
    BY <1>11, <1>12, <1>13, <1>14 DEF Work, AsSaid
  <1> QED BY <1>15 DEF v, a

(* The parent of a row as a transaction sees it.                             *)
ParentOf(w, rows, i) ==
    IF <<i, "parent">> \in DOMAIN w.set THEN w.set[<<i, "parent">>]
    ELSE IF i \in DOMAIN w.new THEN w.new[i].parent ELSE rows[i].parent

AreMine(A, w, rows) ==
    /\ DOMAIN A = (DOMAIN rows \cup DOMAIN w.new) \ w.gone
    /\ \A i \in DOMAIN A : /\ A[i].parent = ParentOf(w, rows, i)
                           /\ A[i].key = IF i \in DOMAIN w.new THEN w.new[i].key ELSE rows[i].key

LEMMA MineRows ==
    ASSUME NEW rows, NEW w, NEW ids, RowsTyped(rows, ids), WritesTyped(w, ids)
    PROVE  AreMine(Applied(w, rows), w, rows)
  <1>1. DOMAIN Applied(w, rows) = (DOMAIN rows \cup DOMAIN w.new) \ w.gone
    BY DEF Applied
  <1>2. ASSUME NEW i \in DOMAIN Applied(w, rows)
        PROVE  /\ Applied(w, rows)[i].parent = ParentOf(w, rows, i)
               /\ Applied(w, rows)[i].key = IF i \in DOMAIN w.new THEN w.new[i].key ELSE rows[i].key
    <2> DEFINE row == IF i \in DOMAIN w.new THEN w.new[i] ELSE rows[i]
    <2>1. Applied(w, rows)[i] = Over(w, i, row)
      BY DEF Applied
    <2>2. row \in Menu
      BY <1>1 DEF RowsTyped, WritesTyped
    <2>3. Over(w, i, row).key = row.key
      BY <2>2, OverTyped
    <2>4. Over(w, i, row).parent = IF <<i, "parent">> \in DOMAIN w.set THEN w.set[<<i, "parent">>] ELSE row.parent
      <3> HIDE DEF row
      <3> QED BY <2>2 DEF Over, SetIn, Menu, Columns
    <2> QED BY <2>1, <2>3, <2>4 DEF ParentOf
  <1> QED BY <1>1, <1>2 DEF AreMine

LEMMA ParentTyped ==
    ASSUME NEW rows, NEW w, NEW ids, RowsTyped(rows, ids), WritesTyped(w, ids), NEW i \in DOMAIN rows \cup DOMAIN w.new
    PROVE  /\ ParentOf(w, rows, i) \in MenuIds \cup {Root}
           /\ ParentOf(w, rows, i) \in Parents(w) \cup {Root} \/ (i \in DOMAIN rows /\ ParentOf(w, rows, i) = rows[i].parent)
  <1>1. CASE <<i, "parent">> \in DOMAIN w.set
    <2>1. ParentOf(w, rows, i) = w.set[<<i, "parent">>] /\ w.set[<<i, "parent">>] \in Names_(w)
      BY <1>1 DEF ParentOf, Names_
    <2>2. w.set[<<i, "parent">>] \in MenuIds \cup {Root}
      BY <1>1 DEF WritesTyped, Values
    <2> QED BY <2>1, <2>2 DEF Parents
  <1>2. CASE <<i, "parent">> \notin DOMAIN w.set /\ i \in DOMAIN w.new
    <2>1. ParentOf(w, rows, i) = w.new[i].parent /\ w.new[i].parent \in Names_(w)
      BY <1>2 DEF ParentOf, Names_
    <2>2. w.new[i].parent \in MenuIds \cup {Root}
      BY <1>2 DEF WritesTyped, RowsTyped, Menu
    <2> QED BY <2>1, <2>2 DEF Parents
  <1>3. CASE <<i, "parent">> \notin DOMAIN w.set /\ i \notin DOMAIN w.new
    BY <1>3 DEF ParentOf, RowsTyped, Menu
  <1> QED BY <1>1, <1>2, <1>3

(* A transaction commits; the tree that another one sees stays a tree.       *)
LEMMA TreeAfterCommit ==
    ASSUME NEW rows, NEW v, NEW w, NEW ids, RowsTyped(rows, ids), WritesTyped(v, ids), WritesTyped(w, ids),
           ParentsExist(Applied(v, rows)), ParentsExist(Applied(w, rows)),
           Writes(w) \cap (Writes(v) \cup Parents(v)) = {}, Writes(v) \cap Parents(w) = {}
    PROVE  ParentsExist(Applied(w, Applied(v, rows)))
  <1> DEFINE V == Applied(v, rows)
             W == Applied(w, rows)
             B == Applied(w, V)
  <1>1. RowsTyped(V, ids)
    BY MineTyped
  <1>0. AreMine(V, v, rows) /\ AreMine(W, w, rows) /\ AreMine(B, w, V)
    <2>1. AreMine(V, v, rows) /\ AreMine(W, w, rows)
      BY MineRows
    <2> HIDE DEF V
    <2>2. AreMine(B, w, V)
      BY <1>1, MineRows
    <2> QED BY <2>1, <2>2
  <1> HIDE DEF V, W, B
  <1>2. DOMAIN V = (DOMAIN rows \cup DOMAIN v.new) \ v.gone /\ DOMAIN W = (DOMAIN rows \cup DOMAIN w.new) \ w.gone
    BY <1>0 DEF AreMine
  <1>3. DOMAIN B = (DOMAIN V \cup DOMAIN w.new) \ w.gone
        /\ \A j \in DOMAIN B : B[j].parent = ParentOf(w, V, j)
    BY <1>0 DEF AreMine
  <1>4. /\ \A j \in DOMAIN V : V[j].parent = ParentOf(v, rows, j)
        /\ \A j \in DOMAIN W : W[j].parent = ParentOf(w, rows, j)
    BY <1>0 DEF AreMine
  <1>5. /\ \A j \in DOMAIN V : V[j].parent \in DOMAIN V \cup {Root}
        /\ \A j \in DOMAIN W : W[j].parent \in DOMAIN W \cup {Root}
    BY DEF ParentsExist, V, W
  <1>6. /\ DOMAIN v.new \subseteq Writes(v) /\ v.gone \subseteq Writes(v) /\ w.gone \subseteq Writes(w)
        /\ DOMAIN w.new \subseteq Writes(w) /\ \A j, c : <<j, c>> \in DOMAIN w.set => j \in Writes(w)
    <2>1. ASSUME NEW j, NEW c, <<j, c>> \in DOMAIN w.set
          PROVE  j \in Writes(w)
      <3>1. <<j, c>>[1] = j
        OBVIOUS
      <3> QED BY <2>1, <3>1 DEF Writes
    <2> QED BY <2>1 DEF Writes
  <1>7. ASSUME NEW j \in DOMAIN B, ParentOf(w, V, j) # Root
        PROVE  ParentOf(w, V, j) \in DOMAIN B
    <2> DEFINE p == ParentOf(w, V, j)
    <2>1. j \in DOMAIN V \cup DOMAIN w.new /\ p \in MenuIds
      BY <1>1, <1>3, <1>7, ParentTyped
    <2>2. CASE <<j, "parent">> \in DOMAIN w.set \/ j \in DOMAIN w.new
      <3>1. j \in DOMAIN W
        BY <1>2, <1>3, <1>6, <2>2
      <3>2. p = ParentOf(w, rows, j)
        BY <2>2 DEF ParentOf
      <3>3. p \in DOMAIN W
        BY <1>4, <1>5, <1>7, <3>1, <3>2
      <3>4. p \in Parents(w)
        <4>1. CASE <<j, "parent">> \in DOMAIN w.set
          BY <2>1, <4>1 DEF ParentOf, Parents, Names_
        <4>2. CASE <<j, "parent">> \notin DOMAIN w.set /\ j \in DOMAIN w.new
          BY <2>1, <4>2 DEF ParentOf, Parents, Names_
        <4> QED BY <2>2, <4>1, <4>2
      <3> QED BY <1>2, <1>3, <1>6, <3>3, <3>4
    <2>3. CASE <<j, "parent">> \notin DOMAIN w.set /\ j \notin DOMAIN w.new
      <3>1. j \in DOMAIN V /\ p = V[j].parent
        BY <2>1, <2>3 DEF ParentOf
      <3>2. p \in DOMAIN V /\ p = ParentOf(v, rows, j)
        BY <1>4, <1>5, <1>7, <3>1
      <3>3. p \notin w.gone
        <4>1. j \in DOMAIN rows \cup DOMAIN v.new
          BY <1>2, <3>1
        <4>2. CASE p \in Parents(v)
          BY <1>6, <4>2
        <4>3. CASE j \in DOMAIN rows /\ p = rows[j].parent
          <5>1. j \in DOMAIN W /\ ParentOf(w, rows, j) = p
            BY <1>2, <1>3, <2>3, <4>3 DEF ParentOf
          <5> QED BY <1>2, <1>4, <1>5, <1>7, <5>1
        <4> QED BY <1>7, <3>2, <4>1, <4>2, <4>3, ParentTyped
      <3> QED BY <1>3, <3>2, <3>3
    <2> QED BY <2>2, <2>3
  <1>8. ParentsExist(B)
    BY <1>3, <1>7 DEF ParentsExist
  <1> QED BY <1>8 DEF B, V

(* A flush that meets no constraint leaves a tree.                           *)
LEMMA TreeAfterFlush ==
    ASSUME NEW rows, NEW w, NEW a, NEW ids, NEW A, A = Applied(w, rows),
           RowsTyped(rows, ids), WritesTyped(w, ids), WritesTyped(a, ids \cup DOMAIN a.new), DOMAIN a.new \cap ids = {},
           a.gone = {} \/ (DOMAIN a.new = {} /\ DOMAIN a.set = {}),
           ParentsExist(A), Parents(a) \subseteq DOMAIN A,
           \A i \in a.gone, j \in DOMAIN A \ a.gone : A[j].parent # i
    PROVE  ParentsExist(Applied(Joined(w, a), rows))
  <1> DEFINE x == Joined(w, a)
             B == Applied(x, rows)
             more == ids \cup DOMAIN a.new
  <1>1. RowsTyped(rows, more) /\ WritesTyped(w, more)
    BY Grows
  <1>2. WritesTyped(x, more)
    BY <1>1, JoinedTyped
  <1>3. /\ DOMAIN x.new = DOMAIN w.new \cup DOMAIN a.new /\ x.gone = w.gone \cup a.gone
        /\ \A i \in DOMAIN x.new : x.new[i] = IF i \in DOMAIN a.new THEN a.new[i] ELSE w.new[i]
        /\ DOMAIN x.set = DOMAIN w.set \cup DOMAIN a.set
        /\ \A i \in DOMAIN x.set : x.set[i] = IF i \in DOMAIN a.set THEN a.set[i] ELSE w.set[i]
    BY DEF Joined
  <1> HIDE DEF x
  <1>4. DOMAIN B = (DOMAIN rows \cup DOMAIN x.new) \ x.gone /\ \A j \in DOMAIN B : B[j].parent = ParentOf(x, rows, j)
    <2>1. AreMine(B, x, rows)
      BY <1>1, <1>2, MineRows
    <2> HIDE DEF B
    <2> QED BY <2>1 DEF AreMine
  <1>5. DOMAIN A = (DOMAIN rows \cup DOMAIN w.new) \ w.gone /\ \A j \in DOMAIN A : A[j].parent = ParentOf(w, rows, j)
    <2>1. AreMine(A, w, rows)
      BY MineRows
    <2> QED BY <2>1 DEF AreMine
  <1>6. /\ \A j \in DOMAIN A : A[j].parent \in DOMAIN A \cup {Root}
        /\ w.gone \subseteq ids /\ (\A c : \A j \in DOMAIN a.new : <<j, c>> \notin DOMAIN w.set)
    BY DEF ParentsExist, WritesTyped
  <1> HIDE DEF B, more
  <1>7. ASSUME NEW j \in DOMAIN B, ParentOf(x, rows, j) # Root
        PROVE  ParentOf(x, rows, j) \in DOMAIN B
    <2> DEFINE p == ParentOf(x, rows, j)
    <2>1. p \in MenuIds
      BY <1>1, <1>2, <1>4, <1>7, ParentTyped
    <2>2. CASE DOMAIN a.new = {} /\ DOMAIN a.set = {}
      <3>1. j \in DOMAIN A /\ j \notin a.gone /\ DOMAIN B = DOMAIN A \ a.gone
        BY <1>3, <1>4, <1>5, <2>2
      <3>2. p = A[j].parent
        BY <1>3, <1>5, <2>2, <3>1 DEF ParentOf
      <3> QED BY <1>6, <1>7, <3>1, <3>2
    <2>3. CASE a.gone = {}
      <3>1. DOMAIN B = DOMAIN A \cup DOMAIN a.new
        BY <1>3, <1>4, <1>5, <1>6, <2>3
      <3>2. CASE <<j, "parent">> \in DOMAIN a.set
        <4>1. p \in Parents(a)
          BY <1>3, <2>1, <3>2 DEF ParentOf, Parents, Names_
        <4> QED BY <3>1, <4>1
      <3>3. CASE <<j, "parent">> \notin DOMAIN a.set /\ j \in DOMAIN a.new
        <4>1. p = a.new[j].parent
          BY <1>3, <1>6, <3>3 DEF ParentOf
        <4>2. p \in Parents(a)
          BY <2>1, <3>3, <4>1 DEF Parents, Names_
        <4> QED BY <3>1, <4>2
      <3>4. CASE <<j, "parent">> \notin DOMAIN a.set /\ j \notin DOMAIN a.new
        <4>1. j \in DOMAIN A
          BY <3>1, <3>4
        <4>2. p = A[j].parent
          BY <1>3, <1>5, <3>4, <4>1 DEF ParentOf
        <4> QED BY <1>6, <1>7, <3>1, <4>1, <4>2
      <3> QED BY <3>2, <3>3, <3>4
    <2> QED BY <2>2, <2>3
  <1>8. ParentsExist(B)
    BY <1>4, <1>7 DEF ParentsExist
  <1> QED BY <1>8 DEF B, x

LEMMA TreeAfterNothing ==
    ASSUME NEW rows, NEW ids, RowsTyped(rows, ids), ParentsExist(rows)
    PROVE  ParentsExist(Applied(NoWrites, rows))
  <1>1. WritesTyped(NoWrites, ids)
    BY NothingTyped
  <1>2. DOMAIN NoWrites.new = {} /\ NoWrites.gone = {} /\ DOMAIN NoWrites.set = {}
    BY DEF NoWrites, NoRows
  <1>3. \A i \in DOMAIN rows : ParentOf(NoWrites, rows, i) = rows[i].parent
    BY <1>2 DEF ParentOf
  <1>4. DOMAIN Applied(NoWrites, rows) = DOMAIN rows
        /\ \A i \in DOMAIN rows : Applied(NoWrites, rows)[i].parent = rows[i].parent
    <2> DEFINE A == Applied(NoWrites, rows)
    <2>1. AreMine(A, NoWrites, rows)
      BY <1>1, MineRows
    <2> HIDE DEF A
    <2>2. DOMAIN A = DOMAIN rows /\ \A i \in DOMAIN rows : A[i].parent = rows[i].parent
      BY <1>2, <1>3, <2>1 DEF AreMine
    <2> QED BY <2>2 DEF A
  <1> QED BY <1>4 DEF ParentsExist

LEMMA RowsAgree ==
    /\ \A s, k : RowsOf(s, k) = RowsAt(saw[s], pend[s], k)
    /\ \A s, k : IdOf(s, k) = IdAt(saw[s], pend[s], k)
    /\ \A s, n : Wanted(s, n) = Meant(saw[s], pend[s], n)
  <1>1. \A s, k : RowsOf(s, k) = RowsAt(saw[s], pend[s], k)
    BY DEF RowsOf, RowsAt
  <1>2. ASSUME NEW s, NEW k
        PROVE  IdOf(s, k) = IdAt(saw[s], pend[s], k)
    <2>1. RowsOf(s, k) = RowsAt(saw[s], pend[s], k)
      BY <1>1
    <2> QED BY <2>1 DEF IdOf, IdAt
  <1>3. \A s, n : Wanted(s, n) = Meant(saw[s], pend[s], n)
    BY <1>2 DEF Wanted, Meant
  <1> QED BY <1>1, <1>2, <1>3

(* Of a seed: nothing is written before it has read; then its work.          *)
Works(s) == at[s] \in {"seed", "commit"}

OwnInv(s) ==
    /\ ~Works(s) => pend[s] = NoWrites
    /\ Works(s) \/ at[s] = "lock" => Underway(job[s])
    /\ at[s] = "lock" => job[s].left = job[s].manifest
    /\ Works(s) => Work(job[s].manifest, Passed(job[s]), saw[s], pend[s])
    /\ at[s] = "commit" => job[s].left = <<>> /\ Leaves(s) = {}

Progress == \A s \in Seeds : OwnInv(s)

LEMMA RollbackData ==
    ASSUME Functional, Data, NEW t \in Tasks, Rollback(t)
    PROVE  Data'
  <1>1. \A u \in Tasks : saw'[u] = (IF u = t THEN NoRows ELSE saw[u]) /\ pend'[u] = (IF u = t THEN NoWrites ELSE pend[u])
                         /\ job'[u] = (IF u = t THEN None ELSE job[u])
    BY DEF Rollback, Leave, Functional, Data
  <1>2. menus' = menus /\ used' = used /\ DOMAIN job' = Tasks /\ DOMAIN changed' = Tasks
    BY DEF Rollback, Leave, Data
  <1>3. \A u \in Tasks : changed'[u] \subseteq MenuIds
    BY DEF Rollback, Data
  <1>4. \A u \in Tasks : at'[u] \in {"lock", "write"} => u # t /\ at'[u] = at[u]
    BY DEF Rollback, Leave, Goto, Functional
  <1>5. \A u \in Tasks : RowsTyped(saw'[u], used') /\ WritesTyped(pend'[u], used')
    BY <1>1, <1>2, NothingTyped DEF Data
  <1>6. \A e \in Edits : at'[e] \in {"lock", "write"} => Request(job'[e], used')
    BY <1>1, <1>2, <1>4, TasksAssumption DEF Data
  <1> QED BY <1>2, <1>3, <1>5, <1>6 DEF Data

LEMMA CommitData ==
    ASSUME Functional, Data, NEW t \in Tasks, Commit(t)
    PROVE  Data'
  <1>1. \A u \in Tasks : saw'[u] = (IF u = t THEN NoRows ELSE saw[u]) /\ pend'[u] = (IF u = t THEN NoWrites ELSE pend[u])
                         /\ job'[u] = (IF u = t THEN None ELSE job[u])
    BY DEF Commit, Leave, Functional, Data
  <1>2. used' = used /\ DOMAIN job' = Tasks /\ DOMAIN changed' = Tasks
    BY DEF Commit, Leave, Data
  <1>3. \A u \in Tasks : changed'[u] \subseteq MenuIds
    <2>1. Writes(pend[t]) \subseteq MenuIds
      BY WritesUsed DEF Data
    <2> QED BY <2>1 DEF Commit, Data
  <1>4. \A u \in Tasks : at'[u] \in {"lock", "write"} => u # t /\ at'[u] = at[u]
    BY DEF Commit, Leave, Goto, Functional
  <1>5. \A u \in Tasks : RowsTyped(saw'[u], used') /\ WritesTyped(pend'[u], used')
    BY <1>1, <1>2, NothingTyped DEF Data
  <1>6. \A e \in Edits : at'[e] \in {"lock", "write"} => Request(job'[e], used')
    BY <1>1, <1>2, <1>4, TasksAssumption DEF Data
  <1>7. RowsTyped(menus', used')
    BY <1>2, MineTyped DEF Commit, Mine, Data
  <1> QED BY <1>2, <1>3, <1>5, <1>6, <1>7 DEF Data

LEMMA FlushData ==
    ASSUME Functional, Data, NEW t \in Tasks, NEW w, NEW where, NEW rest, Flush(t, w, where, rest),
           WritesTyped(w, used \cup DOMAIN w.new), DOMAIN w.new \subseteq MenuIds, where \notin {"lock", "write"}
    PROVE  Data'
  <1>1. CASE Rollback(t)
    BY <1>1, RollbackData
  <1>2. CASE /\ Add(t, w) /\ used' = used \cup DOMAIN w.new
             /\ Goto(t, where) /\ job' = [job EXCEPT ![t] = rest]
             /\ UNCHANGED saw /\ Quiet
    <2>1. pend' = [pend EXCEPT ![t] = Joined(pend[t], w)]
      BY <1>2, AddJoins
    <2>2. /\ \A rows : RowsTyped(rows, used) => RowsTyped(rows, used')
          /\ \A v : WritesTyped(v, used) => WritesTyped(v, used')
          /\ \A q : Request(q, used) => Request(q, used')
      BY <1>2, Grows
    <2>3. WritesTyped(Joined(pend[t], w), used')
      BY <1>2, <2>2, JoinedTyped DEF Data
    <2>4. \A u \in Tasks : WritesTyped(pend'[u], used') /\ RowsTyped(saw'[u], used')
      BY <1>2, <2>1, <2>2, <2>3 DEF Data, Functional
    <2>5. \A e \in Edits : at'[e] \in {"lock", "write"} => Request(job'[e], used')
      BY <1>2, <2>2, TasksAssumption DEF Data, Goto, Functional
    <2>6. used' \subseteq MenuIds /\ RowsTyped(menus', used') /\ DOMAIN job' = Tasks /\ changed' = changed
      BY <1>2, <2>2 DEF Data, Quiet
    <2> QED BY <2>4, <2>5, <2>6 DEF Data
  <1> QED BY <1>1, <1>2 DEF Flush

(* The row of a key that has been passed.                                    *)
LEMMA RowsOfTyped ==
    ASSUME Data, NEW s \in Seeds, NEW k \in Keys, RowsOf(s, k) # {}
    PROVE  IdOf(s, k) \in RowsOf(s, k) /\ IdOf(s, k) \in used /\ IdOf(s, k) \in MenuIds
  <1>1. RowsOf(s, k) \subseteq used /\ used \subseteq MenuIds
    BY TasksAssumption DEF RowsOf, Data, RowsTyped, WritesTyped
  <1>2. IdOf(s, k) \in RowsOf(s, k)
    BY MenusAssumption DEF IdOf
  <1> QED BY <1>1, <1>2

(* The next node: it is not among those passed, its parent is.               *)
NextIs(j, n, rest) ==
    /\ n \in Node /\ Underway(rest) /\ rest.manifest = j.manifest
    /\ n.key \notin PassedKeys(j) /\ (n.parent # None => n.parent \in PassedKeys(j))
    /\ \E y \in DOMAIN j.manifest \ Passed(j) :
          n = j.manifest[y] /\ Passed(rest) = Passed(j) \cup {y} /\ Passed(j) \subseteq DOMAIN j.manifest

LEMMA NextNode ==
    ASSUME NEW j, NEW n, NEW rest, Underway(j), j.left # <<>>, n = Head(j.left),
           rest = [manifest |-> j.manifest, left |-> Tail(j.left)]
    PROVE  NextIs(j, n, rest)
  <1> DEFINE m == j.manifest
             left == j.left
             d == Len(m) - Len(left)
             y == d + 1
  <1>1. m \in Manifests /\ m \in Seq(Node) /\ left \in Seq(Node) /\ Len(left) =< Len(m)
    BY ManifestsAssumption DEF Underway
  <1>2. Len(left) \in Nat /\ Len(left) >= 1 /\ Len(m) \in Nat /\ DOMAIN m = 1 .. Len(m) /\ DOMAIN left = 1 .. Len(left)
    BY <1>1
  <1>3. d \in Nat /\ y \in DOMAIN m /\ Passed(j) = 1 .. d /\ y \notin Passed(j) /\ Passed(j) \subseteq DOMAIN m
    <2>1. d \in Nat /\ d + 1 =< Len(m)
      BY <1>1, <1>2
    <2>2. Passed(j) = 1 .. d
      BY DEF Passed
    <2> HIDE DEF d
    <2> QED BY <1>2, <2>1, <2>2
  <1>4. Head(left) = left[1] /\ left[1] = m[y] /\ m[y] \in Node
    BY <1>1, <1>2, <1>3 DEF Underway
  <1>5. Tail(left) \in Seq(Node) /\ Len(Tail(left)) = Len(left) - 1
        /\ \A x \in 1 .. Len(left) - 1 : Tail(left)[x] = left[x + 1]
    BY <1>1, <1>2
  <1>6. rest.manifest = m /\ rest.left = Tail(left) /\ rest \in [manifest : Manifests, left : Seq(Node)]
    BY <1>1, <1>5 DEF Underway
  <1>7. Underway(rest)
    <2>1. ASSUME NEW x \in 1 .. Len(Tail(left))
          PROVE  Tail(left)[x] = m[x + (Len(m) - Len(Tail(left)))]
      <3>1. x + 1 \in 1 .. Len(left) /\ (x + 1) + d = x + (Len(m) - Len(Tail(left)))
        <4> DEFINE a == Len(m)
                   b == Len(left)
                   c == Len(Tail(left))
        <4>1. a \in Nat /\ b \in Nat /\ c = b - 1 /\ x \in 1 .. c /\ d = a - b
          BY <1>2, <1>5
        <4> HIDE DEF a, b, c, d
        <4>2. x \in Nat /\ x =< b - 1 /\ x >= 1
          BY <4>1
        <4>3. x + 1 \in 1 .. b
          BY <4>1, <4>2
        <4>4. (x + 1) + d = x + (a - c)
          BY <4>1, <4>2
        <4> QED BY <4>3, <4>4 DEF a, b, c
      <3>2. left[x + 1] = m[(x + 1) + d]
        BY <3>1 DEF Underway
      <3> QED BY <1>2, <1>5, <3>1, <3>2
    <2> QED BY <1>2, <1>5, <1>6, <2>1 DEF Underway
  <1>8. Passed(rest) = Passed(j) \cup {y}
    <2>1. Passed(rest) = 1 .. Len(m) - (Len(left) - 1)
      BY <1>5, <1>6 DEF Passed
    <2>2. Len(m) - (Len(left) - 1) = d + 1
      BY <1>2
    <2>3. d \in Nat /\ Passed(j) = 1 .. d
      BY <1>3
    <2> HIDE DEF d
    <2>4. Passed(rest) = 1 .. d + 1
      BY <2>1, <2>2
    <2>5. 1 .. d + 1 = (1 .. d) \cup {d + 1}
      BY <2>3
    <2> QED BY <2>3, <2>4, <2>5
  <1>9. /\ \A x, z \in DOMAIN m : x # z => m[x].key # m[z].key
        /\ \A x \in DOMAIN m : m[x].parent # None => \E z \in DOMAIN m : z < x /\ m[z].key = m[x].parent
    BY <1>1, ManifestsAssumption
  <1>10. m[y].key \notin {m[z].key : z \in Passed(j)}
    BY <1>3, <1>9
  <1>11. m[y].parent # None => m[y].parent \in {m[z].key : z \in Passed(j)}
    <2>1. SUFFICES ASSUME m[y].parent # None
                   PROVE  m[y].parent \in {m[z].key : z \in Passed(j)}
      OBVIOUS
    <2>2. PICK z \in DOMAIN m : z < y /\ m[z].key = m[y].parent
      BY <1>3, <1>9, <2>1
    <2>3. z \in 1 .. d
      <3>1. d \in Nat /\ z \in 1 .. Len(m) /\ Len(m) \in Nat /\ z < d + 1
        BY <1>2, <1>3, <2>2
      <3> HIDE DEF d
      <3> QED BY <3>1
    <2> QED BY <1>3, <2>2, <2>3
  <1> HIDE DEF y, d
  <1>12. m[y].key \notin PassedKeys(j) /\ (m[y].parent # None => m[y].parent \in PassedKeys(j))
    BY <1>10, <1>11 DEF PassedKeys, KeysIn
  <1> QED BY <1>3, <1>4, <1>6, <1>7, <1>8, <1>12 DEF NextIs

(* What the steps of a seed write has its types.                             *)
LEMMA SeedWrites ==
    ASSUME Data, NEW s \in Seeds, NEW n \in Node,
           n.parent = None \/ RowsOf(s, n.parent) # {}
    PROVE  /\ RowsOf(s, n.key) # {} => WritesTyped(Assign(s, n, IdOf(s, n.key)), used)
           /\ \A i : WritesTyped(Insertion(s, n, i), used \cup {i})
           /\ WritesTyped([NoWrites EXCEPT !.gone = Leaves(s)], used)
  <1>1. n.key \in Keys /\ n.parent \in Keys \cup {None} /\ n.type \in {"page", "button"}
    BY DEF Node
  <1>2. IdOf(s, n.parent) \in MenuIds \cup {Root}
    <2>1. CASE n.parent = None
      BY <2>1 DEF IdOf
    <2>2. CASE n.parent # None
      BY <1>1, <2>2, RowsOfTyped
    <2> QED BY <2>1, <2>2
  <1>3. \A c \in Columns : Wanted(s, n)[c] \in Values(c)
    BY <1>1, <1>2 DEF Wanted, Values, Columns
  <1>4. ASSUME RowsOf(s, n.key) # {}
        PROVE  WritesTyped(Assign(s, n, IdOf(s, n.key)), used)
    <2> DEFINE i == IdOf(s, n.key)
               w == Assign(s, n, i)
    <2>1. i \in used
      BY <1>1, <1>4, RowsOfTyped
    <2> HIDE DEF i
    <2>2. DOMAIN w.new = {} /\ w.gone = {} /\ w.set = [x \in {i} \X Differing(s, n, i) |-> Wanted(s, n)[x[2]]]
      BY DEF Assign, NoWrites, NoRows
    <2>3. Differing(s, n, i) \subseteq Columns
      BY DEF Differing
    <2> HIDE DEF w
    <2>4. WritesTyped(w, used)
      BY <1>3, <2>1, <2>2, <2>3 DEF WritesTyped, RowsTyped
    <2> QED BY <2>4 DEF w, i
  <1>5. ASSUME NEW i
        PROVE  WritesTyped(Insertion(s, n, i), used \cup {i})
    <2> DEFINE row == [key |-> n.key, parent |-> IdOf(s, n.parent), type |-> n.type, status |-> "active"]
    <2>1. row \in Menu
      BY <1>1, <1>2 DEF Menu
    <2>2. Insertion(s, n, i).new = [j \in {i} |-> row] /\ DOMAIN Insertion(s, n, i).set = {} /\ Insertion(s, n, i).gone = {}
      BY DEF Insertion, NoWrites, NoRows
    <2> HIDE DEF row
    <2> QED BY <2>1, <2>2 DEF WritesTyped, RowsTyped
  <1>6. WritesTyped([NoWrites EXCEPT !.gone = Leaves(s)], used)
    <2>1. Leaves(s) \subseteq used
      BY TasksAssumption DEF Leaves, Stale, Data, RowsTyped
    <2> QED BY <2>1 DEF WritesTyped, RowsTyped, NoWrites, NoRows
  <1> QED BY <1>4, <1>5, <1>6

(* And so does what the steps of an edit write.                              *)
LEMMA EditWrites ==
    ASSUME Data, NEW e \in Edits, Request(job[e], used)
    PROVE  /\ job[e].op = "update" => WritesTyped(Update(e), used)
           /\ WritesTyped([NoWrites EXCEPT !.gone = {job[e].id} \cap DOMAIN menus], used)
           /\ job[e].op = "create" => \A i : WritesTyped([NoWrites EXCEPT !.new = [j \in {i} |->
                 [key |-> None, parent |-> job[e].parent, type |-> job[e].type, status |-> "active"]]], used \cup {i})
  <1>1. ASSUME job[e].op = "update"
        PROVE  WritesTyped(Update(e), used)
    <2> DEFINE q == job[e]
               differs == {c \in Columns : q[c] # None /\ q[c] # saw[e][q.id][c]}
    <2>1. q.id \in used /\ \A c \in Columns : q[c] # None => q[c] \in Values(c)
      BY <1>1 DEF Request
    <2>2. Update(e).set = [x \in {q.id} \X differs |-> q[x[2]]] /\ DOMAIN Update(e).new = {} /\ Update(e).gone = {}
      BY DEF Update, NoWrites, NoRows
    <2>3. \A c \in differs : c \in Columns /\ q[c] \in Values(c)
      BY <2>1
    <2> HIDE DEF q, differs
    <2> QED BY <2>1, <2>2, <2>3 DEF WritesTyped, RowsTyped
  <1>2. WritesTyped([NoWrites EXCEPT !.gone = {job[e].id} \cap DOMAIN menus], used)
    BY DEF WritesTyped, RowsTyped, NoWrites, NoRows, Data
  <1>3. ASSUME job[e].op = "create", NEW i
        PROVE  WritesTyped([NoWrites EXCEPT !.new = [j \in {i} |->
                 [key |-> None, parent |-> job[e].parent, type |-> job[e].type, status |-> "active"]]], used \cup {i})
    <2> DEFINE row == [key |-> None, parent |-> job[e].parent, type |-> job[e].type, status |-> "active"]
               w == [NoWrites EXCEPT !.new = [j \in {i} |-> row]]
    <2>1. row \in Menu
      BY <1>3 DEF Menu, Request
    <2>2. w.new = [j \in {i} |-> row] /\ DOMAIN w.set = {} /\ w.gone = {}
      BY DEF NoWrites, NoRows
    <2> HIDE DEF row, w
    <2>3. WritesTyped(w, used \cup {i})
      BY <2>1, <2>2 DEF WritesTyped, RowsTyped
    <2> QED BY <2>3 DEF w, row
  <1> QED BY <1>1, <1>2, <1>3

LEMMA RequestsTyped ==
    ASSUME Data, NEW q \in Requests
    PROVE  Request(q, used) /\ RowsTyped([i \in {q.id} \cap MenuIds |-> menus[i]], used)
  <1>1. \A i \in DOMAIN menus : i \in used /\ i \in MenuIds /\ menus[i] \in Menu
    BY DEF Data, RowsTyped
  <1>2. PICK asks, i, p, y, v : q = Ask(asks, i, p, y, v)
            /\ \/ asks = "create" /\ i = None /\ p \in DOMAIN menus \cup {Root} /\ y = "page"
               \/ /\ asks = "update" /\ i \in DOMAIN menus /\ p \in DOMAIN menus \cup {Root, None}
                  /\ y \in {"page", "button", None} /\ v \in {"disabled", None}
               \/ asks = "delete" /\ i \in DOMAIN menus
    BY DEF Requests
  <1>3. q.op = asks /\ q.id = i /\ q.parent = p /\ q.type = y /\ q.status = v
    BY <1>2 DEF Ask
  <1>4. Request(q, used)
    BY <1>1, <1>2, <1>3, MenusAssumption DEF Request, Columns, Values
  <1>5. \A j \in {q.id} \cap MenuIds : j \in DOMAIN menus
    BY <1>1, <1>2, <1>3, MenusAssumption
  <1> QED BY <1>1, <1>4, <1>5 DEF RowsTyped

(* The next node of a seed, and its parent, when it comes to it.             *)
LEMMA UpsertNode ==
    ASSUME Data, Progress, NEW s \in Seeds, at[s] = "seed", job[s].left # <<>>,
           NEW n, n = Head(job[s].left),
           NEW rest, rest = [manifest |-> job[s].manifest, left |-> Tail(job[s].left)]
    PROVE  NextIs(job[s], n, rest) /\ n \in Node /\ (n.parent = None \/ RowsOf(s, n.parent) # {})
  <1>1. Underway(job[s]) /\ AsSaid(job[s].manifest, Passed(job[s]), saw[s], pend[s])
    BY DEF Progress, OwnInv, Works, Work
  <1>2. NextIs(job[s], n, rest)
    BY <1>1, NextNode
  <1>3. ASSUME n.parent # None
        PROVE  RowsOf(s, n.parent) # {}
    <2>1. PICK z \in Passed(job[s]) : n.parent = job[s].manifest[z].key
      BY <1>2, <1>3 DEF NextIs, PassedKeys, KeysIn
    <2> QED BY <1>1, <2>1, RowsAgree DEF AsSaid
  <1> QED BY <1>2, <1>3 DEF NextIs

(* What a flush may be asked to write.                                       *)
Proper(w) ==
    /\ WritesTyped(w, used \cup DOMAIN w.new) /\ DOMAIN w.new \subseteq MenuIds \ used
    /\ w.gone = {} \/ (DOMAIN w.new = {} /\ DOMAIN w.set = {})

LEMMA UpsertFlushes ==
    ASSUME Data, Progress, NEW s \in Seeds, Upsert(s)
    PROVE  \E w, rest : Flush(s, w, "seed", rest) /\ Proper(w)
  <1> DEFINE n == Head(job[s].left)
             rest == [manifest |-> job[s].manifest, left |-> Tail(job[s].left)]
  <1>1. s \in Tasks /\ n \in Node /\ (n.parent = None \/ RowsOf(s, n.parent) # {})
    <2>1. at[s] = "seed" /\ job[s].left # <<>> /\ s \in Tasks
      BY TasksAssumption DEF Upsert
    <2> HIDE DEF n, rest
    <2>2. n = Head(job[s].left) /\ rest = [manifest |-> job[s].manifest, left |-> Tail(job[s].left)]
      BY DEF n, rest
    <2> QED BY <2>1, <2>2, UpsertNode
  <1> HIDE DEF rest
  <1>2. \/ RowsOf(s, n.key) # {} /\ Flush(s, Assign(s, n, IdOf(s, n.key)), "seed", rest)
        \/ \E i \in MenuIds \ used : Flush(s, Insertion(s, n, i), "seed", rest)
    BY DEF Upsert, rest
  <1> HIDE DEF n
  <1>3. CASE RowsOf(s, n.key) # {} /\ Flush(s, Assign(s, n, IdOf(s, n.key)), "seed", rest)
    <2> DEFINE w == Assign(s, n, IdOf(s, n.key))
    <2>1. DOMAIN w.new = {} /\ w.gone = {}
      BY DEF Assign, NoWrites, NoRows
    <2>2. WritesTyped(w, used)
      BY <1>1, <1>3, SeedWrites
    <2>3. Flush(s, w, "seed", rest)
      BY <1>3
    <2> HIDE DEF w
    <2>4. Proper(w)
      BY <2>1, <2>2 DEF Proper
    <2> QED BY <2>3, <2>4
  <1>4. ASSUME NEW i \in MenuIds \ used, Flush(s, Insertion(s, n, i), "seed", rest)
        PROVE  \E w, next : Flush(s, w, "seed", next) /\ Proper(w)
    <2> DEFINE w == Insertion(s, n, i)
    <2>1. DOMAIN w.new = {i} /\ w.gone = {}
      BY DEF Insertion, NoWrites
    <2>2. WritesTyped(w, used \cup {i})
      BY <1>1, SeedWrites
    <2>3. Flush(s, w, "seed", rest)
      BY <1>4
    <2> HIDE DEF w
    <2>4. Proper(w)
      BY <2>1, <2>2 DEF Proper
    <2> QED BY <2>3, <2>4
  <1> QED BY <1>2, <1>3, <1>4

LEMMA PruneFlushes ==
    ASSUME Data, Progress, NEW s \in Seeds, Prune(s)
    PROVE  \/ \E w, rest : Flush(s, w, "seed", rest) /\ Proper(w)
           \/ Goto(s, "commit") /\ UNCHANGED <<used, pend, saw, job>> /\ Quiet
  <1> DEFINE w == [NoWrites EXCEPT !.gone = Leaves(s)]
  <1>1. DOMAIN w.new = {} /\ DOMAIN w.set = {} /\ w.gone = Leaves(s)
    BY DEF NoWrites, NoRows
  <1>2. Leaves(s) \subseteq used
    BY TasksAssumption DEF Leaves, Stale, Data, RowsTyped
  <1>3. \/ Flush(s, w, "seed", job[s])
        \/ Goto(s, "commit") /\ UNCHANGED <<used, pend, saw, job>> /\ Quiet
    BY DEF Prune
  <1> HIDE DEF w
  <1>4. Proper(w)
    BY <1>1, <1>2 DEF Proper, WritesTyped, RowsTyped
  <1> QED BY <1>3, <1>4

LEMMA WriteFlushes ==
    ASSUME Data, NEW e \in Edits, Write(e)
    PROVE  \E w, rest : Flush(e, w, "commit", rest) /\ Proper(w)
  <1> DEFINE Created(i) == [NoWrites EXCEPT !.new = [j \in {i} |->
               [key |-> None, parent |-> job[e].parent, type |-> job[e].type, status |-> "active"]]]
             Deletion == [NoWrites EXCEPT !.gone = {job[e].id} \cap DOMAIN menus]
  <1>1. Request(job[e], used)
    BY TasksAssumption DEF Write, Data
  <1>2. /\ job[e].op = "update" => WritesTyped(Update(e), used)
        /\ WritesTyped(Deletion, used)
        /\ job[e].op = "create" => \A i : WritesTyped(Created(i), used \cup {i})
    BY <1>1, EditWrites
  <1>3. /\ DOMAIN Update(e).new = {} /\ Update(e).gone = {}
        /\ DOMAIN Deletion.new = {} /\ DOMAIN Deletion.set = {}
        /\ \A i : DOMAIN Created(i).new = {i} /\ Created(i).gone = {}
    BY DEF Update, NoWrites, NoRows
  <1>4. \/ job[e].op = "create" /\ \E i \in MenuIds \ used : Flush(e, Created(i), "commit", job[e])
        \/ job[e].op = "update" /\ Flush(e, Update(e), "commit", job[e])
        \/ job[e].op = "delete" /\ Flush(e, Deletion, "commit", job[e])
    BY Zenon DEF Write
  <1> HIDE DEF Created, Deletion
  <1>5. ASSUME NEW i \in MenuIds \ used, job[e].op = "create", Flush(e, Created(i), "commit", job[e])
        PROVE  \E w, rest : Flush(e, w, "commit", rest) /\ Proper(w)
    <2> DEFINE w == Created(i)
    <2>1. DOMAIN w.new = {i} /\ w.gone = {} /\ WritesTyped(w, used \cup {i}) /\ Flush(e, w, "commit", job[e])
      BY <1>2, <1>3, <1>5
    <2> HIDE DEF w
    <2>2. Proper(w)
      BY <2>1 DEF Proper
    <2> QED BY <2>1, <2>2
  <1>6. CASE job[e].op = "update" /\ Flush(e, Update(e), "commit", job[e])
    <2>1. Proper(Update(e))
      BY <1>2, <1>3, <1>6 DEF Proper
    <2> QED BY <1>6, <2>1
  <1>7. CASE Flush(e, Deletion, "commit", job[e])
    <2>1. Proper(Deletion)
      BY <1>2, <1>3 DEF Proper
    <2> QED BY <1>7, <2>1
  <1> QED BY <1>4, <1>5, <1>6, <1>7

LEMMA NextData ==
    ASSUME Functional, Data, Progress, [Next]_vars
    PROVE  Data'
  <1>1. CASE UNCHANGED <<menus, used, pend, job, at, saw, changed>>
    BY <1>1 DEF Data
  <1>2. ASSUME NEW t \in Tasks, Commit(t) \/ Abort(t)
        PROVE  Data'
    BY <1>2, CommitData, RollbackData DEF Abort
  <1>3. ASSUME NEW s \in Seeds, NEW m \in Manifests, Begin(s, m)
        PROVE  Data'
    <2>1. s \in Tasks /\ s \notin Edits
      BY TasksAssumption
    <2> QED BY <1>3, <2>1 DEF Begin, Data, Goto, Functional
  <1>4. ASSUME NEW s \in Seeds, Load(s)
        PROVE  Data'
    <2>1. s \in Tasks /\ s \notin Edits
      BY TasksAssumption
    <2>2. RowsTyped([i \in BuiltIn(menus) |-> menus[i]], used)
      BY DEF Data, RowsTyped, BuiltIn
    <2>3. /\ saw'[s] = [i \in BuiltIn(menus) |-> menus[i]]
          /\ \A u \in Tasks \ {s} : saw'[u] = saw[u] /\ at'[u] = at[u]
          /\ menus' = menus /\ used' = used /\ job' = job /\ changed' = changed /\ pend' = pend
      BY <1>4, <2>1 DEF Load, Goto, Functional, Quiet
    <2>4. \A t \in Tasks : RowsTyped(saw'[t], used')
      BY <2>2, <2>3 DEF Data
    <2> QED BY <2>1, <2>3, <2>4, TasksAssumption DEF Data
  <1>5. ASSUME NEW s \in Seeds, Upsert(s)
        PROVE  Data'
    BY <1>5, UpsertFlushes, FlushData, TasksAssumption DEF Proper
  <1>6. ASSUME NEW s \in Seeds, Prune(s)
        PROVE  Data'
    <2>1. s \in Tasks /\ s \notin Edits
      BY TasksAssumption
    <2>2. CASE Goto(s, "commit") /\ UNCHANGED <<used, pend, saw, job>> /\ Quiet
      BY <2>1, <2>2 DEF Goto, Quiet, Data, Functional
    <2>3. CASE \E w, rest : Flush(s, w, "seed", rest) /\ Proper(w)
      BY <2>1, <2>3, FlushData DEF Proper
    <2> QED BY <1>6, <2>2, <2>3, PruneFlushes
  <1>7. ASSUME NEW e \in Edits, NEW q \in Requests, Receive(e, q)
        PROVE  Data'
    <2>1. e \in Tasks /\ Request(q, used) /\ RowsTyped([i \in {q.id} \cap MenuIds |-> menus[i]], used)
      BY RequestsTyped, TasksAssumption
    <2>2. /\ saw'[e] = [i \in {q.id} \cap MenuIds |-> menus[i]] /\ job'[e] = q /\ DOMAIN job' = Tasks
          /\ \A u \in Tasks \ {e} : saw'[u] = saw[u] /\ at'[u] = at[u] /\ job'[u] = job[u]
          /\ menus' = menus /\ used' = used /\ changed' = changed /\ pend' = pend
      BY <1>7, <2>1 DEF Receive, Goto, Functional, Data
    <2>3. \A t \in Tasks : RowsTyped(saw'[t], used')
      BY <2>1, <2>2 DEF Data
    <2>4. \A d \in Edits : at'[d] \in {"lock", "write"} => Request(job'[d], used')
      BY <2>1, <2>2, TasksAssumption DEF Data
    <2> QED BY <2>2, <2>3, <2>4 DEF Data
  <1>8. ASSUME NEW e \in Edits, Check(e)
        PROVE  Data'
    <2>1. e \in Tasks
      BY TasksAssumption
    <2>2. CASE Goto(e, "write") /\ UNCHANGED <<used, pend, saw, job>> /\ Quiet
      <3>1. \A u \in Tasks : at'[u] = at[u] \/ (u = e /\ at[e] = "lock")
        BY <1>8, <2>1, <2>2 DEF Check, Goto, Functional
      <3>2. \A d \in Edits : at'[d] \in {"lock", "write"} => at[d] \in {"lock", "write"}
        BY <3>1, TasksAssumption
      <3> QED BY <2>2, <3>2 DEF Quiet, Data
    <2> QED BY <1>8, <2>1, <2>2, RollbackData DEF Check
  <1>9. ASSUME NEW e \in Edits, Write(e)
        PROVE  Data'
    BY <1>9, WriteFlushes, FlushData, TasksAssumption DEF Proper
  <1>10. ASSUME NEW t \in Tasks, AcquireLock(t)
         PROVE  Data'
    BY <1>1, <1>10 DEF AcquireLock, menuVars
  <1>11. ASSUME NEW n \in Names, WipeLock(n)
         PROVE  Data'
    BY <1>1, <1>11 DEF WipeLock
  <1> QED BY <1>1, <1>2, <1>3, <1>4, <1>5, <1>6, <1>7, <1>8, <1>9, <1>10, <1>11 DEF Next, vars

(* A task that a step leaves alone.                                          *)
Same(u) == at'[u] = at[u] /\ job'[u] = job[u] /\ saw'[u] = saw[u] /\ pend'[u] = pend[u]

LEMMA SameKeeps ==
    ASSUME NEW s, OwnInv(s), Same(s)
    PROVE  OwnInv(s)'
  BY DEF Same, OwnInv, Works, Leaves, Stale

LEMMA LeaveIs ==
    ASSUME Functional, Data, NEW t \in Tasks, NEW commits, Leave(t, commits)
    PROVE  /\ at'[t] = (IF t \in Seeds THEN "done" ELSE "idle") /\ saw'[t] = NoRows /\ pend'[t] = NoWrites
           /\ \A u \in Tasks \ {t} : Same(u)
  BY DEF Leave, Goto, Functional, Data, Same

LEMMA FlushIs ==
    ASSUME Functional, Data, NEW t \in Tasks, NEW w, NEW where, NEW rest, Flush(t, w, where, rest)
    PROVE  /\ \A u \in Tasks \ {t} : Same(u)
           /\ Free(t, w)
           /\ \/ Rollback(t)
              \/ /\ ~Fails(t, w) /\ pend' = [pend EXCEPT ![t] = Joined(pend[t], w)] /\ used' = used \cup DOMAIN w.new
                 /\ at'[t] = where /\ job'[t] = rest /\ saw' = saw /\ menus' = menus /\ changed' = changed
  <1>1. CASE Rollback(t)
    BY <1>1, LeaveIs DEF Rollback, Flush
  <1>2. CASE /\ ~Fails(t, w) /\ Add(t, w) /\ used' = used \cup DOMAIN w.new
             /\ Goto(t, where) /\ job' = [job EXCEPT ![t] = rest] /\ UNCHANGED saw /\ Quiet
    <2>1. pend' = [pend EXCEPT ![t] = Joined(pend[t], w)]
      BY <1>2, AddJoins
    <2> QED BY <1>2, <2>1 DEF Flush, Goto, Functional, Data, Same, Quiet
  <1> QED BY <1>1, <1>2 DEF Flush

LEMMA LeftOwn ==
    ASSUME NEW s \in Seeds, at'[s] = "done", pend'[s] = NoWrites
    PROVE  OwnInv(s)'
  BY DEF OwnInv, Works

LEMMA RollbackOwn ==
    ASSUME Functional, Data, Progress, NEW t \in Tasks, Rollback(t) \/ Commit(t)
    PROVE  Progress'
  <1>1. PICK commits : Leave(t, commits)
    BY DEF Rollback, Commit
  <1>2. ASSUME NEW s \in Seeds
        PROVE  OwnInv(s)'
    <2>1. CASE s = t
      BY <1>1, <2>1, LeaveIs, LeftOwn
    <2>2. CASE s # t
      BY <1>1, <2>2, LeaveIs, SameKeeps, TasksAssumption DEF Progress
    <2> QED BY <2>1, <2>2
  <1> QED BY <1>2 DEF Progress

LEMMA OthersOwn ==
    ASSUME Progress, NEW t, \A u \in Tasks \ {t} : Same(u), t \in Edits \/ (t \in Seeds /\ OwnInv(t)')
    PROVE  Progress'
  BY SameKeeps, TasksAssumption DEF Progress

LEMMA LoadOwn ==
    ASSUME Functional, Data, Progress, KeysDiffer(menus), NEW s \in Seeds, Load(s)
    PROVE  OwnInv(s)'
  <1> DEFINE sw == [i \in BuiltIn(menus) |-> menus[i]]
  <1>1. at[s] = "lock" /\ at'[s] = "seed" /\ job'[s] = job[s] /\ pend'[s] = pend[s] /\ saw'[s] = sw
    BY TasksAssumption DEF Load, Goto, Functional
  <1>2. Underway(job[s]) /\ job[s].left = job[s].manifest /\ pend[s] = NoWrites
    BY <1>1 DEF Progress, OwnInv, Works
  <1>3. Passed(job[s]) = {}
    <2>1. Len(job[s].manifest) \in Nat
      BY <1>2, ManifestsAssumption DEF Underway
    <2>2. Len(job[s].manifest) - Len(job[s].left) = 0
      BY <1>2, <2>1
    <2>3. Passed(job[s]) = 1 .. 0
      BY <2>2 DEF Passed
    <2> QED BY <2>3
  <1>4. Work(job[s].manifest, {}, sw, NoWrites)
    BY WorkStarts DEF Data
  <1> HIDE DEF sw
  <1>5. Work(job[s].manifest, Passed(job[s]), sw, pend[s])
    BY <1>2, <1>3, <1>4
  <1> QED BY <1>1, <1>2, <1>5 DEF OwnInv, Works

LEMMA UpsertOwn ==
    ASSUME Functional, Data, Progress, NEW s \in Seeds, Upsert(s), ~Rollback(s)
    PROVE  OwnInv(s)' /\ \A u \in Tasks \ {s} : Same(u)
  <1> DEFINE n == Head(job[s].left)
             rest == [manifest |-> job[s].manifest, left |-> Tail(job[s].left)]
  <1>1. s \in Tasks /\ at[s] = "seed" /\ job[s].left # <<>>
    BY TasksAssumption DEF Upsert
  <1>2. \/ RowsOf(s, n.key) # {} /\ Flush(s, Assign(s, n, IdOf(s, n.key)), "seed", rest)
        \/ RowsOf(s, n.key) = {} /\ \E i \in MenuIds \ used : Flush(s, Insertion(s, n, i), "seed", rest)
    BY DEF Upsert
  <1>3. NextIs(job[s], n, rest) /\ n \in Node
    <2>1. n = Head(job[s].left) /\ rest = [manifest |-> job[s].manifest, left |-> Tail(job[s].left)]
      OBVIOUS
    <2> HIDE DEF n, rest
    <2> QED BY <1>1, <2>1, UpsertNode
  <1> HIDE DEF n, rest
  <1>4. PICK y \in DOMAIN job[s].manifest \ Passed(job[s]) :
           n = job[s].manifest[y] /\ Passed(rest) = Passed(job[s]) \cup {y}
    BY <1>3 DEF NextIs
  <1>5. /\ Underway(rest) /\ rest.manifest = job[s].manifest
        /\ n.key \notin KeysIn(job[s].manifest, Passed(job[s]))
        /\ n.parent # None => n.parent \in KeysIn(job[s].manifest, Passed(job[s]))
    BY <1>3 DEF NextIs, PassedKeys
  <1>6. /\ Work(job[s].manifest, Passed(job[s]), saw[s], pend[s])
        /\ RowsTyped(saw[s], used) /\ WritesTyped(pend[s], used)
    BY <1>1 DEF Progress, OwnInv, Works, Data
  <1>7. CASE RowsOf(s, n.key) # {} /\ Flush(s, Assign(s, n, IdOf(s, n.key)), "seed", rest)
    <2> DEFINE a == Assign(s, n, IdOf(s, n.key))
    <2>1. a = AssignAt(saw[s], pend[s], n) /\ RowsAt(saw[s], pend[s], n.key) # {}
      BY <1>7, RowsAgree DEF Assign, AssignAt, Differing
    <2> HIDE DEF a
    <2>2. Work(job[s].manifest, Passed(job[s]) \cup {y}, saw[s], Joined(pend[s], a))
      BY <1>3, <1>4, <1>5, <1>6, <2>1, WorkAssigns
    <2>3. Flush(s, a, "seed", rest)
      BY <1>7 DEF a
    <2>4. /\ \A u \in Tasks \ {s} : Same(u)
          /\ pend'[s] = Joined(pend[s], a) /\ at'[s] = "seed" /\ job'[s] = rest /\ saw' = saw
      BY <1>1, <2>3, FlushIs DEF Functional
    <2> QED BY <1>4, <1>5, <2>2, <2>4 DEF OwnInv, Works
  <1>8. ASSUME NEW i \in MenuIds \ used, RowsOf(s, n.key) = {}, Flush(s, Insertion(s, n, i), "seed", rest)
        PROVE  OwnInv(s)' /\ \A u \in Tasks \ {s} : Same(u)
    <2> DEFINE a == Insertion(s, n, i)
    <2>1. a = InsertionAt(saw[s], pend[s], n, i) /\ RowsAt(saw[s], pend[s], n.key) = {}
      BY <1>8, RowsAgree DEF Insertion, InsertionAt
    <2> HIDE DEF a
    <2>2. Work(job[s].manifest, Passed(job[s]) \cup {y}, saw[s], Joined(pend[s], a))
      BY <1>3, <1>4, <1>5, <1>6, <2>1, WorkInserts
    <2>3. Flush(s, a, "seed", rest)
      BY <1>8 DEF a
    <2>4. /\ \A u \in Tasks \ {s} : Same(u)
          /\ pend'[s] = Joined(pend[s], a) /\ at'[s] = "seed" /\ job'[s] = rest /\ saw' = saw
      BY <1>1, <2>3, FlushIs DEF Functional
    <2> QED BY <1>4, <1>5, <2>2, <2>4 DEF OwnInv, Works
  <1> QED BY <1>2, <1>7, <1>8

LEMMA PruneOwn ==
    ASSUME Functional, Data, Progress, NEW s \in Seeds, Prune(s), ~Rollback(s)
    PROVE  OwnInv(s)' /\ \A u \in Tasks \ {s} : Same(u)
  <1>1. s \in Tasks /\ at[s] = "seed" /\ job[s].left = <<>>
    BY TasksAssumption DEF Prune
  <1>2. Underway(job[s]) /\ Work(job[s].manifest, Passed(job[s]), saw[s], pend[s])
    BY <1>1 DEF Progress, OwnInv, Works
  <1>3. CASE Leaves(s) = {} /\ Goto(s, "commit") /\ UNCHANGED <<pend, saw, job>>
    <2>1. at'[s] = "commit" /\ \A u \in Tasks \ {s} : Same(u)
      BY <1>1, <1>3 DEF Goto, Functional, Same
    <2>2. Leaves(s)' = {}
      BY <1>3 DEF Leaves, Stale
    <2> QED BY <1>1, <1>2, <1>3, <2>1, <2>2 DEF OwnInv, Works
  <1>4. CASE Flush(s, [NoWrites EXCEPT !.gone = Leaves(s)], "seed", job[s])
    <2> DEFINE L == Leaves(s)
               a == [NoWrites EXCEPT !.gone = L]
    <2>1. \A i \in L : i \in DOMAIN saw[s] /\ saw[s][i].key \notin KeysOf(job[s].manifest)
      BY DEF Leaves, Stale
    <2> HIDE DEF L
    <2>2. Work(job[s].manifest, Passed(job[s]), saw[s], Joined(pend[s], a))
      BY <1>2, <2>1, WorkPrunes
    <2>3. Flush(s, a, "seed", job[s])
      BY <1>4 DEF L
    <2> HIDE DEF a
    <2>4. /\ \A u \in Tasks \ {s} : Same(u)
          /\ pend'[s] = Joined(pend[s], a) /\ at'[s] = "seed" /\ job'[s] = job[s] /\ saw' = saw
      BY <1>1, <2>3, FlushIs DEF Functional
    <2> QED BY <1>2, <2>2, <2>4 DEF OwnInv, Works
  <1> QED BY <1>3, <1>4 DEF Prune

LEMMA BeginOwn ==
    ASSUME Functional, Data, Progress, NEW s \in Seeds, NEW m \in Manifests, Begin(s, m)
    PROVE  OwnInv(s)' /\ \A u \in Tasks \ {s} : Same(u)
  <1> DEFINE j == [manifest |-> m, left |-> m]
  <1>1. /\ at[s] = "idle" /\ at'[s] = "lock" /\ job'[s] = j /\ pend'[s] = pend[s]
        /\ \A u \in Tasks \ {s} : Same(u)
    BY TasksAssumption DEF Begin, Goto, Functional, Data, Same
  <1>2. pend[s] = NoWrites
    BY <1>1 DEF Progress, OwnInv, Works
  <1>3. m \in Seq(Node) /\ Len(m) \in Nat
    BY ManifestsAssumption
  <1>4. j.manifest = m /\ j.left = m /\ j \in [manifest : Manifests, left : Seq(Node)]
    BY <1>3
  <1> HIDE DEF j
  <1>5. ASSUME NEW x \in 1 .. Len(m)
        PROVE  m[x] = m[x + (Len(m) - Len(m))]
    <2>1. x + (Len(m) - Len(m)) = x
      BY <1>3
    <2> QED BY <2>1
  <1>6. Underway(j)
    BY <1>3, <1>4, <1>5 DEF Underway
  <1> QED BY <1>1, <1>2, <1>4, <1>6 DEF OwnInv, Works

LEMMA NextProgress ==
    ASSUME Functional, Data, Progress, KeysDiffer(menus), [Next]_vars
    PROVE  Progress'
  <1>1. CASE UNCHANGED <<pend, job, at, saw>>
    BY <1>1, SameKeeps, TasksAssumption DEF Progress, Same
  <1>2. ASSUME NEW t \in Tasks, Commit(t) \/ Rollback(t)
        PROVE  Progress'
    BY <1>2, RollbackOwn
  <1>3. ASSUME NEW s \in Seeds, OwnInv(s)', \A u \in Tasks \ {s} : Same(u)
        PROVE  Progress'
    BY <1>3, OthersOwn
  <1>4. ASSUME NEW e \in Edits, \A u \in Tasks \ {e} : Same(u)
        PROVE  Progress'
    BY <1>4, OthersOwn
  <1>5. ASSUME NEW s \in Seeds, NEW m \in Manifests, Begin(s, m)
        PROVE  Progress'
    BY <1>3, <1>5, BeginOwn
  <1>6. ASSUME NEW s \in Seeds, Load(s)
        PROVE  Progress'
    <2>1. \A u \in Tasks \ {s} : Same(u)
      BY <1>6, TasksAssumption DEF Load, Goto, Functional, Same
    <2> QED BY <1>3, <1>6, <2>1, LoadOwn
  <1>7. ASSUME NEW s \in Seeds, Upsert(s) \/ Prune(s)
        PROVE  Progress'
    BY <1>2, <1>3, <1>7, UpsertOwn, PruneOwn, TasksAssumption
  <1>8. ASSUME NEW e \in Edits, Check(e)
        PROVE  Progress'
    <2>1. CASE Goto(e, "write") /\ UNCHANGED <<used, pend, saw, job>>
      <3>1. \A u \in Tasks \ {e} : Same(u)
        BY <2>1 DEF Goto, Functional, Same
      <3> QED BY <1>4, <3>1
    <2> QED BY <1>2, <1>8, <2>1, TasksAssumption DEF Check
  <1>9. ASSUME NEW e \in Edits, Write(e)
        PROVE  Progress'
    <2>1. PICK w, rest : Flush(e, w, "commit", rest)
      BY <1>9, WriteFlushes
    <2>2. \A u \in Tasks \ {e} : Same(u)
      BY <2>1, FlushIs, TasksAssumption
    <2> QED BY <1>4, <2>2
  <1>10. ASSUME NEW e \in Edits, NEW q \in Requests, Receive(e, q)
         PROVE  Progress'
    <2>1. \A u \in Tasks \ {e} : Same(u)
      BY <1>10, TasksAssumption DEF Receive, Goto, Functional, Data, Same
    <2> QED BY <1>4, <2>1
  <1>11. ASSUME NEW t \in Tasks, AcquireLock(t) \/ Abort(t)
         PROVE  Progress'
    BY <1>1, <1>2, <1>11 DEF AcquireLock, menuVars, Abort
  <1>12. ASSUME NEW n \in Names, WipeLock(n)
         PROVE  Progress'
    BY <1>1, <1>12 DEF WipeLock
  <1> QED BY <1>1, <1>2, <1>5, <1>6, <1>7, <1>8, <1>9, <1>10, <1>11, <1>12 DEF Next, vars

------------------------------------------------------------------------------
(* The table beside the transactions.                                        *)

(* Transactions keep out of each other's rows; ids are fresh; the tables that*)
(* anybody sees are trees with distinct keys; and what a seed has read is    *)
(* still so, but for what it counts as changed.                              *)
Apart == \A t, u \in Tasks : t # u => Writes(pend[t]) \cap (Writes(pend[u]) \cup Parents(pend[u])) = {}

Fresh ==
    \A t \in Tasks :
        /\ DOMAIN pend[t].new \cap DOMAIN menus = {}
        /\ \A s \in Seeds : Works(s) => DOMAIN pend[t].new \cap DOMAIN saw[s] = {}

Tree == ParentsExist(menus) /\ KeysDiffer(menus) /\ \A t \in Tasks : ParentsExist(Mine(t))

StillTrue(s) ==
    /\ BuiltIn(menus) \subseteq DOMAIN saw[s]
    /\ \A i \in DOMAIN saw[s] :
          /\ i \in DOMAIN menus => menus[i].key = saw[s][i].key
          /\ i \notin changed[s] => i \in DOMAIN menus /\ menus[i] = saw[s][i]

Table == Apart /\ Fresh /\ Tree /\ \A s \in Seeds : Works(s) => StillTrue(s)

LEMMA JoinedWrites ==
    ASSUME NEW a, NEW w
    PROVE  /\ Writes(Joined(a, w)) \subseteq Writes(a) \cup Writes(w)
           /\ Parents(Joined(a, w)) \subseteq Parents(a) \cup Parents(w)
           /\ DOMAIN Joined(a, w).new = DOMAIN a.new \cup DOMAIN w.new
  <1> DEFINE b == Joined(a, w)
  <1>1. /\ DOMAIN b.new = DOMAIN a.new \cup DOMAIN w.new /\ b.gone = a.gone \cup w.gone
        /\ DOMAIN b.set = DOMAIN a.set \cup DOMAIN w.set
        /\ \A i \in DOMAIN b.new : b.new[i] = IF i \in DOMAIN w.new THEN w.new[i] ELSE a.new[i]
        /\ \A x \in DOMAIN b.set : b.set[x] = IF x \in DOMAIN w.set THEN w.set[x] ELSE a.set[x]
    BY DEF Joined
  <1> HIDE DEF b
  <1>2. Writes(b) \subseteq Writes(a) \cup Writes(w)
    BY <1>1 DEF Writes
  <1>3. Names_(b) \subseteq Names_(a) \cup Names_(w)
    <2>1. ASSUME NEW i \in DOMAIN b.new
          PROVE  b.new[i].parent \in Names_(a) \cup Names_(w)
      BY <1>1, <2>1 DEF Names_
    <2>2. ASSUME NEW x \in DOMAIN b.set, x[2] = "parent"
          PROVE  b.set[x] \in Names_(a) \cup Names_(w)
      BY <1>1, <2>2 DEF Names_
    <2> QED BY <2>1, <2>2 DEF Names_
  <1>4. Parents(b) \subseteq Parents(a) \cup Parents(w)
    BY <1>3 DEF Parents
  <1> QED BY <1>1, <1>2, <1>4 DEF b

LEMMA NoWritesWrites == Writes(NoWrites) = {} /\ Parents(NoWrites) = {} /\ DOMAIN NoWrites.new = {}
  BY DEF Writes, Parents, Names_, NoWrites, NoRows

LEMMA Untouched ==
    ASSUME NEW rows, NEW w, NEW i \in DOMAIN rows, rows[i] \in Menu, i \notin Writes(w)
    PROVE  i \in DOMAIN Applied(w, rows) /\ Applied(w, rows)[i] = rows[i]
  <1>1. i \notin DOMAIN w.new /\ i \notin w.gone /\ \A c : <<i, c>> \notin DOMAIN w.set
    <2>1. ASSUME NEW c, <<i, c>> \in DOMAIN w.set
          PROVE  FALSE
      <3>1. <<i, c>>[1] = i
        OBVIOUS
      <3> QED BY <2>1, <3>1 DEF Writes
    <2> QED BY <2>1 DEF Writes
  <1>2. SetIn(w, i) = {}
    BY <1>1 DEF SetIn
  <1>3. i \in DOMAIN Applied(w, rows) /\ Applied(w, rows)[i] = Over(w, i, rows[i])
    BY <1>1 DEF Applied
  <1> DEFINE row == rows[i]
  <1>4. row = [f \in DOMAIN row |-> row[f]]
    BY DEF Menu
  <1> HIDE DEF row
  <1>5. Over(w, i, row) = row
    BY <1>2, <1>4 DEF Over
  <1> QED BY <1>3, <1>5 DEF row

LEMMA TableFrame ==
    ASSUME Table, menus' = menus, pend' = pend,
           \A s \in Seeds : Works(s)' => Works(s) /\ saw'[s] = saw[s] /\ changed'[s] = changed[s]
    PROVE  Table'
  <1>1. Apart'
    BY DEF Table, Apart
  <1>2. Fresh'
    BY DEF Table, Fresh
  <1>3. Tree'
    BY DEF Table, Tree, Mine
  <1>4. \A s \in Seeds : Works(s)' => StillTrue(s)'
    BY DEF Table, StillTrue, BuiltIn
  <1> QED BY <1>1, <1>2, <1>3, <1>4 DEF Table

LEMMA LoadTable ==
    ASSUME Functional, Data, Table, NEW s \in Seeds, Load(s)
    PROVE  Table'
  <1>1. /\ menus' = menus /\ pend' = pend /\ changed' = changed
        /\ saw'[s] = [i \in BuiltIn(menus) |-> menus[i]]
        /\ \A u \in Seeds \ {s} : saw'[u] = saw[u] /\ at'[u] = at[u]
    BY TasksAssumption DEF Load, Goto, Functional, Quiet
  <1>2. Apart'
    BY <1>1 DEF Table, Apart
  <1>3. DOMAIN saw'[s] \subseteq DOMAIN menus
    BY <1>1 DEF BuiltIn
  <1>4. Fresh'
    <2>1. ASSUME NEW t \in Tasks, NEW u \in Seeds, Works(u)'
          PROVE  DOMAIN pend'[t].new \cap DOMAIN saw'[u] = {}
      <3>1. CASE u = s
        BY <1>1, <1>3, <3>1 DEF Table, Fresh
      <3>2. CASE u # s
        BY <1>1, <2>1, <3>2 DEF Table, Fresh, Works
      <3> QED BY <3>1, <3>2
    <2> QED BY <1>1, <2>1 DEF Table, Fresh
  <1>5. Tree'
    BY <1>1 DEF Table, Tree, Mine
  <1>6. ASSUME NEW u \in Seeds, Works(u)'
        PROVE  StillTrue(u)'
    <2>1. CASE u = s
      BY <1>1, <2>1 DEF StillTrue, BuiltIn
    <2>2. CASE u # s
      BY <1>1, <1>6, <2>2 DEF StillTrue, BuiltIn, Table, Works
    <2> QED BY <2>1, <2>2
  <1> QED BY <1>2, <1>4, <1>5, <1>6 DEF Table

LEMMA RollbackTable ==
    ASSUME Functional, Data, Table, NEW t \in Tasks, Rollback(t)
    PROVE  Table'
  <1>1. /\ menus' = menus /\ pend' = [pend EXCEPT ![t] = NoWrites]
        /\ at'[t] \in {"idle", "done"}
        /\ \A u \in Tasks \ {t} : saw'[u] = saw[u] /\ at'[u] = at[u] /\ changed'[u] = changed[u]
    BY DEF Rollback, Leave, Goto, Functional, Data
  <1>2. \A u \in Tasks : pend'[u] = IF u = t THEN NoWrites ELSE pend[u]
    BY <1>1 DEF Functional
  <1>3. \A s \in Seeds : Works(s)' => s # t /\ s \in Tasks /\ Works(s)
    BY <1>1, TasksAssumption DEF Works
  <1>4. Apart'
    BY <1>2, NoWritesWrites DEF Table, Apart
  <1>5. Fresh'
    BY <1>1, <1>2, <1>3, NoWritesWrites DEF Table, Fresh
  <1>6. Tree'
    <2>1. ParentsExist(Applied(NoWrites, menus))
      BY TreeAfterNothing DEF Table, Tree, Data
    <2>2. \A u \in Tasks : Mine(u)' = IF u = t THEN Applied(NoWrites, menus) ELSE Mine(u)
      BY <1>1, <1>2 DEF Mine
    <2> QED BY <1>1, <2>1, <2>2 DEF Table, Tree
  <1>7. \A s \in Seeds : Works(s)' => StillTrue(s)'
    BY <1>1, <1>3 DEF Table, StillTrue, BuiltIn
  <1> QED BY <1>4, <1>5, <1>6, <1>7 DEF Table

LEMMA FlushTable ==
    ASSUME Functional, Data, Table, NEW t \in Tasks, t \in Seeds => Works(t),
           NEW w, NEW where, NEW rest, Flush(t, w, where, rest), Proper(w)
    PROVE  Table'
  <1>1. CASE Rollback(t)
    BY <1>1, RollbackTable
  <1>2. CASE ~Rollback(t)
    <2> DEFINE p == Joined(pend[t], w)
    <2>1. /\ Free(t, w) /\ ~Fails(t, w) /\ menus' = menus /\ saw' = saw /\ changed' = changed
          /\ pend' = [pend EXCEPT ![t] = p]
          /\ \A u \in Tasks \ {t} : at'[u] = at[u]
      BY <1>2, FlushIs DEF Same
    <2>2. /\ Writes(p) \subseteq Writes(pend[t]) \cup Writes(w)
          /\ Parents(p) \subseteq Parents(pend[t]) \cup Parents(w)
          /\ DOMAIN p.new = DOMAIN pend[t].new \cup DOMAIN w.new
      BY JoinedWrites
    <2>3. ParentsExist(Applied(p, menus))
      <3>1. Parents(w) \subseteq DOMAIN Mine(t) /\ \A i \in w.gone, j \in DOMAIN Mine(t) \ w.gone : Mine(t)[j].parent # i
        BY <2>1 DEF Fails
      <3>2. RowsTyped(menus, used) /\ WritesTyped(pend[t], used) /\ ParentsExist(Mine(t))
        BY DEF Data, Table, Tree
      <3>3. /\ WritesTyped(w, used \cup DOMAIN w.new) /\ DOMAIN w.new \cap used = {}
            /\ w.gone = {} \/ (DOMAIN w.new = {} /\ DOMAIN w.set = {})
        BY DEF Proper
      <3> DEFINE A == Mine(t)
      <3>4. A = Applied(pend[t], menus)
        BY DEF Mine
      <3> HIDE DEF A
      <3>5. /\ ParentsExist(A) /\ Parents(w) \subseteq DOMAIN A
            /\ \A i \in w.gone, j \in DOMAIN A \ w.gone : A[j].parent # i
        BY <3>1, <3>2 DEF A
      <3> QED BY <3>2, <3>3, <3>4, <3>5, TreeAfterFlush
    <2> HIDE DEF p
    <2>4. \A u \in Tasks : pend'[u] = IF u = t THEN p ELSE pend[u]
      BY <2>1 DEF Functional
    <2>5. \A s \in Seeds : Works(s)' => Works(s)
      BY <2>1, TasksAssumption DEF Works
    <2>6. Apart'
      <3>1. ASSUME NEW u \in Tasks \ {t}
            PROVE  /\ Writes(p) \cap (Writes(pend[u]) \cup Parents(pend[u])) = {}
                   /\ Writes(pend[u]) \cap (Writes(p) \cup Parents(p)) = {}
        <4>1. /\ Writes(w) \cap (Writes(pend[u]) \cup Parents(pend[u])) = {}
              /\ Parents(w) \cap Writes(pend[u]) = {}
          BY <2>1 DEF Free
        <4>2. /\ Writes(pend[t]) \cap (Writes(pend[u]) \cup Parents(pend[u])) = {}
              /\ Writes(pend[u]) \cap (Writes(pend[t]) \cup Parents(pend[t])) = {}
          BY DEF Table, Apart
        <4> QED BY <2>2, <4>1, <4>2
      <3> QED BY <2>4, <3>1 DEF Table, Apart
    <2>7. Fresh'
      <3>1. DOMAIN w.new \cap DOMAIN menus = {} /\ \A s \in Seeds : DOMAIN w.new \cap DOMAIN saw[s] = {}
        BY TasksAssumption DEF Proper, Data, RowsTyped
      <3> QED BY <2>1, <2>2, <2>4, <2>5, <3>1 DEF Table, Fresh
    <2>8. Tree'
      <3>1. \A u \in Tasks : Mine(u)' = IF u = t THEN Applied(p, menus) ELSE Mine(u)
        BY <2>1, <2>4 DEF Mine
      <3> QED BY <2>1, <2>3, <3>1 DEF Table, Tree
    <2>9. \A s \in Seeds : Works(s)' => StillTrue(s)'
      BY <2>1, <2>5 DEF Table, StillTrue, BuiltIn
    <2> QED BY <2>6, <2>7, <2>8, <2>9 DEF Table
  <1> QED BY <1>1, <1>2

(* A committed table, row by row.                                            *)
LEMMA CommitIs ==
    ASSUME Functional, Data, NEW t \in Tasks, Commit(t)
    PROVE  /\ AreMine(menus', pend[t], menus)
           /\ \A i \in DOMAIN menus \ Writes(pend[t]) : i \in DOMAIN menus' /\ menus'[i] = menus[i]
           /\ pend' = [pend EXCEPT ![t] = NoWrites] /\ at'[t] \in {"idle", "done"}
           /\ \A u \in Tasks \ {t} : Same(u)
           /\ \A u \in Seeds \ {t} : saw[u] # NoRows => changed'[u] = changed[u] \cup Writes(pend[t])
  <1>1. menus' = Applied(pend[t], menus)
    BY DEF Commit, Mine
  <1>2. AreMine(Applied(pend[t], menus), pend[t], menus)
    BY MineRows DEF Data
  <1>3. \A i \in DOMAIN menus : menus[i] \in Menu
    BY DEF Data, RowsTyped
  <1>4. \A i \in DOMAIN menus \ Writes(pend[t]) : i \in DOMAIN menus' /\ menus'[i] = menus[i]
    BY <1>1, <1>3, Untouched
  <1>5. \A u \in Seeds \ {t} : saw[u] # NoRows => changed'[u] = changed[u] \cup Writes(pend[t])
    BY TasksAssumption DEF Commit, Data
  <1>6. /\ pend' = [pend EXCEPT ![t] = NoWrites] /\ at'[t] \in {"idle", "done"}
        /\ \A u \in Tasks \ {t} : Same(u)
    BY LeaveIs DEF Commit, Leave
  <1> QED BY <1>1, <1>2, <1>4, <1>5, <1>6

LEMMA CommittedKeysDiffer ==
    ASSUME Functional, Data, Progress, Table, Keyed, NEW t \in Tasks, Commit(t)
    PROVE  KeysDiffer(menus')
  <1> DEFINE w == pend[t]
  <1>1. DOMAIN menus' \subseteq DOMAIN menus \cup DOMAIN w.new
        /\ \A i \in DOMAIN menus' : menus'[i].key = IF i \in DOMAIN w.new THEN w.new[i].key ELSE menus[i].key
    <2>1. AreMine(menus', w, menus)
      BY CommitIs
    <2> HIDE DEF w
    <2> QED BY <2>1 DEF AreMine
  <1>2. CASE t \in Edits
    <2>1. \A i \in DOMAIN w.new : w.new[i].key = None
      BY <1>2 DEF Keyed
    <2> QED BY <1>1, <2>1 DEF KeysDiffer, Table, Tree
  <1>3. CASE t \in Seeds
    <2>1. Works(t) /\ StillTrue(t) /\ OneRowEach(saw[t], w)
      BY <1>3 DEF Commit, Works, Table, Progress, OwnInv, Work
    <2>2. ASSUME NEW i \in DOMAIN menus', menus'[i].key # None
          PROVE  i \in RowsAt(saw[t], w, menus'[i].key) /\ menus'[i].key \in Keys
      <3>1. CASE i \in DOMAIN w.new
        <4>1. w.new[i] \in Menu
          BY <3>1 DEF Data, WritesTyped, RowsTyped
        <4> QED BY <1>1, <2>2, <3>1, <4>1 DEF RowsAt, Menu
      <3>2. CASE i \notin DOMAIN w.new
        <4>1. i \in DOMAIN menus /\ menus[i] \in Menu /\ menus'[i].key = menus[i].key
          BY <1>1, <3>2 DEF Data, RowsTyped
        <4>2. i \in DOMAIN saw[t] /\ saw[t][i].key = menus[i].key
          BY <2>1, <2>2, <4>1 DEF StillTrue, BuiltIn
        <4> QED BY <2>2, <4>1, <4>2 DEF RowsAt, Menu
      <3> QED BY <3>1, <3>2
    <2> HIDE DEF w
    <2>3. ASSUME NEW i \in DOMAIN menus', NEW j \in DOMAIN menus', menus'[i].key = menus'[j].key, menus'[i].key # None
          PROVE  i = j
      BY <2>1, <2>2, <2>3 DEF OneRowEach
    <2> QED BY <2>3 DEF KeysDiffer
  <1> QED BY <1>2, <1>3, TasksAssumption

(* While a seed is at work no other one commits.                             *)
LEMMA CommitterIsAnEdit ==
    ASSUME MenuInv, NEW t \in Tasks, Commit(t), NEW s \in Seeds, s # t, Works(s)
    PROVE  t \in Edits
  <1>1. ASSUME t \in Seeds
        PROVE  FALSE
    <2>1. \A u \in {s, t} : u \in Tasks /\ step[u] = "holds" /\ name[u] = "rbac:seed"
      BY <1>1, TasksAssumption DEF MenuInv, Places, PlaceOf, Works, Commit
    <2> QED BY <2>1, InvGivesOneHolder DEF MenuInv, OneHolder
  <1> QED BY <1>1, TasksAssumption

LEMMA CommitTable ==
    ASSUME MenuInv, Data, Progress, Table, NEW t \in Tasks, Commit(t)
    PROVE  Table'
  <1>0. Functional /\ Keyed
    BY DEF MenuInv, Places
  <1> DEFINE w == pend[t]
  <1>1. /\ AreMine(menus', w, menus)
        /\ \A i \in DOMAIN menus \ Writes(w) : i \in DOMAIN menus' /\ menus'[i] = menus[i]
        /\ at'[t] \in {"idle", "done"}
        /\ \A u \in Tasks \ {t} : Same(u)
        /\ \A u \in Seeds \ {t} : saw[u] # NoRows => changed'[u] = changed[u] \cup Writes(w)
    BY <1>0, CommitIs
  <1>2. \A u \in Tasks : pend'[u] = IF u = t THEN NoWrites ELSE pend[u]
    BY <1>0, CommitIs DEF Functional
  <1>3. \A s \in Seeds : Works(s)' => s # t /\ s \in Tasks /\ Works(s) /\ saw'[s] = saw[s]
    BY <1>1, TasksAssumption DEF Works, Same
  <1>4. DOMAIN menus' \subseteq DOMAIN menus \cup DOMAIN w.new /\ DOMAIN w.new \subseteq Writes(w)
    BY <1>1 DEF AreMine, Writes
  <1>5. RowsTyped(menus', used)
    BY <1>0, CommitData DEF Data, Commit
  <1>6. Apart'
    BY <1>2, NoWritesWrites DEF Table, Apart
  <1>7. Fresh'
    <2>1. \A u \in Tasks \ {t} : DOMAIN pend[u].new \subseteq Writes(pend[u])
      BY DEF Writes
    <2>2. \A u \in Tasks \ {t} : DOMAIN pend[u].new \cap DOMAIN menus' = {}
      BY <1>4, <2>1 DEF Table, Fresh, Apart
    <2> QED BY <1>2, <1>3, <2>2, NoWritesWrites DEF Table, Fresh
  <1>8. Tree'
    <2>1. menus' = Applied(w, menus) /\ menus' = Mine(t)
      BY DEF Commit, Mine
    <2>2. ParentsExist(menus') /\ KeysDiffer(menus')
      BY <1>0, <2>1, CommittedKeysDiffer DEF Table, Tree
    <2>3. ParentsExist(Applied(NoWrites, menus'))
      BY <1>5, <2>2, TreeAfterNothing
    <2>4. ASSUME NEW u \in Tasks \ {t}
          PROVE  ParentsExist(Applied(pend[u], menus'))
      <3>1. /\ RowsTyped(menus, used) /\ WritesTyped(w, used) /\ WritesTyped(pend[u], used)
            /\ ParentsExist(Applied(w, menus)) /\ ParentsExist(Applied(pend[u], menus))
        BY DEF Data, Table, Tree, Mine
      <3>2. /\ Writes(pend[u]) \cap (Writes(w) \cup Parents(w)) = {}
            /\ Writes(w) \cap Parents(pend[u]) = {}
        BY DEF Table, Apart
      <3> HIDE DEF w
      <3>3. ParentsExist(Applied(pend[u], Applied(w, menus)))
        BY <3>1, <3>2, TreeAfterCommit
      <3> QED BY <2>1, <3>3
    <2>5. \A u \in Tasks : Mine(u)' = Applied(pend'[u], menus')
      BY DEF Mine
    <2> QED BY <1>2, <2>2, <2>3, <2>4, <2>5 DEF Tree
  <1>9. ASSUME NEW s \in Seeds, Works(s)'
        PROVE  StillTrue(s)'
    <2>1. s # t /\ Works(s) /\ saw'[s] = saw[s] /\ StillTrue(s) /\ t \in Edits
      BY <1>3, <1>9, CommitterIsAnEdit DEF Table
    <2>2. BuiltIn(menus)' \subseteq DOMAIN saw[s]
      BY <1>0, <2>1, CommitKeepsKeys DEF StillTrue
    <2>3. ASSUME NEW i \in DOMAIN saw[s]
          PROVE  /\ i \in DOMAIN menus' => menus'[i].key = saw[s][i].key
                 /\ i \notin changed'[s] => i \in DOMAIN menus' /\ menus'[i] = saw[s][i]
      <3>1. i \notin DOMAIN w.new
        BY <2>1 DEF Table, Fresh
      <3>2. i \in DOMAIN menus' => menus'[i].key = saw[s][i].key
        BY <1>1, <1>4, <2>1, <3>1 DEF AreMine, StillTrue
      <3>3. changed'[s] = changed[s] \cup Writes(w)
        <4>1. saw[s] # NoRows
          BY <2>3 DEF NoRows
        <4> QED BY <1>1, <2>1, <4>1
      <3> HIDE DEF w
      <3>4. i \notin changed'[s] => i \in DOMAIN menus' /\ menus'[i] = saw[s][i]
        BY <1>1, <2>1, <3>3 DEF StillTrue
      <3> QED BY <3>2, <3>4
    <2> QED BY <2>1, <2>2, <2>3 DEF StillTrue
  <1> QED BY <1>6, <1>7, <1>8, <1>9 DEF Table

LEMMA NextTable ==
    ASSUME MenuInv, Data, Progress, Table, [Next]_vars
    PROVE  Table'
  <1>0. Functional
    BY DEF MenuInv, Places
  <1>1. CASE UNCHANGED <<menus, pend, at, saw, changed>>
    BY <1>1, TableFrame DEF Works
  <1>2. ASSUME NEW t \in Tasks, Commit(t) \/ Rollback(t)
        PROVE  Table'
    BY <1>0, <1>2, CommitTable, RollbackTable
  <1>3. ASSUME NEW s \in Seeds, NEW m \in Manifests, Begin(s, m)
        PROVE  Table'
    <2>1. \A r \in Seeds : Works(r)' => Works(r)
      BY <1>0, <1>3, TasksAssumption DEF Begin, Goto, Functional, Works
    <2> QED BY <1>3, <2>1, TableFrame DEF Begin
  <1>4. ASSUME NEW s \in Seeds, Load(s)
        PROVE  Table'
    BY <1>0, <1>4, LoadTable
  <1>5. ASSUME NEW s \in Seeds, Upsert(s) \/ Prune(s)
        PROVE  Table'
    <2>1. s \in Tasks /\ Works(s)
      BY <1>5, TasksAssumption DEF Upsert, Prune, Works
    <2>2. CASE \E w, rest : Flush(s, w, "seed", rest) /\ Proper(w)
      BY <1>0, <2>1, <2>2, FlushTable
    <2>3. CASE Goto(s, "commit") /\ UNCHANGED <<used, pend, saw, job>> /\ Quiet
      <3>1. \A r \in Seeds : Works(r)' => Works(r)
        BY <1>0, <2>1, <2>3, TasksAssumption DEF Goto, Functional, Works
      <3> QED BY <2>3, <3>1, TableFrame DEF Quiet
    <2> QED BY <1>5, <2>2, <2>3, UpsertFlushes, PruneFlushes
  <1>6. ASSUME NEW e \in Edits, NEW q \in Requests, Receive(e, q)
        PROVE  Table'
    <2>1. \A s \in Seeds : at'[s] = at[s] /\ saw'[s] = saw[s]
      BY <1>0, <1>6, TasksAssumption DEF Receive, Goto, Functional
    <2> QED BY <1>6, <2>1, TableFrame DEF Receive, Works
  <1>7. ASSUME NEW e \in Edits, Check(e)
        PROVE  Table'
    <2>1. CASE Goto(e, "write") /\ UNCHANGED <<used, pend, saw, job>> /\ Quiet
      <3>1. \A s \in Seeds : at'[s] = at[s]
        BY <1>0, <2>1, TasksAssumption DEF Goto, Functional
      <3> QED BY <2>1, <3>1, TableFrame DEF Quiet, Works
    <2> QED BY <1>2, <1>7, <2>1, TasksAssumption DEF Check
  <1>8. ASSUME NEW e \in Edits, Write(e)
        PROVE  Table'
    <2>1. e \in Tasks /\ e \notin Seeds
      BY TasksAssumption
    <2> QED BY <1>0, <1>8, <2>1, WriteFlushes, FlushTable
  <1>9. ASSUME NEW t \in Tasks, AcquireLock(t) \/ Abort(t)
        PROVE  Table'
    BY <1>1, <1>2, <1>9 DEF AcquireLock, menuVars, Abort
  <1>10. ASSUME NEW n \in Names, WipeLock(n)
         PROVE  Table'
    BY <1>1, <1>10 DEF WipeLock
  <1> QED BY <1>1, <1>2, <1>3, <1>4, <1>5, <1>6, <1>7, <1>8, <1>9, <1>10 DEF Next, vars

------------------------------------------------------------------------------
(* The commit of a seed.                                                     *)

(* A built-in menu of the table that a seed leaves is one of its rows.       *)
LEMMA CommittedIsKnown ==
    ASSUME Functional, Data, Progress, Table, NEW s \in Seeds, Commit(s), NEW i \in BuiltIn(menus')
    PROVE  /\ i \in RowsAt(saw[s], pend[s], menus'[i].key) /\ menus'[i].key \in Keys
           /\ i \notin DOMAIN pend[s].new => i \in BuiltIn(menus) /\ i \notin pend[s].gone /\ i \in DOMAIN saw[s]
                                             /\ saw[s][i].key = menus'[i].key
  <1> DEFINE w == pend[s]
  <1>1. /\ i \in DOMAIN menus' /\ menus'[i].key # None /\ i \in DOMAIN menus \cup DOMAIN w.new /\ i \notin w.gone
        /\ menus'[i].key = IF i \in DOMAIN w.new THEN w.new[i].key ELSE menus[i].key
    <2>1. AreMine(menus', w, menus)
      BY CommitIs, TasksAssumption
    <2>2. i \in DOMAIN menus' /\ menus'[i].key # None
      BY DEF BuiltIn
    <2> HIDE DEF w
    <2> QED BY <2>1, <2>2 DEF AreMine
  <1>2. StillTrue(s)
    BY DEF Commit, Works, Table
  <1>3. CASE i \in DOMAIN w.new
    <2>1. w.new[i] \in Menu
      BY <1>3, TasksAssumption DEF Data, WritesTyped, RowsTyped
    <2> QED BY <1>1, <1>3, <2>1 DEF RowsAt, Menu
  <1>4. CASE i \notin DOMAIN w.new
    <2>1. i \in DOMAIN menus /\ menus[i] \in Menu /\ menus'[i].key = menus[i].key
      BY <1>1, <1>4 DEF Data, RowsTyped
    <2>2. i \in BuiltIn(menus) /\ i \in DOMAIN saw[s] /\ saw[s][i].key = menus[i].key
      BY <1>1, <1>2, <2>1 DEF StillTrue, BuiltIn
    <2> QED BY <1>1, <2>1, <2>2 DEF RowsAt, Menu
  <1> QED BY <1>3, <1>4

(* When a seed commits, its manifest is behind it.                           *)
LEMMA CommitAtEnd ==
    ASSUME Progress, NEW s \in Seeds, Commit(s)
    PROVE  /\ Work(job[s].manifest, DOMAIN job[s].manifest, saw[s], pend[s])
           /\ Leaves(s) = {} /\ job[s].manifest \in Seq(Node)
  <1> DEFINE m == job[s].manifest
  <1>1. /\ Underway(job[s]) /\ job[s].left = <<>> /\ Leaves(s) = {}
        /\ Work(m, Passed(job[s]), saw[s], pend[s])
    BY DEF Commit, Progress, OwnInv, Works
  <1>2. m \in Seq(Node) /\ Len(m) \in Nat /\ DOMAIN m = 1 .. Len(m)
    BY <1>1, ManifestsAssumption DEF Underway
  <1>3. Len(m) - Len(job[s].left) = Len(m)
    BY <1>1, <1>2
  <1>4. Passed(job[s]) = DOMAIN m
    BY <1>2, <1>3 DEF Passed
  <1> QED BY <1>1, <1>2, <1>4

(* What a committed seed has made of a node.                                 *)
Done(s, n) ==
    /\ RowsOf(s, n.key) # {}
    /\ \A i \in RowsOf(s, n.key) \ changed[s] :
          menus'[i].type = n.type /\ menus'[i].status = "active" /\ HasKey(menus', i, n.parent)

LEMMA CommittedNode ==
    ASSUME Functional, Data, Progress, Table, NEW s \in Seeds, Commit(s), NEW x \in DOMAIN job[s].manifest
    PROVE  Done(s, job[s].manifest[x])
  <1> DEFINE m == job[s].manifest
             w == pend[s]
             sw == saw[s]
             n == m[x]
  <1>1. Work(m, DOMAIN m, sw, w) /\ m \in Seq(Node)
    BY CommitAtEnd
  <1>2. n \in Node /\ n.key \in Keys /\ n.parent \in Keys \cup {None} /\ n.key \in KeysOf(m)
    <2>1. n \in Node /\ n.key \in KeysOf(m)
      BY <1>1 DEF KeysOf
    <2> HIDE DEF n
    <2> QED BY <2>1 DEF Node
  <1>3. /\ RowsAt(sw, w, n.key) # {}
        /\ \A i \in RowsAt(sw, w, n.key), c \in Columns : RowAt(sw, w, i)[c] = Meant(sw, w, n)[c]
    BY <1>1 DEF Work, AsSaid
  <1>4. StillTrue(s)
    BY DEF Commit, Works, Table
  <1>5. /\ menus' = Applied(w, menus) /\ AreMine(menus', w, menus) /\ ParentsExist(menus')
    BY CommitIs, TasksAssumption DEF Commit, Mine, Table, Tree
  <1>6. \A i \in DOMAIN w.new : i \notin DOMAIN sw
    BY <1>1 DEF Work, OwnRows
  <1>7. ASSUME NEW k \in KeysOf(m), NEW i \in RowsAt(sw, w, k)
        PROVE  /\ i \notin w.gone
               /\ i \in DOMAIN menus' => menus'[i].key = k
    <2>1. i \notin w.gone
      BY <1>1, <1>6, <1>7 DEF RowsAt, Work, OwnRows
    <2>2. ASSUME i \in DOMAIN menus'
          PROVE  menus'[i].key = k
      BY <1>4, <1>5, <1>6, <1>7, <2>2 DEF RowsAt, AreMine, StillTrue
    <2> QED BY <2>1, <2>2
  <1>8. ASSUME NEW i \in RowsAt(sw, w, n.key) \ changed[s]
        PROVE  menus'[i].type = n.type /\ menus'[i].status = "active" /\ HasKey(menus', i, n.parent)
    <2>1. i \in DOMAIN menus' /\ menus'[i] = RowAt(sw, w, i)
      <3>1. i \in DOMAIN w.new \/ (i \notin DOMAIN w.new /\ i \in DOMAIN menus /\ menus[i] = sw[i])
        BY <1>4, <1>8 DEF RowsAt, StillTrue
      <3>2. i \notin w.gone
        BY <1>2, <1>7, <1>8
      <3> QED BY <1>5, <3>1, <3>2 DEF Applied, RowAt
    <2>2. /\ menus'[i].type = n.type /\ menus'[i].status = "active"
          /\ menus'[i].parent = IdAt(sw, w, n.parent)
      BY <1>3, <1>8, <2>1 DEF Meant, Columns
    <2>3. HasKey(menus', i, n.parent)
      <3>1. CASE n.parent = None
        BY <2>2, <3>1 DEF HasKey, IdAt
      <3>2. CASE n.parent # None
        <4> DEFINE p == IdAt(sw, w, n.parent)
        <4>1. n.parent \in KeysOf(m) /\ RowsAt(sw, w, n.parent) # {}
          BY <1>1, <3>2 DEF Work, Closed, AsSaid, KeysOf
        <4>2. p \in RowsAt(sw, w, n.parent)
          BY <3>2, <4>1 DEF IdAt
        <4>3. p # Root
          BY <4>2, MenusAssumption, TasksAssumption DEF RowsAt, Data, RowsTyped, WritesTyped
        <4> HIDE DEF p
        <4>4. menus'[i].parent = p
          BY <2>2 DEF p
        <4>5. p \in DOMAIN menus'
          BY <1>5, <2>1, <4>3, <4>4 DEF ParentsExist
        <4>6. menus'[p].key = n.parent
          BY <1>7, <4>1, <4>2, <4>5
        <4> QED BY <3>2, <4>4, <4>6 DEF HasKey
      <3> QED BY <3>1, <3>2
    <2> QED BY <2>2, <2>3
  <1>9. RowsOf(s, n.key) = RowsAt(sw, w, n.key)
    BY RowsAgree
  <1> HIDE DEF n, sw, w
  <1>10. Done(s, n)
    BY <1>3, <1>8, <1>9 DEF Done
  <1> QED BY <1>10 DEF n

(* And of the other rows.                                                    *)
LEMMA CommittedRows ==
    ASSUME Functional, Data, Progress, Table, NEW s \in Seeds, Commit(s)
    PROVE  /\ \A i \in BuiltIn(menus') :
                \/ menus'[i].key \in KeysOf(job[s].manifest)
                \/ i \in Stale(s) /\ \A j \in Stale(s) : \E k \in Stale(s) : saw[s][k].parent = j
           /\ \A i \in BuiltIn(menus), j \in BuiltIn(menus') : menus[i].key = menus'[j].key => i = j
           /\ \A i \in DOMAIN menus \ BuiltIn(menus) : i \in DOMAIN menus' /\ menus'[i] = menus[i]
  <1> DEFINE m == job[s].manifest
             w == pend[s]
  <1>1. Work(m, DOMAIN m, saw[s], w) /\ Leaves(s) = {} /\ StillTrue(s)
    BY CommitAtEnd DEF Commit, Works, Table
  <1>2. ASSUME NEW i \in BuiltIn(menus'), menus'[i].key \notin KeysOf(m)
        PROVE  i \in Stale(s) /\ \A j \in Stale(s) : \E k \in Stale(s) : saw[s][k].parent = j
    <2>1. i \notin DOMAIN w.new
      <3>1. ASSUME i \in DOMAIN w.new
            PROVE  FALSE
        <4>1. menus'[i].key = w.new[i].key
          BY <1>2, <3>1, CommitIs, TasksAssumption DEF AreMine, BuiltIn
        <4> QED BY <1>1, <1>2, <3>1, <4>1 DEF Work, OwnRows, KeysOf
      <3> QED BY <3>1
    <2>2. i \in Stale(s)
      BY <1>2, <2>1, CommittedIsKnown DEF Stale
    <2> QED BY <1>1, <2>2 DEF Leaves
  <1>3. ASSUME NEW i \in BuiltIn(menus), NEW j \in BuiltIn(menus'), menus[i].key = menus'[j].key
        PROVE  i = j
    <2>1. j \in RowsAt(saw[s], w, menus'[j].key) /\ menus'[j].key \in Keys
      BY CommittedIsKnown
    <2>2. i \in DOMAIN saw[s] /\ saw[s][i].key = menus[i].key
      BY <1>1 DEF StillTrue, BuiltIn
    <2>3. i \in RowsAt(saw[s], w, menus'[j].key)
      BY <1>3, <2>2 DEF RowsAt
    <2> QED BY <1>1, <2>1, <2>3 DEF Work, OneRowEach
  <1>4. ASSUME NEW i \in DOMAIN menus \ BuiltIn(menus)
        PROVE  i \in DOMAIN menus' /\ menus'[i] = menus[i]
    <2>1. i \notin DOMAIN saw[s]
      BY <1>1, <1>4, MenusAssumption DEF StillTrue, BuiltIn, Work, OwnRows
    <2>2. i \notin DOMAIN w.new
      BY TasksAssumption DEF Table, Fresh
    <2>3. i \notin Writes(w)
      <3>1. i \notin w.gone
        BY <1>1, <2>1 DEF Work, OwnRows
      <3>2. ASSUME NEW x \in DOMAIN w.set
            PROVE  x[1] # i
        <4>1. PICK j, c : x = <<j, c>>
          BY TasksAssumption DEF Data, WritesTyped
        <4>2. j \in DOMAIN saw[s] /\ x[1] = j
          BY <1>1, <3>2, <4>1 DEF Work, OwnRows
        <4> QED BY <2>1, <4>2
      <3> QED BY <2>2, <3>1, <3>2 DEF Writes
    <2> QED BY <1>4, <2>3, CommitIs, TasksAssumption
  <1> QED BY <1>2, <1>3, <1>4

------------------------------------------------------------------------------
SeedInv == MenuInv /\ Data /\ Progress /\ Table

LEMMA StartsRight == Init => Data /\ Progress /\ Table
  <1> SUFFICES ASSUME Init
               PROVE  Data /\ Progress /\ Table
    OBVIOUS
  <1>1. /\ ParentsExist(menus) /\ KeysDiffer(menus)
        /\ DOMAIN menus \subseteq MenuIds /\ \A i \in DOMAIN menus : menus[i] \in Menu
    BY StartsAssumption DEF Init
  <1>2. \A t \in Tasks : pend[t] = NoWrites /\ saw[t] = NoRows /\ changed[t] = {} /\ at[t] = "idle"
    BY DEF Init
  <1>3. Data
    <2>1. used \subseteq MenuIds /\ RowsTyped(menus, used) /\ DOMAIN job = Tasks /\ DOMAIN changed = Tasks
      BY <1>1 DEF Init, RowsTyped
    <2>2. \A t \in Tasks : RowsTyped(saw[t], used) /\ changed[t] \subseteq MenuIds /\ WritesTyped(pend[t], used)
      BY <1>2, NothingTyped
    <2> QED BY <1>2, <2>1, <2>2, TasksAssumption DEF Data
  <1>4. Progress
    BY <1>2, TasksAssumption DEF Progress, OwnInv, Works
  <1>5. Table
    <2>1. Apart /\ Fresh
      BY <1>2, NoWritesWrites, TasksAssumption DEF Apart, Fresh, Works
    <2>2. \A t \in Tasks : ParentsExist(Mine(t))
      BY <1>1, <1>2, <1>3, TreeAfterNothing DEF Mine, Data
    <2> QED BY <1>1, <1>2, <2>1, <2>2, TasksAssumption DEF Table, Tree, Works
  <1> QED BY <1>3, <1>4, <1>5

(* Wherever a seed is in its manifest, what it has passed is as the manifest *)
(* says in the table it sees, and nothing else is written by it.             *)
THEOREM SeedInvariance == Spec => []SeedInv
  <1>1. Init => Data /\ Progress /\ Table
    BY StartsRight
  <1>2. MenuInv /\ Data /\ Progress /\ Table /\ [Next]_vars => Data' /\ Progress' /\ Table'
    <2> SUFFICES ASSUME MenuInv, Data, Progress, Table, [Next]_vars
                 PROVE  Data' /\ Progress' /\ Table'
      OBVIOUS
    <2>1. Functional /\ KeysDiffer(menus)
      BY DEF MenuInv, Places, Table, Tree
    <2> QED BY <2>1, NextData, NextProgress, NextTable
  <1>3. SeedInv <=> MenuInv /\ Data /\ Progress /\ Table
    BY DEF SeedInv
  <1> QED BY <1>1, <1>2, <1>3, MenuInvariance, PTL DEF Spec

LEMMA InvGivesTypes == SeedInv => TypeOK
  BY DEF SeedInv, MenuInv, LocksInv, Data, RowsTyped, TypeOK

Applies(s) ==
    /\ \A x \in DOMAIN job[s].manifest : Done(s, job[s].manifest[x])
    /\ \A i \in BuiltIn(menus') :
          \/ menus'[i].key \in KeysOf(job[s].manifest)
          \/ i \in Stale(s) /\ \A j \in Stale(s) : \E k \in Stale(s) : saw[s][k].parent = j
    /\ \A i \in BuiltIn(menus), j \in BuiltIn(menus') : menus[i].key = menus'[j].key => i = j
    /\ \A i \in DOMAIN menus \ BuiltIn(menus) : i \in DOMAIN menus' /\ menus'[i] = menus[i]

(* A seed that commits has applied its manifest (seed.py:426-470), for any   *)
(* number of seeds and edits, tables to start from and manifests.            *)
THEOREM SeedsApply == Spec => SeedApplies
  <1>1. ASSUME SeedInv, NEW s \in Seeds, Commit(s)
        PROVE  Applies(s)
    <2>1. Functional /\ Data /\ Progress /\ Table
      BY <1>1 DEF SeedInv, MenuInv, Places
    <2> QED BY <1>1, <2>1, CommittedNode, CommittedRows DEF Applies
  <1>2. SeedInv /\ [Next]_vars => [\A s \in Seeds : Commit(s) => Applies(s)]_vars
    BY <1>1
  <1>3. [][\A s \in Seeds : Commit(s) => Applies(s)]_vars => SeedApplies
    BY PTL DEF SeedApplies, Applies, Done
  <1> QED BY <1>2, <1>3, SeedInvariance, PTL DEF Spec

(* Every page granted to a user is in the routers unless a button or a cycle *)
(* is above it, in every table that seeds and edits can leave, and every     *)
(* variable keeps its type (menu/provider.py:39).                            *)
THEOREM GrantedAreShown == Spec => []GrantedPagesAreShown
  BY SeedInvariance, InvGivesTypes, TypesGiveShown, PTL
===============================================================================
