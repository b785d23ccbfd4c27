------------------------------- MODULE AppLocks -------------------------------
(* Application locks (db/locks.py): a transaction owns the lock of a name    *)
(* while it has the row of that name in app_locks locked FOR UPDATE. The row *)
(* is made the first time the lock is wanted, by a transaction of its own    *)
(* when the caller has no connection yet and inside the caller's otherwise;  *)
(* each process remembers which rows it has seen. Rows may be deleted under  *)
(* it (tests and maintenance clean tables), and the transaction that made a  *)
(* row may be rolled back.                                                   *)
(*                                                                           *)
(* Abstracted: the guard that lets one coroutine of a process at a time make *)
(* a row (making it is one step), the three attempts of the short            *)
(* transaction, and the names. A task asks for one lock.                     *)
EXTENDS Integers

CONSTANTS
    Tasks,          \* transactions
    ProcessOf,      \* the process of each
    Names,          \* names of locks
    None            \* absent

ASSUME LocksAssumption == None \notin Tasks

VARIABLES
    stored,     \* names with a committed row
    inserting,  \* per name, whose uncommitted INSERT IGNORE made the row
    sharing,    \* per name, whose INSERT IGNORE met the row and locked it in shared mode
    held,       \* per name, who has it locked FOR UPDATE
    known,      \* _KNOWN_LOCK_ROWS, per process
    step,       \* how far each task is
    name,       \* the name it asked for
    tries       \* SELECTs it has made

locks == <<stored, inserting, sharing, held, known, step, name, tries>>

Steps == {"out", "ensure", "insert", "select", "holds", "failed"}
Processes == {ProcessOf[t] : t \in Tasks}
Knows(t) == name[t] \in known[ProcessOf[t]]
Learn(t) == known' = [known EXCEPT ![ProcessOf[t]] = @ \cup {name[t]}]

LocksTypeOK ==
    /\ stored \subseteq Names
    /\ inserting \in [Names -> Tasks \cup {None}]
    /\ sharing \in [Names -> SUBSET Tasks]
    /\ held \in [Names -> Tasks \cup {None}]
    /\ known \in [Processes -> SUBSET Names]
    /\ step \in [Tasks -> Steps]
    /\ name \in [Tasks -> Names \cup {None}]
    /\ tries \in [Tasks -> 0 .. 2]

LocksInit ==
    /\ stored \in SUBSET Names
    /\ inserting = [n \in Names |-> None]
    /\ sharing = [n \in Names |-> {}]
    /\ held = [n \in Names |-> None]
    /\ known = [p \in Processes |-> {}]
    /\ step = [t \in Tasks |-> "out"]
    /\ name = [t \in Tasks |-> None]
    /\ tries = [t \in Tasks |-> 0]

(* acquire_transaction_lock is called. *)
Want(t, n, connected) ==
    /\ step' = [step EXCEPT ![t] = IF n \in known[ProcessOf[t]] THEN "select"
                                   ELSE IF connected THEN "insert" ELSE "ensure"]
    /\ name' = [name EXCEPT ![t] = n]
    /\ tries' = [tries EXCEPT ![t] = 0]
    /\ UNCHANGED <<stored, inserting, sharing, held, known>>

(* A transaction of its own: SELECT, INSERT IGNORE, COMMIT. The INSERT waits *)
(* for the end of a transaction that has inserted the row.                   *)
Ensure(t) ==
    /\ step[t] = "ensure"
    /\ name[t] \in stored \/ inserting[name[t]] = None
    /\ stored' = stored \cup {name[t]}
    /\ Learn(t)
    /\ step' = [step EXCEPT ![t] = "select"]
    /\ UNCHANGED <<inserting, sharing, held, name, tries>>

(* Inside the caller's transaction, unless the process knows the row by now: *)
(* INSERT IGNORE makes the row, or locks the one there is in shared mode.    *)
InsertIgnore(t) ==
    LET n == name[t]
    IN  IF n \in stored
        THEN held[n] \in {None, t} /\ sharing' = [sharing EXCEPT ![n] = @ \cup {t}] /\ UNCHANGED inserting
        ELSE inserting[n] \in {None, t} /\ inserting' = [inserting EXCEPT ![n] = t] /\ UNCHANGED sharing

(* After the second SELECT there is no third: RuntimeError.                  *)
Insert(t) ==
    /\ step[t] = "insert"
    /\ IF Knows(t) THEN UNCHANGED <<inserting, sharing, known>> ELSE InsertIgnore(t) /\ Learn(t)
    /\ step' = [step EXCEPT ![t] = IF tries[t] = 2 THEN "failed" ELSE "select"]
    /\ UNCHANGED <<stored, held, name, tries>>

(* Faulty variant: an empty result counts as success.                        *)
Missed_Trusting(t) ==
    /\ step' = [step EXCEPT ![t] = "holds"]
    /\ UNCHANGED <<held, known, tries>>

(* No row: what the process knew is no longer true, and the row is made.     *)
Missed(t) ==
    /\ known' = [known EXCEPT ![ProcessOf[t]] = @ \ {name[t]}]
    /\ tries' = [tries EXCEPT ![t] = @ + 1]
    /\ step' = [step EXCEPT ![t] = "insert"]
    /\ UNCHANGED held

Locked(t) ==
    /\ held[name[t]] \in {None, t} /\ sharing[name[t]] \subseteq {t}
    /\ held' = [held EXCEPT ![name[t]] = t]
    /\ Learn(t)
    /\ step' = [step EXCEPT ![t] = "holds"]
    /\ UNCHANGED tries

(* SELECT ... FOR UPDATE: waits for whoever has the row locked or inserted.  *)
(* Of two that share the row and both wait here, MySQL rolls one back.       *)
Select(t) ==
    /\ step[t] = "select"
    /\ inserting[name[t]] \in {None, t}
    /\ IF name[t] \in stored \/ inserting[name[t]] = t THEN Locked(t) ELSE Missed(t)
    /\ UNCHANGED <<stored, inserting, sharing, name>>

(* The end of the transaction, COMMIT or ROLLBACK.                           *)
Release(t, commits) ==
    /\ stored' = stored \cup {n \in Names : commits /\ inserting[n] = t}
    /\ inserting' = [n \in Names |-> IF inserting[n] = t THEN None ELSE inserting[n]]
    /\ sharing' = [n \in Names |-> sharing[n] \ {t}]
    /\ held' = [n \in Names |-> IF held[n] = t THEN None ELSE held[n]]
    /\ step' = [step EXCEPT ![t] = "out"]
    /\ name' = [name EXCEPT ![t] = None]
    /\ tries' = [tries EXCEPT ![t] = 0]
    /\ UNCHANGED known

(* The row is deleted from outside; nobody may have it locked.               *)
Wipe(n) ==
    /\ n \in stored /\ held[n] = None /\ sharing[n] = {}
    /\ stored' = stored \ {n}
    /\ UNCHANGED <<inserting, sharing, held, known, step, name, tries>>

Acquire(t) == Ensure(t) \/ Insert(t) \/ Select(t)

(* A transaction asks for one lock at most and ends at any moment.           *)
LocksNext ==
    \/ \E t \in Tasks :
          \/ step[t] = "out" /\ \E n \in Names, connected \in BOOLEAN : Want(t, n, connected)
          \/ Acquire(t)
          \/ step[t] \in {"out", "holds"} /\ Release(t, TRUE)
          \/ Release(t, FALSE)
    \/ \E n \in Names : Wipe(n)

LocksSpec == LocksInit /\ [][LocksNext]_locks

(* A lock has one holder, although a process may believe in a row that is    *)
(* not there any more (locks.py:83), and the holder has the row.             *)
OneHolder ==
    \A t \in Tasks : step[t] = "holds" =>
        /\ held[name[t]] = t
        /\ name[t] \in stored \/ inserting[name[t]] = t
        /\ \A u \in Tasks \ {t} : ~(step[u] = "holds" /\ name[u] = name[t])
===============================================================================
