----------------------------- MODULE TaskLedger -----------------------------
(***************************************************************************)
(* What the execution log of scheduled tasks promises: entries are only    *)
(* added, an instant of a task is entered at most once, and an entry moves *)
(* from running to its outcome once.                                       *)
(***************************************************************************)
EXTENDS Integers

CONSTANTS Tasks

VARIABLE entry      \* id -> task, planned instant (-1 for a manual run), status

Entered(t, k) == \E i \in DOMAIN entry : entry[i].task = t /\ entry[i].tick = k

Init == entry = [i \in {} |-> 0]

Enter(i, t, k, s) ==
    /\ i \notin DOMAIN entry
    /\ k # -1 => ~Entered(t, k)
    /\ entry' = [j \in DOMAIN entry \cup {i} |->
                   IF j = i THEN [task |-> t, tick |-> k, status |-> s] ELSE entry[j]]

End(i, s) ==
    /\ entry[i].status = "running"
    /\ entry' = [entry EXCEPT ![i].status = s]

\* Only the entry that the step adds is looked at.
Next ==
    \/ \E i \in DOMAIN entry' \ DOMAIN entry :
          \E t \in Tasks, s \in {"running", "skipped"} :
             Enter(i, t, entry'[i].tick, s)
    \/ \E i \in DOMAIN entry, s \in {"success", "failure"} : End(i, s)

Spec == Init /\ [][Next]_entry
=============================================================================
