-------------------------- MODULE MCScheduledTasks --------------------------
(* ScheduledTasks on small instances: one task, cron instants at the minutes *)
(* named here.                                                               *)
EXTENDS ScheduledTasks, TLC

CONSTANTS t1, w1, w2, r1, r2

OneTask == {t1}
OneWorker == {w1}
TwoWorkers == {w1, w2}
TwoRuns == {r1, r2}
EveryOther == t1 :> {1, 3}
EveryMinute == t1 :> {1, 2}
Once == t1 :> {1}
Limited == {1}
Unlimited == {None}
AnyLimit == {1, None}
Interchangeable == Permutations(Workers) \cup Permutations(Runs)
=============================================================================
