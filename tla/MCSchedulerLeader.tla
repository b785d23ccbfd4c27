-------------------------- MODULE MCSchedulerLeader --------------------------
(* SchedulerLeader on small instances: two workers, one task, two crons.     *)
EXTENDS SchedulerLeader, TLC

CONSTANTS t1, w1, w2

OneTask == {t1}
TwoWorkers == {w1, w2}
TwoCrons == {{1, 2}, {2}}
=============================================================================
