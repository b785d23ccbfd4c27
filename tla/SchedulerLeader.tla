--------------------------- MODULE SchedulerLeader ---------------------------
(* Which worker runs the cron scheduler: every process tries to take one     *)
(* MySQL named lock on a connection of its own, the one that gets it runs an *)
(* APScheduler with a job per enabled task, and each period it asks whether  *)
(* the lock is still its own and brings the jobs in line with the rows.      *)
(* What an execution does once it is fired is the module ScheduledTasks.     *)
EXTENDS Integers, FiniteSets, FiniteSetsExt

CONSTANTS
    Workers,    \* processes
    Tasks,      \* rows of scheduled_tasks
    Crons,      \* the cron expressions in use, each the set of its instants
    Off,        \* no enabled row: deleted, or its status is not enabled
    Invalid,    \* an enabled row whose expression no trigger can be built from
    None,
    Grace,      \* misfire_grace_seconds
    MaxTime,    \* bound: the clock stops here
    Budget      \* bound on starts, stops, crashes, faults and edits together

ASSUME SchedulerAssumption ==
    /\ \A c \in Crons : c \subseteq Nat
    /\ Grace \in Nat /\ MaxTime \in Nat /\ Budget \in Nat
    /\ Off \notin Crons /\ Invalid \notin Crons /\ Off # Invalid
    /\ None \notin Workers

VARIABLES
    row,        \* [Tasks -> Crons, Off or Invalid]: the committed rows
    now,
    owner,      \* whose session MySQL takes for the owner of the named lock
    conn,       \* _leader_conn: "none", "alive", or "lost" without the worker knowing
    leader,     \* _is_leader
    jobs,       \* _scheduler: None, or the job of every task (None: no job)
    seen,       \* the rows that list_enabled returned and _reconcile has not applied
    pc,         \* where the controller is
    booting,    \* still inside start(), where an error ends the process
    inflight,   \* the instant that _fire is executing, per task (max_instances=1)
    fired,      \* what this process has fired so far
    budget

vars == <<row, now, owner, conn, leader, jobs, seen, pc, booting, inflight, fired, budget>>

Rows == Crons \cup {Off, Invalid}
Instants == 0 .. MaxTime
Never == MaxTime + 1
Jobs == [cron : Crons, next : Instants \cup {Never}]
NoJobs == [t \in Tasks |-> None]

ASSUME NoneAssumption ==
    /\ None \notin [Tasks -> Jobs \cup {None}] /\ None \notin Jobs
    /\ None \notin Instants

TypeOK ==
    /\ row \in [Tasks -> Rows]
    /\ now \in Instants
    /\ owner \in Workers \cup {None}
    /\ conn \in [Workers -> {"none", "alive", "lost"}]
    /\ leader \in [Workers -> BOOLEAN]
    /\ jobs \in [Workers -> [Tasks -> Jobs \cup {None}] \cup {None}]
    /\ seen \in [Workers -> [Tasks -> Rows]]
    /\ pc \in [Workers -> {"down", "acquire", "probe", "list", "apply", "asleep", "drain"}]
    /\ booting \in [Workers -> BOOLEAN]
    /\ inflight \in [Workers -> [Tasks -> Instants \cup {None}]]
    /\ fired \in [Workers -> SUBSET (Tasks \X Instants)]
    /\ budget \in 0 .. Budget

Init ==
    /\ row \in [Tasks -> Rows \ {Invalid}]
    /\ now = 0
    /\ owner = None
    /\ conn = [w \in Workers |-> "none"]
    /\ leader = [w \in Workers |-> FALSE]
    /\ jobs = [w \in Workers |-> None]
    /\ seen = [w \in Workers |-> [t \in Tasks |-> Off]]
    /\ pc = [w \in Workers |-> "down"]
    /\ booting = [w \in Workers |-> FALSE]
    /\ inflight = [w \in Workers |-> NoJobs]
    /\ fired = [w \in Workers |-> {}]
    /\ budget = Budget

Spend == budget > 0 /\ budget' = budget - 1

(* Faulty variant: the instant of the clock itself counts as the next one.   *)
NextInstant_FromNow(c) ==
    LET later == {i \in c : i >= now /\ i <= MaxTime}
    IN  IF later = {} THEN Never ELSE Min(later)

(* The trigger's next instant after the clock; Never beyond the horizon.     *)
NextInstant(c) ==
    LET later == {i \in c : i > now /\ i <= MaxTime}
    IN  IF later = {} THEN Never ELSE Min(later)

------------------------------------------------------------------------------
(* start(): called in the lifespan of the application.                       *)
Start(w) ==
    /\ pc[w] = "down" /\ Spend
    /\ pc' = [pc EXCEPT ![w] = "acquire"]
    /\ booting' = [booting EXCEPT ![w] = TRUE]
    /\ fired' = [fired EXCEPT ![w] = {}]
    /\ UNCHANGED <<row, now, owner, conn, leader, jobs, seen, inflight>>

(* Faulty variants: an error ends the loop, or takes the scheduler with it.  *)
AfterError_EndsLoop(w) ==
    /\ Spend
    /\ pc' = [pc EXCEPT ![w] = "dead"]
    /\ UNCHANGED <<row, now, owner, conn, leader, jobs, seen, booting, inflight, fired>>

AfterError_StopsScheduler(w) ==
    /\ Spend
    /\ pc' = [pc EXCEPT ![w] = IF booting[w] THEN "drain" ELSE "asleep"]
    /\ jobs' = [jobs EXCEPT ![w] = None]
    /\ UNCHANGED <<row, now, owner, conn, leader, seen, booting, inflight, fired>>

(* What becomes of an error: the loop logs it and sleeps, start() passes it  *)
(* on and the lifespan runs stop() on its way out.                           *)
AfterError(w) ==
    /\ Spend
    /\ pc' = [pc EXCEPT ![w] = IF booting[w] THEN "drain" ELSE "asleep"]
    /\ jobs' = [jobs EXCEPT ![w] = IF booting[w] THEN None ELSE @]
    /\ UNCHANGED <<row, now, owner, conn, leader, seen, booting, inflight, fired>>

(* Faulty variant: a worker that was refused once never asks again.          *)
Wake_LeadersOnly(w) ==
    /\ pc[w] = "asleep" /\ leader[w]
    /\ pc' = [pc EXCEPT ![w] = "probe"]
    /\ UNCHANGED <<row, now, owner, conn, leader, jobs, seen, booting, inflight, fired, budget>>

(* _loop: the period is over.                                                *)
Wake(w) ==
    /\ pc[w] = "asleep"
    /\ pc' = [pc EXCEPT ![w] = IF leader[w] THEN "probe" ELSE "acquire"]
    /\ UNCHANGED <<row, now, owner, conn, leader, jobs, seen, booting, inflight, fired, budget>>

(* _try_acquire_leader: GET_LOCK does not wait. Any session that owns the    *)
(* lock refuses it, a forgotten one of this worker included.                 *)
TakeLock(w) ==
    /\ pc[w] = "acquire" /\ owner = None
    /\ owner' = w
    /\ conn' = [conn EXCEPT ![w] = "alive"]
    /\ leader' = [leader EXCEPT ![w] = TRUE]
    /\ jobs' = [jobs EXCEPT ![w] = NoJobs]
    /\ pc' = [pc EXCEPT ![w] = "list"]
    /\ UNCHANGED <<row, now, seen, booting, inflight, fired, budget>>

LockRefused(w) ==
    /\ pc[w] = "acquire" /\ owner # None
    /\ pc' = [pc EXCEPT ![w] = "asleep"]
    /\ booting' = [booting EXCEPT ![w] = FALSE]
    /\ UNCHANGED <<row, now, owner, conn, leader, jobs, seen, inflight, fired, budget>>

AcquireFails(w) == pc[w] = "acquire" /\ AfterError(w)

(* Faulty variant: the scheduler of a demoted worker goes on.                *)
Demote_KeepsScheduler(w) ==
    /\ conn' = [conn EXCEPT ![w] = "none"]
    /\ leader' = [leader EXCEPT ![w] = FALSE]
    /\ owner' = IF owner = w /\ conn[w] = "alive" THEN None ELSE owner
    /\ pc' = [pc EXCEPT ![w] = "asleep"]
    /\ UNCHANGED jobs

(* _demote: scheduler off, the physical connection thrown away. MySQL        *)
(* releases the lock at once unless the network is what was lost.            *)
Demote(w) ==
    /\ jobs' = [jobs EXCEPT ![w] = None]
    /\ conn' = [conn EXCEPT ![w] = "none"]
    /\ leader' = [leader EXCEPT ![w] = FALSE]
    /\ owner' = IF owner = w /\ conn[w] = "alive" THEN None ELSE owner
    /\ pc' = [pc EXCEPT ![w] = "asleep"]

(* _verify_leadership.                                                       *)
StillLeader(w) == conn[w] = "alive" /\ owner = w

(* Faulty variant: leadership is not verified.                               *)
Probe_Trusting(w) ==
    /\ pc[w] = "probe"
    /\ pc' = [pc EXCEPT ![w] = "list"]
    /\ UNCHANGED <<row, now, owner, conn, leader, jobs, seen, booting, inflight, fired, budget>>

Probe(w) ==
    /\ pc[w] = "probe"
    /\ IF StillLeader(w)
       THEN pc' = [pc EXCEPT ![w] = "list"] /\ UNCHANGED <<jobs, conn, leader, owner>>
       ELSE Demote(w)
    /\ UNCHANGED <<row, now, seen, booting, inflight, fired, budget>>

(* The probe of a live connection times out or fails.                        *)
ProbeFails(w) ==
    /\ pc[w] = "probe" /\ StillLeader(w) /\ Spend /\ Demote(w)
    /\ UNCHANGED <<row, now, seen, booting, inflight, fired>>

(* _reconcile, first half: the rows are read in a transaction of their own.  *)
List(w) ==
    /\ pc[w] = "list"
    /\ seen' = [seen EXCEPT ![w] = row]
    /\ pc' = [pc EXCEPT ![w] = "apply"]
    /\ UNCHANGED <<row, now, owner, conn, leader, jobs, booting, inflight, fired, budget>>

ListFails(w) == pc[w] = "list" /\ AfterError(w)

(* Faulty variant: the job of a disabled task stays.                         *)
JobFor_KeepsDisabled(w, t) ==
    IF seen[w][t] \in {Off, Invalid} THEN jobs[w][t]
    ELSE [cron |-> seen[w][t], next |-> NextInstant(seen[w][t])]

(* The job a row asks for. replace_existing computes the next instant from   *)
(* the clock; a row without a valid trigger is skipped and keeps its job.    *)
JobFor(w, t) ==
    CASE seen[w][t] = Off     -> None
      [] seen[w][t] = Invalid -> jobs[w][t]
      [] OTHER                -> [cron |-> seen[w][t], next |-> NextInstant(seen[w][t])]

(* _reconcile, second half, without an await.                                *)
Apply(w) ==
    /\ pc[w] = "apply"
    /\ jobs' = [jobs EXCEPT ![w] = [t \in Tasks |-> JobFor(w, t)]]
    /\ pc' = [pc EXCEPT ![w] = "asleep"]
    /\ booting' = [booting EXCEPT ![w] = FALSE]
    /\ UNCHANGED <<row, now, owner, conn, leader, seen, inflight, fired, budget>>

------------------------------------------------------------------------------
(* APScheduler finds a job due. coalesce keeps the last of the instants that *)
(* have passed, max_instances=1 drops it while the previous one runs, and an *)
(* instant that is past its grace is not run. (External: apscheduler.)       *)
Due(w, t) ==
    /\ jobs[w] # None /\ jobs[w][t] # None /\ jobs[w][t].next <= now
    /\ LET last == Max({i \in jobs[w][t].cron : i <= now})
       IN  IF inflight[w][t] = None /\ now - last <= Grace
           THEN /\ inflight' = [inflight EXCEPT ![w][t] = last]
                /\ fired' = [fired EXCEPT ![w] = @ \cup {<<t, last>>}]
           ELSE UNCHANGED <<inflight, fired>>
    /\ jobs' = [jobs EXCEPT ![w][t].next = NextInstant(jobs[w][t].cron)]
    /\ UNCHANGED <<row, now, owner, conn, leader, seen, pc, booting, budget>>

(* _fire returns: the execution is over, whatever became of it.              *)
FireEnds(w, t) ==
    /\ inflight[w][t] # None
    /\ inflight' = [inflight EXCEPT ![w][t] = None]
    /\ UNCHANGED <<row, now, owner, conn, leader, jobs, seen, pc, booting, fired, budget>>

------------------------------------------------------------------------------
(* Faulty variant: the lock is released before the executions have ended.    *)
Stop_ReleasesFirst(w) ==
    /\ pc[w] \notin {"down", "drain"} /\ ~booting[w] /\ Spend
    /\ pc' = [pc EXCEPT ![w] = "drain"]
    /\ jobs' = [jobs EXCEPT ![w] = None]
    /\ owner' = IF owner = w /\ conn[w] = "alive" THEN None ELSE owner
    /\ UNCHANGED <<row, now, conn, leader, seen, booting, inflight, fired>>

(* stop(), first half: the loop is cancelled wherever it is, the scheduler   *)
(* accepts no further instant.                                               *)
Stop(w) ==
    /\ pc[w] \notin {"down", "drain"} /\ ~booting[w] /\ Spend
    /\ pc' = [pc EXCEPT ![w] = "drain"]
    /\ jobs' = [jobs EXCEPT ![w] = None]
    /\ UNCHANGED <<row, now, owner, conn, leader, seen, booting, inflight, fired>>

(* stop(), second half, once nothing runs any more: the lock is released,    *)
(* unless the connection has been lost, and the process exits.               *)
Exit(w) ==
    /\ owner' = IF owner = w /\ conn[w] = "alive" THEN None ELSE owner
    /\ conn' = [conn EXCEPT ![w] = "none"]
    /\ leader' = [leader EXCEPT ![w] = FALSE]
    /\ jobs' = [jobs EXCEPT ![w] = None]
    /\ pc' = [pc EXCEPT ![w] = "down"]
    /\ booting' = [booting EXCEPT ![w] = FALSE]
    /\ inflight' = [inflight EXCEPT ![w] = NoJobs]
    /\ UNCHANGED <<row, now, seen, fired>>

Drained(w) ==
    /\ pc[w] = "drain" /\ inflight[w] = NoJobs
    /\ Exit(w) /\ UNCHANGED budget

(* The process ends at once: killed, or scheduler_shutdown_grace_seconds     *)
(* passed in the drain. What it was executing ends with it.                  *)
Crash(w) == pc[w] # "down" /\ Spend /\ Exit(w)

------------------------------------------------------------------------------
(* The connection of a leader is lost: killed by the server, which releases  *)
(* the lock, or cut by the network, which the server notices later.          *)
Lose(w) ==
    /\ conn[w] = "alive" /\ Spend
    /\ conn' = [conn EXCEPT ![w] = "lost"]
    /\ owner' \in IF owner = w THEN {w, None} ELSE {owner}
    /\ UNCHANGED <<row, now, leader, jobs, seen, pc, booting, inflight, fired>>

(* MySQL gives up a session whose client is gone.                            *)
Reap(w) ==
    /\ owner = w /\ conn[w] # "alive"
    /\ owner' = None
    /\ UNCHANGED <<row, now, conn, leader, jobs, seen, pc, booting, inflight, fired, budget>>

(* An administrator creates, changes, disables or deletes a task.            *)
Edit(t) ==
    /\ Spend
    /\ \E r \in Rows \ {row[t]} : row' = [row EXCEPT ![t] = r]
    /\ UNCHANGED <<now, owner, conn, leader, jobs, seen, pc, booting, inflight, fired>>

Tick ==
    /\ now < MaxTime /\ now' = now + 1
    /\ UNCHANGED <<row, owner, conn, leader, jobs, seen, pc, booting, inflight, fired, budget>>

Loop(w) == Wake(w) \/ TakeLock(w) \/ LockRefused(w) \/ Probe(w) \/ List(w) \/ Apply(w)
Fault(w) == AcquireFails(w) \/ ProbeFails(w) \/ ListFails(w) \/ Crash(w) \/ Lose(w)

Next ==
    \/ \E w \in Workers :
          \/ Start(w) \/ Stop(w) \/ Drained(w) \/ Loop(w) \/ Fault(w) \/ Reap(w)
          \/ \E t \in Tasks : Due(w, t) \/ FireEnds(w, t)
    \/ \E t \in Tasks : Edit(t)
    \/ Tick

Spec == Init /\ [][Next]_vars

(* The event loop runs what is ready, the poll period passes, executions end *)
(* and MySQL gives up dead sessions; nobody has to start, stop or edit.      *)
FairSpec ==
    /\ Spec
    /\ \A w \in Workers :
          /\ WF_vars(Loop(w)) /\ WF_vars(Drained(w)) /\ WF_vars(Reap(w))
          /\ \A t \in Tasks : WF_vars(Due(w, t)) /\ WF_vars(FireEnds(w, t))

------------------------------------------------------------------------------
(* Two schedulers run side by side only while the older of them has lost its *)
(* connection and has not probed it yet (scheduler.py:127): a demoted or     *)
(* stopping worker has no scheduler, and no error leaves one behind.         *)
OneSchedulerUnlessLost ==
    \A v, w \in Workers :
        v # w /\ jobs[v] # None /\ jobs[w] # None => "lost" \in {conn[v], conn[w]}

(* Whoever holds the lock on a live connection is the leader, and runs a     *)
(* scheduler unless it is draining: no failure of a step leaves the lock     *)
(* with a worker that does not schedule (scheduler.py:119).                  *)
NoIdleOwner ==
    \A w \in Workers :
        owner = w /\ conn[w] = "alive" => leader[w] /\ (jobs[w] # None \/ pc[w] = "drain")

(* The lock outlives the executions of an orderly stop: while a worker still *)
(* executes and has not lost its connection, no other worker is leader.      *)
(* A worker demoted by its probe gives the lock up with executions running,  *)
(* so leadership is compared, not the executions of two leaders.             *)
DrainBeforeRelease ==
    \A v, w \in Workers :
        v # w /\ pc[v] = "drain" /\ conn[v] = "alive" /\ inflight[v] # NoJobs => ~StillLeader(w)

(* One scheduler, with the lock, until its executions have ended: the three  *)
(* parts above, and no variable leaves its type.                             *)
Leadership == TypeOK /\ OneSchedulerUnlessLost /\ NoIdleOwner /\ DrainBeforeRelease

(* A process never fires one instant of a task twice, though every period    *)
(* replaces its jobs (scheduler.py:183) and it may lose and regain the lock. *)
NoInstantTwice ==
    [][\A w \in Workers, t \in Tasks :
          inflight'[w][t] # None /\ inflight'[w][t] # inflight[w][t]
              => <<t, inflight'[w][t]>> \notin fired[w]]_vars

(* A worker that is up sees a leader: itself, another one, or it goes down.  *)
LeaderEmerges ==
    \A w \in Workers :
        pc[w] = "asleep" ~> (pc[w] \in {"down", "drain"} \/ \E v \in Workers : StillLeader(v))

(* A leader that lost its lock stops its scheduler (scheduler.py:127).       *)
DeposedStops == \A w \in Workers : conn[w] = "lost" ~> jobs[w] = None

(* Once a row no longer changes, every running scheduler has its job and no  *)
(* other one, although reconciliations failed and rows changed between the   *)
(* read and the application (scheduler.py:119, scheduler.py:167).            *)
JobMatches(w, t) ==
    IF row[t] = Off THEN jobs[w][t] = None
    ELSE jobs[w][t] # None /\ jobs[w][t].cron = row[t]

JobsFollowRows ==
    \A t \in Tasks :
        <>[][row'[t] = row[t]]_vars /\ <>[](row[t] # Invalid)
            => <>[](\A w \in Workers : jobs[w] = None \/ JobMatches(w, t))

(* What happens in the end, whatever failed before: the three parts above.   *)
LeadershipSettles == LeaderEmerges /\ DeposedStops /\ JobsFollowRows
==============================================================================
