--------------------------- MODULE ScheduledTasks ---------------------------
(***************************************************************************)
(* Execution of scheduled tasks: the job tables of the workers, the claim  *)
(* transaction, the run of the handler outside any transaction, the        *)
(* recording of its result, and the administration of tasks meanwhile.     *)
(*                                                                         *)
(* Any worker may have jobs loaded: two leaders may overlap for a while    *)
(* (a half-open connection, a demoted leader with executions in flight),   *)
(* and it is the claim, not the leadership, that must keep a tick from     *)
(* being executed twice.                                                   *)
(*                                                                         *)
(* One unit of the clock is a minute, the resolution of a cron expression: *)
(* an instant opens its minute, and what happens at minute now happens     *)
(* after the instant now.                                                  *)
(* Bounds: the clock stops at MaxTime, executions start until LastStart,   *)
(* MaxLogs log rows are written.                                           *)
(***************************************************************************)
EXTENDS Integers, FiniteSetsExt

CONSTANTS
    Tasks,          \* rows of scheduled_tasks
    Workers,        \* processes that run the scheduler and serve requests
    Runs,           \* slots for calls of TaskExecutor.run in progress
    Ticks,          \* task -> the instants its cron expression denotes
    Grace,          \* misfire_grace_seconds
    Slack,          \* the 60 seconds added to the grace when looking back
    QueueLimit,     \* how long a claim may take: connection, lock, insert
    Timeouts,       \* values of timeout_seconds, None for no limit
    DefaultStale,   \* _DEFAULT_STALE_SECONDS
    ManualCap,      \* _MANUAL_RUN_MAX_TIMEOUT
    MaxTime, LastStart, MaxLogs,
    Faults,         \* whether processes and database connections may fail
    None

ASSUME TickAssumption == Ticks \in [Tasks -> SUBSET Nat]
ASSUME DelayAssumption ==
    /\ Grace \in Nat /\ Slack \in Nat /\ QueueLimit \in Nat
    /\ QueueLimit <= Slack
ASSUME LimitAssumption ==
    /\ None \notin Nat \cup Runs \cup Tasks
    /\ Timeouts \subseteq (Nat \ {0}) \cup {None}
    /\ DefaultStale \in Nat \ {0} /\ ManualCap \in Nat \ {0}
ASSUME HorizonAssumption ==
    /\ MaxTime \in Nat /\ LastStart \in Nat /\ MaxLogs \in Nat
    /\ Faults \in BOOLEAN
    /\ IsFiniteSet(Runs)

VARIABLES
    now,        \* the clock
    task,       \* rows of scheduled_tasks
    logs,       \* rows of scheduled_task_logs, by id
    next,       \* next_run_time of each job in each worker's scheduler
    lock,       \* task -> holder of its app_locks row
    phase,      \* how far each execution is
    run         \* what each execution is about

vars == <<now, task, logs, next, lock, phase, run>>

-----------------------------------------------------------------------------
(* Types.                                                                  *)

Never == -1
LogId == 1 .. MaxLogs
NoLog == 0
Statuses == {"new", "enabled", "disabled", "gone"}
\* ran stands for last_run_at and last_status.
Task == [status: Statuses, concurrent: BOOLEAN, timeout: Timeouts, ran: Nat \cup {Never}]
Open == {"running"}
Final == {"success", "failure", "skipped"}

\* of, due, stale and exclusive are history: the task whatever becomes of its
\* row, the tick that triggered the run, and what the claim read.
Log == [task: Tasks \cup {None}, trigger: {"schedule", "manual"},
        tick: Nat \cup {Never}, status: Open \cup Final, at: Nat,
        finished: Nat \cup {Never},
        of: Tasks, due: Nat \cup {Never}, stale: Nat, exclusive: BOOLEAN]

Phases == {"idle", "queued", "locked", "read", "running", "ended", "closing"}
Run == [worker: Workers, task: Tasks, trigger: {"schedule", "manual"},
        due: Nat \cup {Never}, counted: BOOLEAN, since: Nat,
        entry: Log \cup {None}, log: LogId \cup {NoLog}, timeout: Nat \cup {None},
        deadline: Nat \cup {None}, outcome: Final, end: Nat, sawTask: BOOLEAN]

ASSUME NoneAssumption == None \notin Log /\ None \notin Run

TypeOK ==
    /\ now \in 0 .. MaxTime
    /\ task \in [Tasks -> Task]
    /\ DOMAIN logs \subseteq LogId
    /\ \A l \in DOMAIN logs : logs[l] \in Log
    /\ next \in [Workers -> [Tasks -> Nat \cup {None}]]
    /\ lock \in [Tasks -> Runs \cup {None}]
    /\ phase \in [Runs -> Phases]
    /\ run \in [Runs -> Run \cup {None}]
    /\ \A r \in Runs :
          /\ run[r] = None <=> phase[r] = "idle"
          /\ phase[r] \in {"running", "ended", "closing"} => run[r].log \in DOMAIN logs

-----------------------------------------------------------------------------
(* Time.                                                                   *)

TicksIn(t, from, to) == {k \in Ticks[t] : from <= k /\ k <= to}

\* CronTrigger.get_next_fire_time(None, from), None when the expression has no
\* later instant.
NextTick(t, from) ==
    LET later == {k \in Ticks[t] : k >= from}
    IN  IF later = {} THEN None ELSE Min(later)

\* Faulty variant: the minute of the claim instead of the planned tick.
PlannedTick_WallClock(t) == now

\* scheduled_tick_at: the last planned instant of the look-back window; the
\* minute of the claim when there is none.
PlannedTick(t) ==
    LET past == TicksIn(t, now - (Grace + Slack), now)
    IN  IF past = {} THEN now ELSE Max(past)

StaleAfter(t) == IF task[t].timeout = None THEN DefaultStale ELSE task[t].timeout

\* A manual run occupies a request and gets a limit in any case.
LimitOf(trigger, timeout) ==
    IF trigger = "schedule" THEN timeout
    ELSE IF timeout = None THEN ManualCap ELSE Min({timeout, ManualCap})

-----------------------------------------------------------------------------
(* Rows and locks.                                                         *)

Stored(t) == task[t].status \in {"enabled", "disabled"}

\* SELECT ... FOR UPDATE of a claim keeps UPDATE, DELETE and other claims out.
RowFree(t) == \A r \in Runs : phase[r] = "read" => run[r].task # t

\* Faulty variant: executions left behind by a crash count for ever.
CountedRunning_Orphans(t) ==
    {l \in DOMAIN logs : logs[l].task = t /\ logs[l].status = "running"}

\* Faulty variant: started_at > since.
CountedRunning_Strict(t) ==
    {l \in DOMAIN logs : /\ logs[l].task = t
                         /\ logs[l].status = "running"
                         /\ logs[l].at > now - StaleAfter(t)}

\* count_running: executions of the task begun within the stale window.
CountedRunning(t) ==
    {l \in DOMAIN logs : /\ logs[l].task = t
                         /\ logs[l].status = "running"
                         /\ logs[l].at >= now - StaleAfter(t)}

\* Faulty variant: the lock outlives the transaction.
Unlock_Never(r) == lock

Unlock(r) == [t \in Tasks |-> IF lock[t] = r THEN None ELSE lock[t]]

\* The call returns or fails, and its transaction, if any, is over.
Leave(r) ==
    /\ phase' = [phase EXCEPT ![r] = "idle"]
    /\ run' = [run EXCEPT ![r] = None]
    /\ lock' = Unlock(r)

Init ==
    /\ now = 0
    /\ task \in [Tasks -> [status: {"new"}, concurrent: BOOLEAN, timeout: Timeouts,
                           ran: {Never}]]
    /\ logs = [l \in {} |-> None]
    /\ next = [w \in Workers |-> [t \in Tasks |-> None]]
    /\ lock = [t \in Tasks |-> None]
    /\ phase = [r \in Runs |-> "idle"]
    /\ run = [r \in Runs |-> None]

-----------------------------------------------------------------------------
(* The job tables.                                                         *)

\* _reconcile: jobs of enabled tasks are replaced, which computes their next
\* instant anew; the others are removed.
Reconcile(w) ==
    /\ next' = [next EXCEPT ![w] =
                  [t \in Tasks |-> IF task[t].status = "enabled"
                                   THEN NextTick(t, now + 1) ELSE None]]
    /\ UNCHANGED <<now, task, logs, lock, phase, run>>

\* _demote and stop: the scheduler object is dropped; executions that are in
\* flight go on, but a new scheduler will not count them.
Unload(w) ==
    /\ \E t \in Tasks : next[w][t] # None
    /\ next' = [next EXCEPT ![w] = [t \in Tasks |-> None]]
    /\ run' = [r \in Runs |-> IF phase[r] # "idle" /\ run[r].worker = w
                              THEN [run[r] EXCEPT !.counted = FALSE] ELSE run[r]]
    /\ UNCHANGED <<now, task, logs, lock, phase>>

\* Bound: a slot, time and a log row are left for the execution.
MayStart(r) ==
    /\ phase[r] = "idle"
    /\ now <= LastStart
    /\ Cardinality(DOMAIN logs)
         + Cardinality({q \in Runs : phase[q] \in {"queued", "locked", "read"}})
       < MaxLogs

Begin(r, w, t, trigger, due) ==
    /\ MayStart(r)
    /\ phase' = [phase EXCEPT ![r] = "queued"]
    /\ run' = [run EXCEPT ![r] =
                 [worker |-> w, task |-> t, trigger |-> trigger, due |-> due,
                  counted |-> trigger = "schedule", since |-> now,
                  entry |-> None, log |-> NoLog, timeout |-> None,
                  deadline |-> None, outcome |-> "skipped", end |-> 0,
                  sawTask |-> FALSE]]

\* An instant of a job has come.  coalesce=True keeps the last of several,
\* whatever happens to it the job moves on to its next instant.
Due(w, t) == next[w][t] # None /\ next[w][t] <= now
LastDue(w, t) == Max(TicksIn(t, next[w][t], now))
Advance(w, t) == next' = [next EXCEPT ![w][t] = NextTick(t, now + 1)]
InstanceRuns(w, t) ==
    \E r \in Runs : /\ phase[r] # "idle" /\ run[r].counted
                    /\ run[r].worker = w /\ run[r].task = t

Fire(r, w, t) ==
    /\ Due(w, t)
    /\ ~InstanceRuns(w, t)
    /\ now - LastDue(w, t) <= Grace
    /\ Advance(w, t)
    /\ Begin(r, w, t, "schedule", LastDue(w, t))
    /\ UNCHANGED <<now, task, logs, lock>>

\* max_instances=1 drops the instant while the previous one runs, and
\* misfire_grace_time drops it when it comes too late.
Dropped(w, t) ==
    /\ Due(w, t)
    /\ InstanceRuns(w, t) \/ now - LastDue(w, t) > Grace
    /\ Advance(w, t)
    /\ UNCHANGED <<now, task, logs, lock, phase, run>>

\* manual_run: the task exists, whether it is enabled or not.
ManualRun(r, w, t) ==
    /\ Stored(t)
    /\ Begin(r, w, t, "manual", Never)
    /\ UNCHANGED <<now, task, logs, next, lock>>

-----------------------------------------------------------------------------
(* The claim transaction.                                                  *)

\* FOR UPDATE on the app_locks row of the task.
Acquire(r) ==
    /\ phase[r] = "queued"
    /\ lock[run[r].task] = None
    /\ lock' = [lock EXCEPT ![run[r].task] = r]
    /\ phase' = [phase EXCEPT ![r] = "locked"]
    /\ UNCHANGED <<now, task, logs, next, run>>

\* get_for_update, the planned tick and the count of running executions.
Read(r) ==
    LET t == run[r].task
        skip == ~task[t].concurrent /\ CountedRunning(t) # {}
    IN  /\ phase[r] = "locked"
        /\ Stored(t) /\ RowFree(t)
        /\ phase' = [phase EXCEPT ![r] = "read"]
        /\ run' = [run EXCEPT
              ![r].timeout = LimitOf(run[r].trigger, task[t].timeout),
              ![r].entry =
                 [task |-> t, trigger |-> run[r].trigger,
                  tick |-> IF run[r].trigger = "schedule" THEN PlannedTick(t) ELSE Never,
                  status |-> IF skip THEN "skipped" ELSE "running",
                  at |-> now, finished |-> IF skip THEN now ELSE Never,
                  of |-> t, due |-> run[r].due, stale |-> StaleAfter(t),
                  exclusive |-> ~task[t].concurrent]]
        /\ UNCHANGED <<now, task, logs, next, lock>>

\* The task was deleted after it was triggered.
Vanished(r) ==
    /\ phase[r] = "locked"
    /\ ~Stored(run[r].task)
    /\ Leave(r)
    /\ UNCHANGED <<now, task, logs, next>>

\* uq_scheduled_task_logs_schedule_claim: one row per task and planned tick.
ClaimTaken(e) ==
    /\ e.trigger = "schedule"
    /\ \E l \in DOMAIN logs : /\ logs[l].trigger = "schedule"
                              /\ logs[l].task = e.task /\ logs[l].tick = e.tick

\* What the claim needed is in the log row now.
Running(r, l) ==
    [run[r] EXCEPT !.log = l, !.entry = None, !.due = Never, !.since = 0,
                   !.timeout = None,
                   !.deadline = IF run[r].timeout = None THEN None
                                ELSE now + run[r].timeout]

\* INSERT and COMMIT of a running row; the handler starts at once.
Claim(r) ==
    LET e == run[r].entry
        l == Cardinality(DOMAIN logs) + 1
    IN  /\ phase[r] = "read" /\ e.status = "running"
        /\ ~ClaimTaken(e)
        /\ logs' = [k \in DOMAIN logs \cup {l} |-> IF k = l THEN e ELSE logs[k]]
        /\ phase' = [phase EXCEPT ![r] = "running"]
        /\ run' = [run EXCEPT ![r] = Running(r, l)]
        /\ lock' = Unlock(r)
        /\ UNCHANGED <<now, task, next>>

\* A skip is written too, and takes the tick like an execution does.
Skip(r) ==
    LET e == run[r].entry
        l == Cardinality(DOMAIN logs) + 1
    IN  /\ phase[r] = "read" /\ e.status = "skipped"
        /\ ~ClaimTaken(e)
        /\ logs' = [k \in DOMAIN logs \cup {l} |-> IF k = l THEN e ELSE logs[k]]
        /\ Leave(r)
        /\ UNCHANGED <<now, task, next>>

\* Faulty variant: the conflict is swallowed and the handler starts.
Taken_Ignored(r) ==
    /\ phase[r] = "read"
    /\ ClaimTaken(run[r].entry)
    /\ phase' = [phase EXCEPT ![r] = "running"]
    /\ lock' = Unlock(r)
    /\ UNCHANGED <<now, task, logs, next, run>>

\* The tick is taken: IntegrityError 1062, rollback, nothing to do.
Taken(r) ==
    /\ phase[r] = "read"
    /\ ClaimTaken(run[r].entry)
    /\ Leave(r)
    /\ UNCHANGED <<now, task, logs, next>>

\* The claim fails for good (1213 three times, 1205, a lost connection), or the
\* transaction of the result does.
DatabaseFails(r) ==
    /\ Faults
    /\ phase[r] \in {"queued", "locked", "read", "ended", "closing"}
    /\ Leave(r)
    /\ UNCHANGED <<now, task, logs, next>>

-----------------------------------------------------------------------------
(* The handler and its result.                                             *)

\* _finish takes the time before it opens its transaction.
EndsWith(r, outcome) ==
    /\ phase[r] = "running"
    /\ phase' = [phase EXCEPT ![r] = "ended"]
    /\ run' = [run EXCEPT ![r].outcome = outcome, ![r].end = now,
                           ![r].deadline = None]
    /\ UNCHANGED <<now, task, logs, next, lock>>

HandlerEnds(r) == \E outcome \in {"success", "failure"} : EndsWith(r, outcome)

\* asyncio.wait_for; a busy event loop may notice the deadline late.
TimesOut(r) ==
    /\ phase[r] = "running"
    /\ run[r].deadline # None /\ run[r].deadline <= now
    /\ EndsWith(r, "failure")

\* get_log and get, neither of them locking.
ReadBack(r) ==
    /\ phase[r] = "ended"
    /\ phase' = [phase EXCEPT ![r] = "closing"]
    /\ run' = [run EXCEPT ![r].sawTask = Stored(run[r].task)]
    /\ UNCHANGED <<now, task, logs, next, lock>>

\* UPDATE scheduled_tasks, when the task was seen, needs the row.
RowUpdatable(r) == run[r].sawTask => Stored(run[r].task) /\ RowFree(run[r].task)
LastRun(r) ==
    task' = IF run[r].sawTask THEN [task EXCEPT ![run[r].task].ran = run[r].end] ELSE task

\* Faulty variant: the log of a failed execution is not updated.
Close_FailureForgotten(r) ==
    /\ phase[r] = "closing"
    /\ RowUpdatable(r)
    /\ LastRun(r)
    /\ logs' = IF run[r].outcome = "failure" THEN logs
               ELSE [logs EXCEPT ![run[r].log].status = run[r].outcome,
                                 ![run[r].log].finished = run[r].end]
    /\ Leave(r)
    /\ UNCHANGED <<now, next>>

\* Both rows are updated in one transaction.
Close(r) ==
    /\ phase[r] = "closing"
    /\ RowUpdatable(r)
    /\ LastRun(r)
    /\ logs' = [logs EXCEPT ![run[r].log].status = run[r].outcome,
                            ![run[r].log].finished = run[r].end]
    /\ Leave(r)
    /\ UNCHANGED <<now, next>>

\* The task was deleted in between: its UPDATE matches no row, StaleDataError
\* rolls the transaction back, and the log row stays running.
CloseStale(r) ==
    /\ phase[r] = "closing"
    /\ run[r].sawTask /\ ~Stored(run[r].task)
    /\ Leave(r)
    /\ UNCHANGED <<now, task, logs, next>>

-----------------------------------------------------------------------------
(* What happens around the executions.                                     *)

\* A process dies: its executions, its job table and its locks are gone.
Crash(w) ==
    LET mine == {r \in Runs : phase[r] # "idle" /\ run[r].worker = w}
    IN  /\ Faults /\ mine # {}
        /\ phase' = [r \in Runs |-> IF r \in mine THEN "idle" ELSE phase[r]]
        /\ run' = [r \in Runs |-> IF r \in mine THEN None ELSE run[r]]
        /\ lock' = [t \in Tasks |-> IF lock[t] \in mine THEN None ELSE lock[t]]
        /\ next' = [next EXCEPT ![w] = [t \in Tasks |-> None]]
        /\ UNCHANGED <<now, task, logs>>

CreateTask(t, s) ==
    /\ task[t].status = "new"
    /\ task' = [task EXCEPT ![t].status = s]
    /\ UNCHANGED <<now, logs, next, lock, phase, run>>

UpdateTask(t, s, concurrent, timeout) ==
    /\ Stored(t) /\ RowFree(t)
    /\ task' = [task EXCEPT ![t] =
                  [status |-> s, concurrent |-> concurrent, timeout |-> timeout,
                   ran |-> task[t].ran]]
    /\ task' # task
    /\ UNCHANGED <<now, logs, next, lock, phase, run>>

\* Faulty variant: ON DELETE CASCADE.
DeleteTask_Cascade(t) ==
    /\ Stored(t) /\ RowFree(t)
    /\ task' = [task EXCEPT ![t].status = "gone"]
    /\ logs' = [l \in {k \in DOMAIN logs : logs[k].task # t} |-> logs[l]]
    /\ UNCHANGED <<now, next, lock, phase, run>>

\* The log rows are kept, ON DELETE SET NULL.
DeleteTask(t) ==
    /\ Stored(t) /\ RowFree(t)
    /\ task' = [task EXCEPT ![t].status = "gone"]
    /\ logs' = [l \in DOMAIN logs |->
                  IF logs[l].task = t THEN [logs[l] EXCEPT !.task = None] ELSE logs[l]]
    /\ UNCHANGED <<now, next, lock, phase, run>>

\* Assumption: a claim does not take longer than QueueLimit.
Tick ==
    /\ now < MaxTime
    /\ \A r \in Runs : phase[r] \in {"queued", "locked", "read"} =>
                          now < run[r].since + QueueLimit
    /\ now' = now + 1
    /\ UNCHANGED <<task, logs, next, lock, phase, run>>

Execution(r) ==
    \/ Acquire(r) \/ Read(r) \/ Vanished(r)
    \/ Claim(r) \/ Skip(r) \/ Taken(r) \/ DatabaseFails(r)
    \/ HandlerEnds(r) \/ TimesOut(r)
    \/ ReadBack(r) \/ Close(r) \/ CloseStale(r)

Administration(t) ==
    \/ \E s \in {"enabled", "disabled"} : CreateTask(t, s)
    \/ \E s \in {"enabled", "disabled"}, c \in BOOLEAN, limit \in Timeouts :
          UpdateTask(t, s, c, limit)
    \/ DeleteTask(t)

Next ==
    \/ \E r \in Runs, w \in Workers, t \in Tasks : Fire(r, w, t) \/ ManualRun(r, w, t)
    \/ \E r \in Runs : Execution(r)
    \/ \E w \in Workers : Reconcile(w) \/ Unload(w) \/ Crash(w)
    \/ \E w \in Workers, t \in Tasks : Dropped(w, t)
    \/ \E t \in Tasks : Administration(t)
    \/ Tick

Spec == Init /\ [][Next]_vars

\* The event loop and the database go on with what they have begun, row locks
\* are granted in order of arrival, and time passes.  A handler need not end.
GoesOn(r) ==
    \/ Read(r) \/ Vanished(r) \/ Claim(r) \/ Skip(r) \/ Taken(r)
    \/ TimesOut(r) \/ ReadBack(r) \/ CloseStale(r)
Fairness ==
    /\ WF_vars(Tick)
    /\ \A r \in Runs : SF_vars(Acquire(r)) /\ SF_vars(Close(r)) /\ WF_vars(GoesOn(r))

FairSpec == Spec /\ Fairness

-----------------------------------------------------------------------------
(* Properties.                                                             *)

\* However many workers believe to lead, however late they fire and however
\* long their claims wait: between two scheduled entries of a task its cron
\* expression has an instant, so no instant is executed twice.
OneRunPerTick ==
    \A i, j \in DOMAIN logs :
        /\ i < j /\ logs[i].of = logs[j].of
        /\ logs[i].trigger = "schedule" /\ logs[j].trigger = "schedule"
        => TicksIn(logs[i].of, logs[i].at + 1, logs[j].at) # {}

\* allow_concurrent=False: an execution begins only after every earlier one of
\* its task has ended or has been running for longer than the stale window.
\* Two triggers at the same time cannot both see that nothing runs.
ExclusiveRunsAreApart ==
    \A i, j \in DOMAIN logs :
        /\ i < j /\ logs[i].of = logs[j].of
        /\ logs[j].exclusive
        /\ logs[i].status # "skipped" /\ logs[j].status # "skipped"
        => \/ logs[i].finished # Never /\ logs[i].finished <= logs[j].at
           \/ logs[i].at < logs[j].at - logs[j].stale

\* An execution that a crash left behind does not freeze its task: whatever is
\* skipped was skipped for an execution begun within the stale window.
SkipsAreJustified ==
    \A j \in DOMAIN logs :
        logs[j].status = "skipped" =>
            \E i \in DOMAIN logs :
                /\ i < j /\ logs[i].of = logs[j].of
                /\ logs[i].status # "skipped"
                /\ logs[i].at >= logs[j].at - logs[j].stale

\* allow_concurrent=False does both, and no variable leaves its type.
ExclusionHolds == TypeOK /\ ExclusiveRunsAreApart /\ SkipsAreJustified

\* The last run a task shows is one that its log shows as ended at that time:
\* the two rows never disagree, whatever fails between them.
LastRunIsLogged ==
    \A t \in Tasks :
        task[t].ran # Never =>
            \E l \in DOMAIN logs : /\ logs[l].of = t
                                   /\ logs[l].status \in {"success", "failure"}
                                   /\ logs[l].finished = task[t].ran

\* The log implements the ledger of TaskLedger: an instant is entered once, an
\* entry is ended once and never changes again, also when its task is deleted.
Ledger == INSTANCE TaskLedger WITH
              entry <- [l \in DOMAIN logs |->
                          [task |-> logs[l].of, tick |-> logs[l].tick,
                           status |-> logs[l].status]]
ImplementsLedger == Ledger!Spec

\* Every execution ends, except for a scheduled one without a time limit whose
\* handler does not return.
EveryExecutionEnds ==
    \A r \in Runs :
        phase[r] # "idle" ~>
            \/ phase[r] = "idle"
            \/ phase[r] = "running" /\ run[r].deadline = None

-----------------------------------------------------------------------------
(* What comments promise and the code does not keep, one run each.          *)

\* "The key is the same for one logical trigger under any delay": an execution
\* is entered under the instant that triggered it.
KeyIsTheTrigger ==
    \A l \in DOMAIN logs : logs[l].trigger = "schedule" => logs[l].tick = logs[l].due

\* "The state moves on from running to success or failure": where nothing
\* fails, a running row belongs to an execution in progress.
RunningRowsAreRunning ==
    \A l \in DOMAIN logs :
        logs[l].status = "running" =>
            \E r \in Runs : phase[r] # "idle" /\ run[r].log = l
=============================================================================
