------------------------- MODULE ScheduledTasksProofs -------------------------
(***************************************************************************)
(* The execution of scheduled tasks, for any tasks, workers and executions *)
(* in progress, any expressions and time limits: one scheduled entry per   *)
(* instant, exclusive executions apart, every skip justified, the last run *)
(* of a task in its log, and the log as the ledger of TaskLedger.          *)
(***************************************************************************)
EXTENDS ScheduledTasks, FiniteSetTheorems, WellFoundedInduction, TLAPS

(* A finite set of instants has a last one, and any set of natural numbers   *)
(* a first one.                                                              *)
LEMMA MaxIsLast ==
    ASSUME NEW S \in SUBSET Int, IsFiniteSet(S), S # {}
    PROVE  Max(S) \in S /\ \A y \in S : y <= Max(S)
  <1> DEFINE After(x) == {y \in S : y > x}
             T == {After(x) : x \in S}
  <1>0. \A x \in S : After(x) \in FiniteSubsetsOf(S)
    BY FS_Subset DEF FiniteSubsetsOf
  <1>1. IsWellFoundedOn(StrictSubsetOrdering(S), FiniteSubsetsOf(S))
    BY FS_StrictSubsetOrderingWellFounded
  <1>2. T \subseteq FiniteSubsetsOf(S) /\ T # {}
    BY <1>0
  <1>3. PICK m \in T : \A t \in T : ~(<<t, m>> \in StrictSubsetOrdering(S))
    <2> HIDE DEF T
    <2> QED BY <1>1, <1>2, WFMin
  <1>4. PICK x \in S : m = After(x)
    BY <1>3
  <1>5. \A y \in S : ~(y > x)
    <2> SUFFICES ASSUME NEW y \in S, y > x
                 PROVE  FALSE
      OBVIOUS
    <2>0. y \in Int /\ x \in Int /\ \A z \in S : z \in Int
      OBVIOUS
    <2>1. After(y) \subseteq After(x) /\ y \in After(x) /\ y \notin After(y)
      <3>1. \A z \in S : z > y => z > x
        BY <2>0
      <3>2. ~(y > y)
        BY <2>0
      <3> QED BY <3>1, <3>2, Zenon
    <2>2. <<After(y), m>> \in StrictSubsetOrdering(S)
      BY <1>0, <1>4, <2>1 DEF StrictSubsetOrdering, FiniteSubsetsOf
    <2> QED BY <1>3, <2>2
  <1>6. \A y \in S : x >= y /\ y <= x
    BY <1>5
  <1> QED BY <1>6 DEF Max

LEMMA MinIsFirst ==
    ASSUME NEW S \in SUBSET Nat, S # {}
    PROVE  Min(S) \in S /\ \A y \in S : Min(S) <= y
  <1>1. PICK x \in S : TRUE
    OBVIOUS
  <1> DEFINE T == {x - y : y \in {z \in S : z <= x}}
  <1>2. x \in Nat /\ T \subseteq 0 .. x /\ T \in SUBSET Int /\ 0 \in T
    <2>1. x - x = 0
      BY <1>1
    <2> QED BY <1>1, <2>1
  <1>3. IsFiniteSet(T) /\ T # {}
    <2>1. IsFiniteSet(0 .. x)
      BY <1>2, FS_Interval
    <2> HIDE DEF T
    <2> QED BY <1>2, <2>1, FS_Subset
  <1>4. Max(T) \in T /\ \A d \in T : d <= Max(T)
    <2> HIDE DEF T
    <2> QED BY <1>2, <1>3, MaxIsLast
  <1>5. PICK first \in S : first <= x /\ Max(T) = x - first
    BY <1>4
  <1>6. \A y \in S : first <= y
    <2> SUFFICES ASSUME NEW y \in S
                 PROVE  first <= y
      OBVIOUS
    <2>0. y \in Nat /\ first \in Nat /\ x \in Nat
      BY <1>2, <1>5
    <2>1. CASE y <= x
      <3>1. x - y <= Max(T)
        BY <1>4, <2>1
      <3> HIDE DEF T
      <3> QED BY <1>5, <2>0, <3>1
    <2>2. CASE ~(y <= x)
      BY <1>5, <2>0, <2>2
    <2> QED BY <2>1, <2>2
  <1> QED BY <1>6 DEF Min

LEMMA NextTickIn ==
    ASSUME NEW t \in Tasks, NEW from
    PROVE  NextTick(t, from) \in Ticks[t] \cup {None} /\ NextTick(t, from) \in Nat \cup {None}
  <1>1. {k \in Ticks[t] : k >= from} \in SUBSET Nat
    BY TickAssumption
  <1> QED BY <1>1, MinIsFirst DEF NextTick

(* The instants of a window: the last of them, if there is any.              *)
LEMMA LastTickIn ==
    ASSUME NEW t \in Tasks, NEW from \in Int, NEW to \in Nat, NEW k \in TicksIn(t, from, to)
    PROVE  LET last == Max(TicksIn(t, from, to))
           IN  last \in Ticks[t] /\ last \in Nat /\ k <= last /\ last <= to
                 /\ \A i \in Ticks[t] : i <= to => i <= last
  <1> DEFINE S == TicksIn(t, from, to)
  <1>1. Ticks[t] \subseteq Nat
    BY TickAssumption
  <1>2. S \subseteq 0 .. to /\ S \in SUBSET Int /\ \A i \in S : i \in Ticks[t] /\ i <= to /\ from <= i
    BY <1>1 DEF TicksIn
  <1>3. IsFiniteSet(S)
    <2>1. IsFiniteSet(0 .. to)
      BY FS_Interval
    <2> HIDE DEF S
    <2> QED BY <1>2, <2>1, FS_Subset
  <1>4. Max(S) \in S /\ \A y \in S : y <= Max(S)
    <2> HIDE DEF S
    <2>1. k \in S
      BY DEF S
    <2> QED BY <1>2, <1>3, <2>1, MaxIsLast
  <1>5. \A i \in Ticks[t] : i <= to => i <= Max(S)
    <2> SUFFICES ASSUME NEW i \in Ticks[t], i <= to
                 PROVE  i <= Max(S)
      OBVIOUS
    <2>1. CASE from <= i
      <3>1. i \in S
        BY <2>1 DEF TicksIn
      <3> HIDE DEF S
      <3> QED BY <1>4, <3>1
    <2>2. CASE ~(from <= i)
      <3>1. i \in Int /\ Max(S) \in Int /\ from <= Max(S)
        BY <1>1, <1>2, <1>4
      <3> HIDE DEF S
      <3> QED BY <2>2, <3>1
    <2> QED BY <2>1, <2>2
  <1> HIDE DEF S
  <1>6. Max(S) \in Ticks[t] /\ Max(S) \in Nat /\ k <= Max(S) /\ Max(S) <= to
    <2>1. k \in S
      BY DEF S
    <2> QED BY <1>1, <1>2, <1>4, <2>1
  <1> QED BY <1>5, <1>6 DEF S

-----------------------------------------------------------------------------
(* A scheduled entry bears the last instant before the claim read the row.   *)
TickOK(d) ==
    IF d.trigger = "schedule"
    THEN d.tick \in Ticks[d.of] /\ d.tick <= d.at /\ \A k \in Ticks[d.of] : k <= d.at => k <= d.tick
    ELSE d.tick = Never

(* What a row of the log says of its task and of the clock.                  *)
RowOK(d) ==
    /\ d.at <= now /\ d.finished <= now
    /\ d.status = "running" <=> d.finished = Never
    /\ TickOK(d)
    /\ d.task # d.of => d.task = None /\ task[d.of].status = "gone"

(* What an entry has to do with the earlier ones of its task.                *)
Apart(d, e) ==
    e.exclusive /\ d.status # "skipped" /\ e.status # "skipped"
        => (d.finished # Never /\ d.finished <= e.at) \/ d.at < e.at - e.stale

Justifies(d, e) == d.of = e.of /\ d.status # "skipped" /\ d.at >= e.at - e.stale

PairOK(d, e) ==
    d.of = e.of =>
        /\ d.at <= e.at /\ Apart(d, e)
        /\ d.trigger = "schedule" /\ e.trigger = "schedule" => d.tick # e.tick

Rows == \A l \in DOMAIN logs : RowOK(logs[l])
Pairs == \A i, j \in DOMAIN logs : i < j => PairOK(logs[i], logs[j])
Skips == \A j \in DOMAIN logs :
             logs[j].status = "skipped" => \E i \in DOMAIN logs : i < j /\ Justifies(logs[i], logs[j])

(* Ids are given in sequence, and a row is left for every claim under way.   *)
ClaimPhases == {"queued", "locked", "read"}
ExecPhases == {"running", "ended", "closing"}
Claiming == {r \in Runs : phase[r] \in ClaimPhases}
Ids == /\ Cardinality(DOMAIN logs) \in Nat /\ DOMAIN logs = 1 .. Cardinality(DOMAIN logs)
       /\ Cardinality(DOMAIN logs) + Cardinality(Claiming) <= MaxLogs

(* A claim was triggered by an instant that is still within the look-back.   *)
RequestOK(u) ==
    /\ u.since <= now /\ now <= u.since + QueueLimit
    /\ u.trigger = "schedule" => u.due \in Ticks[u.task] /\ u.due <= u.since /\ u.since - u.due <= Grace

(* What the claim has read is still true of every row of the task: the lock  *)
(* keeps other claims of the task out.                                       *)
EntryOK(e) ==
    /\ e.status \in {"running", "skipped"} /\ e.task = e.of /\ RowOK(e)
    /\ \A l \in DOMAIN logs : logs[l].of = e.of => logs[l].at <= e.at /\ Apart(logs[l], e)
    /\ e.status = "skipped" => \E l \in DOMAIN logs : Justifies(logs[l], e)

RunOK(r) ==
    /\ phase[r] \in ClaimPhases => RequestOK(run[r])
    /\ phase[r] \in {"locked", "read"} => lock[run[r].task] = r
    /\ phase[r] = "read" =>
          /\ Stored(run[r].task)
          /\ run[r].entry \in Log /\ run[r].entry.of = run[r].task /\ EntryOK(run[r].entry)
    /\ phase[r] \in ExecPhases => logs[run[r].log].status = "running" /\ logs[run[r].log].of = run[r].task
    /\ phase[r] \in {"ended", "closing"} => run[r].outcome \in {"success", "failure"} /\ run[r].end <= now

(* Two executions never end the same row.                                    *)
OwnRow == \A q, r \in Runs : q # r /\ phase[q] \in ExecPhases /\ phase[r] \in ExecPhases
                                 => run[q].log # run[r].log

JobsOK == \A w \in Workers, t \in Tasks : next[w][t] # None => next[w][t] \in Ticks[t]

TasksInv ==
    /\ TypeOK /\ Ids /\ JobsOK /\ Rows /\ Pairs /\ Skips /\ LastRunIsLogged
    /\ (\A r \in Runs : RunOK(r)) /\ OwnRow

LEMMA Typed ==
    ASSUME TypeOK
    PROVE  /\ now \in Nat /\ now <= MaxTime /\ MaxTime \in Nat
           /\ \A t \in Tasks : task[t] \in Task /\ Ticks[t] \subseteq Nat
           /\ \A l \in DOMAIN logs : logs[l] \in Log
           /\ \A r \in Runs : phase[r] # "idle" => run[r] \in Run
           /\ \A r \in Runs : phase[r] = "idle" => run[r] = None
  BY TickAssumption, HorizonAssumption DEF TypeOK

LEMMA InitTasks == Init => TasksInv
  <1> SUFFICES ASSUME Init
               PROVE  TasksInv
    OBVIOUS
  <1>1. DOMAIN logs = {}
    BY DEF Init
  <1>2. \A r \in Runs : phase[r] = "idle" /\ run[r] = None
    BY DEF Init
  <1>3. TypeOK
    <2>1. task \in [Tasks -> Task]
      BY DEF Init, Task, Statuses
    <2>2. now \in 0 .. MaxTime
      BY HorizonAssumption DEF Init
    <2> QED BY <1>1, <2>1, <2>2 DEF Init, TypeOK, Phases
  <1>4. Ids
    <2>1. Claiming = {} /\ Cardinality({}) = 0
      BY <1>2, FS_EmptySet DEF Claiming, ClaimPhases
    <2>2. 1 .. 0 = {}
      OBVIOUS
    <2> QED BY <1>1, <2>1, <2>2, HorizonAssumption DEF Ids
  <1>5. JobsOK /\ LastRunIsLogged
    BY DEF Init, JobsOK, LastRunIsLogged
  <1>6. Rows /\ Pairs /\ Skips
    BY <1>1 DEF Rows, Pairs, Skips
  <1>7. OwnRow /\ \A r \in Runs : RunOK(r)
    BY <1>2 DEF OwnRow, RunOK, ClaimPhases, ExecPhases
  <1> QED BY <1>3, <1>4, <1>5, <1>6, <1>7 DEF TasksInv

-----------------------------------------------------------------------------
(* The rows of the log as a step leaves them.                                *)

(* A row keeps what it says, but that a running one may end.                 *)
Evolves(d, x) ==
    /\ x.of = d.of /\ x.at = d.at /\ x.trigger = d.trigger /\ x.tick = d.tick
    /\ x.stale = d.stale /\ x.exclusive = d.exclusive
    /\ \/ x.status = d.status /\ x.finished = d.finished
       \/ d.status = "running" /\ x.status \in {"success", "failure"}

LEMMA EvolvesPair ==
    ASSUME NEW d \in Log, NEW e \in Log, NEW x \in Log, NEW y \in Log,
           Evolves(d, x), Evolves(e, y), d.status = "running" => d.finished = Never
    PROVE  /\ PairOK(d, e) => PairOK(x, y)
           /\ Apart(d, e) => Apart(x, y)
           /\ Justifies(d, e) => Justifies(x, y)
  BY DEF Evolves, PairOK, Apart, Justifies

(* A step that adds no row.                                                  *)
LEMMA RowsEvolve ==
    ASSUME TypeOK, TypeOK', Rows, Pairs, Skips, Rows', DOMAIN logs' = DOMAIN logs,
           \A l \in DOMAIN logs : Evolves(logs[l], logs'[l])
    PROVE  Pairs' /\ Skips'
  <1>1. \A l \in DOMAIN logs : /\ logs[l] \in Log /\ logs'[l] \in Log
                               /\ logs[l].status = "running" => logs[l].finished = Never
    BY Typed DEF Rows, RowOK, TypeOK
  <1>2. Pairs'
    <2> SUFFICES ASSUME NEW i \in DOMAIN logs, NEW j \in DOMAIN logs, i < j
                 PROVE  PairOK(logs'[i], logs'[j])
      BY DEF Pairs, PairOK, Apart, Never
    <2> QED BY <1>1, EvolvesPair DEF Pairs
  <1>3. Skips'
    <2> SUFFICES ASSUME NEW j \in DOMAIN logs, logs'[j].status = "skipped"
                 PROVE  \E i \in DOMAIN logs : i < j /\ Justifies(logs'[i], logs'[j])
      BY DEF Skips, Justifies
    <2>1. logs[j].status = "skipped"
      BY DEF Evolves
    <2>2. PICK i \in DOMAIN logs : i < j /\ Justifies(logs[i], logs[j])
      BY <2>1 DEF Skips
    <2> QED BY <1>1, <2>2, EvolvesPair
  <1> QED BY <1>2, <1>3

(* A row stays as it should be while the clock goes on and no task returns.  *)
LEMMA RowStays ==
    ASSUME TypeOK, TypeOK', NEW d \in Log, RowOK(d), now' >= now,
           \A t \in Tasks : task[t].status = "gone" => task'[t].status = "gone"
    PROVE  RowOK(d)'
  <1>1. d.at \in Int /\ d.finished \in Int /\ d.of \in Tasks /\ now \in Int /\ now' \in Int
    BY Typed DEF Log, Never, TypeOK
  <1>2. d.at <= now' /\ d.finished <= now'
    BY <1>1 DEF RowOK
  <1> QED BY <1>1, <1>2 DEF RowOK, TickOK, Never

(* An execution that the step does not concern.                              *)
LEMMA RunStays ==
    ASSUME TypeOK, TypeOK', Rows, NEW r \in Runs, RunOK(r), phase'[r] = phase[r],
           phase[r] # "idle" =>
               /\ run'[r].task = run[r].task /\ run'[r].trigger = run[r].trigger
               /\ run'[r].due = run[r].due /\ run'[r].since = run[r].since
               /\ run'[r].entry = run[r].entry /\ run'[r].log = run[r].log
               /\ run'[r].outcome = run[r].outcome /\ run'[r].end = run[r].end,
           phase[r] \in {"locked", "read"} => lock'[run[r].task] = lock[run[r].task],
           now' >= now, phase[r] \in ClaimPhases => now' <= run[r].since + QueueLimit,
           \A t \in Tasks : task[t].status = "gone" => task'[t].status = "gone",
           phase[r] = "read" => Stored(run[r].task)',
           DOMAIN logs \subseteq DOMAIN logs',
           \A l \in DOMAIN logs : Evolves(logs[l], logs'[l]),
           phase[r] = "read" => \A l \in DOMAIN logs' \ DOMAIN logs : logs'[l].of # run[r].task,
           phase[r] \in ExecPhases => logs'[run[r].log].status = "running"
    PROVE  RunOK(r)'
  <1>0. now \in Int /\ now' \in Int
    BY Typed DEF TypeOK
  <1>1. phase'[r] \in ClaimPhases => RequestOK(run[r])'
    <2> SUFFICES ASSUME phase[r] \in ClaimPhases
                 PROVE  RequestOK(run[r])'
      BY DEF ClaimPhases
    <2>1. phase[r] # "idle" /\ run[r] \in Run
      BY Typed DEF ClaimPhases
    <2>2. RequestOK(run[r]) /\ run[r].since \in Int
      BY <2>1 DEF RunOK, Run
    <2>3. run[r].since <= now' /\ now' <= run[r].since + QueueLimit
      BY <1>0, <2>2 DEF RequestOK
    <2> QED BY <2>1, <2>2, <2>3 DEF RequestOK
  <1>2. phase'[r] \in {"locked", "read"} => lock'[run'[r].task] = r
    BY DEF RunOK
  <1>3. ASSUME phase'[r] = "read"
        PROVE  /\ Stored(run[r].task)' /\ run'[r].entry \in Log
               /\ run'[r].entry.of = run'[r].task /\ EntryOK(run[r].entry)'
    <2> PICK e : e = run[r].entry
      OBVIOUS
    <2>0. e \in Log /\ e.of = run[r].task /\ EntryOK(e) /\ run'[r].task = run[r].task /\ run'[r].entry = e
      BY <1>3 DEF RunOK
    <2>1. Stored(run[r].task)'
      BY <1>3
    <2>2. RowOK(e)'
      BY <2>0, RowStays DEF EntryOK
    <2>3. \A l \in DOMAIN logs : /\ logs[l] \in Log /\ logs'[l] \in Log /\ Evolves(e, e)
                                 /\ logs[l].status = "running" => logs[l].finished = Never
      BY Typed DEF Rows, RowOK, TypeOK, Evolves
    <2>4. ASSUME NEW l \in DOMAIN logs', logs'[l].of = e.of
          PROVE  logs'[l].at <= e.at /\ Apart(logs'[l], e)
      <3>1. l \in DOMAIN logs /\ Evolves(logs[l], logs'[l])
        BY <1>3, <2>0, <2>4
      <3>2. logs[l].of = e.of /\ logs'[l].at = logs[l].at
        BY <2>4, <3>1 DEF Evolves
      <3> QED BY <2>0, <2>3, <3>1, <3>2, EvolvesPair DEF EntryOK
    <2>5. e.status = "skipped" => \E l \in DOMAIN logs' : Justifies(logs'[l], e)
      BY <2>0, <2>3, EvolvesPair DEF EntryOK
    <2>6. EntryOK(e)'
      BY <2>0, <2>2, <2>4, <2>5 DEF EntryOK, Apart, Justifies, Never
    <2>7. EntryOK(run[r].entry)'
      BY <2>0, <2>6 DEF EntryOK, RowOK, TickOK, Apart, Justifies, Never
    <2> QED BY <2>0, <2>1, <2>7
  <1>4. phase'[r] \in ExecPhases => logs'[run'[r].log].status = "running" /\ logs'[run'[r].log].of = run'[r].task
    <2> SUFFICES ASSUME phase[r] \in ExecPhases
                 PROVE  logs'[run'[r].log].status = "running" /\ logs'[run'[r].log].of = run'[r].task
      OBVIOUS
    <2>1. phase[r] # "idle" /\ run[r].log \in DOMAIN logs
      BY DEF ExecPhases, TypeOK
    <2> QED BY <2>1 DEF RunOK, Evolves
  <1>5. phase'[r] \in {"ended", "closing"} => run'[r].outcome \in {"success", "failure"} /\ run'[r].end <= now'
    <2> SUFFICES ASSUME phase[r] \in {"ended", "closing"}
                 PROVE  run[r].outcome \in {"success", "failure"} /\ run[r].end <= now'
      OBVIOUS
    <2>1. run[r] \in Run
      BY Typed
    <2> QED BY <1>0, <2>1 DEF RunOK, Run
  <1> QED BY <1>1, <1>2, <1>3, <1>4, <1>5 DEF RunOK, ClaimPhases, ExecPhases

(* A step that writes no log row and no task.                                *)
LEMMA RowsSame ==
    ASSUME TasksInv, TypeOK', logs' = logs, now' >= now,
           \A t \in Tasks : task'[t].ran = task[t].ran /\ (task[t].status = "gone" => task'[t].status = "gone")
    PROVE  Rows' /\ Pairs' /\ Skips' /\ LastRunIsLogged'
  <1>1. Rows'
    <2>1. \A l \in DOMAIN logs : RowOK(logs[l])'
      BY RowStays, Typed DEF TasksInv, Rows
    <2> QED BY <2>1 DEF Rows, RowOK, TickOK
  <1>2. \A l \in DOMAIN logs : Evolves(logs[l], logs'[l])
    BY DEF Evolves
  <1>3. Pairs' /\ Skips'
    BY <1>1, <1>2, RowsEvolve DEF TasksInv
  <1>4. LastRunIsLogged'
    BY DEF TasksInv, LastRunIsLogged, Never
  <1> QED BY <1>1, <1>3, <1>4

LEMMA ClaimingFinite == IsFiniteSet(Claiming) /\ Cardinality(Claiming) \in Nat /\ Claiming \in SUBSET Runs
  BY HorizonAssumption, FS_Subset, FS_CardinalityType DEF Claiming

(* A step of one execution that writes no log row and no task.               *)
LEMMA ExecutionStep ==
    ASSUME TasksInv, TypeOK', JobsOK', UNCHANGED <<now, task, logs>>, NEW r \in Runs,
           \A q \in Runs \ {r} : phase'[q] = phase[q] /\ run'[q] = run[q],
           \A t \in Tasks : lock[t] \in Runs \ {r} => lock'[t] = lock[t],
           RunOK(r)',
           phase'[r] \in ClaimPhases => phase[r] \in ClaimPhases \/ MayStart(r),
           phase'[r] \in ExecPhases => phase[r] \in ExecPhases /\ run'[r].log = run[r].log
    PROVE  TasksInv'
  <1>0. now' >= now /\ now \in Int
    BY Typed DEF TasksInv
  <1>1. Rows' /\ Pairs' /\ Skips' /\ LastRunIsLogged'
    BY <1>0, RowsSame
  <1>2. ASSUME NEW q \in Runs \ {r}
        PROVE  RunOK(q)'
    <2>1. phase[q] # "idle" => run[q] \in Run
      BY Typed DEF TasksInv
    <2>2. phase[q] \in {"locked", "read"} => lock'[run[q].task] = lock[run[q].task]
      BY <2>1 DEF TasksInv, RunOK, Run
    <2>3. phase[q] \in ClaimPhases => now' <= run[q].since + QueueLimit
      BY DEF TasksInv, RunOK, RequestOK
    <2>4. phase[q] = "read" => Stored(run[q].task)'
      BY DEF TasksInv, RunOK, Stored
    <2>5. \A l \in DOMAIN logs : Evolves(logs[l], logs'[l])
      BY DEF Evolves
    <2>6. phase[q] \in ExecPhases => logs'[run[q].log].status = "running"
      BY DEF TasksInv, RunOK
    <2> QED BY <1>0, <2>2, <2>3, <2>4, <2>5, <2>6, RunStays DEF TasksInv
  <1>3. OwnRow'
    BY DEF TasksInv, OwnRow
  <1>4. Ids'
    <2>1. Cardinality(Claiming') \in Nat /\ Cardinality(DOMAIN logs) + Cardinality(Claiming') <= MaxLogs
      <3>0. IsFiniteSet(Claiming)
        BY ClaimingFinite
      <3>1. CASE phase'[r] \in ClaimPhases => phase[r] \in ClaimPhases
        <4>1. Claiming' \in SUBSET Claiming
          BY <3>1 DEF Claiming
        <4>2. Cardinality(Claiming') \in Nat /\ Cardinality(Claiming') <= Cardinality(Claiming)
          BY <3>0, <4>1, FS_Subset, FS_CardinalityType
        <4> QED BY <4>2, ClaimingFinite, HorizonAssumption DEF TasksInv, Ids
      <3>2. CASE MayStart(r)
        <4>1. Claiming' \in SUBSET (Claiming \cup {r})
          BY DEF Claiming
        <4>2. IsFiniteSet(Claiming \cup {r}) /\ Cardinality(Claiming \cup {r}) <= Cardinality(Claiming) + 1
          <5>1. Cardinality(Claiming \cup {r}) = IF r \in Claiming THEN Cardinality(Claiming) ELSE Cardinality(Claiming) + 1
            BY <3>0, FS_AddElement
          <5>2. IsFiniteSet(Claiming \cup {r})
            BY <3>0, FS_AddElement
          <5> QED BY <5>1, <5>2, ClaimingFinite
        <4>3. Cardinality(Claiming') \in Nat /\ Cardinality(Claiming') <= Cardinality(Claiming \cup {r})
              /\ Cardinality(Claiming \cup {r}) \in Nat
          BY <4>1, <4>2, FS_Subset, FS_CardinalityType
        <4>4. Cardinality(DOMAIN logs) + Cardinality(Claiming) < MaxLogs
          BY <3>2 DEF MayStart, Claiming, ClaimPhases
        <4>5. Cardinality(DOMAIN logs) \in Nat
          BY DEF TasksInv, Ids
        <4> QED BY <4>2, <4>3, <4>4, <4>5, ClaimingFinite, HorizonAssumption
      <3> QED BY <3>1, <3>2
    <2> QED BY <2>1 DEF TasksInv, Ids
  <1> QED BY <1>1, <1>2, <1>3, <1>4 DEF TasksInv

-----------------------------------------------------------------------------
(* The claim.                                                                *)
LEMMA BeginKeeps ==
    ASSUME TasksInv, JobsOK', next' \in [Workers -> [Tasks -> Nat \cup {None}]],
           NEW r \in Runs, NEW w \in Workers, NEW t \in Tasks, NEW trigger \in {"schedule", "manual"},
           NEW due \in Nat \cup {Never}, Begin(r, w, t, trigger, due),
           trigger = "schedule" => due \in Ticks[t] /\ due <= now /\ now - due <= Grace,
           UNCHANGED <<now, task, logs, lock>>
    PROVE  TasksInv'
  <1> DEFINE new == [worker |-> w, task |-> t, trigger |-> trigger, due |-> due,
                     counted |-> trigger = "schedule", since |-> now,
                     entry |-> None, log |-> NoLog, timeout |-> None,
                     deadline |-> None, outcome |-> "skipped", end |-> 0, sawTask |-> FALSE]
  <1>0. /\ phase' = [phase EXCEPT ![r] = "queued"] /\ run' = [run EXCEPT ![r] = new] /\ MayStart(r)
    BY DEF Begin
  <1>1. now \in Nat /\ QueueLimit \in Nat
    BY Typed, DelayAssumption DEF TasksInv
  <1>2. new \in Run
    <2>1. (trigger = "schedule") \in BOOLEAN
      OBVIOUS
    <2> QED BY <1>1, <2>1 DEF Run, Final
  <1>3. /\ new # None /\ new.task = t /\ new.trigger = trigger /\ new.due = due /\ new.since = now
    BY <1>2, NoneAssumption
  <1> HIDE DEF new
  <1>4. phase'[r] = "queued" /\ run'[r] = new /\ \A q \in Runs \ {r} : phase'[q] = phase[q] /\ run'[q] = run[q]
    BY <1>0 DEF TasksInv, TypeOK
  <1>5. TypeOK'
    <2>1. phase' \in [Runs -> Phases]
      BY <1>0 DEF TasksInv, TypeOK, Phases
    <2>2. run' \in [Runs -> Run \cup {None}]
      BY <1>0, <1>2 DEF TasksInv, TypeOK
    <2>3. \A q \in Runs : /\ run'[q] = None <=> phase'[q] = "idle"
                          /\ phase'[q] \in {"running", "ended", "closing"} => run'[q].log \in DOMAIN logs
      BY <1>3, <1>4 DEF TasksInv, TypeOK
    <2> QED BY <2>1, <2>2, <2>3 DEF TasksInv, TypeOK
  <1>6. RunOK(r)'
    BY <1>1, <1>3, <1>4 DEF RunOK, RequestOK, ClaimPhases, ExecPhases
  <1> QED BY <1>0, <1>4, <1>5, <1>6, ExecutionStep DEF ClaimPhases, ExecPhases

LEMMA AdvanceKeeps ==
    ASSUME TasksInv, NEW w \in Workers, NEW t \in Tasks, Advance(w, t)
    PROVE  next' \in [Workers -> [Tasks -> Nat \cup {None}]] /\ JobsOK'
  <1> DEFINE n == NextTick(t, now + 1)
  <1>1. n \in Ticks[t] \cup {None} /\ n \in Nat \cup {None}
    BY NextTickIn
  <1>2. next' = [next EXCEPT ![w] = [next[w] EXCEPT ![t] = n]]
    BY DEF Advance
  <1> HIDE DEF n
  <1>3. next \in [Workers -> [Tasks -> Nat \cup {None}]]
    BY DEF TasksInv, TypeOK
  <1>4. next' \in [Workers -> [Tasks -> Nat \cup {None}]]
    BY <1>1, <1>2, <1>3
  <1>5. ASSUME NEW v \in Workers, NEW u \in Tasks, next'[v][u] # None
        PROVE  next'[v][u] \in Ticks[u]
    BY <1>1, <1>2, <1>3, <1>5 DEF TasksInv, JobsOK
  <1> QED BY <1>4, <1>5 DEF JobsOK

LEMMA FireKeeps ==
    ASSUME TasksInv, NEW r \in Runs, NEW w \in Workers, NEW t \in Tasks, Fire(r, w, t)
    PROVE  TasksInv'
  <1>1. next[w][t] \in TicksIn(t, next[w][t], now) /\ next[w][t] \in Int /\ now \in Nat
    <2>1. next[w][t] \in Ticks[t] /\ next[w][t] <= now
      BY DEF Fire, Due, TasksInv, JobsOK
    <2>2. next[w][t] \in Nat
      BY <2>1, TickAssumption
    <2> QED BY <2>1, <2>2, Typed DEF TicksIn, TasksInv
  <1>2. LastDue(w, t) \in Ticks[t] /\ LastDue(w, t) \in Nat /\ LastDue(w, t) <= now
    BY <1>1, LastTickIn DEF LastDue
  <1> QED BY <1>2, AdvanceKeeps, BeginKeeps DEF Fire

LEMMA ManualKeeps ==
    ASSUME TasksInv, NEW r \in Runs, NEW w \in Workers, NEW t \in Tasks, ManualRun(r, w, t)
    PROVE  TasksInv'
  <1>1. JobsOK' /\ next' \in [Workers -> [Tasks -> Nat \cup {None}]]
    BY DEF ManualRun, TasksInv, JobsOK, TypeOK
  <1>2. Begin(r, w, t, "manual", Never) /\ UNCHANGED <<now, task, logs, lock>>
    BY DEF ManualRun
  <1> QED BY <1>1, <1>2, BeginKeeps

LEMMA AcquireKeeps ==
    ASSUME TasksInv, NEW r \in Runs, Acquire(r)
    PROVE  TasksInv'
  <1>0. /\ phase[r] = "queued" /\ run[r] \in Run /\ run[r].task \in Tasks /\ lock[run[r].task] = None
        /\ lock' = [lock EXCEPT ![run[r].task] = r] /\ phase' = [phase EXCEPT ![r] = "locked"]
        /\ UNCHANGED <<now, task, logs, next, run>>
    BY Typed DEF Acquire, TasksInv, Run
  <1>1. phase'[r] = "locked" /\ \A q \in Runs \ {r} : phase'[q] = phase[q]
    BY <1>0 DEF TasksInv, TypeOK
  <1>2. TypeOK'
    <2>1. phase' \in [Runs -> Phases]
      BY <1>0 DEF TasksInv, TypeOK, Phases
    <2>2. lock' \in [Tasks -> Runs \cup {None}]
      BY <1>0 DEF TasksInv, TypeOK
    <2> QED BY <1>0, <1>1, <2>1, <2>2 DEF TasksInv, TypeOK
  <1>3. \A t \in Tasks : lock[t] \in Runs \ {r} => lock'[t] = lock[t]
    BY <1>0, LimitAssumption DEF TasksInv, TypeOK
  <1>4. RunOK(r)'
    <2>1. RequestOK(run[r])'
      BY <1>0 DEF TasksInv, RunOK, RequestOK, ClaimPhases
    <2>2. lock'[run'[r].task] = r
      BY <1>0 DEF TasksInv, TypeOK
    <2> QED BY <1>1, <2>1, <2>2 DEF RunOK, ExecPhases
  <1>5. JobsOK'
    BY <1>0 DEF TasksInv, JobsOK
  <1> QED BY <1>0, <1>1, <1>2, <1>3, <1>4, <1>5, ExecutionStep DEF ClaimPhases, ExecPhases
(* A call that returns or fails leaves nothing behind.                       *)
LEMMA LeaveStops ==
    ASSUME TypeOK, NEW r \in Runs, Leave(r)
    PROVE  /\ phase' \in [Runs -> Phases] /\ run' \in [Runs -> Run \cup {None}]
           /\ lock' \in [Tasks -> Runs \cup {None}]
           /\ phase'[r] = "idle" /\ run'[r] = None
           /\ \A q \in Runs \ {r} : phase'[q] = phase[q] /\ run'[q] = run[q]
           /\ \A t \in Tasks : lock[t] \in Runs \ {r} => lock'[t] = lock[t]
  BY DEF Leave, Unlock, TypeOK, Phases

LEMMA LeaveKeeps ==
    ASSUME TasksInv, NEW r \in Runs, Leave(r), UNCHANGED <<now, task, logs, next>>
    PROVE  TasksInv'
  <1>0. TypeOK
    BY DEF TasksInv
  <1>1. /\ phase' \in [Runs -> Phases] /\ run' \in [Runs -> Run \cup {None}]
        /\ lock' \in [Tasks -> Runs \cup {None}]
        /\ phase'[r] = "idle" /\ run'[r] = None
        /\ \A q \in Runs \ {r} : phase'[q] = phase[q] /\ run'[q] = run[q]
        /\ \A t \in Tasks : lock[t] \in Runs \ {r} => lock'[t] = lock[t]
    BY <1>0, LeaveStops
  <1>2. TypeOK'
    <2>1. \A q \in Runs : /\ run'[q] = None <=> phase'[q] = "idle"
                          /\ phase'[q] \in {"running", "ended", "closing"} => run'[q].log \in DOMAIN logs
      BY <1>0, <1>1 DEF TypeOK
    <2> QED BY <1>0, <1>1, <2>1 DEF TypeOK
  <1>3. JobsOK' /\ RunOK(r)'
    BY <1>1 DEF TasksInv, JobsOK, RunOK, ClaimPhases, ExecPhases
  <1> QED BY <1>1, <1>2, <1>3, ExecutionStep DEF ClaimPhases, ExecPhases

LEMMA LeavingKeeps ==
    ASSUME TasksInv, NEW r \in Runs, Vanished(r) \/ Taken(r) \/ DatabaseFails(r) \/ CloseStale(r)
    PROVE  TasksInv'
  BY LeaveKeeps DEF Vanished, Taken, DatabaseFails, CloseStale

(* The entry that the claim will write, as its transaction reads the rows.   *)
LEMMA LimitIn ==
    ASSUME NEW trigger \in {"schedule", "manual"}, NEW timeout \in Timeouts
    PROVE  LimitOf(trigger, timeout) \in Nat \cup {None}
  <1>1. CASE timeout = None \/ trigger = "schedule"
    BY <1>1, LimitAssumption DEF LimitOf
  <1>2. CASE timeout # None /\ trigger # "schedule"
    <2>1. {timeout, ManualCap} \in SUBSET Nat
      BY <1>2, LimitAssumption
    <2>2. Min({timeout, ManualCap}) \in {timeout, ManualCap}
      BY <2>1, MinIsFirst
    <2> QED BY <1>2, <2>1, <2>2 DEF LimitOf
  <1> QED BY <1>1, <1>2

LEMMA PlannedTickIn ==
    ASSUME TasksInv, NEW r \in Runs, phase[r] = "locked", run[r].trigger = "schedule"
    PROVE  LET t == run[r].task
           IN  /\ PlannedTick(t) \in Nat /\ PlannedTick(t) \in Ticks[t] /\ PlannedTick(t) <= now
               /\ \A k \in Ticks[t] : k <= now => k <= PlannedTick(t)
  <1> DEFINE u == run[r]
             from == now - (Grace + Slack)
  <1>1. u \in Run /\ RequestOK(u) /\ now \in Nat
    BY Typed DEF TasksInv, RunOK, ClaimPhases
  <1>2. u.task \in Tasks /\ u.since \in Nat /\ u.due \in Ticks[u.task] /\ u.due <= u.since
        /\ u.since - u.due <= Grace /\ u.since <= now /\ now <= u.since + QueueLimit
    BY <1>1 DEF RequestOK, Run
  <1> HIDE DEF u
  <1>3. u.due \in Nat
    BY <1>2, TickAssumption
  <1>4. u.due >= from /\ u.due <= now /\ from \in Int
    BY <1>1, <1>2, <1>3, DelayAssumption
  <1>5. u.due \in TicksIn(u.task, from, now)
    BY <1>2, <1>4 DEF TicksIn
  <1> DEFINE last == Max(TicksIn(u.task, from, now))
  <1>6. last \in Ticks[u.task] /\ last \in Nat /\ last <= now /\ \A k \in Ticks[u.task] : k <= now => k <= last
    BY <1>1, <1>2, <1>4, <1>5, LastTickIn
  <1>7. PlannedTick(u.task) = last
    BY <1>5 DEF PlannedTick
  <1> HIDE DEF last
  <1>8. PlannedTick(u.task) \in Nat /\ PlannedTick(u.task) \in Ticks[u.task] /\ PlannedTick(u.task) <= now
        /\ \A k \in Ticks[u.task] : k <= now => k <= PlannedTick(u.task)
    BY <1>6, <1>7
  <1> QED BY <1>8 DEF u

LEMMA ReadKeeps ==
    ASSUME TasksInv, NEW r \in Runs, Read(r)
    PROVE  TasksInv'
  <1> DEFINE t == run[r].task
             skip == ~task[t].concurrent /\ CountedRunning(t) # {}
             limit == LimitOf(run[r].trigger, task[t].timeout)
             tick == IF run[r].trigger = "schedule" THEN PlannedTick(t) ELSE Never
             e == [task |-> t, trigger |-> run[r].trigger, tick |-> tick,
                   status |-> IF skip THEN "skipped" ELSE "running",
                   at |-> now, finished |-> IF skip THEN now ELSE Never,
                   of |-> t, due |-> run[r].due, stale |-> StaleAfter(t),
                   exclusive |-> ~task[t].concurrent]
             v == [run[r] EXCEPT !.timeout = limit, !.entry = e]
  <1>0. /\ phase[r] = "locked" /\ run[r] \in Run /\ t \in Tasks /\ Stored(t)
        /\ phase' = [phase EXCEPT ![r] = "read"]
        /\ UNCHANGED <<now, task, logs, next, lock>>
    BY Typed DEF Read, TasksInv, Run
  <1>1. run' = [run EXCEPT ![r] = v]
    BY DEF Read
  <1>2. now \in Nat /\ task[t] \in Task /\ StaleAfter(t) \in Nat
    <2>1. now \in Nat /\ task[t] \in Task
      BY <1>0, Typed DEF TasksInv
    <2> QED BY <2>1, LimitAssumption DEF StaleAfter, Task
  <1>3. run[r].trigger = "schedule" =>
          /\ tick \in Nat /\ tick \in Ticks[t] /\ tick <= now
          /\ \A k \in Ticks[t] : k <= now => k <= tick
    BY <1>0, PlannedTickIn
  <1>4. limit \in Nat \cup {None}
    BY <1>0, <1>2, LimitIn DEF Run, Task
  <1>5. e \in Log
    <2>1. tick \in Nat \cup {Never}
      BY <1>3
    <2>2. task[t].concurrent \in BOOLEAN /\ (~task[t].concurrent) \in BOOLEAN
      BY <1>2 DEF Task
    <2> HIDE DEF tick, skip
    <2> QED BY <1>0, <1>2, <2>1, <2>2 DEF Log, Run, Open, Final
  <1>6. /\ e.task = t /\ e.of = t /\ e.at = now /\ e.tick = tick /\ e.stale = StaleAfter(t)
        /\ e.trigger = run[r].trigger /\ e.exclusive = ~task[t].concurrent
        /\ e.status = (IF skip THEN "skipped" ELSE "running")
        /\ e.finished = (IF skip THEN now ELSE Never)
    OBVIOUS
  <1>7. v \in Run /\ v.task = t /\ v.entry = e /\ v.log = run[r].log /\ v.since = run[r].since
        /\ v.due = run[r].due /\ v.trigger = run[r].trigger
    <2> HIDE DEF e, limit
    <2> QED BY <1>0, <1>4, <1>5 DEF Run
  <1>8. RowOK(e)
    <2>1. e.trigger = "schedule" => e.tick \in Ticks[e.of] /\ e.tick <= e.at
                                      /\ \A k \in Ticks[e.of] : k <= e.at => k <= e.tick
      BY <1>3, <1>6
    <2>2. e.trigger # "schedule" => e.tick = Never
      BY <1>6
    <2>3. e.at <= now /\ e.finished <= now /\ (e.status = "running" <=> e.finished = Never)
      <3> HIDE DEF skip
      <3> QED BY <1>2, <1>6 DEF Never
    <2>4. e.task = e.of
      BY <1>6
    <2> HIDE DEF e
    <2> QED BY <2>1, <2>2, <2>3, <2>4 DEF RowOK, TickOK
  <1>9. ASSUME NEW l \in DOMAIN logs, logs[l].of = t
        PROVE  logs[l].task = t /\ logs[l].at <= now /\ logs[l].finished <= now /\ logs[l].at \in Nat
               /\ (logs[l].status = "running" <=> logs[l].finished = Never)
    <2>1. RowOK(logs[l]) /\ logs[l] \in Log
      BY Typed DEF TasksInv, Rows
    <2> QED BY <1>0, <1>9, <2>1 DEF RowOK, Stored, Log
  <1>10. ASSUME NEW l \in DOMAIN logs, logs[l].of = e.of
         PROVE  logs[l].at <= e.at /\ Apart(logs[l], e)
    <2>1. logs[l].of = t
      BY <1>6, <1>10
    <2>2. ASSUME ~task[t].concurrent, ~skip, logs[l].status # "skipped"
          PROVE  (logs[l].finished # Never /\ logs[l].finished <= now) \/ logs[l].at < now - StaleAfter(t)
      <3>1. ~(l \in CountedRunning(t))
        BY <2>2
      <3>2. logs[l].status # "running" \/ ~(logs[l].at >= now - StaleAfter(t))
        BY <1>9, <2>1, <3>1 DEF CountedRunning
      <3>3. CASE logs[l].status # "running"
        BY <1>9, <2>1, <3>3
      <3>4. CASE ~(logs[l].at >= now - StaleAfter(t))
        BY <1>2, <1>9, <2>1, <3>4
      <3> QED BY <3>2, <3>3, <3>4
    <2>3. e.exclusive => ~task[t].concurrent
      BY <1>6
    <2>4. e.status # "skipped" => ~skip
      BY <1>6
    <2>5. logs[l].at <= e.at
      BY <1>6, <1>9, <2>1
    <2> HIDE DEF e, skip
    <2> QED BY <1>6, <2>2, <2>3, <2>4, <2>5 DEF Apart
  <1>11. e.status = "skipped" => \E l \in DOMAIN logs : Justifies(logs[l], e)
    <2> SUFFICES ASSUME skip
                 PROVE  \E l \in DOMAIN logs : Justifies(logs[l], e)
      BY <1>6
    <2>1. PICK l \in CountedRunning(t) : TRUE
      OBVIOUS
    <2>2. l \in DOMAIN logs /\ logs[l].task = t /\ logs[l].status = "running" /\ logs[l].at >= now - StaleAfter(t)
      BY <2>1 DEF CountedRunning
    <2>3. logs[l].of = t
      <3>1. RowOK(logs[l]) /\ t # None
        BY <1>0, <2>2, LimitAssumption DEF TasksInv, Rows
      <3> QED BY <2>2, <3>1 DEF RowOK
    <2> HIDE DEF e, skip
    <2> QED BY <1>6, <2>2, <2>3 DEF Justifies
  <1> HIDE DEF e, v, limit, tick, skip
  <1>12. EntryOK(e)
    <2>1. e.status \in {"running", "skipped"}
      BY <1>6
    <2> QED BY <1>6, <1>8, <1>10, <1>11, <2>1 DEF EntryOK
  <1>13. phase'[r] = "read" /\ run'[r] = v /\ \A q \in Runs \ {r} : phase'[q] = phase[q] /\ run'[q] = run[q]
    BY <1>0, <1>1 DEF TasksInv, TypeOK
  <1>14. TypeOK'
    <2>1. phase' \in [Runs -> Phases]
      BY <1>0 DEF TasksInv, TypeOK, Phases
    <2>2. run' \in [Runs -> Run \cup {None}]
      BY <1>1, <1>7 DEF TasksInv, TypeOK
    <2>3. \A q \in Runs : /\ run'[q] = None <=> phase'[q] = "idle"
                          /\ phase'[q] \in {"running", "ended", "closing"} => run'[q].log \in DOMAIN logs
      BY <1>7, <1>13, NoneAssumption DEF TasksInv, TypeOK
    <2> QED BY <1>0, <2>1, <2>2, <2>3 DEF TasksInv, TypeOK
  <1>15. RunOK(r)'
    <2> PICK x : x = v
      OBVIOUS
    <2> PICK f : f = e
      OBVIOUS
    <2>0. run'[r] = x /\ x.task = run[r].task /\ x.since = run[r].since /\ x.due = run[r].due
          /\ x.trigger = run[r].trigger /\ x.entry = f /\ f \in Log /\ f.of = x.task /\ EntryOK(f)
      BY <1>5, <1>6, <1>7, <1>12, <1>13 DEF t
    <2>1. RequestOK(run[r])'
      <3>1. RequestOK(run[r])
        BY <1>0 DEF TasksInv, RunOK, ClaimPhases
      <3> QED BY <1>0, <2>0, <3>1 DEF RequestOK
    <2>2. lock'[x.task] = r
      BY <1>0, <2>0 DEF TasksInv, RunOK
    <2>3. EntryOK(f)'
      BY <1>0, <2>0 DEF EntryOK, RowOK, TickOK, Apart, Justifies
    <2>4. EntryOK(run[r].entry)'
      BY <2>0, <2>3 DEF EntryOK, RowOK, TickOK, Apart, Justifies
    <2>5. Stored(run[r].task)'
      BY <1>0, <2>0 DEF Stored, t
    <2> QED BY <1>13, <2>0, <2>1, <2>2, <2>4, <2>5 DEF RunOK, ExecPhases
  <1>16. JobsOK'
    BY <1>0 DEF TasksInv, JobsOK
  <1> QED BY <1>0, <1>13, <1>14, <1>15, <1>16, ExecutionStep DEF ClaimPhases, ExecPhases

(* The handler, and what its recording reads.                                *)
LEMMA HandlerKeeps ==
    ASSUME TasksInv, NEW r \in Runs, NEW outcome \in {"success", "failure"},
           EndsWith(r, outcome) \/ ReadBack(r)
    PROVE  TasksInv'
  <1> DEFINE v == IF phase[r] = "running"
                  THEN [run[r] EXCEPT !.outcome = outcome, !.end = now, !.deadline = None]
                  ELSE [run[r] EXCEPT !.sawTask = Stored(run[r].task)]
  <1>0. /\ phase[r] \in ExecPhases /\ phase[r] # "idle" /\ run[r] \in Run /\ run[r].log \in DOMAIN logs
        /\ UNCHANGED <<now, task, logs, next, lock>>
    BY Typed DEF EndsWith, ReadBack, TasksInv, TypeOK, ExecPhases
  <1>1. run' = [run EXCEPT ![r] = v]
    BY DEF EndsWith, ReadBack
  <1>2. now \in Nat
    BY Typed DEF TasksInv
  <1>3. /\ v \in Run /\ v.log = run[r].log /\ v.task = run[r].task
        /\ phase[r] = "running" => v.outcome = outcome /\ v.end = now
        /\ phase[r] # "running" => v.outcome = run[r].outcome /\ v.end = run[r].end
    <2>1. Stored(run[r].task) \in BOOLEAN
      BY DEF Stored
    <2> QED BY <1>0, <1>2, <2>1 DEF Run, Final
  <1> HIDE DEF v
  <1>4. phase'[r] \in {"ended", "closing"} /\ run'[r] = v
        /\ (phase[r] # "running" => phase[r] = "ended")
        /\ phase' \in [Runs -> Phases] /\ run' \in [Runs -> Run \cup {None}]
        /\ \A q \in Runs \ {r} : phase'[q] = phase[q] /\ run'[q] = run[q]
    BY <1>1, <1>3 DEF EndsWith, ReadBack, TasksInv, TypeOK, Phases
  <1>5. TypeOK'
    <2>1. \A q \in Runs : /\ run'[q] = None <=> phase'[q] = "idle"
                          /\ phase'[q] \in {"running", "ended", "closing"} => run'[q].log \in DOMAIN logs
      BY <1>0, <1>3, <1>4, NoneAssumption DEF TasksInv, TypeOK
    <2> QED BY <1>0, <1>4, <2>1 DEF TasksInv, TypeOK
  <1>6. RunOK(r)'
    <2>1. logs[v.log].status = "running" /\ logs[v.log].of = v.task
      BY <1>0, <1>3 DEF TasksInv, RunOK
    <2>2. v.outcome \in {"success", "failure"} /\ v.end <= now
      BY <1>2, <1>3, <1>4 DEF TasksInv, RunOK
    <2> QED BY <1>0, <1>4, <2>1, <2>2 DEF RunOK, ClaimPhases, ExecPhases
  <1>7. JobsOK'
    BY <1>0 DEF TasksInv, JobsOK
  <1> QED BY <1>0, <1>3, <1>4, <1>5, <1>6, <1>7, ExecutionStep DEF ClaimPhases, ExecPhases

-----------------------------------------------------------------------------
(* The steps that write the log.                                             *)

(* The other executions, in a step of one that writes its own row.           *)
LEMMA OthersStay ==
    ASSUME TasksInv, TypeOK', now' = now, NEW r \in Runs,
           \A q \in Runs \ {r} : phase'[q] = phase[q] /\ run'[q] = run[q],
           \A t \in Tasks : lock[t] \in Runs \ {r} => lock'[t] = lock[t],
           \A t \in Tasks : task'[t].status = task[t].status,
           DOMAIN logs \subseteq DOMAIN logs',
           \A l \in DOMAIN logs : Evolves(logs[l], logs'[l]),
           \A l \in DOMAIN logs' \ DOMAIN logs : phase[r] = "read" /\ logs'[l].of = run[r].task,
           \A q \in Runs \ {r} : phase[q] \in ExecPhases => logs'[run[q].log].status = "running"
    PROVE  \A q \in Runs \ {r} : RunOK(q)'
  <1> SUFFICES ASSUME NEW q \in Runs \ {r}
               PROVE  RunOK(q)'
    OBVIOUS
  <1>0. TypeOK /\ Rows /\ RunOK(q) /\ RunOK(r)
    BY DEF TasksInv
  <1>1. now \in Int /\ now' >= now
    BY <1>0, Typed
  <1>2. phase[q] # "idle" => run[q] \in Run /\ run[q].task \in Tasks
    BY <1>0, Typed DEF Run
  <1>3. phase[q] \in {"locked", "read"} => lock[run[q].task] = q /\ lock'[run[q].task] = lock[run[q].task]
    BY <1>0, <1>2 DEF RunOK
  <1>4. phase[q] \in ClaimPhases => now' <= run[q].since + QueueLimit
    BY <1>0 DEF RunOK, RequestOK
  <1>5. phase[q] = "read" => Stored(run[q].task)'
    BY <1>0, <1>2 DEF RunOK, Stored
  <1>6. phase[q] = "read" => \A l \in DOMAIN logs' \ DOMAIN logs : logs'[l].of # run[q].task
    BY <1>0, <1>3 DEF RunOK
  <1>7. \A t \in Tasks : task[t].status = "gone" => task'[t].status = "gone"
    OBVIOUS
  <1> QED BY <1>0, <1>1, <1>3, <1>4, <1>5, <1>6, <1>7, RunStays

(* The row that a claim inserts: the id is free, the bound leaves room.      *)
LEMMA RoomForClaim ==
    ASSUME TasksInv, NEW r \in Runs, phase[r] = "read", NEW n, n = Cardinality(DOMAIN logs) + 1
    PROVE  /\ n \in Nat /\ n - 1 = Cardinality(DOMAIN logs) /\ n \in LogId /\ n \notin DOMAIN logs
           /\ DOMAIN logs \cup {n} = 1 .. n /\ ~(n < n)
           /\ \A i \in DOMAIN logs : i < n /\ ~(n < i)
           /\ IsFiniteSet(Claiming \ {r}) /\ Cardinality(Claiming \ {r}) = Cardinality(Claiming) - 1
  <1> DEFINE m == Cardinality(DOMAIN logs)
             c == Cardinality(Claiming)
  <1>1. m \in Nat /\ DOMAIN logs = 1 .. m /\ m + c <= MaxLogs /\ n = m + 1
    BY DEF TasksInv, Ids
  <1>2. r \in Claiming /\ IsFiniteSet(Claiming) /\ c \in Nat
    BY ClaimingFinite DEF Claiming, ClaimPhases
  <1>3. IsFiniteSet(Claiming \ {r}) /\ Cardinality(Claiming \ {r}) = c - 1
    BY <1>2, FS_RemoveElement
  <1>4. Cardinality(Claiming \ {r}) \in Nat
    BY <1>3, FS_CardinalityType
  <1>5. c >= 1 /\ MaxLogs \in Nat
    <2> HIDE DEF c
    <2> QED BY <1>2, <1>3, <1>4, HorizonAssumption
  <1> HIDE DEF m, c
  <1>6. n \in 1 .. MaxLogs /\ n \notin 1 .. m /\ (1 .. m) \cup {n} = 1 .. n /\ n - 1 = m
        /\ \A i \in 1 .. m : i < n /\ ~(n < i)
    BY <1>1, <1>2, <1>5
  <1>7. ~(n < n) /\ n \in Nat
    BY <1>1
  <1> QED BY <1>1, <1>3, <1>6, <1>7 DEF LogId, m, c

LEMMA EntryInserted ==
    ASSUME TasksInv, NEW r \in Runs, phase[r] = "read", NEW e, e = run[r].entry, ~ClaimTaken(e),
           UNCHANGED <<now, task>>, TypeOK',
           NEW n, n = Cardinality(DOMAIN logs) + 1,
           logs' = [k \in DOMAIN logs \cup {n} |-> IF k = n THEN e ELSE logs[k]]
    PROVE  Rows' /\ Pairs' /\ Skips' /\ LastRunIsLogged'
  <1>0. Stored(run[r].task) /\ e \in Log /\ e.of = run[r].task /\ EntryOK(e)
    BY DEF TasksInv, RunOK
  <1>1. n \notin DOMAIN logs /\ n \in Nat /\ ~(n < n) /\ \A i \in DOMAIN logs : i < n /\ ~(n < i)
    BY RoomForClaim
  <1>2. DOMAIN logs' = DOMAIN logs \cup {n} /\ logs'[n] = e /\ \A k \in DOMAIN logs : logs'[k] = logs[k]
    BY <1>1
  <1>3. Rows'
    <2>1. \A k \in DOMAIN logs' : RowOK(logs'[k])
      BY <1>0, <1>2 DEF EntryOK, TasksInv, Rows
    <2> QED BY <2>1 DEF Rows, RowOK, TickOK
  <1>4. ASSUME NEW l \in DOMAIN logs
        PROVE  PairOK(logs[l], e)
    <2> SUFFICES ASSUME logs[l].of = e.of
                 PROVE  /\ logs[l].at <= e.at /\ Apart(logs[l], e)
                        /\ logs[l].trigger = "schedule" /\ e.trigger = "schedule" => logs[l].tick # e.tick
      BY DEF PairOK
    <2>1. RowOK(logs[l])
      BY DEF TasksInv, Rows
    <2>2. logs[l].task = e.task
      BY <1>0, <2>1 DEF RowOK, Stored, EntryOK
    <2> QED BY <1>0, <2>2 DEF EntryOK, ClaimTaken
  <1>5. Pairs'
    <2> SUFFICES ASSUME NEW i \in DOMAIN logs', NEW j \in DOMAIN logs', i < j
                 PROVE  PairOK(logs'[i], logs'[j])
      BY DEF Pairs, PairOK, Apart, Never
    <2>1. i \in DOMAIN logs /\ (j \in DOMAIN logs \/ j = n)
      BY <1>1, <1>2
    <2> QED BY <1>2, <1>4, <2>1 DEF TasksInv, Pairs
  <1>6. Skips'
    <2> SUFFICES ASSUME NEW j \in DOMAIN logs', logs'[j].status = "skipped"
                 PROVE  \E i \in DOMAIN logs' : i < j /\ Justifies(logs'[i], logs'[j])
      BY DEF Skips, Justifies
    <2>1. CASE j = n
      BY <1>0, <1>1, <1>2, <2>1 DEF EntryOK
    <2>2. CASE j # n
      BY <1>2, <2>2 DEF TasksInv, Skips
    <2> QED BY <2>1, <2>2
  <1>7. LastRunIsLogged'
    BY <1>2 DEF TasksInv, LastRunIsLogged, Never
  <1> QED BY <1>3, <1>5, <1>6, <1>7

\* Setting the limit of an execution and its deadline leaves it one of Run.
LEMMA LimitedRun ==
    ASSUME NEW x \in Run, NEW d \in Nat \cup {None}
    PROVE  [x EXCEPT !.timeout = None, !.deadline = d] \in Run
  <1>1. ASSUME NEW y \in Nat \cup {None}
        PROVE  [x EXCEPT !.timeout = y] \in Run
    BY DEF Run
  <1>2. ASSUME NEW z \in Run
        PROVE  [z EXCEPT !.deadline = d] \in Run
    BY DEF Run
  <1>3. [[x EXCEPT !.timeout = None] EXCEPT !.deadline = d] \in Run
    BY <1>1, <1>2
  <1> QED BY <1>3

LEMMA ClaimKeeps ==
    ASSUME TasksInv, NEW r \in Runs, Claim(r)
    PROVE  TasksInv'
  <1> PICK e : e = run[r].entry
    OBVIOUS
  <1> PICK n : n = Cardinality(DOMAIN logs) + 1
    OBVIOUS
  <1> PICK v : v = Running(r, n)
    OBVIOUS
  <1>0. /\ phase[r] = "read" /\ run[r] \in Run /\ e.status = "running" /\ ~ClaimTaken(e)
        /\ logs' = [k \in DOMAIN logs \cup {n} |-> IF k = n THEN e ELSE logs[k]]
        /\ phase' = [phase EXCEPT ![r] = "running"] /\ run' = [run EXCEPT ![r] = v]
        /\ lock' = Unlock(r) /\ UNCHANGED <<now, task, next>>
    BY Typed DEF Claim, TasksInv
  <1>1. Stored(run[r].task) /\ e \in Log /\ e.of = run[r].task
    BY <1>0 DEF TasksInv, RunOK
  <1>2. /\ n - 1 = Cardinality(DOMAIN logs) /\ n \in LogId /\ n \notin DOMAIN logs
        /\ DOMAIN logs \cup {n} = 1 .. n /\ n \in Nat
        /\ IsFiniteSet(Claiming \ {r}) /\ Cardinality(Claiming \ {r}) = Cardinality(Claiming) - 1
    BY <1>0, RoomForClaim
  <1>3. v \in Run /\ v.log = n /\ v.task = run[r].task
    <2>1. IF run[r].timeout = None THEN TRUE ELSE now + run[r].timeout \in Nat
      BY <1>0, Typed DEF Run, TasksInv
    <2>2. (IF run[r].timeout = None THEN None ELSE now + run[r].timeout) \in Nat \cup {None}
      BY <2>1
    <2> PICK u, d : u = run[r] /\ d = IF run[r].timeout = None THEN None ELSE now + run[r].timeout
      OBVIOUS
    <2>3. v = [u EXCEPT !.log = n, !.entry = None, !.due = Never, !.since = 0, !.timeout = None, !.deadline = d]
      BY DEF Running
    <2>4. u \in Run /\ d \in Nat \cup {None} /\ n \in LogId
      BY <1>0, <1>2, <2>2
    <2>5. v \in Run
      <3> DEFINE a == [u EXCEPT !.log = n, !.entry = None]
                 b == [a EXCEPT !.due = Never, !.since = 0]
                 c == [b EXCEPT !.timeout = None, !.deadline = d]
      <3>1. a \in Run
        BY <2>4 DEF Run
      <3>2. b \in Run
        <4> HIDE DEF a
        <4> QED BY <3>1 DEF Run
      <3>3. c \in Run
        <4> HIDE DEF b
        <4> QED BY <2>4, <3>2, LimitedRun
      <3>4. c = [u EXCEPT !.log = n, !.entry = None, !.due = Never, !.since = 0, !.timeout = None, !.deadline = d]
        OBVIOUS
      <3> HIDE DEF c
      <3> QED BY <2>3, <3>3, <3>4
    <2>6. v.log = n /\ v.task = u.task
      BY <2>3, <2>4 DEF Run
    <2> QED BY <2>5, <2>6
  <1>4. phase'[r] = "running" /\ run'[r] = v /\ \A q \in Runs \ {r} : phase'[q] = phase[q] /\ run'[q] = run[q]
    BY <1>0 DEF TasksInv, TypeOK
  <1>5. DOMAIN logs' = DOMAIN logs \cup {n} /\ logs'[n] = e /\ \A k \in DOMAIN logs : logs'[k] = logs[k]
    BY <1>0, <1>2
  <1>6. TypeOK'
    <2>1. phase' \in [Runs -> Phases]
      BY <1>0 DEF TasksInv, TypeOK, Phases
    <2>2. run' \in [Runs -> Run \cup {None}]
      BY <1>0, <1>3 DEF TasksInv, TypeOK
    <2>3. \A q \in Runs : /\ run'[q] = None <=> phase'[q] = "idle"
                          /\ phase'[q] \in {"running", "ended", "closing"} => run'[q].log \in DOMAIN logs'
      BY <1>3, <1>4, <1>5, NoneAssumption DEF TasksInv, TypeOK
    <2>4. DOMAIN logs' \subseteq LogId /\ \A l \in DOMAIN logs' : logs'[l] \in Log
      BY <1>1, <1>2, <1>5 DEF TasksInv, TypeOK
    <2>5. lock' \in [Tasks -> Runs \cup {None}]
      BY <1>0 DEF Unlock, TasksInv, TypeOK
    <2> QED BY <1>0, <2>1, <2>2, <2>3, <2>4, <2>5 DEF TasksInv, TypeOK
  <1>7. Rows' /\ Pairs' /\ Skips' /\ LastRunIsLogged'
    BY <1>0, <1>6, EntryInserted
  <1>8. \A q \in Runs \ {r} : RunOK(q)'
    <2>1. \A t \in Tasks : lock[t] \in Runs \ {r} => lock'[t] = lock[t]
      BY <1>0 DEF Unlock
    <2>2. \A q \in Runs \ {r} : phase[q] \in ExecPhases => logs'[run[q].log].status = "running"
      BY <1>5 DEF TasksInv, TypeOK, RunOK, ExecPhases
    <2>3. \A l \in DOMAIN logs : Evolves(logs[l], logs'[l])
      BY <1>5 DEF Evolves
    <2>4. \A l \in DOMAIN logs' \ DOMAIN logs : phase[r] = "read" /\ logs'[l].of = run[r].task
      BY <1>0, <1>1, <1>5
    <2> QED BY <1>0, <1>4, <1>5, <1>6, <2>1, <2>2, <2>3, <2>4, OthersStay
  <1>9. RunOK(r)'
    BY <1>0, <1>1, <1>3, <1>4, <1>5 DEF RunOK, ClaimPhases, ExecPhases
  <1>10. OwnRow'
    BY <1>2, <1>3, <1>4 DEF TasksInv, TypeOK, OwnRow, ExecPhases
  <1>11. Ids'
    <2>1. Claiming' = Claiming \ {r}
      BY <1>4 DEF Claiming, ClaimPhases
    <2>2. Cardinality(DOMAIN logs') = n
      <3>1. Cardinality(1 .. n) = n
        BY <1>2, FS_Interval
      <3> QED BY <1>2, <1>5, <3>1
    <2>3. n + (Cardinality(Claiming) - 1) <= MaxLogs
      BY <1>2, ClaimingFinite, HorizonAssumption DEF TasksInv, Ids
    <2> QED BY <1>2, <1>5, <2>1, <2>2, <2>3 DEF Ids
  <1>12. JobsOK'
    BY <1>0 DEF TasksInv, JobsOK
  <1> QED BY <1>4, <1>6, <1>7, <1>8, <1>9, <1>10, <1>11, <1>12 DEF TasksInv

LEMMA SkipKeeps ==
    ASSUME TasksInv, NEW r \in Runs, Skip(r)
    PROVE  TasksInv'
  <1> PICK e : e = run[r].entry
    OBVIOUS
  <1> PICK n : n = Cardinality(DOMAIN logs) + 1
    OBVIOUS
  <1>0. /\ phase[r] = "read" /\ e.status = "skipped" /\ ~ClaimTaken(e)
        /\ logs' = [k \in DOMAIN logs \cup {n} |-> IF k = n THEN e ELSE logs[k]]
        /\ Leave(r) /\ UNCHANGED <<now, task, next>> /\ TypeOK
    BY DEF Skip, TasksInv
  <1>1. Stored(run[r].task) /\ e \in Log /\ e.of = run[r].task
    BY <1>0 DEF TasksInv, RunOK
  <1>2. /\ n - 1 = Cardinality(DOMAIN logs) /\ n \in LogId /\ n \notin DOMAIN logs
        /\ DOMAIN logs \cup {n} = 1 .. n /\ n \in Nat
        /\ IsFiniteSet(Claiming \ {r}) /\ Cardinality(Claiming \ {r}) = Cardinality(Claiming) - 1
    BY <1>0, RoomForClaim
  <1>3. /\ phase' \in [Runs -> Phases] /\ run' \in [Runs -> Run \cup {None}]
        /\ lock' \in [Tasks -> Runs \cup {None}]
        /\ phase'[r] = "idle" /\ run'[r] = None
        /\ \A q \in Runs \ {r} : phase'[q] = phase[q] /\ run'[q] = run[q]
        /\ \A t \in Tasks : lock[t] \in Runs \ {r} => lock'[t] = lock[t]
    BY <1>0, LeaveStops
  <1>5. DOMAIN logs' = DOMAIN logs \cup {n} /\ logs'[n] = e /\ \A k \in DOMAIN logs : logs'[k] = logs[k]
    BY <1>0, <1>2
  <1>6. TypeOK'
    <2>3. \A q \in Runs : /\ run'[q] = None <=> phase'[q] = "idle"
                          /\ phase'[q] \in {"running", "ended", "closing"} => run'[q].log \in DOMAIN logs'
      BY <1>0, <1>3, <1>5 DEF TypeOK
    <2>4. DOMAIN logs' \subseteq LogId /\ \A l \in DOMAIN logs' : logs'[l] \in Log
      BY <1>0, <1>1, <1>2, <1>5 DEF TypeOK
    <2> QED BY <1>0, <1>3, <2>3, <2>4 DEF TypeOK
  <1>7. Rows' /\ Pairs' /\ Skips' /\ LastRunIsLogged'
    BY <1>0, <1>6, EntryInserted
  <1>8. \A q \in Runs \ {r} : RunOK(q)'
    <2>2. \A q \in Runs \ {r} : phase[q] \in ExecPhases => logs'[run[q].log].status = "running"
      BY <1>5 DEF TasksInv, TypeOK, RunOK, ExecPhases
    <2>3. \A l \in DOMAIN logs : Evolves(logs[l], logs'[l])
      BY <1>5 DEF Evolves
    <2>4. \A l \in DOMAIN logs' \ DOMAIN logs : phase[r] = "read" /\ logs'[l].of = run[r].task
      BY <1>0, <1>1, <1>5
    <2> QED BY <1>0, <1>3, <1>5, <1>6, <2>2, <2>3, <2>4, OthersStay
  <1>9. RunOK(r)' /\ OwnRow'
    BY <1>3 DEF TasksInv, RunOK, OwnRow, ClaimPhases, ExecPhases
  <1>11. Ids'
    <2>1. Claiming' = Claiming \ {r}
      BY <1>3 DEF Claiming, ClaimPhases
    <2>2. Cardinality(DOMAIN logs') = n
      <3>1. Cardinality(1 .. n) = n
        BY <1>2, FS_Interval
      <3> QED BY <1>2, <1>5, <3>1
    <2>3. n + (Cardinality(Claiming) - 1) <= MaxLogs
      BY <1>2, ClaimingFinite, HorizonAssumption DEF TasksInv, Ids
    <2> QED BY <1>2, <1>5, <2>1, <2>2, <2>3 DEF Ids
  <1>12. JobsOK'
    BY <1>0 DEF TasksInv, JobsOK
  <1> QED BY <1>3, <1>6, <1>7, <1>8, <1>9, <1>11, <1>12 DEF TasksInv

LEMMA CloseKeeps ==
    ASSUME TasksInv, NEW r \in Runs, Close(r)
    PROVE  TasksInv'
  <1> PICK u : u = run[r]
    OBVIOUS
  <1>0. /\ phase[r] = "closing" /\ u \in Run /\ u.log \in DOMAIN logs
        /\ u.sawTask => Stored(u.task)
        /\ task' = IF u.sawTask THEN [task EXCEPT ![u.task].ran = u.end] ELSE task
        /\ logs' = [logs EXCEPT ![u.log] = [logs[u.log] EXCEPT !.status = u.outcome, !.finished = u.end]]
        /\ Leave(r) /\ UNCHANGED <<now, next>> /\ TypeOK
    BY Typed DEF Close, RowUpdatable, LastRun, TasksInv, TypeOK
  <1>1. /\ u.outcome \in {"success", "failure"} /\ u.end <= now /\ u.end \in Nat /\ u.task \in Tasks
        /\ u.sawTask \in BOOLEAN
        /\ logs[u.log].status = "running" /\ logs[u.log].of = u.task /\ logs[u.log] \in Log
    BY <1>0, Typed DEF TasksInv, RunOK, ExecPhases, Run
  <1>2. /\ phase' \in [Runs -> Phases] /\ run' \in [Runs -> Run \cup {None}]
        /\ lock' \in [Tasks -> Runs \cup {None}]
        /\ phase'[r] = "idle" /\ run'[r] = None
        /\ \A q \in Runs \ {r} : phase'[q] = phase[q] /\ run'[q] = run[q]
        /\ \A t \in Tasks : lock[t] \in Runs \ {r} => lock'[t] = lock[t]
    BY <1>0, LeaveStops
  <1> PICK x : x = [logs[u.log] EXCEPT !.status = u.outcome, !.finished = u.end]
    OBVIOUS
  <1>3. /\ x \in Log /\ x.status = u.outcome /\ x.finished = u.end /\ Evolves(logs[u.log], x)
        /\ x.task = logs[u.log].task /\ x.of = u.task
    BY <1>1 DEF Log, Open, Final, Evolves
  <1>4. /\ DOMAIN logs' = DOMAIN logs /\ logs'[u.log] = x
        /\ \A l \in DOMAIN logs \ {u.log} : logs'[l] = logs[l]
    BY <1>0
  <1>5. /\ task' \in [Tasks -> Task]
        /\ \A t \in Tasks : task'[t].status = task[t].status
        /\ \A t \in Tasks : task'[t].ran = task[t].ran \/ (t = u.task /\ task'[t].ran = u.end)
    <2>1. CASE ~u.sawTask
      BY <1>0, <2>1 DEF TypeOK
    <2>2. CASE u.sawTask
      <3> DEFINE row == [task[u.task] EXCEPT !.ran = u.end]
      <3>1. task' = [task EXCEPT ![u.task] = row]
        BY <1>0, <2>2
      <3>2. row \in Task /\ row.status = task[u.task].status /\ row.ran = u.end
        BY <1>0, <1>1, Typed DEF Task
      <3> HIDE DEF row
      <3> QED BY <1>0, <1>1, <3>1, <3>2 DEF TypeOK
    <2> QED BY <2>1, <2>2
  <1>6. TypeOK'
    <2>1. \A q \in Runs : /\ run'[q] = None <=> phase'[q] = "idle"
                          /\ phase'[q] \in {"running", "ended", "closing"} => run'[q].log \in DOMAIN logs'
      BY <1>0, <1>2, <1>4 DEF TypeOK
    <2>2. DOMAIN logs' \subseteq LogId /\ \A l \in DOMAIN logs' : logs'[l] \in Log
      BY <1>0, <1>3, <1>4 DEF TypeOK
    <2> QED BY <1>0, <1>2, <1>5, <2>1, <2>2 DEF TypeOK
  <1>7. \A l \in DOMAIN logs : Evolves(logs[l], logs'[l])
    BY <1>3, <1>4 DEF Evolves
  <1>8. Rows'
    <2>1. \A l \in DOMAIN logs : RowOK(logs[l]) /\ logs[l] \in Log
      BY <1>0, Typed DEF TasksInv, Rows
    <2>2. now' >= now
      BY <1>0, Typed
    <2>4. ASSUME NEW l \in DOMAIN logs'
          PROVE  RowOK(logs[l])'
      <3>1. CASE l = u.log
        <4>1. RowOK(logs[u.log])
          BY <1>0, <2>1
        <4>2. x.finished <= now' /\ x.finished # Never /\ x.at <= now'
          BY <1>0, <1>1, <1>3, <4>1 DEF RowOK, Never, Evolves
        <4>3. x.status # "running"
          BY <1>1, <1>3
        <4>4. TickOK(x)
          BY <1>3, <4>1 DEF RowOK, TickOK, Evolves
        <4>5. x.task # x.of => x.task = None /\ task'[x.of].status = "gone"
          BY <1>1, <1>3, <1>5, <4>1 DEF RowOK
        <4>6. RowOK(x)'
          BY <4>2, <4>3, <4>4, <4>5 DEF RowOK, TickOK, Never
        <4> QED BY <1>4, <3>1, <4>6 DEF RowOK, TickOK
      <3>2. CASE l # u.log
        <4>1. PICK d : d = logs[l]
          OBVIOUS
        <4>2. RowOK(d)'
          BY <1>4, <1>5, <2>1, <2>2, <1>6, <1>0, <4>1, RowStays
        <4> QED BY <1>4, <3>2, <4>1, <4>2 DEF RowOK, TickOK
      <3> QED BY <3>1, <3>2
    <2> QED BY <2>4 DEF Rows, RowOK, TickOK
  <1>9. Pairs' /\ Skips'
    BY <1>4, <1>6, <1>7, <1>8, RowsEvolve DEF TasksInv
  <1>10. \A q \in Runs \ {r} : RunOK(q)'
    <2>1. \A q \in Runs \ {r} : phase[q] \in ExecPhases => logs'[run[q].log].status = "running"
      <3> SUFFICES ASSUME NEW q \in Runs \ {r}, phase[q] \in ExecPhases
                   PROVE  logs'[run[q].log].status = "running"
        OBVIOUS
      <3>1. run[q].log \in DOMAIN logs /\ run[q].log # u.log
        BY <1>0 DEF TasksInv, TypeOK, OwnRow, ExecPhases
      <3> QED BY <1>4, <3>1 DEF TasksInv, RunOK
    <2> QED BY <1>0, <1>2, <1>4, <1>5, <1>6, <1>7, <2>1, OthersStay
  <1>11. RunOK(r)' /\ OwnRow' /\ JobsOK'
    BY <1>0, <1>2 DEF TasksInv, RunOK, OwnRow, JobsOK, ClaimPhases, ExecPhases
  <1>12. Ids'
    <2>1. Claiming' = Claiming
      BY <1>0, <1>2 DEF Claiming, ClaimPhases
    <2> QED BY <1>4, <2>1 DEF TasksInv, Ids
  <1>13. LastRunIsLogged'
    <2> SUFFICES ASSUME NEW t \in Tasks, task'[t].ran # Never
                 PROVE  \E l \in DOMAIN logs' : /\ logs'[l].of = t
                                                /\ logs'[l].status \in {"success", "failure"}
                                                /\ logs'[l].finished = task'[t].ran
      BY DEF LastRunIsLogged, Never
    <2>1. CASE task'[t].ran = task[t].ran
      <3>1. PICK l \in DOMAIN logs : /\ logs[l].of = t
                                     /\ logs[l].status \in {"success", "failure"}
                                     /\ logs[l].finished = task[t].ran
        BY <2>1 DEF TasksInv, LastRunIsLogged
      <3>2. l # u.log
        BY <1>1, <3>1
      <3> QED BY <1>4, <2>1, <3>1, <3>2
    <2>2. CASE t = u.task /\ task'[t].ran = u.end
      BY <1>0, <1>1, <1>3, <1>4, <2>2
    <2> QED BY <1>5, <2>1, <2>2
  <1> QED BY <1>2, <1>6, <1>8, <1>9, <1>10, <1>11, <1>12, <1>13 DEF TasksInv

-----------------------------------------------------------------------------
(* What happens around the executions.                                       *)

(* A step that leaves the executions alone, or ends some of them.            *)
LEMMA AroundKeeps ==
    ASSUME TasksInv, TypeOK', JobsOK', Rows', Pairs', Skips', LastRunIsLogged',
           DOMAIN logs' = DOMAIN logs,
           \A r \in Runs : phase'[r] = "idle" \/ (phase'[r] = phase[r] /\ run'[r].log = run[r].log /\ RunOK(r)')
    PROVE  TasksInv'
  <1>1. \A r \in Runs : RunOK(r)'
    BY DEF RunOK, ClaimPhases, ExecPhases
  <1>2. OwnRow'
    BY DEF TasksInv, OwnRow, ExecPhases
  <1>3. Ids'
    <2>1. Claiming' \in SUBSET Claiming
      BY DEF Claiming, ClaimPhases
    <2>2. Cardinality(Claiming') \in Nat /\ Cardinality(Claiming') <= Cardinality(Claiming)
      BY <2>1, ClaimingFinite, FS_Subset, FS_CardinalityType
    <2>3. Cardinality(DOMAIN logs') + Cardinality(Claiming') <= MaxLogs
      BY <2>2, ClaimingFinite, HorizonAssumption DEF TasksInv, Ids
    <2> QED BY <2>3 DEF TasksInv, Ids
  <1> QED BY <1>1, <1>2, <1>3 DEF TasksInv

(* A step that leaves the log and what the executions are about alone.       *)
LEMMA RunsStay ==
    ASSUME TasksInv, TypeOK', logs' = logs, now' >= now,
           NEW r \in Runs, phase'[r] = phase[r],
           phase[r] # "idle" =>
               /\ run'[r].task = run[r].task /\ run'[r].trigger = run[r].trigger
               /\ run'[r].due = run[r].due /\ run'[r].since = run[r].since
               /\ run'[r].entry = run[r].entry /\ run'[r].log = run[r].log
               /\ run'[r].outcome = run[r].outcome /\ run'[r].end = run[r].end,
           \A t \in Tasks : lock[t] = r => lock'[t] = r,
           phase[r] \in ClaimPhases => now' <= run[r].since + QueueLimit,
           \A t \in Tasks : task[t].status = "gone" => task'[t].status = "gone",
           phase[r] = "read" => Stored(run[r].task)'
    PROVE  RunOK(r)'
  <1>0. TypeOK /\ Rows /\ RunOK(r)
    BY DEF TasksInv
  <1>1. phase[r] \in {"locked", "read"} => lock'[run[r].task] = lock[run[r].task]
    <2>1. phase[r] \in {"locked", "read"} => lock[run[r].task] = r /\ run[r].task \in Tasks
      BY <1>0, Typed DEF RunOK, Run
    <2> QED BY <2>1
  <1>2. \A l \in DOMAIN logs : Evolves(logs[l], logs'[l])
    BY DEF Evolves
  <1>3. phase[r] \in ExecPhases => logs'[run[r].log].status = "running"
    BY <1>0 DEF RunOK
  <1> QED BY <1>0, <1>1, <1>2, <1>3, RunStays

LEMMA CrashKeeps ==
    ASSUME TasksInv, NEW w \in Workers, Crash(w)
    PROVE  TasksInv'
  <1> PICK M : M = {r \in Runs : phase[r] # "idle" /\ run[r].worker = w}
    OBVIOUS
  <1>0. /\ phase' = [r \in Runs |-> IF r \in M THEN "idle" ELSE phase[r]]
        /\ run' = [r \in Runs |-> IF r \in M THEN None ELSE run[r]]
        /\ lock' = [t \in Tasks |-> IF lock[t] \in M THEN None ELSE lock[t]]
        /\ next' = [next EXCEPT ![w] = [t \in Tasks |-> None]]
        /\ UNCHANGED <<now, task, logs>> /\ TypeOK
    BY DEF Crash, TasksInv
  <1>1. TypeOK'
    <2>1. phase' \in [Runs -> Phases]
      BY <1>0 DEF TypeOK, Phases
    <2>2. run' \in [Runs -> Run \cup {None}] /\ lock' \in [Tasks -> Runs \cup {None}]
      BY <1>0 DEF TypeOK
    <2>3. next' \in [Workers -> [Tasks -> Nat \cup {None}]]
      BY <1>0 DEF TypeOK
    <2>4. \A q \in Runs : /\ run'[q] = None <=> phase'[q] = "idle"
                          /\ phase'[q] \in {"running", "ended", "closing"} => run'[q].log \in DOMAIN logs
      BY <1>0 DEF TypeOK
    <2> QED BY <1>0, <2>1, <2>2, <2>3, <2>4 DEF TypeOK
  <1>2. JobsOK'
    BY <1>0 DEF TasksInv, JobsOK, TypeOK
  <1>3. now' >= now
    BY <1>0, Typed
  <1>4. Rows' /\ Pairs' /\ Skips' /\ LastRunIsLogged'
    BY <1>0, <1>1, <1>3, RowsSame
  <1>5. ASSUME NEW r \in Runs, r \notin M
        PROVE  phase'[r] = phase[r] /\ run'[r] = run[r] /\ RunOK(r)'
    <2>1. phase'[r] = phase[r] /\ run'[r] = run[r] /\ \A t \in Tasks : lock[t] = r => lock'[t] = r
      BY <1>0, <1>5
    <2>2. phase[r] \in ClaimPhases => now' <= run[r].since + QueueLimit
      BY <1>0 DEF TasksInv, RunOK, RequestOK
    <2>3. phase[r] = "read" => Stored(run[r].task)'
      BY <1>0, <2>1 DEF TasksInv, RunOK, Stored
    <2> QED BY <1>0, <1>1, <1>3, <2>1, <2>2, <2>3, RunsStay
  <1> QED BY <1>0, <1>1, <1>2, <1>4, <1>5, AroundKeeps

LEMMA JobsKeep ==
    ASSUME TasksInv, NEW w \in Workers, Reconcile(w) \/ Unload(w) \/ \E t \in Tasks : Dropped(w, t)
    PROVE  TasksInv'
  <1>0. /\ UNCHANGED <<now, task, logs, lock, phase>> /\ TypeOK
    BY DEF Reconcile, Unload, Dropped, TasksInv
  <1>1. next' \in [Workers -> [Tasks -> Nat \cup {None}]] /\ JobsOK'
    <2>1. CASE Reconcile(w)
      <3> DEFINE n(t) == IF task[t].status = "enabled" THEN NextTick(t, now + 1) ELSE None
      <3>1. \A t \in Tasks : n(t) \in Nat \cup {None} /\ n(t) \in Ticks[t] \cup {None}
        BY NextTickIn
      <3>2. next' = [next EXCEPT ![w] = [t \in Tasks |-> n(t)]]
        BY <2>1 DEF Reconcile
      <3> HIDE DEF n
      <3>3. next' \in [Workers -> [Tasks -> Nat \cup {None}]]
        BY <1>0, <3>1, <3>2 DEF TypeOK
      <3>4. ASSUME NEW v \in Workers, NEW t \in Tasks, next'[v][t] # None
            PROVE  next'[v][t] \in Ticks[t]
        BY <1>0, <3>1, <3>2, <3>4 DEF TypeOK, TasksInv, JobsOK
      <3> QED BY <3>3, <3>4 DEF JobsOK
    <2>2. CASE Unload(w)
      BY <1>0, <2>2 DEF Unload, TasksInv, TypeOK, JobsOK
    <2>3. CASE \E t \in Tasks : Dropped(w, t)
      BY <2>3, AdvanceKeeps DEF Dropped
    <2> QED BY <2>1, <2>2, <2>3
  <1>2. ASSUME NEW r \in Runs, phase[r] # "idle"
        PROVE  \/ run'[r] = run[r]
               \/ run'[r] = [run[r] EXCEPT !.counted = FALSE]
    BY <1>0, <1>2 DEF Reconcile, Unload, Dropped, TypeOK
  <1>3. \A r \in Runs : phase[r] = "idle" => run'[r] = run[r]
    BY <1>0 DEF Reconcile, Unload, Dropped, TypeOK
  <1>4. ASSUME NEW r \in Runs, phase[r] # "idle"
        PROVE  /\ run'[r] \in Run
               /\ run'[r].task = run[r].task /\ run'[r].trigger = run[r].trigger
               /\ run'[r].due = run[r].due /\ run'[r].since = run[r].since
               /\ run'[r].entry = run[r].entry /\ run'[r].log = run[r].log
               /\ run'[r].outcome = run[r].outcome /\ run'[r].end = run[r].end
    <2>1. run[r] \in Run
      BY <1>0, <1>4, Typed
    <2>2. CASE run'[r] = run[r]
      BY <2>1, <2>2
    <2>3. CASE run'[r] = [run[r] EXCEPT !.counted = FALSE]
      BY <2>1, <2>3 DEF Run
    <2> QED BY <1>2, <1>4, <2>2, <2>3
  <1>5. TypeOK'
    <2>1. run' \in [Runs -> Run \cup {None}]
      <3>1. \A r \in Runs : run'[r] \in Run \cup {None}
        BY <1>0, <1>3, <1>4 DEF TypeOK
      <3>2. run' = [r \in Runs |-> run'[r]]
        BY <1>0 DEF Reconcile, Unload, Dropped, TypeOK
      <3> QED BY <3>1, <3>2
    <2>2. \A q \in Runs : /\ run'[q] = None <=> phase'[q] = "idle"
                          /\ phase'[q] \in {"running", "ended", "closing"} => run'[q].log \in DOMAIN logs
      BY <1>0, <1>3, <1>4, NoneAssumption DEF TypeOK
    <2> QED BY <1>0, <1>1, <2>1, <2>2 DEF TypeOK
  <1>6. now' >= now
    BY <1>0, Typed
  <1>7. Rows' /\ Pairs' /\ Skips' /\ LastRunIsLogged'
    BY <1>0, <1>5, <1>6, RowsSame
  <1>8. ASSUME NEW r \in Runs
        PROVE  phase'[r] = phase[r] /\ run'[r].log = run[r].log /\ RunOK(r)'
    <2>1. phase[r] \in ClaimPhases => now' <= run[r].since + QueueLimit
      BY <1>0 DEF TasksInv, RunOK, RequestOK
    <2>2. phase[r] = "read" => Stored(run[r].task)'
      <3> SUFFICES ASSUME phase[r] = "read"
                   PROVE  Stored(run[r].task)'
        OBVIOUS
      <3>1. run'[r].task = run[r].task
        BY <1>4
      <3>2. Stored(run[r].task)
        BY DEF TasksInv, RunOK
      <3> QED BY <1>0, <3>1, <3>2 DEF Stored
    <2>3. RunOK(r)'
      BY <1>0, <1>4, <1>5, <1>6, <2>1, <2>2, RunsStay
    <2> QED BY <1>0, <1>3, <1>4, <2>3
  <1> QED BY <1>0, <1>1, <1>5, <1>7, <1>8, AroundKeeps

LEMMA TickKeeps == TasksInv /\ Tick => TasksInv'
  <1> SUFFICES ASSUME TasksInv, Tick
               PROVE  TasksInv'
    OBVIOUS
  <1>0. now' = now + 1 /\ now < MaxTime /\ TypeOK /\ UNCHANGED <<task, logs, next, lock, phase, run>>
    BY DEF Tick, TasksInv
  <1>1. now \in Nat /\ MaxTime \in Nat /\ now' \in 0 .. MaxTime /\ now' >= now
    BY <1>0, Typed
  <1>2. TypeOK' /\ JobsOK'
    BY <1>0, <1>1 DEF TypeOK, TasksInv, JobsOK
  <1>3. Rows' /\ Pairs' /\ Skips' /\ LastRunIsLogged'
    BY <1>0, <1>1, <1>2, RowsSame
  <1>4. ASSUME NEW r \in Runs
        PROVE  RunOK(r)'
    <2>1. phase[r] \in ClaimPhases => now' <= run[r].since + QueueLimit
      <3> SUFFICES ASSUME phase[r] \in ClaimPhases
                   PROVE  now' <= run[r].since + QueueLimit
        OBVIOUS
      <3>1. now < run[r].since + QueueLimit
        BY DEF Tick, ClaimPhases
      <3>2. run[r].since \in Nat
        BY <1>0, Typed DEF Run, ClaimPhases
      <3> QED BY <1>0, <1>1, <3>1, <3>2, DelayAssumption
    <2>2. phase[r] = "read" => Stored(run[r].task)'
      BY <1>0 DEF TasksInv, RunOK, Stored
    <2> QED BY <1>0, <1>1, <1>2, <2>1, <2>2, RunsStay
  <1> QED BY <1>0, <1>2, <1>3, <1>4, AroundKeeps

(* The administration waits for the claims that have read the task.          *)
LEMMA WrittenKeeps ==
    ASSUME TasksInv, NEW t \in Tasks,
           CreateTask(t, "enabled") \/ CreateTask(t, "disabled")
             \/ \E s \in {"enabled", "disabled"}, c \in BOOLEAN, limit \in Timeouts : UpdateTask(t, s, c, limit)
    PROVE  TasksInv'
  <1>0. UNCHANGED <<now, logs, next, lock, phase, run>> /\ TypeOK /\ task[t] \in Task
    BY Typed DEF CreateTask, UpdateTask, TasksInv
  <1>1. PICK row \in Task : /\ task' = [task EXCEPT ![t] = row]
                            /\ row.status \in {"enabled", "disabled"} /\ row.ran = task[t].ran
                            /\ task[t].status # "gone"
    <2>1. CASE CreateTask(t, "enabled") \/ CreateTask(t, "disabled")
      <3>1. PICK s \in {"enabled", "disabled"} : CreateTask(t, s)
        BY <2>1
      <3> DEFINE row == [task[t] EXCEPT !.status = s]
      <3>2. task' = [task EXCEPT ![t] = row] /\ task[t].status = "new"
        BY <3>1 DEF CreateTask
      <3>3. row \in Task /\ row.status = s /\ row.ran = task[t].ran
        BY <1>0 DEF Task, Statuses
      <3> HIDE DEF row
      <3> QED BY <3>2, <3>3
    <2>2. ASSUME NEW s \in {"enabled", "disabled"}, NEW c \in BOOLEAN, NEW limit \in Timeouts,
                 UpdateTask(t, s, c, limit)
          PROVE  \E row \in Task : /\ task' = [task EXCEPT ![t] = row]
                            /\ row.status \in {"enabled", "disabled"} /\ row.ran = task[t].ran
                            /\ task[t].status # "gone"
      <3> DEFINE row == [status |-> s, concurrent |-> c, timeout |-> limit, ran |-> task[t].ran]
      <3>1. task' = [task EXCEPT ![t] = row] /\ task[t].status # "gone"
        BY <2>2 DEF UpdateTask, Stored
      <3>2. row \in Task /\ row.status = s /\ row.ran = task[t].ran
        BY <1>0 DEF Task, Statuses
      <3> HIDE DEF row
      <3> QED BY <3>1, <3>2
    <2> QED BY <2>1, <2>2
  <1>2. /\ task' \in [Tasks -> Task]
        /\ \A u \in Tasks : /\ task'[u].ran = task[u].ran
                            /\ task[u].status = "gone" => task'[u].status = "gone"
                            /\ Stored(u) => Stored(u)'
    BY <1>0, <1>1 DEF TypeOK, Stored
  <1>3. TypeOK' /\ JobsOK'
    BY <1>0, <1>2 DEF TypeOK, TasksInv, JobsOK
  <1>4. now' >= now
    BY <1>0, Typed
  <1>5. Rows' /\ Pairs' /\ Skips' /\ LastRunIsLogged'
    BY <1>0, <1>2, <1>3, <1>4, RowsSame
  <1>6. ASSUME NEW r \in Runs
        PROVE  RunOK(r)'
    <2>1. phase[r] \in ClaimPhases => now' <= run[r].since + QueueLimit
      BY <1>0 DEF TasksInv, RunOK, RequestOK
    <2>2. phase[r] = "read" => Stored(run[r].task)'
      <3>1. phase[r] = "read" => run[r].task \in Tasks /\ Stored(run[r].task)
        BY <1>0, Typed DEF TasksInv, RunOK, Run
      <3> QED BY <1>0, <1>2, <3>1 DEF Stored
    <2> QED BY <1>0, <1>2, <1>3, <1>4, <2>1, <2>2, RunsStay
  <1> QED BY <1>0, <1>3, <1>5, <1>6, AroundKeeps

LEMMA DeleteKeeps ==
    ASSUME TasksInv, NEW t \in Tasks, DeleteTask(t)
    PROVE  TasksInv'
  <1>0. /\ UNCHANGED <<now, next, lock, phase, run>> /\ TypeOK /\ Stored(t) /\ RowFree(t) /\ task[t] \in Task
        /\ \A l \in DOMAIN logs : logs[l] \in Log
        /\ logs' = [l \in DOMAIN logs |->
                      IF logs[l].task = t THEN [logs[l] EXCEPT !.task = None] ELSE logs[l]]
    BY Typed DEF DeleteTask, TasksInv
  <1>1. /\ task' \in [Tasks -> Task]
        /\ \A u \in Tasks : task'[u].ran = task[u].ran
        /\ task'[t].status = "gone" /\ \A u \in Tasks \ {t} : task'[u] = task[u]
    <2> DEFINE row == [task[t] EXCEPT !.status = "gone"]
    <2>1. row \in Task /\ row.ran = task[t].ran /\ row.status = "gone"
      BY <1>0 DEF Task, Statuses
    <2>2. task' = [task EXCEPT ![t] = row]
      BY DEF DeleteTask
    <2> HIDE DEF row
    <2> QED BY <1>0, <2>1, <2>2 DEF TypeOK
  <1>2. DOMAIN logs' = DOMAIN logs
    BY <1>0
  <1>3. ASSUME NEW l \in DOMAIN logs
        PROVE  /\ logs'[l] \in Log /\ Evolves(logs[l], logs'[l])
               /\ logs'[l].status = logs[l].status /\ logs'[l].finished = logs[l].finished
               /\ IF logs[l].task = t THEN logs'[l].task = None ELSE logs'[l].task = logs[l].task
    <2>1. CASE logs[l].task = t
      <3>1. logs'[l] = [logs[l] EXCEPT !.task = None] /\ logs[l] \in Log
        BY <1>0, <2>1
      <3> QED BY <2>1, <3>1 DEF Log, Evolves
    <2>2. CASE logs[l].task # t
      <3>1. logs'[l] = logs[l] /\ logs[l] \in Log
        BY <1>0, <2>2
      <3> QED BY <2>2, <3>1 DEF Evolves
    <2> QED BY <2>1, <2>2
  <1>4. TypeOK' /\ JobsOK'
    <2>1. DOMAIN logs' \subseteq LogId /\ \A l \in DOMAIN logs' : logs'[l] \in Log
      BY <1>0, <1>2, <1>3 DEF TypeOK
    <2> QED BY <1>0, <1>1, <1>2, <2>1 DEF TypeOK, TasksInv, JobsOK
  <1>5. now' >= now /\ now' = now
    BY <1>0, Typed
  <1>6. Rows'
    <2>1. ASSUME NEW l \in DOMAIN logs
          PROVE  RowOK(logs[l])'
      <3>1. RowOK(logs[l]) /\ logs[l].of \in Tasks
        BY <1>0 DEF TasksInv, Rows, Log
      <3>2. logs'[l].task # logs'[l].of => logs'[l].task = None /\ task'[logs'[l].of].status = "gone"
        BY <1>0, <1>1, <1>3, <3>1 DEF RowOK, Evolves
      <3>3. logs'[l].at = logs[l].at /\ logs'[l].of = logs[l].of
            /\ logs'[l].tick = logs[l].tick /\ logs'[l].trigger = logs[l].trigger
        BY <1>3 DEF Evolves
      <3> QED BY <1>3, <1>5, <3>1, <3>2, <3>3 DEF RowOK, TickOK
    <2> QED BY <1>2, <2>1 DEF Rows, RowOK, TickOK
  <1>7. Pairs' /\ Skips'
    BY <1>2, <1>3, <1>4, <1>6, RowsEvolve DEF TasksInv
  <1>8. LastRunIsLogged'
    <2> SUFFICES ASSUME NEW u \in Tasks, task'[u].ran # Never
                 PROVE  \E l \in DOMAIN logs' : /\ logs'[l].of = u
                                                /\ logs'[l].status \in {"success", "failure"}
                                                /\ logs'[l].finished = task'[u].ran
      BY DEF LastRunIsLogged, Never
    <2>1. PICK l \in DOMAIN logs : /\ logs[l].of = u
                                   /\ logs[l].status \in {"success", "failure"}
                                   /\ logs[l].finished = task[u].ran
      BY <1>1 DEF TasksInv, LastRunIsLogged
    <2> QED BY <1>1, <1>2, <1>3, <2>1 DEF Evolves
  <1>9. ASSUME NEW r \in Runs
        PROVE  RunOK(r)'
    <2>0. Rows /\ RunOK(r)
      BY DEF TasksInv
    <2>1. phase[r] \in ClaimPhases => now' <= run[r].since + QueueLimit
      BY <1>0, <2>0 DEF RunOK, RequestOK
    <2>2. phase[r] = "read" => Stored(run[r].task)'
      <3>1. phase[r] = "read" => run[r].task \in Tasks /\ Stored(run[r].task) /\ run[r].task # t
        BY <1>0, <2>0, Typed DEF RunOK, Run, RowFree
      <3> QED BY <1>0, <1>1, <3>1 DEF Stored
    <2>3. phase[r] \in ExecPhases => logs'[run[r].log].status = "running"
      <3>1. phase[r] \in ExecPhases => run[r].log \in DOMAIN logs /\ logs[run[r].log].status = "running"
        BY <1>0, <2>0 DEF TypeOK, RunOK, ExecPhases
      <3> QED BY <1>3, <3>1
    <2>4. \A u \in Tasks : task[u].status = "gone" => task'[u].status = "gone"
      BY <1>1
    <2> QED BY <1>0, <1>2, <1>3, <1>4, <1>5, <2>0, <2>1, <2>2, <2>3, <2>4, RunStays
  <1> QED BY <1>0, <1>2, <1>4, <1>6, <1>7, <1>8, <1>9, AroundKeeps

-----------------------------------------------------------------------------
(* Every step keeps the invariant.                                           *)
LEMMA StepKeepsTasks == TasksInv /\ [Next]_vars => TasksInv'
  <1> SUFFICES ASSUME TasksInv, [Next]_vars
               PROVE  TasksInv'
    OBVIOUS
  <1>1. ASSUME NEW r \in Runs, NEW w \in Workers, NEW t \in Tasks, Fire(r, w, t) \/ ManualRun(r, w, t)
        PROVE  TasksInv'
    BY <1>1, FireKeeps, ManualKeeps
  <1>2. ASSUME NEW r \in Runs, Execution(r)
        PROVE  TasksInv'
    <2>1. CASE HandlerEnds(r) \/ TimesOut(r) \/ ReadBack(r)
      BY <2>1, HandlerKeeps DEF HandlerEnds, TimesOut
    <2> QED BY <1>2, <2>1, AcquireKeeps, ReadKeeps, ClaimKeeps, SkipKeeps, LeavingKeeps, CloseKeeps DEF Execution
  <1>3. ASSUME NEW w \in Workers, Reconcile(w) \/ Unload(w) \/ Crash(w) \/ \E t \in Tasks : Dropped(w, t)
        PROVE  TasksInv'
    BY <1>3, JobsKeep, CrashKeeps
  <1>4. ASSUME NEW t \in Tasks, Administration(t)
        PROVE  TasksInv'
    BY <1>4, WrittenKeeps, DeleteKeeps DEF Administration
  <1>5. CASE UNCHANGED vars
    <2>1. UNCHANGED <<now, task, logs, next, lock, phase, run>>
      BY <1>5 DEF vars
    <2>2. TypeOK' /\ Ids' /\ JobsOK' /\ LastRunIsLogged' /\ OwnRow'
      BY <2>1 DEF TasksInv, TypeOK, Ids, Claiming, JobsOK, LastRunIsLogged, OwnRow
    <2>3. Rows' /\ Pairs' /\ Skips'
      BY <2>1 DEF TasksInv, Rows, Pairs, Skips, RowOK, TickOK, PairOK, Apart, Justifies
    <2>4. \A r \in Runs : RunOK(r)'
      BY <2>1 DEF TasksInv, RunOK, RequestOK, EntryOK, RowOK, TickOK, Apart, Justifies, Stored
    <2> QED BY <2>2, <2>3, <2>4 DEF TasksInv
  <1> QED BY <1>1, <1>2, <1>3, <1>4, <1>5, TickKeeps DEF Next

(* The invariant: what the rows of the log say of one another and of their   *)
(* tasks, what a claim has read while it holds the lock of its task, and     *)
(* which row an execution will end (executor.py, run and _claim).            *)
THEOREM TasksInvariance == Spec => []TasksInv
  <1>1. Init => TasksInv
    BY InitTasks
  <1>2. TasksInv /\ [Next]_vars => TasksInv'
    BY StepKeepsTasks
  <1> QED BY <1>1, <1>2, PTL DEF Spec

(* Of two scheduled entries of a task the later one bears a later instant,   *)
(* and one that had not come when the earlier one was made.                  *)
LEMMA LaterTick == TasksInv => OneRunPerTick
  <1> SUFFICES ASSUME TasksInv, NEW i \in DOMAIN logs, NEW j \in DOMAIN logs,
                      i < j, logs[i].of = logs[j].of,
                      logs[i].trigger = "schedule", logs[j].trigger = "schedule"
               PROVE  TicksIn(logs[i].of, logs[i].at + 1, logs[j].at) # {}
    BY DEF OneRunPerTick
  <1> PICK d : d = logs[i]
    OBVIOUS
  <1> PICK e : e = logs[j]
    OBVIOUS
  <1>1. d \in Log /\ e \in Log /\ TickOK(d) /\ TickOK(e) /\ PairOK(d, e)
    BY Typed DEF TasksInv, Rows, Pairs, RowOK
  <1>2. /\ d.at \in Nat /\ e.at \in Nat /\ d.tick \in Int /\ e.tick \in Int
        /\ d.tick \in Ticks[d.of] /\ d.tick <= d.at /\ \A k \in Ticks[d.of] : k <= d.at => k <= d.tick
        /\ e.tick \in Ticks[d.of] /\ e.tick <= e.at /\ \A k \in Ticks[d.of] : k <= e.at => k <= e.tick
        /\ d.at <= e.at /\ d.tick # e.tick
    BY <1>1 DEF Log, Never, TickOK, PairOK
  <1>3. d.tick <= e.tick
    <2>1. d.tick <= e.at
      BY <1>2
    <2> QED BY <1>2, <2>1
  <1>4. ~(e.tick <= d.at)
    <2> SUFFICES ASSUME e.tick <= d.at
                 PROVE  FALSE
      OBVIOUS
    <2>1. e.tick <= d.tick
      BY <1>2
    <2> QED BY <1>2, <1>3, <2>1
  <1>5. e.tick \in TicksIn(d.of, d.at + 1, e.at)
    BY <1>2, <1>4 DEF TicksIn
  <1> QED BY <1>5

(* However many workers fire and however long their claims wait, between two *)
(* scheduled entries of a task its expression has an instant                 *)
(* (uq_scheduled_task_logs_schedule_claim and scheduled_tick_at).            *)
THEOREM InstantsRunOnce == Spec => []OneRunPerTick
  BY TasksInvariance, LaterTick, PTL

(* allow_concurrent=False keeps executions apart, and a skip had a running   *)
(* execution within the stale window to give way to (_claim, count_running). *)
THEOREM ExclusionIsKept == Spec => []ExclusionHolds
  <1>1. TasksInv => ExclusionHolds
    <2> SUFFICES ASSUME TasksInv
                 PROVE  ExclusionHolds
      OBVIOUS
    <2>1. ExclusiveRunsAreApart
      BY DEF TasksInv, Pairs, PairOK, Apart, ExclusiveRunsAreApart
    <2>2. SkipsAreJustified
      BY DEF TasksInv, Skips, Justifies, SkipsAreJustified
    <2> QED BY <2>1, <2>2 DEF TasksInv, ExclusionHolds
  <1> QED BY <1>1, TasksInvariance, PTL

(* The last run that a task shows is one that its log shows, whatever fails  *)
(* between the two rows and whatever becomes of the task (_finish).          *)
THEOREM LastRunsAreLogged == Spec => []LastRunIsLogged
  <1>1. TasksInv => LastRunIsLogged
    BY DEF TasksInv
  <1> QED BY <1>1, TasksInvariance, PTL

-----------------------------------------------------------------------------
(* The log as a ledger.                                                      *)
View(d) == [task |-> d.of, tick |-> d.tick, status |-> d.status]
Entries == [l \in DOMAIN logs |-> View(logs[l])]

LEMMA EntriesEnter ==
    ASSUME TasksInv, TasksInv', NEW r \in Runs, Claim(r) \/ Skip(r)
    PROVE  Ledger!Next
  <1> PICK e : e = run[r].entry
    OBVIOUS
  <1> PICK n : n = Cardinality(DOMAIN logs) + 1
    OBVIOUS
  <1>0. /\ phase[r] = "read" /\ e.status \in {"running", "skipped"}
        /\ logs' = [k \in DOMAIN logs \cup {n} |-> IF k = n THEN e ELSE logs[k]]
    BY DEF Claim, Skip
  <1>1. n \notin DOMAIN logs /\ \A i \in DOMAIN logs : i < n
    BY <1>0, RoomForClaim
  <1>2. DOMAIN logs' = DOMAIN logs \cup {n} /\ logs'[n] = e /\ \A k \in DOMAIN logs : logs'[k] = logs[k]
    BY <1>0, <1>1
  <1>3. e.of \in Tasks /\ TickOK(e)
    <2>1. e \in Log /\ EntryOK(e)
      BY <1>0 DEF TasksInv, RunOK
    <2> QED BY <2>1 DEF Log, EntryOK, RowOK
  <1>4. ASSUME NEW i \in DOMAIN logs, logs[i].of = e.of, logs[i].tick = e.tick
        PROVE  e.tick = Never
    <2>1. TickOK(logs[i])
      BY DEF TasksInv, Rows, RowOK
    <2>2. PairOK(logs[i], e)
      BY <1>1, <1>2 DEF TasksInv, Pairs, PairOK, Apart, Never
    <2> QED BY <1>3, <1>4, <2>1, <2>2 DEF TickOK, PairOK
  <1>5. /\ DOMAIN Entries = DOMAIN logs /\ DOMAIN Entries' = DOMAIN logs'
        /\ \A i \in DOMAIN logs : Entries[i] = View(logs[i])
        /\ Entries'[n] = View(e)
        /\ Entries' = [j \in DOMAIN Entries \cup {n} |-> IF j = n THEN View(e) ELSE Entries[j]]
    BY <1>1, <1>2 DEF Entries, View
  <1>6. ~\E i \in DOMAIN Entries : e.tick # -1 /\ Entries[i].task = e.of /\ Entries[i].tick = e.tick
    BY <1>4, <1>5 DEF View, Never
  <1>7. n \in DOMAIN Entries' \ DOMAIN Entries /\ Entries'[n].tick = e.tick
    BY <1>1, <1>2, <1>5 DEF View
  <1>8. Ledger!Enter(n, e.of, Entries'[n].tick, e.status)
    BY <1>1, <1>5, <1>6, <1>7 DEF Ledger!Enter, Ledger!Entered, Entries, View
  <1> QED BY <1>0, <1>3, <1>7, <1>8 DEF Ledger!Next, Entries, View

LEMMA EntryEnds ==
    ASSUME TasksInv, NEW r \in Runs, Close(r)
    PROVE  Ledger!Next
  <1> PICK l : l = run[r].log
    OBVIOUS
  <1> PICK s : s = run[r].outcome
    OBVIOUS
  <1>0. /\ phase[r] = "closing" /\ l \in DOMAIN logs /\ s \in {"success", "failure"}
        /\ logs[l].status = "running"
    BY DEF Close, TasksInv, TypeOK, RunOK, ExecPhases
  <1>1. logs' = [logs EXCEPT ![l] = [logs[l] EXCEPT !.status = s, !.finished = run[r].end]]
    BY DEF Close
  <1>2. \A k \in DOMAIN logs : logs[k] \in Log
    BY Typed DEF TasksInv
  <1>3. /\ DOMAIN logs' = DOMAIN logs
        /\ logs'[l].of = logs[l].of /\ logs'[l].tick = logs[l].tick /\ logs'[l].status = s
        /\ \A k \in DOMAIN logs \ {l} : logs'[k] = logs[k]
    BY <1>0, <1>1, <1>2 DEF Log
  <1>4. Entries' = [Entries EXCEPT ![l] = [Entries[l] EXCEPT !.status = s]] /\ Entries[l].status = "running"
        /\ l \in DOMAIN Entries
    <2> PICK d : d = View(logs[l])
      OBVIOUS
    <2>1. d = Entries[l] /\ l \in DOMAIN Entries /\ d.status = "running" /\ DOMAIN Entries = DOMAIN logs
      BY <1>0 DEF Entries, View
    <2>2. Entries'[l] = [d EXCEPT !.status = s]
      BY <1>0, <1>3 DEF Entries, View
    <2>3. DOMAIN Entries' = DOMAIN Entries /\ \A k \in DOMAIN Entries \ {l} : Entries'[k] = Entries[k]
      BY <1>3 DEF Entries, View
    <2>4. Entries' = [k \in DOMAIN Entries' |-> Entries'[k]]
      BY DEF Entries
    <2>5. Entries' = [Entries EXCEPT ![l] = [d EXCEPT !.status = s]]
      BY <2>1, <2>2, <2>3, <2>4
    <2> QED BY <2>1, <2>5
  <1>5. Ledger!End(l, s)
    BY <1>4 DEF Ledger!End, Entries, View
  <1> QED BY <1>0, <1>5, <1>4 DEF Ledger!Next, Entries, View

LEMMA EntriesStay ==
    ASSUME TasksInv,
           \/ logs' = logs
           \/ \E t \in Tasks : DeleteTask(t)
    PROVE  Entries' = Entries
  <1>1. \A l \in DOMAIN logs : logs[l] \in Log
    BY Typed DEF TasksInv
  <1>2. DOMAIN logs' = DOMAIN logs /\ \A l \in DOMAIN logs : View(logs[l])' = View(logs[l])
    BY <1>1 DEF DeleteTask, View, Log
  <1> QED BY <1>2 DEF Entries, View

(* The log of the executions is a ledger: an instant of a task is entered    *)
(* once and an entry ended once, also when its task is deleted meanwhile.    *)
THEOREM LogIsALedger == Spec => ImplementsLedger
  <1>1. Init => Ledger!Init
    BY DEF Init, Ledger!Init
  <1>2. TasksInv /\ TasksInv' /\ [Next]_vars => [Ledger!Next]_(Entries)
    <2> SUFFICES ASSUME TasksInv, TasksInv', [Next]_vars
                 PROVE  Ledger!Next \/ Entries' = Entries
      OBVIOUS
    <2>1. CASE \E r \in Runs : Claim(r) \/ Skip(r)
      BY <2>1, EntriesEnter
    <2>2. CASE \E r \in Runs : Close(r)
      BY <2>2, EntryEnds
    <2>3. CASE \E t \in Tasks : DeleteTask(t)
      BY <2>3, EntriesStay
    <2>4. CASE logs' = logs
      BY <2>4, EntriesStay
    <2> QED BY <2>1, <2>2, <2>3, <2>4
          DEF Next, vars, Execution, Administration, Fire, ManualRun, Begin, Acquire, Read, Vanished, Taken,
              DatabaseFails, HandlerEnds, TimesOut, EndsWith, ReadBack, CloseStale, Reconcile, Unload,
              Crash, Dropped, CreateTask, UpdateTask, Tick
  <1>3. [Ledger!Next]_(Entries) => [Ledger!Next]_([l \in DOMAIN logs |->
                          [task |-> logs[l].of, tick |-> logs[l].tick, status |-> logs[l].status]])
    BY DEF Entries, View
  <1> QED BY <1>1, <1>2, <1>3, TasksInvariance, PTL DEF Spec, ImplementsLedger, Ledger!Spec

==============================================================================
