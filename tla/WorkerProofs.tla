---------------------------- MODULE WorkerProofs ----------------------------
(***************************************************************************)
(* What the worker processes do, each for any values of the constants.     *)
(*                                                                         *)
(* SchedulerLeader: the election of the scheduler among them, for any      *)
(* number of workers and tasks and any expressions.                        *)
(* RequestLifecycle: the writing requests they serve, for any number of    *)
(* requests, keys and bodies, whatever fails.                              *)
(***************************************************************************)
EXTENDS SchedulerLeader, RequestLifecycle, FiniteSetTheorems, WellFoundedInduction, TLAPS

-----------------------------------------------------------------------------
(* The election: at most one scheduler whose connection is sound, no lock    *)
(* without a scheduler, no lock given up while an orderly stop drains.       *)


(* A finite set of instants has a last and a first one.                      *)
LEMMA LastInstant ==
    ASSUME NEW S \in SUBSET Int, IsFiniteSet(S), S # {}
    PROVE  \E x \in S : \A y \in S : x >= y
  <1> DEFINE After(x) == {y \in S : y > x}
             T == {After(x) : x \in S}
  <1>0. \A x \in S : After(x) \in FiniteSubsetsOf(S)
    BY FS_Subset DEF FiniteSubsetsOf
  <1>1. IsWellFoundedOn(StrictSubsetOrdering(S), FiniteSubsetsOf(S))
    BY FS_StrictSubsetOrderingWellFounded
  <1>2. T \subseteq FiniteSubsetsOf(S) /\ T # {}
    BY <1>0
  <1>3. PICK m \in T : \A t \in T : ~(<<t, m>> \in StrictSubsetOrdering(S))
    <2> HIDE DEF T
    <2> QED BY <1>1, <1>2, WFMin
  <1>4. PICK x \in S : m = After(x)
    BY <1>3
  <1>5. ASSUME NEW y \in S, y > x
        PROVE  FALSE
    <2>0. y \in Int /\ x \in Int /\ \A z \in S : z \in Int
      OBVIOUS
    <2>1. After(y) \in T
      OBVIOUS
    <2>2. After(y) \subseteq After(x) /\ y \in After(x) /\ y \notin After(y)
      <3>1. \A z \in S : z > y => z > x
        BY <1>5, <2>0
      <3>2. ~(y > y)
        BY <2>0
      <3> QED BY <1>5, <3>1, <3>2, Zenon
    <2>3. <<After(y), m>> \in StrictSubsetOrdering(S)
      BY <1>0, <1>4, <2>2 DEF StrictSubsetOrdering, FiniteSubsetsOf
    <2> QED BY <1>3, <2>1, <2>3
  <1> QED BY <1>5

LEMMA FirstInstant ==
    ASSUME NEW S \in SUBSET Int, IsFiniteSet(S), S # {}
    PROVE  \E x \in S : \A y \in S : x =< y
  <1> DEFINE Before(x) == {y \in S : y < x}
             T == {Before(x) : x \in S}
  <1>0. \A x \in S : Before(x) \in FiniteSubsetsOf(S)
    BY FS_Subset DEF FiniteSubsetsOf
  <1>1. IsWellFoundedOn(StrictSubsetOrdering(S), FiniteSubsetsOf(S))
    BY FS_StrictSubsetOrderingWellFounded
  <1>2. T \subseteq FiniteSubsetsOf(S) /\ T # {}
    BY <1>0
  <1>3. PICK m \in T : \A t \in T : ~(<<t, m>> \in StrictSubsetOrdering(S))
    <2> HIDE DEF T
    <2> QED BY <1>1, <1>2, WFMin
  <1>4. PICK x \in S : m = Before(x)
    BY <1>3
  <1>5. ASSUME NEW y \in S, y < x
        PROVE  FALSE
    <2>0. y \in Int /\ x \in Int /\ \A z \in S : z \in Int
      OBVIOUS
    <2>1. Before(y) \in T
      OBVIOUS
    <2>2. Before(y) \subseteq Before(x) /\ y \in Before(x) /\ y \notin Before(y)
      <3>1. \A z \in S : z < y => z < x
        BY <1>5, <2>0
      <3>2. ~(y < y)
        BY <2>0
      <3> QED BY <1>5, <3>1, <3>2, Zenon
    <2>3. <<Before(y), m>> \in StrictSubsetOrdering(S)
      BY <1>0, <1>4, <2>2 DEF StrictSubsetOrdering, FiniteSubsetsOf
    <2> QED BY <1>3, <2>1, <2>3
  <1> QED BY <1>5

LEMMA MaxIsIn ==
    ASSUME NEW S \in SUBSET Int, IsFiniteSet(S), S # {}
    PROVE  Max(S) \in S /\ \A y \in S : Max(S) >= y
  BY LastInstant DEF Max

LEMMA MinIsIn ==
    ASSUME NEW S \in SUBSET Int, IsFiniteSet(S), S # {}
    PROVE  Min(S) \in S /\ \A y \in S : Min(S) =< y
  BY FirstInstant DEF Min

LEMMA NextInstantIn ==
    ASSUME TypeOK, NEW c \in Crons
    PROVE  NextInstant(c) \in Instants \cup {Never} /\ (NextInstant(c) # Never => NextInstant(c) \in c)
  <1> DEFINE later == {i \in c : i > now /\ i <= MaxTime}
  <1>1. now \in Nat /\ c \subseteq Nat /\ MaxTime \in Nat
    BY SchedulerAssumption DEF TypeOK, Instants
  <1>2. \A i \in later : i \in 0 .. MaxTime /\ i \in Int
    BY <1>1
  <1>3. IsFiniteSet(later) /\ later \in SUBSET Int
    <2>1. IsFiniteSet(0 .. MaxTime)
      BY <1>1, FS_Interval
    <2> HIDE DEF later
    <2> QED BY <1>2, <2>1, FS_Subset
  <1>4. CASE later = {}
    BY <1>4 DEF NextInstant
  <1>5. CASE later # {}
    <2>1. NextInstant(c) = Min(later)
      BY <1>5 DEF NextInstant
    <2>2. Min(later) \in later
      <3> HIDE DEF later
      <3> QED BY <1>3, <1>5, MinIsIn
    <2> QED BY <1>2, <2>1, <2>2 DEF Instants
  <1> QED BY <1>4, <1>5

------------------------------------------------------------------------------
(* What the lock, the connection, the flag and the scheduler of a worker say *)
(* of each other, at every await of the controller.                          *)
Sound(w) ==
    /\ conn[w] = "alive" => owner = w
    /\ leader[w] <=> conn[w] # "none"
    /\ jobs[w] # None => leader[w]
    /\ leader[w] => (jobs[w] # None <=> pc[w] # "drain")
    /\ pc[w] \in {"down", "acquire"} => ~leader[w]
    /\ pc[w] \in {"probe", "list", "apply"} => leader[w]

(* A job is due at an instant of its expression, or not at all.              *)
DueInstants ==
    \A w \in Workers, t \in Tasks :
        jobs[w] # None /\ jobs[w][t] # None /\ jobs[w][t].next # Never => jobs[w][t].next \in jobs[w][t].cron

LeaderInv == TypeOK /\ (\A w \in Workers : Sound(w)) /\ DueInstants

LEMMA InitSound == Init => LeaderInv
  BY SchedulerAssumption, NoneAssumption
     DEF Init, LeaderInv, TypeOK, Sound, DueInstants, Rows, Instants, NoJobs

LEMMA SameJobs ==
    ASSUME DueInstants, NEW w \in Workers, \A v \in Workers : jobs'[v] = jobs[v] \/ jobs'[v] \in {None, NoJobs}
    PROVE  DueInstants'
  <1> SUFFICES ASSUME NEW v \in Workers, NEW t \in Tasks, jobs'[v] # None, jobs'[v][t] # None, jobs'[v][t].next # Never
               PROVE  jobs'[v][t].next \in jobs'[v][t].cron
    BY DEF DueInstants, Never
  <1>1. jobs'[v] = jobs[v]
    BY DEF NoJobs
  <1> QED BY <1>1 DEF DueInstants

------------------------------------------------------------------------------
LEMMA StartKeeps ==
    ASSUME LeaderInv, NEW w \in Workers, Start(w)
    PROVE  LeaderInv'
  <1>1. TypeOK'
    BY SchedulerAssumption DEF LeaderInv, TypeOK, Start, Spend
  <1>2. \A v \in Workers : Sound(v)'
    BY DEF LeaderInv, TypeOK, Start, Sound
  <1> QED BY <1>1, <1>2, SameJobs DEF LeaderInv, Start

LEMMA ErrorKeeps ==
    ASSUME LeaderInv, NEW w \in Workers, pc[w] \in {"acquire", "list"}, AfterError(w)
    PROVE  LeaderInv'
  <1>1. TypeOK'
    BY SchedulerAssumption DEF LeaderInv, TypeOK, AfterError, Spend
  <1>2. \A v \in Workers : Sound(v)'
    BY DEF LeaderInv, TypeOK, AfterError, Sound
  <1>3. \A v \in Workers : jobs'[v] = jobs[v] \/ jobs'[v] \in {None, NoJobs}
    BY DEF LeaderInv, TypeOK, AfterError
  <1> QED BY <1>1, <1>2, <1>3, SameJobs DEF LeaderInv

LEMMA WakeKeeps ==
    ASSUME LeaderInv, NEW w \in Workers, Wake(w) \/ LockRefused(w)
    PROVE  LeaderInv'
  <1>1. TypeOK'
    BY DEF LeaderInv, TypeOK, Wake, LockRefused
  <1>2. \A v \in Workers : Sound(v)'
    BY DEF LeaderInv, TypeOK, Wake, LockRefused, Sound
  <1> QED BY <1>1, <1>2, SameJobs DEF LeaderInv, Wake, LockRefused

LEMMA TakeLockKeeps ==
    ASSUME LeaderInv, NEW w \in Workers, TakeLock(w)
    PROVE  LeaderInv'
  <1>0. NoJobs \in [Tasks -> Jobs \cup {None}] /\ NoJobs # None
    BY NoneAssumption DEF NoJobs
  <1>1. TypeOK'
    BY <1>0 DEF LeaderInv, TypeOK, TakeLock
  <1>2. \A v \in Workers \ {w} : conn[v] # "alive"
    BY SchedulerAssumption DEF LeaderInv, Sound, TakeLock
  <1>3. \A v \in Workers : Sound(v)'
    BY <1>0, <1>2 DEF LeaderInv, TypeOK, TakeLock, Sound
  <1>4. \A v \in Workers : jobs'[v] = jobs[v] \/ jobs'[v] \in {None, NoJobs}
    BY DEF LeaderInv, TypeOK, TakeLock
  <1> QED BY <1>1, <1>3, <1>4, SameJobs DEF LeaderInv

LEMMA DemoteKeeps ==
    ASSUME LeaderInv, NEW w \in Workers, Demote(w), budget' \in 0 .. Budget,
           UNCHANGED <<row, now, seen, booting, inflight, fired>>
    PROVE  LeaderInv'
  <1>1. TypeOK'
    BY DEF LeaderInv, TypeOK, Demote
  <1>2. \A v \in Workers : Sound(v)'
    BY SchedulerAssumption DEF LeaderInv, TypeOK, Demote, Sound
  <1>3. \A v \in Workers : jobs'[v] = jobs[v] \/ jobs'[v] \in {None, NoJobs}
    BY DEF LeaderInv, TypeOK, Demote
  <1> QED BY <1>1, <1>2, <1>3, SameJobs DEF LeaderInv

LEMMA ProbeKeeps ==
    ASSUME LeaderInv, NEW w \in Workers, Probe(w) \/ ProbeFails(w)
    PROVE  LeaderInv'
  <1>1. CASE Demote(w)
    <2>1. budget' \in 0 .. Budget
      BY SchedulerAssumption DEF LeaderInv, TypeOK, Probe, ProbeFails, Spend
    <2> QED BY <1>1, <2>1, DemoteKeeps DEF Probe, ProbeFails
  <1>2. CASE /\ pc[w] = "probe" /\ pc' = [pc EXCEPT ![w] = "list"]
             /\ UNCHANGED <<row, now, owner, conn, leader, jobs, seen, booting, inflight, fired, budget>>
    <2>1. TypeOK'
      BY <1>2 DEF LeaderInv, TypeOK
    <2>2. \A v \in Workers : Sound(v)'
      BY <1>2 DEF LeaderInv, TypeOK, Sound
    <2> QED BY <1>2, <2>1, <2>2, SameJobs DEF LeaderInv
  <1> QED BY <1>1, <1>2 DEF Probe, ProbeFails

LEMMA ListKeeps ==
    ASSUME LeaderInv, NEW w \in Workers, List(w)
    PROVE  LeaderInv'
  <1>1. TypeOK'
    BY DEF LeaderInv, TypeOK, List
  <1>2. \A v \in Workers : Sound(v)'
    BY DEF LeaderInv, TypeOK, List, Sound
  <1> QED BY <1>1, <1>2, SameJobs DEF LeaderInv, List

LEMMA ApplyKeeps ==
    ASSUME LeaderInv, NEW w \in Workers, Apply(w)
    PROVE  LeaderInv'
  <1> DEFINE new == [t \in Tasks |-> JobFor(w, t)]
  <1>0. jobs[w] # None /\ jobs[w] \in [Tasks -> Jobs \cup {None}]
    BY DEF LeaderInv, TypeOK, Sound, Apply
  <1>1. ASSUME NEW t \in Tasks
        PROVE  /\ JobFor(w, t) \in Jobs \cup {None}
               /\ JobFor(w, t) # None /\ JobFor(w, t).next # Never => JobFor(w, t).next \in JobFor(w, t).cron
    <2>1. CASE seen[w][t] \in {Off, Invalid}
      BY <1>0, <2>1 DEF JobFor, LeaderInv, DueInstants
    <2>2. CASE seen[w][t] \notin {Off, Invalid}
      <3> DEFINE c == seen[w][t]
      <3>1. c \in Crons
        BY <2>2 DEF LeaderInv, TypeOK, Rows
      <3>2. NextInstant(c) \in Instants \cup {Never} /\ (NextInstant(c) # Never => NextInstant(c) \in c)
        BY <3>1, NextInstantIn DEF LeaderInv
      <3>3. JobFor(w, t) = [cron |-> c, next |-> NextInstant(c)]
        BY <2>2 DEF JobFor
      <3> QED BY <3>1, <3>2, <3>3 DEF Jobs
    <2> QED BY <2>1, <2>2
  <1>2. new \in [Tasks -> Jobs \cup {None}] /\ new # None
    BY <1>1, NoneAssumption
  <1>3. jobs' = [jobs EXCEPT ![w] = new] /\ jobs'[w] = new /\ \A v \in Workers \ {w} : jobs'[v] = jobs[v]
    BY DEF Apply, LeaderInv, TypeOK
  <1> HIDE DEF new
  <1>4. TypeOK'
    BY <1>2, <1>3 DEF LeaderInv, TypeOK, Apply
  <1>5. \A v \in Workers : Sound(v)'
    BY <1>2, <1>3 DEF LeaderInv, TypeOK, Apply, Sound
  <1>6. DueInstants'
    <2> SUFFICES ASSUME NEW v \in Workers, NEW t \in Tasks,
                        jobs'[v] # None, jobs'[v][t] # None, jobs'[v][t].next # Never
                 PROVE  jobs'[v][t].next \in jobs'[v][t].cron
      BY DEF DueInstants, Never
    <2>1. CASE v = w
      BY <1>1, <1>3, <2>1 DEF new
    <2>2. CASE v # w
      BY <1>3, <2>2 DEF LeaderInv, DueInstants
    <2> QED BY <2>1, <2>2
  <1> QED BY <1>4, <1>5, <1>6 DEF LeaderInv

LEMMA DueKeeps ==
    ASSUME LeaderInv, NEW w \in Workers, NEW t \in Tasks, Due(w, t)
    PROVE  LeaderInv'
  <1> DEFINE job == jobs[w][t]
             passed == {i \in job.cron : i <= now}
             next == NextInstant(job.cron)
             new == [jobs[w] EXCEPT ![t] = [job EXCEPT !.next = next]]
  <1>0. jobs[w] \in [Tasks -> Jobs \cup {None}] /\ job \in Jobs /\ job.next <= now
    BY DEF LeaderInv, TypeOK, Due
  <1>1. job.cron \in Crons /\ job.cron \subseteq Nat /\ now \in Nat /\ now <= MaxTime /\ MaxTime \in Nat
    BY <1>0, SchedulerAssumption DEF Jobs, LeaderInv, TypeOK, Instants
  <1>2. next \in Instants \cup {Never} /\ (next # Never => next \in job.cron)
    BY <1>1, NextInstantIn DEF LeaderInv
  <1>3. Max(passed) \in Instants
    <2>1. job.next \in passed
      <3>1. job.next # Never
        BY <1>0, <1>1 DEF Never
      <3> QED BY <1>0, <3>1 DEF LeaderInv, DueInstants, Due
    <2>2. \A i \in passed : i \in 0 .. MaxTime /\ i \in Int
      BY <1>1
    <2>3. IsFiniteSet(0 .. MaxTime)
      BY <1>1, FS_Interval
    <2>4. IsFiniteSet(passed) /\ passed \in SUBSET Int
      <3> HIDE DEF passed
      <3> QED BY <2>2, <2>3, FS_Subset
    <2>5. Max(passed) \in passed
      <3> HIDE DEF passed
      <3> QED BY <2>1, <2>4, MaxIsIn
    <2> QED BY <2>2, <2>5 DEF Instants
  <1>4. jobs'[w] = new /\ jobs' \in [Workers -> [Tasks -> Jobs \cup {None}] \cup {None}]
        /\ \A v \in Workers \ {w} : jobs'[v] = jobs[v]
    <2>1. [job EXCEPT !.next = next] \in Jobs
      BY <1>0, <1>2 DEF Jobs
    <2>2. new \in [Tasks -> Jobs \cup {None}]
      BY <1>0, <2>1
    <2>3. jobs' = [jobs EXCEPT ![w] = new]
      BY DEF Due
    <2> HIDE DEF new
    <2> QED BY <2>2, <2>3 DEF LeaderInv, TypeOK
  <1>5. inflight' \in [Workers -> [Tasks -> Instants \cup {None}]] /\ fired' \in [Workers -> SUBSET (Tasks \X Instants)]
    <2> HIDE DEF passed
    <2>1. CASE inflight' = [inflight EXCEPT ![w][t] = Max(passed)] /\ fired' = [fired EXCEPT ![w] = @ \cup {<<t, Max(passed)>>}]
      <3>1. [inflight[w] EXCEPT ![t] = Max(passed)] \in [Tasks -> Instants \cup {None}]
        BY <1>3 DEF LeaderInv, TypeOK
      <3>2. inflight' \in [Workers -> [Tasks -> Instants \cup {None}]]
        BY <2>1, <3>1 DEF LeaderInv, TypeOK
      <3>3. fired' \in [Workers -> SUBSET (Tasks \X Instants)]
        BY <1>3, <2>1 DEF LeaderInv, TypeOK
      <3> QED BY <3>2, <3>3
    <2>2. CASE UNCHANGED <<inflight, fired>>
      BY <2>2 DEF LeaderInv, TypeOK
    <2> QED BY <2>1, <2>2 DEF Due, passed
  <1>6. new # None /\ new[t] = [job EXCEPT !.next = next] /\ \A u \in Tasks \ {t} : new[u] = jobs[w][u]
    <2>1. new \in [Tasks -> Jobs \cup {None}]
      BY <1>0, <1>2 DEF Jobs
    <2> QED BY <1>0, <2>1, NoneAssumption
  <1>7. jobs[w] # None
    BY DEF Due
  <1> HIDE DEF new
  <1>8. TypeOK'
    BY <1>4, <1>5 DEF LeaderInv, TypeOK, Due
  <1>9. \A v \in Workers : Sound(v)'
    BY <1>4, <1>6, <1>7 DEF LeaderInv, Due, Sound
  <1>10. DueInstants'
    <2> SUFFICES ASSUME NEW v \in Workers, NEW u \in Tasks,
                        jobs'[v] # None, jobs'[v][u] # None, jobs'[v][u].next # Never
                 PROVE  jobs'[v][u].next \in jobs'[v][u].cron
      BY DEF DueInstants, Never
    <2>1. CASE v = w /\ u = t
      BY <1>0, <1>2, <1>4, <1>6, <2>1 DEF Jobs
    <2>2. CASE v = w /\ u # t
      BY <1>4, <1>6, <1>7, <2>2 DEF LeaderInv, DueInstants
    <2>3. CASE v # w
      BY <1>4, <2>3 DEF LeaderInv, DueInstants
    <2> QED BY <2>1, <2>2, <2>3
  <1> QED BY <1>8, <1>9, <1>10 DEF LeaderInv

LEMMA FireEndsKeeps ==
    ASSUME LeaderInv, NEW w \in Workers, NEW t \in Tasks, FireEnds(w, t)
    PROVE  LeaderInv'
  <1>1. TypeOK'
    BY DEF LeaderInv, TypeOK, FireEnds
  <1>2. \A v \in Workers : Sound(v)'
    BY DEF LeaderInv, FireEnds, Sound
  <1> QED BY <1>1, <1>2, SameJobs DEF LeaderInv, FireEnds

LEMMA StopKeeps ==
    ASSUME LeaderInv, NEW w \in Workers, Stop(w)
    PROVE  LeaderInv'
  <1>1. TypeOK'
    BY SchedulerAssumption DEF LeaderInv, TypeOK, Stop, Spend
  <1>2. \A v \in Workers : Sound(v)'
    BY DEF LeaderInv, TypeOK, Stop, Sound
  <1>3. \A v \in Workers : jobs'[v] = jobs[v] \/ jobs'[v] \in {None, NoJobs}
    BY DEF LeaderInv, TypeOK, Stop
  <1> QED BY <1>1, <1>2, <1>3, SameJobs DEF LeaderInv

LEMMA ExitKeeps ==
    ASSUME LeaderInv, NEW w \in Workers, Exit(w), budget' \in 0 .. Budget
    PROVE  LeaderInv'
  <1>0. NoJobs \in [Tasks -> Instants \cup {None}]
    BY DEF NoJobs
  <1>1. TypeOK'
    BY <1>0 DEF LeaderInv, TypeOK, Exit
  <1>2. \A v \in Workers : Sound(v)'
    BY SchedulerAssumption DEF LeaderInv, TypeOK, Exit, Sound
  <1>3. \A v \in Workers : jobs'[v] = jobs[v] \/ jobs'[v] \in {None, NoJobs}
    BY DEF LeaderInv, TypeOK, Exit
  <1> QED BY <1>1, <1>2, <1>3, SameJobs DEF LeaderInv

LEMMA ConnectionKeeps ==
    ASSUME LeaderInv, NEW w \in Workers, Lose(w) \/ Reap(w)
    PROVE  LeaderInv'
  <1>1. TypeOK'
    <2>1. owner' \in Workers \cup {None}
      BY DEF LeaderInv, TypeOK, Lose, Reap
    <2>2. conn' \in [Workers -> {"none", "alive", "lost"}]
      BY DEF LeaderInv, TypeOK, Lose, Reap
    <2>3. budget' \in 0 .. Budget
      BY SchedulerAssumption DEF LeaderInv, TypeOK, Lose, Reap, Spend
    <2>4. UNCHANGED <<row, now, leader, jobs, seen, pc, booting, inflight, fired>>
      BY DEF Lose, Reap
    <2> QED BY <2>1, <2>2, <2>3, <2>4 DEF LeaderInv, TypeOK
  <1>2. \A v \in Workers : Sound(v)'
    BY SchedulerAssumption DEF LeaderInv, TypeOK, Lose, Reap, Sound
  <1> QED BY <1>1, <1>2, SameJobs DEF LeaderInv, Lose, Reap

LEMMA OutsideKeeps ==
    ASSUME LeaderInv, Tick \/ \E t \in Tasks : Edit(t)
    PROVE  LeaderInv'
  <1>1. TypeOK'
    BY SchedulerAssumption DEF LeaderInv, TypeOK, Tick, Edit, Spend, Instants
  <1>2. \A v \in Workers : Sound(v)'
    BY DEF LeaderInv, Tick, Edit, Sound
  <1>3. DueInstants'
    BY DEF LeaderInv, DueInstants, Never, Tick, Edit
  <1> QED BY <1>1, <1>2, <1>3 DEF LeaderInv

LEMMA StepKeeps == LeaderInv /\ [Next]_vars => LeaderInv'
  <1> SUFFICES ASSUME LeaderInv, [Next]_vars
               PROVE  LeaderInv'
    OBVIOUS
  <1>1. CASE UNCHANGED vars
    BY <1>1 DEF vars, LeaderInv, TypeOK, Sound, DueInstants, Never
  <1>2. ASSUME NEW w \in Workers, Start(w) \/ Stop(w)
        PROVE  LeaderInv'
    BY <1>2, StartKeeps, StopKeeps
  <1>3. ASSUME NEW w \in Workers, Loop(w)
        PROVE  LeaderInv'
    BY <1>3, WakeKeeps, TakeLockKeeps, ProbeKeeps, ListKeeps, ApplyKeeps DEF Loop
  <1>4. ASSUME NEW w \in Workers, AcquireFails(w) \/ ListFails(w) \/ ProbeFails(w) \/ Lose(w) \/ Reap(w)
        PROVE  LeaderInv'
    BY <1>4, ErrorKeeps, ProbeKeeps, ConnectionKeeps DEF AcquireFails, ListFails
  <1>5. ASSUME NEW w \in Workers, Drained(w) \/ Crash(w)
        PROVE  LeaderInv'
    <2>1. Exit(w) /\ budget' \in 0 .. Budget
      BY <1>5, SchedulerAssumption DEF Drained, Crash, Spend, LeaderInv, TypeOK
    <2> QED BY <2>1, ExitKeeps
  <1>6. ASSUME NEW w \in Workers, NEW t \in Tasks, Due(w, t) \/ FireEnds(w, t)
        PROVE  LeaderInv'
    BY <1>6, DueKeeps, FireEndsKeeps
  <1>7. CASE Tick \/ \E t \in Tasks : Edit(t)
    BY <1>7, OutsideKeeps
  <1> QED BY <1>1, <1>2, <1>3, <1>4, <1>5, <1>6, <1>7 DEF Next, Fault

(* What the lock, the connection, the flag and the scheduler of each worker  *)
(* say of each other holds at every await (scheduler.py:97-232).             *)
THEOREM LeaderInvariance == Spec => []LeaderInv
  BY InitSound, StepKeeps, PTL DEF Spec

LEMMA InvGivesLeadership == LeaderInv => Leadership
  <1> SUFFICES ASSUME LeaderInv
               PROVE  Leadership
    OBVIOUS
  <1>1. OneSchedulerUnlessLost
    BY DEF LeaderInv, TypeOK, Sound, OneSchedulerUnlessLost
  <1>2. NoIdleOwner
    BY DEF LeaderInv, Sound, NoIdleOwner
  <1>3. DrainBeforeRelease
    BY DEF LeaderInv, Sound, DrainBeforeRelease, StillLeader
  <1> QED BY <1>1, <1>2, <1>3 DEF LeaderInv, Leadership

(* For any number of workers, tasks and faults: two schedulers run side by   *)
(* side only while one of them has lost its connection, whoever holds the    *)
(* lock schedules or drains, and a drain keeps the lock (scheduler.py:119,   *)
(* :127, :210).                                                              *)
THEOREM LeadershipHolds == Spec => []Leadership
  BY LeaderInvariance, InvGivesLeadership, PTL

------------------------------------------------------------------------------
(* Every job is due later than all that its process has fired of the task,   *)
(* and what it has fired is past, for the jobs that are replaced from the    *)
(* clock.                                                                    *)
FiredPast ==
    \A w \in Workers, t \in Tasks, i \in Instants :
        <<t, i>> \in fired[w]
            => i <= now /\ (jobs[w] # None /\ jobs[w][t] # None => i < jobs[w][t].next)

FiringInv == LeaderInv /\ FiredPast

LEMMA NextInstantLater ==
    ASSUME TypeOK, NEW c \in Crons
    PROVE  NextInstant(c) > now
  <1> DEFINE later == {i \in c : i > now /\ i <= MaxTime}
  <1>1. now \in Nat /\ c \subseteq Nat /\ MaxTime \in Nat /\ now <= MaxTime
    BY SchedulerAssumption DEF TypeOK, Instants
  <1>2. CASE later = {}
    BY <1>1, <1>2 DEF NextInstant, Never
  <1>3. CASE later # {}
    <2>1. \A i \in later : i \in 0 .. MaxTime /\ i \in Int
      BY <1>1
    <2>2. IsFiniteSet(0 .. MaxTime)
      BY <1>1, FS_Interval
    <2>3. Min(later) \in later
      <3> HIDE DEF later
      <3>1. IsFiniteSet(later) /\ later \in SUBSET Int
        BY <2>1, <2>2, FS_Subset
      <3> QED BY <1>3, <3>1, MinIsIn
    <2> QED BY <1>3, <2>3 DEF NextInstant
  <1> QED BY <1>2, <1>3

(* The last instant that has passed is no earlier than the one a due job     *)
(* was waiting for.                                                          *)
LEMMA LastPassed ==
    ASSUME LeaderInv, NEW w \in Workers, NEW t \in Tasks, Due(w, t)
    PROVE  LET last == Max({i \in jobs[w][t].cron : i <= now})
           IN  last \in Instants /\ last <= now /\ jobs[w][t].next <= last
  <1> DEFINE job == jobs[w][t]
             passed == {i \in job.cron : i <= now}
  <1>0. job \in Jobs /\ job.next <= now
    BY DEF LeaderInv, TypeOK, Due
  <1>1. job.cron \subseteq Nat /\ now \in Nat /\ now <= MaxTime /\ MaxTime \in Nat
    BY <1>0, SchedulerAssumption DEF Jobs, LeaderInv, TypeOK, Instants
  <1>2. job.next \in passed
    <2>1. job.next # Never
      BY <1>0, <1>1 DEF Never
    <2> QED BY <1>0, <2>1 DEF LeaderInv, DueInstants, Due
  <1>3. \A i \in passed : i \in 0 .. MaxTime /\ i \in Int /\ i <= now
    BY <1>1
  <1>4. IsFiniteSet(0 .. MaxTime)
    BY <1>1, FS_Interval
  <1>5. Max(passed) \in passed /\ Max(passed) >= job.next
    <2> HIDE DEF passed, job
    <2>1. IsFiniteSet(passed) /\ passed \in SUBSET Int
      BY <1>3, <1>4, FS_Subset
    <2> QED BY <1>2, <2>1, MaxIsIn
  <1>6. Max(passed) \in Int /\ job.next \in Int
    BY <1>2, <1>3, <1>5
  <1> QED BY <1>3, <1>5, <1>6 DEF Instants

LEMMA InitFiredPast == Init => FiredPast
  BY DEF Init, FiredPast

(* Nothing new is fired, and no job has come nearer.                         *)
LEMMA NothingFired ==
    ASSUME FiredPast, TypeOK, TypeOK',
           \A w \in Workers : fired'[w] \subseteq fired[w],
           \A w \in Workers, t \in Tasks :
               jobs'[w] # None /\ jobs'[w][t] # None
                   => \/ jobs[w] # None /\ jobs'[w][t] = jobs[w][t]
                      \/ jobs'[w][t].next > now,
           now' >= now
    PROVE  FiredPast'
  <1> SUFFICES ASSUME NEW w \in Workers, NEW t \in Tasks, NEW i \in Instants, <<t, i>> \in fired'[w]
               PROVE  i <= now' /\ (jobs'[w] # None /\ jobs'[w][t] # None => i < jobs'[w][t].next)
    BY DEF FiredPast, Instants
  <1>0. now \in Int /\ now' \in Int /\ i \in Int
    BY SchedulerAssumption DEF TypeOK, Instants
  <1>1. <<t, i>> \in fired[w]
    OBVIOUS
  <1>2. i <= now
    BY <1>1 DEF FiredPast
  <1>3. i <= now'
    BY <1>0, <1>2
  <1>4. ASSUME jobs'[w] # None, jobs'[w][t] # None
        PROVE  i < jobs'[w][t].next
    <2>1. CASE jobs[w] # None /\ jobs'[w][t] = jobs[w][t]
      BY <1>1, <1>4, <2>1 DEF FiredPast
    <2>2. CASE jobs'[w][t].next > now
      <3>1. jobs'[w] \in [Tasks -> Jobs \cup {None}]
        BY <1>4 DEF TypeOK
      <3>2. jobs'[w][t] \in Jobs
        BY <1>4, <3>1
      <3>3. jobs'[w][t].next \in Int
        BY <3>2, SchedulerAssumption DEF Jobs, Instants, Never
      <3> QED BY <1>0, <1>2, <2>2, <3>3
    <2> QED BY <1>4, <2>1, <2>2
  <1> QED BY <1>3, <1>4

LEMMA TimePasses ==
    ASSUME FiredPast, TypeOK, TypeOK', jobs' = jobs, fired' = fired, now' >= now
    PROVE  FiredPast'
  <1>1. \A w \in Workers : fired'[w] \subseteq fired[w]
    OBVIOUS
  <1>2. \A w \in Workers, t \in Tasks :
            jobs'[w] # None /\ jobs'[w][t] # None => jobs[w] # None /\ jobs'[w][t] = jobs[w][t]
    OBVIOUS
  <1> QED BY <1>1, <1>2, NothingFired

LEMMA ApplyKeepsFiredPast ==
    ASSUME FiringInv, LeaderInv', NEW w \in Workers, Apply(w)
    PROVE  FiredPast'
  <1>0. jobs[w] # None
    BY DEF FiringInv, LeaderInv, TypeOK, Sound, Apply
  <1>1. jobs' = [jobs EXCEPT ![w] = [t \in Tasks |-> JobFor(w, t)]]
    BY DEF Apply
  <1>2. ASSUME NEW v \in Workers, NEW t \in Tasks, jobs'[v] # None, jobs'[v][t] # None
        PROVE  (jobs[v] # None /\ jobs'[v][t] = jobs[v][t]) \/ jobs'[v][t].next > now
    <2>1. CASE v # w
      BY <1>1, <1>2, <2>1 DEF FiringInv, LeaderInv, TypeOK
    <2>2. CASE v = w
      <3>1. jobs'[v][t] = JobFor(w, t)
        BY <1>1, <2>2 DEF FiringInv, LeaderInv, TypeOK
      <3>2. CASE seen[w][t] \in {Off, Invalid}
        BY <1>0, <1>2, <2>2, <3>1, <3>2 DEF JobFor
      <3>3. CASE seen[w][t] \notin {Off, Invalid}
        <4>1. seen[w][t] \in Crons
          BY <3>3 DEF FiringInv, LeaderInv, TypeOK, Rows
        <4>2. JobFor(w, t) = [cron |-> seen[w][t], next |-> NextInstant(seen[w][t])]
          BY <3>3 DEF JobFor
        <4> QED BY <3>1, <4>1, <4>2, NextInstantLater DEF FiringInv, LeaderInv
      <3> QED BY <3>2, <3>3
    <2> QED BY <2>1, <2>2
  <1>3. now' >= now
    BY DEF Apply, FiringInv, LeaderInv, TypeOK, Instants
  <1> QED BY <1>2, <1>3, NothingFired DEF FiringInv, LeaderInv, Apply

LEMMA DueKeepsFiredPast ==
    ASSUME FiringInv, LeaderInv', NEW w \in Workers, NEW t \in Tasks, Due(w, t)
    PROVE  FiredPast'
  <1> DEFINE last == Max({i \in jobs[w][t].cron : i <= now})
             job == jobs[w][t]
  <1>1. last \in Instants /\ last <= now /\ job.next <= last
    BY LastPassed DEF FiringInv
  <1>2. jobs[w] \in [Tasks -> Jobs \cup {None}] /\ job \in Jobs /\ jobs[w] # None
    BY DEF FiringInv, LeaderInv, TypeOK, Due
  <1>3. job.cron \in Crons /\ job.next \in Int
    BY <1>2, SchedulerAssumption DEF Jobs, Instants, Never
  <1>4. NextInstant(job.cron) > now /\ NextInstant(job.cron) \in Int
    BY <1>3, NextInstantLater, NextInstantIn, SchedulerAssumption DEF FiringInv, LeaderInv, Instants, Never
  <1>5. jobs' = [jobs EXCEPT ![w] = [jobs[w] EXCEPT ![t] = [job EXCEPT !.next = NextInstant(job.cron)]]]
    BY DEF Due
  <1>6. /\ \A v \in Workers \ {w} : jobs'[v] = jobs[v] /\ fired'[v] = fired[v]
        /\ \A u \in Tasks \ {t} : jobs'[w][u] = jobs[w][u]
        /\ jobs'[w][t].next = NextInstant(job.cron)
        /\ fired'[w] \subseteq fired[w] \cup {<<t, last>>}
    <2> HIDE DEF last
    <2>1. \A v \in Workers \ {w} : jobs'[v] = jobs[v]
      BY <1>5 DEF FiringInv, LeaderInv, TypeOK
    <2>2. jobs'[w] = [jobs[w] EXCEPT ![t] = [job EXCEPT !.next = NextInstant(job.cron)]]
      BY <1>5 DEF FiringInv, LeaderInv, TypeOK
    <2>3. jobs'[w][t].next = NextInstant(job.cron) /\ \A u \in Tasks \ {t} : jobs'[w][u] = jobs[w][u]
      BY <1>2, <2>2 DEF Jobs
    <2>4. fired' = [fired EXCEPT ![w] = @ \cup {<<t, last>>}] \/ fired' = fired
      BY DEF Due, last
    <2>5. fired'[w] \subseteq fired[w] \cup {<<t, last>>} /\ \A v \in Workers \ {w} : fired'[v] = fired[v]
      BY <2>4 DEF FiringInv, LeaderInv, TypeOK
    <2> QED BY <2>1, <2>3, <2>5
  <1> HIDE DEF last
  <1> SUFFICES ASSUME NEW v \in Workers, NEW u \in Tasks, NEW i \in Instants, <<u, i>> \in fired'[v]
               PROVE  i <= now' /\ (jobs'[v] # None /\ jobs'[v][u] # None => i < jobs'[v][u].next)
    BY DEF FiredPast, Instants
  <1>7. now' = now /\ now \in Int /\ i \in Int /\ last \in Int
    BY <1>1, SchedulerAssumption DEF Due, FiringInv, LeaderInv, TypeOK, Instants
  <1>8. CASE v = w /\ u = t
    <2>1. i <= now
      <3>1. <<t, i>> \in fired[w] \/ i = last
        BY <1>6, <1>8
      <3> QED BY <1>1, <3>1 DEF FiringInv, FiredPast
    <2> QED BY <1>4, <1>6, <1>7, <1>8, <2>1
  <1>9. CASE v # w \/ u # t
    <2>1. <<u, i>> \in fired[v]
      BY <1>6, <1>9
    <2>2. jobs'[v] # None /\ jobs'[v][u] # None => jobs[v] # None /\ jobs'[v][u] = jobs[v][u]
      BY <1>2, <1>6, <1>9
    <2> QED BY <1>7, <2>1, <2>2 DEF FiringInv, FiredPast
  <1> QED BY <1>8, <1>9

LEMMA StepKeepsFiring == FiringInv /\ [Next]_vars => FiringInv'
  <1> SUFFICES ASSUME FiringInv, [Next]_vars
               PROVE  FiredPast'
    BY StepKeeps DEF FiringInv
  <1>0. LeaderInv'
    BY StepKeeps DEF FiringInv
  <1>1. now \in Int /\ TypeOK /\ TypeOK' /\ FiredPast
    BY <1>0 DEF FiringInv, LeaderInv, TypeOK, Instants
  <1>2. CASE UNCHANGED vars
    <2>1. UNCHANGED <<jobs, fired, now>>
      BY <1>2 DEF vars
    <2>2. now' >= now
      BY <1>1, <2>1
    <2> QED BY <1>1, <2>1, <2>2, TimePasses
  <1>3. ASSUME NEW w \in Workers, Start(w)
        PROVE  FiredPast'
    <2>1. \A v \in Workers : fired'[v] \subseteq fired[v]
      BY <1>1, <1>3 DEF Start, TypeOK
    <2> QED BY <1>1, <1>3, <2>1, NothingFired DEF Start
  <1>4. ASSUME NEW w \in Workers,
               Wake(w) \/ LockRefused(w) \/ List(w) \/ Lose(w) \/ Reap(w)
        PROVE  FiredPast'
    <2>1. UNCHANGED <<jobs, fired, now>>
      BY <1>4 DEF Wake, LockRefused, List, Lose, Reap
    <2> QED BY <1>1, <2>1, NothingFired
  <1>5. ASSUME NEW w \in Workers,
               \/ TakeLock(w) \/ Probe(w) \/ ProbeFails(w) \/ AcquireFails(w) \/ ListFails(w)
               \/ Stop(w) \/ Drained(w) \/ Crash(w)
        PROVE  FiredPast'
    <2>1. UNCHANGED <<fired, now>>
      BY <1>5 DEF TakeLock, Probe, ProbeFails, AcquireFails, ListFails, AfterError, Stop, Drained, Crash, Exit
    <2>2. \A v \in Workers : jobs'[v] = jobs[v] \/ jobs'[v] \in {None, NoJobs}
      BY <1>1, <1>5 DEF TakeLock, Probe, ProbeFails, AcquireFails, ListFails, AfterError, Stop,
                        Drained, Crash, Exit, Demote, TypeOK
    <2>3. \A v \in Workers, t \in Tasks :
              jobs'[v] # None /\ jobs'[v][t] # None => jobs[v] # None /\ jobs'[v][t] = jobs[v][t]
      BY <2>2 DEF NoJobs
    <2> QED BY <1>1, <2>1, <2>3, NothingFired
  <1>6. ASSUME NEW w \in Workers, NEW t \in Tasks, FireEnds(w, t)
        PROVE  FiredPast'
    BY <1>1, <1>6, NothingFired DEF FireEnds
  <1>7. CASE Tick \/ \E t \in Tasks : Edit(t)
    <2>1. UNCHANGED <<jobs, fired>>
      BY <1>7 DEF Tick, Edit
    <2>2. now' >= now
      BY <1>1, <1>7 DEF Tick, Edit
    <2> QED BY <1>1, <2>1, <2>2, TimePasses
  <1>8. ASSUME NEW w \in Workers, Apply(w) \/ \E t \in Tasks : Due(w, t)
        PROVE  FiredPast'
    BY <1>0, <1>8, ApplyKeepsFiredPast, DueKeepsFiredPast
  <1> QED
    <2>1. ASSUME NEW w \in Workers, Loop(w) \/ Fault(w) \/ Reap(w)
          PROVE  FiredPast'
      BY <2>1, <1>4, <1>5, <1>8 DEF Loop, Fault
    <2>2. ASSUME NEW w \in Workers, Start(w) \/ Stop(w) \/ Drained(w)
          PROVE  FiredPast'
      BY <2>2, <1>3, <1>5
    <2>3. ASSUME NEW w \in Workers, NEW t \in Tasks, Due(w, t) \/ FireEnds(w, t)
          PROVE  FiredPast'
      BY <2>3, <1>6, <1>8
    <2> QED BY <1>2, <1>7, <2>1, <2>2, <2>3 DEF Next

(* A step that starts an execution is Due, and its instant is later than     *)
(* every one this process has fired of the task.                             *)
LEMMA StepFiresNew ==
    ASSUME FiringInv, [Next]_vars, NEW w \in Workers, NEW t \in Tasks,
           inflight'[w][t] # None, inflight'[w][t] # inflight[w][t]
    PROVE  <<t, inflight'[w][t]>> \notin fired[w]
  <1>1. inflight \in [Workers -> [Tasks -> Instants \cup {None}]] /\ NoJobs[t] = None
    BY DEF FiringInv, LeaderInv, TypeOK, NoJobs
  <1>2. PICK v \in Workers, u \in Tasks : Due(v, u)
    <2>1. ASSUME NEW v \in Workers, Drained(v) \/ Crash(v)
          PROVE  FALSE
      BY <1>1, <2>1 DEF Drained, Crash, Exit
    <2>2. ASSUME NEW v \in Workers, NEW u \in Tasks, FireEnds(v, u)
          PROVE  FALSE
      BY <1>1, <2>2 DEF FireEnds
    <2>3. ASSUME NEW v \in Workers, Start(v) \/ Stop(v) \/ Loop(v) \/ Reap(v) \/ Lose(v)
                                      \/ AcquireFails(v) \/ ProbeFails(v) \/ ListFails(v)
          PROVE  FALSE
      BY <2>3 DEF Start, Stop, Loop, Wake, TakeLock, LockRefused, Probe, List, Apply, Reap, Lose,
                  AcquireFails, ProbeFails, ListFails, AfterError
    <2>4. ~(UNCHANGED vars) /\ ~Tick /\ \A u \in Tasks : ~Edit(u)
      BY DEF vars, Tick, Edit
    <2> QED BY <2>1, <2>2, <2>3, <2>4 DEF Next, Fault
  <1> DEFINE last == Max({i \in jobs[v][u].cron : i <= now})
  <1>3. last \in Instants /\ jobs[v][u].next <= last
    BY <1>2, LastPassed DEF FiringInv
  <1>4. v = w /\ u = t /\ inflight'[w][t] = last
    <2>1. inflight' = [inflight EXCEPT ![v][u] = last] \/ inflight' = inflight
      BY <1>2 DEF Due, last
    <2> HIDE DEF last
    <2> QED BY <1>1, <2>1
  <1> HIDE DEF last
  <1>5. jobs[w] # None /\ jobs[w][t] # None
    BY <1>2, <1>4 DEF Due
  <1>6. jobs[w][t].next \in Int /\ last \in Int
    <2>1. jobs[w][t] \in Jobs
      BY <1>5 DEF FiringInv, LeaderInv, TypeOK
    <2> QED BY <1>3, <2>1, SchedulerAssumption DEF Jobs, Instants, Never
  <1>7. ASSUME <<t, last>> \in fired[w]
        PROVE  FALSE
    <2>1. last < jobs[w][t].next
      BY <1>3, <1>5, <1>7 DEF FiringInv, FiredPast
    <2> QED BY <1>3, <1>4, <1>6, <2>1
  <1> QED BY <1>4, <1>7

(* A process never fires an instant of a task again, for any expressions and *)
(* however often its jobs are replaced and its lock is lost and taken again  *)
(* (scheduler.py:183).                                                       *)
THEOREM InstantsFireOnce == Spec => NoInstantTwice
  <1>1. Init => FiringInv
    BY InitSound, InitFiredPast DEF FiringInv
  <1>2. FiringInv /\ [Next]_vars
            => [\A w \in Workers, t \in Tasks :
                   inflight'[w][t] # None /\ inflight'[w][t] # inflight[w][t]
                       => <<t, inflight'[w][t]>> \notin fired[w]]_vars
    BY StepFiresNew
  <1> QED BY <1>1, <1>2, StepKeepsFiring, PTL DEF Spec, NoInstantTwice


-----------------------------------------------------------------------------
(* The requests: the inductive invariant of RequestLifecycle.                *)

\* Where an execution is whose response was sent.
Answered == {"responded", "ready", "committed", "undone", "dead"}

\* Before the handler is called nothing has happened; who lost the SET NX has
\* a key.
Front ==
    \A p \in Requests :
        /\ mw[p] = "new" => answer[p] = Absent
        /\ mw[p] \in {"new", "refused"} => app[p] = "idle"
        /\ mw[p] = "refused" => asked[p] \in Create /\ asked[p].key \in Keys

\* A stored answer was sent, by an execution of what is stored with it.
StoreOK ==
    \A k \in Keys :
        store[k] # Absent /\ store[k].state = "completed" =>
            LET q == store[k].by
            IN  /\ q \in Requests /\ app[q] \in Answered
                /\ asked[q] \in Create
                /\ asked[q].key = k /\ asked[q].body = store[k].body

\* AnswersMatch, and that the execution cannot fail any more.
AnswersOK ==
    \A p, q \in Requests : answer[p] = q => asked[q] = asked[p] /\ app[q] \in Answered

\* Content on disk is that of an upload past its write, and an upload keeps it
\* until it is committed.
Contents ==
    /\ \A f \in blobs : Asks(f, "upload") /\ app[f] \notin {"idle", "running", "failed"}
    /\ \A f \in Requests : Asks(f, "upload") /\ app[f] \in {"flushing", "ready"} => f \in blobs

\* A row was committed by its upload; who removes it has read it, and has
\* deleted its content before it may commit.
Listed ==
    \A f \in Requests : files[f] # "none" => Asks(f, "upload") /\ app[f] = "committed"
Removals ==
    \A p \in Requests :
        /\ app[p] = "responded" => Asks(p, "remove")
        /\ Asks(p, "remove") /\ app[p] \in {"flushing", "responded", "ready"} =>
              files[asked[p].file] # "none"
        /\ Asks(p, "remove") /\ app[p] = "ready" => asked[p].file \notin blobs

Answers == Front /\ StoreOK /\ AnswersOK
Disk == Contents /\ Listed /\ Removals /\ LossNeedsRollback /\ OrphansNeedFailure
LifecycleInv == LifecycleTypeOK /\ Answers /\ Disk

-----------------------------------------------------------------------------
LEMMA LifecycleBegins == LifecycleInit => LifecycleInv
  <1> SUFFICES ASSUME LifecycleInit PROVE LifecycleInv  OBVIOUS
  <1>1. LifecycleTypeOK
    BY DEF LifecycleInit, LifecycleTypeOK
  <1>2. Answers
    BY NamesAssumption DEF LifecycleInit, Answers, Front, StoreOK, AnswersOK
  <1>3. Disk
    BY DEF LifecycleInit, Disk, Contents, Listed, Removals, LossNeedsRollback, OrphansNeedFailure,
           Asks, Removes
  <1> QED  BY <1>1, <1>2, <1>3 DEF LifecycleInv

\* What p asks for is a record of one of three kinds.
LEMMA Kinds ==
  ASSUME LifecycleTypeOK, NEW p \in Requests
  PROVE  /\ Asks(p, "create") => asked[p] \in Create
         /\ Asks(p, "remove") => asked[p].file \in Requests
         /\ ~(Asks(p, "create") /\ Asks(p, "upload"))
         /\ ~(Asks(p, "create") /\ Asks(p, "remove"))
         /\ ~(Asks(p, "upload") /\ Asks(p, "remove"))
  BY DEF LifecycleTypeOK, Asks, Create, Upload, Remove

-----------------------------------------------------------------------------
(* Types.                                                                  *)

\* What a step stores under a key is an entry.
LEMMA EntriesFit ==
  ASSUME LifecycleTypeOK, NEW p \in Requests
  PROVE  /\ \A b \in Bodies : InFlight(p, b) \in Entry
         /\ Keyed(p) => asked[p].key \in Keys /\ Completed(p) \in Entry
  BY Kinds DEF InFlight, Completed, Keyed, Entry, Create

LEMMA SendTypes ==
  ASSUME LifecycleTypeOK, NEW p \in Requests, Send(p)
  PROVE  LifecycleTypeOK'
  <1>1. PICK r \in Create \cup Upload \cup Remove : PassThrough(p, r) \/ Claim(p, r)
    BY DEF Send
  <1>2. CASE PassThrough(p, r)
    BY <1>2 DEF LifecycleTypeOK, PassThrough, CallNext
  <1>3. CASE Claim(p, r)
    <2>1. r.key \in Keys /\ r.body \in Bodies
      BY <1>3 DEF Claim, Create, Upload, Remove
    <2>2. store' = store \/ store' = [store EXCEPT ![r.key] = InFlight(p, r.body)]
      BY <1>3 DEF Claim, Lock
    <2>3. store' \in [Keys -> Entry \cup {Absent}]
      BY <2>1, <2>2, EntriesFit DEF LifecycleTypeOK
    <2>4. /\ asked' \in [Requests -> Create \cup Upload \cup Remove \cup {Absent}]
          /\ mw' \in [Requests -> {"new", "refused", "waiting", "done", "dead"}]
          /\ app' \in [Requests -> {"idle", "running", "flushing", "responded", "ready",
                                    "committed", "failed", "undone", "dead"}]
      BY <1>3 DEF LifecycleTypeOK, Claim, CallNext
    <2> QED  BY <1>3, <2>3, <2>4 DEF LifecycleTypeOK, Claim
  <1> QED  BY <1>1, <1>2, <1>3

LEMMA HandlerTypes ==
  ASSUME LifecycleTypeOK, NEW p \in Requests,
         \/ WriteContent(p) \/ FindFile(p) \/ Flush(p) \/ Fail(p) \/ Background(p)
         \/ Commit(p) \/ CommitFails(p) \/ Die(p)
  PROVE  LifecycleTypeOK'
  <1>1. CASE WriteContent(p) \/ FindFile(p) \/ Flush(p) \/ CommitFails(p)
    BY <1>1 DEF LifecycleTypeOK, WriteContent, FindFile, Flush, CommitFails
  <1>2. CASE Fail(p) \/ Background(p)
    BY <1>2 DEF LifecycleTypeOK, Fail, CleanedUp, Background
  <1>3. CASE Commit(p)
    BY <1>3 DEF LifecycleTypeOK, Commit
  <1>4. CASE Die(p)
    BY <1>4 DEF LifecycleTypeOK, Die
  <1> QED  BY <1>1, <1>2, <1>3, <1>4

LEMMA MiddlewareTypes ==
  ASSUME LifecycleTypeOK, Answers,
         \/ \E p \in Requests : Resolve(p) \/ CacheAndReturn(p) \/ ReturnError(p)
         \/ \E k \in Keys : Expire(k)
  PROVE  LifecycleTypeOK'
  <1>1. ASSUME NEW p \in Requests, Resolve(p) PROVE LifecycleTypeOK'
    <2> DEFINE e == store[asked[p].key]
    <2>1. e \in Entry \cup {Absent}
      BY <1>1 DEF LifecycleTypeOK, Answers, Front, Resolve
    <2>2. e # Absent => e.by \in Requests
      BY <2>1 DEF Entry
    <2>3. \/ CallNext(p) /\ UNCHANGED answer
          \/ e # Absent /\ Answer(p, e.by) /\ UNCHANGED app
          \/ Answer(p, "error") /\ UNCHANGED app
      BY <1>1 DEF Resolve
    <2> HIDE DEF e
    <2>4. UNCHANGED <<asked, store, files, blobs>>
      BY <1>1 DEF Resolve
    <2> QED  BY <2>2, <2>3, <2>4 DEF LifecycleTypeOK, CallNext, Answer
  <1>2. ASSUME NEW p \in Requests, CacheAndReturn(p) PROVE LifecycleTypeOK'
    <2>1. store' \in [Keys -> Entry \cup {Absent}]
      BY <1>2, EntriesFit DEF LifecycleTypeOK, CacheAndReturn
    <2> QED  BY <1>2, <2>1 DEF LifecycleTypeOK, CacheAndReturn, Answer
  <1>3. ASSUME NEW p \in Requests, ReturnError(p) PROVE LifecycleTypeOK'
    BY <1>3 DEF LifecycleTypeOK, ReturnError, Answer
  <1>4. ASSUME NEW k \in Keys, Expire(k) PROVE LifecycleTypeOK'
    BY <1>4 DEF LifecycleTypeOK, Expire
  <1> QED  BY <1>1, <1>2, <1>3, <1>4

-----------------------------------------------------------------------------
(* Answers.                                                                *)

\* The application's half goes on, and no request that waits is asked anew.
LEMMA HandlerKeepsAnswers ==
  ASSUME LifecycleTypeOK, Answers, NEW p \in Requests,
         \/ WriteContent(p) \/ FindFile(p) \/ Flush(p) \/ Fail(p) \/ Background(p)
         \/ Commit(p) \/ CommitFails(p) \/ Die(p)
  PROVE  Answers'
  <1>1. UNCHANGED <<asked, store, answer>>
    BY DEF WriteContent, FindFile, Flush, Fail, Background, Commit, CommitFails, Die
  <1>2. ASSUME NEW q \in Requests
        PROVE  /\ app[q] \in Answered => app'[q] \in Answered
               /\ mw'[q] \in {"new", "refused"} /\ app[q] = "idle" =>
                     mw'[q] = mw[q] /\ app'[q] = "idle"
    <2>1. CASE ~Die(p)
      BY <2>1, <1>2 DEF LifecycleTypeOK, Answered, WriteContent, FindFile, Flush, Fail, Background,
                        Commit, CommitFails
    <2>2. CASE Die(p)
      BY <2>2, <1>2 DEF LifecycleTypeOK, Answered, Die
    <2> QED  BY <2>1, <2>2
  <1>3. \A q \in Requests : mw'[q] \in {"new", "refused"} => mw[q] = mw'[q]
    BY DEF LifecycleTypeOK, WriteContent, FindFile, Flush, Fail, Background, Commit, CommitFails, Die
  <1>4. Front'
    BY <1>1, <1>2, <1>3 DEF Answers, Front
  <1>5. StoreOK'
    BY <1>1, <1>2 DEF Answers, StoreOK
  <1>6. AnswersOK'
    BY <1>1, <1>2 DEF Answers, AnswersOK
  <1> QED  BY <1>4, <1>5, <1>6 DEF Answers

LEMMA SendKeepsAnswers ==
  ASSUME LifecycleTypeOK, Answers, NEW p \in Requests, Send(p)
  PROVE  Answers'
  <1>1. PICK r \in Create \cup Upload \cup Remove : PassThrough(p, r) \/ Claim(p, r)
    BY DEF Send
  <1>2. /\ mw[p] = "new" /\ app[p] = "idle" /\ answer[p] = Absent
        /\ asked' = [asked EXCEPT ![p] = r] /\ answer' = answer
        /\ \A q \in Requests \ {p} : mw'[q] = mw[q] /\ app'[q] = app[q]
        /\ mw'[p] \in {"waiting", "refused"}
        /\ mw'[p] = "refused" => app'[p] = "idle" /\ r.op = "create" /\ r.key # Absent
    BY <1>1 DEF LifecycleTypeOK, Answers, Front, PassThrough, Claim, CallNext
  <1>3. r.op = "create" => r \in Create
    BY DEF Create, Upload, Remove
  <1>4. Front'
    BY <1>2, <1>3 DEF Answers, Front, LifecycleTypeOK, Create
  <1>5. ASSUME NEW k \in Keys, store'[k] # Absent, store'[k].state = "completed"
        PROVE  store'[k] = store[k]
    BY <1>1, <1>5 DEF PassThrough, Claim, Lock, InFlight, LifecycleTypeOK
  <1>6. \A q \in Requests : app[q] \in Answered =>
            q # p /\ app'[q] = app[q] /\ asked'[q] = asked[q]
    BY <1>2 DEF Answered, LifecycleTypeOK
  <1>7. StoreOK'
    <2> SUFFICES ASSUME NEW k \in Keys, store'[k] # Absent, store'[k].state = "completed"
                 PROVE  LET q == store'[k].by
                        IN  /\ q \in Requests /\ app'[q] \in Answered
                            /\ asked'[q] \in Create
                            /\ asked'[q].key = k /\ asked'[q].body = store'[k].body
      BY DEF StoreOK
    <2> QED  BY <1>5, <1>6 DEF Answers, StoreOK
  <1>8. AnswersOK'
    <2> SUFFICES ASSUME NEW q \in Requests, NEW a \in Requests, answer'[q] = a
                 PROVE  asked'[a] = asked'[q] /\ app'[a] \in Answered
      BY DEF AnswersOK
    <2>1. q # p /\ answer[q] = a
      BY <1>2, NamesAssumption
    <2> QED  BY <2>1, <1>2, <1>6 DEF Answers, AnswersOK, LifecycleTypeOK
  <1> QED  BY <1>4, <1>7, <1>8 DEF Answers

\* Nothing is stored; p is answered with a, or goes on to the handler.
LEMMA AnsweringKeeps ==
  ASSUME LifecycleTypeOK, Answers, NEW p \in Requests, NEW a,
         mw[p] \in {"refused", "waiting"}, UNCHANGED <<asked, store>>,
         \/ CallNext(p) /\ app[p] = "idle" /\ UNCHANGED answer
         \/ Answer(p, a) /\ UNCHANGED app,
         a \in Requests => asked[a] = asked[p] /\ app[a] \in Answered
  PROVE  Answers'
  <1>1. \A q \in Requests : app[q] \in Answered => app'[q] = app[q]
    BY DEF LifecycleTypeOK, CallNext, Answer, Answered
  <1>2. \A q \in Requests : mw'[q] \in {"new", "refused"} =>
            q # p /\ mw'[q] = mw[q] /\ app'[q] = app[q] /\ answer'[q] = answer[q]
    BY DEF LifecycleTypeOK, CallNext, Answer
  <1>3. Front'
    BY <1>2 DEF Answers, Front
  <1>4. StoreOK'
    BY <1>1 DEF Answers, StoreOK
  <1>5. AnswersOK'
    <2> SUFFICES ASSUME NEW q \in Requests, NEW b \in Requests, answer'[q] = b
                 PROVE  asked[b] = asked[q] /\ app'[b] \in Answered
      BY DEF AnswersOK
    <2>1. answer[q] = b \/ (q = p /\ b = a)
      BY DEF LifecycleTypeOK, Answer
    <2> QED  BY <2>1, <1>1 DEF Answers, AnswersOK
  <1> QED  BY <1>3, <1>4, <1>5 DEF Answers

LEMMA ResolveKeepsAnswers ==
  ASSUME LifecycleTypeOK, Answers, NEW p \in Requests, Resolve(p)
  PROVE  Answers'
  <1> DEFINE e == store[asked[p].key]
  <1>1. /\ mw[p] = "refused" /\ app[p] = "idle"
        /\ asked[p] \in Create /\ asked[p].key \in Keys
        /\ UNCHANGED <<asked, store>>
    BY DEF Resolve, Answers, Front
  <1>2. CASE CallNext(p) /\ UNCHANGED answer
    BY <1>1, <1>2, AnsweringKeeps, NamesAssumption
  <1>3. CASE Answer(p, "error") /\ UNCHANGED app
    BY <1>1, <1>3, AnsweringKeeps, NamesAssumption
  <1>4. CASE e # Absent /\ Replayed(p, e) /\ Answer(p, e.by) /\ UNCHANGED app
    <2>1. /\ e.by \in Requests /\ app[e.by] \in Answered
          /\ asked[e.by] \in Create
          /\ asked[e.by].key = asked[p].key /\ asked[e.by].body = asked[p].body
      BY <1>1, <1>4 DEF Answers, StoreOK, Replayed
    <2>2. asked[e.by] = asked[p]
      BY <1>1, <2>1 DEF Create
    <2> QED  BY <1>1, <1>4, <2>1, <2>2, AnsweringKeeps
  <1> QED  BY <1>2, <1>3, <1>4 DEF Resolve

LEMMA CachingKeepsAnswers ==
  ASSUME LifecycleTypeOK, Answers, NEW p \in Requests, CacheAndReturn(p)
  PROVE  Answers'
  <1>1. /\ mw[p] = "waiting" /\ app[p] \in Answered
        /\ Answer(p, p) /\ UNCHANGED <<asked, app>>
    BY DEF CacheAndReturn, Answered
  <1>2. Front'
    BY <1>1 DEF Answers, Front, Answer, LifecycleTypeOK
  <1>3. StoreOK'
    <2> SUFFICES ASSUME NEW k \in Keys, store'[k] # Absent, store'[k].state = "completed"
                 PROVE  LET q == store'[k].by
                        IN  /\ q \in Requests /\ app[q] \in Answered
                            /\ asked[q] \in Create
                            /\ asked[q].key = k /\ asked[q].body = store'[k].body
      BY <1>1 DEF StoreOK
    <2>1. CASE store'[k] = store[k]
      BY <2>1 DEF Answers, StoreOK
    <2>2. CASE store'[k] # store[k]
      <3>1. Keyed(p) /\ k = asked[p].key /\ store'[k] = Completed(p)
        BY <2>2 DEF CacheAndReturn, LifecycleTypeOK
      <3>2. asked[p] \in Create
        BY <3>1, Kinds DEF Keyed
      <3> QED  BY <1>1, <3>1, <3>2 DEF Completed
    <2> QED  BY <2>1, <2>2
  <1>4. AnswersOK'
    BY <1>1 DEF Answers, AnswersOK, Answer, LifecycleTypeOK
  <1> QED  BY <1>2, <1>3, <1>4 DEF Answers

LEMMA ExpiryKeepsAnswers ==
  ASSUME LifecycleTypeOK, Answers, NEW k \in Keys, Expire(k)
  PROVE  Answers'
  BY DEF LifecycleTypeOK, Answers, Front, StoreOK, AnswersOK, Expire

LEMMA AnswersKeep ==
  ASSUME LifecycleTypeOK, Answers, LifecycleNext
  PROVE  Answers'
  <1>1. ASSUME NEW p \in Requests, ReturnError(p) PROVE Answers'
    BY <1>1, AnsweringKeeps, NamesAssumption DEF ReturnError
  <1> QED  BY <1>1, SendKeepsAnswers, ResolveKeepsAnswers, HandlerKeepsAnswers,
              CachingKeepsAnswers, ExpiryKeepsAnswers DEF LifecycleNext

-----------------------------------------------------------------------------
(* Content and rows.                                                       *)

\* A step of the middleware touches neither; the request it concerns has not
\* begun, and begins at most.
LEMMA FrontKeepsDisk ==
  ASSUME LifecycleTypeOK, Disk, UNCHANGED <<files, blobs>>,
         \A q \in Requests :
            \/ asked'[q] = asked[q] /\ app'[q] = app[q]
            \/ app[q] = "idle" /\ app'[q] \in {"idle", "running"}
  PROVE  Disk'
  <1>1. \A q \in Requests : app[q] # "idle" => asked'[q] = asked[q] /\ app'[q] = app[q]
    OBVIOUS
  <1>2. \A q \in Requests :
            app'[q] \notin {"idle", "running"} => asked'[q] = asked[q] /\ app'[q] = app[q]
    OBVIOUS
  <1>3. blobs' = blobs /\ files' = files /\ blobs \subseteq Requests
    BY DEF LifecycleTypeOK
  <1>4. Contents'
    BY <1>1, <1>2, <1>3 DEF Disk, Contents, Asks
  <1>5. Listed'
    BY <1>1, <1>3 DEF Disk, Listed, Asks
  <1>6. Removals'
    BY <1>2, <1>3 DEF Disk, Removals, Asks
  <1>7. LossNeedsRollback'
    BY <1>1, <1>3 DEF Disk, LossNeedsRollback, Removes, Asks
  <1>8. OrphansNeedFailure'
    BY <1>1, <1>3 DEF Disk, OrphansNeedFailure
  <1> QED  BY <1>4, <1>5, <1>6, <1>7, <1>8 DEF Disk

LEMMA MiddlewareKeepsDisk ==
  ASSUME LifecycleTypeOK, Answers, Disk,
         \/ \E p \in Requests : Send(p) \/ Resolve(p) \/ CacheAndReturn(p) \/ ReturnError(p)
         \/ \E k \in Keys : Expire(k)
  PROVE  Disk'
  <1>1. UNCHANGED <<files, blobs>>
    BY DEF Send, PassThrough, Claim, Resolve, CacheAndReturn, ReturnError, Expire
  <1>2. ASSUME NEW p \in Requests, Send(p)
        PROVE  \A q \in Requests :
                  \/ asked'[q] = asked[q] /\ app'[q] = app[q]
                  \/ app[q] = "idle" /\ app'[q] \in {"idle", "running"}
    BY <1>2 DEF LifecycleTypeOK, Answers, Front, Send, PassThrough, Claim, CallNext
  <1>3. ASSUME NEW p \in Requests, Resolve(p)
        PROVE  \A q \in Requests :
                  \/ asked'[q] = asked[q] /\ app'[q] = app[q]
                  \/ app[q] = "idle" /\ app'[q] \in {"idle", "running"}
    BY <1>3 DEF LifecycleTypeOK, Answers, Front, Resolve, CallNext
  <1>4. CASE \/ \E p \in Requests : CacheAndReturn(p) \/ ReturnError(p)
             \/ \E k \in Keys : Expire(k)
    <2>1. UNCHANGED <<asked, app>>
      BY <1>4 DEF CacheAndReturn, ReturnError, Expire
    <2> QED  BY <1>1, <2>1, FrontKeepsDisk
  <1> QED  BY <1>1, <1>2, <1>3, <1>4, FrontKeepsDisk

\* One execution moves on and neither rows nor content change.
LEMMA MovingKeepsDisk ==
  ASSUME LifecycleTypeOK, Disk, NEW p \in Requests,
         FindFile(p) \/ Flush(p) \/ CommitFails(p)
  PROVE  Disk'
  <1>1. /\ UNCHANGED <<asked, files, blobs>>
        /\ \A q \in Requests \ {p} : app'[q] = app[q]
        /\ blobs \subseteq Requests
    BY DEF LifecycleTypeOK, FindFile, Flush, CommitFails
  <1>2. \/ /\ app[p] = "running" /\ Asks(p, "remove") /\ app'[p] = "flushing"
           /\ files[asked[p].file] # "none"
        \/ app[p] = "running" /\ Asks(p, "create") /\ app'[p] = "ready"
        \/ app[p] = "flushing" /\ Asks(p, "upload") /\ app'[p] = "ready"
        \/ app[p] = "flushing" /\ Asks(p, "remove") /\ app'[p] = "responded"
        \/ app[p] \in {"responded", "ready"} /\ app'[p] = "undone"
    BY Kinds DEF LifecycleTypeOK, FindFile, Flush, CommitFails
  <1>3. \A q \in Requests, op \in {"create", "upload", "remove"} : Asks(q, op)' = Asks(q, op)
    BY <1>1 DEF Asks
  <1>4. Contents'
    BY <1>1, <1>2, <1>3, Kinds DEF Disk, Contents
  <1>5. Listed'
    BY <1>1, <1>2, <1>3, Kinds DEF Disk, Listed
  <1>6. Removals'
    BY <1>1, <1>2, <1>3, Kinds DEF Disk, Removals
  <1>7. LossNeedsRollback'
    BY <1>1, <1>2, <1>3 DEF Disk, LossNeedsRollback, Removes
  <1>8. OrphansNeedFailure'
    BY <1>1, <1>2, <1>3, Kinds DEF Disk, Contents, OrphansNeedFailure
  <1> QED  BY <1>4, <1>5, <1>6, <1>7, <1>8 DEF Disk

\* An upload writes its content, or deletes it when it fails.
LEMMA UploadKeepsDisk ==
  ASSUME LifecycleTypeOK, Disk, NEW p \in Requests, WriteContent(p) \/ Fail(p)
  PROVE  Disk'
  <1>1. /\ UNCHANGED <<asked, files>> /\ blobs \subseteq Requests
        /\ \A q \in Requests \ {p} : app'[q] = app[q]
        /\ app[p] \in {"running", "flushing"}
    BY DEF LifecycleTypeOK, WriteContent, Fail
  <1>2. \/ Asks(p, "upload") /\ app'[p] = "flushing" /\ blobs' = blobs \cup {p}
        \/ app'[p] = "failed" /\ blobs' = blobs \ {p}
    BY DEF LifecycleTypeOK, WriteContent, Fail, CleanedUp
  <1>3. \A q \in Requests, op \in {"create", "upload", "remove"} : Asks(q, op)' = Asks(q, op)
    BY <1>1 DEF Asks
  <1>4. files[p] = "none" /\ files' = files /\ asked' = asked
    BY <1>1 DEF Disk, Listed
  <1>5. Contents'
    BY <1>1, <1>2, <1>3 DEF Disk, Contents
  <1>6. Listed'
    BY <1>1, <1>3, <1>4 DEF Disk, Listed
  <1>7. ASSUME NEW q \in Requests, Asks(q, "remove"), app'[q] \in {"flushing", "responded", "ready"}
        PROVE  q # p /\ app'[q] = app[q] /\ asked[q].file # p
    BY <1>1, <1>2, <1>4, <1>7, Kinds DEF Disk, Removals
  <1>8. Removals'
    <2>1. \A q \in Requests : app'[q] = "responded" => Asks(q, "remove")
      BY <1>1, <1>2 DEF Disk, Removals
    <2> QED  BY <1>2, <1>3, <1>4, <1>7, <2>1 DEF Disk, Removals
  <1>9. LossNeedsRollback'
    BY <1>1, <1>2, <1>3, <1>4 DEF Disk, LossNeedsRollback, Removes
  <1>10. OrphansNeedFailure'
    BY <1>1, <1>2, <1>4 DEF Disk, OrphansNeedFailure
  <1> QED  BY <1>5, <1>6, <1>8, <1>9, <1>10 DEF Disk

LEMMA BackgroundKeepsDisk ==
  ASSUME LifecycleTypeOK, Disk, NEW p \in Requests, Background(p)
  PROVE  Disk'
  <1> DEFINE g == asked[p].file
  <1>1. /\ UNCHANGED <<asked, files>> /\ blobs \subseteq Requests
        /\ blobs' = blobs \ {g}
        /\ \A q \in Requests \ {p} : app'[q] = app[q]
        /\ app[p] = "responded" /\ app'[p] = "ready"
    BY DEF LifecycleTypeOK, Background
  <1>2. Asks(p, "remove") /\ g \in Requests /\ files[g] # "none" /\ app[g] = "committed"
    BY <1>1, Kinds DEF Disk, Removals, Listed
  <1>3. \A q \in Requests, op \in {"create", "upload", "remove"} : Asks(q, op)' = Asks(q, op)
    BY <1>1 DEF Asks
  <1>4. Contents'
    BY <1>1, <1>2, <1>3, Kinds DEF Disk, Contents
  <1>5. Listed'
    BY <1>1, <1>3 DEF Disk, Listed
  <1>6. Removals'
    BY <1>1, <1>2, <1>3 DEF Disk, Removals
  <1>7. LossNeedsRollback'
    BY <1>1, <1>2, <1>3 DEF Disk, LossNeedsRollback, Removes
  <1>8. OrphansNeedFailure'
    BY <1>1 DEF Disk, OrphansNeedFailure
  <1> QED  BY <1>4, <1>5, <1>6, <1>7, <1>8 DEF Disk

LEMMA CommitKeepsDisk ==
  ASSUME LifecycleTypeOK, Disk, NEW p \in Requests, Commit(p)
  PROVE  Disk'
  <1>1. /\ UNCHANGED <<asked, blobs>> /\ blobs \subseteq Requests
        /\ \A q \in Requests \ {p} : app'[q] = app[q]
        /\ app[p] = "ready" /\ app'[p] = "committed"
    BY DEF LifecycleTypeOK, Commit
  <1>2. \A q \in Requests, op \in {"create", "upload", "remove"} : Asks(q, op)' = Asks(q, op)
    BY <1>1 DEF Asks
  <1>3. \A f \in Requests :
            /\ f = p /\ Asks(p, "upload") => files'[f] = "active"
            /\ Removes(p, f) /\ ~(f = p /\ Asks(p, "upload")) => files'[f] = "deleted"
            /\ ~Removes(p, f) /\ ~(f = p /\ Asks(p, "upload")) => files'[f] = files[f]
    BY DEF Commit
  <1>4. \A f \in Requests : files[f] # "none" => files'[f] # "none"
    BY <1>3
  <1>5. \A f \in Requests : Removes(p, f) => f # p /\ files[f] # "none" /\ f \notin blobs
    BY <1>1 DEF Disk, Removals, Listed, Removes
  <1>6. Contents'
    BY <1>1, <1>2 DEF Disk, Contents
  <1>7. Listed'
    BY <1>1, <1>2, <1>3, <1>5 DEF Disk, Listed
  <1>8. Removals'
    BY <1>1, <1>2, <1>4, Kinds DEF Disk, Removals
  <1>9. LossNeedsRollback'
    <2> SUFFICES ASSUME NEW f \in Requests, files'[f] = "active", f \notin blobs
                 PROVE  \E q \in Requests : Removes(q, f)' /\ app'[q] \in {"ready", "undone"}
      BY <1>1 DEF LossNeedsRollback
    <2>1. f # p \/ ~Asks(p, "upload")
      BY <1>1 DEF Disk, Contents
    <2>2. files[f] = "active" /\ ~Removes(p, f)
      BY <1>3, <2>1
    <2>3. PICK q \in Requests : Removes(q, f) /\ app[q] \in {"ready", "undone"}
      BY <2>2 DEF Disk, LossNeedsRollback
    <2> QED  BY <1>1, <1>2, <2>2, <2>3 DEF Removes
  <1>10. OrphansNeedFailure'
    <2> SUFFICES ASSUME NEW f \in blobs, files'[f] # "active"
                 PROVE  app'[f] \in {"flushing", "ready", "undone", "dead"}
      BY <1>1 DEF OrphansNeedFailure
    <2>1. f \in Requests /\ Asks(f, "upload")
      BY <1>1 DEF Disk, Contents
    <2>2. f # p /\ files[f] # "active"
      BY <1>3, <1>5, <2>1
    <2> QED  BY <1>1, <2>1, <2>2 DEF Disk, OrphansNeedFailure
  <1> QED  BY <1>6, <1>7, <1>8, <1>9, <1>10 DEF Disk

LEMMA DyingKeepsDisk ==
  ASSUME LifecycleTypeOK, Disk, NEW p \in Requests, Die(p)
  PROVE  Disk'
  <1>1. /\ UNCHANGED <<asked, files, blobs>> /\ blobs \subseteq Requests
        /\ \A q \in Requests \ {p} : app'[q] = app[q]
        /\ app[p] \in {"idle", "committed", "failed", "undone"} => app'[p] = app[p]
        /\ app[p] = "ready" => app'[p] = "undone"
        /\ app[p] \in {"running", "flushing", "responded", "dead"} => app'[p] = "dead"
    BY DEF LifecycleTypeOK, Die
  <1>2. \A q \in Requests, op \in {"create", "upload", "remove"} : Asks(q, op)' = Asks(q, op)
    BY <1>1 DEF Asks
  <1>3. app[p] \in {"idle", "running", "flushing", "responded", "ready",
                    "committed", "failed", "undone", "dead"}
    BY DEF LifecycleTypeOK
  <1>4. Contents'
    BY <1>1, <1>2, <1>3 DEF Disk, Contents
  <1>5. Listed'
    BY <1>1, <1>2, <1>3 DEF Disk, Listed
  <1>6. Removals'
    BY <1>1, <1>2, <1>3 DEF Disk, Removals
  <1>7. LossNeedsRollback'
    BY <1>1, <1>2, <1>3 DEF Disk, LossNeedsRollback, Removes
  <1>8. OrphansNeedFailure'
    BY <1>1, <1>2, <1>3 DEF Disk, OrphansNeedFailure
  <1> QED  BY <1>4, <1>5, <1>6, <1>7, <1>8 DEF Disk

-----------------------------------------------------------------------------
(* Theorems.                                                               *)

LEMMA LifecycleKeeps == LifecycleInv /\ [LifecycleNext]_lifecycleVars => LifecycleInv'
  <1> SUFFICES ASSUME LifecycleInv, [LifecycleNext]_lifecycleVars PROVE LifecycleInv'
    OBVIOUS
  <1> USE DEF LifecycleInv
  <1>1. CASE LifecycleNext
    <2>1. LifecycleTypeOK'
      BY <1>1, SendTypes, HandlerTypes, MiddlewareTypes DEF LifecycleNext
    <2>2. Answers'
      BY <1>1, AnswersKeep
    <2>3. Disk'
      BY <1>1, MiddlewareKeepsDisk, MovingKeepsDisk, UploadKeepsDisk, BackgroundKeepsDisk,
         CommitKeepsDisk, DyingKeepsDisk DEF LifecycleNext
    <2> QED  BY <2>1, <2>2, <2>3
  <1>2. CASE UNCHANGED lifecycleVars
    <2>1. LifecycleTypeOK'
      BY <1>2 DEF lifecycleVars, LifecycleTypeOK
    <2>2. Answers'
      BY <1>2 DEF lifecycleVars, Answers, Front, StoreOK, AnswersOK
    <2>3. Disk'
      BY <1>2, FrontKeepsDisk DEF lifecycleVars
    <2> QED  BY <2>1, <2>2, <2>3
  <1> QED  BY <1>1, <1>2

\* The inductive invariant holds in every reachable state.
THEOREM LifecycleInvariance == LifecycleSpec => []LifecycleInv
  BY LifecycleBegins, LifecycleKeeps, PTL DEF LifecycleSpec

\* Every variable keeps its type.
THEOREM LifecycleTypes == LifecycleSpec => []LifecycleTypeOK
  <1>1. LifecycleInv => LifecycleTypeOK
    BY DEF LifecycleInv
  <1> QED  BY <1>1, LifecycleInvariance, PTL

\* A client never gets the answer to something else, nor that of a handler that
\* failed, whatever Redis loses, delays or refuses.
THEOREM NoForeignAnswers == LifecycleSpec => []AnswersMatch
  <1>1. LifecycleInv => AnswersMatch
    BY DEF LifecycleInv, Answers, AnswersOK, AnswersMatch, Answered
  <1> QED  BY <1>1, LifecycleInvariance, PTL

\* The content of a listed file is lost in one way only: a removal that was
\* rolled back after its background task.
THEOREM OneWayToLoseContent == LifecycleSpec => []LossNeedsRollback
  <1>1. LifecycleInv => LossNeedsRollback
    BY DEF LifecycleInv, Disk
  <1> QED  BY <1>1, LifecycleInvariance, PTL

\* Only a crash or a failing commit of an upload leaves content behind.
THEOREM OneWayToLeaveContent == LifecycleSpec => []OrphansNeedFailure
  <1>1. LifecycleInv => OrphansNeedFailure
    BY DEF LifecycleInv, Disk
  <1> QED  BY <1>1, LifecycleInvariance, PTL
=============================================================================
