-------------------------- MODULE RequestLifecycle --------------------------
(***************************************************************************)
(* The life of a writing request: the idempotency middleware in front of   *)
(* it, the handler inside one database transaction, and the files, which   *)
(* are outside that transaction.                                           *)
(*                                                                         *)
(* A request has two halves.  The application runs the handler, sends the  *)
(* response, runs its background task and only then leaves the dependency  *)
(* that commits; the middleware takes the response as soon as it is sent,  *)
(* stores it and answers.  So an answer may precede the commit, and the    *)
(* background task always does.                                            *)
(*                                                                         *)
(* Abstracted: a request is one attempt of a client; what it creates is    *)
(* named after it.  An idempotency key stands for subject, path and key;   *)
(* keys that are too long (400) and the wording of answers are left out.   *)
(***************************************************************************)
EXTENDS Naturals, FiniteSets

CONSTANTS
    Requests,       \* the requests that are ever sent
    Keys,           \* idempotency keys
    Bodies,         \* request bodies
    StoreFaults,    \* whether a call of Redis may fail
    SlowHandlers,   \* whether a handler may outlast the TTL of its lock
    Crashes,        \* whether processes die
    Forgets,        \* whether a stored answer may reach its TTL
    Absent          \* no request, key, entry or answer

ASSUME SwitchesAssumption == {StoreFaults, SlowHandlers, Crashes, Forgets} \subseteq BOOLEAN
ASSUME NamesAssumption ==
    /\ Absent \notin Requests \cup Keys \cup Bodies \cup {"error"}
    /\ "error" \notin Requests

VARIABLES
    asked,      \* what each request asks for
    mw,         \* the middleware's half of each request
    app,        \* the application's half of each request
    store,      \* Redis: the entry of each key
    files,      \* the committed file row of each upload
    blobs,      \* uploads whose content is on disk
    answer      \* what each client was answered

lifecycleVars == <<asked, mw, app, store, files, blobs, answer>>

-----------------------------------------------------------------------------
(* Types.                                                                  *)

\* key is Absent when the header is missing.
Create == [op: {"create"}, key: Keys \cup {Absent}, body: Bodies]
Upload == [op: {"upload"}]
Remove == [op: {"remove"}, file: Requests]

Entry == [state: {"in_progress", "completed"}, body: Bodies, by: Requests]

LifecycleTypeOK ==
    /\ asked \in [Requests -> Create \cup Upload \cup Remove \cup {Absent}]
    /\ mw \in [Requests -> {"new", "refused", "waiting", "done", "dead"}]
    /\ app \in [Requests -> {"idle", "running", "flushing", "responded", "ready",
                             "committed", "failed", "undone", "dead"}]
    /\ store \in [Keys -> Entry \cup {Absent}]
    /\ files \in [Requests -> {"none", "active", "deleted"}]
    /\ blobs \subseteq Requests
    /\ answer \in [Requests -> Requests \cup {"error", Absent}]

Asks(p, op) == asked[p] # Absent /\ asked[p].op = op
Removes(p, f) == Asks(p, "remove") /\ asked[p].file = f
Keyed(p) == Asks(p, "create") /\ asked[p].key # Absent

-----------------------------------------------------------------------------
LifecycleInit ==
    /\ asked = [p \in Requests |-> Absent]
    /\ mw = [p \in Requests |-> "new"]
    /\ app = [p \in Requests |-> "idle"]
    /\ store = [k \in Keys |-> Absent]
    /\ files = [p \in Requests |-> "none"]
    /\ blobs = {}
    /\ answer = [p \in Requests |-> Absent]

\* The middleware hands the request on and waits for the response.
CallNext(p) ==
    /\ mw' = [mw EXCEPT ![p] = "waiting"]
    /\ app' = [app EXCEPT ![p] = "running"]

Answer(p, a) ==
    /\ mw' = [mw EXCEPT ![p] = "done"]
    /\ answer' = [answer EXCEPT ![p] = a]

\* Not a POST to an idempotent route, or no key.
PassThrough(p, r) ==
    /\ mw[p] = "new"
    /\ r.op = "create" => r.key = Absent
    /\ asked' = [asked EXCEPT ![p] = r]
    /\ CallNext(p)
    /\ UNCHANGED <<store, files, blobs, answer>>

\* Faulty variant: the lock is stored without the hash of the body.
InFlight_Bare(p, b) == [state |-> "in_progress", body |-> Absent, by |-> p]

InFlight(p, b) == [state |-> "in_progress", body |-> b, by |-> p]

Lock(p, r) == store' = [store EXCEPT ![r.key] = InFlight(p, r.body)]

\* SET NX.  A failing store looks like a key that is taken, whether or not the
\* command reached it.
Claim(p, r) ==
    /\ mw[p] = "new"
    /\ r.op = "create" /\ r.key # Absent
    /\ asked' = [asked EXCEPT ![p] = r]
    /\ \/ store[r.key] = Absent /\ Lock(p, r) /\ CallNext(p)
       \/ /\ \/ store[r.key] # Absent /\ UNCHANGED store
             \/ StoreFaults /\ UNCHANGED store
             \/ StoreFaults /\ store[r.key] = Absent /\ Lock(p, r)
          /\ mw' = [mw EXCEPT ![p] = "refused"]
          /\ UNCHANGED app
    /\ UNCHANGED <<files, blobs, answer>>

Send(p) ==
    \E r \in Create \cup Upload \cup Remove : PassThrough(p, r) \/ Claim(p, r)

\* Faulty variant: the body is not compared.
Replayed_AnyBody(p, e) == e.state = "completed"

Replayed(p, e) == e.body = asked[p].body /\ e.state = "completed"

\* What is stored under the key decides; nothing there means: go on, unlocked.
Resolve(p) ==
    /\ mw[p] = "refused"
    /\ LET e == store[asked[p].key]
       IN  \/ (e = Absent \/ StoreFaults) /\ CallNext(p) /\ UNCHANGED answer
           \/ e # Absent /\ Replayed(p, e) /\ Answer(p, e.by) /\ UNCHANGED app
           \/ e # Absent /\ ~Replayed(p, e) /\ Answer(p, "error") /\ UNCHANGED app
    /\ UNCHANGED <<asked, store, files, blobs>>

-----------------------------------------------------------------------------
(* The handler.                                                            *)

\* FileService.upload writes the content first.
WriteContent(p) ==
    /\ app[p] = "running" /\ Asks(p, "upload")
    /\ blobs' = blobs \cup {p}
    /\ app' = [app EXCEPT ![p] = "flushing"]
    /\ UNCHANGED <<asked, mw, store, files, answer>>

\* Faulty variant: the content is deleted at once.
FindFile_Unlinks(p) ==
    /\ app[p] = "running" /\ Asks(p, "remove")
    /\ files[asked[p].file] = "active"
    /\ blobs' = blobs \ {asked[p].file}
    /\ app' = [app EXCEPT ![p] = "flushing"]
    /\ UNCHANGED <<asked, mw, store, files, answer>>

\* FileRepository.soft_delete reads the row, without a lock.
FindFile(p) ==
    /\ app[p] = "running" /\ Asks(p, "remove")
    /\ files[asked[p].file] = "active"
    /\ app' = [app EXCEPT ![p] = "flushing"]
    /\ UNCHANGED <<asked, mw, store, files, blobs, answer>>

\* The row is locked from the flush of its UPDATE to the end of the transaction.
RowLocked(f) ==
    \E q \in Requests : Removes(q, f) /\ app[q] \in {"responded", "ready"}

\* INSERT or UPDATE is flushed and the response is sent.  Without a background
\* task the transaction may be committed at once.
Flush(p) ==
    /\ \/ app[p] = "running" /\ Asks(p, "create")
       \/ app[p] = "flushing" /\ Asks(p, "upload")
       \/ app[p] = "flushing" /\ Asks(p, "remove") /\ ~RowLocked(asked[p].file)
    /\ app' = [app EXCEPT ![p] = IF Asks(p, "remove") THEN "responded" ELSE "ready"]
    /\ UNCHANGED <<asked, mw, store, files, blobs, answer>>

\* Faulty variant: a failing INSERT leaves the content behind.
CleanedUp_Never(p) == blobs

\* The content that the failing upload p has written is deleted.
CleanedUp(p) == blobs \ {p}

\* 4xx, 5xx or a constraint error: rollback, then the response.
Fail(p) ==
    /\ app[p] \in {"running", "flushing"}
    /\ app' = [app EXCEPT ![p] = "failed"]
    /\ blobs' = CleanedUp(p)
    /\ UNCHANGED <<asked, mw, store, files, answer>>

\* The background task of a removal deletes the content.
Background(p) ==
    /\ app[p] = "responded"
    /\ blobs' = blobs \ {asked[p].file}
    /\ app' = [app EXCEPT ![p] = "ready"]
    /\ UNCHANGED <<asked, mw, store, files, answer>>

Commit(p) ==
    /\ app[p] = "ready"
    /\ files' = [f \in Requests |->
                    IF f = p /\ Asks(p, "upload") THEN "active"
                    ELSE IF Removes(p, f) THEN "deleted" ELSE files[f]]
    /\ app' = [app EXCEPT ![p] = "committed"]
    /\ UNCHANGED <<asked, mw, store, blobs, answer>>

\* The background task or COMMIT fails, after the response.
CommitFails(p) ==
    /\ app[p] \in {"responded", "ready"}
    /\ app' = [app EXCEPT ![p] = "undone"]
    /\ UNCHANGED <<asked, mw, store, files, blobs, answer>>

-----------------------------------------------------------------------------
(* The middleware again.                                                   *)

Completed(p) == [state |-> "completed", body |-> asked[p].body, by |-> p]

\* The response is 2xx: SETEX, whatever is stored by now, and the answer.
CacheAndReturn(p) ==
    /\ mw[p] = "waiting"
    /\ app[p] \in {"responded", "ready", "committed", "undone"}
    /\ \/ Keyed(p) /\ store' = [store EXCEPT ![asked[p].key] = Completed(p)]
       \/ (~Keyed(p) \/ StoreFaults) /\ UNCHANGED store
    /\ Answer(p, p)
    /\ UNCHANGED <<asked, app, files, blobs>>

\* The handler failed, or the failure of the commit arrived in time: the lock
\* stays until its TTL.
ReturnError(p) ==
    /\ mw[p] = "waiting"
    /\ app[p] \in {"failed", "undone"}
    /\ Answer(p, "error")
    /\ UNCHANGED <<asked, app, store, files, blobs>>

\* The process of p dies; the database rolls back what it had not committed.
Die(p) ==
    /\ Crashes
    /\ mw[p] \in {"refused", "waiting"} \/ app[p] \in {"responded", "ready"}
    /\ mw' = [mw EXCEPT ![p] = IF mw[p] = "done" THEN "done" ELSE "dead"]
    /\ app' = [app EXCEPT ![p] =
                  IF app[p] \in {"idle", "committed", "failed", "undone"} THEN app[p]
                  ELSE IF app[p] = "ready" THEN "undone" ELSE "dead"]
    /\ UNCHANGED <<asked, store, files, blobs, answer>>

\* The TTL of an entry.
Expire(k) ==
    /\ store[k] # Absent
    /\ store[k].state = "completed" => Forgets
    /\ store[k].state = "in_progress" /\ mw[store[k].by] = "waiting" => SlowHandlers
    /\ store' = [store EXCEPT ![k] = Absent]
    /\ UNCHANGED <<asked, mw, app, files, blobs, answer>>

LifecycleNext ==
    \/ \E p \in Requests :
          \/ Send(p)
          \/ Resolve(p)
          \/ WriteContent(p)
          \/ FindFile(p)
          \/ Flush(p)
          \/ Fail(p)
          \/ Background(p)
          \/ Commit(p)
          \/ CommitFails(p)
          \/ CacheAndReturn(p)
          \/ ReturnError(p)
          \/ Die(p)
    \/ \E k \in Keys : Expire(k)

LifecycleSpec == LifecycleInit /\ [][LifecycleNext]_lifecycleVars

-----------------------------------------------------------------------------
(* Properties.                                                             *)

\* A client is answered with the result of an execution of what it asked for,
\* and of one that did not fail before it answered.
AnswersMatch ==
    \A p, q \in Requests : answer[p] = q =>
        /\ asked[q] = asked[p]
        /\ app[q] \notin {"idle", "failed"}

\* The content of a listed file is lost only when a removal was rolled back
\* after its background task.
LossNeedsRollback ==
    \A f \in Requests : files[f] = "active" /\ f \notin blobs =>
        \E p \in Requests : Removes(p, f) /\ app[p] \in {"ready", "undone"}

\* Content without a listed file belongs to an upload under way, or to one
\* whose process died or whose commit failed: neither a refused upload nor a
\* removal leaves any behind.
OrphansNeedFailure ==
    \A f \in blobs : files[f] # "active" => app[f] \in {"flushing", "ready", "undone", "dead"}

\* "commit failed: the task is not run, the file stays" (file/api.py).
ListedFilesHaveContent ==
    \A f \in Requests : files[f] = "active" =>
        f \in blobs \/ \E p \in Requests : Removes(p, f) /\ app[p] = "ready"

\* One key, one committed execution: as long as Redis answers and remembers, no
\* process dies and no handler outlasts its lock, concurrent retries of a
\* client have one effect (docs/architecture/REQUEST_LIFECYCLE.md).
AtMostOnce ==
    \A k \in Keys :
        Cardinality({p \in Requests : Keyed(p) /\ asked[p].key = k /\ app[p] = "committed"}) <= 1
=============================================================================
