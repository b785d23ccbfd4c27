--------------------------- MODULE RefreshTokens ---------------------------
(***************************************************************************)
(* Refresh tokens of the auth domain: login, rotation with reuse           *)
(* detection, logout, forced logout, password change, expiry clean-up and  *)
(* the user administration they race with.                                 *)
(*                                                                         *)
(* Every request runs in one database transaction.  It reads something     *)
(* without a lock, queues for the per-user row of app_locks, decides what  *)
(* to write, and commits; commit or rollback releases every lock.  The     *)
(* model keeps these as separate steps, so whatever was read before the    *)
(* queue may be stale after it.                                            *)
(*                                                                         *)
(* Bounds: MaxTokens rows are ever inserted and the clock stops at         *)
(* MaxTime.  Both may be any natural number.                               *)
(***************************************************************************)
EXTENDS Integers, FiniteSets

CONSTANTS
    Users,          \* rows of the users table
    Buckets,        \* rows of app_locks in the namespace auth:refresh-user
    BucketOf,       \* user -> bucket, user_id % 4096 in the code
    Requests,       \* request slots: how many transactions may overlap
    MaxTokens,      \* bound on inserted rows of auth_refresh_tokens
    MaxTime,        \* bound on the clock
    IdleTTL,        \* auth_refresh_idle_ttl_seconds
    AbsTTL,         \* auth_refresh_absolute_ttl_seconds
    MaxSessions,    \* auth_refresh_max_sessions_per_user
    None            \* no request

ASSUME BucketAssumption == BucketOf \in [Users -> Buckets]
ASSUME BoundAssumption == MaxTokens \in Nat /\ MaxTime \in Nat
\* Settings declare ge=300 for both TTLs and ge=1 for the session cap.
ASSUME SettingsAssumption ==
    /\ IdleTTL \in Nat \ {0}
    /\ AbsTTL \in Nat \ {0}
    /\ MaxSessions \in Nat \ {0}
ASSUME NoneAssumption == None \notin Requests

VARIABLES
    now,        \* the clock all servers read
    tokens,     \* committed rows of auth_refresh_tokens, by insertion id
    nextJti,    \* next insertion id; a rollback does not give it back
    status,     \* users.status, or "gone" once the row is deleted
    lock,       \* bucket -> holder of FOR UPDATE on its app_locks row
    userRow,    \* user -> holder of the exclusive lock on its users row
    phase,      \* how far each request is
    call,       \* what each request was asked, and what it read unlocked
    plan,       \* the uncommitted writes of each request
    openedAt,   \* history: when each family was opened, Never if it was not
    pwdMark     \* history: nextJti when the user last changed the password

tokenVars == <<tokens, openedAt, pwdMark>>
reqVars   == <<phase, call, plan>>
vars      == <<now, tokens, nextJti, status, lock, userRow,
               phase, call, plan, openedAt, pwdMark>>

-----------------------------------------------------------------------------
(* Types.                                                                  *)

Jti   == 1 .. MaxTokens
NoJti == 0
Time  == 0 .. MaxTime
Never == -1
Reasons == {"rotated", "logout", "reuse_detected", "concurrency_limit",
            "password_changed", "forced_logout"}
NotRevoked == "NULL"

\* A family is named after its first token.
Row == [family: Jti, user: Users, issued: Nat, expires: Nat, absolute: Nat,
        rotatedTo: Jti \cup {NoJti}, revoked: Reasons \cup {NotRevoked}]

Ops == {"login", "refresh", "logout", "force", "change"}
Phases == {"idle", "verified", "queued", "locked", "decided"}
Call == [op: Ops, user: Users, jti: Jti \cup {NoJti},
         family: Jti \cup {NoJti}, at: Time]

\* insert: the id of the row to add; rotate: the row to mark rotated; revoke: the rows
\* an UPDATE ... WHERE revoked_at IS NULL has matched; reuse: a verdict.
Plan == [insert: Jti \cup {NoJti}, row: Row \cup {None}, rotate: Jti \cup {NoJti},
         revoke: SUBSET Jti, reason: Reasons, reuse: BOOLEAN]
Revoking(rows, reason, reuse) ==
    [insert |-> NoJti, row |-> None, rotate |-> NoJti,
     revoke |-> rows, reason |-> reason, reuse |-> reuse]
NoWrites == Revoking({}, "logout", FALSE)

TypeOK ==
    /\ now \in Time
    /\ nextJti \in 1 .. MaxTokens + 1
    /\ DOMAIN tokens \subseteq 1 .. nextJti - 1
    /\ tokens \in [DOMAIN tokens -> Row]
    /\ status \in [Users -> {"active", "disabled", "gone"}]
    /\ lock \in [Buckets -> Requests \cup {None}]
    /\ userRow \in [Users -> Requests \cup {None}]
    /\ phase \in [Requests -> Phases]
    /\ call \in [Requests -> Call \cup {None}]
    /\ plan \in [Requests -> Plan]
    /\ openedAt \in [Jti -> Time \cup {Never}]
    /\ pwdMark \in [Users -> 1 .. MaxTokens + 1]

-----------------------------------------------------------------------------
(* The token table.                                                        *)

LeastOf(x, y) == IF x < y THEN x ELSE y
Stored == DOMAIN tokens
Unrevoked(j) == tokens[j].revoked = NotRevoked
FamilyRows(f) == {j \in Stored : tokens[j].family = f}
\* Faulty variant: the UPDATE lacks WHERE revoked_at IS NULL.
LiveRows_AlsoRevoked(f) == FamilyRows(f)
LiveRows(f) == {j \in FamilyRows(f) : Unrevoked(j)}

\* Unrevoked and unexpired: what list_active_families counts.
ActiveRows(u, t) ==
    {j \in Stored : tokens[j].user = u /\ Unrevoked(j) /\ tokens[j].expires > t}
ActiveFamilies(u, t) == {tokens[j].family : j \in ActiveRows(u, t)}

\* ORDER BY max(issued_at) DESC, max(id) DESC over the active rows.
MoreRecent(u, t, f, g) ==
    \E j \in ActiveRows(u, t) :
        /\ tokens[j].family = f
        /\ \A k \in ActiveRows(u, t) :
              tokens[k].family = g =>
                 \/ tokens[j].issued > tokens[k].issued
                 \/ tokens[j].issued = tokens[k].issued /\ j > k

\* families[max_sessions:], the new family being the most recent of all.
Overflow(u, t) ==
    {f \in ActiveFamilies(u, t) :
        Cardinality({g \in ActiveFamilies(u, t) : MoreRecent(u, t, g, f)})
            + 1 >= MaxSessions}

LiveRowsOf(families) == {j \in Stored : tokens[j].family \in families /\ Unrevoked(j)}

\* issue_refresh_token: expires_at = min(now + idle, family_absolute).  A row may
\* be revoked by the transaction that inserts it.
NewRow(u, f, absolute, revoked) ==
    [family |-> f, user |-> u, issued |-> now,
     expires |-> LeastOf(now + IdleTTL, absolute), absolute |-> absolute,
     rotatedTo |-> NoJti, revoked |-> revoked]

\* A login inserts the first row of a family and closes other families; a rotation
\* inserts the successor of j and closes the family when it is issued revoked.
Opening(u, rows, reason) ==
    [insert |-> nextJti, row |-> NewRow(u, nextJti, now + AbsTTL, NotRevoked),
     rotate |-> NoJti, revoke |-> rows, reason |-> reason, reuse |-> FALSE]
Rotating(j, u, revoked, rows, reason) ==
    [insert |-> nextJti,
     row |-> NewRow(u, tokens[j].family, tokens[j].absolute, revoked),
     rotate |-> j, revoke |-> rows, reason |-> reason, reuse |-> FALSE]

-----------------------------------------------------------------------------
(* Locks.  The users row is locked exclusively by UPDATE users and shared  *)
(* by the foreign-key check of an inserted token; token rows are locked by *)
(* FOR UPDATE and by the revoking UPDATE.                                  *)

BucketFree(p) == lock[BucketOf[call[p].user]] = None
RowLocked(j) ==
    \E q \in Requests : /\ phase[q] = "decided"
                        /\ j \in plan[q].revoke \cup {plan[q].rotate}
SharedHolders(u) ==
    {q \in Requests : phase[q] = "decided" /\ plan[q].insert # NoJti
                                           /\ call[q].user = u}
FkCheckPasses(p) == userRow[call[p].user] \in {None, p}
UserRowFree(u) == userRow[u] = None /\ SharedHolders(u) = {}

\* Faulty variant: the lock outlives the transaction.
Release_KeepsLock(p) ==
    /\ UNCHANGED lock
    /\ userRow' = [u \in Users |-> IF userRow[u] = p THEN None ELSE userRow[u]]

Release(p) ==
    /\ lock' = [b \in Buckets |-> IF lock[b] = p THEN None ELSE lock[b]]
    /\ userRow' = [u \in Users |-> IF userRow[u] = p THEN None ELSE userRow[u]]

Finish(p) ==
    /\ phase' = [phase EXCEPT ![p] = "idle"]
    /\ call' = [call EXCEPT ![p] = None]
    /\ plan' = [plan EXCEPT ![p] = NoWrites]
    /\ Release(p)

-----------------------------------------------------------------------------
Init ==
    /\ now = 0
    /\ tokens = [j \in {} |-> None]
    /\ nextJti = 1
    /\ status = [u \in Users |-> "active"]
    /\ lock = [b \in Buckets |-> None]
    /\ userRow = [u \in Users |-> None]
    /\ phase = [p \in Requests |-> "idle"]
    /\ call = [p \in Requests |-> None]
    /\ plan = [p \in Requests |-> NoWrites]
    /\ openedAt = [j \in Jti |-> Never]
    /\ pwdMark = [u \in Users |-> 1]

\* Bound: a request that may insert starts only while an id is left for it.
Inserting(op) == op \in {"login", "refresh", "change"}
IdLeft(op) ==
    Inserting(op) =>
        nextJti + Cardinality({q \in Requests :
            phase[q] \in {"verified", "queued", "locked"} /\ Inserting(call[q].op)})
        <= MaxTokens

\* The unlocked reads at the head of a request.  Only a refresh keeps the clock
\* it read there.
Enter(p, op, u, j, f, first) ==
    /\ phase[p] = "idle"
    /\ IdLeft(op)
    /\ phase' = [phase EXCEPT ![p] = first]
    /\ call' = [call EXCEPT ![p] =
                  [op |-> op, user |-> u, jti |-> j, family |-> f,
                   at |-> IF op = "refresh" THEN now ELSE 0]]
    /\ UNCHANGED <<now, tokens, nextJti, status, lock, userRow, plan,
                   openedAt, pwdMark>>

\* login: find_by_username, status check and password verification.  A failed
\* verification touches no token and is left out.
StartLogin(p, u) ==
    /\ status[u] = "active"
    /\ Enter(p, "login", u, NoJti, NoJti, "queued")

\* refresh: now is taken, user_id is read by jti.  A jti that is not stored is
\* answered at once and touches nothing.
StartRefresh(p, j) ==
    /\ j \in Stored
    /\ Enter(p, "refresh", tokens[j].user, j, NoJti, "queued")

StartLogout(p, j) ==
    /\ j \in Stored
    /\ Enter(p, "logout", tokens[j].user, j, NoJti, "queued")

\* force_logout: the session must be active when it is looked up (404 if not).
StartForceLogout(p, u, f) ==
    /\ f \in ActiveFamilies(u, now)
    /\ Enter(p, "force", u, NoJti, f, "queued")

\* change_password: status check, verification of the old password, hashing.
StartChangePassword(p, u) ==
    /\ status[u] = "active"
    /\ Enter(p, "change", u, NoJti, NoJti, "verified")

\* UPDATE users SET password_hash, flushed before the user lock is requested.
FlushPassword(p) ==
    /\ phase[p] = "verified"
    /\ status[call[p].user] # "gone"
    /\ UserRowFree(call[p].user)
    /\ userRow' = [userRow EXCEPT ![call[p].user] = p]
    /\ phase' = [phase EXCEPT ![p] = "queued"]
    /\ UNCHANGED <<now, tokens, nextJti, status, lock, call, plan,
                   openedAt, pwdMark>>

\* Faulty variant: the row is read without FOR UPDATE.
Acquire_Unlocked(p) ==
    /\ phase[p] = "queued"
    /\ phase' = [phase EXCEPT ![p] = "locked"]
    /\ UNCHANGED <<now, tokens, nextJti, status, lock, userRow, call, plan,
                   openedAt, pwdMark>>

\* SELECT ... FOR UPDATE on the app_locks row of the user's bucket.
Acquire(p) ==
    /\ phase[p] = "queued"
    /\ BucketFree(p)
    /\ lock' = [lock EXCEPT ![BucketOf[call[p].user]] = p]
    /\ phase' = [phase EXCEPT ![p] = "locked"]
    /\ UNCHANGED <<now, tokens, nextJti, status, userRow, call, plan,
                   openedAt, pwdMark>>

-----------------------------------------------------------------------------
(* The statements executed under the lock.                                 *)

Asked(p, op) == phase[p] = "locked" /\ call[p].op = op

Decide(p, writes) ==
    /\ phase[p] = "locked"
    /\ \A j \in writes.revoke \cup {writes.rotate} : ~RowLocked(j)
    /\ phase' = [phase EXCEPT ![p] = "decided"]
    /\ plan' = [plan EXCEPT ![p] = writes]
    /\ UNCHANGED <<now, tokens, status, lock, userRow, call, openedAt, pwdMark>>

\* INSERT: takes an id and the shared lock on the users row.
Insert(p) ==
    /\ nextJti <= MaxTokens
    /\ FkCheckPasses(p)
    /\ status[call[p].user] # "gone"
    /\ nextJti' = nextJti + 1

\* Faulty variant: the new family gets no name.
DecideLogin_Nameless(p) ==
    LET u == call[p].user
    IN  /\ Asked(p, "login")
        /\ Insert(p)
        /\ Decide(p, [Opening(u, {}, "concurrency_limit") EXCEPT !.row.family = NoJti])

\* Open a family, then revoke the families beyond the cap.
DecideLogin(p) ==
    LET u == call[p].user
    IN  /\ Asked(p, "login")
        /\ Insert(p)
        /\ Decide(p, Opening(u, LiveRowsOf(Overflow(u, now)), "concurrency_limit"))

\* rotate_refresh_token looks at the locked row with the clock it read before
\* it queued (call.at).
Reused(j) == tokens[j].rotatedTo # NoJti \/ tokens[j].revoked = "reuse_detected"
\* Faulty variant: the revocation of the row is not looked at.
Rotatable_IgnoringRevocation(j, t) ==
    ~Reused(j) /\ tokens[j].expires > t /\ t < tokens[j].absolute

Rotatable(j, t) ==
    /\ ~Reused(j)
    /\ Unrevoked(j)
    /\ tokens[j].expires > t
    /\ t < tokens[j].absolute

MayRotate(p, s) ==
    /\ Asked(p, "refresh")
    /\ call[p].jti \in Stored
    /\ Rotatable(call[p].jti, call[p].at)
    /\ status[call[p].user] = s
    /\ Insert(p)

\* Faulty variants: the successor opens another family, or moves the absolute
\* limit of its own.
DecideRotate_NewFamily(p) ==
    /\ MayRotate(p, "active")
    /\ Decide(p, [Opening(call[p].user, {}, "rotated") EXCEPT !.rotate = call[p].jti])
DecideRotate_DriftingAnchor(p) ==
    LET j == call[p].jti
    IN  /\ MayRotate(p, "active")
        /\ Decide(p, [Rotating(j, call[p].user, NotRevoked, {}, "rotated")
                        EXCEPT !.row.absolute = tokens[j].issued + AbsTTL,
                               !.row.expires = now + IdleTTL])

\* Issue the successor in the same family and mark the row rotated.
DecideRotate(p) ==
    /\ MayRotate(p, "active")
    /\ Decide(p, Rotating(call[p].jti, call[p].user, NotRevoked, {}, "rotated"))

\* The account was disabled: the rotation is done, then the whole family is
\* revoked in the same transaction, the new token included.
DecideRotateDisabled(p) ==
    LET j == call[p].jti
    IN  /\ MayRotate(p, "disabled")
        /\ Decide(p, Rotating(j, call[p].user, "logout",
                              LiveRows(tokens[j].family) \ {j}, "logout"))

\* Faulty variant: only the presented row is revoked.
DecideReuse_RowOnly(p) ==
    LET j == call[p].jti
    IN  /\ Asked(p, "refresh")
        /\ j \in Stored /\ Reused(j)
        /\ UNCHANGED nextJti
        /\ Decide(p, Revoking({j}, "reuse_detected", TRUE))

\* Faulty variant: the error leaves the transaction, which rolls back.
DecideReuse_RolledBack(p) ==
    LET j == call[p].jti
    IN  /\ Asked(p, "refresh")
        /\ j \in Stored /\ Reused(j)
        /\ UNCHANGED nextJti
        /\ Decide(p, Revoking({}, "reuse_detected", TRUE))

\* Reuse: the revocation is committed although the request is refused.
DecideReuse(p) ==
    LET j == call[p].jti
    IN  /\ Asked(p, "refresh")
        /\ j \in Stored /\ Reused(j)
        /\ UNCHANGED nextJti
        /\ Decide(p, Revoking(LiveRows(tokens[j].family), "reuse_detected", TRUE))

\* Gone, revoked or expired: an empty transaction is committed.
DecideInvalid(p) ==
    LET j == call[p].jti
    IN  /\ Asked(p, "refresh") \/ Asked(p, "logout")
        /\ \/ j \notin Stored
           \/ /\ j \in Stored /\ call[p].op = "refresh"
              /\ ~Reused(j) /\ ~Rotatable(j, call[p].at)
        /\ UNCHANGED nextJti
        /\ Decide(p, NoWrites)

DecideLogout(p) ==
    LET j == call[p].jti
    IN  /\ Asked(p, "logout")
        /\ j \in Stored
        /\ UNCHANGED nextJti
        /\ Decide(p, Revoking(LiveRows(tokens[j].family), "logout", FALSE))

DecideForceLogout(p) ==
    /\ Asked(p, "force")
    /\ UNCHANGED nextJti
    /\ Decide(p, Revoking(LiveRows(call[p].family), "forced_logout", FALSE))

\* Revoke every family that is active now, then open a new one.
DecideChangePassword(p) ==
    LET u == call[p].user
    IN  /\ Asked(p, "change")
        /\ Insert(p)
        /\ Decide(p, Opening(u, LiveRowsOf(ActiveFamilies(u, now)), "password_changed"))

-----------------------------------------------------------------------------
(* Commit, rollback and what happens around the requests.                  *)

\* Faulty variant: a rotated row is linked to its successor but stays usable.
Written_RotatedStaysUsable(w, j) ==
    IF j = w.insert THEN w.row
    ELSE IF j = w.rotate THEN [tokens[j] EXCEPT !.rotatedTo = w.insert]
    ELSE IF j \in w.revoke THEN [tokens[j] EXCEPT !.revoked = w.reason]
    ELSE tokens[j]

\* A row after the INSERT, mark_rotated and the revoking UPDATE of w.
Written(w, j) ==
    IF j = w.insert THEN w.row
    ELSE IF j = w.rotate THEN [tokens[j] EXCEPT !.rotatedTo = w.insert,
                                                !.revoked = "rotated"]
    ELSE IF j \in w.revoke THEN [tokens[j] EXCEPT !.revoked = w.reason]
    ELSE tokens[j]

Commit(p) ==
    LET w == plan[p]
        u == call[p].user
        added == {w.insert} \ {NoJti}
    IN  /\ phase[p] = "decided"
        /\ tokens' = [j \in Stored \cup added |-> Written(w, j)]
        /\ openedAt' = [f \in Jti |-> IF f \in added /\ w.row.family = f
                                      THEN w.row.issued ELSE openedAt[f]]
        /\ pwdMark' = IF call[p].op = "change"
                      THEN [pwdMark EXCEPT ![u] = w.row.family] ELSE pwdMark
        /\ Finish(p)
        /\ UNCHANGED <<now, nextJti, status>>

\* Rollback: the client went away, the process died, a lock wait timed out
\* (1205), or COMMIT itself failed.
Abort(p) ==
    /\ phase[p] # "idle"
    /\ Finish(p)
    /\ UNCHANGED <<now, tokens, nextJti, status, openedAt, pwdMark>>

\* Who waits for whom: for the bucket lock, and for the users row that a
\* password change has already updated.
NeedsInsert(p) ==
    \/ call[p].op \in {"login", "change"}
    \/ /\ call[p].op = "refresh"
       /\ call[p].jti \in Stored
       /\ Rotatable(call[p].jti, call[p].at)
WaitsFor(p, q) ==
    /\ p # q
    /\ \/ phase[p] = "queued" /\ lock[BucketOf[call[p].user]] = q
       \/ phase[p] = "locked" /\ NeedsInsert(p) /\ userRow[call[p].user] = q
\* A request that waits for a users row waits for a request that waits for
\* the bucket it holds itself: every cycle has two members.
Deadlocked(p) == \E q \in Requests : WaitsFor(p, q) /\ WaitsFor(q, p)

\* InnoDB finds the cycle and rolls one member back (error 1213).
DeadlockVictim(p) ==
    /\ Deadlocked(p)
    /\ Finish(p)
    /\ UNCHANGED <<now, tokens, nextJti, status, openedAt, pwdMark>>

\* The user was deleted meanwhile: the UPDATE of the password hash matches no
\* row, the INSERT violates its foreign key.  Either error rolls back.
UserGone(p) ==
    /\ phase[p] \in {"verified", "locked"}
    /\ status[call[p].user] = "gone"
    /\ \/ phase[p] = "verified"
       \/ phase[p] = "locked" /\ call[p].op = "login"
    /\ Finish(p)
    /\ UNCHANGED <<now, tokens, nextJti, status, openedAt, pwdMark>>

\* CLI cleanup-refresh-tokens: DELETE waits for locked rows.
Cleanup ==
    LET expired == {j \in Stored : tokens[j].expires <= now}
    IN  /\ expired # {}
        /\ \A j \in expired : ~RowLocked(j)
        /\ tokens' = [j \in Stored \ expired |-> tokens[j]]
        /\ UNCHANGED <<now, nextJti, status, lock, userRow, phase, call, plan,
                       openedAt, pwdMark>>

\* User administration: status flips, and deletion with ON DELETE CASCADE.
SetStatus(u, s) ==
    /\ status[u] # "gone" /\ status[u] # s
    /\ UserRowFree(u)
    /\ status' = [status EXCEPT ![u] = s]
    /\ UNCHANGED <<now, tokens, nextJti, lock, userRow, phase, call, plan,
                   openedAt, pwdMark>>

DeleteUser(u) ==
    LET owned == {j \in Stored : tokens[j].user = u}
    IN  /\ status[u] # "gone"
        /\ UserRowFree(u)
        /\ \A j \in owned : ~RowLocked(j)
        /\ status' = [status EXCEPT ![u] = "gone"]
        /\ tokens' = [j \in Stored \ owned |-> tokens[j]]
        /\ UNCHANGED <<now, nextJti, lock, userRow, phase, call, plan,
                       openedAt, pwdMark>>

Tick ==
    /\ now < MaxTime
    /\ now' = now + 1
    /\ UNCHANGED <<tokens, nextJti, status, lock, userRow, phase, call, plan,
                   openedAt, pwdMark>>

DecideAny(p) ==
    \/ DecideLogin(p)
    \/ DecideRotate(p)
    \/ DecideRotateDisabled(p)
    \/ DecideReuse(p)
    \/ DecideInvalid(p)
    \/ DecideLogout(p)
    \/ DecideForceLogout(p)
    \/ DecideChangePassword(p)

Start(p) ==
    \/ \E u \in Users : StartLogin(p, u)
    \/ \E j \in Jti : StartRefresh(p, j)
    \/ \E j \in Jti : StartLogout(p, j)
    \/ \E u \in Users, f \in Jti : StartForceLogout(p, u, f)
    \/ \E u \in Users : StartChangePassword(p, u)

Next ==
    \/ \E p \in Requests :
          \/ Start(p)
          \/ FlushPassword(p)
          \/ Acquire(p)
          \/ DecideAny(p)
          \/ Commit(p)
          \/ Abort(p)
          \/ DeadlockVictim(p)
          \/ UserGone(p)
    \/ Cleanup
    \/ \E u \in Users, s \in {"active", "disabled"} : SetStatus(u, s)
    \/ \E u \in Users : DeleteUser(u)
    \/ Tick

Spec == Init /\ [][Next]_vars

\* InnoDB grants row locks in order of arrival, so a waiting request gets a
\* lock that is released again and again; what runs without waiting goes on.
\* Nothing makes users, administrators, the clock or the clean-up act.
Fairness ==
    \A p \in Requests :
        /\ SF_vars(FlushPassword(p))
        /\ SF_vars(Acquire(p))
        /\ SF_vars(DecideAny(p))
        /\ WF_vars(Commit(p))
        /\ WF_vars(DeadlockVictim(p))
        /\ WF_vars(UserGone(p))

FairSpec == Spec /\ Fairness

-----------------------------------------------------------------------------
(* Properties.                                                             *)

\* A family never has two tokens that could both be exchanged: rotation hands
\* out one successor however many requests present the same token.
OneLiveTokenPerFamily ==
    \A j, k \in Stored :
        /\ tokens[j].family = tokens[k].family
        /\ Unrevoked(j) /\ Unrevoked(k)
        => j = k

\* A family closed by logout, forced logout, password change, the session cap
\* or reuse detection has no token left that escaped the closing and never
\* gets one again, whatever rotation was in flight.
ClosedFamilyStaysClosed ==
    \A j, k \in Stored :
        /\ tokens[j].family = tokens[k].family
        /\ tokens[j].revoked \in Reasons \ {"rotated"}
        => ~Unrevoked(k)

\* Rotation links form chains inside a family: a successor belongs to the same
\* family and user and is younger, and no two tokens share a successor, so a
\* chain neither forks nor joins nor loops.
RotationChains ==
    \A j \in Stored :
        LET k == tokens[j].rotatedTo
        IN  k # NoJti =>
              /\ tokens[j].revoked = "rotated"
              /\ k > j
              /\ k \in Stored =>
                    /\ tokens[k].family = tokens[j].family
                    /\ tokens[k].user = tokens[j].user
              /\ \A i \in Stored : tokens[i].rotatedTo = k => i = j

\* Rotation never extends a session: no token outlives AbsTTL after the login
\* that opened its family, even when clean-up has deleted the first rows.
AbsoluteDeadline ==
    \A j \in Stored :
        /\ openedAt[tokens[j].family] # Never
        /\ tokens[j].expires <= openedAt[tokens[j].family] + AbsTTL

\* The per-user lock makes "issue, then evict" one step: when a login commits,
\* the user has at most MaxSessions active families.
LoginRespectsCap ==
    [][\A p \in Requests :
          Commit(p) /\ call[p].op = "login" =>
            Cardinality({tokens'[j].family :
                j \in {i \in DOMAIN tokens' :
                          /\ tokens'[i].user = call[p].user
                          /\ tokens'[i].revoked = NotRevoked
                          /\ tokens'[i].expires > now}}) <= MaxSessions
      ]_vars

\* A revocation is final: its reason is neither cleared nor rewritten, and a
\* rotation link, once set, keeps pointing at the same successor.
RevocationIsFinal ==
    [][\A j \in Stored \cap DOMAIN tokens' :
          ~Unrevoked(j) => /\ tokens'[j].revoked = tokens[j].revoked
                           /\ tokens'[j].rotatedTo = tokens[j].rotatedTo]_vars

\* A request that closes a family (logout, forced logout, reuse) leaves none of
\* its tokens usable when it commits: no rotation slips a new token past the
\* revoking statement, and the refusal of a reused token keeps its revocation.
ClosedBy(p) ==
    CASE call[p].op = "force" -> {call[p].family}
      [] call[p].op = "logout" \/ plan[p].reuse ->
            {tokens[j].family : j \in {call[p].jti} \cap Stored}
      [] OTHER -> {}
ClosingIsComplete ==
    [][\A p \in Requests :
          Commit(p) =>
             \A j \in DOMAIN tokens' :
                tokens'[j].family \in ClosedBy(p) => tokens'[j].revoked # NotRevoked
      ]_vars

\* What a request has established once it is committed: the two parts above
\* about the cap and the closing.
CommitsEstablish == LoginRespectsCap /\ ClosingIsComplete

\* The store implements the families promised by SessionFamilies: what the
\* rest of the program may rely on is one token per family, moved forward by
\* rotation, gone for good once closed.
Opened == {f \in Jti : openedAt[f] # Never}
LiveToken == [f \in Jti |-> IF LiveRows(f) = {} THEN NoJti
                            ELSE CHOOSE j \in LiveRows(f) : TRUE]
Sessions == INSTANCE SessionFamilies WITH
                Families <- Jti, opened <- Opened, live <- LiveToken
ImplementsSessions == Sessions!Spec

\* Every request ends: whoever waits for a lock gets it, fails, or is rolled
\* back as the victim of a deadlock.
EveryRequestEnds == \A p \in Requests : phase[p] # "idle" ~> phase[p] = "idle"

-----------------------------------------------------------------------------
(* What the comments of the code promise and the code does not keep; each   *)
(* is the single property of a run that finds the counterexample.           *)

\* "Unify the order: user lock first, row lock second (against deadlock)":
\* requests of one user never wait for each other in a circle.
NoDeadlock == ~ \E p \in Requests : Deadlocked(p)

\* "A password change revokes all old refresh families; the other devices must
\* log in again": no family opened before the change is active after it.
PasswordChangeEndsOldSessions ==
    \A u \in Users : \A f \in ActiveFamilies(u, now) : f >= pwdMark[u]
=============================================================================
