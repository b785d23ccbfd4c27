--------------------------------- MODULE Login ---------------------------------
(* Logging in behind the login guard: failures counted per account and per   *)
(* address in Redis, a captcha after some, a soft lock after more, and one   *)
(* row of the login log for every attempt. Each call of Redis is a step of   *)
(* its own. Time is left out: a key that has a TTL may expire at any moment, *)
(* one that has none never does. Sessions and tokens are in RefreshTokens.   *)
EXTENDS Naturals, FiniteSets

CONSTANTS
    Attempts,
    Accounts,
    Address,            \* the one client_ip all attempts come from
    Captchas,           \* ids of captchas
    CaptchaThreshold, LockThreshold, IpLimit,
    InFlight,           \* bound on attempts at the same time
    Faults,             \* bound on failing calls and handlers that die
    None

ASSUME LoginAssumption ==
    /\ CaptchaThreshold \in Nat \ {0} /\ LockThreshold \in Nat \ {0} /\ IpLimit \in Nat \ {0}
    /\ InFlight \in Nat /\ Faults \in Nat
    /\ Address \notin Accounts /\ None \notin Captchas
    /\ IsFiniteSet(Attempts)

VARIABLES
    count,      \* auth:fail:...: failures per account and address, and whether the key has a TTL
    lock,       \* auth:lock:user:...
    captcha,    \* auth:captcha:...: "new", "live" or "gone"
    given,      \* what each attempt submits
    pc,         \* where it is
    fails,      \* the count of its account that it read or made
    result,     \* the status it will log and answer by
    logged,     \* its row in login_logs
    proof,      \* the captcha it has passed
    before,     \* history: failures on record, per key, when it arrived
    recorded,   \* history: failures recorded since the key was last reset
    counted,    \* history: keys it has incremented since they were last reset
    faults

vars == <<count, lock, captcha, given, pc, fails, result, logged, proof, before, recorded, counted, faults>>

Keys == Accounts \cup {Address}
Bound == Cardinality(Attempts)
Given == [account : Accounts, right : BOOLEAN, captcha : Captchas \cup {None}, solved : BOOLEAN]
Statuses == {"success", "failure", "locked", "rate_limited", "captcha_required"}

ASSUME NoneAssumption == None \notin Statuses \cup {"error"}

TypeOK ==
    /\ count \in [Keys -> [n : 0 .. Bound, ttl : BOOLEAN]]
    /\ \A k \in Keys : count[k].n = 0 => ~count[k].ttl
    /\ lock \in [Accounts -> BOOLEAN]
    /\ captcha \in [Captchas -> {"new", "live", "gone"}]
    /\ given \in [Attempts -> Given \cup {None}]
    /\ pc \in [Attempts -> {"idle", "get_lock", "get_account", "get_ip", "captcha", "verify",
                            "incr_account", "expire_account", "incr_ip", "expire_ip", "set_lock",
                            "clear_count", "clear_lock", "log", "done", "dead"}]
    /\ fails \in [Attempts -> 0 .. Bound]
    /\ result \in [Attempts -> Statuses \cup {None, "error"}]
    /\ logged \in [Attempts -> Statuses \cup {None}]
    /\ proof \in [Attempts -> Captchas \cup {None}]
    /\ before \in [Attempts -> [Keys -> 0 .. Bound]]
    /\ recorded \in [Keys -> 0 .. Bound]
    /\ counted \in [Attempts -> SUBSET Keys]
    /\ faults \in 0 .. Faults

Missing == [n |-> 0, ttl |-> FALSE]

Init ==
    /\ count = [k \in Keys |-> Missing]
    /\ lock = [u \in Accounts |-> FALSE]
    /\ captcha = [c \in Captchas |-> "new"]
    /\ given = [a \in Attempts |-> None]
    /\ pc = [a \in Attempts |-> "idle"]
    /\ fails = [a \in Attempts |-> 0]
    /\ result = [a \in Attempts |-> None]
    /\ logged = [a \in Attempts |-> None]
    /\ proof = [a \in Attempts |-> None]
    /\ before = [a \in Attempts |-> [k \in Keys |-> 0]]
    /\ recorded = [k \in Keys |-> 0]
    /\ counted = [a \in Attempts |-> {}]
    /\ faults = Faults

Goto(a, p) == pc' = [pc EXCEPT ![a] = p]
User(a) == given[a].account
History == <<before, recorded, counted>>

(* A key is gone: what was on record under it no longer holds anybody back.  *)
Forget(k) ==
    /\ before' = [a \in Attempts |-> [before[a] EXCEPT ![k] = 0]]
    /\ recorded' = [recorded EXCEPT ![k] = 0]
    /\ counted' = [a \in Attempts |-> counted[a] \ {k}]

(* The handler is over: nothing but its answer and its row is left of it.    *)
Leave(a, p) ==
    /\ Goto(a, p)
    /\ given' = [given EXCEPT ![a] = None]
    /\ fails' = [fails EXCEPT ![a] = 0]
    /\ before' = [before EXCEPT ![a] = [k \in Keys |-> 0]]
    /\ counted' = [counted EXCEPT ![a] = {}]

Active == {a \in Attempts : pc[a] \notin {"idle", "done", "dead"}}

------------------------------------------------------------------------------
Arrive(a) ==
    /\ pc[a] = "idle" /\ Cardinality(Active) < InFlight
    /\ \E g \in Given :
          /\ g.captcha = None => ~g.solved
          /\ g.captcha # None => captcha[g.captcha] # "new"
          /\ given' = [given EXCEPT ![a] = g]
    /\ before' = [before EXCEPT ![a] = recorded]
    /\ Goto(a, "get_lock")
    /\ UNCHANGED <<count, lock, captcha, fails, result, logged, proof, recorded, counted, faults>>

(* pre_check: the lock, the count of the account, the count of the address.  *)
GetLock(a) ==
    /\ pc[a] = "get_lock"
    /\ result' = [result EXCEPT ![a] = IF lock[User(a)] THEN "locked" ELSE @]
    /\ Goto(a, IF lock[User(a)] THEN "incr_account" ELSE "get_account")
    /\ UNCHANGED <<count, lock, captcha, given, fails, logged, proof, faults, History>>

GetAccount(a) ==
    /\ pc[a] = "get_account"
    /\ fails' = [fails EXCEPT ![a] = count[User(a)].n]
    /\ Goto(a, "get_ip")
    /\ UNCHANGED <<count, lock, captcha, given, result, logged, proof, faults, History>>

(* Faulty variant: the captcha is asked for one failure too late.            *)
AfterPreCheck_Late(a) == IF fails[a] > CaptchaThreshold THEN "captcha" ELSE "verify"

AfterPreCheck(a) == IF fails[a] >= CaptchaThreshold THEN "captcha" ELSE "verify"

GetIp(a) ==
    /\ pc[a] = "get_ip"
    /\ LET blocked == count[Address].n >= IpLimit
       IN  /\ result' = [result EXCEPT ![a] = IF blocked THEN "rate_limited" ELSE @]
           /\ Goto(a, IF blocked THEN "log" ELSE AfterPreCheck(a))
    /\ UNCHANGED <<count, lock, captcha, given, fails, logged, proof, faults, History>>

(* Faulty variant: read first and deleted afterwards, or not at all.         *)
Consumed_Later(c) == captcha

(* verify_captcha: GETDEL, whatever the answer is.                           *)
Consumed(c) == IF c = None THEN captcha ELSE [captcha EXCEPT ![c] = "gone"]

VerifyCaptcha(a) ==
    LET g == given[a]
        passed == g.captcha # None /\ g.solved /\ captcha[g.captcha] = "live"
    IN  /\ pc[a] = "captcha"
        /\ captcha' = IF g.solved \/ g.captcha # None THEN Consumed(g.captcha) ELSE captcha
        /\ proof' = [proof EXCEPT ![a] = IF passed THEN g.captcha ELSE @]
        /\ result' = [result EXCEPT ![a] = IF passed THEN @ ELSE "captcha_required"]
        /\ Goto(a, IF passed THEN "verify" ELSE "log")
        /\ UNCHANGED <<count, lock, given, fails, logged, before, recorded, counted, faults>>

(* The business transaction: the account, its password, the refresh token.   *)
Verify(a) ==
    /\ pc[a] = "verify"
    /\ result' = [result EXCEPT ![a] = IF given[a].right THEN "success" ELSE "failure"]
    /\ Goto(a, IF given[a].right THEN "clear_count" ELSE "incr_account")
    /\ UNCHANGED <<count, lock, captcha, given, fails, logged, proof, faults, History>>

(* record_failure: two counters, each given its TTL by a second call, and    *)
(* the lock. Attempts during a lock are counted too and prolong it.          *)
Incr(a, k, from, to) ==
    /\ pc[a] = from
    /\ count' = [count EXCEPT ![k].n = @ + 1]
    /\ counted' = [counted EXCEPT ![a] = @ \cup {k}]
    /\ Goto(a, to)

IncrAccount(a) ==
    /\ Incr(a, User(a), "incr_account", "expire_account")
    /\ fails' = [fails EXCEPT ![a] = count[User(a)].n + 1]
    /\ UNCHANGED <<lock, captcha, given, result, logged, proof, before, recorded, faults>>

IncrIp(a) ==
    /\ Incr(a, Address, "incr_ip", "expire_ip")
    /\ UNCHANGED <<lock, captcha, given, fails, result, logged, proof, before, recorded, faults>>

(* Faulty variant: only the first failure gives the key its TTL.             *)
WithTtl_FirstOnly(c) == [c EXCEPT !.ttl = @ \/ c.n = 1]

WithTtl(c) == [c EXCEPT !.ttl = c.n > 0]

ExpireAccount(a) ==
    /\ pc[a] = "expire_account"
    /\ count' = [count EXCEPT ![User(a)] = WithTtl(@)]
    /\ Goto(a, "incr_ip")
    /\ UNCHANGED <<lock, captcha, given, fails, result, logged, proof, faults, History>>

(* The failure is on record once the last of these calls has been made.      *)
OnRecord(a) ==
    recorded' = [k \in Keys |-> IF k \in counted[a] THEN recorded[k] + 1 ELSE recorded[k]]

(* Faulty variant: one failure more than the threshold.                      *)
Locks_Late(a) == fails[a] > LockThreshold

Locks(a) == fails[a] >= LockThreshold

ExpireIp(a) ==
    /\ pc[a] = "expire_ip"
    /\ count' = [count EXCEPT ![Address] = WithTtl(@)]
    /\ IF Locks(a) THEN Goto(a, "set_lock") /\ UNCHANGED recorded
                   ELSE Goto(a, "log") /\ OnRecord(a)
    /\ UNCHANGED <<lock, captcha, given, fails, result, logged, proof, before, counted, faults>>

SetLock(a) ==
    /\ pc[a] = "set_lock"
    /\ lock' = [lock EXCEPT ![User(a)] = TRUE]
    /\ Goto(a, "log") /\ OnRecord(a)
    /\ UNCHANGED <<count, captcha, given, fails, result, logged, proof, before, counted, faults>>

(* clear_on_success: the account's count and lock, never the address's.      *)
Cleared(a) == {User(a)}

ClearCount(a) ==
    /\ pc[a] = "clear_count"
    /\ count' = [k \in Keys |-> IF k \in Cleared(a) THEN Missing ELSE count[k]]
    /\ Forget(User(a))
    /\ Goto(a, "clear_lock")
    /\ UNCHANGED <<lock, captcha, given, fails, result, logged, proof, faults>>

ClearLock(a) ==
    /\ pc[a] = "clear_lock"
    /\ lock' = [lock EXCEPT ![User(a)] = FALSE]
    /\ Forget(User(a))
    /\ Goto(a, "log")
    /\ UNCHANGED <<count, captcha, given, fails, result, logged, proof, faults>>

(* Faulty variant: attempts during a lock leave no row.                      *)
LogRow_NotLocked(a) == IF result[a] = "locked" THEN None ELSE result[a]

LogRow(a) == result[a]

(* record_login_attempt, in a session of its own, then the answer.           *)
Log(a) ==
    /\ pc[a] = "log"
    /\ logged' = [logged EXCEPT ![a] = LogRow(a)]
    /\ Leave(a, "done")
    /\ UNCHANGED <<count, lock, captcha, result, proof, recorded, faults>>

------------------------------------------------------------------------------
(* A call of Redis fails: before the password the guard asks for a captcha,  *)
(* which then fails too or works again; afterwards the error is swallowed.   *)
RedisFails(a) ==
    /\ pc[a] \notin {"idle", "verify", "log", "done", "dead"}
    /\ faults > 0 /\ faults' = faults - 1
    /\ result' = [result EXCEPT ![a] = IF pc[a] = "captcha" THEN "captcha_required" ELSE @]
    /\ Goto(a, IF pc[a] \in {"get_lock", "get_account", "get_ip"} THEN "captcha" ELSE "log")
    /\ UNCHANGED <<count, lock, captcha, given, fails, logged, proof, History>>

(* The database fails: no login (500), or a login without a row in the log.  *)
DatabaseFails(a) ==
    /\ pc[a] \in {"verify", "log"}
    /\ faults > 0 /\ faults' = faults - 1
    /\ result' = [result EXCEPT ![a] = IF pc[a] = "verify" THEN "error" ELSE @]
    /\ Leave(a, "done")
    /\ UNCHANGED <<count, lock, captcha, logged, proof, recorded>>

(* The handler dies where it is.                                             *)
Die(a) ==
    /\ a \in Active
    /\ faults > 0 /\ faults' = faults - 1
    /\ Leave(a, "dead")
    /\ UNCHANGED <<count, lock, captcha, result, logged, proof, recorded>>

(* The captcha endpoint, and TTLs running out.                               *)
IssueCaptcha(c) ==
    /\ captcha[c] = "new"
    /\ captcha' = [captcha EXCEPT ![c] = "live"]
    /\ UNCHANGED <<count, lock, given, pc, fails, result, logged, proof, faults, History>>

CaptchaExpires(c) ==
    /\ captcha[c] = "live"
    /\ captcha' = [captcha EXCEPT ![c] = "gone"]
    /\ UNCHANGED <<count, lock, given, pc, fails, result, logged, proof, faults, History>>

CountExpires(k) ==
    /\ count[k].ttl
    /\ count' = [count EXCEPT ![k] = Missing]
    /\ Forget(k)
    /\ UNCHANGED <<lock, captcha, given, pc, fails, result, logged, proof, faults>>

LockExpires(u) ==
    /\ lock[u]
    /\ lock' = [lock EXCEPT ![u] = FALSE]
    /\ Forget(u)
    /\ UNCHANGED <<count, captcha, given, pc, fails, result, logged, proof, faults>>

Next ==
    \/ \E a \in Attempts :
          \/ Arrive(a) \/ GetLock(a) \/ GetAccount(a) \/ GetIp(a) \/ VerifyCaptcha(a) \/ Verify(a)
          \/ IncrAccount(a) \/ ExpireAccount(a) \/ IncrIp(a) \/ ExpireIp(a) \/ SetLock(a)
          \/ ClearCount(a) \/ ClearLock(a) \/ Log(a)
          \/ RedisFails(a) \/ DatabaseFails(a) \/ Die(a)
    \/ \E c \in Captchas : IssueCaptcha(c) \/ CaptchaExpires(c)
    \/ \E k \in Keys : CountExpires(k)
    \/ \E u \in Accounts : LockExpires(u)

Spec == Init /\ [][Next]_vars

------------------------------------------------------------------------------
(* No password is checked for an attempt that arrived when as many failures  *)
(* of its account, or of its address, were already on record as lock the     *)
(* account or block the address, since a key expired or the account logged   *)
(* in (login_guard.py:74). Only a call of Redis that fails makes an          *)
(* exception, against a captcha.                                             *)
Checked(a) == pc[a] = "verify"

GuessesAreBounded ==
    \A a \in Attempts : Checked(a) /\ faults = Faults =>
        before[a][User(a)] < LockThreshold /\ before[a][Address] < IpLimit

(* Nor, without a captcha, for one that arrived when as many failures of its *)
(* account were already on record as call for one, whichever calls of Redis  *)
(* fail (login_guard.py:57).                                                 *)
CaptchaIsAsked ==
    \A a \in Attempts : Checked(a) /\ proof[a] = None => before[a][User(a)] < CaptchaThreshold

(* A captcha lets one attempt through, however many present it at the same   *)
(* moment (captcha.py:47).                                                   *)
CaptchaWorksOnce ==
    \A a, b \in Attempts : a # b /\ proof[a] # None => proof[a] # proof[b]

(* What an attempt needs to get as far as the password: the three parts      *)
(* above, and no variable leaves its type.                                   *)
PasswordsAreGuarded == TypeOK /\ GuessesAreBounded /\ CaptchaIsAsked /\ CaptchaWorksOnce

(* Every attempt that was answered has one row in the login log, with the    *)
(* reason of its answer, unless a call failed (auth/service.py:187: the row  *)
(* is written after the transaction).                                        *)
EveryAttemptIsLogged ==
    \A a \in Attempts :
        /\ pc[a] = "done" /\ faults = Faults => logged[a] = result[a] /\ result[a] # None
        /\ logged[a] # None => logged[a] = result[a]

(* A blocked address does not stay blocked: its count has a TTL, or a        *)
(* handler is about to give it one, although the handler that counts may die *)
(* in between and attempts on a blocked address set none                     *)
(* (login_guard.py:72). Fewer faults than the limit, or this does not hold.  *)
BlocksEnd ==
    count[Address].n >= IpLimit => count[Address].ttl \/ \E a \in Attempts : pc[a] = "expire_ip"
==============================================================================
