----------------------------- MODULE LoginProofs -----------------------------
(* The login guard, for any number of attempts, accounts and captchas, any   *)
(* thresholds and any number of faults: what it takes to have a password     *)
(* checked, the row of every answered attempt, and the end of every block.   *)
EXTENDS Login, FiniteSetTheorems, TLAPS

(* How the sizes of finite sets compare.                                     *)
LEMMA SizeOfSubset ==
    ASSUME NEW S, IsFiniteSet(S), NEW T \in SUBSET S
    PROVE  IsFiniteSet(T) /\ Cardinality(T) \in Nat /\ Cardinality(T) <= Cardinality(S)
  BY FS_Subset, FS_CardinalityType

LEMMA SizeWithOneMore ==
    ASSUME NEW S, IsFiniteSet(S), NEW a, NEW T \in SUBSET (S \cup {a})
    PROVE  Cardinality(T) <= Cardinality(S) + 1
  <1>1. IsFiniteSet(S \cup {a}) /\ Cardinality(S \cup {a}) <= Cardinality(S) + 1
    <2>1. Cardinality(S) \in Nat
      BY FS_CardinalityType
    <2>2. IsFiniteSet(S \cup {a}) /\ (Cardinality(S \cup {a}) = IF a \in S THEN Cardinality(S) ELSE Cardinality(S) + 1)
      BY FS_AddElement
    <2> QED BY <2>1, <2>2
  <1>2. Cardinality(T) \in Nat /\ Cardinality(T) <= Cardinality(S \cup {a}) /\ Cardinality(S \cup {a}) \in Nat
    BY <1>1, SizeOfSubset, FS_CardinalityType
  <1>3. Cardinality(S) \in Nat
    BY FS_CardinalityType
  <1> QED BY <1>1, <1>2, <1>3

LEMMA SizeWithOneLess ==
    ASSUME NEW S, IsFiniteSet(S), NEW a \in S, NEW T \in SUBSET (S \ {a})
    PROVE  Cardinality(T) + 1 <= Cardinality(S)
  <1>1. IsFiniteSet(S \ {a}) /\ Cardinality(S \ {a}) = Cardinality(S) - 1
    BY FS_RemoveElement
  <1> QED BY <1>1, SizeOfSubset, FS_CardinalityType

------------------------------------------------------------------------------
PcValues == {"idle", "get_lock", "get_account", "get_ip", "captcha", "verify",
             "incr_account", "expire_account", "incr_ip", "expire_ip", "set_lock",
             "clear_count", "clear_lock", "log", "done", "dead"}

(* An attempt that has counted its failure and has not put it on record, and *)
(* one that has its turn at a counter behind it.                             *)
Pending == {"expire_account", "incr_ip", "expire_ip", "set_lock"}
PastIp == {"expire_ip", "set_lock", "log", "done", "dead"}
PastAccount == PastIp \cup {"expire_account", "incr_ip"}
Settled == Pending \cup {"incr_account", "clear_count", "clear_lock", "log", "done"}

PendingOn(k) == {b \in Attempts : pc[b] \in Pending /\ k \in counted[b]}
BelowLock(u) == {b \in PendingOn(u) : fails[b] < LockThreshold}
Past(k) == {b \in Attempts : pc[b] \in (IF k = Address THEN PastIp ELSE PastAccount)}
Expiring == {b \in Attempts : pc[b] = "expire_ip"}

(* The types, the bounds of the counters left to the counting below.         *)
ShapeOK ==
    /\ count \in [Keys -> [n : Nat, ttl : BOOLEAN]]
    /\ \A k \in Keys : count[k].n = 0 => ~count[k].ttl
    /\ lock \in [Accounts -> BOOLEAN]
    /\ captcha \in [Captchas -> {"new", "live", "gone"}]
    /\ given \in [Attempts -> Given \cup {None}]
    /\ pc \in [Attempts -> PcValues]
    /\ fails \in [Attempts -> 0 .. Bound]
    /\ result \in [Attempts -> Statuses \cup {None, "error"}]
    /\ logged \in [Attempts -> Statuses \cup {None}]
    /\ proof \in [Attempts -> Captchas \cup {None}]
    /\ before \in [Attempts -> [Keys -> Nat]]
    /\ recorded \in [Keys -> Nat]
    /\ counted \in [Attempts -> SUBSET Keys]
    /\ faults \in 0 .. Faults

(* What an attempt has on its way to the password, and to its answer.        *)
Local(a) ==
    /\ pc[a] \notin {"idle", "done", "dead"} => given[a] \in Given
    /\ counted[a] = {} \/ (pc[a] \in Pending \cup {"log"} /\ counted[a] \subseteq {User(a), Address})
    /\ pc[a] = "get_ip" => before[a][User(a)] <= fails[a]
    /\ pc[a] = "verify" /\ proof[a] = None => before[a][User(a)] < CaptchaThreshold
    /\ logged[a] # None => pc[a] = "done" /\ logged[a] = result[a]
    /\ result[a] = "error" => pc[a] = "done"
    /\ faults = Faults =>
          /\ pc[a] \in {"get_account", "get_ip", "captcha", "verify"} => before[a][User(a)] < LockThreshold
          /\ pc[a] \in {"captcha", "verify"} => before[a][Address] < IpLimit
          /\ pc[a] \in Settled => result[a] # None
          /\ pc[a] = "done" => logged[a] = result[a]

(* What was on record on arrival still is, unless the key was reset. What is *)
(* on record or about to be has been counted, and every count was made by an *)
(* attempt that is past its turn.                                            *)
OnRecordOK == \A a \in Attempts, k \in Keys : before[a][k] <= recorded[k]

CountOK(k) ==
    /\ count[k].n <= Cardinality(Past(k))
    /\ recorded[k] + Cardinality(PendingOn(k)) <= count[k].n

Counts == \A k \in Keys : CountOK(k)

(* Without a lock, the failures of the account, with those that will not     *)
(* lock it either, stay below the threshold.                                 *)
UnlockedOK(u) == ~lock[u] => recorded[u] + Cardinality(BelowLock(u)) < LockThreshold

Unlocked == \A u \in Accounts : UnlockedOK(u)

(* A captcha that somebody has passed is gone.                               *)
Spent == \A a \in Attempts : proof[a] # None => captcha[proof[a]] = "gone"

(* A count of the address without a TTL: one per handler that died before it *)
(* gave it one, and per handler that is about to.                            *)
Blocks == ~count[Address].ttl => count[Address].n <= (Faults - faults) + Cardinality(Expiring)

LoginInv ==
    /\ ShapeOK /\ (\A a \in Attempts : Local(a)) /\ OnRecordOK /\ Counts /\ Unlocked
    /\ Spent /\ CaptchaWorksOnce /\ Blocks

LEMMA InitLogin == Init => LoginInv
  <1> SUFFICES ASSUME Init
               PROVE  LoginInv
    OBVIOUS
  <1>1. Bound \in Nat
    BY LoginAssumption, FS_CardinalityType DEF Bound
  <1>2. ShapeOK
    BY <1>1, LoginAssumption DEF Init, ShapeOK, PcValues, Keys, Missing
  <1>3. \A a \in Attempts : Local(a)
    BY NoneAssumption DEF Init, Local, Pending, Settled
  <1>4. \A k \in Keys : /\ PendingOn(k) = {} /\ Past(k) = {}
                        /\ \A u \in Accounts : BelowLock(u) = {}
    BY DEF Init, PendingOn, Past, BelowLock, Pending, PastIp, PastAccount
  <1>5. Expiring = {} /\ Address \in Keys /\ \A u \in Accounts : BelowLock(u) = {}
    BY DEF Init, Expiring, Keys, BelowLock, PendingOn, Pending
  <1>6. OnRecordOK /\ Counts /\ Unlocked /\ Blocks
    <2>1. Cardinality({}) = 0
      BY FS_EmptySet
    <2>2. \A k \in Keys : count[k] = Missing /\ recorded[k] = 0 /\ \A a \in Attempts : before[a][k] = 0
      BY DEF Init
    <2>3. OnRecordOK
      BY <2>2 DEF OnRecordOK
    <2>4. Counts
      BY <1>4, <2>1, <2>2 DEF Counts, CountOK, Missing
    <2>5. Unlocked
      BY <1>5, <2>1, <2>2, LoginAssumption DEF Unlocked, UnlockedOK, Keys
    <2>6. Blocks
      BY <1>5, <2>1, <2>2, LoginAssumption DEF Blocks, Missing, Init
    <2> QED BY <2>3, <2>4, <2>5, <2>6
  <1>7. Spent /\ CaptchaWorksOnce
    BY DEF Init, Spent, CaptchaWorksOnce
  <1> QED BY <1>2, <1>3, <1>6, <1>7 DEF LoginInv

------------------------------------------------------------------------------
(* What a step that is not its own leaves an attempt.                        *)
LEMMA LocalFrame ==
    ASSUME ShapeOK, NEW b \in Attempts, Local(b),
           pc'[b] = pc[b], given'[b] = given[b], fails'[b] = fails[b],
           result'[b] = result[b], logged'[b] = logged[b], proof'[b] = proof[b],
           before'[b] \in [Keys -> Nat], \A k \in Keys : before'[b][k] <= before[b][k],
           counted'[b] \subseteq counted[b],
           faults' = Faults => faults = Faults
    PROVE  Local(b)'
  <1>1. User(b)' = User(b)
    BY DEF User
  <1>2. pc[b] \notin {"idle", "done", "dead"} => User(b) \in Keys
    BY DEF Local, User, Given, Keys
  <1>3. Address \in Keys /\ \A k \in Keys : before[b][k] \in Nat /\ before'[b][k] \in Nat
    BY DEF ShapeOK, Keys
  <1>4. before'[b][Address] <= before[b][Address] /\ (User(b) \in Keys => before'[b][User(b)] <= before[b][User(b)])
    BY <1>3
  <1>5. LockThreshold \in Nat /\ IpLimit \in Nat /\ CaptchaThreshold \in Nat /\ fails[b] \in Int
    BY LoginAssumption DEF ShapeOK
  <1> QED BY <1>1, <1>2, <1>3, <1>4, <1>5 DEF Local

(* The attempts behind a count are finitely many.                            *)
LEMMA Sizes ==
    ASSUME NEW k
    PROVE  /\ IsFiniteSet(PendingOn(k)) /\ IsFiniteSet(PendingOn(k)')
           /\ IsFiniteSet(Past(k)) /\ IsFiniteSet(Past(k)')
           /\ IsFiniteSet(BelowLock(k)) /\ IsFiniteSet(BelowLock(k)')
           /\ Cardinality(PendingOn(k)) \in Nat /\ Cardinality(PendingOn(k)') \in Nat
           /\ Cardinality(Past(k)) \in Nat /\ Cardinality(Past(k)') \in Nat
           /\ Cardinality(BelowLock(k)) \in Nat /\ Cardinality(BelowLock(k)') \in Nat
  <1>1. IsFiniteSet(Attempts)
    BY LoginAssumption
  <1>2. /\ PendingOn(k) \in SUBSET Attempts /\ PendingOn(k)' \in SUBSET Attempts
        /\ Past(k) \in SUBSET Attempts /\ Past(k)' \in SUBSET Attempts
        /\ BelowLock(k) \in SUBSET Attempts /\ BelowLock(k)' \in SUBSET Attempts
    BY DEF PendingOn, Past, BelowLock
  <1> QED BY <1>1, <1>2, SizeOfSubset

(* Nobody returns from behind a counter, whatever the step.                  *)
Onward == \A b \in Attempts : /\ pc[b] \in PastIp => pc'[b] \in PastIp
                              /\ pc[b] \in PastAccount => pc'[b] \in PastAccount

(* A step that neither counts nor records a failure under a key.             *)
LEMMA CountFrame ==
    ASSUME ShapeOK, ShapeOK', NEW k \in Keys, CountOK(k), Onward,
           count'[k].n = count[k].n, recorded'[k] = recorded[k],
           \A b \in Attempts : pc'[b] \in Pending /\ k \in counted'[b] => pc[b] \in Pending /\ k \in counted[b]
    PROVE  CountOK(k)'
  <1>1. PendingOn(k)' \in SUBSET PendingOn(k) /\ Past(k) \in SUBSET Past(k)'
    BY DEF PendingOn, Past, Onward
  <1>2. Cardinality(PendingOn(k)') <= Cardinality(PendingOn(k)) /\ Cardinality(Past(k)) <= Cardinality(Past(k)')
    BY <1>1, Sizes, SizeOfSubset
  <1>3. count[k].n \in Nat /\ recorded[k] \in Nat
    BY DEF ShapeOK
  <1> QED BY <1>2, <1>3, Sizes DEF CountOK

LEMMA UnlockedFrame ==
    ASSUME ShapeOK, ShapeOK', NEW u \in Accounts, UnlockedOK(u),
           recorded'[u] = recorded[u], lock'[u] = lock[u],
           \A b \in Attempts : pc'[b] \in Pending /\ u \in counted'[b]
                                   => pc[b] \in Pending /\ u \in counted[b] /\ fails'[b] = fails[b]
    PROVE  UnlockedOK(u)'
  <1>1. BelowLock(u)' \in SUBSET BelowLock(u)
    BY DEF PendingOn, BelowLock
  <1>2. Cardinality(BelowLock(u)') <= Cardinality(BelowLock(u))
    BY <1>1, Sizes, SizeOfSubset
  <1>3. recorded[u] \in Nat /\ LockThreshold \in Nat
    BY LoginAssumption DEF ShapeOK, Keys
  <1> QED BY <1>2, <1>3, Sizes DEF UnlockedOK

(* A step that counts nothing, records nothing and resets nothing.           *)
LEMMA QuietStep ==
    ASSUME ShapeOK, ShapeOK', Counts, Unlocked, Onward,
           \A k \in Keys : count'[k].n = count[k].n,
           recorded' = recorded, lock' = lock,
           \A b \in Attempts : counted'[b] \subseteq counted[b],
           \A b \in Attempts : pc'[b] \in Pending => pc[b] \in Pending /\ fails'[b] = fails[b]
    PROVE  Counts' /\ Unlocked'
  <1>1. ASSUME NEW k \in Keys
        PROVE  CountOK(k)'
    BY CountFrame DEF Counts
  <1>2. ASSUME NEW u \in Accounts
        PROVE  UnlockedOK(u)'
    BY UnlockedFrame DEF Unlocked
  <1>3. Keys' = Keys
    BY DEF Keys
  <1> QED BY <1>1, <1>2, <1>3 DEF Counts, Unlocked

(* Everything that was on record under a key is forgotten.                   *)
LEMMA ForgetStep ==
    ASSUME ShapeOK, ShapeOK', OnRecordOK, Counts, Unlocked, Onward, NEW k \in Keys, Forget(k),
           \A j \in Keys \ {k} : count'[j].n = count[j].n,
           count'[k].n \in {0, count[k].n},
           \A u \in Accounts \ {k} : lock'[u] = lock[u],
           fails' = fails, \A b \in Attempts : pc'[b] \in Pending => pc[b] \in Pending
    PROVE  OnRecordOK' /\ Counts' /\ Unlocked'
  <1>1. /\ \A a \in Attempts : k \notin counted'[a] /\ before'[a][k] = 0
        /\ recorded'[k] = 0
        /\ \A j \in Keys \ {k} : recorded'[j] = recorded[j]
        /\ \A a \in Attempts, j \in Keys \ {k} : before'[a][j] = before[a][j] /\ (j \in counted'[a] => j \in counted[a])
    BY DEF Forget, ShapeOK
  <1>2. PendingOn(k)' = {} /\ BelowLock(k)' = {} /\ Cardinality({}) = 0
    BY <1>1, FS_EmptySet DEF PendingOn, BelowLock
  <1>3. CountOK(k)'
    <2>1. Past(k) \in SUBSET Past(k)'
      BY DEF Past, Onward
    <2>2. Cardinality(Past(k)) <= Cardinality(Past(k)')
      BY <2>1, Sizes, SizeOfSubset
    <2>3. count[k].n \in Nat /\ count[k].n <= Cardinality(Past(k))
      BY DEF ShapeOK, Counts, CountOK
    <2> QED BY <1>1, <1>2, <2>2, <2>3, Sizes DEF CountOK
  <1>4. ASSUME NEW j \in Keys \ {k}
        PROVE  CountOK(j)'
    BY <1>1, CountFrame DEF Counts
  <1>5. ASSUME NEW u \in Accounts
        PROVE  UnlockedOK(u)'
    <2>1. CASE u = k
      <3>1. recorded'[u] = 0 /\ Cardinality(BelowLock(u)') = 0
        BY <1>1, <1>2, <2>1
      <3>2. 0 < LockThreshold
        BY LoginAssumption
      <3> QED BY <3>1, <3>2 DEF UnlockedOK
    <2>2. CASE u # k
      BY <1>1, <2>2, UnlockedFrame DEF Unlocked, Keys
    <2> QED BY <2>1, <2>2
  <1>6. OnRecordOK'
    BY <1>1 DEF OnRecordOK, ShapeOK, Keys
  <1>7. Keys' = Keys
    BY DEF Keys
  <1> QED BY <1>3, <1>4, <1>5, <1>6, <1>7 DEF Counts, Unlocked

(* An attempt counts its failure under a key.                                *)
LEMMA CountStep ==
    ASSUME ShapeOK, ShapeOK', Counts, Unlocked, Onward, NEW a \in Attempts, NEW k \in Keys,
           count' = [count EXCEPT ![k].n = @ + 1],
           counted' = [counted EXCEPT ![a] = @ \cup {k}],
           recorded' = recorded, lock' = lock,
           pc'[a] \in Pending, \A b \in Attempts \ {a} : pc'[b] = pc[b] /\ fails'[b] = fails[b],
           a \notin Past(k), a \in Past(k)',
           \/ k = Address /\ pc[a] \in Pending /\ fails'[a] = fails[a]
           \/ k # Address /\ counted[a] = {} /\ fails'[a] = count[k].n + 1
    PROVE  Counts' /\ Unlocked'
  <1>0. /\ count[k].n \in Nat /\ count'[k].n = count[k].n + 1 /\ recorded[k] \in Nat
        /\ \A j \in Keys \ {k} : count'[j] = count[j]
        /\ counted'[a] = counted[a] \cup {k} /\ \A b \in Attempts \ {a} : counted'[b] = counted[b]
    BY DEF ShapeOK
  <1>1. CountOK(k)'
    <2>1. PendingOn(k)' \in SUBSET (PendingOn(k) \cup {a}) /\ Past(k) \in SUBSET (Past(k)' \ {a}) /\ a \in Past(k)'
      BY <1>0 DEF PendingOn, Past, Onward
    <2>2. Cardinality(PendingOn(k)') <= Cardinality(PendingOn(k)) + 1 /\ Cardinality(Past(k)) + 1 <= Cardinality(Past(k)')
      BY <2>1, Sizes, SizeWithOneMore, SizeWithOneLess
    <2> QED BY <1>0, <2>2, Sizes DEF Counts, CountOK
  <1>2. ASSUME NEW j \in Keys \ {k}
        PROVE  CountOK(j)'
    BY <1>0, CountFrame DEF Counts
  <1>3. ASSUME NEW u \in Accounts \ {k}
        PROVE  UnlockedOK(u)'
    BY <1>0, UnlockedFrame DEF Unlocked, Keys
  <1>4. ASSUME k # Address
        PROVE  UnlockedOK(k)'
    <2>1. CASE fails'[a] >= LockThreshold
      <3>1. BelowLock(k)' \in SUBSET BelowLock(k)
        BY <1>0, <2>1, LoginAssumption DEF BelowLock, PendingOn, ShapeOK
      <3>2. Cardinality(BelowLock(k)') <= Cardinality(BelowLock(k))
        BY <3>1, Sizes, SizeOfSubset
      <3>3. UnlockedOK(k) /\ LockThreshold \in Nat
        BY <1>4, LoginAssumption DEF Unlocked, Keys
      <3> QED BY <1>0, <3>2, <3>3, Sizes DEF UnlockedOK
    <2>2. CASE fails'[a] < LockThreshold
      <3>1. BelowLock(k)' \in SUBSET PendingOn(k)'
        BY DEF BelowLock
      <3>2. Cardinality(BelowLock(k)') <= Cardinality(PendingOn(k)')
        BY <3>1, Sizes, SizeOfSubset
      <3>3. recorded'[k] + Cardinality(PendingOn(k)') <= count'[k].n
        BY <1>1 DEF CountOK
      <3>4. LockThreshold \in Nat /\ k \in Keys
        BY LoginAssumption
      <3> QED BY <1>0, <1>4, <2>2, <3>2, <3>3, <3>4, Sizes, LoginAssumption DEF UnlockedOK
    <2> QED BY <1>0, <1>4, <2>1, <2>2, LoginAssumption
  <1>5. Keys' = Keys
    BY DEF Keys
  <1> QED BY <1>1, <1>2, <1>3, <1>4, <1>5, LoginAssumption DEF Counts, Unlocked, Keys

(* A failure that has been counted is put on record: it locks, or it is one  *)
(* of those below the threshold.                                             *)
LEMMA RecordStep ==
    ASSUME ShapeOK, ShapeOK', Counts, Unlocked, Onward, NEW a \in Attempts, OnRecord(a),
           pc[a] \in Pending, pc'[a] = "log", counted[a] \subseteq {User(a), Address},
           \A k \in Keys : count'[k].n = count[k].n,
           \A b \in Attempts \ {a} : pc'[b] = pc[b],
           counted' = counted, fails' = fails,
           \A u \in Accounts : lock'[u] \/ (lock'[u] = lock[u] /\ (u \in counted[a] => fails[a] < LockThreshold))
    PROVE  Counts' /\ Unlocked'
  <1>0. pc'[a] \notin Pending
    BY DEF Pending
  <1>1. ASSUME NEW k \in Keys
        PROVE  CountOK(k)'
    <2>1. CASE k \in counted[a]
      <3>1. PendingOn(k)' \in SUBSET (PendingOn(k) \ {a}) /\ a \in PendingOn(k) /\ Past(k) \in SUBSET Past(k)'
        BY <1>0, <2>1 DEF PendingOn, Past, Onward
      <3>2. Cardinality(PendingOn(k)') + 1 <= Cardinality(PendingOn(k)) /\ Cardinality(Past(k)) <= Cardinality(Past(k)')
        BY <3>1, Sizes, SizeOfSubset, SizeWithOneLess
      <3>3. recorded'[k] = recorded[k] + 1 /\ recorded[k] \in Nat /\ count[k].n \in Nat
        BY <2>1 DEF OnRecord, ShapeOK
      <3> QED BY <3>2, <3>3, Sizes DEF Counts, CountOK
    <2>2. CASE k \notin counted[a]
      <3>1. recorded'[k] = recorded[k]
        BY <2>2 DEF OnRecord, ShapeOK
      <3>2. \A b \in Attempts : pc'[b] \in Pending => pc[b] \in Pending
        BY <1>0
      <3> QED BY <3>1, <3>2, CountFrame DEF Counts
    <2> QED BY <2>1, <2>2
  <1>2. ASSUME NEW u \in Accounts
        PROVE  UnlockedOK(u)'
    <2>0. u \in Keys
      BY DEF Keys
    <2>1. CASE lock'[u]
      BY <2>1 DEF UnlockedOK
    <2>2. CASE ~lock'[u] /\ u \in counted[a]
      <3>1. BelowLock(u)' \in SUBSET (BelowLock(u) \ {a}) /\ a \in BelowLock(u)
        BY <1>0, <2>2 DEF PendingOn, BelowLock
      <3>2. Cardinality(BelowLock(u)') + 1 <= Cardinality(BelowLock(u))
        BY <3>1, Sizes, SizeWithOneLess
      <3>3. recorded'[u] = recorded[u] + 1 /\ recorded[u] \in Nat /\ LockThreshold \in Nat
        BY <2>0, <2>2, LoginAssumption DEF OnRecord, ShapeOK
      <3> QED BY <2>2, <3>2, <3>3, Sizes DEF Unlocked, UnlockedOK
    <2>3. CASE ~lock'[u] /\ u \notin counted[a]
      <3>1. recorded'[u] = recorded[u]
        BY <2>0, <2>3 DEF OnRecord, ShapeOK
      <3>2. \A b \in Attempts : pc'[b] \in Pending => pc[b] \in Pending
        BY <1>0
      <3> QED BY <2>3, <3>1, <3>2, UnlockedFrame DEF Unlocked
    <2> QED BY <2>1, <2>2, <2>3
  <1>3. Keys' = Keys
    BY DEF Keys
  <1> QED BY <1>1, <1>2, <1>3 DEF Counts, Unlocked

LEMMA CountsBounded ==
    ASSUME ShapeOK, NEW k \in Keys, CountOK(k)
    PROVE  /\ count[k].n \in 0 .. Bound /\ recorded[k] \in 0 .. Bound
           /\ recorded[k] <= count[k].n
           /\ \A a \in Attempts : a \notin Past(k) => count[k].n + 1 \in 0 .. Bound
  <1>1. Past(k) \in SUBSET Attempts /\ IsFiniteSet(Attempts) /\ Bound \in Nat
    BY LoginAssumption, FS_CardinalityType DEF Past, Bound
  <1>2. Cardinality(Past(k)) <= Bound
    BY <1>1, SizeOfSubset DEF Bound
  <1>3. count[k].n \in Nat /\ recorded[k] \in Nat
    BY DEF ShapeOK
  <1>4. ASSUME NEW a \in Attempts, a \notin Past(k)
        PROVE  count[k].n + 1 \in 0 .. Bound
    <2>1. Past(k) \in SUBSET (Attempts \ {a})
      BY <1>1, <1>4
    <2>2. Cardinality(Past(k)) + 1 <= Bound
      BY <1>1, <2>1, SizeWithOneLess DEF Bound
    <2> QED BY <1>1, <1>3, <2>2, Sizes DEF CountOK
  <1> QED BY <1>1, <1>2, <1>3, <1>4, Sizes DEF CountOK

LEMMA CaptchaFrame ==
    ASSUME Spent, CaptchaWorksOnce, TypeOK \/ ShapeOK, proof' = proof,
           \A c \in Captchas : captcha[c] = "gone" => captcha'[c] = "gone"
    PROVE  Spent' /\ CaptchaWorksOnce'
  <1>1. proof \in [Attempts -> Captchas \cup {None}]
    BY DEF TypeOK, ShapeOK
  <1> QED BY <1>1 DEF Spent, CaptchaWorksOnce

LEMMA BlocksFrame ==
    ASSUME ShapeOK, ShapeOK', Blocks, NEW a,
           count'[Address] = count[Address] \/ count'[Address].ttl \/ count'[Address].n = 0,
           \/ faults' = faults /\ \A b \in Attempts : pc[b] = "expire_ip" => pc'[b] = "expire_ip"
           \/ faults' = faults - 1 /\ \A b \in Attempts \ {a} : pc[b] = "expire_ip" => pc'[b] = "expire_ip"
           \/ count'[Address].ttl \/ count'[Address].n = 0
    PROVE  Blocks'
  <1>0. /\ IsFiniteSet(Expiring) /\ IsFiniteSet(Expiring')
        /\ Cardinality(Expiring) \in Nat /\ Cardinality(Expiring') \in Nat
    <2>1. Expiring \in SUBSET Attempts /\ Expiring' \in SUBSET Attempts
      BY DEF Expiring
    <2> QED BY <2>1, LoginAssumption, SizeOfSubset
  <1>1. /\ Faults \in Nat /\ faults \in Nat /\ faults' \in Nat /\ faults <= Faults /\ faults' <= Faults
        /\ count[Address].n \in Nat /\ count'[Address].n \in Nat
    BY LoginAssumption DEF ShapeOK, Keys
  <1>2. CASE count'[Address].ttl \/ count'[Address].n = 0
    BY <1>0, <1>1, <1>2 DEF Blocks
  <1>3. CASE /\ count'[Address] = count[Address] /\ faults' = faults
             /\ \A b \in Attempts : pc[b] = "expire_ip" => pc'[b] = "expire_ip"
    <2>1. Expiring \in SUBSET Expiring'
      BY <1>3 DEF Expiring
    <2>2. Cardinality(Expiring) <= Cardinality(Expiring')
      BY <1>0, <2>1, SizeOfSubset
    <2> QED BY <1>0, <1>1, <1>3, <2>2 DEF Blocks
  <1>4. CASE /\ count'[Address] = count[Address] /\ faults' = faults - 1
             /\ \A b \in Attempts \ {a} : pc[b] = "expire_ip" => pc'[b] = "expire_ip"
    <2>1. Expiring \in SUBSET (Expiring' \cup {a})
      BY <1>4 DEF Expiring
    <2>2. Cardinality(Expiring) <= Cardinality(Expiring') + 1
      BY <1>0, <2>1, SizeWithOneMore
    <2> QED BY <1>0, <1>1, <1>4, <2>2 DEF Blocks
  <1> QED BY <1>2, <1>3, <1>4

------------------------------------------------------------------------------
(* The attempt arrives, reads what the guard reads, has its password checked.*)
LEMMA ArriveKeeps ==
    ASSUME LoginInv, NEW a \in Attempts, Arrive(a)
    PROVE  LoginInv'
  <1>0. PICK g \in Given : given' = [given EXCEPT ![a] = g]
    BY DEF Arrive
  <1>1. ShapeOK'
    BY <1>0 DEF LoginInv, ShapeOK, Arrive, Goto, PcValues
  <1>2. ASSUME NEW b \in Attempts
        PROVE  Local(b)'
    <2>1. CASE b = a
      BY <1>0, <2>1 DEF LoginInv, ShapeOK, Local, Arrive, Goto, Pending, Settled
    <2>2. CASE b # a
      <3>1. Local(b) /\ before' \in [Attempts -> [Keys -> Nat]] /\ before'[b] = before[b] /\ \A k \in Keys : before[b][k] \in Nat
        BY <1>1, <2>2 DEF LoginInv, ShapeOK, Arrive
      <3> QED BY SMTT(20), <2>2, <1>0, <3>1, LocalFrame DEF LoginInv, ShapeOK, Arrive, Goto
    <2> QED BY <2>1, <2>2
  <1>3. OnRecordOK'
    BY DEF LoginInv, ShapeOK, OnRecordOK, Arrive, Keys
  <1>4. Onward /\ \A b \in Attempts : pc'[b] \in Pending => pc[b] \in Pending
    BY DEF LoginInv, ShapeOK, Onward, PastIp, PastAccount, Pending, Arrive, Goto
  <1>5. Counts' /\ Unlocked'
    BY <1>1, <1>4, QuietStep DEF LoginInv, Arrive
  <1>6. Spent' /\ CaptchaWorksOnce'
    BY CaptchaFrame DEF LoginInv, Arrive
  <1>7. Blocks'
    <2>1. \A b \in Attempts : pc[b] = "expire_ip" => pc'[b] = "expire_ip"
      BY DEF LoginInv, ShapeOK, Arrive, Goto
    <2> QED BY <1>1, <2>1, BlocksFrame DEF LoginInv, Arrive
  <1> QED BY <1>1, <1>2, <1>3, <1>5, <1>6, <1>7 DEF LoginInv

Reads(a) == GetLock(a) \/ GetAccount(a) \/ GetIp(a) \/ Verify(a)

LEMMA ReadKeeps ==
    ASSUME LoginInv, NEW a \in Attempts, Reads(a)
    PROVE  LoginInv'
  <1>0. /\ given[a] \in Given /\ User(a) \in Accounts /\ User(a) \in Keys /\ Address \in Keys
        /\ pc[a] \in {"get_lock", "get_account", "get_ip", "verify"}
        /\ UNCHANGED <<count, lock, captcha, given, logged, proof, faults, before, recorded, counted>>
    BY DEF LoginInv, Local, Reads, GetLock, GetAccount, GetIp, Verify, User, Given, Keys, History
  <1>1. ShapeOK'
    <2>1. count[User(a)].n \in 0 .. Bound
      BY <1>0, CountsBounded DEF LoginInv, Counts
    <2>2. /\ pc' \in [Attempts -> PcValues]
          /\ fails' \in [Attempts -> 0 .. Bound]
          /\ result' \in [Attempts -> Statuses \cup {None, "error"}]
      BY <2>1 DEF LoginInv, ShapeOK, Reads, GetLock, GetAccount, GetIp, Verify, Goto, PcValues,
                  Statuses, AfterPreCheck
    <2> QED BY <1>0, <2>2 DEF LoginInv, ShapeOK
  <1>2. ASSUME NEW b \in Attempts
        PROVE  Local(b)'
    <2>1. CASE b # a
      <3>1. /\ pc'[b] = pc[b] /\ fails'[b] = fails[b] /\ result'[b] = result[b]
            /\ before'[b] \in [Keys -> Nat] /\ \A k \in Keys : before'[b][k] <= before[b][k]
        BY <1>0, <2>1 DEF LoginInv, ShapeOK, Reads, GetLock, GetAccount, GetIp, Verify, Goto
      <3> QED BY <1>0, <3>1, LocalFrame DEF LoginInv
    <2>2. CASE b = a
      <3>0. Local(a) /\ User(a)' = User(a) /\ logged[a] = None /\ counted[a] = {}
        BY <1>0 DEF LoginInv, Local, User, Pending
      <3>1. /\ before[a][User(a)] <= recorded[User(a)] /\ recorded[User(a)] <= count[User(a)].n
            /\ before[a][Address] <= recorded[Address] /\ recorded[Address] <= count[Address].n
            /\ recorded[User(a)] \in Nat /\ recorded[Address] \in Nat
            /\ before[a][User(a)] \in Nat /\ before[a][Address] \in Nat
            /\ count[User(a)].n \in Nat /\ count[Address].n \in Nat
        BY <1>0, CountsBounded DEF LoginInv, ShapeOK, OnRecordOK, Counts
      <3>2. LockThreshold \in Nat /\ IpLimit \in Nat /\ CaptchaThreshold \in Nat /\ None \notin Statuses
        BY LoginAssumption, NoneAssumption
      <3>3. CASE GetLock(a)
        <4>1. ~lock[User(a)] => recorded[User(a)] < LockThreshold
          BY <1>0, <3>1, <3>2, Sizes DEF LoginInv, Unlocked, UnlockedOK
        <4>2. /\ pc'[a] = IF lock[User(a)] THEN "incr_account" ELSE "get_account"
              /\ result'[a] = IF lock[User(a)] THEN "locked" ELSE result[a]
          BY <3>3 DEF GetLock, LoginInv, ShapeOK, Goto
        <4> QED BY <1>0, <2>2, <3>0, <3>1, <3>2, <4>1, <4>2 DEF Local, Settled, Pending, Statuses
      <3>4. CASE GetAccount(a)
        <4>1. /\ pc'[a] = "get_ip" /\ pc[a] = "get_account" /\ fails'[a] = count[User(a)].n
              /\ result'[a] = result[a]
          BY <3>4 DEF GetAccount, LoginInv, ShapeOK, Goto
        <4> QED BY <1>0, <2>2, <3>0, <3>1, <3>2, <4>1 DEF Local, Settled, Pending
      <3>5. CASE GetIp(a)
        <4>1. /\ pc[a] = "get_ip" /\ fails'[a] = fails[a] /\ fails[a] \in Int
              /\ \/ pc'[a] = "log" /\ result'[a] = "rate_limited"
                 \/ /\ count[Address].n < IpLimit /\ result'[a] = result[a]
                    /\ pc'[a] = "captcha" \/ (pc'[a] = "verify" /\ fails[a] < CaptchaThreshold)
          <5>1. pc[a] = "get_ip" /\ fails'[a] = fails[a] /\ fails[a] \in Int
            BY <3>5 DEF GetIp, LoginInv, ShapeOK
          <5>2. CASE count[Address].n >= IpLimit
            BY <3>5, <5>1, <5>2 DEF GetIp, LoginInv, ShapeOK, Goto
          <5>3. CASE ~(count[Address].n >= IpLimit)
            <6>1. pc'[a] = AfterPreCheck(a) /\ result'[a] = result[a]
              BY <3>5, <5>3 DEF GetIp, LoginInv, ShapeOK, Goto
            <6>2. count[Address].n < IpLimit
              BY <3>1, <3>2, <5>3
            <6>3. pc'[a] = "captcha" \/ (pc'[a] = "verify" /\ fails[a] < CaptchaThreshold)
              BY <3>2, <5>1, <6>1 DEF AfterPreCheck
            <6> QED BY <5>1, <6>1, <6>2, <6>3
          <5> QED BY <5>1, <5>2, <5>3
        <4> QED BY <1>0, <2>2, <3>0, <3>1, <3>2, <4>1 DEF Local, Settled, Pending, Statuses
      <3>6. CASE Verify(a)
        <4>1. /\ pc[a] = "verify" /\ pc'[a] \in {"clear_count", "incr_account"}
              /\ result'[a] \in Statuses
          BY <3>6 DEF Verify, LoginInv, ShapeOK, Goto, Statuses
        <4> QED BY <1>0, <2>2, <3>0, <3>2, <4>1 DEF Local, Settled, Pending, Statuses
      <3> QED BY <3>3, <3>4, <3>5, <3>6 DEF Reads
    <2> QED BY <2>1, <2>2
  <1>3. OnRecordOK'
    BY <1>0 DEF LoginInv, OnRecordOK, Keys
  <1>4. Onward /\ \A b \in Attempts : pc'[b] \in Pending => pc[b] \in Pending /\ fails'[b] = fails[b]
    BY DEF LoginInv, ShapeOK, Onward, PastIp, PastAccount, Pending, Reads, GetLock, GetAccount, GetIp,
           Verify, Goto, AfterPreCheck
  <1>5. Counts' /\ Unlocked'
    BY <1>0, <1>1, <1>4, QuietStep DEF LoginInv
  <1>6. Spent' /\ CaptchaWorksOnce'
    BY <1>0, CaptchaFrame DEF LoginInv
  <1>7. Blocks'
    <2>1. \A b \in Attempts : pc[b] = "expire_ip" => pc'[b] = "expire_ip"
      BY DEF LoginInv, ShapeOK, Reads, GetLock, GetAccount, GetIp, Verify, Goto
    <2> QED BY <1>0, <1>1, <2>1, BlocksFrame DEF LoginInv
  <1> QED BY <1>1, <1>2, <1>3, <1>5, <1>6, <1>7 DEF LoginInv

LEMMA VerifyCaptchaKeeps ==
    ASSUME LoginInv, NEW a \in Attempts, VerifyCaptcha(a)
    PROVE  LoginInv'
  <1> DEFINE g == given[a]
             passed == g.captcha # None /\ g.solved /\ captcha[g.captcha] = "live"
  <1>0. /\ g \in Given /\ User(a) \in Keys /\ Address \in Keys /\ pc[a] = "captcha"
        /\ UNCHANGED <<count, lock, given, fails, logged, before, recorded, counted, faults>>
    BY DEF LoginInv, Local, VerifyCaptcha, User, Given, Keys
  <1>1. /\ captcha' \in [Captchas -> {"new", "live", "gone"}]
        /\ \A c \in Captchas : captcha[c] = "gone" => captcha'[c] = "gone"
        /\ passed => g.captcha \in Captchas /\ captcha'[g.captcha] = "gone"
    <2>1. captcha' \in {captcha, Consumed(g.captcha)} /\ (g.solved => captcha' = Consumed(g.captcha))
      BY DEF VerifyCaptcha
    <2>2. g.captcha # None => g.captcha \in Captchas
      BY <1>0 DEF Given
    <2> QED BY <2>1, <2>2 DEF Consumed, LoginInv, ShapeOK
  <1>2. /\ pc' = [pc EXCEPT ![a] = IF passed THEN "verify" ELSE "log"]
        /\ proof' = [proof EXCEPT ![a] = IF passed THEN g.captcha ELSE @]
        /\ result' = [result EXCEPT ![a] = IF passed THEN @ ELSE "captcha_required"]
    BY DEF VerifyCaptcha, Goto
  <1>3. g.captcha \in Captchas \cup {None}
    BY <1>0 DEF Given
  <1> HIDE DEF g
  <1>4. ShapeOK'
    BY <1>0, <1>1, <1>2, <1>3 DEF LoginInv, ShapeOK, PcValues, Statuses
  <1>5. ASSUME NEW b \in Attempts
        PROVE  Local(b)'
    <2>1. CASE b # a
      <3>1. /\ pc'[b] = pc[b] /\ proof'[b] = proof[b] /\ result'[b] = result[b]
            /\ before'[b] \in [Keys -> Nat] /\ \A k \in Keys : before'[b][k] <= before[b][k]
        BY <1>0, <1>2, <2>1 DEF LoginInv, ShapeOK
      <3> QED BY <1>0, <3>1, LocalFrame DEF LoginInv
    <2>2. CASE b = a
      <3>0. Local(a) /\ User(a)' = User(a) /\ logged[a] = None /\ counted[a] = {}
        BY <1>0 DEF LoginInv, Local, User, Pending
      <3>1. CASE passed
        <4>1. pc'[a] = "verify" /\ proof'[a] # None /\ result'[a] = result[a]
          BY <1>2, <3>1 DEF LoginInv, ShapeOK
        <4> QED BY <1>0, <2>2, <3>0, <4>1 DEF g, Local, Settled, Pending
      <3>2. CASE ~passed
        <4>1. pc'[a] = "log" /\ result'[a] = "captcha_required"
          BY <1>2, <3>2 DEF LoginInv, ShapeOK
        <4> QED BY <1>0, <2>2, <3>0, <4>1, NoneAssumption DEF g, Local, Settled, Pending, Statuses
      <3> QED BY <3>1, <3>2
    <2> QED BY <2>1, <2>2
  <1>6. OnRecordOK'
    BY <1>0 DEF LoginInv, OnRecordOK, Keys
  <1>7. /\ Onward /\ \A b \in Attempts : pc'[b] \in Pending => pc[b] \in Pending /\ fails'[b] = fails[b]
        /\ \A b \in Attempts : pc[b] = "expire_ip" => pc'[b] = "expire_ip"
    BY <1>0, <1>2 DEF LoginInv, ShapeOK, Onward, PastIp, PastAccount, Pending
  <1>8. Counts' /\ Unlocked'
    BY <1>0, <1>4, <1>7, QuietStep DEF LoginInv
  <1>9. Spent' /\ CaptchaWorksOnce'
    <2>1. /\ \A b \in Attempts \ {a} : proof'[b] = proof[b]
          /\ proof'[a] = IF passed THEN g.captcha ELSE proof[a]
          /\ proof \in [Attempts -> Captchas \cup {None}]
      BY <1>2 DEF LoginInv, ShapeOK
    <2>2. Spent'
      BY <1>1, <2>1 DEF LoginInv, Spent
    <2>3. passed => \A b \in Attempts : proof[b] # g.captcha
      BY DEF LoginInv, Spent
    <2>4. CaptchaWorksOnce'
      <3>1. CASE passed
        BY <2>1, <2>3, <3>1 DEF LoginInv, CaptchaWorksOnce
      <3>2. CASE ~passed
        BY <2>1, <3>2 DEF LoginInv, CaptchaWorksOnce
      <3> QED BY <3>1, <3>2
    <2> QED BY <2>2, <2>4
  <1>10. Blocks'
    BY <1>0, <1>4, <1>7, BlocksFrame DEF LoginInv
  <1> QED BY <1>4, <1>5, <1>6, <1>8, <1>9, <1>10 DEF LoginInv

------------------------------------------------------------------------------
(* The failure is counted, the counters get their TTL, the account its lock. *)
LEMMA IncrKeepsShape ==
    ASSUME ShapeOK, NEW k \in Keys, count' = [count EXCEPT ![k].n = @ + 1]
    PROVE  count' \in [Keys -> [n : Nat, ttl : BOOLEAN]] /\ \A j \in Keys : count'[j].n = 0 => ~count'[j].ttl
  <1>1. count[k] \in [n : Nat, ttl : BOOLEAN]
    BY DEF ShapeOK
  <1>2. [count[k] EXCEPT !.n = @ + 1] \in [n : Nat, ttl : BOOLEAN] /\ [count[k] EXCEPT !.n = @ + 1].n # 0
    BY <1>1
  <1>3. count' = [count EXCEPT ![k] = [count[k] EXCEPT !.n = @ + 1]]
    OBVIOUS
  <1> HIDE <1>1
  <1> QED BY <1>2, <1>3 DEF ShapeOK

LEMMA IncrAccountKeeps ==
    ASSUME LoginInv, NEW a \in Attempts, IncrAccount(a)
    PROVE  LoginInv'
  <1> PICK u : u = User(a)
    OBVIOUS
  <1>0. /\ u \in Keys /\ u # Address /\ pc[a] = "incr_account" /\ counted[a] = {}
        /\ given[a] \in Given /\ Address \in Keys /\ logged[a] = None
        /\ result[a] # "error" /\ (faults = Faults => result[a] # None)
        /\ UNCHANGED <<lock, captcha, given, result, logged, proof, before, recorded, faults>>
    BY LoginAssumption DEF LoginInv, Local, IncrAccount, Incr, User, Given, Keys, Pending, Settled
  <1>1. /\ count' = [count EXCEPT ![u].n = @ + 1]
        /\ counted' = [counted EXCEPT ![a] = @ \cup {u}]
        /\ pc' = [pc EXCEPT ![a] = "expire_account"]
        /\ fails' = [fails EXCEPT ![a] = count[u].n + 1]
    BY DEF IncrAccount, Incr, Goto
  <1>2. a \notin Past(u) /\ a \in Past(u)'
    BY <1>0, <1>1 DEF Past, PastIp, PastAccount, LoginInv, ShapeOK
  <1>3. count[u].n + 1 \in 0 .. Bound
    BY <1>0, <1>2, CountsBounded DEF LoginInv, Counts
  <1>4. ShapeOK'
    <2>1. count' \in [Keys -> [n : Nat, ttl : BOOLEAN]] /\ \A k \in Keys : count'[k].n = 0 => ~count'[k].ttl
      BY <1>0, <1>1, IncrKeepsShape DEF LoginInv
    <2> QED BY <1>0, <1>1, <1>3, <2>1 DEF LoginInv, ShapeOK, PcValues
  <1>5. ASSUME NEW b \in Attempts
        PROVE  Local(b)'
    <2>1. CASE b # a
      <3>1. /\ pc'[b] = pc[b] /\ fails'[b] = fails[b] /\ counted'[b] = counted[b]
            /\ before'[b] \in [Keys -> Nat] /\ \A k \in Keys : before'[b][k] <= before[b][k]
        BY <1>0, <1>1, <2>1 DEF LoginInv, ShapeOK
      <3> QED BY <1>0, <3>1, LocalFrame DEF LoginInv
    <2>2. CASE b = a
      <3>1. User(a)' = User(a) /\ pc'[a] = "expire_account" /\ counted'[a] = {u} /\ u = User(a)
        BY <1>0, <1>1 DEF LoginInv, ShapeOK, User
      <3> QED BY <1>0, <2>2, <3>1 DEF Local, Settled, Pending
    <2> QED BY <2>1, <2>2
  <1>6. OnRecordOK'
    BY <1>0 DEF LoginInv, OnRecordOK, Keys
  <1>7. Onward /\ \A b \in Attempts : pc[b] = "expire_ip" => pc'[b] = "expire_ip"
    BY <1>0, <1>1 DEF LoginInv, ShapeOK, Onward, PastIp, PastAccount
  <1>8. Counts' /\ Unlocked'
    <2>1. /\ pc'[a] \in Pending /\ fails'[a] = count[u].n + 1
          /\ \A b \in Attempts \ {a} : pc'[b] = pc[b] /\ fails'[b] = fails[b]
      BY <1>1 DEF LoginInv, ShapeOK, Pending
    <2> QED BY <1>0, <1>1, <1>2, <1>4, <1>7, <2>1, CountStep DEF LoginInv
  <1>9. Spent' /\ CaptchaWorksOnce'
    BY <1>0, CaptchaFrame DEF LoginInv
  <1>10. Blocks'
    <2>1. count'[Address] = count[Address]
      BY <1>0, <1>1 DEF LoginInv, ShapeOK
    <2> QED BY <1>0, <1>4, <1>7, <2>1, BlocksFrame DEF LoginInv
  <1> QED BY <1>4, <1>5, <1>6, <1>8, <1>9, <1>10 DEF LoginInv

LEMMA IncrIpKeeps ==
    ASSUME LoginInv, NEW a \in Attempts, IncrIp(a)
    PROVE  LoginInv'
  <1>0. /\ pc[a] = "incr_ip" /\ counted[a] \subseteq {User(a), Address}
        /\ given[a] \in Given /\ Address \in Keys /\ logged[a] = None
        /\ result[a] # "error" /\ (faults = Faults => result[a] # None)
        /\ UNCHANGED <<lock, captcha, given, fails, result, logged, proof, before, recorded, faults>>
    BY DEF LoginInv, Local, IncrIp, Incr, Keys, Pending, Settled
  <1>1. /\ count' = [count EXCEPT ![Address].n = @ + 1]
        /\ counted' = [counted EXCEPT ![a] = @ \cup {Address}]
        /\ pc' = [pc EXCEPT ![a] = "expire_ip"]
    BY DEF IncrIp, Incr, Goto
  <1>2. a \notin Past(Address) /\ a \in Past(Address)'
    BY <1>0, <1>1 DEF Past, PastIp, LoginInv, ShapeOK
  <1>3. ShapeOK'
    <2>1. count' \in [Keys -> [n : Nat, ttl : BOOLEAN]] /\ \A k \in Keys : count'[k].n = 0 => ~count'[k].ttl
      BY <1>0, <1>1, IncrKeepsShape DEF LoginInv
    <2> QED BY <1>0, <1>1, <2>1 DEF LoginInv, ShapeOK, PcValues
  <1>4. ASSUME NEW b \in Attempts
        PROVE  Local(b)'
    <2>1. CASE b # a
      <3>1. /\ pc'[b] = pc[b] /\ counted'[b] = counted[b]
            /\ before'[b] \in [Keys -> Nat] /\ \A k \in Keys : before'[b][k] <= before[b][k]
        BY <1>0, <1>1, <2>1 DEF LoginInv, ShapeOK
      <3> QED BY <1>0, <3>1, LocalFrame DEF LoginInv
    <2>2. CASE b = a
      <3>1. User(a)' = User(a) /\ pc'[a] = "expire_ip" /\ counted'[a] = counted[a] \cup {Address}
        BY <1>0, <1>1 DEF LoginInv, ShapeOK, User
      <3> QED BY <1>0, <2>2, <3>1 DEF Local, Settled, Pending
    <2> QED BY <2>1, <2>2
  <1>5. OnRecordOK'
    BY <1>0 DEF LoginInv, OnRecordOK, Keys
  <1>6. Onward
    BY <1>0, <1>1 DEF LoginInv, ShapeOK, Onward, PastIp, PastAccount
  <1>7. Counts' /\ Unlocked'
    <2>1. /\ pc'[a] \in Pending /\ pc[a] \in Pending /\ fails'[a] = fails[a]
          /\ \A b \in Attempts \ {a} : pc'[b] = pc[b] /\ fails'[b] = fails[b]
      BY <1>0, <1>1 DEF LoginInv, ShapeOK, Pending
    <2> QED BY <1>0, <1>1, <1>2, <1>3, <1>6, <2>1, CountStep DEF LoginInv
  <1>8. Spent' /\ CaptchaWorksOnce'
    BY <1>0, CaptchaFrame DEF LoginInv
  <1>9. Blocks'
    <2>1. IsFiniteSet(Expiring') /\ Cardinality(Expiring') \in Nat /\ Cardinality(Expiring) \in Nat
      <3>1. Expiring \in SUBSET Attempts /\ Expiring' \in SUBSET Attempts
        BY DEF Expiring
      <3> QED BY <3>1, LoginAssumption, SizeOfSubset
    <2>2. Expiring \in SUBSET (Expiring' \ {a}) /\ a \in Expiring'
      BY <1>0, <1>1 DEF Expiring, LoginInv, ShapeOK
    <2>3. Cardinality(Expiring) + 1 <= Cardinality(Expiring')
      BY <2>1, <2>2, SizeWithOneLess
    <2>4. count'[Address].n = count[Address].n + 1 /\ count'[Address].ttl = count[Address].ttl
      BY <1>0, <1>1 DEF LoginInv, ShapeOK
    <2>5. Faults - faults \in Int /\ count[Address].n \in Int
      BY <1>0, LoginAssumption DEF LoginInv, ShapeOK
    <2> QED BY <1>0, <2>1, <2>3, <2>4, <2>5 DEF LoginInv, Blocks
  <1> QED BY <1>3, <1>4, <1>5, <1>7, <1>8, <1>9 DEF LoginInv

(* A key gets its TTL and keeps its count.                                   *)
LEMMA TtlKeepsCount ==
    ASSUME ShapeOK, NEW k \in Keys, count' = [count EXCEPT ![k] = WithTtl(@)]
    PROVE  /\ count' \in [Keys -> [n : Nat, ttl : BOOLEAN]]
           /\ \A j \in Keys : count'[j].n = count[j].n /\ (count'[j].n = 0 => ~count'[j].ttl)
           /\ \A j \in Keys \ {k} : count'[j] = count[j]
           /\ count'[k].ttl \/ count'[k].n = 0
  <1>1. WithTtl(count[k]) = [n |-> count[k].n, ttl |-> count[k].n > 0]
    BY DEF ShapeOK, WithTtl
  <1>2. count[k].n > 0 <=> count[k].n # 0
    BY DEF ShapeOK
  <1>3. WithTtl(count[k]) \in [n : Nat, ttl : BOOLEAN] /\ (WithTtl(count[k]).n = 0 => ~WithTtl(count[k]).ttl)
        /\ (WithTtl(count[k]).n # 0 => WithTtl(count[k]).ttl) /\ WithTtl(count[k]).n = count[k].n
    <2>0. count[k].n \in Nat /\ (count[k].n > 0) \in BOOLEAN
      BY DEF ShapeOK
    <2>1. CASE count[k].n > 0
      <3>1. (count[k].n > 0) = TRUE
        BY <2>0, <2>1
      <3>2. WithTtl(count[k]) = [n |-> count[k].n, ttl |-> TRUE]
        BY <1>1, <3>1
      <3> QED BY <1>2, <2>0, <2>1, <3>2
    <2>2. CASE ~(count[k].n > 0)
      <3>1. (count[k].n > 0) = FALSE
        BY <2>0, <2>2
      <3>2. WithTtl(count[k]) = [n |-> count[k].n, ttl |-> FALSE]
        BY <1>1, <3>1
      <3> QED BY <1>2, <2>0, <2>2, <3>2
    <2> QED BY <2>1, <2>2
  <1>4. count'[k] = WithTtl(count[k]) /\ \A j \in Keys \ {k} : count'[j] = count[j]
    BY DEF ShapeOK
  <1>5. count' \in [Keys -> [n : Nat, ttl : BOOLEAN]]
    BY <1>3 DEF ShapeOK
  <1> QED BY <1>3, <1>4, <1>5 DEF ShapeOK

LEMMA ExpireAccountKeeps ==
    ASSUME LoginInv, NEW a \in Attempts, ExpireAccount(a)
    PROVE  LoginInv'
  <1>0. /\ User(a) \in Keys /\ User(a) # Address /\ pc[a] = "expire_account" /\ Address \in Keys
        /\ UNCHANGED <<lock, captcha, given, fails, result, logged, proof, faults, before, recorded, counted>>
        /\ count' = [count EXCEPT ![User(a)] = WithTtl(@)] /\ pc' = [pc EXCEPT ![a] = "incr_ip"]
    BY LoginAssumption DEF LoginInv, Local, ExpireAccount, User, Given, Keys, History, Goto
  <1>1. ShapeOK'
    BY <1>0, TtlKeepsCount DEF LoginInv, ShapeOK, PcValues
  <1>2. ASSUME NEW b \in Attempts
        PROVE  Local(b)'
    <2>1. CASE b # a
      <3>1. /\ pc'[b] = pc[b]
            /\ before'[b] \in [Keys -> Nat] /\ \A k \in Keys : before'[b][k] <= before[b][k]
        BY <1>0, <2>1 DEF LoginInv, ShapeOK
      <3> QED BY <1>0, <3>1, LocalFrame DEF LoginInv
    <2>2. CASE b = a
      <3>1. User(a)' = User(a) /\ pc'[a] = "incr_ip"
        BY <1>0 DEF LoginInv, ShapeOK, User
      <3> QED BY <1>0, <2>2, <3>1 DEF LoginInv, Local, Settled, Pending
    <2> QED BY <2>1, <2>2
  <1>3. OnRecordOK'
    BY <1>0 DEF LoginInv, OnRecordOK, Keys
  <1>4. /\ Onward /\ \A b \in Attempts : pc'[b] \in Pending => pc[b] \in Pending /\ fails'[b] = fails[b]
        /\ \A b \in Attempts : pc[b] = "expire_ip" => pc'[b] = "expire_ip"
    BY <1>0 DEF LoginInv, ShapeOK, Onward, PastIp, PastAccount, Pending
  <1>5. Counts' /\ Unlocked'
    BY <1>0, <1>1, <1>4, TtlKeepsCount, QuietStep DEF LoginInv
  <1>6. Spent' /\ CaptchaWorksOnce'
    BY <1>0, CaptchaFrame DEF LoginInv
  <1>7. Blocks'
    BY <1>0, <1>1, <1>4, TtlKeepsCount, BlocksFrame DEF LoginInv
  <1> QED BY <1>1, <1>2, <1>3, <1>5, <1>6, <1>7 DEF LoginInv

LEMMA RecordGrows ==
    ASSUME ShapeOK, NEW a \in Attempts, recorded' = recorded \/ OnRecord(a)
    PROVE  recorded' \in [Keys -> Nat] /\ \A k \in Keys : recorded[k] <= recorded'[k]
  <1>1. CASE recorded' = recorded
    BY <1>1 DEF ShapeOK
  <1>2. CASE OnRecord(a)
    <2>1. \A k \in Keys : recorded[k] \in Nat
      BY DEF ShapeOK
    <2>2. \A k \in Keys : recorded'[k] \in {recorded[k], recorded[k] + 1}
      BY <1>2 DEF OnRecord
    <2>3. recorded' = [k \in Keys |-> recorded'[k]]
      BY <1>2 DEF OnRecord
    <2>4. \A k \in Keys : recorded'[k] \in Nat /\ recorded[k] <= recorded'[k]
      BY <2>1, <2>2
    <2> QED BY <2>3, <2>4
  <1> QED BY <1>1, <1>2

LEMMA ExpireIpKeeps ==
    ASSUME LoginInv, NEW a \in Attempts, ExpireIp(a)
    PROVE  LoginInv'
  <1>0. /\ pc[a] = "expire_ip" /\ Address \in Keys /\ given[a] \in Given /\ User(a) \in Keys
        /\ counted[a] \subseteq {User(a), Address}
        /\ UNCHANGED <<lock, captcha, given, fails, result, logged, proof, before, counted, faults>>
        /\ count' = [count EXCEPT ![Address] = WithTtl(@)]
    BY DEF LoginInv, Local, ExpireIp, User, Given, Keys, Pending
  <1>1. \/ pc' = [pc EXCEPT ![a] = "set_lock"] /\ recorded' = recorded
        \/ pc' = [pc EXCEPT ![a] = "log"] /\ OnRecord(a) /\ fails[a] < LockThreshold
    BY LoginAssumption DEF ExpireIp, Goto, Locks, LoginInv, ShapeOK
  <1>2. recorded' \in [Keys -> Nat] /\ \A k \in Keys : recorded[k] <= recorded'[k]
    BY <1>1, RecordGrows DEF LoginInv
  <1>3. ShapeOK'
    BY <1>0, <1>1, <1>2, TtlKeepsCount DEF LoginInv, ShapeOK, PcValues
  <1>4. ASSUME NEW b \in Attempts
        PROVE  Local(b)'
    <2>1. CASE b # a
      <3>1. /\ pc'[b] = pc[b]
            /\ before'[b] \in [Keys -> Nat] /\ \A k \in Keys : before'[b][k] <= before[b][k]
        BY <1>0, <1>1, <2>1 DEF LoginInv, ShapeOK
      <3> QED BY <1>0, <3>1, LocalFrame DEF LoginInv
    <2>2. CASE b = a
      <3>1. User(a)' = User(a) /\ pc'[a] \in {"set_lock", "log"}
        BY <1>0, <1>1 DEF LoginInv, ShapeOK, User
      <3> QED BY <1>0, <2>2, <3>1 DEF LoginInv, Local, Settled, Pending
    <2> QED BY <2>1, <2>2
  <1>5. OnRecordOK'
    <2> SUFFICES ASSUME NEW b \in Attempts, NEW k \in Keys
                 PROVE  before[b][k] <= recorded'[k]
      BY <1>0 DEF OnRecordOK, Keys
    <2>1. before[b][k] <= recorded[k] /\ recorded[k] <= recorded'[k] /\ before[b][k] \in Nat
          /\ recorded[k] \in Nat /\ recorded'[k] \in Nat
      BY <1>2 DEF LoginInv, ShapeOK, OnRecordOK
    <2> QED BY <2>1
  <1>6. Onward
    BY <1>0, <1>1 DEF LoginInv, ShapeOK, Onward, PastIp, PastAccount
  <1>7. Counts' /\ Unlocked'
    <2>1. CASE pc' = [pc EXCEPT ![a] = "set_lock"] /\ recorded' = recorded
      <3>1. \A b \in Attempts : pc'[b] \in Pending => pc[b] \in Pending /\ fails'[b] = fails[b]
        BY <1>0, <2>1 DEF LoginInv, ShapeOK, Pending
      <3> QED BY <1>0, <1>3, <1>6, <2>1, <3>1, TtlKeepsCount, QuietStep DEF LoginInv
    <2>2. CASE pc' = [pc EXCEPT ![a] = "log"] /\ OnRecord(a) /\ fails[a] < LockThreshold
      <3>1. pc'[a] = "log" /\ pc[a] \in Pending /\ \A b \in Attempts \ {a} : pc'[b] = pc[b]
        BY <1>0, <2>2 DEF LoginInv, ShapeOK, Pending
      <3>2. \A u \in Accounts : lock'[u] \/ (lock'[u] = lock[u] /\ (u \in counted[a] => fails[a] < LockThreshold))
        BY <1>0, <2>2
      <3> QED BY <1>0, <1>3, <1>6, <2>2, <3>1, <3>2, TtlKeepsCount, RecordStep DEF LoginInv
    <2> QED BY <1>1, <2>1, <2>2
  <1>8. Spent' /\ CaptchaWorksOnce'
    BY <1>0, CaptchaFrame DEF LoginInv
  <1>9. Blocks'
    BY <1>0, <1>3, TtlKeepsCount, BlocksFrame DEF LoginInv
  <1> QED BY <1>3, <1>4, <1>5, <1>7, <1>8, <1>9 DEF LoginInv

LEMMA SetLockKeeps ==
    ASSUME LoginInv, NEW a \in Attempts, SetLock(a)
    PROVE  LoginInv'
  <1>0. /\ pc[a] = "set_lock" /\ given[a] \in Given /\ User(a) \in Accounts /\ Address \in Keys
        /\ counted[a] \subseteq {User(a), Address}
        /\ UNCHANGED <<count, captcha, given, fails, result, logged, proof, before, counted, faults>>
        /\ lock' = [lock EXCEPT ![User(a)] = TRUE] /\ pc' = [pc EXCEPT ![a] = "log"] /\ OnRecord(a)
    BY DEF LoginInv, Local, SetLock, User, Given, Keys, Pending, Goto
  <1>1. recorded' \in [Keys -> Nat] /\ \A k \in Keys : recorded[k] <= recorded'[k]
    BY <1>0, RecordGrows DEF LoginInv
  <1>2. ShapeOK'
    BY <1>0, <1>1 DEF LoginInv, ShapeOK, PcValues
  <1>3. ASSUME NEW b \in Attempts
        PROVE  Local(b)'
    <2>1. CASE b # a
      <3>1. /\ pc'[b] = pc[b]
            /\ before'[b] \in [Keys -> Nat] /\ \A k \in Keys : before'[b][k] <= before[b][k]
        BY <1>0, <2>1 DEF LoginInv, ShapeOK
      <3> QED BY <1>0, <3>1, LocalFrame DEF LoginInv
    <2>2. CASE b = a
      <3>1. User(a)' = User(a) /\ pc'[a] = "log"
        BY <1>0 DEF LoginInv, ShapeOK, User
      <3> QED BY <1>0, <2>2, <3>1 DEF LoginInv, Local, Settled, Pending
    <2> QED BY <2>1, <2>2
  <1>4. OnRecordOK'
    <2> SUFFICES ASSUME NEW b \in Attempts, NEW k \in Keys
                 PROVE  before[b][k] <= recorded'[k]
      BY <1>0 DEF OnRecordOK, Keys
    <2>1. before[b][k] <= recorded[k] /\ recorded[k] <= recorded'[k] /\ before[b][k] \in Nat
          /\ recorded[k] \in Nat /\ recorded'[k] \in Nat
      BY <1>1 DEF LoginInv, ShapeOK, OnRecordOK
    <2> QED BY <2>1
  <1>5. Onward /\ \A b \in Attempts : pc[b] = "expire_ip" => pc'[b] = "expire_ip"
    BY <1>0 DEF LoginInv, ShapeOK, Onward, PastIp, PastAccount
  <1>6. Counts' /\ Unlocked'
    <2>1. pc'[a] = "log" /\ pc[a] \in Pending /\ \A b \in Attempts \ {a} : pc'[b] = pc[b]
      BY <1>0 DEF LoginInv, ShapeOK, Pending
    <2>2. \A u \in Accounts : lock'[u] \/ (lock'[u] = lock[u] /\ (u \in counted[a] => fails[a] < LockThreshold))
      BY <1>0, LoginAssumption DEF LoginInv, ShapeOK
    <2>3. \A k \in Keys : count'[k].n = count[k].n
      BY <1>0
    <2> QED BY <1>0, <1>2, <1>5, <2>1, <2>2, <2>3, RecordStep DEF LoginInv
  <1>7. Spent' /\ CaptchaWorksOnce'
    BY <1>0, CaptchaFrame DEF LoginInv
  <1>8. Blocks'
    BY <1>0, <1>2, <1>5, BlocksFrame DEF LoginInv
  <1> QED BY <1>2, <1>3, <1>4, <1>6, <1>7, <1>8 DEF LoginInv

------------------------------------------------------------------------------
(* A key is deleted or expires.                                              *)
LEMMA ForgetShape ==
    ASSUME ShapeOK, NEW k \in Keys, Forget(k)
    PROVE  /\ before' \in [Attempts -> [Keys -> Nat]]
           /\ recorded' \in [Keys -> Nat]
           /\ counted' \in [Attempts -> SUBSET Keys]
           /\ \A b \in Attempts : /\ before'[b] \in [Keys -> Nat]
                                  /\ \A j \in Keys : before'[b][j] <= before[b][j]
                                  /\ counted'[b] \subseteq counted[b]
  <1>1. \A b \in Attempts : before[b] \in [Keys -> Nat] /\ before'[b] = [before[b] EXCEPT ![k] = 0]
    BY DEF ShapeOK, Forget
  <1>2. \A b \in Attempts : before'[b] \in [Keys -> Nat] /\ \A j \in Keys : before'[b][j] <= before[b][j]
    <2> SUFFICES ASSUME NEW b \in Attempts
                 PROVE  before'[b] \in [Keys -> Nat] /\ \A j \in Keys : before'[b][j] <= before[b][j]
      OBVIOUS
    <2>1. before[b] \in [Keys -> Nat] /\ before'[b] = [before[b] EXCEPT ![k] = 0]
      BY <1>1
    <2>2. \A j \in Keys : before'[b][j] = (IF j = k THEN 0 ELSE before[b][j]) /\ before[b][j] \in Nat
      BY <2>1
    <2> QED BY <2>1, <2>2
  <1>3. before' \in [Attempts -> [Keys -> Nat]]
    <2>1. before' = [b \in Attempts |-> before'[b]]
      BY DEF Forget
    <2> QED BY <1>2, <2>1
  <1> QED BY <1>2, <1>3 DEF ShapeOK, Forget

LEMMA ClearKeeps ==
    ASSUME LoginInv, NEW a \in Attempts, ClearCount(a) \/ ClearLock(a)
    PROVE  LoginInv'
  <1> PICK u : u = User(a)
    OBVIOUS
  <1>0. /\ u \in Accounts /\ u \in Keys /\ u # Address /\ Address \in Keys /\ given[a] \in Given /\ logged[a] = None
        /\ counted[a] = {} /\ pc[a] \in {"clear_count", "clear_lock"} /\ (faults = Faults => result[a] # None)
        /\ UNCHANGED <<captcha, given, fails, result, logged, proof, faults>> /\ Forget(u)
    BY LoginAssumption DEF LoginInv, Local, ClearCount, ClearLock, User, Given, Keys, Pending, Settled
  <1>1. \/ /\ pc' = [pc EXCEPT ![a] = "clear_lock"] /\ lock' = lock
           /\ count' = [k \in Keys |-> IF k = u THEN Missing ELSE count[k]]
        \/ /\ pc' = [pc EXCEPT ![a] = "log"] /\ count' = count
           /\ lock' = [lock EXCEPT ![u] = FALSE]
    BY DEF ClearCount, ClearLock, Goto, Cleared
  <1>2. /\ count' \in [Keys -> [n : Nat, ttl : BOOLEAN]] /\ \A k \in Keys : count'[k].n = 0 => ~count'[k].ttl
        /\ \A k \in Keys \ {u} : count'[k] = count[k]
        /\ count'[u].n \in {0, count[u].n}
    <2>1. CASE count' = count
      BY <2>1 DEF LoginInv, ShapeOK
    <2>2. CASE count' = [k \in Keys |-> IF k = u THEN Missing ELSE count[k]]
      <3>1. Missing \in [n : Nat, ttl : BOOLEAN] /\ Missing.n = 0 /\ ~Missing.ttl
        BY DEF Missing
      <3>2. count'[u] = Missing /\ \A k \in Keys \ {u} : count'[k] = count[k]
        BY <1>0, <2>2
      <3>3. count' \in [Keys -> [n : Nat, ttl : BOOLEAN]]
        BY <2>2, <3>1 DEF LoginInv, ShapeOK
      <3> QED BY <3>1, <3>2, <3>3 DEF LoginInv, ShapeOK
    <2> QED BY <1>1, <2>1, <2>2
  <1>3. ShapeOK'
    BY <1>0, <1>1, <1>2, ForgetShape DEF LoginInv, ShapeOK, PcValues
  <1>4. ASSUME NEW b \in Attempts
        PROVE  Local(b)'
    <2>1. CASE b # a
      <3>1. pc'[b] = pc[b]
        BY <1>1, <2>1 DEF LoginInv, ShapeOK
      <3> QED BY <1>0, <3>1, ForgetShape, LocalFrame DEF LoginInv
    <2>2. CASE b = a
      <3>1. pc'[a] \in {"clear_lock", "log"} /\ counted'[a] = {}
        BY <1>0, <1>1, ForgetShape DEF LoginInv, ShapeOK
      <3> QED BY <1>0, <2>2, <3>1 DEF LoginInv, Local, Settled, Pending
    <2> QED BY <2>1, <2>2
  <1>5. /\ Onward /\ \A b \in Attempts : pc'[b] \in Pending => pc[b] \in Pending
        /\ \A b \in Attempts : pc[b] = "expire_ip" => pc'[b] = "expire_ip"
    BY <1>0, <1>1 DEF LoginInv, ShapeOK, Onward, PastIp, PastAccount, Pending
  <1>6. OnRecordOK' /\ Counts' /\ Unlocked'
    <2>1. \A v \in Accounts \ {u} : lock'[v] = lock[v]
      BY <1>1 DEF LoginInv, ShapeOK
    <2> QED BY <1>0, <1>2, <1>3, <1>5, <2>1, ForgetStep DEF LoginInv
  <1>7. Spent' /\ CaptchaWorksOnce'
    BY <1>0, CaptchaFrame DEF LoginInv
  <1>8. Blocks'
    BY <1>0, <1>2, <1>3, <1>5, BlocksFrame DEF LoginInv
  <1> QED BY <1>3, <1>4, <1>6, <1>7, <1>8 DEF LoginInv

LEMMA CountExpiresKeeps ==
    ASSUME LoginInv, NEW k \in Keys, CountExpires(k)
    PROVE  LoginInv'
  <1>0. /\ Forget(k) /\ count' = [count EXCEPT ![k] = Missing] /\ Address \in Keys
        /\ UNCHANGED <<lock, captcha, given, pc, fails, result, logged, proof, faults>>
    BY DEF CountExpires, Keys
  <1>1. /\ count' \in [Keys -> [n : Nat, ttl : BOOLEAN]] /\ \A j \in Keys : count'[j].n = 0 => ~count'[j].ttl
        /\ \A j \in Keys \ {k} : count'[j] = count[j]
        /\ count'[k].n = 0
    BY <1>0 DEF LoginInv, ShapeOK, Missing
  <1>2. ShapeOK'
    BY <1>0, <1>1, ForgetShape DEF LoginInv, ShapeOK
  <1>3. ASSUME NEW b \in Attempts
        PROVE  Local(b)'
    BY <1>0, ForgetShape, LocalFrame DEF LoginInv
  <1>4. Onward
    BY <1>0 DEF Onward
  <1>5. OnRecordOK' /\ Counts' /\ Unlocked'
    BY <1>0, <1>1, <1>2, <1>4, ForgetStep DEF LoginInv
  <1>6. Spent' /\ CaptchaWorksOnce'
    BY <1>0, CaptchaFrame DEF LoginInv
  <1>7. Blocks'
    BY <1>0, <1>1, <1>2, BlocksFrame DEF LoginInv
  <1> QED BY <1>2, <1>3, <1>5, <1>6, <1>7 DEF LoginInv

LEMMA LockExpiresKeeps ==
    ASSUME LoginInv, NEW u \in Accounts, LockExpires(u)
    PROVE  LoginInv'
  <1>0. /\ Forget(u) /\ lock' = [lock EXCEPT ![u] = FALSE] /\ Address \in Keys /\ u \in Keys
        /\ UNCHANGED <<count, captcha, given, pc, fails, result, logged, proof, faults>>
    BY DEF LockExpires, Keys
  <1>1. ShapeOK'
    BY <1>0, ForgetShape DEF LoginInv, ShapeOK
  <1>2. ASSUME NEW b \in Attempts
        PROVE  Local(b)'
    BY <1>0, ForgetShape, LocalFrame DEF LoginInv
  <1>3. Onward
    BY <1>0 DEF Onward
  <1>4. OnRecordOK' /\ Counts' /\ Unlocked'
    <2>1. \A v \in Accounts \ {u} : lock'[v] = lock[v]
      BY <1>0 DEF LoginInv, ShapeOK
    <2>2. \A j \in Keys : count'[j].n = count[j].n
      BY <1>0
    <2> QED BY <1>0, <1>1, <1>3, <2>1, <2>2, ForgetStep DEF LoginInv
  <1>5. Spent' /\ CaptchaWorksOnce'
    BY <1>0, CaptchaFrame DEF LoginInv
  <1>6. Blocks'
    BY <1>0, <1>1, BlocksFrame DEF LoginInv
  <1> QED BY <1>1, <1>2, <1>4, <1>5, <1>6 DEF LoginInv

LEMMA CaptchaKeeps ==
    ASSUME LoginInv, NEW c \in Captchas, IssueCaptcha(c) \/ CaptchaExpires(c)
    PROVE  LoginInv'
  <1>0. UNCHANGED <<count, lock, given, pc, fails, result, logged, proof, faults, before, recorded, counted>>
    BY DEF IssueCaptcha, CaptchaExpires, History
  <1>1. /\ captcha' \in [Captchas -> {"new", "live", "gone"}]
        /\ \A d \in Captchas : captcha[d] = "gone" => captcha'[d] = "gone"
    BY DEF IssueCaptcha, CaptchaExpires, LoginInv, ShapeOK
  <1>2. ShapeOK'
    BY <1>0, <1>1 DEF LoginInv, ShapeOK
  <1>3. ASSUME NEW b \in Attempts
        PROVE  Local(b)'
    <2>1. before'[b] \in [Keys -> Nat] /\ \A j \in Keys : before'[b][j] <= before[b][j]
      BY <1>0 DEF LoginInv, ShapeOK
    <2> QED BY <1>0, <2>1, LocalFrame DEF LoginInv
  <1>4. Onward
    BY <1>0 DEF Onward
  <1>5. OnRecordOK'
    BY <1>0 DEF LoginInv, OnRecordOK, Keys
  <1>6. Counts' /\ Unlocked'
    BY <1>0, <1>2, <1>4, QuietStep DEF LoginInv
  <1>7. Spent' /\ CaptchaWorksOnce'
    BY <1>0, <1>1, CaptchaFrame DEF LoginInv
  <1>8. Blocks'
    BY <1>0, <1>2, BlocksFrame DEF LoginInv
  <1> QED BY <1>2, <1>3, <1>5, <1>6, <1>7, <1>8 DEF LoginInv

------------------------------------------------------------------------------
(* The handler ends: answered and logged, without its row, or dead.          *)
Ends(a) == Log(a) \/ DatabaseFails(a) \/ Die(a)

LEMMA EndKeeps ==
    ASSUME LoginInv, NEW a \in Attempts, Ends(a)
    PROVE  LoginInv'
  <1>0. /\ UNCHANGED <<count, lock, captcha, proof, recorded>>
        /\ pc' \in {[pc EXCEPT ![a] = "done"], [pc EXCEPT ![a] = "dead"]}
        /\ given' = [given EXCEPT ![a] = None] /\ fails' = [fails EXCEPT ![a] = 0]
        /\ before' = [before EXCEPT ![a] = [k \in Keys |-> 0]]
        /\ counted' = [counted EXCEPT ![a] = {}]
        /\ pc[a] \notin {"idle", "done", "dead"} /\ Address \in Keys
    BY DEF Ends, Log, DatabaseFails, Die, Leave, Goto, Active, Keys
  <1>1. \/ /\ Log(a) /\ pc'[a] = "done" /\ pc[a] = "log" /\ faults' = faults /\ result' = result
           /\ logged' = [logged EXCEPT ![a] = result[a]]
        \/ /\ faults' = faults - 1 /\ faults > 0 /\ logged' = logged /\ logged[a] = None
           /\ \A b \in Attempts \ {a} : result'[b] = result[b]
           /\ result'[a] = "error" => pc'[a] = "done"
           /\ result' \in [Attempts -> Statuses \cup {None, "error"}]
    BY <1>0 DEF Ends, Log, LogRow, DatabaseFails, Die, Leave, Goto, LoginInv, ShapeOK, Local
  <1>2. faults' \in 0 .. Faults /\ (faults' = Faults => faults = Faults /\ Log(a))
    BY <1>1, LoginAssumption DEF LoginInv, ShapeOK
  <1>3. ShapeOK'
    <2>1. Bound \in Nat
      BY LoginAssumption, FS_CardinalityType DEF Bound
    <2>2. result' \in [Attempts -> Statuses \cup {None, "error"}]
      BY <1>1 DEF LoginInv, ShapeOK
    <2>3. before' \in [Attempts -> [Keys -> Nat]]
      BY <1>0 DEF LoginInv, ShapeOK
    <2>4. logged' \in [Attempts -> Statuses \cup {None}]
      <3>1. CASE Log(a)
        <4>1. logged' = [logged EXCEPT ![a] = result[a]] /\ pc[a] = "log"
          BY <3>1 DEF Log, LogRow
        <4>2. result[a] \in Statuses \cup {None}
          BY <4>1 DEF LoginInv, ShapeOK, Local
        <4> QED BY <4>1, <4>2 DEF LoginInv, ShapeOK
      <3>2. CASE logged' = logged
        BY <3>2 DEF LoginInv, ShapeOK
      <3> QED BY <1>1, <3>1, <3>2
    <2>5. given' \in [Attempts -> Given \cup {None}] /\ pc' \in [Attempts -> PcValues]
      BY <1>0 DEF LoginInv, ShapeOK, PcValues
    <2>6. fails' \in [Attempts -> 0 .. Bound] /\ counted' \in [Attempts -> SUBSET Keys]
      BY <1>0, <2>1 DEF LoginInv, ShapeOK
    <2> QED BY <1>0, <1>2, <2>2, <2>3, <2>4, <2>5, <2>6 DEF LoginInv, ShapeOK
  <1>4. ASSUME NEW b \in Attempts
        PROVE  Local(b)'
    <2>1. CASE b # a
      <3>1. /\ pc'[b] = pc[b] /\ given'[b] = given[b] /\ fails'[b] = fails[b] /\ result'[b] = result[b]
            /\ logged'[b] = logged[b] /\ counted'[b] = counted[b] /\ before'[b] = before[b]
        BY <1>0, <1>1, <2>1 DEF LoginInv, ShapeOK
      <3>2. before'[b] \in [Keys -> Nat] /\ \A k \in Keys : before'[b][k] <= before[b][k]
        BY <3>1 DEF LoginInv, ShapeOK
      <3> QED BY <1>0, <1>2, <3>1, <3>2, LocalFrame DEF LoginInv
    <2>2. CASE b = a
      <3>1. pc'[a] \in {"done", "dead"} /\ counted'[a] = {}
        BY <1>0 DEF LoginInv, ShapeOK
      <3>2. CASE Log(a)
        <4>1. logged'[a] = result'[a] /\ pc'[a] = "done" /\ (faults' = Faults => result'[a] # None)
          <5>1. pc[a] = "log" /\ pc'[a] = "done" /\ faults' = faults
            BY <3>2 DEF Log, Leave, Goto, LoginInv, ShapeOK
          <5>2. faults = Faults => result[a] # None
            BY <5>1 DEF LoginInv, Local, Settled
          <5>3. logged' = [logged EXCEPT ![a] = result[a]] /\ result' = result
            BY <3>2 DEF Log, LogRow
          <5> QED BY <5>1, <5>2, <5>3 DEF LoginInv, ShapeOK
        <4> QED BY <2>2, <3>1, <4>1 DEF Local, Settled, Pending
      <3>3. CASE faults' # Faults /\ logged'[a] = None /\ (result'[a] = "error" => pc'[a] = "done")
        BY <2>2, <3>1, <3>3 DEF Local
      <3> QED BY <1>1, <1>2, <3>2, <3>3
    <2> QED BY <2>1, <2>2
  <1>5. OnRecordOK'
    <2> SUFFICES ASSUME NEW b \in Attempts, NEW k \in Keys
                 PROVE  before'[b][k] <= recorded'[k]
      BY DEF OnRecordOK, Keys
    <2>1. recorded[k] \in Nat /\ before[b][k] <= recorded[k] /\ before'[b][k] \in {0, before[b][k]}
      BY <1>0 DEF LoginInv, ShapeOK, OnRecordOK
    <2> QED BY <1>0, <2>1
  <1>6. /\ Onward /\ \A b \in Attempts : pc'[b] \in Pending => pc[b] \in Pending /\ fails'[b] = fails[b]
        /\ \A b \in Attempts \ {a} : pc[b] = "expire_ip" => pc'[b] = "expire_ip"
    BY <1>0 DEF LoginInv, ShapeOK, Onward, PastIp, PastAccount, Pending
  <1>7. Counts' /\ Unlocked'
    <2>1. \A b \in Attempts : counted'[b] \subseteq counted[b]
      BY <1>0 DEF LoginInv, ShapeOK
    <2>2. \A k \in Keys : count'[k].n = count[k].n
      BY <1>0
    <2> QED BY <1>0, <1>3, <1>6, <2>1, <2>2, QuietStep DEF LoginInv
  <1>8. Spent' /\ CaptchaWorksOnce'
    BY <1>0, CaptchaFrame DEF LoginInv
  <1>9. Blocks'
    <2>1. faults' = faults => \A b \in Attempts : pc[b] = "expire_ip" => pc'[b] = "expire_ip"
      BY <1>1, <1>6, LoginAssumption DEF LoginInv, ShapeOK
    <2>2. faults' = faults \/ faults' = faults - 1
      BY <1>1
    <2> QED BY <1>0, <1>3, <1>6, <2>1, <2>2, BlocksFrame DEF LoginInv
  <1> QED BY <1>3, <1>4, <1>5, <1>7, <1>8, <1>9 DEF LoginInv

(* A call of Redis fails.                                                    *)
LEMMA RedisFailsKeeps ==
    ASSUME LoginInv, NEW a \in Attempts, RedisFails(a)
    PROVE  LoginInv'
  <1>0. /\ UNCHANGED <<count, lock, captcha, given, fails, logged, proof, before, recorded, counted>>
        /\ pc' = [pc EXCEPT ![a] = IF pc[a] \in {"get_lock", "get_account", "get_ip"} THEN "captcha" ELSE "log"]
        /\ pc[a] \notin {"idle", "verify", "log", "done", "dead"} /\ Address \in Keys
        /\ result' = [result EXCEPT ![a] = IF pc[a] = "captcha" THEN "captcha_required" ELSE @]
        /\ faults' = faults - 1
    BY DEF RedisFails, Goto, History, Keys
  <1>1. faults' \in 0 .. Faults /\ faults' # Faults
    BY LoginAssumption DEF RedisFails, LoginInv, ShapeOK
  <1>2. ShapeOK'
    BY <1>0, <1>1 DEF LoginInv, ShapeOK, PcValues, Statuses
  <1>3. ASSUME NEW b \in Attempts
        PROVE  Local(b)'
    <2>1. CASE b # a
      <3>1. /\ pc'[b] = pc[b] /\ result'[b] = result[b]
            /\ before'[b] \in [Keys -> Nat] /\ \A k \in Keys : before'[b][k] <= before[b][k]
        BY <1>0, <2>1 DEF LoginInv, ShapeOK
      <3> QED BY <1>0, <1>1, <3>1, LocalFrame DEF LoginInv
    <2>2. CASE b = a
      <3>1. /\ pc'[a] = "log" \/ (pc'[a] = "captcha" /\ counted[a] = {})
            /\ User(a)' = User(a) /\ Local(a) /\ logged[a] = None
        BY <1>0 DEF LoginInv, ShapeOK, User, Local, Pending
      <3> QED BY <1>0, <1>1, <2>2, <3>1 DEF Local, Pending
    <2> QED BY <2>1, <2>2
  <1>4. OnRecordOK'
    BY <1>0 DEF LoginInv, OnRecordOK, Keys
  <1>5. /\ Onward /\ \A b \in Attempts : pc'[b] \in Pending => pc[b] \in Pending /\ fails'[b] = fails[b]
        /\ \A b \in Attempts \ {a} : pc[b] = "expire_ip" => pc'[b] = "expire_ip"
    BY <1>0 DEF LoginInv, ShapeOK, Onward, PastIp, PastAccount, Pending
  <1>6. Counts' /\ Unlocked'
    BY <1>0, <1>2, <1>5, QuietStep DEF LoginInv
  <1>7. Spent' /\ CaptchaWorksOnce'
    BY <1>0, CaptchaFrame DEF LoginInv
  <1>8. Blocks'
    BY <1>0, <1>2, <1>5, BlocksFrame DEF LoginInv
  <1> QED BY <1>2, <1>3, <1>4, <1>6, <1>7, <1>8 DEF LoginInv

------------------------------------------------------------------------------
LEMMA StepKeepsLogin == LoginInv /\ [Next]_vars => LoginInv'
  <1> SUFFICES ASSUME LoginInv, [Next]_vars
               PROVE  LoginInv'
    OBVIOUS
  <1>1. CASE UNCHANGED vars
    <2>1. ShapeOK' /\ OnRecordOK' /\ Spent' /\ CaptchaWorksOnce'
      BY <1>1 DEF vars, LoginInv, ShapeOK, OnRecordOK, Spent, CaptchaWorksOnce, Keys
    <2>2. \A a \in Attempts : Local(a)'
      BY <1>1 DEF vars, LoginInv, Local, User, Keys
    <2>3. Counts'
      <3>1. \A k \in Keys : PendingOn(k)' = PendingOn(k) /\ Past(k)' = Past(k)
        BY <1>1 DEF vars, PendingOn, Past
      <3> QED BY <1>1, <3>1 DEF vars, LoginInv, Counts, CountOK, Keys
    <2>4. Unlocked'
      BY <1>1 DEF vars, LoginInv, Unlocked, UnlockedOK, BelowLock, Past, Expiring, PendingOn, User, Keys
    <2>5. Blocks'
      BY <1>1 DEF vars, LoginInv, Blocks, Past, Expiring, PendingOn, User, Keys
    <2> QED BY <2>1, <2>2, <2>3, <2>4, <2>5 DEF LoginInv
  <1>2. ASSUME NEW a \in Attempts, Arrive(a) \/ GetLock(a) \/ GetAccount(a) \/ GetIp(a) \/ VerifyCaptcha(a) \/ Verify(a)
        PROVE  LoginInv'
    BY <1>2, ArriveKeeps, ReadKeeps, VerifyCaptchaKeeps DEF Reads
  <1>3. ASSUME NEW a \in Attempts, IncrAccount(a) \/ ExpireAccount(a) \/ IncrIp(a) \/ ExpireIp(a) \/ SetLock(a)
        PROVE  LoginInv'
    BY <1>3, IncrAccountKeeps, ExpireAccountKeeps, IncrIpKeeps, ExpireIpKeeps, SetLockKeeps
  <1>4. ASSUME NEW a \in Attempts, ClearCount(a) \/ ClearLock(a) \/ Log(a) \/ RedisFails(a) \/ DatabaseFails(a) \/ Die(a)
        PROVE  LoginInv'
    BY <1>4, ClearKeeps, EndKeeps, RedisFailsKeeps DEF Ends
  <1>5. CASE \E c \in Captchas : IssueCaptcha(c) \/ CaptchaExpires(c)
    BY <1>5, CaptchaKeeps
  <1>6. CASE (\E k \in Keys : CountExpires(k)) \/ (\E u \in Accounts : LockExpires(u))
    BY <1>6, CountExpiresKeeps, LockExpiresKeeps
  <1> QED BY <1>1, <1>2, <1>3, <1>4, <1>5, <1>6 DEF Next

(* What the counters, the locks and the attempts on their way say of each    *)
(* other, between any two calls of Redis (login_guard.py:57-126).            *)
THEOREM LoginInvariance == Spec => []LoginInv
  BY InitLogin, StepKeepsLogin, PTL DEF Spec

LEMMA InvGivesGuard == LoginInv => PasswordsAreGuarded
  <1> SUFFICES ASSUME LoginInv
               PROVE  PasswordsAreGuarded
    OBVIOUS
  <1>1. \A k \in Keys : count[k].n \in 0 .. Bound /\ recorded[k] \in 0 .. Bound
    BY CountsBounded DEF LoginInv, Counts
  <1>2. \A a \in Attempts, k \in Keys : before[a][k] \in 0 .. Bound
    <2> SUFFICES ASSUME NEW a \in Attempts, NEW k \in Keys
                 PROVE  before[a][k] \in 0 .. Bound
      OBVIOUS
    <2>1. before[a][k] \in Nat /\ before[a][k] <= recorded[k] /\ recorded[k] \in 0 .. Bound
      BY <1>1 DEF LoginInv, ShapeOK, OnRecordOK
    <2>2. Bound \in Nat
      BY LoginAssumption, FS_CardinalityType DEF Bound
    <2> QED BY <2>1, <2>2
  <1>3. count \in [Keys -> [n : 0 .. Bound, ttl : BOOLEAN]]
    <2>1. \A k \in Keys : count[k] \in [n : 0 .. Bound, ttl : BOOLEAN]
      BY <1>1 DEF LoginInv, ShapeOK
    <2> QED BY <2>1 DEF LoginInv, ShapeOK
  <1>4. recorded \in [Keys -> 0 .. Bound]
    BY <1>1 DEF LoginInv, ShapeOK
  <1>5. before \in [Attempts -> [Keys -> 0 .. Bound]]
    <2>1. \A a \in Attempts : before[a] \in [Keys -> 0 .. Bound]
      BY <1>2 DEF LoginInv, ShapeOK
    <2> QED BY <2>1 DEF LoginInv, ShapeOK
  <1>6. TypeOK
    BY <1>3, <1>4, <1>5 DEF LoginInv, ShapeOK, TypeOK, PcValues
  <1>7. GuessesAreBounded /\ CaptchaIsAsked
    BY DEF LoginInv, Local, GuessesAreBounded, CaptchaIsAsked, Checked
  <1> QED BY <1>6, <1>7 DEF LoginInv, PasswordsAreGuarded

(* For any number of attempts at the same time and any thresholds: no        *)
(* password is checked against the lock, the block of the address or the     *)
(* captcha that was due on arrival, and a captcha lets one attempt through   *)
(* (login_guard.py:57, :74, captcha.py:47).                                  *)
THEOREM GuardHolds == Spec => []PasswordsAreGuarded
  BY LoginInvariance, InvGivesGuard, PTL

(* Every answered attempt has the row of its answer (auth/service.py:187).   *)
THEOREM LogIsComplete == Spec => []EveryAttemptIsLogged
  <1>1. LoginInv => EveryAttemptIsLogged
    BY DEF LoginInv, Local, EveryAttemptIsLogged, Settled
  <1> QED BY <1>1, LoginInvariance, PTL

(* With fewer faults than the limit, a blocked address has a TTL on its      *)
(* count or a handler that is about to set one (login_guard.py:72).          *)
THEOREM BlocksHaveAnEnd ==
    ASSUME Faults < IpLimit
    PROVE  Spec => []BlocksEnd
  <1>1. LoginInv => BlocksEnd
    <2> SUFFICES ASSUME LoginInv, count[Address].n >= IpLimit, ~count[Address].ttl,
                        \A a \in Attempts : pc[a] # "expire_ip"
                 PROVE  FALSE
      BY DEF BlocksEnd
    <2>1. Expiring = {} /\ Cardinality({}) = 0
      BY FS_EmptySet DEF Expiring
    <2>2. count[Address].n <= (Faults - faults) + Cardinality(Expiring)
      BY DEF LoginInv, Blocks
    <2>3. count[Address].n \in Nat /\ faults \in Nat /\ Faults \in Nat /\ IpLimit \in Nat
      BY LoginAssumption DEF LoginInv, ShapeOK, Keys
    <2> QED BY <2>1, <2>2, <2>3
  <1> QED BY <1>1, LoginInvariance, PTL
==============================================================================
