------------------------ MODULE RefreshTokensProofs ------------------------
(***************************************************************************)
(* Safety of RefreshTokens for every number of users, requests, tokens,    *)
(* buckets and every setting of the lifetimes, the implementation of       *)
(* SessionFamilies, and what commits establish.                            *)
(***************************************************************************)
EXTENDS RefreshTokens, FiniteSetTheorems, WellFoundedInduction, TLAPS

-----------------------------------------------------------------------------
(* The inductive invariant.                                                *)

\* A request under way has its parameters.
CallsKnown == \A p \in Requests : phase[p] # "idle" => call[p] \in Call

\* From "locked" to commit a request holds its user's bucket, so no two
\* requests of one user are there together.
LockHeld ==
    \A p \in Requests : phase[p] \in {"locked", "decided"} =>
        lock[BucketOf[call[p].user]] = p

\* One row: its family is older than itself, was opened, and fixes the
\* absolute deadline.
RowOK(j) ==
    /\ tokens[j].family <= j
    /\ tokens[j].rotatedTo < nextJti
    /\ openedAt[tokens[j].family] # Never
    /\ tokens[j].absolute = openedAt[tokens[j].family] + AbsTTL
    /\ tokens[j].expires <= tokens[j].absolute
    /\ tokens[j].rotatedTo # NoJti =>
         tokens[j].revoked = "rotated" /\ tokens[j].rotatedTo > j

SameFamily(j, k) == tokens[j].family = tokens[k].family

\* Two rows: a family has one owner and at most one live row, none when it was
\* closed; links are injective and stay in the family.
PairOK(j, k) ==
    /\ SameFamily(j, k) => tokens[j].user = tokens[k].user
    /\ SameFamily(j, k) /\ Unrevoked(j) /\ Unrevoked(k) => j = k
    /\ SameFamily(j, k) /\ tokens[j].revoked \in Reasons \ {"rotated"}
          => ~Unrevoked(k)
    /\ tokens[j].rotatedTo = k => SameFamily(j, k)
    /\ tokens[j].rotatedTo = tokens[k].rotatedTo /\ tokens[j].rotatedTo # NoJti
          => j = k

TableOK == /\ \A j \in Stored : RowOK(j)
           /\ \A j, k \in Stored : PairOK(j, k)

\* The rows a plan rewrites are still there, unrevoked and its user's own, and
\* with a row it revokes it revokes the whole family.
RewritesOK(p) ==
    LET w == plan[p]
    IN  /\ w.rotate \notin w.revoke
        /\ \A j \in w.revoke \cup ({w.rotate} \ {NoJti}) :
              j \in Stored /\ Unrevoked(j) /\ tokens[j].user = call[p].user
        /\ \A j \in w.revoke : w.reason # "rotated" /\ LiveRows(tokens[j].family) \subseteq w.revoke

\* The row a plan inserts has an id of its own and either opens a family or
\* continues the family of the row it replaces.
InsertOK(p) ==
    LET w == plan[p]
        k == w.insert
    IN  /\ k = NoJti => w.rotate = NoJti /\ call[p].op # "change"
        /\ k # NoJti =>
            /\ k < nextJti /\ k \notin Stored
            /\ openedAt[k] = Never
            /\ w.row \in Row
            /\ w.row.user = call[p].user
            /\ w.row.rotatedTo = NoJti
            /\ w.row.issued \in Time
            /\ w.row.expires <= w.row.absolute
            /\ w.row.revoked \in {NotRevoked, "logout"}
            /\ \A j \in Stored : tokens[j].rotatedTo # k
            /\ w.rotate = NoJti =>
                 /\ w.row.family = k
                 /\ w.row.revoked = NotRevoked
                 /\ w.row.absolute = w.row.issued + AbsTTL
            /\ w.rotate # NoJti =>
                 /\ w.rotate < k
                 /\ w.row.family = tokens[w.rotate].family
                 /\ w.row.absolute = tokens[w.rotate].absolute
                 /\ w.revoke = {}

PlansOK == \A p \in Requests : phase[p] = "decided" => RewritesOK(p) /\ InsertOK(p)

IdsDistinct ==
    \A p, q \in Requests :
        /\ phase[p] = "decided" /\ phase[q] = "decided"
        /\ plan[p].insert = plan[q].insert /\ plan[p].insert # NoJti
        => p = q

UnusedIds == \A k \in Jti : k >= nextJti => openedAt[k] = Never

\* What a waiting request knows of its target: if the row, or a row of the
\* family, is still there, it belongs to the user whose lock is awaited; ids
\* and family names are not used again.
TargetOK(p) ==
    LET c == call[p]
    IN  /\ c.jti # NoJti =>
            /\ c.jti < nextJti
            /\ c.jti \in Stored => tokens[c.jti].user = c.user
            /\ \A q \in Requests : phase[q] = "decided" => plan[q].insert # c.jti
        /\ c.family # NoJti =>
            /\ openedAt[c.family] # Never
            /\ \A j \in FamilyRows(c.family) : tokens[j].user = c.user
        /\ c.op \in {"refresh", "logout"} => c.jti # NoJti
        /\ c.op = "force" => c.family # NoJti

TargetsOK == \A p \in Requests : phase[p] # "idle" => TargetOK(p)

IInv == /\ TypeOK /\ CallsKnown /\ LockHeld
        /\ TableOK /\ PlansOK /\ IdsDistinct /\ UnusedIds /\ TargetsOK

-----------------------------------------------------------------------------
(* Initial states.                                                         *)

\* Nothing is stored, planned or asked at first.
LEMMA InitEstablishes == Init => IInv
  <1> SUFFICES ASSUME Init PROVE IInv
      OBVIOUS
  <1> USE DEF Init
  <1>1. TypeOK
        BY BoundAssumption DEF TypeOK, Jti, Time, Never, Phases, Plan, NoWrites,
           Revoking, NoJti, Reasons
  <1>2. CallsKnown /\ LockHeld /\ PlansOK /\ IdsDistinct /\ TargetsOK
        BY DEF CallsKnown, LockHeld, PlansOK, IdsDistinct, TargetsOK
  <1>3. TableOK /\ UnusedIds
        BY DEF TableOK, Stored, UnusedIds
  <1> QED
      BY <1>1, <1>2, <1>3 DEF IInv

-----------------------------------------------------------------------------
(* Lemmas about the helpers.                                               *)

\* A freshly issued row is well formed and never outlives its anchor.
LEMMA NewRowFits ==
  ASSUME TypeOK, NEW u \in Users, NEW f \in Jti, NEW absolute \in Nat,
         NEW r \in Reasons \cup {NotRevoked}
  PROVE  /\ NewRow(u, f, absolute, r) \in Row
         /\ NewRow(u, f, absolute, r).expires <= absolute
  BY SettingsAssumption, BoundAssumption DEF TypeOK, NewRow, Row, LeastOf, Time, Reasons,
     NotRevoked, NoJti

\* Finishing a request gives back its locks and nobody else's.
LEMMA FinishReleases ==
  ASSUME NEW p \in Requests, TypeOK, CallsKnown, LockHeld, Finish(p)
  PROVE  /\ CallsKnown' /\ LockHeld'
         /\ phase' \in [Requests -> Phases] /\ call' \in [Requests -> Call \cup {None}]
         /\ plan' \in [Requests -> Plan]
         /\ lock' \in [Buckets -> Requests \cup {None}]
         /\ userRow' \in [Users -> Requests \cup {None}]
  <1>1. NoWrites \in Plan
        BY DEF NoWrites, Revoking, Plan, Reasons
  <1>2. /\ phase' \in [Requests -> Phases] /\ call' \in [Requests -> Call \cup {None}]
        /\ plan' \in [Requests -> Plan]
        BY <1>1 DEF Finish, TypeOK, Phases
  <1>3. /\ lock' \in [Buckets -> Requests \cup {None}]
        /\ userRow' \in [Users -> Requests \cup {None}]
        BY DEF Finish, Release, TypeOK
  <1>4. CallsKnown'
        BY DEF Finish, TypeOK, CallsKnown
  <1>5. LockHeld'
        <2> SUFFICES ASSUME NEW q \in Requests, phase'[q] \in {"locked", "decided"}
                     PROVE  lock'[BucketOf[call'[q].user]] = q
            BY DEF LockHeld
        <2>1. q # p /\ phase[q] = phase'[q] /\ call'[q] = call[q]
              BY DEF Finish, TypeOK
        <2>2. call[q] \in Call /\ lock[BucketOf[call[q].user]] = q
              BY <2>1 DEF CallsKnown, LockHeld
        <2>3. BucketOf[call[q].user] \in Buckets
              BY <2>2, BucketAssumption DEF Call
        <2> QED
            BY <2>1, <2>2, <2>3 DEF Finish, Release
  <1> QED
      BY <1>2, <1>3, <1>4, <1>5

\* Entering: the parameters are a call, and nothing else changes.
LEMMA EnterTypes ==
  ASSUME TypeOK, CallsKnown, LockHeld, NEW p \in Requests, NEW op \in Ops, NEW u \in Users,
         NEW j \in Jti \cup {NoJti}, NEW f \in Jti \cup {NoJti},
         NEW first \in {"verified", "queued"}, Enter(p, op, u, j, f, first)
  PROVE  TypeOK' /\ CallsKnown' /\ LockHeld'
  <1>1. [op |-> op, user |-> u, jti |-> j, family |-> f,
         at |-> IF op = "refresh" THEN now ELSE 0] \in Call
        BY BoundAssumption DEF Call, TypeOK, Time
  <1>2. TypeOK'
        BY <1>1 DEF Enter, TypeOK, Stored, Phases
  <1>3. CallsKnown' /\ LockHeld'
        BY <1>1 DEF Enter, TypeOK, CallsKnown, LockHeld
  <1> QED
      BY <1>2, <1>3

\* The rows and ids a statement under the lock may name.
LEMMA DecideTypes ==
  ASSUME TypeOK, CallsKnown, LockHeld, NEW p \in Requests, NEW w \in Plan, Decide(p, w),
         UNCHANGED nextJti \/ Insert(p)
  PROVE  TypeOK' /\ CallsKnown' /\ LockHeld'
  <1>1. nextJti' \in 1 .. MaxTokens + 1 /\ nextJti <= nextJti'
        BY BoundAssumption DEF TypeOK, Insert
  <1>2. TypeOK'
        BY <1>1 DEF Decide, TypeOK, Phases
  <1>3. CallsKnown' /\ LockHeld'
        BY DEF Decide, TypeOK, CallsKnown, LockHeld
  <1> QED
      BY <1>2, <1>3

-----------------------------------------------------------------------------
(* Steps by effect: those that write no token, those that only delete, those  *)
(* that plan, and the commit.                                                *)

\* The rows of a table stay consistent when some of them are deleted.
LEMMA DeletionKeepsTable ==
  ASSUME IInv, NEW X,
         DOMAIN tokens' = Stored \ X, \A j \in Stored \ X : tokens'[j] = tokens[j],
         UNCHANGED <<nextJti, openedAt>>
  PROVE  TableOK' /\ UnusedIds'
  <1>1. ASSUME NEW j \in Stored' PROVE RowOK(j)'
        BY <1>1 DEF IInv, TableOK, Stored, RowOK
  <1>2. ASSUME NEW j \in Stored', NEW k \in Stored' PROVE PairOK(j, k)'
        BY <1>2 DEF IInv, TableOK, Stored, PairOK, SameFamily, Unrevoked
  <1>3. UnusedIds'
        BY DEF IInv, UnusedIds
  <1> QED
      BY <1>1, <1>2, <1>3 DEF TableOK

\* A step that starts, moves or ends requests and deletes rows nobody has
\* locked preserves the invariant; a request that starts brings its target.
LEMMA NothingWritten ==
  ASSUME IInv, NEW X, \A j \in X : ~RowLocked(j),
         DOMAIN tokens' = Stored \ X, \A j \in Stored \ X : tokens'[j] = tokens[j],
         UNCHANGED <<nextJti, openedAt>>,
         TypeOK', CallsKnown', LockHeld',
         \A q \in Requests : phase'[q] = "decided" =>
            phase[q] = "decided" /\ plan'[q] = plan[q] /\ call'[q] = call[q],
         \A q \in Requests : phase'[q] # "idle" =>
            (phase[q] # "idle" /\ call'[q] = call[q]) \/ TargetOK(q)'
  PROVE  IInv'
  <1>1. TableOK' /\ UnusedIds'
        BY DeletionKeepsTable
  <1>2. ASSUME NEW q \in Requests, phase'[q] = "decided"
        PROVE  RewritesOK(q)' /\ InsertOK(q)'
        <2>1. RewritesOK(q) /\ InsertOK(q) /\ plan'[q] = plan[q] /\ call'[q] = call[q]
              BY <1>2 DEF IInv, PlansOK
        <2>2. \A j \in plan[q].revoke \cup {plan[q].rotate} : j \notin X
              BY <1>2 DEF RowLocked
        <2>3. RewritesOK(q)'
              BY <2>1, <2>2 DEF RewritesOK, Stored, Unrevoked, LiveRows, FamilyRows
        <2>4. InsertOK(q)'
              <3>1. plan[q].rotate # NoJti => plan[q].rotate \in Stored \ X
                    BY <2>1, <2>2 DEF RewritesOK
              <3>2. Stored' \subseteq Stored /\ \A j \in Stored' : tokens'[j] = tokens[j]
                    BY DEF Stored
              <3> QED
                  BY <2>1, <3>1, <3>2 DEF InsertOK
        <2> QED
            BY <2>3, <2>4
  <1>3. IdsDistinct'
        BY DEF IInv, IdsDistinct
  <1>4. ASSUME NEW q \in Requests, phase'[q] # "idle"
        PROVE  TargetOK(q)'
        <2>1. CASE phase[q] # "idle" /\ call'[q] = call[q]
              <3>1. TargetOK(q)
                    BY <2>1 DEF IInv, TargetsOK
              <3>2. Stored' \subseteq Stored /\ \A j \in Stored' : tokens'[j] = tokens[j]
                    BY DEF Stored
              <3> QED
                  BY <2>1, <3>1, <3>2 DEF TargetOK, FamilyRows
        <2> QED
            BY <1>4, <2>1
  <1> QED
      BY <1>1, <1>2, <1>3, <1>4 DEF IInv, PlansOK, TargetsOK

\* The same for a step that leaves the table alone.
LEMMA NothingDeleted ==
  ASSUME IInv, UNCHANGED <<tokens, nextJti, openedAt>>,
         TypeOK', CallsKnown', LockHeld',
         \A q \in Requests : phase'[q] = "decided" =>
            phase[q] = "decided" /\ plan'[q] = plan[q] /\ call'[q] = call[q],
         \A q \in Requests : phase'[q] # "idle" =>
            (phase[q] # "idle" /\ call'[q] = call[q]) \/ TargetOK(q)'
  PROVE  IInv'
  <1> DEFINE X == {}
  <1>1. \A j \in X : ~RowLocked(j)
        OBVIOUS
  <1>2. DOMAIN tokens' = Stored \ X /\ \A j \in Stored \ X : tokens'[j] = tokens[j]
        BY DEF Stored
  <1> HIDE DEF X
  <1> QED
      BY <1>1, <1>2, NothingWritten

\* A statement under the lock preserves the invariant when what it plans is
\* in order and an inserted row takes the next id.
LEMMA Planned ==
  ASSUME IInv, NEW p \in Requests, NEW w \in Plan, Decide(p, w),
         \/ w.insert = NoJti /\ UNCHANGED nextJti
         \/ w.insert = nextJti /\ Insert(p),
         RewritesOK(p)', InsertOK(p)'
  PROVE  IInv'
  <1>0. TypeOK /\ CallsKnown /\ LockHeld
        BY DEF IInv
  <1>1. TypeOK' /\ CallsKnown' /\ LockHeld'
        BY <1>0, DecideTypes
  <1>2. /\ nextJti \in Nat /\ nextJti' \in Nat /\ nextJti <= nextJti'
        /\ UNCHANGED <<tokens, call, openedAt>>
        BY <1>0, BoundAssumption DEF TypeOK, Insert, Decide
  <1>3. /\ plan'[p] = w /\ phase'[p] = "decided"
        /\ \A q \in Requests \ {p} : plan'[q] = plan[q] /\ phase'[q] = phase[q]
        BY <1>0 DEF TypeOK, Decide
  <1>4. TableOK'
        <2>1. \A j \in Stored : RowOK(j)'
              BY <1>0, <1>2 DEF IInv, TableOK, RowOK, TypeOK, Stored, Row, Jti, NoJti
        <2> QED
            BY <1>2, <2>1 DEF IInv, TableOK, Stored, PairOK, SameFamily, Unrevoked
  <1>5. ASSUME NEW q \in Requests, phase'[q] = "decided"
        PROVE  RewritesOK(q)' /\ InsertOK(q)'
        <2>1. CASE q # p
              <3>1. RewritesOK(q) /\ InsertOK(q) /\ plan[q] \in Plan
                    BY <1>0, <1>3, <1>5, <2>1 DEF IInv, PlansOK, TypeOK
              <3> QED
                  BY <1>2, <1>3, <2>1, <3>1 DEF RewritesOK, InsertOK, Stored, Unrevoked,
                     LiveRows, FamilyRows, Plan, Jti, NoJti
        <2> QED
            BY <2>1
  <1>6. IdsDistinct'
        <2>1. \A q \in Requests : phase[q] = "decided" => plan[q].insert < nextJti
              BY <1>0, <1>2 DEF IInv, PlansOK, InsertOK, NoJti, TypeOK
        <2> QED
            BY <1>2, <1>3, <2>1 DEF IInv, IdsDistinct
  <1>7. UnusedIds'
        BY <1>2 DEF IInv, UnusedIds, Jti
  <1>8. ASSUME NEW q \in Requests, phase'[q] # "idle"
        PROVE  TargetOK(q)'
        <2>1. phase[q] # "idle" /\ TargetOK(q) /\ call[q] \in Call
              BY <1>0, <1>3, <1>8 DEF IInv, TargetsOK, Decide, CallsKnown
        <2>2. call[q].jti # NoJti => call[q].jti < nextJti' /\ w.insert # call[q].jti
              BY <1>2, <2>1 DEF TargetOK, Call, Jti, NoJti
        <2> QED
            BY <1>2, <1>3, <2>1, <2>2 DEF TargetOK, Stored, FamilyRows
  <1> QED
      BY <1>1, <1>4, <1>5, <1>6, <1>7, <1>8 DEF IInv, PlansOK, TargetsOK

-----------------------------------------------------------------------------
(* The actions that write no token.                                        *)

\* A started request knows the owner of the token or family it will act on.
LEMMA StartKeeps == ASSUME IInv, NEW p \in Requests, Start(p) PROVE IInv'
  <1> DEFINE Entered(op, u, j, f, first) ==
        /\ op \in Ops /\ u \in Users /\ j \in Jti \cup {NoJti} /\ f \in Jti \cup {NoJti}
        /\ first \in {"verified", "queued"} /\ Enter(p, op, u, j, f, first)
        /\ op \in {"refresh", "logout"} => j \in Stored /\ u = tokens[j].user
        /\ op \notin {"refresh", "logout"} => j = NoJti
        /\ op = "force" => f \in ActiveFamilies(u, now)
        /\ op # "force" => f = NoJti
  <1>0. TypeOK /\ CallsKnown /\ LockHeld
        BY DEF IInv
  <1>1. ASSUME NEW op, NEW u, NEW j, NEW f, NEW first, Entered(op, u, j, f, first)
        PROVE  IInv'
        <2>1. TypeOK' /\ CallsKnown' /\ LockHeld'
              BY <1>0, <1>1, EnterTypes
        <2>2. /\ UNCHANGED <<tokens, nextJti, openedAt, plan>>
              /\ phase' = [phase EXCEPT ![p] = first]
              /\ call' = [call EXCEPT ![p] = [op |-> op, user |-> u, jti |-> j,
                            family |-> f, at |-> IF op = "refresh" THEN now ELSE 0]]
              BY <1>1 DEF Enter
        <2>3. /\ call'[p].op = op /\ call'[p].user = u /\ call'[p].jti = j
              /\ call'[p].family = f /\ phase'[p] = first
              /\ \A q \in Requests \ {p} : phase'[q] = phase[q] /\ call'[q] = call[q]
              BY <1>0, <2>2 DEF TypeOK
        <2>4. j # NoJti =>
                /\ j < nextJti /\ tokens[j].user = u /\ j \in Stored
                /\ \A q \in Requests : phase[q] = "decided" => plan[q].insert # j
              <3>1. j # NoJti => j \in Stored /\ tokens[j].user = u
                    BY <1>1
              <3>2. \A q \in Requests : phase[q] = "decided" => plan[q].insert \notin Stored
                    BY <1>0 DEF IInv, PlansOK, InsertOK, TypeOK, Stored, NoJti
              <3> QED
                  BY <1>0, <3>1, <3>2 DEF TypeOK, Stored
        <2>5. f # NoJti => /\ openedAt[f] # Never
                           /\ \A k \in FamilyRows(f) : tokens[k].user = u
              <3> SUFFICES ASSUME f # NoJti
                           PROVE  /\ openedAt[f] # Never
                                  /\ \A k \in FamilyRows(f) : tokens[k].user = u
                  OBVIOUS
              <3>1. PICK i \in Stored : tokens[i].user = u /\ tokens[i].family = f
                    BY <1>1 DEF ActiveFamilies, ActiveRows
              <3> QED
                  BY <3>1 DEF IInv, TableOK, RowOK, PairOK, SameFamily, FamilyRows
        <2>6. TargetOK(p)'
              <3>1. /\ op \in {"refresh", "logout"} => j # NoJti
                    /\ op = "force" => f # NoJti
                    BY <1>0, <1>1 DEF TypeOK, Stored, NoJti, ActiveFamilies, ActiveRows,
                       Row, Jti
              <3>2. FamilyRows(f)' = FamilyRows(f)
                    BY <2>2 DEF FamilyRows, Stored
              <3>3. \A q \in Requests : phase'[q] = "decided" => phase[q] = "decided"
                    BY <1>1, <2>3
              <3> QED
                  BY <2>2, <2>3, <2>4, <2>5, <3>1, <3>2, <3>3 DEF TargetOK, Stored
        <2>7. \A q \in Requests : phase'[q] = "decided" =>
                 phase[q] = "decided" /\ plan'[q] = plan[q] /\ call'[q] = call[q]
              BY <1>1, <2>2, <2>3
        <2>8. \A q \in Requests : phase'[q] # "idle" =>
                 (phase[q] # "idle" /\ call'[q] = call[q]) \/ TargetOK(q)'
              BY <2>3, <2>6
        <2> QED
            BY <2>1, <2>2, <2>7, <2>8, NothingDeleted
  <1>2. ASSUME NEW u \in Users, StartLogin(p, u) PROVE IInv'
        <2>1. Entered("login", u, NoJti, NoJti, "queued")
              BY <1>2 DEF StartLogin, Ops
        <2> QED
            BY <1>1, <2>1
  <1>3. ASSUME NEW j \in Jti, StartRefresh(p, j) PROVE IInv'
        <2>1. Entered("refresh", tokens[j].user, j, NoJti, "queued")
              BY <1>0, <1>3 DEF StartRefresh, Ops, TypeOK, Stored, Row
        <2> QED
            BY <1>1, <2>1
  <1>4. ASSUME NEW j \in Jti, StartLogout(p, j) PROVE IInv'
        <2>1. Entered("logout", tokens[j].user, j, NoJti, "queued")
              BY <1>0, <1>4 DEF StartLogout, Ops, TypeOK, Stored, Row
        <2> QED
            BY <1>1, <2>1
  <1>5. ASSUME NEW u \in Users, NEW f \in Jti, StartForceLogout(p, u, f) PROVE IInv'
        <2>1. Entered("force", u, NoJti, f, "queued")
              BY <1>5 DEF StartForceLogout, Ops
        <2> QED
            BY <1>1, <2>1
  <1>6. ASSUME NEW u \in Users, StartChangePassword(p, u) PROVE IInv'
        <2>1. Entered("change", u, NoJti, NoJti, "verified")
              BY <1>6 DEF StartChangePassword, Ops
        <2> QED
            BY <1>1, <2>1
  <1> QED
      BY <1>2, <1>3, <1>4, <1>5, <1>6 DEF Start

\* Waiting for locks and getting them.
LEMMA LockingKeeps ==
  ASSUME IInv, NEW p \in Requests, FlushPassword(p) \/ Acquire(p) PROVE IInv'
  <1>0. TypeOK /\ CallsKnown /\ LockHeld
        BY DEF IInv
  <1>1. /\ UNCHANGED <<tokens, nextJti, openedAt, plan, call>>
        /\ phase[p] \notin {"idle", "decided"}
        /\ phase' = [phase EXCEPT ![p] = "queued"] \/ phase' = [phase EXCEPT ![p] = "locked"]
        BY DEF FlushPassword, Acquire
  <1>2. TypeOK' /\ CallsKnown'
        BY <1>0, <1>1 DEF FlushPassword, Acquire, TypeOK, CallsKnown, Phases, Stored
  <1>3. LockHeld'
        <2>1. CASE FlushPassword(p)
              BY <1>0, <2>1 DEF FlushPassword, TypeOK, LockHeld
        <2>2. CASE Acquire(p)
              <3>1. BucketOf[call[p].user] \in Buckets
                    BY <1>0, <1>1, BucketAssumption DEF CallsKnown, Call
              <3>2. lock' = [lock EXCEPT ![BucketOf[call[p].user]] = p]
                    BY <2>2 DEF Acquire
              <3>3. lock[BucketOf[call[p].user]] = None
                    BY <2>2 DEF Acquire, BucketFree
              <3>4. lock'[BucketOf[call[p].user]] = p
                    BY <1>0, <3>1, <3>2 DEF TypeOK
              <3>5. ASSUME NEW q \in Requests \ {p}, phase'[q] \in {"locked", "decided"}
                    PROVE  lock'[BucketOf[call'[q].user]] = q
                    <4>1. phase[q] = phase'[q] /\ call'[q] = call[q]
                          BY <1>0, <1>1, <3>5 DEF TypeOK
                    <4>2. lock[BucketOf[call[q].user]] = q /\ call[q] \in Call
                          BY <1>0, <3>5, <4>1 DEF LockHeld, CallsKnown
                    <4>3. BucketOf[call[q].user] # BucketOf[call[p].user]
                          BY <3>3, <4>2, NoneAssumption
                    <4>4. BucketOf[call[q].user] \in Buckets
                          BY <4>2, BucketAssumption DEF Call
                    <4> QED
                        BY <1>0, <3>2, <4>1, <4>2, <4>3, <4>4 DEF TypeOK
              <3> QED
                  BY <1>1, <3>4, <3>5 DEF LockHeld
        <2> QED
            BY <2>1, <2>2
  <1>4. \A q \in Requests : /\ phase'[q] = "decided" => phase[q] = "decided"
                            /\ phase'[q] # "idle" => phase[q] # "idle"
        BY <1>0, <1>1 DEF TypeOK
  <1> QED
      BY <1>1, <1>2, <1>3, <1>4, NothingDeleted

\* Rollback for whatever reason.
LEMMA RollbackKeeps ==
  ASSUME IInv, NEW p \in Requests, Abort(p) \/ DeadlockVictim(p) \/ UserGone(p) PROVE IInv'
  <1>0. TypeOK /\ CallsKnown /\ LockHeld
        BY DEF IInv
  <1>1. Finish(p) /\ UNCHANGED <<now, tokens, nextJti, status, openedAt, pwdMark>>
        BY DEF Abort, DeadlockVictim, UserGone
  <1>2. CallsKnown' /\ LockHeld' /\ TypeOK'
        BY <1>0, <1>1, FinishReleases DEF TypeOK
  <1>3. \A q \in Requests : phase'[q] # "idle" =>
           phase[q] = phase'[q] /\ plan'[q] = plan[q] /\ call'[q] = call[q]
        BY <1>0, <1>1 DEF TypeOK, Finish
  <1> QED
      BY <1>1, <1>2, <1>3, NothingDeleted

\* Clean-up, user administration and the clock.
LEMMA SurroundingsKeep ==
  ASSUME IInv,
         \/ Cleanup
         \/ \E u \in Users, s \in {"active", "disabled"} : SetStatus(u, s)
         \/ \E u \in Users : DeleteUser(u)
         \/ Tick
  PROVE  IInv'
  <1>0. TypeOK /\ CallsKnown /\ LockHeld
        BY DEF IInv
  <1>1. UNCHANGED <<nextJti, openedAt, phase, call, plan, lock, userRow, pwdMark>>
        BY DEF Cleanup, SetStatus, DeleteUser, Tick
  <1>2. PICK X \in SUBSET Stored :
           /\ \A j \in X : ~RowLocked(j)
           /\ tokens' = [j \in Stored \ X |-> tokens[j]]
        <2>1. CASE Cleanup
              <3> DEFINE expired == {j \in Stored : tokens[j].expires <= now}
              <3>1. expired \in SUBSET Stored /\ \A j \in expired : ~RowLocked(j)
                    BY <2>1 DEF Cleanup
              <3>2. tokens' = [j \in Stored \ expired |-> tokens[j]]
                    BY <2>1 DEF Cleanup
              <3> HIDE DEF expired
              <3> QED
                  BY <3>1, <3>2
        <2>2. ASSUME NEW u \in Users, DeleteUser(u)
              PROVE  \E X \in SUBSET Stored :
                        /\ \A j \in X : ~RowLocked(j)
                        /\ tokens' = [j \in Stored \ X |-> tokens[j]]
              <3> DEFINE owned == {j \in Stored : tokens[j].user = u}
              <3>1. owned \in SUBSET Stored /\ \A j \in owned : ~RowLocked(j)
                    BY <2>2 DEF DeleteUser
              <3>2. tokens' = [j \in Stored \ owned |-> tokens[j]]
                    BY <2>2 DEF DeleteUser
              <3> HIDE DEF owned
              <3> QED
                  BY <3>1, <3>2
        <2>3. CASE UNCHANGED tokens
              <3>1. tokens' = [j \in Stored \ {} |-> tokens[j]]
                    BY <1>0, <2>3 DEF Stored, TypeOK
              <3> QED
                  BY <3>1
        <2> QED
            BY <2>1, <2>2, <2>3 DEF SetStatus, Tick
  <1>3. TypeOK'
        <2>1. now' \in Time /\ status' \in [Users -> {"active", "disabled", "gone"}]
              <3>1. CASE Cleanup
                    BY <1>0, <3>1 DEF TypeOK, Cleanup
              <3>2. ASSUME NEW u \in Users, NEW s \in {"active", "disabled"}, SetStatus(u, s)
                    PROVE  now' \in Time /\ status' \in [Users -> {"active", "disabled", "gone"}]
                    BY <1>0, <3>2 DEF TypeOK, SetStatus
              <3>3. ASSUME NEW u \in Users, DeleteUser(u)
                    PROVE  now' \in Time /\ status' \in [Users -> {"active", "disabled", "gone"}]
                    BY <1>0, <3>3 DEF TypeOK, DeleteUser
              <3>4. CASE Tick
                    BY <1>0, <3>4, BoundAssumption DEF TypeOK, Tick, Time
              <3> QED
                  BY <3>1, <3>2, <3>3, <3>4
        <2>2. DOMAIN tokens' \subseteq 1 .. nextJti - 1 /\ tokens' \in [DOMAIN tokens' -> Row]
              <3>1. Stored \subseteq 1 .. nextJti - 1 /\ \A j \in Stored : tokens[j] \in Row
                    BY <1>0 DEF TypeOK, Stored
              <3> QED
                  BY <1>1, <1>2, <3>1
        <2> QED
            BY <1>0, <1>1, <2>1, <2>2 DEF TypeOK
  <1>4. CallsKnown' /\ LockHeld'
        BY <1>0, <1>1 DEF CallsKnown, LockHeld
  <1>5. \A q \in Requests :
          /\ phase'[q] = "decided" =>
               phase[q] = "decided" /\ plan'[q] = plan[q] /\ call'[q] = call[q]
          /\ phase'[q] # "idle" =>
               (phase[q] # "idle" /\ call'[q] = call[q]) \/ TargetOK(q)'
        BY <1>1
  <1>6. DOMAIN tokens' = Stored \ X /\ \A j \in Stored \ X : tokens'[j] = tokens[j]
        BY <1>2
  <1> QED
      BY <1>1, <1>2, <1>3, <1>4, <1>5, <1>6, NothingWritten

-----------------------------------------------------------------------------
(* The statements under the lock.                                          *)

\* Stored rows have proper ids.
LEMMA StoredIds == TypeOK => Stored \subseteq Jti /\ NoJti \notin Stored
  BY BoundAssumption DEF TypeOK, Stored, Jti, NoJti

\* A plan that inserts nothing and revokes nothing, or the whole of one family
\* of the user's, is in order.
LEMMA RevokingPlan ==
  ASSUME IInv, NEW p \in Requests, NEW R \in SUBSET Stored, NEW why \in Reasons, NEW verdict \in BOOLEAN,
         call[p] \in Call, call[p].op # "change", why # "rotated",
         \A j \in R : Unrevoked(j) /\ tokens[j].user = call[p].user
                      /\ LiveRows(tokens[j].family) \subseteq R,
         Decide(p, Revoking(R, why, verdict)),
         UNCHANGED nextJti
  PROVE  IInv'
  <1> DEFINE w == Revoking(R, why, verdict)
  <1>0. TypeOK
        BY DEF IInv
  <1>1. /\ w.insert = NoJti /\ w.rotate = NoJti /\ w.revoke = R /\ w.reason = why
        /\ w \in Plan
        BY <1>0, StoredIds DEF Revoking, Plan
  <1>2. Decide(p, w)
        OBVIOUS
  <1> HIDE DEF w
  <1>3. plan'[p] = w /\ UNCHANGED <<tokens, call>>
        BY <1>0, <1>2 DEF Decide, TypeOK
  <1>4. RewritesOK(p)'
        <2>1. NoJti \notin R
              BY <1>0, StoredIds
        <2> QED
            BY <1>1, <1>3, <2>1 DEF RewritesOK, Stored, Unrevoked, LiveRows, FamilyRows
  <1>5. InsertOK(p)'
        BY <1>1, <1>3 DEF InsertOK
  <1> QED
      BY <1>1, <1>2, <1>4, <1>5, Planned

\* What is known of the id and the row of an INSERT.
LEMMA FreshId ==
  ASSUME IInv, NEW p \in Requests, Insert(p)
  PROVE  /\ nextJti \in Jti /\ nextJti # NoJti /\ nextJti \notin Stored /\ nextJti' = nextJti + 1
         /\ openedAt[nextJti] = Never
         /\ \A j \in Stored : tokens[j].rotatedTo # nextJti /\ j < nextJti
         /\ now \in Time /\ now \in Nat
  <1>0. TypeOK
        BY DEF IInv
  <1>1. nextJti \in Jti /\ nextJti # NoJti /\ nextJti \notin Stored /\ nextJti' = nextJti + 1
        BY <1>0, BoundAssumption DEF Insert, TypeOK, Jti, NoJti, Stored
  <1>2. \A j \in Stored : tokens[j].rotatedTo < nextJti /\ tokens[j].rotatedTo \in Int /\ j < nextJti
        BY <1>0, BoundAssumption DEF IInv, TableOK, RowOK, TypeOK, Stored, Row, Jti, NoJti
  <1>3. openedAt[nextJti] = Never
        BY <1>1 DEF IInv, UnusedIds, Jti
  <1>4. now \in Time /\ now \in Nat
        BY <1>0, BoundAssumption DEF TypeOK, Time
  <1> QED
      BY <1>1, <1>2, <1>3, <1>4, <1>0 DEF TypeOK

\* Opening a family while closing whole other ones (login, password change).
LEMMA OpeningPlan ==
  ASSUME IInv, NEW p \in Requests, NEW R \in SUBSET Stored, NEW why \in Reasons,
         call[p] \in Call, why # "rotated", Insert(p),
         \A j \in R : Unrevoked(j) /\ tokens[j].user = call[p].user
                      /\ LiveRows(tokens[j].family) \subseteq R,
         Decide(p, Opening(call[p].user, R, why))
  PROVE  IInv'
  <1> DEFINE u == call[p].user
             row == NewRow(u, nextJti, now + AbsTTL, NotRevoked)
             w == Opening(u, R, why)
  <1>0. TypeOK
        BY DEF IInv
  <1>1. /\ nextJti \in Jti /\ nextJti # NoJti /\ nextJti \notin Stored /\ nextJti' = nextJti + 1
        /\ openedAt[nextJti] = Never
        /\ \A j \in Stored : tokens[j].rotatedTo # nextJti /\ j < nextJti
        /\ now \in Time /\ now \in Nat
        BY FreshId
  <1>2. row \in Row /\ row.expires <= row.absolute
        <2>1. u \in Users /\ now + AbsTTL \in Nat
              BY <1>1, SettingsAssumption DEF Call
        <2>2. row.absolute = now + AbsTTL
              BY DEF NewRow
        <2> HIDE DEF u
        <2> QED
            BY <1>0, <1>1, <2>1, <2>2, NewRowFits
  <1>3. /\ row.family = nextJti /\ row.user = u /\ row.rotatedTo = NoJti /\ row.issued = now
        /\ row.revoked = NotRevoked /\ row.absolute = now + AbsTTL
        BY DEF NewRow
  <1>4. Decide(p, w)
        OBVIOUS
  <1> HIDE DEF row
  <1>5. /\ w.insert = nextJti /\ w.rotate = NoJti /\ w.revoke = R /\ w.reason = why
        /\ w.row = row /\ w \in Plan
        BY <1>0, <1>1, <1>2, StoredIds DEF Plan, Opening, row
  <1> HIDE DEF w, u
  <1>6. plan'[p] = w /\ UNCHANGED <<tokens, call, openedAt>>
        BY <1>0, <1>4 DEF Decide, TypeOK
  <1>7. RewritesOK(p)'
        <2>1. NoJti \notin R
              BY <1>0, StoredIds
        <2> QED
            BY <1>5, <1>6, <2>1 DEF RewritesOK, Stored, Unrevoked, LiveRows, FamilyRows, u
  <1>8. InsertOK(p)'
        <2>1. nextJti < nextJti'
              BY <1>1 DEF Jti
        <2> QED
            BY <1>1, <1>2, <1>3, <1>5, <1>6, <2>1 DEF InsertOK, Stored, u
  <1> QED
      BY <1>4, <1>5, <1>7, <1>8, Planned

\* Replacing an unrevoked row of the user's by its successor; the successor of
\* a disabled user is revoked at once.
LEMMA RotatingPlan ==
  ASSUME IInv, NEW p \in Requests, NEW j \in Stored, NEW r \in {NotRevoked, "logout"},
         NEW why \in Reasons, NEW R, R = {},
         call[p] \in Call, tokens[j].user = call[p].user, Unrevoked(j), Insert(p),
         Decide(p, Rotating(j, call[p].user, r, R, why))
  PROVE  IInv'
  <1> DEFINE u == call[p].user
             row == NewRow(u, tokens[j].family, tokens[j].absolute, r)
             w == Rotating(j, u, r, R, why)
  <1>0. TypeOK
        BY DEF IInv
  <1>1. /\ nextJti \in Jti /\ nextJti # NoJti /\ nextJti \notin Stored /\ nextJti' = nextJti + 1
        /\ openedAt[nextJti] = Never
        /\ \A i \in Stored : tokens[i].rotatedTo # nextJti /\ i < nextJti
        /\ now \in Time /\ now \in Nat
        BY FreshId
  <1>2. Decide(p, w)
        OBVIOUS
  <1>3. j \in Jti /\ j # NoJti
        BY <1>0, StoredIds
  <1>8. /\ row.family = tokens[j].family /\ row.user = u /\ row.rotatedTo = NoJti
        /\ row.issued = now /\ row.revoked = r /\ row.absolute = tokens[j].absolute
        BY DEF NewRow
  <1>9. row \in Row /\ row.expires <= row.absolute
        <2>1. u \in Users /\ tokens[j].family \in Jti /\ tokens[j].absolute \in Nat
              BY <1>0 DEF TypeOK, Stored, Row, Call
        <2>2. r \in Reasons \cup {NotRevoked}
              BY DEF Reasons
        <2> HIDE DEF u
        <2> QED
            BY <1>0, <1>8, <2>1, <2>2, NewRowFits
  <1> HIDE DEF row
  <1>4. /\ w.insert = nextJti /\ w.rotate = j /\ w.revoke = {} /\ w.row = row
        /\ w \in Plan
        BY <1>1, <1>3, <1>9 DEF Plan, Rotating, row
  <1> HIDE DEF w, u
  <1>5. plan'[p] = w /\ UNCHANGED <<tokens, call, openedAt>>
        BY <1>0, <1>2 DEF Decide, TypeOK
  <1>6. RewritesOK(p)'
        BY <1>4, <1>5 DEF RewritesOK, Stored, Unrevoked
  <1>7. InsertOK(p)'
        <2>1. nextJti < nextJti'
              BY <1>1 DEF Jti
        <2> QED
            BY <1>1, <1>3, <1>4, <1>5, <1>8, <1>9, <2>1 DEF InsertOK, Stored, u
  <1> QED
      BY <1>2, <1>4, <1>6, <1>7, Planned

\* A request in the critical section knows its parameters and its target.
LEMMA AskedKnows ==
  ASSUME IInv, NEW p \in Requests, phase[p] = "locked"
  PROVE  /\ call[p] \in Call /\ call[p].user \in Users
         /\ call[p].op \in {"refresh", "logout"} /\ call[p].jti \in Stored =>
              \A k \in FamilyRows(tokens[call[p].jti].family) : tokens[k].user = call[p].user
         /\ call[p].op = "force" =>
              \A k \in FamilyRows(call[p].family) : tokens[k].user = call[p].user
  <1>1. call[p] \in Call /\ TargetOK(p) /\ call[p].user \in Users
        BY DEF IInv, CallsKnown, TargetsOK, Call
  <1>2. ASSUME call[p].op \in {"refresh", "logout"}, call[p].jti \in Stored,
               NEW k \in FamilyRows(tokens[call[p].jti].family)
        PROVE  tokens[k].user = call[p].user
        <2>1. tokens[call[p].jti].user = call[p].user
              BY <1>1, <1>2 DEF TargetOK
        <2>2. k \in Stored /\ SameFamily(k, call[p].jti)
              BY <1>2 DEF FamilyRows, SameFamily
        <2> QED
            BY <1>2, <2>1, <2>2 DEF IInv, TableOK, PairOK
  <1> QED
      BY <1>1, <1>2 DEF TargetOK

\* Every row of a family that is usable is usable under the name of any of them.
LEMMA WholeFamily ==
  ASSUME NEW j \in Stored
  PROVE  /\ LiveRows(tokens[j].family) \in SUBSET Stored
         /\ \A k \in LiveRows(tokens[j].family) :
               /\ Unrevoked(k) /\ k \in FamilyRows(tokens[j].family)
               /\ LiveRows(tokens[k].family) = LiveRows(tokens[j].family)
  BY DEF LiveRows, FamilyRows

\* Whatever a request writes under the lock, it plans it in order.
LEMMA DecideKeeps == ASSUME IInv, NEW p \in Requests, DecideAny(p) PROVE IInv'
  <1> DEFINE j == call[p].jti
  <1>0. /\ TypeOK /\ phase[p] = "locked" /\ call[p] \in Call /\ call[p].user \in Users
        /\ call[p].op \in {"refresh", "logout"} /\ j \in Stored =>
              \A k \in FamilyRows(tokens[j].family) : tokens[k].user = call[p].user
        /\ call[p].op = "force" =>
              \A k \in FamilyRows(call[p].family) : tokens[k].user = call[p].user
        <2>1. phase[p] = "locked"
              BY DEF DecideAny, DecideLogin, DecideRotate, DecideRotateDisabled, DecideReuse,
                 DecideInvalid, DecideLogout, DecideForceLogout, DecideChangePassword, MayRotate, Asked
        <2> QED
            BY <2>1, AskedKnows DEF IInv
  <1>1. ASSUME NEW why \in Reasons, why # "rotated", NEW F,
               \A f \in F : f \in ActiveFamilies(call[p].user, now), Insert(p),
               Decide(p, Opening(call[p].user, LiveRowsOf(F), why))
        PROVE  IInv'
        <2> DEFINE R == LiveRowsOf(F)
        <2>1. R \in SUBSET Stored
              BY DEF LiveRowsOf
        <2>2. ASSUME NEW k \in R
              PROVE  Unrevoked(k) /\ tokens[k].user = call[p].user
                     /\ LiveRows(tokens[k].family) \subseteq R
              <3>1. k \in Stored /\ Unrevoked(k) /\ tokens[k].family \in F
                    BY DEF LiveRowsOf
              <3>2. PICK i \in Stored : tokens[i].user = call[p].user
                                        /\ tokens[i].family = tokens[k].family
                    BY <1>1, <3>1 DEF ActiveFamilies, ActiveRows
              <3>3. tokens[k].user = call[p].user
                    BY <3>1, <3>2 DEF IInv, TableOK, PairOK, SameFamily
              <3>4. LiveRows(tokens[k].family) \subseteq R
                    BY <3>1 DEF LiveRows, FamilyRows, LiveRowsOf
              <3> QED
                  BY <3>1, <3>3, <3>4
        <2> HIDE DEF R
        <2>3. Decide(p, Opening(call[p].user, R, why))
              BY <1>1 DEF R
        <2> QED
            BY <1>0, <1>1, <2>1, <2>2, <2>3, OpeningPlan
  <1>2. CASE DecideLogin(p)
        <2>1. \A f \in Overflow(call[p].user, now) : f \in ActiveFamilies(call[p].user, now)
              BY DEF Overflow
        <2> QED
            BY <1>1, <1>2, <2>1 DEF DecideLogin, Reasons
  <1>3. CASE DecideChangePassword(p)
        BY <1>1, <1>3 DEF DecideChangePassword, Reasons
  <1>4. ASSUME NEW r \in {NotRevoked, "logout"}, NEW why \in Reasons, NEW R, NEW s,
               R \subseteq LiveRows(tokens[j].family) \ {j}, MayRotate(p, s),
               Decide(p, Rotating(j, call[p].user, r, R, why))
        PROVE  IInv'
        <2>1. Unrevoked(j) /\ j \in Stored /\ Insert(p) /\ call[p].op = "refresh"
              BY <1>4 DEF MayRotate, Rotatable, Asked
        <2>2. tokens[j].user = call[p].user
              BY <1>0, <2>1 DEF FamilyRows
        <2>3. R = {}
              <3>1. \A k \in LiveRows(tokens[j].family) :
                       k \in Stored /\ Unrevoked(k) /\ SameFamily(j, k)
                    BY DEF LiveRows, FamilyRows, SameFamily
              <3>2. \A k \in LiveRows(tokens[j].family) : k = j
                    BY <2>1, <3>1 DEF IInv, TableOK, PairOK
              <3> QED
                  BY <1>4, <3>2
        <2> HIDE DEF j
        <2> QED
            BY <1>0, <1>4, <2>1, <2>2, <2>3, RotatingPlan
  <1>5. CASE DecideRotate(p)
        BY <1>4, <1>5 DEF DecideRotate, Reasons
  <1>6. CASE DecideRotateDisabled(p)
        BY <1>4, <1>6 DEF DecideRotateDisabled, Reasons
  <1>7. ASSUME NEW R \in SUBSET Stored, NEW why \in Reasons, NEW verdict \in BOOLEAN,
               call[p].op # "change", why # "rotated",
               \A k \in R : Unrevoked(k) /\ tokens[k].user = call[p].user
                            /\ LiveRows(tokens[k].family) \subseteq R,
               Decide(p, Revoking(R, why, verdict)),
               UNCHANGED nextJti
        PROVE  IInv'
        BY <1>0, <1>7, RevokingPlan
  <1>8. ASSUME NEW why \in Reasons, NEW verdict \in BOOLEAN, why # "rotated",
               call[p].op \in {"refresh", "logout"}, j \in Stored, UNCHANGED nextJti,
               Decide(p, Revoking(LiveRows(tokens[j].family), why, verdict))
        PROVE  IInv'
        <2> DEFINE R == LiveRows(tokens[j].family)
        <2>1. R \in SUBSET Stored /\ \A k \in R : /\ Unrevoked(k) /\ k \in FamilyRows(tokens[j].family)
                                                  /\ LiveRows(tokens[k].family) = R
              BY <1>8, WholeFamily
        <2>2. \A k \in R : tokens[k].user = call[p].user
              BY <1>0, <1>8, <2>1
        <2>3. Decide(p, Revoking(R, why, verdict))
              BY <1>8
        <2> HIDE DEF R
        <2> QED
            BY <1>7, <1>8, <2>1, <2>2, <2>3
  <1>9. CASE DecideReuse(p)
        BY <1>8, <1>9 DEF DecideReuse, Asked, Reasons
  <1>10. CASE DecideLogout(p)
        BY <1>8, <1>10 DEF DecideLogout, Asked, Reasons
  <1>11. CASE DecideForceLogout(p)
        <2> DEFINE R == LiveRows(call[p].family)
        <2>1. /\ R \in SUBSET Stored
              /\ \A k \in R : Unrevoked(k) /\ k \in FamilyRows(call[p].family)
                              /\ LiveRows(tokens[k].family) = R
              BY DEF LiveRows, FamilyRows
        <2>2. \A k \in R : tokens[k].user = call[p].user
              BY <1>0, <1>11, <2>1 DEF DecideForceLogout, Asked
        <2>4. Decide(p, Revoking(R, "forced_logout", FALSE))
              BY <1>11 DEF DecideForceLogout
        <2> HIDE DEF R
        <2> QED
            BY <1>7, <1>11, <2>1, <2>2, <2>4 DEF DecideForceLogout, Asked, Reasons
  <1>12. CASE DecideInvalid(p)
        <2> DEFINE R == {}
        <2>2. R \in SUBSET Stored /\ \A k \in R : FALSE
              OBVIOUS
        <2>3. Decide(p, Revoking(R, "logout", FALSE))
              BY <1>12 DEF DecideInvalid, NoWrites
        <2> HIDE DEF R
        <2> QED
            BY <1>7, <1>12, <2>2, <2>3 DEF DecideInvalid, Asked, Reasons
  <1> QED
      BY <1>2, <1>3, <1>5, <1>6, <1>9, <1>10, <1>11, <1>12 DEF DecideAny

-----------------------------------------------------------------------------
(* The commit.                                                             *)

\* The rows the commit of p finds and leaves: an old row keeps its owner, family
\* and deadlines; it changes only when p rotates or revokes it.
LEMMA CommittedRows ==
  ASSUME IInv, NEW p \in Requests, Commit(p)
  PROVE  /\ DOMAIN tokens' = Stored \cup ({plan[p].insert} \ {NoJti})
         /\ plan[p].insert \notin Stored
         /\ plan[p].insert # NoJti => tokens'[plan[p].insert] = plan[p].row
         /\ \A j \in Stored :
              /\ tokens'[j] \in Row
              /\ tokens'[j].family = tokens[j].family /\ tokens'[j].user = tokens[j].user
              /\ tokens'[j].absolute = tokens[j].absolute
              /\ tokens'[j].expires = tokens[j].expires
              /\ j = plan[p].rotate =>
                   /\ tokens'[j].rotatedTo = plan[p].insert /\ tokens'[j].revoked = "rotated"
                   /\ tokens[j].rotatedTo = NoJti /\ Unrevoked(j) /\ plan[p].insert # NoJti
              /\ j # plan[p].rotate => tokens'[j].rotatedTo = tokens[j].rotatedTo
              /\ j \in plan[p].revoke =>
                   /\ tokens'[j].revoked = plan[p].reason /\ Unrevoked(j)
                   /\ plan[p].reason \in Reasons \ {"rotated"}
              /\ j \notin plan[p].revoke \cup {plan[p].rotate} => tokens'[j] = tokens[j]
  <1> DEFINE w == plan[p]
  <1>1. /\ TypeOK /\ RewritesOK(p) /\ InsertOK(p) /\ w \in Plan
        /\ Stored \subseteq Jti /\ NoJti \notin Stored
        BY StoredIds DEF IInv, Commit, PlansOK, TypeOK
  <1>2. tokens' = [j \in Stored \cup ({w.insert} \ {NoJti}) |-> Written(w, j)]
        BY DEF Commit
  <1>3. w.insert \notin Stored
        BY <1>1 DEF InsertOK
  <1>4. w.insert # NoJti => tokens'[w.insert] = w.row
        BY <1>2 DEF Written
  <1>5. ASSUME NEW j \in Stored
        PROVE  /\ tokens'[j] \in Row
               /\ tokens'[j].family = tokens[j].family /\ tokens'[j].user = tokens[j].user
               /\ tokens'[j].absolute = tokens[j].absolute
               /\ tokens'[j].expires = tokens[j].expires
               /\ j = w.rotate =>
                    /\ tokens'[j].rotatedTo = w.insert /\ tokens'[j].revoked = "rotated"
                    /\ tokens[j].rotatedTo = NoJti /\ Unrevoked(j) /\ w.insert # NoJti
               /\ j # w.rotate => tokens'[j].rotatedTo = tokens[j].rotatedTo
               /\ j \in w.revoke =>
                    /\ tokens'[j].revoked = w.reason /\ Unrevoked(j)
                    /\ w.reason \in Reasons \ {"rotated"}
               /\ j \notin w.revoke \cup {w.rotate} => tokens'[j] = tokens[j]
        <2>1. tokens'[j] = Written(w, j) /\ j # w.insert /\ tokens[j] \in Row /\ j # NoJti
              BY <1>1, <1>2, <1>3 DEF TypeOK, Stored
        <2>2. CASE j = w.rotate
              <3>1. /\ Unrevoked(j) /\ w.insert # NoJti /\ j \notin w.revoke
                    /\ w.insert \in Jti
                    BY <1>1, <2>1, <2>2 DEF RewritesOK, InsertOK, Plan
              <3>2. tokens[j].rotatedTo = NoJti
                    BY <3>1 DEF IInv, TableOK, RowOK, Unrevoked, NotRevoked
              <3>3. tokens'[j] = [tokens[j] EXCEPT !.rotatedTo = w.insert, !.revoked = "rotated"]
                    BY <2>1, <2>2 DEF Written
              <3> HIDE DEF w
              <3> QED
                  BY <2>1, <2>2, <3>1, <3>2, <3>3 DEF Row, Reasons
        <2>3. CASE j # w.rotate /\ j \in w.revoke
              <3>1. Unrevoked(j) /\ w.reason \in Reasons \ {"rotated"}
                    BY <1>1, <2>3 DEF RewritesOK, Plan
              <3>2. tokens'[j] = [tokens[j] EXCEPT !.revoked = w.reason]
                    BY <2>1, <2>3 DEF Written
              <3> HIDE DEF w
              <3> QED
                  BY <2>1, <2>3, <3>1, <3>2 DEF Row
        <2>4. CASE j # w.rotate /\ j \notin w.revoke
              BY <2>1, <2>4 DEF Written
        <2> QED
            BY <2>2, <2>3, <2>4
  <1> QED
      BY <1>2, <1>3, <1>4, <1>5

\* What is known of a row that a commit adds: it opens a family under its own
\* id, or it takes the place of the one live row of an open family.
LEMMA AddedRow ==
  ASSUME IInv, NEW p \in Requests, Commit(p), plan[p].insert # NoJti
  PROVE  LET k == plan[p].insert
             r == plan[p].rotate
             new == tokens'[plan[p].insert]
         IN  /\ k \in Jti /\ k < nextJti /\ openedAt[k] = Never /\ new \in Row
             /\ new.user = call[p].user /\ new.rotatedTo = NoJti
             /\ new.expires <= new.absolute /\ new.issued \in Time
             /\ new.revoked \in {NotRevoked, "logout"}
             /\ \A j \in Stored : tokens[j].rotatedTo # k /\ tokens[j].family # k
             /\ r = NoJti =>
                  /\ new.family = k /\ new.revoked = NotRevoked
                  /\ new.absolute = new.issued + AbsTTL
                  /\ openedAt' = [openedAt EXCEPT ![k] = new.issued]
             /\ r # NoJti =>
                  /\ r \in Stored /\ Unrevoked(r) /\ r < k /\ plan[p].revoke = {}
                  /\ tokens[r].user = call[p].user
                  /\ new.family = tokens[r].family /\ new.absolute = tokens[r].absolute
                  /\ openedAt' = openedAt
  <1> DEFINE k == plan[p].insert
             r == plan[p].rotate
             row == plan[p].row
  <1>1. /\ TypeOK /\ RewritesOK(p) /\ InsertOK(p) /\ plan[p] \in Plan
        BY DEF IInv, Commit, PlansOK, TypeOK
  <1>2. tokens'[k] = row
        BY CommittedRows
  <1>3. k \in Jti /\ openedAt[k] = Never
        BY <1>1 DEF Plan, InsertOK
  <1>4. \A j \in Stored : tokens[j].family # k
        BY <1>3 DEF IInv, TableOK, RowOK
  <1>5. openedAt' = [f \in Jti |-> IF f = k /\ row.family = f THEN row.issued ELSE openedAt[f]]
        BY DEF Commit
  <1>6. r = NoJti => openedAt' = [openedAt EXCEPT ![k] = row.issued]
        BY <1>1, <1>3, <1>5 DEF InsertOK, TypeOK
  <1>7. r # NoJti => r \in Stored /\ openedAt' = openedAt
        <2>1. r # NoJti => r \in Stored /\ row.family = tokens[r].family
              BY <1>1 DEF RewritesOK, InsertOK
        <2>2. r # NoJti => row.family # k
              BY <1>4, <2>1
        <2>3. r # NoJti => openedAt' = [f \in Jti |-> openedAt[f]]
              BY <1>5, <2>2
        <2> QED
            BY <1>1, <2>1, <2>3 DEF TypeOK
  <1>8. r # NoJti => Unrevoked(r) /\ tokens[r].user = call[p].user
        BY <1>1, <1>7 DEF RewritesOK
  <1>9. /\ k < nextJti /\ row \in Row
        /\ row.user = call[p].user /\ row.rotatedTo = NoJti
        /\ row.expires <= row.absolute /\ row.issued \in Time
        /\ row.revoked \in {NotRevoked, "logout"}
        /\ \A j \in Stored : tokens[j].rotatedTo # k
        /\ r = NoJti =>
             row.family = k /\ row.revoked = NotRevoked /\ row.absolute = row.issued + AbsTTL
        /\ r # NoJti =>
             /\ r < k /\ plan[p].revoke = {}
             /\ row.family = tokens[r].family /\ row.absolute = tokens[r].absolute
        BY <1>1 DEF InsertOK
  <1> QED
      BY <1>2, <1>3, <1>4, <1>6, <1>7, <1>8, <1>9

\* A commit leaves every variable in its type.
LEMMA CommitTypes ==
  ASSUME IInv, NEW p \in Requests, Commit(p)
  PROVE  TypeOK' /\ CallsKnown' /\ LockHeld'
  <1> DEFINE k == plan[p].insert
  <1>0. TypeOK /\ CallsKnown /\ LockHeld /\ InsertOK(p) /\ plan[p] \in Plan /\ Finish(p)
        /\ UNCHANGED <<now, nextJti, status>>
        BY DEF IInv, Commit, PlansOK, TypeOK
  <1>1. /\ CallsKnown' /\ LockHeld'
        /\ phase' \in [Requests -> Phases] /\ call' \in [Requests -> Call \cup {None}]
        /\ plan' \in [Requests -> Plan]
        /\ lock' \in [Buckets -> Requests \cup {None}]
        /\ userRow' \in [Users -> Requests \cup {None}]
        BY <1>0, FinishReleases
  <1>2. DOMAIN tokens' \subseteq 1 .. nextJti - 1 /\ tokens' \in [DOMAIN tokens' -> Row]
        <2>1. DOMAIN tokens' = Stored \cup ({k} \ {NoJti})
              BY CommittedRows
        <2>2. k # NoJti => k \in 1 .. nextJti - 1 /\ tokens'[k] \in Row
              BY <1>0, AddedRow DEF TypeOK, Jti
        <2>3. \A j \in DOMAIN tokens' : tokens'[j] \in Row
              BY <2>1, <2>2, CommittedRows
        <2>4. tokens' = [j \in DOMAIN tokens' |-> tokens'[j]]
              BY <2>1 DEF Commit
        <2>5. \A j \in Stored : j \in 1 .. nextJti - 1
              BY <1>0 DEF TypeOK, Stored
        <2> QED
            BY <2>1, <2>2, <2>3, <2>4, <2>5
  <1>3. openedAt' \in [Jti -> Time \cup {Never}]
        <2>1. openedAt' = [f \in Jti |-> IF f \in {k} \ {NoJti} /\ plan[p].row.family = f
                                         THEN plan[p].row.issued ELSE openedAt[f]]
              BY DEF Commit
        <2>2. k # NoJti => plan[p].row.issued \in Time
              BY <1>0 DEF InsertOK
        <2> QED
            BY <1>0, <2>1, <2>2 DEF TypeOK
  <1>4. pwdMark' \in [Users -> 1 .. MaxTokens + 1]
        <2>1. CASE call[p].op = "change"
              <3>1. k # NoJti /\ plan[p].row \in Row /\ plan[p].row.family \in Jti
                    BY <1>0, <2>1 DEF InsertOK, Row
              <3>2. pwdMark' = [pwdMark EXCEPT ![call[p].user] = plan[p].row.family]
                    BY <2>1 DEF Commit
              <3>3. plan[p].row.family \in 1 .. MaxTokens + 1
                    BY <3>1, BoundAssumption DEF Jti
              <3> QED
                  BY <1>0, <3>2, <3>3 DEF TypeOK
        <2>2. CASE call[p].op # "change"
              BY <1>0, <2>2 DEF TypeOK, Commit
        <2> QED
            BY <2>1, <2>2
  <1> QED
      BY <1>0, <1>1, <1>2, <1>3, <1>4 DEF TypeOK

\* The table a commit leaves is in order: this is where rotation, revocation and
\* the new row meet.
LEMMA CommitTable ==
  ASSUME IInv, NEW p \in Requests, Commit(p)
  PROVE  TableOK' /\ UnusedIds'
  <1> SUFFICES ASSUME NEW k, NEW r, k = plan[p].insert, r = plan[p].rotate
               PROVE  TableOK' /\ UnusedIds'
      OBVIOUS
  <1>0. TypeOK /\ TypeOK' /\ InsertOK(p) /\ RewritesOK(p) /\ plan[p] \in Plan
        /\ UNCHANGED nextJti
        BY CommitTypes DEF IInv, Commit, PlansOK, TypeOK
  <1>1. /\ Stored' = Stored \cup ({k} \ {NoJti}) /\ k \notin Stored
        /\ \A j \in Stored :
              /\ tokens'[j] \in Row
              /\ tokens'[j].family = tokens[j].family /\ tokens'[j].user = tokens[j].user
              /\ tokens'[j].absolute = tokens[j].absolute
              /\ tokens'[j].expires = tokens[j].expires
              /\ j = r =>
                   /\ tokens'[j].rotatedTo = k /\ tokens'[j].revoked = "rotated"
                   /\ tokens[j].rotatedTo = NoJti /\ Unrevoked(j) /\ k # NoJti
              /\ j # r => tokens'[j].rotatedTo = tokens[j].rotatedTo
              /\ j \in plan[p].revoke =>
                   /\ tokens'[j].revoked = plan[p].reason /\ Unrevoked(j)
                   /\ plan[p].reason \in Reasons \ {"rotated"}
              /\ j \notin plan[p].revoke \cup {r} => tokens'[j] = tokens[j]
        BY CommittedRows DEF Stored
  <1>2. k # NoJti =>
             /\ k \in Jti /\ k < nextJti /\ openedAt[k] = Never /\ tokens'[k] \in Row
             /\ tokens'[k].user = call[p].user /\ tokens'[k].rotatedTo = NoJti
             /\ tokens'[k].expires <= tokens'[k].absolute /\ tokens'[k].issued \in Time
             /\ tokens'[k].revoked \in {NotRevoked, "logout"}
             /\ \A j \in Stored : tokens[j].rotatedTo # k /\ tokens[j].family # k
             /\ r = NoJti =>
                  /\ tokens'[k].family = k /\ tokens'[k].revoked = NotRevoked
                  /\ tokens'[k].absolute = tokens'[k].issued + AbsTTL
                  /\ openedAt' = [openedAt EXCEPT ![k] = tokens'[k].issued]
             /\ r # NoJti =>
                  /\ r \in Stored /\ Unrevoked(r) /\ r < k /\ plan[p].revoke = {}
                  /\ tokens[r].user = call[p].user
                  /\ tokens'[k].family = tokens[r].family
                  /\ tokens'[k].absolute = tokens[r].absolute
                  /\ openedAt' = openedAt
        BY AddedRow
  <1>3. k = NoJti => openedAt' = openedAt /\ r = NoJti
        BY <1>0 DEF InsertOK, Commit, TypeOK
  <1>4. \A f \in Jti : f # k \/ k = NoJti => openedAt'[f] = openedAt[f]
        BY <1>0, <1>2, <1>3 DEF TypeOK
  <1>5. Stored \subseteq Jti /\ NoJti \notin Stored /\ k \in Jti \cup {NoJti}
        BY <1>0, StoredIds DEF Plan
  <1>6. \A j \in Stored : RowOK(j) /\ tokens[j].family \in Jti /\ tokens[j] \in Row
        BY <1>0 DEF IInv, TableOK, TypeOK, Stored, Row
  <1>7. \A i, j \in Stored : PairOK(i, j)
        BY DEF IInv, TableOK
  <1>8. ASSUME NEW j \in Stored PROVE RowOK(j)'
        <2>1. openedAt'[tokens'[j].family] = openedAt[tokens[j].family]
              BY <1>1, <1>2, <1>4, <1>6
        <2>2. /\ tokens'[j].rotatedTo < nextJti'
              /\ tokens'[j].rotatedTo # NoJti =>
                   tokens'[j].revoked = "rotated" /\ tokens'[j].rotatedTo > j
              <3>1. CASE j = r
                    BY <1>0, <1>1, <1>2, <1>5, <3>1
              <3>2. CASE j # r /\ j \in plan[p].revoke
                    BY <1>0, <1>1, <1>6, <3>2 DEF RowOK, Unrevoked, NotRevoked
              <3>3. CASE j # r /\ j \notin plan[p].revoke
                    BY <1>0, <1>1, <1>6, <3>3 DEF RowOK
              <3> QED
                  BY <3>1, <3>2, <3>3
        <2> QED
            BY <1>1, <1>6, <2>1, <2>2 DEF RowOK
  <1>9. ASSUME k # NoJti PROVE RowOK(k)'
        <2>1. CASE r = NoJti
              <3>1. openedAt'[k] = tokens'[k].issued /\ tokens'[k].family = k
                    BY <1>0, <1>2, <1>9, <2>1 DEF TypeOK
              <3>2. tokens'[k].issued # Never
                    BY <1>2, <1>9, BoundAssumption DEF Time, Never
              <3> QED
                  BY <1>0, <1>2, <1>9, <2>1, <3>1, <3>2, BoundAssumption
                  DEF RowOK, Jti, NoJti, TypeOK
        <2>2. CASE r # NoJti
              <3>1. RowOK(r) /\ r \in Stored /\ tokens[r].family \in Jti
                    BY <1>2, <1>6, <1>9, <2>2
              <3>2. tokens[r].family <= k
                    BY <1>2, <1>5, <1>9, <2>2, <3>1, BoundAssumption DEF RowOK, Jti
              <3> QED
                  BY <1>0, <1>2, <1>9, <2>2, <3>1, <3>2, BoundAssumption
                  DEF RowOK, Jti, NoJti, TypeOK
        <2> QED
            BY <2>1, <2>2
  <1>10. ASSUME NEW i \in Stored, NEW j \in Stored PROVE PairOK(i, j)'
        <2>1. SameFamily(i, j)' <=> SameFamily(i, j)
              BY <1>1 DEF SameFamily
        <2>2. \A m \in Stored : Unrevoked(m)' => Unrevoked(m) /\ m # r /\ m \notin plan[p].revoke
              BY <1>1 DEF Unrevoked, NotRevoked, Reasons
        <2>3. SameFamily(i, j) => tokens'[i].user = tokens'[j].user
              BY <1>1, <1>7 DEF PairOK
        <2>4. SameFamily(i, j) /\ Unrevoked(i)' /\ Unrevoked(j)' => i = j
              BY <1>7, <2>2 DEF PairOK
        <2>5. ASSUME SameFamily(i, j), tokens'[i].revoked \in Reasons \ {"rotated"}
              PROVE  ~Unrevoked(j)'
              <3>1. i # r
                    BY <1>1, <2>5
              <3>2. CASE i \in plan[p].revoke
                    <4>1. Unrevoked(j) => j \in plan[p].revoke
                          BY <1>0, <2>5, <3>2 DEF RewritesOK, LiveRows, FamilyRows, SameFamily
                    <4> QED
                        BY <2>2, <4>1
              <3>3. CASE i \notin plan[p].revoke
                    <4>1. tokens'[i] = tokens[i]
                          BY <1>1, <3>1, <3>3
                    <4> QED
                        BY <1>7, <2>2, <2>5, <4>1 DEF PairOK
              <3> QED
                  BY <3>2, <3>3
        <2>6. tokens'[i].rotatedTo = j => SameFamily(i, j)
              BY <1>1, <1>7 DEF PairOK
        <2>7. tokens'[i].rotatedTo = tokens'[j].rotatedTo /\ tokens'[i].rotatedTo # NoJti => i = j
              BY <1>1, <1>2, <1>7 DEF PairOK
        <2> QED
            BY <2>1, <2>3, <2>4, <2>5, <2>6, <2>7 DEF PairOK
  <1>11. ASSUME k # NoJti, NEW j \in Stored PROVE PairOK(k, j)' /\ PairOK(j, k)'
        <2>1. CASE r = NoJti
              BY <1>1, <1>2, <1>5, <1>11, <2>1 DEF PairOK, SameFamily
        <2>2. CASE r # NoJti
              <3>1. /\ SameFamily(k, j)' <=> SameFamily(r, j)
                    /\ SameFamily(j, k)' <=> SameFamily(r, j)
                    BY <1>1, <1>2, <1>11, <2>2 DEF SameFamily
              <3>2. r \in Stored /\ Unrevoked(r)
                    BY <1>2, <1>11, <2>2
              <3>3. SameFamily(r, j) => tokens'[j].user = tokens'[k].user
                    BY <1>1, <1>2, <1>7, <1>11, <2>2, <3>2 DEF PairOK
              <3>4. SameFamily(r, j) => ~Unrevoked(j)'
                    <4>1. CASE j = r
                          BY <1>1, <4>1 DEF Unrevoked, NotRevoked
                    <4>2. CASE j # r
                          <5>1. tokens'[j] = tokens[j]
                                BY <1>1, <1>2, <1>11, <2>2, <4>2
                          <5> QED
                              BY <1>7, <3>2, <4>2, <5>1 DEF PairOK, Unrevoked
                    <4> QED
                        BY <4>1, <4>2
              <3>5. SameFamily(r, j) => tokens'[j].revoked \notin Reasons \ {"rotated"}
                    <4>1. CASE j = r
                          BY <1>1, <4>1
                    <4>2. CASE j # r
                          <5>1. tokens'[j] = tokens[j]
                                BY <1>1, <1>2, <1>11, <2>2, <4>2
                          <5>2. SameFamily(j, r) <=> SameFamily(r, j)
                                BY DEF SameFamily
                          <5> QED
                              BY <1>7, <3>2, <4>2, <5>1, <5>2 DEF PairOK
                    <4> QED
                        BY <4>1, <4>2
              <3>6. tokens'[j].rotatedTo = k => SameFamily(r, j)
                    BY <1>1, <1>2, <1>11 DEF SameFamily
              <3>7. /\ tokens'[k].rotatedTo = NoJti /\ j # NoJti /\ j # k
                    BY <1>1, <1>2, <1>5, <1>11
              <3> QED
                  BY <3>1, <3>3, <3>4, <3>5, <3>6, <3>7 DEF PairOK
        <2> QED
            BY <2>1, <2>2
  <1>12. k # NoJti => PairOK(k, k)'
        BY <1>2 DEF PairOK, SameFamily, Unrevoked, Reasons, NotRevoked
  <1>13. UnusedIds'
        <2>1. ASSUME NEW f \in Jti, f >= nextJti' PROVE openedAt'[f] = Never
              <3>1. openedAt[f] = Never
                    BY <1>0, <2>1 DEF IInv, UnusedIds
              <3>2. k # NoJti => f # k
                    BY <1>0, <1>2, <2>1 DEF Jti, TypeOK
              <3> QED
                  BY <1>4, <3>1, <3>2
        <2> QED
            BY <2>1 DEF UnusedIds
  <1> QED
      BY <1>1, <1>8, <1>9, <1>10, <1>11, <1>12, <1>13 DEF TableOK

\* The other plans are not disturbed: whoever has written too works for another
\* user, because the bucket of this one was held.
LEMMA CommitPlans ==
  ASSUME IInv, NEW p \in Requests, Commit(p), NEW q \in Requests, phase'[q] = "decided"
  PROVE  RewritesOK(q)' /\ InsertOK(q)'
  <1> SUFFICES ASSUME NEW k, NEW r, k = plan[p].insert, r = plan[p].rotate
               PROVE  RewritesOK(q)' /\ InsertOK(q)'
      OBVIOUS
  <1>1. /\ q # p /\ phase[q] = "decided" /\ phase[p] = "decided"
        /\ plan'[q] = plan[q] /\ call'[q] = call[q] /\ UNCHANGED nextJti
        BY DEF IInv, TypeOK, Commit, Finish
  <1>2. /\ TypeOK /\ RewritesOK(p) /\ RewritesOK(q) /\ InsertOK(p) /\ InsertOK(q)
        /\ plan[q] \in Plan
        BY <1>1 DEF IInv, PlansOK, TypeOK
  <1>3. call[p].user # call[q].user
        BY <1>1 DEF IInv, LockHeld
  <1>4. plan[q].insert # NoJti => plan[q].insert # k
        BY <1>1 DEF IInv, IdsDistinct
  <1>5. /\ Stored' = Stored \cup ({k} \ {NoJti}) /\ k \notin Stored
        /\ \A j \in Stored : j \notin plan[p].revoke \cup {r} => tokens'[j] = tokens[j]
        /\ \A j \in Stored : /\ tokens'[j].family = tokens[j].family
                             /\ j # r => tokens'[j].rotatedTo = tokens[j].rotatedTo
                             /\ j = r => tokens'[j].rotatedTo = k /\ k # NoJti
        BY CommittedRows DEF Stored
  <1>6. \A j \in plan[p].revoke \cup ({r} \ {NoJti}) : tokens[j].user = call[p].user
        BY <1>2 DEF RewritesOK
  <1>7. NoJti \notin Stored
        BY <1>2, StoredIds
  <1>8. \A j \in plan[q].revoke \cup ({plan[q].rotate} \ {NoJti}) :
           /\ j \in Stored /\ tokens[j].user = call[q].user
           /\ Unrevoked(j) /\ tokens'[j] = tokens[j]
        BY <1>2, <1>3, <1>5, <1>6, <1>7 DEF RewritesOK
  <1>9. RewritesOK(q)'
        <2>1. ASSUME NEW j \in plan[q].revoke, NEW i \in Stored', tokens'[i].family = tokens'[j].family,
                     Unrevoked(i)'
              PROVE  i \in plan[q].revoke
              <3>1. j \in Stored /\ tokens'[j] = tokens[j] /\ tokens[j].user = call[q].user
                    BY <1>8
              <3>2. TableOK'
                    BY CommitTable
              <3>3. tokens'[i].user = call[q].user
                    <4>1. j \in Stored'
                          BY <1>5, <3>1
                    <4> QED
                        BY <2>1, <3>1, <3>2, <4>1 DEF TableOK, PairOK, SameFamily
              <3>4. i \in Stored
                    <4>1. k # NoJti => tokens'[k].user = call[p].user
                          BY AddedRow
                    <4> QED
                        BY <1>3, <1>5, <3>3, <4>1
              <3>5. Unrevoked(i) /\ tokens[i].family = tokens[j].family
                    <4>1. tokens'[i].user = tokens[i].user
                          BY <3>4, CommittedRows
                    <4>2. tokens'[i] = tokens[i]
                          BY <1>3, <1>5, <1>6, <1>7, <3>3, <3>4, <4>1
                    <4> QED
                        BY <2>1, <3>1, <4>2 DEF Unrevoked
              <3> QED
                  BY <1>2, <3>4, <3>5 DEF RewritesOK, LiveRows, FamilyRows
        <2>2. \A j \in plan[q].revoke : LiveRows(tokens[j].family)' \subseteq plan[q].revoke
              BY <2>1 DEF LiveRows, FamilyRows
        <2>3. \A j \in plan[q].revoke \cup ({plan[q].rotate} \ {NoJti}) :
                 j \in Stored' /\ Unrevoked(j)' /\ tokens'[j].user = call'[q].user
              BY <1>1, <1>5, <1>8 DEF Unrevoked
        <2> QED
            BY <1>1, <1>2, <2>2, <2>3 DEF RewritesOK
  <1>10. InsertOK(q)'
        <2>1. CASE plan[q].insert = NoJti
              BY <1>1, <1>2, <2>1 DEF InsertOK
        <2>2. CASE plan[q].insert # NoJti
              <3>1. plan[q].insert \in Jti /\ plan[q].insert # k /\ plan[q].insert \notin Stored'
                    BY <1>2, <1>4, <1>5, <2>2 DEF InsertOK, Plan
              <3>2. openedAt'[plan[q].insert] = Never
                    <4>1. openedAt[plan[q].insert] = Never
                          BY <1>2, <2>2 DEF InsertOK
                    <4> QED
                        BY <3>1, <4>1 DEF Commit
              <3>3. \A j \in Stored' : tokens'[j].rotatedTo # plan[q].insert
                    <4>1. k # NoJti => tokens'[k].rotatedTo = NoJti
                          BY AddedRow
                    <4>2. \A j \in Stored : tokens[j].rotatedTo # plan[q].insert
                          BY <1>2, <2>2 DEF InsertOK
                    <4> QED
                        BY <1>5, <2>2, <3>1, <4>1, <4>2
              <3>4. plan[q].rotate # NoJti => tokens'[plan[q].rotate] = tokens[plan[q].rotate]
                    BY <1>8
              <3>5. InsertOK(q)
                    BY <1>2
              <3> QED
                  BY <1>1, <2>2, <3>1, <3>2, <3>3, <3>4, <3>5 DEF InsertOK
        <2> QED
            BY <2>1, <2>2
  <1> QED
      BY <1>9, <1>10

\* Nor are the targets of the requests that wait.
LEMMA CommitTargets ==
  ASSUME IInv, NEW p \in Requests, Commit(p), NEW q \in Requests, phase'[q] # "idle"
  PROVE  TargetOK(q)'
  <1> SUFFICES ASSUME NEW k, NEW r, k = plan[p].insert, r = plan[p].rotate
               PROVE  TargetOK(q)'
      OBVIOUS
  <1>1. /\ q # p /\ phase[q] # "idle" /\ phase[p] = "decided" /\ call'[q] = call[q]
        /\ UNCHANGED nextJti
        /\ \A i \in Requests : phase'[i] = "decided" =>
              phase[i] = "decided" /\ plan'[i] = plan[i]
        BY DEF IInv, TypeOK, Commit, Finish
  <1>2. TargetOK(q) /\ call[q] \in Call /\ TypeOK
        BY <1>1 DEF IInv, TargetsOK, CallsKnown
  <1>3. /\ Stored' = Stored \cup ({k} \ {NoJti})
        /\ \A j \in Stored : /\ tokens'[j].family = tokens[j].family
                             /\ tokens'[j].user = tokens[j].user
        BY CommittedRows DEF Stored
  <1>4. call[q].jti # NoJti =>
             /\ call[q].jti < nextJti'
             /\ call[q].jti \in Stored' => tokens'[call[q].jti].user = call[q].user
             /\ \A i \in Requests : phase'[i] = "decided" => plan'[i].insert # call[q].jti
        BY <1>1, <1>2, <1>3 DEF TargetOK
  <1>5. ASSUME call[q].family # NoJti
        PROVE  /\ openedAt'[call[q].family] # Never
               /\ \A j \in Stored' : tokens'[j].family = call[q].family =>
                     tokens'[j].user = call[q].user
        <2>1. /\ call[q].family \in Jti /\ openedAt[call[q].family] # Never
              /\ \A j \in Stored : tokens[j].family = call[q].family =>
                    tokens[j].user = call[q].user
              BY <1>2, <1>5 DEF TargetOK, Call, FamilyRows
        <2>2. CASE k = NoJti
              <3>1. openedAt' = openedAt
                    BY <1>2, <2>2 DEF Commit, TypeOK
              <3> QED
                  BY <1>3, <2>1, <2>2, <3>1
        <2>3. CASE k # NoJti
              <3>1. /\ openedAt[k] = Never /\ tokens'[k].user = call[p].user
                    /\ r = NoJti => /\ tokens'[k].family = k
                                    /\ openedAt' = [openedAt EXCEPT ![k] = tokens'[k].issued]
                    /\ r # NoJti => /\ r \in Stored /\ tokens[r].user = call[p].user
                                    /\ tokens'[k].family = tokens[r].family
                                    /\ openedAt' = openedAt
                    BY <2>3, AddedRow
              <3>2. openedAt'[call[q].family] # Never
                    BY <1>2, <2>1, <3>1 DEF TypeOK
              <3>3. tokens'[k].family = call[q].family => tokens'[k].user = call[q].user
                    BY <2>1, <3>1
              <3> QED
                  BY <1>3, <2>1, <3>2, <3>3
        <2> QED
            BY <2>2, <2>3
  <1> QED
      BY <1>1, <1>2, <1>4, <1>5 DEF TargetOK, FamilyRows

\* The commit as a whole.
LEMMA CommitKeeps == ASSUME IInv, NEW p \in Requests, Commit(p) PROVE IInv'
  <1>1. TypeOK' /\ CallsKnown' /\ LockHeld' /\ TableOK' /\ UnusedIds'
        BY CommitTypes, CommitTable
  <1>2. PlansOK' /\ TargetsOK'
        BY CommitPlans, CommitTargets DEF PlansOK, TargetsOK
  <1>3. IdsDistinct'
        BY DEF IInv, IdsDistinct, TypeOK, Commit, Finish
  <1> QED
      BY <1>1, <1>2, <1>3 DEF IInv

-----------------------------------------------------------------------------
(* The theorems.                                                           *)

\* Every step of every request, and of what surrounds it, preserves IInv.
THEOREM Invariance == Spec => []IInv
  <1>1. Init => IInv
        BY InitEstablishes
  <1>2. IInv /\ [Next]_vars => IInv'
        <2> SUFFICES ASSUME IInv, [Next]_vars PROVE IInv'
            OBVIOUS
        <2>1. ASSUME NEW p \in Requests,
                     \/ Start(p) \/ FlushPassword(p) \/ Acquire(p) \/ DecideAny(p)
                     \/ Commit(p) \/ Abort(p) \/ DeadlockVictim(p) \/ UserGone(p)
              PROVE  IInv'
              BY <2>1, StartKeeps, LockingKeeps, DecideKeeps, CommitKeeps, RollbackKeeps
        <2>2. CASE \/ Cleanup
                   \/ \E u \in Users, s \in {"active", "disabled"} : SetStatus(u, s)
                   \/ \E u \in Users : DeleteUser(u)
                   \/ Tick
              BY <2>2, SurroundingsKeep
        <2>3. CASE UNCHANGED vars
              <3>1. UNCHANGED <<tokens, nextJti, openedAt, phase, call, plan, lock>>
                    BY <2>3 DEF vars
              <3>2. TypeOK' /\ CallsKnown' /\ LockHeld'
                    BY <2>3 DEF vars, IInv, TypeOK, CallsKnown, LockHeld
              <3> QED
                  BY <3>1, <3>2, NothingDeleted
        <2> QED
            BY <2>1, <2>2, <2>3 DEF Next
  <1> QED
      BY <1>1, <1>2, PTL DEF Spec

\* Every variable stays in its type, for any number of users and requests.
THEOREM TypeCorrect == Spec => []TypeOK
  <1>1. IInv => TypeOK
        BY DEF IInv
  <1> QED
      BY <1>1, Invariance, PTL

\* However many requests present the same token, its family has one live token.
THEOREM OneLiveToken == Spec => []OneLiveTokenPerFamily
  <1>1. IInv => OneLiveTokenPerFamily
        BY DEF IInv, TableOK, PairOK, SameFamily, OneLiveTokenPerFamily
  <1> QED
      BY <1>1, Invariance, PTL

\* No rotation in flight brings a closed family back to life.
THEOREM ClosedIsClosed == Spec => []ClosedFamilyStaysClosed
  <1>1. IInv => ClosedFamilyStaysClosed
        BY DEF IInv, TableOK, PairOK, SameFamily, ClosedFamilyStaysClosed
  <1> QED
      BY <1>1, Invariance, PTL

\* Rotation links neither fork, join, loop nor leave their family.
THEOREM ChainsOK == Spec => []RotationChains
  <1>1. ASSUME IInv PROVE RotationChains
        <2> SUFFICES ASSUME NEW j \in Stored, NEW k, k = tokens[j].rotatedTo, k # NoJti
                     PROVE  /\ tokens[j].revoked = "rotated"
                            /\ k > j
                            /\ k \in Stored => /\ tokens[k].family = tokens[j].family
                                               /\ tokens[k].user = tokens[j].user
                            /\ \A i \in Stored : tokens[i].rotatedTo = k => i = j
            BY DEF RotationChains
        <2>1. RowOK(j) /\ \A i \in Stored : PairOK(i, j) /\ PairOK(j, i)
              BY <1>1 DEF IInv, TableOK
        <2> QED
            BY <2>1 DEF RowOK, PairOK, SameFamily
  <1> QED
      BY <1>1, Invariance, PTL

\* No chain of rotations, of any length, moves the end of a session past
\* AbsTTL after its login.
THEOREM DeadlineHolds == Spec => []AbsoluteDeadline
  <1>1. ASSUME IInv PROVE AbsoluteDeadline
        <2> SUFFICES ASSUME NEW j \in Stored
                     PROVE  /\ openedAt[tokens[j].family] # Never
                            /\ tokens[j].expires <= openedAt[tokens[j].family] + AbsTTL
            BY DEF AbsoluteDeadline
        <2> QED
            BY <1>1 DEF IInv, TableOK, RowOK
  <1> QED
      BY <1>1, Invariance, PTL

\* No step clears or rewrites a revocation or a rotation link.
THEOREM RevocationFinal == Spec => RevocationIsFinal
  <1>1. ASSUME IInv, [Next]_vars
        PROVE  \A j \in Stored \cap DOMAIN tokens' :
                  ~Unrevoked(j) => /\ tokens'[j].revoked = tokens[j].revoked
                                   /\ tokens'[j].rotatedTo = tokens[j].rotatedTo
        <2>1. CASE UNCHANGED tokens
              BY <2>1
        <2>2. CASE Cleanup \/ \E u \in Users : DeleteUser(u)
              BY <2>2 DEF Cleanup, DeleteUser
        <2>3. ASSUME NEW p \in Requests, Commit(p)
              PROVE  \A j \in Stored : ~Unrevoked(j) => tokens'[j] = tokens[j]
              BY <1>1, <2>3, CommittedRows
        <2>4. ASSUME NEW p \in Requests,
                     \/ Start(p) \/ FlushPassword(p) \/ Acquire(p) \/ DecideAny(p)
                     \/ Abort(p) \/ DeadlockVictim(p) \/ UserGone(p)
              PROVE  UNCHANGED tokens
              BY <2>4 DEF Start, StartLogin, StartRefresh, StartLogout, StartForceLogout,
                 StartChangePassword, Enter, FlushPassword, Acquire, DecideAny, DecideLogin,
                 DecideRotate, DecideRotateDisabled, DecideReuse, DecideInvalid, DecideLogout,
                 DecideForceLogout, DecideChangePassword, Decide, Abort, DeadlockVictim, UserGone
        <2>5. CASE \/ \E u \in Users, s \in {"active", "disabled"} : SetStatus(u, s)
                   \/ Tick \/ UNCHANGED vars
              BY <2>1, <2>5 DEF SetStatus, Tick, vars
        <2> QED
            BY <1>1, <2>1, <2>2, <2>3, <2>4, <2>5 DEF Next
  <1> QED
      BY <1>1, Invariance, PTL DEF Spec, RevocationIsFinal

-----------------------------------------------------------------------------
(* The store implements the families of SessionFamilies.                   *)

\* What LiveToken shows: the one live row of a family, if it has one.
LEMMA TokenShown ==
  ASSUME IInv, NEW f \in Jti
  PROVE  \/ LiveRows(f) = {} /\ LiveToken[f] = NoJti
         \/ \E j \in Stored : LiveRows(f) = {j} /\ LiveToken[f] = j
  <1>1. \A j, k \in LiveRows(f) : j = k
        BY DEF LiveRows, FamilyRows, IInv, TableOK, PairOK, SameFamily
  <1>2. LiveRows(f) \subseteq Stored
        BY DEF LiveRows, FamilyRows
  <1>3. CASE LiveRows(f) = {}
        BY <1>3 DEF LiveToken
  <1>4. ASSUME NEW j \in LiveRows(f)
        PROVE  LiveRows(f) = {j} /\ LiveToken[f] = j /\ j \in Stored
        <2>1. LiveToken[f] = CHOOSE k \in LiveRows(f) : TRUE
              BY <1>4 DEF LiveToken
        <2>2. (CHOOSE k \in LiveRows(f) : TRUE) \in LiveRows(f)
              BY <1>4
        <2> QED
            BY <1>1, <1>2, <1>4, <2>1, <2>2
  <1> QED
      BY <1>3, <1>4

\* In this state, and so in the next one.
TokensShown ==
    /\ LiveToken \in [Jti -> Jti \cup {NoJti}]
    /\ \A f \in Jti : \/ LiveRows(f) = {} /\ LiveToken[f] = NoJti
                      \/ \E j \in Stored : LiveRows(f) = {j} /\ LiveToken[f] = j

LEMMA TokensAreShown == IInv => TokensShown
  <1> SUFFICES ASSUME IInv PROVE TokensShown
      OBVIOUS
  <1>1. \A f \in Jti : \/ LiveRows(f) = {} /\ LiveToken[f] = NoJti
                       \/ \E j \in Stored : LiveRows(f) = {j} /\ LiveToken[f] = j
        BY TokenShown
  <1>2. \A f \in Jti : LiveToken[f] \in Jti \cup {NoJti}
        BY <1>1, StoredIds DEF IInv
  <1>3. LiveToken = [f \in Jti |-> LiveToken[f]]
        BY DEF LiveToken
  <1> QED
      BY <1>1, <1>2, <1>3 DEF TokensShown

LEMMA TokensAreShownNext == IInv' => TokensShown'
  BY TokensAreShown, PTL

\* A family that gains no live row keeps its token or is closed.
LEMMA NothingRevived ==
  ASSUME IInv, IInv', NEW f \in Jti, LiveRows(f)' \subseteq LiveRows(f)
  PROVE  LiveToken'[f] \in {LiveToken[f], NoJti}
  <1> PICK S : S = LiveRows(f)'
      OBVIOUS
  <1>1. \/ S = {} /\ LiveToken'[f] = NoJti
        \/ \E j : S = {j} /\ LiveToken'[f] = j
        BY TokensAreShownNext DEF TokensShown
  <1>2. \/ LiveRows(f) = {} /\ LiveToken[f] = NoJti
        \/ \E j \in Stored : LiveRows(f) = {j} /\ LiveToken[f] = j
        BY TokenShown
  <1> QED
      BY <1>1, <1>2

\* Rows that go, or are revoked, close families and do nothing else.
LEMMA OnlyCloses ==
  ASSUME IInv, IInv', openedAt' = openedAt, \A f \in Jti : LiveRows(f)' \subseteq LiveRows(f)
  PROVE  Sessions!Next
  <1>1. \A f \in Jti : LiveToken'[f] \in {LiveToken[f], NoJti}
        BY NothingRevived
  <1>2. Opened' = Opened
        BY DEF Opened
  <1>3. Sessions!Close
        BY <1>1, <1>2 DEF Sessions!Close, Sessions!StaysOrCloses, NoJti
  <1> QED
      BY <1>3, TokensAreShownNext DEF TokensShown, Sessions!Next, NoJti

LEMMA DeletionCloses ==
  ASSUME IInv, IInv', Cleanup \/ \E u \in Users : DeleteUser(u)
  PROVE  Sessions!Next
  <1>1. openedAt' = openedAt /\ DOMAIN tokens' \subseteq Stored /\ \A j \in DOMAIN tokens' : tokens'[j] = tokens[j]
        BY DEF Cleanup, DeleteUser
  <1>2. \A f \in Jti : LiveRows(f)' \subseteq LiveRows(f)
        BY <1>1 DEF LiveRows, FamilyRows, Unrevoked, Stored
  <1> QED
      BY <1>1, <1>2, OnlyCloses

\* A commit moves at most one family forward, or opens one, and closes others.
LEMMA CommitMoves ==
  ASSUME IInv, IInv', NEW p \in Requests, Commit(p)
  PROVE  Sessions!Next
  <1> SUFFICES ASSUME NEW k, NEW r, k = plan[p].insert, r = plan[p].rotate
               PROVE  Sessions!Next
      OBVIOUS
  <1>1. /\ DOMAIN tokens' = Stored \cup ({k} \ {NoJti}) /\ k \notin Stored
        /\ \A j \in Stored : /\ tokens'[j].family = tokens[j].family
                             /\ tokens'[j].revoked = tokens[j].revoked \/ tokens'[j].revoked # NotRevoked
                             /\ j = r => tokens'[j].revoked = "rotated"
                             /\ j \notin plan[p].revoke \cup {r} => tokens'[j] = tokens[j]
        BY CommittedRows DEF NotRevoked, Reasons
  <1>2. \A f \in Jti : LiveRows(f)' \subseteq LiveRows(f) \cup ({k} \ {NoJti})
        BY <1>1 DEF LiveRows, FamilyRows, Unrevoked, Stored
  <1>3. CASE k = NoJti
        <2>1. openedAt' = openedAt
              <3>1. openedAt' = [f \in Jti |-> openedAt[f]]
                    BY <1>3 DEF Commit
              <3> QED
                  BY <3>1 DEF IInv, TypeOK
        <2> QED
            BY <1>2, <1>3, <2>1, OnlyCloses
  <1>4. CASE k # NoJti /\ r = NoJti
        <2>1. /\ k \in Jti /\ openedAt[k] = Never /\ \A j \in Stored : tokens[j].family # k
              /\ tokens'[k].family = k /\ tokens'[k].revoked = NotRevoked
              /\ openedAt' = [openedAt EXCEPT ![k] = tokens'[k].issued] /\ tokens'[k].issued \in Time
              BY <1>4, AddedRow
        <2>2. LiveRows(k)' = {k}
              BY <1>1, <1>4, <2>1 DEF LiveRows, FamilyRows, Unrevoked, Stored
        <2>3. LiveToken'[k] = k
              <3>1. \E j : LiveRows(k)' = {j} /\ LiveToken'[k] = j
                    BY <2>1, <2>2, TokensAreShownNext DEF TokensShown
              <3> QED
                  BY <2>2, <3>1
        <2>4. \A g \in Jti \ {k} : LiveToken'[g] \in {LiveToken[g], NoJti}
              <3> SUFFICES ASSUME NEW g \in Jti \ {k}
                           PROVE  LiveToken'[g] \in {LiveToken[g], NoJti}
                  OBVIOUS
              <3>1. LiveRows(g)' \subseteq LiveRows(g)
                    BY <1>2, <2>1 DEF LiveRows, FamilyRows
              <3> QED
                  BY <3>1, NothingRevived
        <2>5. k \notin Opened /\ Opened' = Opened \cup {k}
              <3>1. \A t \in Time : t # Never
                    BY BoundAssumption DEF Time, Never
              <3>2. \A f \in Jti : openedAt'[f] = IF f = k THEN tokens'[k].issued ELSE openedAt[f]
                    BY <2>1 DEF IInv, TypeOK
              <3> QED
                  BY <2>1, <3>1, <3>2 DEF Opened, Never
        <2>6. Sessions!Open(k)
              BY <2>3, <2>4, <2>5 DEF Sessions!Open, Sessions!StaysOrCloses, NoJti
        <2> QED
            BY <2>1, <2>6, TokensAreShownNext DEF TokensShown, Sessions!Next, NoJti
  <1>5. CASE k # NoJti /\ r # NoJti
        <2>1. /\ k \in Jti /\ openedAt' = openedAt /\ r \in Stored /\ Unrevoked(r) /\ r < k
              /\ plan[p].revoke = {} /\ tokens'[k].family = tokens[r].family
              BY <1>5, AddedRow
        <2> PICK f : f = tokens[r].family
            OBVIOUS
        <2>2. f \in Jti
              BY <2>1 DEF IInv, TypeOK, Stored, Row
        <2>3. LiveRows(f) = {r} /\ LiveToken[f] = r
              <3>1. r \in LiveRows(f)
                    BY <2>1 DEF LiveRows, FamilyRows
              <3> QED
                  BY <2>2, <3>1, TokenShown
        <2>4. r \notin LiveRows(f)'
              BY <1>1, <2>1 DEF LiveRows, FamilyRows, Unrevoked, NotRevoked
        <2>5. CASE tokens'[k].revoked # NotRevoked
              <3>1. \A g \in Jti : k \notin LiveRows(g)'
                    BY <2>5 DEF LiveRows, FamilyRows, Unrevoked
              <3> QED
                  BY <1>2, <2>1, <3>1, OnlyCloses
        <2>6. CASE tokens'[k].revoked = NotRevoked
              <3>1. LiveRows(f)' = {k}
                    <4>1. k \in LiveRows(f)'
                          BY <1>1, <1>5, <2>1, <2>6 DEF LiveRows, FamilyRows, Unrevoked, Stored
                    <4> QED
                        BY <1>2, <2>2, <2>3, <2>4, <4>1
              <3>2. LiveToken'[f] = k
                    <4>1. \E j : LiveRows(f)' = {j} /\ LiveToken'[f] = j
                          BY <2>2, <3>1, TokensAreShownNext DEF TokensShown
                    <4> QED
                        BY <3>1, <4>1
              <3>3. \A g \in Jti \ {f} : LiveToken'[g] = LiveToken[g]
                    <4> SUFFICES ASSUME NEW g \in Jti \ {f}
                                 PROVE  LiveToken'[g] = LiveToken[g]
                        OBVIOUS
                    <4>1. LiveRows(g)' = LiveRows(g)
                          BY <1>1, <2>1 DEF LiveRows, FamilyRows, Unrevoked, Stored
                    <4> QED
                        BY <4>1 DEF LiveToken
              <3>4. Opened' = Opened
                    BY <2>1 DEF Opened
              <3>5. LiveToken'[f] > LiveToken[f] /\ LiveToken[f] # NoJti
                    <4>1. r \in Jti
                          BY <2>1, StoredIds DEF IInv
                    <4> QED
                        BY <2>1, <2>3, <3>2, <4>1, BoundAssumption DEF Jti, NoJti
              <3>6. Sessions!Rotate(f)
                    BY <3>3, <3>4, <3>5 DEF Sessions!Rotate, Sessions!Closed, NoJti
              <3> QED
                  BY <2>2, <3>6, TokensAreShownNext DEF TokensShown, Sessions!Next, NoJti
        <2> QED
            BY <2>5, <2>6
  <1> QED
      BY <1>3, <1>4, <1>5

\* Rows, locks and clocks apart, the store keeps what SessionFamilies promises:
\* one token per family, moved forward by rotation, gone for good once closed.
THEOREM StoreKeepsSessions == Spec => ImplementsSessions
  <1>1. Init => Sessions!Init
        BY DEF Init, Sessions!Init, Opened, LiveToken, LiveRows, FamilyRows, Stored, NoJti
  <1>2. IInv /\ IInv' /\ [Next]_vars => [Sessions!Next]_<<Opened, LiveToken>>
        <2> SUFFICES ASSUME IInv, IInv', [Next]_vars
                     PROVE  Sessions!Next \/ (Opened' = Opened /\ LiveToken' = LiveToken)
            OBVIOUS
        <2>1. CASE Cleanup \/ \E u \in Users : DeleteUser(u)
              BY <2>1, DeletionCloses
        <2>2. CASE \E p \in Requests : Commit(p)
              BY <2>2, CommitMoves
        <2>3. CASE UNCHANGED <<tokens, openedAt>>
              BY <2>3 DEF Opened, LiveToken, LiveRows, FamilyRows, Unrevoked, Stored
        <2>4. ASSUME NEW p \in Requests,
                     \/ Start(p) \/ FlushPassword(p) \/ Acquire(p) \/ DecideAny(p)
                     \/ Abort(p) \/ DeadlockVictim(p) \/ UserGone(p)
              PROVE  UNCHANGED <<tokens, openedAt>>
              BY <2>4 DEF Start, StartLogin, StartRefresh, StartLogout, StartForceLogout,
                 StartChangePassword, Enter, FlushPassword, Acquire, DecideAny, DecideLogin,
                 DecideRotate, DecideRotateDisabled, DecideReuse, DecideInvalid, DecideLogout,
                 DecideForceLogout, DecideChangePassword, Decide, Abort, DeadlockVictim, UserGone
        <2>5. CASE \/ \E u \in Users, s \in {"active", "disabled"} : SetStatus(u, s)
                   \/ Tick \/ UNCHANGED vars
              BY <2>3, <2>5 DEF SetStatus, Tick, vars
        <2> QED
            BY <2>1, <2>2, <2>3, <2>4, <2>5 DEF Next
  <1> QED
      BY <1>1, <1>2, Invariance, PTL DEF Spec, ImplementsSessions, Sessions!Spec, Sessions!vars

-----------------------------------------------------------------------------
(* The session cap: which families a login leaves alone.                   *)

\* A finite set has an element that no other one comes after.
LEMMA LastOne ==
  ASSUME NEW S, IsFiniteSet(S), S # {}, NEW R,
         \A x \in S : <<x, x>> \notin R,
         \A x, y, z \in S : <<x, y>> \in R /\ <<y, z>> \in R => <<x, z>> \in R
  PROVE  \E x \in S : \A y \in S : <<x, y>> \notin R
  <1> DEFINE After(x) == {y \in S : <<x, y>> \in R}
             T == {After(x) : x \in S}
  <1>1. \A x \in S : After(x) \in FiniteSubsetsOf(S)
        BY FS_Subset DEF FiniteSubsetsOf
  <1>2. IsWellFoundedOn(StrictSubsetOrdering(S), FiniteSubsetsOf(S))
        BY FS_StrictSubsetOrderingWellFounded
  <1>3. T \subseteq FiniteSubsetsOf(S) /\ T # {}
        <2>1. PICK x \in S : TRUE
              OBVIOUS
        <2>2. After(x) \in T
              OBVIOUS
        <2>3. T \subseteq FiniteSubsetsOf(S)
              BY <1>1
        <2> HIDE DEF T
        <2> QED
            BY <2>2, <2>3
  <1>4. PICK m \in T : \A t \in T : ~(<<t, m>> \in StrictSubsetOrdering(S))
        <2> HIDE DEF T
        <2> QED
            BY <1>2, <1>3, WFMin
  <1>5. PICK x \in S : m = After(x)
        BY <1>4
  <1>6. ASSUME NEW y \in S, <<x, y>> \in R
        PROVE  FALSE
        <2>1. After(y) \subseteq After(x) /\ y \in After(x) /\ y \notin After(y)
              BY <1>6
        <2>2. <<After(y), m>> \in StrictSubsetOrdering(S)
              BY <1>1, <1>5, <2>1 DEF StrictSubsetOrdering, FiniteSubsetsOf
        <2> QED
            BY <1>4, <2>2
  <1> QED
      BY <1>6

\* The order of the rows in list_active_families.
Newer(j, k) == tokens[j].issued > tokens[k].issued \/ (tokens[j].issued = tokens[k].issued /\ j > k)

LEMMA RowsOrdered ==
  ASSUME TypeOK
  PROVE  /\ IsFiniteSet(Stored)
         /\ \A j \in Stored : ~Newer(j, j) /\ tokens[j].family \in Jti
         /\ \A j, k \in Stored : j = k \/ Newer(j, k) \/ Newer(k, j)
         /\ \A j, k \in Stored : ~(Newer(j, k) /\ Newer(k, j))
         /\ \A i, j, k \in Stored : Newer(i, j) /\ Newer(j, k) => Newer(i, k)
  <1>1. /\ nextJti \in Int /\ Stored \subseteq 1 .. nextJti - 1
        /\ \A j \in Stored : j \in Int /\ tokens[j].issued \in Int /\ tokens[j].family \in Jti
        <2>1. \A j \in Stored : tokens[j] \in Row /\ j \in 1 .. nextJti - 1 /\ nextJti \in Int
              BY BoundAssumption DEF TypeOK, Stored
        <2>2. nextJti \in Int
              BY BoundAssumption DEF TypeOK
        <2> QED
            BY <2>1, <2>2 DEF Row
  <1>2. IsFiniteSet(Stored)
        <2>1. IsFiniteSet(1 .. nextJti - 1)
              BY <1>1, FS_Interval
        <2> QED
            BY <1>1, <2>1, FS_Subset
  <1>3. \A j, k \in Stored : j = k \/ Newer(j, k) \/ Newer(k, j)
        BY <1>1 DEF Newer
  <1>4. \A j, k \in Stored : ~(Newer(j, k) /\ Newer(k, j)) /\ ~Newer(j, j)
        BY <1>1 DEF Newer
  <1>5. \A i, j, k \in Stored : Newer(i, j) /\ Newer(j, k) => Newer(i, k)
        BY <1>1 DEF Newer
  <1> QED
      BY <1>1, <1>2, <1>3, <1>4, <1>5

LEMMA NewestRow ==
  ASSUME TypeOK, NEW F \in SUBSET Stored, F # {}
  PROVE  \E j \in F : \A k \in F : k = j \/ Newer(j, k)
  <1> DEFINE R == {c \in F \X F : Newer(c[2], c[1])}
  <1>1. \A x, y \in F : <<x, y>> \in R <=> Newer(y, x)
        OBVIOUS
  <1> HIDE DEF R
  <1>2. IsFiniteSet(F) /\ \A x \in F : x \in Stored
        BY RowsOrdered, FS_Subset
  <1>3. \A x \in F : <<x, x>> \notin R
        BY <1>1, <1>2, RowsOrdered
  <1>4. \A x, y, z \in F : <<x, y>> \in R /\ <<y, z>> \in R => <<x, z>> \in R
        BY <1>1, <1>2, RowsOrdered
  <1>5. PICK x \in F : \A y \in F : <<x, y>> \notin R
        BY <1>2, <1>3, <1>4, LastOne
  <1> QED
      BY <1>1, <1>2, <1>5, RowsOrdered

\* Families are ordered by their newest active rows.
LEMMA FamiliesOrdered ==
  ASSUME TypeOK, NEW u, NEW t
  PROVE  /\ \A f \in ActiveFamilies(u, t) : ~MoreRecent(u, t, f, f)
         /\ \A f, g \in ActiveFamilies(u, t) : f = g \/ MoreRecent(u, t, f, g) \/ MoreRecent(u, t, g, f)
         /\ \A f, g, h \in ActiveFamilies(u, t) :
               MoreRecent(u, t, f, g) /\ MoreRecent(u, t, g, h) => MoreRecent(u, t, f, h)
  <1> DEFINE Of(f) == {j \in ActiveRows(u, t) : tokens[j].family = f}
  <1>1. \A f \in ActiveFamilies(u, t) : Of(f) # {} /\ Of(f) \in SUBSET Stored
        BY DEF ActiveFamilies, ActiveRows
  <1>2. \A f, g : MoreRecent(u, t, f, g) <=> \E j \in Of(f) : \A k \in Of(g) : Newer(j, k)
        BY DEF MoreRecent, Newer
  <1>3. \A f, g : f # g => Of(f) \cap Of(g) = {}
        OBVIOUS
  <1> HIDE DEF Of
  <1>4. ASSUME NEW f \in ActiveFamilies(u, t)
        PROVE  ~MoreRecent(u, t, f, f)
        BY <1>1, <1>2, RowsOrdered
  <1>5. ASSUME NEW f \in ActiveFamilies(u, t), NEW g \in ActiveFamilies(u, t), f # g
        PROVE  MoreRecent(u, t, f, g) \/ MoreRecent(u, t, g, f)
        <2>1. PICK j \in Of(f) : \A k \in Of(f) : k = j \/ Newer(j, k)
              BY <1>1, NewestRow
        <2>2. PICK k \in Of(g) : \A i \in Of(g) : i = k \/ Newer(k, i)
              BY <1>1, NewestRow
        <2>3. j \in Stored /\ k \in Stored /\ j # k /\ Of(f) \subseteq Stored /\ Of(g) \subseteq Stored
              BY <1>1, <1>3, <1>5
        <2>4. CASE Newer(j, k)
              <3>1. \A i \in Of(g) : Newer(j, i)
                    BY <2>2, <2>3, <2>4, RowsOrdered
              <3> QED
                  BY <1>2, <3>1
        <2>5. CASE Newer(k, j)
              <3>1. \A i \in Of(f) : Newer(k, i)
                    BY <2>1, <2>3, <2>5, RowsOrdered
              <3> QED
                  BY <1>2, <3>1
        <2> QED
            BY <2>3, <2>4, <2>5, RowsOrdered
  <1>6. ASSUME NEW f \in ActiveFamilies(u, t), NEW g \in ActiveFamilies(u, t), NEW h \in ActiveFamilies(u, t),
               MoreRecent(u, t, f, g), MoreRecent(u, t, g, h)
        PROVE  MoreRecent(u, t, f, h)
        <2>1. PICK j \in Of(f) : \A k \in Of(g) : Newer(j, k)
              BY <1>2, <1>6
        <2>2. PICK k \in Of(g) : \A i \in Of(h) : Newer(k, i)
              BY <1>2, <1>6
        <2>3. \A i \in Of(h) : Newer(j, i)
              BY <1>1, <2>1, <2>2, RowsOrdered
        <2> QED
            BY <1>2, <2>3
  <1> QED
      BY <1>4, <1>5, <1>6

\* The families beyond the cap are all but MaxSessions - 1 of the active ones:
\* the least recent family that is left has every other one before it.
LEMMA RoomForOneMore ==
  ASSUME TypeOK, NEW u, NEW t
  PROVE  LET K == ActiveFamilies(u, t) \ Overflow(u, t)
         IN  IsFiniteSet(K) /\ Cardinality(K) \in Nat /\ Cardinality(K) < MaxSessions
  <1> DEFINE A == ActiveFamilies(u, t)
             K == A \ Overflow(u, t)
             Before(f) == {g \in A : MoreRecent(u, t, g, f)}
  <1>1. IsFiniteSet(A)
        <2>1. A \subseteq Jti
              BY RowsOrdered DEF ActiveFamilies, ActiveRows
        <2>2. IsFiniteSet(Jti)
              BY BoundAssumption, FS_Interval DEF Jti
        <2> QED
            BY <2>1, <2>2, FS_Subset
  <1>2. K \subseteq A /\ IsFiniteSet(K) /\ Cardinality(K) \in Nat
        BY <1>1, FS_Subset, FS_CardinalityType
  <1>3. \A f \in K : ~(Cardinality(Before(f)) + 1 >= MaxSessions)
        BY DEF Overflow
  <1>4. \A f \in A : IsFiniteSet(Before(f)) /\ Cardinality(Before(f)) \in Nat
        <2>1. \A f \in A : Before(f) \subseteq A
              OBVIOUS
        <2> HIDE DEF Before, A
        <2> QED
            BY <1>1, <2>1, FS_Subset, FS_CardinalityType
  <1>5. ASSUME K = {}
        PROVE  Cardinality(K) < MaxSessions
        BY <1>5, FS_EmptySet, SettingsAssumption
  <1>6. ASSUME K # {}
        PROVE  Cardinality(K) < MaxSessions
        <2> DEFINE R == {c \in A \X A : MoreRecent(u, t, c[1], c[2])}
        <2>1. \A x, y \in A : <<x, y>> \in R <=> MoreRecent(u, t, x, y)
              OBVIOUS
        <2> HIDE DEF R
        <2>2. /\ \A x \in K : <<x, x>> \notin R
              /\ \A x, y, z \in K : <<x, y>> \in R /\ <<y, z>> \in R => <<x, z>> \in R
              BY <1>2, <2>1, FamiliesOrdered
        <2>3. PICK x \in K : \A y \in K : <<x, y>> \notin R
              <3> HIDE DEF K
              <3> QED
                  BY <1>2, <1>6, <2>2, LastOne
        <2>4. K \ {x} \subseteq Before(x)
              BY <1>2, <2>1, <2>3, FamiliesOrdered
        <2>5. Cardinality(K \ {x}) = Cardinality(K) - 1
              <3> HIDE DEF K
              <3> QED
                  BY <1>2, FS_RemoveElement
        <2>6. Cardinality(K \ {x}) <= Cardinality(Before(x))
              <3> HIDE DEF K, Before
              <3> QED
                  BY <1>2, <1>4, <2>3, <2>4, FS_Subset
        <2>7. Cardinality(Before(x)) \in Nat /\ ~(Cardinality(Before(x)) + 1 >= MaxSessions)
              BY <1>2, <1>3, <1>4
        <2> HIDE DEF K, Before
        <2> QED
            BY <1>2, <2>5, <2>6, <2>7, SettingsAssumption
  <1> QED
      BY <1>2, <1>5, <1>6

-----------------------------------------------------------------------------
(* What a decided request will have established when it commits, whatever  *)
(* happens between its decision and its commit.                            *)

\* The families of its user that a login leaves active.
KeptRows(p) == {j \in ActiveRows(call[p].user, now) : j \notin plan[p].revoke}
Kept(p) == {tokens[j].family : j \in KeptRows(p)}

CapOK(p) ==
    phase[p] = "decided" /\ call[p].op = "login" =>
        /\ plan[p].rotate = NoJti
        /\ IsFiniteSet(Kept(p)) /\ Cardinality(Kept(p)) < MaxSessions

ClosesOK(p) ==
    phase[p] = "decided" =>
        /\ \A f \in ClosedBy(p) : LiveRows(f) \subseteq plan[p].revoke
        /\ ClosedBy(p) # {} => plan[p].insert = NoJti
        /\ plan[p].reuse => call[p].op = "refresh"

CInv == IInv /\ \A p \in Requests : CapOK(p) /\ ClosesOK(p)

LEMMA DecidedEstablishes ==
  ASSUME IInv, IInv', NEW p \in Requests, DecideAny(p)
  PROVE  CapOK(p)' /\ ClosesOK(p)'
  <1> PICK c : c = call[p]
      OBVIOUS
  <1>0. TypeOK
        BY DEF IInv
  <1>1. ASSUME NEW w, Decide(p, w)
        PROVE  /\ plan'[p] = w /\ call'[p] = c /\ UNCHANGED <<now, tokens>>
        BY <1>0, <1>1 DEF Decide, TypeOK
  <1>2. ASSUME NEW R, NEW why, NEW row, c.op \in {"login", "change"},
               Decide(p, [insert |-> nextJti, row |-> row, rotate |-> NoJti,
                          revoke |-> R, reason |-> why, reuse |-> FALSE])
        PROVE  ClosesOK(p)' /\ plan'[p].revoke = R /\ plan'[p].rotate = NoJti
        <2>1. /\ plan'[p].reuse = FALSE /\ plan'[p].revoke = R /\ plan'[p].rotate = NoJti
              /\ call'[p] = c
              BY <1>1, <1>2
        <2>2. ClosedBy(p)' = {}
              BY <1>2, <2>1 DEF ClosedBy
        <2> QED
            BY <2>1, <2>2 DEF ClosesOK
  <1>3. ASSUME NEW R, NEW why, NEW reuse, c.op # "login", reuse => c.op = "refresh",
               Decide(p, Revoking(R, why, reuse)),
               \A f \in IF c.op = "force" THEN {c.family}
                        ELSE IF c.op = "logout" \/ reuse
                             THEN {tokens[j].family : j \in {c.jti} \cap Stored} ELSE {} :
                  LiveRows(f) \subseteq R
        PROVE  CapOK(p)' /\ ClosesOK(p)'
        <2>1. /\ plan'[p] = Revoking(R, why, reuse) /\ call'[p] = c /\ UNCHANGED <<now, tokens>>
              BY <1>1, <1>3
        <2>2. /\ plan'[p].reuse = reuse /\ plan'[p].revoke = R /\ plan'[p].insert = NoJti
              BY <2>1 DEF Revoking
        <2>3. ClosedBy(p)' = IF c.op = "force" THEN {c.family}
                             ELSE IF c.op = "logout" \/ reuse
                                  THEN {tokens[j].family : j \in {c.jti} \cap Stored} ELSE {}
              <3>1. CASE c.op = "force"
                    BY <1>3, <2>1, <2>2, <3>1 DEF ClosedBy
              <3>2. CASE c.op # "force" /\ (c.op = "logout" \/ reuse)
                    BY <2>1, <2>2, <3>2 DEF ClosedBy, Stored
              <3>3. CASE c.op # "force" /\ ~(c.op = "logout" \/ reuse)
                    BY <2>1, <2>2, <3>3 DEF ClosedBy
              <3> QED
                  BY <3>1, <3>2, <3>3
        <2>4. \A f : LiveRows(f)' = LiveRows(f)
              BY <2>1 DEF LiveRows, FamilyRows, Unrevoked, Stored
        <2>5. ClosesOK(p)'
              BY <1>3, <2>1, <2>2, <2>3, <2>4 DEF ClosesOK
        <2> QED
            BY <1>3, <2>1, <2>5 DEF CapOK
  <1>4. CASE DecideLogin(p)
        <2> PICK u : u = c.user
            OBVIOUS
        <2> PICK R : R = LiveRowsOf(Overflow(u, now))
            OBVIOUS
        <2>1. c.op = "login" /\ Decide(p, Opening(u, R, "concurrency_limit"))
              BY <1>4 DEF DecideLogin, Asked
        <2>2. ClosesOK(p)' /\ plan'[p].revoke = R /\ plan'[p].rotate = NoJti
              BY <1>2, <2>1 DEF Opening
        <2>3. call'[p] = c /\ UNCHANGED <<now, tokens>>
              BY <1>1, <2>1
        <2>4. Kept(p)' \subseteq ActiveFamilies(u, now) \ Overflow(u, now)
              <3> SUFFICES ASSUME NEW j \in KeptRows(p)'
                           PROVE  tokens[j].family \in ActiveFamilies(u, now) \ Overflow(u, now)
                  BY <2>3 DEF Kept
              <3>1. j \in ActiveRows(u, now) /\ j \notin R
                    BY <2>2, <2>3 DEF KeptRows, ActiveRows, Stored, Unrevoked
              <3>2. tokens[j].family \in ActiveFamilies(u, now)
                    BY <3>1 DEF ActiveFamilies
              <3>3. tokens[j].family \notin Overflow(u, now)
                    BY <3>1 DEF LiveRowsOf, ActiveRows
              <3> QED
                  BY <3>2, <3>3
        <2>5. IsFiniteSet(Kept(p)') /\ Cardinality(Kept(p)') < MaxSessions
              <3> PICK K : K = ActiveFamilies(u, now) \ Overflow(u, now)
                  OBVIOUS
              <3> PICK K2 : K2 = Kept(p)'
                  OBVIOUS
              <3>1. IsFiniteSet(K) /\ Cardinality(K) \in Nat /\ Cardinality(K) < MaxSessions
                    BY <1>0, RoomForOneMore
              <3>2. K2 \subseteq K
                    BY <2>4
              <3>3. IsFiniteSet(K2) /\ Cardinality(K2) \in Nat /\ Cardinality(K2) <= Cardinality(K)
                    BY <3>1, <3>2, FS_Subset, FS_CardinalityType
              <3>4. Cardinality(K2) < MaxSessions
                    BY <3>1, <3>3, SettingsAssumption
              <3> QED
                  BY <3>3, <3>4
        <2> QED
            BY <2>2, <2>5 DEF CapOK
  <1>5. CASE DecideChangePassword(p)
        <2>1. /\ c.op = "change"
              /\ \E R : Decide(p, Opening(c.user, R, "password_changed"))
              BY <1>5 DEF DecideChangePassword, Asked
        <2>2. ClosesOK(p)'
              BY <1>2, <2>1 DEF Opening
        <2>3. call'[p] = c
              BY <1>1, <2>1
        <2> QED
            BY <2>1, <2>2, <2>3 DEF CapOK
  <1>6. CASE DecideRotate(p) \/ DecideRotateDisabled(p)
        <2>1. c.op = "refresh" /\ \E r, R, why : Decide(p, Rotating(c.jti, c.user, r, R, why))
              BY <1>6 DEF DecideRotate, DecideRotateDisabled, MayRotate, Asked
        <2>2. call'[p] = c /\ plan'[p].reuse = FALSE
              BY <1>1, <2>1 DEF Rotating
        <2>3. ClosedBy(p)' = {}
              BY <2>1, <2>2 DEF ClosedBy
        <2> QED
            BY <2>1, <2>2, <2>3 DEF CapOK, ClosesOK
  <1>7. CASE DecideReuse(p)
        <2>1. c.op = "refresh" /\ Decide(p, Revoking(LiveRows(tokens[c.jti].family), "reuse_detected", TRUE))
              BY <1>7 DEF DecideReuse, Asked
        <2> QED
            BY <1>3, <2>1
  <1>8. CASE DecideLogout(p)
        <2>1. c.op = "logout" /\ Decide(p, Revoking(LiveRows(tokens[c.jti].family), "logout", FALSE))
              BY <1>8 DEF DecideLogout, Asked
        <2> QED
            BY <1>3, <2>1
  <1>9. CASE DecideForceLogout(p)
        <2>1. c.op = "force" /\ Decide(p, Revoking(LiveRows(c.family), "forced_logout", FALSE))
              BY <1>9 DEF DecideForceLogout, Asked
        <2> QED
            BY <1>3, <2>1
  <1>10. CASE DecideInvalid(p)
        <2>1. /\ c.op \in {"refresh", "logout"} /\ Decide(p, Revoking({}, "logout", FALSE))
              /\ c.op = "logout" => c.jti \notin Stored
              BY <1>10 DEF DecideInvalid, Asked, NoWrites
        <2> QED
            BY <1>3, <2>1
  <1> QED
      BY <1>4, <1>5, <1>6, <1>7, <1>8, <1>9, <1>10 DEF DecideAny

\* The steps of the others: rows go, rows are revoked, and rows of other users
\* are added; none of it undoes what p has decided.
LEMMA DecidedHolds ==
  ASSUME IInv, IInv', NEW p \in Requests, phase[p] = "decided", phase'[p] = "decided",
         call'[p] = call[p], plan'[p] = plan[p], now' >= now, CapOK(p), ClosesOK(p),
         \A j \in DOMAIN tokens' :
            \/ /\ j \in Stored
               /\ tokens'[j].family = tokens[j].family /\ tokens'[j].user = tokens[j].user
               /\ tokens'[j].expires = tokens[j].expires
               /\ tokens'[j].revoked = NotRevoked => tokens[j].revoked = NotRevoked
            \/ tokens'[j].user # call[p].user /\ j # call[p].jti
  PROVE  CapOK(p)' /\ ClosesOK(p)'
  <1> PICK c : c = call[p]
      OBVIOUS
  <1> PICK w : w = plan[p]
      OBVIOUS
  <1>0. call[p] = c /\ call'[p] = c /\ plan[p] = w /\ plan'[p] = w
        BY DEF IInv
  <1>1. TypeOK /\ TypeOK' /\ TargetOK(p)' /\ TableOK'
        BY DEF IInv, TargetsOK
  <1>2. Kept(p)' \subseteq Kept(p)
        <2> SUFFICES ASSUME NEW j \in KeptRows(p)'
                     PROVE  j \in KeptRows(p) /\ tokens'[j].family = tokens[j].family
            BY DEF Kept
        <2>1. /\ j \in DOMAIN tokens' /\ tokens'[j].user = c.user /\ tokens'[j].revoked = NotRevoked
              /\ tokens'[j].expires > now' /\ j \notin w.revoke
              BY <1>0 DEF KeptRows, ActiveRows, Stored, Unrevoked
        <2>2. /\ j \in Stored /\ tokens'[j].family = tokens[j].family /\ tokens[j].user = c.user
              /\ tokens[j].expires = tokens'[j].expires /\ tokens[j].revoked = NotRevoked
              BY <1>0, <2>1
        <2>3. tokens[j].expires \in Int /\ now \in Int /\ now' \in Int
              BY <1>1, <2>2, BoundAssumption DEF TypeOK, Row, Time, Stored
        <2>4. tokens[j].expires > now
              BY <2>1, <2>2, <2>3
        <2> QED
            BY <1>0, <2>1, <2>2, <2>4 DEF KeptRows, ActiveRows, Unrevoked
  <1>3. CapOK(p)'
        <2> SUFFICES ASSUME c.op = "login"
                     PROVE  /\ w.rotate = NoJti
                            /\ IsFiniteSet(Kept(p)') /\ Cardinality(Kept(p)') < MaxSessions
            BY <1>0 DEF CapOK
        <2> PICK K : K = Kept(p)
            OBVIOUS
        <2> PICK K2 : K2 = Kept(p)'
            OBVIOUS
        <2>1. w.rotate = NoJti /\ IsFiniteSet(K) /\ Cardinality(K) < MaxSessions
              BY <1>0 DEF CapOK
        <2>2. IsFiniteSet(K2) /\ Cardinality(K2) \in Nat /\ Cardinality(K2) <= Cardinality(K) /\ Cardinality(K) \in Nat
              BY <1>2, <2>1, FS_Subset, FS_CardinalityType
        <2>3. Cardinality(K2) < MaxSessions
              BY <2>1, <2>2, SettingsAssumption
        <2> QED
            BY <2>1, <2>2, <2>3
  <1>4. ClosedBy(p)' \subseteq ClosedBy(p)
        <2>1. {tokens'[j].family : j \in {c.jti} \cap DOMAIN tokens'}
                \subseteq {tokens[j].family : j \in {c.jti} \cap Stored}
              BY <1>0
        <2> QED
            BY <1>0, <2>1 DEF ClosedBy, Stored
  <1>5. ASSUME NEW f \in ClosedBy(p)', NEW k \in LiveRows(f)'
        PROVE  k \in LiveRows(f)
        <2>1. k \in DOMAIN tokens' /\ tokens'[k].family = f /\ tokens'[k].revoked = NotRevoked
              BY <1>5 DEF LiveRows, FamilyRows, Unrevoked, Stored
        <2>2. tokens'[k].user = c.user
              <3>1. CASE c.op = "force"
                    <4>1. f = c.family
                          <5>1. ~w.reuse
                                BY <1>0, <3>1 DEF ClosesOK
                          <5>2. ClosedBy(p)' = {c.family}
                                BY <1>0, <3>1, <5>1 DEF ClosedBy
                          <5> QED
                              BY <1>5, <5>2
                    <4>2. f # NoJti /\ k \in FamilyRows(f)'
                          BY <1>0, <1>1, <2>1, <3>1, <4>1 DEF TargetOK, FamilyRows, Stored
                    <4> QED
                        BY <1>0, <1>1, <4>1, <4>2 DEF TargetOK
              <3>2. CASE c.op # "force"
                    <4>1. c.jti \in DOMAIN tokens' /\ tokens'[c.jti].family = f
                          BY <1>0, <1>5, <3>2 DEF ClosedBy, Stored
                    <4>2. c.jti # NoJti
                          <5>1. c.jti \in 1 .. nextJti' - 1 /\ nextJti' \in Int
                                BY <1>1, <4>1, BoundAssumption DEF TypeOK
                          <5> QED
                              BY <5>1 DEF NoJti
                    <4>3. tokens'[c.jti].user = c.user
                          BY <1>0, <1>1, <4>1, <4>2 DEF TargetOK, Stored
                    <4>4. tokens'[c.jti].user = tokens'[k].user
                          BY <1>1, <2>1, <4>1 DEF TableOK, PairOK, SameFamily, Stored
                    <4> QED
                        BY <4>3, <4>4
              <3> QED
                  BY <3>1, <3>2
        <2>3. k \in Stored /\ tokens[k].family = f /\ tokens[k].revoked = NotRevoked
              BY <1>0, <2>1, <2>2
        <2> QED
            BY <2>3 DEF LiveRows, FamilyRows, Unrevoked
  <1>6. ClosesOK(p)'
        BY <1>0, <1>4, <1>5 DEF ClosesOK
  <1> QED
      BY <1>3, <1>6

LEMMA CommitmentsKept ==
  ASSUME CInv, IInv', [Next]_vars, NEW q \in Requests
  PROVE  CapOK(q)' /\ ClosesOK(q)'
  <1> SUFFICES ASSUME phase'[q] = "decided"
               PROVE  CapOK(q)' /\ ClosesOK(q)'
      BY DEF CapOK, ClosesOK
  <1>0. IInv /\ TypeOK /\ CapOK(q) /\ ClosesOK(q) /\ now \in Int
        BY BoundAssumption DEF CInv, IInv, TypeOK, Time
  <1>1. ASSUME phase[q] = "decided", call'[q] = call[q], plan'[q] = plan[q], now' >= now,
               DOMAIN tokens' \subseteq Stored, \A j \in DOMAIN tokens' : tokens'[j] = tokens[j]
        PROVE  CapOK(q)' /\ ClosesOK(q)'
        BY <1>0, <1>1, DecidedHolds
  <1>2. ASSUME NEW p \in Requests,
               \/ Start(p) \/ FlushPassword(p) \/ Acquire(p)
               \/ Abort(p) \/ DeadlockVictim(p) \/ UserGone(p)
        PROVE  CapOK(q)' /\ ClosesOK(q)'
        <2>1. /\ phase'[p] # "decided" /\ UNCHANGED <<now, tokens>>
              /\ q # p => phase'[q] = phase[q] /\ call'[q] = call[q] /\ plan'[q] = plan[q]
              <3>1. CASE Start(p)
                    BY <1>0, <3>1 DEF Start, StartLogin, StartRefresh, StartLogout, StartForceLogout,
                       StartChangePassword, Enter, TypeOK
              <3>2. CASE FlushPassword(p) \/ Acquire(p)
                    BY <1>0, <3>2 DEF FlushPassword, Acquire, TypeOK
              <3>3. CASE Abort(p) \/ DeadlockVictim(p) \/ UserGone(p)
                    BY <1>0, <3>3 DEF Abort, DeadlockVictim, UserGone, Finish, TypeOK
              <3> QED
                  BY <1>2, <3>1, <3>2, <3>3
        <2>2. now' >= now /\ DOMAIN tokens' = Stored
              BY <1>0, <2>1 DEF Stored
        <2> QED
            BY <1>1, <2>1, <2>2
  <1>3. ASSUME NEW p \in Requests, DecideAny(p)
        PROVE  CapOK(q)' /\ ClosesOK(q)'
        <2>1. CASE q = p
              BY <1>0, <1>3, <2>1, DecidedEstablishes
        <2>2. CASE q # p
              <3>1. \E w : Decide(p, w)
                    BY <1>3 DEF DecideAny, DecideLogin, DecideRotate, DecideRotateDisabled, DecideReuse,
                       DecideInvalid, DecideLogout, DecideForceLogout, DecideChangePassword
              <3>2. /\ phase'[q] = phase[q] /\ call'[q] = call[q] /\ plan'[q] = plan[q]
                    /\ UNCHANGED <<now, tokens>>
                    BY <1>0, <2>2, <3>1 DEF Decide, TypeOK
              <3>3. now' >= now /\ DOMAIN tokens' = Stored
                    BY <1>0, <3>2 DEF Stored
              <3> QED
                  BY <1>1, <3>2, <3>3
        <2> QED
            BY <2>1, <2>2
  <1>4. ASSUME NEW p \in Requests, Commit(p)
        PROVE  CapOK(q)' /\ ClosesOK(q)'
        <2>1. /\ phase'[p] # "decided" /\ now' = now
              /\ q # p => phase'[q] = phase[q] /\ call'[q] = call[q] /\ plan'[q] = plan[q]
              BY <1>0, <1>4 DEF Commit, Finish, TypeOK
        <2>2. q # p /\ phase[q] = "decided" /\ phase[p] = "decided"
              BY <1>4, <2>1 DEF Commit
        <2>3. call[q].user # call[p].user
              BY <1>0, <2>2 DEF IInv, LockHeld
        <2>4. ASSUME NEW j \in DOMAIN tokens', j \notin Stored
              PROVE  tokens'[j].user # call[q].user /\ j # call[q].jti
              <3>1. j = plan[p].insert /\ j # NoJti
                    <4>1. DOMAIN tokens' = Stored \cup ({plan[p].insert} \ {NoJti})
                          BY <1>0, <1>4, CommittedRows
                    <4> QED
                        BY <2>4, <4>1
              <3>2. tokens'[j].user = call[p].user
                    BY <1>0, <1>4, <3>1, AddedRow
              <3>3. j # call[q].jti
                    BY <1>0, <2>2, <3>1 DEF IInv, TargetsOK, TargetOK
              <3> QED
                  BY <2>3, <3>2, <3>3
        <2>5. ASSUME NEW j \in Stored
              PROVE  /\ tokens'[j].family = tokens[j].family /\ tokens'[j].user = tokens[j].user
                     /\ tokens'[j].expires = tokens[j].expires
                     /\ tokens'[j].revoked = NotRevoked => tokens[j].revoked = NotRevoked
              BY <1>0, <1>4, <2>5, CommittedRows DEF Unrevoked
        <2>6. now' >= now
              BY <1>0, <2>1
        <2> QED
            BY <1>0, <2>1, <2>2, <2>4, <2>5, <2>6, DecidedHolds
  <1>5. CASE \/ Cleanup \/ Tick \/ UNCHANGED vars
             \/ \E u \in Users, s \in {"active", "disabled"} : SetStatus(u, s)
             \/ \E u \in Users : DeleteUser(u)
        <2>1. /\ UNCHANGED <<phase, call, plan>> /\ (now' = now \/ now' = now + 1)
              /\ DOMAIN tokens' \subseteq Stored /\ \A j \in DOMAIN tokens' : tokens'[j] = tokens[j]
              BY <1>5 DEF Cleanup, Tick, vars, SetStatus, DeleteUser, Stored
        <2>2. now' >= now
              BY <1>0, <2>1
        <2> QED
            BY <1>1, <2>1, <2>2
  <1> QED
      BY <1>2, <1>3, <1>4, <1>5 DEF Next

\* When a login commits, what it kept and the family it opens fit the cap.
LEMMA LoginFits ==
  ASSUME CInv, IInv', NEW p \in Requests, Commit(p), call[p].op = "login"
  PROVE  Cardinality({tokens'[j].family :
            j \in {i \in DOMAIN tokens' :
                      /\ tokens'[i].user = call[p].user
                      /\ tokens'[i].revoked = NotRevoked
                      /\ tokens'[i].expires > now}}) <= MaxSessions
  <1> DEFINE J == {i \in DOMAIN tokens' : /\ tokens'[i].user = call[p].user
                                          /\ tokens'[i].revoked = NotRevoked
                                          /\ tokens'[i].expires > now}
             K2 == {tokens'[j].family : j \in J}
  <1> PICK K : K = Kept(p)
      OBVIOUS
  <1> PICK k : k = plan[p].insert
      OBVIOUS
  <1>1. IInv /\ IsFiniteSet(K) /\ Cardinality(K) < MaxSessions /\ plan[p].rotate = NoJti
        BY DEF CInv, CapOK, Commit
  <1>2. ASSUME NEW j \in J
        PROVE  tokens'[j].family \in K \cup {tokens'[k].family}
        <2>1. CASE j \in Stored
              <3>1. /\ tokens[j].user = call[p].user /\ tokens[j].expires > now
                    /\ tokens[j].family = tokens'[j].family
                    BY <1>1, <2>1, CommittedRows
              <3>2. j \notin plan[p].revoke
                    BY <1>1, <2>1, CommittedRows DEF Reasons, NotRevoked
              <3>3. j # plan[p].rotate
                    BY <1>1, <2>1, StoredIds DEF IInv
              <3>4. tokens[j].revoked = NotRevoked
                    BY <1>1, <2>1, <3>2, <3>3, CommittedRows
              <3> QED
                  BY <2>1, <3>1, <3>2, <3>4 DEF Kept, KeptRows, ActiveRows, Unrevoked
        <2>2. CASE j \notin Stored
              <3>1. DOMAIN tokens' = Stored \cup ({k} \ {NoJti})
                    BY <1>1, CommittedRows
              <3>2. j = k
                    BY <2>2, <3>1
              <3> QED
                  BY <3>2
        <2> QED
            BY <2>1, <2>2
  <1>3. K2 \subseteq K \cup {tokens'[k].family}
        BY <1>2
  <1> HIDE DEF J, K2
  <1> PICK f : f = tokens'[k].family
      OBVIOUS
  <1>4. /\ IsFiniteSet(K \cup {f}) /\ Cardinality(K) \in Nat
        /\ Cardinality(K \cup {f}) = Cardinality(K) \/ Cardinality(K \cup {f}) = Cardinality(K) + 1
        BY <1>1, FS_AddElement, FS_CardinalityType
  <1>5. Cardinality(K2) \in Nat /\ Cardinality(K2) <= Cardinality(K \cup {f})
        BY <1>3, <1>4, FS_Subset, FS_CardinalityType
  <1>6. Cardinality(K2) <= MaxSessions
        BY <1>1, <1>4, <1>5, SettingsAssumption
  <1> QED
      BY <1>6 DEF J, K2

\* A closing leaves no usable row of what it closes.
LEMMA ClosingCloses ==
  ASSUME CInv, NEW p \in Requests, Commit(p), NEW j \in DOMAIN tokens', tokens'[j].family \in ClosedBy(p)
  PROVE  tokens'[j].revoked # NotRevoked
  <1>1. IInv /\ ClosesOK(p) /\ phase[p] = "decided"
        BY DEF CInv, Commit
  <1>2. plan[p].insert = NoJti
        BY <1>1 DEF ClosesOK
  <1>3. j \in Stored /\ tokens[j].family = tokens'[j].family
        BY <1>1, <1>2, CommittedRows
  <1>4. CASE Unrevoked(j)
        <2>1. j \in plan[p].revoke
              BY <1>1, <1>3, <1>4 DEF ClosesOK, LiveRows, FamilyRows
        <2> QED
            BY <1>1, <1>3, <2>1, CommittedRows DEF Reasons, NotRevoked
  <1>5. CASE ~Unrevoked(j)
        BY <1>1, <1>3, <1>5, CommittedRows DEF Reasons, NotRevoked, Unrevoked
  <1> QED
      BY <1>4, <1>5

\* The per-user lock makes "issue, then evict" one step, and no rotation slips a
\* token past a revoking statement: what a request decided holds when it commits
\* (service.py, _evict_overflow_families and the revocations).
THEOREM CommitsKeepTheirWord == Spec => CommitsEstablish
  <1>1. Init => CInv
        BY InitEstablishes DEF Init, CInv, CapOK, ClosesOK
  <1>2. CInv /\ IInv' /\ [Next]_vars => CInv'
        BY CommitmentsKept DEF CInv
  <1>3. CInv /\ IInv' /\ [Next]_vars =>
          /\ \A p \in Requests :
                Commit(p) /\ call[p].op = "login" =>
                  Cardinality({tokens'[j].family :
                      j \in {i \in DOMAIN tokens' :
                                /\ tokens'[i].user = call[p].user
                                /\ tokens'[i].revoked = NotRevoked
                                /\ tokens'[i].expires > now}}) <= MaxSessions
          /\ \A p \in Requests :
                Commit(p) =>
                   \A j \in DOMAIN tokens' :
                      tokens'[j].family \in ClosedBy(p) => tokens'[j].revoked # NotRevoked
        BY LoginFits, ClosingCloses
  <1> QED
      BY <1>1, <1>2, <1>3, Invariance, PTL DEF Spec, CommitsEstablish, LoginRespectsCap, ClosingIsComplete
=============================================================================
