---------------------------- MODULE AccessProofs ----------------------------
(***************************************************************************)
(* Safety of Access for every number of requests, users, roles, menus,     *)
(* posts and departments and every content of the tables: the super admin  *)
(* stays, bindings are whole, nobody gains by another's request, and what  *)
(* is loaded statement by statement is what the tables say.                *)
(***************************************************************************)
EXTENDS Access, FiniteSetTheorems, TLAPS

-----------------------------------------------------------------------------
(* Rows: their columns, and what an update makes of them.                  *)

\* What an UPDATE makes of a row: columns keep their value or take the payload's.
Updated(o, old, v) ==
    /\ v = [f \in DOMAIN old |-> v[f]]
    /\ \A f \in DOMAIN old : v[f] = old[f] \/ (f \in DOMAIN o.change /\ v[f] = o.change[f])

LEMMA UserFields ==
    ASSUME NEW v, v \in UserRow
    PROVE  /\ DOMAIN v = {"dept", "active", "super"}
           /\ v.dept \in Depts \cup {None} /\ v.active \in BOOLEAN /\ v.super \in BOOLEAN
BY DEF UserRow

\* An update of a user keeps the types and the super flag, which no payload has.
LEMMA UpdatedUser ==
    ASSUME NEW o, WellFormed(o), o.name = "user_update",
           NEW old \in UserRow, NEW v, Updated(o, old, v)
    PROVE  /\ v \in UserRow /\ v.super = old.super
           /\ v.dept = old.dept \/ ("dept" \in DOMAIN o.change /\ v.dept = o.change.dept)
           /\ v.active = old.active \/ ("active" \in DOMAIN o.change /\ v.active = o.change.active)
<1> DEFINE typed == [dept |-> Depts \cup {None}, active |-> BOOLEAN]
<1>1. Payload(o, typed)
  BY DEF WellFormed
<1>2. DOMAIN typed = {"dept", "active"} /\ typed.dept = Depts \cup {None} /\ typed.active = BOOLEAN
  OBVIOUS
<1>3. /\ "dept" \in DOMAIN o.change => o.change.dept \in Depts \cup {None}
      /\ "active" \in DOMAIN o.change => o.change.active \in BOOLEAN
      /\ "super" \notin DOMAIN o.change
  <2> HIDE DEF typed
  <2> QED  BY <1>1, <1>2 DEF Payload
<1> HIDE DEF typed
<1>4. /\ v.dept = old.dept \/ ("dept" \in DOMAIN o.change /\ v.dept = o.change.dept)
      /\ v.active = old.active \/ ("active" \in DOMAIN o.change /\ v.active = o.change.active)
      /\ v.super = old.super
  BY <1>3, UserFields DEF Updated
<1>5. v = [f \in {"dept", "active", "super"} |-> v[f]]
  BY UserFields DEF Updated
<1>6. v.dept \in Depts \cup {None} /\ v.active \in BOOLEAN /\ v.super \in BOOLEAN
  BY <1>3, <1>4, UserFields
<1>7. v \in UserRow
  BY <1>5, <1>6 DEF UserRow
<1> QED  BY <1>4, <1>7

\* Ids tell the tables apart.
LEMMA TablesDiffer ==
    /\ Users \cap Roles = {} /\ Users \cap Menus = {} /\ Users \cap Posts = {} /\ Users \cap Depts = {}
    /\ Roles \cap Menus = {} /\ Roles \cap Posts = {} /\ Roles \cap Depts = {}
    /\ Menus \cap Posts = {} /\ Menus \cap Depts = {} /\ Posts \cap Depts = {}
    /\ None \notin Rows \cup Depts
    /\ None \notin UserRow /\ None \notin RoleRow /\ None \notin MenuRow /\ None \notin PostRow
<1> DEFINE t == <<Users, Roles, Menus, Posts, Depts>>
<1>1. \A i, j \in 1 .. 5 : i # j => t[i] \cap t[j] = {}
  BY TablesAssumption
<1>2. t[1] = Users /\ t[2] = Roles /\ t[3] = Menus /\ t[4] = Posts /\ t[5] = Depts
  OBVIOUS
<1> HIDE DEF t
<1>3. /\ t[1] \cap t[2] = {} /\ t[1] \cap t[3] = {} /\ t[1] \cap t[4] = {} /\ t[1] \cap t[5] = {}
      /\ t[2] \cap t[3] = {} /\ t[2] \cap t[4] = {} /\ t[2] \cap t[5] = {}
      /\ t[3] \cap t[4] = {} /\ t[3] \cap t[5] = {} /\ t[4] \cap t[5] = {}
  BY <1>1
<1> QED  BY <1>2, <1>3, TablesAssumption

LEMMA RoleFields ==
    ASSUME NEW v, v \in RoleRow
    PROVE  DOMAIN v = {"scope", "active"} /\ v.scope \in Scopes /\ v.active \in BOOLEAN
BY DEF RoleRow

\* An update of a role keeps the types.
LEMMA UpdatedRole ==
    ASSUME NEW o, WellFormed(o), o.name = "role_update",
           NEW old \in RoleRow, NEW v, Updated(o, old, v)
    PROVE  v \in RoleRow
<1> DEFINE typed == [scope |-> Scopes, active |-> BOOLEAN]
<1>1. Payload(o, typed)
  BY DEF WellFormed
<1>2. DOMAIN typed = {"scope", "active"} /\ typed.scope = Scopes /\ typed.active = BOOLEAN
  OBVIOUS
<1>3. /\ "scope" \in DOMAIN o.change => o.change.scope \in Scopes
      /\ "active" \in DOMAIN o.change => o.change.active \in BOOLEAN
  <2> HIDE DEF typed
  <2> QED  BY <1>1, <1>2 DEF Payload
<1> HIDE DEF typed
<1>4. v = [f \in {"scope", "active"} |-> v[f]]
  BY RoleFields DEF Updated
<1>5. v.scope \in Scopes /\ v.active \in BOOLEAN
  BY <1>3, RoleFields DEF Updated
<1> QED  BY <1>4, <1>5 DEF RoleRow

\* An update of a menu keeps the types.
LEMMA UpdatedMenu ==
    ASSUME NEW o, WellFormed(o), o.name = "menu_update",
           NEW old \in MenuRow, NEW v, Updated(o, old, v)
    PROVE  v \in MenuRow
<1> DEFINE typed == [active |-> BOOLEAN]
<1>1. Payload(o, typed)
  BY DEF WellFormed
<1>2. "active" \in DOMAIN o.change => o.change.active \in BOOLEAN
  BY <1>1 DEF Payload
<1> HIDE DEF typed
<1>3. DOMAIN old = {"active"} /\ old.active \in BOOLEAN
  BY DEF MenuRow
<1>4. v = [f \in {"active"} |-> v[f]] /\ v.active \in BOOLEAN
  BY <1>2, <1>3 DEF Updated
<1> QED  BY <1>4 DEF MenuRow

-----------------------------------------------------------------------------
(* The inductive invariant.                                                *)

IsSuper(u) == row[u] # None /\ row[u].super

UpdateNames == {"user_update", "role_update", "menu_update"}

\* What a request may be about to make of a row.
Outcome(o, old, v) ==
    \/ Creates(o) /\ old = None /\ v = NewRow(o)
    \/ Deletes(o) /\ v = None
    \/ o.name \in UpdateNames /\ old # None /\ Updated(o, old, v)

Tables == InTables(row) /\ bound \subseteq Pairs /\ OneSuper(row) /\ BothEnds(row, bound)

\* Only who has the super flag loads its authority, and the flag never changes.
Known(r) ==
    pc[r] \in {"perms", "roles", "depts", "check"} => seen[r] \in UserRow /\ seen[r].super = IsSuper(op[r].by)

Working == {"lock", "put", "write", "commit"}

EndsUser(o) ==
    \/ o.name = "user_delete"
    \/ o.name = "user_update" /\ "active" \in DOMAIN o.change /\ ~o.change.active

\* What was checked still holds.
Checked(r) ==
    LET o == op[r] IN
    /\ ~Reads(o)
    /\ pc[r] \in {"lock", "put"} => o.name \in Bindings
    /\ pc[r] = "write" => o.name \notin Bindings
    /\ ~auth[r].super => ~TouchesGraph(o)
    /\ o.name \in {"user_create", "user_update"} /\ "dept" \in DOMAIN o.change => SeesDept(auth[r], o.change.dept)
    /\ EndsUser(o) => ~IsSuper(o.target)

\* What is staged is what the operation may write, to rows that are as they were.
Held(r) ==
    LET o == op[r]
        w == staged[r]
    IN  /\ pc[r] \notin {"put", "commit"} => w = NoWrite
        /\ pc[r] = "put" => w.put = {}
        /\ pc[r] \in {"put", "commit"} /\ o.name \in Bindings =>
              /\ DOMAIN w.rows = {} /\ w.cut \subseteq Pairs /\ Of(o, bound) \subseteq w.cut
        /\ pc[r] = "commit" /\ o.name \in Bindings =>
              /\ w.put = {o.target} \X o.ids
              /\ \A x \in Ends(w) \cap Rows : row[x] # None
        /\ pc[r] = "commit" /\ o.name \notin Bindings =>
              /\ w.cut = {} /\ w.put = {}
              /\ \A x \in DOMAIN w.rows : x = o.target /\ Outcome(o, row[x], w.rows[x])

Own(r) ==
    /\ staged[r] = [rows |-> staged[r].rows, cut |-> staged[r].cut, put |-> staged[r].put]
    /\ pc[r] \notin {"idle", "done"} => op[r] \in Ops
    /\ Known(r)
    /\ pc[r] \in Working => Checked(r)
    /\ Held(r)

\* Rows that one request writes are neither written nor referred to by another.
RowsApart ==
    \A q, r \in Requests :
        q # r => Touched(staged[q]) \cap (Touched(staged[r]) \cup Ends(staged[r])) = {}

\* Two replacements in the same table are never under way at once.
BindingsApart ==
    \A q, r \in Requests :
        q # r /\ pc[q] \in {"put", "commit"} /\ pc[r] \in {"put", "commit"}
              /\ op[q].name \in Bindings => op[q].name # op[r].name

Typed ==
    /\ op \in [Requests -> Ops \cup {NoOp}]
    /\ DOMAIN pc = Requests /\ DOMAIN auth = Requests /\ DOMAIN seen = Requests
    /\ DOMAIN staged = Requests /\ DOMAIN answer = Requests /\ DOMAIN moments = Requests

Inv == Typed /\ Tables /\ (\A r \in Requests : Own(r)) /\ RowsApart /\ BindingsApart

-----------------------------------------------------------------------------
(* Steps that commit nothing disturb nobody else.                          *)

Only(r) ==
    /\ row' = row /\ bound' = bound
    /\ \A q \in Requests \ {r} :
          op'[q] = op[q] /\ pc'[q] = pc[q] /\ auth'[q] = auth[q] /\ seen'[q] = seen[q] /\ staged'[q] = staged[q]

Apart(r, w) ==
    \A q \in Requests \ {r} :
        /\ Touched(w) \cap (Touched(staged[q]) \cup Ends(staged[q])) = {}
        /\ Ends(w) \cap Touched(staged[q]) = {}

\* A step of one request that commits nothing keeps the invariant, if what it stages stays
\* apart from what others have staged.
LEMMA Frame ==
    ASSUME Inv, NEW r \in Requests, Only(r), Typed', Own(r)',
           staged'[r] = staged[r] \/ Apart(r, staged'[r]),
           pc'[r] \in {"put", "commit"} => \/ pc[r] \in {"put", "commit"}
                                           \/ op[r].name \notin Bindings
                                           \/ \A q \in Requests \ {r} : op[q].name = op[r].name =>
                                                                          pc[q] \notin {"put", "commit"},
           pc[r] # "idle" => op'[r] = op[r],
           pc[r] = "idle" => pc'[r] \notin {"put", "commit"}
    PROVE  Inv'
<1>1. Tables'
  BY DEF Inv, Tables, Only
<1>2. \A q \in Requests \ {r} : Own(q)'
  BY DEF Inv, Only, Own, Known, Checked, Held, IsSuper
<1>3. RowsApart'
  BY DEF Inv, Only, RowsApart, Apart
<1>4. BindingsApart'
  <2> SUFFICES ASSUME NEW p \in Requests, NEW q \in Requests, p # q,
                      pc'[p] \in {"put", "commit"}, pc'[q] \in {"put", "commit"},
                      op'[p].name \in Bindings, op'[p].name = op'[q].name
               PROVE  FALSE
    BY DEF BindingsApart
  <2>1. CASE p # r /\ q # r
    BY <2>1 DEF Inv, Only, BindingsApart
  <2>2. CASE p = r
    BY <2>2 DEF Inv, Only, BindingsApart
  <2>3. CASE q = r
    BY <2>3 DEF Inv, Only, BindingsApart
  <2> QED  BY <2>1, <2>2, <2>3
<1> QED  BY <1>1, <1>2, <1>3, <1>4 DEF Inv

LEMMA FinishKeeps ==
    ASSUME Inv, NEW r \in Requests, NEW a, Finish(r, a), row' = row, bound' = bound, op' = op
    PROVE  Inv'
<1>1. Typed' /\ Only(r)
  BY DEF Inv, Typed, Finish, Goto, Only
<1>2. pc'[r] = "done" /\ staged'[r] = NoWrite
  BY DEF Inv, Typed, Finish, Goto
<1>3. Own(r)'
  BY <1>2 DEF Own, Known, Held, NoWrite, Working
<1>4. Apart(r, staged'[r])
  BY <1>2 DEF Apart, Touched, Ends, NoWrite
<1> QED  BY <1>1, <1>2, <1>3, <1>4, Frame

LEMMA ReceiveKeeps ==
    ASSUME Inv, NEW r \in Requests, NEW name, Asks(r, name)
    PROVE  Inv'
<1>1. PICK o \in Ops : op' = [op EXCEPT ![r] = o]
  BY DEF Asks
<1>2. Typed' /\ Only(r) /\ pc'[r] = "account" /\ op'[r] = o /\ staged'[r] = staged[r]
  BY <1>1 DEF Inv, Typed, Asks, Goto, Only
<1>3. Own(r)'
  BY <1>2 DEF Inv, Own, Known, Held, Working, Asks
<1> QED  BY <1>2, <1>3, Frame DEF Asks

LEMMA OpTypes ==
    ASSUME Inv, NEW r \in Requests, pc[r] \notin {"idle", "done"}
    PROVE  op[r] \in Ops /\ WellFormed(op[r]) /\ op[r].by \in Users
BY OpsAssumption DEF Inv, Own

LEMMA LoadKeeps ==
    ASSUME Inv, NEW r \in Requests, LoadAccount(r) \/ LoadPerms(r) \/ LoadRoles(r) \/ LoadDepts(r)
    PROVE  Inv'
<1>1. CASE LoadAccount(r)
  <2>1. CASE row[op[r].by] = None \/ ~row[op[r].by].active
    <3>1. Finish(r, "DISABLED")
      BY <1>1, <2>1 DEF LoadAccount
    <3> QED  BY <1>1, <3>1, FinishKeeps DEF LoadAccount
  <2>2. CASE row[op[r].by] # None /\ row[op[r].by].active
    <3>1. /\ seen' = [seen EXCEPT ![r] = row[op[r].by]]
          /\ pc' = [pc EXCEPT ![r] = IF row[op[r].by].super THEN "check" ELSE "perms"]
          /\ auth' = [auth EXCEPT ![r] = IF row[op[r].by].super THEN SuperAuthority ELSE NoAuthority]
          /\ moments' = [moments EXCEPT ![r] = {Facts(op[r].by, row, bound)}]
          /\ staged' = staged /\ answer' = answer /\ row' = row /\ bound' = bound /\ op' = op
          /\ pc[r] = "account"
      BY <1>1, <2>2 DEF LoadAccount, Goto
    <3>2. Typed' /\ Only(r)
      BY <3>1 DEF Inv, Typed, Only
    <3>3. pc'[r] \in {"perms", "check"} /\ seen'[r] = row[op[r].by] /\ staged'[r] = staged[r]
      BY <3>1 DEF Inv, Typed
    <3>4. row[op[r].by] \in UserRow /\ op[r] \in Ops
      BY <2>2, <3>1, OpTypes DEF Inv, Tables, InTables
    <3>5. Known(r)'
      BY <2>2, <3>1, <3>3, <3>4, UserFields DEF Known, IsSuper
    <3>6. Own(r)'
      BY <3>1, <3>3, <3>4, <3>5 DEF Inv, Own, Held, Working
    <3> QED  BY <3>1, <3>2, <3>3, <3>6, Frame
  <2> QED  BY <2>1, <2>2
<1>2. CASE LoadPerms(r) \/ LoadRoles(r) \/ LoadDepts(r)
  <2>1. /\ pc[r] \in {"perms", "roles", "depts"} /\ pc'[r] \in {"roles", "depts", "check"}
        /\ Typed' /\ Only(r)
        /\ seen' = seen /\ staged' = staged /\ row' = row /\ bound' = bound /\ op' = op
    <3>1. CASE LoadPerms(r)
      BY <3>1 DEF Inv, Typed, LoadPerms, Goto, Only
    <3>2. CASE LoadRoles(r)
      BY <3>2 DEF Inv, Typed, LoadRoles, Goto, Only
    <3>3. CASE LoadDepts(r)
      BY <3>3 DEF Inv, Typed, LoadDepts, Goto, Only
    <3> QED  BY <1>2, <3>1, <3>2, <3>3
  <2>2. Own(r)'
    BY <2>1 DEF Inv, Own, Known, IsSuper, Held, Working
  <2> QED  BY <2>1, <2>2, Frame
<1> QED  BY <1>1, <1>2

-----------------------------------------------------------------------------
(* The checks of the services.                                             *)

LEMMA TargetIsSuper ==
    ASSUME Inv, NEW r \in Requests, pc[r] = "check", op[r].target \in Users, IsSuper(op[r].target)
    PROVE  Target(r) # None /\ Target(r).super
<1>1. op[r].target # None
  BY TablesDiffer DEF Rows
<1>2. row[op[r].target] # None /\ row[op[r].target].super
  BY DEF IsSuper
<1>3. CASE op[r].target = op[r].by
  BY <1>1, <1>2, <1>3, TablesDiffer DEF Target, Inv, Own, Known
<1>4. CASE op[r].target # op[r].by
  BY <1>1, <1>2, <1>4 DEF Target
<1> QED  BY <1>3, <1>4

\* Of one super admin the count is one, so ending it is refused.
LEMMA OneSuperCounts ==
    ASSUME OneSuper(row)
    PROVE  Cardinality({u \in Users : row[u] # None /\ row[u].super}) <= 1
<1>1. PICK s \in Users : row[s] # None /\ row[s].super /\ \A u \in Users \ {s} : row[u] # None => ~row[u].super
  BY DEF OneSuper
<1>2. {u \in Users : row[u] # None /\ row[u].super} = {s}
  BY <1>1
<1>3. Cardinality({s}) = 1
  BY FS_Singleton
<1> QED  BY <1>2, <1>3

\* What passes Check is what the rest of the request relies on.
LEMMA CheckGivesChecked ==
    ASSUME Inv, NEW r \in Requests, pc[r] = "check", Refusal(r) = "none", ~Reads(op[r])
    PROVE  LET o == op[r]
           IN  /\ ~auth[r].super => ~TouchesGraph(o)
               /\ o.name \in {"user_create", "user_update"} /\ "dept" \in DOMAIN o.change
                     => SeesDept(auth[r], o.change.dept)
               /\ EndsUser(o) => ~IsSuper(o.target)
<1> DEFINE o == op[r]
<1>1. ~auth[r].super => ~TouchesGraph(o)
  BY DEF Refusal
<1>2. ASSUME o.name \in {"user_create", "user_update", "user_delete"}
      PROVE  UserRefusal(r) = "none"
  <2>1. o.name \notin {"role_create", "role_update", "role_delete", "menu_update", "post_delete"}
        /\ o.name \notin Bindings /\ o.name # "depts_get" /\ o.name # "user_list"
    BY <1>2 DEF Bindings, GraphBindings
  <2> QED  BY <1>2, <2>1 DEF Refusal, UserNames, RoleNames
<1>3. o.name \in {"user_create", "user_update"} /\ "dept" \in DOMAIN o.change => SeesDept(auth[r], o.change.dept)
  BY <1>2 DEF UserRefusal, OutOfScope
<1>4. ASSUME EndsUser(o), IsSuper(o.target) PROVE FALSE
  <2>1. o.name \in {"user_update", "user_delete"} /\ o.target \in Users
    BY <1>4, OpTypes DEF EndsUser, WellFormed
  <2>2. ~EndsLastSuper(r)
    BY <1>2, <2>1 DEF UserRefusal
  <2>3. Target(r).super
    BY <1>4, <2>1, TargetIsSuper
  <2>4. Cardinality({u \in Users : row[u] # None /\ row[u].super}) <= 1
    BY OneSuperCounts DEF Inv, Tables
  <2> QED  BY <1>4, <2>2, <2>3, <2>4 DEF EndsLastSuper, EndsUser
<1> QED  BY <1>1, <1>3, <1>4

LEMMA CheckKeeps ==
    ASSUME Inv, NEW r \in Requests, Check(r)
    PROVE  Inv'
<1>1. CASE Refusal(r) # "none" \/ Reads(op[r])
  BY <1>1, FinishKeeps DEF Check
<1>2. CASE Refusal(r) = "none" /\ ~Reads(op[r])
  <2>1. /\ pc[r] = "check"
        /\ seen' = [seen EXCEPT ![r] = Target(r)]
        /\ moments' = [moments EXCEPT ![r] = {}]
        /\ pc' = [pc EXCEPT ![r] = IF op[r].name \in Bindings THEN "lock" ELSE "write"]
        /\ auth' = auth /\ staged' = staged /\ answer' = answer /\ row' = row /\ bound' = bound /\ op' = op
    BY <1>2 DEF Check, Goto
  <2>2. Typed' /\ Only(r) /\ pc'[r] = IF op[r].name \in Bindings THEN "lock" ELSE "write"
    BY <2>1 DEF Inv, Typed, Only
  <2>3. Checked(r)'
    BY <1>2, <2>1, <2>2, CheckGivesChecked DEF Checked, IsSuper
  <2>4. Own(r)'
    BY <2>1, <2>2, <2>3 DEF Inv, Own, Known, Held, Working
  <2> QED  BY <2>1, <2>2, <2>4, Frame
<1> QED  BY <1>1, <1>2

-----------------------------------------------------------------------------
(* The writes.                                                             *)

LEMMA NotWaiting ==
    ASSUME NEW r \in Requests, NEW w, ~Waits(r, w)
    PROVE  Apart(r, w)
BY DEF Waits, Apart

LEMMA NoWriteExcept ==
    ASSUME NEW x
    PROVE  /\ [NoWrite EXCEPT !.cut = x] = [rows |-> <<>>, cut |-> x, put |-> {}]
           /\ [NoWrite EXCEPT !.rows = x] = [rows |-> x, cut |-> {}, put |-> {}]
<1>1. PICK R : R = <<>>
  OBVIOUS
<1>2. NoWrite = [rows |-> R, cut |-> {}, put |-> {}]
  BY <1>1 DEF NoWrite
<1>3. /\ [NoWrite EXCEPT !.cut = x] = [rows |-> R, cut |-> x, put |-> {}]
      /\ [NoWrite EXCEPT !.rows = x] = [rows |-> x, cut |-> {}, put |-> {}]
  BY <1>2
<1> QED  BY <1>1, <1>3

LEMMA CutKeeps ==
    ASSUME Inv, NEW r \in Requests, Cut(r)
    PROVE  Inv'
<1> DEFINE w == [NoWrite EXCEPT !.cut = Of(op[r], bound)]
<1>1. /\ pc[r] = "lock" /\ Lock(r) /\ ~Waits(r, w)
      /\ staged' = [staged EXCEPT ![r] = w] /\ pc' = [pc EXCEPT ![r] = "put"]
      /\ row' = row /\ bound' = bound /\ op' = op /\ auth' = auth /\ seen' = seen
      /\ answer' = answer /\ moments' = moments
  BY DEF Cut, Stage, Goto
<1>2. w = [rows |-> <<>>, cut |-> Of(op[r], bound), put |-> {}]
  BY NoWriteExcept
<1> HIDE DEF w
<1>3. Typed' /\ Only(r) /\ pc'[r] = "put" /\ staged'[r] = w /\ op'[r] = op[r]
  BY <1>1 DEF Inv, Typed, Only
<1>4. Checked(r) /\ op[r] \in Ops
  BY <1>1 DEF Inv, Own, Working
<1>5. Checked(r)' /\ Known(r)'
  BY <1>1, <1>3, <1>4 DEF Checked, Known, IsSuper
<1>6. Held(r)'
  <2>1. DOMAIN w.rows = {} /\ w.put = {} /\ w.cut = Of(op[r], bound)
    BY <1>2
  <2>2. Of(op[r], bound) \subseteq Pairs
    BY DEF Of, Inv, Tables
  <2> QED  BY <1>1, <1>3, <2>1, <2>2 DEF Held
<1>7. Own(r)'
  BY <1>2, <1>3, <1>4, <1>5, <1>6 DEF Own
<1>8. Apart(r, staged'[r])
  BY <1>1, <1>3, NotWaiting
<1> QED  BY <1>1, <1>3, <1>7, <1>8, Frame DEF Lock

LEMMA PutKeeps ==
    ASSUME Inv, NEW r \in Requests, Put(r)
    PROVE  Inv'
<1> DEFINE new == {op[r].target} \X op[r].ids
           w == [staged[r] EXCEPT !.put = new]
<1>1. pc[r] = "put" /\ ~Waits(r, w) /\ row' = row /\ bound' = bound /\ op' = op
  BY DEF Put
<1>2. CASE (\E x \in Ends(w) \cap Rows : row[x] = None) \/ new \cap (bound \ w.cut) # {}
  BY <1>1, <1>2, FinishKeeps DEF Put
<1>3. CASE ~((\E x \in Ends(w) \cap Rows : row[x] = None) \/ new \cap (bound \ w.cut) # {})
  <2>1. /\ staged' = [staged EXCEPT ![r] = w] /\ pc' = [pc EXCEPT ![r] = "commit"]
        /\ auth' = auth /\ seen' = seen /\ answer' = answer /\ moments' = moments
    BY <1>3 DEF Put, Stage, Goto
  <2>2. /\ staged[r] = [rows |-> staged[r].rows, cut |-> staged[r].cut, put |-> staged[r].put]
        /\ Checked(r) /\ op[r] \in Ops /\ Held(r)
    BY <1>1 DEF Inv, Own, Working
  <2>3. w = [rows |-> staged[r].rows, cut |-> staged[r].cut, put |-> new]
    BY <2>2
  <2>4. \A x \in Ends(w) \cap Rows : row[x] # None
    BY <1>3
  <2> HIDE DEF w
  <2>5. Typed' /\ Only(r) /\ pc'[r] = "commit" /\ staged'[r] = w /\ op'[r] = op[r]
    BY <1>1, <2>1 DEF Inv, Typed, Only
  <2>6. Checked(r)' /\ Known(r)' /\ op[r].name \in Bindings
    BY <1>1, <2>1, <2>2, <2>5 DEF Checked, Known, IsSuper
  <2>7. w.rows = staged[r].rows /\ w.cut = staged[r].cut /\ w.put = new
    BY <2>3
  <2>8. DOMAIN w.rows = {} /\ w.cut \subseteq Pairs /\ Of(op[r], bound) \subseteq w.cut
    BY <1>1, <2>2, <2>6, <2>7 DEF Held
  <2>9. Held(r)'
    BY <1>1, <2>4, <2>5, <2>6, <2>7, <2>8 DEF Held
  <2>10. Own(r)'
    BY <2>2, <2>3, <2>5, <2>6, <2>7, <2>9 DEF Own
  <2>11. Apart(r, staged'[r])
    BY <1>1, <2>5, NotWaiting
  <2> QED  BY <1>1, <2>5, <2>10, <2>11, Frame
<1> QED  BY <1>2, <1>3

\* The three kinds of writes, by the name of the operation.
LEMMA WritesOf ==
    ASSUME NEW o, WellFormed(o), ~Reads(o), o.name \notin Bindings
    PROVE  /\ Creates(o) \/ Deletes(o) \/ o.name \in UpdateNames
           /\ o.target \in Rows
           /\ Creates(o) => ~Deletes(o)
BY DEF WellFormed, Reads, Bindings, GraphBindings, Creates, Deletes, UpdateNames, Rows

LEMMA WriteKeeps ==
    ASSUME Inv, NEW r \in Requests, Write(r)
    PROVE  Inv'
<1> DEFINE o == op[r]
<1>1. pc[r] = "write" /\ row' = row /\ bound' = bound /\ op' = op
  BY DEF Write
<1>2. Checked(r) /\ op[r] \in Ops /\ Held(r) /\ staged[r] = NoWrite /\ ~Reads(o) /\ o.name \notin Bindings
  BY <1>1 DEF Inv, Own, Working, Checked, Held
<1>3. /\ Creates(o) \/ Deletes(o) \/ o.name \in UpdateNames
      /\ o.target \in Rows /\ (Creates(o) => ~Deletes(o))
  BY <1>1, <1>2, OpTypes, WritesOf
<1>4. ASSUME NEW w, w = [rows |-> w.rows, cut |-> {}, put |-> {}], Apart(r, w),
             \A x \in DOMAIN w.rows : x = o.target /\ Outcome(o, row[x], w.rows[x]),
             Stage(r, w), Goto(r, "commit"), UNCHANGED <<auth, seen, answer, moments>>
      PROVE  Inv'
  <2>1. Typed' /\ Only(r) /\ pc'[r] = "commit" /\ staged'[r] = w /\ op'[r] = op[r]
    BY <1>1, <1>4 DEF Inv, Typed, Only, Stage, Goto
  <2>2. Checked(r)' /\ Known(r)'
    BY <1>1, <1>2, <1>4, <2>1 DEF Checked, Known, IsSuper
  <2>3. w.cut = {} /\ w.put = {}
    BY <1>4
  <2>4. Held(r)'
    BY <1>1, <1>2, <1>4, <2>1, <2>3 DEF Held
  <2>5. Own(r)'
    BY <1>2, <1>4, <2>1, <2>2, <2>3, <2>4 DEF Own
  <2> QED  BY <1>1, <1>2, <1>4, <2>1, <2>5, Frame
<1>5. CASE Vanished(r)
  <2>1. CASE /\ Stage(r, NoWrite) /\ Goto(r, "commit")
             /\ UNCHANGED <<auth, seen, answer, moments>>
    <3>1. Apart(r, NoWrite)
      BY DEF Apart, Touched, Ends, NoWrite
    <3> QED  BY <1>4, <1>5, <2>1, <3>1 DEF Write, NoWrite
  <2>2. CASE \E a \in {"NOT_FOUND", "INTERNAL_ERROR"} : Finish(r, a)
    BY <1>1, <1>5, <2>2, FinishKeeps DEF Write
  <2> QED  BY <1>5, <2>1, <2>2 DEF Write, WriteNothing
<1>6. CASE ~Vanished(r) /\ Creates(o) /\ row[o.target] # None
  BY <1>1, <1>6, FinishKeeps DEF Write, WriteRow
<1>7. CASE ~Vanished(r) /\ ~(Creates(o) /\ row[o.target] # None)
  <2>1. ~Waits(r, Written(r)) /\ Stage(r, Written(r)) /\ Goto(r, "commit") /\ UNCHANGED <<auth, seen, answer, moments>>
    BY <1>7 DEF Write, WriteRow
  <2> DEFINE value == IF Creates(o) THEN NewRow(o) ELSE IF Deletes(o) THEN None ELSE Change(r)
  <2>2. Written(r) = [rows |-> [x \in {o.target} |-> value], cut |-> {}, put |-> {}]
    <3>1. Written(r) = [NoWrite EXCEPT !.rows = [x \in {o.target} |-> value]]
      BY <1>3 DEF Written
    <3> QED  BY <3>1, NoWriteExcept
  <2>3. Outcome(o, row[o.target], value)
    <3>1. CASE Creates(o)
      BY <1>7, <3>1 DEF Outcome
    <3>2. CASE ~Creates(o) /\ Deletes(o)
      BY <3>2 DEF Outcome
    <3>3. CASE ~Creates(o) /\ ~Deletes(o)
      <4>1. row[o.target] # None /\ o.name \in UpdateNames /\ value = Change(r)
        BY <1>3, <1>7, <3>3 DEF Vanished
      <4>2. Updated(o, row[o.target], Change(r))
        BY DEF Updated, Change, Differing
      <4> QED  BY <4>1, <4>2 DEF Outcome
    <3> QED  BY <3>1, <3>2, <3>3
  <2> HIDE DEF value
  <2>4. \A x \in DOMAIN Written(r).rows : x = o.target /\ Outcome(o, row[x], Written(r).rows[x])
    BY <2>2, <2>3
  <2>5. Apart(r, Written(r))
    BY <2>1, NotWaiting
  <2>6. Written(r) = [rows |-> Written(r).rows, cut |-> {}, put |-> {}]
    BY <2>2
  <2> QED  BY <1>4, <2>1, <2>4, <2>5, <2>6
<1> QED  BY <1>5, <1>6, <1>7

LEMMA DeadlockedKeeps ==
    ASSUME Inv, NEW r \in Requests, Deadlocked(r)
    PROVE  Inv'
BY FinishKeeps DEF Deadlocked

-----------------------------------------------------------------------------
(* The commit.                                                             *)

LEMMA NewRowTyped ==
    ASSUME NEW o, WellFormed(o), Creates(o)
    PROVE  /\ o.name = "user_create" => NewRow(o) \in UserRow /\ ~NewRow(o).super /\ NewRow(o).dept = o.change.dept
           /\ o.name = "role_create" => NewRow(o) \in RoleRow /\ NewRow(o) = o.change
<1>1. ASSUME o.name = "user_create"
      PROVE  NewRow(o) \in UserRow /\ ~NewRow(o).super /\ NewRow(o).dept = o.change.dept
  <2>1. o.change.dept \in Depts \cup {None}
    BY <1>1 DEF WellFormed
  <2>2. NewRow(o) = [dept |-> o.change.dept, active |-> TRUE, super |-> FALSE]
    BY <1>1 DEF NewRow
  <2> QED  BY <2>1, <2>2 DEF UserRow
<1>2. ASSUME o.name = "role_create"
      PROVE  NewRow(o) \in RoleRow /\ NewRow(o) = o.change
  BY <1>2 DEF WellFormed, NewRow
<1> QED  BY <1>1, <1>2

LEMMA OutcomeTyped ==
    ASSUME NEW o, WellFormed(o), ~Reads(o), o.name \notin Bindings,
           NEW rows, InTables(rows), NEW v, Outcome(o, rows[o.target], v)
    PROVE  /\ o.target \in Users => v \in UserRow \cup {None}
           /\ o.target \in Roles => v \in RoleRow \cup {None}
           /\ o.target \in Menus => v \in MenuRow \cup {None}
           /\ o.target \in Posts => v \in PostRow \cup {None}
<1>1. CASE Creates(o) /\ v = NewRow(o)
  BY <1>1, NewRowTyped, TablesDiffer DEF WellFormed, Creates
<1>2. CASE v = None
  BY <1>2
<1>3. CASE o.name \in UpdateNames /\ rows[o.target] # None /\ Updated(o, rows[o.target], v)
  <2>1. CASE o.name = "user_update"
    <3>1. o.target \in Users /\ rows[o.target] \in UserRow
      BY <1>3, <2>1 DEF WellFormed, InTables
    <3> QED  BY <1>3, <2>1, <3>1, UpdatedUser, TablesDiffer
  <2>2. CASE o.name = "role_update"
    <3>1. o.target \in Roles /\ rows[o.target] \in RoleRow
      BY <1>3, <2>2 DEF WellFormed, InTables
    <3> QED  BY <1>3, <2>2, <3>1, UpdatedRole, TablesDiffer
  <2>3. CASE o.name = "menu_update"
    <3>1. o.target \in Menus /\ rows[o.target] \in MenuRow
      BY <1>3, <2>3 DEF WellFormed, InTables
    <3> QED  BY <1>3, <2>3, <3>1, UpdatedMenu, TablesDiffer
  <2> QED  BY <1>3, <2>1, <2>2, <2>3 DEF UpdateNames
<1> QED  BY <1>1, <1>2, <1>3 DEF Outcome

\* The pairs of a replacement all belong to the table it locks.
LEMMA TableOfBinding ==
    ASSUME NEW o, WellFormed(o), o.name \in Bindings
    PROVE  /\ {o.target} \X o.ids \subseteq Table(o)
           /\ Table(o) \subseteq Pairs
           /\ o.target \in Rows
<1>1. CASE o.name = "bind_roles"
  BY <1>1 DEF WellFormed, Table, Pairs, Rows
<1>2. CASE o.name = "bind_posts"
  BY <1>2 DEF WellFormed, Table, Pairs, Rows
<1>3. CASE o.name = "bind_menus"
  BY <1>3 DEF WellFormed, Table, Pairs, Rows
<1>4. CASE o.name = "bind_depts"
  BY <1>4 DEF WellFormed, Table, Pairs, Rows
<1> QED  BY <1>1, <1>2, <1>3, <1>4 DEF Bindings, GraphBindings

LEMMA TablesApart ==
    ASSUME NEW o, NEW p, o.name \in Bindings, p.name \in Bindings, o.name # p.name
    PROVE  Table(o) \cap Table(p) = {}
BY TablesDiffer DEF Bindings, GraphBindings, Table

\* What a commit is about to make of the tables.
LEMMA CommitEffect ==
    ASSUME Inv, NEW r \in Requests, Commit(r)
    PROVE  /\ row' = [x \in Rows |-> IF x \in Touched(staged[r]) THEN staged[r].rows[x] ELSE row[x]]
           /\ bound' = {p \in (bound \ staged[r].cut) \cup staged[r].put :
                           p[1] \notin Gone(staged[r]) /\ p[2] \notin Gone(staged[r])}
           /\ op' = op
           /\ pc' = [pc EXCEPT ![r] = "done"] /\ auth' = [auth EXCEPT ![r] = NoAuthority]
           /\ seen' = [seen EXCEPT ![r] = None] /\ staged' = [staged EXCEPT ![r] = NoWrite]
           /\ pc[r] = "commit" /\ op[r] \in Ops /\ WellFormed(op[r]) /\ ~Reads(op[r])
           /\ Checked(r) /\ Held(r)
<1>1. pc[r] = "commit"
  BY DEF Commit
<1>2. op[r] \in Ops /\ WellFormed(op[r]) /\ Checked(r) /\ Held(r) /\ ~Reads(op[r])
  BY <1>1, OpTypes DEF Inv, Own, Working, Checked
<1> QED  BY <1>1, <1>2 DEF Commit, RowsAfter, BoundAfter, Goto

LEMMA CommitRows ==
    ASSUME Inv, NEW r \in Requests, Commit(r)
    PROVE  /\ \A x \in Rows : row'[x] = row[x] \/ (/\ op[r].name \notin Bindings /\ x = op[r].target
                                                   /\ Touched(staged[r]) = {x} /\ row'[x] = staged[r].rows[x]
                                                   /\ Outcome(op[r], row[x], row'[x]))
           /\ DOMAIN row' = Rows
           /\ \A x \in Rows : x \notin Touched(staged[r]) => row'[x] = row[x]
           /\ \A x \in Rows : x \in Touched(staged[r]) => row'[x] = staged[r].rows[x]
<1>1. op[r].name \in Bindings => Touched(staged[r]) = {}
  BY CommitEffect DEF Held, Touched
<1>2. op[r].name \notin Bindings =>
         \A x \in Touched(staged[r]) : x = op[r].target /\ Outcome(op[r], row[x], staged[r].rows[x])
  BY CommitEffect DEF Held, Touched
<1> QED  BY <1>1, <1>2, CommitEffect

LEMMA CommitTables ==
    ASSUME Inv, NEW r \in Requests, Commit(r)
    PROVE  InTables(row') /\ bound' \subseteq Pairs /\ BothEnds(row', bound')
<1> DEFINE o == op[r]
<1>1. InTables(row)
  BY DEF Inv, Tables
<1>2. ASSUME NEW x \in Rows
      PROVE  /\ x \in Users => row'[x] \in UserRow \cup {None}
             /\ x \in Roles => row'[x] \in RoleRow \cup {None}
             /\ x \in Menus => row'[x] \in MenuRow \cup {None}
             /\ x \in Posts => row'[x] \in PostRow \cup {None}
  <2>1. CASE row'[x] = row[x]
    BY <1>1, <2>1 DEF InTables
  <2>2. CASE row'[x] # row[x]
    <3>1. o.name \notin Bindings /\ x = o.target /\ Outcome(o, row[o.target], row'[x])
      BY <2>2, CommitRows
    <3>2. WellFormed(o) /\ ~Reads(o)
      BY CommitEffect
    <3>3. PICK v : v = row'[x]
      OBVIOUS
    <3>4. Outcome(o, row[o.target], v)
      BY <3>1, <3>3
    <3> QED  BY <1>1, <3>1, <3>2, <3>3, <3>4, OutcomeTyped
  <2> QED  BY <2>1, <2>2
<1>3. InTables(row')
  <2>1. \A x \in Rows : row'[x] \in RowTypes
    BY <1>2 DEF Rows, RowTypes
  <2>2. row' \in [Rows -> RowTypes]
    BY <2>1, CommitEffect
  <2> QED  BY <1>2, <2>2 DEF InTables, Rows
<1>4. /\ bound' \subseteq Pairs
      /\ \A p \in bound' : p \in bound \/ (o.name \in Bindings /\ p \in {o.target} \X o.ids)
  <2>1. staged[r].put = {} \/ (o.name \in Bindings /\ staged[r].put = {o.target} \X o.ids)
    BY CommitEffect DEF Held
  <2>2. bound \subseteq Pairs
    BY DEF Inv, Tables
  <2>3. o.name \in Bindings => {o.target} \X o.ids \subseteq Pairs
    BY CommitEffect, TableOfBinding
  <2> QED  BY <2>1, <2>2, <2>3, CommitEffect
<1>5. ASSUME NEW p \in bound', NEW x \in {p[1], p[2]} \cap Rows, row'[x] = None
      PROVE  FALSE
  <2>1. x \notin Touched(staged[r])
    BY <1>5, CommitEffect, CommitRows DEF Gone
  <2>2. row[x] = None
    BY <1>5, <2>1, CommitRows
  <2>3. p \notin bound
    BY <2>2 DEF Inv, Tables, BothEnds
  <2>4. o.name \in Bindings /\ p \in staged[r].put
    BY <1>4, <2>3, CommitEffect
  <2>5. x \in Ends(staged[r]) \cap Rows
    BY <2>4 DEF Ends
  <2> QED  BY <2>2, <2>4, <2>5, CommitEffect DEF Held
<1>6. BothEnds(row', bound')
  BY <1>5 DEF BothEnds
<1> QED  BY <1>3, <1>4, <1>6

\* A commit neither gives nor takes the super flag, and keeps its holder active.
LEMMA CommitKeepsSuper ==
    ASSUME Inv, NEW r \in Requests, Commit(r), NEW u \in Users
    PROVE  /\ (row'[u] # None /\ row'[u].super) = IsSuper(u)
           /\ IsSuper(u) /\ row[u].active => row'[u].active
<1> DEFINE o == op[r]
<1>1. CASE row'[u] = row[u]
  BY <1>1 DEF IsSuper
<1>2. CASE row'[u] # row[u]
  <2>1. u \in Rows /\ WellFormed(o) /\ Checked(r)
    BY CommitEffect DEF Rows
  <2>2. o.name \notin Bindings /\ u = o.target /\ Outcome(o, row[u], row'[u])
    BY <1>2, <2>1, CommitRows
  <2>3. EndsUser(o) => ~IsSuper(u)
    BY <2>1, <2>2 DEF Checked
  <2>4. row[u] \in UserRow \cup {None}
    BY DEF Inv, Tables, InTables
  <2>5. CASE Creates(o) /\ row[u] = None /\ row'[u] = NewRow(o)
    <3>1. o.name = "user_create"
      BY <2>1, <2>2, <2>5, TablesDiffer DEF Creates, WellFormed
    <3>2. ~row'[u].super
      BY <2>1, <2>5, <3>1, NewRowTyped
    <3> QED  BY <2>5, <3>2 DEF IsSuper
  <2>6. CASE Deletes(o) /\ row'[u] = None
    <3>1. o.name = "user_delete"
      BY <2>1, <2>2, <2>6, TablesDiffer DEF Deletes, WellFormed
    <3> QED  BY <2>3, <2>6, <3>1 DEF IsSuper, EndsUser
  <2>7. CASE o.name \in UpdateNames /\ row[u] # None /\ Updated(o, row[u], row'[u])
    <3>1. o.name = "user_update"
      BY <2>1, <2>2, <2>7, TablesDiffer DEF UpdateNames, WellFormed
    <3>2. PICK v : v = row'[u]
      OBVIOUS
    <3>3. row[u] \in UserRow /\ Updated(o, row[u], v)
      BY <2>4, <2>7, <3>2
    <3>4. /\ v \in UserRow /\ v.super = row[u].super
          /\ v.active = row[u].active \/ ("active" \in DOMAIN o.change /\ v.active = o.change.active)
      BY <2>1, <3>1, <3>3, UpdatedUser
    <3>5. v # None
      BY <3>4, TablesDiffer
    <3> QED  BY <2>3, <2>7, <3>1, <3>2, <3>4, <3>5 DEF IsSuper, EndsUser
  <2> QED  BY <2>2, <2>5, <2>6, <2>7 DEF Outcome
<1> QED  BY <1>1, <1>2

LEMMA CommitKeeps ==
    ASSUME Inv, NEW r \in Requests, Commit(r)
    PROVE  Inv'
<1>1. Typed'
  BY CommitEffect DEF Inv, Typed, Commit
<1>2. \A u \in Users : (row'[u] # None /\ row'[u].super) = IsSuper(u)
  BY CommitKeepsSuper
<1>3. Tables'
  <2>1. PICK s \in Users : /\ IsSuper(s) /\ row[s].active
                           /\ \A u \in Users \ {s} : row[u] # None => ~row[u].super
    BY DEF Inv, Tables, OneSuper, IsSuper
  <2>2. row'[s] # None /\ row'[s].super /\ row'[s].active
    BY <2>1, CommitKeepsSuper
  <2>3. \A u \in Users \ {s} : row'[u] # None => ~row'[u].super
    BY <1>2, <2>1 DEF IsSuper
  <2>4. OneSuper(row')
    BY <2>2, <2>3 DEF OneSuper
  <2> QED  BY <2>4, CommitTables DEF Tables
<1>4. Own(r)'
  <2>1. pc'[r] = "done" /\ staged'[r] = NoWrite
    BY CommitEffect DEF Inv, Typed
  <2> QED  BY <2>1 DEF Own, Known, Held, NoWrite, Working
<1>5. ASSUME NEW q \in Requests \ {r}
      PROVE  Own(q)'
  <2>1. /\ op'[q] = op[q] /\ pc'[q] = pc[q] /\ auth'[q] = auth[q] /\ seen'[q] = seen[q] /\ staged'[q] = staged[q]
        /\ Own(q)
    BY CommitEffect DEF Inv, Typed
  <2>2. pc[q] \notin {"idle", "done"} => op[q] \in Ops /\ WellFormed(op[q]) /\ op[q].by \in Users
    BY OpTypes
  <2>3. Known(q)'
    BY <1>2, <2>1, <2>2 DEF Own, Known, IsSuper
  <2>4. pc[q] \in Working => Checked(q)'
    <3> SUFFICES ASSUME pc[q] \in Working PROVE Checked(q)'
      OBVIOUS
    <3>1. WellFormed(op[q]) /\ Checked(q)
      BY <2>1, <2>2 DEF Own, Working
    <3>2. EndsUser(op[q]) => op[q].target \in Users
      BY <3>1 DEF EndsUser, WellFormed
    <3> QED  BY <1>2, <2>1, <3>1, <3>2 DEF Checked, IsSuper
  <2>5. Held(q)'
    <3>1. Held(q)
      BY <2>1 DEF Own
    <3>2. ASSUME pc[q] \in {"put", "commit"}, op[q].name \in Bindings
          PROVE  Of(op[q], bound') \subseteq staged[q].cut
      <4> SUFFICES ASSUME NEW p \in Of(op[q], bound') PROVE p \in staged[q].cut
        OBVIOUS
      <4>1. p \in bound' /\ p[1] = op[q].target /\ p \in Table(op[q])
        BY DEF Of
      <4>2. CASE p \in bound
        BY <3>1, <3>2, <4>1, <4>2 DEF Held, Of
      <4>3. CASE p \notin bound
        <5>1. p \in staged[r].put
          BY <4>1, <4>3, CommitEffect
        <5>2. op[r].name \in Bindings /\ p \in {op[r].target} \X op[r].ids
          BY <5>1, CommitEffect DEF Held
        <5>3. p \in Table(op[r])
          BY <5>2, CommitEffect, TableOfBinding
        <5>4. op[q].name # op[r].name
          BY <3>2, <5>2, CommitEffect DEF Inv, BindingsApart
        <5> QED  BY <3>2, <4>1, <5>2, <5>3, <5>4, TablesApart
      <4> QED  BY <4>2, <4>3
    <3>3. ASSUME NEW x \in Rows, x \in Touched(staged[q]) \cup Ends(staged[q])
          PROVE  row'[x] = row[x]
      <4>1. x \notin Touched(staged[r])
        BY <3>3 DEF Inv, RowsApart
      <4> QED  BY <4>1, CommitRows
    <3>4. ASSUME pc[q] = "commit", op[q].name \notin Bindings, NEW x \in DOMAIN staged[q].rows
          PROVE  x \in Rows
      <4>1. x = op[q].target /\ ~Reads(op[q])
        BY <2>1, <3>1, <3>4 DEF Held, Own, Checked, Working
      <4> QED  BY <2>2, <3>4, <4>1, WritesOf
    <3> QED  BY <2>1, <3>1, <3>2, <3>3, <3>4 DEF Held, Touched
  <2> QED  BY <2>1, <2>2, <2>3, <2>4, <2>5 DEF Own
<1>6. RowsApart'
  <2>1. \A q \in Requests : staged'[q] = staged[q] \/ (Touched(staged'[q]) = {} /\ Ends(staged'[q]) = {})
    BY CommitEffect DEF Inv, Typed, NoWrite, Touched, Ends
  <2> QED  BY <2>1 DEF Inv, RowsApart
<1>7. BindingsApart'
  BY CommitEffect DEF Inv, Typed, BindingsApart
<1> QED  BY <1>1, <1>3, <1>4, <1>5, <1>6, <1>7 DEF Inv

-----------------------------------------------------------------------------

LEMMA InitGives == Init => Inv
<1> SUFFICES ASSUME Init PROVE Inv
  OBVIOUS
<1>1. Typed /\ RowsApart /\ BindingsApart
  BY DEF Init, Typed, RowsApart, BindingsApart, NoWrite, Touched, Ends
<1>2. Tables
  BY DatabasesAssumption DEF Init, Tables
<1>3. \A r \in Requests : Own(r)
  BY DEF Init, Own, Known, Held, Working, NoWrite
<1> QED  BY <1>1, <1>2, <1>3 DEF Inv

LEMMA NextKeeps == Inv /\ [Next]_vars => Inv'
<1> SUFFICES ASSUME Inv, [Next]_vars PROVE Inv'
  OBVIOUS
<1>1. ASSUME NEW r \in Requests, RejectToken(r) PROVE Inv'
  BY <1>1, FinishKeeps DEF RejectToken
<1>2. ASSUME NEW r \in Requests, Receive(r) PROVE Inv'
  BY <1>2, ReceiveKeeps
     DEF Receive, ListUsers, GetUser, CreateUser, UpdateUser, DeleteUser, CreateRole, UpdateRole, DeleteRole,
         UpdateMenu, DeletePost, BindUserRoles, BindUserPosts, BindRoleMenus, BindRoleDepts, GetRoleDepts
<1>3. ASSUME UNCHANGED vars PROVE Inv'
  <2>1. Typed' /\ Tables' /\ RowsApart' /\ BindingsApart'
    BY <1>3 DEF vars, Inv, Typed, Tables, RowsApart, BindingsApart
  <2>2. \A r \in Requests : Own(r)'
    BY <1>3 DEF vars, Inv, Own, Known, Checked, Held, IsSuper
  <2> QED  BY <2>1, <2>2 DEF Inv
<1> QED  BY <1>1, <1>2, <1>3, LoadKeeps, CheckKeeps, CutKeeps, PutKeeps, WriteKeeps, DeadlockedKeeps, CommitKeeps
         DEF Next

\* Rows and pairs keep their types and the foreign keys hold, there is one super
\* admin and it is active, and what a request staged is what it may write.
THEOREM AccessInvariance == Spec => []Inv
<1> QED  BY InitGives, NextKeeps, PTL DEF Spec

\* There is always a super admin who can log in: it is neither deleted nor
\* switched off (user/service.py:111), and nobody else gets the flag.
THEOREM ManagementStays == Spec => []ManagementIsKept
<1>1. Inv => ManagementIsKept
  BY DEF Inv, Tables, OneSuper, ManagementIsKept
<1> QED  BY <1>1, AccessInvariance, PTL

LEMMA OnlyCommitCommits ==
    ASSUME Inv, Next, NEW r \in Requests, Committed(r)
    PROVE  Commit(r)
<1>1. PICK q \in Requests :
         \/ RejectToken(q) \/ Receive(q) \/ LoadAccount(q) \/ LoadPerms(q) \/ LoadRoles(q) \/ LoadDepts(q) \/ Check(q)
         \/ Cut(q) \/ Put(q) \/ Write(q) \/ Deadlocked(q) \/ Commit(q)
  BY DEF Next
<1>2. pc[r] = "commit" /\ pc'[r] = "done" /\ DOMAIN pc = Requests
  BY DEF Committed, Inv, Typed
<1>3. CASE Commit(q)
  <2>1. q = r
    BY <1>2, <1>3 DEF Commit, Goto
  <2> QED  BY <1>3, <2>1
<1>4. ASSUME pc[q] # "commit", pc' = [pc EXCEPT ![q] = pc'[q]] PROVE FALSE
  BY <1>2, <1>4
<1>5. CASE RejectToken(q) \/ LoadAccount(q) \/ LoadPerms(q) \/ LoadRoles(q) \/ LoadDepts(q) \/ Check(q)
           \/ Cut(q) \/ Put(q) \/ Write(q) \/ Deadlocked(q)
  BY <1>2, <1>4, <1>5
     DEF RejectToken, LoadAccount, LoadPerms, LoadRoles, LoadDepts, Check, Cut, Put, Write, WriteNothing, WriteRow,
         Deadlocked, Finish, Goto
<1>6. CASE Receive(q)
  BY <1>2, <1>4, <1>6
     DEF Receive, Asks, Goto, ListUsers, GetUser, CreateUser, UpdateUser, DeleteUser, CreateRole, UpdateRole,
         DeleteRole, UpdateMenu, DeletePost, BindUserRoles, BindUserPosts, BindRoleMenus, BindRoleDepts, GetRoleDepts
<1> QED  BY <1>1, <1>3, <1>5, <1>6

\* After the commit of a replacement its subject is bound to the ids of the request.
LEMMA CommitBindsAsAsked ==
    ASSUME Inv, NEW r \in Requests, Commit(r), op[r].name \in Bindings
    PROVE  Of(op[r], bound') = {op[r].target} \X op[r].ids
<1>1. /\ DOMAIN staged[r].rows = {} /\ Of(op[r], bound) \subseteq staged[r].cut
      /\ staged[r].put = {op[r].target} \X op[r].ids
  BY CommitEffect DEF Held
<1>2. bound' = (bound \ staged[r].cut) \cup staged[r].put
  BY <1>1, CommitEffect DEF Gone, Touched
<1>3. {op[r].target} \X op[r].ids \subseteq Table(op[r])
  BY CommitEffect, TableOfBinding
<1> QED  BY <1>1, <1>2, <1>3 DEF Of

\* Bindings are replaced whole (role/repository.py:145) and die with their user,
\* role, menu or post (rbac_binding/service.py:76), whatever runs in between.
THEOREM BindingsStayWhole == Spec => BindingsAreWhole
<1>1. Inv => BindingsHaveBothEnds
  BY DEF Inv, Tables, BindingsHaveBothEnds
<1>2. Inv /\ [Next]_vars =>
         [\A r \in Requests :
             Committed(r) /\ op[r].name \in Bindings => Of(op[r], bound') = {op[r].target} \X op[r].ids]_vars
  <2> SUFFICES ASSUME Inv, Next, NEW r \in Requests, Committed(r), op[r].name \in Bindings
               PROVE  Of(op[r], bound') = {op[r].target} \X op[r].ids
    OBVIOUS
  <2>1. Commit(r)
    BY OnlyCommitCommits
  <2> QED  BY <2>1, CommitBindsAsAsked
<1> QED  BY <1>1, <1>2, AccessInvariance, PTL DEF BindingsAreWhole, BindingIsOneRequest, Spec

-----------------------------------------------------------------------------
(* What a user may do, by the tables.                                      *)

LEMMA AuthorityFields ==
    ASSUME NEW u, NEW rows, NEW pairs
    PROVE  /\ rows[u] = None => Authority(u, rows, pairs) = NoAuthority
           /\ rows[u] # None /\ rows[u].super => Authority(u, rows, pairs) = SuperAuthority
           /\ rows[u] # None /\ ~rows[u].super /\ WithScope(rows, Holds(u, rows, pairs), "all") =>
                 Authority(u, rows, pairs) =
                    [super |-> FALSE, perms |-> PermsOf(u, rows, pairs), all |-> TRUE, depts |-> {},
                     self |-> FALSE, custom |-> {}]
           /\ rows[u] # None /\ ~rows[u].super /\ ~WithScope(rows, Holds(u, rows, pairs), "all") =>
                 Authority(u, rows, pairs) =
                    [super |-> FALSE, perms |-> PermsOf(u, rows, pairs), all |-> FALSE,
                     depts |-> OwnDepts(rows, Holds(u, rows, pairs), rows[u].dept)
                                  \cup CustomDepts(CustomRoles(rows, Holds(u, rows, pairs)), pairs),
                     self |-> WithScope(rows, Holds(u, rows, pairs), "self"), custom |-> {}]
BY DEF Authority, NoAuthority

LEMMA Fixed ==
    /\ NoAuthority.super = FALSE /\ NoAuthority.perms = {} /\ NoAuthority.all = FALSE
    /\ NoAuthority.depts = {} /\ NoAuthority.self = FALSE /\ NoAuthority.custom = {}
    /\ SuperAuthority.super = TRUE /\ SuperAuthority.perms = {} /\ SuperAuthority.all = TRUE
    /\ SuperAuthority.depts = {} /\ SuperAuthority.self = FALSE /\ SuperAuthority.custom = {}
BY DEF NoAuthority, SuperAuthority

\* Who holds fewer roles, each as it was, may do no more, save see the departments
\* below the one it was moved to.
LEMMA FewerRolesGiveNoMore ==
    ASSUME NEW u \in Users, NEW rows, NEW pairs, NEW later, NEW left, NEW near,
           \A x \in Holds(u, later, left) :
              /\ x \in Holds(u, rows, pairs) /\ later[x] = rows[x]
              /\ \A y \in Depts \cup Menus : <<x, y>> \in left => <<x, y>> \in pairs,
           \A m \in Menus : later[m] = rows[m],
           \/ later[u] = None
           \/ later[u] # None /\ ~later[u].super /\ Holds(u, later, left) = {}
           \/ /\ later[u] # None /\ rows[u] # None /\ later[u].super = rows[u].super
              /\ \/ later[u].dept = rows[u].dept
                 \/ later[u].dept = None
                 \/ {later[u].dept} \cup Below[later[u].dept] \subseteq near
    PROVE  /\ Authority(u, later, left).perms \subseteq Authority(u, rows, pairs).perms
           /\ Authority(u, later, left).all => Authority(u, rows, pairs).all
           /\ \/ Authority(u, rows, pairs).all
              \/ Authority(u, later, left).depts \subseteq Authority(u, rows, pairs).depts \cup near
<1> DEFINE H == Holds(u, rows, pairs)
           K == Holds(u, later, left)
<1>1. CASE later[u] = None
  BY <1>1, AuthorityFields, Fixed
<1>2. CASE later[u] # None /\ ~later[u].super /\ K = {}
  <2>1. PermsOf(u, later, left) = {}
    BY <1>2 DEF PermsOf
  <2>2. \A s : ~WithScope(later, K, s)
    BY <1>2 DEF WithScope
  <2>3. OwnDepts(later, K, later[u].dept) = {} /\ CustomDepts(CustomRoles(later, K), left) = {}
    BY <1>2, <2>2 DEF OwnDepts, CustomDepts, CustomRoles
  <2>4. Authority(u, later, left).perms = {} /\ ~Authority(u, later, left).all /\ Authority(u, later, left).depts = {}
    BY <1>2, <2>1, <2>2, <2>3, AuthorityFields
  <2> QED  BY <2>4
<1>3. CASE /\ later[u] # None /\ rows[u] # None /\ later[u].super = rows[u].super
           /\ \/ later[u].dept = rows[u].dept
              \/ later[u].dept = None
              \/ {later[u].dept} \cup Below[later[u].dept] \subseteq near
  <2>1. CASE later[u].super
    <3>1. Authority(u, later, left) = SuperAuthority
      BY <1>3, <2>1, AuthorityFields
    <3>2. Authority(u, rows, pairs) = SuperAuthority
      BY <1>3, <2>1, AuthorityFields
    <3> QED  BY <3>1, <3>2, Fixed
  <2>2. CASE ~later[u].super
    <3>1. PermsOf(u, later, left) \subseteq PermsOf(u, rows, pairs)
      BY DEF PermsOf
    <3>2. \A s : WithScope(later, K, s) => WithScope(rows, H, s)
      BY DEF WithScope
    <3>3. OwnDepts(later, K, later[u].dept) \subseteq OwnDepts(rows, H, rows[u].dept) \cup near
      BY <1>3, <3>2 DEF OwnDepts
    <3>4. CustomDepts(CustomRoles(later, K), left) \subseteq CustomDepts(CustomRoles(rows, H), pairs)
      BY DEF CustomDepts, CustomRoles
    <3>5. /\ Authority(u, later, left).perms = PermsOf(u, later, left)
          /\ Authority(u, rows, pairs).perms = PermsOf(u, rows, pairs)
          /\ Authority(u, later, left).all <=> WithScope(later, K, "all")
          /\ Authority(u, rows, pairs).all <=> WithScope(rows, H, "all")
      <4>1. /\ Authority(u, later, left).perms = PermsOf(u, later, left)
            /\ Authority(u, later, left).all <=> WithScope(later, K, "all")
        BY <1>3, <2>2, AuthorityFields
      <4>2. /\ Authority(u, rows, pairs).perms = PermsOf(u, rows, pairs)
            /\ Authority(u, rows, pairs).all <=> WithScope(rows, H, "all")
        BY <1>3, <2>2, AuthorityFields
      <4> QED  BY <4>1, <4>2
    <3>6. CASE WithScope(later, K, "all")
      BY <3>1, <3>2, <3>5, <3>6
    <3>7. CASE WithScope(rows, H, "all")
      BY <3>1, <3>2, <3>5, <3>7
    <3>8. CASE ~WithScope(later, K, "all") /\ ~WithScope(rows, H, "all")
      <4>1. /\ Authority(u, later, left).depts = OwnDepts(later, K, later[u].dept)
                                                   \cup CustomDepts(CustomRoles(later, K), left)
            /\ Authority(u, rows, pairs).depts = OwnDepts(rows, H, rows[u].dept)
                                                   \cup CustomDepts(CustomRoles(rows, H), pairs)
        BY <1>3, <2>2, <3>8, AuthorityFields
      <4> QED  BY <3>1, <3>3, <3>4, <3>5, <3>8, <4>1
    <3> QED  BY <3>6, <3>7, <3>8
  <2> QED  BY <2>1, <2>2
<1> QED  BY <1>1, <1>2, <1>3

-----------------------------------------------------------------------------
(* What a request without the super admin's authority changes.             *)

\* The pairs it leaves were there before, save those of users with posts.
LEMMA PlainPairs ==
    ASSUME Inv, NEW r \in Requests, Commit(r), ~auth[r].super, NEW p \in bound'
    PROVE  p \in bound \/ p \in Users \X Posts
<1>1. op[r].name \in Bindings => op[r].name = "bind_posts"
  BY CommitEffect DEF Checked, TouchesGraph, Bindings
<1>2. CASE op[r].name \in Bindings
  <2>1. {op[r].target} \X op[r].ids \subseteq Users \X Posts
    BY <1>1, <1>2, CommitEffect DEF WellFormed
  <2> QED  BY <1>2, <2>1, CommitEffect DEF Held
<1>3. CASE op[r].name \notin Bindings
  BY <1>3, CommitEffect DEF Held
<1> QED  BY <1>2, <1>3

LEMMA UnchangedByNothing ==
    ASSUME NEW o, o.change = <<>>, NEW old, NEW v, old = [f \in DOMAIN old |-> old[f]], Updated(o, old, v)
    PROVE  v = old
BY DEF Updated

\* Who is not the super admin changes no menu.
LEMMA PlainMenus ==
    ASSUME Inv, NEW r \in Requests, Commit(r), ~auth[r].super, NEW m \in Menus
    PROVE  row'[m] = row[m]
<1> DEFINE o == op[r]
<1> SUFFICES ASSUME row'[m] # row[m] PROVE FALSE
  OBVIOUS
<1>1. m \in Rows /\ WellFormed(o) /\ ~Reads(o) /\ ~TouchesGraph(o)
  BY CommitEffect DEF Rows, Checked
<1>2. o.name \notin Bindings /\ m = o.target /\ Outcome(o, row[m], row'[m])
  BY <1>1, CommitRows
<1>3. o.name = "menu_update"
  BY <1>1, <1>2, TablesDiffer DEF WellFormed, Reads, Bindings, GraphBindings
<1>4. o.change = <<>> /\ row[m] # None /\ Updated(o, row[m], row'[m])
  BY <1>1, <1>2, <1>3 DEF TouchesGraph, MenuRoots, Outcome, Creates, Deletes
<1>5. row[m] \in MenuRow
  BY <1>4 DEF Inv, Tables, InTables
<1>6. PICK old, v : old = row[m] /\ v = row'[m]
  OBVIOUS
<1>7. old = [f \in DOMAIN old |-> old[f]]
  BY <1>5, <1>6 DEF MenuRow
<1> QED  BY <1>4, <1>6, <1>7, UnchangedByNothing

\* Who is not the super admin changes no role that is there.
LEMMA PlainRoles ==
    ASSUME Inv, NEW r \in Requests, Commit(r), ~auth[r].super, NEW x \in Roles
    PROVE  row'[x] = row[x] \/ row'[x] = None \/ row[x] = None
<1> DEFINE o == op[r]
<1> SUFFICES ASSUME row'[x] # row[x], row'[x] # None, row[x] # None PROVE FALSE
  OBVIOUS
<1>1. x \in Rows /\ WellFormed(o) /\ ~Reads(o) /\ ~TouchesGraph(o)
  BY CommitEffect DEF Rows, Checked
<1>2. o.name \notin Bindings /\ x = o.target /\ Outcome(o, row[x], row'[x])
  BY <1>1, CommitRows
<1>3. o.name \in UpdateNames /\ Updated(o, row[x], row'[x])
  BY <1>2 DEF Outcome
<1>4. o.name = "role_update"
  BY <1>1, <1>2, <1>3, TablesDiffer DEF WellFormed, UpdateNames
<1>5. o.change = <<>>
  BY <1>1, <1>4 DEF TouchesGraph, RoleRoots
<1>6. row[x] \in RoleRow
  BY DEF Inv, Tables, InTables
<1>7. PICK old, v : old = row[x] /\ v = row'[x]
  OBVIOUS
<1>8. old = [f \in DOMAIN old |-> old[f]]
  BY <1>6, <1>7 DEF RoleRow
<1> QED  BY <1>3, <1>5, <1>7, <1>8, UnchangedByNothing

\* The departments at or below one that the authority sees.
Near(a) == IF a.all THEN Depts ELSE UNION {Below[d] : d \in a.depts}

\* A department that an authority sees is at or below one of those it was given.
LEMMA SeenIsNear ==
    ASSUME NEW a, NEW d \in Depts, SeesDept(a, d)
    PROVE  {d} \cup Below[d] \subseteq Near(a)
<1>1. d \in Below[d] /\ Below[d] \subseteq Depts
  BY AccessAssumption
<1> QED  BY <1>1 DEF Near, SeesDept

\* Who is not the super admin moves users only to departments it sees.
LEMMA PlainUsers ==
    ASSUME Inv, NEW r \in Requests, Commit(r), ~auth[r].super, NEW u \in Users
    PROVE  \/ row'[u] = None
           \/ row[u] = None /\ row'[u] # None /\ ~row'[u].super
           \/ /\ row'[u] # None /\ row[u] # None /\ row'[u].super = row[u].super
              /\ \/ row'[u].dept = row[u].dept
                 \/ row'[u].dept = None
                 \/ {row'[u].dept} \cup Below[row'[u].dept] \subseteq Near(auth[r])
<1> DEFINE o == op[r]
<1>1. u \in Rows /\ WellFormed(o) /\ ~Reads(o) /\ Checked(r)
  BY CommitEffect DEF Rows
<1> SUFFICES ASSUME row'[u] # row[u], row'[u] # None
             PROVE  \/ row[u] = None /\ ~row'[u].super
                    \/ /\ row[u] # None /\ row'[u].super = row[u].super
                       /\ \/ row'[u].dept = row[u].dept
                          \/ row'[u].dept = None
                          \/ {row'[u].dept} \cup Below[row'[u].dept] \subseteq Near(auth[r])
  OBVIOUS
<1>2. o.name \notin Bindings /\ u = o.target /\ Outcome(o, row[u], row'[u])
  BY <1>1, CommitRows
<1>3. CASE Creates(o) /\ row[u] = None /\ row'[u] = NewRow(o)
  <2>1. o.name = "user_create"
    BY <1>1, <1>2, <1>3, TablesDiffer DEF Creates, WellFormed
  <2> QED  BY <1>1, <1>3, <2>1, NewRowTyped
<1>4. CASE o.name \in UpdateNames /\ row[u] # None /\ Updated(o, row[u], row'[u])
  <2>1. o.name = "user_update"
    BY <1>1, <1>2, <1>4, TablesDiffer DEF UpdateNames, WellFormed
  <2>2. row[u] \in UserRow
    BY <1>4 DEF Inv, Tables, InTables
  <2>3. PICK v : v = row'[u]
    OBVIOUS
  <2>4. /\ v \in UserRow /\ v.super = row[u].super
        /\ v.dept = row[u].dept \/ ("dept" \in DOMAIN o.change /\ v.dept = o.change.dept)
    BY <1>1, <1>4, <2>1, <2>2, <2>3, UpdatedUser
  <2>5. v.dept \in Depts \cup {None}
    BY <2>4, UserFields
  <2>6. CASE v.dept = row[u].dept
    BY <1>4, <2>3, <2>4, <2>6
  <2>7. CASE "dept" \in DOMAIN o.change /\ v.dept = o.change.dept
    <3>1. SeesDept(auth[r], v.dept)
      BY <1>1, <2>1, <2>7 DEF Checked
    <3>2. v.dept = None \/ {v.dept} \cup Below[v.dept] \subseteq Near(auth[r])
      BY <2>5, <3>1, SeenIsNear
    <3> QED  BY <1>4, <2>3, <2>4, <3>2
  <2> QED  BY <2>4, <2>6, <2>7
<1> QED  BY <1>2, <1>3, <1>4 DEF Outcome

\* After a commit of who is not the super admin, users hold no role they did not hold before.
LEMMA PlainHolds ==
    ASSUME Inv, NEW r \in Requests, Commit(r), ~auth[r].super, NEW u \in Users,
           NEW x \in Holds(u, row', bound')
    PROVE  /\ x \in Holds(u, row, bound) /\ row'[x] = row[x] /\ row[u] # None
           /\ \A y \in Depts \cup Menus : <<x, y>> \in bound' => <<x, y>> \in bound
<1>1. x \in Roles /\ <<u, x>> \in bound' /\ row'[x] # None /\ row'[x].active
  BY DEF Holds
<1>2. <<u, x>> \in bound
  BY <1>1, PlainPairs, TablesDiffer
<1>3. row[x] # None /\ row[u] # None
  BY <1>1, <1>2 DEF Inv, Tables, BothEnds, Rows
<1>4. row'[x] = row[x]
  BY <1>1, <1>3, PlainRoles
<1>5. \A y \in Depts \cup Menus : <<x, y>> \in bound' => <<x, y>> \in bound
  BY <1>1, PlainPairs, TablesDiffer
<1> QED  BY <1>1, <1>2, <1>3, <1>4, <1>5 DEF Holds

LEMMA CommitGivesNothing ==
    ASSUME Inv, NEW r \in Requests, Commit(r), ~auth[r].super, NEW u \in Users
    PROVE  /\ Authority(u, row', bound').perms \subseteq Authority(u, row, bound).perms
           /\ Authority(u, row', bound').all => Authority(u, row, bound).all
           /\ \/ Authority(u, row, bound).all
              \/ Authority(u, row', bound').depts \subseteq Authority(u, row, bound).depts \cup Near(auth[r])
<1>1. PICK later, left : later = row' /\ left = bound'
  OBVIOUS
<1>2. \A x \in Holds(u, later, left) :
         /\ x \in Holds(u, row, bound) /\ later[x] = row[x]
         /\ \A y \in Depts \cup Menus : <<x, y>> \in left => <<x, y>> \in bound
  BY <1>1, PlainHolds
<1>3. \A m \in Menus : later[m] = row[m]
  BY <1>1, PlainMenus
<1>4. row[u] = None => Holds(u, later, left) = {}
  <2>1. \A x \in Holds(u, row', bound') : row[u] # None
    BY PlainHolds
  <2> QED  BY <1>1, <2>1
<1>5. \/ later[u] = None
      \/ later[u] # None /\ ~later[u].super /\ Holds(u, later, left) = {}
      \/ /\ later[u] # None /\ row[u] # None /\ later[u].super = row[u].super
         /\ \/ later[u].dept = row[u].dept
            \/ later[u].dept = None
            \/ {later[u].dept} \cup Below[later[u].dept] \subseteq Near(auth[r])
  BY <1>1, <1>4, PlainUsers
<1>6. PICK near : near = Near(auth[r])
  OBVIOUS
<1>7. /\ Authority(u, later, left).perms \subseteq Authority(u, row, bound).perms
      /\ Authority(u, later, left).all => Authority(u, row, bound).all
      /\ \/ Authority(u, row, bound).all
         \/ Authority(u, later, left).depts \subseteq Authority(u, row, bound).depts \cup near
  <2>1. \/ later[u] = None
        \/ later[u] # None /\ ~later[u].super /\ Holds(u, later, left) = {}
        \/ /\ later[u] # None /\ row[u] # None /\ later[u].super = row[u].super
           /\ \/ later[u].dept = row[u].dept
              \/ later[u].dept = None
              \/ {later[u].dept} \cup Below[later[u].dept] \subseteq near
    BY <1>5, <1>6
  <2> QED  BY <1>2, <1>3, <2>1, FewerRolesGiveNoMore
<1> QED  BY <1>1, <1>6, <1>7

\* What a request without the super admin's authority commits gives nobody a
\* permission, sight of all, or a department but at or below one it saw itself
\* (role/service.py:28, rbac_binding/service.py:70, user/service.py:91).
THEOREM NobodyEverGains == Spec => NobodyGains
<1>1. Inv /\ [Next]_vars =>
        [\A r \in Requests : Committed(r) /\ ~auth[r].super =>
            \A u \in Users :
                LET before == Authority(u, row, bound)
                    after == Authority(u, row', bound')
                    near == IF auth[r].all THEN Depts ELSE UNION {Below[d] : d \in auth[r].depts}
                IN  /\ after.perms \subseteq before.perms
                    /\ after.all => before.all
                    /\ before.all \/ after.depts \subseteq before.depts \cup near]_vars
  <2> SUFFICES ASSUME Inv, Next, NEW r \in Requests, Committed(r), ~auth[r].super, NEW u \in Users
               PROVE  /\ Authority(u, row', bound').perms \subseteq Authority(u, row, bound).perms
                      /\ Authority(u, row', bound').all => Authority(u, row, bound).all
                      /\ \/ Authority(u, row, bound).all
                         \/ Authority(u, row', bound').depts \subseteq Authority(u, row, bound).depts \cup Near(auth[r])
    BY DEF Near
  <2> QED  BY OnlyCommitCommits, CommitGivesNothing
<1> QED  BY <1>1, AccessInvariance, PTL DEF NobodyGains, Spec

-----------------------------------------------------------------------------
(* The authority of the tables, as a sum over the roles.                   *)

RolesOf(u, rows, pairs) ==
    {<<x, rows[x], {d \in Depts : <<x, d>> \in pairs}>> : x \in Holds(u, rows, pairs)}

Scoped(F, s) == \E t \in F : t[2].scope = s

OwnIn(F, dept) ==
    IF dept = None THEN {}
    ELSE (IF Scoped(F, "dept") THEN {dept} ELSE {}) \cup (IF Scoped(F, "below") THEN Below[dept] ELSE {})

CustomIn(F, but) == {d \in Depts : \E t \in F : t[2].scope = "custom" /\ t[1] \notin but /\ d \in t[3]}

Sum(F, perms, dept) ==
    IF Scoped(F, "all")
    THEN [super |-> FALSE, perms |-> perms, all |-> TRUE, depts |-> {}, self |-> FALSE, custom |-> {}]
    ELSE [super |-> FALSE, perms |-> perms, all |-> FALSE, depts |-> OwnIn(F, dept) \cup CustomIn(F, {}),
          self |-> Scoped(F, "self"), custom |-> {}]

\* The parts of an authority are sums over the facts of its roles.
LEMMA RolesSumUp ==
    ASSUME NEW u, NEW rows, NEW pairs
    PROVE  /\ \A s : WithScope(rows, Holds(u, rows, pairs), s) = Scoped(RolesOf(u, rows, pairs), s)
           /\ \A dept : OwnDepts(rows, Holds(u, rows, pairs), dept) = OwnIn(RolesOf(u, rows, pairs), dept)
           /\ CustomDepts(CustomRoles(rows, Holds(u, rows, pairs)), pairs) = CustomIn(RolesOf(u, rows, pairs), {})
           /\ CustomIn(RolesOf(u, rows, pairs), CustomRoles(rows, Holds(u, rows, pairs))) = {}
<1> DEFINE H == Holds(u, rows, pairs)
           F == RolesOf(u, rows, pairs)
<1>1. ASSUME NEW x \in H
      PROVE  \E t \in F : t[1] = x /\ t[2] = rows[x] /\ t[3] = {d \in Depts : <<x, d>> \in pairs}
  <2> DEFINE t == <<x, rows[x], {d \in Depts : <<x, d>> \in pairs}>>
  <2>1. t \in F
    BY DEF RolesOf
  <2>2. t[1] = x /\ t[2] = rows[x] /\ t[3] = {d \in Depts : <<x, d>> \in pairs}
    OBVIOUS
  <2> HIDE DEF t, F
  <2> QED  BY <2>1, <2>2
<1>2. ASSUME NEW t \in F
      PROVE  t[1] \in H /\ t[2] = rows[t[1]] /\ t[3] = {d \in Depts : <<t[1], d>> \in pairs}
  BY DEF RolesOf
<1> HIDE DEF H, F
<1>3. \A s : WithScope(rows, H, s) = Scoped(F, s)
  BY <1>1, <1>2 DEF WithScope, Scoped
<1>4. \A dept : OwnDepts(rows, H, dept) = OwnIn(F, dept)
  BY <1>3 DEF OwnDepts, OwnIn
<1>5. CustomDepts(CustomRoles(rows, H), pairs) = CustomIn(F, {})
  <2>1. ASSUME NEW d \in CustomDepts(CustomRoles(rows, H), pairs) PROVE d \in CustomIn(F, {})
    <3>1. PICK x \in H : rows[x].scope = "custom" /\ d \in Depts /\ <<x, d>> \in pairs
      BY DEF CustomDepts, CustomRoles
    <3> QED  BY <1>1, <3>1 DEF CustomIn
  <2>2. ASSUME NEW d \in CustomIn(F, {}) PROVE d \in CustomDepts(CustomRoles(rows, H), pairs)
    <3>1. PICK t \in F : t[2].scope = "custom" /\ d \in t[3] /\ d \in Depts
      BY DEF CustomIn
    <3> QED  BY <1>2, <3>1 DEF CustomDepts, CustomRoles
  <2> QED  BY <2>1, <2>2
<1>6. CustomIn(F, CustomRoles(rows, H)) = {}
  BY <1>2 DEF CustomIn, CustomRoles
<1> QED  BY <1>3, <1>4, <1>5, <1>6 DEF H, F

LEMMA FactsOf ==
    ASSUME NEW u, NEW rows, NEW pairs
    PROVE  /\ Facts(u, rows, pairs).authority = Authority(u, rows, pairs)
           /\ Facts(u, rows, pairs).roles = RolesOf(u, rows, pairs)
BY DEF Facts, RolesOf

\* An authority is determined by its facts, the permissions and the own department.
LEMMA AuthorityIsSum ==
    ASSUME NEW u, NEW rows, NEW pairs, rows[u] # None, ~rows[u].super
    PROVE  /\ Authority(u, rows, pairs) = Sum(RolesOf(u, rows, pairs), PermsOf(u, rows, pairs), rows[u].dept)
           /\ Authority(u, rows, pairs).perms = PermsOf(u, rows, pairs)
<1>1. CASE Scoped(RolesOf(u, rows, pairs), "all")
  <2>1. WithScope(rows, Holds(u, rows, pairs), "all")
    BY <1>1, RolesSumUp
  <2> QED  BY <1>1, <2>1, AuthorityFields DEF Sum
<1>2. CASE ~Scoped(RolesOf(u, rows, pairs), "all")
  <2>1. ~WithScope(rows, Holds(u, rows, pairs), "all")
    BY <1>2, RolesSumUp
  <2> QED  BY <1>2, <2>1, AuthorityFields, RolesSumUp DEF Sum
<1> QED  BY <1>1, <1>2

\* A deleted user holds nothing, as its bindings went with it.
LEMMA GoneHoldNothing ==
    ASSUME NEW u \in Users, NEW rows, NEW pairs, BothEnds(rows, pairs), rows[u] = None
    PROVE  Holds(u, rows, pairs) = {} /\ PermsOf(u, rows, pairs) = {} /\ Authority(u, rows, pairs).perms = {}
<1>1. Holds(u, rows, pairs) = {}
  <2> SUFFICES ASSUME NEW x \in Holds(u, rows, pairs) PROVE FALSE
    OBVIOUS
  <2>1. <<u, x>> \in pairs
    BY DEF Holds
  <2> QED  BY <2>1 DEF BothEnds, Rows
<1> QED  BY <1>1, AuthorityFields, Fixed DEF PermsOf

\* What LoadPerms reads is what the tables say at that moment.
LEMMA PermsAreFacts ==
    ASSUME NEW u \in Users, NEW rows, NEW pairs, BothEnds(rows, pairs), ~(rows[u] # None /\ rows[u].super)
    PROVE  Facts(u, rows, pairs).authority.perms = PermsOf(u, rows, pairs)
BY FactsOf, GoneHoldNothing, AuthorityIsSum

-----------------------------------------------------------------------------
(* Loading: as long as the tables have said one thing, what is loaded is a *)
(* part of it.                                                             *)

Reading == {"perms", "roles", "depts", "check"}

PartRead(r, m) ==
    LET F == m.roles
        perms == m.authority.perms
        a == auth[r]
    IN  /\ m.authority = Sum(F, perms, seen[r].dept)
        /\ pc[r] = "perms" => a = NoAuthority
        /\ pc[r] = "roles" => a = [NoAuthority EXCEPT !.perms = perms]
        /\ pc[r] = "depts" =>
              /\ ~Scoped(F, "all")
              /\ a = [super |-> FALSE, perms |-> perms, all |-> FALSE,
                      depts |-> OwnIn(F, seen[r].dept) \cup CustomIn(F, a.custom),
                      self |-> Scoped(F, "self"), custom |-> a.custom]
              /\ \A x \in a.custom : \E t \in F : t[1] = x /\ t[2].scope = "custom"
        /\ pc[r] = "check" => a = m.authority

Loaded(r) ==
    pc[r] \in Reading =>
        /\ Facts(op[r].by, row, bound) \in moments[r]
        /\ auth[r].super <=> IsSuper(op[r].by)
        /\ auth[r].super => pc[r] = "check" /\ auth[r] = SuperAuthority
        /\ ~auth[r].super => \A m \in moments[r] : moments[r] = {m} => PartRead(r, m)

States == {"idle", "account", "perms", "roles", "depts", "check", "lock", "put", "write", "commit", "done"}
Answers == {None, "ok", "UNAUTHENTICATED", "DISABLED", "FORBIDDEN", "SCOPE", "NOT_FOUND", "INVALID",
            "DUPLICATE", "LAST_SUPER_ADMIN", "CONFLICT", "INTERNAL_ERROR"}

LoadTypes ==
    /\ pc \in [Requests -> States] /\ auth \in [Requests -> Authorities]
    /\ seen \in [Requests -> RowTypes] /\ answer \in [Requests -> Answers]
    /\ \A r \in Requests : \A m \in moments[r] : m.authority \in Authorities
    /\ \A r \in Requests : moments[r] # {} => pc[r] \in Reading

LoadInv == LoadTypes /\ \A r \in Requests : Loaded(r)

\* What a step of one request may do to the types.
LEMMA TypesFrame ==
    ASSUME Inv, LoadTypes, NEW r \in Requests, NEW p \in States, NEW a \in Authorities, NEW s \in RowTypes,
           NEW ans \in Answers, NEW M, \A m \in M : m.authority \in Authorities, M = {} \/ p \in Reading,
           pc' = [pc EXCEPT ![r] = p], auth' = [auth EXCEPT ![r] = a], seen' = [seen EXCEPT ![r] = s],
           answer' = [answer EXCEPT ![r] = ans], moments' = [moments EXCEPT ![r] = M]
    PROVE  LoadTypes'
<1>1. /\ pc' \in [Requests -> States] /\ auth' \in [Requests -> Authorities]
      /\ seen' \in [Requests -> RowTypes] /\ answer' \in [Requests -> Answers]
  BY DEF LoadTypes
<1>2. \A q \in Requests : moments'[q] = IF q = r THEN M ELSE moments[q]
  BY DEF Inv, Typed
<1>3. \A q \in Requests : pc'[q] = IF q = r THEN p ELSE pc[q]
  BY DEF Inv, Typed
<1>4. \A q \in Requests : \A m \in moments'[q] : m.authority \in Authorities
  BY <1>2 DEF LoadTypes
<1>5. \A q \in Requests : moments'[q] # {} => pc'[q] \in Reading
  BY <1>2, <1>3 DEF LoadTypes
<1> QED  BY <1>1, <1>4, <1>5 DEF LoadTypes

\* A request that does not move and whose tables do not change stays as loaded.
LEMMA LoadedFrame ==
    ASSUME LoadInv, NEW r \in Requests, NEW q \in Requests \ {r}, Only(r), moments'[q] = moments[q]
    PROVE  Loaded(q)'
<1>1. PICK F : F = Facts(op[q].by, row, bound)
  OBVIOUS
<1>2. Facts(op'[q].by, row', bound') = F
  BY <1>1 DEF Only
<1>3. IsSuper(op[q].by)' = IsSuper(op[q].by)
  BY DEF Only, IsSuper
<1>4. \A m : PartRead(q, m)' = PartRead(q, m)
  <2>1. auth'[q] = auth[q] /\ seen'[q] = seen[q] /\ pc'[q] = pc[q]
    BY DEF Only
  <2> QED  BY <2>1 DEF PartRead
<1> QED  BY <1>1, <1>2, <1>3, <1>4 DEF LoadInv, Loaded, Only

LEMMA FixedTyped == NoAuthority \in Authorities /\ SuperAuthority \in Authorities
BY DEF NoAuthority, SuperAuthority, Authorities

LEMMA PermsTyped ==
    ASSUME NEW u, NEW rows, NEW pairs
    PROVE  PermsOf(u, rows, pairs) \subseteq Range(Perm)
BY AccessAssumption DEF PermsOf, Range

LEMMA OwnTyped ==
    ASSUME NEW rows, NEW roles, NEW dept \in Depts \cup {None}
    PROVE  OwnDepts(rows, roles, dept) \subseteq Depts
BY AccessAssumption DEF OwnDepts

LEMMA AuthorityTyped ==
    ASSUME NEW u \in Users, NEW rows, NEW pairs, InTables(rows)
    PROVE  Authority(u, rows, pairs) \in Authorities
<1>1. CASE rows[u] = None \/ (rows[u] # None /\ rows[u].super)
  BY <1>1, AuthorityFields, FixedTyped
<1>2. CASE rows[u] # None /\ ~rows[u].super
  <2>1. rows[u].dept \in Depts \cup {None}
    BY <1>2, UserFields DEF InTables
  <2>2. /\ OwnDepts(rows, Holds(u, rows, pairs), rows[u].dept) \subseteq Depts
        /\ CustomDepts(CustomRoles(rows, Holds(u, rows, pairs)), pairs) \subseteq Depts
    BY <2>1, OwnTyped DEF CustomDepts
  <2>3. PermsOf(u, rows, pairs) \subseteq Range(Perm)
    BY PermsTyped
  <2>4. WithScope(rows, Holds(u, rows, pairs), "self") \in BOOLEAN
    BY DEF WithScope
  <2>5. CASE WithScope(rows, Holds(u, rows, pairs), "all")
    <3>1. Authority(u, rows, pairs) =
            [super |-> FALSE, perms |-> PermsOf(u, rows, pairs), all |-> TRUE, depts |-> {},
             self |-> FALSE, custom |-> {}]
      BY <1>2, <2>5, AuthorityFields
    <3> QED  BY <2>3, <3>1 DEF Authorities
  <2>6. CASE ~WithScope(rows, Holds(u, rows, pairs), "all")
    <3>1. PICK self \in BOOLEAN : self = WithScope(rows, Holds(u, rows, pairs), "self")
      BY <2>4
    <3>2. Authority(u, rows, pairs) =
            [super |-> FALSE, perms |-> PermsOf(u, rows, pairs), all |-> FALSE,
             depts |-> OwnDepts(rows, Holds(u, rows, pairs), rows[u].dept)
                          \cup CustomDepts(CustomRoles(rows, Holds(u, rows, pairs)), pairs),
             self |-> self, custom |-> {}]
      BY <1>2, <2>6, <3>1, AuthorityFields
    <3> QED  BY <2>2, <2>3, <3>2 DEF Authorities
  <2> QED  BY <2>5, <2>6
<1> QED  BY <1>1, <1>2

\* A step of one request that leaves the reading alone, or ends it.
LEMMA LoadRest ==
    ASSUME Inv, LoadInv, NEW r \in Requests, Only(r), LoadTypes',
           pc'[r] \notin Reading, \A q \in Requests \ {r} : moments'[q] = moments[q]
    PROVE  LoadInv'
<1>1. \A q \in Requests \ {r} : Loaded(q)'
  BY LoadedFrame
<1>2. Loaded(r)'
  BY DEF Loaded
<1> QED  BY <1>1, <1>2 DEF LoadInv

LEMMA FinishLoads ==
    ASSUME Inv, LoadInv, NEW r \in Requests, NEW a \in Answers, Finish(r, a), row' = row, bound' = bound, op' = op
    PROVE  LoadInv'
<1>1. Only(r) /\ pc'[r] = "done" /\ \A q \in Requests \ {r} : moments'[q] = moments[q]
  BY DEF Inv, Typed, Finish, Goto, Only
<1>2. LoadTypes'
  <2>1. None \in RowTypes /\ "done" \in States
    BY DEF RowTypes, States
  <2> QED  BY <2>1, FixedTyped, TypesFrame DEF LoadInv, Finish, Goto
<1> QED  BY <1>1, <1>2, LoadRest DEF Reading

\* The steps that change where a request is and nothing that was read.
LEMMA GotoLoads ==
    ASSUME Inv, LoadInv, NEW r \in Requests, Only(r), pc[r] \notin Reading, NEW p \in States \ Reading, Goto(r, p),
           UNCHANGED <<auth, seen, answer, moments>>
    PROVE  LoadInv'
<1>1. moments' = moments /\ pc'[r] = p
  BY DEF Inv, Typed, Goto
<1>2. moments[r] = {}
  BY DEF LoadInv, LoadTypes
<1>3. LoadTypes'
  <2>1. pc' \in [Requests -> States] /\ \A q \in Requests \ {r} : pc'[q] = pc[q]
    BY DEF LoadInv, LoadTypes, Goto
  <2> QED  BY <1>1, <1>2, <2>1 DEF LoadInv, LoadTypes
<1> QED  BY <1>1, <1>3, LoadRest

LEMMA ReceiveLoads ==
    ASSUME Inv, LoadInv, NEW r \in Requests, NEW name, Asks(r, name)
    PROVE  LoadInv'
<1>1. Only(r)
  BY DEF Inv, Typed, Asks, Goto, Only
<1> QED  BY <1>1, GotoLoads DEF Asks, States, Reading

LEMMA LoadAccountLoads ==
    ASSUME Inv, LoadInv, NEW r \in Requests, LoadAccount(r)
    PROVE  LoadInv'
<1> DEFINE me == row[op[r].by]
           M == {Facts(op[r].by, row, bound)}
<1>1. CASE me = None \/ ~me.active
  BY <1>1, FinishLoads DEF LoadAccount, Answers
<1>2. CASE me # None /\ me.active
  <2>1. /\ pc[r] = "account" /\ row' = row /\ bound' = bound /\ op' = op
        /\ seen' = [seen EXCEPT ![r] = me]
        /\ auth' = [auth EXCEPT ![r] = IF me.super THEN SuperAuthority ELSE NoAuthority]
        /\ moments' = [moments EXCEPT ![r] = M]
        /\ pc' = [pc EXCEPT ![r] = IF me.super THEN "check" ELSE "perms"]
        /\ staged' = staged /\ answer' = answer
    BY <1>2 DEF LoadAccount, Goto
  <2>2. op[r].by \in Users /\ InTables(row) /\ me \in UserRow
    BY <1>2, <2>1, OpTypes DEF Inv, Tables, InTables
  <2>3. Only(r) /\ (\A q \in Requests \ {r} : moments'[q] = moments[q])
    BY <2>1 DEF Inv, Typed, Only
  <2>4. LoadTypes'
    <3>1. (\A m \in M : m.authority \in Authorities) /\ me \in RowTypes
      BY <2>2, FactsOf, AuthorityTyped DEF RowTypes
    <3>2. answer' = [answer EXCEPT ![r] = answer[r]] /\ answer[r] \in Answers
      BY <2>1 DEF LoadInv, LoadTypes
    <3>3. PICK p \in States : p = (IF me.super THEN "check" ELSE "perms") /\ p \in Reading
      BY DEF States, Reading
    <3>4. PICK a \in Authorities : a = IF me.super THEN SuperAuthority ELSE NoAuthority
      BY FixedTyped
    <3>5. pc' = [pc EXCEPT ![r] = p] /\ auth' = [auth EXCEPT ![r] = a]
      BY <2>1, <3>3, <3>4
    <3>6. PICK s \in RowTypes : s = me
      BY <3>1
    <3>7. PICK N : N = M
      OBVIOUS
    <3>8. PICK ans \in Answers : ans = answer[r]
      BY <3>2
    <3>9. /\ seen' = [seen EXCEPT ![r] = s] /\ moments' = [moments EXCEPT ![r] = N]
          /\ answer' = [answer EXCEPT ![r] = ans] /\ \A m \in N : m.authority \in Authorities
      BY <2>1, <3>1, <3>2, <3>6, <3>7, <3>8
    <3> QED  BY <3>3, <3>5, <3>9, TypesFrame DEF LoadInv
  <2>5. /\ seen'[r] = me /\ moments'[r] = M
        /\ pc'[r] = (IF me.super THEN "check" ELSE "perms")
        /\ auth'[r] = (IF me.super THEN SuperAuthority ELSE NoAuthority)
    BY <2>1 DEF Inv, Typed
  <2>6. Loaded(r)'
    <3>1. Facts(op'[r].by, row', bound') \in moments'[r]
      BY <2>1, <2>5
    <3>2. IsSuper(op[r].by)' <=> me.super
      BY <1>2, <2>1 DEF IsSuper
    <3>3. CASE me.super
      BY <2>5, <3>1, <3>2, <3>3, Fixed DEF Loaded
    <3>4. CASE ~me.super
      <4>1. ~auth'[r].super /\ pc'[r] = "perms" /\ auth'[r] = NoAuthority
        BY <2>5, <3>4, Fixed
      <4>2. PICK m : m = Facts(op[r].by, row, bound)
        OBVIOUS
      <4>3. m.authority = Sum(m.roles, m.authority.perms, seen'[r].dept)
        BY <1>2, <2>5, <3>4, <4>2, FactsOf, AuthorityIsSum
      <4>4. PartRead(r, m)'
        BY <4>1, <4>3 DEF PartRead
      <4> QED  BY <2>5, <3>1, <3>2, <3>4, <4>1, <4>2, <4>4 DEF Loaded
    <3> QED  BY <3>3, <3>4
  <2>7. \A q \in Requests \ {r} : Loaded(q)'
    BY <2>3, LoadedFrame
  <2> QED  BY <2>4, <2>6, <2>7 DEF LoadInv
<1> QED  BY <1>1, <1>2

LEMMA AuthorityUpdates ==
    ASSUME NEW a \in Authorities, NEW perms \in SUBSET Range(Perm), NEW depts \in SUBSET Depts,
           NEW self \in BOOLEAN, NEW custom \in SUBSET Roles
    PROVE  /\ [a EXCEPT !.perms = perms] \in Authorities
           /\ [a EXCEPT !.all = TRUE] \in Authorities
           /\ [a EXCEPT !.depts = depts, !.self = self, !.custom = custom] \in Authorities
           /\ [a EXCEPT !.depts = depts, !.custom = custom] \in Authorities
BY DEF Authorities

\* The steps of the reading change where a request is and what it has loaded.
ReadsOn(r, p, a) ==
    /\ pc' = [pc EXCEPT ![r] = p] /\ auth' = [auth EXCEPT ![r] = a]
    /\ UNCHANGED <<row, bound, op, seen, staged, answer, moments>>

LEMMA ReadsOnLoads ==
    ASSUME Inv, LoadInv, NEW r \in Requests, pc[r] \in Reading, ~auth[r].super,
           NEW p \in Reading, NEW a \in Authorities, ReadsOn(r, p, a), ~a.super,
           \A m \in moments[r] : moments[r] = {m} => PartRead(r, m)'
    PROVE  LoadInv'
<1>1. /\ auth'[r] = a /\ pc'[r] = p
      /\ row' = row /\ bound' = bound /\ op' = op /\ seen' = seen /\ moments' = moments /\ answer' = answer
  BY DEF ReadsOn, Inv, Typed
<1>2. LoadTypes'
  <2>1. /\ pc' \in [Requests -> States] /\ auth' \in [Requests -> Authorities]
    BY DEF ReadsOn, LoadInv, LoadTypes, Reading, States
  <2>2. \A q \in Requests : pc'[q] = pc[q] \/ pc'[q] \in Reading
    BY <1>1 DEF ReadsOn, Inv, Typed
  <2> QED  BY <1>1, <2>1, <2>2 DEF LoadInv, LoadTypes
<1>3. Only(r)
  BY DEF ReadsOn, Only, Inv, Typed
<1>4. \A q \in Requests \ {r} : Loaded(q)'
  BY <1>1, <1>3, LoadedFrame
<1>5. Loaded(r)'
  <2>1. /\ Facts(op[r].by, row, bound) \in moments[r] /\ ~IsSuper(op[r].by)
    BY DEF LoadInv, Loaded
  <2>2. /\ Facts(op'[r].by, row', bound') \in moments'[r] /\ ~IsSuper(op[r].by)'
    <3>1. PICK F : F = Facts(op[r].by, row, bound)
      OBVIOUS
    <3>2. F = Facts(op'[r].by, row', bound')
      BY <1>1, <3>1
    <3> QED  BY <1>1, <2>1, <3>1, <3>2 DEF IsSuper
  <2> QED  BY <1>1, <2>2 DEF Loaded
<1> QED  BY <1>2, <1>4, <1>5 DEF LoadInv

\* What is known of a request that is reading, when the tables said one thing.
LEMMA ReadingOne ==
    ASSUME Inv, LoadInv, NEW r \in Requests, pc[r] \in {"perms", "roles", "depts"}
    PROVE  /\ ~auth[r].super /\ ~IsSuper(op[r].by) /\ op[r].by \in Users /\ BothEnds(row, bound)
           /\ auth[r] \in Authorities /\ seen[r] \in UserRow
           /\ \A m \in moments[r] : moments[r] = {m} => PartRead(r, m) /\ m = Facts(op[r].by, row, bound)
<1>1. op[r].by \in Users
  BY OpTypes
<1>2. BothEnds(row, bound) /\ auth[r] \in Authorities /\ seen[r] \in UserRow
  BY DEF Inv, Tables, Own, Known, LoadInv, LoadTypes
<1>3. Loaded(r)
  BY DEF LoadInv
<1> QED  BY <1>1, <1>2, <1>3 DEF Loaded, Reading

LEMMA LoadPermsLoads ==
    ASSUME Inv, LoadInv, NEW r \in Requests, LoadPerms(r)
    PROVE  LoadInv'
<1>1. PICK perms : perms = PermsOf(op[r].by, row, bound)
  OBVIOUS
<1>2. PICK a : a = [auth[r] EXCEPT !.perms = perms]
  OBVIOUS
<1>3. pc[r] = "perms" /\ ReadsOn(r, "roles", a)
  BY <1>1, <1>2 DEF LoadPerms, Goto, ReadsOn
<1>4. a \in Authorities /\ ~a.super
  <2>1. perms \in SUBSET Range(Perm)
    BY <1>1, PermsTyped
  <2>2. auth[r] \in Authorities /\ ~auth[r].super
    BY <1>3, ReadingOne
  <2>3. a \in Authorities
    BY <1>2, <2>1, <2>2 DEF Authorities
  <2>4. a.super = auth[r].super
    BY <1>2, <2>2 DEF Authorities
  <2> QED  BY <2>2, <2>3, <2>4
<1>5. ASSUME NEW m \in moments[r], moments[r] = {m} PROVE PartRead(r, m)'
  <2>1. /\ PartRead(r, m) /\ m = Facts(op[r].by, row, bound)
        /\ ~IsSuper(op[r].by) /\ op[r].by \in Users /\ BothEnds(row, bound)
    BY <1>3, <1>5, ReadingOne
  <2>2. m.authority.perms = perms
    BY <1>1, <2>1, PermsAreFacts DEF IsSuper
  <2>3. auth'[r] = a /\ pc'[r] = "roles" /\ seen' = seen
    BY <1>3 DEF ReadsOn, Inv, Typed
  <2>4. a = [NoAuthority EXCEPT !.perms = perms]
    BY <1>2, <1>3, <2>1 DEF PartRead
  <2>5. m.authority = Sum(m.roles, m.authority.perms, seen[r].dept)
    BY <2>1 DEF PartRead
  <2> QED  BY <2>2, <2>3, <2>4, <2>5 DEF PartRead
<1> QED  BY <1>3, <1>4, <1>5, ReadsOnLoads, ReadingOne DEF Reading

LEMMA TwoUpdates ==
    ASSUME NEW b, NEW su, NEW perms, NEW all, NEW depts, NEW self, NEW custom, NEW x, NEW z,
           b = [super |-> su, perms |-> perms, all |-> all, depts |-> depts, self |-> self, custom |-> custom]
    PROVE  [b EXCEPT !.depts = x, !.custom = z] =
              [super |-> su, perms |-> perms, all |-> all, depts |-> x, self |-> self, custom |-> z]
<1> DEFINE c == [b EXCEPT !.depts = x]
           d == [c EXCEPT !.custom = z]
<1>1. c = [super |-> su, perms |-> perms, all |-> all, depts |-> x, self |-> self, custom |-> custom]
  OBVIOUS
<1>2. d = [super |-> su, perms |-> perms, all |-> all, depts |-> x, self |-> self, custom |-> z]
  <2> HIDE DEF c
  <2> QED  BY <1>1
<1>3. d = [b EXCEPT !.depts = x, !.custom = z]
  OBVIOUS
<1> HIDE DEF d
<1> QED  BY <1>2, <1>3

LEMMA ThreeUpdates ==
    ASSUME NEW b, NEW su, NEW perms, NEW all, NEW depts, NEW self, NEW custom, NEW x, NEW y, NEW z,
           b = [super |-> su, perms |-> perms, all |-> all, depts |-> depts, self |-> self, custom |-> custom]
    PROVE  [b EXCEPT !.depts = x, !.self = y, !.custom = z] =
              [super |-> su, perms |-> perms, all |-> all, depts |-> x, self |-> y, custom |-> z]
<1> DEFINE c == [b EXCEPT !.depts = x]
           d == [c EXCEPT !.self = y]
           e == [d EXCEPT !.custom = z]
<1>1. c = [super |-> su, perms |-> perms, all |-> all, depts |-> x, self |-> self, custom |-> custom]
  OBVIOUS
<1>2. d = [super |-> su, perms |-> perms, all |-> all, depts |-> x, self |-> y, custom |-> custom]
  <2> HIDE DEF c
  <2> QED  BY <1>1
<1>3. e = [super |-> su, perms |-> perms, all |-> all, depts |-> x, self |-> y, custom |-> z]
  <2> HIDE DEF d
  <2> QED  BY <1>2
<1>4. e = [b EXCEPT !.depts = x, !.self = y, !.custom = z]
  OBVIOUS
<1> HIDE DEF e
<1> QED  BY <1>3, <1>4

LEMMA PermsOnly ==
    ASSUME NEW perms, NEW no, no = FALSE, NEW none, none = {}
    PROVE  [NoAuthority EXCEPT !.perms = perms] =
              [super |-> no, perms |-> perms, all |-> no, depts |-> none, self |-> no, custom |-> none]
<1>1. PICK b : b = NoAuthority
  OBVIOUS
<1>2. b = [super |-> no, perms |-> none, all |-> no, depts |-> none, self |-> no, custom |-> none]
  BY <1>1 DEF NoAuthority
<1>3. [b EXCEPT !.perms = perms] =
         [super |-> no, perms |-> perms, all |-> no, depts |-> none, self |-> no, custom |-> none]
  BY <1>2
<1> QED  BY <1>1, <1>3

LEMMA LoadRolesLoads ==
    ASSUME Inv, LoadInv, NEW r \in Requests, LoadRoles(r)
    PROVE  LoadInv'
<1>1. PICK roles, custom, own, self :
        /\ roles = Holds(op[r].by, row, bound) /\ custom = CustomRoles(row, roles)
        /\ own = OwnDepts(row, roles, seen[r].dept) /\ self = WithScope(row, roles, "self")
  OBVIOUS
<1>2. pc[r] = "roles"
  BY DEF LoadRoles
<1>3. /\ ~auth[r].super /\ auth[r] \in Authorities /\ seen[r].dept \in Depts \cup {None}
  BY <1>2, ReadingOne, UserFields
<1>4. own \in SUBSET Depts /\ custom \in SUBSET Roles /\ self \in BOOLEAN
  BY <1>1, <1>3, OwnTyped DEF CustomRoles, Holds, WithScope
<1>5. ASSUME NEW m \in moments[r], moments[r] = {m}
      PROVE  /\ m.authority = Sum(m.roles, m.authority.perms, seen[r].dept)
             /\ auth[r] = [NoAuthority EXCEPT !.perms = m.authority.perms]
             /\ own = OwnIn(m.roles, seen[r].dept) /\ self = Scoped(m.roles, "self")
             /\ WithScope(row, roles, "all") <=> Scoped(m.roles, "all")
             /\ CustomIn(m.roles, custom) = {}
             /\ \A x \in custom : \E t \in m.roles : t[1] = x /\ t[2].scope = "custom"
  <2>1. PartRead(r, m) /\ m = Facts(op[r].by, row, bound)
    BY <1>2, <1>5, ReadingOne
  <2>2. m.roles = RolesOf(op[r].by, row, bound)
    BY <2>1, FactsOf
  <2>3. /\ own = OwnIn(m.roles, seen[r].dept) /\ self = Scoped(m.roles, "self")
        /\ WithScope(row, roles, "all") = Scoped(m.roles, "all")
        /\ CustomIn(m.roles, custom) = {}
    BY <1>1, <2>2, RolesSumUp
  <2>4. ASSUME NEW x \in custom PROVE \E t \in m.roles : t[1] = x /\ t[2].scope = "custom"
    <3>1. x \in Holds(op[r].by, row, bound) /\ row[x].scope = "custom"
      BY <1>1 DEF CustomRoles
    <3>2. PICK t : t = <<x, row[x], {d \in Depts : <<x, d>> \in bound}>>
      OBVIOUS
    <3> QED  BY <2>2, <3>1, <3>2 DEF RolesOf
  <2> QED  BY <1>2, <2>1, <2>3, <2>4 DEF PartRead
<1>6. CASE WithScope(row, roles, "all")
  <2>1. PICK a : a = [auth[r] EXCEPT !.all = TRUE]
    OBVIOUS
  <2>2. ReadsOn(r, "check", a)
    BY <1>1, <1>6, <2>1 DEF LoadRoles, Goto, ReadsOn
  <2>3. a \in Authorities /\ ~a.super
    BY <1>3, <2>1 DEF Authorities
  <2>4. ASSUME NEW m \in moments[r], moments[r] = {m} PROVE PartRead(r, m)'
    <3>1. PICK perms : perms = m.authority.perms
      OBVIOUS
    <3>2. PICK b, no, yes, none : b = auth[r] /\ no = FALSE /\ yes = TRUE /\ none = {}
      OBVIOUS
    <3>3. b = [super |-> no, perms |-> perms, all |-> no, depts |-> none, self |-> no, custom |-> none]
      <4>1. b = [NoAuthority EXCEPT !.perms = perms]
        BY <1>5, <2>4, <3>1, <3>2
      <4> QED  BY <3>2, <4>1, PermsOnly
    <3>4. a = [super |-> no, perms |-> perms, all |-> yes, depts |-> none, self |-> no, custom |-> none]
      <4>1. a = [b EXCEPT !.all = yes]
        BY <2>1, <3>2
      <4> QED  BY <3>3, <4>1
    <3>5. a = m.authority
      BY <1>5, <1>6, <2>4, <3>1, <3>2, <3>4 DEF Sum
    <3>6. auth'[r] = a /\ pc'[r] = "check" /\ seen' = seen
      BY <2>2 DEF ReadsOn, Inv, Typed
    <3> QED  BY <1>5, <2>4, <3>5, <3>6 DEF PartRead
  <2> QED  BY <1>2, <1>3, <2>2, <2>3, <2>4, ReadsOnLoads DEF Reading
<1>7. CASE ~WithScope(row, roles, "all")
  <2>1. PICK a : a = [auth[r] EXCEPT !.depts = own, !.self = self, !.custom = custom]
    OBVIOUS
  <2>2. PICK p \in {"check", "depts"} : p = IF custom = {} THEN "check" ELSE "depts"
    OBVIOUS
  <2>3. ReadsOn(r, p, a)
    BY <1>1, <1>7, <2>1, <2>2 DEF LoadRoles, Goto, ReadsOn
  <2>4. a \in Authorities /\ ~a.super
    BY <1>3, <1>4, <2>1 DEF Authorities
  <2>5. ASSUME NEW m \in moments[r], moments[r] = {m} PROVE PartRead(r, m)'
    <3>1. PICK perms, F : perms = m.authority.perms /\ F = m.roles
      OBVIOUS
    <3>2. PICK b, no, none : b = auth[r] /\ no = FALSE /\ none = {}
      OBVIOUS
    <3>3. b = [super |-> no, perms |-> perms, all |-> no, depts |-> none, self |-> no, custom |-> none]
      <4>1. b = [NoAuthority EXCEPT !.perms = perms]
        BY <1>5, <2>5, <3>1, <3>2
      <4> QED  BY <3>2, <4>1, PermsOnly
    <3>4. a = [super |-> no, perms |-> perms, all |-> no, depts |-> own, self |-> self, custom |-> custom]
      <4>1. a = [b EXCEPT !.depts = own, !.self = self, !.custom = custom]
        BY <2>1, <3>2
      <4> QED  BY <3>3, <4>1, ThreeUpdates
    <3>5. a = [super |-> FALSE, perms |-> perms, all |-> FALSE, depts |-> own, self |-> self, custom |-> custom]
      BY <3>2, <3>4
    <3>6. auth'[r] = a /\ pc'[r] = p /\ seen' = seen
      BY <2>3 DEF ReadsOn, Inv, Typed
    <3>7. ~Scoped(F, "all") /\ own = own \cup CustomIn(F, custom) /\ a.custom = custom
      BY <1>5, <1>7, <2>5, <3>1, <3>5
    <3>8. p = "check" => a = m.authority
      <4> SUFFICES ASSUME custom = {} PROVE a = m.authority
        BY <2>2
      <4>1. CustomIn(F, {}) = {}
        BY <1>5, <2>5, <3>1
      <4>2. Sum(F, perms, seen[r].dept) =
              [super |-> FALSE, perms |-> perms, all |-> FALSE, depts |-> OwnIn(F, seen[r].dept) \cup CustomIn(F, {}),
               self |-> Scoped(F, "self"), custom |-> {}]
        BY <3>7 DEF Sum
      <4>3. m.authority = Sum(F, perms, seen[r].dept) /\ own = OwnIn(F, seen[r].dept) /\ self = Scoped(F, "self")
        BY <1>5, <2>5, <3>1
      <4>4. own = OwnIn(F, seen[r].dept) \cup CustomIn(F, {})
        BY <4>1, <4>3
      <4> QED  BY <3>5, <4>2, <4>3, <4>4
    <3>9. a = [super |-> FALSE, perms |-> perms, all |-> FALSE,
               depts |-> OwnIn(F, seen[r].dept) \cup CustomIn(F, a.custom),
               self |-> Scoped(F, "self"), custom |-> a.custom]
      BY <1>5, <2>5, <3>1, <3>5, <3>7
    <3>10. \A x \in a.custom : \E t \in F : t[1] = x /\ t[2].scope = "custom"
      BY <1>5, <2>5, <3>1, <3>7
    <3> QED  BY <1>5, <2>2, <2>5, <3>1, <3>6, <3>7, <3>8, <3>9, <3>10 DEF PartRead
  <2> QED  BY <1>2, <1>3, <2>2, <2>3, <2>4, <2>5, ReadsOnLoads DEF Reading
<1> QED  BY <1>6, <1>7

LEMMA LoadDeptsLoads ==
    ASSUME Inv, LoadInv, NEW r \in Requests, LoadDepts(r)
    PROVE  LoadInv'
<1>1. pc[r] = "depts" /\ ~auth[r].super /\ auth[r] \in Authorities
  BY ReadingOne DEF LoadDepts
<1>2. PICK x \in auth[r].custom :
        /\ auth' = [auth EXCEPT ![r].depts = @ \cup CustomDepts({x}, bound), ![r].custom = @ \ {x}]
        /\ pc' = [pc EXCEPT ![r] = IF auth[r].custom = {x} THEN "check" ELSE "depts"]
        /\ UNCHANGED <<row, bound, op, seen, staged, answer, moments>>
  BY DEF LoadDepts, Goto
<1>3. PICK b, depts, custom :
        /\ b = auth[r] /\ depts = auth[r].depts \cup CustomDepts({x}, bound) /\ custom = auth[r].custom \ {x}
  OBVIOUS
<1>4. PICK a : a = [b EXCEPT !.depts = depts, !.custom = custom]
  OBVIOUS
<1>5. PICK p \in {"check", "depts"} : p = IF custom = {} THEN "check" ELSE "depts"
  OBVIOUS
<1>6. auth' = [auth EXCEPT ![r] = a]
  BY <1>1, <1>2, <1>3, <1>4 DEF LoadInv, LoadTypes
<1>7. pc' = [pc EXCEPT ![r] = p]
  BY <1>2, <1>3, <1>5
<1>8. ReadsOn(r, p, a)
  BY <1>2, <1>6, <1>7 DEF ReadsOn
<1>9. a \in Authorities /\ ~a.super
  <2>1. depts \in SUBSET Depts /\ custom \in SUBSET Roles
    BY <1>1, <1>3 DEF Authorities, CustomDepts
  <2>2. a \in Authorities
    BY <1>1, <1>3, <1>4, <2>1 DEF Authorities
  <2> QED  BY <1>1, <1>3, <1>4, <2>2 DEF Authorities
<1>10. ASSUME NEW m \in moments[r], moments[r] = {m} PROVE PartRead(r, m)'
  <2>1. PICK F, perms, own, self, no :
          /\ F = m.roles /\ perms = m.authority.perms /\ own = OwnIn(m.roles, seen[r].dept)
          /\ self = Scoped(m.roles, "self") /\ no = FALSE
    OBVIOUS
  <2>2. PartRead(r, m) /\ m = Facts(op[r].by, row, bound)
    BY <1>1, <1>10, ReadingOne
  <2>3. F = RolesOf(op[r].by, row, bound)
    BY <2>1, <2>2, FactsOf
  <2>4. /\ m.authority = Sum(F, perms, seen[r].dept) /\ ~Scoped(F, "all")
        /\ \A y \in b.custom : \E t \in F : t[1] = y /\ t[2].scope = "custom"
        /\ b = [super |-> no, perms |-> perms, all |-> no, depts |-> own \cup CustomIn(F, b.custom),
                self |-> self, custom |-> b.custom]
    BY <1>1, <1>3, <2>1, <2>2 DEF PartRead
  <2>5. a = [super |-> no, perms |-> perms, all |-> no, depts |-> depts, self |-> self, custom |-> custom]
    <3>1. PICK old, was : old = own \cup CustomIn(F, b.custom) /\ was = b.custom
      OBVIOUS
    <3>2. b = [super |-> no, perms |-> perms, all |-> no, depts |-> old, self |-> self, custom |-> was]
      BY <2>4, <3>1
    <3> QED  BY <1>4, <3>2, TwoUpdates
  <2>6. depts = own \cup CustomIn(F, custom)
    <3>1. b.depts = own \cup CustomIn(F, b.custom)
      BY <2>4
    <3>2. PICK t \in F : t[1] = x /\ t[2].scope = "custom"
      BY <1>2, <1>3, <2>4
    <3>3. \A v \in F : v[3] = {d \in Depts : <<v[1], d>> \in bound}
      BY <2>3 DEF RolesOf
    <3>4. CustomDepts({x}, bound) = {d \in Depts : <<x, d>> \in bound}
      BY DEF CustomDepts
    <3>5. CustomIn(F, custom) = CustomIn(F, b.custom) \cup CustomDepts({x}, bound)
      BY <1>3, <3>2, <3>3, <3>4 DEF CustomIn
    <3> QED  BY <1>3, <3>1, <3>5
  <2>7. auth'[r] = a /\ pc'[r] = p /\ seen' = seen
    BY <1>8 DEF ReadsOn, Inv, Typed
  <2>8. a.custom = custom /\ \A y \in custom : \E t \in F : t[1] = y /\ t[2].scope = "custom"
    BY <1>3, <2>4, <2>5
  <2>9. p = "check" => a = m.authority
    <3> SUFFICES ASSUME custom = {} PROVE a = m.authority
      BY <1>5
    <3> QED  BY <2>1, <2>4, <2>5, <2>6 DEF Sum
  <2>10. p = "depts" => a = [super |-> FALSE, perms |-> m.authority.perms, all |-> FALSE,
                             depts |-> OwnIn(m.roles, seen[r].dept) \cup CustomIn(m.roles, a.custom),
                             self |-> Scoped(m.roles, "self"), custom |-> a.custom]
    BY <2>1, <2>5, <2>6, <2>8
  <2>11. m.authority = Sum(m.roles, m.authority.perms, seen[r].dept) /\ ~Scoped(m.roles, "all")
    BY <2>1, <2>4
  <2>12. \A y \in a.custom : \E t \in m.roles : t[1] = y /\ t[2].scope = "custom"
    BY <2>1, <2>8
  <2> QED  BY <1>5, <2>7, <2>9, <2>10, <2>11, <2>12 DEF PartRead
<1> QED  BY <1>1, <1>5, <1>8, <1>9, <1>10, ReadsOnLoads DEF Reading

-----------------------------------------------------------------------------

LEMMA RefusalTyped ==
    ASSUME NEW r \in Requests, WellFormed(op[r])
    PROVE  Refusal(r) \in Answers \cup {"none"}
<1>1. UserRefusal(r) \in Answers \cup {"none"}
  BY DEF UserRefusal, Answers
<1>2. RoleRefusal(r) \in Answers \cup {"none"}
  <2>1. CASE op[r].name # "role_create" /\ Target(r) = None
    BY <2>1 DEF RoleRefusal, Answers
  <2>2. CASE op[r].name = "role_create" /\ Target(r) # None
    BY <2>2 DEF RoleRefusal, Answers
  <2>3. CASE ~(op[r].name # "role_create" /\ Target(r) = None) /\ ~(op[r].name = "role_create" /\ Target(r) # None)
    BY <2>3 DEF RoleRefusal
  <2> QED  BY <2>1, <2>2, <2>3
<1>3. BindingRefusal(r) \in Answers \cup {"none"} /\ DeptsRefusal(r) \in Answers \cup {"none"}
  BY DEF BindingRefusal, DeptsRefusal, Answers
<1>4. CASE ~auth[r].super /\ (Needs[op[r].name] \notin auth[r].perms \/ TouchesGraph(op[r]))
  BY <1>4 DEF Refusal, Answers
<1>5. CASE ~(~auth[r].super /\ (Needs[op[r].name] \notin auth[r].perms \/ TouchesGraph(op[r])))
  <2>1. CASE op[r].name \in UserNames
    BY <1>1, <1>5, <2>1 DEF Refusal, UserNames, RoleNames, Bindings, GraphBindings
  <2>2. CASE op[r].name \in RoleNames
    BY <1>2, <1>5, <2>2 DEF Refusal, UserNames, RoleNames, Bindings, GraphBindings
  <2>3. CASE op[r].name \in Bindings
    BY <1>3, <1>5, <2>3 DEF Refusal, UserNames, RoleNames, Bindings, GraphBindings
  <2>4. CASE op[r].name = "depts_get"
    BY <1>3, <1>5, <2>4 DEF Refusal, UserNames, RoleNames, Bindings, GraphBindings
  <2>5. CASE op[r].name = "user_list"
    BY <1>5, <2>5 DEF Refusal, UserNames, RoleNames, Bindings, GraphBindings
  <2> QED  BY <2>1, <2>2, <2>3, <2>4, <2>5 DEF WellFormed, UserNames, RoleNames, Bindings, GraphBindings
<1> QED  BY <1>4, <1>5

LEMMA CheckLoads ==
    ASSUME Inv, LoadInv, NEW r \in Requests, Check(r)
    PROVE  LoadInv'
<1>1. pc[r] = "check" /\ WellFormed(op[r])
  BY OpTypes DEF Check
<1>2. CASE Refusal(r) # "none"
  BY <1>1, <1>2, RefusalTyped, FinishLoads DEF Check
<1>3. CASE Refusal(r) = "none" /\ Reads(op[r])
  BY <1>3, FinishLoads DEF Check, Answers
<1>4. CASE Refusal(r) = "none" /\ ~Reads(op[r])
  <2>1. /\ seen' = [seen EXCEPT ![r] = Target(r)] /\ moments' = [moments EXCEPT ![r] = {}]
        /\ pc' = [pc EXCEPT ![r] = IF op[r].name \in Bindings THEN "lock" ELSE "write"]
        /\ UNCHANGED <<row, bound, op, auth, staged, answer>>
    BY <1>4 DEF Check, Goto
  <2>2. Target(r) \in RowTypes
    <3>1. op[r].target \in Rows
      <4>1. CASE op[r].name \in Bindings
        BY <1>1, <4>1, TableOfBinding
      <4>2. CASE op[r].name \notin Bindings
        BY <1>1, <1>4, <4>2, WritesOf
      <4> QED  BY <4>1, <4>2
    <3>2. row[op[r].target] \in RowTypes /\ seen[r] \in RowTypes /\ None \in RowTypes
      BY <3>1 DEF Inv, Tables, InTables, LoadInv, LoadTypes, RowTypes
    <3> QED  BY <3>2 DEF Target
  <2>3. Only(r) /\ pc'[r] \notin Reading /\ \A q \in Requests \ {r} : moments'[q] = moments[q]
    BY <2>1 DEF Inv, Typed, Only, Reading
  <2>4. LoadTypes'
    <3>1. pc' \in [Requests -> States] /\ seen' \in [Requests -> RowTypes] /\ auth' = auth /\ answer' = answer
      BY <2>1, <2>2 DEF LoadInv, LoadTypes, States
    <3>2. \A q \in Requests : (moments'[q] = moments[q] /\ pc'[q] = pc[q]) \/ moments'[q] = {}
      BY <2>1 DEF Inv, Typed
    <3> QED  BY <3>1, <3>2 DEF LoadInv, LoadTypes
  <2> QED  BY <2>3, <2>4, LoadRest
<1> QED  BY <1>2, <1>3, <1>4

LEMMA WritesLoad ==
    ASSUME Inv, LoadInv, NEW r \in Requests, Cut(r) \/ Put(r) \/ Write(r) \/ Deadlocked(r)
    PROVE  LoadInv'
<1>1. ASSUME pc[r] \in Working, NEW w, NEW p \in {"put", "commit"}, Stage(r, w), Goto(r, p),
             UNCHANGED <<auth, seen, answer, moments>>, row' = row, bound' = bound, op' = op
      PROVE  LoadInv'
  <2>1. Only(r)
    BY <1>1 DEF Inv, Typed, Stage, Goto, Only
  <2> QED  BY <1>1, <2>1, GotoLoads DEF States, Reading, Working
<1>2. ASSUME NEW a \in {"CONFLICT", "DUPLICATE", "NOT_FOUND", "INTERNAL_ERROR"}, Finish(r, a),
             row' = row, bound' = bound, op' = op
      PROVE  LoadInv'
  BY <1>2, FinishLoads DEF Answers
<1>3. CASE Cut(r)
  BY <1>1, <1>3 DEF Cut, Working
<1>4. CASE Put(r)
  BY <1>1, <1>2, <1>4 DEF Put, Working
<1>5. CASE Write(r)
  BY <1>1, <1>2, <1>5 DEF Write, WriteNothing, WriteRow, Working
<1>6. CASE Deadlocked(r)
  BY <1>2, <1>6 DEF Deadlocked
<1> QED  BY <1>3, <1>4, <1>5, <1>6

LEMMA WhoIsRead ==
    ASSUME Inv, LoadInv, NEW r \in Requests, moments[r] # {}
    PROVE  op[r].by \in Users
BY OpTypes DEF LoadInv, LoadTypes, Reading

\* A commit adds what the tables say now to the moments of everybody who is loading.
LEMMA CommitLoads ==
    ASSUME Inv, LoadInv, NEW r \in Requests, Commit(r)
    PROVE  LoadInv'
<1>1. /\ moments' = [q \in Requests |-> IF moments[q] = {} THEN {}
                                        ELSE moments[q] \cup {Facts(op[q].by, row', bound')}]
      /\ answer' = [answer EXCEPT ![r] = "ok"] /\ op' = op
  BY DEF Commit
<1>2. InTables(row')
  BY CommitTables
<1>3. LoadTypes'
  <2>1. /\ pc' \in [Requests -> States] /\ auth' \in [Requests -> Authorities]
        /\ seen' \in [Requests -> RowTypes] /\ answer' \in [Requests -> Answers]
    BY <1>1, CommitEffect, FixedTyped DEF LoadInv, LoadTypes, States, RowTypes, Answers
  <2>2. ASSUME NEW q \in Requests, NEW m \in moments'[q] PROVE m.authority \in Authorities
    <3>1. CASE m \in moments[q]
      BY <3>1 DEF LoadInv, LoadTypes
    <3>2. CASE m = Facts(op[q].by, row', bound') /\ moments[q] # {}
      <4>1. op[q].by \in Users
        BY <3>2, WhoIsRead
      <4>2. PICK rows, pairs : rows = row' /\ pairs = bound'
        OBVIOUS
      <4> QED  BY <1>2, <3>2, <4>1, <4>2, FactsOf, AuthorityTyped
    <3> QED  BY <1>1, <3>1, <3>2
  <2>3. ASSUME NEW q \in Requests, moments'[q] # {} PROVE pc'[q] \in Reading
    <3>1. pc[q] \in Reading
      BY <1>1, <2>3 DEF LoadInv, LoadTypes
    <3>2. q # r
      BY <3>1, CommitEffect DEF Reading
    <3> QED  BY <3>1, <3>2, CommitEffect DEF Inv, Typed
  <2> QED  BY <2>1, <2>2, <2>3 DEF LoadTypes
<1>4. ASSUME NEW q \in Requests PROVE Loaded(q)'
  <2> SUFFICES ASSUME pc'[q] \in Reading PROVE Loaded(q)'
    BY DEF Loaded
  <2>1. q # r
    BY CommitEffect DEF Inv, Typed, Reading
  <2>2. op'[q] = op[q] /\ pc'[q] = pc[q] /\ auth'[q] = auth[q] /\ seen'[q] = seen[q]
    BY <2>1, CommitEffect DEF Inv, Typed
  <2>3. /\ Facts(op[q].by, row, bound) \in moments[q] /\ (auth[q].super <=> IsSuper(op[q].by))
        /\ auth[q].super => pc[q] = "check" /\ auth[q] = SuperAuthority
        /\ ~auth[q].super => \A m \in moments[q] : moments[q] = {m} => PartRead(q, m)
    BY <2>2 DEF LoadInv, Loaded
  <2>4. op[q].by \in Users
    BY <2>2, OpTypes DEF Reading
  <2>5. moments'[q] = moments[q] \cup {Facts(op[q].by, row', bound')}
    BY <1>1, <2>3
  <2>6. IsSuper(op[q].by)' <=> IsSuper(op[q].by)
    <3>1. (row'[op[q].by] # None /\ row'[op[q].by].super) = IsSuper(op[q].by)
      BY <2>4, CommitKeepsSuper
    <3> QED  BY <2>2, <3>1, <1>1 DEF IsSuper
  <2>7. \A m : PartRead(q, m)' <=> PartRead(q, m)
    BY <2>2 DEF PartRead
  <2>8. \A m \in moments'[q] : moments'[q] = {m} => moments[q] = {m}
    BY <2>3, <2>5
  <2>9. Facts(op'[q].by, row', bound') \in moments'[q]
    BY <2>2, <2>5
  <2> QED  BY <2>2, <2>3, <2>6, <2>7, <2>8, <2>9 DEF Loaded
<1> QED  BY <1>3, <1>4 DEF LoadInv

-----------------------------------------------------------------------------

LEMMA InitLoads == Init => LoadInv
<1> SUFFICES ASSUME Init PROVE LoadInv
  OBVIOUS
<1>1. LoadTypes
  BY FixedTyped DEF Init, LoadTypes, States, RowTypes, Answers
<1>2. \A r \in Requests : Loaded(r)
  BY DEF Init, Loaded, Reading
<1> QED  BY <1>1, <1>2 DEF LoadInv

LEMMA NextLoads == Inv /\ LoadInv /\ [Next]_vars => LoadInv'
<1> SUFFICES ASSUME Inv, LoadInv, [Next]_vars PROVE LoadInv'
  OBVIOUS
<1>1. ASSUME NEW r \in Requests, RejectToken(r) PROVE LoadInv'
  BY <1>1, FinishLoads DEF RejectToken, Answers
<1>2. ASSUME NEW r \in Requests, Receive(r) PROVE LoadInv'
  BY <1>2, ReceiveLoads
     DEF Receive, ListUsers, GetUser, CreateUser, UpdateUser, DeleteUser, CreateRole, UpdateRole, DeleteRole,
         UpdateMenu, DeletePost, BindUserRoles, BindUserPosts, BindRoleMenus, BindRoleDepts, GetRoleDepts
<1>3. ASSUME UNCHANGED vars PROVE LoadInv'
  <2>1. LoadTypes'
    BY <1>3 DEF vars, LoadInv, LoadTypes
  <2>2. \A r \in Requests : Loaded(r)'
    <3> SUFFICES ASSUME NEW r \in Requests PROVE Loaded(r)'
      OBVIOUS
    <3>1. PICK F : F = Facts(op[r].by, row, bound)
      OBVIOUS
    <3>2. F = Facts(op'[r].by, row', bound')
      BY <1>3, <3>1 DEF vars
    <3>3. \A m : PartRead(r, m)' <=> PartRead(r, m)
      BY <1>3 DEF vars, PartRead
    <3>4. IsSuper(op[r].by)' <=> IsSuper(op[r].by)
      BY <1>3 DEF vars, IsSuper
    <3>5. Loaded(r)
      BY DEF LoadInv
    <3> QED  BY <1>3, <3>1, <3>2, <3>3, <3>4, <3>5 DEF vars, Loaded
  <2> QED  BY <2>1, <2>2 DEF LoadInv
<1>4. ASSUME NEW r \in Requests, LoadAccount(r) \/ LoadPerms(r) \/ LoadRoles(r) \/ LoadDepts(r) PROVE LoadInv'
  BY <1>4, LoadAccountLoads, LoadPermsLoads, LoadRolesLoads, LoadDeptsLoads
<1>5. ASSUME NEW r \in Requests, Check(r) \/ Cut(r) \/ Put(r) \/ Write(r) \/ Deadlocked(r) \/ Commit(r) PROVE LoadInv'
  BY <1>5, CheckLoads, WritesLoad, CommitLoads
<1> QED  BY <1>1, <1>2, <1>3, <1>4, <1>5 DEF Next

LEMMA StagedTyped ==
    ASSUME Inv, NEW r \in Requests
    PROVE  /\ DOMAIN staged[r].rows \subseteq Rows /\ Range(staged[r].rows) \subseteq RowTypes
           /\ staged[r].cut \cup staged[r].put \subseteq Pairs
<1> DEFINE w == staged[r]
           o == op[r]
<1>1. Own(r) /\ InTables(row)
  BY DEF Inv, Tables
<1>2. CASE pc[r] \notin {"put", "commit"}
  BY <1>1, <1>2 DEF Own, Held, NoWrite, Range
<1>3. CASE pc[r] \in {"put", "commit"}
  <2>1. o \in Ops /\ WellFormed(o) /\ Checked(r) /\ Held(r)
    BY <1>1, <1>3, OpTypes DEF Own, Working
  <2>2. CASE o.name \in Bindings
    <3>1. DOMAIN w.rows = {} /\ w.cut \subseteq Pairs
      BY <1>3, <2>1, <2>2 DEF Held
    <3>2. w.put \subseteq Pairs
      <4>1. {o.target} \X o.ids \subseteq Pairs
        BY <2>1, <2>2, TableOfBinding
      <4> QED  BY <1>3, <2>1, <2>2, <4>1 DEF Held
    <3> QED  BY <3>1, <3>2 DEF Range
  <2>3. CASE o.name \notin Bindings
    <3>1. ~Reads(o) /\ pc[r] = "commit"
      BY <1>3, <2>1, <2>3 DEF Checked
    <3>2. /\ w.cut = {} /\ w.put = {}
          /\ \A x \in DOMAIN w.rows : x = o.target /\ Outcome(o, row[o.target], w.rows[x])
      BY <2>1, <2>3, <3>1 DEF Held
    <3>3. o.target \in Rows
      BY <2>1, <2>3, <3>1, WritesOf
    <3>4. ASSUME NEW x \in DOMAIN w.rows PROVE x \in Rows /\ w.rows[x] \in RowTypes
      <4>1. PICK v : v = w.rows[x]
        OBVIOUS
      <4>2. Outcome(o, row[o.target], v)
        BY <3>2, <3>4, <4>1
      <4>3. v \in RowTypes
        BY <1>1, <2>1, <2>3, <3>1, <3>3, <4>2, OutcomeTyped DEF Rows, RowTypes
      <4> QED  BY <3>2, <3>3, <4>1, <4>3
    <3> QED  BY <3>2, <3>4 DEF Range
  <2> QED  BY <2>2, <2>3
<1> QED  BY <1>2, <1>3

\* What has been loaded completely is real.
LEMMA LoadedIsReal ==
    ASSUME Inv, LoadInv
    PROVE  AuthorityIsReal
<1>1. TypeOK
  <2>1. row \in [Rows -> RowTypes] /\ bound \subseteq Pairs
    BY DEF Inv, Tables, InTables
  <2> QED  BY <2>1, StagedTyped DEF Inv, Typed, LoadInv, LoadTypes, States, Answers, TypeOK
<1>2. LoadedAuthorityIsReal
  <2> SUFFICES ASSUME NEW r \in Requests, pc[r] = "check", \A m, n \in moments[r] : m = n
               PROVE  \E m \in moments[r] : auth[r] = m.authority
    BY DEF LoadedAuthorityIsReal
  <2>1. PICK m \in moments[r] : m = Facts(op[r].by, row, bound)
    BY DEF LoadInv, Loaded, Reading
  <2>2. CASE auth[r].super
    <3>1. IsSuper(op[r].by) /\ auth[r] = SuperAuthority
      BY <2>2 DEF LoadInv, Loaded, Reading
    <3>2. m.authority = SuperAuthority
      BY <2>1, <3>1, FactsOf, AuthorityFields DEF IsSuper
    <3> QED  BY <3>1, <3>2
  <2>3. CASE ~auth[r].super
    <3>1. moments[r] = {m}
      OBVIOUS
    <3> QED  BY <2>3, <3>1 DEF LoadInv, Loaded, Reading, PartRead
  <2> QED  BY <2>2, <2>3
<1>3. ListShowsWhatGetShows
  BY DEF ListShowsWhatGetShows, Listed, SeesUser, SeesDept
<1> QED  BY <1>1, <1>2, <1>3 DEF AuthorityIsReal

\* The authority that the statements load one by one is the union over all the
\* active roles of the operator (role/provider.py:187), unless the tables have said
\* something else of it meanwhile; and types are kept.
THEOREM LoadedAuthorityStaysReal == Spec => []AuthorityIsReal
<1>1. Spec => []LoadInv
  BY InitLoads, NextLoads, AccessInvariance, PTL DEF Spec
<1>2. Inv /\ LoadInv => AuthorityIsReal
  BY LoadedIsReal
<1> QED  BY <1>1, <1>2, AccessInvariance, PTL

=============================================================================
