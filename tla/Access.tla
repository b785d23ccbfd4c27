-------------------------------- MODULE Access --------------------------------
(* Who may do what: users, roles, menus with their permissions, and the      *)
(* bindings between them. A request first loads the authority of its         *)
(* operator, statement by statement, in the transaction it later writes in.  *)
(* The engine runs at READ COMMITTED: every statement sees what is committed *)
(* by then. Names and codes of rows stand for the rows themselves, and the   *)
(* permissions of one resource for each other. Audit rows, failing commits   *)
(* and crashes are in Catalog; trees and departments in TreeWrites.          *)
EXTENDS Integers, FiniteSets, Functions

CONSTANTS
    Requests,
    Users, Roles, Menus, Posts, Depts,
    Below,      \* [Depts -> SUBSET Depts]: a department with its descendants
    Perm,       \* [Menus -> permissions]
    Needs,      \* [names of operations -> permissions]
    Databases,  \* contents the tables may start with
    Ops,        \* the requests that may come
    None

VARIABLES
    row,        \* committed rows of users, roles, menus and posts
    bound,      \* committed pairs of user_roles, user_posts, role_menus and role_depts
    op,         \* what each request asks for
    pc,         \* where it is
    auth,       \* the authority it has loaded
    seen,       \* the row of its identity map: the operator's, then the target's
    staged,     \* what it has written and not committed
    answer,
    moments     \* history: what the tables said of its operator while they were read

vars == <<row, bound, op, pc, auth, seen, staged, answer, moments>>

Rows == Users \cup Roles \cup Menus \cup Posts
UserRow == [dept : Depts \cup {None}, active : BOOLEAN, super : BOOLEAN]
Scopes == {"all", "custom", "dept", "below", "self"}
RoleRow == [scope : Scopes, active : BOOLEAN]
MenuRow == [active : BOOLEAN]
PostRow == [active : BOOLEAN]
RowTypes == UserRow \cup RoleRow \cup MenuRow \cup PostRow \cup {None}
Pairs == (Users \X (Roles \cup Posts)) \cup (Roles \X (Menus \cup Depts))

Authorities ==
    [super : BOOLEAN, perms : SUBSET Range(Perm), all : BOOLEAN, depts : SUBSET Depts, self : BOOLEAN,
     custom : SUBSET Roles]     \* roles whose departments are still to be read
NoAuthority ==
    [super |-> FALSE, perms |-> {}, all |-> FALSE, depts |-> {}, self |-> FALSE, custom |-> {}]
SuperAuthority == [NoAuthority EXCEPT !.super = TRUE, !.all = TRUE]

NoWrite == [rows |-> <<>>, cut |-> {}, put |-> {}]
NoOp == [name |-> "none", by |-> None, target |-> None, ids |-> {}, change |-> <<>>]

TypeOK ==
    /\ row \in [Rows -> RowTypes]
    /\ bound \subseteq Pairs
    /\ op \in [Requests -> Ops \cup {NoOp}]
    /\ pc \in [Requests -> {"idle", "account", "perms", "roles", "depts", "check", "lock", "put",
                            "write", "commit", "done"}]
    /\ auth \in [Requests -> Authorities]
    /\ seen \in [Requests -> RowTypes]
    /\ \A r \in Requests : LET w == staged[r]
                           IN  /\ DOMAIN w.rows \subseteq Rows /\ Range(w.rows) \subseteq RowTypes
                               /\ w.cut \cup w.put \subseteq Pairs
    /\ answer \in [Requests -> {None, "ok", "UNAUTHENTICATED", "DISABLED", "FORBIDDEN", "SCOPE", "NOT_FOUND", "INVALID",
                                "DUPLICATE", "LAST_SUPER_ADMIN", "CONFLICT", "INTERNAL_ERROR"}]
    /\ \A r \in Requests : \A m \in moments[r] : m.authority \in Authorities

Init ==
    /\ \E d \in Databases : row = d.row /\ bound = d.bound
    /\ op = [r \in Requests |-> NoOp]
    /\ pc = [r \in Requests |-> "idle"]
    /\ auth = [r \in Requests |-> NoAuthority]
    /\ seen = [r \in Requests |-> None]
    /\ staged = [r \in Requests |-> NoWrite]
    /\ answer = [r \in Requests |-> None]
    /\ moments = [r \in Requests |-> {}]

ASSUME AccessAssumption ==
    /\ Below \in [Depts -> SUBSET Depts] /\ \A d \in Depts : d \in Below[d]
    /\ Perm \in [Menus -> Range(Perm)]
    /\ \A o \in Ops : o.name \in DOMAIN Needs

(* Ids of different tables are different, and None is none of them.          *)
ASSUME TablesAssumption ==
    /\ \A i, j \in 1 .. 5 : i # j => LET t == <<Users, Roles, Menus, Posts, Depts>> IN t[i] \cap t[j] = {}
    /\ None \notin Rows \cup Depts \cup UserRow \cup RoleRow \cup MenuRow \cup PostRow

(* The schema: columns, foreign keys with their cascade, and the unique      *)
(* column of which the super admin has the only value; it is active.         *)
InTables(rows) ==
    /\ rows \in [Rows -> RowTypes]
    /\ \A u \in Users : rows[u] \in UserRow \cup {None}
    /\ \A x \in Roles : rows[x] \in RoleRow \cup {None}
    /\ \A m \in Menus : rows[m] \in MenuRow \cup {None}
    /\ \A p \in Posts : rows[p] \in PostRow \cup {None}

OneSuper(rows) ==
    \E s \in Users :
        /\ rows[s] # None /\ rows[s].super /\ rows[s].active
        /\ \A u \in Users \ {s} : rows[u] # None => ~rows[u].super

BothEnds(rows, pairs) == \A p \in pairs : \A x \in {p[1], p[2]} \cap Rows : rows[x] # None

ASSUME DatabasesAssumption ==
    \A d \in Databases : InTables(d.row) /\ OneSuper(d.row) /\ d.bound \subseteq Pairs /\ BothEnds(d.row, d.bound)

(* The schemas of the requests: which fields a payload may have. The super   *)
(* flag is not among them (user/schemas.py:4).                               *)
Payload(o, typed) == \A f \in DOMAIN o.change : f \in DOMAIN typed /\ o.change[f] \in typed[f]

WellFormed(o) ==
    \/ o.name = "user_create" /\ o.target \in Users /\ o.change \in [dept : Depts \cup {None}]
    \/ o.name = "user_update" /\ o.target \in Users /\ Payload(o, [dept |-> Depts \cup {None}, active |-> BOOLEAN])
    \/ o.name \in {"user_delete", "user_get"} /\ o.target \in Users /\ o.change = <<>>
    \/ o.name = "role_create" /\ o.target \in Roles /\ o.change \in RoleRow
    \/ o.name = "role_update" /\ o.target \in Roles /\ Payload(o, [scope |-> Scopes, active |-> BOOLEAN])
    \/ o.name \in {"role_delete", "depts_get"} /\ o.target \in Roles /\ o.change = <<>>
    \/ o.name = "menu_update" /\ o.target \in Menus /\ Payload(o, [active |-> BOOLEAN])
    \/ o.name = "post_delete" /\ o.target \in Posts /\ o.change = <<>>
    \/ o.name = "bind_roles" /\ o.target \in Users /\ o.ids \subseteq Roles /\ o.change = <<>>
    \/ o.name = "bind_posts" /\ o.target \in Users /\ o.ids \subseteq Posts /\ o.change = <<>>
    \/ o.name = "bind_menus" /\ o.target \in Roles /\ o.ids \subseteq Menus /\ o.change = <<>>
    \/ o.name = "bind_depts" /\ o.target \in Roles /\ o.ids \subseteq Depts /\ o.change = <<>>
    \/ o.name = "user_list" /\ o.change = <<>>

ASSUME OpsAssumption == \A o \in Ops : o.by \in Users /\ WellFormed(o)

------------------------------------------------------------------------------
(* What the tables say a user may do, were every one of them read at once:   *)
(* the definition that the statement-wise loading below is measured by.      *)
Holds(u, rows, pairs) == {r \in Roles : <<u, r>> \in pairs /\ rows[r] # None /\ rows[r].active}

PermsOf(u, rows, pairs) ==
    {Perm[m] : m \in {n \in Menus : rows[n] # None /\ rows[n].active
                                    /\ \E r \in Holds(u, rows, pairs) : <<r, n>> \in pairs}}

(* compute_effective_data_scope: the union over the roles, all of it if one  *)
(* says so. A user without department gains nothing from "dept" or "below".  *)
WithScope(rows, roles, s) == \E r \in roles : rows[r].scope = s

OwnDepts(rows, roles, dept) ==
    IF dept = None THEN {}
    ELSE (IF WithScope(rows, roles, "dept") THEN {dept} ELSE {})
         \cup (IF WithScope(rows, roles, "below") THEN Below[dept] ELSE {})

CustomDepts(roles, pairs) == {d \in Depts : \E r \in roles : <<r, d>> \in pairs}

CustomRoles(rows, roles) == {r \in roles : rows[r].scope = "custom"}

Authority(u, rows, pairs) ==
    LET roles == Holds(u, rows, pairs)
        mine == [NoAuthority EXCEPT !.perms = PermsOf(u, rows, pairs)]
    IN  IF rows[u] = None THEN NoAuthority
        ELSE IF rows[u].super THEN SuperAuthority
        ELSE IF WithScope(rows, roles, "all") THEN [mine EXCEPT !.all = TRUE]
        ELSE [mine EXCEPT !.depts = OwnDepts(rows, roles, rows[u].dept)
                                    \cup CustomDepts(CustomRoles(rows, roles), pairs),
                          !.self = WithScope(rows, roles, "self")]

(* All that the tables say of a user: the authority, and the roles it is     *)
(* made of, with their rows and departments.                                 *)
Facts(u, rows, pairs) ==
    [authority |-> Authority(u, rows, pairs),
     roles |-> {<<x, rows[x], {d \in Depts : <<x, d>> \in pairs}>> : x \in Holds(u, rows, pairs)}]

------------------------------------------------------------------------------
(* require_permission: a_load_authz_context in the request's transaction.    *)
Goto(r, p) == pc' = [pc EXCEPT ![r] = p]

Finish(r, a) ==
    /\ answer' = [answer EXCEPT ![r] = a]
    /\ Goto(r, "done")
    /\ auth' = [auth EXCEPT ![r] = NoAuthority]
    /\ seen' = [seen EXCEPT ![r] = None]
    /\ staged' = [staged EXCEPT ![r] = NoWrite]
    /\ moments' = [moments EXCEPT ![r] = {}]

(* AuthMiddleware: a token that is missing, forged or expired goes no        *)
(* further. A good one only names the operator, who may be gone by now.      *)
RejectToken(r) ==
    /\ pc[r] = "idle"
    /\ Finish(r, "UNAUTHENTICATED")
    /\ UNCHANGED <<row, bound, op>>

Asks(r, name) ==
    /\ pc[r] = "idle"
    /\ \E o \in Ops : o.name = name /\ op' = [op EXCEPT ![r] = o]
    /\ Goto(r, "account")
    /\ UNCHANGED <<row, bound, auth, seen, staged, answer, moments>>

ListUsers(r) == Asks(r, "user_list")
GetUser(r) == Asks(r, "user_get")
CreateUser(r) == Asks(r, "user_create")
UpdateUser(r) == Asks(r, "user_update")
DeleteUser(r) == Asks(r, "user_delete")
CreateRole(r) == Asks(r, "role_create")
UpdateRole(r) == Asks(r, "role_update")
DeleteRole(r) == Asks(r, "role_delete")
UpdateMenu(r) == Asks(r, "menu_update")
DeletePost(r) == Asks(r, "post_delete")
BindUserRoles(r) == Asks(r, "bind_roles")
BindUserPosts(r) == Asks(r, "bind_posts")
BindRoleMenus(r) == Asks(r, "bind_menus")
BindRoleDepts(r) == Asks(r, "bind_depts")
GetRoleDepts(r) == Asks(r, "depts_get")

Receive(r) ==
    \/ ListUsers(r) \/ GetUser(r) \/ CreateUser(r) \/ UpdateUser(r) \/ DeleteUser(r)
    \/ CreateRole(r) \/ UpdateRole(r) \/ DeleteRole(r) \/ UpdateMenu(r) \/ DeletePost(r)
    \/ BindUserRoles(r) \/ BindUserPosts(r) \/ BindRoleMenus(r) \/ BindRoleDepts(r) \/ GetRoleDepts(r)

(* The row of the operator stays in the identity map: its department is not  *)
(* read again. A super admin is asked for nothing more.                      *)
LoadAccount(r) ==
    /\ pc[r] = "account"
    /\ LET me == row[op[r].by]
       IN  IF me = None \/ ~me.active THEN Finish(r, "DISABLED")
           ELSE /\ seen' = [seen EXCEPT ![r] = me]
                /\ auth' = [auth EXCEPT ![r] = IF me.super THEN SuperAuthority ELSE NoAuthority]
                /\ moments' = [moments EXCEPT ![r] = {Facts(op[r].by, row, bound)}]
                /\ Goto(r, IF me.super THEN "check" ELSE "perms")
                /\ UNCHANGED <<staged, answer>>
    /\ UNCHANGED <<row, bound, op>>

LoadPerms(r) ==
    /\ pc[r] = "perms"
    /\ auth' = [auth EXCEPT ![r].perms = PermsOf(op[r].by, row, bound)]
    /\ Goto(r, "roles")
    /\ UNCHANGED <<row, bound, op, seen, staged, answer, moments>>

(* Faulty variant: a custom role takes the place of the others.              *)
LoadRoles_CustomAlone(r) ==
    /\ pc[r] = "roles"
    /\ LET roles == Holds(op[r].by, row, bound)
           custom == CustomRoles(row, roles)
       IN  IF WithScope(row, roles, "all") THEN auth' = [auth EXCEPT ![r].all = TRUE] /\ Goto(r, "check")
           ELSE /\ auth' = [auth EXCEPT
                              ![r].depts = IF custom = {} THEN OwnDepts(row, roles, seen[r].dept) ELSE {},
                              ![r].self = WithScope(row, roles, "self"),
                              ![r].custom = custom]
                /\ Goto(r, IF custom = {} THEN "check" ELSE "depts")
    /\ UNCHANGED <<row, bound, op, seen, staged, answer, moments>>

LoadRoles(r) ==
    /\ pc[r] = "roles"
    /\ LET roles == Holds(op[r].by, row, bound)
           custom == CustomRoles(row, roles)
       IN  IF WithScope(row, roles, "all") THEN auth' = [auth EXCEPT ![r].all = TRUE] /\ Goto(r, "check")
           ELSE /\ auth' = [auth EXCEPT ![r].depts = OwnDepts(row, roles, seen[r].dept),
                                        ![r].self = WithScope(row, roles, "self"),
                                        ![r].custom = custom]
                /\ Goto(r, IF custom = {} THEN "check" ELSE "depts")
    /\ UNCHANGED <<row, bound, op, seen, staged, answer, moments>>

(* One statement for each custom role, whatever became of it meanwhile.      *)
LoadDepts(r) ==
    /\ pc[r] = "depts"
    /\ \E x \in auth[r].custom :
          /\ auth' = [auth EXCEPT ![r].depts = @ \cup CustomDepts({x}, bound), ![r].custom = @ \ {x}]
          /\ Goto(r, IF auth[r].custom = {x} THEN "check" ELSE "depts")
    /\ UNCHANGED <<row, bound, op, seen, staged, answer, moments>>

------------------------------------------------------------------------------
(* What an authority lets its holder see: is_dept_visible, and for users the *)
(* holder's own row (_user_visible).                                         *)
SeesDept(a, dept) == a.all \/ dept \in a.depts

(* Faulty variant: "self" is forgotten where a single row is asked for.      *)
SeesUser_DeptOnly(a, me, u, r) == SeesDept(a, r.dept)

SeesUser(a, me, u, r) == SeesDept(a, r.dept) \/ (a.self /\ u = me)

(* apply_data_scope: the WHERE clause of the list.                           *)
Listed(a, me) ==
    {u \in Users : row[u] # None /\ (\/ a.all
                                     \/ (a.depts # {} /\ row[u].dept \in a.depts)
                                     \/ (a.self /\ u = me))}

(* The row that `get` returns: None when no row is there any more, but the   *)
(* values of the first read when the operator asks for itself.               *)
Target(r) ==
    LET o == op[r] IN
    IF o.target = None \/ row[o.target] = None THEN None
    ELSE IF o.target = o.by THEN seen[r] ELSE row[o.target]

(* The fields that decide what others may do: for the super admin only, save *)
(* for a new role with the defaults.                                         *)
RoleDefaults == [scope |-> "self", active |-> TRUE]
GraphBindings == {"bind_roles", "bind_menus", "bind_depts"}
Bindings == GraphBindings \cup {"bind_posts"}

(* Faulty variant: an update may change what a creation may not set.         *)
RoleRoots_CreateOnly(o) == o.name = "role_create" /\ o.change # RoleDefaults

RoleRoots(o) ==
    \/ o.name = "role_update" /\ o.change # <<>>
    \/ o.name = "role_create" /\ o.change # RoleDefaults

MenuRoots(o) == o.name = "menu_update" /\ o.change # <<>>

TouchesGraph(o) == o.name \in GraphBindings \/ RoleRoots(o) \/ MenuRoots(o)

(* Faulty variant: a super admin may be switched off, if not deleted.        *)
EndsLastSuper_DeleteOnly(r) ==
    op[r].name = "user_delete" /\ Target(r).super
        /\ Cardinality({u \in Users : row[u] # None /\ row[u].super}) <= 1

EndsLastSuper(r) ==
    /\ \/ op[r].name = "user_delete"
       \/ op[r].name = "user_update" /\ "active" \in DOMAIN op[r].change /\ ~op[r].change.active
    /\ Target(r).super
    /\ Cardinality({u \in Users : row[u] # None /\ row[u].super}) <= 1

Creates(o) == o.name \in {"user_create", "role_create"}

(* The department that a row is created in or moved to must be visible.      *)
OutOfScope(r) ==
    "dept" \in DOMAIN op[r].change /\ ~SeesDept(auth[r], op[r].change.dept)

Hidden(r) ==
    LET o == op[r] IN
    Target(r) = None \/ (o.target \in Users /\ ~SeesUser(auth[r], o.by, o.target, Target(r)))

UserRefusal(r) ==
    IF op[r].name # "user_create" /\ Hidden(r) THEN "NOT_FOUND"
    ELSE IF OutOfScope(r) THEN "SCOPE"
    ELSE IF op[r].name = "user_create" /\ Target(r) # None THEN "DUPLICATE"
    ELSE IF EndsLastSuper(r) THEN "LAST_SUPER_ADMIN" ELSE "none"

RoleRefusal(r) ==
    CASE op[r].name # "role_create" /\ Target(r) = None -> "NOT_FOUND"
      [] op[r].name = "role_create" /\ Target(r) # None -> "DUPLICATE"
      [] OTHER -> "none"

(* All the ids must exist, or nothing is bound.                              *)
IdsMissing(r) == \E x \in op[r].ids \cap Rows : row[x] = None

BindingRefusal(r) ==
    IF Hidden(r) THEN "NOT_FOUND" ELSE IF IdsMissing(r) THEN "INVALID" ELSE "none"

DeptsRefusal(r) ==
    IF Target(r) = None THEN "NOT_FOUND"
    ELSE IF \E d \in CustomDepts({op[r].target}, bound) : ~SeesDept(auth[r], d) THEN "SCOPE" ELSE "none"

UserNames == {"user_create", "user_update", "user_delete", "user_get"}
RoleNames == {"role_create", "role_update", "role_delete", "menu_update", "post_delete"}

Refusal(r) ==
    IF ~auth[r].super /\ (Needs[op[r].name] \notin auth[r].perms \/ TouchesGraph(op[r])) THEN "FORBIDDEN"
    ELSE CASE op[r].name \in UserNames -> UserRefusal(r)
           [] op[r].name \in RoleNames -> RoleRefusal(r)
           [] op[r].name \in Bindings -> BindingRefusal(r)
           [] op[r].name = "depts_get" -> DeptsRefusal(r)
           [] op[r].name = "user_list" -> "none"

(* The guard and the checks of the service.                                  *)
Reads(o) == o.name \in {"user_list", "user_get", "depts_get"}

Check(r) ==
    /\ pc[r] = "check"
    /\ IF Refusal(r) # "none" THEN Finish(r, Refusal(r))
       ELSE IF Reads(op[r]) THEN Finish(r, "ok")
       ELSE /\ seen' = [seen EXCEPT ![r] = Target(r)]
            /\ moments' = [moments EXCEPT ![r] = {}]
            /\ Goto(r, IF op[r].name \in Bindings THEN "lock" ELSE "write")
            /\ UNCHANGED <<auth, staged, answer>>
    /\ UNCHANGED <<row, bound, op>>

------------------------------------------------------------------------------
(* Row locks: rows that both write, binding rows that both delete or insert, *)
(* and the rows that a new binding refers to. (External: InnoDB.)            *)
Touched(w) == DOMAIN w.rows
Gone(w) == {x \in Touched(w) : w.rows[x] = None}
Ends(w) == {p[1] : p \in w.put} \cup {p[2] : p \in w.put}
LockedPairs(w) == w.cut \cup w.put \cup {p \in bound : p[1] \in Gone(w) \/ p[2] \in Gone(w)}

Waits(r, w) ==
    \E q \in Requests \ {r} :
        \/ Touched(w) \cap (Touched(staged[q]) \cup Ends(staged[q])) # {}
        \/ Ends(w) \cap Touched(staged[q]) # {}
        \/ LockedPairs(w) \cap LockedPairs(staged[q]) # {}

Stage(r, w) == staged' = [staged EXCEPT ![r] = w]

(* Replacing the bindings of a subject: under a lock of the whole table, the *)
(* rows that are committed by then are deleted, and the new ones inserted.   *)
(* Faulty variant: nothing keeps two replacements apart.                     *)
Lock_Shared(r) == TRUE

Lock(r) == \A q \in Requests \ {r} : op[q].name = op[r].name => pc[q] \notin {"put", "commit"}

Table(o) ==
    CASE o.name = "bind_roles" -> Users \X Roles
      [] o.name = "bind_posts" -> Users \X Posts
      [] o.name = "bind_menus" -> Roles \X Menus
      [] o.name = "bind_depts" -> Roles \X Depts

Of(o, pairs) == {p \in pairs : p[1] = o.target /\ p \in Table(o)}

Cut(r) ==
    LET old == Of(op[r], bound)
        w == [NoWrite EXCEPT !.cut = old]
    IN  /\ pc[r] = "lock" /\ Lock(r)
        /\ ~Waits(r, w) /\ Stage(r, w)
        /\ Goto(r, "put")
        /\ UNCHANGED <<row, bound, op, auth, seen, answer, moments>>

(* An id that has gone since the check breaks the foreign key; a pair that   *)
(* is there already, the unique index.                                       *)
Put(r) ==
    LET new == {op[r].target} \X op[r].ids
        w == [staged[r] EXCEPT !.put = new]
    IN  /\ pc[r] = "put" /\ ~Waits(r, w)
        /\ IF \/ \E x \in Ends(w) \cap Rows : row[x] = None
              \/ new \cap (bound \ w.cut) # {}
           THEN Finish(r, "CONFLICT")
           ELSE Stage(r, w) /\ Goto(r, "commit") /\ UNCHANGED <<auth, seen, answer, moments>>
        /\ UNCHANGED <<row, bound, op>>

(* The other writes. An UPDATE names the columns that differ from the row of *)
(* the identity map, and finds no row when it has been deleted meanwhile.    *)
(* Deletions cascade to the bindings.                                        *)
(* Faulty variant: the columns that the payload leaves out get no default.   *)
NewRow_NoDefaults(o) == o.change

NewRow(o) ==
    IF o.name = "user_create" THEN [dept |-> o.change.dept, active |-> TRUE, super |-> FALSE] ELSE o.change

Differing(r) == {f \in DOMAIN op[r].change : op[r].change[f] # seen[r][f]}

Change(r) ==
    LET old == row[op[r].target]
    IN  [f \in DOMAIN old |-> IF f \in Differing(r) THEN op[r].change[f] ELSE old[f]]

Deletes(o) == o.name \in {"user_delete", "role_delete", "post_delete"}

Written(r) ==
    LET o == op[r]
        value == CASE Creates(o) -> NewRow(o)
                   [] Deletes(o) -> None
                   [] OTHER -> Change(r)
    IN  [NoWrite EXCEPT !.rows = [x \in {o.target} |-> value]]

Vanished(r) == ~Creates(op[r]) /\ row[op[r].target] = None

(* A second deletion finds nothing to do, and neither does an update of a    *)
(* user in which no column differs. A user is selected once more before it   *)
(* is written: gone by then it is not found, gone later the UPDATE meets no  *)
(* row. A role or a menu comes from the identity map and breaks the refresh. *)
WritesNoRow(r) == Deletes(op[r]) \/ (op[r].name = "user_update" /\ Differing(r) = {})

WriteNothing(r) ==
    \/ /\ WritesNoRow(r) /\ Stage(r, NoWrite) /\ Goto(r, "commit")
       /\ UNCHANGED <<auth, seen, answer, moments>>
    \/ op[r].name = "user_update" /\ Finish(r, "NOT_FOUND")
    \/ ~WritesNoRow(r) /\ Finish(r, "INTERNAL_ERROR")

WriteRow(r) ==
    /\ ~Waits(r, Written(r))
    /\ IF Creates(op[r]) /\ row[op[r].target] # None THEN Finish(r, "DUPLICATE")
       ELSE Stage(r, Written(r)) /\ Goto(r, "commit") /\ UNCHANGED <<auth, seen, answer, moments>>

Write(r) ==
    /\ pc[r] = "write"
    /\ IF Vanished(r) THEN WriteNothing(r) ELSE WriteRow(r)
    /\ UNCHANGED <<row, bound, op>>

(* Two that wait for each other: one of them is told so and rolled back.     *)
Deadlocked(r) ==
    /\ \/ pc[r] = "put" /\ Waits(r, [staged[r] EXCEPT !.put = {op[r].target} \X op[r].ids])
       \/ pc[r] = "write" /\ ~Vanished(r) /\ Waits(r, Written(r))
    /\ Finish(r, "INTERNAL_ERROR")
    /\ UNCHANGED <<row, bound, op>>

(* Faulty variant: no ON DELETE CASCADE, no foreign key.                     *)
BoundAfter_NoCascade(w) == (bound \ w.cut) \cup w.put

BoundAfter(w) ==
    {p \in (bound \ w.cut) \cup w.put : p[1] \notin Gone(w) /\ p[2] \notin Gone(w)}

RowsAfter(w) == [x \in Rows |-> IF x \in Touched(w) THEN w.rows[x] ELSE row[x]]

Commit(r) ==
    /\ pc[r] = "commit"
    /\ row' = RowsAfter(staged[r])
    /\ bound' = BoundAfter(staged[r])
    /\ answer' = [answer EXCEPT ![r] = "ok"]
    /\ Goto(r, "done")
    /\ auth' = [auth EXCEPT ![r] = NoAuthority]
    /\ seen' = [seen EXCEPT ![r] = None]
    /\ staged' = [staged EXCEPT ![r] = NoWrite]
    /\ moments' = [q \in Requests |-> IF moments[q] = {} THEN {}
                                      ELSE moments[q] \cup {Facts(op[q].by, row', bound')}]
    /\ UNCHANGED op

Next ==
    \E r \in Requests :
        \/ RejectToken(r) \/ Receive(r) \/ LoadAccount(r) \/ LoadPerms(r) \/ LoadRoles(r) \/ LoadDepts(r) \/ Check(r)
        \/ Cut(r) \/ Put(r) \/ Write(r) \/ Deadlocked(r) \/ Commit(r)

Spec == Init /\ [][Next]_vars

------------------------------------------------------------------------------
Committed(r) == pc[r] = "commit" /\ pc'[r] = "done"

(* Loading statement by statement gives what the tables say, whenever they   *)
(* have said only one thing about the operator since the request came        *)
(* (role/provider.py:187: the union over all roles, the short cuts, and no   *)
(* disabled role or menu).                                                   *)
LoadedAuthorityIsReal ==
    \A r \in Requests :
        pc[r] = "check" /\ (\A m, n \in moments[r] : m = n) => \E m \in moments[r] : auth[r] = m.authority

(* The authority that a request acts with is one that its operator held at   *)
(* some moment: the comments say the authorization reads and the business    *)
(* write share one snapshot (role/provider.py:110).                          *)
ActsOnOneSnapshot ==
    \A r \in Requests : pc[r] = "check" => \E m \in moments[r] : auth[r] = m.authority

(* No binding outlives its role or its user, although the ids are checked    *)
(* long before the insert and rows are deleted meanwhile                     *)
(* (rbac_binding/service.py:76).                                             *)
BindingsHaveBothEnds == BothEnds(row, bound)

(* Of two replacements at the same moment one wins: what is bound afterwards *)
(* is what one request asked for, never the union (role/repository.py:145).  *)
BindingIsOneRequest ==
    [][\A r \in Requests :
          Committed(r) /\ op[r].name \in Bindings => Of(op[r], bound') = {op[r].target} \X op[r].ids]_vars

(* Whatever a request without the super admin's authority commits, and       *)
(* whatever was committed since its checks, no user may do more afterwards,  *)
(* nor see a department that is not below one the operator sees              *)
(* (role/service.py:28, rbac_binding/service.py:70).                         *)
NobodyGains ==
    [][\A r \in Requests : Committed(r) /\ ~auth[r].super =>
          \A u \in Users :
              LET before == Authority(u, row, bound)
                  after == Authority(u, row', bound')
                  near == IF auth[r].all THEN Depts ELSE UNION {Below[d] : d \in auth[r].depts}
              IN  /\ after.perms \subseteq before.perms
                  /\ after.all => before.all
                  /\ before.all \/ after.depts \subseteq before.depts \cup near]_vars

(* There is always a super admin who can log in (user/service.py:111: the    *)
(* count is read without a lock, but there is never more than one).          *)
ManagementIsKept == \E u \in Users : row[u] # None /\ row[u].super /\ row[u].active

(* The WHERE clause of the list and the check of single rows are written     *)
(* twice; they show the same users for every authority that can be loaded    *)
(* (authz/data_scope.py:17, user/service.py:37).                             *)
ListShowsWhatGetShows ==
    \A r \in Requests : pc[r] = "check" =>
        Listed(auth[r], op[r].by) = {u \in Users : row[u] # None /\ SeesUser(auth[r], op[r].by, u, row[u])}

(* What a request may do and see is what the tables say of its operator, and *)
(* no variable leaves its type.                                              *)
AuthorityIsReal == TypeOK /\ LoadedAuthorityIsReal /\ ListShowsWhatGetShows

(* A binding is what one request asked for and dies with either end.         *)
BindingsAreWhole == []BindingsHaveBothEnds /\ BindingIsOneRequest
==============================================================================
