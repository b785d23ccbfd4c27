------------------------------- MODULE MCAccess -------------------------------
(* Access on a small instance: the super admin S, an administrator A with a  *)
(* role of its own, a user V that both see, one more user and one more role  *)
(* that may be created; d2 is below d1; two requests that interleave.        *)
EXTENDS Access, TLC

CONSTANTS r1, r2, S, A, V, N, ra, rb, rc, m1, m2, m3, p1, d1, d2, d3

TwoRequests == {r1, r2}
FourUsers == {S, A, V, N}
ThreeRoles == {ra, rb, rc}
ThreeMenus == {m1, m2, m3}
OnePost == {p1}
ThreeDepts == {d1, d2, d3}
MCBelow == d1 :> {d1, d2} @@ d2 :> {d2} @@ d3 :> {d3}
MCPerm == m1 :> "user" @@ m2 :> "role" @@ m3 :> "menu"

MCNeeds ==
    [n \in {"user_create", "user_update", "user_delete", "user_list", "user_get", "bind_roles", "bind_posts"} |-> "user"]
    @@ [n \in {"role_create", "role_update", "role_delete", "bind_menus", "bind_depts", "depts_get"} |-> "role"]
    @@ "menu_update" :> "menu" @@ "post_delete" :> "user"

Account(dept, super) == [dept |-> dept, active |-> TRUE, super |-> super]

Plain ==
    [row |-> S :> Account(None, TRUE) @@ A :> Account(d2, FALSE) @@ V :> Account(d3, FALSE) @@ N :> None
             @@ ra :> [scope |-> "custom", active |-> TRUE] @@ rb :> [scope |-> "below", active |-> TRUE]
             @@ rc :> None
             @@ m1 :> [active |-> TRUE] @@ m2 :> [active |-> TRUE] @@ m3 :> [active |-> FALSE]
             @@ p1 :> [active |-> TRUE],
     bound |-> {<<A, p1>>, <<A, ra>>, <<V, rb>>, <<ra, m1>>, <<ra, m2>>, <<ra, m3>>, <<ra, d1>>, <<ra, d3>>}]

Several ==
    [row |-> [Plain.row EXCEPT ![rc] = [scope |-> "self", active |-> FALSE], ![rb].scope = "dept"],
     bound |-> Plain.bound \cup {<<A, rb>>, <<A, rc>>, <<rc, m3>>}]

Alone ==
    [row |-> [Plain.row EXCEPT ![ra].scope = "self", ![m3] = [active |-> TRUE], ![A].dept = None],
     bound |-> Plain.bound \cup {<<A, rb>>}]

MCDatabases == {Plain, Several, Alone}

Ask(name, by, target, ids, change) ==
    [name |-> name, by |-> by, target |-> target, ids |-> ids, change |-> change]

BySuper ==
    {Ask("bind_roles", S, V, R, <<>>) : R \in {{}, {ra}, {rb, rc}}}
    \cup {Ask("bind_roles", S, A, {rb}, <<>>), Ask("bind_menus", S, rb, {m1}, <<>>),
          Ask("bind_menus", S, rb, {m2, m3}, <<>>), Ask("bind_depts", S, ra, {d2}, <<>>),
          Ask("bind_depts", S, ra, {}, <<>>)}
    \cup {Ask("role_update", S, x, {}, [scope |-> s]) : x \in {ra, rb}, s \in {"all", "custom"}}
    \cup {Ask("role_update", S, ra, {}, [active |-> FALSE]), Ask("role_update", S, rc, {}, [active |-> TRUE]),
          Ask("role_create", S, rc, {}, [scope |-> "all", active |-> TRUE]),
          Ask("role_delete", S, ra, {}, <<>>), Ask("role_delete", S, rb, {}, <<>>),
          Ask("menu_update", S, m1, {}, [active |-> FALSE]), Ask("menu_update", S, m3, {}, [active |-> TRUE]),
          Ask("user_update", S, A, {}, [dept |-> d1]), Ask("user_update", S, A, {}, [active |-> FALSE]),
          Ask("user_update", S, S, {}, [active |-> FALSE]), Ask("user_delete", S, S, {}, <<>>),
          Ask("user_delete", S, V, {}, <<>>)}

ByAdmin ==
    {Ask("user_update", A, u, {}, [dept |-> d]) : u \in {A, V}, d \in {d1, d3}}
    \cup {Ask("user_update", A, V, {}, [active |-> b]) : b \in BOOLEAN}
    \cup {Ask("user_create", A, N, {}, [dept |-> d2]), Ask("user_delete", A, V, {}, <<>>),
          Ask("user_delete", A, S, {}, <<>>), Ask("user_get", A, V, {}, <<>>),
          Ask("bind_posts", A, V, {p1}, <<>>), Ask("bind_posts", A, V, {}, <<>>), Ask("post_delete", A, p1, {}, <<>>),
          Ask("user_list", A, None, {}, <<>>),
          Ask("depts_get", A, ra, {}, <<>>), Ask("bind_roles", A, A, {rb}, <<>>),
          Ask("bind_depts", A, ra, {d2}, <<>>),
          Ask("role_create", A, rc, {}, RoleDefaults),
          Ask("role_create", A, rc, {}, [scope |-> "all", active |-> TRUE]),
          Ask("role_update", A, rb, {}, [scope |-> "all"]), Ask("role_update", A, ra, {}, <<>>),
          Ask("role_delete", A, rb, {}, <<>>), Ask("menu_update", A, m3, {}, [active |-> TRUE]),
          Ask("menu_update", A, m1, {}, <<>>), Ask("user_list", V, None, {}, <<>>)}

MCOps == BySuper \cup ByAdmin
RequestSymmetry == Permutations(TwoRequests)
==============================================================================
