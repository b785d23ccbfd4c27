------------------------------ MODULE MCCatalog ------------------------------
(* Catalog on small instances: one dictionary with up to three entries, up   *)
(* to three posts, a setting and a notice; two requests that interleave.     *)
EXTENDS Catalog, TLC

CONSTANTS r1, r2, k1, k2

TwoRequests == {r1, r2}
TwoKeys == {k1, k2}
Nine == 1 .. 9
MCKind == <<"type", "data", "data", "data", "post", "post", "post", "notice", "config">>
MCSort == [s \in Nine |-> IF s = 7 THEN 1 ELSE 0]
MCCreated == [s \in Nine |-> s \div 6]

Empty == [s \in Nine |-> None]
Item(k, builtin) == [key |-> k, parent |-> None, builtin |-> builtin, default |-> FALSE]
Entry(k, default) == [key |-> k, parent |-> 1, builtin |-> FALSE, default |-> default]

MCTables ==
    {Empty,
     [Empty EXCEPT ![5] = Item(k1, FALSE), ![8] = Item(k1, FALSE)],
     [Empty EXCEPT ![9] = Item(k1, FALSE)],
     [Empty EXCEPT ![5] = Item(k1, FALSE), ![6] = Item(k2, FALSE)],
     [Empty EXCEPT ![1] = Item(k1, FALSE)],
     [Empty EXCEPT ![1] = Item(k1, TRUE)],
     [Empty EXCEPT ![1] = Item(k1, FALSE), ![2] = Entry(k1, TRUE)],
     [Empty EXCEPT ![1] = Item(k1, FALSE), ![2] = Entry(k1, TRUE), ![3] = Entry(k2, FALSE)]}

Ask(name, slot, kind, parent, keys, flag) ==
    [name |-> name, slot |-> slot, kind |-> kind, parent |-> parent, keys |-> keys, flag |-> flag]

MCOps ==
    {Ask("create", None, "type", None, {k1}, FALSE),
     Ask("create", None, "notice", None, {k1}, Unset),
     Ask("update", 1, "type", None, {}, TRUE),
     Ask("delete", 1, "type", None, {}, Unset),
     Ask("create", None, "config", None, {k1}, FALSE),
     Ask("update", 9, "config", None, {}, TRUE),
     Ask("delete", 9, "config", None, {}, Unset),
     Ask("delete", 2, "data", None, {}, Unset),
     Ask("delete", 5, "post", None, {}, Unset),
     Ask("delete", 8, "notice", None, {}, Unset),
     Ask("update", 8, "notice", None, {k2}, Unset),
     Ask("import", None, "post", None, {}, TRUE),
     Ask("import", None, "post", None, {k1}, FALSE),
     Ask("export", None, "post", None, {}, Unset)}
    \cup {Ask("create", None, "data", 1, {k}, f) : k \in TwoKeys, f \in BOOLEAN}
    \cup {Ask("update", s, "data", None, {}, f) : s \in {2, 3}, f \in BOOLEAN}
    \cup {Ask("update", 3, "data", None, {k1}, TRUE)}
    \cup {Ask("create", None, "post", None, {k}, Unset) : k \in TwoKeys}
    \cup {Ask("update", 5, "post", None, {k}, Unset) : k \in TwoKeys}
    \cup {Ask("import", None, "post", None, K, Unset) : K \in {{}, {k1}, TwoKeys}}

RequestSymmetry == Permutations(TwoRequests)
==============================================================================
