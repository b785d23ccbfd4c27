------------------------------ MODULE MCMenuSeed ------------------------------
(* Seeds on a small instance: two seeds, each of one of two versions of a    *)
(* manifest (a directory, with a button or without), one edit, one deletion  *)
(* of a row of app_locks. The table is empty, seeded by a version in which   *)
(* the button was a page, or seeded so and then edited: the page stands at   *)
(* the root with a user's page below it.                                     *)
EXTENDS MenuSeed, TLC

CONSTANTS s1, s2, e1, api, dir, leaf

TwoSeeds == {s1, s2}
OneEdit == {e1}
AllTasks == {s1, s2, e1}
Process == [t \in AllTasks |-> IF t \in OneEdit THEN api ELSE t]
SeedSymmetry == Permutations(TwoSeeds)
TwoNames == {"rbac:seed", "menu:tree"}
FourIds == 1 .. 4
TwoKeys == {dir, leaf}

Dir == [key |-> dir, parent |-> None, type |-> "page"]
Leaf == [key |-> leaf, parent |-> dir, type |-> "button"]
Versions == {<<Dir, Leaf>>, <<Dir>>}

Made(key, parent) == [key |-> key, parent |-> parent, type |-> "page", status |-> "active"]
Tables == {<<>>, <<Made(dir, Root), Made(leaf, 1)>>,
           <<Made(dir, Root), Made(leaf, Root), Made(None, 2)>>}
===============================================================================
