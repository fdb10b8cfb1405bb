---------------------------- MODULE MCAddRevision ----------------------------
(***************************************************************************)
(* Small manifests for AddRevision.                                        *)
(***************************************************************************)
EXTENDS AddRevision

Unmarked(p) == [kind |-> "project", path |-> p, revision |-> Nothing]
Pinned(p) == [kind |-> "project", path |-> p, revision |-> Given]
Include(f) == [kind |-> "include", file |-> f]
Other == [kind |-> "other"]

Nested == [main |-> <<Unmarked("a"), Include("sub"), Other>>,
           sub |-> <<Other, Include("leaf"), Other>>,
           leaf |-> <<Unmarked("b"), Other>>]
Twice == [main |-> <<Include("leaf"), Pinned("a"), Include("sub"), Include("leaf")>>,
          sub |-> <<>>, leaf |-> <<Other, Other>>]
Cyclic == [main |-> <<Include("sub")>>, sub |-> <<Unmarked("a"), Include("main")>>]
Broken == [main |-> <<Unmarked("a"), Include("sub")>>, sub |-> <<Include("leaf")>>]
NoClone == [main |-> <<Unmarked("a"), Unmarked("gone"), Pinned("b")>>]
SmallTrees == {Nested, Twice, Cyclic, Broken, NoClone}

Tags == [c \in Commits |-> CASE c = "c1" -> "none" [] c = "c2" -> "light"
                             [] c = "c3" -> "annotated"]
=============================================================================
