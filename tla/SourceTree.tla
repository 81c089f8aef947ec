------------------------------ MODULE SourceTree ------------------------------
(* What a download promises whoever reads a grammar's directory: it holds  *)
(* nothing, and then the whole tree of one revision, for good.             *)
CONSTANTS Files, Revs
VARIABLE tree

Whole(r) == {<<f, r>> : f \in Files}
Init == tree = {}
Install == tree = {} /\ \E r \in Revs : tree' = Whole(r)
Spec == Init /\ [][Install]_tree
=============================================================================
