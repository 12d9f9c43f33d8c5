---------------------------- MODULE MCGroupManage ---------------------------
(* A small instance of GroupManage: the root and the groups made in it. *)
EXTENDS GroupManage

MCInputs == {<<2, Blank, 1>>, <<1>>}
Symmetry == Permutations(GroupId \ {Root}) \cup Permutations(RowId \ {RootRow})
=============================================================================
