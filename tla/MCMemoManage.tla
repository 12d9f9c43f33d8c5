---------------------------- MODULE MCMemoManage ----------------------------
(* Small instances of MemoManage: the root group and one group in it. *)
EXTENDS MemoManage

CONSTANTS root, home, rootRow, homeRow

MCGroupId == {root, home}
MCGroups ==
  [g \in GroupId |->
     IF g = root
       THEN [parent |-> Null, title |-> Empty, tags |-> <<>>, groupMemos |-> <<homeRow>>]
       ELSE [parent |-> root, title |-> Empty, tags |-> <<2>>, groupMemos |-> <<>>]]

MCRows ==
  [r \in RowId |->
     CASE r = rootRow -> [type |-> "group", parent |-> root, typeId |-> Null, ref |-> root]
       [] r = homeRow -> [type |-> "group", parent |-> root, typeId |-> home, ref |-> home]
       [] OTHER -> Null]

ASSUME MCGroupsSorted == GroupsSorted

MCInputs == {<<1, Blank, 1>>}
Symmetry == Permutations(MemoId) \cup Permutations(RowId \ {rootRow, homeRow})
=============================================================================
