---------------------------- MODULE MCGroupList -----------------------------
(* A small instance of GroupList: a memo and a group, and one more to add. *)
EXTENDS GroupList

CONSTANTS r1, r2, r3

MCFirst == <<r1, r2>>
MCShort == <<r1>>
MCInputs == {<<1, 1>>, <<2>>}
=============================================================================
