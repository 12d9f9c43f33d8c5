--------------------------- MODULE MCGroupActivity --------------------------
(* A small instance of GroupActivity: the root and three more groups. *)
EXTENDS GroupActivity

=============================================================================
