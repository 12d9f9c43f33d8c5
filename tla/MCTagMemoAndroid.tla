-------------------------- MODULE MCTagMemoAndroid --------------------------
(* Small instances of the Android app: two groups besides the root, a memo, *)
(* and no texts or tags but the empty ones: the editors' own runs have them. *)
EXTENDS TagMemoAndroid
=============================================================================
