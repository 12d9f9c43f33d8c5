--------------------------- MODULE MCListNotifier ---------------------------
(* Small instances of ListNotifier: a list of two rows, or of one. *)
EXTENDS ListNotifier

CONSTANTS r1, r2, r3

MCFirst == <<r1, r2>>
MCShort == <<r1>>
=============================================================================
