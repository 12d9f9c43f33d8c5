----------------------------- MODULE ListWatch ------------------------------
(***************************************************************************)
(* What the root list of the iOS app needs from change notifications: a    *)
(* list that changes, and someone who watches it through what it is told.  *)
(* Each notification brings the watcher exactly up to date, and the list   *)
(* does not change again before the watcher has been told of the last      *)
(* change (nor at all before the watcher has seen it for the first time).  *)
(***************************************************************************)
VARIABLES list,   \* the list as committed
          seen    \* what the watcher shows

Init == seen # list

\* A transaction commits a change; the watcher is up to date until then.
Change == /\ seen = list
          /\ list' # list
          /\ UNCHANGED seen

\* A notification.
Notice == /\ seen # list
          /\ seen' = list
          /\ UNCHANGED list

Next == Change \/ Notice

Spec == Init /\ [][Next]_<<list, seen>>
=============================================================================
