----------------------------- MODULE MemoShelf ------------------------------
(***************************************************************************)
(* What the memo side of the app promises its user: every group has a list *)
(* of entries; a new memo appears at the end of one list, complete and in  *)
(* one step; after that its entry changes only in place.  No entry is ever *)
(* removed, moved or shown twice.                                          *)
(***************************************************************************)
EXTENDS Integers, Sequences

CONSTANTS Null

VARIABLE shelf   \* [group -> sequence of entries]

\* An entry is a record with at least the fields id, title and content; Null
\* fields belong to an entry nobody has filled in.
Filled(e) == e.title # Null /\ e.content # Null

Ids(g) == {shelf[g][i].id : i \in DOMAIN shelf[g]}

Init == \A g \in DOMAIN shelf : \A i, j \in DOMAIN shelf[g] :
          i # j => shelf[g][i].id # shelf[g][j].id

\* The list of g gets one entry, at its end, for something in no list so far.
Add(g) ==
  /\ DOMAIN shelf' = DOMAIN shelf
  /\ \A h \in DOMAIN shelf \ {g} : shelf'[h] = shelf[h]
  /\ Len(shelf'[g]) = Len(shelf[g]) + 1
  /\ SubSeq(shelf'[g], 1, Len(shelf[g])) = shelf[g]
  /\ LET new == shelf'[g][Len(shelf'[g])]
     IN /\ Filled(new)
        /\ \A h \in DOMAIN shelf : new.id \notin Ids(h)

\* The i-th entry of g changes; it is still about the same thing.
Change(g, i) ==
  /\ shelf' = [shelf EXCEPT ![g][i] = shelf'[g][i]]
  /\ shelf'[g][i].id = shelf[g][i].id
  /\ Filled(shelf'[g][i])

Next == \E g \in DOMAIN shelf : Add(g) \/ \E i \in DOMAIN shelf[g] : Change(g, i)

Spec == Init /\ [][Next]_shelf
=============================================================================
