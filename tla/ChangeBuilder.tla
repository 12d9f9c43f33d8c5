--------------------------- MODULE ChangeBuilder ----------------------------
(***************************************************************************)
(* CollectionChangeBuilder: changes of one list are recorded one by one in *)
(* the current change set (a transaction log being parsed) and now and     *)
(* then merged into the accumulated one (add_changes).  traced says what   *)
(* the two must mean together: for each row of the list, where it was at   *)
(* the beginning, and whether it has been replaced or modified since.      *)
(***************************************************************************)
EXTENDS ListChanges

CONSTANTS
  MaxSize,    \* bound: rows in the list
  MaxSteps    \* bound: changes

ASSUME SizeAssumption == MaxSize \in Nat /\ MaxSteps \in Nat

VARIABLES
  size,         \* the size of the list at the beginning
  traced,       \* reference: for each row where it was (0: inserted), modified or not
  accumulated,  \* the callback's accumulated changes
  current,      \* the notifier's m_change
  taken         \* how many changes
builderVars == <<size, traced, accumulated, current, taken>>

BuilderInit ==
  /\ size \in 0 .. MaxSize
  /\ traced = [i \in 1 .. size |-> [from |-> i, modified |-> FALSE]]
  /\ accumulated = NoChanges /\ current = NoChanges
  /\ taken = 0

Step == taken < MaxSteps /\ taken' = taken + 1 /\ UNCHANGED size

Insert(i) ==
  /\ Step /\ Len(traced) < MaxSize
  /\ current' = InsertOne(current, i)
  /\ traced' = InsertAt(traced, i, [from |-> 0, modified |-> FALSE])
  /\ UNCHANGED accumulated

Erase(i) ==
  /\ Step
  /\ current' = EraseOne(current, i)
  /\ traced' = RemoveAt(traced, i)
  /\ UNCHANGED accumulated

Modify(i) ==
  /\ Step
  /\ current' = ModifyOne(current, i)
  /\ traced' = [traced EXCEPT ![i].modified = TRUE]
  /\ UNCHANGED accumulated

Clear ==
  /\ Step /\ traced # <<>>
  /\ current' = ClearAll(current, Len(traced))
  /\ traced' = <<>>
  /\ UNCHANGED accumulated

AddChanges ==
  /\ Step /\ ~IsEmpty(current)
  /\ accumulated' = Merge(accumulated, current)
  /\ current' = NoChanges
  /\ UNCHANGED traced

BuilderNext ==
  \/ \E i \in 1 .. (Len(traced) + 1) : Insert(i)
  \/ \E i \in DOMAIN traced : Erase(i) \/ Modify(i)
  \/ Clear
  \/ AddChanges

BuilderSpec == BuilderInit /\ [][BuilderNext]_builderVars

-----------------------------------------------------------------------------
Everything == Finalize(Merge(accumulated, current))

KeptRows == {j \in DOMAIN traced : traced[j].from # 0}

\* However insertions, erasures, modifications and merges follow one another,
\* what has been recorded is exactly what happened to each row: every old row is
\* either deleted or kept, and the kept ones that were modified are named by
\* their old and by their new position (finalize).
ChangesExact ==
  /\ Everything.insertions = DOMAIN traced \ KeptRows
  /\ Everything.deletions = (1 .. size) \ {traced[j].from : j \in KeptRows}
  /\ Everything.modifications = {traced[j].from : j \in {k \in KeptRows : traced[k].modified}}
  /\ Everything.modificationsNew = {k \in KeptRows : traced[k].modified}

\* A batch of updates with these changes turns the old rows into the new: every
\* row that was not replaced comes from where it was.
BatchExact ==
  LET old == [i \in 1 .. size |-> [from |-> i, modified |-> FALSE]]
  IN  Fits(old, Everything, traced) /\ BatchUpdate(old, Everything, traced) = traced
=============================================================================
