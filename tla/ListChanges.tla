---------------------------- MODULE ListChanges -----------------------------
(***************************************************************************)
(* The arithmetic of change sets: which positions of a list were deleted,  *)
(* inserted and modified by a sequence of changes (IndexSet and            *)
(* CollectionChangeBuilder of Realm's object store), and what a table view *)
(* makes of such a set in a batch of updates.                              *)
(*                                                                         *)
(* An IndexSet is the set of its indexes.  Positions count from 1, as      *)
(* those of sequences do; the code counts from 0.  Moves come only from    *)
(* List.move and List.swap, and clear only from List.removeAll; the app    *)
(* uses none of them.                                                      *)
(***************************************************************************)
EXTENDS Integers, FiniteSets, SequencesExt

NoChanges == [deletions |-> {}, insertions |-> {}, modifications |-> {}]

\* The position of i once the positions P before it are gone.
Unshift(i, P) == i - Cardinality({p \in P : p < i})

\* S after the positions P are erased.
ErasedAt(S, P) == {Unshift(i, P) : i \in S \ P}

\* S after room is made for new elements that end up at the positions P.
ShiftedFor(S, P) ==
  UNION {{j \in i .. (i + Cardinality(P)) : j \notin P /\ Unshift(j, P) = i} : i \in S}

\* Mutant: an erasure that forgets what was inserted before it.
EraseOneUnshifted(c, i) ==
  [deletions     |-> IF i \in c.insertions THEN c.deletions
                                           ELSE c.deletions \cup ShiftedFor({i}, c.deletions),
   insertions    |-> ErasedAt(c.insertions, {i}),
   modifications |-> ErasedAt(c.modifications, {i})]

\* One insertion, and one erasure, added to the changes c.  Deletions are
\* positions of the old list; what was inserted first leaves no deletion.
InsertOne(c, i) ==
  [deletions     |-> c.deletions,
   insertions    |-> ShiftedFor(c.insertions, {i}) \cup {i},
   modifications |-> ShiftedFor(c.modifications, {i})]

EraseOne(c, i) ==
  [deletions     |-> IF i \in c.insertions
                       THEN c.deletions
                       ELSE c.deletions \cup ShiftedFor({Unshift(i, c.insertions)}, c.deletions),
   insertions    |-> ErasedAt(c.insertions, {i}),
   modifications |-> ErasedAt(c.modifications, {i})]

ModifyOne(c, i) == [c EXCEPT !.modifications = @ \cup {i}]

\* All of "size" rows removed: every row of the old list is deleted.
ClearAll(c, size) ==
  [NoChanges EXCEPT !.deletions =
     1 .. (size + Cardinality(c.deletions) - Cardinality(c.insertions))]

\* Mutant: the later deletions are taken for positions of the old list.
MergeUnshifted(c, d) ==
  [deletions     |-> c.deletions \cup d.deletions,
   insertions    |-> ShiftedFor(ErasedAt(c.insertions, d.deletions), d.insertions) \cup d.insertions,
   modifications |-> ShiftedFor(ErasedAt(c.modifications, d.deletions), d.insertions)
                     \cup d.modifications]

\* The changes c followed by the changes d.
Merge(c, d) ==
  [deletions     |-> c.deletions \cup ShiftedFor(ErasedAt(d.deletions, c.insertions), c.deletions),
   insertions    |-> ShiftedFor(ErasedAt(c.insertions, d.deletions), d.insertions) \cup d.insertions,
   modifications |-> ShiftedFor(ErasedAt(c.modifications, d.deletions), d.insertions)
                     \cup d.modifications]

\* Mutant: positions of the new list only.
FinalizeNew(c) ==
  [deletions        |-> c.deletions,
   insertions       |-> c.insertions,
   modifications    |-> c.modifications \ c.insertions,
   modificationsNew |-> c.modifications \ c.insertions]

\* What a callback is given.  "modifications" are positions of the old list,
\* "modificationsNew" of the new one; the Swift interface passes on the former.
Finalize(c) ==
  [deletions        |-> c.deletions,
   insertions       |-> c.insertions,
   modifications    |-> ShiftedFor(ErasedAt(c.modifications, c.insertions), c.deletions),
   modificationsNew |-> c.modifications \ c.insertions]

IsEmpty(c) == c.deletions \cup c.insertions \cup c.modifications = {}

-----------------------------------------------------------------------------
\* UITableView's batch of updates, for changes f and the list its data source
\* has at the end.  The number of rows must come out right, and a row cannot
\* be deleted and reloaded.
Fits(table, f, list) ==
  /\ f.deletions \cup f.modifications \subseteq DOMAIN table
  /\ f.deletions \cap f.modifications = {}
  /\ f.insertions \subseteq DOMAIN list
  /\ Len(table) - Cardinality(f.deletions) + Cardinality(f.insertions) = Len(list)

\* Where the row that ends up at j was before the batch.
OldPosition(j, f) ==
  CHOOSE i \in ShiftedFor({Unshift(j, f.insertions)}, f.deletions) : TRUE

\* Mutant: no row is reloaded.
BatchUpdateNoReload(table, f, list) ==
  [j \in DOMAIN list |->
     IF j \in f.insertions THEN list[j] ELSE table[OldPosition(j, f)]]

\* Inserted and reloaded rows are asked of the data source, the others stay.
BatchUpdate(table, f, list) ==
  [j \in DOMAIN list |->
     IF j \in f.insertions \/ OldPosition(j, f) \in f.modifications
     THEN list[j] ELSE table[OldPosition(j, f)]]
=============================================================================
