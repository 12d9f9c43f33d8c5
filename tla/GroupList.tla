----------------------------- MODULE GroupList ------------------------------
(***************************************************************************)
(* The iOS app: the root list (GroupListViewController) and the editors of *)
(* memos and groups (MemoViewController, GroupViewController) on top of    *)
(* ListNotifier.                                                           *)
(*                                                                         *)
(* A row of the list is a GroupMemo with the Memo or Group it refers to;   *)
(* both are made by one transaction and are one id here.  Every write      *)
(* first waits in begin_transaction, where the table may be updated, and   *)
(* then does what was decided before the wait (doing).  The run loop does  *)
(* not turn while a callback writes several times.                         *)
(*                                                                         *)
(* Only the root list is ever shown (the storyboard allows no selection),  *)
(* and editors are opened only on what has just been made.                 *)
(***************************************************************************)
EXTENDS ListNotifier

CONSTANTS
  GroupRow,     \* the rows that are groups; the others are memos
  Text,         \* title and content of an item, as one value
  Blank,        \* the text of a new item
  Tag,
  Inputs,       \* what can be in the tag field: split at blanks
  MaxKills      \* bound: deaths of the process

ASSUME ListAssumption ==
  /\ GroupRow \subseteq Row
  /\ Blank \in Text
  /\ Inputs \subseteq Seq(Tag)
  /\ Null \notin Text
  /\ MaxKills \in Nat
  \* no item, and no editor
  /\ Null \notin [text : Text, tags : Seq(Tag)] \cup [row : Row, text : Text, chips : Seq(Tag)]

VARIABLES
  items,      \* the Memo or Group of each row, Null if there is none
  hashTags,   \* the texts that have a HashTag object
  editor,     \* the editor on the screen, Null while the list is
  doing,      \* what the running callback is about to write, Null if none
  kills,
  \* history
  typed,      \* the text last shown for each row, as far as it can be kept
  deleted,    \* rows the user has deleted
  deletion,   \* the last deletion: what was touched, and the row deleted
  misread     \* a cell was filled while its row was another one in the list

dataVars == <<items, hashTags, typed, deleted, deletion>>
appVars == <<dataVars, editor, doing, kills, misread>>
allVars == <<vars, appVars>>

NewItem == [text |-> Blank, tags |-> <<>>]

RowSeq(list) == [i \in DOMAIN list |-> list[i].row]

\* The main thread is in the run loop.
Free == main = "free" /\ doing = Null /\ failure = Null
OnList == Free /\ editor = Null
OnEditor == Free /\ editor # Null

-----------------------------------------------------------------------------
(* The list.                                                               *)

\* The add button, the alert and the segue: setAddMemo, setAddGroup.
SelectAdd ==
  /\ OnList
  /\ \E r \in Row : items[r] = Null
  /\ BeginTransaction
  /\ doing' = [op |-> "add"]
  /\ UNCHANGED <<dataVars, editor, kills, misread>>

\* Mutant: the new id is one in use.
SetAddAnyId ==
  /\ doing # Null /\ doing.op = "add"
  /\ \E r \in Row :
       /\ CommitTransaction(<<Insertion(Len(List) + 1, r)>>, {r}, "free")
       /\ items' = [items EXCEPT ![r] = NewItem]
       /\ typed' = [typed EXCEPT ![r] = Blank]
       /\ editor' = [row |-> r, text |-> Blank, chips |-> <<>>]
  /\ doing' = Null
  /\ UNCHANGED <<hashTags, deleted, deletion, kills, misread>>

\* The objects are made and appended; the editor gets the new object.
SetAdd ==
  /\ doing # Null /\ doing.op = "add"
  /\ \E r \in {r \in Row : items[r] = Null} :
       /\ CommitTransaction(<<Insertion(Len(List) + 1, r)>>, {r}, "free")
       /\ items' = [items EXCEPT ![r] = NewItem]
       /\ typed' = [typed EXCEPT ![r] = Blank]
       /\ editor' = [row |-> r, text |-> Blank, chips |-> <<>>]
  /\ doing' = Null
  /\ UNCHANGED <<hashTags, deleted, deletion, kills, misread>>

\* A swipe over row i of the table asks the live list for the type of row i.
Swipe(i) == i <= Len(List)

\* Mutant: the index is one too far.
SelectDeleteNext(i) ==
  /\ OnList
  /\ Swipe(i)
  /\ BeginTransaction
  /\ doing' = [op |-> "delete", at |-> i + 1, row |-> table[i].row,
               below |-> IF i < Len(table) THEN table[i + 1].row ELSE Null,
               behind |-> RowSeq(table) # RowSeq(List), misread |-> misread]
  /\ UNCHANGED <<dataVars, editor, kills, misread>>

\* The Delete action.  The index is that of the touched row; the row is looked
\* up in the live list inside the transaction.
SelectDelete(i) ==
  /\ OnList
  /\ Swipe(i)
  /\ BeginTransaction
  /\ doing' = [op |-> "delete", at |-> i, row |-> table[i].row,
               below |-> IF i < Len(table) THEN table[i + 1].row ELSE Null,
               behind |-> RowSeq(table) # RowSeq(List), misread |-> misread]
  /\ UNCHANGED <<dataVars, editor, kills, misread>>

\* Only the GroupMemo goes; its Memo or Group stays in the file.
Delete ==
  /\ doing # Null /\ doing.op = "delete"
  /\ doing.at <= Len(List)
  /\ CommitTransaction(<<Erasure(doing.at)>>, {}, "free")
  /\ deleted' = deleted \cup {List[doing.at].row}
  /\ deletion' = [touch |-> doing, row |-> List[doing.at].row]
  /\ doing' = Null
  /\ UNCHANGED <<items, hashTags, typed, editor, kills, misread>>

\* The table asks for the cell of row i again, when it scrolls.
CellForRow(i) ==
  /\ OnList
  /\ i <= Len(List)
  /\ table' = [table EXCEPT ![i] = List[i]]
  /\ misread' = (misread \/ table[i].row # List[i].row)
  /\ UNCHANGED <<log, main, coordVars, notifier, initialDelivered, packaged, call, failure,
                 dataVars, editor, doing, kills>>

\* The exceptions of the list: an index beyond the end of the live list, in a
\* swipe, a cell or the transaction of a deletion; and the Edit action of a
\* group, which casts its sender, the view controller, to a cell.
Fail(what) ==
  /\ failure' = what
  /\ UNCHANGED <<log, main, coordVars, notifier, initialDelivered, packaged, call, table, appVars>>

IndexOutOfBounds ==
  /\ \/ OnList /\ table # Null /\ \E i \in DOMAIN table : i > Len(List)
     \/ main = "write" /\ doing # Null /\ doing.op = "delete" /\ doing.at > Len(List)
  /\ Fail("index out of bounds")

EditGroup(i) ==
  /\ OnList
  /\ Swipe(i) /\ List[i].row \in GroupRow
  /\ Fail("cast")

-----------------------------------------------------------------------------
(* The editors.                                                            *)

Type(t) ==
  /\ OnEditor
  /\ t # editor.text
  /\ editor' = [editor EXCEPT !.text = t]
  /\ typed' = [typed EXCEPT ![editor.row] = t]
  /\ UNCHANGED <<vars, items, hashTags, deleted, deletion, doing, kills, misread>>

\* What is left of the input once the tags on the screen are skipped, and the
\* transaction that comes next: a new HashTag is a transaction of its own, and
\* only when it is done the chip appears and is added to the object.
Skip(rest, chips) ==
  LET next == SelectInSeq(rest, LAMBDA t : t \notin ToSet(chips))
  IN  IF next = 0 THEN <<>> ELSE SubSeq(rest, next, Len(rest))

TagOp(tag, tags) == IF tag \in tags THEN "append" ELSE "hashTag"

\* The add button of the tag field.
AddTag(input) ==
  LET rest == Skip(input, editor.chips)
  IN  /\ OnEditor
      /\ rest # <<>>
      /\ Latest + 2 * Len(input) <= MaxVersion
      /\ BeginTransaction
      /\ doing' = [op |-> TagOp(Head(rest), hashTags), rest |-> rest]
      /\ UNCHANGED <<dataVars, editor, kills, misread>>

\* Mutant: a new tag is shown and not added to the object.
CreateHashTagOnly ==
  /\ doing # Null /\ doing.op = "hashTag"
  /\ CommitTransaction(<<>>, {}, "free")
  /\ hashTags' = hashTags \cup {Head(doing.rest)}
  /\ editor' = [editor EXCEPT !.chips = Append(@, Head(doing.rest))]
  /\ doing' = Null
  /\ UNCHANGED <<items, typed, deleted, deletion, kills, misread>>

CreateHashTag ==
  /\ doing # Null /\ doing.op = "hashTag"
  /\ CommitTransaction(<<>>, {}, "begin")
  /\ hashTags' = hashTags \cup {Head(doing.rest)}
  /\ doing' = [doing EXCEPT !.op = "append"]
  /\ UNCHANGED <<items, typed, deleted, deletion, editor, kills, misread>>

AppendTag ==
  /\ doing # Null /\ doing.op = "append"
  /\ LET tag   == Head(doing.rest)
         chips == Append(editor.chips, tag)
         rest  == Skip(Tail(doing.rest), chips)
     IN  /\ CommitTransaction(<<>>, {editor.row}, IF rest = <<>> THEN "free" ELSE "begin")
         /\ items' = [items EXCEPT ![editor.row].tags = Append(@, tag)]
         /\ editor' = [editor EXCEPT !.chips = chips]
         /\ doing' = IF rest = <<>> THEN Null
                                    ELSE [op |-> TagOp(Head(rest), hashTags), rest |-> rest]
  /\ UNCHANGED <<hashTags, typed, deleted, deletion, kills, misread>>

\* viewWillDisappear: back, or a swipe back that is given up half way.
Disappear(gone) ==
  /\ OnEditor
  /\ BeginTransaction
  /\ doing' = [op |-> "save", gone |-> gone]
  /\ UNCHANGED <<dataVars, editor, kills, misread>>

\* Mutant: saved only when the swipe is given up.
SaveIfKept ==
  /\ doing # Null /\ doing.op = "save"
  /\ CommitTransaction(<<>>, {editor.row}, "free")
  /\ items' = IF doing.gone THEN items ELSE [items EXCEPT ![editor.row].text = editor.text]
  /\ editor' = IF doing.gone THEN Null ELSE editor
  /\ doing' = Null
  /\ UNCHANGED <<hashTags, typed, deleted, deletion, kills, misread>>

Save ==
  /\ doing # Null /\ doing.op = "save"
  /\ CommitTransaction(<<>>, {editor.row}, "free")
  /\ items' = [items EXCEPT ![editor.row].text = editor.text]
  /\ editor' = IF doing.gone THEN Null ELSE editor
  /\ doing' = Null
  /\ UNCHANGED <<hashTags, typed, deleted, deletion, kills, misread>>

-----------------------------------------------------------------------------
\* The process dies, by itself or by an exception, and is started again: what
\* is committed stays, the list is shown, and the block is added anew.
Relaunch ==
  /\ kills < MaxKills
  /\ kills' = kills + 1
  /\ Reopen([i \in DOMAIN List |-> Entry(List[i].row, 1)])
  /\ typed' = [r \in Row |-> IF items[r] = Null THEN Null ELSE items[r].text]
  /\ editor' = Null /\ doing' = Null /\ misread' = FALSE
  /\ UNCHANGED <<items, hashTags, deleted, deletion>>

ListInit ==
  /\ Init
  /\ items = [r \in Row |-> IF r \in ToSet(FirstList) THEN NewItem ELSE Null]
  /\ hashTags = {}
  /\ editor = Null /\ doing = Null
  /\ kills = 0
  /\ typed = [r \in Row |-> IF r \in ToSet(FirstList) THEN Blank ELSE Null]
  /\ deleted = {} /\ deletion = Null
  /\ misread = FALSE

\* The run loop turns only between callbacks.
ListenerStep == Listener /\ UNCHANGED appVars
RunLoopStep == doing = Null /\ ProcessAvailableAsync /\ UNCHANGED appVars
WaitStep == PackageAndWait /\ UNCHANGED appVars
Callback == SetAdd \/ Delete \/ CreateHashTag \/ AppendTag \/ Save

OnTable == /\ table # Null
           /\ \E i \in DOMAIN table : SelectDelete(i) \/ CellForRow(i) \/ EditGroup(i)

User == \/ SelectAdd
        \/ OnTable
        \/ \E t \in Text : Type(t)
        \/ \E input \in Inputs : AddTag(input)
        \/ \E gone \in BOOLEAN : Disappear(gone)

ListNext == \/ ListenerStep \/ RunLoopStep \/ WaitStep
            \/ Callback \/ User \/ IndexOutOfBounds \/ Relaunch

ListSpec == ListInit /\ [][ListNext]_allVars

\* The threads go on and a callback that has begun gets to its end.
ListFairness == /\ WF_allVars(ListenerStep)
                /\ WF_allVars(RunLoopStep)
                /\ WF_allVars(WaitStep)
                /\ WF_allVars(Callback)
FairListSpec == ListSpec /\ ListFairness

-----------------------------------------------------------------------------
(* Properties.                                                             *)

Item == [text : Text, tags : Seq(Tag)]

\* Types of the app's state; the list holds a row once at most.
ListTypeOK ==
  /\ items \in [Row -> Item \cup {Null}]
  /\ hashTags \subseteq Tag
  /\ editor = Null \/ (editor.row \in Row /\ editor.text \in Text /\ editor.chips \in Seq(Tag))
  /\ \A i, j \in DOMAIN List : List[i].row = List[j].row => i = j
  /\ failure \in {Null, "inconsistent update", "index out of bounds", "cast"}

\* Delete takes the index of a row on the screen to the live list.  It removes the
\* row that was touched if the table had been told of every row that came or
\* went; if not, it can remove the row below, but no other
\* (GroupListViewController.swift:217-220).
DeleteHitsTouched ==
  deletion # Null =>
    \/ deletion.row = deletion.touch.row
    \/ deletion.touch.behind /\ deletion.row = deletion.touch.below
    \/ deletion.touch.misread

\* When the table has been told of everything, every cell shows its row as it is
\* stored, and no batch of updates has failed, also if cells were filled from the
\* live list in between; unless one was filled for the wrong row, between the
\* commit of a deletion and its batch of updates: then two cells can show the
\* same row.
CellsCurrent ==
  /\ failure # "inconsistent update"
  /\ table # Null /\ packaged = Latest /\ ~misread => table = List

\* Between callbacks the tags on the screen are the tags stored, in the same order
\* and without duplicates, and each has its HashTag: the two transactions of a new
\* tag never leave one without the other, except for an unused HashTag.
TagsStored ==
  /\ \A r \in Row : items[r] # Null =>
       IsInjective(items[r].tags) /\ ToSet(items[r].tags) \subseteq hashTags
  /\ editor # Null /\ doing = Null => items[editor.row].tags = editor.chips

\* The text of an editor is stored when it goes away; text is lost only when the
\* process dies with the editor open (viewWillDisappear).
TextKept == editor = Null => \A r \in Row : items[r] # Null => items[r].text = typed[r]

\* A callback that writes gets to its end although the run loop stands still and
\* every write waits for the listener thread.
CallbackEnds == doing # Null ~> doing = Null \/ failure # Null
=============================================================================
