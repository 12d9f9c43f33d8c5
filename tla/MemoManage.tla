----------------------------- MODULE MemoManage -----------------------------
(***************************************************************************)
(* MemoManageActivity: the memo editor of the Android app, from the taps   *)
(* that start it to the transactions its autosave commits.                 *)
(*                                                                         *)
(* Everything runs on the UI thread, one callback after the other.  A      *)
(* callback that saves more than once (onCreate, the "add tag" button) is  *)
(* the queue work of what it still has to do, and every save is up to four *)
(* transactions (save.step), because the process can die between any two.  *)
(* Several editors may be alive: startActivity only queues a launch, so a  *)
(* second tap on the list before the first editor covers it starts another.*)
(***************************************************************************)
EXTENDS TagStore

CONSTANTS
  InitialGroups, InitialRows,   \* the groups there are, and their rows
  Inputs,      \* what the user types in the tag field, split at blanks
  Blank,       \* the piece between two blanks next to each other
  MaxTaps,     \* bound: launches queued at once
  MaxCreates,  \* bound: onCreate calls in MODE_CREATE
  MaxKills     \* bound: process deaths

ASSUME InitialAssumption ==
  /\ InitialGroups \in [GroupId -> Group \cup {Null}]
  /\ InitialRows \in [RowId -> GroupMemo \cup {Null}]
  /\ \A r \in RowId : InitialRows[r] # Null =>
       /\ InitialRows[r].type = "group"
       /\ InitialRows[r].typeId \notin MemoId
       /\ InitialRows[r].ref \in GroupId
  /\ \A g \in GroupId : InitialGroups[g] # Null =>
       /\ IsInjective(InitialGroups[g].groupMemos)
       /\ IsInjective(InitialGroups[g].tags)
       /\ \A r \in ToSet(InitialGroups[g].groupMemos) :
            InitialRows[r] # Null /\ InitialRows[r].parent = g

\* A group is shown once.
ASSUME OneRowAssumption ==
  \A r, q \in RowId : InitialRows[r] # Null /\ InitialRows[q] # Null
                     /\ InitialRows[r].ref = InitialRows[q].ref => r = q

ASSUME BoundsAssumption ==
  /\ Inputs \subseteq Seq(Tag \cup {Blank})
  /\ Blank \notin Tag
  /\ MaxTaps \in Nat /\ MaxCreates \in Nat /\ MaxKills \in Nat

VARIABLES
  editor,    \* the activity on top, or Null when the group list is in front
  below,     \* the editors under it, the oldest first
  starting,  \* Intents startActivity has queued
  work,      \* what the running UI callback still has to do
  save,      \* the save in progress: its next transaction and save()'s arguments
  creates,   \* history: onCreate calls in MODE_CREATE
  kills,     \* history: process deaths
  shared     \* history: memos that two editors of this stack have had open

ui == <<editor, below, starting, work, save, shared>>
vars == <<store, ui, creates, kills>>

Intent == [mode : {"create", "edit"}, parent : GroupId, memoId : MemoId \cup {Null}]

\* The fields of the activity and what its widgets show.
Editor == [intent : Intent, memoId : MemoId \cup {Null}, memo : MemoId \cup {Null},
           groupMemo : RowId \cup {Null},
           title : Text, content : Text, tags : Seq(Tag)]

ASSUME EditorAssumption == Null \notin Editor

Op == [op : {"set", "edit", "subscribe", "remove", "sort"}, val : {Null}]
        \cup [op : {"title", "content"}, val : Text]
        \cup [op : {"add"}, val : Tag \cup {Blank}]

Saving == [step : {"none", "create", "write", "row", "link"},
           title : Text \cup {Null}, content : Text \cup {Null},
           tags : Seq(Tag) \cup {Null}]

NoSave == [step |-> "none", title |-> Null, content |-> Null, tags |-> Null]
Do(op) == [op |-> op, val |-> Null]

\* The UI thread is in the looper, waiting for the next event.
AtRest == work = <<>> /\ save = NoSave

Init ==
  /\ groups = InitialGroups
  /\ rows = InitialRows
  /\ memos = [m \in MemoId |-> Null]
  /\ hashTags = UNION {ToSet(InitialGroups[g].tags) :
                         g \in {h \in GroupId : InitialGroups[h] # Null}}
  /\ editor = Null /\ below = <<>> /\ starting = <<>>
  /\ work = <<>> /\ save = NoSave
  /\ creates = 0 /\ kills = 0 /\ shared = {}

(***************************************************************************)
(* The group list starts editors: onClickAddMemo and onClickMemo.          *)
(***************************************************************************)
Start(intent) ==
  /\ AtRest /\ editor = Null
  /\ Len(starting) < MaxTaps
  /\ starting' = Append(starting, intent)
  /\ UNCHANGED <<store, editor, below, work, save, shared, kills>>

TapAddMemo ==
  /\ creates < MaxCreates
  /\ creates' = creates + 1
  /\ \E g \in GroupId :
       /\ groups[g] # Null
       /\ Start([mode |-> "create", parent |-> g, memoId |-> Null])

\* Mutant: any stored memo can be opened, listed or not.
TapMemoAny ==
  /\ UNCHANGED creates
  /\ \E m \in MemosStored :
       Start([mode |-> "edit", parent |-> memos[m].parent, memoId |-> m])

TapMemo ==
  /\ UNCHANGED creates
  /\ \E g \in GroupId :
       /\ groups[g] # Null
       /\ \E r \in ToSet(groups[g].groupMemos) :
            /\ rows[r].type = "memo"
            /\ Start([mode |-> "edit", parent |-> g, memoId |-> rows[r].ref])

(***************************************************************************)
(* onCreate: initIntentValue, initValue, initObserable.                    *)
(***************************************************************************)
\* Mutant: initIntentValueEdit forgets memo_id.
NewEditorForgets(intent) ==
  [intent |-> intent, memoId |-> Null, memo |-> Null, groupMemo |-> Null,
   title |-> Empty, content |-> Empty, tags |-> <<>>]

NewEditor(intent) ==
  [intent |-> intent, memoId |-> intent.memoId, memo |-> Null, groupMemo |-> Null,
   title |-> Empty, content |-> Empty, tags |-> <<>>]

OnCreate(intent) ==
  IF intent.mode = "create"
    THEN <<Do("set"), Do("edit"), Do("subscribe")>>
    ELSE <<Do("edit"), Do("subscribe")>>

Editors == ToSet(below) \cup (IF editor = Null THEN {} ELSE {editor})

Launch ==
  /\ AtRest /\ starting # <<>>
  /\ LET intent == Head(starting)
     IN /\ editor' = NewEditor(intent)
        /\ work' = OnCreate(intent)
        /\ shared' = shared \cup
             ({e.memoId : e \in Editors} \cap ({intent.memoId} \ {Null}))
  /\ below' = IF editor = Null THEN below ELSE Append(below, editor)
  /\ starting' = Tail(starting)
  /\ UNCHANGED <<store, save, creates, kills>>

\* A change of configuration: the activity is built again from its Intent and
\* the framework then puts the saved texts back, title first.
Recreate ==
  /\ AtRest /\ editor # Null
  /\ editor.intent.mode = "create" => creates < MaxCreates
  /\ creates' = creates + (IF editor.intent.mode = "create" THEN 1 ELSE 0)
  /\ editor' = NewEditor(editor.intent)
  /\ work' = Append(Append(OnCreate(editor.intent),
                          [op |-> "title", val |-> editor.title]),
                   [op |-> "content", val |-> editor.content])
  /\ UNCHANGED <<store, below, starting, save, kills, shared>>

(***************************************************************************)
(* saveAfterCheck and save.  e is the editor as the handler has changed it. *)
(* An argument is null when the stored field already has that value.       *)
(***************************************************************************)
IfChanged(new, old) == IF new = old THEN Null ELSE new

\* save(), up to its first transaction: a memo that is not loaded is created,
\* or looked up when the activity knows its id.
Save(e, title, content, tags) ==
  /\ editor' = IF e.memo = Null THEN [e EXCEPT !.memo = e.memoId] ELSE e
  /\ save' = [step |-> IF e.memo = Null /\ e.memoId = Null THEN "create" ELSE "write",
              title |-> title, content |-> content, tags |-> tags]

\* Mutant: a new memo is first saved with its tags only.
SaveAfterCheckTagsFirst(e) ==
  \/ /\ e.memo = Null
     /\ Save(e, Null, Null, e.tags)
  \/ /\ e.memo # Null
     /\ Save(e, e.title, e.content, e.tags)

\* Mutant: the tag lists are compared by their sizes alone.
SaveAfterCheckSizes(e) ==
  \/ /\ e.memo = Null
     /\ Save(e, e.title, e.content, e.tags)
  \/ /\ e.memo # Null
     /\ LET stored == memos[e.memo]
            title == IfChanged(e.title, stored.title)
            content == IfChanged(e.content, stored.content)
            tags == IF Len(e.tags) = Len(stored.tags) THEN Null ELSE e.tags
        IN IF title = Null /\ content = Null /\ tags = Null
             THEN editor' = e /\ UNCHANGED save
             ELSE Save(e, title, content, tags)

SaveAfterCheck(e) ==
  \/ /\ e.memo = Null
     /\ Save(e, e.title, e.content, e.tags)
  \/ /\ e.memo # Null
     /\ LET stored == memos[e.memo]
            title == IfChanged(e.title, stored.title)
            content == IfChanged(e.content, stored.content)
            tags == IfChanged(e.tags, stored.tags)
        IN IF title = Null /\ content = Null /\ tags = Null
             THEN editor' = e /\ UNCHANGED save
             ELSE Save(e, title, content, tags)

(***************************************************************************)
(* The operations a UI callback is made of, one action each.               *)
(***************************************************************************)
\* The callback goes on with its next operation, op.
Continue(op) ==
  /\ save = NoSave /\ work # <<>>
  /\ Head(work).op = op
  /\ work' = Tail(work)
  /\ UNCHANGED <<store, below, starting, creates, kills, shared>>

\* initIntentValueCreate: the new memo starts with the tags of its group.
SetGroupTags ==
  /\ Continue("set")
  /\ SaveAfterCheck([editor EXCEPT !.tags = groups[editor.intent.parent].tags])

\* modeEdit: the widgets show the memo; a null text is shown as no text.
ModeEdit ==
  /\ Continue("edit")
  /\ IF editor.memoId = Null
       THEN UNCHANGED <<editor, save>>
       ELSE LET memo == memos[editor.memoId]
                Shown(text) == IF text = Null THEN Empty ELSE text
            IN SaveAfterCheck([editor EXCEPT
                 !.memo = editor.memoId, !.title = Shown(memo.title),
                 !.content = Shown(memo.content), !.tags = memo.tags])

\* combineLatest emits as soon as both fields have emitted their first text.
Subscribe == Continue("subscribe") /\ SaveAfterCheck(editor)

TitleChanged ==
  /\ Continue("title")
  /\ SaveAfterCheck([editor EXCEPT !.title = Head(work).val])

ContentChanged ==
  /\ Continue("content")
  /\ SaveAfterCheck([editor EXCEPT !.content = Head(work).val])

\* Mutant: addTag without isContain.
AddTagTwice ==
  /\ Continue("add")
  /\ LET tag == Head(work).val
     IN IF tag = Blank
          THEN UNCHANGED <<editor, save>>
          ELSE SaveAfterCheck([editor EXCEPT !.tags = Append(@, tag)])

\* One piece of what was typed: skipped when blank or in the list already.
AddTag ==
  /\ Continue("add")
  /\ LET tag == Head(work).val
     IN IF tag = Blank \/ Contains(editor.tags, tag)
          THEN UNCHANGED <<editor, save>>
          ELSE SaveAfterCheck([editor EXCEPT !.tags = Append(@, tag)])

\* List.sort with String.compareTo.
SortTags ==
  /\ Continue("sort")
  /\ \E p \in Bijection(DOMAIN editor.tags, DOMAIN editor.tags) :
       LET sorted == [i \in DOMAIN editor.tags |-> editor.tags[p[i]]]
       IN /\ \A i, j \in DOMAIN sorted : i < j => sorted[i] <= sorted[j]
          /\ SaveAfterCheck([editor EXCEPT !.tags = sorted])

\* ItemHashTag.position is never assigned, so every chip removes the first tag.
RemoveTag ==
  /\ Continue("remove")
  /\ SaveAfterCheck([editor EXCEPT !.tags = Tail(@)])

(***************************************************************************)
(* The user, on the editor in front.                                       *)
(***************************************************************************)
Event(ops) ==
  /\ AtRest /\ editor # Null
  /\ work' = ops
  /\ UNCHANGED <<store, editor, below, starting, save, creates, kills, shared>>

TypeTitle ==
  \E t \in Text : /\ Event(<<[op |-> "title", val |-> t]>>)
                 /\ t # editor.title

TypeContent ==
  \E t \in Text : /\ Event(<<[op |-> "content", val |-> t]>>)
                 /\ t # editor.content

ClickAddTag ==
  \E pieces \in Inputs :
    Event(Append([i \in DOMAIN pieces |-> [op |-> "add", val |-> pieces[i]]], Do("sort")))

ClickTag == Event(<<Do("remove")>>) /\ editor.tags # <<>>

\* Back: the editor below comes to the front as it was left.
Finish ==
  /\ AtRest /\ editor # Null
  /\ editor' = IF below = <<>> THEN Null ELSE Last(below)
  /\ below' = IF below = <<>> THEN below ELSE Front(below)
  /\ shared' = IF below = <<>> THEN {} ELSE shared
  /\ UNCHANGED <<store, starting, work, save, creates, kills>>

(***************************************************************************)
(* The transactions of a save.                                             *)
(***************************************************************************)
CreateStep ==
  /\ save.step = "create"
  /\ \E m \in MemoId :
       /\ CreateMemo(m, editor.intent.parent)
       /\ editor' = [editor EXCEPT !.memo = m, !.memoId = m]
  /\ save' = [save EXCEPT !.step = "write"]
  /\ UNCHANGED <<below, starting, work, creates, kills, shared>>

WriteStep ==
  /\ save.step = "write"
  /\ WriteMemo(editor.memo, save.title, save.content, save.tags)
  /\ save' = [NoSave EXCEPT !.step = "row"]
  /\ UNCHANGED <<editor, below, starting, work, creates, kills, shared>>

\* Mutant: saveGroupMemo creates a row whenever this editor has none.
RowStepNoLookup ==
  /\ save.step = "row"
  /\ IF editor.groupMemo # Null
       THEN save' = NoSave /\ UNCHANGED <<store, editor>>
       ELSE /\ \E r \in RowId :
                 /\ CreateRow(r, "memo", editor.intent.parent, editor.memoId)
                 /\ editor' = [editor EXCEPT !.groupMemo = r]
            /\ save' = [save EXCEPT !.step = "link"]
  /\ UNCHANGED <<below, starting, work, creates, kills, shared>>

\* Mutant: isCretated is never set, so refleshParentGroup is never called.
RowStepNoLink ==
  /\ save.step = "row"
  /\ save' = NoSave
  /\ \/ /\ editor.groupMemo # Null
        /\ UNCHANGED <<store, editor>>
     \/ /\ editor.groupMemo = Null
        /\ RowsOf(editor.memoId) = {}
        /\ \E r \in RowId :
             /\ CreateRow(r, "memo", editor.intent.parent, editor.memoId)
             /\ editor' = [editor EXCEPT !.groupMemo = r]
  /\ UNCHANGED <<below, starting, work, creates, kills, shared>>

\* saveGroupMemo: the memo's row is looked up, or created when it has none.
RowStep ==
  /\ save.step = "row"
  /\ \/ /\ editor.groupMemo # Null
        /\ save' = NoSave
        /\ UNCHANGED <<store, editor>>
     \/ /\ editor.groupMemo = Null
        /\ \E r \in RowsOf(editor.memoId) : editor' = [editor EXCEPT !.groupMemo = r]
        /\ save' = NoSave
        /\ UNCHANGED store
     \/ /\ editor.groupMemo = Null
        /\ RowsOf(editor.memoId) = {}
        /\ \E r \in RowId :
             /\ CreateRow(r, "memo", editor.intent.parent, editor.memoId)
             /\ editor' = [editor EXCEPT !.groupMemo = r]
        /\ save' = [save EXCEPT !.step = "link"]
  /\ UNCHANGED <<below, starting, work, creates, kills, shared>>

LinkStep ==
  /\ save.step = "link"
  /\ LinkRow(editor.groupMemo)
  /\ save' = NoSave
  /\ UNCHANGED <<editor, below, starting, work, creates, kills, shared>>

(***************************************************************************)
(* The process dies and only what was committed is left.                   *)
(***************************************************************************)
Kill ==
  /\ kills < MaxKills
  /\ kills' = kills + 1
  /\ editor' = Null /\ below' = <<>> /\ starting' = <<>>
  /\ work' = <<>> /\ save' = NoSave /\ shared' = {}
  /\ UNCHANGED <<store, creates>>

User == \/ TapAddMemo \/ TapMemo \/ TypeTitle \/ TypeContent
        \/ ClickAddTag \/ ClickTag \/ Finish \/ Recreate

\* What the UI thread does by itself once an event has been dispatched.
UiThread == \/ Launch \/ SetGroupTags \/ ModeEdit \/ Subscribe
            \/ TitleChanged \/ ContentChanged
            \/ AddTag \/ SortTags \/ RemoveTag
            \/ CreateStep \/ WriteStep \/ RowStep \/ LinkStep

Next == User \/ UiThread \/ Kill

Spec == Init /\ [][Next]_vars

(***************************************************************************)
(* Properties                                                              *)
(***************************************************************************)
TypeOK ==
  /\ StoreTypeOK
  /\ editor \in Editor \cup {Null}
  /\ below \in Seq(Editor)
  /\ starting \in Seq(Intent)
  /\ work \in Seq(Op)
  /\ save \in Saving
  /\ creates \in Nat /\ kills \in Nat
  /\ shared \subseteq MemoId
  /\ (work # <<>> \/ save # NoSave) => editor # Null

\* Where the lists show the memo m: pairs of a group and an index.
Places(m) ==
  UNION {{g} \X {i \in DOMAIN groups[g].groupMemos :
                   rows[groups[g].groupMemos[i]].ref = m} :
         g \in {h \in GroupId : groups[h] # Null}}

\* However many editors save a memo, and whenever the process dies, its row is
\* made once: one entry, in the list of the group it was created in.
MemoShownOnce ==
  \A m \in MemoId : \A p, q \in Places(m) : p = q /\ p[1] = memos[m].parent

\* A list never shows a memo whose fields have not been written: the link is
\* the last of the four transactions.
ListedMemoWritten ==
  \A m \in MemoId : Places(m) # {} =>
    memos[m] # Null /\ memos[m].title # Null /\ memos[m].content # Null

BeingSaved(m) == save.step # "none" /\ editor.memo = m

\* Memos in the file that no list shows and no editor is about to link.
Stranded == {m \in MemosStored : ~Listed(m) /\ ~BeingSaved(m)}

\* A death between the transactions of a save strands the memo it creates, and
\* nothing else does.
StrandedOnlyByKill == Cardinality(Stranded) <= kills

\* Nothing finds a stranded memo again: no operation looks for one.
StrandedForGood == [][Stranded \subseteq Stranded']_vars

\* Autosave: once a callback is over, every open editor shows what is stored,
\* unless another editor of the stack has had the same memo open.
AutosaveComplete ==
  AtRest => \A e \in Editors : e.memo \notin shared =>
    /\ e.memo # Null /\ memos[e.memo] # Null
    /\ memos[e.memo].title = e.title
    /\ memos[e.memo].content = e.content
    /\ memos[e.memo].tags = e.tags

\* The groups that are given have been saved whole: the tags of each were sorted by
\* its editor.  A death in the middle of addTag could have left them otherwise.
GroupsSorted ==
  \A g \in GroupId : InitialGroups[g] # Null =>
    LET tags == InitialGroups[g].tags
    IN \A i, j \in DOMAIN tags : i < j => tags[i] < tags[j]

\* addTag skips what the list has, piece by piece, so that not even the
\* half-added lists it saves on the way store a tag twice; and only a death inside
\* addTag leaves a memo with its tags out of order.
TagsInOrder ==
  \A m \in MemosStored :
    LET tags == memos[m].tags
    IN /\ IsInjective(tags)
       /\ AtRest /\ kills = 0 => \A i, j \in DOMAIN tags : i < j => tags[i] < tags[j]

\* The launches of editors for new memos that startActivity has queued.
Queued == {k \in DOMAIN starting : starting[k].mode = "create"}

\* Each onCreate in MODE_CREATE leaves one memo behind, whatever the user does
\* next: none is made twice by the three saves of onCreate, and none is undone
\* by leaving at once.
OneMemoPerCreate ==
  AtRest /\ kills = 0 => Cardinality(MemosStored) + Cardinality(Queued) = creates

(***************************************************************************)
(* What the user sees: the lists, with the fields of the memos in them.    *)
(***************************************************************************)
Entry(r) ==
  IF rows[r].type = "memo"
    THEN [id |-> rows[r].ref, title |-> memos[rows[r].ref].title,
          content |-> memos[rows[r].ref].content, tags |-> memos[rows[r].ref].tags]
    ELSE [id |-> rows[r].ref, title |-> groups[rows[r].ref].title,
          content |-> Empty, tags |-> groups[rows[r].ref].tags]

Shelf == INSTANCE MemoShelf WITH shelf <-
  [g \in {h \in GroupId : groups[h] # Null} |->
     [i \in DOMAIN groups[g].groupMemos |-> Entry(groups[g].groupMemos[i])]]

\* The editor implements the abstract lists: of all the transactions only the
\* link of a new memo and the writes to a listed one are seen, and a death
\* leaves every list as it is.
ImplementsShelf == Shelf!Spec
=============================================================================
