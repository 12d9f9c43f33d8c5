---------------------------- MODULE GroupManage -----------------------------
(***************************************************************************)
(* GroupManageActivity: the group editor of the Android app.  It is a copy *)
(* of the memo editor with two differences that matter: the adapter's      *)
(* onDataChanged is empty, so tags are saved only along with the next      *)
(* change of the title; and one callback saves at most once, so there is   *)
(* no queue of operations, only a title the framework has yet to restore.  *)
(* The app starts it in MODE_CREATE only (onClickAddGroup).                *)
(***************************************************************************)
EXTENDS TagStore

CONSTANTS
  Root,        \* the group "/" of initRootGroup
  RootRow,     \* its GroupMemo, which is in no list
  Inputs,      \* what the user types in the tag field, split at blanks
  Blank,       \* the piece between two blanks next to each other
  MaxTaps,     \* bound: launches queued at once
  MaxCreates,  \* bound: onCreate calls
  MaxKills     \* bound: process deaths

ASSUME GroupManageAssumption ==
  /\ Root \in GroupId /\ RootRow \in RowId
  /\ Inputs \subseteq Seq(Tag \cup {Blank}) /\ Blank \notin Tag
  /\ MaxTaps \in Nat /\ MaxCreates \in Nat /\ MaxKills \in Nat

VARIABLES
  editor,    \* the activity on top, or Null when the group list is in front
  below,     \* the editors under it, the oldest first
  starting,  \* the parents of the launches startActivity has queued
  restore,   \* the title onRestoreInstanceState will set after onCreate, or Null
  save,      \* the save in progress: its next transaction and save()'s arguments
  creates,   \* history: onCreate calls
  kills      \* history: process deaths

vars == <<store, editor, below, starting, restore, save, creates, kills>>

\* seen is history: the tags the editor showed when it last looked at the title.
Editor == [parent : GroupId, group : GroupId \cup {Null},
           groupMemo : RowId \cup {Null},
           title : Text, tags : Seq(Tag), seen : Seq(Tag)]

ASSUME EditorAssumption == Null \notin Editor

Saving == [step : {"none", "create", "write", "row", "link"},
           title : Text \cup {Null}, tags : Seq(Tag) \cup {Null}]

NoSave == [step |-> "none", title |-> Null, tags |-> Null]

AtRest == save = NoSave /\ restore = Null

Init ==
  /\ groups = [g \in GroupId |->
       IF g = Root
         THEN [parent |-> Null, title |-> Empty, tags |-> <<>>, groupMemos |-> <<>>]
         ELSE Null]
  /\ rows = [r \in RowId |->
       IF r = RootRow
         THEN [type |-> "group", parent |-> Root, typeId |-> Null, ref |-> Root]
         ELSE Null]
  /\ memos = [m \in MemoId |-> Null]
  /\ hashTags = {}
  /\ editor = Null /\ below = <<>> /\ starting = <<>>
  /\ restore = Null /\ save = NoSave /\ creates = 0 /\ kills = 0

\* The groups a list can show: the root and whatever is linked to its parent.
Shown(g) == groups[g] # Null /\ (g = Root \/ Listed(g))

(***************************************************************************)
(* saveAfterCheck and save, as the memo editor has them, without content.  *)
(***************************************************************************)
IfChanged(new, old) == IF new = old THEN Null ELSE new

\* Mutant: the tag lists are compared by their sizes alone.
SaveAfterCheckSizes(e) ==
  LET stored == groups[e.group]
      title == IF e.group = Null THEN e.title ELSE IfChanged(e.title, stored.title)
      tags == IF e.group = Null THEN e.tags
              ELSE IF Len(e.tags) = Len(stored.tags) THEN Null ELSE e.tags
  IN /\ editor' = [e EXCEPT !.seen = e.tags]
     /\ IF title = Null /\ tags = Null
          THEN save' = NoSave
          ELSE save' = [step |-> IF e.group = Null THEN "create" ELSE "write",
                        title |-> title, tags |-> tags]

SaveAfterCheck(e) ==
  LET stored == groups[e.group]
      title == IF e.group = Null THEN e.title ELSE IfChanged(e.title, stored.title)
      tags == IF e.group = Null THEN e.tags ELSE IfChanged(e.tags, stored.tags)
  IN /\ editor' = [e EXCEPT !.seen = e.tags]
     /\ IF title = Null /\ tags = Null
          THEN save' = NoSave
          ELSE save' = [step |-> IF e.group = Null THEN "create" ELSE "write",
                        title |-> title, tags |-> tags]

(***************************************************************************)
(* Starting editors, and onCreate.                                         *)
(***************************************************************************)
TapAddGroup ==
  /\ AtRest /\ editor = Null
  /\ creates < MaxCreates /\ Len(starting) < MaxTaps
  /\ \E g \in GroupId : Shown(g) /\ starting' = Append(starting, g)
  /\ creates' = creates + 1
  /\ UNCHANGED <<store, editor, below, restore, save, kills>>

\* The new group starts with the tags of its parent; textChanges emits the empty
\* title at once, which creates the group.
OnCreate(parent) ==
  SaveAfterCheck([parent |-> parent, group |-> Null, groupMemo |-> Null,
                  title |-> Empty, tags |-> groups[parent].tags, seen |-> <<>>])

Launch ==
  /\ AtRest /\ starting # <<>>
  /\ OnCreate(Head(starting))
  /\ starting' = Tail(starting)
  /\ below' = IF editor = Null THEN below ELSE Append(below, editor)
  /\ UNCHANGED <<store, restore, creates, kills>>

\* A change of configuration other than orientation and screen size, which the
\* manifest says the activity handles itself.
Recreate ==
  /\ AtRest /\ editor # Null
  /\ creates < MaxCreates
  /\ OnCreate(editor.parent)
  /\ restore' = editor.title
  /\ creates' = creates + 1
  /\ UNCHANGED <<store, below, starting, kills>>

RestoreTitle ==
  /\ save = NoSave /\ restore # Null
  /\ SaveAfterCheck([editor EXCEPT !.title = restore])
  /\ restore' = Null
  /\ UNCHANGED <<store, below, starting, creates, kills>>

(***************************************************************************)
(* The user, on the editor in front.                                       *)
(***************************************************************************)
TypeTitle ==
  /\ AtRest /\ editor # Null
  /\ \E t \in Text : t # editor.title /\ SaveAfterCheck([editor EXCEPT !.title = t])
  /\ UNCHANGED <<store, below, starting, restore, creates, kills>>

\* addTag: the new pieces, once each, and then the whole list sorted.
ClickAddTag ==
  /\ AtRest /\ editor # Null
  /\ \E pieces \in Inputs :
       LET new == (ToSet(pieces) \ {Blank}) \cup ToSet(editor.tags)
       IN \E tags \in [1..Cardinality(new) -> new] :
            /\ \A i, j \in DOMAIN tags : i < j => tags[i] < tags[j]
            /\ editor' = [editor EXCEPT !.tags = tags]
  /\ UNCHANGED <<store, below, starting, restore, save, creates, kills>>

\* Whichever chip is clicked, the first tag goes.
ClickTag ==
  /\ AtRest /\ editor # Null
  /\ editor.tags # <<>>
  /\ editor' = [editor EXCEPT !.tags = Tail(@)]
  /\ UNCHANGED <<store, below, starting, restore, save, creates, kills>>

Finish ==
  /\ AtRest /\ editor # Null
  /\ editor' = IF below = <<>> THEN Null ELSE Last(below)
  /\ below' = IF below = <<>> THEN below ELSE Front(below)
  /\ UNCHANGED <<store, starting, restore, save, creates, kills>>

(***************************************************************************)
(* The transactions of a save.                                             *)
(***************************************************************************)
CreateStep ==
  /\ save.step = "create"
  /\ \E g \in GroupId : /\ CreateGroup(g, editor.parent)
                        /\ editor' = [editor EXCEPT !.group = g]
  /\ save' = [save EXCEPT !.step = "write"]
  /\ UNCHANGED <<below, starting, restore, creates, kills>>

WriteStep ==
  /\ save.step = "write"
  /\ WriteGroup(editor.group, save.title, save.tags)
  /\ save' = [NoSave EXCEPT !.step = "row"]
  /\ UNCHANGED <<editor, below, starting, restore, creates, kills>>

\* Mutant: this.groupMemo is not kept, so every save creates a row.
RowStepForgets ==
  /\ save.step = "row"
  /\ \E r \in RowId : /\ CreateRow(r, "group", editor.parent, editor.group)
                      /\ editor' = [editor EXCEPT !.groupMemo = r]
  /\ save' = [save EXCEPT !.step = "link"]
  /\ UNCHANGED <<below, starting, restore, creates, kills>>

\* saveGroupMemo: the group's row is the one the editor has, or is looked up, or
\* is created.
RowStep ==
  /\ save.step = "row"
  /\ LET found == IF editor.groupMemo # Null THEN {editor.groupMemo}
                  ELSE RowsOf(editor.group)
     IN \/ /\ \E r \in found : editor' = [editor EXCEPT !.groupMemo = r]
           /\ save' = NoSave
           /\ UNCHANGED store
        \/ /\ found = {}
           /\ \E r \in RowId : /\ CreateRow(r, "group", editor.parent, editor.group)
                               /\ editor' = [editor EXCEPT !.groupMemo = r]
           /\ save' = [save EXCEPT !.step = "link"]
  /\ UNCHANGED <<below, starting, restore, creates, kills>>

LinkStep ==
  /\ save.step = "link"
  /\ LinkRow(editor.groupMemo)
  /\ save' = NoSave
  /\ UNCHANGED <<editor, below, starting, restore, creates, kills>>

\* The process dies and only what was committed is left.
Kill ==
  /\ kills < MaxKills
  /\ kills' = kills + 1
  /\ editor' = Null /\ below' = <<>> /\ starting' = <<>>
  /\ restore' = Null /\ save' = NoSave
  /\ UNCHANGED <<store, creates>>

Next == \/ TapAddGroup \/ TypeTitle \/ ClickAddTag \/ ClickTag \/ Finish \/ Recreate
        \/ Launch \/ RestoreTitle
        \/ CreateStep \/ WriteStep \/ RowStep \/ LinkStep
        \/ Kill

Spec == Init /\ [][Next]_vars

(***************************************************************************)
(* Properties                                                              *)
(***************************************************************************)
TypeOK ==
  /\ StoreTypeOK
  /\ editor \in Editor \cup {Null}
  /\ below \in Seq(Editor)
  /\ starting \in Seq(GroupId)
  /\ restore \in Text \cup {Null}
  /\ save \in Saving
  /\ creates \in Nat /\ kills \in Nat
  /\ ~AtRest => editor # Null

Subgroups == {g \in GroupId \ {Root} : groups[g] # Null}

\* The indices at which the list of h shows the group g.
Indices(g, h) == {i \in DOMAIN groups[h].groupMemos : rows[groups[h].groupMemos[i]].ref = g}

\* The groups the lists show are a tree under the root: each is in the list of
\* the group it was created in, once, and in no other; following the parents
\* never goes round in circles and never meets a group that is not shown.  And a
\* list never shows a group that has no title yet.
GroupsFormTree ==
  LET linked == {g \in Subgroups : Listed(g)}
  IN /\ \A g \in linked, h \in linked \cup {Root} :
          Cardinality(Indices(g, h)) = (IF h = groups[g].parent THEN 1 ELSE 0)
     /\ \A g \in linked : groups[g].parent \in linked \cup {Root}
     /\ \A g \in linked : groups[g].title # Null
     /\ \A S \in SUBSET linked : S # {} => \E g \in S : groups[g].parent \notin S

\* Groups in the file that no list shows and no editor is about to link.
Stranded == {g \in Subgroups : ~Listed(g) /\ ~(save.step # "none" /\ editor.group = g)}

Editors == ToSet(below) \cup (IF editor = Null THEN {} ELSE {editor})

\* Between callbacks the title of every open editor is stored, and so are the tags
\* it showed when its title last changed: later edits of the tags wait for the
\* next change of the title, and are lost with the editor.
TagsSavedWithTitle ==
  AtRest => \A e \in Editors :
    /\ e.group # Null /\ groups[e.group].title = e.title
    /\ groups[e.group].tags = e.seen
=============================================================================
