------------------------- MODULE GroupManageProofs --------------------------
(***************************************************************************)
(* Theorems about the group editor, for every set of groups, tags and      *)
(* texts, any number of editors on the stack and of deaths.                *)
(*                                                                         *)
(* That an editor's title and tags stay stored while it waits under others *)
(* rests on each editor having a group of its own: no two were ever given  *)
(* the same one, since each creates it.                                    *)
(***************************************************************************)
EXTENDS GroupManage, FiniteSetTheorems, TLAPS

Exists(g) == groups[g] # Null

\* What the editor e showed when it last looked at the title is stored.
Saved(e) == /\ e.group # Null /\ Exists(e.group)
            /\ groups[e.group].title = e.title
            /\ groups[e.group].tags = e.seen

\* The objects e refers to are there.
EditorOK(e) == /\ Exists(e.parent)
               /\ e.group # Null => Exists(e.group)
               /\ e.groupMemo # Null => rows[e.groupMemo] # Null

\* The save in progress: what is true before each of its transactions.
SaveOK ==
  /\ save.step = "none" => save = NoSave /\ (editor # Null => Saved(editor))
  /\ save.step = "create" => /\ editor.group = Null
                             /\ save.title = editor.title /\ save.tags = editor.seen
  /\ save.step = "write" => /\ editor.group # Null
                            /\ Given(save.title, groups[editor.group].title) = editor.title
                            /\ Given(save.tags, groups[editor.group].tags) = editor.seen
  /\ save.step \in {"row", "link"} => Saved(editor)
  /\ save.step = "link" => editor.groupMemo # Null

BelowOK ==
  /\ \A i \in DOMAIN below : EditorOK(below[i]) /\ Saved(below[i])
  /\ \A i, j \in DOMAIN below : below[i].group = below[j].group => i = j

OwnGroup ==
  editor # Null => EditorOK(editor) /\ \A i \in DOMAIN below : below[i].group # editor.group

StartingOK == \A i \in DOMAIN starting : Exists(starting[i])

UiInv == SaveOK /\ BelowOK /\ OwnGroup /\ StartingOK

\* TypeOK in parts.
EditorsTypeOK == editor \in Editor \cup {Null} /\ below \in Seq(Editor)

QueueTypeOK == /\ starting \in Seq(GroupId)
               /\ restore \in Text \cup {Null}
               /\ save \in Saving
               /\ ~AtRest => editor # Null

CountsOK == creates \in Nat /\ kills \in Nat

IInv == StoreTypeOK /\ EditorsTypeOK /\ QueueTypeOK /\ CountsOK /\ UiInv

-----------------------------------------------------------------------------
(* Sequences. *)

LEMMA EmptyOK == ASSUME NEW S PROVE <<>> \in Seq(S)
  OBVIOUS

LEMMA FrontOK ==
  ASSUME NEW S, NEW s \in Seq(S), s # <<>>
  PROVE  /\ Front(s) \in Seq(S) /\ DOMAIN Front(s) \subseteq DOMAIN s
         /\ \A i \in DOMAIN Front(s) : Front(s)[i] = s[i] /\ i # Len(s)
         /\ Last(s) \in S /\ Len(s) \in DOMAIN s /\ Last(s) = s[Len(s)]
<1>1. Front(s) = [i \in 1..(Len(s) - 1) |-> s[i]]
  BY DEF Front
<1> QED BY <1>1 DEF Last

\* The tags of the editor after addTag: a finite set, listed.
LEMMA SortedOK ==
  ASSUME NEW pieces \in Seq(Tag \cup {Blank}), NEW old \in Seq(Tag),
         NEW tags \in [1..Cardinality((ToSet(pieces) \ {Blank}) \cup ToSet(old))
                         -> (ToSet(pieces) \ {Blank}) \cup ToSet(old)]
  PROVE  tags \in Seq(Tag)
<1> DEFINE new == (ToSet(pieces) \ {Blank}) \cup ToSet(old)
<1>1. ASSUME NEW S, NEW s \in Seq(S)
      PROVE  IsFiniteSet(ToSet(s)) /\ ToSet(s) \subseteq S
  <2>1. ToSet(s) = {s[i] : i \in 1..Len(s)}
    BY DEF ToSet
  <2>2. IsFiniteSet(1..Len(s))
    BY FS_Interval
  <2>3. s \in Surjection(1..Len(s), ToSet(s))
    BY <2>1 DEF Surjection
  <2>4. IsFiniteSet(ToSet(s))
    BY <2>2, <2>3, FS_Surjection
  <2> QED BY <2>1, <2>4
<1>2. IsFiniteSet(ToSet(pieces) \ {Blank}) /\ ToSet(pieces) \ {Blank} \subseteq Tag
  <2>1. IsFiniteSet(ToSet(pieces)) /\ ToSet(pieces) \subseteq Tag \cup {Blank}
    BY <1>1
  <2>2. IsFiniteSet(ToSet(pieces) \ {Blank})
    BY <2>1, FS_Difference
  <2> QED BY <2>1, <2>2
<1>3. IsFiniteSet(new) /\ new \subseteq Tag
  BY <1>1, <1>2, FS_Union
<1>4. Cardinality(new) \in Nat
  BY <1>3, FS_CardinalityType
<1>5. tags \in [1..Cardinality(new) -> new]
  OBVIOUS
<1> HIDE DEF new
<1> QED BY <1>3, <1>4, <1>5

-----------------------------------------------------------------------------
(* The invariant holds initially, and each action keeps it. *)

LEMMA InitInv == Init => IInv
<1> SUFFICES ASSUME Init PROVE IInv
  OBVIOUS
<1>1. StoreTypeOK
  <2> DEFINE root == [parent |-> Null, title |-> Empty, tags |-> <<>>, groupMemos |-> <<>>]
             row == [type |-> "group", parent |-> Root, typeId |-> Null, ref |-> Root]
  <2>1. root \in Group /\ row \in GroupMemo
    BY StoreAssumption, GroupManageAssumption, EmptyOK DEF Group, GroupMemo
  <2>2. groups = [g \in GroupId |-> IF g = Root THEN root ELSE Null]
        /\ rows = [r \in RowId |-> IF r = RootRow THEN row ELSE Null]
    BY DEF Init
  <2> HIDE DEF root, row
  <2> QED BY <2>1, <2>2 DEF Init, StoreTypeOK
<1>2. EditorsTypeOK
  BY EmptyOK DEF Init, EditorsTypeOK
<1>3. NoSave \in Saving
  BY DEF NoSave, Saving
<1>4. QueueTypeOK
  BY <1>3, EmptyOK DEF Init, QueueTypeOK, AtRest
<1>5. CountsOK
  BY DEF Init, CountsOK
<1>6. UiInv
  BY DEF Init, UiInv, SaveOK, NoSave, BelowOK, OwnGroup, StartingOK
<1> QED BY <1>1, <1>2, <1>4, <1>5, <1>6 DEF IInv

\* Between the transactions the file keeps what the editors below rely on.
StoreKept ==
  /\ \A g \in GroupId : Exists(g) => groups'[g] # Null
  /\ \A r \in RowId : rows[r] # Null => rows'[r] # Null

LEMMA UnchangedOK ==
  ASSUME IInv, UNCHANGED store
  PROVE  /\ StoreTypeOK'
         /\ UNCHANGED below => BelowOK'
         /\ UNCHANGED starting => StartingOK'
  BY DEF IInv, StoreTypeOK, UiInv, BelowOK, EditorOK, Saved, StartingOK, Exists, store

\* An event looks at the title of e: what it finds changed is about to be saved.
LEMMA SaveAfterCheckOK ==
  ASSUME IInv, UNCHANGED store, NEW e \in Editor, EditorOK(e), SaveAfterCheck(e)
  PROVE  /\ editor' \in Editor /\ editor'.group = e.group
         /\ EditorOK(editor)'
         /\ save' \in Saving /\ SaveOK'
<1>1. /\ e.title \in Text /\ e.tags \in Seq(Tag) /\ e.group \in GroupId \cup {Null}
      /\ Null \notin Text /\ Null \notin Seq(Tag)
  BY StoreAssumption DEF Editor
<1>2. editor' = [e EXCEPT !.seen = e.tags]
  BY DEF SaveAfterCheck
<1>3. /\ editor' \in Editor /\ editor'.group = e.group /\ editor'.title = e.title
      /\ editor'.seen = e.tags /\ editor'.parent = e.parent /\ editor'.groupMemo = e.groupMemo
  BY <1>1, <1>2 DEF Editor
<1>4. EditorOK(editor)'
  BY <1>3 DEF EditorOK, Exists, store
<1>5. CASE e.group = Null
  <2>1. save' = [step |-> "create", title |-> e.title, tags |-> e.tags]
    BY <1>1, <1>5 DEF SaveAfterCheck
  <2>2. save' \in Saving
    BY <1>1, <2>1 DEF Saving
  <2>3. SaveOK'
    BY <1>3, <1>5, <2>1 DEF SaveOK
  <2> QED BY <1>3, <1>4, <2>2, <2>3
<1>6. CASE e.group # Null
  <2> DEFINE title == IfChanged(e.title, groups[e.group].title)
             tags == IfChanged(e.tags, groups[e.group].tags)
  <2>1. /\ title \in Text \cup {Null} /\ tags \in Seq(Tag) \cup {Null}
        /\ Given(title, groups[e.group].title) = e.title
        /\ Given(tags, groups[e.group].tags) = e.tags
        /\ title = Null => groups[e.group].title = e.title
        /\ tags = Null => groups[e.group].tags = e.tags
    BY <1>1 DEF IfChanged, Given
  <2>2. IF title = Null /\ tags = Null THEN save' = NoSave
        ELSE save' = [step |-> "write", title |-> title, tags |-> tags]
    BY <1>6 DEF SaveAfterCheck
  <2> HIDE DEF title, tags
  <2>3. Exists(e.group)
    BY <1>6 DEF EditorOK
  <2>4. CASE title = Null /\ tags = Null
    <3>1. Saved(editor)'
      BY <1>3, <1>6, <2>1, <2>3, <2>4 DEF Saved, Exists, store
    <3>2. save' = NoSave
      BY <2>2, <2>4
    <3> QED BY <1>3, <1>4, <3>1, <3>2 DEF SaveOK, NoSave, Saving
  <2>5. CASE ~(title = Null /\ tags = Null)
    <3>1. save' = [step |-> "write", title |-> title, tags |-> tags]
      BY <2>2, <2>5
    <3>2. save' \in Saving
      BY <2>1, <3>1 DEF Saving
    <3>3. SaveOK'
      BY <1>3, <1>6, <2>1, <3>1 DEF SaveOK, store
    <3> QED BY <1>3, <1>4, <3>2, <3>3
  <2> QED BY <2>4, <2>5
<1> QED BY <1>5, <1>6

\* onCreate: an editor without a group of its own yet.
LEMMA OnCreateOK ==
  ASSUME IInv, UNCHANGED store, NEW parent \in GroupId, Exists(parent), OnCreate(parent)
  PROVE  /\ editor' \in Editor /\ editor' # Null /\ editor'.group = Null
         /\ EditorOK(editor)'
         /\ save' \in Saving /\ SaveOK'
<1> DEFINE e == [parent |-> parent, group |-> Null, groupMemo |-> Null,
                 title |-> Empty, tags |-> groups[parent].tags, seen |-> <<>>]
<1>1. groups[parent].tags \in Seq(Tag)
  <2>1. groups[parent] \in Group
    BY DEF IInv, StoreTypeOK, Exists
  <2> QED BY <2>1 DEF Group
<1>2. e \in Editor /\ e.group = Null /\ e.groupMemo = Null /\ e.parent = parent
  BY <1>1, StoreAssumption, EmptyOK DEF Editor
<1>3. SaveAfterCheck(e)
  BY DEF OnCreate
<1> HIDE DEF e
<1>4. EditorOK(e)
  BY <1>2 DEF EditorOK
<1> QED BY <1>2, <1>3, <1>4, SaveAfterCheckOK, EditorAssumption

LEMMA LaunchInv == IInv /\ Launch => IInv'
<1> SUFFICES ASSUME IInv, Launch PROVE IInv'
  OBVIOUS
<1>1. /\ AtRest /\ starting # <<>> /\ starting \in Seq(GroupId)
      /\ OnCreate(Head(starting)) /\ starting' = Tail(starting)
      /\ UNCHANGED <<store, restore, creates, kills>>
  BY DEF Launch, IInv, QueueTypeOK
<1>2. /\ Head(starting) \in GroupId /\ Exists(Head(starting))
      /\ Tail(starting) \in Seq(GroupId)
      /\ \A i \in DOMAIN Tail(starting) : i + 1 \in DOMAIN starting
                                          /\ Tail(starting)[i] = starting[i + 1]
  <2>1. 1 \in DOMAIN starting /\ Head(starting) = starting[1] /\ starting[1] \in GroupId
    BY <1>1
  <2> QED BY <1>1, <2>1 DEF IInv, UiInv, StartingOK
<1>3. /\ editor' \in Editor /\ editor' # Null /\ editor'.group = Null
      /\ EditorOK(editor)' /\ save' \in Saving /\ SaveOK'
  BY <1>1, <1>2, OnCreateOK
<1>4. StartingOK'
  BY <1>1, <1>2 DEF IInv, UiInv, StartingOK, Exists, store
<1>5. below' \in Seq(Editor) /\ BelowOK'
  <2>1. CASE editor = Null
    BY <1>1, <2>1, UnchangedOK DEF Launch, IInv, EditorsTypeOK
  <2>2. CASE editor # Null
    <3>1. /\ below' = Append(below, editor) /\ below \in Seq(Editor) /\ editor \in Editor
      BY <2>2 DEF Launch, IInv, EditorsTypeOK
    <3>2. Saved(editor) /\ EditorOK(editor) /\ \A i \in DOMAIN below : below[i].group # editor.group
      BY <1>1, <2>2 DEF IInv, UiInv, SaveOK, OwnGroup, AtRest, NoSave
    <3>3. \A i \in DOMAIN below' : \/ i \in DOMAIN below /\ below'[i] = below[i]
                                   \/ i = Len(below) + 1 /\ below'[i] = editor
      BY <3>1
    <3>4. \A i \in DOMAIN below' : EditorOK(below'[i]) /\ Saved(below'[i])
      BY <3>2, <3>3 DEF IInv, UiInv, BelowOK
    <3>5. \A i, j \in DOMAIN below' : below'[i].group = below'[j].group => i = j
      BY <3>2, <3>3 DEF IInv, UiInv, BelowOK
    <3>6. BelowOK'
      BY <1>1, <3>4, <3>5 DEF BelowOK, EditorOK, Saved, Exists, store
    <3> QED BY <3>1, <3>6
  <2> QED BY <2>1, <2>2
<1>6. OwnGroup'
  BY <1>3, <1>5 DEF OwnGroup, BelowOK, Saved
<1>7. EditorsTypeOK' /\ QueueTypeOK' /\ CountsOK'
  <2>1. CountsOK'
    BY <1>1 DEF IInv, CountsOK
  <2>2. EditorsTypeOK'
    BY <1>3, <1>5 DEF EditorsTypeOK
  <2> QED BY <1>1, <1>2, <1>3, <2>1, <2>2 DEF IInv, QueueTypeOK
<1> QED BY <1>1, <1>3, <1>4, <1>5, <1>6, <1>7, UnchangedOK DEF IInv, UiInv

LEMMA RecreateInv == IInv /\ Recreate => IInv'
<1> SUFFICES ASSUME IInv, Recreate PROVE IInv'
  OBVIOUS
<1>1. /\ editor \in Editor /\ EditorOK(editor) /\ editor.parent \in GroupId
      /\ Exists(editor.parent) /\ editor.title \in Text
  <2>1. editor \in Editor /\ EditorOK(editor)
    BY DEF Recreate, IInv, EditorsTypeOK, UiInv, OwnGroup
  <2> QED BY <2>1 DEF Editor, EditorOK
<1>2. /\ OnCreate(editor.parent) /\ restore' = editor.title /\ creates' = creates + 1
      /\ UNCHANGED <<store, below, starting, kills>>
  BY DEF Recreate
<1>3. /\ editor' \in Editor /\ editor' # Null /\ editor'.group = Null
      /\ EditorOK(editor)' /\ save' \in Saving /\ SaveOK'
  BY <1>1, <1>2, OnCreateOK
<1>4. OwnGroup'
  BY <1>2, <1>3 DEF OwnGroup, IInv, UiInv, BelowOK, Saved
<1>5. EditorsTypeOK' /\ CountsOK'
  <2>1. CountsOK'
    BY <1>2 DEF IInv, CountsOK
  <2> QED BY <1>2, <1>3, <2>1 DEF IInv, EditorsTypeOK
<1>6. QueueTypeOK'
  BY <1>1, <1>2, <1>3 DEF IInv, QueueTypeOK
<1> QED BY <1>2, <1>3, <1>4, <1>5, <1>6, UnchangedOK DEF IInv, UiInv

\* The title of the editor in front changes, by the user or by the framework.
LEMMA TitleChangedOK ==
  ASSUME IInv, editor # Null, save = NoSave, NEW t \in Text,
         SaveAfterCheck([editor EXCEPT !.title = t]),
         restore' \in {restore, Null},
         UNCHANGED <<store, below, starting, creates, kills>>
  PROVE  IInv'
<1> DEFINE e == [editor EXCEPT !.title = t]
<1>1. editor \in Editor /\ EditorOK(editor)
  BY DEF IInv, EditorsTypeOK, UiInv, OwnGroup
<1>2. /\ e \in Editor /\ e.group = editor.group /\ e.parent = editor.parent
      /\ e.groupMemo = editor.groupMemo
  BY <1>1 DEF Editor
<1> HIDE DEF e
<1>3. EditorOK(e) /\ SaveAfterCheck(e)
  BY <1>1, <1>2 DEF EditorOK, e
<1>4. /\ editor' \in Editor /\ editor'.group = editor.group /\ editor' # Null
      /\ EditorOK(editor)' /\ save' \in Saving /\ SaveOK'
  BY <1>2, <1>3, SaveAfterCheckOK, EditorAssumption
<1>5. OwnGroup'
  BY <1>4 DEF OwnGroup, IInv, UiInv
<1>6. EditorsTypeOK' /\ CountsOK'
  <2>1. CountsOK'
    BY DEF IInv, CountsOK
  <2> QED BY <1>4, <2>1 DEF IInv, EditorsTypeOK
<1>7. QueueTypeOK'
  BY <1>4 DEF IInv, QueueTypeOK
<1> QED BY <1>4, <1>5, <1>6, <1>7, UnchangedOK DEF IInv, UiInv

LEMMA TitleInv == IInv /\ (TypeTitle \/ RestoreTitle) => IInv'
<1>1. IInv /\ TypeTitle => IInv'
  BY TitleChangedOK DEF TypeTitle, AtRest
<1>2. IInv /\ RestoreTitle => IInv'
  <2> SUFFICES ASSUME IInv, RestoreTitle PROVE IInv'
    OBVIOUS
  <2>1. editor # Null /\ restore \in Text
    BY DEF RestoreTitle, IInv, QueueTypeOK, AtRest
  <2> QED BY <2>1, TitleChangedOK DEF RestoreTitle
<1> QED BY <1>1, <1>2

\* The tags of the editor in front change; seen and the file stay.
LEMMA TagsChangedOK ==
  ASSUME IInv, editor # Null, save = NoSave, NEW tags \in Seq(Tag),
         editor' = [editor EXCEPT !.tags = tags],
         UNCHANGED <<store, below, starting, restore, save, creates, kills>>
  PROVE  IInv'
<1>1. editor \in Editor /\ EditorOK(editor) /\ Saved(editor)
  BY DEF IInv, EditorsTypeOK, UiInv, OwnGroup, SaveOK, NoSave
<1>2. /\ editor' \in Editor /\ editor'.group = editor.group /\ editor'.parent = editor.parent
      /\ editor'.groupMemo = editor.groupMemo /\ editor'.title = editor.title
      /\ editor'.seen = editor.seen /\ editor' # Null
  BY <1>1, EditorAssumption DEF Editor
<1>3. EditorOK(editor)' /\ Saved(editor)'
  BY <1>1, <1>2 DEF EditorOK, Saved, Exists, store
<1>4. OwnGroup' /\ SaveOK'
  BY <1>2, <1>3 DEF OwnGroup, SaveOK, NoSave, IInv, UiInv
<1>5. EditorsTypeOK' /\ CountsOK'
  <2>1. CountsOK'
    BY DEF IInv, CountsOK
  <2> QED BY <1>2, <2>1 DEF IInv, EditorsTypeOK
<1>6. QueueTypeOK'
  BY <1>2 DEF IInv, QueueTypeOK
<1> QED BY <1>4, <1>5, <1>6, UnchangedOK DEF IInv, UiInv

LEMMA TagInv == IInv /\ (ClickAddTag \/ ClickTag) => IInv'
<1>1. ASSUME IInv, editor # Null PROVE editor.tags \in Seq(Tag)
  BY <1>1 DEF IInv, EditorsTypeOK, Editor
<1>2. ASSUME IInv, ClickTag PROVE IInv'
  <2>1. editor # Null /\ editor.tags # <<>> /\ editor' = [editor EXCEPT !.tags = Tail(editor.tags)]
    BY <1>2 DEF ClickTag
  <2>2. Tail(editor.tags) \in Seq(Tag)
    BY <1>1, <1>2, <2>1
  <2> QED BY <1>2, <2>1, <2>2, TagsChangedOK DEF ClickTag, AtRest
<1>3. ASSUME IInv, ClickAddTag PROVE IInv'
  <2>1. PICK pieces \in Inputs :
          \E tags \in [1..Cardinality((ToSet(pieces) \ {Blank}) \cup ToSet(editor.tags))
                         -> (ToSet(pieces) \ {Blank}) \cup ToSet(editor.tags)] :
            editor' = [editor EXCEPT !.tags = tags]
    BY <1>3 DEF ClickAddTag
  <2>2. pieces \in Seq(Tag \cup {Blank}) /\ editor # Null /\ editor.tags \in Seq(Tag)
    BY <1>1, <1>3, GroupManageAssumption DEF ClickAddTag
  <2>3. PICK tags \in [1..Cardinality((ToSet(pieces) \ {Blank}) \cup ToSet(editor.tags))
                         -> (ToSet(pieces) \ {Blank}) \cup ToSet(editor.tags)] :
          editor' = [editor EXCEPT !.tags = tags]
    BY <2>1
  <2>4. tags \in Seq(Tag)
    BY <2>2, SortedOK
  <2> QED BY <1>3, <2>2, <2>3, <2>4, TagsChangedOK DEF ClickAddTag, AtRest
<1> QED BY <1>2, <1>3

LEMMA TapAddGroupInv == IInv /\ TapAddGroup => IInv'
<1> SUFFICES ASSUME IInv, TapAddGroup PROVE IInv'
  OBVIOUS
<1>1. PICK g \in GroupId : Exists(g) /\ starting' = Append(starting, g)
  BY DEF TapAddGroup, Shown, Exists
<1>2. /\ UNCHANGED <<store, editor, below, restore, save, kills>>
      /\ creates' = creates + 1 /\ starting \in Seq(GroupId)
  BY DEF TapAddGroup, IInv, QueueTypeOK
<1>3. /\ starting' \in Seq(GroupId)
      /\ \A i \in DOMAIN starting' : starting'[i] = g \/ (i \in DOMAIN starting
                                                          /\ starting'[i] = starting[i])
  BY <1>1, <1>2
<1>4. StartingOK'
  BY <1>1, <1>2, <1>3 DEF IInv, UiInv, StartingOK, Exists, store
<1>5. EditorsTypeOK' /\ CountsOK'
  <2>1. CountsOK'
    BY <1>2 DEF IInv, CountsOK
  <2> QED BY <1>2, <2>1 DEF IInv, EditorsTypeOK
<1>6. QueueTypeOK'
  BY <1>2, <1>3 DEF IInv, QueueTypeOK, AtRest
<1>7. SaveOK' /\ OwnGroup'
  BY <1>2 DEF IInv, UiInv, SaveOK, OwnGroup, Saved, EditorOK, Exists, store
<1> QED BY <1>2, <1>4, <1>5, <1>6, <1>7, UnchangedOK DEF IInv, UiInv

LEMMA FinishInv == IInv /\ Finish => IInv'
<1> SUFFICES ASSUME IInv, Finish PROVE IInv'
  OBVIOUS
<1>1. /\ AtRest /\ UNCHANGED <<store, starting, restore, save, creates, kills>>
      /\ below \in Seq(Editor)
  BY DEF Finish, IInv, EditorsTypeOK
<1>2. /\ EditorsTypeOK' /\ BelowOK' /\ OwnGroup'
      /\ editor' # Null => Saved(editor)'
  <2>1. CASE below = <<>>
    <3>1. editor' = Null /\ below' = below
      BY <2>1 DEF Finish
    <3> QED BY <1>1, <3>1, UnchangedOK DEF IInv, EditorsTypeOK, OwnGroup
  <2>2. CASE below # <<>>
    <3>1. editor' = Last(below) /\ below' = Front(below)
      BY <2>2 DEF Finish
    <3>2. /\ below' \in Seq(Editor) /\ DOMAIN below' \subseteq DOMAIN below
          /\ \A i \in DOMAIN below' : below'[i] = below[i] /\ i # Len(below)
          /\ editor' \in Editor /\ Len(below) \in DOMAIN below /\ editor' = below[Len(below)]
      BY <1>1, <2>2, <3>1, FrontOK
    <3>3. Saved(editor') /\ EditorOK(editor')
      BY <3>2 DEF IInv, UiInv, BelowOK
    <3>4. \A i \in DOMAIN below' : below'[i].group # editor'.group
      BY <3>2 DEF IInv, UiInv, BelowOK
    <3>5. OwnGroup' /\ Saved(editor)'
      BY <1>1, <3>3, <3>4 DEF OwnGroup, Saved, EditorOK, Exists, store
    <3>6. BelowOK'
      BY <1>1, <3>2 DEF IInv, UiInv, BelowOK, EditorOK, Saved, Exists, store
    <3> QED BY <3>2, <3>5, <3>6 DEF EditorsTypeOK
  <2> QED BY <2>1, <2>2
<1>3. SaveOK'
  BY <1>1, <1>2 DEF SaveOK, NoSave, AtRest
<1>4. QueueTypeOK' /\ CountsOK'
  <2>1. CountsOK'
    BY <1>1 DEF IInv, CountsOK
  <2> QED BY <1>1, <2>1 DEF IInv, QueueTypeOK, AtRest
<1> QED BY <1>1, <1>2, <1>3, <1>4, UnchangedOK DEF IInv, UiInv

-----------------------------------------------------------------------------
(* The transactions. *)

\* A transaction of the editor in front, which writes its own group at most,
\* leaves the launches and the editors below as they were.
LEMMA TransactionOK ==
  ASSUME IInv, StoreKept, UNCHANGED <<below, starting, restore, creates, kills>>,
         editor # Null,
         \A g \in GroupId : Exists(g) /\ g # editor.group =>
           groups'[g].title = groups[g].title /\ groups'[g].tags = groups[g].tags
  PROVE  BelowOK' /\ StartingOK' /\ CountsOK'
<1>1. below \in Seq(Editor) /\ starting \in Seq(GroupId)
  BY DEF IInv, EditorsTypeOK, QueueTypeOK
<1>2. StartingOK'
  BY <1>1 DEF IInv, UiInv, StartingOK, StoreKept, Exists
<1>3. ASSUME NEW i \in DOMAIN below PROVE EditorOK(below[i])' /\ Saved(below[i])'
  <2>1. /\ below[i] \in Editor /\ EditorOK(below[i]) /\ Saved(below[i])
        /\ below[i].group # editor.group
    BY <1>1, <1>3 DEF IInv, UiInv, BelowOK, OwnGroup
  <2>2. /\ below[i].parent \in GroupId /\ below[i].group \in GroupId
        /\ below[i].groupMemo \in RowId \cup {Null}
    BY <2>1 DEF Editor, Saved
  <2>3. UNCHANGED below
    OBVIOUS
  <2> QED BY <2>1, <2>2, <2>3 DEF EditorOK, Saved, StoreKept, Exists
<1>4. BelowOK'
  BY <1>3 DEF IInv, UiInv, BelowOK
<1>5. CountsOK'
  BY DEF IInv, CountsOK
<1> QED BY <1>2, <1>4, <1>5

LEMMA CreateStepInv == IInv /\ CreateStep => IInv'
<1> SUFFICES ASSUME IInv, CreateStep PROVE IInv'
  OBVIOUS
<1>1. PICK g \in GroupId : CreateGroup(g, editor.parent) /\ editor' = [editor EXCEPT !.group = g]
  BY DEF CreateStep
<1>2. /\ save.step = "create" /\ save' = [save EXCEPT !.step = "write"] /\ save \in Saving
      /\ UNCHANGED <<below, starting, restore, creates, kills>>
  BY DEF CreateStep, IInv, QueueTypeOK
<1>3. editor # Null /\ editor \in Editor /\ EditorOK(editor)
  BY <1>2 DEF IInv, QueueTypeOK, AtRest, NoSave, EditorsTypeOK, UiInv, OwnGroup
<1>4. /\ save.title = editor.title /\ save.tags = editor.seen /\ editor.group = Null
      /\ editor.title \in Text /\ editor.seen \in Seq(Tag) /\ editor.parent \in GroupId
      /\ Null \notin Text /\ Null \notin Seq(Tag) /\ Null \notin Group /\ Null \notin GroupId
  BY <1>2, <1>3, StoreAssumption DEF IInv, UiInv, SaveOK, Editor
<1> DEFINE new == [parent |-> editor.parent, title |-> Null, tags |-> <<>>, groupMemos |-> <<>>]
<1>5. new \in Group
  BY <1>4, EmptyOK DEF Group
<1>6. /\ groups[g] = Null /\ groups' = [groups EXCEPT ![g] = new]
      /\ UNCHANGED <<memos, rows, hashTags>>
      /\ groups \in [GroupId -> Group \cup {Null}]
  BY <1>1 DEF CreateGroup, IInv, StoreTypeOK
<1> HIDE DEF new
<1>7. /\ groups' \in [GroupId -> Group \cup {Null}] /\ groups'[g] = new /\ new # Null
      /\ \A h \in GroupId : h # g => groups'[h] = groups[h]
  BY <1>4, <1>5, <1>6
<1>8. StoreTypeOK'
  BY <1>6, <1>7 DEF IInv, StoreTypeOK
<1>9. StoreKept
  BY <1>6, <1>7 DEF StoreKept, Exists
<1>10. BelowOK' /\ StartingOK' /\ CountsOK'
  BY <1>2, <1>3, <1>6, <1>7, <1>9, TransactionOK DEF Exists
<1>11. /\ editor' \in Editor /\ editor' # Null /\ editor'.group = g
       /\ editor'.parent = editor.parent /\ editor'.groupMemo = editor.groupMemo
       /\ editor'.title = editor.title /\ editor'.seen = editor.seen
  BY <1>1, <1>3, EditorAssumption DEF Editor
<1>12. OwnGroup'
  <2>1. EditorOK(editor)'
    BY <1>3, <1>4, <1>6, <1>7, <1>11 DEF EditorOK, Exists
  <2>2. \A i \in DOMAIN below : below[i].group # g
    BY <1>6 DEF IInv, UiInv, BelowOK, Saved, Exists
  <2> QED BY <1>2, <1>11, <2>1, <2>2 DEF OwnGroup
<1>13. save' \in Saving /\ save'.step = "write" /\ save'.title = save.title /\ save'.tags = save.tags
  BY <1>2 DEF Saving
<1>14. SaveOK'
  BY <1>4, <1>7, <1>11, <1>13 DEF SaveOK, Given
<1>15. EditorsTypeOK'
  BY <1>2, <1>11 DEF IInv, EditorsTypeOK
<1>16. QueueTypeOK'
  BY <1>2, <1>11, <1>13 DEF IInv, QueueTypeOK
<1> QED BY <1>8, <1>10, <1>12, <1>14, <1>15, <1>16 DEF IInv, UiInv

LEMMA WriteStepInv == IInv /\ WriteStep => IInv'
<1> SUFFICES ASSUME IInv, WriteStep PROVE IInv'
  OBVIOUS
<1>1. /\ save.step = "write" /\ save' = [NoSave EXCEPT !.step = "row"] /\ save \in Saving
      /\ UNCHANGED <<editor, below, starting, restore, creates, kills>>
  BY DEF WriteStep, IInv, QueueTypeOK
<1>2. editor # Null /\ editor \in Editor /\ EditorOK(editor)
  BY <1>1 DEF IInv, QueueTypeOK, AtRest, NoSave, EditorsTypeOK, UiInv, OwnGroup
<1> DEFINE g == editor.group
           new == [groups[g] EXCEPT !.title = editor.title, !.tags = editor.seen]
<1>3. /\ g \in GroupId /\ Exists(g) /\ groups[g] \in Group
      /\ Given(save.title, groups[g].title) = editor.title
      /\ Given(save.tags, groups[g].tags) = editor.seen
      /\ editor.title \in Text /\ editor.seen \in Seq(Tag)
  <2>1. g \in GroupId /\ Exists(g)
    BY <1>1, <1>2 DEF IInv, UiInv, SaveOK, EditorOK, Editor
  <2> QED BY <1>1, <1>2, <2>1 DEF IInv, UiInv, SaveOK, Editor, StoreTypeOK, Exists
<1>4. /\ groups' = [groups EXCEPT ![g] = new] /\ SaveTags(save.tags)
      /\ UNCHANGED <<memos, rows>>
      /\ groups \in [GroupId -> Group \cup {Null}]
  <2>1. WriteGroup(g, save.title, save.tags) /\ groups \in [GroupId -> Group \cup {Null}]
    BY DEF WriteStep, IInv, StoreTypeOK
  <2> QED BY <1>3, <2>1 DEF WriteGroup, Group
<1>5. new \in Group /\ new.title = editor.title /\ new.tags = editor.seen
  BY <1>3 DEF Group
<1> HIDE DEF new
<1>6. /\ groups' \in [GroupId -> Group \cup {Null}] /\ groups'[g] = new /\ new # Null
      /\ \A h \in GroupId : h # g => groups'[h] = groups[h]
  BY <1>3, <1>4, <1>5, StoreAssumption
<1>7. hashTags' \subseteq Tag
  <2>1. save.tags \in Seq(Tag) \cup {Null}
    BY <1>1 DEF Saving
  <2>2. save.tags # Null => ToSet(save.tags) \subseteq Tag
    BY <2>1 DEF ToSet
  <2> QED BY <1>4, <2>2 DEF SaveTags, IInv, StoreTypeOK
<1>8. StoreTypeOK'
  BY <1>4, <1>6, <1>7 DEF IInv, StoreTypeOK
<1>9. StoreKept
  BY <1>4, <1>6 DEF StoreKept, Exists
<1>10. BelowOK' /\ StartingOK' /\ CountsOK'
  BY <1>1, <1>2, <1>6, <1>9, TransactionOK
<1>11. Saved(editor)' /\ OwnGroup'
  <2>1. Saved(editor)'
    BY <1>1, <1>3, <1>5, <1>6, StoreAssumption DEF Saved, Exists
  <2>2. EditorOK(editor)'
    BY <1>1, <1>2, <1>9 DEF EditorOK, StoreKept, Exists, Editor
  <2> QED BY <1>1, <2>1, <2>2 DEF OwnGroup, IInv, UiInv
<1>12. save' \in Saving /\ save'.step = "row"
  BY <1>1 DEF Saving, NoSave
<1>13. SaveOK'
  BY <1>11, <1>12 DEF SaveOK
<1>14. EditorsTypeOK' /\ QueueTypeOK'
  BY <1>1, <1>2, <1>12 DEF IInv, EditorsTypeOK, QueueTypeOK
<1> QED BY <1>8, <1>10, <1>11, <1>13, <1>14 DEF IInv, UiInv

LEMMA RowStepInv == IInv /\ RowStep => IInv'
<1> SUFFICES ASSUME IInv, RowStep PROVE IInv'
  OBVIOUS
<1>1. /\ save.step = "row" /\ UNCHANGED <<below, starting, restore, creates, kills>>
  BY DEF RowStep
<1>2. /\ editor # Null /\ editor \in Editor /\ EditorOK(editor) /\ Saved(editor)
      /\ editor.group \in GroupId /\ editor.parent \in GroupId
  <2>1. editor # Null /\ editor \in Editor /\ EditorOK(editor) /\ Saved(editor)
    BY <1>1 DEF IInv, QueueTypeOK, AtRest, NoSave, EditorsTypeOK, UiInv, OwnGroup, SaveOK
  <2> QED BY <2>1 DEF Editor, Saved
<1>3. \E r \in RowId :
        /\ editor' = [editor EXCEPT !.groupMemo = r]
        /\ \/ rows[r] # Null /\ save' = NoSave /\ UNCHANGED store
           \/ /\ CreateRow(r, "group", editor.parent, editor.group)
              /\ save' = [save EXCEPT !.step = "link"]
  <2>1. editor.groupMemo # Null => editor.groupMemo \in RowId /\ rows[editor.groupMemo] # Null
    BY <1>2 DEF EditorOK, Editor
  <2> QED BY <2>1 DEF RowStep, RowsOf
<1>4. PICK r \in RowId :
        /\ editor' = [editor EXCEPT !.groupMemo = r]
        /\ \/ rows[r] # Null /\ save' = NoSave /\ UNCHANGED store
           \/ /\ CreateRow(r, "group", editor.parent, editor.group)
              /\ save' = [save EXCEPT !.step = "link"]
  BY <1>3
<1>5. /\ editor' \in Editor /\ editor' # Null /\ editor'.group = editor.group
      /\ editor'.parent = editor.parent /\ editor'.groupMemo = r
      /\ editor'.title = editor.title /\ editor'.seen = editor.seen
  BY <1>2, <1>4, EditorAssumption DEF Editor
<1>6. StoreTypeOK' /\ UNCHANGED groups /\ StoreKept /\ rows'[r] # Null
  <2>1. CASE rows[r] # Null /\ UNCHANGED store
    BY <2>1, UnchangedOK DEF StoreKept, Exists, store
  <2>2. CASE CreateRow(r, "group", editor.parent, editor.group)
    <3> DEFINE row == [type |-> "group", parent |-> editor.parent,
                       typeId |-> editor.group, ref |-> editor.group]
    <3>1. row \in GroupMemo
      BY <1>2 DEF GroupMemo
    <3>2. /\ rows' = [rows EXCEPT ![r] = row] /\ UNCHANGED <<groups, memos, hashTags>>
          /\ rows \in [RowId -> GroupMemo \cup {Null}]
      BY <2>2 DEF CreateRow, IInv, StoreTypeOK
    <3> HIDE DEF row
    <3> QED BY <3>1, <3>2, StoreAssumption DEF IInv, StoreTypeOK, StoreKept, Exists
  <2> QED BY <1>4, <2>1, <2>2
<1>7. BelowOK' /\ StartingOK' /\ CountsOK'
  BY <1>1, <1>2, <1>6, TransactionOK
<1>8. Saved(editor)' /\ EditorOK(editor)'
  BY <1>2, <1>5, <1>6 DEF Saved, EditorOK, Exists
<1>9. OwnGroup'
  BY <1>1, <1>2, <1>5, <1>8 DEF OwnGroup, IInv, UiInv
<1>10. save' \in Saving /\ (save' = NoSave \/ save'.step = "link")
  BY <1>4 DEF IInv, QueueTypeOK, Saving, NoSave
<1>11. SaveOK'
  BY <1>5, <1>8, <1>10, StoreAssumption DEF SaveOK, NoSave
<1>12. EditorsTypeOK' /\ QueueTypeOK'
  BY <1>1, <1>5, <1>10 DEF IInv, EditorsTypeOK, QueueTypeOK
<1> QED BY <1>6, <1>7, <1>9, <1>11, <1>12 DEF IInv, UiInv

LEMMA LinkStepInv == IInv /\ LinkStep => IInv'
<1> SUFFICES ASSUME IInv, LinkStep PROVE IInv'
  OBVIOUS
<1>1. /\ save.step = "link" /\ save' = NoSave /\ LinkRow(editor.groupMemo)
      /\ UNCHANGED <<editor, below, starting, restore, creates, kills>>
  BY DEF LinkStep
<1>2. /\ editor # Null /\ editor \in Editor /\ EditorOK(editor) /\ Saved(editor)
      /\ editor.groupMemo # Null
  BY <1>1 DEF IInv, QueueTypeOK, AtRest, NoSave, EditorsTypeOK, UiInv, OwnGroup, SaveOK
<1> DEFINE r == editor.groupMemo
           h == rows[r].parent
           new == [groups[h] EXCEPT !.groupMemos = Append(groups[h].groupMemos, r)]
<1>3. r \in RowId /\ h \in GroupId
  <2>1. r \in RowId /\ rows[r] # Null
    BY <1>2 DEF Editor, EditorOK
  <2>2. rows[r] \in GroupMemo
    BY <2>1 DEF IInv, StoreTypeOK
  <2> QED BY <2>1, <2>2 DEF GroupMemo
<1>4. /\ groups[h] # Null /\ UNCHANGED <<memos, rows, hashTags>>
      /\ groups' = groups \/ groups' = [groups EXCEPT ![h] = new]
      /\ groups \in [GroupId -> Group \cup {Null}]
  BY <1>1 DEF LinkRow, IInv, StoreTypeOK
<1>5. groups[h] \in Group
  BY <1>3, <1>4
<1>6. /\ new \in Group /\ new.title = groups[h].title /\ new.tags = groups[h].tags
  <2>1. groups[h].groupMemos \in Seq(RowId)
    BY <1>5 DEF Group
  <2>2. Append(groups[h].groupMemos, r) \in Seq(RowId)
    BY <1>3, <2>1
  <2> QED BY <1>5, <2>2 DEF Group
<1> HIDE DEF new, h, r
<1>7. /\ groups' \in [GroupId -> Group \cup {Null}]
      /\ \A g \in GroupId : Exists(g) => /\ groups'[g] # Null
                                         /\ groups'[g].title = groups[g].title
                                         /\ groups'[g].tags = groups[g].tags
  BY <1>3, <1>4, <1>6, StoreAssumption DEF Exists
<1>8. StoreTypeOK' /\ StoreKept
  BY <1>4, <1>7 DEF IInv, StoreTypeOK, StoreKept
<1>9. BelowOK' /\ StartingOK' /\ CountsOK'
  BY <1>1, <1>2, <1>7, <1>8, TransactionOK
<1>10. Saved(editor)' /\ EditorOK(editor)'
  <2>1. editor.group \in GroupId /\ editor.parent \in GroupId
        /\ editor.groupMemo \in RowId
    BY <1>2 DEF Editor, Saved
  <2> QED BY <1>1, <1>2, <1>4, <1>7, <2>1 DEF Saved, EditorOK, Exists
<1>11. OwnGroup' /\ SaveOK'
  BY <1>1, <1>10 DEF OwnGroup, SaveOK, NoSave, IInv, UiInv
<1>12. NoSave \in Saving
  BY DEF NoSave, Saving
<1>13. EditorsTypeOK' /\ QueueTypeOK'
  BY <1>1, <1>2, <1>12 DEF IInv, EditorsTypeOK, QueueTypeOK
<1> QED BY <1>8, <1>9, <1>11, <1>13 DEF IInv, UiInv

LEMMA KillInv == IInv /\ Kill => IInv'
<1> SUFFICES ASSUME IInv, Kill PROVE IInv'
  OBVIOUS
<1>1. /\ kills' = kills + 1 /\ editor' = Null /\ below' = <<>> /\ starting' = <<>>
      /\ restore' = Null /\ save' = NoSave /\ UNCHANGED <<store, creates>>
  BY DEF Kill
<1>2. NoSave \in Saving
  BY DEF NoSave, Saving
<1>3. EditorsTypeOK'
  BY <1>1, EmptyOK DEF EditorsTypeOK
<1>4. QueueTypeOK'
  BY <1>1, <1>2, EmptyOK DEF QueueTypeOK, AtRest
<1>5. CountsOK'
  BY <1>1 DEF IInv, CountsOK
<1>6. UiInv'
  BY <1>1 DEF UiInv, SaveOK, NoSave, BelowOK, OwnGroup, StartingOK
<1> QED BY <1>1, <1>3, <1>4, <1>5, <1>6, UnchangedOK DEF IInv

LEMMA NextInv == IInv /\ [Next]_vars => IInv'
<1> SUFFICES ASSUME IInv, [Next]_vars PROVE IInv'
  OBVIOUS
<1>1. CASE TapAddGroup
  BY <1>1, TapAddGroupInv
<1>2. CASE TypeTitle \/ RestoreTitle
  BY <1>2, TitleInv
<1>3. CASE ClickAddTag \/ ClickTag
  BY <1>3, TagInv
<1>4. CASE Finish
  BY <1>4, FinishInv
<1>5. CASE Recreate
  BY <1>5, RecreateInv
<1>6. CASE Launch
  BY <1>6, LaunchInv
<1>7. CASE CreateStep
  BY <1>7, CreateStepInv
<1>8. CASE WriteStep
  BY <1>8, WriteStepInv
<1>9. CASE RowStep
  BY <1>9, RowStepInv
<1>10. CASE LinkStep
  BY <1>10, LinkStepInv
<1>11. CASE Kill
  BY <1>11, KillInv
<1>12. CASE UNCHANGED vars
  <2>1. UNCHANGED <<store, editor, below, starting, restore, save, creates, kills>>
    BY <1>12 DEF vars
  <2>2. CountsOK' /\ EditorsTypeOK'
    BY <2>1 DEF IInv, CountsOK, EditorsTypeOK
  <2>3. QueueTypeOK'
    BY <2>1 DEF IInv, QueueTypeOK, AtRest
  <2>4. SaveOK' /\ OwnGroup'
    BY <2>1 DEF IInv, UiInv, SaveOK, OwnGroup, Saved, EditorOK, Exists, store
  <2> QED BY <2>1, <2>2, <2>3, <2>4, UnchangedOK DEF IInv, UiInv
<1> QED BY <1>1, <1>2, <1>3, <1>4, <1>5, <1>6, <1>7, <1>8, <1>9, <1>10, <1>11, <1>12 DEF Next

\* The invariant holds of all behaviours of the group editors.
THEOREM Invariance == Spec => []IInv
  BY InitInv, NextInv, PTL DEF Spec

\* The tables and the editors keep their types, and no transaction runs without
\* an editor.
THEOREM TypeCorrect == Spec => []TypeOK
<1>1. IInv => TypeOK
  BY DEF IInv, EditorsTypeOK, QueueTypeOK, CountsOK, TypeOK
<1> QED BY <1>1, Invariance, PTL

\* However many editors wait under one another, what each last saw of title and tags
\* is in the file when the UI thread is idle: no editor ever writes another's group.
THEOREM TagsSaved == Spec => []TagsSavedWithTitle
<1>1. IInv => TagsSavedWithTitle
  <2> SUFFICES ASSUME IInv, AtRest, NEW e \in Editors PROVE Saved(e)
    BY DEF TagsSavedWithTitle, Saved
  <2>1. CASE editor # Null /\ e = editor
    BY <2>1 DEF IInv, UiInv, SaveOK, AtRest, NoSave
  <2>2. CASE e \in ToSet(below)
    BY <2>2 DEF ToSet, IInv, UiInv, BelowOK
  <2> QED BY <2>1, <2>2 DEF Editors
<1> QED BY <1>1, Invariance, PTL

(***************************************************************************)
(* The tree of groups, for every number of groups, editors and deaths.     *)
(*                                                                         *)
(* GroupsFormTree is about what the lists show; the invariant is about     *)
(* every group in the file, stranded ones included, and about the rows     *)
(* before they are linked.  No circle of parents can close, because a new  *)
(* group is nobody's parent yet and its own parent is one the lists show.  *)
(***************************************************************************)

\* A row made by an editor names one group by type_id and by its link; the group
\* was made in the group that has the row, and has its title.  The row of the root
\* has no type_id, and the memo editors have rows of their own in the same table.
RowOK(r) ==
  rows[r] # Null =>
    \/ rows[r].type = "group" /\ rows[r].typeId = Null /\ rows[r].ref = Root
    \/ rows[r].type = "memo" /\ rows[r].typeId \in MemoId /\ rows[r].ref \in MemoId
    \/ /\ rows[r].type = "group"
       /\ rows[r].typeId \in GroupId \ {Root} /\ rows[r].ref = rows[r].typeId
       /\ Exists(rows[r].typeId)
       /\ groups[rows[r].typeId].parent = rows[r].parent
       /\ groups[rows[r].typeId].title # Null

OneRow == \A r, q \in RowId :
  /\ rows[r] # Null /\ rows[q] # Null
  /\ rows[r].typeId \in GroupId /\ rows[r].typeId = rows[q].typeId
  => r = q

ListOK(g) ==
  Exists(g) =>
    /\ IsInjective(groups[g].groupMemos)
    /\ \A i \in DOMAIN groups[g].groupMemos :
         LET r == groups[g].groupMemos[i]
         IN rows[r] # Null /\ rows[r].typeId # Null /\ rows[r].parent = g

ParentShown(g) ==
  Exists(g) /\ g # Root => groups[g].parent \in GroupId /\ Shown(groups[g].parent)

NoCircle == \A S \in SUBSET Subgroups : S # {} => \E g \in S : groups[g].parent \notin S

StoreTree ==
  /\ Exists(Root)
  /\ \A g \in GroupId : ParentShown(g) /\ ListOK(g)
  /\ NoCircle
  /\ \A r \in RowId : RowOK(r)
  /\ OneRow

\* The editors: in a group that is shown, on a group made there, with its row.
Placed(e) ==
  /\ Shown(e.parent)
  /\ e.group # Null => e.group # Root /\ groups[e.group].parent = e.parent
  /\ e.groupMemo # Null => e.group # Null /\ rows[e.groupMemo].typeId = e.group

EditorsPlaced ==
  /\ \A i \in DOMAIN starting : Shown(starting[i])
  /\ editor # Null => Placed(editor)
  /\ \A i \in DOMAIN below : Placed(below[i])

TreeInv == StoreTree /\ EditorsPlaced

-----------------------------------------------------------------------------
LEMMA InitTree == Init => TreeInv
<1> SUFFICES ASSUME Init PROVE TreeInv
  OBVIOUS
<1> DEFINE root == [parent |-> Null, title |-> Empty, tags |-> <<>>, groupMemos |-> <<>>]
           row == [type |-> "group", parent |-> Root, typeId |-> Null, ref |-> Root]
<1>1. /\ root \in Group /\ root.groupMemos = <<>>
      /\ row.type = "group" /\ row.typeId = Null /\ row.ref = Root
  BY StoreAssumption, EmptyOK DEF Group
<1>2. /\ groups = [g \in GroupId |-> IF g = Root THEN root ELSE Null]
      /\ rows = [r \in RowId |-> IF r = RootRow THEN row ELSE Null]
  BY DEF Init
<1> HIDE DEF root, row
<1>3. Exists(Root) /\ \A g \in GroupId : Exists(g) => g = Root /\ groups[g] = root
  BY <1>1, <1>2, StoreAssumption, GroupManageAssumption DEF Exists
<1>4. \A r \in RowId : rows[r] # Null =>
        rows[r].type = "group" /\ rows[r].typeId = Null /\ rows[r].ref = Root
  BY <1>1, <1>2
<1>5. NoCircle
  <2>1. Subgroups = {}
    BY <1>3 DEF Subgroups, Exists
  <2> QED BY <2>1 DEF NoCircle
<1>6. \A g \in GroupId : ParentShown(g) /\ ListOK(g)
  BY <1>1, <1>3 DEF ParentShown, ListOK, IsInjective
<1>7. (\A r \in RowId : RowOK(r)) /\ OneRow
  BY <1>4, StoreAssumption DEF RowOK, OneRow
<1>8. EditorsPlaced
  BY DEF Init, EditorsPlaced
<1> QED BY <1>3, <1>5, <1>6, <1>7, <1>8 DEF TreeInv, StoreTree

\* What the transactions do to the file: groups keep their parents, lists only get
\* longer, rows stay as they are.
Grows ==
  /\ \A g \in GroupId : Exists(g) =>
       /\ groups'[g] # Null /\ groups'[g].parent = groups[g].parent
       /\ ToSet(groups[g].groupMemos) \subseteq ToSet(groups'[g].groupMemos)
  /\ \A r \in RowId : rows[r] # Null => rows'[r] = rows[r]

LEMMA GrowsOK ==
  ASSUME IInv, Grows
  PROVE  /\ \A g \in GroupId : Shown(g) => Shown(g)'
         /\ \A e \in Editor : EditorOK(e) /\ Placed(e) => Placed(e)'
<1>1. ASSUME NEW g \in GroupId, Shown(g) PROVE Shown(g)'
  <2>1. groups'[g] # Null
    BY <1>1 DEF Grows, Shown, Exists
  <2>2. CASE g = Root
    BY <2>1, <2>2 DEF Shown
  <2>3. CASE g # Root
    <3>1. PICK r \in RowId : rows[r] # Null /\ rows[r].typeId = g /\ Linked(r)
      BY <1>1, <2>3 DEF Shown, Listed, RowsOf
    <3>2. rows[r].parent \in GroupId
      BY <3>1 DEF IInv, StoreTypeOK, GroupMemo
    <3>3. rows'[r] = rows[r] /\ rows'[r] # Null
      BY <3>1 DEF Grows
    <3>4. Linked(r)'
      BY <3>1, <3>2, <3>3 DEF Linked, Grows, Exists
    <3> QED BY <2>1, <3>1, <3>3, <3>4 DEF Shown, Listed, RowsOf
  <2> QED BY <2>2, <2>3
<1>2. ASSUME NEW e \in Editor, EditorOK(e), Placed(e) PROVE Placed(e)'
  <2>1. /\ e.parent \in GroupId /\ e.group \in GroupId \cup {Null}
        /\ e.groupMemo \in RowId \cup {Null}
    BY <1>2 DEF Editor
  <2>2. Shown(e.parent)'
    BY <1>1, <1>2, <2>1 DEF Placed
  <2>3. e.group # Null => e.group # Root /\ groups'[e.group].parent = e.parent
    BY <1>2, <2>1 DEF Placed, EditorOK, Grows
  <2>4. e.groupMemo # Null => e.group # Null /\ rows'[e.groupMemo].typeId = e.group
    BY <1>2, <2>1 DEF Placed, EditorOK, Grows
  <2> QED BY <2>2, <2>3, <2>4 DEF Placed
<1> QED BY <1>1, <1>2

\* The launches and the editors below keep their places.
LEMMA WaitingPlaced ==
  ASSUME IInv, TreeInv, Grows, UNCHANGED <<below, starting>>, editor' # Null => Placed(editor)'
  PROVE  EditorsPlaced'
<1>1. below \in Seq(Editor) /\ starting \in Seq(GroupId)
  BY DEF IInv, EditorsTypeOK, QueueTypeOK
<1>2. ASSUME NEW i \in DOMAIN below PROVE Placed(below[i])'
  <2>1. below[i] \in Editor /\ EditorOK(below[i]) /\ Placed(below[i])
    BY <1>1, <1>2 DEF IInv, UiInv, BelowOK, TreeInv, EditorsPlaced
  <2>2. UNCHANGED below
    OBVIOUS
  <2>3. \A e \in Editor : EditorOK(e) /\ Placed(e) => Placed(e)'
    BY GrowsOK
  <2> QED BY <2>1, <2>2, <2>3 DEF Placed, Shown, Listed, Linked, RowsOf
<1>3. ASSUME NEW i \in DOMAIN starting PROVE Shown(starting[i])'
  <2>1. starting[i] \in GroupId /\ Shown(starting[i])
    BY <1>1, <1>3 DEF TreeInv, EditorsPlaced
  <2>2. UNCHANGED starting
    OBVIOUS
  <2> QED BY <2>1, <2>2, GrowsOK DEF Shown, Listed, Linked, RowsOf
<1> QED BY <1>2, <1>3 DEF EditorsPlaced

-----------------------------------------------------------------------------
(* Steps that leave the file alone. *)

LEMMA SameStore ==
  ASSUME TreeInv, UNCHANGED store
  PROVE  /\ StoreTree' /\ Grows
         /\ \A g \in GroupId : Shown(g) => Shown(g)'
         /\ \A e \in Editor : Placed(e) => Placed(e)'
<1>1. groups' = groups /\ rows' = rows
  BY DEF store
<1>2. StoreTree'
  <2>1. NoCircle'
    BY <1>1 DEF TreeInv, StoreTree, NoCircle, Subgroups
  <2>2. OneRow' /\ \A r \in RowId : RowOK(r)'
    BY <1>1 DEF TreeInv, StoreTree, OneRow, RowOK, Exists
  <2>3. Exists(Root)' /\ \A g \in GroupId : ListOK(g)'
    BY <1>1 DEF TreeInv, StoreTree, ListOK, Exists
  <2>4. \A g \in GroupId : ParentShown(g)'
    BY <1>1 DEF TreeInv, StoreTree, ParentShown, Shown, Listed, Linked, RowsOf, Exists
  <2> QED BY <2>1, <2>2, <2>3, <2>4 DEF StoreTree
<1>3. Grows
  BY <1>1 DEF Grows, Exists
<1>4. \A g \in GroupId : Shown(g) => Shown(g)'
  BY <1>1 DEF Shown, Listed, Linked, RowsOf
<1>5. \A e \in Editor : Placed(e) => Placed(e)'
  BY <1>1 DEF Placed, Shown, Listed, Linked, RowsOf
<1> QED BY <1>2, <1>3, <1>4, <1>5

\* An event changes the title or the tags of an editor, not its place.
LEMMA SamePlace ==
  ASSUME TreeInv, UNCHANGED store, editor # Null,
         editor'.parent = editor.parent, editor'.group = editor.group,
         editor'.groupMemo = editor.groupMemo
  PROVE  Placed(editor)'
<1>1. Placed(editor) /\ groups' = groups /\ rows' = rows
  BY DEF TreeInv, EditorsPlaced, store
<1> QED BY <1>1 DEF Placed, Shown, Listed, Linked, RowsOf

LEMMA EventTree ==
  ASSUME IInv, TreeInv, TypeTitle \/ RestoreTitle \/ ClickAddTag \/ ClickTag
  PROVE  TreeInv'
<1>1. /\ UNCHANGED <<store, below, starting>> /\ editor # Null
      /\ editor \in Editor
  BY DEF TypeTitle, RestoreTitle, ClickAddTag, ClickTag, IInv, QueueTypeOK, AtRest, EditorsTypeOK
<1>2. /\ editor'.parent = editor.parent /\ editor'.group = editor.group
      /\ editor'.groupMemo = editor.groupMemo
  BY <1>1 DEF TypeTitle, RestoreTitle, ClickAddTag, ClickTag, SaveAfterCheck, Editor
<1> QED BY <1>1, <1>2, SameStore, SamePlace, WaitingPlaced DEF TreeInv

LEMMA OnCreatePlaced ==
  ASSUME IInv, TreeInv, UNCHANGED store, NEW g \in GroupId, Shown(g), OnCreate(g)
  PROVE  Placed(editor)'
<1>1. editor'.parent = g /\ editor'.group = Null /\ editor'.groupMemo = Null
  BY DEF OnCreate, SaveAfterCheck
<1>2. Shown(g)'
  BY SameStore
<1> QED BY <1>1, <1>2 DEF Placed, Shown, Listed, Linked, RowsOf

LEMMA RecreateTree == ASSUME IInv, TreeInv, Recreate PROVE TreeInv'
<1>1. editor \in Editor /\ Placed(editor)
  BY DEF Recreate, IInv, EditorsTypeOK, TreeInv, EditorsPlaced
<1>2. editor.parent \in GroupId /\ Shown(editor.parent)
  BY <1>1 DEF Editor, Placed
<1>3. OnCreate(editor.parent) /\ UNCHANGED <<store, below, starting>>
  BY DEF Recreate
<1> QED BY <1>2, <1>3, OnCreatePlaced, SameStore, WaitingPlaced DEF TreeInv

LEMMA TapAddGroupTree == ASSUME IInv, TreeInv, TapAddGroup PROVE TreeInv'
<1>1. PICK g \in GroupId : Shown(g) /\ starting' = Append(starting, g)
  BY DEF TapAddGroup
<1>2. UNCHANGED <<store, editor, below>> /\ starting \in Seq(GroupId) /\ below \in Seq(Editor)
      /\ editor \in Editor \cup {Null}
  BY DEF TapAddGroup, IInv, QueueTypeOK, EditorsTypeOK
<1>3. \A i \in DOMAIN starting' : starting'[i] = g \/ (i \in DOMAIN starting
                                                       /\ starting'[i] = starting[i])
  BY <1>1, <1>2
<1>4. groups' = groups /\ rows' = rows
  BY <1>2 DEF store
<1>5. EditorsPlaced'
  BY <1>1, <1>2, <1>3, <1>4
     DEF TreeInv, EditorsPlaced, Placed, Shown, Listed, Linked, RowsOf
<1> QED BY <1>2, <1>5, SameStore DEF TreeInv

LEMMA LaunchTree == ASSUME IInv, TreeInv, Launch PROVE TreeInv'
<1>1. /\ starting # <<>> /\ starting \in Seq(GroupId) /\ starting' = Tail(starting)
      /\ below \in Seq(Editor) /\ editor \in Editor \cup {Null}
      /\ OnCreate(Head(starting)) /\ UNCHANGED store
      /\ below' = IF editor = Null THEN below ELSE Append(below, editor)
  BY DEF Launch, IInv, QueueTypeOK, EditorsTypeOK
<1>2. /\ Head(starting) \in GroupId /\ Shown(Head(starting))
      /\ \A i \in DOMAIN starting' : i + 1 \in DOMAIN starting /\ starting'[i] = starting[i + 1]
  <2>1. 1 \in DOMAIN starting /\ Head(starting) = starting[1] /\ starting[1] \in GroupId
    BY <1>1
  <2> QED BY <1>1, <2>1 DEF TreeInv, EditorsPlaced
<1>3. Placed(editor)'
  BY <1>1, <1>2, OnCreatePlaced
<1>4. groups' = groups /\ rows' = rows
  BY <1>1 DEF store
<1>5. \A i \in DOMAIN starting' : Shown(starting'[i])
  BY <1>2 DEF TreeInv, EditorsPlaced
<1>6. \A i \in DOMAIN below' : Placed(below'[i])
  <2>1. \A i \in DOMAIN below' : \/ i \in DOMAIN below /\ below'[i] = below[i]
                                 \/ editor # Null /\ below'[i] = editor
    BY <1>1
  <2> QED BY <2>1 DEF TreeInv, EditorsPlaced
<1>7. EditorsPlaced'
  BY <1>3, <1>4, <1>5, <1>6 DEF EditorsPlaced, Placed, Shown, Listed, Linked, RowsOf
<1> QED BY <1>1, <1>7, SameStore DEF TreeInv

LEMMA FinishTree == ASSUME IInv, TreeInv, Finish PROVE TreeInv'
<1>1. /\ UNCHANGED <<store, starting>> /\ below \in Seq(Editor)
      /\ editor' = IF below = <<>> THEN Null ELSE Last(below)
      /\ below' = IF below = <<>> THEN below ELSE Front(below)
  BY DEF Finish, IInv, EditorsTypeOK
<1>2. groups' = groups /\ rows' = rows
  BY <1>1 DEF store
<1>3. /\ \A i \in DOMAIN below' : Placed(below'[i])
      /\ editor' # Null => Placed(editor')
  BY <1>1, FrontOK DEF TreeInv, EditorsPlaced
<1>4. EditorsPlaced'
  BY <1>1, <1>2, <1>3 DEF TreeInv, EditorsPlaced, Placed, Shown, Listed, Linked, RowsOf
<1> QED BY <1>1, <1>4, SameStore DEF TreeInv

LEMMA KillTree == ASSUME IInv, TreeInv, Kill PROVE TreeInv'
<1>1. UNCHANGED store /\ editor' = Null /\ below' = <<>> /\ starting' = <<>>
  BY DEF Kill
<1>2. EditorsPlaced'
  BY <1>1 DEF EditorsPlaced
<1> QED BY <1>1, <1>2, SameStore DEF TreeInv

-----------------------------------------------------------------------------
(* The transactions. *)

\* A transaction has an editor.
LEMMA SavingEditor ==
  ASSUME IInv, TreeInv, save.step # "none"
  PROVE  editor # Null /\ editor \in Editor /\ EditorOK(editor) /\ Placed(editor)
  BY DEF IInv, QueueTypeOK, AtRest, NoSave, EditorsTypeOK, UiInv, OwnGroup, TreeInv, EditorsPlaced

\* The new group has no children, and the group it is made in is shown already.
LEMMA CreateStepTree == ASSUME IInv, TreeInv, CreateStep PROVE TreeInv'
<1>1. PICK g \in GroupId : CreateGroup(g, editor.parent) /\ editor' = [editor EXCEPT !.group = g]
  BY DEF CreateStep
<1>2. /\ save.step = "create" /\ UNCHANGED <<below, starting>>
      /\ editor \in Editor /\ EditorOK(editor) /\ Placed(editor) /\ editor.group = Null
  BY SavingEditor DEF CreateStep, IInv, UiInv, SaveOK
<1> DEFINE new == [parent |-> editor.parent, title |-> Null, tags |-> <<>>, groupMemos |-> <<>>]
<1>3. /\ new \in Group /\ new.parent = editor.parent /\ new.groupMemos = <<>>
      /\ editor.parent \in GroupId
  BY <1>2, EmptyOK DEF Group, Editor
<1>4. /\ groups[g] = Null /\ groups' = [groups EXCEPT ![g] = new]
      /\ rows' = rows /\ groups \in [GroupId -> Group \cup {Null}]
  BY <1>1 DEF CreateGroup, IInv, StoreTypeOK
<1> HIDE DEF new
<1>5. /\ groups'[g] = new /\ new # Null /\ g # Root /\ g # editor.parent
      /\ \A h \in GroupId : h # g => groups'[h] = groups[h]
      /\ \A h \in GroupId : Exists(h) => h # g
  BY <1>2, <1>3, <1>4, StoreAssumption DEF TreeInv, StoreTree, EditorOK, Exists
<1>6. Grows
  BY <1>4, <1>5 DEF Grows, Exists
<1>7. Placed(editor)'
  <2>1. /\ editor'.parent = editor.parent /\ editor'.group = g /\ editor'.groupMemo = Null
    BY <1>1, <1>2 DEF Placed, Editor
  <2>2. Shown(editor.parent)'
    BY <1>2, <1>3, <1>6, <2>1, GrowsOK DEF Placed
  <2> QED BY <1>3, <1>5, <2>1, <2>2 DEF Placed, Shown, Listed, Linked, RowsOf
<1>8. \A h \in GroupId : ParentShown(h)'
  <2>1. ASSUME NEW h \in GroupId, groups'[h] # Null, h # Root
        PROVE  groups'[h].parent \in GroupId /\ \E p \in GroupId : p = groups'[h].parent /\ Shown(p)'
    <3>1. CASE h = g
      BY <1>2, <1>3, <1>5, <1>6, <3>1, GrowsOK DEF Placed
    <3>2. CASE h # g
      <4>1. groups'[h] = groups[h] /\ groups[h].parent \in GroupId /\ Shown(groups[h].parent)
        BY <1>5, <2>1, <3>2 DEF TreeInv, StoreTree, ParentShown, Exists
      <4> QED BY <1>6, <4>1, GrowsOK
    <3> QED BY <3>1, <3>2
  <2> QED BY <2>1 DEF ParentShown, Exists, Shown, Listed, Linked, RowsOf
<1>9. \A h \in GroupId : ListOK(h)'
  BY <1>3, <1>4, <1>5 DEF TreeInv, StoreTree, ListOK, Exists, IsInjective
<1>10. NoCircle'
  <2>1. Subgroups' = Subgroups \cup {g}
    BY <1>4, <1>5 DEF Subgroups
  <2>2. \A h \in Subgroups : h \in GroupId /\ h # g /\ groups[h].parent # g
                             /\ groups'[h].parent = groups[h].parent
    <3> SUFFICES ASSUME NEW h \in Subgroups
                 PROVE  h \in GroupId /\ h # g /\ groups[h].parent # g
                        /\ groups'[h].parent = groups[h].parent
      OBVIOUS
    <3>1. h \in GroupId /\ h # Root /\ Exists(h)
      BY DEF Subgroups, Exists
    <3>2. groups[h].parent \in GroupId /\ Exists(groups[h].parent)
      BY <3>1 DEF TreeInv, StoreTree, ParentShown, Shown, Exists
    <3> QED BY <1>5, <3>1, <3>2
  <2>3. ASSUME NEW S \in SUBSET (Subgroups \cup {g}), S # {}
        PROVE  \E h \in S : groups'[h].parent \notin S
    <3>1. CASE S = {g}
      BY <1>3, <1>5, <3>1
    <3>2. CASE S # {g}
      <4>1. S \ {g} \in SUBSET Subgroups /\ S \ {g} # {}
        BY <2>3, <3>2
      <4>2. PICK h \in S \ {g} : groups[h].parent \notin S \ {g}
        BY <4>1 DEF TreeInv, StoreTree, NoCircle
      <4>3. h \in Subgroups
        BY <4>1, <4>2
      <4> QED BY <2>2, <4>2, <4>3
    <3> QED BY <3>1, <3>2
  <2> QED BY <2>1, <2>3 DEF NoCircle
<1>11. \A r \in RowId : RowOK(r)'
  BY <1>4, <1>5 DEF TreeInv, StoreTree, RowOK, Exists
<1>12. OneRow' /\ Exists(Root)'
  BY <1>4, <1>5, GroupManageAssumption DEF TreeInv, StoreTree, OneRow, Exists
<1>13. EditorsPlaced'
  BY <1>2, <1>6, <1>7, WaitingPlaced
<1> QED BY <1>8, <1>9, <1>10, <1>11, <1>12, <1>13 DEF TreeInv, StoreTree

\* A transaction that adds no group, and keeps the parents, keeps what is said of
\* groups and their parents.
LEMMA SameGroups ==
  ASSUME IInv, TreeInv, Grows, \A g \in GroupId : groups'[g] # Null => groups[g] # Null
  PROVE  NoCircle' /\ Exists(Root)' /\ \A g \in GroupId : ParentShown(g)'
<1>1. Subgroups' = Subgroups /\ \A g \in Subgroups : groups'[g].parent = groups[g].parent
  BY DEF Subgroups, Grows, Exists
<1>2. NoCircle'
  BY <1>1 DEF TreeInv, StoreTree, NoCircle
<1>3. Exists(Root)'
  BY GroupManageAssumption DEF TreeInv, StoreTree, Grows, Exists
<1>4. ASSUME NEW g \in GroupId PROVE ParentShown(g)'
  <2> SUFFICES ASSUME groups'[g] # Null, g # Root
               PROVE  groups'[g].parent \in GroupId
                      /\ \E p \in GroupId : p = groups'[g].parent /\ Shown(p)'
    BY DEF ParentShown, Exists, Shown, Listed, Linked, RowsOf
  <2>1. Exists(g) /\ groups'[g].parent = groups[g].parent
    BY DEF Exists, Grows
  <2>2. groups[g].parent \in GroupId /\ Shown(groups[g].parent)
    BY <2>1 DEF TreeInv, StoreTree, ParentShown
  <2> QED BY <2>1, <2>2, GrowsOK
<1> QED BY <1>2, <1>3, <1>4

LEMMA WriteStepTree == ASSUME IInv, TreeInv, WriteStep PROVE TreeInv'
<1>1. /\ save.step = "write" /\ UNCHANGED <<editor, below, starting>> /\ save \in Saving
      /\ editor \in Editor /\ EditorOK(editor) /\ Placed(editor)
  BY SavingEditor DEF WriteStep, IInv, QueueTypeOK
<1> DEFINE g == editor.group
           new == [groups[g] EXCEPT !.title = editor.title, !.tags = editor.seen]
<1>2. /\ g \in GroupId /\ Exists(g) /\ groups[g] \in Group
      /\ Given(save.title, groups[g].title) = editor.title
      /\ Given(save.tags, groups[g].tags) = editor.seen
      /\ editor.title \in Text /\ editor.seen \in Seq(Tag)
  <2>1. g \in GroupId /\ Exists(g)
    BY <1>1 DEF IInv, UiInv, SaveOK, EditorOK, Editor
  <2> QED BY <1>1, <2>1 DEF IInv, UiInv, SaveOK, Editor, StoreTypeOK, Exists
<1>3. /\ groups' = [groups EXCEPT ![g] = new] /\ rows' = rows
      /\ groups \in [GroupId -> Group \cup {Null}]
  <2>1. WriteGroup(g, save.title, save.tags) /\ groups \in [GroupId -> Group \cup {Null}]
    BY DEF WriteStep, IInv, StoreTypeOK
  <2> QED BY <1>2, <2>1 DEF WriteGroup, Group
<1>4. /\ new \in Group /\ new.title # Null /\ new.parent = groups[g].parent
      /\ new.groupMemos = groups[g].groupMemos
  BY <1>2, StoreAssumption DEF Group
<1> HIDE DEF new
<1>5. /\ groups'[g] = new /\ new # Null
      /\ \A h \in GroupId : h # g => groups'[h] = groups[h]
  BY <1>2, <1>3, <1>4, StoreAssumption
<1> HIDE DEF g
<1>6. Grows
  BY <1>3, <1>4, <1>5 DEF Grows, Exists
<1>7. NoCircle' /\ Exists(Root)' /\ \A h \in GroupId : ParentShown(h)'
  BY <1>2, <1>5, <1>6, SameGroups DEF Exists
<1>8. \A h \in GroupId : ListOK(h)'
  <2>1. \A h \in GroupId : Exists(h)' => Exists(h) /\ groups'[h].groupMemos = groups[h].groupMemos
    BY <1>2, <1>4, <1>5 DEF Exists
  <2> QED BY <1>3, <2>1 DEF TreeInv, StoreTree, ListOK
<1>9. OneRow' /\ \A r \in RowId : RowOK(r)'
  BY <1>2, <1>3, <1>4, <1>5 DEF TreeInv, StoreTree, OneRow, RowOK, Exists
<1>10. Placed(editor)'
  <2>1. \A e \in Editor : EditorOK(e) /\ Placed(e) => Placed(e)'
    BY <1>6, GrowsOK
  <2> QED BY <1>1, <2>1 DEF Placed, Shown, Listed, Linked, RowsOf
<1>11. EditorsPlaced'
  BY <1>1, <1>6, <1>10, WaitingPlaced
<1> QED BY <1>7, <1>8, <1>9, <1>11 DEF TreeInv, StoreTree

\* A row is looked up by the type_id it is made with, so a group gets one only.
LEMMA RowStepTree == ASSUME IInv, TreeInv, RowStep PROVE TreeInv'
<1>1. /\ save.step = "row" /\ UNCHANGED <<below, starting>>
      /\ editor \in Editor /\ EditorOK(editor) /\ Placed(editor)
  BY SavingEditor DEF RowStep
<1>2. /\ Saved(editor) /\ editor.group \in GroupId \ {Root} /\ editor.parent \in GroupId
      /\ groups[editor.group].parent = editor.parent
      /\ groups[editor.group].title # Null
  <2>1. Saved(editor)
    BY <1>1 DEF IInv, UiInv, SaveOK
  <2> QED BY <1>1, <2>1, StoreAssumption DEF Saved, Placed, Editor
<1>3. ASSUME NEW r \in RowId, editor' = [editor EXCEPT !.groupMemo = r], Grows,
             rows'[r].typeId = editor.group
      PROVE  EditorsPlaced'
  <2>1. /\ editor'.parent = editor.parent /\ editor'.group = editor.group
        /\ editor'.groupMemo = r
    BY <1>1, <1>3 DEF Editor
  <2>2. Shown(editor.parent)'
    BY <1>1, <1>2, <1>3, GrowsOK DEF Placed
  <2>3. groups'[editor.group].parent = editor.parent
    BY <1>2, <1>3 DEF Grows, Saved
  <2>4. Placed(editor)'
    BY <1>2, <1>3, <2>1, <2>2, <2>3 DEF Placed, Shown, Listed, Linked, RowsOf, Saved
  <2> QED BY <1>1, <1>3, <2>4, WaitingPlaced
<1> DEFINE found == IF editor.groupMemo # Null THEN {editor.groupMemo} ELSE RowsOf(editor.group)
<1>4. CASE \E r \in found : editor' = [editor EXCEPT !.groupMemo = r] /\ UNCHANGED store
  <2>1. PICK r \in found : editor' = [editor EXCEPT !.groupMemo = r]
    BY <1>4
  <2>2. r \in RowId /\ rows[r].typeId = editor.group
    BY <1>1 DEF RowsOf, Placed, Editor
  <2>3. rows' = rows
    BY <1>4 DEF store
  <2> QED BY <1>3, <1>4, <2>1, <2>2, <2>3, SameStore DEF TreeInv
<1>5. CASE found = {} /\ \E r \in RowId : /\ CreateRow(r, "group", editor.parent, editor.group)
                                          /\ editor' = [editor EXCEPT !.groupMemo = r]
  <2>1. PICK r \in RowId : /\ CreateRow(r, "group", editor.parent, editor.group)
                           /\ editor' = [editor EXCEPT !.groupMemo = r]
    BY <1>5
  <2>2. \A q \in RowId : rows[q] # Null => rows[q].typeId # editor.group
    BY <1>5 DEF RowsOf
  <2> DEFINE row == [type |-> "group", parent |-> editor.parent,
                     typeId |-> editor.group, ref |-> editor.group]
  <2>3. /\ row \in GroupMemo /\ row.typeId = editor.group /\ row.ref = editor.group
        /\ row.parent = editor.parent /\ row.type = "group"
    BY <1>2 DEF GroupMemo
  <2>4. /\ rows[r] = Null /\ rows' = [rows EXCEPT ![r] = row] /\ groups' = groups
        /\ rows \in [RowId -> GroupMemo \cup {Null}]
    BY <2>1 DEF CreateRow, IInv, StoreTypeOK
  <2> HIDE DEF row
  <2>5. rows'[r] = row /\ \A q \in RowId : q # r => rows'[q] = rows[q]
    BY <2>4
  <2>6. Grows
    BY <2>4, <2>5 DEF Grows, Exists
  <2>7. NoCircle' /\ Exists(Root)' /\ \A h \in GroupId : ParentShown(h)'
    BY <2>4, <2>6, SameGroups
  <2>8. \A h \in GroupId : ListOK(h)'
    <3> SUFFICES ASSUME NEW h \in GroupId, Exists(h), NEW i \in DOMAIN groups[h].groupMemos
                 PROVE  LET q == groups[h].groupMemos[i]
                        IN rows'[q] # Null /\ rows'[q].typeId # Null /\ rows'[q].parent = h
      BY <2>4 DEF ListOK, Exists, TreeInv, StoreTree
    <3>1. groups[h].groupMemos \in Seq(RowId)
      BY DEF IInv, StoreTypeOK, Group, Exists
    <3>2. groups[h].groupMemos[i] \in RowId
      BY <3>1
    <3> QED BY <2>4, <2>5, <3>2 DEF TreeInv, StoreTree, ListOK
  <2>9. \A q \in RowId : RowOK(q)'
    <3>1. ASSUME NEW q \in RowId, q # r PROVE RowOK(q)'
      BY <2>4, <2>5, <3>1 DEF TreeInv, StoreTree, RowOK, Exists
    <3>2. RowOK(r)'
      BY <1>2, <2>3, <2>4, <2>5 DEF RowOK, Exists, Saved
    <3> QED BY <3>1, <3>2
  <2>10. OneRow'
    BY <2>2, <2>3, <2>5 DEF TreeInv, StoreTree, OneRow
  <2>11. EditorsPlaced'
    BY <1>3, <2>1, <2>3, <2>5, <2>6
  <2> QED BY <2>7, <2>8, <2>9, <2>10, <2>11 DEF TreeInv, StoreTree
<1> QED BY <1>4, <1>5 DEF RowStep

LEMMA AppendOK ==
  ASSUME NEW S, NEW s \in Seq(S), NEW e \in S
  PROVE  /\ Append(s, e) \in Seq(S) /\ ToSet(s) \subseteq ToSet(Append(s, e))
         /\ \A i \in DOMAIN Append(s, e) :
              (i \in DOMAIN s /\ Append(s, e)[i] = s[i]) \/ Append(s, e)[i] = e
         /\ IsInjective(s) /\ ~Contains(s, e) => IsInjective(Append(s, e))
<1>1. /\ DOMAIN Append(s, e) = 1..(Len(s) + 1) /\ DOMAIN s = 1..Len(s)
      /\ Len(s) \in Nat /\ Append(s, e)[Len(s) + 1] = e
      /\ \A i \in 1..Len(s) : Append(s, e)[i] = s[i]
  OBVIOUS
<1>2. ToSet(s) \subseteq ToSet(Append(s, e))
  BY <1>1 DEF ToSet
<1>3. ~Contains(s, e) => \A i \in DOMAIN s : s[i] # e
  BY DEF Contains
<1>4. IsInjective(s) /\ ~Contains(s, e) => IsInjective(Append(s, e))
  BY <1>1, <1>3 DEF IsInjective
<1> QED BY <1>1, <1>2, <1>4

LEMMA LinkStepTree == ASSUME IInv, TreeInv, LinkStep PROVE TreeInv'
<1>1. /\ save.step = "link" /\ UNCHANGED <<editor, below, starting>>
      /\ editor \in Editor /\ EditorOK(editor) /\ Placed(editor) /\ editor.groupMemo # Null
  BY SavingEditor DEF LinkStep, IInv, UiInv, SaveOK
<1>2. PICK r \in RowId : r = editor.groupMemo
  BY <1>1 DEF Editor
<1>3. rows[r] # Null /\ rows[r] \in GroupMemo /\ rows[r].typeId # Null
  BY <1>1, <1>2 DEF EditorOK, Placed, IInv, StoreTypeOK
<1>4. PICK h \in GroupId : h = rows[r].parent
  BY <1>3 DEF GroupMemo
<1> DEFINE list == groups[h].groupMemos
<1>5. /\ groups[h] # Null /\ rows' = rows
      /\ groups \in [GroupId -> Group \cup {Null}]
      /\ groups' = IF Contains(list, r) THEN groups
                   ELSE [groups EXCEPT ![h].groupMemos = Append(list, r)]
      /\ UNCHANGED <<memos, hashTags>>
  BY <1>2, <1>4 DEF LinkStep, LinkRow, IInv, StoreTypeOK
<1>6. groups[h] \in Group /\ list \in Seq(RowId)
  BY <1>5 DEF Group
<1>7. CASE Contains(list, r)
  <2>1. UNCHANGED store
    BY <1>5, <1>7 DEF store
  <2>2. Placed(editor)'
    BY <1>1, <2>1, SamePlace, SavingEditor
  <2> QED BY <1>1, <2>1, <2>2, SameStore, WaitingPlaced DEF TreeInv
<1>8. CASE ~Contains(list, r)
  <2> DEFINE new == [groups[h] EXCEPT !.groupMemos = Append(list, r)]
  <2>1. groups' = [groups EXCEPT ![h] = new]
    BY <1>5, <1>8
  <2>2. Append(list, r) \in Seq(RowId)
    BY <1>6
  <2>3. /\ new \in Group /\ new.groupMemos = Append(list, r)
        /\ new.parent = groups[h].parent /\ new.title = groups[h].title
    <3> HIDE DEF list
    <3> QED BY <1>6, <2>2 DEF Group
  <2> HIDE DEF new
  <2>4. /\ groups'[h] = new /\ new # Null /\ \A g \in GroupId \ {h} : groups'[g] = groups[g]
    BY <1>5, <2>1, <2>3, StoreAssumption
  <2>5. ToSet(list) \subseteq ToSet(new.groupMemos)
    BY <1>6, <2>3, AppendOK
  <2>6. Grows
    BY <1>5, <2>3, <2>4, <2>5 DEF Grows, Exists
  <2>7. NoCircle' /\ Exists(Root)' /\ \A g \in GroupId : ParentShown(g)'
    BY <1>5, <2>4, <2>6, SameGroups
  <2>8. ListOK(h)'
    <3>1. IsInjective(list) /\ \A i \in DOMAIN list :
            rows[list[i]] # Null /\ rows[list[i]].typeId # Null /\ rows[list[i]].parent = h
      BY <1>5 DEF TreeInv, StoreTree, ListOK, Exists
    <3>2. IsInjective(Append(list, r))
      BY <1>6, <1>8, <3>1, AppendOK
    <3>3. \A i \in DOMAIN Append(list, r) :
            /\ rows[Append(list, r)[i]] # Null /\ rows[Append(list, r)[i]].typeId # Null
            /\ rows[Append(list, r)[i]].parent = h
      <4>1. \A i \in DOMAIN Append(list, r) :
              (i \in DOMAIN list /\ Append(list, r)[i] = list[i]) \/ Append(list, r)[i] = r
        BY <1>3, <1>4, <1>6, AppendOK
      <4> HIDE DEF list
      <4> QED BY <1>3, <1>4, <3>1, <4>1, Zenon
    <3> QED BY <1>5, <2>3, <2>4, <3>2, <3>3 DEF ListOK
  <2>9. \A g \in GroupId \ {h} : ListOK(g)'
    BY <1>5, <2>4 DEF TreeInv, StoreTree, ListOK, Exists
  <2>10. OneRow' /\ \A q \in RowId : RowOK(q)'
    <3>1. OneRow'
      BY <1>5 DEF TreeInv, StoreTree, OneRow
    <3>2. \A g \in GroupId : Exists(g) =>
            /\ Exists(g)' /\ groups'[g].parent = groups[g].parent
            /\ groups'[g].title = groups[g].title
      BY <2>3, <2>4 DEF Exists
    <3>3. ASSUME NEW q \in RowId PROVE RowOK(q)'
      BY <1>5, <3>2 DEF TreeInv, StoreTree, RowOK
    <3> QED BY <3>1, <3>3
  <2>11. Placed(editor)'
    <3>1. \A e \in Editor : EditorOK(e) /\ Placed(e) => Placed(e)'
      BY <2>6, GrowsOK
    <3> QED BY <1>1, <3>1 DEF Placed, Shown, Listed, Linked, RowsOf
  <2>12. EditorsPlaced'
    BY <1>1, <2>6, <2>11, WaitingPlaced
  <2> QED BY <2>7, <2>8, <2>9, <2>10, <2>12 DEF TreeInv, StoreTree
<1> QED BY <1>7, <1>8

LEMMA NextTree == IInv /\ TreeInv /\ [Next]_vars => TreeInv'
<1> SUFFICES ASSUME IInv, TreeInv, [Next]_vars PROVE TreeInv'
  OBVIOUS
<1>1. CASE TapAddGroup
  BY <1>1, TapAddGroupTree
<1>2. CASE TypeTitle \/ RestoreTitle \/ ClickAddTag \/ ClickTag
  BY <1>2, EventTree
<1>3. CASE Finish
  BY <1>3, FinishTree
<1>4. CASE Recreate
  BY <1>4, RecreateTree
<1>5. CASE Launch
  BY <1>5, LaunchTree
<1>6. CASE CreateStep
  BY <1>6, CreateStepTree
<1>7. CASE WriteStep
  BY <1>7, WriteStepTree
<1>8. CASE RowStep
  BY <1>8, RowStepTree
<1>9. CASE LinkStep
  BY <1>9, LinkStepTree
<1>10. CASE Kill
  BY <1>10, KillTree
<1>11. CASE UNCHANGED vars
  <2>1. UNCHANGED <<store, editor, below, starting>>
    BY <1>11 DEF vars
  <2>2. editor # Null => Placed(editor)'
    BY <2>1, SamePlace
  <2> QED BY <2>1, <2>2, SameStore, WaitingPlaced DEF TreeInv
<1> QED BY <1>1, <1>2, <1>3, <1>4, <1>5, <1>6, <1>7, <1>8, <1>9, <1>10, <1>11 DEF Next

\* The invariant about all stored groups holds of all behaviours.
THEOREM TreeInvariance == Spec => []TreeInv
<1>1. IInv /\ [Next]_vars => IInv'
  BY NextInv
<1> QED BY <1>1, Invariance, InitTree, NextTree, PTL DEF Spec

\* The groups the lists show form a tree under the root, whichever editors were open
\* at once, whatever was launched twice and whenever the process died.
THEOREM GroupsTree == Spec => []GroupsFormTree
<1>1. IInv /\ TreeInv => GroupsFormTree
  <2> SUFFICES ASSUME IInv, TreeInv PROVE GroupsFormTree
    OBVIOUS
  <2> DEFINE linked == {g \in Subgroups : Listed(g)}
  <2>1. ASSUME NEW g \in linked
        PROVE  /\ g \in GroupId \ {Root} /\ Exists(g)
               /\ groups[g].title # Null
               /\ groups[g].parent \in GroupId /\ Exists(groups[g].parent)
               /\ groups[g].parent \in linked \cup {Root}
               /\ \E i \in DOMAIN groups[groups[g].parent].groupMemos :
                    rows[groups[groups[g].parent].groupMemos[i]].ref = g
    <3>1. g \in GroupId \ {Root} /\ Exists(g)
      BY <2>1 DEF Subgroups, Exists
    <3>2. PICK r \in RowId : rows[r] # Null /\ rows[r].typeId = g /\ Linked(r)
      BY <2>1 DEF Listed, RowsOf
    <3>3. g # Null
      BY <3>1, StoreAssumption
    <3>4. rows[r].ref = g /\ groups[g].parent = rows[r].parent /\ groups[g].title # Null
      BY <3>1, <3>2, <3>3, StoreAssumption DEF TreeInv, StoreTree, RowOK
    <3>5. groups[g].parent \in GroupId /\ Shown(groups[g].parent)
      BY <3>1 DEF TreeInv, StoreTree, ParentShown
    <3>6. groups[g].parent \in linked \cup {Root}
      BY <3>5 DEF Shown, Subgroups
    <3>7. \E i \in DOMAIN groups[groups[g].parent].groupMemos :
            rows[groups[groups[g].parent].groupMemos[i]].ref = g
      BY <3>2, <3>4 DEF Linked, ToSet
    <3> QED BY <3>1, <3>4, <3>5, <3>6, <3>7 DEF Shown, Exists
  <2>2. ASSUME NEW g \in linked, NEW h \in linked \cup {Root}, NEW i \in Indices(g, h)
        PROVE  /\ h = groups[g].parent
               /\ \A j \in Indices(g, h) : j = i
    <3>1. g \in GroupId \ {Root} /\ h \in GroupId /\ Exists(h)
      BY <2>1, <2>2, GroupManageAssumption DEF TreeInv, StoreTree
    <3>2. groups[h].groupMemos \in Seq(RowId)
      BY <3>1 DEF IInv, StoreTypeOK, Group, Exists
    <3>3. ASSUME NEW j \in Indices(g, h)
          PROVE  /\ j \in DOMAIN groups[h].groupMemos
                 /\ groups[h].groupMemos[j] \in RowId
                 /\ rows[groups[h].groupMemos[j]] # Null
                 /\ rows[groups[h].groupMemos[j]].typeId = g
                 /\ groups[g].parent = h
      <4>1. /\ j \in DOMAIN groups[h].groupMemos
            /\ rows[groups[h].groupMemos[j]].ref = g
        BY <3>3 DEF Indices
      <4>2. groups[h].groupMemos[j] \in RowId
        BY <3>2, <4>1
      <4>3. /\ rows[groups[h].groupMemos[j]] # Null
            /\ rows[groups[h].groupMemos[j]].typeId # Null
            /\ rows[groups[h].groupMemos[j]].parent = h
        BY <3>1, <4>1 DEF TreeInv, StoreTree, ListOK
      <4> QED BY <3>1, <4>1, <4>2, <4>3, StoreAssumption DEF TreeInv, StoreTree, RowOK
    <3>4. ASSUME NEW j \in Indices(g, h) PROVE j = i
      <4>2. groups[h].groupMemos[j] = groups[h].groupMemos[i]
        BY <2>2, <3>1, <3>3, <3>4 DEF TreeInv, StoreTree, OneRow
      <4> QED BY <2>2, <3>1, <3>3, <3>4, <4>2 DEF TreeInv, StoreTree, ListOK, IsInjective
    <3> QED BY <2>2, <3>3, <3>4
  <2>3. ASSUME NEW g \in linked, NEW h \in linked \cup {Root}
        PROVE  Cardinality(Indices(g, h)) = IF h = groups[g].parent THEN 1 ELSE 0
    <3>1. CASE h = groups[g].parent
      <4>1. PICK i \in Indices(g, h) : TRUE
        BY <2>1, <3>1 DEF Indices
      <4>2. Indices(g, h) = {i}
        BY <2>2, <4>1
      <4> QED BY <3>1, <4>2, FS_Singleton
    <3>2. CASE h # groups[g].parent
      <4>1. Indices(g, h) = {}
        BY <2>2, <3>2
      <4> QED BY <3>2, <4>1, FS_EmptySet
    <3> QED BY <3>1, <3>2
  <2>4. \A S \in SUBSET linked : S # {} => \E g \in S : groups[g].parent \notin S
    BY DEF TreeInv, StoreTree, NoCircle
  <2> QED BY <2>1, <2>3, <2>4 DEF GroupsFormTree
<1> QED BY <1>1, Invariance, TreeInvariance, PTL

(***************************************************************************)
(* The group editor among other activities on the same file: what it does  *)
(* to the file, what it bears the others doing, and what a death costs.    *)
(***************************************************************************)

\* A list stays as it is, or gets a row of its own group that it does not have yet.
ListGrows(g) ==
  \/ groups'[g].groupMemos = groups[g].groupMemos
  \/ \E r \in RowId : /\ rows[r] # Null /\ rows[r].parent = g
                      /\ ~Contains(groups[g].groupMemos, r)
                      /\ groups'[g].groupMemos = Append(groups[g].groupMemos, r)

\* What this editor does to the file.
GroupDeed ==
  /\ UNCHANGED memos
  /\ \A r \in RowId :
       \/ rows'[r] = rows[r]
       \/ /\ rows[r] = Null /\ rows'[r] # Null /\ rows'[r].type = "group"
          /\ rows'[r].typeId \notin MemoId /\ rows'[r].ref \in GroupId
  /\ \A g \in GroupId :
       /\ Exists(g) => groups'[g] # Null /\ groups'[g].parent = groups[g].parent /\ ListGrows(g)
       /\ ~Exists(g) => groups'[g] = Null \/ groups'[g].groupMemos = <<>>

LEMMA CreateStepDeed == ASSUME IInv, CreateStep PROVE GroupDeed
<1>1. PICK g \in GroupId : CreateGroup(g, editor.parent)
  BY DEF CreateStep
<1> DEFINE new == [parent |-> editor.parent, title |-> Null, tags |-> <<>>, groupMemos |-> <<>>]
<1>2. /\ groups[g] = Null /\ groups' = [groups EXCEPT ![g] = new]
      /\ UNCHANGED <<memos, rows>> /\ groups \in [GroupId -> Group \cup {Null}]
  BY <1>1 DEF CreateGroup, IInv, StoreTypeOK
<1>3. new.groupMemos = <<>>
  OBVIOUS
<1> HIDE DEF new
<1>4. groups'[g] = new /\ \A h \in GroupId \ {g} : groups'[h] = groups[h]
  BY <1>2
<1> QED BY <1>2, <1>3, <1>4 DEF GroupDeed, ListGrows, Exists

LEMMA WriteStepDeed == ASSUME IInv, WriteStep PROVE GroupDeed
<1>1. IInv' /\ WriteGroup(editor.group, save.title, save.tags)
  BY WriteStepInv DEF WriteStep
<1>2. /\ editor.group \in GroupId /\ Exists(editor.group)
  <2>1. /\ save.step = "write" /\ editor # Null /\ editor \in Editor /\ EditorOK(editor)
    BY DEF WriteStep, IInv, QueueTypeOK, AtRest, NoSave, EditorsTypeOK, UiInv, OwnGroup
  <2> QED BY <2>1 DEF IInv, UiInv, SaveOK, EditorOK, Editor
<1> DEFINE g == editor.group
           new == [groups[g] EXCEPT !.title = Given(save.title, groups[g].title),
                                    !.tags = Given(save.tags, groups[g].tags)]
<1>3. /\ groups[g] \in Group /\ groups \in [GroupId -> Group \cup {Null}]
  BY <1>2 DEF IInv, StoreTypeOK, Exists
<1>4. groups' = [groups EXCEPT ![g] = new] /\ UNCHANGED <<memos, rows>>
  BY <1>1, <1>3 DEF WriteGroup, Group
<1>5. new.parent = groups[g].parent /\ new.groupMemos = groups[g].groupMemos /\ new # Null
  <2>1. new.parent = groups[g].parent /\ new.groupMemos = groups[g].groupMemos
    BY <1>3 DEF Group
  <2>2. groups'[g] # Null
    <3>1. Saved(editor)' /\ UNCHANGED editor
      BY <1>1 DEF IInv, UiInv, SaveOK, WriteStep, NoSave
    <3> QED BY <3>1 DEF Saved, Exists
  <2>3. groups'[g] = new
    <3> HIDE DEF new
    <3> QED BY <1>2, <1>3, <1>4
  <2> QED BY <2>1, <2>2, <2>3
<1> HIDE DEF new
<1>6. groups'[g] = new /\ \A h \in GroupId \ {g} : groups'[h] = groups[h]
  BY <1>2, <1>3, <1>4
<1>7. ASSUME NEW h \in GroupId, Exists(h)
      PROVE  groups'[h] # Null /\ groups'[h].parent = groups[h].parent /\ ListGrows(h)
  <2>1. CASE h = g
    BY <1>5, <1>6, <2>1 DEF ListGrows
  <2>2. CASE h # g
    BY <1>6, <1>7, <2>2 DEF ListGrows, Exists
  <2> QED BY <2>1, <2>2
<1>8. \A h \in GroupId : ~Exists(h) => groups'[h] = Null
  BY <1>2, <1>6 DEF Exists
<1> QED BY <1>4, <1>7, <1>8 DEF GroupDeed

LEMMA RowStepDeed == ASSUME IInv, RowStep PROVE GroupDeed
<1>1. CASE UNCHANGED store
  BY <1>1 DEF GroupDeed, ListGrows, Exists, store
<1>2. CASE \E r \in RowId : CreateRow(r, "group", editor.parent, editor.group)
  <2>1. PICK r \in RowId : CreateRow(r, "group", editor.parent, editor.group)
    BY <1>2
  <2>2. editor.group \in GroupId /\ editor.group \notin MemoId /\ IInv'
    <3>1. editor \in Editor /\ Saved(editor)
      BY DEF RowStep, IInv, QueueTypeOK, AtRest, NoSave, EditorsTypeOK, UiInv, SaveOK
    <3> QED BY <3>1, StoreAssumption, RowStepInv DEF Saved, Editor
  <2> DEFINE row == [type |-> "group", parent |-> editor.parent,
                     typeId |-> editor.group, ref |-> editor.group]
  <2>3. /\ rows[r] = Null /\ rows' = [rows EXCEPT ![r] = row] /\ UNCHANGED <<groups, memos>>
        /\ rows \in [RowId -> GroupMemo \cup {Null}]
    BY <2>1 DEF CreateRow, IInv, StoreTypeOK
  <2>4. row.type = "group" /\ row.typeId = editor.group /\ row.ref = editor.group /\ row # Null
    <3>1. editor \in Editor
      BY DEF RowStep, IInv, QueueTypeOK, AtRest, NoSave, EditorsTypeOK
    <3>2. row \in GroupMemo
      BY <2>2, <3>1 DEF GroupMemo, Editor
    <3> QED BY <3>2, StoreAssumption
  <2> HIDE DEF row
  <2>5. rows'[r] = row /\ \A q \in RowId \ {r} : rows'[q] = rows[q]
    BY <2>3
  <2> QED BY <2>2, <2>3, <2>4, <2>5 DEF GroupDeed, ListGrows, Exists
<1> QED BY <1>1, <1>2 DEF RowStep

LEMMA LinkStepDeed == ASSUME IInv, LinkStep PROVE GroupDeed
<1>1. /\ editor \in Editor /\ EditorOK(editor) /\ editor.groupMemo # Null
  BY DEF LinkStep, IInv, QueueTypeOK, AtRest, NoSave, EditorsTypeOK, UiInv, OwnGroup, SaveOK
<1>2. PICK r \in RowId : r = editor.groupMemo
  BY <1>1 DEF Editor
<1>3. rows[r] # Null /\ rows[r] \in GroupMemo
  BY <1>1, <1>2 DEF EditorOK, IInv, StoreTypeOK
<1>4. PICK h \in GroupId : h = rows[r].parent
  BY <1>3 DEF GroupMemo
<1> DEFINE list == groups[h].groupMemos
           new == [groups[h] EXCEPT !.groupMemos = Append(list, r)]
<1>5. /\ groups[h] # Null /\ UNCHANGED <<memos, rows>>
      /\ groups \in [GroupId -> Group \cup {Null}]
      /\ groups' = IF Contains(list, r) THEN groups ELSE [groups EXCEPT ![h] = new]
  BY <1>2, <1>4 DEF LinkStep, LinkRow, IInv, StoreTypeOK
<1>6. CASE Contains(list, r)
  BY <1>5, <1>6 DEF GroupDeed, ListGrows, Exists
<1>7. CASE ~Contains(list, r)
  <2>1. groups[h] \in Group /\ list \in Seq(RowId)
    BY <1>5 DEF Group
  <2>2. Append(list, r) \in Seq(RowId)
    BY <2>1
  <2>3. new \in Group /\ new.groupMemos = Append(list, r) /\ new.parent = groups[h].parent
    <3> HIDE DEF list
    <3> QED BY <2>1, <2>2 DEF Group
  <2>4. groups' = [groups EXCEPT ![h] = new]
    BY <1>5, <1>7
  <2> HIDE DEF new
  <2>5. groups'[h] = new /\ new # Null /\ \A g \in GroupId \ {h} : groups'[g] = groups[g]
    BY <1>5, <2>3, <2>4, StoreAssumption
  <2>6. ListGrows(h)
    BY <1>3, <1>4, <1>7, <2>3, <2>5 DEF ListGrows
  <2>7. \A g \in GroupId \ {h} : ListGrows(g)
    BY <2>5 DEF ListGrows
  <2> HIDE DEF list
  <2> QED BY <1>5, <2>3, <2>5, <2>6, <2>7 DEF GroupDeed, Exists
<1> QED BY <1>6, <1>7

\* Each step does to the file what other activities may expect of this editor.
LEMMA NextDeed == ASSUME IInv, [Next]_vars PROVE GroupDeed
<1>1. CASE UNCHANGED store
  BY <1>1 DEF GroupDeed, ListGrows, Exists, store
<1>2. CASE CreateStep \/ WriteStep \/ RowStep \/ LinkStep
  BY <1>2, CreateStepDeed, WriteStepDeed, RowStepDeed, LinkStepDeed
<1>3. UNCHANGED store \/ CreateStep \/ WriteStep \/ RowStep \/ LinkStep
  BY DEF Next, vars, TapAddGroup, TypeTitle, ClickAddTag, ClickTag, Finish, Recreate, Launch,
         RestoreTitle, Kill
<1> QED BY <1>1, <1>2, <1>3

\* Until the last transaction of a save the lists stay as they are.
QuietDeed ==
  /\ \A r \in RowId :
       \/ rows'[r] = rows[r]
       \/ rows[r] = Null /\ rows'[r] # Null /\ rows'[r].typeId # Null
  /\ UNCHANGED memos
  /\ \A g \in GroupId :
       /\ groups[g] # Null =>
            /\ groups'[g] # Null /\ groups'[g].parent = groups[g].parent
            /\ groups'[g].groupMemos = groups[g].groupMemos
       /\ groups[g] = Null => groups'[g] = Null \/ groups'[g].groupMemos = <<>>

\* The last one appends one row to one of them.
LinkDeed(g, r) ==
  /\ UNCHANGED <<memos, rows>>
  /\ groups[g] # Null /\ rows[r] # Null /\ rows[r].parent = g
  /\ ~Contains(groups[g].groupMemos, r)
  /\ groups' = [groups EXCEPT ![g].groupMemos = Append(@, r)]

LEMMA QuietSteps ==
  ASSUME IInv, UNCHANGED store \/ CreateStep \/ WriteStep \/ RowStep PROVE QuietDeed
<1>1. CASE UNCHANGED store
  BY <1>1 DEF QuietDeed, store
<1>2. CASE CreateStep
  <2>1. PICK g \in GroupId : CreateGroup(g, editor.parent)
    BY <1>2 DEF CreateStep
  <2> DEFINE new == [parent |-> editor.parent, title |-> Null, tags |-> <<>>, groupMemos |-> <<>>]
  <2>2. /\ groups[g] = Null /\ groups' = [groups EXCEPT ![g] = new]
        /\ UNCHANGED <<memos, rows>> /\ groups \in [GroupId -> Group \cup {Null}]
    BY <2>1 DEF CreateGroup, IInv, StoreTypeOK
  <2>3. new.groupMemos = <<>>
    OBVIOUS
  <2> HIDE DEF new
  <2>4. groups'[g] = new /\ \A h \in GroupId \ {g} : groups'[h] = groups[h]
    BY <2>2
  <2> QED BY <2>2, <2>3, <2>4 DEF QuietDeed
<1>3. CASE WriteStep
  <2>1. /\ editor.group \in GroupId /\ Exists(editor.group)
        /\ WriteGroup(editor.group, save.title, save.tags)
    <3>1. /\ save.step = "write" /\ editor # Null /\ editor \in Editor /\ EditorOK(editor)
      BY <1>3 DEF WriteStep, IInv, QueueTypeOK, AtRest, NoSave, EditorsTypeOK, UiInv, OwnGroup
    <3> QED BY <1>3, <3>1 DEF WriteStep, IInv, UiInv, SaveOK, EditorOK, Editor
  <2> DEFINE g == editor.group
             new == [groups[g] EXCEPT !.title = Given(save.title, groups[g].title),
                                      !.tags = Given(save.tags, groups[g].tags)]
  <2>2. /\ groups[g] \in Group /\ groups \in [GroupId -> Group \cup {Null}]
    BY <2>1 DEF IInv, StoreTypeOK, Exists
  <2>3. groups' = [groups EXCEPT ![g] = new] /\ UNCHANGED <<memos, rows>>
    BY <2>1, <2>2 DEF WriteGroup, Group
  <2>4. new.parent = groups[g].parent /\ new.groupMemos = groups[g].groupMemos
    BY <2>2 DEF Group
  <2> HIDE DEF new
  <2>5. groups'[g] = new /\ \A h \in GroupId \ {g} : groups'[h] = groups[h]
    BY <2>1, <2>2, <2>3
  <2>6. groups'[g] # Null
    <3>1. GroupDeed
      BY <1>3, WriteStepDeed
    <3> QED BY <2>1, <3>1 DEF GroupDeed
  <2> QED BY <2>1, <2>3, <2>4, <2>5, <2>6 DEF QuietDeed, Exists
<1>4. CASE RowStep
  <2>1. GroupDeed /\ UNCHANGED <<memos, groups>>
    BY <1>4, RowStepDeed DEF RowStep, CreateRow, store
  <2>2. editor \in Editor /\ editor.group \in GroupId
    <3>1. editor \in Editor /\ Saved(editor)
      BY <1>4 DEF RowStep, IInv, QueueTypeOK, AtRest, NoSave, EditorsTypeOK, UiInv, SaveOK
    <3> QED BY <3>1 DEF Saved, Editor
  <2>3. CASE rows' = rows
    BY <2>1, <2>3 DEF QuietDeed
  <2>4. CASE rows' # rows
    <3>1. PICK r \in RowId : CreateRow(r, "group", editor.parent, editor.group)
      BY <1>4, <2>4 DEF RowStep, store
    <3> DEFINE row == [type |-> "group", parent |-> editor.parent,
                       typeId |-> editor.group, ref |-> editor.group]
    <3>2. /\ rows[r] = Null /\ rows' = [rows EXCEPT ![r] = row]
          /\ rows \in [RowId -> GroupMemo \cup {Null}]
      BY <3>1 DEF CreateRow, IInv, StoreTypeOK
    <3>3. row.typeId = editor.group /\ row # Null
      <4>1. row \in GroupMemo
        BY <2>2 DEF GroupMemo, Editor
      <4> QED BY <4>1, StoreAssumption
    <3> HIDE DEF row
    <3>4. rows'[r] = row /\ \A q \in RowId \ {r} : rows'[q] = rows[q]
      BY <3>2
    <3>5. editor.group # Null
      BY <2>2, StoreAssumption
    <3> QED BY <2>1, <3>2, <3>3, <3>4, <3>5 DEF QuietDeed
  <2> QED BY <2>3, <2>4
<1> QED BY <1>1, <1>2, <1>3, <1>4

LEMMA LinkOrQuiet ==
  ASSUME IInv, LinkStep PROVE QuietDeed \/ \E g \in GroupId, r \in RowId : LinkDeed(g, r)
<1>1. /\ editor \in Editor /\ EditorOK(editor) /\ editor.groupMemo # Null
  BY DEF LinkStep, IInv, QueueTypeOK, AtRest, NoSave, EditorsTypeOK, UiInv, OwnGroup, SaveOK
<1>2. PICK r \in RowId : r = editor.groupMemo
  BY <1>1 DEF Editor
<1>3. rows[r] # Null /\ rows[r] \in GroupMemo
  BY <1>1, <1>2 DEF EditorOK, IInv, StoreTypeOK
<1>4. PICK g \in GroupId : g = rows[r].parent
  BY <1>3 DEF GroupMemo
<1>5. /\ groups[g] # Null /\ UNCHANGED <<memos, rows, hashTags>>
      /\ groups' = IF Contains(groups[g].groupMemos, r) THEN groups
                   ELSE [groups EXCEPT ![g].groupMemos = Append(@, r)]
  BY <1>2, <1>4 DEF LinkStep, LinkRow
<1>6. CASE Contains(groups[g].groupMemos, r)
  BY <1>5, <1>6, QuietSteps DEF store
<1>7. CASE ~Contains(groups[g].groupMemos, r)
  BY <1>3, <1>4, <1>5, <1>7 DEF LinkDeed
<1> QED BY <1>6, <1>7

\* So each step leaves the lists alone or gives one of them one row.
LEMMA NextLinks ==
  ASSUME IInv, [Next]_vars PROVE QuietDeed \/ \E g \in GroupId, r \in RowId : LinkDeed(g, r)
<1>1. UNCHANGED store \/ CreateStep \/ WriteStep \/ RowStep \/ LinkStep
  BY DEF Next, vars, TapAddGroup, TypeTitle, ClickAddTag, ClickTag, Finish, Recreate, Launch,
         RestoreTitle, Kill
<1> QED BY <1>1, QuietSteps, LinkOrQuiet

(***************************************************************************)
(* A group that no list shows is one whose save was cut off by a death.    *)
(***************************************************************************)

\* Whoever has stopped saving has its group in a list, and who still saves will put
\* it there: the group has no row yet, or is listed.
LinkInv ==
  /\ editor # Null /\ save.step = "none" => Listed(editor.group)
  /\ save.step \in {"write", "row"} =>
       Listed(editor.group) \/ (editor.groupMemo = Null /\ RowsOf(editor.group) = {})
  /\ \A i \in DOMAIN below : Listed(below[i].group)

LEMMA DeedGrows == ASSUME IInv, GroupDeed PROVE Grows
<1>1. \A r \in RowId : rows[r] # Null => rows'[r] = rows[r]
  BY DEF GroupDeed
<1>2. ASSUME NEW g \in GroupId, Exists(g)
      PROVE  ToSet(groups[g].groupMemos) \subseteq ToSet(groups'[g].groupMemos)
  <2>1. groups[g].groupMemos \in Seq(RowId)
    BY <1>2 DEF IInv, StoreTypeOK, Group, Exists
  <2>2. ListGrows(g)
    BY <1>2 DEF GroupDeed
  <2> DEFINE list == groups[g].groupMemos
             more == groups'[g].groupMemos
  <2>3. more = list \/ \E r \in RowId : more = Append(list, r)
    BY <2>2 DEF ListGrows
  <2> HIDE DEF list, more
  <2>4. list \in Seq(RowId)
    BY <2>1 DEF list
  <2>5. ToSet(list) \subseteq ToSet(more)
    BY <2>3, <2>4, AppendOK
  <2> QED BY <2>5 DEF list, more
<1> QED BY <1>1, <1>2 DEF Grows, GroupDeed

LEMMA ListedGrows ==
  ASSUME StoreTypeOK, Grows, NEW id, Listed(id)
  PROVE  Listed(id)'
<1>1. PICK r \in RowId : rows[r] # Null /\ rows[r].typeId = id /\ Linked(r)
  BY DEF Listed, RowsOf
<1>2. rows[r].parent \in GroupId
  BY <1>1 DEF StoreTypeOK, GroupMemo
<1>3. rows'[r] = rows[r] /\ Linked(r)'
  BY <1>1, <1>2 DEF Grows, Linked, Exists
<1> QED BY <1>1, <1>3 DEF Listed, RowsOf

LEMMA NextGrows ==
  ASSUME IInv, [Next]_vars
  PROVE  Grows /\ \A id : Listed(id) => Listed(id)'
<1>1. Grows
  BY NextDeed, DeedGrows
<1>2. StoreTypeOK
  BY DEF IInv
<1> QED BY <1>1, <1>2, ListedGrows

\* A save begins on a new group or on one that is listed.
LEMMA CheckedLink ==
  ASSUME NEW e \in Editor, SaveAfterCheck(e), e.group # Null => Listed(e.group)',
         (\A i \in DOMAIN below : Listed(below[i].group))'
  PROVE  LinkInv'
<1>1. editor' = [e EXCEPT !.seen = e.tags] /\ e.title # Null
  BY StoreAssumption DEF SaveAfterCheck, Editor
<1>2. editor'.group = e.group
  BY <1>1 DEF Editor
<1>3. CASE e.group = Null
  <2>1. save'.step = "create"
    BY <1>1, <1>3 DEF SaveAfterCheck
  <2> QED BY <2>1 DEF LinkInv, Listed, Linked, RowsOf
<1>4. CASE e.group # Null
  BY <1>2, <1>4 DEF LinkInv, Listed, Linked, RowsOf
<1> QED BY <1>3, <1>4

\* An event leaves the group of the editor in front in its list.
LEMMA EventLink ==
  ASSUME IInv, LinkInv, TypeTitle \/ RestoreTitle \/ ClickAddTag \/ ClickTag
  PROVE  LinkInv'
<1>1. /\ UNCHANGED <<store, below>> /\ save = NoSave /\ editor # Null /\ editor \in Editor
  BY DEF TypeTitle, RestoreTitle, ClickAddTag, ClickTag, AtRest, IInv, EditorsTypeOK, QueueTypeOK
<1>2. Listed(editor.group)
  BY <1>1 DEF LinkInv, NoSave
<1>3. (\A i \in DOMAIN below : Listed(below[i].group))'
  BY <1>1 DEF LinkInv, Listed, Linked, RowsOf, store
<1>4. CASE TypeTitle \/ RestoreTitle
  <2>1. PICK t \in Text : SaveAfterCheck([editor EXCEPT !.title = t])
    BY <1>4 DEF TypeTitle, RestoreTitle, IInv, QueueTypeOK
  <2>2. [editor EXCEPT !.title = t] \in Editor /\ [editor EXCEPT !.title = t].group = editor.group
    BY <1>1 DEF Editor
  <2>3. PICK e \in Editor : e.group = editor.group /\ SaveAfterCheck(e)
    BY <2>1, <2>2
  <2>4. Listed(e.group)'
    BY <1>1, <1>2, <2>3 DEF Listed, Linked, RowsOf, store
  <2> QED BY <1>3, <2>3, <2>4, CheckedLink
<1>5. CASE ClickAddTag \/ ClickTag
  <2>1. /\ save' = NoSave
        /\ \E tags : editor' = [editor EXCEPT !.tags = tags]
    BY <1>1, <1>5 DEF ClickAddTag, ClickTag
  <2>2. editor'.group = editor.group
    BY <1>1, <2>1 DEF Editor
  <2> QED BY <1>1, <1>2, <1>3, <2>1, <2>2 DEF LinkInv, NoSave, Listed, Linked, RowsOf, store
<1> QED BY <1>4, <1>5

\* onCreate begins a save that makes a group.
LEMMA OnCreateLink ==
  ASSUME IInv, NEW parent \in GroupId, Exists(parent), OnCreate(parent),
         (\A i \in DOMAIN below : Listed(below[i].group))'
  PROVE  LinkInv'
<1> DEFINE e == [parent |-> parent, group |-> Null, groupMemo |-> Null,
                 title |-> Empty, tags |-> groups[parent].tags, seen |-> <<>>]
<1>1. groups[parent].tags \in Seq(Tag)
  <2>1. groups[parent] \in Group
    BY DEF IInv, StoreTypeOK, Exists
  <2> QED BY <2>1 DEF Group
<1>2. e \in Editor /\ e.group = Null
  BY <1>1, StoreAssumption, EmptyOK DEF Editor
<1>3. SaveAfterCheck(e)
  BY DEF OnCreate
<1> HIDE DEF e
<1> QED BY <1>2, <1>3, CheckedLink

LEMMA StackLink ==
  ASSUME IInv, LinkInv, TapAddGroup \/ Launch \/ Recreate \/ Finish
  PROVE  LinkInv'
<1>1. /\ UNCHANGED store /\ save = NoSave /\ below \in Seq(Editor) /\ starting \in Seq(GroupId)
      /\ editor \in Editor \cup {Null}
  BY DEF TapAddGroup, Launch, Recreate, Finish, AtRest, IInv, EditorsTypeOK, QueueTypeOK
<1>2. editor # Null => Listed(editor.group)
  BY <1>1 DEF LinkInv, NoSave
<1>3. (\A i \in DOMAIN below : Listed(below[i].group)) /\ groups' = groups /\ rows' = rows
  BY <1>1 DEF LinkInv, store
<1>4. CASE TapAddGroup
  <2>1. UNCHANGED <<editor, below, save>>
    BY <1>4 DEF TapAddGroup
  <2> QED BY <1>1, <1>2, <1>3, <2>1 DEF LinkInv, NoSave, Listed, Linked, RowsOf
<1>5. CASE Launch
  <2>1. /\ OnCreate(Head(starting)) /\ starting # <<>>
        /\ below' = IF editor = Null THEN below ELSE Append(below, editor)
    BY <1>5 DEF Launch
  <2>2. Head(starting) \in GroupId /\ Exists(Head(starting))
    <3>1. 1 \in DOMAIN starting /\ Head(starting) = starting[1]
      BY <1>1, <2>1
    <3> QED BY <1>1, <3>1 DEF IInv, UiInv, StartingOK
  <2>3. \A i \in DOMAIN below' : \E e \in Editor : e = below'[i] /\ Listed(e.group)
    <3>1. CASE editor = Null
      BY <1>1, <1>3, <2>1, <3>1
    <3>2. CASE editor # Null
      <4>1. below' = Append(below, editor) /\ editor \in Editor
        BY <1>1, <2>1, <3>2
      <4>2. \A i \in DOMAIN below' : \/ i \in DOMAIN below /\ below'[i] = below[i] /\ below[i] \in Editor
                                     \/ below'[i] = editor
        BY <1>1, <4>1
      <4> QED BY <1>2, <1>3, <3>2, <4>1, <4>2
    <3> QED BY <3>1, <3>2
  <2>4. (\A i \in DOMAIN below : Listed(below[i].group))'
    BY <1>3, <2>3 DEF Listed, Linked, RowsOf
  <2> QED BY <2>1, <2>2, <2>4, OnCreateLink
<1>6. CASE Recreate
  <2>1. OnCreate(editor.parent) /\ editor # Null /\ UNCHANGED below
    BY <1>6 DEF Recreate
  <2>2. editor.parent \in GroupId /\ Exists(editor.parent)
    BY <1>1, <2>1 DEF Editor, IInv, UiInv, OwnGroup, EditorOK
  <2>3. (\A i \in DOMAIN below : Listed(below[i].group))'
    BY <1>3, <2>1 DEF Listed, Linked, RowsOf
  <2> QED BY <2>1, <2>2, <2>3, OnCreateLink
<1>7. CASE Finish
  <2>1. /\ editor' = IF below = <<>> THEN Null ELSE Last(below)
        /\ below' = IF below = <<>> THEN below ELSE Front(below)
        /\ save' = NoSave
    BY <1>1, <1>7 DEF Finish
  <2>2. editor' # Null => \E i \in DOMAIN below : editor' = below[i]
    <3>1. CASE below = <<>>
      BY <2>1, <3>1
    <3>2. CASE below # <<>>
      BY <1>1, <2>1, <3>2, FrontOK
    <3> QED BY <3>1, <3>2
  <2>3. \A i \in DOMAIN below' : i \in DOMAIN below /\ below'[i] = below[i]
    <3>1. CASE below = <<>>
      BY <2>1, <3>1
    <3>2. CASE below # <<>>
      BY <1>1, <2>1, <3>2, FrontOK
    <3> QED BY <3>1, <3>2
  <2>4. (editor # Null => Listed(editor.group))'
    BY <1>3, <2>2 DEF Listed, Linked, RowsOf
  <2>5. (\A i \in DOMAIN below : Listed(below[i].group))'
    BY <1>3, <2>3 DEF Listed, Linked, RowsOf
  <2> QED BY <2>1, <2>4, <2>5 DEF LinkInv, NoSave, Listed, Linked, RowsOf
<1> QED BY <1>4, <1>5, <1>6, <1>7

\* A new group has no row; the last transaction puts the one row there is in its list.
LEMMA TransactionLink ==
  ASSUME IInv, TreeInv, LinkInv, CreateStep \/ WriteStep \/ RowStep \/ LinkStep
  PROVE  LinkInv'
<1>1. /\ UNCHANGED below /\ editor \in Editor /\ EditorOK(editor) /\ Placed(editor)
      /\ save.step # "none" /\ save \in Saving
  BY SavingEditor DEF CreateStep, WriteStep, RowStep, LinkStep, IInv, QueueTypeOK
<1>2. Grows /\ \A id : Listed(id) => Listed(id)'
  BY NextGrows DEF Next
<1>3. (\A i \in DOMAIN below : Listed(below[i].group))'
  BY <1>1, <1>2 DEF LinkInv, Listed, Linked, RowsOf
<1>4. CASE CreateStep
  <2>1. PICK g \in GroupId : CreateGroup(g, editor.parent) /\ editor' = [editor EXCEPT !.group = g]
    BY <1>4 DEF CreateStep
  <2>2. save' = [save EXCEPT !.step = "write"] /\ editor.group = Null
    BY <1>4 DEF CreateStep, IInv, UiInv, SaveOK
  <2>3. save'.step = "write" /\ editor'.group = g /\ editor'.groupMemo = Null
    BY <1>1, <2>1, <2>2 DEF Saving, Editor, Placed
  <2>4. groups[g] = Null /\ rows' = rows
    BY <2>1 DEF CreateGroup
  <2>5. \A r \in RowId : rows[r] # Null => rows[r].typeId # g
    BY <2>4, StoreAssumption DEF TreeInv, StoreTree, RowOK, Exists
  <2> QED BY <1>3, <2>3, <2>4, <2>5 DEF LinkInv, Listed, Linked, RowsOf
<1>5. CASE WriteStep
  <2>1. /\ UNCHANGED <<editor, rows>> /\ save'.step = "row" /\ save.step = "write"
    BY <1>5 DEF WriteStep, WriteGroup, NoSave
  <2>2. Listed(editor.group) \/ (editor.groupMemo = Null /\ RowsOf(editor.group) = {})
    BY <2>1 DEF LinkInv
  <2>3. CASE Listed(editor.group)
    <3>1. PICK g : g = editor.group
      OBVIOUS
    <3>2. Listed(g)'
      BY <1>2, <2>3, <3>1
    <3> QED BY <1>3, <2>1, <3>1, <3>2 DEF LinkInv, Listed, Linked, RowsOf
  <2>4. CASE editor.groupMemo = Null /\ RowsOf(editor.group) = {}
    BY <1>3, <2>1, <2>4 DEF LinkInv, Listed, Linked, RowsOf
  <2> QED BY <2>2, <2>3, <2>4
<1>6. CASE RowStep
  <2>1. \E r \in RowId : /\ editor' = [editor EXCEPT !.groupMemo = r]
                         /\ \/ save' = NoSave /\ (editor.groupMemo # Null \/ RowsOf(editor.group) # {})
                            \/ save' = [save EXCEPT !.step = "link"]
    BY <1>1, <1>6 DEF RowStep, RowsOf, Editor
  <2>2. editor'.group = editor.group /\ save.step = "row"
    BY <1>1, <1>6, <2>1 DEF Editor, RowStep
  <2>3. CASE save' = [save EXCEPT !.step = "link"]
    <3>1. save'.step = "link"
      BY <1>1, <2>3 DEF Saving
    <3> QED BY <1>3, <3>1 DEF LinkInv, Listed, Linked, RowsOf
  <2>4. CASE save' = NoSave /\ (editor.groupMemo # Null \/ RowsOf(editor.group) # {})
    <3>1. Listed(editor.group)
      BY <2>2, <2>4 DEF LinkInv
    <3>2. PICK g : g = editor.group
      OBVIOUS
    <3>3. Listed(g)'
      BY <1>2, <3>1, <3>2
    <3> QED BY <1>3, <2>2, <2>4, <3>2, <3>3 DEF LinkInv, NoSave, Listed, Linked, RowsOf
  <2> QED BY <2>1, <2>3, <2>4
<1>7. CASE LinkStep
  <2>1. PICK r \in RowId : r = editor.groupMemo /\ rows[r] # Null /\ rows[r].typeId = editor.group
    <3>1. editor.groupMemo # Null
      BY <1>7 DEF LinkStep, IInv, UiInv, SaveOK
    <3> QED BY <1>1, <3>1 DEF EditorOK, Placed, Editor
  <2>2. PICK h \in GroupId : h = rows[r].parent
    BY <2>1 DEF IInv, StoreTypeOK, GroupMemo
  <2>3. /\ groups[h] # Null /\ rows' = rows /\ UNCHANGED editor /\ save' = NoSave
        /\ groups' = IF Contains(groups[h].groupMemos, r) THEN groups
                     ELSE [groups EXCEPT ![h].groupMemos = Append(@, r)]
    BY <1>7, <2>1, <2>2 DEF LinkStep, LinkRow
  <2>4. groups'[h] # Null
    BY <1>2, <2>3 DEF Grows, Exists
  <2>5. r \in ToSet(groups'[h].groupMemos)
    <3> DEFINE list == groups[h].groupMemos
    <3>1. groups[h] \in Group /\ list \in Seq(RowId) /\ groups \in [GroupId -> Group \cup {Null}]
      BY <2>3 DEF IInv, StoreTypeOK, Group
    <3>2. CASE Contains(list, r)
      <4>1. \E i \in DOMAIN list : list[i] = r
        BY <3>2 DEF Contains
      <4> QED BY <2>3, <3>2, <4>1 DEF ToSet
    <3>3. CASE ~Contains(list, r)
      <4>1. groups'[h].groupMemos = Append(list, r)
        BY <2>3, <3>1, <3>3 DEF Group
      <4>2. \E i \in DOMAIN Append(list, r) : Append(list, r)[i] = r
        <5> HIDE DEF list
        <5>1. Len(list) + 1 \in DOMAIN Append(list, r) /\ Append(list, r)[Len(list) + 1] = r
          BY <3>1
        <5> QED BY <5>1
      <4> QED BY <4>1, <4>2 DEF ToSet
    <3> QED BY <3>2, <3>3
  <2>6. Linked(r)'
    BY <2>1, <2>2, <2>3, <2>4, <2>5 DEF Linked
  <2> QED BY <1>3, <2>1, <2>3, <2>6 DEF LinkInv, NoSave, Listed, Linked, RowsOf
<1> QED BY <1>4, <1>5, <1>6, <1>7

LEMMA LinkNext == IInv /\ TreeInv /\ LinkInv /\ [Next]_vars => LinkInv'
<1> SUFFICES ASSUME IInv, TreeInv, LinkInv, [Next]_vars PROVE LinkInv'
  OBVIOUS
<1>1. CASE Kill
  BY <1>1 DEF Kill, LinkInv, NoSave
<1>2. CASE UNCHANGED vars
  <2>1. UNCHANGED <<groups, rows, editor, below, save>>
    BY <1>2 DEF vars, store
  <2> QED BY <2>1 DEF LinkInv, Listed, Linked, RowsOf
<1> QED BY <1>1, <1>2, EventLink, StackLink, TransactionLink DEF Next

\* A callback goes on with the editor in front, and leaves the stack alone.
LEMMA CallbackEditor ==
  ASSUME IInv, RestoreTitle \/ CreateStep \/ WriteStep \/ RowStep \/ LinkStep
  PROVE  editor # Null /\ editor' # Null /\ UNCHANGED <<below, starting, kills>>
<1>1. editor \in Editor /\ editor # Null /\ UNCHANGED <<below, starting, kills>>
  BY DEF IInv, EditorsTypeOK, QueueTypeOK, AtRest, NoSave, RestoreTitle, CreateStep, WriteStep,
         RowStep, LinkStep
<1>2. CASE RestoreTitle
  <2>1. editor' = [[editor EXCEPT !.title = restore] EXCEPT !.seen = editor.tags] /\ restore \in Text
    BY <1>1, <1>2 DEF RestoreTitle, SaveAfterCheck, IInv, QueueTypeOK, Editor
  <2>2. editor' \in Editor
    BY <1>1, <2>1 DEF Editor
  <2> QED BY <1>1, <2>2, EditorAssumption
<1>3. CASE CreateStep
  <2>1. PICK g \in GroupId : editor' = [editor EXCEPT !.group = g]
    BY <1>3 DEF CreateStep
  <2>2. editor' \in Editor
    BY <1>1, <2>1 DEF Editor
  <2> QED BY <1>1, <2>2, EditorAssumption
<1>4. CASE RowStep
  <2>1. PICK r \in RowId : editor' = [editor EXCEPT !.groupMemo = r]
    BY <1>1, <1>4 DEF RowStep, RowsOf, Editor
  <2>2. editor' \in Editor
    BY <1>1, <2>1 DEF Editor
  <2> QED BY <1>1, <2>2, EditorAssumption
<1>5. CASE WriteStep \/ LinkStep
  BY <1>1, <1>5 DEF WriteStep, LinkStep
<1> QED BY <1>1, <1>2, <1>3, <1>4, <1>5

\* So does what an event of the user starts, and a launch.
LEMMA EventEditor ==
  ASSUME IInv, TypeTitle \/ ClickAddTag \/ ClickTag \/ Recreate \/ Launch
  PROVE  editor' # Null
<1>1. ASSUME NEW e \in Editor, SaveAfterCheck(e) PROVE editor' # Null
  <2>1. editor' = [e EXCEPT !.seen = e.tags] /\ e.tags \in Seq(Tag)
    BY <1>1 DEF SaveAfterCheck, Editor
  <2>2. editor' \in Editor
    BY <2>1 DEF Editor
  <2> QED BY <2>2, EditorAssumption
<1>2. ASSUME NEW tags \in Seq(Tag), editor # Null, editor' = [editor EXCEPT !.tags = tags]
      PROVE  editor' # Null
  <2>1. editor' \in Editor
    BY <1>2 DEF IInv, EditorsTypeOK, Editor
  <2> QED BY <2>1, EditorAssumption
<1>3. CASE TypeTitle
  <2>1. PICK t \in Text : SaveAfterCheck([editor EXCEPT !.title = t])
    BY <1>3 DEF TypeTitle
  <2>2. editor \in Editor
    BY <1>3 DEF TypeTitle, IInv, EditorsTypeOK
  <2>3. [editor EXCEPT !.title = t] \in Editor
    BY <2>2 DEF Editor
  <2> QED BY <1>1, <2>1, <2>3
<1>4. CASE ClickAddTag
  <2>1. PICK pieces \in Inputs :
          \E tags \in [1..Cardinality((ToSet(pieces) \ {Blank}) \cup ToSet(editor.tags))
                         -> (ToSet(pieces) \ {Blank}) \cup ToSet(editor.tags)] :
            editor' = [editor EXCEPT !.tags = tags]
    BY <1>4 DEF ClickAddTag
  <2>2. /\ pieces \in Seq(Tag \cup {Blank}) /\ editor # Null /\ editor.tags \in Seq(Tag)
    BY <1>4, GroupManageAssumption DEF ClickAddTag, IInv, EditorsTypeOK, Editor
  <2>3. PICK tags \in [1..Cardinality((ToSet(pieces) \ {Blank}) \cup ToSet(editor.tags))
                         -> (ToSet(pieces) \ {Blank}) \cup ToSet(editor.tags)] :
          editor' = [editor EXCEPT !.tags = tags]
    BY <2>1
  <2>4. tags \in Seq(Tag)
    BY <2>2, SortedOK
  <2> QED BY <1>2, <2>2, <2>3, <2>4
<1>5. CASE ClickTag
  <2>1. /\ editor # Null /\ editor.tags # <<>> /\ editor' = [editor EXCEPT !.tags = Tail(editor.tags)]
        /\ editor.tags \in Seq(Tag)
    BY <1>5 DEF ClickTag, IInv, EditorsTypeOK, Editor
  <2>2. Tail(editor.tags) \in Seq(Tag)
    BY <2>1
  <2> QED BY <1>2, <2>1, <2>2
<1>6. CASE Recreate
  <2>1. editor.parent \in GroupId /\ Exists(editor.parent) /\ OnCreate(editor.parent) /\ UNCHANGED store
    BY <1>6 DEF Recreate, IInv, EditorsTypeOK, UiInv, OwnGroup, EditorOK, Editor
  <2> QED BY <2>1, OnCreateOK
<1>7. CASE Launch
  <2>1. Head(starting) \in GroupId /\ Exists(Head(starting)) /\ OnCreate(Head(starting)) /\ UNCHANGED store
    <3>1. starting \in Seq(GroupId) /\ starting # <<>>
      BY <1>7 DEF Launch, IInv, QueueTypeOK
    <3>2. 1 \in DOMAIN starting /\ Head(starting) = starting[1] /\ starting[1] \in GroupId
      BY <3>1
    <3> QED BY <1>7, <3>2 DEF Launch, IInv, UiInv, StartingOK
  <2> QED BY <2>1, OnCreateOK
<1> QED BY <1>3, <1>4, <1>5, <1>6, <1>7

\* A step strands no group, except a death, which strands the one being saved.
LEMMA StrandedStep ==
  ASSUME IInv, TreeInv, LinkInv, [Next]_vars
  PROVE  /\ Kill => Stranded' \subseteq Stranded \cup {editor.group}
         /\ ~Kill \/ save = NoSave => Stranded' \subseteq Stranded
<1> SUFFICES ASSUME NEW g \in Stranded'
             PROVE  g \in Stranded \/ (Kill /\ g = editor.group /\ save # NoSave)
  OBVIOUS
<1>1. /\ g \in GroupId \ {Root} /\ groups'[g] # Null /\ ~Listed(g)'
      /\ save'.step # "none" => editor'.group # g
  BY DEF Stranded, Subgroups
<1>2. ~Listed(g) /\ LinkInv'
  BY <1>1, NextGrows, LinkNext
<1>3. ~(save'.step = "none" /\ editor' # Null /\ editor'.group = g)
  BY <1>1, <1>2 DEF LinkInv, Listed, Linked, RowsOf
<1>4. CASE groups[g] = Null
  <2>1. CASE CreateStep
    <3>1. PICK n \in GroupId : CreateGroup(n, editor.parent) /\ editor' = [editor EXCEPT !.group = n]
      BY <2>1 DEF CreateStep
    <3>2. /\ editor \in Editor /\ save' = [save EXCEPT !.step = "write"] /\ save \in Saving
      BY <2>1, SavingEditor DEF CreateStep, IInv, QueueTypeOK
    <3>3. n = g
      BY <1>1, <1>4, <3>1 DEF CreateGroup, IInv, StoreTypeOK
    <3>4. editor'.group = g /\ save'.step = "write"
      BY <3>1, <3>2, <3>3 DEF Editor, Saving
    <3> QED BY <1>1, <3>4
  <2>2. CASE WriteStep
    <3>1. editor.group \in GroupId /\ Exists(editor.group)
      <4>1. save.step = "write" /\ editor \in Editor /\ EditorOK(editor)
        BY <2>2, SavingEditor DEF WriteStep
      <4> QED BY <4>1 DEF IInv, UiInv, SaveOK, EditorOK, Editor
    <3>2. \A h \in GroupId : h # editor.group => groups'[h] = groups[h]
      BY <2>2 DEF WriteStep, WriteGroup, IInv, StoreTypeOK
    <3> QED BY <1>1, <1>4, <3>1, <3>2 DEF Exists
  <2>3. CASE LinkStep
    <3>1. rows[editor.groupMemo].parent # g
      BY <1>4, <2>3 DEF LinkStep, LinkRow
    <3>2. groups'[g] = groups[g]
      BY <1>1, <2>3, <3>1 DEF LinkStep, LinkRow, IInv, StoreTypeOK
    <3> QED BY <1>1, <1>4, <3>2
  <2>4. CASE UNCHANGED groups
    BY <1>1, <1>4, <2>4
  <2>5. UNCHANGED groups \/ CreateStep \/ WriteStep \/ LinkStep
    BY DEF Next, vars, store, TapAddGroup, TypeTitle, ClickAddTag, ClickTag, Finish, Recreate,
           Launch, RestoreTitle, RowStep, CreateRow, Kill
  <2> QED BY <2>1, <2>2, <2>3, <2>4, <2>5
<1>5. CASE groups[g] # Null /\ save.step # "none" /\ editor.group = g
  <2>1. editor \in Editor /\ editor # Null /\ save # NoSave
    BY <1>5, SavingEditor DEF NoSave
  <2>2. CASE Kill
    BY <1>5, <2>1, <2>2
  <2>3. CASE CreateStep
    BY <1>1, <1>5, <2>3, StoreAssumption DEF CreateStep, IInv, UiInv, SaveOK
  <2>4. CASE WriteStep \/ LinkStep
    BY <1>1, <1>3, <1>5, <2>1, <2>4 DEF WriteStep, LinkStep
  <2>5. CASE RowStep
    <3>1. \E r : editor' = [editor EXCEPT !.groupMemo = r]
      BY <2>5 DEF RowStep
    <3>2. editor'.group = g
      BY <1>5, <2>1, <3>1 DEF Editor
    <3>3. editor' # Null
      BY <2>5, CallbackEditor
    <3> QED BY <1>1, <1>3, <3>2, <3>3
  <2>6. CASE UNCHANGED <<editor, save>>
    BY <1>1, <1>5, <2>6
  <2>7. \/ Kill \/ CreateStep \/ WriteStep \/ RowStep \/ LinkStep
        \/ UNCHANGED <<editor, save>>
    BY <2>1 DEF Next, vars, TapAddGroup, TypeTitle, ClickAddTag, ClickTag, Finish, Recreate,
           Launch, RestoreTitle, AtRest
  <2> QED BY <2>2, <2>3, <2>4, <2>5, <2>6, <2>7
<1>6. CASE groups[g] # Null /\ ~(save.step # "none" /\ editor.group = g)
  BY <1>1, <1>2, <1>6 DEF Stranded, Subgroups
<1> QED BY <1>4, <1>5, <1>6

-----------------------------------------------------------------------------
(* Steps of others: of memo editors, which link rows of memos to the lists, and *)
(* of the browser, which makes the root group.                             *)

Waiting == UNCHANGED <<editor, below, starting, restore, save, creates, kills>>

OthersDeed ==
  /\ Waiting /\ StoreTypeOK'
  /\ \A r \in RowId :
       \/ rows'[r] = rows[r]
       \/ /\ rows[r] = Null /\ rows'[r] # Null /\ rows'[r].type = "memo"
          /\ rows'[r].typeId \in MemoId /\ rows'[r].ref \in MemoId
  /\ \A g \in GroupId :
       /\ Exists(g) =>
            /\ groups'[g] # Null /\ groups'[g].parent = groups[g].parent
            /\ groups'[g].title = groups[g].title /\ groups'[g].tags = groups[g].tags
            /\ \/ groups'[g].groupMemos = groups[g].groupMemos
               \/ \E r \in RowId : /\ rows[r] # Null /\ rows[r].parent = g /\ rows[r].typeId # Null
                                   /\ ~Contains(groups[g].groupMemos, r)
                                   /\ groups'[g].groupMemos = Append(groups[g].groupMemos, r)
       /\ ~Exists(g) => groups'[g] = Null

LEMMA OthersGrow ==
  ASSUME IInv, OthersDeed
  PROVE  /\ Grows /\ \A id : Listed(id) => Listed(id)'
         /\ \A g \in GroupId : groups'[g] # Null => groups[g] # Null
         /\ \A g \in GroupId : Exists(g) =>
              /\ groups'[g] # Null
              /\ groups'[g].title = groups[g].title /\ groups'[g].tags = groups[g].tags
         /\ \A r \in RowId : rows[r] # Null => rows'[r] = rows[r]
<1>1. \A r \in RowId : rows[r] # Null => rows'[r] = rows[r]
  BY DEF OthersDeed
<1>2. ASSUME NEW g \in GroupId, Exists(g)
      PROVE  ToSet(groups[g].groupMemos) \subseteq ToSet(groups'[g].groupMemos)
  <2> DEFINE list == groups[g].groupMemos
             more == groups'[g].groupMemos
  <2>1. more = list \/ \E r \in RowId : more = Append(list, r)
    BY <1>2 DEF OthersDeed
  <2>2. list \in Seq(RowId)
    BY <1>2 DEF IInv, StoreTypeOK, Group, Exists
  <2> HIDE DEF list, more
  <2>3. ToSet(list) \subseteq ToSet(more)
    BY <2>1, <2>2, AppendOK
  <2> QED BY <2>3 DEF list, more
<1>3. Grows
  BY <1>1, <1>2 DEF Grows, OthersDeed
<1>4. \A id : Listed(id) => Listed(id)'
  BY <1>3, ListedGrows DEF IInv
<1> QED BY <1>1, <1>3, <1>4 DEF OthersDeed, Exists

LEMMA OthersInv == ASSUME IInv, OthersDeed PROVE IInv'
<1>1. /\ \A g \in GroupId : Exists(g) => /\ groups'[g] # Null
                                         /\ groups'[g].title = groups[g].title
                                         /\ groups'[g].tags = groups[g].tags
      /\ \A r \in RowId : rows[r] # Null => rows'[r] = rows[r]
  BY OthersGrow
<1>2. Waiting /\ StoreTypeOK'
  BY DEF OthersDeed
<1>3. EditorsTypeOK' /\ QueueTypeOK' /\ CountsOK'
  BY <1>2 DEF Waiting, IInv, EditorsTypeOK, QueueTypeOK, AtRest, CountsOK
<1>4. /\ editor \in Editor \cup {Null} /\ below \in Seq(Editor) /\ starting \in Seq(GroupId)
  BY DEF IInv, EditorsTypeOK, QueueTypeOK
<1>5. ASSUME NEW e \in Editor
      PROVE  /\ EditorOK(e) => EditorOK(e)'
             /\ Saved(e) => Saved(e)'
  <2>1. e.parent \in GroupId /\ e.group \in GroupId \cup {Null} /\ e.groupMemo \in RowId \cup {Null}
    BY DEF Editor
  <2> QED BY <1>1, <2>1 DEF EditorOK, Saved, Exists
<1>6. BelowOK'
  <2>1. \A i \in DOMAIN below : \E e \in Editor : e = below[i] /\ EditorOK(e) /\ Saved(e)
    BY <1>4 DEF IInv, UiInv, BelowOK
  <2>2. \A i \in DOMAIN below : \E e \in Editor : e = below[i] /\ EditorOK(e)' /\ Saved(e)'
    BY <1>5, <2>1
  <2> QED BY <1>2, <2>2 DEF Waiting, BelowOK, EditorOK, Saved, Exists, IInv, UiInv
<1>7. OwnGroup'
  <2>1. editor # Null => EditorOK(editor)'
    <3> SUFFICES ASSUME editor # Null PROVE EditorOK(editor)'
      OBVIOUS
    <3>1. PICK e \in Editor : e = editor
      BY <1>4
    <3>2. EditorOK(e)
      BY <3>1 DEF IInv, UiInv, OwnGroup
    <3>3. EditorOK(e)'
      BY <1>5, <3>2
    <3> QED BY <1>2, <3>1, <3>3 DEF Waiting, EditorOK, Exists
  <2> QED BY <1>2, <2>1 DEF Waiting, OwnGroup, IInv, UiInv
<1>8. SaveOK'
  <2>1. CASE editor = Null
    <3>1. save = NoSave
      BY <2>1 DEF IInv, QueueTypeOK, AtRest
    <3> QED BY <1>2, <2>1, <3>1 DEF SaveOK, Waiting, NoSave
  <2>2. CASE editor # Null
    <3>1. PICK e \in Editor : e = editor
      BY <1>4, <2>2
    <3>2. Saved(e) => Saved(e)'
      BY <1>5
    <3>3. Saved(editor) => Saved(editor)'
      BY <1>2, <3>1, <3>2 DEF Saved, Exists, Waiting
    <3>4. e.group # Null => Exists(e.group) /\ e.group \in GroupId
      BY <3>1, <2>2 DEF IInv, UiInv, OwnGroup, EditorOK, Editor
    <3>5. editor.group # Null => /\ groups'[editor.group].title = groups[editor.group].title
                                 /\ groups'[editor.group].tags = groups[editor.group].tags
      BY <1>1, <3>1, <3>4
    <3>6. editor' = editor /\ save' = save
      BY <1>2 DEF Waiting
    <3> QED BY <3>3, <3>5, <3>6 DEF SaveOK, IInv, UiInv, Given
  <2> QED BY <2>1, <2>2
<1>9. StartingOK'
  BY <1>1, <1>2, <1>4 DEF Waiting, StartingOK, IInv, UiInv, Exists
<1> QED BY <1>2, <1>3, <1>6, <1>7, <1>8, <1>9 DEF IInv, UiInv

LEMMA OthersTree == ASSUME IInv, TreeInv, OthersDeed PROVE TreeInv'
<1>1. /\ Grows /\ \A g \in GroupId : groups'[g] # Null => groups[g] # Null
      /\ \A r \in RowId : rows[r] # Null => rows'[r] = rows[r]
      /\ \A g \in GroupId : Exists(g) => groups'[g].title = groups[g].title
  BY OthersGrow
<1>2. Waiting
  BY DEF OthersDeed
<1>3. NoCircle' /\ Exists(Root)' /\ \A g \in GroupId : ParentShown(g)'
  BY <1>1, SameGroups
<1>4. ASSUME NEW r \in RowId PROVE RowOK(r)'
  <2>1. CASE rows'[r] = rows[r]
    BY <1>1, <2>1 DEF TreeInv, StoreTree, RowOK, Grows, Exists
  <2>2. CASE rows'[r] # rows[r]
    BY <2>2 DEF OthersDeed, RowOK
  <2> QED BY <2>1, <2>2
<1>5. OneRow'
  BY StoreAssumption DEF OthersDeed, TreeInv, StoreTree, OneRow
<1>6. ASSUME NEW g \in GroupId PROVE ListOK(g)'
  <2> SUFFICES ASSUME groups'[g] # Null PROVE ListOK(g)'
    BY DEF ListOK, Exists
  <2>1. Exists(g)
    BY <1>1 DEF Exists
  <2> DEFINE list == groups[g].groupMemos
             more == groups'[g].groupMemos
  <2>2. /\ list \in Seq(RowId) /\ IsInjective(list)
        /\ \A i \in DOMAIN list :
             rows[list[i]] # Null /\ rows[list[i]].typeId # Null /\ rows[list[i]].parent = g
    BY <2>1 DEF IInv, StoreTypeOK, Group, TreeInv, StoreTree, ListOK, Exists
  <2>3. \/ more = list
        \/ \E r \in RowId : /\ rows[r] # Null /\ rows[r].parent = g /\ rows[r].typeId # Null
                            /\ ~Contains(list, r) /\ more = Append(list, r)
    BY <2>1 DEF OthersDeed
  <2> HIDE DEF list, more
  <2>4. IsInjective(more) /\ \A i \in DOMAIN more :
          /\ more[i] \in RowId /\ rows[more[i]] # Null
          /\ rows[more[i]].typeId # Null /\ rows[more[i]].parent = g
    <3>1. CASE more = list
      BY <2>2, <3>1
    <3>2. CASE more # list
      <4>1. PICK r \in RowId : /\ rows[r] # Null /\ rows[r].parent = g /\ rows[r].typeId # Null
                               /\ ~Contains(list, r) /\ more = Append(list, r)
        BY <2>3, <3>2
      <4>2. /\ IsInjective(more)
            /\ \A i \in DOMAIN more : (i \in DOMAIN list /\ more[i] = list[i]) \/ more[i] = r
        BY <2>2, <4>1, AppendOK
      <4>3. \A i \in DOMAIN list : list[i] \in RowId
        BY <2>2
      <4> QED BY <2>2, <4>1, <4>2, <4>3
    <3> QED BY <3>1, <3>2
  <2>5. IsInjective(more) /\ \A i \in DOMAIN more :
          rows'[more[i]] # Null /\ rows'[more[i]].typeId # Null /\ rows'[more[i]].parent = g
    BY <1>1, <2>4
  <2> QED BY <2>5 DEF ListOK, more
<1>7. EditorsPlaced'
  <2>1. editor' # Null => Placed(editor)'
    <3> SUFFICES ASSUME editor # Null PROVE Placed(editor)'
      BY <1>2 DEF Waiting
    <3>1. PICK e \in Editor : e = editor
      BY DEF IInv, EditorsTypeOK
    <3>2. EditorOK(e) /\ Placed(e)
      BY <3>1 DEF IInv, UiInv, OwnGroup, TreeInv, EditorsPlaced
    <3>3. Placed(e)'
      BY <1>1, <3>2, GrowsOK
    <3> QED BY <1>2, <3>1, <3>3 DEF Waiting, Placed, Shown, Listed, Linked, RowsOf
  <2> QED BY <1>1, <1>2, <2>1, WaitingPlaced DEF Waiting
<1> QED BY <1>3, <1>4, <1>5, <1>6, <1>7 DEF TreeInv, StoreTree

LEMMA OthersLink == ASSUME IInv, LinkInv, OthersDeed PROVE LinkInv' /\ Stranded' \subseteq Stranded
<1>1. /\ \A id : Listed(id) => Listed(id)'
      /\ \A g \in GroupId : groups'[g] # Null => groups[g] # Null
      /\ \A r \in RowId : rows[r] # Null => rows'[r] = rows[r]
  BY OthersGrow
<1>2. UNCHANGED <<editor, below, save>>
  BY DEF OthersDeed, Waiting
<1>3. \A i \in DOMAIN below : \E id : id = below[i].group /\ Listed(id)'
  BY <1>1 DEF LinkInv
<1>4. PICK id : id = editor.group
  OBVIOUS
<1>5. save.step \in {"write", "row"} => editor.group \in GroupId
  <2> SUFFICES ASSUME save.step \in {"write", "row"} PROVE editor.group \in GroupId
    OBVIOUS
  <2>1. editor \in Editor
    BY DEF IInv, QueueTypeOK, AtRest, NoSave, EditorsTypeOK
  <2> QED BY <2>1 DEF IInv, UiInv, SaveOK, Saved, Editor
<1>6. id \in GroupId /\ RowsOf(id) = {} => RowsOf(id)' = {}
  <2> SUFFICES ASSUME id \in GroupId, RowsOf(id) = {}, NEW r \in RowId, rows'[r] # Null, rows'[r].typeId = id
               PROVE  FALSE
    BY DEF RowsOf
  <2> QED BY StoreAssumption DEF OthersDeed, RowsOf
<1>7. LinkInv'
  <2>1. (\A i \in DOMAIN below : Listed(below[i].group))'
    BY <1>2, <1>3 DEF Listed, Linked, RowsOf
  <2>2. (editor # Null /\ save.step = "none" => Listed(editor.group))'
    <3>1. editor # Null /\ save.step = "none" => Listed(id)'
      BY <1>1, <1>4 DEF LinkInv
    <3> QED BY <1>2, <1>4, <3>1 DEF Listed, Linked, RowsOf
  <2>3. (save.step \in {"write", "row"} =>
          Listed(editor.group) \/ (editor.groupMemo = Null /\ RowsOf(editor.group) = {}))'
    <3>1. save.step \in {"write", "row"} =>
            Listed(id)' \/ (editor.groupMemo = Null /\ RowsOf(id)' = {})
      BY <1>1, <1>4, <1>5, <1>6 DEF LinkInv
    <3> QED BY <1>2, <1>4, <3>1 DEF Listed, Linked, RowsOf
  <2> QED BY <2>1, <2>2, <2>3 DEF LinkInv
<1>8. ASSUME NEW g \in Stranded' PROVE g \in Stranded
  <2>1. /\ g \in GroupId \ {Root} /\ groups'[g] # Null /\ ~Listed(g)'
        /\ ~(save.step # "none" /\ editor.group = g)
    BY <1>2 DEF Stranded, Subgroups
  <2> QED BY <1>1, <2>1 DEF Stranded, Subgroups
<1> QED BY <1>7, <1>8

\* Launches that were queued may be lost.
LEMMA DroppedLaunches ==
  ASSUME IInv, UNCHANGED <<store, editor, below, restore, save, creates, kills>>, starting' = <<>>
  PROVE  /\ IInv' /\ (TreeInv => TreeInv') /\ (LinkInv => LinkInv')
         /\ Stranded' = Stranded
<1>1. StartingOK' /\ starting' \in Seq(GroupId)
  BY EmptyOK DEF StartingOK
<1>2. StoreTypeOK' /\ BelowOK'
  BY UnchangedOK
<1>3. SaveOK' /\ OwnGroup'
  BY DEF IInv, UiInv, SaveOK, OwnGroup, EditorOK, Saved, Exists, store
<1>4. EditorsTypeOK' /\ QueueTypeOK' /\ CountsOK'
  BY <1>1 DEF IInv, EditorsTypeOK, QueueTypeOK, AtRest, CountsOK
<1>5. IInv'
  BY <1>1, <1>2, <1>3, <1>4 DEF IInv, UiInv
<1>6. TreeInv => TreeInv'
  <2> SUFFICES ASSUME TreeInv PROVE TreeInv'
    OBVIOUS
  <2>1. StoreTree'
    BY SameStore
  <2>2. EditorsPlaced'
    BY <1>1 DEF TreeInv, EditorsPlaced, Placed, Shown, Listed, Linked, RowsOf, store
  <2> QED BY <2>1, <2>2 DEF TreeInv
<1>7. LinkInv => LinkInv'
  BY DEF LinkInv, Listed, Linked, RowsOf, store
<1>8. Stranded' = Stranded
  BY DEF Stranded, Subgroups, Listed, Linked, RowsOf, store
<1> QED BY <1>5, <1>6, <1>7, <1>8

\* Without groups there is no editor, and none is waited for.
LEMMA NoEditorYet ==
  ASSUME IInv, \A g \in GroupId : groups[g] = Null
  PROVE  editor = Null /\ below = <<>> /\ starting = <<>> /\ save = NoSave /\ Stranded = {}
<1>1. /\ editor \in Editor \cup {Null} /\ below \in Seq(Editor) /\ starting \in Seq(GroupId)
  BY DEF IInv, EditorsTypeOK, QueueTypeOK
<1>2. editor = Null
  BY <1>1 DEF IInv, UiInv, OwnGroup, EditorOK, Exists, Editor
<1>3. \A i \in DOMAIN below : FALSE
  <2> SUFFICES ASSUME NEW i \in DOMAIN below PROVE FALSE
    OBVIOUS
  <2>1. below[i] \in Editor /\ EditorOK(below[i])
    BY <1>1 DEF IInv, UiInv, BelowOK
  <2> QED BY <2>1 DEF EditorOK, Exists, Editor
<1>4. \A i \in DOMAIN starting : FALSE
  BY <1>1 DEF IInv, UiInv, StartingOK, Exists
<1>5. below = <<>> /\ starting = <<>>
  BY <1>1, <1>3, <1>4
<1>6. save = NoSave
  BY <1>2 DEF IInv, QueueTypeOK, AtRest
<1> QED BY <1>2, <1>5, <1>6 DEF Stranded, Subgroups

\* The browser makes the root group and its row.
RootGroup == [parent |-> Null, title |-> Empty, tags |-> <<>>, groupMemos |-> <<>>]
RootItem == [type |-> "group", parent |-> Root, typeId |-> Null, ref |-> Root]

LEMMA FirstGroup ==
  ASSUME IInv, Waiting, \A g \in GroupId : groups[g] = Null, \A r \in RowId : rows[r] = Null,
         groups' = [groups EXCEPT ![Root] = RootGroup],
         rows' = [rows EXCEPT ![RootRow] = RootItem],
         UNCHANGED <<memos, hashTags>>
  PROVE  IInv' /\ TreeInv' /\ LinkInv' /\ Stranded' = {}
<1>1. /\ RootGroup \in Group /\ RootGroup.groupMemos = <<>> /\ RootItem \in GroupMemo
      /\ RootItem.type = "group" /\ RootItem.typeId = Null /\ RootItem.ref = Root
  BY StoreAssumption, GroupManageAssumption, EmptyOK DEF Group, GroupMemo, RootGroup, RootItem
<1>2. /\ groups \in [GroupId -> Group \cup {Null}] /\ rows \in [RowId -> GroupMemo \cup {Null}]
  BY DEF IInv, StoreTypeOK
<1>3. /\ editor' = Null /\ below' = <<>> /\ starting' = <<>> /\ save' = NoSave
      /\ UNCHANGED <<restore, creates, kills>>
  BY NoEditorYet DEF Waiting
<1>4. /\ groups'[Root] = RootGroup /\ RootGroup # Null
      /\ \A g \in GroupId : groups'[g] # Null => g = Root
      /\ \A r \in RowId : rows'[r] # Null => rows'[r] = RootItem
  BY <1>1, <1>2, StoreAssumption, GroupManageAssumption
<1>5. StoreTypeOK'
  <2>1. groups' \in [GroupId -> Group \cup {Null}] /\ rows' \in [RowId -> GroupMemo \cup {Null}]
    BY <1>1, <1>2
  <2>2. memos \in [MemoId -> Memo \cup {Null}] /\ hashTags \subseteq Tag
    BY DEF IInv, StoreTypeOK
  <2> QED BY <2>1, <2>2 DEF StoreTypeOK
<1>6. EditorsTypeOK' /\ QueueTypeOK' /\ CountsOK'
  <2>1. EditorsTypeOK' /\ CountsOK'
    BY <1>3, EmptyOK DEF IInv, EditorsTypeOK, CountsOK
  <2>2. AtRest' <=> AtRest
    BY <1>3, NoEditorYet DEF AtRest
  <2>3. QueueTypeOK'
    <3>1. save' \in Saving /\ restore' \in Text \cup {Null} /\ starting' \in Seq(GroupId)
      BY <1>3, EmptyOK, NoEditorYet DEF IInv, QueueTypeOK
    <3>2. AtRest /\ editor = Null
      BY NoEditorYet DEF IInv, QueueTypeOK
    <3> QED BY <2>2, <3>1, <3>2 DEF QueueTypeOK
  <2> QED BY <2>1, <2>3
<1>7. UiInv'
  BY <1>3 DEF UiInv, SaveOK, NoSave, BelowOK, OwnGroup, StartingOK
<1>8. Subgroups' = {}
  BY <1>4 DEF Subgroups
<1>9. StoreTree'
  <2>1. Exists(Root)' /\ NoCircle'
    BY <1>4, <1>8 DEF Exists, NoCircle
  <2>2. \A g \in GroupId : ParentShown(g)' /\ ListOK(g)'
    BY <1>1, <1>4 DEF ParentShown, ListOK, IsInjective, Exists
  <2>3. OneRow' /\ \A r \in RowId : RowOK(r)'
    BY <1>1, <1>4, StoreAssumption DEF RowOK, OneRow
  <2> QED BY <2>1, <2>2, <2>3 DEF StoreTree
<1>10. EditorsPlaced' /\ LinkInv'
  BY <1>3 DEF EditorsPlaced, LinkInv, NoSave
<1>11. Stranded' = {}
  BY <1>8 DEF Stranded
<1> QED BY <1>5, <1>6, <1>7, <1>9, <1>10, <1>11 DEF IInv, TreeInv

\* Without groups the editors can do nothing.
LEMMA NothingYet ==
  ASSUME IInv, [Next]_vars, \A g \in GroupId : groups[g] = Null
  PROVE  UNCHANGED store /\ LinkInv' /\ Stranded' = {}
<1>1. editor = Null /\ below = <<>> /\ starting = <<>> /\ save = NoSave /\ AtRest
  BY NoEditorYet DEF IInv, QueueTypeOK
<1>2. Kill \/ UNCHANGED vars
  BY <1>1 DEF Next, TapAddGroup, Shown, TypeTitle, ClickAddTag, ClickTag, Finish, Recreate, Launch,
              RestoreTitle, AtRest, CreateStep, WriteStep, RowStep, LinkStep, NoSave
<1>3. UNCHANGED store /\ editor' = Null /\ below' = <<>> /\ save' = NoSave
  BY <1>1, <1>2 DEF Kill, vars
<1>4. LinkInv'
  BY <1>3 DEF LinkInv, NoSave
<1>5. Stranded' = {}
  BY <1>3 DEF Stranded, Subgroups, store
<1> QED BY <1>3, <1>4, <1>5
=============================================================================
