------------------------ MODULE TagMemoAndroidProofs ------------------------
(***************************************************************************)
(* The properties of the Android app as a whole: the browser, the memo     *)
(* editors and the group editors over one file, in one task, on one        *)
(* looper.                                                                 *)
(*                                                                         *)
(* What each kind of editor does to the file and to itself is proved in    *)
(* MemoManageProofs and GroupManageProofs, of which this module takes one  *)
(* instance each, together with what they say a step of the one kind does  *)
(* to what the other kind relies on.  What is left is what the composition *)
(* adds: that the looper lets one callback sequence end before the next    *)
(* begins, so one save at most is in progress when the process dies; that  *)
(* the browser only shows lists of groups that are shown themselves; that  *)
(* the task and the queue of launches agree with the editors; and that all *)
(* the browser sees of an editor's save is the arrival of what it made.    *)
(***************************************************************************)
EXTENDS TagMemoAndroid, FiniteSetTheorems, TLAPS

MemoP == INSTANCE MemoManageProofs WITH
  editor <- memoEditor, below <- memoBelow, starting <- memoStarting,
  save <- memoSave, creates <- memoCreates, MaxCreates <- MaxMemos,
  InitialGroups <- [g \in GroupId |-> Null], InitialRows <- [r \in RowId |-> Null]

GroupP == INSTANCE GroupManageProofs WITH
  editor <- groupEditor, below <- groupBelow, starting <- groupStarting,
  save <- groupSave, creates <- groupCreates, MaxCreates <- MaxGroups

\* What the memo editors' theorems assume of the constants holds here.
LEMMA MemoAssumptions ==
  /\ MemoP!StoreAssumption /\ MemoP!InitialAssumption /\ MemoP!OneRowAssumption
  /\ MemoP!BoundsAssumption /\ MemoP!EditorAssumption
<1>1. MemoP!StoreAssumption
  BY StoreAssumption
     DEF MemoP!StoreAssumption, Group, Memo, GroupMemo, MemoP!Group, MemoP!Memo, MemoP!GroupMemo
<1>2. MemoP!InitialAssumption /\ MemoP!OneRowAssumption
  BY DEF MemoP!InitialAssumption, MemoP!OneRowAssumption
<1>3. MemoP!BoundsAssumption
  BY AndroidAssumption DEF MemoP!BoundsAssumption
<1>4. MemoP!EditorAssumption
  BY EditorsAssumption
     DEF MemoP!EditorAssumption, MemoP!Editor, MemoEditors!Editor, MemoP!Intent, MemoEditors!Intent
<1> QED BY <1>1, <1>2, <1>3, <1>4

\* The memo editors the theorems are about are the ones of this specification.
LEMMA MemoSame ==
  /\ MemoEditors!TapAddMemo <=> MemoP!TapAddMemo
  /\ MemoEditors!TapMemo <=> MemoP!TapMemo
  /\ MemoEditors!TypeTitle <=> MemoP!TypeTitle
  /\ MemoEditors!TypeContent <=> MemoP!TypeContent
  /\ MemoEditors!ClickAddTag <=> MemoP!ClickAddTag
  /\ MemoEditors!ClickTag <=> MemoP!ClickTag
  /\ MemoEditors!Finish <=> MemoP!Finish
  /\ MemoEditors!Recreate <=> MemoP!Recreate
  /\ MemoEditors!Launch <=> MemoP!Launch
  /\ MemoEditors!SetGroupTags <=> MemoP!SetGroupTags
  /\ MemoEditors!ModeEdit <=> MemoP!ModeEdit
  /\ MemoEditors!Subscribe <=> MemoP!Subscribe
  /\ MemoEditors!TitleChanged <=> MemoP!TitleChanged
  /\ MemoEditors!ContentChanged <=> MemoP!ContentChanged
  /\ MemoEditors!AddTag <=> MemoP!AddTag
  /\ MemoEditors!SortTags <=> MemoP!SortTags
  /\ MemoEditors!RemoveTag <=> MemoP!RemoveTag
  /\ MemoEditors!CreateStep <=> MemoP!CreateStep
  /\ MemoEditors!WriteStep <=> MemoP!WriteStep
  /\ MemoEditors!RowStep <=> MemoP!RowStep
  /\ MemoEditors!LinkStep <=> MemoP!LinkStep
  /\ MemoEditors!Kill <=> MemoP!Kill
  /\ MemoEditors!AtRest <=> MemoP!AtRest
  /\ MemoEditors!TypeOK <=> MemoP!TypeOK
<1>1. MemoEditors!TapAddMemo <=> MemoP!TapAddMemo
  BY DEF MemoEditors!TapAddMemo, MemoP!TapAddMemo, MemoEditors!Start, MemoP!Start,
         MemoEditors!AtRest, MemoP!AtRest, MemoEditors!store, MemoP!store,
         MemoEditors!NoSave, MemoP!NoSave
<1>2. MemoEditors!TapMemo <=> MemoP!TapMemo
  BY DEF MemoEditors!TapMemo, MemoP!TapMemo, MemoEditors!ToSet, MemoP!ToSet,
         MemoEditors!Start, MemoP!Start, MemoEditors!AtRest, MemoP!AtRest,
         MemoEditors!store, MemoP!store, MemoEditors!NoSave, MemoP!NoSave
<1>3. MemoEditors!TypeTitle <=> MemoP!TypeTitle
  BY DEF MemoEditors!TypeTitle, MemoP!TypeTitle, MemoEditors!Event, MemoP!Event,
         MemoEditors!AtRest, MemoP!AtRest, MemoEditors!store, MemoP!store,
         MemoEditors!NoSave, MemoP!NoSave
<1>4. MemoEditors!TypeContent <=> MemoP!TypeContent
  BY DEF MemoEditors!TypeContent, MemoP!TypeContent, MemoEditors!Event, MemoP!Event,
         MemoEditors!AtRest, MemoP!AtRest, MemoEditors!store, MemoP!store,
         MemoEditors!NoSave, MemoP!NoSave
<1>5. MemoEditors!ClickAddTag <=> MemoP!ClickAddTag
  BY DEF MemoEditors!ClickAddTag, MemoP!ClickAddTag, MemoEditors!Event, MemoP!Event,
         MemoEditors!Do, MemoP!Do, MemoEditors!AtRest, MemoP!AtRest,
         MemoEditors!store, MemoP!store, MemoEditors!NoSave, MemoP!NoSave
<1>6. MemoEditors!ClickTag <=> MemoP!ClickTag
  BY DEF MemoEditors!ClickTag, MemoP!ClickTag, MemoEditors!Event, MemoP!Event,
         MemoEditors!Do, MemoP!Do, MemoEditors!AtRest, MemoP!AtRest,
         MemoEditors!store, MemoP!store, MemoEditors!NoSave, MemoP!NoSave
<1>7. MemoEditors!Finish <=> MemoP!Finish
  BY DEF MemoEditors!Finish, MemoP!Finish, MemoEditors!AtRest, MemoP!AtRest,
         MemoEditors!Last, MemoP!Last, MemoEditors!Front, MemoP!Front,
         MemoEditors!store, MemoP!store, MemoEditors!NoSave, MemoP!NoSave
<1>8. MemoEditors!Recreate <=> MemoP!Recreate
  BY DEF MemoEditors!Recreate, MemoP!Recreate, MemoEditors!AtRest, MemoP!AtRest,
         MemoEditors!NewEditor, MemoP!NewEditor, MemoEditors!OnCreate, MemoP!OnCreate,
         MemoEditors!store, MemoP!store, MemoEditors!NoSave, MemoP!NoSave,
         MemoEditors!Do, MemoP!Do
<1>9. MemoEditors!Launch <=> MemoP!Launch
  BY DEF MemoEditors!Launch, MemoP!Launch, MemoEditors!AtRest, MemoP!AtRest,
         MemoEditors!NewEditor, MemoP!NewEditor, MemoEditors!OnCreate, MemoP!OnCreate,
         MemoEditors!Editors, MemoP!Editors, MemoEditors!store, MemoP!store,
         MemoEditors!NoSave, MemoP!NoSave, MemoEditors!Do, MemoP!Do,
         MemoEditors!ToSet, MemoP!ToSet
<1>10. MemoEditors!SetGroupTags <=> MemoP!SetGroupTags
  BY DEF MemoEditors!SetGroupTags, MemoP!SetGroupTags, MemoEditors!Continue,
         MemoP!Continue, MemoEditors!SaveAfterCheck, MemoP!SaveAfterCheck,
         MemoEditors!NoSave, MemoP!NoSave, MemoEditors!store, MemoP!store,
         MemoEditors!Save, MemoP!Save, MemoEditors!IfChanged, MemoP!IfChanged
<1>11. MemoEditors!ModeEdit <=> MemoP!ModeEdit
  BY DEF MemoEditors!ModeEdit, MemoP!ModeEdit, MemoEditors!Continue, MemoP!Continue,
         MemoEditors!SaveAfterCheck, MemoP!SaveAfterCheck, MemoEditors!NoSave,
         MemoP!NoSave, MemoEditors!store, MemoP!store, MemoEditors!Save, MemoP!Save,
         MemoEditors!IfChanged, MemoP!IfChanged
<1>12. MemoEditors!Subscribe <=> MemoP!Subscribe
  BY DEF MemoEditors!Subscribe, MemoP!Subscribe, MemoEditors!Continue, MemoP!Continue,
         MemoEditors!SaveAfterCheck, MemoP!SaveAfterCheck, MemoEditors!NoSave,
         MemoP!NoSave, MemoEditors!store, MemoP!store, MemoEditors!Save, MemoP!Save,
         MemoEditors!IfChanged, MemoP!IfChanged
<1>13. MemoEditors!TitleChanged <=> MemoP!TitleChanged
  BY DEF MemoEditors!TitleChanged, MemoP!TitleChanged, MemoEditors!Continue,
         MemoP!Continue, MemoEditors!SaveAfterCheck, MemoP!SaveAfterCheck,
         MemoEditors!NoSave, MemoP!NoSave, MemoEditors!store, MemoP!store,
         MemoEditors!Save, MemoP!Save, MemoEditors!IfChanged, MemoP!IfChanged
<1>14. MemoEditors!ContentChanged <=> MemoP!ContentChanged
  BY DEF MemoEditors!ContentChanged, MemoP!ContentChanged, MemoEditors!Continue,
         MemoP!Continue, MemoEditors!SaveAfterCheck, MemoP!SaveAfterCheck,
         MemoEditors!NoSave, MemoP!NoSave, MemoEditors!store, MemoP!store,
         MemoEditors!Save, MemoP!Save, MemoEditors!IfChanged, MemoP!IfChanged
<1>15. MemoEditors!AddTag <=> MemoP!AddTag
  BY DEF MemoEditors!AddTag, MemoP!AddTag, MemoEditors!Continue, MemoP!Continue,
         MemoEditors!Contains, MemoP!Contains, MemoEditors!SaveAfterCheck,
         MemoP!SaveAfterCheck, MemoEditors!NoSave, MemoP!NoSave, MemoEditors!store,
         MemoP!store, MemoEditors!Save, MemoP!Save, MemoEditors!IfChanged,
         MemoP!IfChanged
<1>16. MemoEditors!SortTags <=> MemoP!SortTags
  BY DEF MemoEditors!SortTags, MemoP!SortTags, MemoEditors!Continue, MemoP!Continue,
         MemoEditors!Bijection, MemoP!Bijection, MemoEditors!SaveAfterCheck,
         MemoP!SaveAfterCheck, MemoEditors!NoSave, MemoP!NoSave, MemoEditors!store,
         MemoP!store, MemoEditors!Injection, MemoP!Injection, MemoEditors!Surjection,
         MemoP!Surjection, MemoEditors!Save, MemoP!Save, MemoEditors!IfChanged,
         MemoP!IfChanged, MemoEditors!IsInjective, MemoP!IsInjective
<1>17. MemoEditors!RemoveTag <=> MemoP!RemoveTag
  BY DEF MemoEditors!RemoveTag, MemoP!RemoveTag, MemoEditors!Continue, MemoP!Continue,
         MemoEditors!SaveAfterCheck, MemoP!SaveAfterCheck, MemoEditors!NoSave,
         MemoP!NoSave, MemoEditors!store, MemoP!store, MemoEditors!Save, MemoP!Save,
         MemoEditors!IfChanged, MemoP!IfChanged
<1>18. MemoEditors!CreateStep <=> MemoP!CreateStep
  BY DEF MemoEditors!CreateStep, MemoP!CreateStep, MemoEditors!CreateMemo,
         MemoP!CreateMemo
<1>19. MemoEditors!WriteStep <=> MemoP!WriteStep
  BY DEF MemoEditors!WriteStep, MemoP!WriteStep, MemoEditors!WriteMemo,
         MemoP!WriteMemo, MemoEditors!NoSave, MemoP!NoSave, MemoEditors!Given,
         MemoP!Given, MemoEditors!SaveTags, MemoP!SaveTags, MemoEditors!ToSet,
         MemoP!ToSet
<1>20. MemoEditors!RowStep <=> MemoP!RowStep
  BY DEF MemoEditors!RowStep, MemoP!RowStep, MemoEditors!NoSave, MemoP!NoSave,
         MemoEditors!store, MemoP!store, MemoEditors!RowsOf, MemoP!RowsOf,
         MemoEditors!CreateRow, MemoP!CreateRow
<1>21. MemoEditors!LinkStep <=> MemoP!LinkStep
  BY DEF MemoEditors!LinkStep, MemoP!LinkStep, MemoEditors!LinkRow, MemoP!LinkRow,
         MemoEditors!NoSave, MemoP!NoSave, MemoEditors!Contains, MemoP!Contains
<1>22. MemoEditors!Kill <=> MemoP!Kill
  BY DEF MemoEditors!Kill, MemoP!Kill, MemoEditors!NoSave, MemoP!NoSave,
         MemoEditors!store, MemoP!store
<1>23. MemoEditors!AtRest <=> MemoP!AtRest
  BY DEF MemoEditors!AtRest, MemoP!AtRest, MemoEditors!NoSave, MemoP!NoSave
<1>24. MemoEditors!TypeOK <=> MemoP!TypeOK
  BY DEF MemoEditors!TypeOK, MemoP!TypeOK, MemoEditors!StoreTypeOK, MemoP!StoreTypeOK,
         MemoEditors!Editor, MemoP!Editor, MemoEditors!Intent, MemoP!Intent,
         MemoEditors!Op, MemoP!Op, MemoEditors!Saving, MemoP!Saving,
         MemoEditors!NoSave, MemoP!NoSave, MemoEditors!Group, MemoP!Group,
         MemoEditors!Memo, MemoP!Memo, MemoEditors!GroupMemo, MemoP!GroupMemo
<1> QED BY <1>1, <1>2, <1>3, <1>4, <1>5, <1>6, <1>7, <1>8, <1>9, <1>10, <1>11, <1>12,
           <1>13, <1>14, <1>15, <1>16, <1>17, <1>18, <1>19, <1>20, <1>21, <1>22,
           <1>23, <1>24

\* So are the group editors.
LEMMA GroupSame ==
  /\ GroupEditors!TapAddGroup <=> GroupP!TapAddGroup
  /\ GroupEditors!TypeTitle <=> GroupP!TypeTitle
  /\ GroupEditors!ClickAddTag <=> GroupP!ClickAddTag
  /\ GroupEditors!ClickTag <=> GroupP!ClickTag
  /\ GroupEditors!Finish <=> GroupP!Finish
  /\ GroupEditors!Recreate <=> GroupP!Recreate
  /\ GroupEditors!Launch <=> GroupP!Launch
  /\ GroupEditors!RestoreTitle <=> GroupP!RestoreTitle
  /\ GroupEditors!CreateStep <=> GroupP!CreateStep
  /\ GroupEditors!WriteStep <=> GroupP!WriteStep
  /\ GroupEditors!RowStep <=> GroupP!RowStep
  /\ GroupEditors!LinkStep <=> GroupP!LinkStep
  /\ GroupEditors!Kill <=> GroupP!Kill
  /\ GroupEditors!AtRest <=> GroupP!AtRest
  /\ GroupEditors!TypeOK <=> GroupP!TypeOK
<1>1. GroupEditors!TapAddGroup <=> GroupP!TapAddGroup
  BY DEF GroupEditors!TapAddGroup, GroupP!TapAddGroup, GroupEditors!AtRest,
         GroupP!AtRest, GroupEditors!Shown, GroupP!Shown, GroupEditors!store,
         GroupP!store, GroupEditors!NoSave, GroupP!NoSave, GroupEditors!Listed,
         GroupP!Listed, GroupEditors!RowsOf, GroupP!RowsOf, GroupEditors!Linked,
         GroupP!Linked, GroupEditors!ToSet, GroupP!ToSet
<1>2. GroupEditors!TypeTitle <=> GroupP!TypeTitle
  BY DEF GroupEditors!TypeTitle, GroupP!TypeTitle, GroupEditors!AtRest, GroupP!AtRest,
         GroupEditors!SaveAfterCheck, GroupP!SaveAfterCheck, GroupEditors!store,
         GroupP!store, GroupEditors!NoSave, GroupP!NoSave, GroupEditors!IfChanged,
         GroupP!IfChanged
<1>3. GroupEditors!ClickAddTag <=> GroupP!ClickAddTag
  BY DEF GroupEditors!ClickAddTag, GroupP!ClickAddTag, GroupEditors!AtRest,
         GroupP!AtRest, GroupEditors!ToSet, GroupP!ToSet, GroupEditors!Cardinality,
         GroupP!Cardinality, GroupEditors!store, GroupP!store, GroupEditors!NoSave,
         GroupP!NoSave
<1>4. GroupEditors!ClickTag <=> GroupP!ClickTag
  BY DEF GroupEditors!ClickTag, GroupP!ClickTag, GroupEditors!AtRest, GroupP!AtRest,
         GroupEditors!store, GroupP!store, GroupEditors!NoSave, GroupP!NoSave
<1>5. GroupEditors!Finish <=> GroupP!Finish
  BY DEF GroupEditors!Finish, GroupP!Finish, GroupEditors!AtRest, GroupP!AtRest,
         GroupEditors!Last, GroupP!Last, GroupEditors!Front, GroupP!Front,
         GroupEditors!store, GroupP!store, GroupEditors!NoSave, GroupP!NoSave
<1>6. GroupEditors!Recreate <=> GroupP!Recreate
  BY DEF GroupEditors!Recreate, GroupP!Recreate, GroupEditors!AtRest, GroupP!AtRest,
         GroupEditors!OnCreate, GroupP!OnCreate, GroupEditors!store, GroupP!store,
         GroupEditors!NoSave, GroupP!NoSave, GroupEditors!SaveAfterCheck,
         GroupP!SaveAfterCheck, GroupEditors!IfChanged, GroupP!IfChanged
<1>7. GroupEditors!Launch <=> GroupP!Launch
  BY DEF GroupEditors!Launch, GroupP!Launch, GroupEditors!AtRest, GroupP!AtRest,
         GroupEditors!OnCreate, GroupP!OnCreate, GroupEditors!store, GroupP!store,
         GroupEditors!NoSave, GroupP!NoSave, GroupEditors!SaveAfterCheck,
         GroupP!SaveAfterCheck, GroupEditors!IfChanged, GroupP!IfChanged
<1>8. GroupEditors!RestoreTitle <=> GroupP!RestoreTitle
  BY DEF GroupEditors!RestoreTitle, GroupP!RestoreTitle, GroupEditors!NoSave,
         GroupP!NoSave, GroupEditors!SaveAfterCheck, GroupP!SaveAfterCheck,
         GroupEditors!store, GroupP!store, GroupEditors!IfChanged, GroupP!IfChanged
<1>9. GroupEditors!CreateStep <=> GroupP!CreateStep
  BY DEF GroupEditors!CreateStep, GroupP!CreateStep, GroupEditors!CreateGroup,
         GroupP!CreateGroup
<1>10. GroupEditors!WriteStep <=> GroupP!WriteStep
  BY DEF GroupEditors!WriteStep, GroupP!WriteStep, GroupEditors!WriteGroup,
         GroupP!WriteGroup, GroupEditors!NoSave, GroupP!NoSave, GroupEditors!Given,
         GroupP!Given, GroupEditors!SaveTags, GroupP!SaveTags, GroupEditors!ToSet,
         GroupP!ToSet
<1>11. GroupEditors!RowStep <=> GroupP!RowStep
  BY DEF GroupEditors!RowStep, GroupP!RowStep, GroupEditors!RowsOf, GroupP!RowsOf,
         GroupEditors!NoSave, GroupP!NoSave, GroupEditors!store, GroupP!store,
         GroupEditors!CreateRow, GroupP!CreateRow
<1>12. GroupEditors!LinkStep <=> GroupP!LinkStep
  BY DEF GroupEditors!LinkStep, GroupP!LinkStep, GroupEditors!LinkRow, GroupP!LinkRow,
         GroupEditors!NoSave, GroupP!NoSave, GroupEditors!Contains, GroupP!Contains
<1>13. GroupEditors!Kill <=> GroupP!Kill
  BY DEF GroupEditors!Kill, GroupP!Kill, GroupEditors!NoSave, GroupP!NoSave,
         GroupEditors!store, GroupP!store
<1>14. GroupEditors!AtRest <=> GroupP!AtRest
  BY DEF GroupEditors!AtRest, GroupP!AtRest, GroupEditors!NoSave, GroupP!NoSave
<1>15. GroupEditors!TypeOK <=> GroupP!TypeOK
  BY DEF GroupEditors!TypeOK, GroupP!TypeOK, GroupEditors!StoreTypeOK,
         GroupP!StoreTypeOK, GroupEditors!Editor, GroupP!Editor, GroupEditors!Saving,
         GroupP!Saving, GroupEditors!AtRest, GroupP!AtRest, GroupEditors!Group,
         GroupP!Group, GroupEditors!Memo, GroupP!Memo, GroupEditors!GroupMemo,
         GroupP!GroupMemo, GroupEditors!NoSave, GroupP!NoSave
<1> QED BY <1>1, <1>2, <1>3, <1>4, <1>5, <1>6, <1>7, <1>8, <1>9, <1>10, <1>11, <1>12,
           <1>13, <1>14, <1>15

\* What the group editors' theorems assume of the constants holds here too.
LEMMA GroupAssumptions ==
  GroupP!StoreAssumption /\ GroupP!GroupManageAssumption /\ GroupP!EditorAssumption
<1>1. GroupP!StoreAssumption
  BY StoreAssumption
     DEF GroupP!StoreAssumption, Group, Memo, GroupMemo, GroupP!Group, GroupP!Memo, GroupP!GroupMemo
<1>2. GroupP!GroupManageAssumption
  BY AndroidAssumption DEF GroupP!GroupManageAssumption
<1>3. GroupP!EditorAssumption
  BY EditorsAssumption DEF GroupP!EditorAssumption, GroupP!Editor, GroupEditors!Editor
<1> QED BY <1>1, <1>2, <1>3

\* The objects a death cut off are the ones the theorems speak of.
LEMMA StrandedSame ==
  MemoEditors!Stranded = MemoP!Stranded /\ GroupEditors!Stranded = GroupP!Stranded
<1>1. MemoEditors!Stranded = MemoP!Stranded
  BY DEF MemoEditors!Stranded, MemoP!Stranded, MemoEditors!MemosStored, MemoP!MemosStored,
         MemoEditors!Listed, MemoP!Listed, MemoEditors!RowsOf, MemoP!RowsOf,
         MemoEditors!Linked, MemoP!Linked, MemoEditors!ToSet, MemoP!ToSet,
         MemoEditors!BeingSaved, MemoP!BeingSaved
<1>2. GroupEditors!Stranded = GroupP!Stranded
  BY DEF GroupEditors!Stranded, GroupP!Stranded, GroupEditors!Subgroups, GroupP!Subgroups,
         GroupEditors!Listed, GroupP!Listed, GroupEditors!RowsOf, GroupP!RowsOf,
         GroupEditors!Linked, GroupP!Linked, GroupEditors!ToSet, GroupP!ToSet
<1> QED BY <1>1, <1>2

(***************************************************************************)
(* The editors on the one file.                                            *)
(***************************************************************************)
NoGroups == (\A g \in GroupId : groups[g] = Null) /\ (\A r \in RowId : rows[r] = Null)

EditorsInv ==
  /\ MemoP!LinkedInv /\ MemoP!Named(InLists)
  /\ GroupP!IInv /\ GroupP!LinkInv
  /\ NoGroups \/ GroupP!TreeInv

\* The groups the browser can get to are the ones the group editors call shown.
LEMMA ShownInLists == ASSUME NEW g \in GroupId PROVE g \in InLists <=> GroupP!Shown(g)
BY DEF InLists, GroupP!Shown, Listed, GroupP!Listed, RowsOf, GroupP!RowsOf, Linked, GroupP!Linked,
       ToSet, GroupP!ToSet

\* A parent that is in a list stays in one when no list loses a group.
LEMMA NamesGrow ==
  ASSUME NEW S, MemoP!Named(S)', S \subseteq InLists' PROVE MemoP!Named(InLists)'
BY DEF MemoP!Named

\* A group that is listed stays so while rows are linked and groups are kept.
LEMMA ListsGrow ==
  ASSUME \A id : GroupP!Listed(id) => GroupP!Listed(id)',
         \A g \in GroupId : groups[g] # Null => groups'[g] # Null
  PROVE  InLists \subseteq InLists'
<1>1. \A id : Listed(id) => Listed(id)'
  BY DEF Listed, GroupP!Listed, RowsOf, GroupP!RowsOf, Linked, GroupP!Linked, ToSet, GroupP!ToSet
<1> QED BY <1>1 DEF InLists

\* Before initRootGroup there is nothing to show.
LEMMA EmptyLists == NoGroups => InLists = {}
BY DEF NoGroups, InLists

\* A step of the memo editors, other than a death.
LEMMA MemoStep ==
  ASSUME EditorsInv, [MemoP!Next]_(MemoP!vars), ~MemoP!Kill, UNCHANGED <<groupUi, kills>>,
         MemoP!TapAddMemo \/ MemoP!TapMemo => MemoP!Last(memoStarting').parent \in InLists
  PROVE  /\ EditorsInv' /\ InLists \subseteq InLists'
         /\ MemoP!Stranded' \subseteq MemoP!Stranded /\ GroupP!Stranded' \subseteq GroupP!Stranded
<1>1. MemoP!LinkedInv' /\ MemoP!IInv
  BY MemoAssumptions, MemoP!LinkedNext DEF EditorsInv, MemoP!LinkedInv
<1>2. MemoP!Stranded' \subseteq MemoP!Stranded
  BY <1>1, MemoAssumptions, MemoP!StrandedStep DEF EditorsInv
<1>3. PICK S : S = InLists
  OBVIOUS
<1>4. MemoP!Named(S)'
  BY <1>1, <1>3, MemoAssumptions, MemoP!NextNames DEF EditorsInv
<1>5. MemoP!MemoDeed
  BY <1>1, MemoAssumptions, MemoP!NextDeed
<1>6. GroupP!OthersDeed
  <2>1. GroupP!Waiting
    BY DEF GroupP!Waiting, groupUi
  <2>2. GroupP!StoreTypeOK'
    BY <1>1 DEF MemoP!LinkedInv, MemoP!IInv, MemoP!TypeOK, MemoP!StoreTypeOK, GroupP!StoreTypeOK,
                MemoP!Group, GroupP!Group, MemoP!Memo, GroupP!Memo, MemoP!GroupMemo, GroupP!GroupMemo
  <2> QED BY <1>5, <2>1, <2>2 DEF GroupP!OthersDeed, MemoP!MemoDeed, GroupP!Exists,
                                  MemoP!Contains, GroupP!Contains
<1>7. GroupP!IInv'
  BY <1>6, GroupAssumptions, GroupP!OthersInv DEF EditorsInv
<1>8. GroupP!LinkInv' /\ GroupP!Stranded' \subseteq GroupP!Stranded
  BY <1>6, GroupAssumptions, GroupP!OthersLink DEF EditorsInv
<1>9. InLists \subseteq InLists'
  BY <1>6, GroupAssumptions, GroupP!OthersGrow, ListsGrow DEF EditorsInv, GroupP!Exists
<1>10. (NoGroups \/ GroupP!TreeInv)'
  <2>1. CASE NoGroups
    <3>1. MemoP!Named({})
      BY <2>1, EmptyLists DEF EditorsInv
    <3>2. UNCHANGED MemoP!store
      BY <1>1, <3>1, MemoAssumptions, MemoP!NothingYet
    <3> QED BY <2>1, <3>2 DEF MemoP!store, NoGroups
  <2>2. CASE GroupP!TreeInv
    BY <1>6, <2>2, GroupAssumptions, GroupP!OthersTree DEF EditorsInv
  <2> QED BY <2>1, <2>2 DEF EditorsInv
<1>11. MemoP!Named(InLists)'
  BY <1>3, <1>4, <1>9, NamesGrow
<1> QED BY <1>1, <1>2, <1>7, <1>8, <1>9, <1>10, <1>11 DEF EditorsInv

\* A step of the group editors, other than a death.
LEMMA GroupStep ==
  ASSUME EditorsInv, [GroupP!Next]_(GroupP!vars), ~GroupP!Kill, UNCHANGED <<memoUi, kills>>
  PROVE  /\ EditorsInv' /\ InLists \subseteq InLists'
         /\ MemoP!Stranded' \subseteq MemoP!Stranded /\ GroupP!Stranded' \subseteq GroupP!Stranded
<1>1. GroupP!IInv' /\ GroupP!GroupDeed
  BY GroupAssumptions, GroupP!NextInv, GroupP!NextDeed DEF EditorsInv
<1>2. MemoP!OthersDeed
  <2>1. MemoP!Waiting
    BY <1>1 DEF MemoP!Waiting, MemoP!ui, memoUi, GroupP!GroupDeed
  <2>2. MemoP!StoreTypeOK'
    BY <1>1 DEF GroupP!IInv, MemoP!StoreTypeOK, GroupP!StoreTypeOK,
                MemoP!Group, GroupP!Group, MemoP!Memo, GroupP!Memo, MemoP!GroupMemo, GroupP!GroupMemo
  <2> QED BY <1>1, <2>1, <2>2 DEF MemoP!OthersDeed, GroupP!GroupDeed, GroupP!ListGrows,
                                  GroupP!Exists, MemoP!Contains, GroupP!Contains
<1>3. PICK S : S = InLists
  OBVIOUS
<1>4. MemoP!LinkedInv' /\ MemoP!Stranded' \subseteq MemoP!Stranded /\ MemoP!Named(S)'
  BY <1>2, <1>3, MemoAssumptions, MemoP!OthersLinked DEF EditorsInv
<1>5. InLists \subseteq InLists'
  BY GroupAssumptions, GroupP!NextGrows, ListsGrow DEF EditorsInv, GroupP!Grows, GroupP!Exists
<1>6. /\ GroupP!LinkInv' /\ GroupP!Stranded' \subseteq GroupP!Stranded
      /\ (NoGroups \/ GroupP!TreeInv)'
  <2>1. CASE NoGroups
    <3>1. UNCHANGED GroupP!store /\ GroupP!LinkInv' /\ GroupP!Stranded' = {}
      BY <2>1, GroupAssumptions, GroupP!NothingYet DEF EditorsInv, NoGroups
    <3> QED BY <2>1, <3>1 DEF GroupP!store, NoGroups
  <2>2. CASE GroupP!TreeInv
    <3>1. GroupP!TreeInv' /\ GroupP!LinkInv'
      BY <2>2, GroupAssumptions, GroupP!NextTree, GroupP!LinkNext DEF EditorsInv
    <3>2. GroupP!Stranded' \subseteq GroupP!Stranded
      BY <2>2, <1>1, <3>1, GroupAssumptions, GroupP!StrandedStep DEF EditorsInv
    <3> QED BY <3>1, <3>2
  <2> QED BY <2>1, <2>2 DEF EditorsInv
<1>7. MemoP!Named(InLists)'
  BY <1>3, <1>4, <1>5, NamesGrow
<1> QED BY <1>1, <1>4, <1>5, <1>6, <1>7 DEF EditorsInv

\* One of the two kinds of editors at most has a save in progress.
OneSave == MemoP!AtRest \/ GroupP!AtRest

\* The process dies: one of the two kinds may strand what it was saving.
LEMMA KillStep ==
  ASSUME EditorsInv, OneSave, MemoP!Kill, GroupP!Kill
  PROVE  /\ EditorsInv' /\ OneSave' /\ InLists' = InLists
         /\ \/ MemoP!Stranded' \subseteq MemoP!Stranded \cup {memoEditor.memo}
               /\ GroupP!Stranded' \subseteq GroupP!Stranded
            \/ MemoP!Stranded' \subseteq MemoP!Stranded
               /\ GroupP!Stranded' \subseteq GroupP!Stranded \cup {groupEditor.group}
<1>1. MemoP!Next /\ GroupP!Next
  BY DEF MemoP!Next, GroupP!Next
<1>2. MemoP!LinkedInv'
  BY <1>1, MemoAssumptions, MemoP!LinkedNext DEF EditorsInv
<1>3. /\ MemoP!Stranded' \subseteq MemoP!Stranded \cup {memoEditor.memo}
      /\ memoSave = MemoP!NoSave => MemoP!Stranded' \subseteq MemoP!Stranded
  BY <1>1, <1>2, MemoAssumptions, MemoP!StrandedStep, MemoP!IdleKill DEF EditorsInv
<1>4. GroupP!IInv' /\ UNCHANGED GroupP!store
  BY <1>1, GroupAssumptions, GroupP!NextInv DEF EditorsInv, GroupP!Kill
<1>5. InLists' = InLists
  BY <1>4 DEF GroupP!store, InLists, Listed, RowsOf, Linked
<1>6. MemoP!Named(InLists)'
  BY <1>5 DEF MemoP!Kill, MemoP!Named, MemoP!store, EditorsInv
<1>7. /\ GroupP!LinkInv' /\ (NoGroups \/ GroupP!TreeInv)'
      /\ GroupP!Stranded' \subseteq GroupP!Stranded \cup {groupEditor.group}
      /\ groupSave = GroupP!NoSave => GroupP!Stranded' \subseteq GroupP!Stranded
  <2>1. CASE NoGroups
    <3>1. GroupP!LinkInv' /\ GroupP!Stranded' = {}
      BY <1>1, <2>1, GroupAssumptions, GroupP!NothingYet DEF EditorsInv, NoGroups
    <3> QED BY <1>4, <2>1, <3>1 DEF GroupP!store, NoGroups
  <2>2. CASE GroupP!TreeInv
    <3>1. GroupP!TreeInv' /\ GroupP!LinkInv'
      BY <1>1, <2>2, GroupAssumptions, GroupP!NextTree, GroupP!LinkNext DEF EditorsInv
    <3>2. /\ GroupP!Stranded' \subseteq GroupP!Stranded \cup {groupEditor.group}
          /\ groupSave = GroupP!NoSave => GroupP!Stranded' \subseteq GroupP!Stranded
      BY <1>1, <2>2, GroupAssumptions, GroupP!StrandedStep DEF EditorsInv
    <3> QED BY <3>1, <3>2
  <2> QED BY <2>1, <2>2 DEF EditorsInv
<1>8. memoSave = MemoP!NoSave \/ groupSave = GroupP!NoSave
  BY DEF OneSave, MemoP!AtRest, GroupP!AtRest
<1>9. OneSave'
  BY DEF MemoP!Kill, OneSave, MemoP!AtRest
<1> QED BY <1>2, <1>3, <1>4, <1>5, <1>6, <1>7, <1>8, <1>9 DEF EditorsInv

\* The activities go away with the launches that were queued.
LEMMA DropStep ==
  ASSUME EditorsInv, memoStarting' = <<>>, groupStarting' = <<>>,
         UNCHANGED <<store, memoEditor, memoBelow, work, memoSave, shared, memoCreates,
                     groupEditor, groupBelow, restore, groupSave, groupCreates, kills>>
  PROVE  /\ EditorsInv' /\ InLists' = InLists
         /\ MemoP!Stranded' = MemoP!Stranded /\ GroupP!Stranded' = GroupP!Stranded
<1>1. PICK S : S = InLists
  OBVIOUS
<1>2. UNCHANGED <<MemoP!store, GroupP!store>>
  BY DEF store, MemoP!store, GroupP!store
<1>3. MemoP!LinkedInv' /\ MemoP!Stranded' = MemoP!Stranded /\ MemoP!Named(S)'
  BY <1>1, <1>2, MemoAssumptions, MemoP!DroppedLaunches DEF EditorsInv
<1>4. /\ GroupP!IInv' /\ GroupP!LinkInv' /\ (GroupP!TreeInv => GroupP!TreeInv')
      /\ GroupP!Stranded' = GroupP!Stranded
  BY <1>2, GroupAssumptions, GroupP!DroppedLaunches DEF EditorsInv
<1>5. InLists' = InLists
  BY DEF store, InLists, Listed, RowsOf, Linked
<1>6. MemoP!Named(InLists)'
  BY <1>1, <1>3, <1>5, NamesGrow
<1>7. (NoGroups \/ GroupP!TreeInv)'
  BY <1>4 DEF EditorsInv, NoGroups, store
<1> QED BY <1>3, <1>4, <1>5, <1>6, <1>7 DEF EditorsInv

\* The root group is made, in a file that has none.
LEMMA RootStep ==
  ASSUME EditorsInv, Browsing!InitRootGroup, UNCHANGED <<memoUi, groupUi, kills>>
  PROVE  /\ EditorsInv' /\ InLists \subseteq InLists' /\ Root \in InLists'
         /\ MemoP!Stranded' \subseteq MemoP!Stranded /\ GroupP!Stranded' \subseteq GroupP!Stranded
<1>1. CASE \A g \in GroupId : groups[g] = Null
  <2>1. NoGroups
    BY <1>1, AndroidAssumption, GroupAssumptions
       DEF EditorsInv, NoGroups, GroupP!TreeInv, GroupP!StoreTree, GroupP!Exists
  <2>2. /\ groups' = [groups EXCEPT ![Root] = GroupP!RootGroup]
        /\ rows' = [rows EXCEPT ![RootRow] = GroupP!RootItem]
        /\ UNCHANGED <<memos, hashTags>>
    BY <1>1 DEF Browsing!InitRootGroup, GroupP!RootGroup, GroupP!RootItem
  <2>3. GroupP!Waiting
    BY DEF GroupP!Waiting, groupUi
  <2>4. GroupP!IInv' /\ GroupP!TreeInv' /\ GroupP!LinkInv' /\ GroupP!Stranded' = {}
    BY <2>1, <2>2, <2>3, GroupAssumptions, GroupP!FirstGroup DEF EditorsInv, NoGroups
  <2>5. MemoP!OthersDeed
    <3>1. MemoP!Waiting
      BY <2>2 DEF MemoP!Waiting, MemoP!ui, memoUi
    <3>2. MemoP!StoreTypeOK'
      BY <2>4 DEF GroupP!IInv, MemoP!StoreTypeOK, GroupP!StoreTypeOK, MemoP!Group, GroupP!Group,
                  MemoP!Memo, GroupP!Memo, MemoP!GroupMemo, GroupP!GroupMemo
    <3>3. /\ GroupP!RootItem.type = "group" /\ GroupP!RootItem.typeId = Null
          /\ GroupP!RootItem.ref = Root /\ GroupP!RootGroup.groupMemos = <<>>
      BY DEF GroupP!RootItem, GroupP!RootGroup
    <3>4. /\ groups \in [GroupId -> GroupP!Group \cup {Null}]
          /\ rows \in [RowId -> GroupP!GroupMemo \cup {Null}]
      BY DEF EditorsInv, GroupP!IInv, GroupP!StoreTypeOK
    <3>5. \A r \in RowId : rows'[r] = rows[r] \/ rows'[r] = GroupP!RootItem
      BY <2>2, <3>4
    <3>6. \A g \in GroupId : groups'[g] = groups[g] \/ groups'[g] = GroupP!RootGroup
      BY <2>2, <3>4
    <3>7. Null \notin MemoId /\ Root \in GroupId
      BY StoreAssumption, AndroidAssumption
    <3>8. \A r \in RowId : \/ rows'[r] = rows[r]
                           \/ /\ rows[r] = Null /\ rows'[r] # Null /\ rows'[r].type = "group"
                              /\ rows'[r].typeId \notin MemoId /\ rows'[r].ref \in GroupId
      BY <2>1, <3>3, <3>5, <3>7 DEF NoGroups
    <3>9. \A g \in GroupId : groups[g] = Null /\ (groups'[g] = Null \/ groups'[g].groupMemos = <<>>)
      BY <2>1, <3>3, <3>6 DEF NoGroups
    <3> QED BY <3>1, <3>2, <3>8, <3>9 DEF MemoP!OthersDeed
  <2>6. PICK S : S = InLists
    OBVIOUS
  <2>7. MemoP!LinkedInv' /\ MemoP!Stranded' \subseteq MemoP!Stranded /\ MemoP!Named(S)'
    BY <2>5, <2>6, MemoAssumptions, MemoP!OthersLinked DEF EditorsInv
  <2>8. InLists \subseteq InLists'
    BY <2>1, EmptyLists
  <2>9. MemoP!Named(InLists)'
    BY <2>6, <2>7, <2>8, NamesGrow
  <2>10. Root \in InLists'
    BY <2>4, AndroidAssumption DEF GroupP!TreeInv, GroupP!StoreTree, GroupP!Exists, InLists
  <2> QED BY <2>4, <2>7, <2>8, <2>9, <2>10 DEF EditorsInv
<1>2. CASE ~\A g \in GroupId : groups[g] = Null
  <2>1. UNCHANGED <<groups, rows, memos, hashTags>>
    BY <1>2 DEF Browsing!InitRootGroup
  <2>2. GroupP!TreeInv
    BY <1>2 DEF EditorsInv, NoGroups
  <2>3. [GroupP!Next]_(GroupP!vars) /\ ~GroupP!Kill
    BY <2>1, GroupAssumptions DEF GroupP!vars, GroupP!store, groupUi, GroupP!Kill, EditorsInv,
                                  GroupP!IInv, GroupP!CountsOK
  <2>4. /\ EditorsInv' /\ InLists \subseteq InLists'
        /\ MemoP!Stranded' \subseteq MemoP!Stranded /\ GroupP!Stranded' \subseteq GroupP!Stranded
    BY <2>3, GroupStep
  <2>5. Root \in InLists
    BY <2>2, AndroidAssumption DEF GroupP!TreeInv, GroupP!StoreTree, GroupP!Exists, InLists
  <2> QED BY <2>4, <2>5
<1> QED BY <1>1, <1>2

\* A step that leaves file and editors alone.
LEMMA IdleStep ==
  ASSUME EditorsInv, OneSave, UNCHANGED <<store, memoUi, groupUi, kills>>
  PROVE  /\ EditorsInv' /\ OneSave' /\ InLists' = InLists
         /\ MemoP!Stranded' \subseteq MemoP!Stranded /\ GroupP!Stranded' \subseteq GroupP!Stranded
<1>1. [GroupP!Next]_(GroupP!vars) /\ ~GroupP!Kill
  BY DEF GroupP!vars, GroupP!store, store, groupUi, GroupP!Kill, EditorsInv,
         GroupP!IInv, GroupP!CountsOK
<1>2. /\ EditorsInv'
      /\ MemoP!Stranded' \subseteq MemoP!Stranded /\ GroupP!Stranded' \subseteq GroupP!Stranded
  BY <1>1, GroupStep
<1>3. InLists' = InLists
  BY DEF store, InLists, Listed, RowsOf, Linked
<1>4. OneSave'
  BY DEF memoUi, groupUi, OneSave, MemoP!AtRest, GroupP!AtRest
<1> QED BY <1>2, <1>3, <1>4

\* The app starts with an empty file and no editor.
LEMMA InitEditors == Init => EditorsInv /\ OneSave /\ NoGroups
<1> SUFFICES ASSUME Init PROVE EditorsInv /\ OneSave /\ NoGroups
  OBVIOUS
<1>1. NoGroups
  BY DEF Init, Browsing!Init, NoGroups
<1>2. MemoP!Init
  BY DEF Init, Browsing!Init, MemoP!Init, MemoEditors!NoSave, MemoP!NoSave
<1>3. MemoP!LinkedInv
  BY <1>2, MemoAssumptions, MemoP!InitInv, MemoP!LinkedInit DEF MemoP!LinkedInv
<1>4. MemoP!Named(InLists)
  BY <1>2 DEF MemoP!Init, MemoP!Named
<1>5. /\ groupEditor = Null /\ groupBelow = <<>> /\ groupStarting = <<>>
      /\ restore = Null /\ groupSave = GroupP!NoSave /\ groupCreates = 0 /\ kills = 0
  BY DEF Init, GroupEditors!NoSave, GroupP!NoSave
<1>6. GroupP!StoreTypeOK
  BY <1>3 DEF MemoP!LinkedInv, MemoP!IInv, MemoP!TypeOK, MemoP!StoreTypeOK, GroupP!StoreTypeOK,
              MemoP!Group, GroupP!Group, MemoP!Memo, GroupP!Memo, MemoP!GroupMemo, GroupP!GroupMemo
<1>7. GroupP!IInv
  <2>1. GroupP!EditorsTypeOK /\ GroupP!CountsOK /\ GroupP!UiInv
    BY <1>5 DEF GroupP!EditorsTypeOK, GroupP!CountsOK, GroupP!UiInv, GroupP!SaveOK, GroupP!NoSave,
                GroupP!BelowOK, GroupP!OwnGroup, GroupP!StartingOK
  <2>2. GroupP!NoSave \in GroupP!Saving
    BY DEF GroupP!NoSave, GroupP!Saving
  <2>3. GroupP!QueueTypeOK
    BY <1>5, <2>2 DEF GroupP!QueueTypeOK, GroupP!AtRest
  <2> QED BY <1>6, <2>1, <2>3 DEF GroupP!IInv
<1>8. GroupP!LinkInv /\ OneSave
  BY <1>5 DEF GroupP!LinkInv, GroupP!NoSave, OneSave, GroupP!AtRest
<1> QED BY <1>1, <1>3, <1>4, <1>7, <1>8 DEF EditorsInv

(***************************************************************************)
(* The activities and the launches of each kind.                           *)
(***************************************************************************)
Kinds == {"memo", "group"}

Spots(kind, seq) == {i \in DOMAIN seq : seq[i] = kind}

\* A task or queue has finitely many entries of a kind.
LEMMA SpotsFinite ==
  ASSUME NEW kind, NEW q \in Seq(Kinds)
  PROVE  IsFiniteSet(Spots(kind, q)) /\ Cardinality(Spots(kind, q)) \in Nat
<1>1. DOMAIN q = 1 .. Len(q) /\ Len(q) \in Nat
  OBVIOUS
<1>2. IsFiniteSet(1 .. Len(q))
  BY <1>1, FS_Interval
<1>3. Spots(kind, q) \subseteq 1 .. Len(q)
  BY <1>1 DEF Spots
<1> QED BY <1>2, <1>3, FS_Subset, FS_CardinalityType

\* An empty task or queue has no entry of any kind.
LEMMA KindEmpty == ASSUME NEW kind PROVE OfKind(kind, <<>>) = 0
<1>1. {i \in DOMAIN <<>> : <<>>[i] = kind} = {}
  OBVIOUS
<1> QED BY <1>1, FS_EmptySet DEF OfKind

\* startActivity adds one entry of its kind.
LEMMA KindAppend ==
  ASSUME NEW kind, NEW q \in Seq(Kinds), NEW x \in Kinds
  PROVE  OfKind(kind, Append(q, x)) = OfKind(kind, q) + (IF x = kind THEN 1 ELSE 0)
<1> DEFINE n == Len(q) + 1
           a == Append(q, x)
<1>1. /\ Len(q) \in Nat /\ DOMAIN q = 1 .. Len(q) /\ DOMAIN a = 1 .. n
      /\ a[n] = x /\ n \notin DOMAIN q /\ \A k \in DOMAIN q : a[k] = q[k]
  OBVIOUS
<1>2. DOMAIN a = DOMAIN q \cup {n}
  BY <1>1
<1> HIDE DEF n, a
<1>3. IsFiniteSet(Spots(kind, q)) /\ Cardinality(Spots(kind, q)) \in Nat
  BY SpotsFinite
<1>4. OfKind(kind, q) = Cardinality(Spots(kind, q)) /\ OfKind(kind, a) = Cardinality(Spots(kind, a))
  BY DEF OfKind, Spots
<1>5. CASE x = kind
  <2>1. Spots(kind, a) = Spots(kind, q) \cup {n} /\ n \notin Spots(kind, q)
    BY <1>1, <1>2, <1>5 DEF Spots
  <2>2. Cardinality(Spots(kind, a)) = Cardinality(Spots(kind, q)) + 1
    BY <1>3, <2>1, FS_AddElement
  <2> QED BY <1>4, <1>5, <2>2 DEF a
<1>6. CASE x # kind
  <2>1. Spots(kind, a) = Spots(kind, q)
    BY <1>1, <1>2, <1>6 DEF Spots
  <2> QED BY <1>3, <1>4, <1>6, <2>1 DEF a
<1> QED BY <1>5, <1>6

\* The launch that is taken from the queue is one less of its kind.
LEMMA KindTail ==
  ASSUME NEW kind, NEW q \in Seq(Kinds), q # <<>>
  PROVE  OfKind(kind, q) = OfKind(kind, Tail(q)) + (IF Head(q) = kind THEN 1 ELSE 0)
<1> DEFINE t == Tail(q)
           rest == Spots(kind, q) \ {1}
           f == [k \in Spots(kind, t) |-> k + 1]
<1>1. /\ Len(q) \in Nat /\ DOMAIN q = 1 .. Len(q) /\ 1 \in DOMAIN q /\ Head(q) = q[1]
      /\ t \in Seq(Kinds) /\ DOMAIN t = 1 .. (Len(q) - 1)
      /\ \A k \in DOMAIN t : t[k] = q[k + 1]
  OBVIOUS
<1> HIDE DEF t
<1>2. IsFiniteSet(Spots(kind, t)) /\ Cardinality(Spots(kind, t)) \in Nat
  BY <1>1, SpotsFinite
<1>3. f \in Bijection(Spots(kind, t), rest)
  <2>1. \A k \in Spots(kind, t) : k \in Nat /\ k + 1 \in rest
    BY <1>1 DEF Spots
  <2>2. f \in Injection(Spots(kind, t), rest)
    BY <2>1 DEF Injection, IsInjective
  <2>3. \A k \in rest : k - 1 \in Spots(kind, t) /\ f[k - 1] = k
    BY <1>1 DEF Spots
  <2>4. f \in Surjection(Spots(kind, t), rest)
    BY <2>1, <2>3 DEF Surjection
  <2> QED BY <2>2, <2>4 DEF Bijection
<1>4. IsFiniteSet(rest) /\ Cardinality(rest) = Cardinality(Spots(kind, t))
  BY <1>2, <1>3, FS_Bijection DEF ExistsBijection
<1> HIDE DEF rest, f
<1>5. OfKind(kind, q) = Cardinality(Spots(kind, q)) /\ OfKind(kind, t) = Cardinality(Spots(kind, t))
  BY DEF OfKind, Spots
<1>6. CASE Head(q) = kind
  <2>1. Spots(kind, q) = rest \cup {1} /\ 1 \notin rest
    BY <1>1, <1>6 DEF Spots, rest
  <2>2. Cardinality(Spots(kind, q)) = Cardinality(rest) + 1
    BY <1>4, <2>1, FS_AddElement
  <2> QED BY <1>4, <1>5, <1>6, <2>2 DEF t
<1>7. CASE Head(q) # kind
  <2>1. Spots(kind, q) = rest
    BY <1>1, <1>7 DEF Spots, rest
  <2> QED BY <1>2, <1>4, <1>5, <1>7, <2>1 DEF t
<1> QED BY <1>6, <1>7

\* What finish() leaves of the task, with the activity it took, is the task.
LEMMA FrontLast ==
  ASSUME NEW q \in Seq(Kinds), q # <<>>
  PROVE  Front(q) \in Seq(Kinds) /\ Last(q) \in Kinds /\ q = Append(Front(q), Last(q))
<1> DEFINE f == [i \in 1..(Len(q) - 1) |-> q[i]]
           a == Append(f, q[Len(q)])
<1>1. Front(q) = f /\ Last(q) = q[Len(q)]
  BY DEF Front, Last
<1>2. Len(q) \in Nat \ {0} /\ f \in Seq(Kinds) /\ Len(f) = Len(q) - 1 /\ q[Len(q)] \in Kinds
  OBVIOUS
<1>3. a \in Seq(Kinds) /\ Len(a) = Len(q) /\ \A i \in 1 .. Len(q) : a[i] = q[i]
  <2>1. \A i \in 1 .. Len(f) : f[i] = q[i]
    BY <1>2
  <2> HIDE DEF f
  <2> QED BY <1>2, <2>1
<1> HIDE DEF f, a
<1>4. q = a
  BY <1>2, <1>3
<1> QED BY <1>1, <1>2, <1>4 DEF a

\* The activity that finish() takes is one less of its kind.
LEMMA KindFront ==
  ASSUME NEW kind, NEW q \in Seq(Kinds), q # <<>>
  PROVE  OfKind(kind, q) = OfKind(kind, Front(q)) + (IF Last(q) = kind THEN 1 ELSE 0)
<1>1. PICK f \in Seq(Kinds), x \in Kinds : f = Front(q) /\ x = Last(q) /\ q = Append(f, x)
  BY FrontLast
<1>2. OfKind(kind, Append(f, x)) = OfKind(kind, f) + (IF x = kind THEN 1 ELSE 0)
  BY KindAppend
<1> QED BY <1>1, <1>2

\* How the numbers of memo and group entries change with each end of a sequence.
LEMMA CountAppend ==
  ASSUME NEW q \in Seq(Kinds), NEW j \in Kinds, NEW k \in Kinds
  PROVE  /\ Append(q, k) \in Seq(Kinds) /\ OfKind(j, q) \in Nat
         /\ j = k => OfKind(j, Append(q, k)) = OfKind(j, q) + 1
         /\ j # k => OfKind(j, Append(q, k)) = OfKind(j, q)
<1>1. OfKind(j, q) \in Nat
  BY SpotsFinite DEF OfKind, Spots
<1>2. OfKind(j, Append(q, k)) = OfKind(j, q) + (IF k = j THEN 1 ELSE 0)
  BY KindAppend
<1> QED BY <1>1, <1>2

\* The same for a launch taken from the front of the queue.
LEMMA CountTail ==
  ASSUME NEW q \in Seq(Kinds), NEW j \in Kinds, q # <<>>
  PROVE  /\ Tail(q) \in Seq(Kinds) /\ Head(q) \in Kinds /\ OfKind(j, Tail(q)) \in Nat
         /\ j = Head(q) => OfKind(j, q) = OfKind(j, Tail(q)) + 1
         /\ j # Head(q) => OfKind(j, q) = OfKind(j, Tail(q))
<1>1. PICK t : t = Tail(q)
  OBVIOUS
<1>2. t \in Seq(Kinds) /\ Head(q) \in Kinds
  BY <1>1
<1>3. OfKind(j, t) \in Nat
  BY <1>2, SpotsFinite DEF OfKind, Spots
<1>4. OfKind(j, q) = OfKind(j, Tail(q)) + (IF Head(q) = j THEN 1 ELSE 0)
  BY KindTail
<1> QED BY <1>1, <1>2, <1>3, <1>4

\* The same for an activity taken from the top of the task.
LEMMA CountFront ==
  ASSUME NEW q \in Seq(Kinds), NEW j \in Kinds, q # <<>>
  PROVE  /\ Front(q) \in Seq(Kinds) /\ Last(q) \in Kinds /\ OfKind(j, Front(q)) \in Nat
         /\ j = Last(q) => OfKind(j, q) = OfKind(j, Front(q)) + 1
         /\ j # Last(q) => OfKind(j, q) = OfKind(j, Front(q))
<1>1. PICK f : f = Front(q)
  OBVIOUS
<1>2. f \in Seq(Kinds) /\ Last(q) \in Kinds
  BY <1>1, FrontLast
<1>3. OfKind(j, f) \in Nat
  BY <1>2, SpotsFinite DEF OfKind, Spots
<1>4. OfKind(j, q) = OfKind(j, Front(q)) + (IF Last(q) = j THEN 1 ELSE 0)
  BY KindFront
<1> QED BY <1>1, <1>2, <1>3, <1>4

\* The same for the lists of editors and launches the entries stand for.
LEMMA Lengths ==
  ASSUME NEW S, NEW s \in Seq(S), NEW x
  PROVE  /\ Len(s) \in Nat /\ Len(Append(s, x)) = Len(s) + 1
         /\ Append(s, x)[Len(Append(s, x))] = x
         /\ s # <<>> => /\ Len(s) = Len(Tail(s)) + 1 /\ Head(s) \in S
                        /\ Len(s) \in Nat \ {0} /\ s[Len(s)] \in S
                        /\ Len(SubSeq(s, 1, Len(s) - 1)) = Len(s) - 1
<1>1. s \in Seq(S \cup {x})
  OBVIOUS
<1>2. Len(s) \in Nat /\ Len(Append(s, x)) = Len(s) + 1 /\ Append(s, x)[Len(Append(s, x))] = x
  BY <1>1
<1>3. ASSUME s # <<>>
      PROVE  /\ Len(s) = Len(Tail(s)) + 1 /\ Head(s) \in S /\ s[Len(s)] \in S
             /\ Len(SubSeq(s, 1, Len(s) - 1)) = Len(s) - 1
  <2>1. Len(s) \in Nat \ {0}
    BY <1>3
  <2>2. Len(SubSeq(s, 1, Len(s) - 1)) = Len(s) - 1
    <3> DEFINE f == [i \in 1..(Len(s) - 1) |-> s[i]]
    <3>1. SubSeq(s, 1, Len(s) - 1) = f
      OBVIOUS
    <3>2. f \in Seq(S) /\ Len(f) = Len(s) - 1
      BY <2>1
    <3> QED BY <3>1, <3>2
  <2> QED BY <1>3, <2>1, <2>2
<1> QED BY <1>2, <1>3

(***************************************************************************)
(* The invariant of the app.                                               *)
(***************************************************************************)
\* The task and the queue have an entry for each editor and each launch.
MemoTask ==
  /\ OfKind("memo", queue) = Len(memoStarting)
  /\ OfKind("memo", task) = Len(memoBelow) + (IF memoEditor = Null THEN 0 ELSE 1)

GroupTask ==
  /\ OfKind("group", queue) = Len(groupStarting)
  /\ OfKind("group", task) = Len(groupBelow) + (IF groupEditor = Null THEN 0 ELSE 1)

TaskInv == task \in Seq(Kinds) /\ queue \in Seq(Kinds) /\ MemoTask /\ GroupTask

\* The browser before, in and after onCreate.
BrowserTypeOK ==
  /\ running \in BOOLEAN /\ homeAsUp \in BOOLEAN /\ raced \in BOOLEAN
  /\ failure \in {"none", "no group", "no constructor"}

NoPath == fragmentList = <<>> /\ pending = <<>> /\ shown = Null

Starting ==
  \/ onCreate = <<"fragment", "root">> /\ NoPath
  \/ onCreate = <<"root">> /\ fragmentList = <<Root>> /\ pending = <<Root>> /\ shown = Null

PathIn(S) == fragmentList \in Seq(S) /\ pending \in Seq(S) /\ shown \in S \cup {Null}

BrowserInv ==
  /\ BrowserTypeOK
  /\ ~running => onCreate = <<>> /\ NoPath
  /\ running => Starting \/ (onCreate = <<>> /\ PathIn(InLists))

LossInv ==
  /\ IsFiniteSet(MemoP!Stranded) /\ IsFiniteSet(GroupP!Stranded)
  /\ Cardinality(MemoP!Stranded) + Cardinality(GroupP!Stranded) <= kills

AppInv == EditorsInv /\ OneSave /\ TaskInv /\ BrowserInv /\ LossInv

\* What every step but a death keeps: one save at a time, the lists, no new loss.
Safe ==
  /\ EditorsInv' /\ OneSave' /\ InLists \subseteq InLists' /\ UNCHANGED kills
  /\ MemoP!Stranded' \subseteq MemoP!Stranded /\ GroupP!Stranded' \subseteq GroupP!Stranded

\* What the invariants of the editors say of the types, and of who may be saving.
LEMMA EditorTypes ==
  ASSUME EditorsInv
  PROVE  /\ memoBelow \in Seq(MemoP!Editor) /\ memoStarting \in Seq(MemoP!Intent)
         /\ memoEditor \in MemoP!Editor \cup {Null}
         /\ groupBelow \in Seq(GroupP!Editor) /\ groupStarting \in Seq(GroupId)
         /\ groupEditor \in GroupP!Editor \cup {Null}
         /\ kills \in Nat
         /\ ~MemoP!AtRest => memoEditor # Null
         /\ ~GroupP!AtRest => groupEditor # Null
<1>1. MemoP!TypeOK
  BY DEF EditorsInv, MemoP!LinkedInv, MemoP!IInv
<1>2. GroupP!EditorsTypeOK /\ GroupP!QueueTypeOK
  BY DEF EditorsInv, GroupP!IInv
<1> QED BY <1>1, <1>2 DEF MemoP!TypeOK, MemoP!AtRest, GroupP!EditorsTypeOK, GroupP!QueueTypeOK

\* A safe step loses nothing.
LEMMA SafeLoss == ASSUME EditorsInv, LossInv, Safe PROVE LossInv'
<1>1. /\ IsFiniteSet(MemoP!Stranded') /\ IsFiniteSet(GroupP!Stranded')
      /\ Cardinality(MemoP!Stranded') <= Cardinality(MemoP!Stranded)
      /\ Cardinality(GroupP!Stranded') <= Cardinality(GroupP!Stranded)
  BY FS_Subset DEF LossInv, Safe
<1>2. /\ Cardinality(MemoP!Stranded') \in Nat /\ Cardinality(GroupP!Stranded') \in Nat
      /\ Cardinality(MemoP!Stranded) \in Nat /\ Cardinality(GroupP!Stranded) \in Nat
  BY <1>1, FS_CardinalityType DEF LossInv
<1>3. kills \in Nat /\ kills' = kills
  BY EditorTypes DEF Safe
<1> QED BY <1>1, <1>2, <1>3 DEF LossInv

\* The path stays one of groups in lists when the lists gain groups.
LEMMA PathGrows ==
  ASSUME NEW S, NEW T, S \subseteq T, PathIn(S) PROVE PathIn(T)
<1>1. \A s \in Seq(S) : s \in Seq(T)
  OBVIOUS
<1> QED BY <1>1 DEF PathIn

\* A safe step leaves the browser with lists it can show.
LEMMA SafeBrowser == ASSUME BrowserInv, Safe, UNCHANGED browser PROVE BrowserInv'
<1>1. PICK S : S = InLists
  OBVIOUS
<1>2. PICK T : T = InLists'
  OBVIOUS
<1>3. PathIn(S)' <=> PathIn(S)
  BY DEF PathIn, browser
<1>4. PathIn(S)' => PathIn(T)'
  <2> SUFFICES ASSUME PathIn(S)' PROVE PathIn(T)'
    OBVIOUS
  <2>1. PathIn(T)
    BY <1>1, <1>2, <1>3, PathGrows DEF Safe
  <2> QED BY <2>1 DEF PathIn, browser
<1>5. PathIn(InLists) => PathIn(InLists)'
  BY <1>1, <1>2, <1>3, <1>4 DEF PathIn
<1>6. BrowserTypeOK' /\ (NoPath => NoPath') /\ (Starting => Starting') /\ running' = running /\ onCreate' = onCreate
  BY DEF browser, BrowserInv, BrowserTypeOK, NoPath, Starting
<1> QED BY <1>5, <1>6 DEF BrowserInv

(***************************************************************************)
(* What the actions of the editors do to the task.                         *)
(***************************************************************************)
LEMMA MemoTaps ==
  ASSUME EditorsInv, TaskInv, MemoP!TapAddMemo \/ MemoP!TapMemo,
         queue' = Append(queue, "memo"), UNCHANGED <<groupUi, task>>
  PROVE  TaskInv' /\ MemoP!AtRest'
<1>1. \E i : MemoP!Start(i)
  BY DEF MemoP!TapAddMemo, MemoP!TapMemo
<1>2. PICK i : MemoP!Start(i)
  BY <1>1
<1>3. /\ memoStarting' = Append(memoStarting, i) /\ UNCHANGED <<memoEditor, memoBelow>>
      /\ MemoP!AtRest'
  BY <1>2 DEF MemoP!Start, MemoP!AtRest
<1>4. Len(memoStarting') = Len(memoStarting) + 1
  BY <1>3, EditorTypes, Lengths
<1>5. /\ Append(queue, "memo") \in Seq(Kinds)
      /\ OfKind("memo", Append(queue, "memo")) = OfKind("memo", queue) + 1
      /\ OfKind("group", Append(queue, "memo")) = OfKind("group", queue)
  BY CountAppend DEF TaskInv, Kinds
<1> QED BY <1>3, <1>4, <1>5 DEF TaskInv, MemoTask, GroupTask, groupUi

\* The click on "add group" queues a launch, as the one on "add memo" does.
LEMMA GroupTaps ==
  ASSUME EditorsInv, TaskInv, GroupP!TapAddGroup,
         queue' = Append(queue, "group"), UNCHANGED <<memoUi, task>>
  PROVE  TaskInv' /\ GroupP!AtRest'
<1>1. PICK g \in GroupId : groupStarting' = Append(groupStarting, g)
  BY DEF GroupP!TapAddGroup
<1>2. UNCHANGED <<groupEditor, groupBelow>> /\ GroupP!AtRest'
  BY DEF GroupP!TapAddGroup, GroupP!AtRest
<1>3. Len(groupStarting') = Len(groupStarting) + 1
  BY <1>1, EditorTypes, Lengths
<1>4. /\ Append(queue, "group") \in Seq(Kinds)
      /\ OfKind("group", Append(queue, "group")) = OfKind("group", queue) + 1
      /\ OfKind("memo", Append(queue, "group")) = OfKind("memo", queue)
  BY CountAppend DEF TaskInv, Kinds
<1> QED BY <1>2, <1>3, <1>4 DEF TaskInv, MemoTask, GroupTask, memoUi

\* A memo editor that is created pushes the one that was in front below it.
LEMMA MemoLaunched ==
  ASSUME EditorsInv, EditorsInv', TaskInv, MemoP!Launch, queue # <<>>, Head(queue) = "memo",
         queue' = Tail(queue), task' = Append(task, "memo"), UNCHANGED groupUi
  PROVE  TaskInv'
<1>1. /\ Len(memoStarting) = Len(memoStarting') + 1 /\ Len(memoStarting') \in Nat
      /\ Len(memoBelow) \in Nat
      /\ Len(memoBelow') = Len(memoBelow) + (IF memoEditor = Null THEN 0 ELSE 1)
  BY EditorTypes, Lengths DEF MemoP!Launch
<1>2. memoEditor' # Null
  <2>1. work' # <<>>
    BY DEF MemoP!Launch, MemoP!OnCreate
  <2> QED BY <2>1 DEF EditorsInv, MemoP!LinkedInv, MemoP!IInv, MemoP!TypeOK
<1>3. /\ Tail(queue) \in Seq(Kinds)
      /\ OfKind("memo", queue) = OfKind("memo", Tail(queue)) + 1 /\ OfKind("memo", Tail(queue)) \in Nat
      /\ OfKind("group", queue) = OfKind("group", Tail(queue))
  BY CountTail DEF TaskInv, Kinds
<1>4. /\ Append(task, "memo") \in Seq(Kinds)
      /\ OfKind("memo", Append(task, "memo")) = OfKind("memo", task) + 1
      /\ OfKind("group", Append(task, "memo")) = OfKind("group", task)
  BY CountAppend DEF TaskInv, Kinds
<1>5. MemoTask'
  BY <1>1, <1>2, <1>3, <1>4 DEF TaskInv, MemoTask
<1> QED BY <1>3, <1>4, <1>5 DEF TaskInv, GroupTask, groupUi

\* So does a group editor.
LEMMA GroupLaunched ==
  ASSUME EditorsInv, TaskInv, GroupP!Launch, queue # <<>>, Head(queue) = "group",
         queue' = Tail(queue), task' = Append(task, "group"), UNCHANGED memoUi
  PROVE  TaskInv'
<1>1. /\ Len(groupStarting) = Len(groupStarting') + 1 /\ Len(groupStarting') \in Nat
      /\ Len(groupBelow) \in Nat
      /\ Len(groupBelow') = Len(groupBelow) + (IF groupEditor = Null THEN 0 ELSE 1)
  BY EditorTypes, Lengths DEF GroupP!Launch
<1>2. groupEditor' # Null
  BY GroupAssumptions, GroupP!EventEditor DEF EditorsInv
<1>3. /\ Tail(queue) \in Seq(Kinds)
      /\ OfKind("group", queue) = OfKind("group", Tail(queue)) + 1 /\ OfKind("group", Tail(queue)) \in Nat
      /\ OfKind("memo", queue) = OfKind("memo", Tail(queue))
  BY CountTail DEF TaskInv, Kinds
<1>4. /\ Append(task, "group") \in Seq(Kinds)
      /\ OfKind("group", Append(task, "group")) = OfKind("group", task) + 1
      /\ OfKind("memo", Append(task, "group")) = OfKind("memo", task)
  BY CountAppend DEF TaskInv, Kinds
<1>5. GroupTask'
  BY <1>1, <1>2, <1>3, <1>4 DEF TaskInv, GroupTask
<1> QED BY <1>3, <1>4, <1>5 DEF TaskInv, MemoTask, memoUi

\* finish() of the memo editor in front uncovers the next memo editor of the task.
LEMMA MemoFinished ==
  ASSUME EditorsInv, TaskInv, MemoP!Finish, InFront("memo"),
         task' = Front(task), UNCHANGED <<groupUi, queue>>
  PROVE  TaskInv' /\ MemoP!AtRest'
<1>1. task # <<>> /\ Last(task) = "memo"
  BY DEF InFront
<1>2. /\ Front(task) \in Seq(Kinds)
      /\ OfKind("memo", task) = OfKind("memo", Front(task)) + 1 /\ OfKind("memo", Front(task)) \in Nat
      /\ OfKind("group", task) = OfKind("group", Front(task))
  BY <1>1, CountFront DEF TaskInv, Kinds
<1>3. /\ UNCHANGED memoStarting /\ memoEditor # Null /\ MemoP!AtRest'
      /\ memoEditor' = IF memoBelow = <<>> THEN Null ELSE memoBelow[Len(memoBelow)]
      /\ memoBelow' = IF memoBelow = <<>> THEN memoBelow ELSE SubSeq(memoBelow, 1, Len(memoBelow) - 1)
  BY DEF MemoP!Finish, MemoP!Last, MemoP!Front, MemoP!AtRest
<1>4. Len(memoBelow) = Len(memoBelow') + (IF memoEditor' = Null THEN 0 ELSE 1) /\ Len(memoBelow') \in Nat
  <2>1. CASE memoBelow = <<>>
    BY <1>3, <2>1
  <2>2. CASE memoBelow # <<>>
    <3>1. memoBelow \in Seq(MemoP!Editor) /\ Null \notin MemoP!Editor
      BY EditorTypes, MemoAssumptions DEF MemoP!EditorAssumption
    <3>2. /\ Len(memoBelow) \in Nat \ {0} /\ memoBelow[Len(memoBelow)] \in MemoP!Editor
          /\ Len(SubSeq(memoBelow, 1, Len(memoBelow) - 1)) = Len(memoBelow) - 1
      BY <2>2, <3>1, Lengths
    <3>3. memoBelow' = SubSeq(memoBelow, 1, Len(memoBelow) - 1) /\ memoEditor' = memoBelow[Len(memoBelow)]
      BY <1>3, <2>2
    <3>4. Len(memoBelow') = Len(memoBelow) - 1 /\ memoEditor' # Null
      BY <3>1, <3>2, <3>3
    <3> QED BY <3>2, <3>4
  <2> QED BY <2>1, <2>2
<1>5. MemoTask'
  <2>1. OfKind("memo", task') + 1 = OfKind("memo", task) /\ OfKind("memo", task') \in Nat
    BY <1>2
  <2>2. OfKind("memo", task') = Len(memoBelow') + (IF memoEditor' = Null THEN 0 ELSE 1)
    <3>1. OfKind("memo", task) = Len(memoBelow) + 1 /\ Len(memoBelow) \in Nat
      <4>1. memoEditor # Null
        BY <1>3
      <4>2. Len(memoBelow) \in Nat
        BY EditorTypes, Lengths
      <4> QED BY <4>1, <4>2 DEF TaskInv, MemoTask
    <3> QED BY <1>4, <2>1, <3>1
  <2> QED BY <1>3, <2>2 DEF TaskInv, MemoTask
<1> QED BY <1>2, <1>3, <1>5 DEF TaskInv, GroupTask, groupUi

\* The same for the group editors.
LEMMA GroupFinished ==
  ASSUME EditorsInv, TaskInv, GroupP!Finish, InFront("group"),
         task' = Front(task), UNCHANGED <<memoUi, queue>>
  PROVE  TaskInv' /\ GroupP!AtRest'
<1>1. task # <<>> /\ Last(task) = "group"
  BY DEF InFront
<1>2. /\ Front(task) \in Seq(Kinds)
      /\ OfKind("group", task) = OfKind("group", Front(task)) + 1 /\ OfKind("group", Front(task)) \in Nat
      /\ OfKind("memo", task) = OfKind("memo", Front(task))
  BY <1>1, CountFront DEF TaskInv, Kinds
<1>3. /\ UNCHANGED groupStarting /\ groupEditor # Null /\ GroupP!AtRest'
      /\ groupEditor' = IF groupBelow = <<>> THEN Null ELSE groupBelow[Len(groupBelow)]
      /\ groupBelow' = IF groupBelow = <<>> THEN groupBelow ELSE SubSeq(groupBelow, 1, Len(groupBelow) - 1)
  BY DEF GroupP!Finish, GroupP!Last, GroupP!Front, GroupP!AtRest
<1>4. Len(groupBelow) = Len(groupBelow') + (IF groupEditor' = Null THEN 0 ELSE 1) /\ Len(groupBelow') \in Nat
  <2>1. CASE groupBelow = <<>>
    BY <1>3, <2>1
  <2>2. CASE groupBelow # <<>>
    <3>1. groupBelow \in Seq(GroupP!Editor) /\ Null \notin GroupP!Editor
      BY EditorTypes, GroupAssumptions DEF GroupP!EditorAssumption
    <3>2. /\ Len(groupBelow) \in Nat \ {0} /\ groupBelow[Len(groupBelow)] \in GroupP!Editor
          /\ Len(SubSeq(groupBelow, 1, Len(groupBelow) - 1)) = Len(groupBelow) - 1
      BY <2>2, <3>1, Lengths
    <3>3. groupBelow' = SubSeq(groupBelow, 1, Len(groupBelow) - 1) /\ groupEditor' = groupBelow[Len(groupBelow)]
      BY <1>3, <2>2
    <3>4. Len(groupBelow') = Len(groupBelow) - 1 /\ groupEditor' # Null
      BY <3>1, <3>2, <3>3
    <3> QED BY <3>2, <3>4
  <2> QED BY <2>1, <2>2
<1>5. GroupTask'
  <2>1. OfKind("group", task') + 1 = OfKind("group", task) /\ OfKind("group", task') \in Nat
    BY <1>2
  <2>2. OfKind("group", task') = Len(groupBelow') + (IF groupEditor' = Null THEN 0 ELSE 1)
    <3>1. OfKind("group", task) = Len(groupBelow) + 1 /\ Len(groupBelow) \in Nat
      <4>1. groupEditor # Null
        BY <1>3
      <4>2. Len(groupBelow) \in Nat
        BY EditorTypes, Lengths
      <4> QED BY <4>1, <4>2 DEF TaskInv, GroupTask
    <3> QED BY <1>4, <2>1, <3>1
  <2> QED BY <1>3, <2>2 DEF TaskInv, GroupTask
<1> QED BY <1>2, <1>3, <1>5 DEF TaskInv, MemoTask, memoUi

\* The editor in front stays in front: what the user does in it, and callbacks.
LEMMA MemoStays ==
  ASSUME EditorsInv, TaskInv, UNCHANGED <<memoStarting, memoBelow, groupUi, task, queue>>,
         memoEditor # Null, memoEditor' # Null
  PROVE  TaskInv'
BY DEF TaskInv, MemoTask, GroupTask, groupUi

\* The same for the group editors.
LEMMA GroupStays ==
  ASSUME EditorsInv, TaskInv, UNCHANGED <<groupStarting, groupBelow, memoUi, task, queue>>,
         groupEditor # Null, groupEditor' # Null
  PROVE  TaskInv'
BY DEF TaskInv, MemoTask, GroupTask, memoUi

(***************************************************************************)
(* The browser.                                                            *)
(***************************************************************************)
\* What a click on a group row of a list that is shown leads to is shown too.
LEMMA RowLeadsOn ==
  ASSUME EditorsInv, NEW g \in InLists, NEW i \in DOMAIN groups[g].groupMemos,
         rows[groups[g].groupMemos[i]].type = "group"
  PROVE  rows[groups[g].groupMemos[i]].ref \in InLists
<1> DEFINE r == groups[g].groupMemos[i]
<1>1. g \in GroupId /\ groups[g] # Null
  BY DEF InLists
<1>2. GroupP!TreeInv
  BY <1>1 DEF EditorsInv, NoGroups
<1>3. GroupP!ListOK(g) /\ \A q \in RowId : GroupP!RowOK(q)
  BY <1>1, <1>2 DEF GroupP!TreeInv, GroupP!StoreTree
<1>4. groups[g].groupMemos \in Seq(RowId) /\ r \in RowId
  BY <1>1 DEF EditorsInv, GroupP!IInv, GroupP!StoreTypeOK, GroupP!Group
<1>5. rows[r] # Null /\ rows[r].typeId # Null /\ rows[r].parent = g
  BY <1>1, <1>3 DEF GroupP!ListOK, GroupP!Exists
<1> HIDE DEF r
<1>6. rows[r].type = "group"
  BY DEF r
<1>7. rows[r].typeId \in GroupId \ {Root} /\ rows[r].ref = rows[r].typeId /\ groups[rows[r].typeId] # Null
  BY <1>3, <1>4, <1>5, <1>6 DEF GroupP!RowOK, GroupP!Exists
<1>8. r \in ToSet(groups[g].groupMemos)
  BY DEF r, ToSet
<1>9. Listed(rows[r].ref)
  BY <1>1, <1>4, <1>5, <1>7, <1>8 DEF Listed, RowsOf, Linked
<1> QED BY <1>7, <1>9 DEF InLists, r

\* A step that leaves file and editors alone is safe.
LEMMA SafeIdle ==
  ASSUME AppInv, UNCHANGED <<store, memoUi, groupUi, kills>>
  PROVE  Safe /\ InLists' = InLists
BY IdleStep DEF AppInv, Safe

\* So is the task.
LEMMA SafeTask == ASSUME AppInv, UNCHANGED <<memoUi, groupUi, task, queue>> PROVE TaskInv'
BY DEF AppInv, TaskInv, MemoTask, GroupTask, memoUi, groupUi

\* An activity that is gone has no path and nothing of onCreate to run.
LEMMA GoneInv ==
  ASSUME BrowserInv, NEW why \in {"none", "no group", "no constructor"}, Browsing!Gone(why),
         raced' \in BOOLEAN
  PROVE  BrowserInv'
BY DEF Browsing!Gone, BrowserInv, BrowserTypeOK, NoPath

\* The launcher starts the browser: onCreate is to run.
LEMMA StartAppInv == ASSUME AppInv, StartApp PROVE AppInv'
<1>1. UNCHANGED <<store, memoUi, groupUi, kills, task, queue>> /\ Browsing!Start
  BY DEF StartApp, Browsing!Start, Browsing!store, store
<1>2. Safe /\ TaskInv'
  BY <1>1, SafeIdle, SafeTask
<1>3. BrowserInv'
  BY <1>1 DEF AppInv, Browsing!Start, Browsing!nav, BrowserInv, BrowserTypeOK, Starting, NoPath
<1> QED BY <1>2, <1>3, SafeLoss DEF AppInv, Safe

\* initFragmentSettings: the root list is asked for, before there is a root.
LEMMA InitFragmentInv ==
  ASSUME AppInv, Browsing!InitFragmentSettings, UNCHANGED <<memoUi, groupUi, kills, task, queue>>
  PROVE  AppInv'
<1>1. UNCHANGED store
  BY DEF Browsing!InitFragmentSettings, Browsing!store, store
<1>2. Safe /\ TaskInv'
  BY <1>1, SafeIdle, SafeTask
<1>3. running /\ Starting /\ onCreate = <<"fragment", "root">>
  BY DEF AppInv, BrowserInv, Browsing!InitFragmentSettings, Starting
<1>4. NoPath
  BY <1>3 DEF Starting
<1>5. /\ onCreate' = <<"root">> /\ fragmentList' = <<Root>> /\ pending' = <<Root>>
      /\ shown' = Null /\ UNCHANGED <<running, homeAsUp, failure, raced>>
  BY <1>3, <1>4 DEF Browsing!InitFragmentSettings, Browsing!ShowLast, Browsing!Last, NoPath
<1>6. BrowserInv'
  BY <1>3, <1>5 DEF AppInv, BrowserInv, BrowserTypeOK, Starting
<1> QED BY <1>2, <1>6, SafeLoss DEF AppInv, Safe

\* initRootGroup: the root, and only then the list that shows it.
LEMMA InitRootInv ==
  ASSUME AppInv, Browsing!InitRootGroup, UNCHANGED <<memoUi, groupUi, kills, task, queue>>
  PROVE  AppInv'
<1>1. Safe /\ Root \in InLists' /\ TaskInv'
  <2>1. OneSave'
    BY DEF AppInv, OneSave, MemoP!AtRest, GroupP!AtRest, memoUi, groupUi
  <2> QED BY <2>1, RootStep, SafeTask DEF AppInv, Safe
<1>2. running /\ Starting /\ onCreate = <<"root">>
  BY DEF AppInv, BrowserInv, Browsing!InitRootGroup, Starting
<1>3. fragmentList = <<Root>> /\ pending = <<Root>> /\ shown = Null
  BY <1>2 DEF Starting
<1>4. /\ onCreate' = <<>> /\ fragmentList' = <<Root>> /\ pending' = <<Root>>
      /\ shown' = Null /\ UNCHANGED <<running, homeAsUp, failure, raced>>
  BY <1>2, <1>3 DEF Browsing!InitRootGroup, Browsing!nav
<1>5. BrowserInv'
  <2>1. PICK T : T = InLists'
    OBVIOUS
  <2>2. <<Root>> \in Seq(T)
    BY <1>1, <2>1
  <2>3. PathIn(InLists)'
    BY <1>4, <2>1, <2>2 DEF PathIn
  <2> QED BY <1>2, <1>4, <2>3 DEF AppInv, BrowserInv, BrowserTypeOK
<1> QED BY <1>1, <1>5, SafeLoss DEF AppInv, Safe

\* The activity is there, onCreate is over.
LEMMA Browsed ==
  ASSUME AppInv, Browsing!Idle PROVE PathIn(InLists) /\ running /\ onCreate = <<>>
BY DEF AppInv, BrowserInv, Browsing!Idle, Starting

\* The fragment manager shows the list that was asked for last.
LEMMA ExecutePendingInv == ASSUME AppInv, ExecutePending PROVE AppInv'
<1>1. /\ UNCHANGED <<store, memoUi, groupUi, kills, task, queue>> /\ Browsing!ExecutePending
      /\ UNCHANGED raced
  BY DEF ExecutePending, Browsing!ExecutePending, Browsing!store, store
<1>2. Safe /\ InLists' = InLists /\ TaskInv'
  BY <1>1, SafeIdle, SafeTask
<1>3. PathIn(InLists) /\ running /\ onCreate = <<>> /\ pending # <<>>
  BY <1>1, Browsed DEF Browsing!ExecutePending
<1>4. BrowserInv'
  <2>1. CASE Browsing!Gone("no group")
    BY <1>1, <2>1, GoneInv DEF AppInv, BrowserInv, BrowserTypeOK
  <2>2. CASE ~Browsing!Gone("no group")
    <3>1. /\ shown' = Browsing!Last(pending) /\ pending' = <<>> /\ homeAsUp' \in BOOLEAN
          /\ UNCHANGED <<running, onCreate, fragmentList, failure>>
      BY <1>1, <2>2 DEF Browsing!ExecutePending
    <3>2. Browsing!Last(pending) \in InLists
      BY <1>3 DEF PathIn, Browsing!Last
    <3>3. PathIn(InLists)'
      BY <1>2, <1>3, <3>1, <3>2 DEF PathIn
    <3> QED BY <1>1, <1>3, <3>1, <3>3 DEF AppInv, BrowserInv, BrowserTypeOK
  <2> QED BY <2>1, <2>2
<1> QED BY <1>2, <1>4, SafeLoss DEF AppInv, Safe

\* A click: the browser asks for another list of those that are shown.
LEMMA ShowLastInv ==
  ASSUME AppInv, InLists' = InLists, Browsing!Idle, raced' \in BOOLEAN,
         NEW list \in Seq(InLists), list # <<>>, Browsing!ShowLast(list),
         UNCHANGED <<running, onCreate, shown, homeAsUp, failure>>
  PROVE  BrowserInv'
<1>1. PathIn(InLists) /\ running /\ onCreate = <<>>
  BY Browsed
<1>2. Browsing!Last(list) \in InLists
  BY DEF Browsing!Last
<1>3. fragmentList' \in Seq(InLists) /\ pending' \in Seq(InLists)
  BY <1>1, <1>2 DEF PathIn, Browsing!ShowLast
<1>4. PathIn(InLists)'
  BY <1>1, <1>3 DEF PathIn
<1> QED BY <1>1, <1>4 DEF AppInv, BrowserInv, BrowserTypeOK

\* A click on a row, on a group of the path or on back asks for a list that is shown.
LEMMA NavigateInv == ASSUME AppInv, Navigate PROVE AppInv'
<1>1. /\ UNCHANGED <<store, memoUi, groupUi, kills, task, queue>>
      /\ Browsing!ClickGroup \/ Browsing!BackPressed
      /\ Browsing!Idle /\ raced' = (raced \/ pending # <<>>)
  BY DEF Navigate, Browsing!ClickGroup, Browsing!BackPressed, Browsing!Click, Browsing!store, store
<1>2. Safe /\ InLists' = InLists /\ TaskInv'
  BY <1>1, SafeIdle, SafeTask
<1>3. PathIn(InLists) /\ raced' \in BOOLEAN
  BY <1>1, Browsed
<1>4. CASE Browsing!ClickGroup
  <2>1. PICK r \in Browsing!ToSet(groups[shown].groupMemos) :
          /\ rows[r].type = "group"
          /\ Browsing!ShowLast(Append(fragmentList, rows[r].ref))
    BY <1>4 DEF Browsing!ClickGroup
  <2>2. PICK i \in DOMAIN groups[shown].groupMemos : r = groups[shown].groupMemos[i]
    BY <2>1 DEF Browsing!ToSet
  <2>3. shown \in InLists
    BY <1>3, <1>4 DEF PathIn, Browsing!ClickGroup
  <2>4. rows[r].ref \in InLists
    BY <2>1, <2>2, <2>3, RowLeadsOn DEF AppInv
  <2>5. Append(fragmentList, rows[r].ref) \in Seq(InLists) /\ Append(fragmentList, rows[r].ref) # <<>>
    BY <1>3, <2>4 DEF PathIn
  <2>6. BrowserInv'
    BY <1>1, <1>2, <1>3, <1>4, <2>1, <2>5, ShowLastInv DEF Browsing!ClickGroup
  <2> QED BY <1>2, <2>6, SafeLoss DEF AppInv, Safe
<1>5. CASE Browsing!BackPressed
  <2>1. CASE Len(fragmentList) > 1
    <3> DEFINE f == [i \in 1..(Len(fragmentList) - 1) |-> fragmentList[i]]
    <3>1. fragmentList \in Seq(InLists)
      BY <1>3 DEF PathIn
    <3>2. Browsing!Front(fragmentList) = f
      BY DEF Browsing!Front
    <3>3. f \in Seq(InLists) /\ f # <<>>
      <4>1. f \in Seq(InLists) /\ Len(f) = Len(fragmentList) - 1
        BY <2>1, <3>1
      <4> HIDE DEF f
      <4> QED BY <2>1, <3>1, <4>1
    <3>4. Browsing!ShowLast(f) /\ UNCHANGED <<running, onCreate, shown, homeAsUp, failure>>
      BY <1>5, <2>1, <3>2 DEF Browsing!BackPressed
    <3> HIDE DEF f
    <3> QED BY <1>1, <1>2, <1>3, <3>3, <3>4, ShowLastInv, SafeLoss DEF AppInv, Safe
  <2>2. CASE ~(Len(fragmentList) > 1)
    <3>1. Browsing!Gone("none")
      BY <1>5, <2>2 DEF Browsing!BackPressed
    <3> QED BY <1>2, <1>3, <3>1, GoneInv, SafeLoss DEF AppInv, Safe
  <2> QED BY <2>1, <2>2
<1> QED BY <1>1, <1>4, <1>5

(***************************************************************************)
(* The editors.                                                            *)
(***************************************************************************)
\* The looper runs one callback at a time: what a memo editor does is safe as long
\* as no group editor is in one, and the other way round.
LEMMA MemoSafe ==
  ASSUME AppInv, MemoP!Next, UNCHANGED <<groupUi, kills>>, GroupP!AtRest,
         MemoP!TapAddMemo \/ MemoP!TapMemo => MemoP!Last(memoStarting').parent \in InLists
  PROVE  Safe
<1>1. ~MemoP!Kill
  BY EditorTypes DEF AppInv, MemoP!Kill
<1>2. OneSave'
  BY DEF OneSave, GroupP!AtRest, groupUi
<1> QED BY <1>1, <1>2, MemoStep DEF AppInv, Safe

\* The other way round.
LEMMA GroupSafe ==
  ASSUME AppInv, GroupP!Next, UNCHANGED <<memoUi, kills>>, MemoP!AtRest
  PROVE  Safe
<1>1. ~GroupP!Kill
  BY EditorTypes DEF AppInv, GroupP!Kill
<1>2. OneSave'
  BY DEF OneSave, MemoP!AtRest, memoUi
<1> QED BY <1>1, <1>2, GroupStep DEF AppInv, Safe

\* A safe step of an editor that keeps the task in order keeps the invariant.
LEMMA SafeStep == ASSUME AppInv, Safe, TaskInv', UNCHANGED browser PROVE AppInv'
BY SafeLoss, SafeBrowser DEF AppInv, Safe

\* The looper takes the next message only when no save and no onCreate is in progress.
LEMMA AtLooper == Looper => onCreate = <<>> /\ MemoP!AtRest /\ GroupP!AtRest
BY MemoSame, GroupSame DEF Looper

\* The click on "add memo" or on a memo row.
LEMMA TapMemoInv == ASSUME AppInv, TapMemo PROVE AppInv'
<1>1. /\ MemoP!AtRest /\ GroupP!AtRest /\ onCreate = <<>>
      /\ MemoP!TapAddMemo \/ MemoP!TapMemo
      /\ queue' = Append(queue, "memo") /\ UNCHANGED <<browser, groupUi, task>>
  BY AtLooper, MemoSame DEF TapMemo
<1>2. UNCHANGED kills
  BY <1>1 DEF MemoP!TapAddMemo, MemoP!TapMemo, MemoP!Start
<1>3. MemoP!Last(memoStarting').parent \in InLists
  <2>1. MemoP!Last(memoStarting').parent = shown
    BY DEF TapMemo, Last, MemoP!Last
  <2>2. shown # Null /\ running /\ ~Starting
    BY <1>1 DEF TapMemo, AppInv, BrowserInv, NoPath, Starting
  <2> QED BY <2>1, <2>2 DEF AppInv, BrowserInv, PathIn
<1>4. MemoP!Next
  BY <1>1 DEF MemoP!Next, MemoP!User
<1>5. Safe
  BY <1>1, <1>2, <1>3, <1>4, MemoSafe
<1>6. TaskInv'
  BY <1>1, MemoTaps DEF AppInv
<1> QED BY <1>1, <1>5, <1>6, SafeStep

\* The click on "add group".
LEMMA TapAddGroupInv == ASSUME AppInv, TapAddGroup PROVE AppInv'
<1>1. /\ MemoP!AtRest /\ GroupP!AtRest /\ GroupP!TapAddGroup
      /\ queue' = Append(queue, "group") /\ UNCHANGED <<browser, memoUi, task>>
  BY AtLooper, GroupSame DEF TapAddGroup
<1>2. UNCHANGED kills /\ GroupP!Next
  BY <1>1 DEF GroupP!TapAddGroup, GroupP!Next
<1>3. Safe
  BY <1>1, <1>2, GroupSafe
<1>4. TaskInv'
  BY <1>1, GroupTaps DEF AppInv
<1> QED BY <1>1, <1>3, <1>4, SafeStep

\* A launch is not a click: one starts an editor, the other asks for one.
LEMMA NotTapping == ASSUME memoEditor # Null \/ memoEditor' # Null PROVE ~MemoP!TapAddMemo /\ ~MemoP!TapMemo
BY DEF MemoP!TapAddMemo, MemoP!TapMemo, MemoP!Start

\* The oldest launch creates its editor on top of the task.
LEMMA LaunchInv == ASSUME AppInv, Launch PROVE AppInv'
<1>1. /\ MemoP!AtRest /\ GroupP!AtRest /\ queue # <<>>
      /\ queue' = Tail(queue) /\ task' = Append(task, Head(queue)) /\ UNCHANGED browser
      /\ \/ Head(queue) = "memo" /\ MemoP!Launch /\ UNCHANGED groupUi
         \/ Head(queue) = "group" /\ GroupP!Launch /\ UNCHANGED memoUi
  BY AtLooper, MemoSame, GroupSame DEF Launch
<1>2. CASE Head(queue) = "memo" /\ MemoP!Launch /\ UNCHANGED groupUi
  <2>1. UNCHANGED kills /\ MemoP!Next
    BY <1>2 DEF MemoP!Launch, MemoP!Next, MemoP!UiThread
  <2>2. ~MemoP!TapAddMemo /\ ~MemoP!TapMemo
    <3>1. MemoP!Launch => work' # <<>>
      BY DEF MemoP!Launch, MemoP!OnCreate
    <3>2. MemoP!TapAddMemo \/ MemoP!TapMemo => work' = <<>>
      BY DEF MemoP!TapAddMemo, MemoP!TapMemo, MemoP!Start, MemoP!AtRest
    <3> QED BY <1>2, <3>1, <3>2
  <2>3. Safe
    BY <1>1, <1>2, <2>1, <2>2, MemoSafe
  <2>4. TaskInv'
    BY <1>1, <1>2, <2>3, MemoLaunched DEF AppInv, Safe
  <2> QED BY <1>1, <2>3, <2>4, SafeStep
<1>3. CASE Head(queue) = "group" /\ GroupP!Launch /\ UNCHANGED memoUi
  <2>1. UNCHANGED kills /\ GroupP!Next
    BY <1>3 DEF GroupP!Launch, GroupP!Next
  <2>2. Safe
    BY <1>1, <1>3, <2>1, GroupSafe
  <2>3. TaskInv'
    BY <1>1, <1>3, GroupLaunched DEF AppInv
  <2> QED BY <1>1, <2>2, <2>3, SafeStep
<1> QED BY <1>1, <1>2, <1>3

\* What the user types and taps in the memo editor in front.
LEMMA EditMemoInv == ASSUME AppInv, EditMemo PROVE AppInv'
<1>1. /\ MemoP!AtRest /\ GroupP!AtRest /\ UNCHANGED <<browser, groupUi, task, queue>>
      /\ \/ MemoP!TypeTitle \/ MemoP!TypeContent
         \/ MemoP!ClickAddTag \/ MemoP!ClickTag \/ MemoP!Recreate
  BY AtLooper, MemoSame DEF EditMemo
<1>2. MemoP!Next
  BY <1>1 DEF MemoP!Next, MemoP!User
<1>3. UNCHANGED <<kills, memoStarting, memoBelow>> /\ memoEditor # Null
  BY <1>1 DEF MemoP!TypeTitle, MemoP!TypeContent, MemoP!ClickAddTag, MemoP!ClickTag, MemoP!Event,
              MemoP!Recreate
<1>4. Safe
  BY <1>1, <1>2, <1>3, NotTapping, MemoSafe
<1>5. memoEditor' # Null
  <2>1. CASE MemoP!Recreate
    <3>1. work' # <<>>
      <4>1. PICK o : o = MemoP!OnCreate(memoEditor.intent)
        OBVIOUS
      <4>2. PICK a1, a2, a3 : o = <<a1, a2, a3>> \/ o = <<a2, a3>>
        BY <4>1 DEF MemoP!OnCreate
      <4>3. PICK a, b : work' = Append(Append(o, a), b)
        BY <2>1, <4>1 DEF MemoP!Recreate
      <4> QED BY <4>2, <4>3
    <3>2. EditorsInv'
      BY <1>4 DEF Safe
    <3> QED BY <3>1, <3>2 DEF EditorsInv, MemoP!LinkedInv, MemoP!IInv, MemoP!TypeOK
  <2>2. CASE ~MemoP!Recreate
    BY <1>1, <1>3, <2>2 DEF MemoP!TypeTitle, MemoP!TypeContent, MemoP!ClickAddTag,
                            MemoP!ClickTag, MemoP!Event
  <2> QED BY <2>1, <2>2
<1>6. TaskInv'
  BY <1>1, <1>3, <1>5, MemoStays DEF AppInv
<1> QED BY <1>1, <1>4, <1>6, SafeStep

\* What the user types and taps in the group editor in front.
LEMMA EditGroupInv == ASSUME AppInv, EditGroup PROVE AppInv'
<1>1. /\ MemoP!AtRest /\ GroupP!AtRest /\ UNCHANGED <<browser, memoUi, task, queue>>
      /\ GroupP!TypeTitle \/ GroupP!ClickAddTag \/ GroupP!ClickTag \/ GroupP!Recreate
  BY AtLooper, GroupSame DEF EditGroup
<1>2. GroupP!Next
  BY <1>1 DEF GroupP!Next
<1>3. UNCHANGED <<kills, groupStarting, groupBelow>> /\ groupEditor # Null
  BY <1>1 DEF GroupP!TypeTitle, GroupP!ClickAddTag, GroupP!ClickTag, GroupP!Recreate
<1>4. groupEditor' # Null
  BY <1>1, GroupAssumptions, GroupP!EventEditor DEF AppInv, EditorsInv
<1>5. Safe
  BY <1>1, <1>2, <1>3, GroupSafe
<1>6. TaskInv'
  BY <1>1, <1>3, <1>4, GroupStays DEF AppInv
<1> QED BY <1>1, <1>5, <1>6, SafeStep

\* The editor in front finishes without a save.
LEMMA FinishInv == ASSUME AppInv, Finish PROVE AppInv'
<1>1. /\ MemoP!AtRest /\ GroupP!AtRest /\ task' = Front(task) /\ UNCHANGED <<browser, queue>>
      /\ \/ InFront("memo") /\ MemoP!Finish /\ UNCHANGED groupUi
         \/ InFront("group") /\ GroupP!Finish /\ UNCHANGED memoUi
  BY AtLooper, MemoSame, GroupSame DEF Finish
<1>2. CASE InFront("memo") /\ MemoP!Finish /\ UNCHANGED groupUi
  <2>1. UNCHANGED kills /\ MemoP!Next /\ memoEditor # Null
    BY <1>2 DEF MemoP!Finish, MemoP!Next, MemoP!User
  <2>2. Safe
    BY <1>1, <1>2, <2>1, NotTapping, MemoSafe
  <2>3. TaskInv'
    BY <1>1, <1>2, MemoFinished DEF AppInv
  <2> QED BY <1>1, <2>2, <2>3, SafeStep
<1>3. CASE InFront("group") /\ GroupP!Finish /\ UNCHANGED memoUi
  <2>1. UNCHANGED kills /\ GroupP!Next
    BY <1>3 DEF GroupP!Finish, GroupP!Next
  <2>2. Safe
    BY <1>1, <1>3, <2>1, GroupSafe
  <2>3. TaskInv'
    BY <1>1, <1>3, GroupFinished DEF AppInv
  <2> QED BY <1>1, <2>2, <2>3, SafeStep
<1> QED BY <1>1, <1>2, <1>3

\* One transaction of the save of a memo.
LEMMA MemoCallbackInv == ASSUME AppInv, MemoCallback PROVE AppInv'
<1>1. /\ \/ MemoP!SetGroupTags \/ MemoP!ModeEdit \/ MemoP!Subscribe
         \/ MemoP!TitleChanged \/ MemoP!ContentChanged
         \/ MemoP!AddTag \/ MemoP!SortTags \/ MemoP!RemoveTag
         \/ MemoP!CreateStep \/ MemoP!WriteStep \/ MemoP!RowStep \/ MemoP!LinkStep
      /\ UNCHANGED <<browser, groupUi, task, queue>>
  BY MemoSame DEF MemoCallback
<1>2. MemoP!Next
  BY <1>1 DEF MemoP!Next, MemoP!UiThread
<1>3. /\ memoEditor # Null /\ memoEditor' # Null
      /\ UNCHANGED <<memoBelow, memoStarting, kills>>
  BY <1>1, MemoAssumptions, MemoP!CallbackEditor DEF AppInv, EditorsInv, MemoP!LinkedInv
<1>4. GroupP!AtRest
  <2>1. \/ \E op : MemoP!Continue(op)
        \/ memoSave.step # "none"
    BY <1>1 DEF MemoP!SetGroupTags, MemoP!ModeEdit, MemoP!Subscribe, MemoP!TitleChanged,
                MemoP!ContentChanged, MemoP!AddTag, MemoP!SortTags, MemoP!RemoveTag,
                MemoP!CreateStep, MemoP!WriteStep, MemoP!RowStep, MemoP!LinkStep
  <2>2. ~MemoP!AtRest
    BY <2>1 DEF MemoP!Continue, MemoP!AtRest, MemoP!NoSave
  <2> QED BY <2>2 DEF AppInv, OneSave
<1>5. Safe
  BY <1>1, <1>2, <1>3, <1>4, NotTapping, MemoSafe
<1>6. TaskInv'
  BY <1>1, <1>3, MemoStays DEF AppInv
<1> QED BY <1>1, <1>5, <1>6, SafeStep

\* One transaction of the save of a group.
LEMMA GroupCallbackInv == ASSUME AppInv, GroupCallback PROVE AppInv'
<1>1. /\ \/ GroupP!RestoreTitle
         \/ GroupP!CreateStep \/ GroupP!WriteStep \/ GroupP!RowStep \/ GroupP!LinkStep
      /\ UNCHANGED <<browser, memoUi, task, queue>>
  BY GroupSame DEF GroupCallback
<1>2. GroupP!Next
  BY <1>1 DEF GroupP!Next
<1>3. /\ groupEditor # Null /\ groupEditor' # Null
      /\ UNCHANGED <<groupBelow, groupStarting, kills>>
  BY <1>1, GroupAssumptions, GroupP!CallbackEditor DEF AppInv, EditorsInv
<1>4. MemoP!AtRest
  <2>1. ~GroupP!AtRest
    BY <1>1 DEF GroupP!RestoreTitle, GroupP!CreateStep, GroupP!WriteStep, GroupP!RowStep,
                GroupP!LinkStep, GroupP!AtRest, GroupP!NoSave
  <2> QED BY <2>1 DEF AppInv, OneSave
<1>5. Safe
  BY <1>1, <1>2, <1>3, <1>4, GroupSafe
<1>6. TaskInv'
  BY <1>1, <1>3, GroupStays DEF AppInv
<1> QED BY <1>1, <1>5, <1>6, SafeStep

(***************************************************************************)
(* The end of the process.                                                 *)
(***************************************************************************)
LEMMA CrashInv == ASSUME AppInv, Crash PROVE AppInv'
<1>1. /\ memoStarting' = <<>> /\ groupStarting' = <<>> /\ queue' = <<>> /\ Browsing!Gone("no constructor")
      /\ UNCHANGED <<store, memoEditor, memoBelow, work, memoSave, shared, memoCreates,
                     groupEditor, groupBelow, restore, groupSave, groupCreates, kills, task, raced>>
  BY DEF Crash, Browsing!Recreate, Browsing!store, store
<1>2. /\ EditorsInv' /\ InLists' = InLists
      /\ MemoP!Stranded' = MemoP!Stranded /\ GroupP!Stranded' = GroupP!Stranded
  BY <1>1, DropStep DEF AppInv
<1>3. OneSave'
  BY <1>1 DEF AppInv, OneSave, MemoP!AtRest, GroupP!AtRest
<1>4. Safe
  BY <1>1, <1>2, <1>3 DEF Safe
<1>5. TaskInv'
  <2>1. OfKind("memo", queue') = 0 /\ OfKind("group", queue') = 0
    BY <1>1, KindEmpty
  <2>2. MemoTask' /\ GroupTask'
    BY <1>1, <2>1 DEF AppInv, TaskInv, MemoTask, GroupTask
  <2>3. <<>> \in Seq(Kinds) /\ task \in Seq(Kinds)
    BY DEF AppInv, TaskInv
  <2>4. queue' \in Seq(Kinds) /\ task' \in Seq(Kinds)
    BY <1>1, <2>3, Zenon
  <2> QED BY <2>2, <2>4 DEF TaskInv
<1>6. BrowserInv'
  BY <1>1, GoneInv DEF AppInv, BrowserInv, BrowserTypeOK
<1> QED BY <1>3, <1>4, <1>5, <1>6, SafeLoss DEF AppInv, Safe

\* The process dies, with one save in progress at most.
LEMMA KillInv == ASSUME AppInv, Kill PROVE AppInv'
<1>1. /\ MemoP!Kill /\ GroupP!Kill /\ task' = <<>> /\ queue' = <<>>
      /\ IF running THEN Browsing!Kill ELSE UNCHANGED browser
  BY MemoSame, GroupSame DEF Kill
<1>2. PICK x : /\ EditorsInv' /\ OneSave'
               /\ \/ MemoP!Stranded' \subseteq MemoP!Stranded \cup {x}
                     /\ GroupP!Stranded' \subseteq GroupP!Stranded
                  \/ MemoP!Stranded' \subseteq MemoP!Stranded
                     /\ GroupP!Stranded' \subseteq GroupP!Stranded \cup {x}
  BY <1>1, KillStep DEF AppInv
<1>3. TaskInv'
  <2>1. OfKind("memo", <<>>) = 0 /\ OfKind("group", <<>>) = 0
    BY KindEmpty
  <2>2. /\ memoEditor' = Null /\ memoBelow' = <<>> /\ memoStarting' = <<>>
        /\ groupEditor' = Null /\ groupBelow' = <<>> /\ groupStarting' = <<>>
    BY <1>1 DEF MemoP!Kill, GroupP!Kill
  <2>3. MemoTask' /\ GroupTask'
    BY <1>1, <2>1, <2>2 DEF MemoTask, GroupTask
  <2> QED BY <1>1, <2>3 DEF TaskInv
<1>4. BrowserInv'
  <2>1. CASE running
    BY <1>1, <2>1, GoneInv DEF Browsing!Kill, AppInv, BrowserInv, BrowserTypeOK
  <2>2. CASE ~running
    BY <1>1, <2>2 DEF AppInv, BrowserInv, BrowserTypeOK, NoPath, browser
  <2> QED BY <2>1, <2>2
<1>5. LossInv'
  <2>1. kills' = kills + 1 /\ kills \in Nat
    BY <1>1, EditorTypes DEF MemoP!Kill, AppInv
  <2>2. ASSUME NEW S, NEW T, IsFiniteSet(S), T \subseteq S \cup {x}
        PROVE  /\ IsFiniteSet(T) /\ Cardinality(T) \in Nat /\ Cardinality(S) \in Nat
               /\ Cardinality(T) <= Cardinality(S) + 1
    <3>1. /\ IsFiniteSet(S \cup {x}) /\ Cardinality(S) \in Nat
          /\ Cardinality(S \cup {x}) = Cardinality(S) \/ Cardinality(S \cup {x}) = Cardinality(S) + 1
      BY <2>2, FS_AddElement, FS_CardinalityType
    <3>2. IsFiniteSet(T) /\ Cardinality(T) <= Cardinality(S \cup {x}) /\ Cardinality(T) \in Nat
      BY <2>2, <3>1, FS_Subset, FS_CardinalityType
    <3> QED BY <3>1, <3>2
  <2>3. ASSUME NEW S, NEW T, IsFiniteSet(S), T \subseteq S
        PROVE  /\ IsFiniteSet(T) /\ Cardinality(T) \in Nat /\ Cardinality(S) \in Nat
               /\ Cardinality(T) <= Cardinality(S)
    BY <2>3, FS_Subset, FS_CardinalityType
  <2>4. PICK M, M1, G, G1 : /\ M = MemoP!Stranded /\ M1 = MemoP!Stranded'
                            /\ G = GroupP!Stranded /\ G1 = GroupP!Stranded'
    OBVIOUS
  <2>5. IsFiniteSet(M) /\ IsFiniteSet(G) /\ Cardinality(M) + Cardinality(G) <= kills
    BY <2>4 DEF AppInv, LossInv
  <2>6. IsFiniteSet(M1) /\ IsFiniteSet(G1) /\ Cardinality(M1) + Cardinality(G1) <= kills + 1
    <3>1. CASE M1 \subseteq M \cup {x} /\ G1 \subseteq G
      BY <2>1, <2>2, <2>3, <2>5, <3>1
    <3>2. CASE M1 \subseteq M /\ G1 \subseteq G \cup {x}
      BY <2>1, <2>2, <2>3, <2>5, <3>2
    <3> QED BY <1>2, <2>4, <3>1, <3>2
  <2> QED BY <2>1, <2>4, <2>6 DEF LossInv
<1> QED BY <1>2, <1>3, <1>4, <1>5 DEF AppInv

(***************************************************************************)
(* The specification.                                                      *)
(***************************************************************************)
LEMMA AppInit == Init => AppInv
<1> SUFFICES ASSUME Init PROVE AppInv
  OBVIOUS
<1>1. EditorsInv /\ OneSave /\ NoGroups
  BY InitEditors
<1>2. TaskInv
  <2>1. OfKind("memo", <<>>) = 0 /\ OfKind("group", <<>>) = 0
    BY KindEmpty
  <2>2. MemoTask /\ GroupTask
    BY <2>1 DEF Init, MemoTask, GroupTask
  <2> QED BY <2>2 DEF Init, TaskInv
<1>3. BrowserInv
  BY DEF Init, Browsing!Init, BrowserInv, BrowserTypeOK, NoPath
<1>4. LossInv
  <2>1. \A m \in MemoId : memos[m] = Null
    BY DEF Init, Browsing!Init
  <2>2. MemoP!Stranded = {}
    BY <2>1 DEF MemoP!Stranded, MemoP!MemosStored
  <2>3. GroupP!Stranded = {}
    BY <1>1 DEF NoGroups, GroupP!Stranded, GroupP!Subgroups
  <2>4. kills = 0
    BY DEF Init
  <2> QED BY <2>2, <2>3, <2>4, FS_EmptySet DEF LossInv
<1> QED BY <1>1, <1>2, <1>3, <1>4 DEF AppInv

\* Every step of the app keeps the invariant.
LEMMA AppNext == AppInv /\ [Next]_vars => AppInv'
<1> SUFFICES ASSUME AppInv, [Next]_vars PROVE AppInv'
  OBVIOUS
<1>1. CASE BrowserOnCreate
  BY <1>1, InitFragmentInv, InitRootInv DEF BrowserOnCreate
<1>2. CASE UNCHANGED vars
  <2>1. UNCHANGED <<store, browser, memoUi, groupUi, kills, task, queue>>
    BY <1>2 DEF vars
  <2> QED BY <2>1, SafeIdle, SafeTask, SafeStep
<1> QED BY <1>1, <1>2, StartAppInv, ExecutePendingInv, NavigateInv, TapMemoInv, TapAddGroupInv,
           LaunchInv, EditMemoInv, EditGroupInv, FinishInv, MemoCallbackInv, GroupCallbackInv,
           CrashInv, KillInv DEF Next, UiThread

\* The app keeps its invariant: the editors' invariants on the shared file, at most
\* one save in progress, a task that agrees with the editors, a browser that shows
\* lists that exist, and no more loss than deaths.
THEOREM Invariance == Spec => []AppInv
BY AppInit, AppNext, PTL DEF Spec

\* The invariant says all that TypeOK does.
LEMMA AppTypes == AppInv => TypeOK
<1> SUFFICES ASSUME AppInv PROVE TypeOK
  OBVIOUS
<1>1. MemoP!TypeOK /\ GroupP!TypeOK
  BY DEF AppInv, EditorsInv, MemoP!LinkedInv, MemoP!IInv, GroupP!IInv, GroupP!TypeOK,
         GroupP!EditorsTypeOK, GroupP!QueueTypeOK, GroupP!CountsOK
<1>2. Browsing!TypeOK
  <2>1. Browsing!StoreTypeOK
    BY <1>1 DEF MemoP!TypeOK, MemoP!StoreTypeOK, Browsing!StoreTypeOK, MemoP!Group, Browsing!Group,
                MemoP!Memo, Browsing!Memo, MemoP!GroupMemo, Browsing!GroupMemo
  <2>2. /\ onCreate \in Seq({"fragment", "root"}) /\ fragmentList \in Seq(GroupId)
        /\ pending \in Seq(GroupId) /\ shown \in GroupId \cup {Null}
    <3>1. CASE ~running
      <4>1. /\ onCreate = <<>> /\ fragmentList = <<>> /\ pending = <<>> /\ shown = Null
        BY <3>1 DEF AppInv, BrowserInv, NoPath
      <4> QED BY <4>1
    <3>2. CASE running /\ Starting
      <4>1. Root \in GroupId
        BY AndroidAssumption
      <4>2. /\ <<>> \in Seq(GroupId) /\ <<Root>> \in Seq(GroupId)
            /\ <<"fragment", "root">> \in Seq({"fragment", "root"})
            /\ <<"root">> \in Seq({"fragment", "root"})
        BY <4>1
      <4>3. CASE onCreate = <<"fragment", "root">> /\ NoPath
        BY <4>2, <4>3, Zenon DEF NoPath
      <4>4. CASE onCreate = <<"root">> /\ fragmentList = <<Root>> /\ pending = <<Root>> /\ shown = Null
        BY <4>2, <4>4, Zenon
      <4> QED BY <3>2, <4>3, <4>4 DEF Starting
    <3>3. CASE onCreate = <<>> /\ PathIn(InLists)
      <4>1. InLists \subseteq GroupId
        BY DEF InLists
      <4>2. PathIn(GroupId)
        BY <3>3, <4>1, PathGrows
      <4> QED BY <3>3, <4>2 DEF PathIn
    <3> QED BY <3>1, <3>2, <3>3 DEF AppInv, BrowserInv, BrowserTypeOK
  <2> QED BY <2>1, <2>2 DEF Browsing!TypeOK, AppInv, BrowserInv, BrowserTypeOK
<1> QED BY <1>1, <1>2, MemoSame, GroupSame DEF TypeOK, AppInv, TaskInv, MemoTask, GroupTask

\* The invariant of the editors and the browser puts all groups in lists.
LEMMA AppLists == AppInv => AllInLists
<1> SUFFICES ASSUME AppInv PROVE AllInLists
  OBVIOUS
<1>1. ASSUME running, onCreate = <<>>
      PROVE  ToSet(fragmentList) \cup ToSet(pending) \cup ({shown} \ {Null}) \subseteq InLists
  <2>1. PathIn(InLists)
    BY <1>1 DEF AppInv, BrowserInv, Starting
  <2> QED BY <2>1 DEF PathIn, ToSet
<1>2. MemoP!Named(InLists)
  BY DEF AppInv, EditorsInv
<1>3. /\ {i.parent : i \in ToSet(memoStarting)} \subseteq InLists
      /\ \A e \in Open(memoEditor, memoBelow) : e.intent.parent \in InLists
      /\ \A m \in MemosStored : memos[m].parent \in InLists
  BY <1>2 DEF MemoP!Named, ToSet, Open, MemosStored
<1>4. GroupP!EditorsTypeOK /\ GroupP!QueueTypeOK /\ GroupP!UiInv
  BY DEF AppInv, EditorsInv, GroupP!IInv
<1>5. /\ \A i \in DOMAIN groupStarting : groupStarting[i] \in GroupId /\ groups[groupStarting[i]] # Null
      /\ groupEditor # Null => groupEditor.parent \in GroupId /\ groups[groupEditor.parent] # Null
      /\ \A i \in DOMAIN groupBelow : /\ groupBelow[i].parent \in GroupId
                                      /\ groups[groupBelow[i].parent] # Null
  <2>1. /\ groupStarting \in Seq(GroupId) /\ groupBelow \in Seq(GroupP!Editor)
        /\ groupEditor \in GroupP!Editor \cup {Null}
    BY <1>4 DEF GroupP!EditorsTypeOK, GroupP!QueueTypeOK
  <2>2. \A e \in GroupP!Editor : e.parent \in GroupId
    BY DEF GroupP!Editor
  <2>3. /\ \A i \in DOMAIN groupStarting : GroupP!Exists(groupStarting[i])
        /\ groupEditor # Null => GroupP!Exists(groupEditor.parent)
        /\ \A i \in DOMAIN groupBelow : GroupP!Exists(groupBelow[i].parent)
    BY <1>4 DEF GroupP!UiInv, GroupP!StartingOK, GroupP!OwnGroup, GroupP!BelowOK, GroupP!EditorOK
  <2> QED BY <2>1, <2>2, <2>3 DEF GroupP!Exists
<1>6. ASSUME GroupP!TreeInv
      PROVE  /\ \A i \in DOMAIN groupStarting : groupStarting[i] \in InLists
             /\ groupEditor # Null => groupEditor.parent \in InLists
             /\ \A i \in DOMAIN groupBelow : groupBelow[i].parent \in InLists
  BY <1>5, <1>6, ShownInLists DEF GroupP!TreeInv, GroupP!EditorsPlaced, GroupP!Placed
<1>7. ASSUME NEW g \in GroupId, groups[g] # Null PROVE GroupP!TreeInv
  BY <1>7 DEF AppInv, EditorsInv, NoGroups
<1>8. /\ \A i \in DOMAIN groupStarting : groupStarting[i] \in InLists
      /\ groupEditor # Null => groupEditor.parent \in InLists
      /\ \A i \in DOMAIN groupBelow : groupBelow[i].parent \in InLists
  BY <1>5, <1>6, <1>7
<1>9. ToSet(groupStarting) \subseteq InLists
  BY <1>8 DEF ToSet
<1>10. \A e \in Open(groupEditor, groupBelow) : e.parent \in InLists
  BY <1>8 DEF Open, ToSet
<1>11. \A g \in InLists \ {Root} : groups[g].parent \in InLists
  <2> SUFFICES ASSUME NEW g \in InLists \ {Root} PROVE groups[g].parent \in InLists
    OBVIOUS
  <2>1. g \in GroupId /\ groups[g] # Null
    BY DEF InLists
  <2>2. GroupP!ParentShown(g)
    BY <1>7, <2>1 DEF GroupP!TreeInv, GroupP!StoreTree
  <2> QED BY <2>1, <2>2, ShownInLists DEF GroupP!ParentShown, GroupP!Exists
<1> QED BY <1>1, <1>3, <1>9, <1>10, <1>11 DEF AllInLists

\* The state of the app has its types in every reachable state: those of the store,
\* of the browser and of the editors, for any number of editors and launches.
THEOREM TypeCorrect == Spec => []TypeOK
BY Invariance, AppTypes, PTL

\* The browser's path and the fragment it is about to show, the parents of all open
\* and queued editors, and the parents of all memos and groups are groups that
\* GroupFragment can show: no transaction of a save, no click while another
\* editor is open and no death of the process takes a group out of the lists.
THEOREM EverythingInLists == Spec => []AllInLists
BY Invariance, AppLists, PTL

\* A death of the process leaves at most one memo or group in the file that no list
\* shows, however many MemoManageActivity and GroupManageActivity are open or
\* queued: their saves run on the UI thread, one to the end before the next.
THEOREM LossBounded == Spec => []OneLostPerKill
<1>1. AppInv => OneLostPerKill
  BY StrandedSame DEF AppInv, LossInv, OneLostPerKill
<1> QED BY <1>1, Invariance, PTL

(***************************************************************************)
(* What the app shows implements the browser's own specification.          *)
(*                                                                         *)
(* A step of an editor is quiet, or links one row.  A quiet step is not    *)
(* seen: a row it makes is in no list, and a group it makes is in none     *)
(* either and has an empty one.  A step that links a row is seen as the    *)
(* arrival of one memo or group, complete and empty: nothing can have been *)
(* put in a group before it is in a list, because whoever makes something  *)
(* in a group was started from its list.                                   *)
(***************************************************************************)
\* What is known of the rows and the lists, before initRootGroup and after it.
StoreFacts ==
  /\ StoreTypeOK
  /\ \A r \in RowId : GroupP!RowOK(r) /\ MemoP!RowOK(r)
  /\ \A g \in GroupId : MemoP!ListOK(g)
  /\ MemoP!OneRow

LEMMA EditorsFacts == EditorsInv => StoreFacts
<1> SUFFICES ASSUME EditorsInv PROVE StoreFacts
  OBVIOUS
<1>1. MemoP!StoreTypeOK /\ MemoP!StoreInv
  BY DEF EditorsInv, MemoP!LinkedInv, MemoP!IInv, MemoP!TypeOK
<1>2. StoreTypeOK
  BY <1>1 DEF MemoP!StoreTypeOK, StoreTypeOK, MemoP!Group, Group, MemoP!Memo, Memo,
              MemoP!GroupMemo, GroupMemo
<1>3. \A r \in RowId : GroupP!RowOK(r)
  BY DEF EditorsInv, NoGroups, GroupP!TreeInv, GroupP!StoreTree, GroupP!RowOK
<1> QED BY <1>1, <1>2, <1>3 DEF StoreFacts, MemoP!StoreInv

\* A row that is linked is in a list that is there.
LEMMA RowsInLists ==
  ASSUME StoreFacts, NEW r \in RowId, NEW g \in GroupId, groups[g] # Null,
         r \in ToSet(groups[g].groupMemos)
  PROVE  rows[r] # Null /\ rows[r].parent = g /\ Linked(r)
<1>1. PICK i \in DOMAIN groups[g].groupMemos : groups[g].groupMemos[i] = r
  BY DEF ToSet
<1>2. rows[r] # Null /\ rows[r].parent = g
  BY <1>1 DEF StoreFacts, MemoP!ListOK
<1> QED BY <1>2 DEF Linked

LEMMA RowsTyped ==
  ASSUME StoreFacts, NEW r \in RowId, rows[r] # Null
  PROVE  rows[r] \in GroupMemo /\ rows[r].parent \in GroupId
BY DEF StoreFacts, StoreTypeOK, GroupMemo

\* Before the last transaction of a save nothing is linked that was not.
LEMMA QuietLinks ==
  ASSUME StoreFacts, StoreFacts', MemoP!QuietDeed
  PROVE  \A r \in RowId : Linked(r)' <=> Linked(r)
<1> SUFFICES ASSUME NEW r \in RowId PROVE Linked(r)' <=> Linked(r)
  OBVIOUS
<1>1. ASSUME Linked(r) PROVE Linked(r)'
  <2>1. rows[r] # Null /\ rows[r].parent \in GroupId /\ groups[rows[r].parent] # Null
    BY <1>1, RowsTyped DEF Linked
  <2>2. rows'[r] = rows[r]
    BY <2>1 DEF MemoP!QuietDeed
  <2> QED BY <1>1, <2>1, <2>2 DEF Linked, MemoP!QuietDeed
<1>2. ASSUME Linked(r)' PROVE Linked(r)
  <2>1. rows'[r] # Null /\ rows'[r].parent \in GroupId
    BY <1>2 DEF Linked, StoreFacts, StoreTypeOK, GroupMemo
  <2>2. PICK g \in GroupId : g = rows'[r].parent
    BY <2>1
  <2>3. groups'[g] # Null /\ r \in ToSet(groups'[g].groupMemos)
    BY <1>2, <2>2 DEF Linked
  <2>4. groups[g] # Null
    BY <2>3 DEF MemoP!QuietDeed, ToSet
  <2>5. groups'[g].groupMemos = groups[g].groupMemos
    BY <2>4 DEF MemoP!QuietDeed
  <2> QED BY <2>3, <2>4, <2>5, RowsInLists
<1> QED BY <1>1, <1>2

\* So nothing is seen of it.
LEMMA QuietUnseen ==
  ASSUME StoreFacts, StoreFacts', groups[Root] # Null, MemoP!QuietDeed
  PROVE  UNCHANGED <<GroupsSeen, RowsSeen, MemosSeen>>
<1>1. \A r \in RowId :
        /\ Linked(r)' <=> Linked(r)
        /\ Linked(r) => rows[r] # Null
        /\ rows[r] # Null => rows'[r] = rows[r]
  BY QuietLinks DEF Linked, MemoP!QuietDeed
<1>2. \A id : Listed(id)' <=> Listed(id)
  BY <1>1 DEF Listed, RowsOf
<1>3. UNCHANGED RowsSeen
  <2>1. ASSUME NEW r \in RowId, rows[r] = Null, rows'[r] # Null PROVE rows'[r].ref # Root
    <3>1. rows'[r].typeId # Null
      BY <2>1 DEF MemoP!QuietDeed
    <3>2. \/ rows'[r].ref \in MemoId
          \/ rows'[r].typeId \in GroupId \ {Root} /\ rows'[r].ref = rows'[r].typeId
      BY <2>1, <3>1 DEF StoreFacts, GroupP!RowOK
    <3> QED BY <3>2, StoreAssumption, AndroidAssumption
  <2>2. ASSUME NEW r \in RowId PROVE RowsSeen'[r] = RowsSeen[r]
    BY <1>1, <2>1 DEF RowsSeen
  <2> QED BY <2>2 DEF RowsSeen
<1>4. UNCHANGED MemosSeen
  <2>1. ASSUME NEW m \in MemoId, Listed(m) PROVE memos'[m].parent = memos[m].parent
    <3>1. PICK r \in RowId : rows[r] # Null /\ rows[r].typeId = m
      BY <2>1 DEF Listed, RowsOf
    <3>2. memos[m] # Null
      BY <3>1, StoreAssumption DEF StoreFacts, MemoP!RowOK, MemoP!Written
    <3> QED BY <3>2 DEF MemoP!QuietDeed
  <2>2. ASSUME NEW m \in MemoId PROVE MemosSeen'[m] = MemosSeen[m]
    BY <1>2, <2>1 DEF MemosSeen
  <2> QED BY <2>2 DEF MemosSeen
<1>5. UNCHANGED GroupsSeen
  <2>1. ASSUME NEW g \in GroupId PROVE g \in InLists' <=> g \in InLists
    <3>1. g \in InLists => g \in InLists'
      BY <1>2 DEF InLists, MemoP!QuietDeed
    <3>2. ASSUME g \in InLists' PROVE g \in InLists
      <4>1. g = Root \/ Listed(g)
        BY <1>2, <3>2 DEF InLists
      <4>2. Listed(g) => groups[g] # Null
        BY StoreAssumption DEF Listed, RowsOf, StoreFacts, GroupP!RowOK, GroupP!Exists
      <4> QED BY <4>1, <4>2 DEF InLists
    <3> QED BY <3>1, <3>2
  <2>2. ASSUME NEW g \in InLists
        PROVE  groups'[g].parent = groups[g].parent /\ groups'[g].groupMemos = groups[g].groupMemos
    BY DEF InLists, MemoP!QuietDeed
  <2>3. ASSUME NEW g \in GroupId PROVE GroupsSeen'[g] = GroupsSeen[g]
    BY <2>1, <2>2 DEF GroupsSeen
  <2> QED BY <2>3 DEF GroupsSeen
<1> QED BY <1>3, <1>4, <1>5

\* The last transaction of a save links one row, and with it what the row names.
LEMMA LinkedBy ==
  ASSUME StoreFacts, NEW h \in GroupId, NEW r \in RowId, GroupP!LinkDeed(h, r)
  PROVE  /\ ~Linked(r)
         /\ \A q \in RowId : Linked(q)' <=> (Linked(q) \/ q = r)
         /\ \A id : Listed(id)' <=> (Listed(id) \/ id = rows[r].typeId)
         /\ groups'[h].groupMemos = Append(groups[h].groupMemos, r)
         /\ \A g \in GroupId :
              /\ groups'[g] # Null <=> groups[g] # Null
              /\ groups[g] # Null => groups'[g].parent = groups[g].parent
         /\ \A g \in GroupId \ {h} : groups'[g] = groups[g]
<1> DEFINE list == groups[h].groupMemos
           new == [groups[h] EXCEPT !.groupMemos = Append(list, r)]
<1>1. /\ groups \in [GroupId -> Group \cup {Null}] /\ groups[h] \in Group /\ list \in Seq(RowId)
      /\ groups' = [groups EXCEPT ![h] = new]
      /\ ~Contains(list, r) /\ UNCHANGED <<memos, rows>>
      /\ rows[r] # Null /\ rows[r].parent = h
  BY DEF GroupP!LinkDeed, GroupP!Contains, Contains, StoreFacts, StoreTypeOK, Group
<1>2. Append(list, r) \in Seq(RowId) /\ ToSet(Append(list, r)) = ToSet(list) \cup {r}
  <2> HIDE DEF list
  <2>1. /\ Append(list, r) \in Seq(RowId)
        /\ DOMAIN Append(list, r) = 1..(Len(list) + 1) /\ DOMAIN list = 1..Len(list)
        /\ Len(list) \in Nat /\ Append(list, r)[Len(list) + 1] = r
        /\ \A i \in 1..Len(list) : Append(list, r)[i] = list[i]
    BY <1>1
  <2>2. DOMAIN Append(list, r) = DOMAIN list \cup {Len(list) + 1}
    BY <2>1
  <2> QED BY <2>1, <2>2 DEF ToSet
<1>3. new \in Group /\ new.groupMemos = Append(list, r) /\ new.parent = groups[h].parent
  <2> HIDE DEF list
  <2> QED BY <1>1, <1>2 DEF Group
<1> HIDE DEF new
<1>4. groups'[h] = new /\ new # Null /\ \A g \in GroupId \ {h} : groups'[g] = groups[g]
  BY <1>1, <1>3, StoreAssumption
<1>5. r \notin ToSet(list)
  BY <1>1 DEF Contains, ToSet
<1>6. ~Linked(r)
  BY <1>1, <1>5 DEF Linked
<1>7. ASSUME NEW q \in RowId PROVE Linked(q)' <=> (Linked(q) \/ q = r)
  <2>1. CASE rows[q] = Null
    BY <1>1, <2>1 DEF Linked
  <2>2. CASE rows[q] # Null /\ rows[q].parent = h
    <3>1. Linked(q) <=> q \in ToSet(list)
      BY <1>1, <2>2, StoreAssumption DEF Linked
    <3>2. Linked(q)' <=> q \in ToSet(Append(list, r))
      BY <1>1, <1>3, <1>4, <2>2 DEF Linked
    <3> QED BY <1>2, <3>1, <3>2
  <2>3. CASE rows[q] # Null /\ rows[q].parent # h
    <3>1. rows[q].parent \in GroupId \ {h}
      BY <2>3, RowsTyped
    <3> QED BY <1>1, <1>4, <2>3, <3>1 DEF Linked
  <2> QED BY <2>1, <2>2, <2>3
<1>8. ASSUME NEW id PROVE Listed(id)' <=> (Listed(id) \/ id = rows[r].typeId)
  BY <1>1, <1>7 DEF Listed, RowsOf
<1>9. ASSUME NEW g \in GroupId
      PROVE  /\ groups'[g] # Null <=> groups[g] # Null
             /\ groups[g] # Null => groups'[g].parent = groups[g].parent
  BY <1>1, <1>3, <1>4, StoreAssumption
<1> QED BY <1>3, <1>4, <1>6, <1>7, <1>8, <1>9

\* A group that is in no list has an empty one: what is in it was asked for there.
LEMMA NewGroupEmpty ==
  ASSUME EditorsInv, StoreFacts, GroupP!TreeInv, NEW x \in GroupId, groups[x] # Null, x \notin InLists
  PROVE  groups[x].groupMemos = <<>>
<1>1. groups[x].groupMemos \in Seq(RowId)
  BY DEF StoreFacts, StoreTypeOK, Group
<1>2. ASSUME NEW i \in DOMAIN groups[x].groupMemos PROVE FALSE
  <2>1. PICK q \in RowId : q = groups[x].groupMemos[i]
    BY <1>1
  <2>2. rows[q] # Null /\ rows[q].parent = x /\ rows[q].typeId # Null
    BY <2>1 DEF GroupP!TreeInv, GroupP!StoreTree, GroupP!ListOK, GroupP!Exists
  <2>3. CASE rows[q].ref \in MemoId
    <3>1. memos[rows[q].ref] # Null /\ memos[rows[q].ref].parent = x
      BY <2>2, <2>3, StoreAssumption DEF StoreFacts, MemoP!RowOK, MemoP!Written
    <3> QED BY <2>3, <3>1 DEF EditorsInv, MemoP!Named
  <2>4. CASE rows[q].typeId \in GroupId \ {Root}
    <3>1. groups[rows[q].typeId] # Null /\ groups[rows[q].typeId].parent = x
      BY <2>2, <2>4, StoreAssumption DEF StoreFacts, GroupP!RowOK, GroupP!Exists
    <3>2. GroupP!ParentShown(rows[q].typeId)
      BY <2>4 DEF GroupP!TreeInv, GroupP!StoreTree
    <3> QED BY <2>4, <3>1, <3>2, ShownInLists DEF GroupP!ParentShown, GroupP!Exists
  <2> QED BY <2>2, <2>3, <2>4 DEF StoreFacts, GroupP!RowOK
<1> DEFINE list == groups[x].groupMemos
<1>3. list \in Seq(RowId) /\ \A i \in DOMAIN list : FALSE
  BY <1>1, <1>2
<1> HIDE DEF list
<1>4. Len(list) = 0
  <2>1. Len(list) \in Nat /\ DOMAIN list = 1..Len(list)
    BY <1>3
  <2>2. Len(list) \notin 1..Len(list)
    BY <1>3, <2>1, Zenon
  <2> QED BY <2>1, <2>2
<1>5. list = <<>>
  BY <1>3, <1>4
<1> QED BY <1>5 DEF list

\* The row that is linked is seen as it is; all other rows stay as they were seen.
LEMMA RowArrives ==
  ASSUME StoreFacts, NEW h \in GroupId, NEW r \in RowId, GroupP!LinkDeed(h, r), rows[r].ref # Root
  PROVE  RowsSeen[r] = Null /\ RowsSeen' = [RowsSeen EXCEPT ![r] = rows[r]]
<1>1. /\ ~Linked(r) /\ \A q \in RowId : Linked(q)' <=> (Linked(q) \/ q = r)
      /\ rows' = rows /\ rows[r] # Null
  BY LinkedBy DEF GroupP!LinkDeed
<1>2. RowsSeen'[r] = rows[r] /\ \A q \in RowId \ {r} : RowsSeen'[q] = RowsSeen[q]
  BY <1>1 DEF RowsSeen
<1>3. RowsSeen[r] = Null
  BY <1>1 DEF RowsSeen
<1>4. RowsSeen' = [q \in RowId |-> RowsSeen'[q]] /\ RowsSeen = [q \in RowId |-> RowsSeen[q]]
  BY DEF RowsSeen
<1> QED BY <1>2, <1>3, <1>4

\* What is seen of a group that is in a list.
SeenGroup(parent, list) ==
  [parent |-> parent, title |-> Empty, tags |-> <<>>, groupMemos |-> list]

LEMMA SeenAppend ==
  ASSUME NEW p, NEW s, NEW r
  PROVE  [SeenGroup(p, s) EXCEPT !.groupMemos = Append(@, r)] = SeenGroup(p, Append(s, r))
<1>1. PICK t : t = Append(s, r)
  OBVIOUS
<1>2. [SeenGroup(p, s) EXCEPT !.groupMemos = t] = SeenGroup(p, t)
  BY DEF SeenGroup
<1>3. SeenGroup(p, s).groupMemos = s
  BY DEF SeenGroup
<1> QED BY <1>1, <1>2, <1>3

LEMMA GroupSeen ==
  ASSUME StoreFacts, NEW g \in InLists
  PROVE  /\ GroupsSeen[g] = SeenGroup(groups[g].parent, groups[g].groupMemos)
         /\ GroupsSeen[g].parent = groups[g].parent
         /\ GroupsSeen[g].groupMemos = groups[g].groupMemos
         /\ GroupsSeen[g] # Null
<1>1. GroupsSeen[g] = SeenGroup(groups[g].parent, groups[g].groupMemos)
  BY DEF GroupsSeen, SeenGroup, InLists
<1>2. groups[g] \in Group
  BY DEF StoreFacts, StoreTypeOK, InLists
<1>3. GroupsSeen[g] \in Group
  BY <1>1, <1>2, StoreAssumption DEF SeenGroup, Group
<1>4. GroupsSeen[g].parent = groups[g].parent /\ GroupsSeen[g].groupMemos = groups[g].groupMemos
  BY <1>1 DEF SeenGroup
<1> QED BY <1>1, <1>3, <1>4, StoreAssumption

\* A memo's row is linked: the browser sees the memo arrive in the group's list.
LEMMA MemoArrives ==
  ASSUME EditorsInv, StoreFacts, NEW h \in GroupId, NEW r \in RowId, GroupP!LinkDeed(h, r),
         rows[r].typeId \in MemoId, UNCHANGED browser
  PROVE  Seen!AddMemo
<1> DEFINE m == rows[r].typeId
           row == [type |-> "memo", parent |-> h, typeId |-> m, ref |-> m]
           memo == [parent |-> h, title |-> Empty, content |-> Empty, tags |-> <<>>]
<1>1. /\ rows[r] # Null /\ rows[r].parent = h /\ groups[h] # Null /\ UNCHANGED <<memos, rows>>
      /\ rows[r] \in GroupMemo
  BY RowsTyped DEF GroupP!LinkDeed
<1>2. /\ rows[r].type = "memo" /\ rows[r].ref = m /\ memos[m] # Null /\ memos[m].parent = h
  BY <1>1, StoreAssumption DEF StoreFacts, MemoP!RowOK, MemoP!Written
<1>3. rows[r] = row
  BY <1>1, <1>2 DEF GroupMemo
<1>4. h \in InLists
  BY <1>2 DEF EditorsInv, MemoP!Named
<1>5. m \notin GroupId /\ m # Root /\ m \in MemoId
  BY StoreAssumption, AndroidAssumption
<1> HIDE DEF m
<1>6. ~Listed(m)
  <2>1. ~Linked(r)
    BY LinkedBy
  <2>2. ASSUME NEW q \in RowId, rows[q] # Null, rows[q].typeId = m PROVE q = r
    BY <1>1, <1>5, <2>2 DEF StoreFacts, MemoP!OneRow, m
  <2> QED BY <2>1, <2>2 DEF Listed, RowsOf
<1>7. \A id : Listed(id)' <=> (Listed(id) \/ id = m)
  BY LinkedBy DEF m
<1>8. RowsSeen[r] = Null /\ RowsSeen' = [RowsSeen EXCEPT ![r] = row]
  <2>1. rows[r].ref # Root
    BY <1>2, <1>5
  <2> QED BY <1>3, <2>1, RowArrives
<1>9. MemosSeen[m] = Null /\ MemosSeen' = [MemosSeen EXCEPT ![m] = memo]
  <2>1. MemosSeen[m] = Null
    BY <1>5, <1>6 DEF MemosSeen
  <2>2. MemosSeen'[m] = memo
    BY <1>1, <1>2, <1>5, <1>7 DEF MemosSeen
  <2>3. \A n \in MemoId \ {m} : MemosSeen'[n] = MemosSeen[n]
    BY <1>1, <1>7 DEF MemosSeen
  <2>4. MemosSeen' = [n \in MemoId |-> MemosSeen'[n]] /\ MemosSeen = [n \in MemoId |-> MemosSeen[n]]
    BY DEF MemosSeen
  <2> HIDE DEF memo
  <2> QED BY <1>5, <2>1, <2>2, <2>3, <2>4
<1>10. GroupsSeen[h] # Null /\ GroupsSeen' = [GroupsSeen EXCEPT ![h].groupMemos = Append(@, r)]
  <2>1. \A g \in GroupId : g \in InLists' <=> g \in InLists
    BY <1>5, <1>7, LinkedBy DEF InLists
  <2>2. /\ GroupsSeen[h] = SeenGroup(groups[h].parent, groups[h].groupMemos) /\ GroupsSeen[h] # Null
        /\ GroupsSeen'[h] = SeenGroup(groups'[h].parent, groups'[h].groupMemos)
    <3>1. h \in InLists'
      BY <1>4, <2>1
    <3>2. GroupsSeen'[h] = SeenGroup(groups'[h].parent, groups'[h].groupMemos)
      BY <3>1 DEF GroupsSeen, SeenGroup
    <3>3. GroupsSeen[h] = SeenGroup(groups[h].parent, groups[h].groupMemos) /\ GroupsSeen[h] # Null
      BY <1>4, GroupSeen
    <3> QED BY <3>2, <3>3
  <2>3. groups'[h].parent = groups[h].parent /\ groups'[h].groupMemos = Append(groups[h].groupMemos, r)
    BY <1>1, LinkedBy
  <2>4. GroupsSeen'[h] = [GroupsSeen[h] EXCEPT !.groupMemos = Append(@, r)]
    BY <2>2, <2>3, SeenAppend
  <2>5. ASSUME NEW g \in GroupId \ {h} PROVE GroupsSeen'[g] = GroupsSeen[g]
    <3>1. groups'[g] = groups[g] /\ (g \in InLists' <=> g \in InLists)
      BY <2>1, LinkedBy
    <3> QED BY <3>1 DEF GroupsSeen
  <2>6. GroupsSeen' = [g \in GroupId |-> GroupsSeen'[g]] /\ GroupsSeen = [g \in GroupId |-> GroupsSeen[g]]
    BY DEF GroupsSeen
  <2> QED BY <2>2, <2>4, <2>5, <2>6
<1>11. /\ GroupsSeen[h] # Null /\ MemosSeen[m] = Null /\ RowsSeen[r] = Null
       /\ GroupsSeen' = [GroupsSeen EXCEPT ![h].groupMemos = Append(@, r)]
       /\ MemosSeen' = [MemosSeen EXCEPT ![m] = memo]
       /\ RowsSeen' = [RowsSeen EXCEPT ![r] = row]
  BY <1>8, <1>9, <1>10
<1> QED BY <1>5, <1>11 DEF Seen!AddMemo, Seen!nav, browser

\* A group's row is linked: the browser sees the group arrive, with an empty list.
LEMMA GroupArrives ==
  ASSUME EditorsInv, StoreFacts, GroupP!TreeInv,
         NEW h \in GroupId, NEW r \in RowId, GroupP!LinkDeed(h, r),
         rows[r].typeId \in GroupId \ {Root}, UNCHANGED browser
  PROVE  Seen!AddGroup
<1> DEFINE x == rows[r].typeId
           row == [type |-> "group", parent |-> h, typeId |-> x, ref |-> x]
           new == [parent |-> h, title |-> Empty, tags |-> <<>>, groupMemos |-> <<>>]
<1>1. /\ rows[r] # Null /\ rows[r].parent = h /\ groups[h] # Null /\ UNCHANGED <<memos, rows>>
      /\ rows[r] \in GroupMemo
  BY RowsTyped DEF GroupP!LinkDeed
<1>2. /\ rows[r].type = "group" /\ rows[r].ref = x /\ groups[x] # Null /\ groups[x].parent = h
      /\ x \in GroupId /\ x # Root
  BY <1>1, StoreAssumption DEF StoreFacts, GroupP!RowOK, GroupP!Exists
<1>3. rows[r] = row
  BY <1>1, <1>2 DEF GroupMemo
<1> HIDE DEF x
<1>4. h \in InLists
  <2>1. GroupP!ParentShown(x)
    BY <1>2 DEF GroupP!TreeInv, GroupP!StoreTree
  <2> QED BY <1>2, <2>1, ShownInLists DEF GroupP!ParentShown, GroupP!Exists
<1>5. x \notin InLists /\ x # h
  <2>1. ~Linked(r)
    BY LinkedBy
  <2>2. ASSUME NEW q \in RowId, rows[q] # Null, rows[q].typeId = x PROVE q = r
    BY <1>1, <1>2, <2>2 DEF GroupP!TreeInv, GroupP!StoreTree, GroupP!OneRow, x
  <2>3. ~Listed(x)
    BY <2>1, <2>2 DEF Listed, RowsOf
  <2> QED BY <1>2, <1>4, <2>3 DEF InLists
<1>6. groups[x].groupMemos = <<>>
  BY <1>2, <1>5, NewGroupEmpty
<1>7. \A id : Listed(id)' <=> (Listed(id) \/ id = x)
  BY LinkedBy DEF x
<1>8. RowsSeen[r] = Null /\ RowsSeen' = [RowsSeen EXCEPT ![r] = row]
  <2>1. rows[r].ref # Root
    BY <1>2
  <2> QED BY <1>3, <2>1, RowArrives
<1>9. UNCHANGED MemosSeen
  <2>1. \A m \in MemoId : m # x
    BY <1>2, StoreAssumption
  <2> QED BY <1>1, <1>7, <2>1 DEF MemosSeen
<1>10. \A g \in GroupId : g \in InLists' <=> (g \in InLists \/ g = x)
  BY <1>2, <1>7, LinkedBy DEF InLists
<1>11. /\ GroupsSeen[h] # Null /\ GroupsSeen[x] = Null
       /\ GroupsSeen' = [GroupsSeen EXCEPT ![h].groupMemos = Append(@, r), ![x] = new]
  <2>1. /\ GroupsSeen[h] = SeenGroup(groups[h].parent, groups[h].groupMemos) /\ GroupsSeen[h] # Null
        /\ GroupsSeen'[h] = SeenGroup(groups'[h].parent, groups'[h].groupMemos)
    <3>1. h \in InLists'
      BY <1>4, <1>10
    <3>2. GroupsSeen'[h] = SeenGroup(groups'[h].parent, groups'[h].groupMemos)
      BY <3>1 DEF GroupsSeen, SeenGroup
    <3>3. GroupsSeen[h] = SeenGroup(groups[h].parent, groups[h].groupMemos) /\ GroupsSeen[h] # Null
      BY <1>4, GroupSeen
    <3> QED BY <3>2, <3>3
  <2>2. groups'[h].parent = groups[h].parent /\ groups'[h].groupMemos = Append(groups[h].groupMemos, r)
    BY <1>1, LinkedBy
  <2>3. GroupsSeen'[h] = [GroupsSeen[h] EXCEPT !.groupMemos = Append(@, r)]
    BY <2>1, <2>2, SeenAppend
  <2>4. GroupsSeen[x] = Null
    BY <1>2, <1>5 DEF GroupsSeen
  <2>5. GroupsSeen'[x] = new
    <3>1. x \in InLists' /\ groups'[x] = groups[x]
      BY <1>2, <1>5, <1>10, LinkedBy
    <3> QED BY <1>2, <1>6, <3>1 DEF GroupsSeen
  <2>6. ASSUME NEW g \in GroupId \ {h, x} PROVE GroupsSeen'[g] = GroupsSeen[g]
    <3>1. groups'[g] = groups[g] /\ (g \in InLists' <=> g \in InLists)
      BY <1>10, LinkedBy
    <3> QED BY <3>1 DEF GroupsSeen
  <2>7. GroupsSeen' = [g \in GroupId |-> GroupsSeen'[g]] /\ GroupsSeen = [g \in GroupId |-> GroupsSeen[g]]
    BY DEF GroupsSeen
  <2> HIDE DEF new
  <2>8. GroupsSeen' = [GroupsSeen EXCEPT ![h].groupMemos = Append(@, r), ![x] = new]
    BY <1>2, <1>5, <2>3, <2>5, <2>6, <2>7
  <2> QED BY <2>1, <2>4, <2>8
<1>12. /\ GroupsSeen[h] # Null /\ GroupsSeen[x] = Null /\ RowsSeen[r] = Null
       /\ GroupsSeen' = [GroupsSeen EXCEPT ![h].groupMemos = Append(@, r), ![x] = new]
       /\ RowsSeen' = [RowsSeen EXCEPT ![r] = row] /\ UNCHANGED MemosSeen
  BY <1>8, <1>9, <1>11
<1> QED BY <1>2, <1>12 DEF Seen!AddGroup, Seen!nav, browser

\* So what an editor does is a step of the browser's specification, or not seen.
LEMMA LinkSeen ==
  ASSUME EditorsInv, EditorsInv', NEW h \in GroupId, NEW r \in RowId, GroupP!LinkDeed(h, r),
         UNCHANGED browser
  PROVE  Seen!AddGroup \/ Seen!AddMemo
<1>1. StoreFacts
  BY EditorsFacts
<1>2. GroupP!TreeInv
  BY DEF EditorsInv, NoGroups, GroupP!LinkDeed
<1>3. groups'[h] # Null /\ groups'[h].groupMemos = Append(groups[h].groupMemos, r) /\ rows' = rows
  BY <1>1, LinkedBy DEF GroupP!LinkDeed
<1>4. GroupP!TreeInv'
  BY <1>3 DEF EditorsInv, NoGroups
<1>5. rows[r].typeId # Null
  <2>1. groups[h].groupMemos \in Seq(RowId)
    BY <1>1 DEF StoreFacts, StoreTypeOK, Group, GroupP!LinkDeed
  <2> DEFINE list == groups[h].groupMemos
             n == Len(list) + 1
  <2>2. n \in DOMAIN Append(list, r) /\ Append(list, r)[n] = r
    BY <2>1
  <2> HIDE DEF n
  <2>3. n \in DOMAIN groups'[h].groupMemos /\ groups'[h].groupMemos[n] = r
    BY <1>3, <2>2
  <2>4. GroupP!ListOK(h)'
    BY <1>4 DEF GroupP!TreeInv, GroupP!StoreTree
  <2> QED BY <1>3, <2>3, <2>4 DEF GroupP!ListOK, GroupP!Exists
<1>6. rows[r].typeId \in MemoId \/ rows[r].typeId \in GroupId \ {Root}
  BY <1>1, <1>5 DEF StoreFacts, GroupP!RowOK, GroupP!LinkDeed
<1> QED BY <1>1, <1>2, <1>6, MemoArrives, GroupArrives

LEMMA StoreSame ==
  ASSUME UNCHANGED store PROVE UNCHANGED <<GroupsSeen, RowsSeen, MemosSeen>>
BY DEF store, GroupsSeen, RowsSeen, MemosSeen, InLists, Listed, RowsOf, Linked

LEMMA NotSeen ==
  ASSUME UNCHANGED <<GroupsSeen, RowsSeen, MemosSeen, browser>> PROVE UNCHANGED Seen!vars
BY DEF Seen!vars, Seen!store, Seen!nav, browser

LEMMA QuietStep ==
  ASSUME EditorsInv, EditorsInv', groups[Root] # Null, MemoP!QuietDeed, UNCHANGED browser
  PROVE  UNCHANGED Seen!vars
<1>1. StoreFacts /\ StoreFacts'
  BY EditorsFacts, PTL
<1> QED BY <1>1, QuietUnseen, NotSeen

LEMMA MemoStepSeen ==
  ASSUME EditorsInv, EditorsInv', [MemoP!Next]_(MemoP!vars), UNCHANGED browser
  PROVE  [Seen!Next]_(Seen!vars)
<1>1. CASE NoGroups
  <2>1. MemoP!Named({}) /\ MemoP!IInv
    BY <1>1, EmptyLists DEF EditorsInv, MemoP!LinkedInv
  <2>2. UNCHANGED store
    BY <2>1, MemoAssumptions, MemoP!NothingYet DEF MemoP!store, store
  <2> QED BY <2>2, StoreSame, NotSeen
<1>2. CASE GroupP!TreeInv
  <2>1. groups[Root] # Null
    BY <1>2 DEF GroupP!TreeInv, GroupP!StoreTree, GroupP!Exists
  <2>2. MemoP!QuietDeed \/ \E h \in GroupId, r \in RowId : MemoP!LinkDeed(h, r)
    BY MemoAssumptions, MemoP!NextLinks DEF EditorsInv, MemoP!LinkedInv
  <2>3. CASE MemoP!QuietDeed
    BY <2>1, <2>3, QuietStep
  <2>4. ASSUME NEW h \in GroupId, NEW r \in RowId, MemoP!LinkDeed(h, r) PROVE Seen!Next
    <3>1. GroupP!LinkDeed(h, r)
      BY <2>4 DEF MemoP!LinkDeed, GroupP!LinkDeed, MemoP!Contains, GroupP!Contains
    <3> QED BY <3>1, LinkSeen DEF Seen!Next
  <2> QED BY <2>2, <2>3, <2>4
<1> QED BY <1>1, <1>2 DEF EditorsInv

LEMMA GroupStepSeen ==
  ASSUME EditorsInv, EditorsInv', [GroupP!Next]_(GroupP!vars), UNCHANGED browser
  PROVE  [Seen!Next]_(Seen!vars)
<1>1. CASE NoGroups
  <2>1. UNCHANGED store
    BY <1>1, GroupAssumptions, GroupP!NothingYet DEF EditorsInv, NoGroups, GroupP!store, store
  <2> QED BY <2>1, StoreSame, NotSeen
<1>2. CASE GroupP!TreeInv
  <2>1. groups[Root] # Null
    BY <1>2 DEF GroupP!TreeInv, GroupP!StoreTree, GroupP!Exists
  <2>2. GroupP!QuietDeed \/ \E h \in GroupId, r \in RowId : GroupP!LinkDeed(h, r)
    BY GroupAssumptions, GroupP!NextLinks DEF EditorsInv
  <2>3. GroupP!QuietDeed => MemoP!QuietDeed
    BY DEF GroupP!QuietDeed, MemoP!QuietDeed
  <2> QED BY <2>1, <2>2, <2>3, QuietStep, LinkSeen DEF Seen!Next
<1> QED BY <1>1, <1>2 DEF EditorsInv

\* The browser's own steps are the same on what it sees: it only follows lists.
LEMMA StoreFree ==
  /\ Browsing!Start /\ UNCHANGED Seen!store => Seen!Start
  /\ Browsing!InitFragmentSettings /\ UNCHANGED Seen!store => Seen!InitFragmentSettings
  /\ Browsing!BackPressed /\ UNCHANGED Seen!store => Seen!BackPressed
  /\ Browsing!Recreate /\ UNCHANGED Seen!store => Seen!Recreate
  /\ Browsing!Kill /\ UNCHANGED Seen!store => Seen!Kill
<1>1. Browsing!Start /\ UNCHANGED Seen!store => Seen!Start
  BY DEF Browsing!Start, Seen!Start, Browsing!nav, Seen!nav, Seen!store
<1>2. Browsing!InitFragmentSettings /\ UNCHANGED Seen!store => Seen!InitFragmentSettings
  BY DEF Browsing!InitFragmentSettings, Seen!InitFragmentSettings, Browsing!ShowLast, Seen!ShowLast,
         Browsing!Last, Seen!Last, Seen!store
<1>3. Browsing!BackPressed /\ UNCHANGED Seen!store => Seen!BackPressed
  BY DEF Browsing!BackPressed, Seen!BackPressed, Browsing!Click, Seen!Click, Browsing!Idle, Seen!Idle,
         Browsing!ShowLast, Seen!ShowLast, Browsing!Last, Seen!Last, Browsing!Front, Seen!Front,
         Browsing!Gone, Seen!Gone, Seen!store
<1>4. Browsing!Recreate /\ UNCHANGED Seen!store => Seen!Recreate
  BY DEF Browsing!Recreate, Seen!Recreate, Browsing!Idle, Seen!Idle, Browsing!Gone, Seen!Gone, Seen!store
<1>5. Browsing!Kill /\ UNCHANGED Seen!store => Seen!Kill
  BY DEF Browsing!Kill, Seen!Kill, Browsing!Gone, Seen!Gone, Seen!store
<1> QED BY <1>1, <1>2, <1>3, <1>4, <1>5

LEMMA SeenStore ==
  ASSUME UNCHANGED store PROVE UNCHANGED Seen!store
BY StoreSame DEF Seen!store

\* initRootGroup finds no group in the file just when there is none to be seen.
LEMMA RootSeen ==
  ASSUME AppInv, Browsing!InitRootGroup PROVE Seen!InitRootGroup
<1>1. EditorsInv /\ StoreFacts
  BY EditorsFacts DEF AppInv
<1>2. Root \in GroupId /\ RootRow \in RowId /\ Null \notin GroupId /\ Null \notin MemoId
  BY AndroidAssumption, StoreAssumption
<1>3. CASE \E g \in GroupId : groups[g] # Null
  <2>1. UNCHANGED store
    BY <1>3 DEF Browsing!InitRootGroup, store
  <2>2. Root \in InLists
    BY <1>1, <1>2, <1>3 DEF EditorsInv, NoGroups, GroupP!TreeInv, GroupP!StoreTree, GroupP!Exists,
                            InLists
  <2>3. GroupsSeen[Root] # Null
    BY <1>1, <2>2, GroupSeen
  <2>4. UNCHANGED <<GroupsSeen, RowsSeen, MemosSeen>>
    BY <2>1, StoreSame
  <2> QED BY <1>2, <2>3, <2>4 DEF Seen!InitRootGroup, Browsing!InitRootGroup, Seen!nav, Browsing!nav
<1>4. CASE \A g \in GroupId : groups[g] = Null
  <2>1. NoGroups
    BY <1>1, <1>2, <1>4 DEF EditorsInv, NoGroups, GroupP!TreeInv, GroupP!StoreTree, GroupP!Exists
  <2> DEFINE root == [parent |-> Null, title |-> Empty, tags |-> <<>>, groupMemos |-> <<>>]
             row == [type |-> "group", parent |-> Root, typeId |-> Null, ref |-> Root]
  <2>2. /\ groups' = [groups EXCEPT ![Root] = root] /\ rows' = [rows EXCEPT ![RootRow] = row]
        /\ groups \in [GroupId -> Group \cup {Null}] /\ rows \in [RowId -> GroupMemo \cup {Null}]
    BY <1>1, <1>4 DEF Browsing!InitRootGroup, StoreFacts, StoreTypeOK
  <2>3. /\ root \in Group /\ root.parent = Null /\ root.groupMemos = <<>>
        /\ row \in GroupMemo /\ row.typeId = Null /\ row.ref = Root
    BY <1>2, StoreAssumption DEF Group, GroupMemo
  <2>4. root = SeenGroup(Null, <<>>)
    BY DEF SeenGroup
  <2> HIDE DEF root, row
  <2>5. /\ groups'[Root] = root /\ root # Null /\ \A g \in GroupId \ {Root} : groups'[g] = Null
        /\ rows'[RootRow] = row /\ row # Null /\ \A r \in RowId \ {RootRow} : rows'[r] = Null
    BY <1>2, <2>1, <2>2, <2>3, StoreAssumption DEF NoGroups
  <2>6. \A r \in RowId : rows[r] = Null
    BY <2>1 DEF NoGroups
  <2>7. \A id : ~Listed(id) /\ (id # Null => ~Listed(id)')
    BY <2>3, <2>5, <2>6 DEF Listed, RowsOf
  <2>8. InLists = {} /\ \A g \in GroupId : g \in InLists' <=> g = Root
    BY <1>2, <2>1, <2>5, <2>7, EmptyLists DEF InLists
  <2>9. GroupsSeen = [g \in GroupId |-> Null]
    BY <2>8 DEF GroupsSeen
  <2>10. GroupsSeen' = [GroupsSeen EXCEPT ![Root] = root]
    <3>1. GroupsSeen'[Root] = root
      BY <1>2, <2>3, <2>4, <2>5, <2>8 DEF GroupsSeen, SeenGroup
    <3>2. \A g \in GroupId \ {Root} : GroupsSeen'[g] = Null
      BY <2>8 DEF GroupsSeen
    <3>3. GroupsSeen' = [g \in GroupId |-> GroupsSeen'[g]]
      BY DEF GroupsSeen
    <3> QED BY <1>2, <2>9, <3>1, <3>2, <3>3
  <2>11. RowsSeen' = [RowsSeen EXCEPT ![RootRow] = row]
    <3>1. RowsSeen = [r \in RowId |-> Null]
      BY <2>6 DEF RowsSeen
    <3>2. RowsSeen'[RootRow] = row /\ \A r \in RowId \ {RootRow} : RowsSeen'[r] = Null
      BY <1>2, <2>3, <2>5 DEF RowsSeen
    <3>3. RowsSeen' = [r \in RowId |-> RowsSeen'[r]]
      BY DEF RowsSeen
    <3> QED BY <1>2, <3>1, <3>2, <3>3
  <2>12. UNCHANGED MemosSeen
    BY <1>2, <2>7 DEF MemosSeen
  <2>13. /\ \A g \in GroupId : GroupsSeen[g] = Null
         /\ GroupsSeen' = [GroupsSeen EXCEPT ![Root] =
              [parent |-> Null, title |-> Empty, tags |-> <<>>, groupMemos |-> <<>>]]
         /\ RowsSeen' = [RowsSeen EXCEPT ![RootRow] =
              [type |-> "group", parent |-> Root, typeId |-> Null, ref |-> Root]]
    BY <2>9, <2>10, <2>11 DEF root, row
  <2> QED BY <2>12, <2>13 DEF Seen!InitRootGroup, Browsing!InitRootGroup, Seen!nav, Browsing!nav
<1> QED BY <1>3, <1>4

\* The list the FragmentManager shows is seen, and so is where its group belongs.
LEMMA PendingSeen ==
  ASSUME AppInv, Browsing!ExecutePending PROVE Seen!ExecutePending
<1>1. StoreFacts /\ UNCHANGED Seen!store
  BY EditorsFacts, SeenStore DEF AppInv, Browsing!ExecutePending, Browsing!store, store
<1>2. pending \in Seq(InLists) /\ pending # <<>>
  BY Browsed DEF PathIn, Browsing!ExecutePending
<1>3. \A g \in Browsing!ToSet(pending) : g \in InLists
  BY <1>2 DEF Browsing!ToSet
<1>4. \A g \in Browsing!ToSet(pending) : groups[g] # Null /\ GroupsSeen[g] # Null
  BY <1>1, <1>3, GroupSeen DEF InLists
<1>5. Browsing!Last(pending) \in InLists
  BY <1>2 DEF Browsing!Last
<1>6. GroupsSeen[Browsing!Last(pending)].parent = groups[Browsing!Last(pending)].parent
  BY <1>1, <1>5, GroupSeen
<1>7. Browsing!ToSet(pending) = Seen!ToSet(pending) /\ Browsing!Last(pending) = Seen!Last(pending)
  BY DEF Browsing!ToSet, Seen!ToSet, Browsing!Last, Seen!Last
<1> QED BY <1>1, <1>4, <1>6, <1>7
        DEF Browsing!ExecutePending, Seen!ExecutePending, Browsing!Idle, Seen!Idle, Seen!store

\* The rows of the list on the screen are seen.
LEMMA ClickSeen ==
  ASSUME AppInv, Browsing!ClickGroup PROVE Seen!ClickGroup
<1>1. StoreFacts /\ UNCHANGED Seen!store
  BY EditorsFacts, SeenStore DEF AppInv, Browsing!ClickGroup, Browsing!store, store
<1>2. shown \in InLists
  BY Browsed DEF PathIn, Browsing!ClickGroup, Browsing!Click
<1>3. PICK r \in Browsing!ToSet(groups[shown].groupMemos) :
        rows[r].type = "group" /\ Browsing!ShowLast(Append(fragmentList, rows[r].ref))
  BY DEF Browsing!ClickGroup
<1>4. GroupsSeen[shown].groupMemos = groups[shown].groupMemos
  BY <1>1, <1>2, GroupSeen
<1>5. r \in RowId /\ r \in ToSet(groups[shown].groupMemos) /\ shown \in GroupId /\ groups[shown] # Null
  BY <1>1, <1>2, <1>3 DEF StoreFacts, StoreTypeOK, Group, InLists, Browsing!ToSet, ToSet
<1>6. RowsSeen[r] = rows[r]
  BY <1>1, <1>5, RowsInLists DEF RowsSeen
<1>7. Seen!ShowLast(Append(fragmentList, RowsSeen[r].ref)) /\ RowsSeen[r].type = "group"
  BY <1>3, <1>6 DEF Browsing!ShowLast, Seen!ShowLast, Browsing!Last, Seen!Last
<1>8. r \in Seen!ToSet(GroupsSeen[shown].groupMemos)
  BY <1>4, <1>5 DEF ToSet, Seen!ToSet
<1> QED BY <1>1, <1>7, <1>8 DEF Browsing!ClickGroup, Seen!ClickGroup, Browsing!Click, Seen!Click,
                              Browsing!Idle, Seen!Idle, Seen!store

\* What the app does in the browser is a step of the browser's specification.
LEMMA BrowserSeen ==
  ASSUME AppInv, StartApp \/ BrowserOnCreate \/ ExecutePending \/ Navigate \/ Crash
  PROVE  Seen!Next
<1>1. CASE StartApp
  <2>1. Browsing!Start /\ UNCHANGED store
    BY <1>1 DEF StartApp, Browsing!Start, Browsing!store, store
  <2> QED BY <2>1, SeenStore, StoreFree DEF Seen!Next
<1>2. CASE BrowserOnCreate
  <2>1. CASE Browsing!InitFragmentSettings
    <3>1. UNCHANGED store
      BY <2>1 DEF Browsing!InitFragmentSettings, Browsing!store, store
    <3> QED BY <2>1, <3>1, SeenStore, StoreFree DEF Seen!Next, Seen!UiThread
  <2>2. CASE Browsing!InitRootGroup
    BY <2>2, RootSeen DEF Seen!Next, Seen!UiThread
  <2> QED BY <1>2, <2>1, <2>2 DEF BrowserOnCreate
<1>3. CASE ExecutePending
  BY <1>3, PendingSeen DEF ExecutePending, Seen!Next, Seen!UiThread
<1>4. CASE Navigate
  <2>1. CASE Browsing!ClickGroup
    BY <2>1, ClickSeen DEF Seen!Next
  <2>2. CASE Browsing!BackPressed
    <3>1. UNCHANGED store
      BY <2>2 DEF Browsing!BackPressed, Browsing!store, store
    <3> QED BY <2>2, <3>1, SeenStore, StoreFree DEF Seen!Next
  <2> QED BY <1>4, <2>1, <2>2 DEF Navigate
<1>5. CASE Crash
  <2>1. Browsing!Recreate /\ UNCHANGED store
    BY <1>5 DEF Crash, Browsing!Recreate, Browsing!store, store
  <2> QED BY <2>1, SeenStore, StoreFree DEF Seen!Next
<1> QED BY <1>1, <1>2, <1>3, <1>4, <1>5

\* What it does in the editors is the arrival of a memo or a group, or not seen.
LEMMA EditorsSeen ==
  ASSUME AppInv, AppInv',
         TapMemo \/ TapAddGroup \/ Launch \/ EditMemo \/ EditGroup \/ Finish \/ MemoCallback
           \/ GroupCallback
  PROVE  [Seen!Next]_(Seen!vars)
<1>1. UNCHANGED browser
  BY DEF TapMemo, TapAddGroup, Launch, EditMemo, EditGroup, Finish, MemoCallback, GroupCallback
<1>2. MemoP!Next \/ GroupP!Next
  <2>1. CASE TapMemo \/ EditMemo \/ MemoCallback
    BY <2>1, MemoSame DEF TapMemo, EditMemo, MemoCallback, MemoP!Next, MemoP!User, MemoP!UiThread
  <2>2. CASE TapAddGroup \/ EditGroup \/ GroupCallback
    BY <2>2, GroupSame DEF TapAddGroup, EditGroup, GroupCallback, GroupP!Next
  <2>3. CASE Launch
    BY <2>3, MemoSame, GroupSame DEF Launch, MemoP!Next, MemoP!UiThread, MemoP!User, GroupP!Next
  <2>4. CASE Finish
    BY <2>4, MemoSame, GroupSame DEF Finish, MemoP!Next, MemoP!UiThread, MemoP!User, GroupP!Next
  <2> QED BY <2>1, <2>2, <2>3, <2>4
<1>3. EditorsInv /\ EditorsInv'
  BY DEF AppInv
<1> QED BY <1>1, <1>2, <1>3, MemoStepSeen, GroupStepSeen

LEMMA KillSeen ==
  ASSUME Kill PROVE [Seen!Next]_(Seen!vars)
<1>1. UNCHANGED store
  BY DEF Kill, MemoEditors!Kill, MemoEditors!store, store
<1>2. CASE running
  <2>1. Browsing!Kill
    BY <1>2 DEF Kill
  <2> QED BY <1>1, <2>1, SeenStore, StoreFree DEF Seen!Next
<1>3. CASE ~running
  BY <1>1, <1>3, StoreSame, NotSeen DEF Kill
<1> QED BY <1>2, <1>3

LEMMA SeenInit == Init => Seen!Init
<1> SUFFICES ASSUME Init PROVE Seen!Init
  OBVIOUS
<1>1. (\A g \in GroupId : groups[g] = Null) /\ (\A r \in RowId : rows[r] = Null)
  BY DEF Init, Browsing!Init
<1>2. GroupsSeen = [g \in GroupId |-> Null]
  BY <1>1 DEF GroupsSeen, InLists
<1>3. RowsSeen = [r \in RowId |-> Null]
  BY <1>1 DEF RowsSeen
<1>4. MemosSeen = [m \in MemoId |-> Null]
  BY <1>1 DEF MemosSeen, Listed, RowsOf
<1> QED BY <1>2, <1>3, <1>4 DEF Init, Browsing!Init, Seen!Init

LEMMA SeenNext == AppInv /\ AppInv' /\ [Next]_vars => [Seen!Next]_(Seen!vars)
<1> SUFFICES ASSUME AppInv, AppInv', [Next]_vars PROVE [Seen!Next]_(Seen!vars)
  OBVIOUS
<1>1. CASE UNCHANGED vars
  <2>1. UNCHANGED <<store, browser>>
    BY <1>1 DEF vars
  <2> QED BY <2>1, StoreSame, NotSeen
<1> QED BY <1>1, BrowserSeen, EditorsSeen, KillSeen DEF Next, UiThread

\* What GroupActivity shows of a file that MemoManageActivity and
\* GroupManageActivity write in four transactions per save is what it would show if
\* each new memo and each new group arrived in one step: its row in the list of one
\* group that is shown itself, naming an object that no list named before and whose
\* parent is that group, a new group with an empty list; and at no other point of a
\* save, of a callback or of a death of the process do the lists change.
THEOREM BrowserRefinement == Spec => ImplementsBrowser
<1>1. Init => Seen!Init
  BY SeenInit
<1>2. AppInv /\ AppInv' /\ [Next]_vars => [Seen!Next]_(Seen!vars)
  BY SeenNext
<1> QED BY <1>1, <1>2, Invariance, PTL DEF Spec, ImplementsBrowser, Seen!Spec
=============================================================================
