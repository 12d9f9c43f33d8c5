-------------------------- MODULE MemoManageProofs --------------------------
(***************************************************************************)
(* Theorems about the memo editor, for every set of groups, memos, tags    *)
(* and texts and every bound: its lists, and the abstract lists they       *)
(* implement; what a death costs; what the autosave keeps; and one memo    *)
(* for each editor that was started for a new one.                         *)
(*                                                                         *)
(* TypeOK is not inductive: a save writes to the memo its editor points    *)
(* to, a tap opens the memo a row points to.  IInv adds what the four      *)
(* transactions of a save establish one after the other.                   *)
(***************************************************************************)
EXTENDS MemoManage, FiniteSetTheorems, TLAPS

Written(m) == memos[m] # Null /\ memos[m].title # Null /\ memos[m].content # Null

\* The tables.  A memo has at most one row, made after the memo was written; a
\* list holds rows of its own group, each once.
RowOK(r) ==
  rows[r] # Null =>
    \/ rows[r].type = "group" /\ rows[r].ref \in GroupId /\ rows[r].typeId \notin MemoId
    \/ /\ rows[r].type = "memo" /\ rows[r].ref \in MemoId
       /\ rows[r].typeId = rows[r].ref
       /\ Written(rows[r].ref)
       /\ memos[rows[r].ref].parent = rows[r].parent

OneRow == \A r, q \in RowId :
  /\ rows[r] # Null /\ rows[q] # Null
  /\ rows[r].typeId \in MemoId /\ rows[r].typeId = rows[q].typeId
  => r = q

ListOK(g) ==
  groups[g] # Null =>
    /\ IsInjective(groups[g].groupMemos)
    /\ \A i \in DOMAIN groups[g].groupMemos :
         /\ rows[groups[g].groupMemos[i]] # Null
         /\ rows[groups[g].groupMemos[i]].parent = g

StoreInv == /\ \A r \in RowId : RowOK(r)
            /\ OneRow
            /\ \A g \in GroupId : ListOK(g)

\* The Intents and the editors made from them.
IntentOK(i) ==
  /\ groups[i.parent] # Null
  /\ i.memoId # Null => memos[i.memoId] # Null /\ memos[i.memoId].parent = i.parent

EditorOK(e) ==
  /\ IntentOK(e.intent)
  /\ e.memo \in {Null, e.memoId}
  /\ e.memoId # Null =>
       memos[e.memoId] # Null /\ memos[e.memoId].parent = e.intent.parent
  /\ e.groupMemo # Null =>
       e.memoId # Null /\ rows[e.groupMemo] # Null /\ rows[e.groupMemo].typeId = e.memoId

\* The save in progress, transaction by transaction.
SaveOK ==
  /\ save.step = "create" =>
       /\ editor.memo = Null /\ editor.memoId = Null
       /\ save.title # Null /\ save.content # Null
  /\ save.step \in {"write", "row", "link"} => editor.memo # Null
  /\ save.step = "write" =>
       /\ memos[editor.memo] # Null
       /\ Given(save.title, memos[editor.memo].title) # Null
       /\ Given(save.content, memos[editor.memo].content) # Null
  /\ save.step \in {"row", "link"} => Written(editor.memo)
  /\ save.step = "link" => editor.groupMemo # Null

WorkOK == \A i \in DOMAIN work :
  work[i].op = "remove" => Len(work) = 1 /\ save = NoSave /\ editor.tags # <<>>

UiInv == /\ editor # Null => EditorOK(editor)
         /\ \A i \in DOMAIN below : EditorOK(below[i])
         /\ \A i \in DOMAIN starting : IntentOK(starting[i])
         /\ SaveOK
         /\ WorkOK

IInv == TypeOK /\ StoreInv /\ UiInv

-----------------------------------------------------------------------------
(* Steps that leave the tables as they are. *)

LEMMA SaveAfterCheckOK ==
  ASSUME TypeOK, NEW e \in Editor, EditorOK(e),
         save = NoSave, SaveAfterCheck(e), UNCHANGED store
  PROVE  /\ editor' \in Editor /\ editor'.tags = e.tags
         /\ EditorOK(editor)'
         /\ save' \in Saving /\ SaveOK'
<1>1. /\ e.title \in Text /\ e.content \in Text /\ e.tags \in Seq(Tag)
      /\ e.memoId \in MemoId \cup {Null} /\ e.memo \in MemoId \cup {Null}
      /\ Null \notin Text
  BY StoreAssumption DEF Editor
<1>2. CASE e.memo = Null
  <2>1. Save(e, e.title, e.content, e.tags)
    BY <1>2 DEF SaveAfterCheck
  <2>2. editor' = [e EXCEPT !.memo = e.memoId]
    BY <2>1, <1>2 DEF Save, Editor
  <2>3. save' \in Saving
    BY <2>1, <1>1 DEF Save, Saving
  <2>4. EditorOK(editor)'
    BY <2>2, <1>2 DEF EditorOK, IntentOK, Editor, store
  <2>5. SaveOK'
    <3>1. CASE e.memoId = Null
      BY <2>1, <2>2, <3>1, <1>1, <1>2 DEF Save, SaveOK, Editor
    <3>2. CASE e.memoId # Null
      <4>1. save'.step = "write" /\ editor'.memo = e.memoId /\ memos[e.memoId] # Null
        BY <2>1, <2>2, <3>2, <1>2 DEF Save, Editor, EditorOK
      <4>2. save'.title = e.title /\ save'.content = e.content
        BY <2>1 DEF Save
      <4> QED BY <4>1, <4>2, <3>2, <1>1 DEF SaveOK, Given, store
    <3> QED BY <3>1, <3>2
  <2> QED BY <2>2, <2>3, <2>4, <2>5, <1>1 DEF Editor
<1>3. CASE e.memo # Null
  <2> DEFINE title == IfChanged(e.title, memos[e.memo].title)
             content == IfChanged(e.content, memos[e.memo].content)
             tags == IfChanged(e.tags, memos[e.memo].tags)
  <2>1. \/ editor' = e /\ UNCHANGED save
        \/ Save(e, title, content, tags)
    BY <1>3 DEF SaveAfterCheck
  <2>2. CASE editor' = e /\ UNCHANGED save
    <3>1. EditorOK(editor)'
      BY <2>2 DEF EditorOK, IntentOK, store
    <3>2. save' \in Saving /\ SaveOK'
      BY <2>2 DEF SaveOK, NoSave, Saving
    <3> QED BY <2>2, <3>1, <3>2
  <2>3. CASE Save(e, title, content, tags)
    <3>1. editor' = e
      BY <2>3, <1>3 DEF Save, Editor
    <3>2. /\ title \in Text \cup {Null} /\ content \in Text \cup {Null}
          /\ tags \in Seq(Tag) \cup {Null}
      BY <1>1 DEF IfChanged
    <3>3. save' \in Saving
      BY <2>3, <3>2 DEF Save, Saving
    <3>4. /\ memos[e.memo] # Null
          /\ Given(title, memos[e.memo].title) # Null
          /\ Given(content, memos[e.memo].content) # Null
      BY <1>1, <1>3 DEF IfChanged, Given, EditorOK
    <3>5. EditorOK(editor)'
      BY <3>1 DEF EditorOK, IntentOK, store
    <3>6. SaveOK'
      BY <2>3, <1>3, <3>1, <3>4 DEF SaveOK, Save, store
    <3> QED BY <3>1, <3>3, <3>5, <3>6
  <2> QED BY <2>1, <2>2, <2>3
<1> QED BY <1>2, <1>3

\* What holds of the tables, an Intent or an editor does while they stay.
LEMMA StoreUnchanged ==
  ASSUME UNCHANGED store
  PROVE  /\ StoreTypeOK => StoreTypeOK'
         /\ StoreInv => StoreInv'
         /\ \A i : IntentOK(i) => IntentOK(i)'
         /\ \A e : EditorOK(e) => EditorOK(e)'
<1>1. StoreTypeOK => StoreTypeOK'
  BY DEF store, StoreTypeOK
<1>2. StoreInv => StoreInv'
  BY DEF store, StoreInv, RowOK, OneRow, ListOK, Written
<1>3. \A i : IntentOK(i) => IntentOK(i)'
  BY DEF store, IntentOK
<1>4. \A e : EditorOK(e) => EditorOK(e)'
  BY <1>3 DEF store, EditorOK, IntentOK
<1> QED BY <1>1, <1>2, <1>3, <1>4

\* A step of a callback keeps IInv when it leaves a good editor and save.
LEMMA ContinueInv ==
  ASSUME IInv, NEW op, Continue(op),
         editor' \in Editor, EditorOK(editor)', save' \in Saving, SaveOK'
  PROVE  IInv' /\ editor' \in Editor
<1>1. UNCHANGED store /\ UNCHANGED <<below, starting, creates, kills, shared>>
  BY DEF Continue
<1>2. work \in Seq(Op) /\ work # <<>> /\ work' = Tail(work)
  BY DEF Continue, IInv, TypeOK
<1>3. TypeOK'
  <2>1. work' \in Seq(Op)
    BY <1>2
  <2>2. editor' # Null
    BY EditorAssumption
  <2> QED BY <1>1, <2>1, <2>2, StoreUnchanged DEF IInv, TypeOK
<1>4. StoreInv'
  BY <1>1, StoreUnchanged DEF IInv
<1>5. WorkOK'
  <2> SUFFICES ASSUME NEW i \in DOMAIN work', work'[i].op = "remove"
               PROVE  FALSE
    BY DEF WorkOK
  <2>1. i + 1 \in DOMAIN work /\ work'[i] = work[i + 1] /\ Len(work) # 1
    BY <1>2
  <2> QED BY <2>1 DEF IInv, UiInv, WorkOK
<1>6. /\ \A i \in DOMAIN below : EditorOK(below[i])'
      /\ \A i \in DOMAIN starting : IntentOK(starting[i])'
  BY <1>1, StoreUnchanged DEF IInv, UiInv
<1> QED BY <1>1, <1>3, <1>4, <1>5, <1>6 DEF IInv, UiInv

\* A step of a callback that ends in saveAfterCheck.
LEMMA SaveStepInv ==
  ASSUME IInv, NEW op, Continue(op), NEW e \in Editor, EditorOK(e), SaveAfterCheck(e)
  PROVE  IInv' /\ editor' \in Editor
<1>1. save = NoSave /\ UNCHANGED store /\ TypeOK
  BY DEF Continue, IInv
<1> QED BY <1>1, SaveAfterCheckOK, ContinueInv

\* While a callback runs, the editor in front is there and in order.
LEMMA RunningEditor ==
  ASSUME IInv, work # <<>> \/ save # NoSave
  PROVE  /\ editor \in Editor /\ EditorOK(editor) /\ editor # Null
         /\ editor.intent \in Intent /\ groups[editor.intent.parent] \in Group
         /\ editor.memoId \in MemoId \cup {Null} /\ editor.tags \in Seq(Tag)
<1>1. editor \in Editor /\ editor # Null /\ EditorOK(editor)
  BY DEF IInv, TypeOK, UiInv
<1> QED BY <1>1 DEF IInv, TypeOK, StoreTypeOK, EditorOK, IntentOK, Editor, Intent

\* An editor stays in order when only its texts and tags change.
LEMMA EditedEditor ==
  ASSUME NEW e \in Editor, EditorOK(e)
  PROVE  /\ \A t \in Text : /\ [e EXCEPT !.title = t] \in Editor
                           /\ EditorOK([e EXCEPT !.title = t])
         /\ \A t \in Text : /\ [e EXCEPT !.content = t] \in Editor
                           /\ EditorOK([e EXCEPT !.content = t])
         /\ \A s \in Seq(Tag) : /\ [e EXCEPT !.tags = s] \in Editor
                               /\ EditorOK([e EXCEPT !.tags = s])
BY DEF Editor, EditorOK, IntentOK, Intent

LEMMA CallbackInv ==
  ASSUME IInv,
         \/ SetGroupTags \/ ModeEdit \/ Subscribe \/ TitleChanged \/ ContentChanged
         \/ AddTag \/ SortTags \/ RemoveTag
  PROVE  IInv' /\ editor' \in Editor
<1>0. work \in Seq(Op) /\ work # <<>> /\ save = NoSave
  BY DEF IInv, TypeOK, SetGroupTags, ModeEdit, Subscribe, TitleChanged, ContentChanged,
         AddTag, SortTags, RemoveTag, Continue
<1>a. /\ editor \in Editor /\ EditorOK(editor) /\ editor # Null
      /\ editor.intent \in Intent /\ groups[editor.intent.parent] \in Group
      /\ editor.memoId \in MemoId \cup {Null} /\ editor.tags \in Seq(Tag)
  BY <1>0, RunningEditor
<1>b. Head(work) \in Op
  BY <1>0
<1>c. ASSUME UNCHANGED <<editor, save>> PROVE editor' \in Editor /\ save' \in Saving /\ SaveOK'
  BY <1>0, <1>a, <1>c DEF NoSave, Saving, SaveOK
<1>1. CASE SetGroupTags
  BY <1>1, <1>a, EditedEditor, SaveStepInv DEF SetGroupTags, Group, Editor
<1>2. CASE ModeEdit
  <2>1. CASE editor.memoId = Null
    <3>1. UNCHANGED <<editor, save, store>> /\ Continue("edit")
      BY <1>2, <2>1 DEF ModeEdit, Continue
    <3>2. EditorOK(editor)'
      BY <3>1, <1>a DEF EditorOK, IntentOK, store
    <3> QED BY <3>1, <3>2, <1>c, ContinueInv
  <2>2. CASE editor.memoId # Null
    <3> DEFINE m == editor.memoId
               Shown(text) == IF text = Null THEN Empty ELSE text
               e == [editor EXCEPT !.memo = m, !.title = Shown(memos[m].title),
                                   !.content = Shown(memos[m].content),
                                   !.tags = memos[m].tags]
    <3>1. memos[m] \in Memo
      BY <1>a, <2>2 DEF EditorOK, IInv, TypeOK, StoreTypeOK
    <3>2. /\ Shown(memos[m].title) \in Text /\ Shown(memos[m].content) \in Text
          /\ memos[m].tags \in Seq(Tag) /\ m \in MemoId
      BY <3>1, <1>a, <2>2, StoreAssumption DEF Memo
    <3>3. e \in Editor /\ EditorOK(e)
      BY <3>2, <1>a DEF Editor, EditorOK, IntentOK, Intent
    <3>4. Continue("edit") /\ SaveAfterCheck(e)
      BY <1>2, <2>2 DEF ModeEdit
    <3> QED BY <3>3, <3>4, SaveStepInv
  <2> QED BY <2>1, <2>2
<1>3. CASE Subscribe
  BY <1>3, <1>a, SaveStepInv DEF Subscribe
<1>4. CASE TitleChanged
  <2>1. Head(work).val \in Text
    BY <1>4, <1>b DEF TitleChanged, Continue, Op
  <2> QED BY <1>4, <2>1, <1>a, EditedEditor, SaveStepInv DEF TitleChanged, Editor
<1>5. CASE ContentChanged
  <2>1. Head(work).val \in Text
    BY <1>5, <1>b DEF ContentChanged, Continue, Op
  <2> QED BY <1>5, <2>1, <1>a, EditedEditor, SaveStepInv DEF ContentChanged, Editor
<1>6. CASE AddTag
  <2> DEFINE tag == Head(work).val
  <2>1. tag \in Tag \cup {Blank}
    BY <1>6, <1>b DEF AddTag, Continue, Op
  <2>2. CASE tag = Blank \/ Contains(editor.tags, tag)
    <3>1. UNCHANGED <<editor, save, store>> /\ Continue("add")
      BY <1>6, <2>2 DEF AddTag, Continue
    <3>2. EditorOK(editor)'
      BY <3>1, <1>a DEF EditorOK, IntentOK, store
    <3> QED BY <3>1, <3>2, <1>c, ContinueInv
  <2>3. CASE ~(tag = Blank \/ Contains(editor.tags, tag))
    <3>1. Continue("add") /\ SaveAfterCheck([editor EXCEPT !.tags = Append(editor.tags, tag)])
      BY <1>6, <2>3 DEF AddTag
    <3>2. Append(editor.tags, tag) \in Seq(Tag)
      BY <2>1, <2>3, <1>a
    <3>3. /\ [editor EXCEPT !.tags = Append(editor.tags, tag)] \in Editor
          /\ EditorOK([editor EXCEPT !.tags = Append(editor.tags, tag)])
      BY <3>2, <1>a, EditedEditor
    <3> QED BY <3>1, <3>3, SaveStepInv
  <2> QED BY <2>2, <2>3
<1>7. CASE SortTags
  <2>1. PICK p \in Bijection(DOMAIN editor.tags, DOMAIN editor.tags) :
          SaveAfterCheck([editor EXCEPT !.tags =
            [i \in DOMAIN editor.tags |-> editor.tags[p[i]]]])
    BY <1>7 DEF SortTags
  <2>2. p \in [DOMAIN editor.tags -> DOMAIN editor.tags]
    BY DEF Bijection, Injection
  <2>3. [i \in DOMAIN editor.tags |-> editor.tags[p[i]]] \in Seq(Tag)
    <3>1. Len(editor.tags) \in Nat /\ DOMAIN editor.tags = 1..Len(editor.tags)
      BY <1>a
    <3>2. \A i \in 1..Len(editor.tags) : editor.tags[p[i]] \in Tag
      BY <2>2, <1>a
    <3> QED BY <3>1, <3>2
  <2>4. /\ [editor EXCEPT !.tags = [i \in DOMAIN editor.tags |-> editor.tags[p[i]]]] \in Editor
        /\ EditorOK([editor EXCEPT !.tags = [i \in DOMAIN editor.tags |-> editor.tags[p[i]]]])
    BY <2>3, <1>a, EditedEditor
  <2>5. Continue("sort")
    BY <1>7 DEF SortTags
  <2> QED BY <2>1, <2>4, <2>5, SaveStepInv
<1>8. CASE RemoveTag
  <2>1. editor.tags # <<>>
    BY <1>8, <1>0 DEF RemoveTag, Continue, IInv, UiInv, WorkOK
  <2>2. Tail(editor.tags) \in Seq(Tag)
    BY <2>1, <1>a
  <2>3. /\ [editor EXCEPT !.tags = Tail(editor.tags)] \in Editor
        /\ EditorOK([editor EXCEPT !.tags = Tail(editor.tags)])
    BY <2>2, <1>a, EditedEditor
  <2> QED BY <1>8, <2>3, SaveStepInv DEF RemoveTag
<1> QED BY <1>1, <1>2, <1>3, <1>4, <1>5, <1>6, <1>7, <1>8

\* A new or recreated editor starts onCreate in order.
LEMMA FreshEditor ==
  ASSUME NEW i \in Intent, IntentOK(i)
  PROVE  /\ NewEditor(i) \in Editor /\ EditorOK(NewEditor(i)) /\ NewEditor(i) # Null
         /\ OnCreate(i) \in Seq(Op)
         /\ \A k \in DOMAIN OnCreate(i) : OnCreate(i)[k].op # "remove"
<1>1. NewEditor(i) \in Editor /\ EditorOK(NewEditor(i))
  BY StoreAssumption DEF NewEditor, Editor, EditorOK, IntentOK, Intent
<1>2. /\ Do("set") \in Op /\ Do("edit") \in Op /\ Do("subscribe") \in Op
      /\ Do("set").op = "set" /\ Do("edit").op = "edit" /\ Do("subscribe").op = "subscribe"
  BY DEF Do, Op
<1>3. OnCreate(i) = <<Do("set"), Do("edit"), Do("subscribe")>>
        \/ OnCreate(i) = <<Do("edit"), Do("subscribe")>>
  BY DEF OnCreate
<1>4. CASE OnCreate(i) = <<Do("set"), Do("edit"), Do("subscribe")>>
  BY <1>1, <1>2, <1>4, EditorAssumption
<1>5. CASE OnCreate(i) = <<Do("edit"), Do("subscribe")>>
  BY <1>1, <1>2, <1>5, EditorAssumption
<1> QED BY <1>3, <1>4, <1>5

\* Steps of the user and launches, which leave the tables and start a callback.
LEMMA DispatchInv ==
  ASSUME IInv, UNCHANGED store, save = NoSave, UNCHANGED save,
         editor' \in Editor \cup {Null}, editor' # Null => EditorOK(editor'),
         below' \in Seq(Editor), \A i \in DOMAIN below' : EditorOK(below'[i]),
         starting' \in Seq(Intent), \A i \in DOMAIN starting' : IntentOK(starting'[i]),
         work' \in Seq(Op), work' # <<>> => editor' # Null,
         \A i \in DOMAIN work' : work'[i].op = "remove" =>
           Len(work') = 1 /\ editor'.tags # <<>>,
         creates' \in Nat, UNCHANGED kills, shared' \subseteq MemoId
  PROVE  IInv'
<1>1. TypeOK'
  BY StoreUnchanged DEF IInv, TypeOK
<1>2. StoreInv'
  BY StoreUnchanged DEF IInv
<1>3. SaveOK' /\ WorkOK'
  BY DEF SaveOK, WorkOK, NoSave
<1>4. /\ editor' # Null => EditorOK(editor)'
      /\ \A i \in DOMAIN below' : EditorOK(below[i])'
      /\ \A i \in DOMAIN starting' : IntentOK(starting[i])'
  BY DEF EditorOK, IntentOK, store
<1> QED BY <1>1, <1>2, <1>3, <1>4 DEF IInv, UiInv

LEMMA StartInv ==
  ASSUME IInv, NEW i \in Intent, IntentOK(i), Start(i), creates' \in Nat
  PROVE  IInv'
<1>1. starting \in Seq(Intent) /\ \A k \in DOMAIN starting : IntentOK(starting[k])
  BY DEF IInv, TypeOK, UiInv
<1>2. starting' = Append(starting, i)
  BY DEF Start
<1>3. starting' \in Seq(Intent) /\ \A k \in DOMAIN starting' : IntentOK(starting'[k])
  BY <1>1, <1>2
<1> QED BY <1>3, DispatchInv DEF Start, AtRest, IInv, TypeOK, UiInv

LEMMA EventInv ==
  ASSUME IInv, NEW ops \in Seq(Op), Event(ops),
         \A i \in DOMAIN ops : ops[i].op = "remove" => Len(ops) = 1 /\ editor.tags # <<>>
  PROVE  IInv'
BY DispatchInv DEF Event, AtRest, IInv, TypeOK, UiInv

LEMMA UserInv ==
  ASSUME IInv, User \/ Launch
  PROVE  IInv'
<1>1. CASE TapAddMemo
  <2>1. PICK g \in GroupId :
          groups[g] # Null /\ Start([mode |-> "create", parent |-> g, memoId |-> Null])
    BY <1>1 DEF TapAddMemo
  <2>2. creates' \in Nat
    BY <1>1 DEF TapAddMemo, IInv, TypeOK
  <2>3. /\ [mode |-> "create", parent |-> g, memoId |-> Null] \in Intent
        /\ IntentOK([mode |-> "create", parent |-> g, memoId |-> Null])
    BY <2>1 DEF Intent, IntentOK
  <2> QED BY <2>1, <2>2, <2>3, StartInv
<1>2. CASE TapMemo
  <2>1. PICK g \in GroupId : groups[g] # Null /\
          \E r \in ToSet(groups[g].groupMemos) :
             /\ rows[r].type = "memo"
             /\ Start([mode |-> "edit", parent |-> g, memoId |-> rows[r].ref])
    BY <1>2 DEF TapMemo
  <2>2. PICK r \in ToSet(groups[g].groupMemos) :
          /\ rows[r].type = "memo"
          /\ Start([mode |-> "edit", parent |-> g, memoId |-> rows[r].ref])
    BY <2>1
  <2>3. PICK k \in DOMAIN groups[g].groupMemos : r = groups[g].groupMemos[k]
    BY <2>2 DEF ToSet
  <2>4. groups[g].groupMemos \in Seq(RowId)
    BY <2>1 DEF IInv, TypeOK, StoreTypeOK, Group
  <2>5. r \in RowId /\ rows[r] # Null /\ rows[r].parent = g
    BY <2>1, <2>3, <2>4 DEF IInv, StoreInv, ListOK
  <2>6. rows[r].ref \in MemoId /\ Written(rows[r].ref) /\ memos[rows[r].ref].parent = g
    BY <2>2, <2>5 DEF IInv, StoreInv, RowOK
  <2>7. /\ [mode |-> "edit", parent |-> g, memoId |-> rows[r].ref] \in Intent
        /\ IntentOK([mode |-> "edit", parent |-> g, memoId |-> rows[r].ref])
    BY <2>1, <2>6 DEF Intent, IntentOK, Written
  <2>8. creates' \in Nat
    BY <1>2 DEF TapMemo, IInv, TypeOK
  <2> QED BY <2>2, <2>7, <2>8, StartInv
<1>3. CASE TypeTitle
  <2>1. PICK t \in Text : Event(<<[op |-> "title", val |-> t]>>)
    BY <1>3 DEF TypeTitle
  <2> DEFINE new == [op |-> "title", val |-> t]
  <2>2. new \in Op /\ new.op # "remove"
    BY DEF Op
  <2> HIDE DEF new
  <2>3. <<new>> \in Seq(Op) /\ \A i \in DOMAIN <<new>> : <<new>>[i].op # "remove"
    BY <2>2
  <2> QED BY <2>1, <2>3, EventInv DEF new
<1>4. CASE TypeContent
  <2>1. PICK t \in Text : Event(<<[op |-> "content", val |-> t]>>)
    BY <1>4 DEF TypeContent
  <2> DEFINE new == [op |-> "content", val |-> t]
  <2>2. new \in Op /\ new.op # "remove"
    BY DEF Op
  <2> HIDE DEF new
  <2>3. <<new>> \in Seq(Op) /\ \A i \in DOMAIN <<new>> : <<new>>[i].op # "remove"
    BY <2>2
  <2> QED BY <2>1, <2>3, EventInv DEF new
<1>5. CASE ClickAddTag
  <2> DEFINE adds(pieces) == [i \in DOMAIN pieces |-> [op |-> "add", val |-> pieces[i]]]
  <2>1. PICK pieces \in Inputs : Event(Append(adds(pieces), Do("sort")))
    BY <1>5 DEF ClickAddTag
  <2>2. pieces \in Seq(Tag \cup {Blank})
    BY BoundsAssumption
  <2>3. \A i \in 1..Len(pieces) : [op |-> "add", val |-> pieces[i]] \in Op
    BY <2>2 DEF Op
  <2>4. adds(pieces) \in Seq(Op) /\ \A i \in DOMAIN adds(pieces) : adds(pieces)[i].op = "add"
    BY <2>2, <2>3
  <2>5. Do("sort") \in Op /\ Do("sort").op = "sort"
    BY DEF Do, Op
  <2> HIDE DEF adds
  <2>6. /\ Append(adds(pieces), Do("sort")) \in Seq(Op)
        /\ \A i \in DOMAIN Append(adds(pieces), Do("sort")) :
             Append(adds(pieces), Do("sort"))[i].op # "remove"
    BY <2>4, <2>5
  <2> QED BY <2>1, <2>6, EventInv
<1>6. CASE ClickTag
  <2>1. <<Do("remove")>> \in Seq(Op) /\ Len(<<Do("remove")>>) = 1
    BY DEF Do, Op
  <2> QED BY <1>6, <2>1, EventInv DEF ClickTag
<1>7. CASE Finish
  <2>1. editor \in Editor /\ below \in Seq(Editor) /\ \A i \in DOMAIN below : EditorOK(below[i])
    BY <1>7 DEF Finish, IInv, TypeOK, UiInv
  <2>2. CASE below = <<>>
    BY <1>7, <2>1, <2>2, DispatchInv DEF Finish, AtRest, IInv, TypeOK, UiInv
  <2>3. CASE below # <<>>
    <3>1. editor' = below[Len(below)] /\ below' = SubSeq(below, 1, Len(below) - 1)
      BY <1>7, <2>3 DEF Finish, Last, Front
    <3>2. /\ editor' \in Editor /\ EditorOK(editor')
          /\ below' \in Seq(Editor) /\ \A i \in DOMAIN below' : EditorOK(below'[i])
      BY <2>1, <2>3, <3>1
    <3> QED BY <1>7, <2>3, <3>2, DispatchInv DEF Finish, AtRest, IInv, TypeOK, UiInv
  <2> QED BY <2>2, <2>3
<1>8. CASE Recreate
  <2> DEFINE i == editor.intent
             t == [op |-> "title", val |-> editor.title]
             c == [op |-> "content", val |-> editor.content]
  <2>1. editor \in Editor /\ EditorOK(editor)
    BY <1>8 DEF Recreate, IInv, TypeOK, UiInv
  <2>2. i \in Intent /\ IntentOK(i) /\ t \in Op /\ c \in Op
    BY <2>1 DEF Editor, EditorOK, Op
  <2>3. /\ NewEditor(i) \in Editor /\ EditorOK(NewEditor(i)) /\ NewEditor(i) # Null
        /\ OnCreate(i) \in Seq(Op)
        /\ \A k \in DOMAIN OnCreate(i) : OnCreate(i)[k].op # "remove"
    BY <2>2, FreshEditor
  <2>4. editor' = NewEditor(i) /\ work' = Append(Append(OnCreate(i), t), c)
    BY <1>8 DEF Recreate
  <2>5. t.op # "remove" /\ c.op # "remove"
    OBVIOUS
  <2> HIDE DEF i, t, c
  <2>6. work' \in Seq(Op) /\ \A k \in DOMAIN work' : work'[k].op # "remove"
    BY <2>2, <2>3, <2>4, <2>5
  <2>7. creates' \in Nat
    BY <1>8 DEF Recreate, IInv, TypeOK
  <2> QED BY <1>8, <2>3, <2>4, <2>6, <2>7, DispatchInv
          DEF Recreate, AtRest, IInv, TypeOK, UiInv
<1>9. CASE Launch
  <2> DEFINE i == Head(starting)
  <2>1. /\ starting \in Seq(Intent) /\ starting # <<>>
        /\ \A k \in DOMAIN starting : IntentOK(starting[k])
    BY <1>9 DEF Launch, IInv, TypeOK, UiInv
  <2>2. i \in Intent /\ IntentOK(i)
    BY <2>1
  <2>3. Tail(starting) \in Seq(Intent) /\ \A k \in DOMAIN Tail(starting) : IntentOK(Tail(starting)[k])
    BY <2>1
  <2>4. /\ NewEditor(i) \in Editor /\ EditorOK(NewEditor(i)) /\ NewEditor(i) # Null
        /\ OnCreate(i) \in Seq(Op)
        /\ \A k \in DOMAIN OnCreate(i) : OnCreate(i)[k].op # "remove"
    BY <2>2, FreshEditor
  <2>5. below' \in Seq(Editor) /\ \A k \in DOMAIN below' : EditorOK(below'[k])
    <3>1. /\ below \in Seq(Editor) /\ \A k \in DOMAIN below : EditorOK(below[k])
          /\ editor # Null => editor \in Editor /\ EditorOK(editor)
      BY DEF IInv, TypeOK, UiInv
    <3> QED BY <1>9, <3>1 DEF Launch
  <2>6. shared' \subseteq MemoId
    BY <1>9, <2>2 DEF Launch, Intent, IInv, TypeOK
  <2>7. editor' = NewEditor(i) /\ work' = OnCreate(i) /\ starting' = Tail(starting)
    BY <1>9 DEF Launch
  <2> HIDE DEF i
  <2> QED BY <1>9, <2>3, <2>4, <2>5, <2>6, <2>7, DispatchInv
          DEF Launch, AtRest, IInv, TypeOK
<1> QED BY <1>1, <1>2, <1>3, <1>4, <1>5, <1>6, <1>7, <1>8, <1>9 DEF User

-----------------------------------------------------------------------------
(* Transactions: they only add objects and fill in fields. *)

Grows ==
  /\ \A m \in MemoId : memos[m] # Null =>
       /\ memos'[m] # Null /\ memos'[m].parent = memos[m].parent
       /\ Written(m) => Written(m)'
  /\ \A r \in RowId : rows[r] # Null => rows'[r] = rows[r]
  /\ \A g \in GroupId : groups[g] # Null => groups'[g] # Null

LEMMA GrowsKeeps ==
  ASSUME Grows
  PROVE  /\ \A i \in Intent : IntentOK(i) => IntentOK(i)'
         /\ \A e \in Editor : EditorOK(e) => EditorOK(e)'
<1>1. \A i \in Intent : IntentOK(i) => IntentOK(i)'
  BY DEF Grows, IntentOK, Intent
<1>2. \A e \in Editor : EditorOK(e) => EditorOK(e)'
  BY <1>1 DEF Grows, EditorOK, Editor
<1> QED BY <1>1, <1>2

\* What every transaction of a save leaves as it is, and what it must establish.
LEMMA TransactionInv ==
  ASSUME IInv, save # NoSave, Grows, StoreTypeOK', StoreInv',
         UNCHANGED <<below, starting, work, creates, kills, shared>>,
         editor' \in Editor, EditorOK(editor)', save' \in Saving, SaveOK'
  PROVE  IInv' /\ editor' \in Editor
<1>1. TypeOK'
  BY EditorAssumption DEF IInv, TypeOK
<1>2. WorkOK'
  BY DEF IInv, UiInv, WorkOK
<1>3. \A i \in DOMAIN below : EditorOK(below[i])'
  BY GrowsKeeps DEF IInv, UiInv, TypeOK
<1>4. \A i \in DOMAIN starting : IntentOK(starting[i])'
  BY GrowsKeeps DEF IInv, UiInv, TypeOK
<1> QED BY <1>1, <1>2, <1>3, <1>4 DEF IInv, UiInv

LEMMA CreateStepInv ==
  ASSUME IInv, CreateStep
  PROVE  IInv' /\ editor' \in Editor
<1>1. /\ save # NoSave /\ save \in Saving /\ save.step = "create"
      /\ save.title # Null /\ save.content # Null
      /\ editor.memo = Null /\ editor.memoId = Null
  BY DEF CreateStep, NoSave, IInv, TypeOK, UiInv, SaveOK
<1>2. editor \in Editor /\ EditorOK(editor)
  BY <1>1, RunningEditor
<1>3. PICK m \in MemoId : /\ CreateMemo(m, editor.intent.parent)
                          /\ editor' = [editor EXCEPT !.memo = m, !.memoId = m]
  BY DEF CreateStep
<1>4. /\ memos \in [MemoId -> Memo \cup {Null}] /\ memos[m] = Null
      /\ UNCHANGED <<groups, rows, hashTags>>
      /\ memos' = [memos EXCEPT ![m] = [parent |-> editor.intent.parent, title |-> Null,
                                        content |-> Null, tags |-> <<>>]]
  BY <1>3 DEF CreateMemo, IInv, TypeOK, StoreTypeOK
<1>5. memos' \in [MemoId -> Memo \cup {Null}] /\ memos'[m] \in Memo
  <2>1. [parent |-> editor.intent.parent, title |-> Null, content |-> Null, tags |-> <<>>] \in Memo
    BY <1>2 DEF Memo, Editor, Intent
  <2> QED BY <1>4, <2>1
<1>6. memos'[m].parent = editor.intent.parent /\ memos'[m] # Null
  <2>1. memos'[m] # Null
    BY <1>5, StoreAssumption
  <2> QED BY <1>4, <2>1
<1>7. Grows
  <2>1. \A x \in MemoId : memos[x] # Null => memos'[x] = memos[x]
    BY <1>4
  <2> QED BY <2>1, <1>4 DEF Grows, Written
<1>8. StoreTypeOK' /\ StoreInv'
  <2>1. \A r \in RowId : RowOK(r)'
    BY <1>4 DEF IInv, StoreInv, RowOK, Written
  <2>2. OneRow' /\ \A g \in GroupId : ListOK(g)'
    BY <1>4 DEF IInv, StoreInv, OneRow, ListOK
  <2> QED BY <1>4, <1>5, <2>1, <2>2 DEF IInv, StoreInv, TypeOK, StoreTypeOK
<1>9. editor' \in Editor /\ EditorOK(editor)'
  <2>1. /\ editor' \in Editor /\ editor'.memo = m /\ editor'.memoId = m
        /\ editor'.intent = editor.intent /\ editor'.groupMemo = editor.groupMemo
        /\ editor.intent \in Intent
    BY <1>2, <1>3 DEF Editor
  <2>2. editor.groupMemo = Null
    BY <1>1, <1>2 DEF EditorOK
  <2>3. IntentOK(editor.intent)'
    BY <2>1, <1>2, <1>7, GrowsKeeps DEF EditorOK
  <2> QED BY <2>1, <2>2, <2>3, <1>6 DEF EditorOK, IntentOK
<1>10. save' \in Saving /\ SaveOK'
  <2>1. save' = [save EXCEPT !.step = "write"]
    BY DEF CreateStep
  <2>2. memos'[m].title = Null /\ memos'[m].content = Null /\ editor'.memo = m
    BY <1>3, <1>4, <1>2 DEF Editor
  <2> QED BY <1>1, <1>6, <2>1, <2>2, StoreAssumption DEF Saving, SaveOK, Given
<1> QED BY <1>1, <1>7, <1>8, <1>9, <1>10, TransactionInv DEF CreateStep

LEMMA WriteStepInv ==
  ASSUME IInv, WriteStep
  PROVE  IInv' /\ editor' \in Editor
<1>1. /\ save # NoSave /\ save \in Saving /\ save.step = "write" /\ editor.memo # Null
      /\ memos[editor.memo] # Null
      /\ Given(save.title, memos[editor.memo].title) # Null
      /\ Given(save.content, memos[editor.memo].content) # Null
  BY DEF WriteStep, NoSave, IInv, TypeOK, UiInv, SaveOK
<1>2. editor \in Editor /\ EditorOK(editor)
  BY <1>1, RunningEditor
<1> DEFINE m == editor.memo
           old == memos[m]
           new == [parent |-> old.parent, title |-> Given(save.title, old.title),
                   content |-> Given(save.content, old.content),
                   tags |-> Given(save.tags, old.tags)]
<1>3. /\ memos \in [MemoId -> Memo \cup {Null}] /\ m \in MemoId /\ old \in Memo
      /\ hashTags \subseteq Tag
  BY <1>1, <1>2 DEF IInv, TypeOK, StoreTypeOK, Editor
<1>4. UNCHANGED <<groups, rows, editor>> /\ memos' = [memos EXCEPT ![m] = new]
  BY DEF WriteStep, WriteMemo
<1>5. new \in Memo
  BY <1>1, <1>3 DEF Saving, Memo, Given
<1>6. new # Null /\ new.title # Null /\ new.content # Null
  BY <1>5, <1>1, StoreAssumption
<1>7. /\ memos' \in [MemoId -> Memo \cup {Null}] /\ memos'[m] = new
      /\ \A x \in MemoId \ {m} : memos'[x] = memos[x]
  BY <1>3, <1>4, <1>5
<1>8. new.parent = old.parent
  OBVIOUS
<1> HIDE DEF new
<1>9. Grows
  BY <1>4, <1>6, <1>7, <1>8 DEF Grows, Written
<1>10. StoreTypeOK' /\ StoreInv'
  <2>1. hashTags' \subseteq Tag
    BY <1>1, <1>3 DEF WriteStep, WriteMemo, SaveTags, Saving, ToSet
  <2>2. \A r \in RowId : RowOK(r)'
    BY <1>4, <1>9 DEF Grows, IInv, StoreInv, RowOK, Written
  <2>3. OneRow' /\ \A g \in GroupId : ListOK(g)'
    BY <1>4 DEF IInv, StoreInv, OneRow, ListOK
  <2> QED BY <1>4, <1>7, <2>1, <2>2, <2>3 DEF IInv, StoreInv, TypeOK, StoreTypeOK
<1>11. editor' \in Editor /\ EditorOK(editor)'
  BY <1>2, <1>4, <1>9, GrowsKeeps
<1>12. save' \in Saving /\ SaveOK'
  <2>1. save'.step = "row" /\ save' \in Saving
    BY DEF WriteStep, NoSave, Saving
  <2> QED BY <2>1, <1>1, <1>4, <1>6, <1>7 DEF SaveOK, Written
<1> QED BY <1>1, <1>9, <1>10, <1>11, <1>12, TransactionInv DEF WriteStep

LEMMA RowStepInv ==
  ASSUME IInv, RowStep
  PROVE  IInv' /\ editor' \in Editor
<1>1. /\ save # NoSave /\ save \in Saving /\ save.step = "row" /\ editor.memo # Null
      /\ Written(editor.memo)
  BY DEF RowStep, NoSave, IInv, TypeOK, UiInv, SaveOK
<1>2. /\ editor \in Editor /\ EditorOK(editor) /\ editor.intent \in Intent
      /\ editor.memo = editor.memoId /\ editor.memoId \in MemoId
      /\ memos[editor.memoId].parent = editor.intent.parent
  BY <1>1, RunningEditor DEF EditorOK, Editor
<1>3. NoSave \in Saving /\ NoSave.step = "none"
  BY DEF NoSave, Saving
<1>4. ASSUME NEW r \in RowId, rows'[r] # Null, rows'[r].typeId = editor.memoId,
             editor' = [editor EXCEPT !.groupMemo = r], Grows
      PROVE  editor' \in Editor /\ EditorOK(editor)'
  <2>1. EditorOK(editor)'
    <3>1. /\ editor'.intent = editor.intent /\ editor'.memo = editor.memo
          /\ editor'.memoId = editor.memoId /\ editor'.groupMemo = r
      BY <1>2, <1>4 DEF Editor
    <3>2. IntentOK(editor.intent)'
      BY <1>2, <1>4, GrowsKeeps DEF EditorOK
    <3>3. memos'[editor.memoId] # Null /\ memos'[editor.memoId].parent = editor.intent.parent
      BY <1>1, <1>2, <1>4 DEF Grows, Written
    <3> QED BY <3>1, <3>2, <3>3, <1>2, <1>4, StoreAssumption DEF EditorOK, IntentOK
  <2> QED BY <2>1, <1>2, <1>4 DEF Editor
<1>5. CASE UNCHANGED store /\ save' = NoSave
  <2>1. Grows
    BY <1>5 DEF Grows, store, Written
  <2>2. StoreTypeOK' /\ StoreInv'
    BY <1>5, StoreUnchanged DEF IInv, TypeOK
  <2>3. save' \in Saving /\ SaveOK'
    BY <1>5, <1>3 DEF SaveOK
  <2>4. CASE UNCHANGED editor
    BY <2>1, <2>2, <2>3, <2>4, <1>1, <1>2, GrowsKeeps, TransactionInv DEF RowStep
  <2>5. CASE \E r \in RowsOf(editor.memoId) : editor' = [editor EXCEPT !.groupMemo = r]
    <3>1. PICK r \in RowId : /\ rows'[r] # Null /\ rows'[r].typeId = editor.memoId
                             /\ editor' = [editor EXCEPT !.groupMemo = r]
      BY <2>5, <1>5 DEF RowsOf, store
    <3> QED BY <3>1, <2>1, <2>2, <2>3, <1>1, <1>4, TransactionInv DEF RowStep
  <2> QED BY <1>5, <1>3, <2>4, <2>5 DEF RowStep, NoSave
<1>6. CASE /\ RowsOf(editor.memoId) = {}
           /\ \E r \in RowId :
                /\ CreateRow(r, "memo", editor.intent.parent, editor.memoId)
                /\ editor' = [editor EXCEPT !.groupMemo = r]
           /\ save' = [save EXCEPT !.step = "link"]
  <2>1. PICK r \in RowId : /\ CreateRow(r, "memo", editor.intent.parent, editor.memoId)
                           /\ editor' = [editor EXCEPT !.groupMemo = r]
    BY <1>6
  <2> DEFINE new == [type |-> "memo", parent |-> editor.intent.parent,
                     typeId |-> editor.memoId, ref |-> editor.memoId]
  <2>2. /\ rows \in [RowId -> GroupMemo \cup {Null}] /\ rows[r] = Null
        /\ UNCHANGED <<groups, memos, hashTags>> /\ rows' = [rows EXCEPT ![r] = new]
    BY <2>1 DEF CreateRow, IInv, TypeOK, StoreTypeOK
  <2>3. new \in GroupMemo /\ new # Null
    <3>1. new \in GroupMemo
      BY <1>2 DEF GroupMemo, Intent
    <3> QED BY <3>1, StoreAssumption
  <2>4. /\ new.type = "memo" /\ new.typeId = editor.memoId /\ new.ref = editor.memoId
        /\ new.parent = editor.intent.parent
    OBVIOUS
  <2> HIDE DEF new
  <2>5. /\ rows' \in [RowId -> GroupMemo \cup {Null}] /\ rows'[r] = new
        /\ \A q \in RowId \ {r} : rows'[q] = rows[q]
    BY <2>2, <2>3
  <2>6. Grows
    BY <2>2, <2>5 DEF Grows, Written
  <2>7. \A q \in RowId : RowOK(q)'
    <3>1. RowOK(r)'
      BY <2>2, <2>4, <2>5, <1>1, <1>2 DEF IInv, StoreInv, RowOK, Written
    <3>2. \A q \in RowId \ {r} : RowOK(q)'
      BY <2>2, <2>5, <1>1 DEF IInv, StoreInv, RowOK, Written
    <3> QED BY <3>1, <3>2
  <2>8. OneRow'
    BY <1>6, <2>3, <2>4, <2>5 DEF IInv, StoreInv, OneRow, RowsOf
  <2>9. \A g \in GroupId : ListOK(g)'
    <3> SUFFICES ASSUME NEW g \in GroupId, groups[g] # Null, NEW i \in DOMAIN groups[g].groupMemos
                 PROVE  rows'[groups[g].groupMemos[i]] = rows[groups[g].groupMemos[i]]
      BY <2>2 DEF IInv, StoreInv, ListOK
    <3>1. groups[g].groupMemos[i] \in RowId
      BY DEF IInv, TypeOK, StoreTypeOK, Group
    <3> QED BY <3>1, <2>2, <2>5 DEF IInv, StoreInv, ListOK
  <2>10. StoreTypeOK' /\ StoreInv'
    BY <2>2, <2>5, <2>7, <2>8, <2>9 DEF StoreInv, IInv, TypeOK, StoreTypeOK
  <2>11. editor' \in Editor /\ EditorOK(editor)'
    BY <2>1, <2>3, <2>4, <2>5, <2>6, <1>4
  <2>12. save' \in Saving /\ SaveOK'
    <3>1. editor'.memo = editor.memo /\ editor'.groupMemo = r
      BY <2>1, <1>2 DEF Editor
    <3>2. save' \in Saving /\ save'.step = "link"
      BY <1>6, <1>1 DEF Saving
    <3> QED BY <3>1, <3>2, <2>2, <1>1, StoreAssumption DEF SaveOK, Written
  <2> QED BY <2>6, <2>10, <2>11, <2>12, <1>1, TransactionInv DEF RowStep
<1> QED BY <1>5, <1>6 DEF RowStep

\* Append at the end keeps what is there, and a list without repetitions one.
LEMMA AppendOK ==
  ASSUME NEW S, NEW s \in Seq(S), NEW e \in S
  PROVE  /\ Append(s, e) \in Seq(S)
         /\ \A i \in DOMAIN Append(s, e) :
              \/ i \in DOMAIN s /\ Append(s, e)[i] = s[i]
              \/ Append(s, e)[i] = e
         /\ IsInjective(s) /\ ~Contains(s, e) => IsInjective(Append(s, e))
<1>1. /\ DOMAIN Append(s, e) = 1..(Len(s) + 1) /\ DOMAIN s = 1..Len(s)
      /\ Len(s) \in Nat /\ Append(s, e)[Len(s) + 1] = e
      /\ \A i \in 1..Len(s) : Append(s, e)[i] = s[i]
  OBVIOUS
<1>2. ~Contains(s, e) => \A i \in DOMAIN s : s[i] # e
  BY DEF Contains
<1>3. IsInjective(s) /\ ~Contains(s, e) => IsInjective(Append(s, e))
  BY <1>1, <1>2 DEF IsInjective
<1> QED BY <1>1, <1>3

LEMMA LinkStepInv ==
  ASSUME IInv, LinkStep
  PROVE  IInv' /\ editor' \in Editor
<1>1. /\ save # NoSave /\ save.step = "link" /\ editor.groupMemo # Null
  BY DEF LinkStep, NoSave, IInv, TypeOK, UiInv, SaveOK
<1>2. /\ editor \in Editor /\ EditorOK(editor)
      /\ editor.groupMemo \in RowId /\ rows[editor.groupMemo] # Null
  BY <1>1, RunningEditor DEF EditorOK, Editor
<1>r. PICK r \in RowId : r = editor.groupMemo
  BY <1>2
<1>g. PICK g \in GroupId : g = rows[r].parent
  BY <1>2, <1>r DEF IInv, TypeOK, StoreTypeOK, GroupMemo
<1> DEFINE list == groups[g].groupMemos
<1>3. groups[g] \in Group /\ list \in Seq(RowId)
  BY <1>r, <1>g DEF LinkStep, LinkRow, IInv, TypeOK, StoreTypeOK, Group
<1>4. /\ UNCHANGED <<memos, rows, hashTags, editor>> /\ save' = NoSave
      /\ groups \in [GroupId -> Group \cup {Null}] /\ groups[g] # Null
      /\ groups' = IF Contains(list, r) THEN groups
                   ELSE [groups EXCEPT ![g].groupMemos = Append(list, r)]
  BY <1>r, <1>g DEF LinkStep, LinkRow, IInv, TypeOK, StoreTypeOK
<1>5. CASE Contains(list, r)
  <2>1. UNCHANGED store
    BY <1>4, <1>5 DEF store
  <2>2. Grows
    BY <2>1 DEF Grows, store, Written
  <2>3. StoreTypeOK' /\ StoreInv'
    BY <2>1, StoreUnchanged DEF IInv, TypeOK
  <2>4. save' \in Saving /\ SaveOK'
    BY <1>4 DEF SaveOK, NoSave, Saving
  <2> QED BY <2>2, <2>3, <2>4, <1>1, <1>2, <1>4, GrowsKeeps, TransactionInv DEF LinkStep
<1>6. CASE ~Contains(list, r)
  <2> DEFINE new == [groups[g] EXCEPT !.groupMemos = Append(list, r)]
  <2>1. groups' = [groups EXCEPT ![g] = new]
    BY <1>4, <1>6
  <2>2. new \in Group /\ new.groupMemos = Append(list, r)
    <3>1. Append(list, r) \in Seq(RowId)
      BY <1>2, <1>3
    <3> HIDE DEF list
    <3> QED BY <3>1, <1>3 DEF Group
  <2>3. new # Null
    BY <2>2, StoreAssumption
  <2> HIDE DEF new
  <2>4. /\ groups' \in [GroupId -> Group \cup {Null}] /\ groups'[g] = new
        /\ \A h \in GroupId \ {g} : groups'[h] = groups[h]
    BY <1>3, <1>4, <2>1, <2>2
  <2>5. Grows
    BY <1>4, <2>3, <2>4 DEF Grows, Written
  <2>6. \A q \in RowId : RowOK(q)'
    BY <1>4 DEF IInv, StoreInv, RowOK, Written
  <2>7. OneRow'
    BY <1>4 DEF IInv, StoreInv, OneRow
  <2>8. ListOK(g)'
    <3>1. IsInjective(list) /\ \A i \in DOMAIN list : rows[list[i]] # Null /\ rows[list[i]].parent = g
      BY <1>3, <1>4 DEF IInv, StoreInv, ListOK
    <3>2. IsInjective(Append(list, r))
      BY <3>1, <1>2, <1>3, <1>6, AppendOK
    <3>3. \A i \in DOMAIN Append(list, r) :
            rows[Append(list, r)[i]] # Null /\ rows[Append(list, r)[i]].parent = g
      <4>1. \A i \in DOMAIN Append(list, r) :
              (i \in DOMAIN list /\ Append(list, r)[i] = list[i]) \/ Append(list, r)[i] = r
        BY <1>2, <1>3, AppendOK
      <4> HIDE DEF list
      <4>2. rows[r] # Null /\ rows[r].parent = g
        BY <1>2, <1>r, <1>g
      <4> QED BY <3>1, <4>1, <4>2
    <3> QED BY <3>2, <3>3, <2>2, <2>4, <1>4 DEF ListOK
  <2>9. \A h \in GroupId \ {g} : ListOK(h)'
    BY <1>4, <2>4 DEF IInv, StoreInv, ListOK
  <2>10. StoreTypeOK' /\ StoreInv'
    BY <1>4, <2>4, <2>6, <2>7, <2>8, <2>9 DEF IInv, StoreInv, TypeOK, StoreTypeOK
  <2>11. save' \in Saving /\ SaveOK'
    BY <1>4 DEF SaveOK, NoSave, Saving
  <2> QED BY <2>5, <2>10, <2>11, <1>1, <1>2, <1>4, GrowsKeeps, TransactionInv DEF LinkStep
<1> QED BY <1>5, <1>6

LEMMA KillInv ==
  ASSUME IInv, Kill
  PROVE  IInv'
<1>1. UNCHANGED store /\ save' = NoSave /\ work' = <<>>
  BY DEF Kill
<1>2. TypeOK'
  BY <1>1, StoreUnchanged DEF Kill, IInv, TypeOK, NoSave, Saving
<1>3. StoreInv'
  BY <1>1, StoreUnchanged DEF IInv
<1>4. UiInv'
  BY <1>1 DEF Kill, UiInv, SaveOK, WorkOK, NoSave
<1> QED BY <1>2, <1>3, <1>4 DEF IInv

-----------------------------------------------------------------------------
LEMMA InitInv == Init => IInv
<1> SUFFICES ASSUME Init PROVE IInv
  OBVIOUS
<1>1. StoreTypeOK
  <2>1. \A g \in GroupId : InitialGroups[g] # Null => ToSet(InitialGroups[g].tags) \subseteq Tag
    BY InitialAssumption DEF Group, ToSet
  <2>2. hashTags \subseteq Tag
    BY <2>1 DEF Init
  <2> QED BY <2>2, InitialAssumption DEF Init, StoreTypeOK
<1>2. NoSave \in Saving /\ NoSave.step = "none"
  BY DEF NoSave, Saving
<1>3. TypeOK
  BY <1>1, <1>2 DEF Init, TypeOK
<1>4. \A r \in RowId : RowOK(r)
  BY InitialAssumption DEF Init, RowOK
<1>5. OneRow
  BY InitialAssumption DEF Init, OneRow
<1>6. \A g \in GroupId : ListOK(g)
  BY InitialAssumption DEF Init, ListOK, ToSet
<1>7. UiInv
  BY <1>2 DEF Init, UiInv, SaveOK, WorkOK
<1> QED BY <1>3, <1>4, <1>5, <1>6, <1>7 DEF IInv, StoreInv

LEMMA NextInv == IInv /\ [Next]_vars => IInv'
<1> SUFFICES ASSUME IInv, [Next]_vars PROVE IInv'
  OBVIOUS
<1>1. CASE User \/ Launch
  BY <1>1, UserInv
<1>2. CASE \/ SetGroupTags \/ ModeEdit \/ Subscribe \/ TitleChanged \/ ContentChanged
           \/ AddTag \/ SortTags \/ RemoveTag
  BY <1>2, CallbackInv
<1>3. CASE CreateStep
  BY <1>3, CreateStepInv
<1>4. CASE WriteStep
  BY <1>4, WriteStepInv
<1>5. CASE RowStep
  BY <1>5, RowStepInv
<1>6. CASE LinkStep
  BY <1>6, LinkStepInv
<1>7. CASE Kill
  BY <1>7, KillInv
<1>8. CASE UNCHANGED vars
  <2>1. UNCHANGED <<store, editor, below, starting, work, save, creates, kills, shared>>
    BY <1>8 DEF vars, ui
  <2>2. TypeOK' /\ StoreInv'
    BY <2>1, StoreUnchanged DEF IInv, TypeOK
  <2>3. UiInv'
    BY <2>1, StoreUnchanged DEF IInv, UiInv, SaveOK, WorkOK, Written, store
  <2> QED BY <2>2, <2>3 DEF IInv
<1> QED BY <1>1, <1>2, <1>3, <1>4, <1>5, <1>6, <1>7, <1>8 DEF Next, UiThread

\* The invariant holds of all behaviours of the editors.
THEOREM Invariance == Spec => []IInv
  BY InitInv, NextInv, PTL DEF Spec

\* The tables and the editors keep their types: in particular a save always has
\* a memo to write to, and an Intent never names a memo that is not there.
THEOREM TypeCorrect == Spec => []TypeOK
<1>1. IInv => TypeOK
  BY DEF IInv
<1> QED BY <1>1, Invariance, PTL

\* No memo is shown twice, or in another list than its group's, whichever
\* editors save it and whenever the process dies.
THEOREM ShownOnce == Spec => []MemoShownOnce
<1>1. IInv => MemoShownOnce
  <2> SUFFICES ASSUME IInv, NEW m \in MemoId, NEW p \in Places(m), NEW q \in Places(m)
               PROVE  p = q /\ p[1] = memos[m].parent
    BY DEF MemoShownOnce
  <2>1. ASSUME NEW x \in Places(m)
        PROVE  \E g \in GroupId : \E i \in DOMAIN groups[g].groupMemos :
                 /\ x = <<g, i>> /\ groups[g] # Null
                 /\ LET r == groups[g].groupMemos[i]
                    IN /\ r \in RowId /\ rows[r] # Null /\ rows[r].parent = g
                       /\ rows[r].typeId = m /\ memos[m].parent = g
    <3>1. PICK g \in GroupId : \E i \in DOMAIN groups[g].groupMemos :
            x = <<g, i>> /\ groups[g] # Null /\ rows[groups[g].groupMemos[i]].ref = m
      BY DEF Places
    <3>i. PICK i \in DOMAIN groups[g].groupMemos :
            x = <<g, i>> /\ groups[g] # Null /\ rows[groups[g].groupMemos[i]].ref = m
      BY <3>1
    <3>2. groups[g].groupMemos \in Seq(RowId)
      BY <3>i DEF IInv, TypeOK, StoreTypeOK, Group
    <3>3. /\ groups[g].groupMemos[i] \in RowId
          /\ rows[groups[g].groupMemos[i]] # Null
          /\ rows[groups[g].groupMemos[i]].parent = g
      BY <3>i, <3>2 DEF IInv, StoreInv, ListOK
    <3> QED BY <3>i, <3>3, StoreAssumption DEF IInv, StoreInv, RowOK
  <2>2. PICK g \in GroupId : \E i \in DOMAIN groups[g].groupMemos :
          /\ p = <<g, i>> /\ groups[g] # Null
          /\ LET r == groups[g].groupMemos[i]
             IN /\ r \in RowId /\ rows[r] # Null /\ rows[r].parent = g
                /\ rows[r].typeId = m /\ memos[m].parent = g
    BY <2>1
  <2>i. PICK i \in DOMAIN groups[g].groupMemos :
          /\ p = <<g, i>> /\ groups[g] # Null
          /\ LET r == groups[g].groupMemos[i]
             IN /\ r \in RowId /\ rows[r] # Null /\ rows[r].parent = g
                /\ rows[r].typeId = m /\ memos[m].parent = g
    BY <2>2
  <2>3. PICK h \in GroupId : \E j \in DOMAIN groups[h].groupMemos :
          /\ q = <<h, j>> /\ groups[h] # Null
          /\ LET r == groups[h].groupMemos[j]
             IN /\ r \in RowId /\ rows[r] # Null /\ rows[r].parent = h
                /\ rows[r].typeId = m /\ memos[m].parent = h
    BY <2>1
  <2>j. PICK j \in DOMAIN groups[h].groupMemos :
          /\ q = <<h, j>> /\ groups[h] # Null
          /\ LET r == groups[h].groupMemos[j]
             IN /\ r \in RowId /\ rows[r] # Null /\ rows[r].parent = h
                /\ rows[r].typeId = m /\ memos[m].parent = h
    BY <2>3
  <2>4. groups[g].groupMemos[i] = groups[h].groupMemos[j]
    BY <2>i, <2>j DEF IInv, StoreInv, OneRow
  <2>5. g = h /\ i = j
    BY <2>i, <2>j, <2>4 DEF IInv, StoreInv, ListOK, IsInjective
  <2> QED BY <2>i, <2>j, <2>5
<1> QED BY <1>1, Invariance, PTL

\* What a list shows has been written: a death between the transactions never
\* leaves a list with a half-made memo.
THEOREM ListedWritten == Spec => []ListedMemoWritten
<1>1. IInv => ListedMemoWritten
  <2> SUFFICES ASSUME IInv, NEW m \in MemoId, NEW x \in Places(m)
               PROVE  Written(m)
    BY DEF ListedMemoWritten, Written
  <2>1. PICK g \in GroupId : \E i \in DOMAIN groups[g].groupMemos :
          groups[g] # Null /\ rows[groups[g].groupMemos[i]].ref = m
    BY DEF Places
  <2>i. PICK i \in DOMAIN groups[g].groupMemos :
          groups[g] # Null /\ rows[groups[g].groupMemos[i]].ref = m
    BY <2>1
  <2>2. groups[g].groupMemos[i] \in RowId /\ rows[groups[g].groupMemos[i]] # Null
    BY <2>i DEF IInv, StoreInv, ListOK, TypeOK, StoreTypeOK, Group
  <2> QED BY <2>i, <2>2, StoreAssumption DEF IInv, StoreInv, RowOK
<1> QED BY <1>1, Invariance, PTL

(***************************************************************************)
(* The memo editor implements MemoShelf: whatever editors are open and     *)
(* whenever the process dies, a user of the lists sees new entries appear  *)
(* complete at the end of a list, and entries change in place, and nothing *)
(* else.                                                                   *)
(*                                                                         *)
(* The invariant above is what the mapping needs: a memo has one row, in   *)
(* the list of its parent, made after the memo was written.                *)
(***************************************************************************)

\* The value of shelf under the refinement mapping.
Shown == {h \in GroupId : groups[h] # Null}
Entries(g) == [i \in DOMAIN groups[g].groupMemos |-> Entry(groups[g].groupMemos[i])]
Board == [g \in Shown |-> Entries(g)]

-----------------------------------------------------------------------------
\* What the tables say of the i-th row of a list.
LEMMA RowOfList ==
  ASSUME IInv, NEW g \in Shown, NEW i \in DOMAIN groups[g].groupMemos
  PROVE  LET r == groups[g].groupMemos[i]
         IN /\ r \in RowId /\ rows[r] # Null /\ rows[r].parent = g
            /\ rows[r].type = "memo" =>
                 rows[r].ref \in MemoId /\ rows[r].typeId = rows[r].ref /\ Written(rows[r].ref)
            /\ rows[r].type # "memo" => rows[r].ref \in GroupId
<1>1. groups[g] \in Group /\ groups[g] # Null
  BY DEF IInv, TypeOK, StoreTypeOK, Shown
<1>2. groups[g].groupMemos[i] \in RowId
  BY <1>1 DEF Group
<1>3. rows[groups[g].groupMemos[i]] # Null /\ rows[groups[g].groupMemos[i]].parent = g
  BY <1>1 DEF IInv, StoreInv, ListOK, Shown
<1> QED BY <1>2, <1>3 DEF IInv, StoreInv, RowOK

\* A memo is shown at one place.
LEMMA OnePlace ==
  ASSUME IInv, NEW g \in Shown, NEW i \in DOMAIN groups[g].groupMemos,
         NEW h \in Shown, NEW k \in DOMAIN groups[h].groupMemos,
         LET r == groups[g].groupMemos[i]
             q == groups[h].groupMemos[k]
         IN rows[r].type = "memo" /\ rows[q].type = "memo" /\ rows[r].ref = rows[q].ref
  PROVE  g = h /\ i = k
<1> DEFINE r == groups[g].groupMemos[i]
           q == groups[h].groupMemos[k]
<1>1. /\ r \in RowId /\ rows[r] # Null /\ rows[r].parent = g
      /\ rows[r].typeId = rows[r].ref /\ rows[r].ref \in MemoId
      /\ q \in RowId /\ rows[q] # Null /\ rows[q].parent = h
      /\ rows[q].typeId = rows[q].ref
  BY RowOfList
<1>2. r = q
  BY <1>1 DEF IInv, StoreInv, OneRow
<1>3. g = h
  BY <1>1, <1>2
<1>4. IsInjective(groups[g].groupMemos)
  BY DEF IInv, StoreInv, ListOK, Shown
<1> QED BY <1>2, <1>3, <1>4 DEF IsInjective

\* Tables that stay show what they have shown.
LEMMA SameBoard ==
  ASSUME UNCHANGED groups,
         \A g \in Shown : \A i \in DOMAIN groups[g].groupMemos :
           Entry(groups[g].groupMemos[i])' = Entry(groups[g].groupMemos[i])
  PROVE  UNCHANGED Board
BY DEF Board, Shown, Entries

LEMMA SameStore ==
  ASSUME UNCHANGED store PROVE UNCHANGED Board
BY SameBoard DEF store, Entry

LEMMA CreateUnseen ==
  ASSUME IInv, CreateStep PROVE UNCHANGED Board
<1>1. PICK m \in MemoId : CreateMemo(m, editor.intent.parent)
  BY DEF CreateStep
<1>2. /\ UNCHANGED <<groups, rows>> /\ memos[m] = Null
      /\ \A x \in MemoId \ {m} : memos'[x] = memos[x]
  BY <1>1 DEF CreateMemo, IInv, TypeOK, StoreTypeOK
<1>3. ASSUME NEW g \in Shown, NEW i \in DOMAIN groups[g].groupMemos
      PROVE  Entry(groups[g].groupMemos[i])' = Entry(groups[g].groupMemos[i])
  <2> DEFINE r == groups[g].groupMemos[i]
  <2>1. rows[r].type = "memo" => rows[r].ref \in MemoId \ {m}
    BY <1>2, RowOfList DEF Written
  <2> QED BY <2>1, <1>2 DEF Entry
<1> QED BY <1>2, <1>3, SameBoard

LEMMA RowUnseen ==
  ASSUME IInv, RowStep PROVE UNCHANGED Board
<1>1. CASE UNCHANGED store
  BY <1>1, SameStore
<1>2. CASE \E r \in RowId : CreateRow(r, "memo", editor.intent.parent, editor.memoId)
  <2>1. PICK r \in RowId : CreateRow(r, "memo", editor.intent.parent, editor.memoId)
    BY <1>2
  <2>2. /\ UNCHANGED <<groups, memos>> /\ rows[r] = Null
        /\ \A q \in RowId \ {r} : rows'[q] = rows[q]
    BY <2>1 DEF CreateRow, IInv, TypeOK, StoreTypeOK
  <2>3. ASSUME NEW g \in Shown, NEW i \in DOMAIN groups[g].groupMemos
        PROVE  Entry(groups[g].groupMemos[i])' = Entry(groups[g].groupMemos[i])
    <3> DEFINE q == groups[g].groupMemos[i]
    <3>1. q \in RowId \ {r}
      BY <2>2, RowOfList
    <3> QED BY <3>1, <2>2 DEF Entry
  <2> QED BY <2>2, <2>3, SameBoard
<1> QED BY <1>1, <1>2 DEF RowStep

-----------------------------------------------------------------------------
\* A write to a listed memo changes its one entry, and leaves it filled in.
LEMMA WriteSeen ==
  ASSUME IInv, WriteStep
  PROVE  \/ UNCHANGED Board
         \/ \E g \in Shown : \E i \in DOMAIN Board[g] : Shelf!Change(g, i)
<1> DEFINE m == editor.memo
           old == memos[m]
           new == [parent |-> old.parent, title |-> Given(save.title, old.title),
                   content |-> Given(save.content, old.content),
                   tags |-> Given(save.tags, old.tags)]
           At(h, k) == LET q == groups[h].groupMemos[k]
                       IN rows[q].type = "memo" /\ rows[q].ref = m
<1>1. /\ save.step = "write" /\ save # NoSave /\ m # Null /\ memos[m] # Null
      /\ new.title # Null /\ new.content # Null
  BY DEF WriteStep, NoSave, IInv, UiInv, SaveOK
<1>2. /\ m \in MemoId /\ memos \in [MemoId -> Memo \cup {Null}]
      /\ UNCHANGED <<groups, rows>> /\ memos' = [memos EXCEPT ![m] = new]
  BY <1>1, RunningEditor DEF Editor, WriteStep, WriteMemo, IInv, TypeOK, StoreTypeOK
<1>3. memos'[m] = new /\ \A x \in MemoId \ {m} : memos'[x] = memos[x]
  BY <1>2
<1>4. ASSUME NEW h \in Shown, NEW k \in DOMAIN groups[h].groupMemos, ~At(h, k)
      PROVE  Entry(groups[h].groupMemos[k])' = Entry(groups[h].groupMemos[k])
  <2>1. LET q == groups[h].groupMemos[k]
        IN rows[q].type = "memo" => rows[q].ref \in MemoId \ {m}
    BY <1>4, RowOfList
  <2> QED BY <2>1, <1>2, <1>3 DEF Entry
<1> HIDE DEF new
<1>5. CASE \A h \in Shown : \A k \in DOMAIN groups[h].groupMemos : ~At(h, k)
  BY <1>2, <1>4, <1>5, SameBoard
<1>6. CASE \E h \in Shown : \E k \in DOMAIN groups[h].groupMemos : At(h, k)
  <2>1. PICK g \in Shown : \E k \in DOMAIN groups[g].groupMemos : At(g, k)
    BY <1>6
  <2>2. PICK i \in DOMAIN groups[g].groupMemos : At(g, i)
    BY <2>1
  <2> DEFINE r == groups[g].groupMemos[i]
  <2>3. ASSUME NEW h \in Shown, NEW k \in DOMAIN groups[h].groupMemos, At(h, k)
        PROVE  h = g /\ k = i
    BY <2>2, <2>3, OnePlace
  <2>4. Entry(r)' = [id |-> m, title |-> new.title, content |-> new.content, tags |-> new.tags]
        /\ Entry(r).id = m
    BY <2>2, <1>2, <1>3 DEF Entry
  <2>5. Shown' = Shown /\ \A h \in Shown : DOMAIN Entries(h)' = DOMAIN Entries(h)
    BY <1>2 DEF Shown, Entries
  <2>6. \A h \in Shown : \A k \in DOMAIN Entries(h) :
          ~(h = g /\ k = i) => Entries(h)'[k] = Entries(h)[k]
    BY <2>3, <1>4, <1>2 DEF Entries
  <2>7. Entries(g)'[i] = Entry(r)' /\ Entries(g)[i] = Entry(r) /\ i \in DOMAIN Entries(g)
    BY <1>2 DEF Entries
  <2> HIDE DEF At, r
  <2>8. Board' = [Board EXCEPT ![g][i] = Board'[g][i]]
    <3>1. \A h \in Shown : Board[h] = Entries(h) /\ Board'[h] = Entries(h)'
      BY <2>5 DEF Board
    <3>2. DOMAIN Board = Shown /\ DOMAIN Board' = Shown
      BY <2>5 DEF Board
    <3>3. \A h \in Shown \ {g} : Entries(h)' = Entries(h)
      BY <2>5, <2>6 DEF Entries
    <3>4. Entries(g)' = [Entries(g) EXCEPT ![i] = Entries(g)'[i]]
      <4>1. PICK was : was = Entries(g)
        OBVIOUS
      <4>2. PICK now : now = Entries(g)'
        OBVIOUS
      <4>3. /\ was = [k \in DOMAIN was |-> was[k]] /\ now = [k \in DOMAIN now |-> now[k]]
            /\ DOMAIN now = DOMAIN was
        BY <2>5, <4>1, <4>2 DEF Entries
      <4>4. \A k \in DOMAIN was : k # i => now[k] = was[k]
        BY <2>6, <4>1, <4>2
      <4>5. now = [was EXCEPT ![i] = now[i]]
        BY <4>3, <4>4
      <4> QED BY <4>1, <4>2, <4>5, Zenon
    <3>5. Board = [h \in Shown |-> Board[h]] /\ Board' = [h \in Shown |-> Board'[h]]
      BY <2>5 DEF Board
    <3>6. Board' = [Board EXCEPT ![g] = Entries(g)']
      BY <3>1, <3>2, <3>3, <3>5
    <3> QED BY <3>1, <3>4, <3>6
  <2>9. Board'[g][i] = Entry(r)' /\ Board[g][i] = Entry(r) /\ i \in DOMAIN Board[g]
    BY <2>5, <2>7 DEF Board
  <2>10. Shelf!Change(g, i)
    <3>1. Board'[g][i].id = Board[g][i].id
      BY <2>4, <2>9
    <3>2. Board'[g][i].title # Null /\ Board'[g][i].content # Null
      BY <2>4, <2>9, <1>1
    <3> QED BY <2>8, <3>1, <3>2 DEF Shelf!Change, Shelf!Filled, Board, Shown, Entries
  <2> QED BY <2>9, <2>10
<1> QED BY <1>5, <1>6

\* The link of a new memo adds an entry, filled in, at the end of one list; the
\* memo is in no other list, because its only row is the one that is linked.
LEMMA LinkSeen ==
  ASSUME IInv, LinkStep
  PROVE  \/ UNCHANGED Board
         \/ \E g \in Shown : Shelf!Add(g)
<1>1. save # NoSave /\ save.step = "link" /\ editor.groupMemo # Null
  BY DEF LinkStep, NoSave, IInv, UiInv, SaveOK
<1>2. PICK r \in RowId : /\ r = editor.groupMemo /\ rows[r] # Null
                         /\ rows[r].typeId = editor.memoId /\ editor.memoId \in MemoId
  BY <1>1, RunningEditor DEF EditorOK, Editor
<1>3. /\ rows[r].type = "memo" /\ rows[r].ref \in MemoId /\ rows[r].typeId = rows[r].ref
      /\ memos[rows[r].ref].title # Null /\ memos[rows[r].ref].content # Null
      /\ rows[r].parent \in GroupId
  BY <1>2 DEF IInv, TypeOK, StoreTypeOK, GroupMemo, StoreInv, RowOK, Written
<1>g. PICK g \in GroupId : g = rows[r].parent
  BY <1>3
<1>m. PICK m \in MemoId : m = rows[r].ref
  BY <1>3
<1> DEFINE e == [id |-> m, title |-> memos[m].title, content |-> memos[m].content,
                 tags |-> memos[m].tags]
<1>4. /\ UNCHANGED <<memos, rows>> /\ groups[g] # Null
      /\ groups' = IF Contains(groups[g].groupMemos, r) THEN groups
                   ELSE [groups EXCEPT ![g].groupMemos = Append(groups[g].groupMemos, r)]
  BY <1>2, <1>g DEF LinkStep, LinkRow
<1>5. /\ groups \in [GroupId -> Group \cup {Null}] /\ groups[g] \in Group
      /\ groups[g].groupMemos \in Seq(RowId) /\ g \in Shown
  BY <1>4 DEF IInv, TypeOK, StoreTypeOK, Group, Shown
<1>l. PICK list \in Seq(RowId) : list = groups[g].groupMemos
  BY <1>5
<1>7. CASE Contains(list, r)
  <2>1. UNCHANGED groups
    BY <1>4, <1>7, <1>l
  <2> QED BY <2>1, <1>4, SameBoard DEF Entry
<1>8. CASE ~Contains(list, r)
  <2>1. groups' = [groups EXCEPT ![g] = [groups[g] EXCEPT !.groupMemos = Append(list, r)]]
    BY <1>4, <1>8, <1>l
  <2>2. PICK new \in Group :
          /\ new = [groups[g] EXCEPT !.groupMemos = Append(list, r)]
          /\ new.groupMemos = Append(list, r) /\ new.title = groups[g].title
          /\ new.tags = groups[g].tags /\ new # Null
    <3> DEFINE n == [groups[g] EXCEPT !.groupMemos = Append(list, r)]
    <3>1. Append(list, r) \in Seq(RowId)
      OBVIOUS
    <3>2. /\ n \in Group /\ n.groupMemos = Append(list, r)
          /\ n.title = groups[g].title /\ n.tags = groups[g].tags
      BY <3>1, <1>5 DEF Group
    <3>3. n # Null
      BY <3>2, StoreAssumption
    <3> QED BY <3>2, <3>3
  <2>3. groups'[g] = new /\ \A h \in GroupId \ {g} : groups'[h] = groups[h]
    BY <2>1, <2>2, <1>5
  <2>4. Shown' = Shown
    BY <2>2, <2>3, <1>4 DEF Shown
  <2>5. \A h \in GroupId : groups'[h].title = groups[h].title /\ groups'[h].tags = groups[h].tags
    BY <2>2, <2>3
  <2>6. ASSUME NEW h \in Shown, NEW k \in DOMAIN groups[h].groupMemos
        PROVE  /\ Entry(groups[h].groupMemos[k])' = Entry(groups[h].groupMemos[k])
               /\ Entry(groups[h].groupMemos[k]).id # m
    <3>1. PICK q \in RowId : /\ q = groups[h].groupMemos[k]
                             /\ rows[q] # Null /\ rows[q].parent = h
                             /\ rows[q].type = "memo" => rows[q].typeId = rows[q].ref
                             /\ rows[q].type # "memo" => rows[q].ref \in GroupId
      BY RowOfList
    <3>2. Entry(q)' = Entry(q)
      BY <3>1, <2>5, <1>4 DEF Entry
    <3>3. Entry(groups[h].groupMemos[k])' = Entry(groups[h].groupMemos[k])
      <4>1. (groups[h].groupMemos[k])' = groups'[h].groupMemos[k]
        OBVIOUS
      <4>2. CASE h = g
        <5>1. k \in 1..Len(list) /\ groups'[h].groupMemos[k] = list[k]
          BY <4>2, <2>2, <2>3, <1>l
        <5>2. groups'[h].groupMemos[k] = q
          BY <5>1, <3>1, <4>2, <1>l
        <5>3. Entry(groups[h].groupMemos[k])' = Entry(q)'
          BY <5>2 DEF Entry
        <5> QED BY <5>3, <3>1, <3>2
      <4>3. CASE h # g
        BY <4>3, <2>3, <3>1, <3>2 DEF Entry, Shown
      <4> QED BY <4>2, <4>3
    <3>4. CASE rows[q].type = "memo" /\ rows[q].ref = m
      <4>1. q = r
        BY <3>1, <3>4, <1>2, <1>3, <1>m DEF IInv, StoreInv, OneRow
      <4>2. h = g
        BY <3>1, <4>1, <1>g
      <4>3. groups[h].groupMemos = list
        BY <4>2, <1>l
      <4>4. k \in DOMAIN list /\ list[k] = r
        BY <3>1, <4>1, <4>3
      <4>5. k \in 1..Len(list)
        BY <4>4
      <4> QED BY <4>4, <4>5, <1>8 DEF Contains
    <3>5. CASE rows[q].type # "memo"
      <4>1. Entry(q).id = rows[q].ref /\ rows[q].ref # m
        BY <3>1, <3>5, StoreAssumption DEF Entry
      <4> QED BY <3>1, <3>3, <4>1
    <3>6. CASE rows[q].type = "memo" /\ rows[q].ref # m
      <4>1. Entry(q).id = rows[q].ref
        BY <3>6 DEF Entry
      <4> QED BY <3>1, <3>3, <3>6, <4>1
    <3> QED BY <3>4, <3>5, <3>6
  <2>7. Entry(r)' = e
    BY <1>3, <1>4, <1>m DEF Entry
  <2> HIDE DEF e
  <2>8. ASSUME NEW h \in Shown \ {g} PROVE Entries(h)' = Entries(h)
    <3>1. groups'[h] = groups[h]
      BY <2>3 DEF Shown
    <3> QED BY <3>1, <2>6 DEF Entries
  <2>n. PICK n \in Nat : n = Len(list)
    OBVIOUS
  <2>9. /\ DOMAIN groups[g].groupMemos = 1..n
        /\ DOMAIN groups'[g].groupMemos = 1..(n + 1)
        /\ groups'[g].groupMemos[n + 1] = r
    BY <2>n, <2>2, <2>3, <1>l
  <2>10. Entries(g) = [k \in 1..n |-> Entry(groups[g].groupMemos[k])]
    BY <2>9 DEF Entries
  <2>11. Entries(g)' = [k \in 1..(n + 1) |-> Entry(groups[g].groupMemos[k])']
    BY <2>9 DEF Entries
  <2>12. /\ \A k \in 1..n : Entries(g)'[k] = Entries(g)[k] /\ Entries(g)[k].id # m
         /\ Entries(g)'[n + 1] = e
    <3>1. ASSUME NEW k \in 1..n
          PROVE  Entries(g)'[k] = Entries(g)[k] /\ Entries(g)[k].id # m
      <4>1. /\ Entries(g)'[k] = Entry(groups[g].groupMemos[k])'
            /\ Entries(g)[k] = Entry(groups[g].groupMemos[k])
        BY <2>10, <2>11
      <4> QED BY <4>1, <2>6, <2>9, <1>5
    <3>2. Entries(g)'[n + 1] = Entry(groups[g].groupMemos[n + 1])'
      BY <2>11
    <3>3. Entry(groups[g].groupMemos[n + 1])' = Entry(r)'
      BY <2>9 DEF Entry
    <3> QED BY <3>1, <3>2, <3>3, <2>7
  <2>13. PICK S : Entries(g) \in Seq(S) /\ Entries(g)' \in Seq(S)
    <3> DEFINE S == {Entries(g)[k] : k \in 1..n} \cup {Entries(g)'[k] : k \in 1..(n + 1)}
    <3>1. DOMAIN Entries(g) = 1..n /\ DOMAIN Entries(g)' = 1..(n + 1)
      BY <2>10, <2>11
    <3>2. /\ \A k \in 1..n : Entries(g)[k] \in S
          /\ \A k \in 1..(n + 1) : Entries(g)'[k] \in S
      OBVIOUS
    <3>3. Entries(g) \in [1..n -> S] /\ Entries(g)' \in [1..(n + 1) -> S]
      <4> HIDE DEF S
      <4> QED BY <2>10, <2>11, <3>1, <3>2
    <3> HIDE DEF S
    <3>4. Entries(g) \in Seq(S) /\ Entries(g)' \in Seq(S)
      BY <3>3
    <3> QED BY <3>4
  <2>14. Len(Entries(g)) = n /\ Len(Entries(g)') = n + 1
    BY <2>10, <2>11, <2>13
  <2>15. /\ DOMAIN Board = Shown /\ DOMAIN Board' = Shown
         /\ \A h \in Shown : Board[h] = Entries(h) /\ Board'[h] = Entries(h)'
    BY <2>4 DEF Board
  <2>16. SubSeq(Entries(g)', 1, n) = Entries(g)
    <3>1. PICK old : old = Entries(g)
      OBVIOUS
    <3>2. PICK now : now = Entries(g)'
      OBVIOUS
    <3>3. /\ old \in Seq(S) /\ now \in Seq(S) /\ Len(old) = n /\ Len(now) = n + 1
          /\ \A k \in 1..n : now[k] = old[k]
      BY <3>1, <3>2, <2>12, <2>13, <2>14
    <3>4. SubSeq(now, 1, n) = old
      BY <3>3
    <3> QED BY <3>1, <3>2, <3>4
  <2>17. \A h \in Shown : \A k \in DOMAIN Entries(h) : Entries(h)[k].id # m
    <3>1. ASSUME NEW h \in Shown, NEW k \in DOMAIN Entries(h) PROVE Entries(h)[k].id # m
      <4>1. Entries(h)[k] = Entry(groups[h].groupMemos[k]) /\ k \in DOMAIN groups[h].groupMemos
        BY <3>1 DEF Entries
      <4> QED BY <3>1, <4>1, <2>6
    <3> QED BY <3>1, Zenon
  <2>18. Shelf!Add(g)
    <3>1. DOMAIN Board' = DOMAIN Board
      BY <2>15
    <3>2. \A h \in DOMAIN Board \ {g} : Board'[h] = Board[h]
      BY <2>8, <2>15
    <3>3. Len(Board'[g]) = Len(Board[g]) + 1 /\ SubSeq(Board'[g], 1, Len(Board[g])) = Board[g]
      BY <2>14, <2>15, <2>16, <1>5
    <3>4. Board'[g][Len(Board'[g])] = e
      <4>1. Board'[g] = Entries(g)' /\ Len(Entries(g)') = n + 1 /\ Entries(g)'[n + 1] = e
        BY <2>12, <2>14, <2>15, <1>5
      <4> QED BY <4>1
    <3>5. e.id = m /\ e.title # Null /\ e.content # Null
      BY <1>3, <1>m DEF e
    <3>6. \A h \in DOMAIN Board : e.id \notin {Board[h][k].id : k \in DOMAIN Board[h]}
      BY <3>5, <2>15, <2>17
    <3> QED BY <3>1, <3>2, <3>3, <3>4, <3>5, <3>6
        DEF Shelf!Add, Shelf!Filled, Shelf!Ids, Board, Shown, Entries
  <2> QED BY <2>18, <1>5
<1> QED BY <1>7, <1>8, <1>l

LEMMA BoardInit == Init => Shelf!Init
<1> SUFFICES ASSUME Init PROVE Shelf!Init
  OBVIOUS
<1>1. IInv
  BY InitInv
<1>2. ASSUME NEW g \in Shown, NEW i \in DOMAIN groups[g].groupMemos,
             NEW k \in DOMAIN groups[g].groupMemos, i # k
      PROVE  Entry(groups[g].groupMemos[i]).id # Entry(groups[g].groupMemos[k]).id
  <2>1. /\ groups[g].groupMemos[i] \in RowId /\ rows[groups[g].groupMemos[i]] # Null
        /\ groups[g].groupMemos[k] \in RowId /\ rows[groups[g].groupMemos[k]] # Null
    BY <1>1, RowOfList
  <2>2. groups[g].groupMemos[i] # groups[g].groupMemos[k]
    BY <1>1, <1>2 DEF IInv, StoreInv, ListOK, IsInjective, Shown
  <2>3. rows[groups[g].groupMemos[i]].ref # rows[groups[g].groupMemos[k]].ref
    BY <2>1, <2>2, OneRowAssumption DEF Init
  <2> QED BY <2>3 DEF Entry
<1> QED BY <1>2 DEF Shelf!Init, Shown

\* Only the transactions of a save change the file.
LEMMA StoreSteps ==
  ASSUME [Next]_vars
  PROVE  CreateStep \/ WriteStep \/ RowStep \/ LinkStep \/ UNCHANGED store
BY DEF Next, User, UiThread, vars, ui, store, TapAddMemo, TapMemo, Start, TypeTitle, TypeContent,
       ClickAddTag, ClickTag, Event, Finish, Recreate, Launch, Kill, Continue,
       SetGroupTags, ModeEdit, Subscribe, TitleChanged, ContentChanged, AddTag, SortTags,
       RemoveTag

LEMMA BoardNext == IInv /\ [Next]_vars => UNCHANGED Board \/ Shelf!Next
<1> SUFFICES ASSUME IInv, [Next]_vars PROVE UNCHANGED Board \/ Shelf!Next
  OBVIOUS
<1>1. CASE CreateStep
  BY <1>1, CreateUnseen
<1>2. CASE WriteStep
  BY <1>2, WriteSeen DEF Shelf!Next, Board, Shown, Entries
<1>3. CASE RowStep
  BY <1>3, RowUnseen
<1>4. CASE LinkStep
  BY <1>4, LinkSeen DEF Shelf!Next, Board, Shown, Entries
<1>5. CASE UNCHANGED store
  BY <1>5, SameStore
<1> QED BY <1>1, <1>2, <1>3, <1>4, <1>5, StoreSteps

\* Of all the transactions of the memo editors, interleaved with one another and
\* cut off by deaths, a user of the lists sees the steps of MemoShelf only: the
\* last transaction of a first save, and the writes to a memo that is listed.
THEOREM Refinement == Spec => ImplementsShelf
<1>1. IInv /\ [Next]_vars => [Shelf!Next]_Board
  BY BoardNext
<1>2. [Shelf!Next]_Board => [Shelf!Next]_([g \in {h \in GroupId : groups[h] # Null} |->
        [i \in DOMAIN groups[g].groupMemos |-> Entry(groups[g].groupMemos[i])]])
  BY DEF Board, Shown, Entries
<1> QED BY <1>1, <1>2, BoardInit, Invariance, PTL DEF Spec, ImplementsShelf, Shelf!Spec

(***************************************************************************)
(* What a death can cost: the one memo that was being saved, for good.     *)
(*                                                                         *)
(* The invariant says that the editors have a hold of listed memos only:   *)
(* what is queued to be opened is listed, and so is what an editor has     *)
(* open, unless it is just being saved.  While it is being saved for the   *)
(* first time it has no row until it gets the one that is linked next.     *)
(***************************************************************************)

IntentLinked(i) == i.memoId # Null => Listed(i.memoId)
EditorLinked(e) == IntentLinked(e.intent) /\ (e.memoId # Null => Listed(e.memoId))

LinkInv ==
  /\ \A i \in DOMAIN starting : IntentLinked(starting[i])
  /\ \A i \in DOMAIN below : EditorLinked(below[i])
  /\ editor # Null => IntentLinked(editor.intent)
  /\ editor # Null /\ save.step = "none" => EditorLinked(editor)
  /\ save.step \in {"write", "row"} => Listed(editor.memoId) \/ RowsOf(editor.memoId) = {}

LinkedInv == IInv /\ LinkInv

-----------------------------------------------------------------------------
LEMMA SameLinks ==
  ASSUME UNCHANGED <<groups, rows>>
  PROVE  /\ \A r : Linked(r)' <=> Linked(r)
         /\ \A m : RowsOf(m)' = RowsOf(m)
         /\ \A m : Listed(m)' <=> Listed(m)
<1>1. \A r : Linked(r)' <=> Linked(r)
  BY DEF Linked
<1>2. \A m : RowsOf(m)' = RowsOf(m)
  BY DEF RowsOf
<1> QED BY <1>1, <1>2 DEF Listed

\* Nothing is unlisted, and the last transaction of a save lists its one row.
LEMMA Monotone ==
  ASSUME IInv, [Next]_vars
  PROVE  /\ \A m \in MemoId : memos[m] # Null => memos'[m] # Null
         /\ \A r \in RowId : rows[r] # Null => rows'[r] = rows[r]
         /\ \A r \in RowId : Linked(r) => Linked(r)'
         /\ \A r \in RowId : Linked(r)' => Linked(r) \/ (save.step = "link" /\ r = editor.groupMemo)
<1>t. /\ groups \in [GroupId -> Group \cup {Null}]
      /\ memos \in [MemoId -> Memo \cup {Null}]
      /\ rows \in [RowId -> GroupMemo \cup {Null}]
  BY DEF IInv, TypeOK, StoreTypeOK
<1>1. CASE UNCHANGED store
  BY <1>1, SameLinks DEF store
<1>2. CASE CreateStep \/ WriteStep
  <2>1. UNCHANGED <<groups, rows>>
    BY <1>2 DEF CreateStep, WriteStep, CreateMemo, WriteMemo
  <2>2. \A m \in MemoId : memos[m] # Null => memos'[m] # Null
    <3>1. CASE CreateStep
      BY <3>1, <1>t DEF CreateStep, CreateMemo
    <3>2. CASE WriteStep
      <4>1. IInv'
        BY <3>2, WriteStepInv
      <4>2. \E new : memos' = [memos EXCEPT ![editor.memo] = new]
        BY <3>2 DEF WriteStep, WriteMemo
      <4>3. memos'[editor.memo] # Null
        BY <3>2, <4>1 DEF IInv, UiInv, SaveOK, Written, WriteStep, NoSave
      <4> QED BY <4>2, <4>3, <1>t
    <3> QED BY <3>1, <3>2, <1>2
  <2> QED BY <2>1, <2>2, SameLinks
<1>3. CASE RowStep
  <2>1. UNCHANGED <<groups, memos>>
    BY <1>3 DEF RowStep, store, CreateRow
  <2>2. CASE UNCHANGED rows
    BY <2>1, <2>2, SameLinks
  <2>3. CASE \E r \in RowId : CreateRow(r, "memo", editor.intent.parent, editor.memoId)
    <3>1. PICK r \in RowId : rows[r] = Null /\ \A q \in RowId \ {r} : rows'[q] = rows[q]
      BY <2>3, <1>t DEF CreateRow
    <3>2. ASSUME NEW g \in GroupId, groups[g] # Null, NEW q \in ToSet(groups[g].groupMemos)
          PROVE  rows[q] # Null
      <4>1. PICK i \in DOMAIN groups[g].groupMemos : q = groups[g].groupMemos[i]
        BY DEF ToSet
      <4> QED BY <3>2, <4>1 DEF IInv, StoreInv, ListOK
    <3>3. ~Linked(r)'
      <4> SUFFICES ASSUME Linked(r)' PROVE FALSE
        OBVIOUS
      <4>1. IInv'
        BY <1>3, RowStepInv
      <4>2. rows'[r].parent \in GroupId
        BY <4>1 DEF IInv, TypeOK, StoreTypeOK, GroupMemo, Linked
      <4> QED BY <4>2, <3>1, <3>2, <2>1 DEF Linked
    <3> QED BY <3>1, <3>3, <2>1 DEF Linked
  <2>4. UNCHANGED rows \/ \E r \in RowId : CreateRow(r, "memo", editor.intent.parent, editor.memoId)
    BY <1>3 DEF RowStep, store
  <2> QED BY <2>2, <2>3, <2>4
<1>4. CASE LinkStep
  <2>1. PICK r \in RowId : r = editor.groupMemo /\ rows[r] # Null
    <3>1. save # NoSave /\ save.step = "link" /\ editor.groupMemo # Null
      BY <1>4 DEF LinkStep, NoSave, IInv, UiInv, SaveOK
    <3> QED BY <3>1, RunningEditor DEF EditorOK, Editor
  <2>2. PICK g \in GroupId : g = rows[r].parent
    BY <2>1, <1>t DEF GroupMemo
  <2>3. /\ UNCHANGED <<memos, rows>> /\ save.step = "link" /\ groups[g] # Null
        /\ groups' = IF Contains(groups[g].groupMemos, r) THEN groups
                     ELSE [groups EXCEPT ![g].groupMemos = Append(groups[g].groupMemos, r)]
    BY <1>4, <2>1, <2>2 DEF LinkStep, LinkRow
  <2>4. CASE Contains(groups[g].groupMemos, r)
    BY <2>3, <2>4, SameLinks
  <2>5. CASE ~Contains(groups[g].groupMemos, r)
    <3>1. groups[g] \in Group /\ groups[g].groupMemos \in Seq(RowId)
      BY <2>3, <1>t DEF Group
    <3>2. PICK list \in Seq(RowId) : list = groups[g].groupMemos
      BY <3>1
    <3>3. PICK new \in Group : /\ new = [groups[g] EXCEPT !.groupMemos = Append(list, r)]
                               /\ new.groupMemos = Append(list, r) /\ new # Null
      <4>1. Append(list, r) \in Seq(RowId)
        OBVIOUS
      <4>2. [groups[g] EXCEPT !.groupMemos = Append(list, r)] \in Group
        BY <3>1, <4>1 DEF Group
      <4> QED BY <4>2, <3>1, StoreAssumption DEF Group
    <3>4. groups' = [groups EXCEPT ![g] = new]
      BY <2>3, <2>5, <3>2, <3>3
    <3>5. groups'[g] = new /\ \A h \in GroupId \ {g} : groups'[h] = groups[h]
      BY <3>4, <1>t
    <3>6. ToSet(Append(list, r)) = ToSet(list) \cup {r}
      <4>1. /\ DOMAIN list = 1..Len(list) /\ DOMAIN Append(list, r) = 1..(Len(list) + 1)
            /\ \A i \in 1..Len(list) : Append(list, r)[i] = list[i]
            /\ Append(list, r)[Len(list) + 1] = r /\ Len(list) \in Nat
        OBVIOUS
      <4> QED BY <4>1 DEF ToSet
    <3>8. \A q \in RowId : rows[q] # Null => rows[q].parent \in GroupId
      BY <1>t DEF GroupMemo
    <3>9. ASSUME NEW q \in RowId, rows[q] # Null
          PROVE  Linked(q)' <=> Linked(q) \/ q = r
      <4>1. PICK h \in GroupId : h = rows[q].parent
        BY <3>8, <3>9
      <4>2. rows' = rows
        BY <2>3
      <4>3. CASE h = g
        <5>1. Linked(q) <=> q \in ToSet(list)
          BY <4>1, <4>3, <2>3, <3>2, <3>9 DEF Linked
        <5>2. Linked(q)' <=> q \in ToSet(Append(list, r))
          BY <4>1, <4>2, <4>3, <3>3, <3>5, <3>9 DEF Linked
        <5> QED BY <5>1, <5>2, <3>6
      <4>4. CASE h # g
        BY <4>1, <4>2, <4>4, <2>2, <3>5, <3>9 DEF Linked
      <4> QED BY <4>3, <4>4
    <3>10. \A q \in RowId : Linked(q) \/ Linked(q)' => rows[q] # Null
      BY <2>3 DEF Linked
    <3> QED BY <2>1, <2>3, <3>9, <3>10
  <2> QED BY <2>4, <2>5
<1> QED BY <1>1, <1>2, <1>3, <1>4, StoreSteps

\* What is listed stays listed; a memo gets another row by the row step only.
LEMMA ListedStays ==
  ASSUME IInv, [Next]_vars
  PROVE  \A m : Listed(m) => Listed(m)'
<1> SUFFICES ASSUME NEW m, Listed(m) PROVE Listed(m)'
  OBVIOUS
<1>1. PICK r \in RowId : rows[r] # Null /\ rows[r].typeId = m /\ Linked(r)
  BY DEF Listed, RowsOf
<1>2. rows'[r] = rows[r] /\ Linked(r)'
  BY <1>1, Monotone
<1> QED BY <1>1, <1>2 DEF Listed, RowsOf

\* A row is the one of its memo.
LEMMA RowListed ==
  ASSUME IInv, NEW r \in RowId, rows[r] # Null, rows[r].typeId \in MemoId, Listed(rows[r].typeId)
  PROVE  Linked(r)
BY DEF Listed, RowsOf, IInv, StoreInv, OneRow

LEMMA RowLists ==
  ASSUME NEW r \in RowId, rows[r] # Null, Linked(r)
  PROVE  Listed(rows[r].typeId)
BY DEF Listed, RowsOf

-----------------------------------------------------------------------------
\* Steps that start or go on with a callback.
LEMMA CallbackLinked ==
  ASSUME LinkedInv, [Next]_vars, UNCHANGED <<below, starting>>,
         editor # Null, save = NoSave, NEW e,
         e.memoId = editor.memoId, e.intent = editor.intent, e.memo \in {Null, e.memoId},
         {"memo", "memoId", "intent"} \subseteq DOMAIN e,
         SaveAfterCheck(e) \/ (editor' = e /\ UNCHANGED save)
  PROVE  LinkInv' /\ editor'.memo \in {Null, editor.memoId}
<1>1. /\ editor'.memoId = e.memoId /\ editor'.intent = e.intent
      /\ save'.step = "write" => e.memoId # Null
      /\ save'.step \in {"none", "create", "write"}
      /\ editor'.memo \in {Null, editor.memoId}
  <2>1. ASSUME NEW t, NEW c, NEW s, Save(e, t, c, s)
        PROVE  /\ editor'.memoId = e.memoId /\ editor'.intent = e.intent
               /\ save'.step = "write" => e.memoId # Null
               /\ save'.step \in {"create", "write"}
               /\ editor'.memo \in {Null, editor.memoId}
    <3>1. /\ [e EXCEPT !.memo = e.memoId].memoId = e.memoId
          /\ [e EXCEPT !.memo = e.memoId].intent = e.intent
          /\ [e EXCEPT !.memo = e.memoId].memo = e.memoId
      OBVIOUS
    <3> QED BY <2>1, <3>1 DEF Save
  <2> QED BY <2>1 DEF SaveAfterCheck, NoSave
<1>2. EditorLinked(editor)
  BY DEF LinkedInv, LinkInv, NoSave
<1>3. \A m : Listed(m) => Listed(m)'
  BY ListedStays DEF LinkedInv
<1> QED BY <1>1, <1>2, <1>3 DEF LinkedInv, LinkInv, EditorLinked, IntentLinked

LEMMA CallbacksLinked ==
  ASSUME LinkedInv, 
         \/ SetGroupTags \/ ModeEdit \/ Subscribe \/ TitleChanged \/ ContentChanged
         \/ AddTag \/ SortTags \/ RemoveTag
  PROVE  LinkInv' /\ editor'.memo \in {Null, editor.memoId}
<1>0. [Next]_vars
  BY DEF Next, UiThread
<1>1. /\ UNCHANGED <<below, starting>> /\ save = NoSave /\ work # <<>>
  BY DEF SetGroupTags, ModeEdit, Subscribe, TitleChanged, ContentChanged,
         AddTag, SortTags, RemoveTag, Continue
<1>2. editor \in Editor /\ editor # Null /\ editor.memo \in {Null, editor.memoId}
  BY <1>1, RunningEditor DEF LinkedInv, EditorOK
<1>4. \/ SaveAfterCheck(editor) \/ (editor' = editor /\ UNCHANGED save)
      \/ \E t : SaveAfterCheck([editor EXCEPT !.title = t])
      \/ \E t : SaveAfterCheck([editor EXCEPT !.content = t])
      \/ \E t : SaveAfterCheck([editor EXCEPT !.tags = t])
      \/ \E t, c, s : SaveAfterCheck([editor EXCEPT !.memo = editor.memoId,
                                     !.title = t, !.content = c, !.tags = s])
  BY DEF SetGroupTags, ModeEdit, Subscribe, TitleChanged, ContentChanged,
         AddTag, SortTags, RemoveTag
<1>5. ASSUME NEW e, {"memo", "memoId", "intent"} \subseteq DOMAIN e,
             e.memoId = editor.memoId, e.intent = editor.intent, e.memo \in {Null, e.memoId},
             SaveAfterCheck(e) \/ (editor' = e /\ UNCHANGED save)
      PROVE  LinkInv' /\ editor'.memo \in {Null, editor.memoId}
  BY <1>0, <1>1, <1>2, <1>5, CallbackLinked
<1>6. {"memo", "memoId", "intent"} \subseteq DOMAIN editor
  BY <1>2 DEF Editor
<1>7. CASE SaveAfterCheck(editor) \/ (editor' = editor /\ UNCHANGED save)
  BY <1>2, <1>5, <1>6, <1>7
<1>8. CASE \E t : SaveAfterCheck([editor EXCEPT !.title = t])
  <2>1. PICK t : SaveAfterCheck([editor EXCEPT !.title = t])
    BY <1>8
  <2> DEFINE e == [editor EXCEPT !.title = t]
  <2>2. /\ {"memo", "memoId", "intent"} \subseteq DOMAIN e
        /\ e.memoId = editor.memoId /\ e.intent = editor.intent
        /\ e.memo \in {Null, e.memoId}
    BY <1>2, <1>6 DEF Editor
  <2> QED BY <2>1, <2>2, <1>5
<1>9. CASE \E t : SaveAfterCheck([editor EXCEPT !.content = t])
  <2>1. PICK t : SaveAfterCheck([editor EXCEPT !.content = t])
    BY <1>9
  <2> DEFINE e == [editor EXCEPT !.content = t]
  <2>2. /\ {"memo", "memoId", "intent"} \subseteq DOMAIN e
        /\ e.memoId = editor.memoId /\ e.intent = editor.intent
        /\ e.memo \in {Null, e.memoId}
    BY <1>2, <1>6 DEF Editor
  <2> QED BY <2>1, <2>2, <1>5
<1>10. CASE \E t : SaveAfterCheck([editor EXCEPT !.tags = t])
  <2>1. PICK t : SaveAfterCheck([editor EXCEPT !.tags = t])
    BY <1>10
  <2> DEFINE e == [editor EXCEPT !.tags = t]
  <2>2. /\ {"memo", "memoId", "intent"} \subseteq DOMAIN e
        /\ e.memoId = editor.memoId /\ e.intent = editor.intent
        /\ e.memo \in {Null, e.memoId}
    BY <1>2, <1>6 DEF Editor
  <2> QED BY <2>1, <2>2, <1>5
<1>11. CASE \E t, c, s : SaveAfterCheck([editor EXCEPT !.memo = editor.memoId,
                                     !.title = t, !.content = c, !.tags = s])
  <2>1. PICK t, c, s : SaveAfterCheck([editor EXCEPT !.memo = editor.memoId,
                          !.title = t, !.content = c, !.tags = s])
    BY <1>11
  <2> DEFINE e == [editor EXCEPT !.memo = editor.memoId,
                          !.title = t, !.content = c, !.tags = s]
  <2>2. /\ {"memo", "memoId", "intent"} \subseteq DOMAIN e
        /\ e.memoId = editor.memoId /\ e.intent = editor.intent
        /\ e.memo \in {Null, e.memoId}
    BY <1>2, <1>6 DEF Editor
  <2> QED BY <2>1, <2>2, <1>5
<1> QED BY <1>4, <1>7, <1>8, <1>9, <1>10, <1>11

LEMMA UserLinked ==
  ASSUME LinkedInv, User \/ Launch
  PROVE  LinkInv'
<1>1. ASSUME UNCHANGED <<store, save>>, save = NoSave,
             \A i \in DOMAIN starting' : IntentLinked(starting'[i]),
             \A i \in DOMAIN below' : EditorLinked(below'[i]),
             editor' # Null => EditorLinked(editor')
      PROVE  LinkInv'
  <2>1. \A m : Listed(m)' <=> Listed(m)
    BY <1>1, SameLinks DEF store
  <2> QED BY <1>1, <2>1 DEF LinkInv, IntentLinked, EditorLinked, NoSave
<1>2. /\ starting \in Seq(Intent) /\ below \in Seq(Editor)
      /\ \A i \in DOMAIN starting : IntentLinked(starting[i])
      /\ \A i \in DOMAIN below : EditorLinked(below[i])
      /\ editor # Null /\ save = NoSave => EditorLinked(editor)
  BY DEF LinkedInv, IInv, TypeOK, LinkInv, NoSave
<1>3. ASSUME NEW i \in Intent, Start(i), IntentLinked(i)
      PROVE  LinkInv'
  <2>1. starting' = Append(starting, i) /\ UNCHANGED <<store, editor, below, save>> /\ save = NoSave
    BY <1>3 DEF Start, AtRest
  <2>2. \A k \in DOMAIN starting' :
          starting'[k] = i \/ (k \in DOMAIN starting /\ starting'[k] = starting[k])
    BY <2>1, <1>2, AppendOK
  <2> QED BY <2>1, <2>2, <1>1, <1>2, <1>3
<1>4. CASE TapAddMemo
  <2>1. PICK g \in GroupId : Start([mode |-> "create", parent |-> g, memoId |-> Null])
    BY <1>4 DEF TapAddMemo
  <2> QED BY <2>1, <1>3 DEF Intent, IntentLinked
<1>5. CASE TapMemo
  <2>1. PICK g \in GroupId : groups[g] # Null /\
          \E r \in ToSet(groups[g].groupMemos) :
            /\ rows[r].type = "memo"
            /\ Start([mode |-> "edit", parent |-> g, memoId |-> rows[r].ref])
    BY <1>5 DEF TapMemo
  <2>2. PICK r \in ToSet(groups[g].groupMemos) :
            /\ rows[r].type = "memo"
            /\ Start([mode |-> "edit", parent |-> g, memoId |-> rows[r].ref])
    BY <2>1
  <2>3. PICK k \in DOMAIN groups[g].groupMemos : r = groups[g].groupMemos[k]
    BY DEF ToSet
  <2>4. /\ r \in RowId /\ rows[r] # Null /\ rows[r].parent = g
        /\ rows[r].ref \in MemoId /\ rows[r].typeId = rows[r].ref
    BY <2>1, <2>2, <2>3, RowOfList DEF LinkedInv, Shown
  <2>5. Listed(rows[r].ref)
    BY <2>1, <2>4, RowLists DEF Linked
  <2> QED BY <2>2, <2>4, <2>5, <1>3 DEF Intent, IntentLinked
<1>6. CASE TypeTitle \/ TypeContent \/ ClickAddTag \/ ClickTag
  <2>1. UNCHANGED <<store, editor, below, starting, save>> /\ save = NoSave
    BY <1>6 DEF TypeTitle, TypeContent, ClickAddTag, ClickTag, Event, AtRest
  <2> QED BY <2>1, <1>1, <1>2
<1>7. CASE Finish
  <2>1. UNCHANGED <<store, starting, save>> /\ save = NoSave
    BY <1>7 DEF Finish, AtRest
  <2>2. CASE below = <<>>
    BY <1>7, <2>1, <2>2, <1>1, <1>2 DEF Finish
  <2>3. CASE below # <<>>
    <3>1. editor' = below[Len(below)] /\ below' = SubSeq(below, 1, Len(below) - 1)
      BY <1>7, <2>3 DEF Finish, Last, Front
    <3>2. EditorLinked(editor') /\ \A i \in DOMAIN below' : EditorLinked(below'[i])
      BY <1>2, <2>3, <3>1
    <3> QED BY <2>1, <3>2, <1>1, <1>2
  <2> QED BY <2>2, <2>3
<1>8. ASSUME NEW i, IntentLinked(i) PROVE EditorLinked(NewEditor(i))
  BY <1>8 DEF EditorLinked, IntentLinked, NewEditor
<1>9. CASE Recreate
  <2>1. UNCHANGED <<store, below, starting, save>> /\ save = NoSave /\ editor # Null
    BY <1>9 DEF Recreate, AtRest
  <2>2. editor' = NewEditor(editor.intent) /\ IntentLinked(editor.intent)
    BY <1>9, <2>1, <1>2 DEF Recreate, EditorLinked
  <2> QED BY <2>1, <2>2, <1>1, <1>2, <1>8
<1>10. CASE Launch
  <2>1. UNCHANGED <<store, save>> /\ save = NoSave /\ starting # <<>>
    BY <1>10 DEF Launch, AtRest
  <2>2. editor' = NewEditor(Head(starting)) /\ starting' = Tail(starting)
    BY <1>10 DEF Launch
  <2>3. IntentLinked(Head(starting)) /\ \A i \in DOMAIN starting' : IntentLinked(starting'[i])
    BY <1>2, <2>1, <2>2
  <2>4. \A i \in DOMAIN below' : EditorLinked(below'[i])
    <3>1. CASE editor = Null
      BY <1>10, <3>1, <1>2 DEF Launch
    <3>2. CASE editor # Null
      <4>1. below' = Append(below, editor)
        BY <1>10, <3>2 DEF Launch
      <4> QED BY <4>1, <3>2, <2>1, <1>2
    <3> QED BY <3>1, <3>2
  <2> QED BY <2>1, <2>2, <2>3, <2>4, <1>1, <1>8
<1> QED BY <1>4, <1>5, <1>6, <1>7, <1>9, <1>10 DEF User

\* A memo that is created has no row, and gets the one that is linked.
LEMMA TransactionLinked ==
  ASSUME LinkedInv, CreateStep \/ WriteStep \/ RowStep \/ LinkStep
  PROVE  LinkInv'
<1>0. [Next]_vars
  BY DEF Next, UiThread
<1>1. UNCHANGED <<below, starting>> /\ \A m : Listed(m) => Listed(m)'
  BY <1>0, ListedStays DEF LinkedInv, CreateStep, WriteStep, RowStep, LinkStep
<1>2. save # NoSave /\ save.step \in {"create", "write", "row", "link"}
  <2>1. save.step \in {"create", "write", "row", "link"}
    BY DEF CreateStep, WriteStep, RowStep, LinkStep
  <2> QED BY <2>1 DEF NoSave
<1>3. /\ editor \in Editor /\ editor # Null /\ EditorOK(editor) /\ SaveOK
      /\ IntentLinked(editor.intent)
  BY <1>2, RunningEditor DEF LinkedInv, IInv, UiInv, LinkInv
<1>4. ASSUME editor'.intent = editor.intent,
             save'.step = "none" => Listed(editor.memoId)',
             save'.step \in {"write", "row"} =>
               Listed(editor.memoId)' \/ RowsOf(editor.memoId)' = {}
      PROVE  LinkInv'
  BY <1>1, <1>3, <1>4 DEF LinkedInv, LinkInv, EditorLinked, IntentLinked
<1>5. CASE CreateStep
  <2>1. PICK m \in MemoId : /\ CreateMemo(m, editor.intent.parent)
                            /\ editor' = [editor EXCEPT !.memo = m, !.memoId = m]
    BY <1>5 DEF CreateStep
  <2>2. editor'.memoId = m /\ editor'.intent = editor.intent
    BY <2>1, <1>3 DEF Editor
  <2>3. RowsOf(m) = {}
    BY <2>1 DEF RowsOf, CreateMemo, LinkedInv, IInv, StoreInv, RowOK, Written
  <2>4. RowsOf(editor.memoId)' = {}
    BY <2>1, <2>2, <2>3 DEF CreateMemo, RowsOf
  <2>5. save'.step = "write"
    <3>1. save' = [save EXCEPT !.step = "write"] /\ save \in Saving
      BY <1>5 DEF CreateStep, LinkedInv, IInv, TypeOK
    <3> QED BY <3>1 DEF Saving
  <2> QED BY <2>2, <2>4, <2>5, <1>4
<1>6. CASE WriteStep
  <2>1. UNCHANGED <<editor, groups, rows>> /\ save'.step = "row" /\ save.step = "write"
    BY <1>6 DEF WriteStep, WriteMemo, NoSave
  <2>2. Listed(editor.memoId) \/ RowsOf(editor.memoId) = {}
    BY <2>1 DEF LinkedInv, LinkInv
  <2>3. Listed(editor.memoId)' \/ RowsOf(editor.memoId)' = {}
    BY <2>1, <2>2 DEF Listed, RowsOf, Linked
  <2> QED BY <2>1, <2>3, <1>4
<1>7. CASE RowStep
  <2>1. /\ save.step = "row" /\ editor.memo = editor.memoId /\ editor.memoId \in MemoId
        /\ Listed(editor.memoId) \/ RowsOf(editor.memoId) = {}
    BY <1>7, <1>3 DEF RowStep, SaveOK, EditorOK, Editor, LinkedInv, LinkInv
  <2>2. /\ editor'.intent = editor.intent /\ editor'.memoId = editor.memoId
        /\ save'.step \in {"none", "link"}
    <3>1. \/ editor' = editor
          \/ \E r : editor' = [editor EXCEPT !.groupMemo = r]
      BY <1>7 DEF RowStep
    <3>2. save' = NoSave \/ save' = [save EXCEPT !.step = "link"]
      BY <1>7 DEF RowStep
    <3> QED BY <3>1, <3>2, <1>3 DEF Editor, NoSave, LinkedInv, IInv, TypeOK, Saving
  <2>3. save'.step = "none" => Listed(editor.memoId)
    <3>1. save'.step = "none" => editor.groupMemo # Null \/ RowsOf(editor.memoId) # {}
      BY <1>7 DEF RowStep, LinkedInv, IInv, TypeOK, Saving
    <3>2. editor.groupMemo # Null => editor.groupMemo \in RowsOf(editor.memoId)
      BY <1>3 DEF EditorOK, Editor, RowsOf
    <3> QED BY <3>1, <3>2, <2>1
  <2>4. save'.step = "none" => Listed(editor.memoId)'
    <3>1. Listed(editor.memoId) => Listed(editor.memoId)'
      <4>1. PICK m \in MemoId : m = editor.memoId
        BY <2>1
      <4>2. Listed(m)' => Listed(editor.memoId)'
        BY <4>1, <2>2 DEF Listed, RowsOf
      <4> QED BY <4>1, <4>2, <1>1
    <3> QED BY <2>3, <3>1
  <2> QED BY <2>2, <2>4, <1>4
<1>8. CASE LinkStep
  <2>1. UNCHANGED <<editor, rows>> /\ save' = NoSave /\ save.step = "link"
    BY <1>8 DEF LinkStep, LinkRow
  <2>2. PICK r \in RowId : r = editor.groupMemo /\ rows[r] # Null /\ rows[r].typeId = editor.memoId
    BY <1>3, <2>1 DEF SaveOK, EditorOK, Editor
  <2>3. Linked(r)'
    <3>1. PICK g \in GroupId : g = rows[r].parent
      BY <2>2 DEF LinkedInv, IInv, TypeOK, StoreTypeOK, GroupMemo
    <3>2. /\ groups[g] # Null
          /\ groups' = IF Contains(groups[g].groupMemos, r) THEN groups
                       ELSE [groups EXCEPT ![g].groupMemos = Append(groups[g].groupMemos, r)]
      BY <1>8, <2>2, <3>1 DEF LinkStep, LinkRow
    <3>3. groups \in [GroupId -> Group \cup {Null}] /\ groups[g] \in Group
      BY <3>2 DEF LinkedInv, IInv, TypeOK, StoreTypeOK
    <3>4. PICK list \in Seq(RowId) : list = groups[g].groupMemos
      BY <3>3 DEF Group
    <3>5. CASE Contains(list, r)
      <4>1. r \in ToSet(list)
        BY <3>5 DEF Contains, ToSet
      <4> QED BY <4>1, <3>1, <3>2, <3>4, <3>5, <2>1, <2>2 DEF Linked
    <3>6. CASE ~Contains(list, r)
      <4>1. PICK new \in Group : /\ new = [groups[g] EXCEPT !.groupMemos = Append(list, r)]
                                 /\ new.groupMemos = Append(list, r) /\ new # Null
        <5>1. Append(list, r) \in Seq(RowId)
          OBVIOUS
        <5>2. [groups[g] EXCEPT !.groupMemos = Append(list, r)] \in Group
          BY <3>3, <5>1 DEF Group
        <5> QED BY <5>2, <3>3, StoreAssumption DEF Group
      <4>2. groups' = [groups EXCEPT ![g] = new]
        BY <3>2, <3>4, <3>6, <4>1
      <4>3. groups'[g] = new
        BY <4>2, <3>3
      <4>4. r \in ToSet(Append(list, r))
        <5>1. Len(list) + 1 \in DOMAIN Append(list, r) /\ Append(list, r)[Len(list) + 1] = r
          OBVIOUS
        <5> QED BY <5>1 DEF ToSet
      <4> QED BY <4>1, <4>3, <4>4, <3>1, <2>1, <2>2 DEF Linked
    <3> QED BY <3>5, <3>6
  <2>4. Listed(editor.memoId)'
    BY <2>1, <2>2, <2>3 DEF Listed, RowsOf
  <2> QED BY <2>1, <2>4, <1>4 DEF NoSave
<1> QED BY <1>5, <1>6, <1>7, <1>8

LEMMA LinkedInit == Init => LinkInv
BY DEF Init, LinkInv, NoSave

LEMMA LinkedNext == LinkedInv /\ [Next]_vars => LinkedInv'
<1> SUFFICES ASSUME LinkedInv, [Next]_vars PROVE LinkedInv'
  OBVIOUS
<1>1. IInv'
  BY NextInv DEF LinkedInv
<1>2. CASE User \/ Launch
  BY <1>1, <1>2, UserLinked DEF LinkedInv
<1>3. CASE \/ SetGroupTags \/ ModeEdit \/ Subscribe \/ TitleChanged \/ ContentChanged
           \/ AddTag \/ SortTags \/ RemoveTag
  BY <1>1, <1>3, CallbacksLinked DEF LinkedInv
<1>4. CASE CreateStep \/ WriteStep \/ RowStep \/ LinkStep
  BY <1>1, <1>4, TransactionLinked DEF LinkedInv
<1>5. CASE Kill
  <2>1. editor' = Null /\ below' = <<>> /\ starting' = <<>> /\ save' = NoSave
    BY <1>5 DEF Kill
  <2> QED BY <1>1, <2>1 DEF LinkedInv, LinkInv, NoSave
<1>6. CASE UNCHANGED vars
  <2>1. UNCHANGED <<groups, rows, editor, below, starting, save>>
    BY <1>6 DEF vars, store, ui
  <2>2. LinkInv'
    BY <2>1, SameLinks DEF LinkedInv, LinkInv, IntentLinked, EditorLinked
  <2> QED BY <1>1, <2>2 DEF LinkedInv
<1> QED BY <1>2, <1>3, <1>4, <1>5, <1>6 DEF Next, UiThread

\* The invariant about who still holds which memo holds of all behaviours.
THEOREM LinkInvariance == Spec => []LinkedInv
<1>1. Init => LinkedInv
  BY InitInv, LinkedInit DEF LinkedInv
<1> QED BY <1>1, LinkedNext, PTL DEF Spec

-----------------------------------------------------------------------------
\* The memo a save is about: it was that memo before the step, or it is new, or the
\* save begins now, on a memo that is listed.
LEMMA SavedMemo ==
  ASSUME LinkedInv, [Next]_vars, NEW m \in MemoId, memos[m] # Null, BeingSaved(m)'
  PROVE  BeingSaved(m) \/ Listed(m)
<1>1. save'.step # "none" /\ editor'.memo = m
  BY DEF BeingSaved
<1>2. CASE CreateStep
  <2>1. PICK n \in MemoId : memos[n] = Null /\ editor' = [editor EXCEPT !.memo = n, !.memoId = n]
    BY <1>2 DEF CreateStep, CreateMemo
  <2>2. editor \in Editor
    BY <1>2, RunningEditor DEF CreateStep, NoSave, LinkedInv
  <2> QED BY <1>1, <2>1, <2>2 DEF Editor
<1>3. CASE WriteStep \/ RowStep
  <2>1. save.step \in {"write", "row"}
    BY <1>3 DEF WriteStep, RowStep
  <2>2. editor \in Editor
    BY <2>1, RunningEditor DEF NoSave, LinkedInv
  <2>3. editor' = editor \/ \E r : editor' = [editor EXCEPT !.groupMemo = r]
    BY <1>3 DEF WriteStep, RowStep
  <2>4. editor'.memo = editor.memo
    BY <2>2, <2>3 DEF Editor
  <2> QED BY <1>1, <2>1, <2>4 DEF BeingSaved
<1>4. CASE LinkStep \/ Kill
  BY <1>1, <1>4 DEF LinkStep, Kill, NoSave
<1>5. CASE UNCHANGED <<editor, save>>
  BY <1>1, <1>5 DEF BeingSaved
<1>6. CASE User \/ Launch
  <2>1. UNCHANGED save /\ save = NoSave
    BY <1>6 DEF User, Launch, TapAddMemo, TapMemo, Start, TypeTitle, TypeContent, ClickAddTag,
                ClickTag, Event, Finish, Recreate, AtRest
  <2> QED BY <1>1, <2>1 DEF NoSave
<1>7. CASE \/ SetGroupTags \/ ModeEdit \/ Subscribe \/ TitleChanged \/ ContentChanged
           \/ AddTag \/ SortTags \/ RemoveTag
  <2>1. save = NoSave /\ work # <<>>
    BY <1>7 DEF SetGroupTags, ModeEdit, Subscribe, TitleChanged, ContentChanged, AddTag,
                SortTags, RemoveTag, Continue
  <2>2. editor \in Editor /\ editor # Null /\ editor.memo \in {Null, editor.memoId}
    BY <2>1, RunningEditor DEF LinkedInv, EditorOK
  <2>3. editor.memoId # Null => Listed(editor.memoId)
    BY <2>1, <2>2 DEF LinkedInv, LinkInv, EditorLinked, NoSave
  <2>4. m # Null
    BY StoreAssumption
  <2>5. editor'.memo \in {Null, editor.memoId}
    BY <1>7, CallbacksLinked
  <2> QED BY <1>1, <2>3, <2>4, <2>5
<1> QED BY <1>2, <1>3, <1>4, <1>5, <1>6, <1>7 DEF Next, UiThread, vars, ui

\* And once the save is over the memo is listed, unless the process died.
LEMMA SaveListed ==
  ASSUME LinkedInv, LinkedInv', [Next]_vars, ~Kill, NEW m \in MemoId, BeingSaved(m)
  PROVE  BeingSaved(m)' \/ Listed(m)'
<1>1. save.step # "none" /\ editor.memo = m /\ save # NoSave /\ m # Null
  BY StoreAssumption DEF BeingSaved, NoSave
<1>2. editor \in Editor /\ editor # Null /\ editor.memo = editor.memoId
  BY <1>1, RunningEditor DEF LinkedInv, EditorOK
<1>3. CASE UNCHANGED <<editor, save>>
  BY <1>1, <1>3 DEF BeingSaved
<1>4. ASSUME editor'.memo = m, editor'.memoId = m, editor' # Null
      PROVE  BeingSaved(m)' \/ Listed(m)'
  <2>1. CASE save'.step = "none"
    BY <1>1, <1>4, <2>1 DEF LinkedInv, LinkInv, EditorLinked
  <2>2. CASE save'.step # "none"
    BY <1>4, <2>2 DEF BeingSaved
  <2> QED BY <2>1, <2>2
<1>5. CASE CreateStep
  BY <1>1, <1>5 DEF CreateStep, LinkedInv, IInv, UiInv, SaveOK
<1>6. CASE WriteStep \/ LinkStep
  BY <1>1, <1>2, <1>4, <1>6 DEF WriteStep, LinkStep
<1>7. CASE RowStep
  <2>1. editor' = editor \/ \E r : editor' = [editor EXCEPT !.groupMemo = r]
    BY <1>7 DEF RowStep
  <2>2. editor'.memo = m /\ editor'.memoId = m
    BY <1>1, <1>2, <2>1 DEF Editor
  <2>3. editor' # Null
    <3>1. save' # NoSave => editor' # Null
      BY DEF LinkedInv, IInv, TypeOK
    <3>2. CASE save' = NoSave
      <4>1. CASE UNCHANGED editor
        BY <4>1, <1>2
      <4>2. CASE \E r \in RowId : editor' = [editor EXCEPT !.groupMemo = r]
        <5>1. editor' \in Editor
          BY <4>2, <1>2 DEF Editor
        <5> QED BY <5>1, EditorAssumption
      <4> QED BY <1>7, <4>1, <4>2 DEF RowStep, RowsOf
    <3> QED BY <3>1, <3>2
  <2> QED BY <2>2, <2>3, <1>4
<1>8. CASE User \/ Launch
  <2>1. save = NoSave
    BY <1>8 DEF User, Launch, TapAddMemo, TapMemo, Start, TypeTitle, TypeContent, ClickAddTag,
                ClickTag, Event, Finish, Recreate, AtRest
  <2> QED BY <1>1, <2>1
<1>9. CASE \/ SetGroupTags \/ ModeEdit \/ Subscribe \/ TitleChanged \/ ContentChanged
           \/ AddTag \/ SortTags \/ RemoveTag
  <2>1. save = NoSave
    BY <1>9 DEF SetGroupTags, ModeEdit, Subscribe, TitleChanged, ContentChanged, AddTag,
                SortTags, RemoveTag, Continue
  <2> QED BY <1>1, <2>1
<1> QED BY <1>3, <1>5, <1>6, <1>7, <1>8, <1>9 DEF Next, UiThread, vars, ui

\* A memo is made by the first transaction of a save, which goes on with it.
LEMMA MadeWhileSaved ==
  ASSUME LinkedInv, [Next]_vars, NEW m \in MemoId, memos[m] = Null, memos'[m] # Null
  PROVE  BeingSaved(m)'
<1>1. memos \in [MemoId -> Memo \cup {Null}]
  BY DEF LinkedInv, IInv, TypeOK, StoreTypeOK
<1>2. CASE CreateStep
  <2>1. PICK n \in MemoId : /\ CreateMemo(n, editor.intent.parent)
                            /\ editor' = [editor EXCEPT !.memo = n, !.memoId = n]
    BY <1>2 DEF CreateStep
  <2>2. \A k \in MemoId \ {n} : memos'[k] = memos[k]
    BY <2>1, <1>1 DEF CreateMemo
  <2>3. editor \in Editor
    BY <1>2, RunningEditor DEF CreateStep, NoSave, LinkedInv
  <2>4. editor'.memo = n
    BY <2>1, <2>3 DEF Editor
  <2>5. save'.step = "write"
    <3>1. save' = [save EXCEPT !.step = "write"] /\ save \in Saving
      BY <1>2 DEF CreateStep, LinkedInv, IInv, TypeOK
    <3> QED BY <3>1 DEF Saving
  <2> QED BY <2>2, <2>4, <2>5 DEF BeingSaved
<1>3. CASE WriteStep
  <2>1. \E new : memos' = [memos EXCEPT ![editor.memo] = new]
    BY <1>3 DEF WriteStep, WriteMemo
  <2>2. memos[editor.memo] # Null
    BY <1>3 DEF WriteStep, LinkedInv, IInv, UiInv, SaveOK
  <2> QED BY <2>1, <2>2, <1>1
<1>4. CASE RowStep \/ LinkStep
  BY <1>4 DEF RowStep, LinkStep, LinkRow, CreateRow, store
<1>5. CASE UNCHANGED store
  BY <1>5 DEF store
<1> QED BY <1>2, <1>3, <1>4, <1>5, StoreSteps DEF LinkedInv

\* Nothing finds a stranded memo again: the editors have no hold of it, the lists
\* no row of it, and a save links the row of its own memo only.
THEOREM StrandedStays == Spec => StrandedForGood
<1>1. LinkedInv /\ [Next]_vars => Stranded \subseteq Stranded'
  <2> SUFFICES ASSUME LinkedInv, [Next]_vars, NEW m \in Stranded PROVE m \in Stranded'
    OBVIOUS
  <2>1. m \in MemoId /\ memos[m] # Null /\ ~Listed(m) /\ ~BeingSaved(m)
    BY DEF Stranded, MemosStored
  <2>2. memos'[m] # Null
    BY <2>1, Monotone DEF LinkedInv
  <2>3. ~BeingSaved(m)'
    BY <2>1, SavedMemo
  <2>4. ~Listed(m)'
    <3> SUFFICES ASSUME Listed(m)' PROVE FALSE
      OBVIOUS
    <3>1. PICK r \in RowId : rows'[r] # Null /\ rows'[r].typeId = m /\ Linked(r)'
      BY DEF Listed, RowsOf
    <3>2. CASE Linked(r)
      <4>1. rows[r] # Null
        BY <3>2 DEF Linked
      <4>2. rows'[r] = rows[r]
        BY <4>1, Monotone DEF LinkedInv
      <4> QED BY <2>1, <3>1, <3>2, <4>1, <4>2, RowLists
    <3>3. CASE save.step = "link" /\ r = editor.groupMemo
      <4>1. save # NoSave /\ editor.memo # Null
        BY <3>3 DEF NoSave, LinkedInv, IInv, UiInv, SaveOK
      <4>2. EditorOK(editor)
        BY <4>1, RunningEditor DEF LinkedInv
      <4>3. editor.groupMemo # Null
        BY <3>3 DEF LinkedInv, IInv, UiInv, SaveOK
      <4>4. rows[r] # Null /\ rows[r].typeId = editor.memo
        BY <4>1, <4>2, <4>3, <3>3 DEF EditorOK
      <4>5. rows'[r] = rows[r]
        BY <4>4, Monotone DEF LinkedInv
      <4> QED BY <2>1, <3>1, <3>3, <4>4, <4>5 DEF BeingSaved
    <3> QED BY <3>1, <3>2, <3>3, Monotone DEF LinkedInv
  <2> QED BY <2>1, <2>2, <2>3, <2>4 DEF Stranded, MemosStored
<1>2. LinkedInv /\ [Next]_vars => [Stranded \subseteq Stranded']_vars
  BY <1>1
<1> QED BY <1>2, LinkInvariance, PTL DEF Spec, StrandedForGood

\* A step strands no memo, except a death, which strands the one being saved.
LEMMA StrandedStep ==
  ASSUME LinkedInv, LinkedInv', [Next]_vars
  PROVE  /\ Kill => Stranded' \subseteq Stranded \cup {editor.memo}
         /\ ~Kill => Stranded' \subseteq Stranded
<1> SUFFICES ASSUME NEW m \in Stranded'
             PROVE  m \in Stranded \/ (Kill /\ m = editor.memo)
  OBVIOUS
<1>1. m \in MemoId /\ memos'[m] # Null /\ ~Listed(m)' /\ ~BeingSaved(m)'
  BY DEF Stranded, MemosStored
<1>2. memos[m] # Null
  BY <1>1, MadeWhileSaved
<1>3. ~Listed(m)
  BY <1>1, ListedStays DEF LinkedInv
<1>4. CASE Kill
  BY <1>1, <1>2, <1>3, <1>4 DEF Stranded, MemosStored, BeingSaved
<1>5. CASE ~Kill
  BY <1>1, <1>2, <1>3, <1>5, SaveListed DEF Stranded, MemosStored
<1> QED BY <1>4, <1>5

Bounded == IsFiniteSet(Stranded) /\ Cardinality(Stranded) <= kills

\* No more memos are stranded than there were deaths.
THEOREM StrandedBounded == Spec => []StrandedOnlyByKill
<1>1. Init => Bounded
  <2> SUFFICES ASSUME Init PROVE Bounded
    OBVIOUS
  <2>1. Stranded = {}
    BY DEF Init, Stranded, MemosStored
  <2>2. kills = 0
    BY DEF Init
  <2> QED BY <2>1, <2>2, FS_EmptySet DEF Bounded
<1>2. LinkedInv /\ LinkedInv' /\ Bounded /\ [Next]_vars => Bounded'
  <2> SUFFICES ASSUME LinkedInv, LinkedInv', Bounded, [Next]_vars PROVE Bounded'
    OBVIOUS
  <2>1. IsFiniteSet(Stranded) /\ Cardinality(Stranded) \in Nat /\ Cardinality(Stranded) <= kills
    BY FS_CardinalityType DEF Bounded
  <2>2. kills \in Nat
    BY DEF LinkedInv, IInv, TypeOK
  <2>3. CASE Kill
    <3> DEFINE more == Stranded \cup {editor.memo}
    <3>1. IsFiniteSet(more) /\ Cardinality(more) <= Cardinality(Stranded) + 1
      <4>1. /\ IsFiniteSet(more)
            /\ Cardinality(more) = IF editor.memo \in Stranded THEN Cardinality(Stranded)
                                                            ELSE Cardinality(Stranded) + 1
        BY <2>1, FS_AddElement, Zenon
      <4> HIDE DEF more
      <4> QED BY <2>1, <4>1
    <3>2. Stranded' \subseteq more
      BY <2>3, StrandedStep
    <3>3. IsFiniteSet(Stranded') /\ Cardinality(Stranded') <= Cardinality(more)
      BY <3>1, <3>2, FS_Subset
    <3>4. kills' = kills + 1
      BY <2>3 DEF Kill
    <3>5. Cardinality(more) \in Nat /\ Cardinality(Stranded') \in Nat
      BY <3>1, <3>3, FS_CardinalityType
    <3>6. Cardinality(Stranded') <= kills'
      BY <2>1, <2>2, <3>1, <3>3, <3>4, <3>5
    <3> QED BY <3>3, <3>6 DEF Bounded
  <2>4. CASE ~Kill
    <3>1. Stranded' \subseteq Stranded
      BY <2>4, StrandedStep
    <3>2. IsFiniteSet(Stranded') /\ Cardinality(Stranded') <= Cardinality(Stranded)
      BY <2>1, <3>1, FS_Subset
    <3>3. kills' = kills
      BY <2>4 DEF Next, UiThread, User, vars, TapAddMemo, TapMemo, Start, TypeTitle, TypeContent,
                  ClickAddTag, ClickTag, Event, Finish, Recreate, Launch, SetGroupTags, ModeEdit,
                  Subscribe, TitleChanged, ContentChanged, AddTag, SortTags, RemoveTag, Continue,
                  CreateStep, WriteStep, RowStep, LinkStep
    <3>4. Cardinality(Stranded') \in Nat
      BY <3>2, FS_CardinalityType
    <3>5. Cardinality(Stranded') <= kills'
      BY <2>1, <2>2, <3>2, <3>3, <3>4
    <3> QED BY <3>2, <3>5 DEF Bounded
  <2> QED BY <2>3, <2>4
<1>3. Bounded => StrandedOnlyByKill
  BY DEF Bounded, StrandedOnlyByKill
<1> QED BY <1>1, <1>2, <1>3, LinkInvariance, PTL DEF Spec

(***************************************************************************)
(* Autosave, for any number of editors on the stack: between callbacks     *)
(* every editor shows what is stored, unless its memo is open twice.       *)
(*                                                                         *)
(* The invariant says of the save in progress what it will have stored,    *)
(* and of the editors below that no save but one of the same memo touches  *)
(* what they show.                                                         *)
(***************************************************************************)

\* What e shows is stored.
StoredAs(e) ==
  /\ e.memo # Null
  /\ memos[e.memo].title = e.title
  /\ memos[e.memo].content = e.content
  /\ memos[e.memo].tags = e.tags

\* The editor in front, transaction by transaction: once the save is over the memo
\* has what the editor shows.
FrontOK ==
  /\ save.step = "none" => editor.memo \in {Null} \cup shared \/ StoredAs(editor)
  /\ save.step = "create" => /\ save.title = editor.title
                             /\ save.content = editor.content
                             /\ save.tags = editor.tags
  /\ save.step = "write" =>
       /\ Given(save.title, memos[editor.memo].title) = editor.title
       /\ Given(save.content, memos[editor.memo].content) = editor.content
       /\ Given(save.tags, memos[editor.memo].tags) = editor.tags
  /\ save.step \in {"row", "link"} => StoredAs(editor)

\* An editor without a memo is still in its onCreate, which will save.
Subscribes == \E i \in DOMAIN work : work[i].op = "subscribe"
MemoComes == save.step = "none" /\ editor.memo = Null => Subscribes

\* Recreation opens the same memo again.
SameMemo(e) == e.intent.memoId # Null => e.memoId = e.intent.memoId

\* Whatever lies below was stored, and stays so: a memo open twice is in shared.
BelowOK ==
  /\ \A i \in DOMAIN below : /\ below[i].memo \in shared \/ StoredAs(below[i])
                             /\ below[i].memo # Null
                             /\ SameMemo(below[i])
  /\ \A i, j \in DOMAIN below :
       below[i].memoId = below[j].memoId => i = j \/ below[i].memoId \in shared
  /\ editor # Null => \A i \in DOMAIN below :
       below[i].memoId = editor.memoId => editor.memoId \in shared

AutoInv == /\ editor # Null => FrontOK /\ MemoComes /\ SameMemo(editor)
           /\ BelowOK

StoredInv == IInv /\ AutoInv

-----------------------------------------------------------------------------
\* saveAfterCheck stores what e shows, or finds it stored.
LEMMA SaveShows ==
  ASSUME IInv, save = NoSave, UNCHANGED store,
         NEW e \in Editor, EditorOK(e), SaveAfterCheck(e)
  PROVE  /\ editor'.memoId = e.memoId /\ editor'.intent = e.intent
         /\ FrontOK'
         /\ save'.step = "none" => editor'.memo # Null
<1>1. /\ e.title \in Text /\ e.content \in Text /\ e.tags \in Seq(Tag)
      /\ e.title # Null /\ e.content # Null /\ e.tags # Null
  BY StoreAssumption DEF Editor
<1>2. ASSUME NEW t, NEW c, NEW s, Save(e, t, c, s)
      PROVE  /\ editor'.memoId = e.memoId /\ editor'.intent = e.intent
             /\ editor'.title = e.title /\ editor'.content = e.content /\ editor'.tags = e.tags
             /\ editor'.memo = IF e.memo = Null THEN e.memoId ELSE e.memo
             /\ save'.step = IF e.memo = Null /\ e.memoId = Null THEN "create" ELSE "write"
             /\ save'.title = t /\ save'.content = c /\ save'.tags = s
  BY <1>2 DEF Save, Editor
<1>3. ASSUME NEW n, NEW o, n # Null
      PROVE  Given(IfChanged(n, o), o) = n /\ Given(n, o) = n
  BY <1>3 DEF Given, IfChanged
<1>4. CASE e.memo = Null
  <2>1. Save(e, e.title, e.content, e.tags)
    BY <1>4 DEF SaveAfterCheck
  <2>2. FrontOK'
    <3>1. /\ save'.step \in {"create", "write"}
          /\ save'.title = editor'.title /\ save'.content = editor'.content
          /\ save'.tags = editor'.tags
          /\ save'.title # Null /\ save'.content # Null /\ save'.tags # Null
      BY <2>1, <1>1, <1>2
    <3>2. \A o : /\ Given(save'.title, o) = save'.title
                /\ Given(save'.content, o) = save'.content
                /\ Given(save'.tags, o) = save'.tags
      BY <1>3, <3>1
    <3>3. /\ Given(save'.title, memos'[editor'.memo].title) = save'.title
          /\ Given(save'.content, memos'[editor'.memo].content) = save'.content
          /\ Given(save'.tags, memos'[editor'.memo].tags) = save'.tags
      BY <3>2, Zenon
    <3> QED BY <3>1, <3>3 DEF FrontOK
  <2> QED BY <2>1, <2>2, <1>2, <1>4
<1>5. CASE e.memo # Null
  <2> DEFINE old == memos[e.memo]
  <2>1. \/ /\ editor' = e /\ UNCHANGED save
           /\ IfChanged(e.title, old.title) = Null
           /\ IfChanged(e.content, old.content) = Null
           /\ IfChanged(e.tags, old.tags) = Null
        \/ Save(e, IfChanged(e.title, old.title), IfChanged(e.content, old.content),
                   IfChanged(e.tags, old.tags))
    BY <1>5 DEF SaveAfterCheck
  <2>2. CASE /\ editor' = e /\ UNCHANGED save
             /\ IfChanged(e.title, old.title) = Null
             /\ IfChanged(e.content, old.content) = Null
             /\ IfChanged(e.tags, old.tags) = Null
    <3>1. StoredAs(e)
      BY <2>2, <1>1, <1>5 DEF StoredAs, IfChanged
    <3>2. save'.step = "none"
      BY <2>2 DEF NoSave
    <3>3. StoredAs(editor)'
      BY <2>2, <3>1 DEF StoredAs, store
    <3> QED BY <2>2, <3>2, <3>3, <1>5 DEF FrontOK
  <2>3. CASE Save(e, IfChanged(e.title, old.title), IfChanged(e.content, old.content),
                     IfChanged(e.tags, old.tags))
    <3>1. /\ save'.step = "write" /\ editor'.memo = e.memo /\ memos'[e.memo] = old
          /\ editor'.title = e.title /\ editor'.content = e.content /\ editor'.tags = e.tags
          /\ save'.title = IfChanged(e.title, old.title)
          /\ save'.content = IfChanged(e.content, old.content)
          /\ save'.tags = IfChanged(e.tags, old.tags)
      BY <2>3, <1>2, <1>5 DEF store
    <3> HIDE DEF old
    <3>2. FrontOK'
      BY <3>1, <1>1, <1>3 DEF FrontOK
    <3> QED BY <2>3, <3>1, <3>2, <1>2
  <2> QED BY <2>1, <2>2, <2>3
<1> QED BY <1>4, <1>5

\* A step of a callback, once its new editor and save are known to be in order.
LEMMA ContinueAuto ==
  ASSUME StoredInv, NEW op, Continue(op), editor # Null,
         editor'.memoId = editor.memoId, editor'.intent = editor.intent, FrontOK',
         \/ save'.step = "none" => editor'.memo # Null
         \/ UNCHANGED <<editor, save>> /\ op # "subscribe"
  PROVE  AutoInv'
<1>1. UNCHANGED <<store, below, shared>> /\ work' = Tail(work)
      /\ work \in Seq(Op) /\ work # <<>> /\ Head(work).op = op
  BY DEF Continue, StoredInv, IInv, TypeOK
<1>2. MemoComes'
  <2>1. CASE save'.step = "none" => editor'.memo # Null
    BY <2>1 DEF MemoComes
  <2>2. CASE UNCHANGED <<editor, save>> /\ op # "subscribe"
    <3> SUFFICES ASSUME save.step = "none", editor.memo = Null
                 PROVE  Subscribes'
      BY <2>2 DEF MemoComes
    <3>1. PICK i \in DOMAIN work : work[i].op = "subscribe"
      BY DEF StoredInv, AutoInv, MemoComes, Subscribes
    <3>2. i # 1 /\ i \in 1..Len(work)
      BY <2>2, <3>1, <1>1
    <3>3. i - 1 \in DOMAIN Tail(work) /\ Tail(work)[i - 1] = work[i]
      BY <3>2, <1>1
    <3> QED BY <3>1, <3>3, <1>1 DEF Subscribes
  <2> QED BY <2>1, <2>2
<1>3. SameMemo(editor)'
  BY DEF StoredInv, AutoInv, SameMemo
<1>4. BelowOK'
  <2>1. \A e : StoredAs(e) => StoredAs(e)'
    BY <1>1 DEF StoredAs, store
  <2> QED BY <2>1, <1>1 DEF StoredInv, AutoInv, BelowOK, SameMemo, StoredAs, store
<1> QED BY <1>2, <1>3, <1>4 DEF AutoInv

\* A callback goes on with the same editor.
SameEditor == editor' # Null /\ editor'.memoId = editor.memoId /\ editor'.intent = editor.intent

LEMMA CallbackAuto ==
  ASSUME StoredInv,
         \/ SetGroupTags \/ ModeEdit \/ Subscribe \/ TitleChanged \/ ContentChanged
         \/ AddTag \/ SortTags \/ RemoveTag
  PROVE  AutoInv' /\ SameEditor
<1>0. /\ work \in Seq(Op) /\ work # <<>> /\ save = NoSave /\ IInv /\ UNCHANGED store
  BY DEF StoredInv, IInv, TypeOK, SetGroupTags, ModeEdit, Subscribe, TitleChanged, ContentChanged,
         AddTag, SortTags, RemoveTag, Continue
<1>a. /\ editor \in Editor /\ EditorOK(editor) /\ editor # Null
      /\ editor.intent \in Intent /\ groups[editor.intent.parent] \in Group
      /\ editor.memoId \in MemoId \cup {Null} /\ editor.tags \in Seq(Tag)
  BY <1>0, RunningEditor
<1>b. Head(work) \in Op
  BY <1>0
\* The step ends in saveAfterCheck.
<1>s. ASSUME NEW op, Continue(op), NEW e \in Editor, EditorOK(e), SaveAfterCheck(e),
             e.memoId = editor.memoId, e.intent = editor.intent
      PROVE  AutoInv' /\ SameEditor
  BY <1>0, <1>a, <1>s, SaveShows, SaveAfterCheckOK, EditorAssumption, ContinueAuto
     DEF SameEditor, IInv
\* Or there is nothing to do.
<1>n. ASSUME NEW op, op # "subscribe", Continue(op), UNCHANGED <<editor, save>>
      PROVE  AutoInv' /\ SameEditor
  <2>1. FrontOK
    BY <1>a DEF StoredInv, AutoInv
  <2>2. FrontOK'
    BY <1>0, <1>n, <2>1 DEF FrontOK, StoredAs, NoSave, Continue, store
  <2> QED BY <1>a, <1>n, <2>2, ContinueAuto DEF SameEditor
<1>t. /\ \A t \in Text : [editor EXCEPT !.title = t].memoId = editor.memoId
                       /\ [editor EXCEPT !.title = t].intent = editor.intent
      /\ \A t \in Text : [editor EXCEPT !.content = t].memoId = editor.memoId
                       /\ [editor EXCEPT !.content = t].intent = editor.intent
      /\ \A s \in Seq(Tag) : [editor EXCEPT !.tags = s].memoId = editor.memoId
                           /\ [editor EXCEPT !.tags = s].intent = editor.intent
  BY <1>a DEF Editor
<1>tags. ASSUME NEW op, NEW s \in Seq(Tag), Continue(op),
                SaveAfterCheck([editor EXCEPT !.tags = s])
         PROVE  AutoInv' /\ SameEditor
  BY <1>a, <1>t, <1>tags, <1>s, EditedEditor
<1>1. CASE SetGroupTags
  BY <1>1, <1>a, <1>tags DEF SetGroupTags, Group
<1>2. CASE ModeEdit
  <2>1. CASE editor.memoId = Null
    BY <1>2, <2>1, <1>n DEF ModeEdit
  <2>2. CASE editor.memoId # Null
    <3> DEFINE m == editor.memoId
               TextOf(text) == IF text = Null THEN Empty ELSE text
               e == [editor EXCEPT !.memo = m, !.title = TextOf(memos[m].title),
                                   !.content = TextOf(memos[m].content),
                                   !.tags = memos[m].tags]
    <3>1. memos[m] \in Memo
      BY <1>a, <2>2 DEF EditorOK, StoredInv, IInv, TypeOK, StoreTypeOK
    <3>2. /\ TextOf(memos[m].title) \in Text /\ TextOf(memos[m].content) \in Text
          /\ memos[m].tags \in Seq(Tag) /\ m \in MemoId
      BY <3>1, <1>a, <2>2, StoreAssumption DEF Memo
    <3>3. e \in Editor /\ EditorOK(e) /\ e.memoId = editor.memoId /\ e.intent = editor.intent
      BY <3>2, <1>a DEF Editor, EditorOK, IntentOK, Intent
    <3>4. Continue("edit") /\ SaveAfterCheck(e)
      BY <1>2, <2>2 DEF ModeEdit
    <3> QED BY <3>3, <3>4, <1>s
  <2> QED BY <2>1, <2>2
<1>3. CASE Subscribe
  BY <1>3, <1>a, <1>s DEF Subscribe
<1>4. CASE TitleChanged
  <2>1. Head(work).val \in Text
    BY <1>4, <1>b DEF TitleChanged, Continue, Op
  <2> QED BY <1>4, <2>1, <1>a, <1>t, <1>s, EditedEditor DEF TitleChanged
<1>5. CASE ContentChanged
  <2>1. Head(work).val \in Text
    BY <1>5, <1>b DEF ContentChanged, Continue, Op
  <2> QED BY <1>5, <2>1, <1>a, <1>t, <1>s, EditedEditor DEF ContentChanged
<1>6. CASE AddTag
  <2> DEFINE tag == Head(work).val
  <2>1. tag \in Tag \cup {Blank}
    BY <1>6, <1>b DEF AddTag, Continue, Op
  <2>2. CASE tag = Blank \/ Contains(editor.tags, tag)
    BY <1>6, <2>2, <1>n DEF AddTag
  <2>3. CASE ~(tag = Blank \/ Contains(editor.tags, tag))
    <3>1. Continue("add") /\ SaveAfterCheck([editor EXCEPT !.tags = Append(editor.tags, tag)])
      BY <1>6, <2>3 DEF AddTag
    <3>2. Append(editor.tags, tag) \in Seq(Tag)
      BY <2>1, <2>3, <1>a
    <3> QED BY <3>1, <3>2, <1>tags
  <2> QED BY <2>2, <2>3
<1>7. CASE SortTags
  <2>1. PICK p \in Bijection(DOMAIN editor.tags, DOMAIN editor.tags) :
          SaveAfterCheck([editor EXCEPT !.tags =
            [i \in DOMAIN editor.tags |-> editor.tags[p[i]]]])
    BY <1>7 DEF SortTags
  <2>2. p \in [DOMAIN editor.tags -> DOMAIN editor.tags]
    BY DEF Bijection, Injection
  <2>3. [i \in DOMAIN editor.tags |-> editor.tags[p[i]]] \in Seq(Tag)
    <3>1. Len(editor.tags) \in Nat /\ DOMAIN editor.tags = 1..Len(editor.tags)
      BY <1>a
    <3>2. \A i \in 1..Len(editor.tags) : editor.tags[p[i]] \in Tag
      BY <2>2, <1>a
    <3> QED BY <3>1, <3>2
  <2>4. Continue("sort")
    BY <1>7 DEF SortTags
  <2> QED BY <2>1, <2>3, <2>4, <1>tags
<1>8. CASE RemoveTag
  <2>1. editor.tags # <<>>
    BY <1>8, <1>0 DEF RemoveTag, Continue, IInv, UiInv, WorkOK
  <2>2. Tail(editor.tags) \in Seq(Tag)
    BY <2>1, <1>a
  <2> QED BY <1>8, <2>2, <1>tags DEF RemoveTag
<1> QED BY <1>1, <1>2, <1>3, <1>4, <1>5, <1>6, <1>7, <1>8

-----------------------------------------------------------------------------
\* An editor at rest shows what is stored.
LEMMA RestingEditor ==
  ASSUME StoredInv, AtRest, editor # Null
  PROVE  editor.memo # Null /\ (editor.memo \in shared \/ StoredAs(editor)) /\ SameMemo(editor)
<1>1. save.step = "none" /\ work = <<>>
  BY DEF AtRest, NoSave
<1>2. ~Subscribes
  BY <1>1 DEF Subscribes
<1>3. editor.memo # Null
  BY <1>1, <1>2 DEF StoredInv, AutoInv, MemoComes
<1> QED BY <1>1, <1>3 DEF StoredInv, AutoInv, FrontOK

\* onCreate subscribes.
LEMMA CreateSubscribes ==
  ASSUME NEW i \in Intent
  PROVE  /\ \E k \in DOMAIN OnCreate(i) : OnCreate(i)[k].op = "subscribe"
         /\ NewEditor(i).memo = Null /\ NewEditor(i).memoId = i.memoId /\ NewEditor(i).intent = i
<1>1. OnCreate(i) = <<Do("set"), Do("edit"), Do("subscribe")>>
        \/ OnCreate(i) = <<Do("edit"), Do("subscribe")>>
  BY DEF OnCreate
<1>2. Do("subscribe").op = "subscribe"
  BY DEF Do
<1>3. \E k \in DOMAIN OnCreate(i) : OnCreate(i)[k].op = "subscribe"
  <2>1. CASE OnCreate(i) = <<Do("set"), Do("edit"), Do("subscribe")>>
    <3>1. 3 \in DOMAIN OnCreate(i) /\ OnCreate(i)[3] = Do("subscribe")
      BY <2>1
    <3> QED BY <3>1, <1>2
  <2>2. CASE OnCreate(i) = <<Do("edit"), Do("subscribe")>>
    <3>1. 2 \in DOMAIN OnCreate(i) /\ OnCreate(i)[2] = Do("subscribe")
      BY <2>2
    <3> QED BY <3>1, <1>2
  <2> QED BY <1>1, <2>1, <2>2
<1> QED BY <1>3 DEF NewEditor

LEMMA UserAuto ==
  ASSUME StoredInv, User \/ Launch
  PROVE  AutoInv'
<1>0. /\ UNCHANGED <<store, save>> /\ save = NoSave /\ work = <<>> /\ AtRest
      /\ starting \in Seq(Intent) /\ below \in Seq(Editor) /\ editor \in Editor \cup {Null}
      /\ \A i \in DOMAIN below : EditorOK(below[i])
      /\ shared \subseteq MemoId
  BY DEF User, Launch, TapAddMemo, TapMemo, Start, TypeTitle, TypeContent, ClickAddTag,
         ClickTag, Event, Finish, Recreate, AtRest, StoredInv, IInv, TypeOK, UiInv
<1>1. \A e : StoredAs(e) => StoredAs(e)'
  BY <1>0 DEF StoredAs, store
<1>2. BelowOK /\ \A i \in DOMAIN below : below[i].memo = below[i].memoId /\ below[i].memoId # Null
  BY <1>0 DEF StoredInv, AutoInv, BelowOK, EditorOK
<1>3. Null \notin shared
  BY <1>0, StoreAssumption
\* A new editor in front, made from the Intent i.
<1>n. ASSUME NEW i \in Intent, editor' = NewEditor(i), BelowOK',
             \E k \in DOMAIN work' : work'[k].op = "subscribe"
      PROVE  AutoInv'
  <2>1. editor'.memo = Null /\ editor'.memoId = i.memoId /\ editor'.intent = i
    BY <1>n, CreateSubscribes
  <2>2. FrontOK'
    BY <1>0, <2>1 DEF FrontOK, NoSave
  <2> QED BY <1>n, <2>1, <2>2 DEF AutoInv, MemoComes, Subscribes, SameMemo
<1>4. CASE TapAddMemo \/ TapMemo
  <2>1. editor = Null /\ UNCHANGED <<editor, below, shared>>
    BY <1>4 DEF TapAddMemo, TapMemo, Start
  <2> QED BY <2>1, <1>1, <1>2 DEF AutoInv, BelowOK, SameMemo
<1>5. CASE TypeTitle \/ TypeContent \/ ClickAddTag \/ ClickTag
  <2>1. editor # Null /\ UNCHANGED <<editor, below, shared>>
    BY <1>5 DEF TypeTitle, TypeContent, ClickAddTag, ClickTag, Event
  <2>2. editor.memo # Null /\ FrontOK /\ SameMemo(editor)
    BY <1>0, <2>1, RestingEditor DEF StoredInv, AutoInv
  <2>3. FrontOK'
    BY <1>0, <2>1, <2>2 DEF FrontOK, StoredAs, store, NoSave
  <2>4. BelowOK'
    BY <2>1, <1>1 DEF StoredInv, AutoInv, BelowOK, SameMemo
  <2> QED BY <2>1, <2>2, <2>3, <2>4 DEF AutoInv, MemoComes, SameMemo
<1>6. CASE Finish
  <2>1. CASE below = <<>>
    <3>1. editor' = Null /\ below' = <<>>
      BY <1>6, <2>1 DEF Finish
    <3> QED BY <3>1 DEF AutoInv, BelowOK
  <2>2. CASE below # <<>>
    <3>1. /\ editor' = below[Len(below)] /\ below' = SubSeq(below, 1, Len(below) - 1)
          /\ UNCHANGED <<shared, work>>
      BY <1>6, <2>2 DEF Finish, Last, Front
    <3>2. /\ Len(below) \in DOMAIN below
          /\ \A i \in DOMAIN below' : i \in DOMAIN below /\ below'[i] = below[i] /\ i # Len(below)
      BY <1>0, <2>2, <3>1
    <3>3. FrontOK'
      <4>1. editor'.memo \in shared \/ StoredAs(editor')
        BY <1>2, <3>1, <3>2 DEF BelowOK
      <4>2. (editor.memo \in shared \/ StoredAs(editor))'
        BY <4>1, <1>0, <3>1 DEF StoredAs, store
      <4> QED BY <1>0, <4>2 DEF FrontOK, NoSave
    <3>4. MemoComes' /\ SameMemo(editor)'
      BY <1>2, <3>1, <3>2 DEF MemoComes, BelowOK, SameMemo
    <3>5. BelowOK'
      <4>1. \A i \in DOMAIN below' : below'[i].memo \in shared' \/ StoredAs(below[i])'
        BY <1>1, <1>2, <3>1, <3>2 DEF BelowOK
      <4>2. \A i \in DOMAIN below' : /\ (below[i].memo \in shared \/ StoredAs(below[i]))'
                                     /\ below'[i].memo # Null /\ SameMemo(below[i])'
        BY <4>1, <1>2, <3>2 DEF BelowOK, SameMemo, StoredAs
      <4>3. \A i, j \in DOMAIN below' :
              below'[i].memoId = below'[j].memoId => i = j \/ below'[i].memoId \in shared'
        BY <1>2, <3>1, <3>2 DEF BelowOK
      <4>4. \A i \in DOMAIN below' :
              below'[i].memoId = editor'.memoId => editor'.memoId \in shared'
        BY <1>2, <3>1, <3>2 DEF BelowOK
      <4> QED BY <4>2, <4>3, <4>4 DEF BelowOK
    <3> QED BY <3>3, <3>4, <3>5 DEF AutoInv
  <2> QED BY <2>1, <2>2
<1>7. CASE Recreate
  <2> DEFINE i == editor.intent
             t == [op |-> "title", val |-> editor.title]
             c == [op |-> "content", val |-> editor.content]
  <2>1. /\ editor # Null /\ editor \in Editor /\ editor' = NewEditor(i)
        /\ work' = Append(Append(OnCreate(i), t), c) /\ UNCHANGED <<below, shared>>
    BY <1>0, <1>7 DEF Recreate
  <2>2. i \in Intent /\ EditorOK(editor)
    BY <2>1 DEF Editor, StoredInv, IInv, UiInv
  <2>3. OnCreate(i) \in Seq(Op)
    BY <2>2, FreshEditor DEF EditorOK
  <2> HIDE DEF i, t, c
  <2>4. \E k \in DOMAIN work' : work'[k].op = "subscribe"
    <3>1. PICK k \in DOMAIN OnCreate(i) : OnCreate(i)[k].op = "subscribe"
      BY <2>2, CreateSubscribes
    <3>2. k \in DOMAIN work' /\ work'[k] = OnCreate(i)[k]
      BY <2>1, <2>3, <3>1
    <3> QED BY <3>1, <3>2
  <2>5. \A k \in DOMAIN below : below[k].memoId = i.memoId => i.memoId \in shared
    <3>1. i.memoId # Null => editor.memoId = i.memoId
      BY <1>0, <2>1, RestingEditor DEF SameMemo, i
    <3> QED BY <3>1, <1>2, <2>1 DEF BelowOK
  <2>6. BelowOK'
    <3>1. editor'.memoId = i.memoId
      BY <2>1, <2>2, CreateSubscribes
    <3>2. \A k \in DOMAIN below : /\ (below[k].memo \in shared \/ StoredAs(below[k]))'
                                  /\ SameMemo(below[k])'
      BY <1>1, <1>2, <2>1 DEF BelowOK, SameMemo, StoredAs
    <3> QED BY <1>2, <2>1, <2>5, <3>1, <3>2 DEF BelowOK
  <2> QED BY <2>1, <2>2, <2>4, <2>6, <1>n
<1>8. CASE Launch
  <2> DEFINE i == Head(starting)
  <2>1. /\ i \in Intent /\ editor' = NewEditor(i) /\ work' = OnCreate(i)
        /\ shared' = shared \cup ({e.memoId : e \in Editors} \cap ({i.memoId} \ {Null}))
        /\ below' = IF editor = Null THEN below ELSE Append(below, editor)
    BY <1>0, <1>8 DEF Launch
  <2> HIDE DEF i
  <2>2. editor'.memoId = i.memoId
    BY <2>1, CreateSubscribes
  <2>3. editor # Null => /\ editor \in Editor /\ editor.memo # Null /\ SameMemo(editor)
                         /\ editor.memo = editor.memoId
                         /\ editor.memo \in shared \/ StoredAs(editor)
    BY <1>0, RestingEditor DEF StoredInv, IInv, UiInv, EditorOK
  <2>4. \A k \in DOMAIN below' :
          \/ k \in DOMAIN below /\ below'[k] = below[k]
          \/ editor # Null /\ k = Len(below) + 1 /\ below'[k] = editor
    <3>1. CASE editor = Null
      BY <2>1, <3>1
    <3>2. CASE editor # Null
      <4>1. below' = Append(below, editor) /\ editor \in Editor
        BY <2>1, <2>3, <3>2
      <4> QED BY <4>1, <1>0, <3>2
    <3> QED BY <3>1, <3>2
  <2>5. \A k \in DOMAIN below' :
          /\ below'[k].memo \in shared \/ StoredAs(below'[k])
          /\ below'[k].memo # Null /\ below'[k].memoId # Null /\ SameMemo(below'[k])
    BY <1>2, <2>3, <2>4 DEF BelowOK
  <2>6. \A k \in DOMAIN below' : /\ (below[k].memo \in shared \/ StoredAs(below[k]))'
                                 /\ SameMemo(below[k])'
    BY <1>0, <2>1, <2>5 DEF SameMemo, StoredAs, store
  <2>7. \A k, l \in DOMAIN below' :
          below'[k].memoId = below'[l].memoId => k = l \/ below'[k].memoId \in shared'
    <3>1. editor # Null => \A k \in DOMAIN below :
            below[k].memoId = editor.memoId => editor.memoId \in shared
      BY <1>2 DEF BelowOK
    <3>2. \A k, l \in DOMAIN below :
            below[k].memoId = below[l].memoId => k = l \/ below[k].memoId \in shared
      BY <1>2 DEF BelowOK
    <3> QED BY <2>1, <2>4, <3>1, <3>2
  <2>8. \A k \in DOMAIN below' : below'[k].memoId = i.memoId => i.memoId \in shared'
    <3>1. \A k \in DOMAIN below' : below'[k] \in Editors
      BY <2>4 DEF Editors, ToSet
    <3> QED BY <2>1, <2>5, <3>1
  <2>9. BelowOK'
    BY <2>2, <2>5, <2>6, <2>7, <2>8 DEF BelowOK
  <2>10. \E k \in DOMAIN work' : work'[k].op = "subscribe"
    BY <2>1, CreateSubscribes
  <2> QED BY <2>1, <2>9, <2>10, <1>n
<1> QED BY <1>4, <1>5, <1>6, <1>7, <1>8 DEF User

\* A transaction writes to the memo of the editor in front, or makes one.
LEMMA TransactionAuto ==
  ASSUME StoredInv, CreateStep \/ WriteStep \/ RowStep \/ LinkStep
  PROVE  AutoInv'
<1>1. save \in Saving /\ save # NoSave /\ save.step \in {"create", "write", "row", "link"}
  <2>1. save.step \in {"create", "write", "row", "link"}
    BY DEF CreateStep, WriteStep, RowStep, LinkStep
  <2> QED BY <2>1 DEF NoSave, StoredInv, IInv, TypeOK
<1>2. /\ editor \in Editor /\ editor # Null /\ EditorOK(editor) /\ SaveOK
      /\ FrontOK /\ SameMemo(editor) /\ BelowOK
      /\ memos \in [MemoId -> Memo \cup {Null}]
      /\ UNCHANGED <<below, shared>>
  BY <1>1, RunningEditor DEF StoredInv, IInv, UiInv, AutoInv, TypeOK, StoreTypeOK,
     CreateStep, WriteStep, RowStep, LinkStep
<1>3. \A i \in DOMAIN below : /\ below[i] \in Editor /\ EditorOK(below[i])
                              /\ below[i].memo = below[i].memoId /\ below[i].memoId \in MemoId
                              /\ memos[below[i].memoId] # Null
  <2>1. below \in Seq(Editor) /\ \A i \in DOMAIN below : EditorOK(below[i])
    BY DEF StoredInv, IInv, TypeOK, UiInv
  <2>2. SUFFICES ASSUME NEW i \in DOMAIN below
                 PROVE  /\ below[i] \in Editor /\ EditorOK(below[i])
                        /\ below[i].memo = below[i].memoId /\ below[i].memoId \in MemoId
                        /\ memos[below[i].memoId] # Null
    OBVIOUS
  <2>3. below[i] \in Editor /\ EditorOK(below[i]) /\ below[i].memo # Null
    BY <2>1, <1>2 DEF BelowOK
  <2>4. below[i].memoId \in MemoId \cup {Null}
    BY <2>3 DEF Editor
  <2>5. below[i].memo = below[i].memoId
    BY <2>3 DEF EditorOK
  <2> QED BY <2>3, <2>4, <2>5 DEF EditorOK
\* The editors below, when their memos stay as they are or are open twice.
<1>4. ASSUME \A i \in DOMAIN below :
               memos'[below[i].memo] = memos[below[i].memo] \/ below[i].memo \in shared,
             \A i \in DOMAIN below : below[i].memoId = editor'.memoId => editor'.memoId \in shared
      PROVE  BelowOK'
  <2>1. \A i \in DOMAIN below : /\ (below[i].memo \in shared \/ StoredAs(below[i]))'
                                /\ SameMemo(below[i])'
    BY <1>2, <1>4 DEF BelowOK, StoredAs, SameMemo
  <2> QED BY <1>2, <1>4, <2>1 DEF BelowOK
<1>5. ASSUME editor'.memo # Null, editor'.memoId = editor.memoId,
             editor'.intent = editor.intent, FrontOK', BelowOK'
      PROVE  AutoInv'
  BY <1>2, <1>5 DEF AutoInv, MemoComes, SameMemo
<1>6. CASE CreateStep
  <2>1. PICK m \in MemoId : /\ CreateMemo(m, editor.intent.parent)
                            /\ editor' = [editor EXCEPT !.memo = m, !.memoId = m]
    BY <1>6 DEF CreateStep
  <2>2. save' = [save EXCEPT !.step = "write"] /\ save.step = "create"
    BY <1>6 DEF CreateStep
  <2>3. /\ memos[m] = Null /\ memos'[m].title = Null /\ memos'[m].content = Null
        /\ \A k \in MemoId \ {m} : memos'[k] = memos[k]
    BY <2>1, <1>2 DEF CreateMemo
  <2>4. /\ editor'.memo = m /\ editor'.memoId = m /\ editor'.intent = editor.intent
        /\ editor'.title = editor.title /\ editor'.content = editor.content
        /\ editor'.tags = editor.tags
    BY <2>1, <1>2 DEF Editor
  <2>5. /\ save'.step = "write" /\ save'.title = editor.title
        /\ save'.content = editor.content /\ save'.tags = editor.tags
    BY <2>2, <1>1, <1>2 DEF FrontOK, Saving
  <2>6. editor.title # Null /\ editor.content # Null /\ editor.tags # Null
    BY <1>2, StoreAssumption DEF Editor
  <2>7. FrontOK'
    BY <2>4, <2>5, <2>6 DEF FrontOK, Given
  <2>8. BelowOK'
    BY <1>3, <1>4, <2>3, <2>4
  <2>9. m # Null
    BY StoreAssumption
  <2>10. SameMemo(editor)'
    BY <1>2, <2>2, <2>4 DEF SameMemo, SaveOK
  <2> QED BY <2>4, <2>7, <2>8, <2>9, <2>10 DEF AutoInv, MemoComes
<1>7. CASE WriteStep
  <2> DEFINE m == editor.memo
  <2>1. /\ save.step = "write" /\ save'.step = "row" /\ UNCHANGED editor
        /\ m = editor.memoId /\ m \in MemoId
    BY <1>2, <1>7 DEF WriteStep, NoSave, SaveOK, EditorOK, Editor
  <2>2. /\ memos'[m].title = Given(save.title, memos[m].title)
        /\ memos'[m].content = Given(save.content, memos[m].content)
        /\ memos'[m].tags = Given(save.tags, memos[m].tags)
        /\ \A k \in MemoId \ {m} : memos'[k] = memos[k]
    BY <1>2, <1>7, <2>1 DEF WriteStep, WriteMemo
  <2>3. FrontOK'
    <3>1. StoredAs(editor)'
      BY <1>2, <2>1, <2>2 DEF FrontOK, StoredAs, SaveOK
    <3> QED BY <2>1, <3>1 DEF FrontOK
  <2>4. BelowOK'
    BY <1>2, <1>3, <1>4, <2>1, <2>2 DEF BelowOK
  <2> QED BY <1>2, <1>5, <2>1, <2>3, <2>4 DEF SaveOK
<1>8. CASE RowStep \/ LinkStep
  <2>1. editor' = editor \/ \E r : editor' = [editor EXCEPT !.groupMemo = r]
    BY <1>8 DEF RowStep, LinkStep
  <2>2. /\ editor'.memo = editor.memo /\ editor'.memoId = editor.memoId
        /\ editor'.intent = editor.intent /\ editor'.title = editor.title
        /\ editor'.content = editor.content /\ editor'.tags = editor.tags
    BY <1>2, <2>1 DEF Editor
  <2>3. memos' = memos
    BY <1>8 DEF RowStep, LinkStep, CreateRow, LinkRow, store
  <2>4. save.step \in {"row", "link"} /\ save'.step \in {"none", "link"}
    BY <1>1, <1>8 DEF RowStep, LinkStep, NoSave, Saving
  <2>5. FrontOK'
    <3>1. StoredAs(editor)'
      BY <1>2, <2>2, <2>3, <2>4 DEF FrontOK, StoredAs
    <3> QED BY <2>4, <3>1 DEF FrontOK
  <2>6. BelowOK'
    BY <1>2, <1>4, <2>2, <2>3 DEF BelowOK
  <2> QED BY <1>2, <1>5, <2>2, <2>4, <2>5, <2>6 DEF SaveOK
<1> QED BY <1>6, <1>7, <1>8

LEMMA AutoInit == Init => AutoInv
BY DEF Init, AutoInv, BelowOK

LEMMA AutoNext == StoredInv /\ [Next]_vars => StoredInv'
<1> SUFFICES ASSUME StoredInv, [Next]_vars PROVE StoredInv'
  OBVIOUS
<1>1. IInv'
  BY NextInv DEF StoredInv
<1>2. CASE User \/ Launch
  BY <1>1, <1>2, UserAuto DEF StoredInv
<1>3. CASE \/ SetGroupTags \/ ModeEdit \/ Subscribe \/ TitleChanged \/ ContentChanged
           \/ AddTag \/ SortTags \/ RemoveTag
  BY <1>1, <1>3, CallbackAuto DEF StoredInv
<1>4. CASE CreateStep \/ WriteStep \/ RowStep \/ LinkStep
  BY <1>1, <1>4, TransactionAuto DEF StoredInv
<1>5. CASE Kill
  <2>1. editor' = Null /\ below' = <<>>
    BY <1>5 DEF Kill
  <2> QED BY <1>1, <2>1 DEF StoredInv, AutoInv, BelowOK
<1>6. CASE UNCHANGED vars
  <2>1. UNCHANGED <<memos, editor, below, work, save, shared>>
    BY <1>6 DEF vars, store, ui
  <2>2. AutoInv'
    BY <2>1 DEF StoredInv, AutoInv, FrontOK, MemoComes, Subscribes, SameMemo, BelowOK, StoredAs
  <2> QED BY <1>1, <2>2 DEF StoredInv
<1> QED BY <1>2, <1>3, <1>4, <1>5, <1>6 DEF Next, UiThread

\* The invariant holds of all behaviours, with stacks of editors of any height.
THEOREM AutoInvariance == Spec => []StoredInv
<1>1. Init => StoredInv
  BY InitInv, AutoInit DEF StoredInv
<1> QED BY <1>1, AutoNext, PTL DEF Spec

\* When the UI thread is idle every open editor shows exactly what is stored,
\* except for the memos that two editors of the stack have had open.
THEOREM Autosave == Spec => []AutosaveComplete
<1>1. StoredInv => AutosaveComplete
  <2> SUFFICES ASSUME StoredInv, AtRest, NEW e \in Editors, e.memo \notin shared
               PROVE  StoredAs(e) /\ memos[e.memo] # Null
    BY DEF AutosaveComplete, StoredAs
  <2>1. CASE editor # Null /\ e = editor
    <3>1. StoredAs(e)
      BY <2>1, RestingEditor
    <3> QED BY <2>1, <3>1 DEF StoredAs, StoredInv, IInv, UiInv, EditorOK
  <2>2. CASE e \in ToSet(below)
    <3>1. PICK i \in DOMAIN below : e = below[i]
      BY <2>2 DEF ToSet
    <3>2. StoredAs(e)
      BY <3>1 DEF StoredInv, AutoInv, BelowOK
    <3> QED BY <3>1, <3>2 DEF StoredAs, StoredInv, IInv, UiInv, EditorOK
  <2> QED BY <2>1, <2>2 DEF Editors
<1> QED BY <1>1, AutoInvariance, PTL

(***************************************************************************)
(* One memo for each onCreate in MODE_CREATE.  Until its first transaction *)
(* the editor in front is the one without a memo; as long as the process   *)
(* lives, the memos, the launches still queued and that editor make up the *)
(* number of creations.                                                    *)
(***************************************************************************)

ModeOK(i) == i.mode = "create" <=> i.memoId = Null

Unmade == IF editor # Null /\ editor.memoId = Null THEN 1 ELSE 0

CountInv ==
  /\ \A i \in DOMAIN starting : ModeOK(starting[i])
  /\ \A i \in DOMAIN below : ModeOK(below[i].intent)
  /\ editor # Null => ModeOK(editor.intent)
  /\ IsFiniteSet(MemosStored)
  /\ kills = 0 => Cardinality(MemosStored) + Cardinality(Queued) + Unmade = creates

\* The positions of the new memos in a queue of Intents.
News(q) == {k \in DOMAIN q : q[k].mode = "create"}

LEMMA NewsFinite ==
  ASSUME NEW q \in Seq(Intent)
  PROVE  IsFiniteSet(News(q)) /\ Cardinality(News(q)) \in Nat
<1>1. DOMAIN q = 1 .. Len(q) /\ Len(q) \in Nat
  OBVIOUS
<1>2. IsFiniteSet(1 .. Len(q))
  BY <1>1, FS_Interval
<1>3. News(q) \subseteq 1 .. Len(q)
  BY <1>1 DEF News
<1> QED BY <1>2, <1>3, FS_Subset, FS_CardinalityType

LEMMA NewsAppend ==
  ASSUME NEW q \in Seq(Intent), NEW i \in Intent
  PROVE  Cardinality(News(Append(q, i)))
           = Cardinality(News(q)) + (IF i.mode = "create" THEN 1 ELSE 0)
<1> DEFINE n == Len(q) + 1
           a == Append(q, i)
<1>1. /\ Len(q) \in Nat /\ DOMAIN q = 1 .. Len(q) /\ DOMAIN a = 1 .. n
      /\ a[n] = i /\ n \notin DOMAIN q /\ \A k \in DOMAIN q : a[k] = q[k]
  OBVIOUS
<1>2. DOMAIN a = DOMAIN q \cup {n}
  BY <1>1
<1> HIDE DEF n, a
<1>3. IsFiniteSet(News(q)) /\ Cardinality(News(q)) \in Nat
  BY NewsFinite
<1>4. CASE i.mode = "create"
  <2>1. News(a) = News(q) \cup {n} /\ n \notin News(q)
    BY <1>1, <1>2, <1>4 DEF News
  <2>2. Cardinality(News(a)) = Cardinality(News(q)) + 1
    BY <1>3, <2>1, FS_AddElement
  <2> QED BY <1>4, <2>2 DEF a
<1>5. CASE i.mode # "create"
  <2>1. News(a) = News(q)
    BY <1>1, <1>2, <1>5 DEF News
  <2> QED BY <1>3, <1>5, <2>1 DEF a
<1> QED BY <1>4, <1>5

LEMMA NewsTail ==
  ASSUME NEW q \in Seq(Intent), q # <<>>
  PROVE  Cardinality(News(q))
           = Cardinality(News(Tail(q))) + (IF Head(q).mode = "create" THEN 1 ELSE 0)
<1> DEFINE t == Tail(q)
           rest == News(q) \ {1}
           f == [k \in News(t) |-> k + 1]
<1>1. /\ Len(q) \in Nat /\ DOMAIN q = 1 .. Len(q) /\ 1 \in DOMAIN q /\ Head(q) = q[1]
      /\ t \in Seq(Intent) /\ DOMAIN t = 1 .. (Len(q) - 1)
      /\ \A k \in DOMAIN t : t[k] = q[k + 1]
  OBVIOUS
<1> HIDE DEF t
<1>2. IsFiniteSet(News(t)) /\ Cardinality(News(t)) \in Nat
  BY <1>1, NewsFinite
<1>3. f \in Bijection(News(t), rest)
  <2>1. \A k \in News(t) : k \in Nat /\ k + 1 \in rest
    BY <1>1 DEF News
  <2>2. f \in Injection(News(t), rest)
    BY <2>1 DEF Injection, IsInjective
  <2>3. \A k \in rest : k - 1 \in News(t) /\ f[k - 1] = k
    BY <1>1 DEF News
  <2>4. f \in Surjection(News(t), rest)
    BY <2>1, <2>3 DEF Surjection
  <2> QED BY <2>2, <2>4 DEF Bijection
<1>4. IsFiniteSet(rest) /\ Cardinality(rest) = Cardinality(News(t))
  BY <1>2, <1>3, FS_Bijection DEF ExistsBijection
<1> HIDE DEF rest, f
<1>5. CASE Head(q).mode = "create"
  <2>1. News(q) = rest \cup {1} /\ 1 \notin rest
    BY <1>1, <1>5 DEF News, rest
  <2>2. Cardinality(News(q)) = Cardinality(rest) + 1
    BY <1>4, <2>1, FS_AddElement
  <2> QED BY <1>4, <1>5, <2>2 DEF t
<1>6. CASE Head(q).mode # "create"
  <2>1. News(q) = rest
    BY <1>1, <1>6 DEF News, rest
  <2> QED BY <1>2, <1>4, <1>6, <2>1 DEF t
<1> QED BY <1>5, <1>6

LEMMA QueuedIsNews == Queued = News(starting)
  BY DEF Queued, News

\* Steps that make no memo and queue no launch, in the editor that is there.
LEMMA CountSame ==
  ASSUME CountInv, UNCHANGED <<starting, below, creates, kills>>, MemosStored' = MemosStored,
         editor = Null => editor' = Null, editor # Null => SameEditor
  PROVE  CountInv'
<1>1. Queued' = Queued
  BY DEF Queued
<1>2. Unmade' = Unmade
  BY DEF Unmade, SameEditor
<1>3. editor' # Null => ModeOK(editor'.intent)
  BY DEF CountInv, SameEditor
<1>4. /\ \A i \in DOMAIN starting' : ModeOK(starting'[i])
      /\ \A i \in DOMAIN below' : ModeOK(below'[i].intent)
  BY DEF CountInv
<1>5. IsFiniteSet(MemosStored')
  BY DEF CountInv
<1>6. kills' = 0 => Cardinality(MemosStored') + Cardinality(Queued') + Unmade' = creates'
  BY <1>1, <1>2 DEF CountInv
<1> QED BY <1>3, <1>4, <1>5, <1>6 DEF CountInv, ModeOK

\* Between callbacks every editor has its memo.
LEMMA NoneUnmade ==
  ASSUME StoredInv
  PROVE  /\ AtRest => Unmade = 0
         /\ \A i \in DOMAIN below : below[i].memoId # Null
<1>1. ASSUME AtRest, editor # Null PROVE editor.memoId # Null
  <2>1. editor.memo # Null
    BY <1>1, RestingEditor
  <2> QED BY <1>1, <2>1 DEF StoredInv, IInv, UiInv, EditorOK
<1>2. ASSUME NEW i \in DOMAIN below PROVE below[i].memoId # Null
  <2>1. below[i].memo # Null /\ below[i].memo \in {Null, below[i].memoId}
    BY DEF StoredInv, AutoInv, BelowOK, IInv, UiInv, EditorOK
  <2> QED BY <2>1
<1> QED BY <1>1, <1>2 DEF Unmade

\* A launch is queued.
LEMMA StartCounts ==
  ASSUME StoredInv, CountInv, NEW i \in Intent, ModeOK(i), Start(i),
         creates' = creates + (IF i.mode = "create" THEN 1 ELSE 0)
  PROVE  CountInv'
<1>1. /\ starting \in Seq(Intent) /\ starting' = Append(starting, i)
      /\ UNCHANGED <<memos, editor, below, kills>>
  BY DEF Start, store, StoredInv, IInv, TypeOK
<1>2. /\ MemosStored' = MemosStored /\ Unmade' = Unmade /\ Unmade \in Nat
  BY <1>1 DEF MemosStored, Unmade
<1>3. /\ Cardinality(Queued') = Cardinality(Queued) + (IF i.mode = "create" THEN 1 ELSE 0)
      /\ Cardinality(Queued) \in Nat
  BY <1>1, NewsAppend, NewsFinite DEF Queued, News
<1>4. Cardinality(MemosStored) \in Nat /\ creates \in Nat
  BY FS_CardinalityType DEF CountInv, StoredInv, IInv, TypeOK
<1>5. \A k \in DOMAIN starting' : ModeOK(starting'[k])
  BY <1>1, AppendOK DEF CountInv
<1>6. kills' = 0 => Cardinality(MemosStored') + Cardinality(Queued') + Unmade' = creates'
  BY <1>1, <1>2, <1>3, <1>4 DEF CountInv
<1>7. /\ \A k \in DOMAIN below' : ModeOK(below'[k].intent)
      /\ editor' # Null => ModeOK(editor'.intent)
      /\ IsFiniteSet(MemosStored')
  BY <1>1, <1>2 DEF CountInv
<1> QED BY <1>5, <1>6, <1>7 DEF CountInv, ModeOK

LEMMA UserCounts ==
  ASSUME StoredInv, CountInv, User \/ Launch
  PROVE  CountInv'
<1>0. /\ AtRest /\ UNCHANGED <<memos, save, kills>>
      /\ starting \in Seq(Intent) /\ below \in Seq(Editor) /\ editor \in Editor \cup {Null}
  BY DEF User, Launch, TapAddMemo, TapMemo, Start, TypeTitle, TypeContent, ClickAddTag, ClickTag,
         Event, Finish, Recreate, store, StoredInv, IInv, TypeOK
<1>1. MemosStored' = MemosStored /\ Unmade = 0 /\ \A i \in DOMAIN below : below[i].memoId # Null
  BY <1>0, NoneUnmade DEF MemosStored
<1>2. /\ Cardinality(MemosStored) \in Nat /\ Cardinality(Queued) \in Nat /\ creates \in Nat
      /\ IsFiniteSet(MemosStored)
      /\ kills = 0 => Cardinality(MemosStored) + Cardinality(Queued) = creates
  <2>1. Cardinality(MemosStored) \in Nat /\ Cardinality(Queued) \in Nat /\ creates \in Nat
    BY <1>0, FS_CardinalityType, NewsFinite, QueuedIsNews DEF CountInv, StoredInv, IInv, TypeOK
  <2>2. kills = 0 => Cardinality(MemosStored) + Cardinality(Queued) + 0 = creates
    BY <1>1 DEF CountInv
  <2> QED BY <2>1, <2>2 DEF CountInv
<1>3. CASE TapAddMemo
  <2>1. PICK g \in GroupId : Start([mode |-> "create", parent |-> g, memoId |-> Null])
    BY <1>3 DEF TapAddMemo
  <2> DEFINE i == [mode |-> "create", parent |-> g, memoId |-> Null]
  <2>2. i \in Intent /\ ModeOK(i) /\ i.mode = "create"
    BY DEF Intent, ModeOK
  <2>3. creates' = creates + (IF i.mode = "create" THEN 1 ELSE 0)
    BY <1>3 DEF TapAddMemo
  <2> HIDE DEF i
  <2>4. Start(i)
    BY <2>1 DEF i
  <2> QED BY <2>2, <2>3, <2>4, StartCounts
<1>4. CASE TapMemo
  <2>1. PICK g \in GroupId : /\ groups[g] # Null
                             /\ \E r \in ToSet(groups[g].groupMemos) :
                                  /\ rows[r].type = "memo"
                                  /\ Start([mode |-> "edit", parent |-> g, memoId |-> rows[r].ref])
    BY <1>4 DEF TapMemo
  <2>2. PICK r \in ToSet(groups[g].groupMemos) :
               /\ rows[r].type = "memo"
               /\ Start([mode |-> "edit", parent |-> g, memoId |-> rows[r].ref])
    BY <2>1
  <2> DEFINE i == [mode |-> "edit", parent |-> g, memoId |-> rows[r].ref]
  <2>3. rows[r].ref \in MemoId
    <3>1. groups[g] \in Group /\ StoreInv
      BY <2>1 DEF StoredInv, IInv, TypeOK, StoreTypeOK
    <3>2. PICK k \in DOMAIN groups[g].groupMemos : r = groups[g].groupMemos[k]
      BY <2>2 DEF ToSet
    <3>3. r \in RowId /\ rows[r] # Null
      BY <2>1, <3>1, <3>2 DEF Group, StoreInv, ListOK
    <3> QED BY <2>2, <3>1, <3>3 DEF StoreInv, RowOK
  <2>4. i \in Intent /\ ModeOK(i) /\ i.mode # "create"
    BY <2>3, StoreAssumption DEF Intent, ModeOK
  <2>5. creates' = creates + (IF i.mode = "create" THEN 1 ELSE 0)
    BY <1>2, <1>4, <2>4 DEF TapMemo
  <2> HIDE DEF i
  <2>6. Start(i)
    BY <2>2 DEF i
  <2> QED BY <2>4, <2>5, <2>6, StartCounts
<1>5. CASE TypeTitle \/ TypeContent \/ ClickAddTag \/ ClickTag
  <2>1. UNCHANGED <<starting, below, creates, kills, editor>> /\ editor # Null
    BY <1>5 DEF TypeTitle, TypeContent, ClickAddTag, ClickTag, Event
  <2> QED BY <1>1, <2>1, CountSame DEF SameEditor
<1>6. CASE Finish
  <2>1. /\ UNCHANGED <<starting, creates, kills>>
        /\ editor' = IF below = <<>> THEN Null ELSE Last(below)
        /\ below' = IF below = <<>> THEN below ELSE Front(below)
    BY <1>6 DEF Finish
  <2>2. CASE below = <<>>
    <3>1. editor' = Null /\ below' = below /\ Unmade' = 0
      BY <2>1, <2>2 DEF Unmade
    <3>2. Queued' = Queued
      BY <2>1 DEF Queued
    <3> QED BY <1>1, <1>2, <2>1, <3>1, <3>2 DEF CountInv, ModeOK
  <2>3. CASE below # <<>>
    <3>1. /\ Len(below) \in DOMAIN below /\ Last(below) = below[Len(below)]
          /\ DOMAIN Front(below) \subseteq DOMAIN below
          /\ \A k \in DOMAIN Front(below) : Front(below)[k] = below[k]
      BY <1>0, <2>3 DEF Last, Front
    <3>2. editor' = below[Len(below)] /\ below' = Front(below)
      BY <2>1, <2>3, <3>1
    <3>3. Unmade' = 0 /\ ModeOK(editor'.intent)
      BY <1>1, <3>1, <3>2 DEF Unmade, CountInv
    <3>4. \A k \in DOMAIN below' : ModeOK(below'[k].intent)
      BY <3>1, <3>2 DEF CountInv
    <3>5. Queued' = Queued /\ \A k \in DOMAIN starting' : ModeOK(starting'[k])
      BY <2>1 DEF Queued, CountInv
    <3> QED BY <1>1, <1>2, <2>1, <3>3, <3>4, <3>5 DEF CountInv, ModeOK
  <2> QED BY <2>2, <2>3
<1>7. CASE Recreate
  <2>1. /\ UNCHANGED <<starting, below, kills>> /\ editor # Null
        /\ editor' = NewEditor(editor.intent)
        /\ creates' = creates + (IF editor.intent.mode = "create" THEN 1 ELSE 0)
    BY <1>7 DEF Recreate
  <2>2. editor.intent \in Intent /\ IntentOK(editor.intent) /\ ModeOK(editor.intent)
    BY <1>0, <2>1 DEF Editor, CountInv, StoredInv, IInv, UiInv, EditorOK
  <2>3. editor' # Null /\ editor'.intent = editor.intent /\ editor'.memoId = editor.intent.memoId
    BY <2>1, <2>2, FreshEditor DEF NewEditor
  <2>4. Unmade' = IF editor.intent.mode = "create" THEN 1 ELSE 0
    BY <2>2, <2>3 DEF Unmade, ModeOK
  <2>5. /\ Queued' = Queued /\ \A k \in DOMAIN starting' : ModeOK(starting'[k])
        /\ \A k \in DOMAIN below' : ModeOK(below'[k].intent)
    BY <2>1 DEF Queued, CountInv
  <2>6. ModeOK(editor'.intent)
    BY <2>2, <2>3
  <2> QED BY <1>1, <1>2, <2>1, <2>4, <2>5, <2>6 DEF CountInv, ModeOK
<1>8. CASE Launch
  <2> DEFINE i == Head(starting)
  <2>1. /\ starting # <<>> /\ starting' = Tail(starting) /\ UNCHANGED <<creates, kills>>
        /\ editor' = NewEditor(i)
        /\ below' = IF editor = Null THEN below ELSE Append(below, editor)
    BY <1>8 DEF Launch
  <2>2. /\ i \in Intent /\ IntentOK(i) /\ ModeOK(i)
        /\ \A k \in DOMAIN starting' : ModeOK(starting'[k])
    <3>1. 1 \in DOMAIN starting /\ i = starting[1]
          /\ \A k \in DOMAIN Tail(starting) : k + 1 \in DOMAIN starting
                                              /\ Tail(starting)[k] = starting[k + 1]
      BY <1>0, <2>1
    <3> QED BY <1>0, <2>1, <3>1 DEF CountInv, StoredInv, IInv, UiInv
  <2>3. editor' # Null /\ editor'.intent = i /\ editor'.memoId = i.memoId
    BY <2>1, <2>2, FreshEditor DEF NewEditor
  <2>4. Unmade' = IF i.mode = "create" THEN 1 ELSE 0
    BY <2>2, <2>3 DEF Unmade, ModeOK
  <2>5. /\ Cardinality(Queued) = Cardinality(Queued') + (IF i.mode = "create" THEN 1 ELSE 0)
        /\ Cardinality(Queued') \in Nat
    <3>1. Queued' = News(Tail(starting)) /\ Tail(starting) \in Seq(Intent)
      BY <1>0, <2>1 DEF Queued, News
    <3> QED BY <1>0, <2>1, <3>1, NewsTail, NewsFinite, QueuedIsNews
  <2>6. \A k \in DOMAIN below' : ModeOK(below'[k].intent)
    <3>1. CASE editor = Null
      BY <2>1, <3>1 DEF CountInv
    <3>2. CASE editor # Null
      BY <1>0, <2>1, <3>2, AppendOK DEF CountInv
    <3> QED BY <3>1, <3>2
  <2>7. ModeOK(editor'.intent)
    BY <2>2, <2>3
  <2> HIDE DEF i
  <2>8. kills' = 0 => Cardinality(MemosStored') + Cardinality(Queued') + Unmade' = creates'
    BY <1>1, <1>2, <2>1, <2>4, <2>5
  <2> QED BY <1>1, <1>2, <2>2, <2>6, <2>7, <2>8 DEF CountInv, ModeOK
<1> QED BY <1>3, <1>4, <1>5, <1>6, <1>7, <1>8 DEF User

LEMMA TransactionCounts ==
  ASSUME StoredInv, CountInv, CreateStep \/ WriteStep \/ RowStep \/ LinkStep
  PROVE  CountInv'
<1>0. /\ UNCHANGED <<starting, below, creates, kills>> /\ save # NoSave
      /\ memos \in [MemoId -> Memo \cup {Null}] /\ IInv
  <2>1. save.step # "none" /\ UNCHANGED <<starting, below, creates, kills>>
    BY DEF CreateStep, WriteStep, RowStep, LinkStep
  <2>2. save # NoSave
    BY <2>1 DEF NoSave
  <2> QED BY <2>1, <2>2 DEF StoredInv, IInv, TypeOK, StoreTypeOK
<1>1. editor \in Editor /\ editor # Null /\ EditorOK(editor)
  BY <1>0, RunningEditor
<1>2. CASE CreateStep
  <2>1. editor.memoId = Null
    BY <1>0, <1>2 DEF CreateStep, IInv, UiInv, SaveOK
  <2>2. PICK m \in MemoId : /\ CreateMemo(m, editor.intent.parent)
                            /\ editor' = [editor EXCEPT !.memo = m, !.memoId = m]
    BY <1>2 DEF CreateStep
  <2>3. editor' \in Editor /\ editor'.memoId = m /\ editor'.intent = editor.intent
    BY <1>1, <2>2 DEF Editor
  <2>4. Unmade = 1 /\ Unmade' = 0
    BY <1>1, <2>1, <2>3, StoreAssumption DEF Unmade
  <2>5. MemosStored' = MemosStored \cup {m} /\ m \notin MemosStored
    <3> DEFINE new == [parent |-> editor.intent.parent, title |-> Null, content |-> Null, tags |-> <<>>]
    <3>1. new \in Memo
      BY <1>1 DEF Memo, Editor, Intent
    <3>2. new # Null
      BY <3>1, StoreAssumption
    <3> HIDE DEF new
    <3>3. memos[m] = Null /\ memos' = [memos EXCEPT ![m] = new]
      BY <2>2 DEF CreateMemo, new
    <3> QED BY <1>0, <3>2, <3>3 DEF MemosStored
  <2>6. /\ IsFiniteSet(MemosStored') /\ Cardinality(MemosStored') = Cardinality(MemosStored) + 1
        /\ Cardinality(MemosStored) \in Nat
    BY <2>5, FS_AddElement, FS_CardinalityType DEF CountInv
  <2>7. Queued' = Queued /\ Cardinality(Queued) \in Nat
    BY <1>0, NewsFinite, QueuedIsNews DEF Queued, IInv, TypeOK
  <2>8. kills' = 0 => Cardinality(MemosStored') + Cardinality(Queued') + Unmade' = creates'
    <3>1. kills = 0 => Cardinality(MemosStored) + Cardinality(Queued) + 1 = creates
      BY <2>4 DEF CountInv
    <3> QED BY <1>0, <2>4, <2>6, <2>7, <3>1
  <2>9. /\ \A i \in DOMAIN starting' : ModeOK(starting'[i])
        /\ \A i \in DOMAIN below' : ModeOK(below'[i].intent)
        /\ ModeOK(editor'.intent)
    BY <1>0, <1>1, <2>3 DEF CountInv
  <2> QED BY <2>6, <2>8, <2>9 DEF CountInv, ModeOK
<1>3. CASE WriteStep
  <2>1. editor.memo \in MemoId /\ memos[editor.memo] # Null /\ UNCHANGED editor
    <3>1. editor.memo # Null /\ memos[editor.memo] # Null
      BY <1>0, <1>3 DEF WriteStep, IInv, UiInv, SaveOK
    <3> QED BY <1>1, <1>3, <3>1 DEF Editor, WriteStep
  <2>2. MemosStored' = MemosStored
    <3>1. \A m \in MemoId : memos[m] # Null => memos'[m] # Null
      BY <1>0, <1>3, Monotone DEF Next, UiThread
    <3>2. \A m \in MemoId \ {editor.memo} : memos'[m] = memos[m]
      BY <1>0, <1>3 DEF WriteStep, WriteMemo
    <3> QED BY <2>1, <3>1, <3>2 DEF MemosStored
  <2> QED BY <1>0, <1>1, <2>1, <2>2, CountSame DEF SameEditor
<1>4. CASE RowStep
  <2>1. UNCHANGED memos
    BY <1>4 DEF RowStep, store, CreateRow
  <2>2. editor' = editor \/ \E r \in RowId : editor' = [editor EXCEPT !.groupMemo = r]
    BY <1>4 DEF RowStep, RowsOf
  <2>3. editor' \in Editor /\ editor'.memoId = editor.memoId /\ editor'.intent = editor.intent
    BY <1>1, <2>2 DEF Editor
  <2> QED BY <1>0, <1>1, <2>1, <2>3, CountSame, EditorAssumption DEF SameEditor, MemosStored
<1>5. CASE LinkStep
  <2>1. UNCHANGED <<memos, editor>>
    BY <1>5 DEF LinkStep, LinkRow
  <2> QED BY <1>0, <1>1, <2>1, CountSame DEF SameEditor, MemosStored
<1> QED BY <1>2, <1>3, <1>4, <1>5

LEMMA CountInit == Init => CountInv
<1> SUFFICES ASSUME Init PROVE CountInv
  OBVIOUS
<1>1. MemosStored = {} /\ Queued = {} /\ Unmade = 0 /\ creates = 0
  BY DEF Init, MemosStored, Queued, Unmade
<1> QED BY <1>1, FS_EmptySet DEF Init, CountInv

LEMMA CountNext == StoredInv /\ CountInv /\ [Next]_vars => CountInv'
<1> SUFFICES ASSUME StoredInv, CountInv, [Next]_vars PROVE CountInv'
  OBVIOUS
<1>1. CASE User \/ Launch
  BY <1>1, UserCounts
<1>2. CASE \/ SetGroupTags \/ ModeEdit \/ Subscribe \/ TitleChanged \/ ContentChanged
           \/ AddTag \/ SortTags \/ RemoveTag
  <2>1. SameEditor
    BY <1>2, CallbackAuto
  <2>2. UNCHANGED <<starting, below, creates, kills, memos>> /\ work # <<>>
    BY <1>2 DEF SetGroupTags, ModeEdit, Subscribe, TitleChanged, ContentChanged, AddTag, SortTags,
                RemoveTag, Continue, store
  <2>3. editor # Null
    BY <2>2 DEF StoredInv, IInv, TypeOK
  <2> QED BY <2>1, <2>2, <2>3, CountSame DEF MemosStored
<1>3. CASE CreateStep \/ WriteStep \/ RowStep \/ LinkStep
  BY <1>3, TransactionCounts
<1>4. CASE Kill
  <2>1. /\ editor' = Null /\ below' = <<>> /\ starting' = <<>> /\ kills' = kills + 1 /\ memos' = memos
    BY <1>4 DEF Kill, store
  <2>2. kills' # 0
    BY <2>1 DEF StoredInv, IInv, TypeOK
  <2>3. MemosStored' = MemosStored
    BY <2>1 DEF MemosStored
  <2> QED BY <2>1, <2>2, <2>3 DEF CountInv
<1>5. CASE UNCHANGED vars
  <2>1. UNCHANGED <<starting, below, creates, kills, memos, editor>>
    BY <1>5 DEF vars, ui, store
  <2> QED BY <2>1, CountSame DEF SameEditor, MemosStored
<1> QED BY <1>1, <1>2, <1>3, <1>4, <1>5 DEF Next, UiThread

\* As long as the process lives each onCreate in MODE_CREATE leaves exactly one memo:
\* the three saves of onCreate make one between them, leaving the editor at once keeps
\* it, and a recreated activity makes another.
THEOREM MemoPerCreate == Spec => []OneMemoPerCreate
<1>1. StoredInv /\ CountInv => OneMemoPerCreate
  <2> SUFFICES ASSUME StoredInv, CountInv, AtRest, kills = 0
               PROVE  Cardinality(MemosStored) + Cardinality(Queued) = creates
    BY DEF OneMemoPerCreate
  <2>1. Cardinality(MemosStored) + Cardinality(Queued) + 0 = creates
    BY NoneUnmade DEF CountInv
  <2>2. Cardinality(MemosStored) \in Nat /\ Cardinality(Queued) \in Nat
    BY FS_CardinalityType, NewsFinite, QueuedIsNews DEF CountInv, StoredInv, IInv, TypeOK
  <2> QED BY <2>1, <2>2
<1> QED BY <1>1, CountInit, CountNext, AutoInvariance, PTL DEF Spec
(***************************************************************************)
(* The tags of a memo: each once, and in order as soon as the callback is  *)
(* over.  While an "add" still has its "sort" before it, or a save has     *)
(* tags to write, the memo of the editor in front may be out of order, and *)
(* no other is.  A death at that moment leaves it so, which is why order   *)
(* is claimed for as long as the process lives.                            *)
(***************************************************************************)

InOrder(s) == \A i, j \in DOMAIN s : i < j => s[i] < s[j]

SortComes == \E i \in DOMAIN work : work[i].op = "sort"
AddsSorted == \A i \in DOMAIN work : work[i].op = "add" =>
                \E j \in DOMAIN work : i < j /\ work[j].op = "sort"

OnceInv ==
  /\ \A g \in GroupId : groups[g] # Null => IsInjective(groups[g].tags)
  /\ \A m \in MemoId : memos[m] # Null => IsInjective(memos[m].tags)
  /\ editor # Null => IsInjective(editor.tags)
  /\ \A i \in DOMAIN below : IsInjective(below[i].tags)
  /\ save.tags # Null => save.step \in {"create", "write"} /\ IsInjective(save.tags)

\* The memo m of the editor in front is about to be put in order.
Unsettled(m) == editor # Null /\ m = editor.memoId /\ (SortComes \/ save.tags # Null)

EditorInOrder == editor # Null /\ ~SortComes =>
  InOrder(editor.tags) /\ (save.tags # Null => InOrder(save.tags))

OrderInv ==
  /\ AddsSorted
  /\ \A g \in GroupId : groups[g] # Null => InOrder(groups[g].tags)
  /\ kills = 0 => /\ \A i \in DOMAIN below : InOrder(below[i].tags)
                  /\ \A m \in MemoId : memos[m] # Null => InOrder(memos[m].tags) \/ Unsettled(m)
                  /\ EditorInOrder

TagInv == OnceInv /\ OrderInv

-----------------------------------------------------------------------------
\* What saveAfterCheck does not write is stored.
LEMMA TagsAfterCheck ==
  ASSUME IInv, save = NoSave, NEW e \in Editor, EditorOK(e), SaveAfterCheck(e)
  PROVE  /\ editor' # Null /\ editor'.tags = e.tags /\ editor'.memoId = e.memoId
         /\ save'.tags \in {Null, e.tags}
         /\ save'.tags # Null => save'.step \in {"create", "write"}
         /\ save'.tags = Null => /\ e.memoId \in MemoId /\ memos[e.memoId] # Null
                                 /\ memos[e.memoId].tags = e.tags
<1>1. /\ e.tags \in Seq(Tag) /\ e.tags # Null /\ e.memoId \in MemoId \cup {Null}
      /\ Null \notin Editor
  BY StoreAssumption, EditorAssumption DEF Editor
<1>2. ASSUME NEW t, NEW c, NEW s, Save(e, t, c, s)
      PROVE  /\ editor' \in Editor /\ editor'.tags = e.tags /\ editor'.memoId = e.memoId
             /\ save'.tags = s /\ save'.step \in {"create", "write"}
  BY <1>2 DEF Save, Editor
<1>3. CASE e.memo = Null
  BY <1>1, <1>2, <1>3 DEF SaveAfterCheck
<1>4. CASE e.memo # Null
  <2>1. /\ e.memo = e.memoId /\ e.memoId \in MemoId /\ memos[e.memoId] # Null
        /\ NoSave.tags = Null
    BY <1>1, <1>4 DEF EditorOK, NoSave
  <2> DEFINE old == memos[e.memo]
  <2>2. \/ editor' = e /\ UNCHANGED save /\ IfChanged(e.tags, old.tags) = Null
        \/ Save(e, IfChanged(e.title, old.title), IfChanged(e.content, old.content),
                   IfChanged(e.tags, old.tags))
    BY <1>4 DEF SaveAfterCheck
  <2> DEFINE new == IfChanged(e.tags, old.tags)
  <2>3. new \in {Null, e.tags} /\ (new = Null => old.tags = e.tags)
    BY <1>1 DEF IfChanged
  <2>4. /\ editor' # Null /\ editor'.tags = e.tags /\ editor'.memoId = e.memoId
        /\ save'.tags = new
        /\ save'.tags # Null => save'.step \in {"create", "write"}
    <3> HIDE DEF old
    <3>1. CASE editor' = e /\ UNCHANGED save /\ IfChanged(e.tags, old.tags) = Null
      BY <1>1, <2>1, <3>1
    <3>2. CASE Save(e, IfChanged(e.title, old.title), IfChanged(e.content, old.content),
                       IfChanged(e.tags, old.tags))
      <4>1. /\ editor' \in Editor /\ editor'.tags = e.tags /\ editor'.memoId = e.memoId
            /\ save'.tags = IfChanged(e.tags, old.tags) /\ save'.step \in {"create", "write"}
        BY <1>2, <3>2
      <4> QED BY <1>1, <4>1
    <3> QED BY <2>2, <3>1, <3>2
  <2> HIDE DEF new
  <2> QED BY <2>1, <2>3, <2>4
<1> QED BY <1>3, <1>4

\* A callback that goes on loses the operation at its head, and a sort only so.
LEMMA WorkGoesOn ==
  ASSUME IInv, AddsSorted, NEW op, Continue(op)
  PROVE  AddsSorted' /\ (op = "add" => SortComes') /\ (op # "sort" /\ SortComes => SortComes')
<1>1. /\ work \in Seq(Op) /\ work # <<>> /\ work' = Tail(work) /\ work[1].op = op
  BY DEF Continue, IInv, TypeOK
<1>2. /\ \A i \in DOMAIN work' : i + 1 \in DOMAIN work /\ work'[i] = work[i + 1] /\ i \in Nat
      /\ \A i \in DOMAIN work : i \in Nat /\ (i = 1 \/ (i - 1 \in DOMAIN work' /\ work'[i - 1] = work[i]))
      /\ 1 \in DOMAIN work
  BY <1>1
<1>3. AddsSorted'
  <2> SUFFICES ASSUME NEW i \in DOMAIN work', work'[i].op = "add"
               PROVE  \E j \in DOMAIN work' : i < j /\ work'[j].op = "sort"
    BY DEF AddsSorted
  <2>1. PICK j \in DOMAIN work : i + 1 < j /\ work[j].op = "sort"
    BY <1>2 DEF AddsSorted
  <2>2. j - 1 \in DOMAIN work' /\ i < j - 1 /\ work'[j - 1].op = "sort"
    BY <1>2, <2>1
  <2> QED BY <2>2
<1>4. ASSUME op = "add" PROVE SortComes'
  <2>1. PICK j \in DOMAIN work : 1 < j /\ work[j].op = "sort"
    BY <1>1, <1>2, <1>4 DEF AddsSorted
  <2>2. j - 1 \in DOMAIN work' /\ work'[j - 1].op = "sort"
    BY <1>2, <2>1
  <2> QED BY <2>2 DEF SortComes
<1>5. ASSUME op # "sort", SortComes PROVE SortComes'
  <2>1. PICK j \in DOMAIN work : work[j].op = "sort"
    BY <1>5 DEF SortComes
  <2>2. j # 1
    BY <1>1, <1>5, <2>1
  <2>3. j - 1 \in DOMAIN work' /\ work'[j - 1].op = "sort"
    BY <1>2, <2>1, <2>2
  <2> QED BY <2>3 DEF SortComes
<1> QED BY <1>3, <1>4, <1>5

\* A step of a callback that ends in saveAfterCheck.
LEMMA CheckedTags ==
  ASSUME IInv, TagInv, NEW op, Continue(op), editor # Null,
         NEW e \in Editor, EditorOK(e), SaveAfterCheck(e), e.memoId = editor.memoId,
         IsInjective(e.tags), kills = 0 /\ ~SortComes' => InOrder(e.tags)
  PROVE  TagInv'
<1>1. save = NoSave /\ save.tags = Null /\ UNCHANGED <<groups, memos, below, kills>>
  BY DEF Continue, NoSave, store
<1>2. /\ editor' # Null /\ editor'.tags = e.tags /\ editor'.memoId = e.memoId
      /\ save'.tags \in {Null, e.tags}
      /\ save'.tags # Null => save'.step \in {"create", "write"}
      /\ save'.tags = Null => /\ e.memoId \in MemoId /\ memos[e.memoId] # Null
                              /\ memos[e.memoId].tags = e.tags
  BY <1>1, TagsAfterCheck
<1>3. OnceInv'
  BY <1>1, <1>2 DEF TagInv, OnceInv
<1>4. AddsSorted' /\ \A g \in GroupId : groups'[g] # Null => InOrder(groups'[g].tags)
  BY <1>1, WorkGoesOn DEF TagInv, OrderInv
<1>5. ASSUME kills' = 0
      PROVE  /\ \A i \in DOMAIN below' : InOrder(below'[i].tags)
             /\ \A m \in MemoId : memos'[m] # Null => InOrder(memos'[m].tags) \/ Unsettled(m)'
             /\ EditorInOrder'
  <2>1. /\ \A i \in DOMAIN below : InOrder(below[i].tags)
        /\ \A m \in MemoId : memos[m] # Null => InOrder(memos[m].tags) \/ Unsettled(m)
    BY <1>1, <1>5 DEF TagInv, OrderInv
  <2>2. ~SortComes' => InOrder(e.tags)
    BY <1>1, <1>5
  <2>3. EditorInOrder'
    BY <1>2, <2>2 DEF EditorInOrder
  <2>4. ASSUME NEW m \in MemoId, memos'[m] # Null PROVE InOrder(memos'[m].tags) \/ Unsettled(m)'
    <3>1. memos'[m] = memos[m] /\ (InOrder(memos[m].tags) \/ m = e.memoId)
      BY <1>1, <2>1, <2>4 DEF Unsettled
    <3>2. CASE m # e.memoId
      BY <3>1, <3>2
    <3>3. CASE m = e.memoId
      BY <1>2, <2>2, <3>1, <3>3 DEF Unsettled
    <3> QED BY <3>2, <3>3
  <2> QED BY <1>1, <2>1, <2>3, <2>4
<1>6. OrderInv'
  BY <1>4, <1>5 DEF OrderInv
<1> QED BY <1>3, <1>6 DEF TagInv

\* A step of a callback with nothing to save.
LEMMA SkippedTags ==
  ASSUME IInv, TagInv, NEW op, op # "sort", Continue(op), UNCHANGED <<editor, save>>
  PROVE  TagInv'
<1>1. UNCHANGED <<groups, memos, below, kills>>
  BY DEF Continue, store
<1>2. AddsSorted' /\ (SortComes => SortComes')
  BY WorkGoesOn DEF TagInv, OrderInv
<1>3. OnceInv'
  BY <1>1 DEF TagInv, OnceInv
<1>4. OrderInv'
  BY <1>1, <1>2 DEF TagInv, OrderInv, EditorInOrder, Unsettled
<1> QED BY <1>3, <1>4 DEF TagInv

\* What the operations make of a list without duplicates.
LEMMA TagsKept ==
  ASSUME NEW s \in Seq(Tag), IsInjective(s)
  PROVE  /\ \A t \in Tag : ~Contains(s, t) => IsInjective(Append(s, t))
         /\ s # <<>> => IsInjective(Tail(s)) /\ (InOrder(s) => InOrder(Tail(s)))
         /\ \A p \in Bijection(DOMAIN s, DOMAIN s) :
              LET sorted == [i \in DOMAIN s |-> s[p[i]]]
              IN /\ IsInjective(sorted)
                 /\ (\A i, j \in DOMAIN sorted : i < j => sorted[i] <= sorted[j]) => InOrder(sorted)
<1>1. ASSUME NEW t \in Tag, ~Contains(s, t) PROVE IsInjective(Append(s, t))
  <2>1. \A i \in DOMAIN s : s[i] # t
    BY <1>1 DEF Contains
  <2>2. \A i \in DOMAIN Append(s, t) : \/ i \in DOMAIN s /\ Append(s, t)[i] = s[i]
                                       \/ i = Len(s) + 1 /\ Append(s, t)[i] = t
    OBVIOUS
  <2> QED BY <2>1, <2>2 DEF IsInjective
<1>2. ASSUME s # <<>> PROVE IsInjective(Tail(s)) /\ (InOrder(s) => InOrder(Tail(s)))
  <2>1. \A i \in DOMAIN Tail(s) : i \in Nat /\ i + 1 \in DOMAIN s /\ Tail(s)[i] = s[i + 1]
    BY <1>2
  <2>2. IsInjective(Tail(s))
    <3> SUFFICES ASSUME NEW i \in DOMAIN Tail(s), NEW j \in DOMAIN Tail(s), Tail(s)[i] = Tail(s)[j]
                 PROVE  i = j
      BY DEF IsInjective
    <3>1. i + 1 = j + 1
      BY <2>1 DEF IsInjective
    <3> QED BY <2>1, <3>1
  <2>3. ASSUME InOrder(s) PROVE InOrder(Tail(s))
    <3> SUFFICES ASSUME NEW i \in DOMAIN Tail(s), NEW j \in DOMAIN Tail(s), i < j
                 PROVE  Tail(s)[i] < Tail(s)[j]
      BY DEF InOrder
    <3>1. i + 1 < j + 1
      BY <2>1
    <3> QED BY <2>1, <2>3, <3>1 DEF InOrder
  <2> QED BY <2>2, <2>3
<1>3. ASSUME NEW p \in Bijection(DOMAIN s, DOMAIN s)
      PROVE  LET sorted == [i \in DOMAIN s |-> s[p[i]]]
             IN /\ IsInjective(sorted)
                /\ (\A i, j \in DOMAIN sorted : i < j => sorted[i] <= sorted[j]) => InOrder(sorted)
  <2> DEFINE sorted == [i \in DOMAIN s |-> s[p[i]]]
  <2>1. p \in [DOMAIN s -> DOMAIN s] /\ \A a, b \in DOMAIN s : p[a] = p[b] => a = b
    BY DEF Bijection, Injection, IsInjective
  <2>2. DOMAIN sorted = DOMAIN s /\ \A i \in DOMAIN s : sorted[i] = s[p[i]]
    OBVIOUS
  <2>3. \A i \in DOMAIN s : i \in Nat /\ s[i] \in Nat
    <3>1. \A i \in DOMAIN s : i \in Nat /\ s[i] \in Tag
      OBVIOUS
    <3>2. Tag \subseteq Nat
      BY StoreAssumption
    <3> QED BY <3>1, <3>2
  <2> HIDE DEF sorted
  <2>4. IsInjective(sorted)
    BY <2>1, <2>2 DEF IsInjective
  <2>5. ASSUME \A i, j \in DOMAIN sorted : i < j => sorted[i] <= sorted[j] PROVE InOrder(sorted)
    <3> SUFFICES ASSUME NEW i \in DOMAIN sorted, NEW j \in DOMAIN sorted, i < j
                 PROVE  sorted[i] < sorted[j]
      BY DEF InOrder
    <3>1. sorted[i] <= sorted[j] /\ sorted[i] \in Nat /\ sorted[j] \in Nat
      BY <2>1, <2>2, <2>3, <2>5
    <3>2. i # j
      BY <2>2, <2>3
    <3>3. sorted[i] # sorted[j]
      BY <2>4, <3>2 DEF IsInjective
    <3> QED BY <3>1, <3>3
  <2>6. IsInjective(sorted)
          /\ ((\A i, j \in DOMAIN sorted : i < j => sorted[i] <= sorted[j]) => InOrder(sorted))
    BY <2>4, <2>5
  <2> QED BY <2>6 DEF sorted
<1> QED BY <1>1, <1>2, <1>3

LEMMA CallbackTags ==
  ASSUME IInv, TagInv,
         \/ SetGroupTags \/ ModeEdit \/ Subscribe \/ TitleChanged \/ ContentChanged
         \/ AddTag \/ SortTags \/ RemoveTag
  PROVE  TagInv'
<1>0. /\ work \in Seq(Op) /\ work # <<>> /\ save = NoSave
  BY DEF IInv, TypeOK, SetGroupTags, ModeEdit, Subscribe, TitleChanged, ContentChanged,
         AddTag, SortTags, RemoveTag, Continue
<1>a. /\ editor \in Editor /\ EditorOK(editor) /\ editor # Null
      /\ editor.intent \in Intent /\ groups[editor.intent.parent] \in Group
      /\ editor.memoId \in MemoId \cup {Null} /\ editor.tags \in Seq(Tag)
  BY <1>0, RunningEditor
<1>b. Head(work) \in Op
  BY <1>0
<1>c. save.tags = Null /\ IsInjective(editor.tags)
  BY <1>0, <1>a DEF NoSave, TagInv, OnceInv
<1>d. \A op : Continue(op) /\ op # "sort" /\ kills = 0 /\ ~SortComes' => InOrder(editor.tags)
  BY <1>a, WorkGoesOn DEF TagInv, OrderInv, EditorInOrder
\* The step leaves the editor the tags s.
<1>s. ASSUME NEW op, NEW s \in Seq(Tag), Continue(op), SaveAfterCheck([editor EXCEPT !.tags = s]),
             IsInjective(s), kills = 0 /\ ~SortComes' => InOrder(s)
      PROVE  TagInv'
  <2> DEFINE e == [editor EXCEPT !.tags = s]
  <2>1. e \in Editor /\ EditorOK(e) /\ e.memoId = editor.memoId /\ e.tags = s
    BY <1>a, EditedEditor DEF Editor
  <2> HIDE DEF e
  <2>2. SaveAfterCheck(e)
    BY <1>s DEF e
  <2> QED BY <1>a, <1>s, <2>1, <2>2, CheckedTags
\* The step keeps the tags of the editor.
<1>k. ASSUME NEW op, op # "sort", Continue(op), NEW e \in Editor, EditorOK(e), SaveAfterCheck(e),
             e.memoId = editor.memoId, e.tags = editor.tags
      PROVE  TagInv'
  BY <1>a, <1>c, <1>d, <1>k, CheckedTags
<1>1. CASE SetGroupTags
  <2> DEFINE g == editor.intent.parent
  <2>1. g \in GroupId /\ groups[g] # Null /\ groups[g].tags \in Seq(Tag)
    BY <1>a DEF EditorOK, IntentOK, Group, Intent
  <2>2. IsInjective(groups[g].tags) /\ InOrder(groups[g].tags)
    BY <2>1 DEF TagInv, OnceInv, OrderInv
  <2> QED BY <1>1, <1>s, <2>1, <2>2 DEF SetGroupTags
<1>2. CASE ModeEdit
  <2>1. CASE editor.memoId = Null
    BY <1>2, <2>1, SkippedTags DEF ModeEdit
  <2>2. CASE editor.memoId # Null
    <3> DEFINE m == editor.memoId
               TextOf(text) == IF text = Null THEN Empty ELSE text
               e == [editor EXCEPT !.memo = m, !.title = TextOf(memos[m].title),
                                   !.content = TextOf(memos[m].content),
                                   !.tags = memos[m].tags]
    <3>1. m \in MemoId /\ memos[m] # Null /\ memos[m] \in Memo
      BY <1>a, <2>2 DEF EditorOK, IInv, TypeOK, StoreTypeOK
    <3>2. /\ TextOf(memos[m].title) \in Text /\ TextOf(memos[m].content) \in Text
          /\ memos[m].tags \in Seq(Tag)
      BY <3>1, StoreAssumption DEF Memo
    <3>3. e \in Editor /\ EditorOK(e) /\ e.memoId = editor.memoId /\ e.tags = memos[m].tags
      BY <3>1, <3>2, <1>a DEF Editor, EditorOK, IntentOK, Intent
    <3>4. Continue("edit") /\ SaveAfterCheck(e)
      BY <1>2, <2>2 DEF ModeEdit
    <3> HIDE DEF e
    <3>5. IsInjective(e.tags)
      BY <3>1, <3>3 DEF TagInv, OnceInv
    <3>6. kills = 0 /\ ~SortComes' => InOrder(e.tags)
      BY <1>c, <3>1, <3>3, <3>4, WorkGoesOn DEF TagInv, OrderInv, Unsettled
    <3> QED BY <1>a, <3>3, <3>4, <3>5, <3>6, CheckedTags
  <2> QED BY <2>1, <2>2
<1>3. CASE Subscribe
  BY <1>3, <1>a, <1>k DEF Subscribe
<1>4. CASE TitleChanged
  <2> DEFINE e == [editor EXCEPT !.title = Head(work).val]
  <2>1. Head(work).val \in Text
    BY <1>4, <1>b DEF TitleChanged, Continue, Op
  <2>2. e \in Editor /\ EditorOK(e) /\ e.memoId = editor.memoId /\ e.tags = editor.tags
    BY <2>1, <1>a, EditedEditor DEF Editor
  <2>3. Continue("title") /\ SaveAfterCheck(e)
    BY <1>4 DEF TitleChanged
  <2> HIDE DEF e
  <2> QED BY <2>2, <2>3, <1>k
<1>5. CASE ContentChanged
  <2> DEFINE e == [editor EXCEPT !.content = Head(work).val]
  <2>1. Head(work).val \in Text
    BY <1>5, <1>b DEF ContentChanged, Continue, Op
  <2>2. e \in Editor /\ EditorOK(e) /\ e.memoId = editor.memoId /\ e.tags = editor.tags
    BY <2>1, <1>a, EditedEditor DEF Editor
  <2>3. Continue("content") /\ SaveAfterCheck(e)
    BY <1>5 DEF ContentChanged
  <2> HIDE DEF e
  <2> QED BY <2>2, <2>3, <1>k
<1>6. CASE AddTag
  <2> DEFINE tag == Head(work).val
  <2>1. tag \in Tag \cup {Blank}
    BY <1>6, <1>b DEF AddTag, Continue, Op
  <2>2. CASE tag = Blank \/ Contains(editor.tags, tag)
    BY <1>6, <2>2, SkippedTags DEF AddTag
  <2>3. CASE ~(tag = Blank \/ Contains(editor.tags, tag))
    <3>1. Continue("add") /\ SaveAfterCheck([editor EXCEPT !.tags = Append(editor.tags, tag)])
      BY <1>6, <2>3 DEF AddTag
    <3>2. Append(editor.tags, tag) \in Seq(Tag) /\ IsInjective(Append(editor.tags, tag))
      BY <2>1, <2>3, <1>a, <1>c, TagsKept
    <3>3. SortComes'
      BY <3>1, WorkGoesOn DEF TagInv, OrderInv
    <3> QED BY <3>1, <3>2, <3>3, <1>s
  <2> QED BY <2>2, <2>3
<1>7. CASE SortTags
  <2> DEFINE sorted(p) == [i \in DOMAIN editor.tags |-> editor.tags[p[i]]]
  <2>1. PICK p \in Bijection(DOMAIN editor.tags, DOMAIN editor.tags) :
          /\ \A i, j \in DOMAIN sorted(p) : i < j => sorted(p)[i] <= sorted(p)[j]
          /\ SaveAfterCheck([editor EXCEPT !.tags = sorted(p)])
    BY <1>7 DEF SortTags
  <2>2. p \in [DOMAIN editor.tags -> DOMAIN editor.tags]
    BY DEF Bijection, Injection
  <2>3. sorted(p) \in Seq(Tag)
    <3>1. Len(editor.tags) \in Nat /\ DOMAIN editor.tags = 1..Len(editor.tags)
      BY <1>a
    <3>2. \A i \in 1..Len(editor.tags) : editor.tags[p[i]] \in Tag
      BY <2>2, <1>a
    <3> QED BY <3>1, <3>2
  <2>4. IsInjective(sorted(p)) /\ InOrder(sorted(p))
    BY <1>a, <1>c, <2>1, TagsKept
  <2>5. Continue("sort")
    BY <1>7 DEF SortTags
  <2> QED BY <2>1, <2>3, <2>4, <2>5, <1>s
<1>8. CASE RemoveTag
  <2>1. editor.tags # <<>>
    BY <1>8, <1>0 DEF RemoveTag, Continue, IInv, UiInv, WorkOK
  <2>2. /\ Tail(editor.tags) \in Seq(Tag) /\ IsInjective(Tail(editor.tags))
        /\ InOrder(editor.tags) => InOrder(Tail(editor.tags))
    BY <2>1, <1>a, <1>c, TagsKept
  <2> QED BY <1>8, <1>d, <2>2, <1>s DEF RemoveTag
<1> QED BY <1>1, <1>2, <1>3, <1>4, <1>5, <1>6, <1>7, <1>8

\* At rest nothing is out of order but what a death has left so.
LEMMA RestingTags ==
  ASSUME TagInv, AtRest
  PROVE  /\ \A m \in MemoId : memos[m] # Null => IsInjective(memos[m].tags)
         /\ kills = 0 => /\ \A m \in MemoId : memos[m] # Null => InOrder(memos[m].tags)
                         /\ editor # Null => InOrder(editor.tags)
<1>1. ~SortComes /\ save.tags = Null
  BY DEF AtRest, NoSave, SortComes
<1> QED BY <1>1 DEF TagInv, OnceInv, OrderInv, Unsettled, EditorInOrder

\* The user's events, and launches: the editors are rearranged and work begins.
LEMMA DispatchedTags ==
  ASSUME IInv, TagInv, AtRest, UNCHANGED <<store, save, kills>>,
         editor' # Null => \/ editor'.tags = <<>>
                           \/ editor # Null /\ editor'.tags = editor.tags
                           \/ \E i \in DOMAIN below : editor'.tags = below[i].tags,
         \A i \in DOMAIN below' : \/ editor # Null /\ below'[i].tags = editor.tags
                                  \/ \E j \in DOMAIN below : below'[i].tags = below[j].tags,
         AddsSorted'
  PROVE  TagInv'
<1>1. save.tags = Null /\ UNCHANGED <<groups, memos>> /\ save'.tags = Null /\ kills' = kills
  BY DEF AtRest, NoSave, store
<1>2. IsInjective(<<>>) /\ InOrder(<<>>)
  BY DEF IsInjective, InOrder
<1>3. OnceInv'
  BY <1>1, <1>2 DEF TagInv, OnceInv
<1>4. OrderInv'
  BY <1>1, <1>2, RestingTags DEF TagInv, OrderInv, EditorInOrder
<1> QED BY <1>3, <1>4 DEF TagInv

LEMMA UserTags ==
  ASSUME IInv, TagInv, User \/ Launch
  PROVE  TagInv'
<1>0. /\ AtRest /\ work = <<>> /\ UNCHANGED <<store, save, kills>>
      /\ starting \in Seq(Intent) /\ below \in Seq(Editor) /\ editor \in Editor \cup {Null}
  BY DEF User, Launch, TapAddMemo, TapMemo, Start, TypeTitle, TypeContent, ClickAddTag, ClickTag,
         Event, Finish, Recreate, AtRest, IInv, TypeOK
<1>1. \A i \in Intent : /\ NewEditor(i).tags = <<>> /\ OnCreate(i) \in Seq(Op)
                        /\ \A k \in DOMAIN OnCreate(i) : OnCreate(i)[k].op # "add"
  <2> SUFFICES ASSUME NEW i \in Intent
               PROVE  /\ OnCreate(i) \in Seq(Op)
                      /\ \A k \in DOMAIN OnCreate(i) : OnCreate(i)[k].op # "add"
    BY DEF NewEditor
  <2>1. /\ Do("set") \in Op /\ Do("edit") \in Op /\ Do("subscribe") \in Op
        /\ Do("set").op = "set" /\ Do("edit").op = "edit" /\ Do("subscribe").op = "subscribe"
    BY DEF Do, Op
  <2>2. CASE OnCreate(i) = <<Do("set"), Do("edit"), Do("subscribe")>>
    BY <2>1, <2>2
  <2>3. CASE OnCreate(i) = <<Do("edit"), Do("subscribe")>>
    BY <2>1, <2>3
  <2> QED BY <2>2, <2>3 DEF OnCreate
<1>2. CASE TapAddMemo \/ TapMemo
  <2>1. UNCHANGED <<editor, below, work>>
    BY <1>2 DEF TapAddMemo, TapMemo, Start
  <2>2. AddsSorted'
    BY <1>0, <2>1 DEF AddsSorted
  <2> QED BY <1>0, <2>1, <2>2, DispatchedTags
<1>3. CASE TypeTitle \/ TypeContent \/ ClickTag
  <2>1. UNCHANGED <<editor, below>> /\ Len(work') = 1 /\ DOMAIN work' = {1} /\ work'[1].op # "add"
    <3>1. CASE TypeTitle
      BY <3>1 DEF TypeTitle, Event
    <3>2. CASE TypeContent
      BY <3>2 DEF TypeContent, Event
    <3>3. CASE ClickTag
      BY <3>3 DEF ClickTag, Event, Do
    <3> QED BY <1>3, <3>1, <3>2, <3>3
  <2>2. AddsSorted'
    BY <2>1 DEF AddsSorted
  <2> QED BY <1>0, <2>1, <2>2, DispatchedTags
<1>4. CASE ClickAddTag
  <2> DEFINE adds(pieces) == [i \in DOMAIN pieces |-> [op |-> "add", val |-> pieces[i]]]
  <2>1. PICK pieces \in Inputs : Event(Append(adds(pieces), Do("sort")))
    BY <1>4 DEF ClickAddTag
  <2>2. pieces \in Seq(Tag \cup {Blank})
    BY BoundsAssumption
  <2>3. \A i \in 1..Len(pieces) : [op |-> "add", val |-> pieces[i]] \in Op
    BY <2>2 DEF Op
  <2>4. adds(pieces) \in Seq(Op)
    BY <2>2, <2>3
  <2>5. Do("sort") \in Op /\ Do("sort").op = "sort"
    BY DEF Do, Op
  <2>6. UNCHANGED <<editor, below>> /\ work' = Append(adds(pieces), Do("sort"))
    BY <2>1 DEF Event
  <2> HIDE DEF adds
  <2>7. AddsSorted'
    <3> DEFINE n == Len(adds(pieces)) + 1
    <3>1. /\ n \in DOMAIN work' /\ work'[n] = Do("sort") /\ n \in Nat
          /\ \A i \in DOMAIN work' : i \in Nat /\ i <= n
      BY <2>4, <2>5, <2>6
    <3> HIDE DEF n
    <3> SUFFICES ASSUME NEW i \in DOMAIN work', work'[i].op = "add"
                 PROVE  \E j \in DOMAIN work' : i < j /\ work'[j].op = "sort"
      BY DEF AddsSorted
    <3>2. i # n
      BY <2>5, <3>1
    <3>3. i < n /\ work'[n].op = "sort"
      BY <2>5, <3>1, <3>2
    <3> QED BY <3>1, <3>3
  <2> QED BY <1>0, <2>6, <2>7, DispatchedTags
<1>5. CASE Finish
  <2>1. /\ editor' = IF below = <<>> THEN Null ELSE Last(below)
        /\ below' = IF below = <<>> THEN below ELSE Front(below)
        /\ UNCHANGED work
    BY <1>5 DEF Finish
  <2>2. AddsSorted'
    BY <1>0, <2>1 DEF AddsSorted
  <2>3. CASE below = <<>>
    BY <1>0, <2>1, <2>2, <2>3, DispatchedTags
  <2>4. CASE below # <<>>
    <3>1. /\ editor' = below[Len(below)] /\ below' = SubSeq(below, 1, Len(below) - 1)
      BY <2>1, <2>4 DEF Last, Front
    <3>2. /\ Len(below) \in DOMAIN below
          /\ \A i \in DOMAIN below' : i \in DOMAIN below /\ below'[i] = below[i]
      BY <1>0, <2>4, <3>1
    <3> QED BY <1>0, <2>2, <3>1, <3>2, DispatchedTags
  <2> QED BY <2>3, <2>4
<1>6. CASE Recreate
  <2> DEFINE i == editor.intent
             t == [op |-> "title", val |-> editor.title]
             c == [op |-> "content", val |-> editor.content]
  <2>1. /\ editor # Null /\ i \in Intent /\ editor' = NewEditor(i)
        /\ work' = Append(Append(OnCreate(i), t), c) /\ UNCHANGED below
        /\ t.op # "add" /\ c.op # "add"
    BY <1>0, <1>6 DEF Recreate, Editor
  <2>2. OnCreate(i) \in Seq(Op) /\ \A k \in DOMAIN OnCreate(i) : OnCreate(i)[k].op # "add"
    BY <1>1, <2>1
  <2> HIDE DEF i, t, c
  <2>3. \A k \in DOMAIN work' : work'[k].op # "add"
    <3>1. \A k \in DOMAIN work' : \/ k \in DOMAIN OnCreate(i) /\ work'[k] = OnCreate(i)[k]
                                  \/ work'[k] = t \/ work'[k] = c
      BY <2>1, <2>2
    <3> QED BY <2>1, <2>2, <3>1
  <2>4. AddsSorted'
    BY <2>3 DEF AddsSorted
  <2> QED BY <1>0, <1>1, <2>1, <2>4, DispatchedTags
<1>7. CASE Launch
  <2> DEFINE i == Head(starting)
  <2>1. /\ i \in Intent /\ editor' = NewEditor(i) /\ work' = OnCreate(i)
        /\ below' = IF editor = Null THEN below ELSE Append(below, editor)
    BY <1>0, <1>7 DEF Launch
  <2> HIDE DEF i
  <2>2. AddsSorted'
    BY <1>1, <2>1 DEF AddsSorted
  <2>3. \A k \in DOMAIN below' :
          \/ k \in DOMAIN below /\ below'[k] = below[k]
          \/ editor # Null /\ below'[k] = editor
    <3>1. CASE editor = Null
      BY <2>1, <3>1
    <3>2. CASE editor # Null
      BY <2>1, <1>0, <3>2
    <3> QED BY <3>1, <3>2
  <2> QED BY <1>0, <1>1, <2>1, <2>2, <2>3, DispatchedTags
<1> QED BY <1>2, <1>3, <1>4, <1>5, <1>6, <1>7 DEF User

LEMMA TransactionTags ==
  ASSUME IInv, TagInv, CreateStep \/ WriteStep \/ RowStep \/ LinkStep
  PROVE  TagInv'
<1>0. /\ save \in Saving /\ save # NoSave /\ UNCHANGED <<below, work, kills>>
      /\ memos \in [MemoId -> Memo \cup {Null}] /\ groups \in [GroupId -> Group \cup {Null}]
  <2>1. save.step \in {"create", "write", "row", "link"} /\ UNCHANGED <<below, work, kills>>
    BY DEF CreateStep, WriteStep, RowStep, LinkStep
  <2>2. save # NoSave
    BY <2>1 DEF NoSave
  <2> QED BY <2>1, <2>2 DEF IInv, TypeOK, StoreTypeOK
<1>1. editor \in Editor /\ editor # Null /\ EditorOK(editor) /\ SaveOK
  BY <1>0, RunningEditor DEF IInv, UiInv
<1>2. (SortComes' <=> SortComes) /\ (AddsSorted' <=> AddsSorted)
  BY <1>0 DEF SortComes, AddsSorted
<1>3. CASE CreateStep
  <2>1. PICK m \in MemoId : /\ CreateMemo(m, editor.intent.parent)
                            /\ editor' = [editor EXCEPT !.memo = m, !.memoId = m]
    BY <1>3 DEF CreateStep
  <2>2. /\ memos[m] = Null /\ memos'[m].tags = <<>> /\ UNCHANGED groups
        /\ \A k \in MemoId \ {m} : memos'[k] = memos[k]
    BY <2>1, <1>0 DEF CreateMemo
  <2>3. editor'.tags = editor.tags /\ editor.memoId = Null /\ save'.tags = save.tags
        /\ save'.step = "write"
    BY <1>0, <1>1, <1>3, <2>1 DEF CreateStep, Editor, SaveOK, Saving
  <2>4. IsInjective(<<>>) /\ InOrder(<<>>)
    BY DEF IsInjective, InOrder
  <2>5. OnceInv'
    BY <1>0, <1>1, <2>2, <2>3, <2>4 DEF TagInv, OnceInv
  <2>6. \A k \in MemoId : memos[k] # Null => ~Unsettled(k)
    BY <2>3, StoreAssumption DEF Unsettled
  <2>7. OrderInv'
    BY <1>0, <1>1, <1>2, <2>2, <2>3, <2>4, <2>6 DEF TagInv, OrderInv, EditorInOrder
  <2> QED BY <2>5, <2>7 DEF TagInv
<1>4. CASE WriteStep
  <2> DEFINE m == editor.memo
  <2>1. /\ UNCHANGED <<editor, groups>> /\ m = editor.memoId /\ m \in MemoId
        /\ save'.tags = Null /\ memos[m] # Null
    BY <1>1, <1>4 DEF WriteStep, WriteMemo, NoSave, SaveOK, EditorOK, Editor
  <2>2. /\ memos'[m].tags = Given(save.tags, memos[m].tags)
        /\ \A k \in MemoId \ {m} : memos'[k] = memos[k]
    BY <1>0, <1>4, <2>1 DEF WriteStep, WriteMemo
  <2>3. OnceInv'
    <3>1. IsInjective(memos'[m].tags)
      BY <2>1, <2>2 DEF Given, TagInv, OnceInv
    <3> QED BY <1>0, <2>1, <2>2, <3>1 DEF TagInv, OnceInv
  <2>4. ASSUME kills = 0, ~SortComes PROVE InOrder(memos'[m].tags)
    <3>1. CASE save.tags = Null
      <4>1. ~Unsettled(m)
        BY <2>4, <3>1 DEF Unsettled
      <4> QED BY <2>1, <2>2, <2>4, <3>1, <4>1 DEF Given, TagInv, OrderInv
    <3>2. CASE save.tags # Null
      BY <1>1, <2>2, <2>4, <3>2 DEF Given, TagInv, OrderInv, EditorInOrder
    <3> QED BY <3>1, <3>2
  <2>5. ASSUME kills' = 0, NEW k \in MemoId, memos'[k] # Null
        PROVE  InOrder(memos'[k].tags) \/ Unsettled(k)'
    <3>1. CASE k = m
      BY <1>0, <1>1, <1>2, <2>1, <2>4, <2>5, <3>1 DEF Unsettled
    <3>2. CASE k # m
      BY <1>0, <2>1, <2>2, <2>5, <3>2 DEF TagInv, OrderInv, Unsettled
    <3> QED BY <3>1, <3>2
  <2>6. OrderInv'
    BY <1>0, <1>2, <2>1, <2>5 DEF TagInv, OrderInv, EditorInOrder
  <2> QED BY <2>3, <2>6 DEF TagInv
<1>5. CASE RowStep \/ LinkStep
  <2>1. editor' = editor \/ \E r \in RowId : editor' = [editor EXCEPT !.groupMemo = r]
    BY <1>5 DEF RowStep, LinkStep, RowsOf
  <2>2. editor' \in Editor /\ editor'.tags = editor.tags /\ editor'.memoId = editor.memoId
    BY <1>1, <2>1 DEF Editor
  <2>3. memos' = memos /\ \A g \in GroupId : /\ groups'[g] = Null <=> groups[g] = Null
                                             /\ groups[g] # Null => groups'[g].tags = groups[g].tags
    <3>1. CASE RowStep
      BY <3>1 DEF RowStep, CreateRow, store
    <3>2. CASE LinkStep
      <4> DEFINE h == rows[editor.groupMemo].parent
      <4>1. groups' = groups \/ groups' = [groups EXCEPT ![h].groupMemos = Append(@, editor.groupMemo)]
        BY <3>2 DEF LinkStep, LinkRow
      <4>2. groups[h] # Null /\ memos' = memos
        BY <3>2 DEF LinkStep, LinkRow
      <4> HIDE DEF h
      <4>3. CASE groups' = groups
        BY <4>2, <4>3
      <4>4. CASE groups' = [groups EXCEPT ![h].groupMemos = Append(@, editor.groupMemo)]
        <5> SUFFICES ASSUME NEW g \in GroupId
                     PROVE  /\ groups'[g] = Null <=> groups[g] = Null
                            /\ groups[g] # Null => groups'[g].tags = groups[g].tags
          BY <4>2
        <5>1. CASE g # h
          BY <1>0, <4>4, <5>1
        <5>2. CASE g = h
          <6>1. groups[g] \in Group
            BY <1>0, <4>2, <5>2
          <6> DEFINE new == [groups[g] EXCEPT !.groupMemos = Append(@, editor.groupMemo)]
          <6>2. groups'[g] = new /\ new.tags = groups[g].tags
            BY <1>0, <4>4, <5>2, <6>1 DEF Group
          <6>3. groups'[g] # Null
            <7>1. editor.groupMemo \in RowId
              BY <1>1, <3>2 DEF LinkStep, SaveOK, Editor
            <7>2. Append(groups[g].groupMemos, editor.groupMemo) \in Seq(RowId)
              BY <6>1, <7>1 DEF Group
            <7>3. new \in Group
              BY <6>1, <7>2 DEF Group
            <7> QED BY <6>2, <7>3, StoreAssumption
          <6> QED BY <4>2, <5>2, <6>2, <6>3
        <5> QED BY <5>1, <5>2
      <4> QED BY <4>1, <4>2, <4>3, <4>4
    <3> QED BY <1>5, <3>1, <3>2
  <2>4. save.tags = Null /\ save'.tags = Null
    BY <1>0, <1>5 DEF RowStep, LinkStep, NoSave, Saving, TagInv, OnceInv
  <2>5. OnceInv'
    BY <1>0, <1>1, <2>2, <2>3, <2>4, EditorAssumption DEF TagInv, OnceInv
  <2>6. OrderInv'
    BY <1>0, <1>1, <1>2, <2>2, <2>3, <2>4, EditorAssumption
       DEF TagInv, OrderInv, EditorInOrder, Unsettled
  <2> QED BY <2>5, <2>6 DEF TagInv
<1> QED BY <1>3, <1>4, <1>5

LEMMA TagNext == IInv /\ TagInv /\ [Next]_vars => TagInv'
<1> SUFFICES ASSUME IInv, TagInv, [Next]_vars PROVE TagInv'
  OBVIOUS
<1>1. CASE User \/ Launch
  BY <1>1, UserTags
<1>2. CASE \/ SetGroupTags \/ ModeEdit \/ Subscribe \/ TitleChanged \/ ContentChanged
           \/ AddTag \/ SortTags \/ RemoveTag
  BY <1>2, CallbackTags
<1>3. CASE CreateStep \/ WriteStep \/ RowStep \/ LinkStep
  BY <1>3, TransactionTags
<1>4. CASE Kill
  <2>1. /\ editor' = Null /\ below' = <<>> /\ work' = <<>> /\ save' = NoSave
        /\ kills' = kills + 1 /\ UNCHANGED <<groups, memos>>
    BY <1>4 DEF Kill, store
  <2>2. kills' # 0 /\ save'.tags = Null
    BY <2>1 DEF NoSave, IInv, TypeOK
  <2> QED BY <2>1, <2>2 DEF TagInv, OnceInv, OrderInv, AddsSorted
<1>5. CASE UNCHANGED vars
  BY <1>5 DEF vars, ui, store, TagInv, OnceInv, OrderInv, AddsSorted, SortComes, Unsettled,
     EditorInOrder
<1> QED BY <1>1, <1>2, <1>3, <1>4, <1>5 DEF Next, UiThread

LEMMA TagInit == ASSUME GroupsSorted, Init PROVE TagInv
<1>1. \A g \in GroupId : groups[g] # Null => IsInjective(groups[g].tags) /\ InOrder(groups[g].tags)
  BY InitialAssumption DEF Init, GroupsSorted, InOrder
<1>2. save.tags = Null /\ work = <<>> /\ editor = Null /\ below = <<>>
      /\ \A m \in MemoId : memos[m] = Null
  BY DEF Init, NoSave
<1> QED BY <1>1, <1>2 DEF TagInv, OnceInv, OrderInv, AddsSorted, Unsettled, EditorInOrder

\* No memo is ever stored with a tag twice, not even between the pieces of one addTag;
\* and with the given groups in order and no death, each memo's tags are in order
\* whenever the UI thread is idle, also those of memos that other editors of the stack show.
THEOREM TagsSorted == ASSUME GroupsSorted PROVE Spec => []TagsInOrder
<1>1. Init => IInv /\ TagInv
  BY InitInv, TagInit
<1>2. IInv /\ TagInv /\ [Next]_vars => (IInv /\ TagInv)'
  BY NextInv, TagNext
<1>3. IInv /\ TagInv => TagsInOrder
  <2> SUFFICES ASSUME TagInv, NEW m \in MemosStored
               PROVE  /\ IsInjective(memos[m].tags)
                      /\ AtRest /\ kills = 0 => InOrder(memos[m].tags)
    BY DEF TagsInOrder, InOrder
  <2>1. m \in MemoId /\ memos[m] # Null
    BY DEF MemosStored
  <2> QED BY <2>1, RestingTags DEF TagInv, OnceInv
<1> QED BY <1>1, <1>2, <1>3, PTL DEF Spec

(***************************************************************************)
(* The memo editor among other activities on the same file: what it does   *)
(* to the file, what it bears the others doing, and what it holds on to.   *)
(***************************************************************************)

\* What this editor does to the file.
MemoDeed ==
  /\ \A r \in RowId :
       \/ rows'[r] = rows[r]
       \/ /\ rows[r] = Null /\ rows'[r] # Null /\ rows'[r].type = "memo"
          /\ rows'[r].typeId \in MemoId /\ rows'[r].ref \in MemoId
  /\ \A g \in GroupId :
       /\ groups[g] # Null =>
            /\ groups'[g] # Null /\ groups'[g].parent = groups[g].parent
            /\ groups'[g].title = groups[g].title /\ groups'[g].tags = groups[g].tags
            /\ \/ groups'[g].groupMemos = groups[g].groupMemos
               \/ \E r \in RowId : /\ rows[r] # Null /\ rows[r].parent = g /\ rows[r].typeId # Null
                                   /\ ~Contains(groups[g].groupMemos, r)
                                   /\ groups'[g].groupMemos = Append(groups[g].groupMemos, r)
       /\ groups[g] = Null => groups'[g] = Null

LEMMA RowStepDeed == ASSUME IInv, RowStep PROVE MemoDeed
<1>1. CASE UNCHANGED store
  BY <1>1 DEF MemoDeed, store
<1>2. CASE \E r \in RowId : CreateRow(r, "memo", editor.intent.parent, editor.memoId)
  <2>1. PICK r \in RowId : CreateRow(r, "memo", editor.intent.parent, editor.memoId)
    BY <1>2
  <2>2. editor \in Editor /\ editor.intent \in Intent /\ editor.memoId \in MemoId
    <3>1. save # NoSave /\ editor.memo # Null
      BY DEF RowStep, NoSave, IInv, UiInv, SaveOK
    <3> QED BY <3>1, RunningEditor DEF EditorOK
  <2> DEFINE row == [type |-> "memo", parent |-> editor.intent.parent,
                     typeId |-> editor.memoId, ref |-> editor.memoId]
  <2>3. /\ rows[r] = Null /\ rows' = [rows EXCEPT ![r] = row] /\ UNCHANGED groups
        /\ rows \in [RowId -> GroupMemo \cup {Null}]
    BY <2>1 DEF CreateRow, IInv, TypeOK, StoreTypeOK
  <2>4. row.type = "memo" /\ row.typeId = editor.memoId /\ row.ref = editor.memoId /\ row # Null
    <3>1. row \in GroupMemo
      BY <2>2 DEF GroupMemo, Intent
    <3> QED BY <3>1, StoreAssumption
  <2> HIDE DEF row
  <2>5. rows'[r] = row /\ \A q \in RowId \ {r} : rows'[q] = rows[q]
    BY <2>3
  <2> QED BY <2>2, <2>3, <2>4, <2>5 DEF MemoDeed
<1> QED BY <1>1, <1>2 DEF RowStep

LEMMA LinkStepDeed == ASSUME IInv, LinkStep PROVE MemoDeed
<1>1. /\ editor \in Editor /\ EditorOK(editor) /\ editor.groupMemo # Null
      /\ editor.memoId \in MemoId \cup {Null}
  <2>1. save # NoSave /\ editor.groupMemo # Null
    BY DEF LinkStep, NoSave, IInv, UiInv, SaveOK
  <2> QED BY <2>1, RunningEditor
<1>2. PICK r \in RowId : r = editor.groupMemo
  BY <1>1 DEF Editor
<1>3. rows[r] # Null /\ rows[r] \in GroupMemo /\ rows[r].typeId # Null
  BY <1>1, <1>2 DEF EditorOK, IInv, TypeOK, StoreTypeOK
<1>4. PICK h \in GroupId : h = rows[r].parent
  BY <1>3 DEF GroupMemo
<1> DEFINE list == groups[h].groupMemos
           new == [groups[h] EXCEPT !.groupMemos = Append(list, r)]
<1>5. /\ groups[h] # Null /\ UNCHANGED rows
      /\ groups \in [GroupId -> Group \cup {Null}]
      /\ groups' = IF Contains(list, r) THEN groups ELSE [groups EXCEPT ![h] = new]
  BY <1>2, <1>4 DEF LinkStep, LinkRow, IInv, TypeOK, StoreTypeOK
<1>6. CASE Contains(list, r)
  BY <1>5, <1>6 DEF MemoDeed
<1>7. CASE ~Contains(list, r)
  <2>1. groups[h] \in Group /\ list \in Seq(RowId)
    BY <1>5 DEF Group
  <2>2. Append(list, r) \in Seq(RowId)
    BY <2>1
  <2>3. /\ new \in Group /\ new.groupMemos = Append(list, r) /\ new.parent = groups[h].parent
        /\ new.title = groups[h].title /\ new.tags = groups[h].tags
    <3> HIDE DEF list
    <3> QED BY <2>1, <2>2 DEF Group
  <2>4. groups' = [groups EXCEPT ![h] = new]
    BY <1>5, <1>7
  <2> HIDE DEF new
  <2>5. groups'[h] = new /\ new # Null /\ \A g \in GroupId \ {h} : groups'[g] = groups[g]
    BY <1>5, <2>3, <2>4, StoreAssumption
  <2> HIDE DEF list
  <2>6. /\ groups'[h] # Null /\ groups'[h].parent = groups[h].parent
        /\ groups'[h].title = groups[h].title /\ groups'[h].tags = groups[h].tags
        /\ rows[r] # Null /\ rows[r].parent = h /\ rows[r].typeId # Null
        /\ ~Contains(groups[h].groupMemos, r)
        /\ groups'[h].groupMemos = Append(groups[h].groupMemos, r)
    BY <1>3, <1>4, <1>7, <2>3, <2>5 DEF list
  <2> QED BY <1>5, <2>5, <2>6 DEF MemoDeed
<1> QED BY <1>6, <1>7

\* Each step does to the file what other activities may expect of this editor.
LEMMA NextDeed == ASSUME IInv, [Next]_vars PROVE MemoDeed
<1>1. CASE UNCHANGED <<groups, rows>>
  BY <1>1 DEF MemoDeed
<1>2. UNCHANGED <<groups, rows>> \/ RowStep \/ LinkStep
  BY StoreSteps DEF store, CreateStep, CreateMemo, WriteStep, WriteMemo
<1> QED BY <1>1, <1>2, RowStepDeed, LinkStepDeed

\* Until the last transaction of a save the lists stay as they are.
QuietDeed ==
  /\ \A r \in RowId :
       \/ rows'[r] = rows[r]
       \/ rows[r] = Null /\ rows'[r] # Null /\ rows'[r].typeId # Null
  /\ \A m \in MemoId :
       memos[m] # Null => memos'[m] # Null /\ memos'[m].parent = memos[m].parent
  /\ \A g \in GroupId :
       /\ groups[g] # Null =>
            /\ groups'[g] # Null /\ groups'[g].parent = groups[g].parent
            /\ groups'[g].groupMemos = groups[g].groupMemos
       /\ groups[g] = Null => groups'[g] = Null \/ groups'[g].groupMemos = <<>>

\* The last one appends one row to one of them.
LinkDeed(g, r) ==
  /\ UNCHANGED <<memos, rows>>
  /\ groups[g] # Null /\ rows[r] # Null /\ rows[r].parent = g /\ rows[r].typeId # Null
  /\ ~Contains(groups[g].groupMemos, r)
  /\ groups' = [groups EXCEPT ![g].groupMemos = Append(@, r)]

LEMMA QuietSteps ==
  ASSUME IInv, UNCHANGED store \/ CreateStep \/ WriteStep \/ RowStep PROVE QuietDeed
<1>1. /\ memos \in [MemoId -> Memo \cup {Null}] /\ Null \notin MemoId
  BY StoreAssumption DEF IInv, TypeOK, StoreTypeOK
<1>2. \A m \in MemoId : memos[m] # Null => memos'[m] # Null /\ memos'[m].parent = memos[m].parent
  <2>1. CASE CreateStep
    <3>1. PICK m \in MemoId : CreateMemo(m, editor.intent.parent)
      BY <2>1 DEF CreateStep
    <3>2. memos[m] = Null /\ \A n \in MemoId \ {m} : memos'[n] = memos[n]
      BY <1>1, <3>1 DEF CreateMemo
    <3> QED BY <3>2
  <2>2. CASE WriteStep
    <3> DEFINE m == editor.memo
               new == [parent |-> memos[m].parent,
                       title |-> Given(save.title, memos[m].title),
                       content |-> Given(save.content, memos[m].content),
                       tags |-> Given(save.tags, memos[m].tags)]
    <3>1. memos' = [memos EXCEPT ![m] = new] /\ memos[m] # Null /\ m \in MemoId
      <4>1. editor \in Editor /\ editor.memo # Null /\ memos[editor.memo] # Null
        <5>1. save # NoSave
          BY <2>2 DEF WriteStep, NoSave
        <5> QED BY <2>2, <5>1, RunningEditor DEF WriteStep, IInv, UiInv, SaveOK
      <4> QED BY <2>2, <4>1 DEF WriteStep, WriteMemo, Editor
    <3>2. new.parent = memos[m].parent
      OBVIOUS
    <3>3. memos'[m] # Null
      <4>1. Written(editor.memo)' /\ UNCHANGED editor
        BY <2>2, WriteStepInv DEF IInv, UiInv, SaveOK, WriteStep, NoSave
      <4> QED BY <4>1 DEF Written
    <3> HIDE DEF new
    <3>4. memos'[m] = new /\ \A n \in MemoId \ {m} : memos'[n] = memos[n]
      BY <1>1, <3>1
    <3> QED BY <3>2, <3>3, <3>4
  <2>3. CASE UNCHANGED memos
    BY <2>3
  <2> QED BY <2>1, <2>2, <2>3 DEF RowStep, CreateRow, store
<1>3. UNCHANGED groups
  BY DEF RowStep, CreateRow, CreateStep, CreateMemo, WriteStep, WriteMemo, store
<1>4. \A r \in RowId :
        \/ rows'[r] = rows[r]
        \/ rows[r] = Null /\ rows'[r] # Null /\ rows'[r].typeId # Null
  <2>1. CASE RowStep
    BY <1>1, <2>1, RowStepDeed DEF MemoDeed
  <2>2. CASE ~RowStep
    BY <2>2 DEF CreateStep, CreateMemo, WriteStep, WriteMemo, store
  <2> QED BY <2>1, <2>2
<1> QED BY <1>2, <1>3, <1>4 DEF QuietDeed

LEMMA LinkOrQuiet ==
  ASSUME IInv, LinkStep PROVE QuietDeed \/ \E g \in GroupId, r \in RowId : LinkDeed(g, r)
<1>1. /\ editor \in Editor /\ EditorOK(editor) /\ editor.groupMemo # Null
      /\ editor.memoId \in MemoId \cup {Null}
  <2>1. save # NoSave /\ editor.groupMemo # Null
    BY DEF LinkStep, NoSave, IInv, UiInv, SaveOK
  <2> QED BY <2>1, RunningEditor
<1>2. PICK r \in RowId : r = editor.groupMemo
  BY <1>1 DEF Editor
<1>3. rows[r] # Null /\ rows[r] \in GroupMemo /\ rows[r].typeId # Null
  BY <1>1, <1>2 DEF EditorOK, IInv, TypeOK, StoreTypeOK
<1>4. PICK g \in GroupId : g = rows[r].parent
  BY <1>3 DEF GroupMemo
<1>5. /\ groups[g] # Null /\ UNCHANGED <<memos, rows, hashTags>>
      /\ groups' = IF Contains(groups[g].groupMemos, r) THEN groups
                   ELSE [groups EXCEPT ![g].groupMemos = Append(@, r)]
  BY <1>2, <1>4 DEF LinkStep, LinkRow
<1>6. CASE Contains(groups[g].groupMemos, r)
  BY <1>5, <1>6, QuietSteps DEF store
<1>7. CASE ~Contains(groups[g].groupMemos, r)
  BY <1>3, <1>4, <1>5, <1>7 DEF LinkDeed
<1> QED BY <1>6, <1>7

\* So each step leaves the lists alone or gives one of them one row.
LEMMA NextLinks ==
  ASSUME IInv, [Next]_vars PROVE QuietDeed \/ \E g \in GroupId, r \in RowId : LinkDeed(g, r)
<1>1. UNCHANGED store \/ CreateStep \/ WriteStep \/ RowStep \/ LinkStep
  BY StoreSteps
<1> QED BY <1>1, QuietSteps, LinkOrQuiet

\* A callback keeps the editor it belongs to; it opens and closes none.
LEMMA CallbackEditor ==
  ASSUME IInv,
         \/ SetGroupTags \/ ModeEdit \/ Subscribe \/ TitleChanged \/ ContentChanged
         \/ AddTag \/ SortTags \/ RemoveTag
         \/ CreateStep \/ WriteStep \/ RowStep \/ LinkStep
  PROVE  /\ editor # Null /\ editor' # Null /\ editor'.intent = editor.intent
         /\ UNCHANGED <<below, starting, kills, creates>>
<1>1. /\ UNCHANGED <<below, starting, kills, creates>> /\ (work # <<>> \/ save # NoSave)
  <2>1. CASE \/ SetGroupTags \/ ModeEdit \/ Subscribe \/ TitleChanged \/ ContentChanged
             \/ AddTag \/ SortTags \/ RemoveTag
    BY <2>1 DEF SetGroupTags, ModeEdit, Subscribe, TitleChanged, ContentChanged, AddTag,
                SortTags, RemoveTag, Continue
  <2>2. CASE CreateStep \/ WriteStep \/ RowStep \/ LinkStep
    <3>1. save.step # "none" /\ UNCHANGED <<below, starting, kills, creates>>
      BY <2>2 DEF CreateStep, WriteStep, RowStep, LinkStep
    <3> QED BY <3>1 DEF NoSave
  <2> QED BY <2>1, <2>2
<1>2. editor \in Editor /\ editor # Null
  BY <1>1, RunningEditor
<1>3. editor' \in Editor /\ editor' # Null
  BY CallbackInv, CreateStepInv, WriteStepInv, RowStepInv, LinkStepInv, EditorAssumption
<1>5. editor'.intent = editor.intent
  <2>1. ASSUME NEW e, {"memo", "memoId", "intent"} \subseteq DOMAIN e, e.intent = editor.intent,
               SaveAfterCheck(e)
        PROVE  editor'.intent = editor.intent
    <3>1. editor' = e \/ editor' = [e EXCEPT !.memo = e.memoId]
      BY <2>1 DEF SaveAfterCheck, Save
    <3> QED BY <2>1, <3>1
  <2>2. {"memo", "memoId", "intent"} \subseteq DOMAIN editor
    BY <1>2 DEF Editor
  <2>3. \/ SaveAfterCheck(editor) \/ editor' = editor
        \/ \E t : SaveAfterCheck([editor EXCEPT !.title = t])
        \/ \E t : SaveAfterCheck([editor EXCEPT !.content = t])
        \/ \E t : SaveAfterCheck([editor EXCEPT !.tags = t])
        \/ \E t, c, s : SaveAfterCheck([editor EXCEPT !.memo = editor.memoId,
                                       !.title = t, !.content = c, !.tags = s])
        \/ \E m : editor' = [editor EXCEPT !.memo = m, !.memoId = m]
        \/ \E r : editor' = [editor EXCEPT !.groupMemo = r]
    BY DEF SetGroupTags, ModeEdit, Subscribe, TitleChanged, ContentChanged, AddTag, SortTags,
           RemoveTag, CreateStep, WriteStep, RowStep, LinkStep
  <2>4. CASE SaveAfterCheck(editor) \/ editor' = editor
    BY <2>1, <2>2, <2>4
  <2>5. CASE \E t : SaveAfterCheck([editor EXCEPT !.title = t])
    <3>1. PICK t : SaveAfterCheck([editor EXCEPT !.title = t])
      BY <2>5
    <3>2. /\ {"memo", "memoId", "intent"} \subseteq DOMAIN [editor EXCEPT !.title = t]
          /\ [editor EXCEPT !.title = t].intent = editor.intent
      BY <2>2
    <3> QED BY <2>1, <3>1, <3>2
  <2>6. CASE \E t : SaveAfterCheck([editor EXCEPT !.content = t])
    <3>1. PICK t : SaveAfterCheck([editor EXCEPT !.content = t])
      BY <2>6
    <3>2. /\ {"memo", "memoId", "intent"} \subseteq DOMAIN [editor EXCEPT !.content = t]
          /\ [editor EXCEPT !.content = t].intent = editor.intent
      BY <2>2
    <3> QED BY <2>1, <3>1, <3>2
  <2>7. CASE \E t : SaveAfterCheck([editor EXCEPT !.tags = t])
    <3>1. PICK t : SaveAfterCheck([editor EXCEPT !.tags = t])
      BY <2>7
    <3>2. /\ {"memo", "memoId", "intent"} \subseteq DOMAIN [editor EXCEPT !.tags = t]
          /\ [editor EXCEPT !.tags = t].intent = editor.intent
      BY <2>2
    <3> QED BY <2>1, <3>1, <3>2
  <2>8. CASE \E t, c, s : SaveAfterCheck([editor EXCEPT !.memo = editor.memoId,
                                         !.title = t, !.content = c, !.tags = s])
    <3>1. PICK t, c, s : SaveAfterCheck([editor EXCEPT !.memo = editor.memoId,
                                        !.title = t, !.content = c, !.tags = s])
      BY <2>8
    <3> DEFINE e == [editor EXCEPT !.memo = editor.memoId, !.title = t, !.content = c, !.tags = s]
    <3>2. {"memo", "memoId", "intent"} \subseteq DOMAIN e /\ e.intent = editor.intent
      BY <2>2
    <3> QED BY <2>1, <3>1, <3>2
  <2>9. CASE \/ \E m : editor' = [editor EXCEPT !.memo = m, !.memoId = m]
             \/ \E r : editor' = [editor EXCEPT !.groupMemo = r]
    BY <2>9, <1>2 DEF Editor
  <2> QED BY <2>3, <2>4, <2>5, <2>6, <2>7, <2>8, <2>9
<1> QED BY <1>1, <1>2, <1>3, <1>5

\* While no save is in progress, a death strands no memo.
LEMMA IdleKill ==
  ASSUME LinkedInv, LinkedInv', [Next]_vars, save = NoSave
  PROVE  Stranded' \subseteq Stranded
<1> SUFFICES ASSUME NEW m \in Stranded' PROVE m \in Stranded
  OBVIOUS
<1>1. m \in MemoId /\ memos'[m] # Null /\ ~Listed(m)' /\ ~BeingSaved(m)'
  BY DEF Stranded, MemosStored
<1>2. memos[m] # Null
  BY <1>1, MadeWhileSaved
<1>3. ~Listed(m)
  BY <1>1, ListedStays DEF LinkedInv
<1> QED BY <1>1, <1>2, <1>3 DEF Stranded, MemosStored, BeingSaved, NoSave

(***************************************************************************)
(* The groups that Intents, editors and memos name: all of them come from  *)
(* the taps.                                                               *)
(***************************************************************************)
Named(S) ==
  /\ \A i \in DOMAIN starting : starting[i].parent \in S
  /\ \A i \in DOMAIN below : below[i].intent.parent \in S
  /\ editor # Null => editor.intent.parent \in S
  /\ \A m \in MemoId : memos[m] # Null => memos[m].parent \in S

LEMMA StartNames ==
  ASSUME IInv, NEW S, Named(S), NEW i, Start(i), Last(starting').parent \in S
  PROVE  Named(S)'
<1>1. starting \in Seq(Intent) /\ starting' = Append(starting, i)
      /\ UNCHANGED <<editor, below, memos>>
  BY DEF Start, IInv, TypeOK, store
<1>2. \A k \in DOMAIN starting' : starting'[k].parent \in S
  <2>1. /\ DOMAIN starting = 1..Len(starting) /\ Len(starting) \in Nat
        /\ DOMAIN starting' = 1..(Len(starting) + 1) /\ Len(starting') = Len(starting) + 1
        /\ \A k \in 1..Len(starting) : starting'[k] = starting[k]
    BY <1>1
  <2>2. starting'[Len(starting) + 1].parent \in S
    BY <2>1 DEF Last
  <2> QED BY <2>1, <2>2 DEF Named
<1> QED BY <1>1, <1>2 DEF Named

LEMMA UserNames ==
  ASSUME IInv, User \/ Launch, NEW S, Named(S),
         TapAddMemo \/ TapMemo => Last(starting').parent \in S
  PROVE  Named(S)'
<1>1. CASE TapAddMemo \/ TapMemo
  <2>1. \E i : Start(i)
    BY <1>1 DEF TapAddMemo, TapMemo
  <2> QED BY <1>1, <2>1, StartNames
<1>2. /\ starting \in Seq(Intent) /\ below \in Seq(Editor) /\ editor \in Editor \cup {Null}
  BY DEF IInv, TypeOK
<1>3. CASE TypeTitle \/ TypeContent \/ ClickAddTag \/ ClickTag
  BY <1>3 DEF TypeTitle, TypeContent, ClickAddTag, ClickTag, Event, Named, store
<1>4. CASE Recreate
  <2>1. /\ editor # Null /\ UNCHANGED <<below, starting, memos>>
        /\ editor' = NewEditor(editor.intent)
    BY <1>4 DEF Recreate, store
  <2>2. editor'.intent = editor.intent
    BY <2>1 DEF NewEditor
  <2> QED BY <2>1, <2>2 DEF Named
<1>5. CASE Finish
  <2>1. /\ editor' = IF below = <<>> THEN Null ELSE Last(below)
        /\ below' = IF below = <<>> THEN below ELSE Front(below)
        /\ UNCHANGED <<starting, memos>>
    BY <1>5 DEF Finish, store
  <2>2. CASE below = <<>>
    BY <2>1, <2>2 DEF Named
  <2>3. CASE below # <<>>
    <3>1. /\ below' = Front(below) /\ editor' = Last(below) /\ Len(below) \in Nat \ {0}
          /\ DOMAIN below = 1..Len(below)
      BY <1>2, <2>1, <2>3
    <3>2. /\ DOMAIN below' \subseteq DOMAIN below
          /\ \A k \in DOMAIN below' : below'[k] = below[k]
          /\ Last(below) = below[Len(below)] /\ Len(below) \in DOMAIN below
      BY <3>1 DEF Front, Last
    <3> QED BY <2>1, <3>1, <3>2 DEF Named
  <2> QED BY <2>2, <2>3
<1>6. CASE Launch
  <2>1. /\ starting # <<>> /\ editor' = NewEditor(Head(starting)) /\ starting' = Tail(starting)
        /\ below' = IF editor = Null THEN below ELSE Append(below, editor)
        /\ UNCHANGED memos
    BY <1>6 DEF Launch, store
  <2>2. /\ Len(starting) \in Nat \ {0} /\ DOMAIN starting = 1..Len(starting)
        /\ DOMAIN starting' = 1..(Len(starting) - 1)
        /\ \A k \in DOMAIN starting' : starting'[k] = starting[k + 1]
        /\ Head(starting) = starting[1]
    BY <1>2, <2>1
  <2>3. editor'.intent = starting[1]
    BY <2>1, <2>2 DEF NewEditor
  <2>4. \A k \in DOMAIN starting' : starting'[k].parent \in S
    BY <2>2 DEF Named
  <2>5. editor'.intent.parent \in S
    BY <2>2, <2>3 DEF Named
  <2>6. \A k \in DOMAIN below' : below'[k].intent.parent \in S
    <3>1. CASE editor = Null
      BY <2>1, <3>1 DEF Named
    <3>2. CASE editor # Null
      <4>1. /\ DOMAIN below' = 1..(Len(below) + 1) /\ DOMAIN below = 1..Len(below)
            /\ Len(below) \in Nat /\ below'[Len(below) + 1] = editor
            /\ \A k \in 1..Len(below) : below'[k] = below[k]
        BY <1>2, <2>1, <3>2
      <4> QED BY <3>2, <4>1 DEF Named
    <3> QED BY <3>1, <3>2
  <2> QED BY <2>1, <2>4, <2>5, <2>6 DEF Named
<1> QED BY <1>1, <1>3, <1>4, <1>5, <1>6 DEF User

\* Only a tap brings in a group that nothing named before.
LEMMA NextNames ==
  ASSUME IInv, [Next]_vars, NEW S, Named(S),
         TapAddMemo \/ TapMemo => Last(starting').parent \in S
  PROVE  Named(S)'
<1>1. CASE User \/ Launch
  BY <1>1, UserNames
<1>2. CASE \/ SetGroupTags \/ ModeEdit \/ Subscribe \/ TitleChanged \/ ContentChanged
           \/ AddTag \/ SortTags \/ RemoveTag
           \/ CreateStep \/ WriteStep \/ RowStep \/ LinkStep
  <2>1. /\ editor # Null /\ editor' # Null /\ editor'.intent = editor.intent
        /\ UNCHANGED <<below, starting>>
    BY <1>2, CallbackEditor
  <2>2. \A m \in MemoId : memos'[m] # Null => memos'[m].parent \in S
    <3>1. memos \in [MemoId -> Memo \cup {Null}]
      BY DEF IInv, TypeOK, StoreTypeOK
    <3>2. CASE CreateStep
      <4>1. PICK m \in MemoId : CreateMemo(m, editor.intent.parent)
        BY <3>2 DEF CreateStep
      <4>2. memos'[m].parent = editor.intent.parent /\ \A n \in MemoId \ {m} : memos'[n] = memos[n]
        BY <3>1, <4>1 DEF CreateMemo
      <4> QED BY <2>1, <4>2 DEF Named
    <3>3. CASE WriteStep
      <4> DEFINE m == editor.memo
                 new == [parent |-> memos[m].parent,
                         title |-> Given(save.title, memos[m].title),
                         content |-> Given(save.content, memos[m].content),
                         tags |-> Given(save.tags, memos[m].tags)]
      <4>1. memos' = [memos EXCEPT ![m] = new] /\ memos[m] # Null
        BY <3>3 DEF WriteStep, WriteMemo, IInv, UiInv, SaveOK
      <4>2. new.parent = memos[m].parent
        OBVIOUS
      <4> HIDE DEF new
      <4>3. \A n \in MemoId : memos'[n] = memos[n] \/ (n = m /\ memos'[n] = new)
        BY <3>1, <4>1
      <4> QED BY <4>1, <4>2, <4>3 DEF Named
    <3>4. CASE UNCHANGED memos
      BY <3>4 DEF Named
    <3>5. CreateStep \/ WriteStep \/ UNCHANGED memos
      BY StoreSteps DEF RowStep, LinkStep, CreateRow, LinkRow, store
    <3> QED BY <3>2, <3>3, <3>4, <3>5
  <2> QED BY <2>1, <2>2 DEF Named
<1>3. CASE Kill
  BY <1>3 DEF Kill, Named, store
<1>4. CASE UNCHANGED vars
  BY <1>4 DEF vars, ui, store, Named
<1> QED BY <1>1, <1>2, <1>3, <1>4 DEF Next, UiThread

(***************************************************************************)
(* Steps of others: of group editors, which make groups and link their     *)
(* rows to the lists, and of the browser, which makes the root group.      *)
(***************************************************************************)

Waiting == UNCHANGED <<memos, ui, creates, kills>>

OthersDeed ==
  /\ Waiting /\ StoreTypeOK'
  /\ \A r \in RowId :
       \/ rows'[r] = rows[r]
       \/ /\ rows[r] = Null /\ rows'[r] # Null /\ rows'[r].type = "group"
          /\ rows'[r].typeId \notin MemoId /\ rows'[r].ref \in GroupId
  /\ \A g \in GroupId :
       /\ groups[g] # Null =>
            /\ groups'[g] # Null
            /\ \/ groups'[g].groupMemos = groups[g].groupMemos
               \/ \E r \in RowId : /\ rows[r] # Null /\ rows[r].parent = g
                                   /\ ~Contains(groups[g].groupMemos, r)
                                   /\ groups'[g].groupMemos = Append(groups[g].groupMemos, r)
       /\ groups[g] = Null => groups'[g] = Null \/ groups'[g].groupMemos = <<>>

LEMMA OthersStore == ASSUME IInv, OthersDeed PROVE StoreInv' /\ Grows
<1>1. /\ \A r \in RowId : rows[r] # Null => rows'[r] = rows[r]
      /\ UNCHANGED memos
  BY DEF OthersDeed, Waiting
<1>2. Grows
  BY <1>1 DEF OthersDeed, Grows, Written
<1>3. ASSUME NEW r \in RowId PROVE RowOK(r)'
  <2>1. CASE rows'[r] = rows[r]
    BY <1>1, <2>1 DEF IInv, StoreInv, RowOK, Written
  <2>2. CASE rows'[r] # rows[r]
    BY <2>2 DEF OthersDeed, RowOK
  <2> QED BY <2>1, <2>2
<1>4. OneRow'
  BY DEF OthersDeed, IInv, StoreInv, OneRow
<1>5. ASSUME NEW g \in GroupId PROVE ListOK(g)'
  <2> SUFFICES ASSUME groups'[g] # Null PROVE ListOK(g)'
    BY DEF ListOK
  <2> DEFINE list == groups[g].groupMemos
             more == groups'[g].groupMemos
  <2>1. CASE groups[g] = Null
    <3>1. more = <<>>
      BY <2>1 DEF OthersDeed
    <3> QED BY <3>1 DEF ListOK, IsInjective
  <2>2. CASE groups[g] # Null
    <3>1. /\ list \in Seq(RowId) /\ IsInjective(list)
          /\ \A i \in DOMAIN list : rows[list[i]] # Null /\ rows[list[i]].parent = g
      BY <2>2 DEF IInv, TypeOK, StoreTypeOK, Group, StoreInv, ListOK
    <3>2. \/ more = list
          \/ \E r \in RowId : /\ rows[r] # Null /\ rows[r].parent = g
                              /\ ~Contains(list, r) /\ more = Append(list, r)
      BY <2>2 DEF OthersDeed
    <3> HIDE DEF list, more
    <3>3. IsInjective(more) /\ \A i \in DOMAIN more :
            more[i] \in RowId /\ rows[more[i]] # Null /\ rows[more[i]].parent = g
      <4>1. CASE more = list
        BY <3>1, <4>1
      <4>2. CASE more # list
        <5>1. PICK r \in RowId : /\ rows[r] # Null /\ rows[r].parent = g
                                 /\ ~Contains(list, r) /\ more = Append(list, r)
          BY <3>2, <4>2
        <5>2. /\ IsInjective(more)
              /\ \A i \in DOMAIN more : (i \in DOMAIN list /\ more[i] = list[i]) \/ more[i] = r
          BY <3>1, <5>1, AppendOK
        <5>3. \A i \in DOMAIN list : list[i] \in RowId
          BY <3>1
        <5> QED BY <3>1, <5>1, <5>2, <5>3
      <4> QED BY <4>1, <4>2
    <3>4. IsInjective(more) /\ \A i \in DOMAIN more :
            rows'[more[i]] # Null /\ rows'[more[i]].parent = g
      BY <1>1, <3>3
    <3> QED BY <3>4 DEF ListOK, more
  <2> QED BY <2>1, <2>2
<1> QED BY <1>2, <1>3, <1>4, <1>5 DEF StoreInv

LEMMA OthersInv == ASSUME IInv, OthersDeed PROVE IInv'
<1>1. StoreInv' /\ Grows /\ Waiting /\ StoreTypeOK'
  BY OthersStore DEF OthersDeed
<1>2. /\ \A i \in Intent : IntentOK(i) => IntentOK(i)'
      /\ \A e \in Editor : EditorOK(e) => EditorOK(e)'
  BY <1>1, GrowsKeeps
<1>3. UNCHANGED <<memos, editor, below, starting, work, save, shared, creates, kills>>
  BY <1>1 DEF Waiting, ui
<1>4. TypeOK'
  BY <1>1, <1>3 DEF IInv, TypeOK
<1>5. SaveOK' /\ WorkOK'
  BY <1>3 DEF IInv, UiInv, SaveOK, WorkOK, Written
<1>6. /\ \A i \in DOMAIN below : \E e \in Editor : e = below[i] /\ EditorOK(e)'
      /\ \A i \in DOMAIN starting : \E e \in Intent : e = starting[i] /\ IntentOK(e)'
      /\ editor # Null => \E e \in Editor : e = editor /\ EditorOK(e)'
  <2>1. below \in Seq(Editor) /\ starting \in Seq(Intent) /\ editor \in Editor \cup {Null}
    BY DEF IInv, TypeOK
  <2> QED BY <1>2, <2>1 DEF IInv, UiInv
<1>7. UiInv'
  BY <1>3, <1>5, <1>6 DEF UiInv, EditorOK, IntentOK
<1> QED BY <1>1, <1>4, <1>7 DEF IInv

LEMMA OthersLinked ==
  ASSUME LinkedInv, OthersDeed
  PROVE  /\ LinkedInv' /\ Stranded' \subseteq Stranded
         /\ \A S : Named(S) => Named(S)'
<1>1. IInv' /\ Waiting
  BY OthersInv DEF LinkedInv, OthersDeed
<1>2. UNCHANGED <<memos, editor, below, starting, work, save, shared, creates, kills>>
  BY <1>1 DEF Waiting, ui
<1>3. ASSUME NEW r \in RowId, Linked(r)
      PROVE  Linked(r)' /\ rows'[r] = rows[r] /\ rows[r] # Null
  <2>1. /\ rows[r] # Null /\ rows[r].parent \in GroupId /\ groups[rows[r].parent] # Null
    BY <1>3 DEF Linked, LinkedInv, IInv, TypeOK, StoreTypeOK, GroupMemo
  <2>2. PICK g \in GroupId : g = rows[r].parent
    BY <2>1
  <2>3. rows'[r] = rows[r] /\ groups'[g] # Null
    BY <2>1, <2>2 DEF OthersDeed
  <2> DEFINE list == groups[g].groupMemos
             more == groups'[g].groupMemos
  <2>4. more = list \/ \E q \in RowId : more = Append(list, q)
    BY <2>1, <2>2 DEF OthersDeed
  <2>5. list \in Seq(RowId) /\ r \in ToSet(list)
    BY <1>3, <2>1, <2>2 DEF LinkedInv, IInv, TypeOK, StoreTypeOK, Group, Linked
  <2> HIDE DEF list, more
  <2>6. r \in ToSet(more)
    <3>1. CASE more = list
      BY <2>5, <3>1
    <3>2. CASE \E q \in RowId : more = Append(list, q)
      <4>1. PICK q \in RowId : more = Append(list, q)
        BY <3>2
      <4>2. PICK i \in DOMAIN list : list[i] = r
        BY <2>5 DEF ToSet
      <4>3. i \in DOMAIN more /\ more[i] = r
        BY <2>5, <4>1, <4>2
      <4> QED BY <4>3 DEF ToSet
    <3> QED BY <2>4, <3>1, <3>2
  <2> QED BY <2>1, <2>2, <2>3, <2>6 DEF Linked, more
<1>4. \A m : Listed(m) => Listed(m)'
  BY <1>3 DEF Listed, RowsOf
<1>5. \A m \in MemoId : RowsOf(m)' = RowsOf(m)
  BY StoreAssumption DEF RowsOf, OthersDeed
<1>6. /\ \A i : IntentLinked(i) => IntentLinked(i)'
      /\ \A e : EditorLinked(e) => EditorLinked(e)'
  BY <1>4 DEF IntentLinked, EditorLinked
<1>7. save.step \in {"write", "row"} => editor.memoId \in MemoId
  <2>1. save.step \in {"write", "row"} => save # NoSave /\ editor.memo # Null
    BY DEF NoSave, LinkedInv, IInv, UiInv, SaveOK
  <2> QED BY <2>1, RunningEditor DEF LinkedInv, EditorOK
<1>8. LinkInv'
  <2>1. (\A i \in DOMAIN starting : IntentLinked(starting[i]))'
    <3>1. \A i \in DOMAIN starting : \E x : x = starting[i] /\ IntentLinked(x)'
      BY <1>6 DEF LinkedInv, LinkInv
    <3> QED BY <1>2, <3>1 DEF IntentLinked, Listed, Linked, RowsOf
  <2>2. (\A i \in DOMAIN below : EditorLinked(below[i]))'
    <3>1. \A i \in DOMAIN below : \E x : x = below[i] /\ EditorLinked(x)'
      BY <1>6 DEF LinkedInv, LinkInv
    <3> QED BY <1>2, <3>1 DEF EditorLinked, IntentLinked, Listed, Linked, RowsOf
  <2>3. (editor # Null => IntentLinked(editor.intent))'
    <3>1. PICK x : x = editor.intent
      OBVIOUS
    <3>2. editor # Null => IntentLinked(x)'
      BY <1>6, <3>1 DEF LinkedInv, LinkInv
    <3> QED BY <1>2, <3>1, <3>2 DEF IntentLinked, Listed, Linked, RowsOf
  <2>4. (editor # Null /\ save.step = "none" => EditorLinked(editor))'
    <3>1. PICK x : x = editor
      OBVIOUS
    <3>2. editor # Null /\ save.step = "none" => EditorLinked(x)'
      BY <1>6, <3>1 DEF LinkedInv, LinkInv
    <3> QED BY <1>2, <3>1, <3>2 DEF EditorLinked, IntentLinked, Listed, Linked, RowsOf
  <2>5. (save.step \in {"write", "row"} => Listed(editor.memoId) \/ RowsOf(editor.memoId) = {})'
    <3>1. PICK x : x = editor.memoId
      OBVIOUS
    <3>2. save.step \in {"write", "row"} => Listed(x)' \/ RowsOf(x)' = {}
      BY <1>4, <1>5, <1>7, <3>1 DEF LinkedInv, LinkInv
    <3> QED BY <1>2, <3>1, <3>2 DEF Listed, Linked, RowsOf
  <2> QED BY <2>1, <2>2, <2>3, <2>4, <2>5 DEF LinkInv
<1>9. Stranded' \subseteq Stranded
  BY <1>2, <1>4 DEF Stranded, MemosStored, BeingSaved
<1>10. \A S : Named(S) => Named(S)'
  BY <1>2 DEF Named
<1> QED BY <1>1, <1>8, <1>9, <1>10 DEF LinkedInv

\* Launches that were queued may be lost.
LEMMA DroppedLaunches ==
  ASSUME LinkedInv, UNCHANGED <<store, editor, below, work, save, shared, creates, kills>>,
         starting' = <<>>
  PROVE  /\ LinkedInv' /\ Stranded' = Stranded
         /\ \A S : Named(S) => Named(S)'
<1>1. TypeOK' /\ StoreInv'
  BY StoreUnchanged DEF LinkedInv, IInv, TypeOK
<1>2. SaveOK' /\ WorkOK'
  BY DEF LinkedInv, IInv, UiInv, SaveOK, WorkOK, Written, store
<1>3. UiInv'
  BY <1>2, StoreUnchanged DEF LinkedInv, IInv, UiInv, EditorOK, IntentOK, store
<1>4. LinkInv'
  BY SameLinks DEF LinkedInv, LinkInv, IntentLinked, EditorLinked, store
<1>5. Stranded' = Stranded
  BY SameLinks DEF Stranded, MemosStored, BeingSaved, store
<1>6. \A S : Named(S) => Named(S)'
  BY DEF Named, store
<1> QED BY <1>1, <1>3, <1>4, <1>5, <1>6 DEF LinkedInv, IInv

\* While nothing names a group, the editors do nothing to the file.
LEMMA NothingYet ==
  ASSUME IInv, Named({}), [Next]_vars
  PROVE  UNCHANGED store
<1>1. editor = Null /\ save = NoSave
  <2>1. editor = Null
    BY DEF Named
  <2> QED BY <2>1 DEF IInv, TypeOK
<1> QED BY <1>1, StoreSteps DEF CreateStep, WriteStep, RowStep, LinkStep, NoSave
=============================================================================
