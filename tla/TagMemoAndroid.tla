--------------------------- MODULE TagMemoAndroid ---------------------------
(***************************************************************************)
(* The Android app: the browser, the memo editors and the group editors on *)
(* one Realm file, in one process with one UI thread.                      *)
(*                                                                         *)
(* Each part is an instance of its own module.  This one adds what connects *)
(* them: the task (which activity lies on which), the launches that        *)
(* startActivity has queued, the group whose list is on the screen when a  *)
(* launch is asked for, and the looper, which begins nothing while a       *)
(* callback of any activity is still running.                              *)
(***************************************************************************)
EXTENDS TagStore

CONSTANTS
  Root, RootRow,        \* the group "/" and its GroupMemo
  Inputs,               \* what the user types in a tag field, split at blanks
  Blank,                \* the piece between two blanks next to each other
  MaxDepth,             \* bound: length of fragmentList
  MaxPending,           \* bound: fragment commits posted at once
  MaxTaps,              \* bound: launches queued at once
  MaxMemos, MaxGroups,  \* bound: onCreate calls in MODE_CREATE
  MaxKills              \* bound: process deaths

ASSUME AndroidAssumption ==
  /\ Root \in GroupId /\ RootRow \in RowId
  /\ Inputs \subseteq Seq(Tag \cup {Blank}) /\ Blank \notin Tag
  /\ MaxDepth \in Nat \ {0} /\ MaxPending \in Nat \ {0} /\ MaxTaps \in Nat
  /\ MaxMemos \in Nat /\ MaxGroups \in Nat /\ MaxKills \in Nat

VARIABLES
  running, onCreate, fragmentList, pending, shown, homeAsUp, failure, raced,
  memoEditor, memoBelow, memoStarting, work, memoSave, shared, memoCreates,
  groupEditor, groupBelow, groupStarting, restore, groupSave, groupCreates,
  kills,
  task,    \* the editors above the browser, bottom first: "memo" or "group"
  queue    \* the kinds of the launches queued, in the order of the calls

browser == <<running, onCreate, fragmentList, pending, shown, homeAsUp, failure, raced>>
memoUi == <<memoEditor, memoBelow, memoStarting, work, memoSave, shared, memoCreates>>
groupUi == <<groupEditor, groupBelow, groupStarting, restore, groupSave, groupCreates>>
vars == <<store, browser, memoUi, groupUi, kills, task, queue>>

Browsing == INSTANCE GroupActivity

MemoEditors == INSTANCE MemoManage WITH
  editor <- memoEditor, below <- memoBelow, starting <- memoStarting,
  save <- memoSave, creates <- memoCreates, MaxCreates <- MaxMemos,
  InitialGroups <- [g \in GroupId |-> Null], InitialRows <- [r \in RowId |-> Null]

GroupEditors == INSTANCE GroupManage WITH
  editor <- groupEditor, below <- groupBelow, starting <- groupStarting,
  save <- groupSave, creates <- groupCreates, MaxCreates <- MaxGroups

ASSUME EditorsAssumption == Null \notin MemoEditors!Editor \cup GroupEditors!Editor

Init ==
  /\ Browsing!Init
  /\ memoEditor = Null /\ memoBelow = <<>> /\ memoStarting = <<>>
  /\ work = <<>> /\ memoSave = MemoEditors!NoSave /\ shared = {} /\ memoCreates = 0
  /\ groupEditor = Null /\ groupBelow = <<>> /\ groupStarting = <<>>
  /\ restore = Null /\ groupSave = GroupEditors!NoSave /\ groupCreates = 0
  /\ kills = 0 /\ task = <<>> /\ queue = <<>>

\* No callback is running: the looper takes the next event.
Looper == onCreate = <<>> /\ MemoEditors!AtRest /\ GroupEditors!AtRest

InFront(kind) == IF task = <<>> THEN kind = "browser" ELSE Last(task) = kind

(***************************************************************************)
(* The browser.                                                            *)
(***************************************************************************)
\* The launcher starts the browser when nothing is left of the task.
StartApp ==
  /\ InFront("browser") /\ queue = <<>>
  /\ Browsing!Start
  /\ UNCHANGED <<memoUi, groupUi, kills, task, queue>>

BrowserOnCreate ==
  /\ Browsing!InitFragmentSettings \/ Browsing!InitRootGroup
  /\ UNCHANGED <<memoUi, groupUi, kills, task, queue>>

\* The FragmentManager gets its turn whatever is in front.
ExecutePending ==
  /\ Looper
  /\ Browsing!ExecutePending
  /\ UNCHANGED <<memoUi, groupUi, kills, task, queue>>

Navigate ==
  /\ Looper /\ InFront("browser")
  /\ Browsing!ClickGroup \/ Browsing!BackPressed
  /\ UNCHANGED <<memoUi, groupUi, kills, task, queue>>

\* Mutant: the Intent carries the id of any stored group, not of the fragment's.
TapMemoElsewhere ==
  /\ Looper /\ InFront("browser") /\ shown # Null /\ Len(queue) < MaxTaps
  /\ MemoEditors!TapAddMemo \/ MemoEditors!TapMemo
  /\ queue' = Append(queue, "memo")
  /\ UNCHANGED <<browser, groupUi, task>>

\* The fragment on the screen asks for an editor, on its group or on a memo in
\* its list.  Until the launch arrives the browser goes on taking clicks.
TapMemo ==
  /\ Looper /\ InFront("browser") /\ shown # Null /\ Len(queue) < MaxTaps
  /\ MemoEditors!TapAddMemo \/ MemoEditors!TapMemo
  /\ Last(memoStarting').parent = shown
  /\ queue' = Append(queue, "memo")
  /\ UNCHANGED <<browser, groupUi, task>>

TapAddGroup ==
  /\ Looper /\ InFront("browser") /\ shown # Null /\ Len(queue) < MaxTaps
  /\ GroupEditors!TapAddGroup
  /\ Last(groupStarting') = shown
  /\ queue' = Append(queue, "group")
  /\ UNCHANGED <<browser, memoUi, task>>

(***************************************************************************)
(* The editors.                                                            *)
(***************************************************************************)
\* Mutant: an editor of the same kind in front is taken for the new one.
LaunchSingleTop ==
  /\ Looper /\ queue # <<>>
  /\ \/ Head(queue) = "memo" /\ MemoEditors!Launch /\ UNCHANGED groupUi
     \/ Head(queue) = "group" /\ GroupEditors!Launch /\ UNCHANGED memoUi
  /\ queue' = Tail(queue)
  /\ task' = IF InFront(Head(queue)) THEN task ELSE Append(task, Head(queue))
  /\ UNCHANGED browser

\* The next launch: the new editor covers whatever is in front.
Launch ==
  /\ Looper /\ queue # <<>>
  /\ \/ Head(queue) = "memo" /\ MemoEditors!Launch /\ UNCHANGED groupUi
     \/ Head(queue) = "group" /\ GroupEditors!Launch /\ UNCHANGED memoUi
  /\ queue' = Tail(queue)
  /\ task' = Append(task, Head(queue))
  /\ UNCHANGED browser

\* What the user does in the editor in front, and its recreation.
EditMemo ==
  /\ Looper /\ InFront("memo")
  /\ \/ MemoEditors!TypeTitle \/ MemoEditors!TypeContent
     \/ MemoEditors!ClickAddTag \/ MemoEditors!ClickTag \/ MemoEditors!Recreate
  /\ UNCHANGED <<browser, groupUi, task, queue>>

EditGroup ==
  /\ Looper /\ InFront("group")
  /\ \/ GroupEditors!TypeTitle \/ GroupEditors!ClickAddTag \/ GroupEditors!ClickTag
     \/ GroupEditors!Recreate
  /\ UNCHANGED <<browser, memoUi, task, queue>>

Finish ==
  /\ Looper
  /\ \/ InFront("memo") /\ MemoEditors!Finish /\ UNCHANGED groupUi
     \/ InFront("group") /\ GroupEditors!Finish /\ UNCHANGED memoUi
  /\ task' = Front(task)
  /\ UNCHANGED <<browser, queue>>

\* Mutant: the rest of a callback waits until the looper has no launch to do.
MemoCallbackLast ==
  /\ queue = <<>>
  /\ \/ MemoEditors!SetGroupTags \/ MemoEditors!ModeEdit \/ MemoEditors!Subscribe
     \/ MemoEditors!TitleChanged \/ MemoEditors!ContentChanged
     \/ MemoEditors!AddTag \/ MemoEditors!SortTags \/ MemoEditors!RemoveTag
     \/ MemoEditors!CreateStep \/ MemoEditors!WriteStep \/ MemoEditors!RowStep \/ MemoEditors!LinkStep
  /\ UNCHANGED <<browser, groupUi, task, queue>>

\* The rest of a callback of the editor in front, with its transactions.
MemoCallback ==
  /\ \/ MemoEditors!SetGroupTags \/ MemoEditors!ModeEdit \/ MemoEditors!Subscribe
     \/ MemoEditors!TitleChanged \/ MemoEditors!ContentChanged
     \/ MemoEditors!AddTag \/ MemoEditors!SortTags \/ MemoEditors!RemoveTag
     \/ MemoEditors!CreateStep \/ MemoEditors!WriteStep \/ MemoEditors!RowStep \/ MemoEditors!LinkStep
  /\ UNCHANGED <<browser, groupUi, task, queue>>

GroupCallback ==
  /\ \/ GroupEditors!RestoreTitle
     \/ GroupEditors!CreateStep \/ GroupEditors!WriteStep \/ GroupEditors!RowStep \/ GroupEditors!LinkStep
  /\ UNCHANGED <<browser, memoUi, task, queue>>

(***************************************************************************)
(* The end of the process.                                                 *)
(***************************************************************************)
\* Building the browser again throws (no empty constructor), with the launches
\* that were queued.  Editors above it would only delay it.
Crash ==
  /\ Looper /\ InFront("browser")
  /\ Browsing!Recreate
  /\ memoStarting' = <<>> /\ groupStarting' = <<>> /\ queue' = <<>>
  /\ UNCHANGED <<memoEditor, memoBelow, work, memoSave, shared, memoCreates,
                 groupEditor, groupBelow, restore, groupSave, groupCreates, kills, task>>

\* The system kills the process, between any two transactions.
Kill ==
  /\ MemoEditors!Kill /\ GroupEditors!Kill
  /\ IF running THEN Browsing!Kill ELSE UNCHANGED browser
  /\ task' = <<>> /\ queue' = <<>>

UiThread == BrowserOnCreate \/ ExecutePending \/ Launch \/ MemoCallback \/ GroupCallback

Next == \/ StartApp \/ Navigate \/ TapMemo \/ TapAddGroup \/ EditMemo \/ EditGroup \/ Finish
        \/ UiThread \/ Crash \/ Kill

Spec == Init /\ [][Next]_vars
\* The looper goes on, and its queue is first in, first out: what the user does in
\* one editor after the other does not put off a launch forever.
FairSpec == Spec /\ WF_vars(UiThread) /\ SF_vars(Launch)

(***************************************************************************)
(* Properties                                                              *)
(***************************************************************************)
Open(editor, below) == ToSet(below) \cup ({editor} \ {Null})

OfKind(kind, seq) == Cardinality({i \in DOMAIN seq : seq[i] = kind})

TypeOK ==
  /\ Browsing!TypeOK /\ MemoEditors!TypeOK /\ GroupEditors!TypeOK
  /\ OfKind("memo", queue) = Len(memoStarting)
  /\ OfKind("group", queue) = Len(groupStarting)
  /\ OfKind("memo", task) = Len(memoBelow) + (IF memoEditor = Null THEN 0 ELSE 1)
  /\ OfKind("group", task) = Len(groupBelow) + (IF groupEditor = Null THEN 0 ELSE 1)

\* The groups the user can get to: those in the list of their parent.
InLists == {g \in GroupId : groups[g] # Null /\ (g = Root \/ Listed(g))}

\* Whatever is on the screen, on the path, queued or open refers to groups the
\* user can get to, also after an editor started in one of them was overtaken by
\* clicks, covered by another editor, or cut off by a death; and so does every
\* memo and every group that a list shows.
AllInLists ==
  /\ running /\ onCreate = <<>> =>
       ToSet(fragmentList) \cup ToSet(pending) \cup ({shown} \ {Null}) \subseteq InLists
  /\ {i.parent : i \in ToSet(memoStarting)} \cup ToSet(groupStarting) \subseteq InLists
  /\ \A e \in Open(memoEditor, memoBelow) : e.intent.parent \in InLists
  /\ \A e \in Open(groupEditor, groupBelow) : e.parent \in InLists
  /\ \A m \in MemosStored : memos[m].parent \in InLists
  /\ \A g \in InLists \ {Root} : groups[g].parent \in InLists

\* A death loses at most one object, memo or group: the UI thread has one save in
\* progress, whatever editors are open and whatever launches are queued.
OneLostPerKill ==
  Cardinality(MemoEditors!Stranded) + Cardinality(GroupEditors!Stranded) <= kills

(***************************************************************************)
(* For the browser each editor is one step, AddGroup or AddMemo: it sees   *)
(* the groups and the memos that are in a list, and the rows of the lists. *)
(***************************************************************************)
GroupsSeen ==
  [g \in GroupId |->
     IF g \in InLists
       THEN [parent |-> groups[g].parent, title |-> Empty, tags |-> <<>>,
             groupMemos |-> groups[g].groupMemos]
       ELSE Null]

MemosSeen ==
  [m \in MemoId |->
     IF Listed(m)
       THEN [parent |-> memos[m].parent, title |-> Empty, content |-> Empty, tags |-> <<>>]
       ELSE Null]

RowsSeen ==
  [r \in RowId |->
     IF rows[r] # Null /\ (rows[r].ref = Root \/ Linked(r)) THEN rows[r] ELSE Null]

Seen == INSTANCE GroupActivity WITH
  groups <- GroupsSeen, rows <- RowsSeen, memos <- MemosSeen, hashTags <- {}

\* The whole app implements the browser's specification: no transaction of a save
\* but the last changes what the browser shows, and that one brings one new memo, or
\* one new group with an empty list, into the list of its parent.
ImplementsBrowser == Seen!Spec

\* As long as the process lives, each time the user asks for a new memo or a new
\* group there is in the end one more in the lists, whatever is done, queued or
\* opened meanwhile.
AskedArrives ==
  [](kills = 0 /\ failure = "none") =>
    /\ \A n \in 1..MaxMemos :
         (memoCreates = n) ~> (Cardinality({m \in MemosStored : Listed(m)}) >= n)
    /\ \A n \in 1..MaxGroups :
         (groupCreates = n) ~> (Cardinality(InLists \ {Root}) >= n)
=============================================================================
