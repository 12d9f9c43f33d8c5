--------------------------- MODULE GroupActivity ----------------------------
(***************************************************************************)
(* GroupActivity and its GroupFragments: walking through the groups.       *)
(*                                                                         *)
(* The activity keeps the path in fragmentList and asks the FragmentManager *)
(* to show its last element.  commit() only posts the request, so clicks   *)
(* may be handled by the fragment still on the screen before the next one  *)
(* replaces it.  Groups and memos are made by their editors, here in one   *)
(* step each (GroupManage and MemoManage have the transactions).           *)
(***************************************************************************)
EXTENDS TagStore

CONSTANTS
  Root, RootRow,   \* the group "/" and its GroupMemo
  MaxDepth,        \* bound: length of fragmentList
  MaxPending       \* bound: commits posted at once

ASSUME GroupActivityAssumption ==
  /\ Root \in GroupId /\ RootRow \in RowId
  /\ MaxDepth \in Nat \ {0} /\ MaxPending \in Nat \ {0}

VARIABLES
  running,       \* the activity exists
  onCreate,      \* the part of onCreate that is still to run
  fragmentList,  \* the groups from the root to the one asked for
  pending,       \* commits posted to the FragmentManager
  shown,         \* the group of the fragment on the screen, or Null
  homeAsUp,      \* the toolbar shows the up arrow
  failure,       \* the exception that ended the process last, or "none"
  raced          \* history: a click was handled while a commit was pending

nav == <<fragmentList, pending, shown, homeAsUp>>
vars == <<store, running, onCreate, nav, failure, raced>>

Idle == running /\ onCreate = <<>>

Init ==
  /\ groups = [g \in GroupId |-> Null]
  /\ rows = [r \in RowId |-> Null]
  /\ memos = [m \in MemoId |-> Null]
  /\ hashTags = {}
  /\ running = FALSE /\ onCreate = <<>>
  /\ fragmentList = <<>> /\ pending = <<>> /\ shown = Null /\ homeAsUp = FALSE
  /\ failure = "none" /\ raced = FALSE

(***************************************************************************)
(* onCreate                                                                *)
(***************************************************************************)
Start ==
  /\ ~running
  /\ running' = TRUE
  /\ onCreate' = <<"fragment", "root">>
  /\ failure' = "none" /\ raced' = FALSE
  /\ UNCHANGED <<store, nav>>

\* showContentFragment: replace, addToBackStack, commit.
ShowLast(list) ==
  /\ fragmentList' = list
  /\ pending' = Append(pending, Last(list))

InitFragmentSettings ==
  /\ running /\ onCreate # <<>> /\ Head(onCreate) = "fragment"
  /\ onCreate' = Tail(onCreate)
  /\ ShowLast(<<Root>>)
  /\ UNCHANGED <<store, running, shown, homeAsUp, failure, raced>>

\* The root group is made the first time.  Nobody sets the type or the type_id of
\* its row: type stays 0, which is TYPE_GROUP, and type_id stays null.
InitRootGroup ==
  /\ running /\ onCreate # <<>> /\ Head(onCreate) = "root"
  /\ onCreate' = Tail(onCreate)
  /\ IF \A g \in GroupId : groups[g] = Null
       THEN /\ groups' = [groups EXCEPT ![Root] =
                 [parent |-> Null, title |-> Empty, tags |-> <<>>, groupMemos |-> <<>>]]
            /\ rows' = [rows EXCEPT ![RootRow] =
                 [type |-> "group", parent |-> Root, typeId |-> Null, ref |-> Root]]
       ELSE UNCHANGED <<groups, rows>>
  /\ UNCHANGED <<memos, hashTags, running, nav, failure, raced>>

\* The process ends: nothing of the activity is left.
Gone(why) ==
  /\ running' = FALSE /\ onCreate' = <<>>
  /\ fragmentList' = <<>> /\ pending' = <<>> /\ shown' = Null /\ homeAsUp' = FALSE
  /\ failure' = why

(***************************************************************************)
(* The FragmentManager carries out what has been committed: onCreateView,  *)
(* which fails on a group that does not exist, and onResume, which sets    *)
(* the toolbar.                                                            *)
(***************************************************************************)
\* Mutant: the commits are carried out at once.
ExecuteAtOnce ==
  /\ running /\ pending # <<>>
  /\ IF \E g \in ToSet(pending) : groups[g] = Null
       THEN Gone("no group")
       ELSE /\ shown' = Last(pending)
            /\ homeAsUp' = (groups[Last(pending)].parent # Null)
            /\ pending' = <<>>
            /\ UNCHANGED <<running, onCreate, fragmentList, failure>>
  /\ UNCHANGED <<store, raced>>

\* Mutant: of the commits posted by then only the first is carried out.
ExecuteOldest ==
  /\ Idle /\ pending # <<>>
  /\ shown' = Head(pending)
  /\ homeAsUp' = (groups[Head(pending)].parent # Null)
  /\ pending' = <<>>
  /\ UNCHANGED <<store, running, onCreate, fragmentList, failure, raced>>

ExecutePending ==
  /\ Idle /\ pending # <<>>
  /\ IF \E g \in ToSet(pending) : groups[g] = Null
       THEN Gone("no group")
       ELSE /\ shown' = Last(pending)
            /\ homeAsUp' = (groups[Last(pending)].parent # Null)
            /\ pending' = <<>>
            /\ UNCHANGED <<running, onCreate, fragmentList, failure>>
  /\ UNCHANGED <<store, raced>>

(***************************************************************************)
(* Clicks on what is on the screen.                                        *)
(***************************************************************************)
Click == /\ Idle /\ Len(pending) < MaxPending
         /\ raced' = (raced \/ pending # <<>>)

\* Mutant: the fragment is shown without being added to fragmentList.
ClickGroupNoPush ==
  /\ Click /\ shown # Null
  /\ \E r \in ToSet(groups[shown].groupMemos) :
       /\ rows[r].type = "group"
       /\ pending' = Append(pending, rows[r].ref)
  /\ UNCHANGED <<store, running, onCreate, fragmentList, shown, homeAsUp, failure>>

\* onGroupClicked, onClickGroup
ClickGroup ==
  /\ Click /\ shown # Null
  /\ Len(fragmentList) < MaxDepth
  /\ \E r \in ToSet(groups[shown].groupMemos) :
       /\ rows[r].type = "group"
       /\ ShowLast(Append(fragmentList, rows[r].ref))
  /\ UNCHANGED <<store, running, onCreate, shown, homeAsUp, failure>>

\* Mutant: going back removes the group next to the root.
BackPressedRemovesSecond ==
  /\ Click
  /\ IF Len(fragmentList) > 1
       THEN /\ ShowLast(RemoveAt(fragmentList, 2))
            /\ UNCHANGED <<running, onCreate, shown, homeAsUp, failure>>
       ELSE Gone("none")
  /\ UNCHANGED store

\* onBackPressed, also by the up arrow: popshowContentFragment, or finish.
BackPressed ==
  /\ Click
  /\ IF Len(fragmentList) > 1
       THEN /\ ShowLast(Front(fragmentList))
            /\ UNCHANGED <<running, onCreate, shown, homeAsUp, failure>>
       ELSE Gone("none")
  /\ UNCHANGED store

\* A group editor, started by onClickAddGroup, gets to the link of its new group.
\* By then the browser may show another group, or be gone.
AddGroup ==
  /\ \E parent, g \in GroupId, r \in RowId :
       /\ groups[parent] # Null /\ groups[g] = Null /\ rows[r] = Null
       /\ groups' = [groups EXCEPT ![parent].groupMemos = Append(@, r),
            ![g] = [parent |-> parent, title |-> Empty, tags |-> <<>>, groupMemos |-> <<>>]]
       /\ rows' = [rows EXCEPT ![r] =
            [type |-> "group", parent |-> parent, typeId |-> g, ref |-> g]]
  /\ UNCHANGED <<memos, hashTags, running, onCreate, nav, failure, raced>>

\* A memo editor, started by onClickAddMemo, gets to the link of its new memo.
AddMemo ==
  /\ \E parent \in GroupId, m \in MemoId, r \in RowId :
       /\ groups[parent] # Null /\ memos[m] = Null /\ rows[r] = Null
       /\ groups' = [groups EXCEPT ![parent].groupMemos = Append(@, r)]
       /\ memos' = [memos EXCEPT ![m] =
            [parent |-> parent, title |-> Empty, content |-> Empty, tags |-> <<>>]]
       /\ rows' = [rows EXCEPT ![r] =
            [type |-> "memo", parent |-> parent, typeId |-> m, ref |-> m]]
  /\ UNCHANGED <<hashTags, running, onCreate, nav, failure, raced>>

(***************************************************************************)
(* The activity is taken away.  Saving its state carries out the pending    *)
(* commits, so there is a fragment; GroupFragment has no empty constructor, *)
(* and building the activity again with its fragments throws.              *)
(***************************************************************************)
Recreate ==
  /\ Idle
  /\ Gone("no constructor")
  /\ UNCHANGED <<store, raced>>

Kill ==
  /\ running
  /\ Gone("none")
  /\ UNCHANGED <<store, raced>>

UiThread == InitFragmentSettings \/ InitRootGroup \/ ExecutePending

Next == UiThread \/ Start \/ ClickGroup \/ BackPressed \/ AddGroup \/ AddMemo \/ Recreate \/ Kill

Spec == Init /\ [][Next]_vars
FairSpec == Spec /\ WF_vars(UiThread)

(***************************************************************************)
(* Properties                                                              *)
(***************************************************************************)
TypeOK ==
  /\ StoreTypeOK
  /\ running \in BOOLEAN /\ homeAsUp \in BOOLEAN /\ raced \in BOOLEAN
  /\ onCreate \in Seq({"fragment", "root"})
  /\ fragmentList \in Seq(GroupId) /\ pending \in Seq(GroupId)
  /\ shown \in GroupId \cup {Null}
  /\ failure \in {"none", "no group", "no constructor"}

\* onCreate asks for the root fragment before it makes the root group, but the view
\* is only built when the looper gets to the commit: no fragment meets a group
\* that is not there.
NeverNoGroup == failure # "no group"

\* When the FragmentManager has caught up, the screen shows the end of the path,
\* and the up arrow is there exactly when going up does not leave the app: the one
\* is read from the store, the other from fragmentList.
ScreenShowsPath ==
  Idle /\ pending = <<>> =>
    /\ shown = Last(fragmentList)
    /\ homeAsUp <=> Len(fragmentList) > 1

\* The root is at the bottom of fragmentList and nowhere else, so that going back
\* as often as there are groups on it ends at the root.  As long as nobody clicks
\* while a commit is pending, it is the path from the root to what is on the screen.
\* (A second click gets the same group on the path twice; back and then a row puts
\* a group there without its parent.)
PathFromRoot ==
  Idle =>
    /\ \A i \in DOMAIN fragmentList : fragmentList[i] = Root <=> i = 1
    /\ ~raced => \A i \in 2..Len(fragmentList) :
                   groups[fragmentList[i]].parent = fragmentList[i - 1]

\* However fast the user clicks, the screen catches up with the path again and
\* again, until the activity goes away.
ScreenCatchesUp ==
  running ~> (~running \/ (fragmentList # <<>> /\ shown = Last(fragmentList)))
=============================================================================
