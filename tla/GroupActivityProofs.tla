------------------------ MODULE GroupActivityProofs -------------------------
(***************************************************************************)
(* Theorems about the group browser, for every set of groups and every     *)
(* bound: paths of any length, any number of clicks ahead of the screen.   *)
(*                                                                         *)
(* What the clicks put on the path comes out of the store, so the invariant *)
(* relates the two: the rows of a list name groups that are there and have *)
(* the list's group as their parent, and once onCreate is over so is every *)
(* group on the path, in a pending commit or on the screen.                *)
(***************************************************************************)
EXTENDS GroupActivity, TLAPS

Exists(g) == groups[g] # Null

\* The row r, if it shows a group, shows one that was made in the group g.
ChildOK(r, g) == /\ rows[r] # Null
                 /\ rows[r].type = "group" =>
                      /\ rows[r].ref \in GroupId
                      /\ Exists(rows[r].ref)
                      /\ groups[rows[r].ref].parent = g

\* Every group but the root has a parent, and nothing is made before the root.
StoreInv ==
  /\ \A g \in GroupId : Exists(g) => Exists(Root) /\ (groups[g].parent = Null <=> g = Root)
  /\ \A g \in GroupId : Exists(g) =>
       \A i \in DOMAIN groups[g].groupMemos : ChildOK(groups[g].groupMemos[i], g)

\* The path of the activity, the commits and the screen, once onCreate is over.
Stored(s) == \A i \in DOMAIN s : Exists(s[i])

RootFirst(s) == s # <<>> /\ \A i \in DOMAIN s : s[i] = Root <=> i = 1

IsPath(s) == \A i \in 2..Len(s) : groups[s[i]].parent = s[i - 1]

Browsing ==
  /\ running /\ onCreate = <<>>
  /\ Exists(Root)
  /\ RootFirst(fragmentList) /\ Stored(fragmentList) /\ Stored(pending)
  /\ ~raced => IsPath(fragmentList)
  /\ shown # Null => Exists(shown)
  /\ pending = <<>> => shown = Last(fragmentList) /\ (homeAsUp <=> shown # Root)
  /\ pending # <<>> => Last(pending) = Last(fragmentList)

\* The activity is not there, or onCreate has not got to the root group yet.
Away == ~running /\ onCreate = <<>> /\ nav = <<<<>>, <<>>, Null, FALSE>>
Created == running /\ onCreate = <<"fragment", "root">> /\ nav = <<<<>>, <<>>, Null, FALSE>>
Asked == running /\ onCreate = <<"root">> /\ nav = <<<<Root>>, <<Root>>, Null, FALSE>>

\* TypeOK in three parts: the prover gets Booleans and sequences one at a time.
FlagsOK == running \in BOOLEAN /\ homeAsUp \in BOOLEAN /\ raced \in BOOLEAN

PlaceOK == /\ onCreate \in Seq({"fragment", "root"})
           /\ fragmentList \in Seq(GroupId) /\ pending \in Seq(GroupId)
           /\ shown \in GroupId \cup {Null}
           /\ failure \in {"none", "no group", "no constructor"}

IInv == /\ StoreTypeOK /\ FlagsOK /\ PlaceOK
        /\ StoreInv
        /\ failure # "no group"
        /\ Away \/ Created \/ Asked \/ Browsing

-----------------------------------------------------------------------------
(* Sequences of groups. *)

LEMMA EmptyOK == ASSUME NEW S PROVE <<>> \in Seq(S)
  OBVIOUS

LEMMA OnCreateOK ==
  /\ <<"fragment", "root">> \in Seq({"fragment", "root"})
  /\ <<"root">> \in Seq({"fragment", "root"})
  /\ Head(<<"fragment", "root">>) = "fragment" /\ Head(<<"root">>) = "root"
  OBVIOUS

LEMMA FrontOK ==
  ASSUME NEW s \in Seq(GroupId), Len(s) > 1
  PROVE  /\ Front(s) \in Seq(GroupId) /\ Len(Front(s)) = Len(s) - 1
         /\ \A i \in 1..(Len(s) - 1) : Front(s)[i] = s[i]
<1>1. Front(s) = [i \in 1..(Len(s) - 1) |-> s[i]]
  BY DEF Front
<1> QED BY <1>1

LEMMA LastOK ==
  ASSUME NEW s \in Seq(GroupId), s # <<>>
  PROVE  Last(s) \in GroupId /\ Len(s) \in DOMAIN s /\ Last(s) = s[Len(s)]
  BY DEF Last

LEMMA MemberOK ==
  ASSUME NEW S, NEW s \in Seq(S), NEW x \in ToSet(s)
  PROVE  x \in S /\ \E i \in DOMAIN s : x = s[i]
  BY DEF ToSet

\* Asking for the last group of a path leaves the path and the commits in step.
LEMMA ShowLastOK ==
  ASSUME IInv, NEW list \in Seq(GroupId), ShowLast(list), list # <<>>, Stored(list)
  PROVE  /\ fragmentList' \in Seq(GroupId) /\ pending' \in Seq(GroupId)
         /\ pending' # <<>> /\ Last(pending') = Last(fragmentList')
         /\ Stored(pending) => \A i \in DOMAIN pending' : Exists(pending'[i])
<1>1. Last(list) \in GroupId /\ Exists(Last(list))
  BY LastOK DEF Stored
<1>2. pending \in Seq(GroupId)
  BY DEF IInv, PlaceOK
<1>3. pending' = Append(pending, Last(list)) /\ fragmentList' = list
  BY DEF ShowLast
<1>4. pending' \in Seq(GroupId) /\ pending' # <<>> /\ Last(pending') = Last(list)
  BY <1>1, <1>2, <1>3 DEF Last
<1>5. ASSUME Stored(pending), NEW i \in DOMAIN pending'
      PROVE  Exists(pending'[i])
  <2>1. i \in DOMAIN pending \/ pending'[i] = Last(list)
    BY <1>1, <1>2, <1>3, <1>5
  <2>2. i \in DOMAIN pending => pending'[i] = pending[i]
    BY <1>1, <1>2, <1>3
  <2> QED BY <1>1, <1>5, <2>1, <2>2 DEF Stored
<1> QED BY <1>3, <1>4, <1>5

-----------------------------------------------------------------------------
(* The invariant holds initially, and each action keeps it. *)

LEMMA InitInv == Init => IInv
<1> SUFFICES ASSUME Init PROVE IInv
  OBVIOUS
<1>1. StoreTypeOK
  BY DEF Init, StoreTypeOK
<1>2. FlagsOK
  BY DEF Init, FlagsOK
<1>3. PlaceOK
  BY DEF Init, PlaceOK
<1> QED BY <1>1, <1>2, <1>3 DEF Init, IInv, StoreInv, Away, nav, Exists

LEMMA StoreUnchanged ==
  ASSUME IInv, UNCHANGED store
  PROVE  StoreTypeOK' /\ StoreInv'
  BY DEF IInv, StoreTypeOK, StoreInv, ChildOK, Exists, store

\* The end of the process.
LEMMA GoneOK ==
  ASSUME IInv, UNCHANGED <<store, raced>>, NEW why \in {"none", "no constructor"}, Gone(why)
  PROVE  IInv'
<1>1. FlagsOK'
  BY DEF IInv, FlagsOK, Gone
<1>2. PlaceOK'
  BY EmptyOK DEF PlaceOK, Gone
<1>3. Away'
  BY DEF Away, Gone, nav
<1> QED BY <1>1, <1>2, <1>3, StoreUnchanged DEF IInv, Gone

LEMMA StartInv == IInv /\ Start => IInv'
<1> SUFFICES ASSUME IInv, Start PROVE IInv'
  OBVIOUS
<1>1. UNCHANGED store
  BY DEF Start
<1>2. FlagsOK' /\ PlaceOK'
  <2>1. FlagsOK'
    BY DEF IInv, FlagsOK, Start, nav
  <2> QED BY <2>1, OnCreateOK DEF IInv, PlaceOK, Start, nav
<1>3. Created'
  BY DEF IInv, Start, Away, Created, Asked, Browsing, nav
<1> QED BY <1>1, <1>2, <1>3, StoreUnchanged DEF IInv, Start

LEMMA InitFragmentSettingsInv == IInv /\ InitFragmentSettings => IInv'
<1> SUFFICES ASSUME IInv, InitFragmentSettings PROVE IInv'
  OBVIOUS
<1>1. UNCHANGED store /\ running' = running /\ running \in BOOLEAN
  BY DEF InitFragmentSettings, IInv, FlagsOK
<1>2. Created
  <2>1. running /\ onCreate # <<>> /\ Head(onCreate) = "fragment"
    BY DEF InitFragmentSettings
  <2>2. ~Away /\ ~Browsing
    BY <2>1 DEF Away, Browsing
  <2>3. ~Asked
    BY <2>1, OnCreateOK DEF Asked
  <2> QED BY <2>2, <2>3 DEF IInv
<1>3. onCreate' = <<"root">> /\ running
  BY <1>2 DEF InitFragmentSettings, Created
<1>4. fragmentList' = <<Root>> /\ pending' = <<Root>>
  BY <1>2, GroupActivityAssumption DEF InitFragmentSettings, Created, nav, ShowLast, Last
<1>5. UNCHANGED <<shown, homeAsUp, failure, raced>>
  BY DEF InitFragmentSettings
<1>6. Asked'
  BY <1>1, <1>2, <1>3, <1>4, <1>5 DEF Asked, Created, nav
<1>7. FlagsOK'
  BY <1>1, <1>5 DEF IInv, FlagsOK
<1>8. PlaceOK'
  <2>1. <<Root>> \in Seq(GroupId)
    BY GroupActivityAssumption
  <2> QED BY <1>3, <1>4, <1>5, <2>1, OnCreateOK DEF IInv, PlaceOK
<1> QED BY <1>1, <1>5, <1>6, <1>7, <1>8, StoreUnchanged DEF IInv

\* With the root group onCreate is over, and the commit posted first finds it.
LEMMA InitRootGroupInv == IInv /\ InitRootGroup => IInv'
<1> SUFFICES ASSUME IInv, InitRootGroup PROVE IInv'
  OBVIOUS
<1>1. Asked
  <2>1. running /\ onCreate # <<>> /\ Head(onCreate) = "root"
    BY DEF InitRootGroup
  <2>2. ~Away /\ ~Browsing
    BY <2>1 DEF Away, Browsing
  <2>3. ~Created
    BY <2>1, OnCreateOK DEF Created
  <2> QED BY <2>2, <2>3 DEF IInv
<1>2. /\ running' = running /\ running /\ onCreate' = <<>>
      /\ UNCHANGED <<memos, hashTags, nav, failure, raced>>
  BY <1>1 DEF InitRootGroup, Asked
<1>3. /\ StoreTypeOK /\ groups \in [GroupId -> Group \cup {Null}]
      /\ rows \in [RowId -> GroupMemo \cup {Null}]
  BY DEF IInv, StoreTypeOK
<1>4. StoreTypeOK' /\ StoreInv' /\ Exists(Root)'
  <2>1. CASE \A g \in GroupId : groups[g] = Null
    <3> DEFINE root == [parent |-> Null, title |-> Empty, tags |-> <<>>, groupMemos |-> <<>>]
               row == [type |-> "group", parent |-> Root, typeId |-> Null, ref |-> Root]
    <3>1. groups' = [groups EXCEPT ![Root] = root] /\ rows' = [rows EXCEPT ![RootRow] = row]
      BY <2>1 DEF InitRootGroup
    <3>2. root \in Group /\ row \in GroupMemo
      BY StoreAssumption, GroupActivityAssumption DEF Group, GroupMemo
    <3> HIDE DEF root, row
    <3>3. StoreTypeOK'
      BY <1>2, <1>3, <3>1, <3>2 DEF StoreTypeOK
    <3>4. root # Null
      BY <3>2, StoreAssumption
    <3>5. ASSUME NEW g \in GroupId, groups'[g] # Null
          PROVE  g = Root /\ groups'[g] = root
      BY <1>3, <2>1, <3>1, <3>5
    <3>6. groups'[Root] = root
      BY <1>3, <3>1, GroupActivityAssumption
    <3>7. root.parent = Null /\ root.groupMemos = <<>>
      BY DEF root
    <3> QED BY <3>3, <3>4, <3>5, <3>6, <3>7, GroupActivityAssumption DEF StoreInv, Exists
  <2>2. CASE ~ \A g \in GroupId : groups[g] = Null
    <3>1. UNCHANGED store
      BY <1>2, <2>2 DEF InitRootGroup, store
    <3>2. Exists(Root)
      BY <2>2 DEF IInv, StoreInv, Exists
    <3> QED BY <3>1, <3>2, StoreUnchanged DEF Exists, store
  <2> QED BY <2>1, <2>2
<1>5. FlagsOK' /\ PlaceOK'
  <2>1. FlagsOK'
    BY <1>2 DEF IInv, FlagsOK, nav
  <2> QED BY <1>2, <2>1, EmptyOK DEF IInv, PlaceOK, nav
<1>6. Browsing'
  <2>1. fragmentList' = <<Root>> /\ pending' = <<Root>> /\ shown' = Null
    BY <1>1, <1>2 DEF Asked, nav
  <2>2. RootFirst(fragmentList)' /\ Stored(fragmentList)' /\ Stored(pending)' /\ IsPath(fragmentList)'
    BY <1>4, <2>1 DEF RootFirst, Stored, IsPath
  <2> QED BY <1>2, <1>4, <2>1, <2>2 DEF Browsing, Last
<1> QED BY <1>2, <1>4, <1>5, <1>6 DEF IInv

\* No fragment meets a group that is not there; the last commit decides what is
\* shown, and the arrow with it.
LEMMA ExecutePendingInv == IInv /\ ExecutePending => IInv'
<1> SUFFICES ASSUME IInv, ExecutePending PROVE IInv'
  OBVIOUS
<1>1. Browsing /\ pending # <<>> /\ pending \in Seq(GroupId)
  BY DEF IInv, PlaceOK, Away, Created, Asked, ExecutePending, Idle
<1>2. \A g \in ToSet(pending) : groups[g] # Null
  BY <1>1, MemberOK DEF Browsing, Stored, Exists
<1>3. /\ shown' = Last(pending) /\ homeAsUp' = (groups[Last(pending)].parent # Null)
      /\ pending' = <<>>
      /\ UNCHANGED <<running, onCreate, fragmentList, failure>>
      /\ UNCHANGED <<store, raced>>
  BY <1>2 DEF ExecutePending
<1>4. Last(pending) \in GroupId /\ Exists(Last(pending))
  BY <1>1, LastOK DEF Browsing, Stored
<1>5. homeAsUp' <=> shown' # Root
  BY <1>3, <1>4 DEF IInv, StoreInv
<1>6. homeAsUp' \in BOOLEAN
  BY <1>3
<1>7. FlagsOK' /\ PlaceOK'
  <2>1. FlagsOK'
    BY <1>3, <1>6 DEF IInv, FlagsOK
  <2> QED BY <1>3, <1>4, <2>1, EmptyOK DEF IInv, PlaceOK
<1>8. Browsing'
  <2>1. UNCHANGED groups
    BY <1>3 DEF store
  <2>2. Stored(pending)'
    BY <1>3 DEF Stored
  <2> QED BY <1>1, <1>3, <1>4, <1>5, <2>1, <2>2
          DEF Browsing, RootFirst, Stored, IsPath, Exists
<1> QED BY <1>3, <1>7, <1>8, StoreUnchanged DEF IInv

\* A row of the group on the screen leads to one of its children.
LEMMA ClickGroupInv == IInv /\ ClickGroup => IInv'
<1> SUFFICES ASSUME IInv, ClickGroup PROVE IInv'
  OBVIOUS
<1>1. Browsing /\ shown # Null /\ shown \in GroupId /\ Exists(shown)
  BY DEF IInv, PlaceOK, Away, Created, Asked, Browsing, ClickGroup, Click, Idle
<1>2. PICK r \in ToSet(groups[shown].groupMemos) :
        rows[r].type = "group" /\ ShowLast(Append(fragmentList, rows[r].ref))
  BY DEF ClickGroup
<1>3. UNCHANGED <<store, running, onCreate, shown, homeAsUp, failure>>
      /\ raced' = (raced \/ pending # <<>>)
  BY DEF ClickGroup, Click
<1>4. ChildOK(r, shown)
  <2>1. groups[shown].groupMemos \in Seq(RowId)
    BY <1>1 DEF IInv, StoreTypeOK, Group, Exists
  <2>2. PICK i \in DOMAIN groups[shown].groupMemos : r = groups[shown].groupMemos[i]
    BY <1>2, <2>1, MemberOK
  <2> QED BY <1>1, <2>2 DEF IInv, StoreInv
<1> DEFINE child == rows[r].ref
           list == Append(fragmentList, child)
<1>5. child \in GroupId /\ Exists(child) /\ groups[child].parent = shown /\ child # Root
  <2>1. shown # Null
    BY <1>1
  <2> QED BY <1>1, <1>2, <1>4, <2>1 DEF ChildOK, IInv, StoreInv
<1>6. fragmentList \in Seq(GroupId) /\ fragmentList # <<>>
  BY <1>1 DEF IInv, PlaceOK, Browsing, RootFirst
<1> HIDE DEF child
<1>7. /\ list \in Seq(GroupId) /\ list # <<>> /\ Len(list) = Len(fragmentList) + 1
      /\ list[Len(list)] = child
      /\ \A i \in 1..Len(fragmentList) : list[i] = fragmentList[i]
  BY <1>5, <1>6
<1>8. Stored(list) /\ RootFirst(list)
  BY <1>1, <1>5, <1>6, <1>7 DEF Stored, RootFirst, Browsing
<1> HIDE DEF list
<1>9. ShowLast(list)
  BY <1>2 DEF list, child
<1>10. /\ fragmentList' = list /\ pending' \in Seq(GroupId) /\ pending' # <<>>
       /\ Last(pending') = Last(fragmentList')
       /\ \A i \in DOMAIN pending' : Exists(pending'[i])
  BY <1>1, <1>7, <1>8, <1>9, ShowLastOK DEF ShowLast, Browsing
<1>11. ~raced' => IsPath(list)
  <2> SUFFICES ASSUME ~raced' PROVE IsPath(list)
    OBVIOUS
  <2>1. ~raced /\ pending = <<>>
    BY <1>3
  <2>2. IsPath(fragmentList) /\ shown = fragmentList[Len(fragmentList)]
    BY <1>1, <1>6, <2>1, LastOK DEF Browsing
  <2>3. ASSUME NEW i \in 2..Len(list) PROVE groups[list[i]].parent = list[i - 1]
    <3>1. CASE i = Len(list)
      BY <1>5, <1>6, <1>7, <2>2, <3>1
    <3>2. CASE i # Len(list)
      BY <1>6, <1>7, <2>2, <3>2 DEF IsPath
    <3> QED BY <3>1, <3>2
  <2> QED BY <2>3 DEF IsPath
<1>12. FlagsOK' /\ PlaceOK'
  <2>1. FlagsOK'
    BY <1>3 DEF IInv, FlagsOK
  <2> QED BY <1>3, <1>7, <1>10, <2>1 DEF IInv, PlaceOK
<1>13. Browsing'
  <2>1. UNCHANGED groups
    BY <1>3 DEF store
  <2> QED BY <1>1, <1>3, <1>8, <1>10, <1>11, <2>1
          DEF Browsing, RootFirst, Stored, IsPath, Exists
<1> QED BY <1>3, <1>12, <1>13, StoreUnchanged DEF IInv

LEMMA BackPressedInv == IInv /\ BackPressed => IInv'
<1> SUFFICES ASSUME IInv, BackPressed PROVE IInv'
  OBVIOUS
<1>1. Browsing
  BY DEF IInv, Away, Created, Asked, Browsing, BackPressed, Click, Idle
<1>2. UNCHANGED store /\ raced' = (raced \/ pending # <<>>)
  BY DEF BackPressed, Click
<1>3. fragmentList \in Seq(GroupId) /\ pending \in Seq(GroupId)
  BY DEF IInv, PlaceOK
<1>4. CASE Len(fragmentList) > 1
  <2> DEFINE list == Front(fragmentList)
  <2>1. ShowLast(list) /\ UNCHANGED <<running, onCreate, shown, homeAsUp, failure>>
    BY <1>4 DEF BackPressed
  <2>2. /\ list \in Seq(GroupId) /\ Len(list) = Len(fragmentList) - 1
        /\ \A i \in 1..(Len(fragmentList) - 1) : list[i] = fragmentList[i]
    BY <1>3, <1>4, FrontOK
  <2> HIDE DEF list
  <2>3. list # <<>>
    BY <1>3, <1>4, <2>2
  <2>4. Stored(list) /\ RootFirst(list)
    <3>1. ASSUME NEW i \in DOMAIN list
          PROVE  i \in DOMAIN fragmentList /\ list[i] = fragmentList[i]
      BY <1>3, <2>2
    <3> QED BY <1>1, <2>3, <3>1 DEF Stored, RootFirst, Browsing
  <2>p. ~raced => IsPath(list)
    <3> SUFFICES ASSUME ~raced, NEW i \in 2..Len(list)
                 PROVE  groups[list[i]].parent = list[i - 1]
      BY DEF IsPath
    <3>1. list[i] = fragmentList[i] /\ list[i - 1] = fragmentList[i - 1]
          /\ i \in 2..Len(fragmentList)
      BY <1>3, <2>2
    <3> QED BY <1>1, <3>1 DEF Browsing, IsPath
  <2>5. /\ fragmentList' = list /\ pending' \in Seq(GroupId) /\ pending' # <<>>
        /\ Last(pending') = Last(fragmentList')
        /\ \A i \in DOMAIN pending' : Exists(pending'[i])
    BY <1>1, <2>1, <2>2, <2>3, <2>4, ShowLastOK DEF ShowLast, Browsing
  <2>6. FlagsOK' /\ PlaceOK'
    <3>1. FlagsOK'
      BY <1>2, <2>1 DEF IInv, FlagsOK
    <3> QED BY <2>1, <2>2, <2>5, <3>1 DEF IInv, PlaceOK
  <2>7. Browsing'
    <3>1. UNCHANGED groups
      BY <1>2 DEF store
    <3> QED BY <1>1, <1>2, <2>1, <2>4, <2>p, <2>5, <3>1
            DEF Browsing, RootFirst, Stored, IsPath, Exists
  <2> QED BY <1>2, <2>1, <2>6, <2>7, StoreUnchanged DEF IInv
<1>5. CASE ~(Len(fragmentList) > 1)
  <2>1. Gone("none")
    BY <1>5 DEF BackPressed
  <2>2. FlagsOK'
    BY <1>2, <2>1 DEF IInv, FlagsOK, Gone
  <2>3. PlaceOK'
    BY <2>1, EmptyOK DEF PlaceOK, Gone
  <2>4. Away'
    BY <2>1 DEF Away, Gone, nav
  <2> QED BY <1>2, <2>1, <2>2, <2>3, <2>4, StoreUnchanged DEF IInv, Gone
<1> QED BY <1>4, <1>5

\* A new group changes nothing that the path, the commits or a row already name.
LEMMA AddGroupInv == IInv /\ AddGroup => IInv'
<1> SUFFICES ASSUME IInv, AddGroup PROVE IInv'
  OBVIOUS
<1>1. PICK parent, g \in GroupId, r \in RowId :
       /\ groups[parent] # Null /\ groups[g] = Null /\ rows[r] = Null
       /\ groups' = [groups EXCEPT ![parent].groupMemos = Append(@, r),
            ![g] = [parent |-> parent, title |-> Empty, tags |-> <<>>, groupMemos |-> <<>>]]
       /\ rows' = [rows EXCEPT ![r] =
            [type |-> "group", parent |-> parent, typeId |-> g, ref |-> g]]
  BY DEF AddGroup
<1>2. UNCHANGED <<memos, hashTags, running, onCreate, nav, failure, raced>>
  BY DEF AddGroup
<1>3. /\ groups \in [GroupId -> Group \cup {Null}] /\ rows \in [RowId -> GroupMemo \cup {Null}]
      /\ Null \notin Group /\ Null \notin GroupMemo /\ Null \notin GroupId
  BY StoreAssumption DEF IInv, StoreTypeOK
<1> DEFINE new == [parent |-> parent, title |-> Empty, tags |-> <<>>, groupMemos |-> <<>>]
           row == [type |-> "group", parent |-> parent, typeId |-> g, ref |-> g]
           old == [groups[parent] EXCEPT !.groupMemos = Append(@, r)]
<1>4. new \in Group /\ row \in GroupMemo
  BY StoreAssumption DEF Group, GroupMemo
<1>5. /\ old \in Group /\ old.parent = groups[parent].parent
      /\ old.groupMemos = Append(groups[parent].groupMemos, r)
      /\ groups[parent].groupMemos \in Seq(RowId)
  <2>1. groups[parent] \in Group
    BY <1>1, <1>3
  <2>2. groups[parent].groupMemos \in Seq(RowId)
    BY <2>1 DEF Group
  <2>3. Append(groups[parent].groupMemos, r) \in Seq(RowId)
    BY <2>2
  <2> QED BY <2>1, <2>2, <2>3 DEF Group
<1>6. new.parent = parent /\ new.groupMemos = <<>> /\ row.ref = g
  OBVIOUS
<1>7. g # parent
  BY <1>1
<1>8. /\ groups'[g] = new /\ groups'[parent] = old
      /\ \A h \in GroupId : h # g /\ h # parent => groups'[h] = groups[h]
      /\ groups' \in [GroupId -> Group \cup {Null}]
  BY <1>1, <1>3, <1>4, <1>5, <1>7
<1>9. /\ rows'[r] = row /\ \A q \in RowId : q # r => rows'[q] = rows[q]
      /\ rows' \in [RowId -> GroupMemo \cup {Null}]
  BY <1>1, <1>3, <1>4
<1> HIDE DEF new, row, old
<1>10. \A h \in GroupId : Exists(h) =>
         h # g /\ groups'[h] # Null /\ groups'[h].parent = groups[h].parent
  BY <1>1, <1>3, <1>5, <1>8 DEF Exists
<1>11. g # Root /\ Exists(Root) /\ Root \in GroupId
  BY <1>1, GroupActivityAssumption DEF IInv, StoreInv, Exists
<1>12. StoreTypeOK' /\ FlagsOK' /\ PlaceOK'
  <2>1. StoreTypeOK'
    BY <1>2, <1>8, <1>9 DEF IInv, StoreTypeOK
  <2>2. FlagsOK'
    BY <1>2 DEF IInv, FlagsOK, nav
  <2> QED BY <1>2, <2>1, <2>2 DEF IInv, PlaceOK, nav
<1>13. \A q \in RowId, h \in GroupId : ChildOK(q, h) => ChildOK(q, h)'
  BY <1>1, <1>9, <1>10 DEF ChildOK, Exists
<1>14. ChildOK(r, parent)'
  BY <1>3, <1>4, <1>6, <1>8, <1>9 DEF ChildOK, Exists
<1>15. StoreInv'
  <2>1. ASSUME NEW h \in GroupId, Exists(h)'
        PROVE  Exists(Root)' /\ (groups'[h].parent = Null <=> h = Root)
    <3>1. CASE h = g
      BY <1>3, <1>6, <1>8, <1>10, <1>11, <3>1 DEF Exists
    <3>2. CASE h # g
      <4>1. Exists(h)
        BY <1>1, <1>8, <2>1, <3>2 DEF Exists
      <4> QED BY <4>1, <1>10, <1>11 DEF IInv, StoreInv, Exists
    <3> QED BY <3>1, <3>2
  <2>2. ASSUME NEW h \in GroupId, Exists(h)', NEW i \in DOMAIN groups'[h].groupMemos,
               NEW q, q = groups'[h].groupMemos[i]
        PROVE  ChildOK(q, h)'
    <3>1. CASE h = g
      BY <1>6, <1>8, <2>2, <3>1
    <3>2. CASE h = parent
      <4>1. groups[parent].groupMemos \in Seq(RowId) /\ Exists(parent)
        BY <1>1, <1>5 DEF Exists
      <4>2. CASE i \in DOMAIN groups[parent].groupMemos
        <5>1. q = groups[parent].groupMemos[i] /\ q \in RowId
          BY <1>5, <1>8, <2>2, <3>2, <4>1, <4>2
        <5>2. ChildOK(q, parent)
          BY <4>1, <4>2, <5>1 DEF IInv, StoreInv
        <5> QED BY <1>13, <3>2, <5>1, <5>2
      <4>3. CASE i \notin DOMAIN groups[parent].groupMemos
        <5>1. q = r
          BY <1>5, <1>8, <2>2, <3>2, <4>1, <4>3
        <5> QED BY <1>14, <3>2, <5>1
      <4> QED BY <4>2, <4>3
    <3>3. CASE h # g /\ h # parent
      <4>1. groups'[h] = groups[h] /\ Exists(h)
        BY <1>8, <2>2, <3>3 DEF Exists
      <4>2. groups[h].groupMemos \in Seq(RowId)
        BY <1>3, <4>1 DEF Group, Exists
      <4>3. q = groups[h].groupMemos[i] /\ i \in DOMAIN groups[h].groupMemos /\ q \in RowId
        BY <2>2, <4>1, <4>2
      <4>4. ChildOK(q, h)
        BY <4>1, <4>3 DEF IInv, StoreInv
      <4> QED BY <1>13, <4>3, <4>4
    <3> QED BY <3>1, <3>2, <3>3
  <2> QED BY <2>1, <2>2 DEF StoreInv, ChildOK, Exists
<1>16. Browsing => Browsing'
  <2> SUFFICES ASSUME Browsing PROVE Browsing'
    OBVIOUS
  <2>1. UNCHANGED <<running, onCreate, fragmentList, pending, shown, homeAsUp, raced>>
    BY <1>2 DEF nav
  <2>2. /\ fragmentList \in Seq(GroupId) /\ pending \in Seq(GroupId)
        /\ shown \in GroupId \cup {Null}
    BY DEF IInv, PlaceOK
  <2>3. Stored(fragmentList)' /\ Stored(pending)' /\ (shown # Null => Exists(shown)')
    BY <1>10, <2>1, <2>2 DEF Browsing, Stored, Exists
  <2>4. IsPath(fragmentList) => IsPath(fragmentList)'
    BY <1>10, <2>1, <2>2 DEF Browsing, Stored, IsPath
  <2>5. Exists(Root)'
    BY <1>10, <1>11 DEF Exists
  <2>6. RootFirst(fragmentList)'
    BY <2>1 DEF Browsing, RootFirst
  <2> QED BY <2>1, <2>3, <2>4, <2>5, <2>6 DEF Browsing
<1>17. (Away \/ Created \/ Asked) => (Away \/ Created \/ Asked)'
  BY <1>2 DEF Away, Created, Asked, nav
<1> QED BY <1>2, <1>12, <1>15, <1>16, <1>17 DEF IInv

\* A new memo adds a row that leads to no group.
LEMMA AddMemoInv == IInv /\ AddMemo => IInv'
<1> SUFFICES ASSUME IInv, AddMemo PROVE IInv'
  OBVIOUS
<1> DEFINE Row(parent, m) == [type |-> "memo", parent |-> parent, typeId |-> m, ref |-> m]
           New(parent) == [parent |-> parent, title |-> Empty, content |-> Empty, tags |-> <<>>]
<1>1. PICK parent \in GroupId, m \in MemoId, r \in RowId :
        /\ groups[parent] # Null /\ memos[m] = Null /\ rows[r] = Null
        /\ groups' = [groups EXCEPT ![parent].groupMemos = Append(@, r)]
        /\ memos' = [memos EXCEPT ![m] = New(parent)]
        /\ rows' = [rows EXCEPT ![r] = Row(parent, m)]
  BY DEF AddMemo
<1>2. UNCHANGED <<hashTags, running, onCreate, nav, failure, raced>>
  BY DEF AddMemo
<1>3. /\ groups \in [GroupId -> Group \cup {Null}] /\ rows \in [RowId -> GroupMemo \cup {Null}]
      /\ memos \in [MemoId -> Memo \cup {Null}]
      /\ Null \notin Group /\ Null \notin GroupMemo /\ Null \notin GroupId
  BY StoreAssumption DEF IInv, StoreTypeOK
<1> DEFINE row == Row(parent, m)
           old == [groups[parent] EXCEPT !.groupMemos = Append(groups[parent].groupMemos, r)]
<1>4. New(parent) \in Memo /\ row \in GroupMemo /\ row.type = "memo"
  BY StoreAssumption DEF Memo, GroupMemo
<1>5. /\ old \in Group /\ old.parent = groups[parent].parent
      /\ old.groupMemos = Append(groups[parent].groupMemos, r)
      /\ groups[parent].groupMemos \in Seq(RowId)
  <2>1. groups[parent] \in Group
    BY <1>1, <1>3
  <2>2. groups[parent].groupMemos \in Seq(RowId)
    BY <2>1 DEF Group
  <2>3. Append(groups[parent].groupMemos, r) \in Seq(RowId)
    BY <2>2
  <2> QED BY <2>1, <2>2, <2>3 DEF Group
<1>6. /\ groups'[parent] = old
      /\ \A h \in GroupId \ {parent} : groups'[h] = groups[h]
      /\ groups' \in [GroupId -> Group \cup {Null}]
  BY <1>1, <1>3, <1>5
<1>7. /\ rows'[r] = row /\ \A q \in RowId \ {r} : rows'[q] = rows[q]
      /\ rows' \in [RowId -> GroupMemo \cup {Null}]
      /\ memos' \in [MemoId -> Memo \cup {Null}]
  BY <1>1, <1>3, <1>4
<1> HIDE DEF row, old
<1>8. \A h \in GroupId : /\ groups'[h] # Null <=> groups[h] # Null
                         /\ Exists(h) => groups'[h].parent = groups[h].parent
  BY <1>1, <1>3, <1>5, <1>6 DEF Exists
<1>9. StoreTypeOK' /\ FlagsOK' /\ PlaceOK'
  <2>1. StoreTypeOK'
    BY <1>2, <1>6, <1>7 DEF IInv, StoreTypeOK
  <2>2. FlagsOK'
    BY <1>2 DEF IInv, FlagsOK, nav
  <2> QED BY <1>2, <2>1, <2>2 DEF IInv, PlaceOK, nav
<1>10. \A q \in RowId, h \in GroupId : ChildOK(q, h) => ChildOK(q, h)'
  BY <1>1, <1>7, <1>8 DEF ChildOK, Exists
<1>11. ChildOK(r, parent)'
  BY <1>3, <1>4, <1>7 DEF ChildOK
<1>12. StoreInv'
  <2>1. \A h \in GroupId : Exists(h)' => Exists(Root)' /\ (groups'[h].parent = Null <=> h = Root)
    BY <1>8, GroupActivityAssumption DEF IInv, StoreInv, Exists
  <2>2. ASSUME NEW h \in GroupId, Exists(h)', NEW i \in DOMAIN groups'[h].groupMemos,
               NEW q, q = groups'[h].groupMemos[i]
        PROVE  ChildOK(q, h)'
    <3>1. Exists(h) /\ groups[h].groupMemos \in Seq(RowId)
      BY <1>3, <1>8, <2>2 DEF Group, Exists
    <3>2. CASE i \in DOMAIN groups[h].groupMemos
      <4>1. q = groups[h].groupMemos[i] /\ q \in RowId
        BY <1>5, <1>6, <2>2, <3>1, <3>2
      <4>2. ChildOK(q, h)
        BY <3>1, <3>2, <4>1 DEF IInv, StoreInv
      <4> QED BY <1>10, <4>1, <4>2
    <3>3. CASE i \notin DOMAIN groups[h].groupMemos
      <4>1. h = parent /\ q = r
        BY <1>5, <1>6, <2>2, <3>1, <3>3
      <4> QED BY <1>11, <4>1
    <3> QED BY <3>2, <3>3
  <2> QED BY <2>1, <2>2 DEF StoreInv, ChildOK, Exists
<1>13. Browsing => Browsing'
  <2> SUFFICES ASSUME Browsing PROVE Browsing'
    OBVIOUS
  <2>1. UNCHANGED <<running, onCreate, fragmentList, pending, shown, homeAsUp, raced>>
    BY <1>2 DEF nav
  <2>2. /\ fragmentList \in Seq(GroupId) /\ pending \in Seq(GroupId)
        /\ shown \in GroupId \cup {Null} /\ Root \in GroupId
    BY GroupActivityAssumption DEF IInv, PlaceOK
  <2>3. /\ Stored(fragmentList)' /\ Stored(pending)' /\ Exists(Root)'
        /\ shown # Null => Exists(shown)'
    BY <1>8, <2>1, <2>2 DEF Browsing, Stored, Exists
  <2>4. IsPath(fragmentList) => IsPath(fragmentList)'
    BY <1>8, <2>1, <2>2 DEF Browsing, Stored, IsPath
  <2>5. RootFirst(fragmentList)'
    BY <2>1 DEF Browsing, RootFirst
  <2> QED BY <2>1, <2>3, <2>4, <2>5 DEF Browsing
<1>14. (Away \/ Created \/ Asked) => (Away \/ Created \/ Asked)'
  BY <1>2 DEF Away, Created, Asked, nav
<1> QED BY <1>2, <1>9, <1>12, <1>13, <1>14 DEF IInv

LEMMA NextInv == IInv /\ [Next]_vars => IInv'
<1> SUFFICES ASSUME IInv, [Next]_vars PROVE IInv'
  OBVIOUS
<1>1. CASE InitFragmentSettings
  BY <1>1, InitFragmentSettingsInv
<1>2. CASE InitRootGroup
  BY <1>2, InitRootGroupInv
<1>3. CASE ExecutePending
  BY <1>3, ExecutePendingInv
<1>4. CASE Start
  BY <1>4, StartInv
<1>5. CASE ClickGroup
  BY <1>5, ClickGroupInv
<1>6. CASE BackPressed
  BY <1>6, BackPressedInv
<1>7. CASE AddGroup
  BY <1>7, AddGroupInv
<1>8. CASE AddMemo
  BY <1>8, AddMemoInv
<1>9. CASE Recreate
  BY <1>9, GoneOK DEF Recreate
<1>10. CASE Kill
  BY <1>10, GoneOK DEF Kill
<1>11. CASE UNCHANGED vars
  <2>1. UNCHANGED <<store, running, onCreate, nav, failure, raced>>
    BY <1>11 DEF vars
  <2>2. FlagsOK' /\ PlaceOK'
    <3>1. FlagsOK'
      BY <2>1 DEF IInv, FlagsOK, nav
    <3> QED BY <2>1, <3>1 DEF IInv, PlaceOK, nav
  <2>3. (Away \/ Created \/ Asked) => (Away \/ Created \/ Asked)'
    BY <2>1 DEF Away, Created, Asked
  <2>4. Browsing => Browsing'
    BY <2>1 DEF Browsing, RootFirst, Stored, IsPath, Exists, nav, store
  <2> QED BY <2>1, <2>2, <2>3, <2>4, StoreUnchanged DEF IInv
<1> QED BY <1>1, <1>2, <1>3, <1>4, <1>5, <1>6, <1>7, <1>8, <1>9, <1>10, <1>11 DEF Next, UiThread

\* The invariant holds of all behaviours of the browser.
THEOREM Invariance == Spec => []IInv
  BY InitInv, NextInv, PTL DEF Spec

\* The screen and the path hold groups, and the tables keep their types.
THEOREM TypeCorrect == Spec => []TypeOK
<1>1. IInv => TypeOK
  BY DEF IInv, FlagsOK, PlaceOK, TypeOK
<1> QED BY <1>1, Invariance, PTL

\* The first fragment is committed before the root group is made, and editors add
\* groups at any time; still no fragment is ever built on a group that is not there.
THEOREM GroupAlwaysThere == Spec => []NeverNoGroup
<1>1. IInv => NeverNoGroup
  BY DEF IInv, NeverNoGroup
<1> QED BY <1>1, Invariance, PTL

\* Whatever was clicked before the screen caught up, it then shows the end of the
\* path, with the up arrow exactly below the root.
THEOREM ScreenCorrect == Spec => []ScreenShowsPath
<1>1. IInv => ScreenShowsPath
  <2> SUFFICES ASSUME IInv, Idle, pending = <<>>
               PROVE  shown = Last(fragmentList) /\ (homeAsUp <=> Len(fragmentList) > 1)
    BY DEF ScreenShowsPath
  <2>1. Browsing
    BY DEF IInv, Idle, Away, Created, Asked
  <2>2. fragmentList \in Seq(GroupId) /\ fragmentList # <<>>
    BY <2>1 DEF IInv, PlaceOK, Browsing, RootFirst
  <2>3. shown = Last(fragmentList) /\ (homeAsUp <=> shown # Root)
    BY <2>1 DEF Browsing
  <2>4. Len(fragmentList) \in Nat \ {0} /\ shown = fragmentList[Len(fragmentList)]
        /\ Len(fragmentList) \in DOMAIN fragmentList
    BY <2>2, <2>3, LastOK
  <2>5. shown = Root <=> Len(fragmentList) = 1
    BY <2>1, <2>4 DEF Browsing, RootFirst
  <2> QED BY <2>3, <2>4, <2>5
<1> QED BY <1>1, Invariance, PTL

\* Going back always ends at the root, and with nobody clicking ahead of the screen
\* the path is one in the tree of groups, however deep it gets.
THEOREM PathCorrect == Spec => []PathFromRoot
<1>1. IInv => PathFromRoot
  <2> SUFFICES ASSUME IInv, Idle
               PROVE  RootFirst(fragmentList) /\ (~raced => IsPath(fragmentList))
    BY DEF PathFromRoot, RootFirst, IsPath
  <2>1. Browsing
    BY DEF IInv, Idle, Away, Created, Asked
  <2> QED BY <2>1 DEF Browsing
<1> QED BY <1>1, Invariance, PTL
=============================================================================
