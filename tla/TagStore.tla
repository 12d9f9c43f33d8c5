------------------------------ MODULE TagStore ------------------------------
(***************************************************************************)
(* The Realm file of the Android app: the tables Group, Memo, GroupMemo and *)
(* HashTag (J/model), and the transactions the two editors commit on them. *)
(*                                                                         *)
(* A GroupMemo row is what a group's list shows: it names a child of the   *)
(* group twice, by type_id (looked up as text) and by the object link      *)
(* group/memo, here ref.  last_date and isValidated are written everywhere *)
(* and read nowhere, so they are left out.  Database.createID hashes the   *)
(* time and random letters: an id is any one not yet in use.               *)
(***************************************************************************)
EXTENDS Integers, Sequences, FiniteSets, SequencesExt

CONSTANTS
  GroupId, MemoId, RowId,  \* the ids createID may return, per class
  Tag,                     \* tag texts, as numbers: String.compareTo is <
  Text,                    \* what the title and content fields may hold
  Empty,                   \* the text of a field nobody typed in
  Null                     \* Java's null

VARIABLES
  groups,    \* [GroupId -> Group or Null]
  memos,     \* [MemoId -> Memo or Null]
  rows,      \* [RowId -> GroupMemo or Null]
  hashTags   \* the tag texts that have a HashTag object

store == <<groups, memos, rows, hashTags>>

Group == [parent : GroupId \cup {Null}, title : Text \cup {Null},
          tags : Seq(Tag), groupMemos : Seq(RowId)]
Memo == [parent : GroupId, title : Text \cup {Null},
         content : Text \cup {Null}, tags : Seq(Tag)]
GroupMemo == [type : {"group", "memo"}, parent : GroupId,
              typeId : GroupId \cup MemoId \cup {Null},
              ref : GroupId \cup MemoId]

ASSUME StoreAssumption ==
  /\ Tag \subseteq Nat
  /\ Empty \in Text
  /\ Null \notin GroupId \cup MemoId \cup RowId \cup Text
  /\ Null \notin Group \cup Memo \cup GroupMemo \cup Seq(Tag)
  /\ GroupId \cap MemoId = {}

StoreTypeOK ==
  /\ groups \in [GroupId -> Group \cup {Null}]
  /\ memos \in [MemoId -> Memo \cup {Null}]
  /\ rows \in [RowId -> GroupMemo \cup {Null}]
  /\ hashTags \subseteq Tag

(***************************************************************************)
(* Queries                                                                 *)
(***************************************************************************)
\* realm.where(GroupMemo.class).equalTo("type_id", id)
RowsOf(id) == {r \in RowId : rows[r] # Null /\ rows[r].typeId = id}

\* The row r is in the list of the group its parentGroupId names.
Linked(r) == /\ rows[r] # Null
             /\ groups[rows[r].parent] # Null
             /\ r \in ToSet(groups[rows[r].parent].groupMemos)

\* The user can reach the memo m: some group's list shows it.
Listed(m) == \E r \in RowsOf(m) : Linked(r)

MemosStored == {m \in MemoId : memos[m] # Null}

(***************************************************************************)
(* Transactions.  save() passes null for "leave this field as it is".      *)
(***************************************************************************)
Given(new, old) == IF new = Null THEN old ELSE new

CreateMemo(m, parent) ==
  /\ memos[m] = Null
  /\ memos' = [memos EXCEPT ![m] =
       [parent |-> parent, title |-> Null, content |-> Null, tags |-> <<>>]]
  /\ UNCHANGED <<groups, rows, hashTags>>

\* saveTag: a tag text gets a HashTag object the first time it is used.
SaveTags(tags) == hashTags' = hashTags \cup (IF tags = Null THEN {} ELSE ToSet(tags))

WriteMemo(m, title, content, tags) ==
  /\ memos' = [memos EXCEPT ![m] =
       [parent |-> @.parent, title |-> Given(title, @.title),
        content |-> Given(content, @.content), tags |-> Given(tags, @.tags)]]
  /\ SaveTags(tags)
  /\ UNCHANGED <<groups, rows>>

CreateGroup(g, parent) ==
  /\ groups[g] = Null
  /\ groups' = [groups EXCEPT ![g] =
       [parent |-> parent, title |-> Null, tags |-> <<>>, groupMemos |-> <<>>]]
  /\ UNCHANGED <<memos, rows, hashTags>>

WriteGroup(g, title, tags) ==
  /\ groups' = [groups EXCEPT ![g].title = Given(title, @), ![g].tags = Given(tags, @)]
  /\ SaveTags(tags)
  /\ UNCHANGED <<memos, rows>>

CreateRow(r, type, parent, id) ==
  /\ rows[r] = Null
  /\ rows' = [rows EXCEPT ![r] =
       [type |-> type, parent |-> parent, typeId |-> id, ref |-> id]]
  /\ UNCHANGED <<groups, memos, hashTags>>

\* Mutant: the row is put at the front of the list.
LinkRowFirst(r) ==
  LET g == rows[r].parent
  IN /\ groups[g] # Null
     /\ groups' = IF Contains(groups[g].groupMemos, r) THEN groups
                  ELSE [groups EXCEPT ![g].groupMemos = <<r>> \o @]
     /\ UNCHANGED <<memos, rows, hashTags>>

\* refleshParentGroup: append the row to its parent's list, once.
LinkRow(r) ==
  LET g == rows[r].parent
  IN /\ groups[g] # Null
     /\ groups' = IF Contains(groups[g].groupMemos, r) THEN groups
                  ELSE [groups EXCEPT ![g].groupMemos = Append(@, r)]
     /\ UNCHANGED <<memos, rows, hashTags>>
=============================================================================
