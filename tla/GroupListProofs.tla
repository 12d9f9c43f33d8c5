--------------------------- MODULE GroupListProofs ---------------------------
(***************************************************************************)
(* Proofs about GroupList and about the notifications it is built on: the  *)
(* theorems of ListNotifier first, then those of GroupList.                *)
(***************************************************************************)
EXTENDS GroupList, ListChangesProofs

(***************************************************************************)
(* ListNotifier: for any rows, any transactions of at most two changes and *)
(* any number of versions, the block has been told of all but the last     *)
(* transaction, and of that one before the next begins; the batches of     *)
(* updates fit; and the table follows the list as ListWatch asks for.      *)
(*                                                                         *)
(* It needs the order of the versions that the two threads pass around     *)
(* (what is packaged, what the notifier was last run to, what the listener *)
(* thread has picked, the newest), and that the changes accumulated lead   *)
(* from the list of the first to the list of the second.                   *)
(***************************************************************************)

Versions == {log[i] : i \in DOMAIN log}

\* The log is a sequence, and the records have the fields they start with.
Shape ==
  /\ log \in Seq(Versions) /\ log # <<>>
  /\ DOMAIN worker = {"step", "version"}
  /\ DOMAIN notifier = {"hasRun", "version", "changes"}
  /\ notifier.version \in Nat /\ packaged \in Nat

\* The thread runs forward, to a version that exists.
Order ==
  /\ packaged <= notifier.version /\ notifier.version <= Latest
  /\ worker.step = "run" => /\ worker.version \in Nat
                            /\ notifier.version <= worker.version
                            /\ worker.version <= Latest

VersionInv == Shape /\ Order /\ AtMostOneBehind

-----------------------------------------------------------------------------
LEMMA LatestIsNat == ASSUME Shape PROVE Latest \in Nat /\ Latest >= 1
  BY DEF Shape, Latest

\* A commit adds one version.
LEMMA OneMore ==
  ASSUME Shape, NEW v, log' = Append(log, v)
  PROVE  log' \in Seq(Versions') /\ log' # <<>> /\ Latest' = Latest + 1
<1> DEFINE S == Versions \cup {v}
<1>1. log \in Seq(S)
  BY DEF Shape
<1>2. log' \in Seq(S) /\ Len(log') = Len(log) + 1 /\ log'[Len(log) + 1] = v
  BY <1>1
<1>3. log' \in Seq({log'[i] : i \in DOMAIN log'})
  BY <1>2
<1> QED BY <1>2, <1>3 DEF Versions, Latest, Shape

\* The notifier as it is when it has just been registered.
Fresh ==
  /\ log = <<FirstVersion(log[1].list)>>
  /\ main = "free" /\ worker = Listening /\ notifier = NotRun /\ packaged = 1

LEMMA FreshVersions == Fresh => VersionInv /\ Latest = 1 /\ DOMAIN log = {1}
<1> SUFFICES ASSUME Fresh PROVE VersionInv /\ Latest = 1 /\ DOMAIN log = {1}
  OBVIOUS
<1>1. log \in Seq(Versions) /\ log # <<>> /\ Latest = 1 /\ DOMAIN log = {1}
  <2> DEFINE v == FirstVersion(log[1].list)
  <2>1. log = <<v>>
    BY DEF Fresh
  <2> HIDE DEF v
  <2> QED BY <2>1 DEF Versions, Latest
<1>2. worker.step = "listen" /\ DOMAIN worker = {"step", "version"}
  BY DEF Fresh, Listening
<1>3. notifier.version = 1 /\ DOMAIN notifier = {"hasRun", "version", "changes"}
  BY DEF Fresh, NotRun
<1> QED BY <1>1, <1>2, <1>3 DEF Fresh, VersionInv, Shape, Order, AtMostOneBehind

LEMMA InitFresh ==
  Init => Fresh /\ log[1].list = [i \in DOMAIN FirstList |-> Entry(FirstList[i], 1)]
<1> DEFINE first == [i \in DOMAIN FirstList |-> Entry(FirstList[i], 1)]
<1> SUFFICES ASSUME Init PROVE Fresh /\ log[1].list = first
  OBVIOUS
<1>1. log = <<FirstVersion(first)>>
  BY DEF Init
<1> HIDE DEF first
<1>2. log[1].list = first
  BY <1>1 DEF FirstVersion
<1> QED BY <1>1, <1>2 DEF Init, Fresh

LEMMA VersionInit == Init => VersionInv
  BY InitFresh, FreshVersions

\* The three steps of the listener thread.
LEMMA ListenerKeeps == VersionInv /\ Listener => VersionInv'
<1> SUFFICES ASSUME VersionInv, Listener PROVE VersionInv'
  OBVIOUS
<1> USE LatestIsNat DEF VersionInv, Shape, Order, AtMostOneBehind, Versions, blockVars
<1>1. CASE RunAsyncNotifiers
  BY <1>1 DEF RunAsyncNotifiers, Latest
<1>2. CASE PrepareHandover
  BY <1>2 DEF PrepareHandover, Latest
<1>3. CASE SignalRealms
  BY <1>3 DEF SignalRealms, Latest
<1> QED BY <1>1, <1>2, <1>3 DEF Listener

\* Packaging at the newest version leaves nothing outstanding.
LEMMA PackagingKeeps ==
  ASSUME VersionInv, NEW from, PackageAndDeliver(from), notifier.version = Latest,
         UNCHANGED <<log, worker>>
  PROVE  VersionInv' /\ packaged' = Latest'
<1>1. packaged' = Latest /\ Latest' = Latest
  BY DEF PackageAndDeliver, Latest
<1>2. notifier'.version = notifier.version /\ DOMAIN notifier' = DOMAIN notifier
  BY DEF PackageAndDeliver, VersionInv, Shape
<1> QED BY <1>1, <1>2, LatestIsNat
        DEF VersionInv, Shape, Order, AtMostOneBehind, Versions

\* A commit comes only when everything is packaged.
LEMMA CommitKeeps ==
  ASSUME VersionInv, NEW ops, NEW touched, NEW next \in {"free", "begin"},
         CommitTransaction(ops, touched, next)
  PROVE  VersionInv' /\ packaged = Latest
<1>1. log' \in Seq(Versions') /\ log' # <<>> /\ Latest' = Latest + 1
  BY OneMore DEF CommitTransaction, VersionInv
<1>2. packaged = Latest /\ main' # "write"
  BY DEF CommitTransaction, VersionInv, AtMostOneBehind
<1>3. UNCHANGED <<worker, notifier, packaged>>
  BY DEF CommitTransaction, blockVars
<1> QED BY <1>1, <1>2, <1>3, LatestIsNat DEF VersionInv, Shape, Order, AtMostOneBehind

LEMMA StepKeeps == VersionInv /\ [Next]_vars => VersionInv'
<1> SUFFICES ASSUME VersionInv, [Next]_vars PROVE VersionInv'
  OBVIOUS
<1>1. CASE Listener
  BY <1>1, ListenerKeeps
<1>2. CASE ProcessAvailableAsync
  <2>1. CASE notifier.hasRun /\ notifier.version = Latest
    BY <1>2, <2>1, PackagingKeeps DEF ProcessAvailableAsync
  <2>2. CASE ~(notifier.hasRun /\ notifier.version = Latest)
    BY <1>2, <2>2 DEF ProcessAvailableAsync, blockVars, VersionInv, Shape, Order,
                      AtMostOneBehind, Versions, Latest
  <2> QED BY <2>1, <2>2
<1>3. CASE PackageAndWait
  <2>1. notifier.version = Latest
    BY <1>3, LatestIsNat DEF PackageAndWait, NotifierReady, VersionInv, Shape, Order
  <2> QED BY <1>3, <2>1, PackagingKeeps DEF PackageAndWait, coordVars
<1>4. CASE BeginTransaction
  BY <1>4 DEF BeginTransaction, blockVars, VersionInv, Shape, Order, AtMostOneBehind,
              Versions, Latest
<1>5. CASE ClientCommit
  BY <1>5, CommitKeeps DEF ClientCommit
<1>6. CASE UNCHANGED vars
  BY <1>6 DEF vars, coordVars, blockVars, VersionInv, Shape, Order, AtMostOneBehind,
              Versions, Latest
<1> QED BY <1>1, <1>2, <1>3, <1>4, <1>5, <1>6 DEF Next, Runtime

\* However long the listener thread takes, the block has been told of every
\* transaction but the last, and of that one before another begins.
THEOREM OneBehind == Spec => []AtMostOneBehind
<1>1. Spec => []VersionInv
  BY VersionInit, StepKeeps, PTL DEF Spec
<1>2. VersionInv => AtMostOneBehind
  BY DEF VersionInv
<1> QED BY <1>1, <1>2, PTL

-----------------------------------------------------------------------------
(* What a change set says of two lists.                                    *)

EntryRecord == [row : Row, stamp : Nat]

\* A list holds a row once at most.
RowList == {l \in Seq(EntryRecord) : \A i, j \in DOMAIN l : l[i].row = l[j].row => i = j}

\* c leads from old to new, and what it neither inserts nor modifies is as it was.
Describes(c, old, new) ==
  /\ Leads(c, Len(old), Len(new))
  /\ \A j \in DOMAIN new \ (c.insertions \cup c.modifications) : new[j] = old[OldPlace(j, c)]

LEMMA NoneDescribes == ASSUME NEW l \in RowList PROVE Describes(NoChanges, l, l)
<1>1. l \in Seq(EntryRecord) /\ Len(l) \in Nat
  BY DEF RowList
<1>2. \A j \in DOMAIN l : OldPlace(j, NoChanges) = j
  BY <1>1, NoneLeads DEF Position
<1> QED BY <1>1, <1>2, NoneLeads DEF Describes

\* One change after another, as far as the lists are concerned.
LEMMA DescribesMerge ==
  ASSUME NEW a \in RowList, NEW b \in RowList, NEW e \in RowList, NEW c, NEW d,
         Describes(c, a, b), Describes(d, b, e)
  PROVE  Describes(Merge(c, d), a, e)
<1>1. /\ Len(a) \in Nat /\ Len(b) \in Nat /\ Len(e) \in Nat
      /\ DOMAIN b = 1 .. Len(b) /\ DOMAIN e = 1 .. Len(e)
  BY DEF RowList
<1>2. Leads(c, Len(a), Len(b)) /\ Leads(d, Len(b), Len(e))
  BY DEF Describes
<1>3. IsChangeSet(c) /\ IsChangeSet(d) /\ IsChange(c) /\ IsChange(d)
  BY <1>2 DEF Leads, IsChangeSet
<1>4. Leads(Merge(c, d), Len(a), Len(e))
  BY <1>1, <1>2, MergeLeads
<1>5. ASSUME NEW j \in DOMAIN e, j \notin Merge(c, d).insertions, j \notin Merge(c, d).modifications
      PROVE  e[j] = a[OldPlace(j, Merge(c, d))]
  <2> DEFINE k == OldPlace(j, d)
  <2>1. j \in Position /\ j <= Len(e)
    BY <1>1 DEF Position
  <2>2. /\ j \notin d.insertions /\ k \notin c.insertions
        /\ OldPlace(j, Merge(c, d)) = OldPlace(k, c)
    BY <1>3, <1>5, <2>1, MergeOld
  <2>3. j \notin d.modifications /\ k \notin c.modifications
    BY <1>3, <1>5, <2>1, <2>2, MergeModified
  <2>4. e[j] = b[k]
    BY <2>2, <2>3 DEF Describes
  <2>5. k \in DOMAIN b
    <3>1. k \in Position /\ k <= Len(b)
      BY <1>2, <1>3, <2>1, <2>2, OldPlaceIs DEF Leads
    <3> QED BY <1>1, <3>1 DEF Position
  <2> HIDE DEF k
  <2>6. b[k] = a[OldPlace(k, c)]
    BY <2>2, <2>3, <2>5 DEF Describes
  <2> QED BY <2>2, <2>4, <2>6
<1> QED BY <1>4, <1>5 DEF Describes

\* The change set of a single insertion or erasure.
OneChange(op) == IF op.type = "insert" THEN Inserted(op.at) ELSE Erased(op.at)

LEMMA InsertEntry ==
  ASSUME NEW l \in Seq(EntryRecord), NEW n \in 1 .. (Len(l) + 1), NEW x \in EntryRecord
  PROVE  /\ InsertAt(l, n, x) \in Seq(EntryRecord) /\ Len(InsertAt(l, n, x)) = Len(l) + 1
         /\ \A j \in 1 .. (Len(l) + 1) :
              InsertAt(l, n, x)[j] = IF j < n THEN l[j] ELSE IF j = n THEN x ELSE l[j - 1]
  BY InsertAtIs, SMT

LEMMA OpIsOne ==
  ASSUME NEW l \in RowList, NEW op \in Ops(l)
  PROVE  /\ Changed(l, op) \in RowList
         /\ Describes(OneChange(op), l, Changed(l, op))
         /\ op.at \in Position
<1>1. l \in Seq(EntryRecord) /\ Len(l) \in Nat /\ DOMAIN l = 1 .. Len(l)
  BY DEF RowList
<1>2. CASE \E r \in Row \ RowsIn(l) : op = Insertion(Len(l) + 1, r)
  <2>1. PICK r \in Row \ RowsIn(l) : op = Insertion(Len(l) + 1, r)
    BY <1>2
  <2> DEFINE n == Len(l) + 1
             new == Changed(l, op)
  <2>2. op.type = "insert" /\ op.at = n /\ op.row = r
    BY <2>1 DEF Insertion
  <2>3. n \in Position /\ n \in 1 .. (Len(l) + 1) /\ Entry(r, 0) \in EntryRecord
    BY <1>1 DEF Position, Entry, EntryRecord
  <2>4. new = InsertAt(l, n, Entry(r, 0))
    BY <2>2 DEF Changed
  <2>5. /\ new \in Seq(EntryRecord) /\ Len(new) = Len(l) + 1
        /\ \A j \in 1 .. (Len(l) + 1) :
             new[j] = IF j < n THEN l[j] ELSE IF j = n THEN Entry(r, 0) ELSE l[j - 1]
    <3> DEFINE e == Entry(r, 0)
    <3>1. l \in Seq(EntryRecord) /\ n \in 1 .. (Len(l) + 1) /\ e \in EntryRecord
      BY <1>1, <2>3
    <3>2. new = InsertAt(l, n, e)
      BY <2>4
    <3> HIDE DEF e, n, new
    <3>3. /\ InsertAt(l, n, e) \in Seq(EntryRecord) /\ Len(InsertAt(l, n, e)) = Len(l) + 1
          /\ \A j \in 1 .. (Len(l) + 1) :
               InsertAt(l, n, e)[j] = IF j < n THEN l[j] ELSE IF j = n THEN e ELSE l[j - 1]
      BY <3>1, InsertEntry, Zenon
    <3>4. new \in Seq(EntryRecord) /\ Len(new) = Len(l) + 1
      BY <3>2, <3>3, Zenon
    <3>5. ASSUME NEW j \in 1 .. (Len(l) + 1)
          PROVE  new[j] = IF j < n THEN l[j] ELSE IF j = n THEN e ELSE l[j - 1]
      <4>1. InsertAt(l, n, e)[j] = IF j < n THEN l[j] ELSE IF j = n THEN e ELSE l[j - 1]
        BY <3>3
      <4> QED BY <3>2, <4>1, Zenon
    <3> QED BY <3>4, <3>5 DEF e
  <2> HIDE DEF new
  <2>6. new \in RowList
    <3>1. ASSUME NEW i \in DOMAIN l PROVE l[i].row # r
      BY <3>1 DEF RowsIn
    <3>2. ASSUME NEW i \in DOMAIN new, NEW j \in DOMAIN new, new[i].row = new[j].row PROVE i = j
      <4>1. i \in 1 .. (Len(l) + 1) /\ j \in 1 .. (Len(l) + 1)
        BY <2>5
      <4>2. new[n].row = r
        BY <2>3, <2>5 DEF Entry
      <4>3. \A k \in 1 .. Len(l) : new[k] = l[k]
        BY <1>1, <2>5
      <4>4. CASE i = n \/ j = n
        BY <1>1, <3>1, <3>2, <4>1, <4>2, <4>3, <4>4
      <4>5. CASE i # n /\ j # n
        <5>1. i \in 1 .. Len(l) /\ j \in 1 .. Len(l)
          BY <1>1, <4>1, <4>5
        <5>2. l[i].row = l[j].row
          BY <3>2, <4>3, <5>1
        <5> QED BY <1>1, <5>1, <5>2 DEF RowList
      <4> QED BY <4>4, <4>5
    <3> QED BY <2>5, <3>2 DEF RowList
  <2>7. Describes(Inserted(n), l, new)
    <3>1. /\ Leads(Inserted(n), Len(l), Len(l) + 1)
          /\ \A j \in Position \ {n} : OldPlace(j, Inserted(n)) = IF n < j THEN j - 1 ELSE j
      BY <1>1, <2>3, InsertedLeads
    <3>2. Inserted(n).insertions = {n}
      BY DEF Inserted, NoChanges
    <3>3. ASSUME NEW j \in DOMAIN new \ {n} PROVE new[j] = l[OldPlace(j, Inserted(n))]
      <4>1. j \in 1 .. Len(l) /\ j \in Position
        BY <1>1, <2>5 DEF Position
      <4>2. OldPlace(j, Inserted(n)) = j
        BY <1>1, <3>1, <4>1
      <4> QED BY <1>1, <2>5, <4>1, <4>2
    <3> HIDE DEF n
    <3> QED BY <2>5, <3>1, <3>2, <3>3 DEF Describes, n
  <2> QED BY <2>2, <2>3, <2>6, <2>7 DEF OneChange, new
<1>3. CASE \E i \in DOMAIN l : op = Erasure(i)
  <2>1. PICK i \in 1 .. Len(l) : op = Erasure(i)
    BY <1>1, <1>3
  <2> DEFINE new == Changed(l, op)
  <2>2. op.type = "erase" /\ op.at = i
    BY <2>1 DEF Erasure
  <2>3. i \in Position
    BY <1>1 DEF Position
  <2>4. new = RemoveAt(l, i)
    BY <2>2 DEF Changed
  <2>5. /\ new \in Seq(EntryRecord) /\ Len(new) = Len(l) - 1
        /\ \A j \in 1 .. (Len(l) - 1) : new[j] = IF j < i THEN l[j] ELSE l[j + 1]
    BY <1>1, <2>4, RemoveAtIs
  <2> HIDE DEF new
  <2>6. new \in RowList
    <3>1. ASSUME NEW k \in DOMAIN new, NEW j \in DOMAIN new, new[k].row = new[j].row PROVE k = j
      <4> DEFINE kk == IF k < i THEN k ELSE k + 1
                 jj == IF j < i THEN j ELSE j + 1
      <4>1. k \in 1 .. (Len(l) - 1) /\ j \in 1 .. (Len(l) - 1)
        BY <2>5
      <4>2. kk \in DOMAIN l /\ jj \in DOMAIN l /\ new[k] = l[kk] /\ new[j] = l[jj]
        BY <1>1, <2>5, <4>1
      <4>3. kk = jj
        <5> HIDE DEF kk, jj
        <5> QED BY <3>1, <4>2 DEF RowList
      <4> QED BY <4>1, <4>3
    <3> QED BY <2>5, <3>1 DEF RowList
  <2>7. Describes(Erased(i), l, new)
    <3>1. /\ Leads(Erased(i), Len(l), Len(l) - 1)
          /\ \A j \in Position : OldPlace(j, Erased(i)) = IF j < i THEN j ELSE j + 1
      BY <1>1, ErasedLeads
    <3>2. ASSUME NEW j \in DOMAIN new PROVE new[j] = l[OldPlace(j, Erased(i))]
      <4>1. j \in 1 .. (Len(l) - 1) /\ j \in Position
        BY <2>5 DEF Position
      <4> QED BY <2>5, <3>1, <4>1
    <3> QED BY <2>5, <3>1, <3>2 DEF Describes
  <2> QED BY <2>2, <2>3, <2>6, <2>7 DEF OneChange, new
<1> QED BY <1>2, <1>3 DEF Ops

LEMMA ObserveMerges ==
  ASSUME NEW c, IsChangeSet(c), NEW op, op.at \in Position
  PROVE  Observe(c, op) = Merge(c, OneChange(op))
  BY OneAtATime DEF Observe, OneChange

LEMMA ObserveDescribes ==
  ASSUME NEW a \in RowList, NEW l \in RowList, NEW c, Describes(c, a, l), NEW op \in Ops(l)
  PROVE  Describes(Observe(c, op), a, Changed(l, op)) /\ Changed(l, op) \in RowList
<1>1. IsChangeSet(c)
  BY DEF Describes, Leads
<1> QED BY <1>1, OpIsOne, ObserveMerges, DescribesMerge

-----------------------------------------------------------------------------
(* The changes of one transaction, one after the other.                    *)

\* A transaction changes the list at most twice (OpSeqs).
ValidOps(l, ops) ==
  \/ ops = <<>>
  \/ \E o \in Ops(l) : ops = <<o>>
  \/ \E o \in Ops(l) : \E p \in Ops(Changed(l, o)) : ops = <<o, p>>

LEMMA MaxOfFew == Max({1}) = 1 /\ Max({2}) = 2 /\ Max({1, 2}) = 2
<1>1. Max({1}) = 1 /\ Max({2}) = 2
  BY DEF Max
<1>2. Max({1, 2}) = 2
  BY DEF Max
<1> QED BY <1>1, <1>2

\* What the folds over a transaction's changes come to.
LEMMA FoldChanged ==
  ASSUME NEW l, NEW o
  PROVE  /\ FoldLeft(Changed, l, <<>>) = l
         /\ FoldLeft(Changed, l, <<o>>) = Changed(l, o)
<1> DEFINE It(f, q) == f = [s \in SUBSET DOMAIN q |->
                              IF s = {} THEN l ELSE Changed(f[s \ {Max(s)}], q[Max(s)])]
<1>1. FoldLeft(Changed, l, <<>>) = l
  <2> DEFINE q == <<>>
             it == CHOOSE f : It(f, q)
             g == [s \in SUBSET {} |-> l]
  <2>1. FoldLeft(Changed, l, q) = it[DOMAIN q]
    BY Zenon DEF FoldLeft, MapThenFoldSet
  <2>2. DOMAIN q = {}
    OBVIOUS
  <2> HIDE DEF q
  <2>3. It(g, q)
    BY <2>2
  <2>4. It(it, q)
    <3> HIDE DEF g, It
    <3> QED BY <2>3, Zenon
  <2> QED BY <2>1, <2>2, <2>4 DEF q
<1>2. FoldLeft(Changed, l, <<o>>) = Changed(l, o)
  <2> DEFINE q == <<o>>
             it == CHOOSE f : It(f, q)
             g == [s \in SUBSET {1} |-> IF s = {} THEN l ELSE Changed(l, o)]
  <2>1. FoldLeft(Changed, l, q) = it[DOMAIN q]
    BY Zenon DEF FoldLeft, MapThenFoldSet
  <2>2. DOMAIN q = {1} /\ q[1] = o
    OBVIOUS
  <2> HIDE DEF q
  <2>3. It(g, q)
    <3>1. ASSUME NEW s \in SUBSET {1}
          PROVE  g[s] = IF s = {} THEN l ELSE Changed(g[s \ {Max(s)}], q[Max(s)])
      <4>1. s = {} \/ (s = {1} /\ s \ {Max(s)} = {} /\ q[Max(s)] = o)
        BY <2>2, MaxOfFew
      <4> QED BY <4>1
    <3> QED BY <2>2, <3>1
  <2>4. It(it, q)
    <3> HIDE DEF g, It
    <3> QED BY <2>3, Zenon
  <2> HIDE DEF it
  <2>5. it[{}] = l /\ it[{1}] = Changed(it[{1} \ {Max({1})}], q[Max({1})])
    BY <2>2, <2>4
  <2>6. {1} \ {Max({1})} = {} /\ q[Max({1})] = o
    BY <2>2, MaxOfFew
  <2> QED BY <2>1, <2>2, <2>5, <2>6 DEF q
<1> QED BY <1>1, <1>2

LEMMA FoldChangedTwice ==
  ASSUME NEW l, NEW q, q = <<q[1], q[2]>>
  PROVE  FoldLeft(Changed, l, q) = Changed(Changed(l, q[1]), q[2])
<1> DEFINE It(f) == f = [s \in SUBSET DOMAIN q |->
                          IF s = {} THEN l ELSE Changed(f[s \ {Max(s)}], q[Max(s)])]
           it == CHOOSE f : It(f)
           g == [s \in SUBSET {1, 2} |->
                   IF s = {} THEN l
                   ELSE IF s = {1} THEN Changed(l, q[1])
                   ELSE IF s = {2} THEN Changed(l, q[2])
                   ELSE Changed(Changed(l, q[1]), q[2])]
<1>1. FoldLeft(Changed, l, q) = it[DOMAIN q]
  BY Zenon DEF FoldLeft, MapThenFoldSet
<1>2. DOMAIN q = {1, 2}
  OBVIOUS
<1>3. /\ {1} \ {Max({1})} = {} /\ q[Max({1})] = q[1]
      /\ {2} \ {Max({2})} = {} /\ q[Max({2})] = q[2]
      /\ {1, 2} \ {Max({1, 2})} = {1} /\ q[Max({1, 2})] = q[2]
  BY <1>2, MaxOfFew
<1>4. It(g)
  <2>1. ASSUME NEW s \in SUBSET {1, 2}
        PROVE  g[s] = IF s = {} THEN l ELSE Changed(g[s \ {Max(s)}], q[Max(s)])
    <3>1. s = {} \/ s = {1} \/ s = {2} \/ s = {1, 2}
      OBVIOUS
    <3>2. {1} # {2} /\ {1} # {1, 2} /\ {2} # {1, 2}
      OBVIOUS
    <3>3. g[{}] = l /\ g[{1}] = Changed(l, q[1]) /\ g[{2}] = Changed(l, q[2])
          /\ g[{1, 2}] = Changed(Changed(l, q[1]), q[2])
      BY <3>2
    <3> HIDE DEF g
    <3> QED BY <1>3, <3>1, <3>3
  <2> QED BY <1>2, <2>1
<1>5. It(it)
  <2> HIDE DEF g, It
  <2> QED BY <1>4, Zenon
<1> HIDE DEF it
<1>6. /\ it[{}] = l /\ it[{1}] = Changed(it[{1} \ {Max({1})}], q[Max({1})])
      /\ it[{1, 2}] = Changed(it[{1, 2} \ {Max({1, 2})}], q[Max({1, 2})])
  BY <1>2, <1>5
<1> QED BY <1>1, <1>2, <1>3, <1>6

LEMMA FoldObserve ==
  ASSUME NEW l, NEW o
  PROVE  /\ FoldLeft(Observe, l, <<>>) = l
         /\ FoldLeft(Observe, l, <<o>>) = Observe(l, o)
<1> DEFINE It(f, q) == f = [s \in SUBSET DOMAIN q |->
                              IF s = {} THEN l ELSE Observe(f[s \ {Max(s)}], q[Max(s)])]
<1>1. FoldLeft(Observe, l, <<>>) = l
  <2> DEFINE q == <<>>
             it == CHOOSE f : It(f, q)
             g == [s \in SUBSET {} |-> l]
  <2>1. FoldLeft(Observe, l, q) = it[DOMAIN q]
    BY Zenon DEF FoldLeft, MapThenFoldSet
  <2>2. DOMAIN q = {}
    OBVIOUS
  <2> HIDE DEF q
  <2>3. It(g, q)
    BY <2>2
  <2>4. It(it, q)
    <3> HIDE DEF g, It
    <3> QED BY <2>3, Zenon
  <2> QED BY <2>1, <2>2, <2>4 DEF q
<1>2. FoldLeft(Observe, l, <<o>>) = Observe(l, o)
  <2> DEFINE q == <<o>>
             it == CHOOSE f : It(f, q)
             g == [s \in SUBSET {1} |-> IF s = {} THEN l ELSE Observe(l, o)]
  <2>1. FoldLeft(Observe, l, q) = it[DOMAIN q]
    BY Zenon DEF FoldLeft, MapThenFoldSet
  <2>2. DOMAIN q = {1} /\ q[1] = o
    OBVIOUS
  <2> HIDE DEF q
  <2>3. It(g, q)
    <3>1. ASSUME NEW s \in SUBSET {1}
          PROVE  g[s] = IF s = {} THEN l ELSE Observe(g[s \ {Max(s)}], q[Max(s)])
      <4>1. s = {} \/ (s = {1} /\ s \ {Max(s)} = {} /\ q[Max(s)] = o)
        BY <2>2, MaxOfFew
      <4> QED BY <4>1
    <3> QED BY <2>2, <3>1
  <2>4. It(it, q)
    <3> HIDE DEF g, It
    <3> QED BY <2>3, Zenon
  <2> HIDE DEF it
  <2>5. it[{}] = l /\ it[{1}] = Observe(it[{1} \ {Max({1})}], q[Max({1})])
    BY <2>2, <2>4
  <2>6. {1} \ {Max({1})} = {} /\ q[Max({1})] = o
    BY <2>2, MaxOfFew
  <2> QED BY <2>1, <2>2, <2>5, <2>6 DEF q
<1> QED BY <1>1, <1>2

LEMMA FoldObserveTwice ==
  ASSUME NEW l, NEW q, q = <<q[1], q[2]>>
  PROVE  FoldLeft(Observe, l, q) = Observe(Observe(l, q[1]), q[2])
<1> DEFINE It(f) == f = [s \in SUBSET DOMAIN q |->
                          IF s = {} THEN l ELSE Observe(f[s \ {Max(s)}], q[Max(s)])]
           it == CHOOSE f : It(f)
           g == [s \in SUBSET {1, 2} |->
                   IF s = {} THEN l
                   ELSE IF s = {1} THEN Observe(l, q[1])
                   ELSE IF s = {2} THEN Observe(l, q[2])
                   ELSE Observe(Observe(l, q[1]), q[2])]
<1>1. FoldLeft(Observe, l, q) = it[DOMAIN q]
  BY Zenon DEF FoldLeft, MapThenFoldSet
<1>2. DOMAIN q = {1, 2}
  OBVIOUS
<1>3. /\ {1} \ {Max({1})} = {} /\ q[Max({1})] = q[1]
      /\ {2} \ {Max({2})} = {} /\ q[Max({2})] = q[2]
      /\ {1, 2} \ {Max({1, 2})} = {1} /\ q[Max({1, 2})] = q[2]
  BY <1>2, MaxOfFew
<1>4. It(g)
  <2>1. ASSUME NEW s \in SUBSET {1, 2}
        PROVE  g[s] = IF s = {} THEN l ELSE Observe(g[s \ {Max(s)}], q[Max(s)])
    <3>1. s = {} \/ s = {1} \/ s = {2} \/ s = {1, 2}
      OBVIOUS
    <3>2. {1} # {2} /\ {1} # {1, 2} /\ {2} # {1, 2}
      OBVIOUS
    <3>3. g[{}] = l /\ g[{1}] = Observe(l, q[1]) /\ g[{2}] = Observe(l, q[2])
          /\ g[{1, 2}] = Observe(Observe(l, q[1]), q[2])
      BY <3>2
    <3> HIDE DEF g
    <3> QED BY <1>3, <3>1, <3>3
  <2> QED BY <1>2, <2>1
<1>5. It(it)
  <2> HIDE DEF g, It
  <2> QED BY <1>4, Zenon
<1> HIDE DEF it
<1>6. /\ it[{}] = l /\ it[{1}] = Observe(it[{1} \ {Max({1})}], q[Max({1})])
      /\ it[{1, 2}] = Observe(it[{1, 2} \ {Max({1, 2})}], q[Max({1, 2})])
  BY <1>2, <1>5
<1> QED BY <1>1, <1>2, <1>3, <1>6

\* The transaction log of the list modifies no row.
LEMMA ObserveNoRows ==
  ASSUME NEW c, c.modifications = {}, NEW op
  PROVE  Observe(c, op).modifications = {}
<1>1. ShiftedFor({}, {op.at}) = {} /\ ErasedAt({}, {op.at}) = {}
  BY DEF ShiftedFor, ErasedAt
<1> QED BY <1>1 DEF Observe, InsertOne, EraseOne

\* A transaction, seen through its changes: they lead from the list it found to the
\* one it leaves, before the rows that it touched are stamped.
LEMMA TransactionParsed ==
  ASSUME NEW l \in RowList, NEW ops, ValidOps(l, ops)
  PROVE  /\ FoldLeft(Changed, l, ops) \in RowList
         /\ Describes(FoldLeft(Observe, NoChanges, ops), l, FoldLeft(Changed, l, ops))
         /\ FoldLeft(Observe, NoChanges, ops).modifications = {}
<1>1. Describes(NoChanges, l, l)
  BY NoneDescribes
<1>0. NoChanges.modifications = {}
  BY DEF NoChanges
<1>2. CASE ops = <<>>
  <2>1. FoldLeft(Changed, l, ops) = l /\ FoldLeft(Observe, NoChanges, ops) = NoChanges
    BY <1>2, FoldChanged, FoldObserve
  <2> QED BY <1>0, <1>1, <2>1
<1>3. CASE \E o \in Ops(l) : ops = <<o>>
  <2>1. PICK o \in Ops(l) : ops = <<o>>
    BY <1>3
  <2>2. /\ FoldLeft(Changed, l, ops) = Changed(l, o)
        /\ FoldLeft(Observe, NoChanges, ops) = Observe(NoChanges, o)
    BY <2>1, FoldChanged, FoldObserve
  <2>3. Describes(Observe(NoChanges, o), l, Changed(l, o)) /\ Changed(l, o) \in RowList
    BY <1>1, ObserveDescribes
  <2> QED BY <1>0, <2>2, <2>3, ObserveNoRows
<1>4. CASE \E o \in Ops(l) : \E p \in Ops(Changed(l, o)) : ops = <<o, p>>
  <2>1. PICK o \in Ops(l) : \E p \in Ops(Changed(l, o)) : ops = <<o, p>>
    BY <1>4
  <2>5. PICK p \in Ops(Changed(l, o)) : ops = <<o, p>>
    BY <2>1
  <2>2. /\ FoldLeft(Changed, l, ops) = Changed(Changed(l, o), p)
        /\ FoldLeft(Observe, NoChanges, ops) = Observe(Observe(NoChanges, o), p)
    <3>1. ops = <<ops[1], ops[2]>> /\ ops[1] = o /\ ops[2] = p
      BY <2>5
    <3> QED BY <3>1, FoldChangedTwice, FoldObserveTwice
  <2>3. Describes(Observe(NoChanges, o), l, Changed(l, o)) /\ Changed(l, o) \in RowList
    BY <1>1, ObserveDescribes
  <2>4. /\ Describes(Observe(Observe(NoChanges, o), p), l, Changed(Changed(l, o), p))
        /\ Changed(Changed(l, o), p) \in RowList
    BY <2>3, ObserveDescribes
  <2> QED BY <1>0, <2>2, <2>4, ObserveNoRows
<1> QED BY <1>2, <1>3, <1>4 DEF ValidOps

\* The parsed changes, with every row whose object was touched as a modification.
WithRows(c, list, touched) ==
  [c EXCEPT !.modifications = {i \in DOMAIN list : list[i].row \in touched}]

LEMMA WrittenDescribed ==
  ASSUME NEW l \in RowList, NEW ops, ValidOps(l, ops), NEW touched, NEW v \in Nat
  PROVE  /\ Written(l, ops, touched, v) \in RowList
         /\ Describes(WithRows(FoldLeft(Observe, NoChanges, ops), Written(l, ops, touched, v), touched),
                      l, Written(l, ops, touched, v))
<1> DEFINE moved == FoldLeft(Changed, l, ops)
           w == Written(l, ops, touched, v)
           c == FoldLeft(Observe, NoChanges, ops)
           e == WithRows(c, w, touched)
<1>1. moved \in RowList /\ Describes(c, l, moved) /\ c.modifications = {}
  BY TransactionParsed
<1>2. w = [i \in DOMAIN moved |-> IF moved[i].row \in touched THEN Entry(moved[i].row, v) ELSE moved[i]]
  BY DEF Written
<1> HIDE DEF moved, w, c, e
<1>3. moved \in Seq(EntryRecord) /\ Len(moved) \in Nat /\ DOMAIN moved = 1 .. Len(moved)
  BY <1>1 DEF RowList
<1>4. ASSUME NEW i \in DOMAIN moved
      PROVE  /\ w[i] \in EntryRecord /\ w[i].row = moved[i].row
             /\ moved[i].row \notin touched => w[i] = moved[i]
  <2>1. moved[i] \in EntryRecord
    BY <1>3
  <2> QED BY <1>2, <2>1 DEF Entry, EntryRecord
<1>5. w \in Seq(EntryRecord) /\ Len(w) = Len(moved) /\ DOMAIN w = DOMAIN moved
  <2>1. DOMAIN w = 1 .. Len(moved) /\ w = [i \in 1 .. Len(moved) |-> w[i]]
    BY <1>2, <1>3
  <2> QED BY <1>3, <1>4, <2>1
<1>6. w \in RowList
  <2>1. ASSUME NEW i \in DOMAIN w, NEW j \in DOMAIN w, w[i].row = w[j].row PROVE i = j
    <3>1. moved[i].row = moved[j].row
      BY <1>4, <1>5, <2>1
    <3> QED BY <1>1, <1>5, <3>1 DEF RowList
  <2> QED BY <1>5, <2>1 DEF RowList
<1>7. IsChangeSet(c) /\ Leads(c, Len(l), Len(moved))
  BY <1>1 DEF Describes, Leads
<1>8. /\ e.deletions = c.deletions /\ e.insertions = c.insertions
      /\ e.modifications = {i \in DOMAIN w : w[i].row \in touched}
      /\ e = [deletions |-> e.deletions, insertions |-> e.insertions,
              modifications |-> e.modifications]
  <2> DEFINE M == {i \in DOMAIN w : w[i].row \in touched}
             D == c.deletions
             I == c.insertions
             N == c.modifications
  <2>1. c = [deletions |-> D, insertions |-> I, modifications |-> N]
    BY <1>7 DEF IsChangeSet
  <2>2. e = [c EXCEPT !.modifications = M]
    BY DEF e, WithRows
  <2> HIDE DEF M, D, I, N
  <2>3. e = [deletions |-> D, insertions |-> I, modifications |-> M]
    BY <2>1, <2>2
  <2>4. e.deletions = D /\ e.insertions = I /\ e.modifications = M
    BY <2>3
  <2> QED BY <2>3, <2>4 DEF M, D, I
<1>9. IsChangeSet(e)
  <2>1. e.modifications \in SUBSET Position
    BY <1>3, <1>5, <1>8 DEF Position
  <2> QED BY <1>7, <1>8, <2>1 DEF IsChangeSet, IsChange
<1>10. \A j : OldPlace(j, e) = OldPlace(j, c)
  BY <1>8, Zenon DEF OldPlace
<1>11. Leads(e, Len(l), Len(w))
  <2>1. e.modifications \subseteq 1 .. Len(w)
    BY <1>3, <1>5, <1>8
  <2> QED BY <1>5, <1>7, <1>8, <1>9, <1>10, <2>1 DEF Leads
<1>12. ASSUME NEW j \in DOMAIN w \ (e.insertions \cup e.modifications) PROVE w[j] = l[OldPlace(j, e)]
  <2>1. w[j].row \notin touched /\ j \in DOMAIN moved /\ j \notin c.insertions
    BY <1>5, <1>8
  <2>2. w[j] = moved[j]
    BY <1>4, <2>1
  <2>4. moved[j] = l[OldPlace(j, c)]
    BY <1>1, <2>1 DEF Describes
  <2> QED BY <1>10, <2>2, <2>4
<1> QED BY <1>6, <1>11, <1>12 DEF Describes, w, c, e

-----------------------------------------------------------------------------
(* The lists of the versions, and the changes on their way to the block.   *)

\* Each version holds a list, and the newest was made by one valid transaction.
LogInv ==
  /\ \A v \in DOMAIN log : log[v].list \in RowList
  /\ Latest > 1 =>
       /\ ValidOps(log[Latest - 1].list, log[Latest].ops)
       /\ List = Written(log[Latest - 1].list, log[Latest].ops, log[Latest].touched, Latest)

\* What has accumulated is what happened between the version last packaged and the
\* one the notifier was last run to.
ChangesInv ==
  /\ packaged >= 1
  /\ Describes(notifier.changes, log[packaged].list, log[notifier.version].list)

\* What the block has been told of is on the screen.
TableInv ==
  /\ initialDelivered => table = log[packaged].list
  /\ ~initialDelivered => /\ Latest = 1 /\ main # "write"
                          /\ notifier.changes = NoChanges /\ table = Null
  /\ initialDelivered \in BOOLEAN
  /\ failure = Null

\* A run of the notifier from one version to the same or the next.
LEMMA RunDescribes ==
  ASSUME Shape, LogInv, NEW from \in DOMAIN log, NEW to \in DOMAIN log,
         from = to \/ (to = Latest /\ from + 1 = to)
  PROVE  /\ Describes(Run(from, to), log[from].list, log[to].list)
         /\ from = to => Run(from, to) = NoChanges
<1> DEFINE steps == [k \in 1 .. (to - from) |-> log[from + k].ops]
           touched == UNION {log[k].touched : k \in (from + 1) .. to}
           list == log[to].list
<1>1. log \in Seq(Versions) /\ from \in Nat /\ to \in Nat /\ DOMAIN log = 1 .. Latest /\ Latest \in Nat
  BY LatestIsNat DEF Shape, Latest
<1>2. Run(from, to) = WithRows(FoldLeft(Observe, NoChanges, FlattenSeq(steps)), list, touched)
  BY DEF Run, WithRows
<1>3. CASE from = to
  <2>1. steps = <<>> /\ touched = {}
    BY <1>1, <1>3
  <2>2. FlattenSeq(steps) = <<>>
    <3> HIDE DEF steps
    <3> QED BY <2>1 DEF FlattenSeq
  <2>3. FoldLeft(Observe, NoChanges, FlattenSeq(steps)) = NoChanges
    BY <2>2, FoldObserve
  <2> HIDE DEF steps, touched, list
  <2>4. Run(from, to) = NoChanges
    BY <1>2, <2>1, <2>3 DEF WithRows, NoChanges
  <2>5. Describes(NoChanges, log[from].list, log[to].list)
    BY <1>3, NoneDescribes DEF LogInv
  <2> QED BY <2>4, <2>5
<1>4. CASE to = Latest /\ from + 1 = to
  <2> DEFINE ops == log[to].ops
  <2>1. steps = <<ops>> /\ touched = log[to].touched
    BY <1>1, <1>4
  <2>2. FlattenSeq(steps) = ops
    <3> DEFINE Fl(f) == f = [i \in 1 .. Len(steps) |->
                                IF i = 1 THEN steps[i] ELSE f[i - 1] \o steps[i]]
               fl == CHOOSE f : Fl(f)
               g == [i \in {1} |-> ops]
    <3>1. Len(steps) = 1 /\ steps[1] = ops
      <4> HIDE DEF steps, ops
      <4> QED BY <2>1
    <3> HIDE DEF steps, ops
    <3>2. FlattenSeq(steps) = fl[1]
      BY <3>1 DEF FlattenSeq
    <3>3. Fl(g)
      BY <3>1
    <3>4. Fl(fl)
      <4> HIDE DEF Fl, g
      <4> QED BY <3>3, Zenon
    <3> HIDE DEF fl
    <3> QED BY <3>1, <3>2, <3>4
  <2>3. /\ ValidOps(log[from].list, ops)
        /\ list = Written(log[from].list, ops, touched, to)
        /\ log[from].list \in RowList
    <3>1. from = Latest - 1 /\ Latest > 1 /\ to = Latest
      BY <1>1, <1>4
    <3>2. ValidOps(log[from].list, log[to].ops) /\ log[from].list \in RowList
      BY <3>1 DEF LogInv
    <3>3. list = Written(log[from].list, log[to].ops, log[to].touched, to)
      BY <3>1 DEF LogInv, List
    <3> QED BY <2>1, <3>2, <3>3
  <2> HIDE DEF steps, touched, list, ops
  <2>4. Describes(WithRows(FoldLeft(Observe, NoChanges, ops), list, touched), log[from].list, list)
    BY <1>1, <2>3, WrittenDescribed
  <2>5. from # to
    BY <1>1, <1>4
  <2> QED BY <1>2, <2>2, <2>4, <2>5 DEF list
<1> QED BY <1>3, <1>4

-----------------------------------------------------------------------------
(* What the block makes of the changes.                                    *)

DataInv == LogInv /\ ChangesInv /\ TableInv

\* Null is no list and no entry of one.
LEMMA NullIsNoList == ASSUME NEW l \in RowList PROVE Null # l /\ <<Null>> # l
<1>1. l \in Seq(EntryRecord) /\ Null \notin EntryRecord /\ Null \notin Seq(EntryRecord)
  BY NotifierAssumption DEF RowList, EntryRecord
<1>2. ASSUME <<Null>> = l PROVE FALSE
  <2>1. Len(l) = 1 /\ l[1] = Null
    BY <1>2
  <2>2. l[1] \in EntryRecord
    BY <1>1, <2>1
  <2> QED BY <1>1, <2>1, <2>2
<1> QED BY <1>1, <1>2

\* The versions that the threads pass around exist.
LEMMA VersionsExist ==
  ASSUME VersionInv, ChangesInv
  PROVE  /\ packaged \in DOMAIN log /\ notifier.version \in DOMAIN log /\ Latest \in DOMAIN log
         /\ DOMAIN log = 1 .. Latest
  BY LatestIsNat DEF VersionInv, Shape, Order, ChangesInv, Latest

LEMMA FreshChanges == Fresh /\ log[1].list \in RowList => LogInv /\ ChangesInv
<1> SUFFICES ASSUME Fresh, log[1].list \in RowList PROVE LogInv /\ ChangesInv
  OBVIOUS
<1>1. Latest = 1 /\ DOMAIN log = {1}
  BY FreshVersions
<1>2. packaged = 1 /\ notifier.version = 1 /\ notifier.changes = NoChanges
  BY DEF Fresh, NotRun
<1>3. Describes(NoChanges, log[1].list, log[1].list)
  BY NoneDescribes
<1> QED BY <1>1, <1>2, <1>3 DEF LogInv, ChangesInv

\* A list with each row once, newly stamped.
LEMMA StampedIsList ==
  ASSUME NEW rows \in Seq(Row), NEW v \in Nat,
         \A i, j \in DOMAIN rows : rows[i] = rows[j] => i = j
  PROVE  [i \in DOMAIN rows |-> Entry(rows[i], v)] \in RowList
<1> DEFINE l == [i \in DOMAIN rows |-> Entry(rows[i], v)]
<1>1. DOMAIN rows = 1 .. Len(rows) /\ Len(rows) \in Nat
  OBVIOUS
<1>2. ASSUME NEW i \in DOMAIN rows
      PROVE  l[i] \in EntryRecord /\ l[i].row = rows[i]
  <2>1. rows[i] \in Row
    BY <1>1
  <2> QED BY <2>1 DEF Entry, EntryRecord
<1>3. l \in Seq(EntryRecord)
  BY <1>1, <1>2
<1>4. ASSUME NEW i \in DOMAIN l, NEW j \in DOMAIN l, l[i].row = l[j].row PROVE i = j
  BY <1>2, <1>4
<1> HIDE DEF l
<1>5. l \in RowList
  BY <1>3, <1>4 DEF RowList
<1> QED BY <1>5 DEF l

LEMMA DataInit == Init => DataInv
<1> SUFFICES ASSUME Init PROVE DataInv
  OBVIOUS
<1>1. log[1].list \in RowList
  <2>1. /\ FirstList \in Seq(Row)
        /\ \A i, j \in DOMAIN FirstList : FirstList[i] = FirstList[j] => i = j
    BY NotifierAssumption, Zenon
  <2>2. [i \in DOMAIN FirstList |-> Entry(FirstList[i], 1)] \in RowList
    BY <2>1, StampedIsList
  <2> QED BY <2>2, InitFresh, Zenon
<1>2. LogInv /\ ChangesInv /\ Latest = 1
  BY <1>1, InitFresh, FreshChanges, FreshVersions
<1>3. TableInv
  BY <1>2 DEF Init, NotRun, TableInv
<1> QED BY <1>2, <1>3 DEF DataInv

LEMMA DataSame ==
  ASSUME DataInv, UNCHANGED <<log, notifier, packaged, initialDelivered, table, failure>>,
         main' \in {main, "begin"}
  PROVE  DataInv'
<1>1. LogInv'
  BY DEF DataInv, LogInv, Latest, List
<1>2. ChangesInv'
  BY DEF DataInv, ChangesInv
<1>3. TableInv'
  BY DEF DataInv, TableInv, Latest
<1> QED BY <1>1, <1>2, <1>3 DEF DataInv

LEMMA MergeNone == Merge(NoChanges, NoChanges) = NoChanges
<1>1. ShiftedFor({}, {}) = {} /\ ErasedAt({}, {}) = {}
  BY DEF ShiftedFor, ErasedAt
<1> QED BY <1>1 DEF Merge, NoChanges

\* The run takes the notifier forward by a version or not at all.
LEMMA HandoverKeepsChanges ==
  ASSUME VersionInv, LogInv, ChangesInv, PrepareHandover
  PROVE  /\ LogInv' /\ ChangesInv'
         /\ Latest = 1 /\ notifier.changes = NoChanges => notifier'.changes = NoChanges
<1> DEFINE from == notifier.version
           to == worker.version
<1>1. /\ UNCHANGED <<log, packaged>>
      /\ notifier'.version = to
      /\ notifier'.changes = Merge(notifier.changes, Run(from, to))
  BY DEF PrepareHandover, blockVars
<1>2. /\ from \in Nat /\ to \in Nat /\ packaged \in Nat /\ Latest \in Nat
      /\ packaged <= from /\ from <= to /\ to <= Latest /\ Latest - packaged <= 1
  BY LatestIsNat DEF PrepareHandover, VersionInv, Shape, Order, AtMostOneBehind
<1>3. /\ packaged \in DOMAIN log /\ from \in DOMAIN log /\ DOMAIN log = 1 .. Latest
  BY VersionsExist
<1>4. to \in DOMAIN log /\ (from = to \/ (to = Latest /\ from + 1 = to))
  BY <1>2, <1>3
<1> HIDE DEF from, to
<1>5. Describes(Run(from, to), log[from].list, log[to].list) /\ (from = to => Run(from, to) = NoChanges)
  BY <1>3, <1>4, RunDescribes DEF VersionInv
<1>6. /\ log[packaged].list \in RowList /\ log[from].list \in RowList /\ log[to].list \in RowList
      /\ Describes(notifier.changes, log[packaged].list, log[from].list)
  BY <1>3, <1>4 DEF LogInv, ChangesInv, from
<1>7. Describes(notifier'.changes, log[packaged].list, log[to].list)
  BY <1>1, <1>5, <1>6, DescribesMerge
<1>8. LogInv'
  BY <1>1 DEF LogInv, Latest, List
<1>9. ChangesInv'
  BY <1>1, <1>7 DEF ChangesInv
<1>10. ASSUME Latest = 1, notifier.changes = NoChanges PROVE notifier'.changes = NoChanges
  <2>1. from = to
    BY <1>2, <1>3, <1>10
  <2> QED BY <1>1, <1>5, <1>10, <2>1, MergeNone
<1> QED BY <1>8, <1>9, <1>10

LEMMA HandoverKeepsData == VersionInv /\ DataInv /\ PrepareHandover => DataInv'
<1> SUFFICES ASSUME VersionInv, DataInv, PrepareHandover PROVE DataInv'
  OBVIOUS
<1>1. /\ LogInv' /\ ChangesInv'
      /\ Latest = 1 /\ notifier.changes = NoChanges => notifier'.changes = NoChanges
  BY HandoverKeepsChanges DEF DataInv
<1>2. UNCHANGED <<log, main, packaged, initialDelivered, table, failure>>
  BY DEF PrepareHandover, blockVars
<1>3. TableInv'
  BY <1>1, <1>2 DEF DataInv, TableInv, Latest
<1> QED BY <1>1, <1>3 DEF DataInv

\* A change set that the block is not told of changes nothing.
LEMMA EmptyDescribes ==
  ASSUME NEW a \in RowList, NEW b \in RowList, NEW c, Describes(c, a, b), IsEmpty(Finalize(c))
  PROVE  a = b
<1>1. /\ Len(a) \in Nat /\ Len(b) \in Nat /\ DOMAIN a = 1 .. Len(a) /\ DOMAIN b = 1 .. Len(b)
      /\ a \in Seq(EntryRecord) /\ b \in Seq(EntryRecord)
  BY DEF RowList
<1>2. Leads(c, Len(a), Len(b)) /\ IsChangeSet(c)
  BY DEF Describes, Leads
<1>3. c.deletions = {} /\ c.insertions = {} /\ c.modifications = {}
  <2>1. c.deletions = {} /\ c.insertions = {}
        /\ {OldPlace(j, c) : j \in c.modifications \ c.insertions} = {}
    BY <1>2, FinalizeParts DEF IsEmpty
  <2> QED BY <2>1
<1>4. Len(a) = Len(b)
  <2>1. Len(a) - Cardinality({}) = Len(b) - Cardinality({})
    BY <1>1, <1>2, <1>3, LeadsCount
  <2>2. Cardinality({}) = 0
    BY FS_EmptySet
  <2>3. ASSUME NEW n \in Nat, NEW m \in Nat, n - 0 = m - 0 PROVE n = m
    BY <2>3
  <2> QED BY <1>1, <2>1, <2>2, <2>3
<1>5. ASSUME NEW j \in DOMAIN b PROVE b[j] = a[j]
  <2>1. j \in Position
    BY <1>1 DEF Position
  <2>2. OldPlace(j, c) = j
    BY <1>3, <2>1, UnshiftNone DEF OldPlace
  <2> QED BY <1>3, <2>2 DEF Describes
<1> QED BY <1>1, <1>4, <1>5

\* Packaging at the newest version starts the changes anew from the live list.
LEMMA DeliveryKeepsChanges ==
  ASSUME VersionInv, LogInv, ChangesInv, NEW by, PackageAndDeliver(by), notifier.version = Latest,
         UNCHANGED log
  PROVE  /\ LogInv' /\ ChangesInv'
         /\ log[packaged].list \in RowList /\ List \in RowList
         /\ Describes(notifier.changes, log[packaged].list, List)
<1>1. /\ notifier'.version = notifier.version /\ notifier'.changes = NoChanges
      /\ packaged' = Latest
  BY DEF PackageAndDeliver, VersionInv, Shape
<1>2. packaged \in DOMAIN log /\ Latest \in DOMAIN log
  BY VersionsExist
<1>3. /\ log[packaged].list \in RowList /\ List \in RowList
      /\ Describes(notifier.changes, log[packaged].list, List)
  BY <1>2 DEF LogInv, ChangesInv, List
<1>4. LogInv'
  BY DEF LogInv, Latest, List
<1>5. ChangesInv'
  <2>1. Describes(NoChanges, List, List)
    BY <1>3, NoneDescribes
  <2>2. packaged' >= 1
    BY <1>1, LatestIsNat DEF VersionInv
  <2> QED BY <1>1, <2>1, <2>2 DEF ChangesInv, List
<1> QED BY <1>3, <1>4, <1>5

LEMMA FinalizeNone == IsEmpty(Finalize(NoChanges))
<1>1. ShiftedFor({}, {}) = {} /\ ErasedAt({}, {}) = {}
  BY DEF ShiftedFor, ErasedAt
<1> QED BY <1>1 DEF IsEmpty, Finalize, NoChanges

\* When the notifier has been run to the newest version, the call of the block puts
\* the live list on the screen: the batch fits it.
LEMMA DeliveryKeepsData ==
  ASSUME VersionInv, DataInv, NEW by, PackageAndDeliver(by), notifier.version = Latest,
         UNCHANGED log
  PROVE  DataInv' /\ table' = List
<1> DEFINE c == notifier.changes
           f == Finalize(c)
           old == log[packaged].list
<1>1. /\ notifier'.version = notifier.version /\ notifier'.changes = NoChanges
      /\ packaged' = Latest /\ initialDelivered' = TRUE
  BY DEF PackageAndDeliver, VersionInv, Shape
<1>2. LogInv' /\ ChangesInv'
  BY DeliveryKeepsChanges DEF DataInv
<1>3. old \in RowList /\ List \in RowList /\ Describes(c, old, List)
  BY DeliveryKeepsChanges DEF DataInv
<1>4. /\ initialDelivered \in BOOLEAN /\ failure = Null
      /\ initialDelivered => table = old
      /\ ~initialDelivered => c = NoChanges
  BY DEF DataInv, TableInv
<1>5. /\ initialDelivered /\ IsEmpty(f) => UNCHANGED <<table, failure>>
      /\ ~(initialDelivered /\ IsEmpty(f)) => Block(f)
  BY DEF PackageAndDeliver
<1>7. IsEmpty(Finalize(NoChanges))
  BY FinalizeNone
<1>8. table' = List /\ failure' = Null
  <2>1. CASE initialDelivered /\ IsEmpty(f)
    <3>1. old = List
      BY <1>3, <2>1, EmptyDescribes
    <3> QED BY <1>4, <1>5, <2>1, <3>1
  <2>2. CASE ~initialDelivered
    <3>1. IsEmpty(f) /\ Block(f)
      BY <1>4, <1>5, <1>7, <2>2
    <3> QED BY <1>4, <3>1 DEF Block
  <2>3. CASE initialDelivered /\ ~IsEmpty(f)
    <3>1. table = old /\ table # Null /\ Block(f)
      BY <1>3, <1>4, <1>5, <2>3, NullIsNoList
    <3>2. old \in Seq(EntryRecord) /\ List \in Seq(EntryRecord)
      BY <1>3 DEF RowList
    <3>3. Leads(c, Len(old), Len(List))
      BY <1>3 DEF Describes
    <3>4. Fits(old, f, List) /\ BatchUpdate(old, f, List) = List
      <4>1. \A j \in DOMAIN List \ (c.insertions \cup c.modifications) : List[j] = old[OldPlace(j, c)]
        BY <1>3 DEF Describes
      <4> HIDE DEF c, old
      <4> QED BY <3>2, <3>3, <4>1, BatchRight DEF f
    <3> QED BY <1>4, <2>3, <3>1, <3>4 DEF Block
  <2> QED BY <1>4, <2>1, <2>2, <2>3
<1> HIDE DEF c, f, old
<1>9. TableInv'
  BY <1>1, <1>8 DEF TableInv, List
<1> QED BY <1>2, <1>8, <1>9 DEF DataInv

\* A commit of at most two changes adds the version that they lead to.
LEMMA CommitKeepsChanges ==
  ASSUME VersionInv, LogInv, ChangesInv, NEW ops, ValidOps(List, ops), NEW touched,
         NEW next \in {"free", "begin"}, CommitTransaction(ops, touched, next)
  PROVE  /\ LogInv' /\ ChangesInv'
         /\ packaged = Latest /\ notifier.version = Latest /\ Latest' = Latest + 1
         /\ log'[Latest].list = List /\ log'[Latest'].ops = ops
         /\ List \in RowList /\ List' = Written(List, ops, touched, Latest')
<1> DEFINE v == [list |-> Written(List, ops, touched, Latest + 1), ops |-> ops, touched |-> touched]
<1>1. /\ log' = Append(log, v) /\ main = "write" /\ main' = next
      /\ UNCHANGED <<notifier, packaged>>
  BY DEF CommitTransaction, blockVars
<1>2. log \in Seq(Versions) /\ Latest \in Nat /\ Latest >= 1 /\ DOMAIN log = 1 .. Latest
  BY LatestIsNat DEF VersionInv, Shape, Latest
<1>3. /\ log' \in Seq(Versions \cup {v}) /\ Latest' = Latest + 1 /\ DOMAIN log' = 1 .. (Latest + 1)
      /\ log'[Latest + 1] = v /\ \A k \in 1 .. Latest : log'[k] = log[k]
  <2> HIDE DEF v
  <2> QED BY <1>1, <1>2 DEF Latest
<1>4. packaged = Latest /\ notifier.version = Latest
  BY <1>1, <1>2 DEF VersionInv, AtMostOneBehind, Order, Shape
<1>5. List \in RowList
  BY <1>2 DEF LogInv, List
<1>6. v.list \in RowList
  BY <1>2, <1>5, WrittenDescribed
<1>7. /\ v.list = Written(List, ops, touched, Latest + 1)
      /\ v.ops = ops /\ v.touched = touched
  OBVIOUS
<1> HIDE DEF v
<1>8. log'[Latest].list = List /\ log'[Latest'] = v /\ List' = v.list
  <2>1. Latest \in 1 .. Latest
    BY <1>2
  <2> QED BY <1>3, <2>1 DEF List
<1>9. LogInv'
  <2>1. \A k \in DOMAIN log' : log'[k].list \in RowList
    BY <1>2, <1>3, <1>6 DEF LogInv
  <2>2. Latest' - 1 = Latest
    BY <1>2, <1>3
  <2>3. ValidOps(log'[Latest' - 1].list, log'[Latest'].ops)
    BY <1>7, <1>8, <2>2
  <2>4. List' = Written(log'[Latest' - 1].list, log'[Latest'].ops, log'[Latest'].touched, Latest')
    BY <1>3, <1>7, <1>8, <2>2
  <2> QED BY <2>1, <2>3, <2>4 DEF LogInv
<1>10. ChangesInv'
  <2>1. log'[packaged].list = log[packaged].list /\ packaged \in 1 .. Latest
    BY <1>2, <1>3, <1>4
  <2> QED BY <1>1, <1>4, <2>1 DEF ChangesInv
<1> QED BY <1>3, <1>4, <1>5, <1>7, <1>8, <1>9, <1>10

\* What a client commits is one transaction of at most two changes.
LEMMA CommitKeepsData ==
  ASSUME VersionInv, DataInv, NEW ops \in OpSeqs, NEW touched, NEW next \in {"free", "begin"},
         CommitTransaction(ops, touched, next)
  PROVE  DataInv' /\ table = List /\ table' = table
<1>1. ValidOps(List, ops)
  BY DEF OpSeqs, ValidOps
<1>2. /\ LogInv' /\ ChangesInv'
      /\ packaged = Latest /\ Latest' = Latest + 1 /\ log'[Latest].list = List
  BY <1>1, CommitKeepsChanges DEF DataInv
<1>3. /\ main = "write" /\ UNCHANGED <<initialDelivered, packaged, table, failure>>
  BY DEF CommitTransaction, blockVars
<1>4. initialDelivered /\ table = List
  BY <1>2, <1>3 DEF DataInv, TableInv, List
<1>5. TableInv'
  BY <1>2, <1>3, <1>4 DEF DataInv, TableInv
<1> QED BY <1>2, <1>3, <1>4, <1>5 DEF DataInv

\* What each step means to somebody who looks at the list and the table only.
Seen == \/ UNCHANGED <<List, table>>
        \/ table = List /\ UNCHANGED table
        \/ table' = List /\ UNCHANGED List

LEMMA DataStep == VersionInv /\ DataInv /\ [Next]_vars => DataInv' /\ Seen
<1> SUFFICES ASSUME VersionInv, DataInv, [Next]_vars PROVE DataInv' /\ Seen
  OBVIOUS
<1>1. CASE RunAsyncNotifiers \/ SignalRealms \/ BeginTransaction \/ UNCHANGED vars
  <2>1. /\ UNCHANGED <<log, notifier, packaged, initialDelivered, table, failure>>
        /\ main' \in {main, "begin"}
    BY <1>1 DEF RunAsyncNotifiers, SignalRealms, BeginTransaction, vars, blockVars
  <2> QED BY <2>1, DataSame DEF Seen, List, Latest
<1>2. CASE PrepareHandover
  BY <1>2, HandoverKeepsData DEF PrepareHandover, blockVars, Seen, List, Latest
<1>3. CASE ProcessAvailableAsync
  <2>1. CASE notifier.hasRun /\ notifier.version = Latest
    <3>1. PackageAndDeliver("run loop") /\ UNCHANGED log
      BY <1>3, <2>1 DEF ProcessAvailableAsync
    <3>2. UNCHANGED List
      BY <3>1 DEF List, Latest
    <3> QED BY <2>1, <3>1, <3>2, DeliveryKeepsData DEF Seen
  <2>2. CASE ~(notifier.hasRun /\ notifier.version = Latest)
    <3>1. UNCHANGED <<log, main, notifier, packaged, initialDelivered, table, failure>>
      BY <1>3, <2>2 DEF ProcessAvailableAsync, blockVars
    <3> QED BY <3>1, DataSame DEF Seen, List, Latest
  <2> QED BY <2>1, <2>2
<1>4. CASE PackageAndWait
  <2>1. notifier.version = Latest
    BY <1>4, LatestIsNat DEF PackageAndWait, NotifierReady, VersionInv, Shape, Order
  <2>2. PackageAndDeliver("begin") /\ UNCHANGED log
    BY <1>4 DEF PackageAndWait
  <2>3. UNCHANGED List
    BY <2>2 DEF List, Latest
  <2> QED BY <2>1, <2>2, <2>3, DeliveryKeepsData DEF Seen
<1>5. CASE ClientCommit
  <2>1. PICK ops \in OpSeqs : \E touched : CommitTransaction(ops, touched, "free")
    BY <1>5 DEF ClientCommit
  <2>2. PICK touched : CommitTransaction(ops, touched, "free")
    BY <2>1
  <2> QED BY <2>2, CommitKeepsData DEF Seen
<1> QED BY <1>1, <1>2, <1>3, <1>4, <1>5 DEF Next, Runtime, Listener

LEMMA DataHolds == Spec => [](VersionInv /\ DataInv)
<1>1. Init => VersionInv /\ DataInv
  BY VersionInit, DataInit
<1>2. VersionInv /\ DataInv /\ [Next]_vars => (VersionInv /\ DataInv)'
  BY StepKeeps, DataStep
<1> QED BY <1>1, <1>2, PTL DEF Spec

\* Whatever the transactions and however late the listener thread is, the batch of
\* updates fits the rows of the live list: UIKit never raises its exception.
THEOREM Fitting == Spec => []TableFits
<1>1. VersionInv /\ DataInv => TableFits
  BY NotifierAssumption DEF DataInv, TableInv, TableFits
<1> QED BY <1>1, DataHolds, PTL

\* The notifications are what ListWatch asks for: each brings the table exactly up to
\* date, and the list does not change again before the table has caught up.
THEOREM Watching == Spec => ImplementsListWatch
<1>1. Init => Watch!Init
  <2> SUFFICES ASSUME Init PROVE Watch!Init
    OBVIOUS
  <2>1. List \in RowList /\ table = Null
    BY VersionInit, DataInit, VersionsExist DEF DataInv, LogInv, List, Init
  <2> QED BY <2>1, NullIsNoList DEF Watch!Init, Shown
<1>2. VersionInv /\ DataInv /\ [Next]_vars => [Watch!Next]_<<List, Shown>>
  <2> SUFFICES ASSUME VersionInv, DataInv, Seen PROVE [Watch!Next]_<<List, Shown>>
    BY DataStep
  <2>1. List \in RowList
    BY VersionsExist DEF DataInv, LogInv, List
  <2>2. Null # List /\ <<Null>> # List
    BY <2>1, NullIsNoList
  <2>3. CASE UNCHANGED <<List, table>>
    BY <2>3 DEF Shown
  <2>4. CASE table = List /\ UNCHANGED table
    BY <2>2, <2>4 DEF Shown, Watch!Next, Watch!Change
  <2>5. CASE table' = List /\ UNCHANGED List
    BY <2>2, <2>5 DEF Shown, Watch!Next, Watch!Notice
  <2> QED BY <2>3, <2>4, <2>5 DEF Seen
<1> QED BY <1>1, <1>2, DataHolds, PTL DEF Spec, ImplementsListWatch, Watch!Spec

(***************************************************************************)
(* GroupList: for any rows, texts, tags and number of versions, what the   *)
(* editors show is what is stored or will be, and what is deleted, shown   *)
(* and counted by the list is right although the table may be one          *)
(* transaction behind the live list.                                       *)
(***************************************************************************)

-----------------------------------------------------------------------------
(* The items and the editor.                                               *)

Editor == [row : Row, text : Text, chips : Seq(Tag)]

\* Every item has its HashTags, and none of them twice.
ItemsInv ==
  /\ items \in [Row -> Item \cup {Null}]
  /\ hashTags \subseteq Tag
  /\ \A r \in Row : items[r] # Null =>
       IsInjective(items[r].tags) /\ ToSet(items[r].tags) \subseteq hashTags

\* The editor shows the tags of its item; its text is the one last shown, and that
\* of every other item is stored.
EditorInv ==
  /\ editor \in Editor \cup {Null}
  /\ typed \in [Row -> Text \cup {Null}]
  /\ editor # Null => /\ items[editor.row] # Null
                      /\ items[editor.row].tags = editor.chips
                      /\ typed[editor.row] = editor.text
  /\ \A r \in Row : items[r] # Null /\ (editor = Null \/ editor.row # r)
                      => items[r].text = typed[r]

\* The next tag is not on the screen yet.
TagsAhead(rest) == rest \in Seq(Tag) /\ rest # <<>> /\ Head(rest) \notin ToSet(editor.chips)

\* What a callback has decided before its transaction still stands inside it.
DoingInv ==
  doing # Null =>
    \/ doing.op \in {"add", "delete"} /\ editor = Null
    \/ doing.op = "save" /\ editor # Null
    \/ /\ doing.op \in {"hashTag", "append"} /\ editor # Null
       /\ doing = [op |-> doing.op, rest |-> doing.rest]
       /\ TagsAhead(doing.rest)
       /\ doing.op = "append" => Head(doing.rest) \in hashTags

AppInv == ItemsInv /\ EditorInv /\ DoingInv

\* No item goes away.
ItemsStay == \A r \in Row : items[r] # Null => items'[r] # Null

LEMMA SkipIs ==
  ASSUME NEW rest \in Seq(Tag), NEW chips \in Seq(Tag)
  PROVE  /\ Skip(rest, chips) \in Seq(Tag)
         /\ Skip(rest, chips) # <<>> => Head(Skip(rest, chips)) \notin ToSet(chips)
<1> DEFINE I == {i \in 1 .. Len(rest) : rest[i] \notin ToSet(chips)}
           next == IF I # {} THEN Min(I) ELSE 0
<1>1. Skip(rest, chips) = IF next = 0 THEN <<>> ELSE SubSeq(rest, next, Len(rest))
  BY DEF Skip, SelectInSeq
<1>2. CASE I = {}
  BY <1>1, <1>2
<1>3. CASE I # {}
  <2>1. I \in SUBSET Nat
    OBVIOUS
  <2>2. \E x \in I : \A y \in I : x <= y
    <3> HIDE DEF I
    <3> QED BY <1>3, <2>1, LeastNat
  <2>3. Min(I) \in I
    <3> HIDE DEF I
    <3> QED BY <2>2 DEF Min
  <2> DEFINE n == Min(I)
  <2>4. n \in 1 .. Len(rest) /\ rest[n] \notin ToSet(chips)
    BY <2>3
  <2>5. Skip(rest, chips) = SubSeq(rest, n, Len(rest))
    <3>1. next = n
      BY <1>3, Zenon
    <3>2. n # 0
      BY <2>4
    <3> HIDE DEF next, n
    <3> QED BY <1>1, <3>1, <3>2
  <2> HIDE DEF n, I
  <2>6. SubSeq(rest, n, Len(rest)) \in Seq(Tag) /\ Head(SubSeq(rest, n, Len(rest))) = rest[n]
    BY <2>4
  <2> QED BY <2>4, <2>5, <2>6
<1> QED BY <1>2, <1>3

LEMMA AppendFresh ==
  ASSUME NEW s \in Seq(Tag), IsInjective(s), NEW t \in Tag, t \notin ToSet(s)
  PROVE  /\ Append(s, t) \in Seq(Tag) /\ IsInjective(Append(s, t))
         /\ ToSet(Append(s, t)) = ToSet(s) \cup {t}
<1> DEFINE a == Append(s, t)
<1>1. /\ a \in Seq(Tag) /\ DOMAIN a = 1 .. (Len(s) + 1) /\ DOMAIN s = 1 .. Len(s)
      /\ a[Len(s) + 1] = t /\ \A i \in 1 .. Len(s) : a[i] = s[i]
  OBVIOUS
<1> HIDE DEF a
<1>2. \A i \in 1 .. Len(s) : s[i] # t
  BY <1>1 DEF ToSet
<1>3. IsInjective(a)
  <2>1. ASSUME NEW i \in DOMAIN a, NEW j \in DOMAIN a, a[i] = a[j] PROVE i = j
    <3>1. Len(s) \in Nat
      OBVIOUS
    <3>2. (i \in 1 .. Len(s) \/ i = Len(s) + 1) /\ (j \in 1 .. Len(s) \/ j = Len(s) + 1)
      BY <1>1, <3>1
    <3>3. CASE i \in 1 .. Len(s) /\ j \in 1 .. Len(s)
      <4>1. s[i] = s[j]
        BY <1>1, <2>1, <3>3
      <4> QED BY <1>1, <3>3, <4>1 DEF IsInjective
    <3> QED BY <1>1, <1>2, <2>1, <3>2, <3>3
  <2> QED BY <2>1 DEF IsInjective
<1>4. ToSet(a) = ToSet(s) \cup {t}
  <2>1. Len(s) \in Nat /\ 1 .. (Len(s) + 1) = 1 .. Len(s) \cup {Len(s) + 1}
    OBVIOUS
  <2> QED BY <1>1, <2>1 DEF ToSet
<1> QED BY <1>1, <1>3, <1>4 DEF a

LEMMA AppInit == ListInit => AppInv
<1> SUFFICES ASSUME ListInit PROVE AppInv
  OBVIOUS
<1>1. Blank \in Text /\ NewItem \in Item
  BY ListAssumption DEF NewItem, Item
<1>2. NewItem.tags = <<>> /\ NewItem.text = Blank /\ IsInjective(<<>>) /\ ToSet(<<>>) = {}
  BY DEF NewItem, IsInjective, ToSet
<1>3. ItemsInv
  BY <1>1, <1>2 DEF ListInit, ItemsInv
<1>4. EditorInv
  BY <1>1, <1>2 DEF ListInit, EditorInv
<1> QED BY <1>3, <1>4 DEF ListInit, AppInv, DoingInv

\* No step of the runtime, and no look at the list, touches what the editors use.
LEMMA AppSame == AppInv /\ UNCHANGED <<items, hashTags, typed, editor, doing>> => AppInv'
BY DEF AppInv, ItemsInv, EditorInv, DoingInv, TagsAhead

LEMMA AddKeepsApp == AppInv /\ SetAdd => AppInv' /\ ItemsStay
<1> SUFFICES ASSUME AppInv, SetAdd PROVE AppInv' /\ ItemsStay
  OBVIOUS
<1>1. PICK r \in Row : /\ items[r] = Null
                       /\ items' = [items EXCEPT ![r] = NewItem]
                       /\ typed' = [typed EXCEPT ![r] = Blank]
                       /\ editor' = [row |-> r, text |-> Blank, chips |-> <<>>]
  BY DEF SetAdd
<1>2. doing' = Null /\ UNCHANGED hashTags /\ doing # Null /\ doing.op = "add"
  BY DEF SetAdd
<1>3. NewItem \in Item /\ NewItem.tags = <<>> /\ NewItem.text = Blank /\ Blank \in Text
      /\ Null \notin Item
  BY ListAssumption DEF NewItem, Item
<1>4. editor = Null
  BY <1>2 DEF AppInv, DoingInv
<1>5. items \in [Row -> Item \cup {Null}] /\ typed \in [Row -> Text \cup {Null}]
  BY DEF AppInv, ItemsInv, EditorInv
<1>6. /\ items' \in [Row -> Item \cup {Null}] /\ typed' \in [Row -> Text \cup {Null}]
      /\ items'[r] = NewItem /\ typed'[r] = Blank
      /\ \A s \in Row \ {r} : items'[s] = items[s] /\ typed'[s] = typed[s]
  BY <1>1, <1>3, <1>5
<1>7. /\ editor' \in Editor /\ Null \notin Editor
      /\ editor'.row = r /\ editor'.text = Blank /\ editor'.chips = <<>>
  BY <1>1, <1>3, ListAssumption DEF Editor
<1>8. IsInjective(<<>>) /\ ToSet(<<>>) = {}
  BY DEF IsInjective, ToSet
<1>9. ItemsInv'
  BY <1>2, <1>3, <1>6, <1>8 DEF AppInv, ItemsInv
<1>10. EditorInv'
  BY <1>3, <1>4, <1>6, <1>7 DEF AppInv, EditorInv
<1>11. ItemsStay
  BY <1>3, <1>6 DEF ItemsStay
<1> QED BY <1>2, <1>9, <1>10, <1>11 DEF AppInv, DoingInv

LEMMA TypeKeepsApp == ASSUME AppInv, NEW t \in Text, Type(t) PROVE AppInv'
<1>1. /\ editor # Null /\ doing = Null
      /\ editor' = [editor EXCEPT !.text = t]
      /\ typed' = [typed EXCEPT ![editor.row] = t]
      /\ UNCHANGED <<items, hashTags, doing>>
  BY DEF Type, OnEditor, Free
<1>2. editor \in Editor /\ typed \in [Row -> Text \cup {Null}] /\ editor.row \in Row
  BY <1>1 DEF AppInv, EditorInv, Editor
<1>3. /\ editor' \in Editor /\ Null \notin Editor
      /\ editor'.row = editor.row /\ editor'.text = t /\ editor'.chips = editor.chips
  BY <1>1, <1>2, ListAssumption DEF Editor
<1>4. /\ typed' \in [Row -> Text \cup {Null}] /\ typed'[editor.row] = t
      /\ \A s \in Row \ {editor.row} : typed'[s] = typed[s]
  BY <1>1, <1>2
<1>5. EditorInv'
  BY <1>1, <1>2, <1>3, <1>4 DEF AppInv, EditorInv
<1> QED BY <1>1, <1>5 DEF AppInv, ItemsInv, DoingInv

\* What the add button leaves to do, with the tags that exist and those on the screen.
LEMMA NextTag ==
  ASSUME NEW rest \in Seq(Tag), rest # <<>>, NEW tags, NEW chips, Head(rest) \notin ToSet(chips)
  PROVE  LET d == [op |-> TagOp(Head(rest), tags), rest |-> rest]
         IN  /\ d.op \in {"hashTag", "append"} /\ d = [op |-> d.op, rest |-> d.rest]
             /\ d.rest = rest
             /\ d.op = "append" => Head(rest) \in tags
  BY DEF TagOp

LEMMA AddTagKeepsApp == ASSUME AppInv, NEW input \in Inputs, AddTag(input) PROVE AppInv'
<1> DEFINE rest == Skip(input, editor.chips)
           d == [op |-> TagOp(Head(rest), hashTags), rest |-> rest]
<1>1. /\ editor # Null /\ rest # <<>> /\ doing' = d
      /\ UNCHANGED <<items, hashTags, typed, editor>>
  BY DEF AddTag, OnEditor, dataVars
<1>2. editor.chips \in Seq(Tag) /\ input \in Seq(Tag)
  BY <1>1, ListAssumption DEF AppInv, EditorInv, Editor
<1>3. rest \in Seq(Tag) /\ Head(rest) \notin ToSet(editor.chips)
  BY <1>1, <1>2, SkipIs
<1>4. /\ d.op \in {"hashTag", "append"} /\ d = [op |-> d.op, rest |-> d.rest]
      /\ d.rest = rest /\ (d.op = "append" => Head(rest) \in hashTags)
  <2> HIDE DEF rest
  <2> QED BY <1>1, <1>3, NextTag
<1> HIDE DEF d, rest
<1>5. DoingInv'
  BY <1>1, <1>3, <1>4 DEF DoingInv, TagsAhead
<1> QED BY <1>1, <1>5 DEF AppInv, ItemsInv, EditorInv

LEMMA HashTagKeepsApp == AppInv /\ CreateHashTag => AppInv'
<1> SUFFICES ASSUME AppInv, CreateHashTag PROVE AppInv'
  OBVIOUS
<1>1. /\ doing # Null /\ doing.op = "hashTag"
      /\ hashTags' = hashTags \cup {Head(doing.rest)}
      /\ doing' = [doing EXCEPT !.op = "append"]
      /\ UNCHANGED <<items, typed, editor>>
  BY DEF CreateHashTag
<1>2. /\ editor # Null /\ doing = [op |-> doing.op, rest |-> doing.rest] /\ TagsAhead(doing.rest)
  BY <1>1 DEF AppInv, DoingInv
<1>3. Head(doing.rest) \in Tag
  BY <1>2 DEF TagsAhead
<1>4. ItemsInv'
  BY <1>1, <1>3 DEF AppInv, ItemsInv
<1>5. EditorInv'
  BY <1>1 DEF AppInv, EditorInv
<1>6. doing' = [op |-> "append", rest |-> doing.rest]
  <2> DEFINE r == doing.rest
             o == doing.op
  <2>1. doing = [op |-> o, rest |-> r]
    BY <1>2
  <2> HIDE DEF r, o
  <2>2. [doing EXCEPT !.op = "append"] = [op |-> "append", rest |-> r]
    BY <2>1
  <2> QED BY <1>1, <2>2 DEF r
<1>7. doing'.op = "append" /\ doing'.rest = doing.rest
  BY <1>6
<1>8. DoingInv'
  BY <1>1, <1>2, <1>6, <1>7 DEF DoingInv, TagsAhead
<1> QED BY <1>4, <1>5, <1>8 DEF AppInv

LEMMA AppendKeepsApp == AppInv /\ AppendTag => AppInv' /\ ItemsStay
<1> SUFFICES ASSUME AppInv, AppendTag PROVE AppInv' /\ ItemsStay
  OBVIOUS
<1> DEFINE tag == Head(doing.rest)
           chips == Append(editor.chips, tag)
           rest == Skip(Tail(doing.rest), chips)
           d == [op |-> TagOp(Head(rest), hashTags), rest |-> rest]
           row == editor.row
<1>1. /\ doing # Null /\ doing.op = "append"
      /\ items' = [items EXCEPT ![row].tags = Append(@, tag)]
      /\ editor' = [editor EXCEPT !.chips = chips]
      /\ doing' = IF rest = <<>> THEN Null ELSE d
      /\ UNCHANGED <<hashTags, typed>>
  BY DEF AppendTag
<1>2. /\ editor # Null /\ TagsAhead(doing.rest) /\ tag \in hashTags
  BY <1>1 DEF AppInv, DoingInv
<1>3. /\ editor \in Editor /\ row \in Row /\ items[row] # Null /\ items[row] \in Item
      /\ items[row].tags = editor.chips /\ typed[row] = editor.text
      /\ items \in [Row -> Item \cup {Null}] /\ hashTags \subseteq Tag
      /\ IsInjective(editor.chips) /\ ToSet(editor.chips) \subseteq hashTags
  BY <1>2 DEF AppInv, EditorInv, ItemsInv, Editor
<1>4. editor.chips \in Seq(Tag) /\ tag \in Tag /\ tag \notin ToSet(editor.chips)
      /\ Tail(doing.rest) \in Seq(Tag)
  BY <1>2, <1>3 DEF TagsAhead, Editor
<1>5. chips \in Seq(Tag) /\ IsInjective(chips) /\ ToSet(chips) = ToSet(editor.chips) \cup {tag}
  BY <1>3, <1>4, AppendFresh
<1>6. rest \in Seq(Tag) /\ (rest # <<>> => Head(rest) \notin ToSet(chips))
  BY <1>4, <1>5, SkipIs
<1>7. rest # <<>> => /\ d.op \in {"hashTag", "append"} /\ d = [op |-> d.op, rest |-> d.rest]
                     /\ d.rest = rest /\ (d.op = "append" => Head(rest) \in hashTags)
  <2> HIDE DEF rest
  <2> QED BY <1>6, NextTag
<1>8. items' = [items EXCEPT ![row].tags = chips]
  BY <1>1, <1>3
<1> HIDE DEF tag, chips, rest, d
<1>9. /\ items' \in [Row -> Item \cup {Null}]
      /\ items'[row] \in Item /\ items'[row].tags = chips /\ items'[row].text = items[row].text
      /\ \A s \in Row \ {row} : items'[s] = items[s]
  BY <1>3, <1>5, <1>8 DEF Item
<1>10. /\ editor' \in Editor /\ editor'.row = row /\ editor'.text = editor.text
       /\ editor'.chips = chips
  BY <1>1, <1>3, <1>5 DEF Editor
<1>11. Null \notin Editor /\ Null \notin Item
  BY ListAssumption DEF Editor, Item
<1>12. ItemsInv'
  BY <1>1, <1>2, <1>3, <1>5, <1>9 DEF AppInv, ItemsInv
<1>13. EditorInv'
  BY <1>1, <1>2, <1>3, <1>9, <1>10, <1>11 DEF AppInv, EditorInv
<1>14. DoingInv'
  BY <1>1, <1>6, <1>7, <1>10, <1>11 DEF DoingInv, TagsAhead
<1>15. ItemsStay
  BY <1>9, <1>11 DEF ItemsStay
<1> QED BY <1>12, <1>13, <1>14, <1>15 DEF AppInv

LEMMA SaveKeepsApp == AppInv /\ Save => AppInv' /\ ItemsStay
<1> SUFFICES ASSUME AppInv, Save PROVE AppInv' /\ ItemsStay
  OBVIOUS
<1> DEFINE row == editor.row
<1>1. /\ doing # Null /\ doing.op = "save" /\ doing' = Null
      /\ items' = [items EXCEPT ![row].text = editor.text]
      /\ editor' \in {Null, editor}
      /\ UNCHANGED <<hashTags, typed>>
  BY DEF Save
<1>2. editor # Null
  BY <1>1 DEF AppInv, DoingInv
<1>3. /\ editor \in Editor /\ row \in Row /\ items[row] # Null /\ items[row] \in Item
      /\ items[row].tags = editor.chips /\ typed[row] = editor.text /\ editor.text \in Text
      /\ items \in [Row -> Item \cup {Null}]
  BY <1>2 DEF AppInv, EditorInv, ItemsInv, Editor
<1>4. /\ items' \in [Row -> Item \cup {Null}]
      /\ items'[row] \in Item /\ items'[row].tags = items[row].tags /\ items'[row].text = editor.text
      /\ \A s \in Row \ {row} : items'[s] = items[s]
  BY <1>1, <1>3 DEF Item
<1>5. Null \notin Item
  BY ListAssumption DEF Item
<1>6. ItemsInv'
  BY <1>1, <1>3, <1>4 DEF AppInv, ItemsInv
<1>7. EditorInv'
  BY <1>1, <1>2, <1>3, <1>4, <1>5 DEF AppInv, EditorInv
<1>8. ItemsStay
  BY <1>4, <1>5 DEF ItemsStay
<1> QED BY <1>1, <1>6, <1>7, <1>8 DEF AppInv, DoingInv

LEMMA RelaunchKeepsApp == AppInv /\ Relaunch => AppInv'
<1> SUFFICES ASSUME AppInv, Relaunch PROVE AppInv'
  OBVIOUS
<1>1. /\ typed' = [r \in Row |-> IF items[r] = Null THEN Null ELSE items[r].text]
      /\ editor' = Null /\ doing' = Null /\ UNCHANGED <<items, hashTags>>
  BY DEF Relaunch
<1>2. \A r \in Row : items[r] # Null => items[r].text \in Text
  BY DEF AppInv, ItemsInv, Item
<1>3. EditorInv'
  BY <1>1, <1>2 DEF EditorInv
<1> QED BY <1>1, <1>3 DEF AppInv, ItemsInv, DoingInv

\* A callback begins, in the list or in an editor.
LEMMA BeginsKeepApp ==
  ASSUME AppInv, \/ SelectAdd \/ \E i : SelectDelete(i) \/ \E gone \in BOOLEAN : Disappear(gone)
  PROVE  AppInv'
<1>1. UNCHANGED <<items, hashTags, typed, editor>>
  BY DEF SelectAdd, SelectDelete, Disappear, dataVars
<1>2. CASE SelectAdd
  <2>1. editor = Null /\ doing'.op = "add"
    BY <1>2 DEF SelectAdd, OnList
  <2> QED BY <1>1, <2>1 DEF AppInv, ItemsInv, EditorInv, DoingInv
<1>3. CASE \E i : SelectDelete(i)
  <2>1. editor = Null /\ doing'.op = "delete"
    BY <1>3 DEF SelectDelete, OnList
  <2> QED BY <1>1, <2>1 DEF AppInv, ItemsInv, EditorInv, DoingInv
<1>4. CASE \E gone \in BOOLEAN : Disappear(gone)
  <2>1. editor # Null /\ doing'.op = "save"
    BY <1>4 DEF Disappear, OnEditor
  <2> QED BY <1>1, <2>1 DEF AppInv, ItemsInv, EditorInv, DoingInv
<1> QED BY <1>2, <1>3, <1>4

LEMMA AppStep == AppInv /\ [ListNext]_allVars => AppInv'
<1> SUFFICES ASSUME AppInv, [ListNext]_allVars PROVE AppInv'
  OBVIOUS
<1> USE DEF appVars, dataVars
<1>1. CASE ListenerStep \/ RunLoopStep \/ WaitStep \/ UNCHANGED allVars
  BY <1>1, AppSame DEF ListenerStep, RunLoopStep, WaitStep, allVars
<1>2. CASE Callback
  <2>1. CASE Delete
    <3>1. UNCHANGED <<items, hashTags, typed, editor>> /\ doing' = Null
      BY <2>1 DEF Delete
    <3> QED BY <3>1 DEF AppInv, ItemsInv, EditorInv, DoingInv
  <2> QED BY <1>2, <2>1, AddKeepsApp, HashTagKeepsApp, AppendKeepsApp, SaveKeepsApp DEF Callback
<1>3. CASE OnTable
  <2>1. PICK i \in DOMAIN table : SelectDelete(i) \/ CellForRow(i) \/ EditGroup(i)
    BY <1>3 DEF OnTable
  <2>2. CASE SelectDelete(i)
    BY <2>2, BeginsKeepApp
  <2>3. CASE CellForRow(i) \/ EditGroup(i)
    BY <2>3, AppSame DEF CellForRow, EditGroup, Fail
  <2> QED BY <2>1, <2>2, <2>3
<1>4. CASE User
  <2>1. CASE SelectAdd \/ \E gone \in BOOLEAN : Disappear(gone)
    BY <2>1, BeginsKeepApp
  <2>2. CASE \E t \in Text : Type(t)
    BY <2>2, TypeKeepsApp
  <2>3. CASE \E input \in Inputs : AddTag(input)
    BY <2>3, AddTagKeepsApp
  <2> QED BY <1>3, <1>4, <2>1, <2>2, <2>3 DEF User
<1>5. CASE IndexOutOfBounds
  BY <1>5, AppSame DEF IndexOutOfBounds, Fail
<1>6. CASE Relaunch
  BY <1>6, RelaunchKeepsApp
<1> QED BY <1>1, <1>2, <1>4, <1>5, <1>6 DEF ListNext

LEMMA AppHolds == ListSpec => []AppInv
  BY AppInit, AppStep, PTL DEF ListSpec

\* Whatever is typed, and however the adding of tags is cut into transactions, the
\* tags stored with an item are those its editor shows, each of them once and with
\* its HashTag.
THEOREM Tags == ListSpec => []TagsStored
<1>1. AppInv => TagsStored
  BY DEF AppInv, ItemsInv, EditorInv, TagsStored
<1> QED BY <1>1, AppHolds, PTL

\* The text of every item is the one last typed, as soon as no editor is open and
\* unless the process died with one.
THEOREM Kept == ListSpec => []TextKept
<1>1. AppInv => TextKept
  BY DEF AppInv, EditorInv, TextKept
<1> QED BY <1>1, AppHolds, PTL

-----------------------------------------------------------------------------
(* The list and the table.                                                 *)

NotifierInv == VersionInv /\ LogInv /\ ChangesInv

\* The table has the rows it was last told of.  A cell shows its row as it was
\* then or, if it was filled later, as it is now; unless one was filled for
\* another row.
ScreenInv ==
  /\ failure \in {Null, "index out of bounds", "cast"}
  /\ initialDelivered \in BOOLEAN
  /\ ~initialDelivered => /\ Latest = 1 /\ main # "write"
                          /\ notifier.changes = NoChanges /\ table = Null
  /\ initialDelivered =>
       LET old == log[packaged].list
       IN  /\ table \in Seq(EntryRecord) /\ Len(table) = Len(old)
           /\ ~misread => \A i \in DOMAIN table :
                /\ table[i].row = old[i].row
                /\ table[i] = old[i] \/ (i \in DOMAIN List /\ table[i] = List[i])

\* What a callback commits changes the list by one row at most.
OneOp ==
  Latest > 1 =>
    \/ log[Latest].ops = <<>>
    \/ \E o \in Ops(log[Latest - 1].list) : log[Latest].ops = <<o>>

\* A row of the list has its item.
RowsKnown == \A i \in DOMAIN List : items[List[i].row] # Null

\* The row that is about to be deleted.
DeleteInv ==
  doing # Null /\ doing.op = "delete" =>
    /\ doing.at \in DOMAIN List
    /\ \/ List[doing.at].row = doing.row
       \/ doing.behind /\ List[doing.at].row = doing.below
       \/ doing.misread

ListInv == /\ NotifierInv /\ ScreenInv
           /\ OneOp /\ RowsKnown /\ DeleteInv /\ DeleteHitsTouched

-----------------------------------------------------------------------------
(* The rows after a transaction.                                           *)

\* Touched entries get a new stamp and keep their rows.
LEMMA WrittenRows ==
  ASSUME NEW l, NEW ops, NEW touched, NEW v \in Nat,
         FoldLeft(Changed, l, ops) \in Seq(EntryRecord)
  PROVE  LET moved == FoldLeft(Changed, l, ops)
             w == Written(l, ops, touched, v)
         IN  Len(w) = Len(moved) /\ \A i \in DOMAIN moved : w[i].row = moved[i].row
<1> DEFINE moved == FoldLeft(Changed, l, ops)
           w == Written(l, ops, touched, v)
<1>1. w = [i \in DOMAIN moved |-> IF moved[i].row \in touched THEN Entry(moved[i].row, v) ELSE moved[i]]
  BY DEF Written
<1>2. moved \in Seq(EntryRecord)
  OBVIOUS
<1> HIDE DEF moved, w
<1>3. DOMAIN moved = 1 .. Len(moved) /\ Len(moved) \in Nat
  BY <1>2
<1>4. w \in Seq({w[i] : i \in DOMAIN moved}) /\ Len(w) = Len(moved)
  <2>1. DOMAIN w = 1 .. Len(moved) /\ w = [i \in 1 .. Len(moved) |-> w[i]]
    BY <1>1, <1>3
  <2> QED BY <1>3, <2>1
<1>5. \A i \in DOMAIN moved : w[i].row = moved[i].row
  BY <1>1 DEF Entry
<1> QED BY <1>4, <1>5 DEF moved, w

LEMMA NothingWritten ==
  ASSUME NEW l \in RowList, NEW touched, NEW v \in Nat
  PROVE  LET w == Written(l, <<>>, touched, v)
         IN  Len(w) = Len(l) /\ \A i \in DOMAIN l : w[i].row = l[i].row
<1>1. FoldLeft(Changed, l, <<>>) = l /\ l \in Seq(EntryRecord)
  BY FoldChanged DEF RowList
<1> QED BY <1>1, WrittenRows

LEMMA AppendedEntry ==
  ASSUME NEW l \in Seq(EntryRecord), NEW e \in EntryRecord
  PROVE  LET m == InsertAt(l, Len(l) + 1, e)
         IN  m[Len(l) + 1] = e /\ \A i \in 1 .. Len(l) : m[i] = l[i]
<1>1. Len(l) \in Nat /\ Len(l) + 1 \in 1 .. (Len(l) + 1)
  OBVIOUS
<1>2. SubSeq(l, 1, Len(l)) = l /\ SubSeq(l, Len(l) + 1, Len(l)) = <<>>
  BY <1>1
<1>3. InsertAt(l, Len(l) + 1, e) = SubSeq(l, 1, Len(l) + 1 - 1) \o <<e>> \o SubSeq(l, Len(l) + 1, Len(l))
  BY DEF InsertAt
<1>4. InsertAt(l, Len(l) + 1, e) = Append(l, e)
  BY <1>1, <1>2, <1>3
<1> QED BY <1>1, <1>4

LEMMA RowAppended ==
  ASSUME NEW l \in RowList, NEW r \in Row, NEW touched, NEW v \in Nat
  PROVE  LET w == Written(l, <<Insertion(Len(l) + 1, r)>>, touched, v)
         IN  /\ Len(w) = Len(l) + 1 /\ w[Len(l) + 1].row = r
             /\ \A i \in 1 .. Len(l) : w[i].row = l[i].row
<1> DEFINE o == Insertion(Len(l) + 1, r)
           new == Changed(l, o)
           w == Written(l, <<o>>, touched, v)
           e == Entry(r, 0)
<1>1. l \in Seq(EntryRecord) /\ Len(l) \in Nat
  BY DEF RowList
<1>2. e \in EntryRecord /\ e.row = r
  BY DEF Entry, EntryRecord
<1>3. new = InsertAt(l, Len(l) + 1, e)
  BY DEF Changed, Insertion
<1> HIDE DEF new, e
<1>4. Len(l) + 1 \in 1 .. (Len(l) + 1)
  BY <1>1
<1>5. new \in Seq(EntryRecord) /\ Len(new) = Len(l) + 1
  BY <1>1, <1>2, <1>3, <1>4, InsertEntry, Zenon
<1>6. new[Len(l) + 1] = e /\ \A i \in 1 .. Len(l) : new[i] = l[i]
  BY <1>1, <1>2, <1>3, AppendedEntry, Zenon
<1>7. FoldLeft(Changed, l, <<o>>) = new
  BY FoldChanged DEF new
<1> HIDE DEF o
<1>8. Len(w) = Len(new) /\ \A i \in DOMAIN new : w[i].row = new[i].row
  BY <1>5, <1>7, WrittenRows
<1>9. DOMAIN new = 1 .. (Len(l) + 1)
  BY <1>5
<1> HIDE DEF w
<1>10. w[Len(l) + 1].row = r
  BY <1>2, <1>4, <1>6, <1>8, <1>9
<1>11. \A i \in 1 .. Len(l) : w[i].row = l[i].row
  BY <1>1, <1>6, <1>8, <1>9
<1> QED BY <1>5, <1>8, <1>10, <1>11 DEF w, o

LEMMA RowErased ==
  ASSUME NEW l \in RowList, NEW k \in DOMAIN l, NEW touched, NEW v \in Nat
  PROVE  LET w == Written(l, <<Erasure(k)>>, touched, v)
         IN  /\ Len(w) = Len(l) - 1
             /\ \A i \in 1 .. (Len(l) - 1) : w[i].row = IF i < k THEN l[i].row ELSE l[i + 1].row
<1> DEFINE o == Erasure(k)
           new == Changed(l, o)
           w == Written(l, <<o>>, touched, v)
<1>1. l \in Seq(EntryRecord) /\ Len(l) \in Nat /\ DOMAIN l = 1 .. Len(l)
  BY DEF RowList
<1>2. new = RemoveAt(l, k)
  BY DEF Changed, Erasure
<1> HIDE DEF new
<1>3. /\ new \in Seq(EntryRecord) /\ Len(new) = Len(l) - 1
      /\ \A j \in 1 .. (Len(l) - 1) : new[j] = IF j < k THEN l[j] ELSE l[j + 1]
  BY <1>1, <1>2, RemoveAtIs
<1>4. FoldLeft(Changed, l, <<o>>) = new
  BY FoldChanged DEF new
<1> HIDE DEF o
<1>5. Len(w) = Len(new) /\ \A i \in DOMAIN new : w[i].row = new[i].row
  BY <1>3, <1>4, WrittenRows
<1>6. DOMAIN new = 1 .. (Len(l) - 1)
  BY <1>3
<1> HIDE DEF w
<1> QED BY <1>3, <1>5, <1>6 DEF w, o

-----------------------------------------------------------------------------
(* The call of the block.                                                  *)

LEMMA SameEntries ==
  ASSUME NEW a \in Seq(EntryRecord), NEW b \in Seq(EntryRecord), Len(a) = Len(b),
         \A i \in DOMAIN a : a[i] = b[i]
  PROVE  a = b
  OBVIOUS

\* A batch of updates makes rows of the live list and of the table.
LEMMA BatchRows ==
  ASSUME NEW a \in Seq(EntryRecord), NEW b \in Seq(EntryRecord), NEW c,
         Leads(c, Len(a), Len(b))
  PROVE  /\ BatchUpdate(a, Finalize(c), b) \in Seq(EntryRecord)
         /\ Len(BatchUpdate(a, Finalize(c), b)) = Len(b)
<1> DEFINE f == Finalize(c)
           t == BatchUpdate(a, f, b)
<1>1. IsChangeSet(c) /\ IsChange(c)
  BY DEF Leads, IsChangeSet
<1>2. f.insertions = c.insertions
  BY <1>1, FinalizeParts
<1> HIDE DEF f
<1>3. DOMAIN a = 1 .. Len(a) /\ DOMAIN b = 1 .. Len(b) /\ Len(a) \in Nat /\ Len(b) \in Nat
  OBVIOUS
<1>4. ASSUME NEW j \in DOMAIN b, j \notin f.insertions PROVE OldPosition(j, f) \in DOMAIN a
  <2>1. j \in Position \ c.insertions /\ j <= Len(b)
    BY <1>2, <1>3, <1>4 DEF Position
  <2>2. OldPosition(j, f) = OldPlace(j, c)
    BY <1>1, <2>1, OldPositionIs DEF f
  <2>3. OldPlace(j, c) \in Position /\ OldPlace(j, c) <= Len(a)
    BY <1>1, <2>1, OldPlaceIs DEF Leads
  <2> QED BY <1>3, <2>2, <2>3 DEF Position
<1>5. t = [j \in 1 .. Len(b) |-> IF j \in f.insertions \/ OldPosition(j, f) \in f.modifications
                                  THEN b[j] ELSE a[OldPosition(j, f)]]
  BY <1>3 DEF BatchUpdate
<1>6. ASSUME NEW j \in 1 .. Len(b) PROVE t[j] \in EntryRecord
  <2>1. t[j] = b[j] \/ (j \notin f.insertions /\ t[j] = a[OldPosition(j, f)])
    BY <1>5
  <2> HIDE DEF t
  <2> QED BY <1>3, <1>4, <2>1
<1>7. t \in Seq(EntryRecord) /\ Len(t) = Len(b)
  <2>1. t = [j \in 1 .. Len(b) |-> t[j]] /\ DOMAIN t = 1 .. Len(b)
    BY <1>5
  <2> HIDE DEF t
  <2> QED BY <1>3, <1>6, <2>1
<1> QED BY <1>7 DEF f

LEMMA DeliveryKeepsScreen ==
  ASSUME NotifierInv, ScreenInv, NEW by, PackageAndDeliver(by), notifier.version = Latest,
         UNCHANGED <<log, misread>>
  PROVE  ScreenInv'
<1> DEFINE c == notifier.changes
           f == Finalize(c)
           old == log[packaged].list
<1>1. packaged' = Latest /\ initialDelivered' = TRUE /\ List' = List /\ log'[packaged'].list = List
  BY DEF PackageAndDeliver, List, Latest
<1>2. old \in RowList /\ List \in RowList /\ Describes(c, old, List)
  BY DeliveryKeepsChanges DEF NotifierInv
<1>3. old \in Seq(EntryRecord) /\ List \in Seq(EntryRecord)
      /\ DOMAIN old = 1 .. Len(old) /\ DOMAIN List = 1 .. Len(List)
  BY <1>2 DEF RowList
<1>4. /\ initialDelivered /\ IsEmpty(f) => UNCHANGED <<table, failure>>
      /\ ~(initialDelivered /\ IsEmpty(f)) => Block(f)
  BY DEF PackageAndDeliver
<1>5. /\ failure \in {Null, "index out of bounds", "cast"} /\ initialDelivered \in BOOLEAN
      /\ ~initialDelivered => c = NoChanges
      /\ initialDelivered => table \in Seq(EntryRecord) /\ Len(table) = Len(old)
  BY DEF ScreenInv
<1>6. ASSUME initialDelivered, ~misread, NEW i \in DOMAIN table
      PROVE  /\ table[i].row = old[i].row
             /\ table[i] = old[i] \/ (i \in DOMAIN List /\ table[i] = List[i])
  BY <1>6 DEF ScreenInv
<1>7. /\ table' \in Seq(EntryRecord) /\ Len(table') = Len(List) /\ UNCHANGED failure
      /\ ~misread => table' = List
  <2>1. CASE ~initialDelivered
    <3>1. IsEmpty(f) /\ Block(f)
      BY <1>4, <1>5, <2>1, FinalizeNone
    <3> QED BY <1>3, <3>1 DEF Block
  <2>2. CASE initialDelivered /\ IsEmpty(f)
    <3>1. old = List /\ UNCHANGED <<table, failure>>
      BY <1>2, <1>4, <2>2, EmptyDescribes
    <3>2. ~misread => table = List
      <4>1. ASSUME ~misread, NEW i \in DOMAIN table PROVE table[i] = List[i]
        BY <1>6, <2>2, <3>1, <4>1
      <4>2. table \in Seq(EntryRecord) /\ Len(table) = Len(List)
        BY <1>5, <2>2, <3>1
      <4> QED BY <1>3, <4>1, <4>2, SameEntries
    <3> QED BY <1>5, <2>2, <3>1, <3>2
  <2>3. CASE initialDelivered /\ ~IsEmpty(f)
    <3>1. Block(f) /\ table # Null
      BY <1>4, <1>5, <2>3, NotifierAssumption DEF EntryRecord
    <3>2. Leads(c, Len(table), Len(List))
      BY <1>2, <1>5, <2>3 DEF Describes
    <3>3. Fits(table, f, List)
      BY <1>3, <1>5, <2>3, <3>2, BatchRight
    <3>4. table' = BatchUpdate(table, f, List) /\ UNCHANGED failure
      <4> HIDE DEF f
      <4> QED BY <2>3, <3>1, <3>3 DEF Block
    <3>5. table' \in Seq(EntryRecord) /\ Len(table') = Len(List)
      BY <1>3, <1>5, <2>3, <3>2, <3>4, BatchRows
    <3>6. ASSUME ~misread PROVE table' = List
      <4>1. ASSUME NEW j \in DOMAIN List \ (c.insertions \cup c.modifications)
            PROVE  List[j] = table[OldPlace(j, c)]
        <5> DEFINE i == OldPlace(j, c)
        <5>1. List[j] = old[i]
          BY <1>2 DEF Describes
        <5>2. i \in DOMAIN table
          <6>1. IsChange(c) /\ j \in Position \ c.insertions /\ j <= Len(List)
            BY <1>3, <3>2 DEF Leads, IsChangeSet, Position
          <6>2. i \in Position /\ i <= Len(table)
            BY <3>2, <6>1, OldPlaceIs DEF Leads
          <6>3. table \in Seq(EntryRecord)
            BY <1>5, <2>3
          <6> HIDE DEF i
          <6> QED BY <6>2, <6>3 DEF Position
        <5> HIDE DEF i, old, c
        <5>3. table[i].row = old[i].row /\ (table[i] = old[i] \/ (i \in DOMAIN List /\ table[i] = List[i]))
          BY <1>6, <2>3, <3>6, <5>2
        <5>4. CASE table[i] = old[i]
          BY <5>1, <5>4 DEF i
        <5>5. CASE i \in DOMAIN List /\ table[i] = List[i]
          <6>1. List[i].row = List[j].row /\ j \in DOMAIN List
            BY <5>1, <5>3, <5>5
          <6>2. i = j
            BY <1>2, <5>5, <6>1 DEF RowList
          <6> QED BY <5>5, <6>2 DEF i
        <5> QED BY <5>3, <5>4, <5>5
      <4> QED BY <1>3, <1>5, <2>3, <3>2, <3>4, <4>1, BatchRight
    <3> QED BY <3>4, <3>5, <3>6
  <2> QED BY <1>5, <2>1, <2>2, <2>3
<1> HIDE DEF c, f, old
<1>8. ASSUME ~misread', NEW i \in DOMAIN table'
      PROVE  /\ table'[i].row = List[i].row /\ table'[i] = List[i]
  BY <1>7, <1>8
<1> QED BY <1>1, <1>5, <1>7, <1>8 DEF ScreenInv

-----------------------------------------------------------------------------
(* The steps.                                                              *)

ListPart == OneOp /\ RowsKnown /\ DeleteInv /\ DeleteHitsTouched

LEMMA ListStart == ListInit => ListInv
<1> SUFFICES ASSUME ListInit PROVE ListInv
  OBVIOUS
<1>1. VersionInv /\ DataInv
  BY VersionInit, DataInit DEF ListInit
<1>2. NotifierInv
  BY <1>1 DEF DataInv, NotifierInv
<1>3. ScreenInv
  BY <1>1 DEF ListInit, Init, DataInv, TableInv, ScreenInv
<1>4. Latest = 1 /\ List = [i \in DOMAIN FirstList |-> Entry(FirstList[i], 1)]
  BY InitFresh, FreshVersions DEF ListInit, List
<1>5. RowsKnown
  <2>1. NewItem # Null
    <3>1. NewItem \in Item /\ Null \notin Item
      BY ListAssumption DEF NewItem, Item
    <3> QED BY <3>1
  <2>2. ASSUME NEW i \in DOMAIN FirstList PROVE items[FirstList[i]] = NewItem
    <3>1. FirstList \in Seq(Row)
      BY NotifierAssumption, Zenon
    <3>2. FirstList[i] \in Row /\ FirstList[i] \in ToSet(FirstList)
      BY <3>1 DEF ToSet
    <3> QED BY <3>2 DEF ListInit
  <2>3. ASSUME NEW i \in DOMAIN List PROVE items[List[i].row] # Null
    <3>1. i \in DOMAIN FirstList /\ List[i].row = FirstList[i]
      BY <1>4 DEF Entry
    <3> QED BY <2>1, <2>2, <3>1
  <2> QED BY <2>3 DEF RowsKnown
<1> QED BY <1>2, <1>3, <1>4, <1>5
        DEF ListInit, ListInv, OneOp, DeleteInv, DeleteHitsTouched

LEMMA ListPartSame == ListPart /\ UNCHANGED <<log, items, doing, deletion>> => ListPart'
  BY DEF ListPart, OneOp, RowsKnown, DeleteInv, DeleteHitsTouched, List, Latest

LEMMA ListenerKeepsList == ListInv /\ ListenerStep => ListInv'
<1> SUFFICES ASSUME ListInv, ListenerStep PROVE ListInv'
  OBVIOUS
<1>1. /\ UNCHANGED <<log, main, blockVars, items, doing, deletion, misread>>
      /\ PrepareHandover \/ UNCHANGED notifier
  BY DEF ListenerStep, appVars, dataVars, Listener, RunAsyncNotifiers, PrepareHandover, SignalRealms
<1>2. VersionInv'
  BY ListenerKeeps DEF ListInv, NotifierInv, ListenerStep
<1>3. /\ LogInv' /\ ChangesInv'
      /\ Latest = 1 /\ notifier.changes = NoChanges => notifier'.changes = NoChanges
  <2>1. CASE PrepareHandover
    BY <2>1, HandoverKeepsChanges DEF ListInv, NotifierInv
  <2>2. CASE UNCHANGED notifier
    BY <1>1, <2>2 DEF ListInv, NotifierInv, LogInv, ChangesInv, List, Latest, blockVars
  <2> QED BY <1>1, <2>1, <2>2
<1>4. ScreenInv'
  BY <1>1, <1>3 DEF ListInv, ScreenInv, blockVars, List, Latest
<1>5. ListPart'
  BY <1>1, ListPartSame DEF ListInv, ListPart
<1> QED BY <1>2, <1>3, <1>4, <1>5 DEF ListInv, ListPart, NotifierInv

LEMMA CallsKeepList == ListInv /\ (RunLoopStep \/ WaitStep) => ListInv'
<1> SUFFICES ASSUME ListInv, RunLoopStep \/ WaitStep PROVE ListInv'
  OBVIOUS
<1>1. UNCHANGED <<log, items, doing, deletion, misread>>
  BY DEF RunLoopStep, WaitStep, appVars, dataVars, ProcessAvailableAsync, PackageAndWait
<1>2. VersionInv'
  <2>1. VersionInv /\ Next
    BY DEF RunLoopStep, WaitStep, Next, Runtime, ListInv, NotifierInv
  <2> QED BY <2>1, StepKeeps
<1>3. CASE \E by : PackageAndDeliver(by) /\ notifier.version = Latest
  <2>1. PICK by : PackageAndDeliver(by) /\ notifier.version = Latest
    BY <1>3
  <2>2. LogInv' /\ ChangesInv'
    BY <1>1, <2>1, DeliveryKeepsChanges DEF ListInv, NotifierInv
  <2>3. ScreenInv'
    BY <1>1, <2>1, DeliveryKeepsScreen DEF ListInv
  <2>4. ListPart'
    BY <1>1, ListPartSame DEF ListInv, ListPart
  <2> QED BY <1>2, <2>2, <2>3, <2>4 DEF ListInv, ListPart, NotifierInv
<1>4. CASE RunLoopStep
  <2>1. CASE UNCHANGED <<notifier, blockVars>>
    <3>1. UNCHANGED main
      BY <1>4 DEF RunLoopStep, ProcessAvailableAsync
    <3>2. LogInv' /\ ChangesInv' /\ ScreenInv'
      BY <1>1, <2>1, <3>1 DEF ListInv, NotifierInv, LogInv, ChangesInv, ScreenInv, List, Latest, blockVars
    <3>3. ListPart'
      BY <1>1, ListPartSame DEF ListInv, ListPart
    <3> QED BY <1>2, <3>2, <3>3 DEF ListInv, ListPart, NotifierInv
  <2>2. \/ UNCHANGED <<notifier, blockVars>>
        \/ PackageAndDeliver("run loop") /\ notifier.version = Latest
    BY <1>4 DEF RunLoopStep, ProcessAvailableAsync
  <2> QED BY <1>3, <2>1, <2>2
<1>5. CASE WaitStep
  <2>1. PackageAndDeliver("begin") /\ NotifierReady
    BY <1>5 DEF WaitStep, PackageAndWait
  <2>2. notifier.version = Latest
    BY <2>1, LatestIsNat DEF NotifierReady, ListInv, NotifierInv, VersionInv, Shape, Order
  <2> QED BY <1>3, <2>1, <2>2
<1> QED BY <1>4, <1>5

\* Until it has the lock, a callback changes nothing but its plan.
LEMMA BeginKeepsNotifier ==
  ASSUME NotifierInv, ScreenInv, OneOp, BeginTransaction, UNCHANGED misread
  PROVE  NotifierInv' /\ ScreenInv' /\ OneOp' /\ UNCHANGED <<List, log>>
<1>1. /\ UNCHANGED <<log, notifier, initialDelivered, packaged, table, failure>>
      /\ main' = "begin"
  BY DEF BeginTransaction, blockVars
<1>2. VersionInv'
  BY StepKeeps DEF Next, NotifierInv
<1>3. LogInv' /\ ChangesInv'
  BY <1>1 DEF NotifierInv, LogInv, ChangesInv, List, Latest
<1>4. ScreenInv'
  BY <1>1 DEF ScreenInv, List, Latest
<1> QED BY <1>1, <1>2, <1>3, <1>4 DEF NotifierInv, OneOp, List, Latest

LEMMA BeginsKeepList ==
  ASSUME ListInv, \/ SelectAdd \/ \E input : AddTag(input) \/ \E gone : Disappear(gone)
  PROVE  ListInv'
<1>1. BeginTransaction /\ UNCHANGED <<items, deletion, misread>>
  BY DEF SelectAdd, AddTag, Disappear, dataVars
<1>2. doing'.op # "delete"
  BY DEF SelectAdd, AddTag, Disappear, TagOp
<1>3. NotifierInv' /\ ScreenInv' /\ OneOp' /\ UNCHANGED <<List, log>>
  BY <1>1, BeginKeepsNotifier DEF ListInv
<1> QED BY <1>1, <1>2, <1>3 DEF ListInv, RowsKnown, DeleteInv, DeleteHitsTouched

\* The row of a swipe, in a table that may be one transaction behind.
LEMMA TouchKeepsList ==
  ASSUME ListInv, table # Null, NEW i \in DOMAIN table, SelectDelete(i)
  PROVE  ListInv'
<1> DEFINE old == log[packaged].list
<1>1. BeginTransaction /\ UNCHANGED <<items, deletion, misread>> /\ i <= Len(List)
  BY DEF SelectDelete, dataVars, Swipe
<1>2. /\ doing'.op = "delete" /\ doing'.at = i /\ doing'.row = table[i].row
      /\ doing'.below = IF i < Len(table) THEN table[i + 1].row ELSE Null
      /\ doing'.behind = (RowSeq(table) # RowSeq(List)) /\ doing'.misread = misread
  BY DEF SelectDelete
<1>3. NotifierInv' /\ ScreenInv' /\ OneOp' /\ UNCHANGED <<List, log>>
  BY <1>1, BeginKeepsNotifier DEF ListInv
<1>4. /\ packaged \in Nat /\ packaged >= 1 /\ packaged <= Latest /\ Latest - packaged <= 1
      /\ Latest \in Nat /\ DOMAIN log = 1 .. Latest
  BY LatestIsNat, VersionsExist
     DEF ListInv, NotifierInv, ChangesInv, VersionInv, Shape, Order, AtMostOneBehind
<1>5. old \in RowList /\ List \in RowList
  BY <1>4 DEF ListInv, NotifierInv, LogInv, List
<1>6. table \in Seq(EntryRecord) /\ Len(table) = Len(old) /\ Len(old) \in Nat /\ Len(List) \in Nat
      /\ DOMAIN table = 1 .. Len(old) /\ DOMAIN List = 1 .. Len(List) /\ DOMAIN old = 1 .. Len(old)
  <2>1. initialDelivered
    BY DEF ListInv, ScreenInv
  <2>2. table \in Seq(EntryRecord) /\ Len(table) = Len(old)
    BY <2>1 DEF ListInv, ScreenInv
  <2> QED BY <1>5, <2>2 DEF RowList
<1>7. ~misread => \A j \in DOMAIN table : table[j].row = old[j].row
  BY DEF ListInv, ScreenInv
<1>8. i \in DOMAIN List
  BY <1>1, <1>6
<1>9. ASSUME ~misread
      PROVE  \/ List[i].row = table[i].row
             \/ /\ RowSeq(table) # RowSeq(List)
                /\ i < Len(table) /\ List[i].row = table[i + 1].row
  <2>1. CASE packaged = Latest
    BY <1>7, <1>9, <2>1 DEF List
  <2>2. CASE packaged # Latest
    <3> DEFINE ops == log[Latest].ops
               touched == log[Latest].touched
    <3>1. packaged = Latest - 1 /\ Latest > 1
      BY <1>4, <2>2
    <3>2. List = Written(old, ops, touched, Latest)
      BY <3>1 DEF ListInv, NotifierInv, LogInv
    <3>3. ops = <<>> \/ \E o \in Ops(old) : ops = <<o>>
      BY <3>1 DEF ListInv, OneOp
    <3> HIDE DEF ops, touched, old
    <3>4. CASE ops = <<>>
      <4>1. List[i].row = old[i].row
        BY <1>4, <1>5, <1>6, <3>2, <3>4, NothingWritten
      <4> QED BY <1>7, <1>9, <4>1
    <3>5. CASE \E r \in Row : ops = <<Insertion(Len(old) + 1, r)>>
      <4>1. PICK r \in Row : ops = <<Insertion(Len(old) + 1, r)>>
        BY <3>5
      <4>2. List[i].row = old[i].row
        BY <1>4, <1>5, <1>6, <3>2, <4>1, RowAppended
      <4> QED BY <1>7, <1>9, <4>2
    <3>6. CASE \E k \in DOMAIN old : ops = <<Erasure(k)>>
      <4>1. PICK k \in DOMAIN old : ops = <<Erasure(k)>>
        BY <3>6
      <4>2. /\ Len(List) = Len(old) - 1
            /\ \A j \in 1 .. (Len(old) - 1) : List[j].row = IF j < k THEN old[j].row ELSE old[j + 1].row
        BY <1>4, <1>5, <3>2, <4>1, RowErased
      <4>3. List[i].row = old[i].row \/ List[i].row = old[i + 1].row
        BY <1>6, <1>8, <4>2
      <4>4. i + 1 \in DOMAIN table /\ i < Len(table)
        BY <1>6, <1>8, <4>2
      <4>5. RowSeq(table) # RowSeq(List)
        <5>1. Len(table) \in DOMAIN table /\ Len(table) \notin DOMAIN List
          BY <1>6, <4>2, <4>4
        <5>2. DOMAIN RowSeq(table) = DOMAIN table /\ DOMAIN RowSeq(List) = DOMAIN List
          BY DEF RowSeq
        <5> QED BY <5>1, <5>2
      <4> QED BY <1>7, <1>9, <4>3, <4>4, <4>5
    <3> QED BY <3>3, <3>4, <3>5, <3>6 DEF Ops
  <2> QED BY <2>1, <2>2
<1>10. DeleteInv'
  <2> HIDE DEF old
  <2> QED BY <1>2, <1>3, <1>8, <1>9 DEF DeleteInv
<1> QED BY <1>1, <1>3, <1>10 DEF ListInv, RowsKnown, DeleteHitsTouched

\* A commit of one change at most.
LEMMA CommitKeepsScreen ==
  ASSUME NotifierInv, ScreenInv,
         NEW ops, ops = <<>> \/ \E o \in Ops(List) : ops = <<o>>,
         NEW touched, NEW next \in {"free", "begin"}, CommitTransaction(ops, touched, next),
         UNCHANGED misread
  PROVE  /\ NotifierInv' /\ ScreenInv' /\ OneOp'
         /\ List \in RowList /\ List' = Written(List, ops, touched, Latest')
         /\ List' \in RowList /\ Latest' \in Nat
<1>1. /\ LogInv' /\ ChangesInv'
      /\ packaged = Latest /\ Latest' = Latest + 1
      /\ log'[Latest].list = List /\ log'[Latest'].ops = ops
      /\ List \in RowList /\ List' = Written(List, ops, touched, Latest')
  BY CommitKeepsChanges DEF ValidOps, NotifierInv
<1>2. VersionInv'
  BY CommitKeeps DEF NotifierInv
<1>3. /\ main = "write" /\ main' # "write"
      /\ UNCHANGED <<notifier, initialDelivered, packaged, table, failure>>
  BY DEF CommitTransaction, blockVars
<1>4. initialDelivered
  BY <1>3 DEF ScreenInv
<1>5. log'[packaged'].list = List /\ log[packaged].list = List
  BY <1>1, <1>3 DEF List
<1>6. ScreenInv'
  BY <1>1, <1>3, <1>4, <1>5 DEF ScreenInv
<1>7. Latest \in Nat /\ Latest' - 1 = Latest
  BY <1>1, LatestIsNat DEF NotifierInv, VersionInv
<1>8. OneOp'
  BY <1>1, <1>7 DEF OneOp
<1>9. List' \in RowList
  <2>1. ValidOps(List, ops) /\ Latest' \in Nat
    BY <1>1, <1>7 DEF ValidOps
  <2> QED BY <1>1, <2>1, WrittenDescribed
<1> QED BY <1>1, <1>2, <1>6, <1>7, <1>8, <1>9 DEF NotifierInv

\* The callbacks that write to an editor's item leave the rows as they are.
LEMMA EditsKeepList == AppInv /\ ListInv /\ (CreateHashTag \/ AppendTag \/ Save) => ListInv'
<1> SUFFICES ASSUME AppInv, ListInv, CreateHashTag \/ AppendTag \/ Save PROVE ListInv'
  OBVIOUS
<1>1. PICK touched : \E next \in {"free", "begin"} : CommitTransaction(<<>>, touched, next)
  <2>1. CASE CreateHashTag
    BY <2>1 DEF CreateHashTag
  <2>2. CASE AppendTag
    <3>1. \E next \in {"free", "begin"} : CommitTransaction(<<>>, {editor.row}, next)
      BY <2>2 DEF AppendTag
    <3> QED BY <3>1
  <2>3. CASE Save
    BY <2>3 DEF Save
  <2> QED BY <2>1, <2>2, <2>3
<1>2. UNCHANGED <<deletion, misread>>
  BY DEF CreateHashTag, AppendTag, Save
<1>3. /\ NotifierInv' /\ ScreenInv' /\ OneOp'
      /\ List \in RowList /\ List' = Written(List, <<>>, touched, Latest') /\ Latest' \in Nat
  BY <1>1, <1>2, CommitKeepsScreen DEF ListInv
<1>4. Len(List') = Len(List) /\ \A i \in DOMAIN List : List'[i].row = List[i].row
  BY <1>3, NothingWritten
<1>5. List' \in RowList
  BY <1>1, <1>2, CommitKeepsScreen DEF ListInv
<1>6. ItemsStay
  BY AppendKeepsApp, SaveKeepsApp DEF CreateHashTag, ItemsStay
<1>7. RowsKnown'
  <2>1. ASSUME NEW i \in DOMAIN List' PROVE items'[List'[i].row] # Null
    <3>1. i \in DOMAIN List /\ List[i] \in EntryRecord
      BY <1>3, <1>4, <1>5 DEF RowList
    <3>2. items[List[i].row] # Null /\ List[i].row \in Row
      BY <3>1 DEF ListInv, RowsKnown, EntryRecord
    <3> QED BY <1>4, <1>6, <3>1, <3>2 DEF ItemsStay
  <2> QED BY <2>1 DEF RowsKnown
<1>8. doing' = Null \/ doing'.op # "delete"
  <2>1. CASE CreateHashTag
    <3>1. doing = [op |-> doing.op, rest |-> doing.rest] /\ doing' = [doing EXCEPT !.op = "append"]
      BY <2>1 DEF CreateHashTag, AppInv, DoingInv
    <3> QED BY <3>1
  <2>2. CASE AppendTag \/ Save
    BY <2>2 DEF AppendTag, Save, TagOp
  <2> QED BY <2>1, <2>2
<1> QED BY <1>2, <1>3, <1>7, <1>8 DEF ListInv, DeleteInv, DeleteHitsTouched

LEMMA AddKeepsList == AppInv /\ ListInv /\ SetAdd => ListInv'
<1> SUFFICES ASSUME AppInv, ListInv, SetAdd PROVE ListInv'
  OBVIOUS
<1>1. PICK r \in Row : /\ items[r] = Null
                       /\ CommitTransaction(<<Insertion(Len(List) + 1, r)>>, {r}, "free")
                       /\ items' = [items EXCEPT ![r] = NewItem]
  BY DEF SetAdd
<1>2. UNCHANGED <<deletion, misread>> /\ doing' = Null
  BY DEF SetAdd
<1>3. Insertion(Len(List) + 1, r) \in Ops(List)
  <2>1. r \notin RowsIn(List)
    BY <1>1 DEF ListInv, RowsKnown, RowsIn
  <2> QED BY <2>1 DEF Ops
<1> DEFINE ops == <<Insertion(Len(List) + 1, r)>>
<1>4. /\ NotifierInv' /\ ScreenInv' /\ OneOp'
      /\ List \in RowList /\ List' = Written(List, ops, {r}, Latest')
      /\ List' \in RowList /\ Latest' \in Nat
  BY <1>1, <1>2, <1>3, CommitKeepsScreen DEF ListInv
<1>5. /\ Len(List') = Len(List) + 1 /\ List'[Len(List) + 1].row = r
      /\ \A i \in 1 .. Len(List) : List'[i].row = List[i].row
  BY <1>4, RowAppended
<1>6. RowsKnown'
  <2>1. items'[r] # Null
    <3>1. NewItem \in Item /\ Null \notin Item
      BY ListAssumption DEF NewItem, Item
    <3> QED BY <1>1, <3>1 DEF AppInv, ItemsInv
  <2>2. ItemsStay
    BY AddKeepsApp
  <2>3. ASSUME NEW i \in DOMAIN List' PROVE items'[List'[i].row] # Null
    <3>1. Len(List) \in Nat /\ i \in 1 .. (Len(List) + 1) /\ DOMAIN List = 1 .. Len(List)
      BY <1>4, <1>5 DEF RowList
    <3>2. CASE i = Len(List) + 1
      BY <1>5, <2>1, <3>2
    <3>3. CASE i \in DOMAIN List
      <4>1. List'[i].row = List[i].row
        BY <1>5, <3>1, <3>3
      <4>2. List[i] \in EntryRecord
        BY <1>4, <3>3 DEF RowList
      <4>3. List[i].row \in Row /\ items[List[i].row] # Null
        BY <3>3, <4>2 DEF ListInv, RowsKnown, EntryRecord
      <4> QED BY <2>2, <4>1, <4>3 DEF ItemsStay
    <3> QED BY <3>1, <3>2, <3>3
  <2> QED BY <2>3 DEF RowsKnown
<1> QED BY <1>2, <1>4, <1>6 DEF ListInv, DeleteInv, DeleteHitsTouched

LEMMA DeleteKeepsList == ListInv /\ Delete => ListInv'
<1> SUFFICES ASSUME ListInv, Delete PROVE ListInv'
  OBVIOUS
<1> DEFINE k == doing.at
<1>1. /\ doing # Null /\ doing.op = "delete"
      /\ CommitTransaction(<<Erasure(k)>>, {}, "free")
      /\ deletion' = [touch |-> doing, row |-> List[k].row]
      /\ doing' = Null /\ UNCHANGED <<items, misread>>
  BY DEF Delete
<1>2. /\ k \in DOMAIN List
      /\ \/ List[k].row = doing.row
         \/ doing.behind /\ List[k].row = doing.below
         \/ doing.misread
  BY <1>1 DEF ListInv, DeleteInv
<1>3. Erasure(k) \in Ops(List)
  BY <1>2 DEF Ops
<1>4. /\ NotifierInv' /\ ScreenInv' /\ OneOp'
      /\ List \in RowList /\ List' = Written(List, <<Erasure(k)>>, {}, Latest')
      /\ List' \in RowList /\ Latest' \in Nat
  BY <1>1, <1>3, CommitKeepsScreen DEF ListInv
<1>5. /\ Len(List') = Len(List) - 1
      /\ \A i \in 1 .. (Len(List) - 1) : List'[i].row = IF i < k THEN List[i].row ELSE List[i + 1].row
  BY <1>2, <1>4, RowErased
<1>6. RowsKnown'
  <2>1. ASSUME NEW i \in DOMAIN List' PROVE items'[List'[i].row] # Null
    <3>1. Len(List) \in Nat /\ i \in 1 .. (Len(List) - 1) /\ DOMAIN List = 1 .. Len(List)
      BY <1>4, <1>5 DEF RowList
    <3>2. i \in DOMAIN List /\ i + 1 \in DOMAIN List
      BY <3>1
    <3> HIDE DEF k
    <3>3. List'[i].row = List[i].row \/ List'[i].row = List[i + 1].row
      BY <1>5, <3>1
    <3> QED BY <1>1, <3>2, <3>3 DEF ListInv, RowsKnown
  <2> QED BY <2>1 DEF RowsKnown
<1>7. DeleteHitsTouched'
  <2>1. deletion'.touch = doing /\ deletion'.row = List[k].row
    BY <1>1
  <2> QED BY <1>2, <2>1 DEF DeleteHitsTouched
<1> QED BY <1>1, <1>4, <1>6, <1>7 DEF ListInv, DeleteInv

\* A cell that is filled shows what its row is now.
LEMMA CellKeepsList ==
  ASSUME ListInv, table # Null, NEW i \in DOMAIN table, CellForRow(i)
  PROVE  ListInv'
<1> DEFINE old == log[packaged].list
<1>1. /\ i <= Len(List) /\ table' = [table EXCEPT ![i] = List[i]]
      /\ misread' = (misread \/ table[i].row # List[i].row)
      /\ UNCHANGED <<log, main, worker, notifier, initialDelivered, packaged, failure,
                     items, doing, deletion>>
  BY DEF CellForRow, coordVars, dataVars
<1>2. NotifierInv'
  BY <1>1 DEF ListInv, NotifierInv, VersionInv, Shape, Order, AtMostOneBehind, Versions,
              LogInv, ChangesInv, List, Latest
<1>3. initialDelivered /\ table \in Seq(EntryRecord) /\ Len(table) = Len(old)
  <2>1. initialDelivered
    BY DEF ListInv, ScreenInv
  <2> QED BY <2>1 DEF ListInv, ScreenInv
<1>4. List \in Seq(EntryRecord) /\ DOMAIN List = 1 .. Len(List)
  <2>1. List \in RowList
    BY VersionsExist DEF ListInv, NotifierInv, LogInv, List
  <2> QED BY <2>1 DEF RowList
<1>5. i \in DOMAIN List /\ List[i] \in EntryRecord
  <2>1. i \in Nat /\ i >= 1 /\ Len(List) \in Nat
    BY <1>3, <1>4
  <2> QED BY <1>1, <1>4, <2>1
<1>6. /\ table' \in Seq(EntryRecord) /\ Len(table') = Len(table) /\ DOMAIN table' = DOMAIN table
      /\ table'[i] = List[i] /\ \A j \in DOMAIN table \ {i} : table'[j] = table[j]
  BY <1>1, <1>3, <1>5
<1>7. ASSUME ~misread', NEW j \in DOMAIN table'
      PROVE  /\ table'[j].row = old[j].row
             /\ table'[j] = old[j] \/ (j \in DOMAIN List /\ table'[j] = List[j])
  <2>1. ~misread /\ table[i].row = List[i].row
    BY <1>1, <1>7
  <2>2. /\ table[j].row = old[j].row
        /\ table[j] = old[j] \/ (j \in DOMAIN List /\ table[j] = List[j])
    BY <1>3, <1>6, <1>7, <2>1 DEF ListInv, ScreenInv
  <2>3. CASE j = i
    BY <1>5, <1>6, <2>1, <2>2, <2>3
  <2>4. CASE j # i
    BY <1>6, <1>7, <2>2, <2>4
  <2> QED BY <2>3, <2>4
<1>8. List' = List /\ log'[packaged'].list = old
  BY <1>1 DEF List, Latest
<1> HIDE DEF old
<1>9. ScreenInv'
  BY <1>1, <1>3, <1>6, <1>7, <1>8 DEF ListInv, ScreenInv
<1>10. ListPart'
  BY <1>1, ListPartSame DEF ListInv, ListPart
<1> QED BY <1>2, <1>9, <1>10 DEF ListInv, ListPart

\* An exception ends the app; typing is between the user and the editor.
LEMMA AsideKeepsList ==
  ASSUME ListInv, \/ UNCHANGED allVars
                  \/ IndexOutOfBounds
                  \/ \E i : EditGroup(i)
                  \/ \E t : Type(t)
  PROVE  ListInv'
<1>1. /\ UNCHANGED <<log, main, worker, notifier, initialDelivered, packaged, table,
                     items, doing, deletion, misread>>
      /\ failure' \in {failure, "index out of bounds", "cast"}
  BY DEF IndexOutOfBounds, EditGroup, Type, Fail, allVars, vars, coordVars, blockVars, appVars, dataVars
<1>2. NotifierInv'
  BY <1>1 DEF ListInv, NotifierInv, VersionInv, Shape, Order, AtMostOneBehind, Versions,
              LogInv, ChangesInv, List, Latest
<1>3. ScreenInv'
  BY <1>1 DEF ListInv, ScreenInv, List, Latest
<1>4. ListPart'
  BY <1>1, ListPartSame DEF ListInv, ListPart
<1> QED BY <1>2, <1>3, <1>4 DEF ListInv, ListPart

LEMMA RelaunchKeepsList == ListInv /\ Relaunch => ListInv'
<1> SUFFICES ASSUME ListInv, Relaunch PROVE ListInv'
  OBVIOUS
<1> DEFINE rows == RowSeq(List)
           l == [i \in DOMAIN List |-> Entry(List[i].row, 1)]
<1>1. /\ Reopen(l) /\ doing' = Null /\ misread' = FALSE /\ UNCHANGED <<items, deletion>>
  BY DEF Relaunch
<1>2. List \in RowList
  BY VersionsExist DEF ListInv, NotifierInv, LogInv, List
<1>3. l \in RowList
  <2>1. rows \in Seq(Row) /\ DOMAIN rows = DOMAIN List
        /\ \A i, j \in DOMAIN rows : rows[i] = rows[j] => i = j
    <3>1. List \in Seq(EntryRecord) /\ DOMAIN List = 1 .. Len(List) /\ Len(List) \in Nat
      BY <1>2 DEF RowList
    <3>2. \A i \in DOMAIN List : List[i].row \in Row
      <4>1. \A i \in DOMAIN List : List[i] \in EntryRecord
        BY <3>1
      <4> QED BY <4>1 DEF EntryRecord
    <3>3. rows \in Seq(Row) /\ DOMAIN rows = DOMAIN List /\ \A i \in DOMAIN List : rows[i] = List[i].row
      BY <3>1, <3>2 DEF RowSeq
    <3> HIDE DEF rows
    <3> QED BY <1>2, <3>3 DEF RowList
  <2>2. l = [i \in DOMAIN rows |-> Entry(rows[i], 1)]
    BY DEF RowSeq
  <2> HIDE DEF rows, l
  <2> QED BY <2>1, <2>2, StampedIsList
<1>4. \A i \in DOMAIN l : i \in DOMAIN List /\ l[i].row = List[i].row
  BY DEF Entry
<1> HIDE DEF l
<1>5. log' = <<FirstVersion(l)>> /\ log'[1].list = l
  <2>1. log' = <<FirstVersion(l)>>
    BY <1>1 DEF Reopen
  <2> QED BY <2>1 DEF FirstVersion
<1>6. Fresh'
  BY <1>1, <1>5 DEF Reopen, Fresh
<1>7. (VersionInv /\ Latest = 1 /\ DOMAIN log = {1})'
  BY <1>6, FreshVersions, PTL
<1>8. LogInv' /\ ChangesInv'
  <2>1. (log[1].list \in RowList)'
    BY <1>3, <1>5
  <2> QED BY <1>6, <2>1, FreshChanges, PTL
<1>9. List' = l
  BY <1>5, <1>7 DEF List
<1>10. ScreenInv'
  BY <1>1, <1>7 DEF Reopen, ScreenInv, NotRun
<1>11. RowsKnown'
  BY <1>1, <1>4, <1>9 DEF ListInv, RowsKnown
<1> QED BY <1>1, <1>7, <1>8, <1>10, <1>11
        DEF ListInv, NotifierInv, OneOp, DeleteInv, DeleteHitsTouched

LEMMA ListStep == AppInv /\ ListInv /\ [ListNext]_allVars => ListInv'
<1> SUFFICES ASSUME AppInv, ListInv, [ListNext]_allVars PROVE ListInv'
  OBVIOUS
<1>1. CASE ListenerStep \/ RunLoopStep \/ WaitStep
  BY <1>1, ListenerKeepsList, CallsKeepList
<1>2. CASE Callback
  BY <1>2, AddKeepsList, DeleteKeepsList, EditsKeepList DEF Callback
<1>3. CASE OnTable
  BY <1>3, TouchKeepsList, CellKeepsList, AsideKeepsList DEF OnTable
<1>4. CASE User
  BY <1>3, <1>4, BeginsKeepList, AsideKeepsList DEF User
<1>5. CASE IndexOutOfBounds \/ UNCHANGED allVars
  BY <1>5, AsideKeepsList
<1>6. CASE Relaunch
  BY <1>6, RelaunchKeepsList
<1> QED BY <1>1, <1>2, <1>4, <1>5, <1>6 DEF ListNext

LEMMA ListHolds == ListSpec => [](AppInv /\ ListInv)
<1>1. ListInit => AppInv /\ ListInv
  BY AppInit, ListStart
<1>2. AppInv /\ ListInv /\ [ListNext]_allVars => (AppInv /\ ListInv)'
  BY AppStep, ListStep
<1> QED BY <1>1, <1>2, PTL DEF ListSpec

LEMMA LiveList == ListInv => List \in RowList
  BY VersionsExist DEF ListInv, NotifierInv, LogInv, List

\* The state of the app keeps its types, through any number of deaths of the process;
\* the list never holds a row twice.
THEOREM Types == ListSpec => []ListTypeOK
<1>1. AppInv /\ ListInv => ListTypeOK
  <2> SUFFICES ASSUME AppInv, ListInv PROVE ListTypeOK
    OBVIOUS
  <2>1. \A i, j \in DOMAIN List : List[i].row = List[j].row => i = j
    BY LiveList DEF RowList
  <2> QED BY <2>1 DEF AppInv, ItemsInv, EditorInv, Editor, ListInv, ScreenInv, ListTypeOK
<1> QED BY <1>1, ListHolds, PTL

\* A deletion takes the row that was touched if the table had been told of every row
\* that came or went, and can otherwise only take the row below it.
THEOREM Deleting == ListSpec => []DeleteHitsTouched
<1>1. ListInv => DeleteHitsTouched
  BY DEF ListInv
<1> QED BY <1>1, ListHolds, PTL

\* Batches of updates never fail, though cells are filled from the live list in
\* between; and when the table has been told of everything it shows the list, unless
\* a cell was filled for another row than its own.
THEOREM Cells == ListSpec => []CellsCurrent
<1>1. ListInv => CellsCurrent
  <2> SUFFICES ASSUME ListInv PROVE CellsCurrent
    OBVIOUS
  <2>1. failure # "inconsistent update"
    BY NotifierAssumption DEF ListInv, ScreenInv
  <2>2. ASSUME table # Null, packaged = Latest, ~misread PROVE table = List
    <3>1. /\ table \in Seq(EntryRecord) /\ Len(table) = Len(List)
          /\ \A i \in DOMAIN table : table[i] = List[i]
      BY <2>2 DEF ListInv, ScreenInv, List
    <3>2. List \in Seq(EntryRecord)
      BY LiveList DEF RowList
    <3> QED BY <3>1, <3>2, SameEntries
  <2> QED BY <2>1, <2>2 DEF CellsCurrent
<1> QED BY <1>1, ListHolds, PTL
=============================================================================
