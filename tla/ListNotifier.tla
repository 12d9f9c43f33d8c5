---------------------------- MODULE ListNotifier ----------------------------
(***************************************************************************)
(* Realm's notifications for one list, as far as the iOS app depends on    *)
(* them, and the table view that follows the list (the notification block  *)
(* of GroupListViewController.viewDidLoad).                                *)
(*                                                                         *)
(* The main thread writes and is called back; a background thread works    *)
(* out what has changed.  They share the coordinator's notifiers under a   *)
(* mutex, a pipe that wakes the thread and a source of the main run loop.  *)
(* A version of the file is an index of log.  Only the main thread writes, *)
(* so it always reads the newest version.                                  *)
(*                                                                         *)
(* The run for m_notifier_skip_version and the run for the newest version  *)
(* have the same target here, and the second adds nothing: they are one    *)
(* step.  No object is observed by KVO, and nothing fails to open.         *)
(***************************************************************************)
EXTENDS ListChanges

CONSTANTS
  Row,          \* the objects a list can hold
  FirstList,    \* the rows of the list when the block is added
  MaxOps,       \* bound: changes of the list in one transaction
  MaxVersion,   \* bound: versions of the file while the block is there
  Null

ASSUME NotifierAssumption ==
  /\ FirstList \in Seq(Row)
  /\ \A i, j \in DOMAIN FirstList : FirstList[i] = FirstList[j] => i = j
  /\ MaxOps \in Nat
  /\ MaxVersion \in Nat \ {0}
  /\ Null \notin Row \cup {"inconsistent update"}
  \* no entry of a list, and no list
  /\ Null \notin [row : Row, stamp : Nat] \cup Seq([row : Row, stamp : Nat])

VARIABLES
  log,        \* the versions: list, the changes that led to it, objects touched
  main,       \* main thread: "free", waiting in "begin", in a "write"
  worker,     \* listener thread: "listen", "run" or "signal", and its version
  wake,       \* the listener's pipe has something to read
  signal,     \* the source of the main run loop is signalled
  notifier,   \* the ListNotifier: hasRun, version, accumulated changes
  initialDelivered,
  packaged,   \* the version up to which changes have been packaged
  call,       \* the last call of the block, Null before the first
  table,      \* the rows the table view shows, Null before it has loaded
  failure     \* the exception that ended the app, Null

coordVars == <<worker, wake, signal>>
blockVars == <<initialDelivered, packaged, call, table, failure>>
vars == <<log, main, coordVars, notifier, blockVars>>

\* An entry of the list: the object and the version that last touched it (or
\* something it links to).  Two entries differ when their cells would.
Entry(r, v) == [row |-> r, stamp |-> v]

Latest == Len(log)
List == log[Latest].list
RowsIn(list) == {list[i].row : i \in DOMAIN list}

\* What one transaction does to a list: its changes in order, then the stamps.
Changed(list, op) == IF op.type = "insert" THEN InsertAt(list, op.at, Entry(op.row, 0))
                                           ELSE RemoveAt(list, op.at)
Written(list, ops, touched, v) ==
  LET moved == FoldLeft(Changed, list, ops)
  IN  [i \in DOMAIN moved |-> IF moved[i].row \in touched THEN Entry(moved[i].row, v)
                                                          ELSE moved[i]]

-----------------------------------------------------------------------------
(* What changed between two versions.                                      *)

\* TransactLogObserver: the changes of the list, one after the other.
Observe(c, op) == IF op.type = "insert" THEN InsertOne(c, op.at) ELSE EraseOne(c, op.at)

\* Mutant: only the list itself is looked at.
RunNoRows(from, to) ==
  FoldLeft(Observe, NoChanges, FlattenSeq([k \in 1 .. (to - from) |-> log[from + k].ops]))

\* A run of the notifier at version "to": the transaction logs since "from",
\* then every row whose object was touched, also the inserted ones.
Run(from, to) ==
  LET steps   == [k \in 1 .. (to - from) |-> log[from + k].ops]
      touched == UNION {log[k].touched : k \in (from + 1) .. to}
      list    == log[to].list
      parsed  == FoldLeft(Observe, NoChanges, FlattenSeq(steps))
  IN  [parsed EXCEPT !.modifications = {i \in DOMAIN list : list[i].row \in touched}]

-----------------------------------------------------------------------------
(* The listener thread: ExternalCommitHelper.listen, on_change.            *)

\* It reads the pipe and picks the version to run to, under the mutex.
RunAsyncNotifiers ==
  /\ worker.step = "listen" /\ wake
  /\ wake' = FALSE
  /\ worker' = [step |-> "run", version |-> Latest]
  /\ UNCHANGED <<log, main, signal, notifier, blockVars>>

\* The run is over: its changes are added to those not yet packaged.
PrepareHandover ==
  /\ worker.step = "run"
  /\ notifier' = [hasRun  |-> TRUE,
                  version |-> worker.version,
                  changes |-> Merge(notifier.changes, Run(notifier.version, worker.version))]
  /\ worker' = [worker EXCEPT !.step = "signal"]
  /\ UNCHANGED <<log, main, wake, signal, blockVars>>

\* Back in on_change, without the mutex: signal the run loops.
SignalRealms ==
  /\ worker.step = "signal"
  /\ worker' = [worker EXCEPT !.step = "listen"]
  /\ signal' = TRUE
  /\ UNCHANGED <<log, main, wake, notifier, blockVars>>

-----------------------------------------------------------------------------
(* Calling the block.                                                      *)

\* The block: the first call reloads the table, later ones are batches.
Block(f) ==
  IF IsEmpty(f)
    THEN table' = List /\ UNCHANGED failure
    ELSE IF table # Null /\ Fits(table, f, List)
      THEN table' = BatchUpdate(table, f, List) /\ UNCHANGED failure
      ELSE failure' = "inconsistent update" /\ UNCHANGED table

\* Package what has accumulated and call the block, unless there is nothing new.
PackageAndDeliver(from) ==
  LET f == Finalize(notifier.changes)
  IN  /\ notifier' = [notifier EXCEPT !.changes = NoChanges]
      /\ packaged' = notifier.version
      /\ initialDelivered' = TRUE
      /\ IF initialDelivered /\ IsEmpty(f)
           THEN UNCHANGED <<call, table, failure>>
           ELSE /\ call' = [kind    |-> IF IsEmpty(f) THEN "initial" ELSE "update",
                            by      |-> from,
                            since   |-> packaged,
                            version |-> notifier.version,
                            changes |-> f]
                /\ Block(f)

\* The run loop calls Realm::notify.  The file has no version newer than the
\* one being read, so what is left is process_available_async.
ProcessAvailableAsync ==
  /\ main = "free" /\ signal /\ failure = Null
  /\ signal' = FALSE
  /\ IF notifier.hasRun /\ notifier.version = Latest
       THEN PackageAndDeliver("run loop")
       ELSE UNCHANGED <<notifier, blockVars>>
  /\ UNCHANGED <<log, main, worker, wake>>

-----------------------------------------------------------------------------
(* Writing.                                                                *)

\* Mutant: any run will do.
NotifierHasRun == notifier.hasRun

\* Everything committed so far has been looked at.
NotifierReady == notifier.hasRun /\ notifier.version >= Latest

\* begin_transaction: get the write lock; if the notifier is behind, wake the
\* listener thread and wait.
BeginTransaction ==
  /\ main = "free" /\ failure = Null
  /\ Latest < MaxVersion
  /\ main' = "begin"
  /\ wake' = (wake \/ ~NotifierReady)
  /\ UNCHANGED <<log, worker, signal, notifier, blockVars>>

\* Mutant: what is outstanding must first be delivered by the run loop.
WaitForRunLoop ==
  /\ main = "begin" /\ failure = Null
  /\ NotifierReady /\ packaged = Latest /\ initialDelivered
  /\ main' = "write"
  /\ UNCHANGED <<log, coordVars, notifier, blockVars>>

\* The wait is over: the block is called inside the transaction.
PackageAndWait ==
  /\ main = "begin" /\ failure = Null
  /\ NotifierReady
  /\ main' = "write"
  /\ PackageAndDeliver("begin")
  /\ UNCHANGED <<log, coordVars>>

\* Mutant: nobody is told.
CommitQuietly(ops, touched, next) ==
  /\ main = "write" /\ failure = Null
  /\ main' = next
  /\ log' = Append(log, [list    |-> Written(List, ops, touched, Latest + 1),
                         ops     |-> ops,
                         touched |-> touched])
  /\ UNCHANGED <<coordVars, notifier, blockVars>>

\* The changes are made and committed; every listener is told.  The callback
\* that is writing ends (next = "free") or begins another transaction.
CommitTransaction(ops, touched, next) ==
  /\ main = "write" /\ failure = Null
  /\ main' = next
  /\ log' = Append(log, [list    |-> Written(List, ops, touched, Latest + 1),
                         ops     |-> ops,
                         touched |-> touched])
  /\ wake' = TRUE
  /\ UNCHANGED <<worker, signal, notifier, blockVars>>

-----------------------------------------------------------------------------
(* Any client of the list.                                                 *)

Insertion(i, r) == [type |-> "insert", at |-> i, row |-> r]
Erasure(i) == [type |-> "erase", at |-> i]

\* The single changes of a list: append a row that is not in it, remove one.
Ops(list) ==
  {Insertion(Len(list) + 1, r) : r \in Row \ RowsIn(list)} \cup {Erasure(i) : i \in DOMAIN list}

OpSeqs ==
  {<<>>} \cup {<<o>> : o \in Ops(List)}
         \cup UNION {{<<o, p>> : p \in Ops(Changed(List, o))} : o \in Ops(List)}

InsertedBy(ops) == {ops[k].row : k \in {k \in DOMAIN ops : ops[k].type = "insert"}}

ClientCommit ==
  \E ops \in {o \in OpSeqs : Len(o) <= MaxOps} :
    \E more \in SUBSET RowsIn(List) : CommitTransaction(ops, InsertedBy(ops) \cup more, "free")

\* The state right after addNotificationBlock: the notifier is registered and
\* the listener thread has been woken.
FirstVersion(list) == [list |-> list, ops |-> <<>>, touched |-> {}]
Listening == [step |-> "listen", version |-> 0]
NotRun == [hasRun |-> FALSE, version |-> 1, changes |-> NoChanges]

Init ==
  /\ log = <<FirstVersion([i \in DOMAIN FirstList |-> Entry(FirstList[i], 1)])>>
  /\ main = "free"
  /\ worker = Listening /\ wake = TRUE /\ signal = FALSE
  /\ notifier = NotRun
  /\ initialDelivered = FALSE /\ packaged = 1 /\ call = Null
  /\ table = Null /\ failure = Null

\* The same in a new process, with what the file holds.
Reopen(list) ==
  /\ log' = <<FirstVersion(list)>>
  /\ main' = "free"
  /\ worker' = Listening /\ wake' = TRUE /\ signal' = FALSE
  /\ notifier' = NotRun
  /\ initialDelivered' = FALSE /\ packaged' = 1 /\ call' = Null
  /\ table' = Null /\ failure' = Null

\* What the two threads do by themselves.
Listener == RunAsyncNotifiers \/ PrepareHandover \/ SignalRealms
Runtime == Listener \/ ProcessAvailableAsync \/ PackageAndWait

Next == Runtime \/ BeginTransaction \/ ClientCommit

Spec == Init /\ [][Next]_vars

\* The threads go on; whoever has begun a transaction finishes it.
Fairness == /\ WF_vars(Listener)
            /\ WF_vars(ProcessAvailableAsync)
            /\ WF_vars(PackageAndWait)
            /\ WF_vars(ClientCommit)
FairSpec == Spec /\ Fairness

-----------------------------------------------------------------------------
(* Properties.                                                             *)

\* Types of the variables that the threads share and hand to one another.
TypeOK ==
  /\ log # <<>> /\ Latest <= MaxVersion
  /\ main \in {"free", "begin", "write"}
  /\ worker.step \in {"listen", "run", "signal"} /\ worker.version \in 0 .. Latest
  /\ wake \in BOOLEAN /\ signal \in BOOLEAN /\ initialDelivered \in BOOLEAN
  /\ notifier.hasRun \in BOOLEAN /\ notifier.version \in DOMAIN log
  /\ \A part \in DOMAIN NoChanges : notifier.changes[part] \subseteq 1 .. (Cardinality(Row) + MaxOps)
  /\ packaged \in 1 .. notifier.version
  /\ failure \in {Null, "inconsistent update"}

\* The batch of updates always fits the number of rows in the live list:
\* UIKit never raises its exception (GroupListViewController.swift:34-38).
TableFits == failure # "inconsistent update"

\* A change set never covers two transactions: before the next one begins, the
\* table has been told of the last (collection_notifier.cpp:426).
AtMostOneBehind == /\ Latest - packaged <= 1
                   /\ (main = "write" => packaged = Latest)

\* Seen from the list and the table alone, commits and calls alternate: the first
\* call comes before any change, and no change comes before the call for the one
\* before it (shared_realm.cpp:550, list_notifier.cpp:83).
Shown == IF table = Null THEN <<Null>> ELSE table
Watch == INSTANCE ListWatch WITH list <- List, seen <- Shown
ImplementsListWatch == Watch!Spec

\* Every version that is committed is looked at, without waiting for another
\* write: a run loop signal that comes too early is followed by another.
EveryCommitPackaged == \A v \in 1 .. MaxVersion : (Latest = v) ~> (packaged >= v)

-----------------------------------------------------------------------------
(* What the documentation says.                                            *)

\* RealmCollection.swift:99: the modifications are "the indices of the objects
\* in the new collection which were modified in this version".
ModificationsInNewList ==
  call # Null /\ call.kind = "update" =>
    call.changes.modifications =
      {i \in DOMAIN log[call.version].list :
         /\ log[call.version].list[i].row \in log[call.version].touched
         /\ i \notin call.changes.insertions}
=============================================================================
