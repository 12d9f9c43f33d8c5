----------------------------- MODULE RealmOpen ------------------------------
(***************************************************************************)
(* Opening a Realm file: RLMRealm, Realm::update_schema and the schema     *)
(* cache of the RealmCoordinator, for threads of several processes.        *)
(*                                                                         *)
(* The file is a log of versions, each with its columns and its schema     *)
(* version; one writer at a time appends to it.  A process knows the       *)
(* columns its own program wants (its target).  Its first thread to open   *)
(* the file brings the file up to the target, in a write transaction that  *)
(* may have had to wait for another process doing the same; later threads  *)
(* take over the schema of a Realm that is already open in the process.    *)
(*                                                                         *)
(* The mode is SchemaMode::Automatic.  Indexes, primary keys and the types *)
(* of columns are left out: a column is there or not.  What a migration    *)
(* block does to the data is left out.                                     *)
(***************************************************************************)
EXTENDS Integers, Sequences

CONSTANTS
  Thread, Process,
  ProcessOf,      \* [Thread -> Process]
  Column,         \* pairs of a table and a property
  FirstFiles,     \* what the file may hold: [schema, version] records
  Targets,        \* what the installed programs may want, in the same form
  NotVersioned,   \* ObjectStore::NotVersioned, greater than any version
  Null,
  MaxVersion,     \* bound: versions of the file
  MaxDeaths       \* bound: process deaths

Contents == [schema : SUBSET Column, version : Nat]

ASSUME RealmOpenAssumption ==
  /\ ProcessOf \in [Thread -> Process]
  /\ NotVersioned \in Nat /\ MaxVersion \in Nat /\ MaxDeaths \in Nat
  /\ \A f \in FirstFiles : f \in Contents /\ f.version <= NotVersioned
  /\ \A t \in Targets : t \in Contents /\ t.version < NotVersioned
  /\ Null \notin Thread /\ \A s \in SUBSET Column : s # Null

VARIABLES
  target,     \* [Process -> Contents]: the configuration of the program
  log,        \* the versions of the file
  writer,     \* the thread that holds the file's write lock, or Null
  initLock,   \* [Process -> the thread inside realmWithConfiguration, or Null]
  coord,      \* [Process -> the RealmCoordinator's schema cache]
  realm,      \* [Thread -> its Realm]
  deaths      \* history: process deaths

vars == <<target, log, writer, initLock, coord, realm, deaths>>

Latest == Len(log)

\* m_cached_schema, m_schema_version and m_schema_transaction_version_min, _max
Cache == [schema : (SUBSET Column) \cup {Null}, version : Nat, min : Nat, max : Nat]
EmptyCache == [schema |-> Null, version |-> NotVersioned, min |-> 0, max |-> 0]

Changes == [create : SUBSET Column, add : SUBSET Column, remove : SUBSET Column]

\* A Realm: m_schema, m_schema_version, m_schema_transaction_version (0 for -1),
\* m_new_schema, m_dynamic_schema, the version it reads (0 without m_group) and,
\* while update_schema runs, required_changes.  pc is what its thread does next.
Realm == [pc : {"closed", "construct", "cache", "align", "update", "begin", "recheck",
                "apply", "applied", "clear", "failed",
                "open", "promote", "begun", "writing", "committed", "refreshed"},
          schema : SUBSET Column, version : Nat, known : Nat,
          new : (SUBSET Column) \cup {Null}, dynamic : BOOLEAN,
          at : Nat, changes : Changes \cup {Null}]

Closed == [pc |-> "closed", schema |-> {}, version |-> NotVersioned, known |-> 0,
           new |-> Null, dynamic |-> TRUE, at |-> 0, changes |-> Null]

Init ==
  /\ target \in [Process -> Targets]
  /\ \E f \in FirstFiles : log = <<f>>
  /\ writer = Null
  /\ initLock = [p \in Process |-> Null]
  /\ coord = [p \in Process |-> EmptyCache]
  /\ realm = [t \in Thread |-> Closed]
  /\ deaths = 0

(***************************************************************************)
(* Schemas: Schema::compare and what ObjectStore makes of the changes.     *)
(***************************************************************************)
Tables(schema) == {c[1] : c \in schema}

\* Nothing for tables in existing but not in wanted.
Compare(existing, wanted) ==
  [create |-> {c \in wanted : c[1] \notin Tables(existing)},
   add    |-> {c \in wanted \ existing : c[1] \in Tables(existing)},
   remove |-> {c \in existing \ wanted : c[1] \in Tables(wanted)}]

NoChanges == [create |-> {}, add |-> {}, remove |-> {}]

NeedsMigration(changes) == changes.add # {} \/ changes.remove # {}

Applied(schema, changes) == (schema \ changes.remove) \cup changes.add \cup changes.create

\* schema_change_needs_write_transaction: whether it throws, and its result.
TooOld(stored, wanted) == wanted < stored /\ stored # NotVersioned
NeedsWrite(stored, wanted, changes) == wanted # stored \/ changes # NoChanges

(***************************************************************************)
(* The schema cache of a process.                                          *)
(***************************************************************************)
\* Mutant: the newest schema read last wins, whatever version it is of.
CacheSchemaAlways(c, schema, version, at) ==
  IF schema = {} \/ version = NotVersioned THEN c
  ELSE [schema |-> schema, version |-> version, min |-> at, max |-> at]

CacheSchema(c, schema, version, at) ==
  IF at < c.max \/ schema = {} \/ version = NotVersioned THEN c
  ELSE [schema |-> schema, version |-> version, min |-> at, max |-> at]

AdvanceCache(c, previous, next) ==
  IF c.schema = Null \/ next < c.min THEN c
  ELSE [c EXCEPT !.min = IF previous < @ THEN previous ELSE @,
                 !.max = IF next > @ THEN next ELSE @]

ClearCache(c, version) == [c EXCEPT !.schema = Null, !.version = version]

(***************************************************************************)
(* Read transactions.                                                      *)
(***************************************************************************)
\* begin_read: read_schema_from_group_if_needed reads the schema unless the Realm
\* knows the one of this very version.
BeginRead(r) ==
  LET file == log[Latest]
  IN IF r.known = Latest THEN [r EXCEPT !.at = Latest]
     ELSE [r EXCEPT !.at = Latest, !.known = Latest, !.version = file.version,
                    !.schema = IF r.dynamic THEN file.schema ELSE @]

BeginReadCaches(c, r) ==
  IF r.known = Latest THEN c
  ELSE CacheSchema(c, log[Latest].schema, log[Latest].version, Latest)

\* verify_valid_external_changes refuses columns that are gone.
BeginReadFails(r) ==
  r.known # Latest /\ ~r.dynamic /\ Compare(r.schema, log[Latest].schema).remove # {}

Between(r, Differ(_, _)) ==
  \E i \in r.at..(Latest - 1) : Differ(log[i].schema, log[i + 1].schema)

\* TransactLogValidator throws when a column has been erased on the way.
AdvanceFails(r) == Between(r, LAMBDA old, new : old \ new # {})

\* The read transaction moves to the latest version; the group calls the handler
\* of add_schema_change_handler when tables or columns have changed on the way.
Advance(r) ==
  LET file == log[Latest]
  IN IF Between(r, LAMBDA old, new : old # new)
       THEN [r EXCEPT !.at = Latest, !.new = file.schema, !.version = file.version,
                      !.schema = IF r.dynamic THEN file.schema ELSE @]
       ELSE [r EXCEPT !.at = Latest]

\* cache_new_schema, in the Realm and in the coordinator.
CacheNew(r) == [r EXCEPT !.known = r.at, !.new = Null]
NewCached(c, r) ==
  IF r.new # Null THEN CacheSchema(c, r.new, r.version, r.at)
  ELSE AdvanceCache(c, r.known, r.at)

(***************************************************************************)
(* realmWithConfiguration, from the lock to the Realm or the exception.    *)
(***************************************************************************)
P(t) == ProcessOf[t]
At(t, pc) == realm[t].pc = pc
Set(t, r) == realm' = [realm EXCEPT ![t] = r]
SetCache(t, c) == coord' = [coord EXCEPT ![P(t)] = c]
Unlock(t) == initLock' = [initLock EXCEPT ![P(t)] = Null]

\* The Realm goes to the caller, without a read transaction.
Opened(t, r) == Unlock(t) /\ Set(t, [r EXCEPT !.pc = "open", !.at = 0, !.changes = Null])

\* An exception: the lock is released first, the Realm goes last.
Failed(t, r) == Unlock(t) /\ Set(t, [r EXCEPT !.pc = "failed"])

\* Mutant: without initLock.
EnterAnyway(t) ==
  /\ At(t, "closed")
  /\ Set(t, [Closed EXCEPT !.pc = "construct"])
  /\ UNCHANGED <<target, log, writer, initLock, coord, deaths>>

Enter(t) ==
  /\ At(t, "closed") /\ initLock[P(t)] = Null
  /\ initLock' = [initLock EXCEPT ![P(t)] = t]
  /\ Set(t, [Closed EXCEPT !.pc = "construct"])
  /\ UNCHANGED <<target, log, writer, coord, deaths>>

\* The constructor takes the schema from the cache or else from the file.
Construct(t) ==
  /\ At(t, "construct")
  /\ LET c == coord[P(t)]
     IN IF c.schema # Null
          THEN Set(t, [realm[t] EXCEPT !.pc = "align", !.schema = c.schema,
                                       !.version = c.version, !.known = c.max])
          ELSE Set(t, [BeginRead(realm[t]) EXCEPT !.pc = "cache"])
  /\ UNCHANGED <<target, log, writer, initLock, coord, deaths>>

CacheFirst(t) ==
  /\ At(t, "cache")
  /\ LET r == realm[t]
     IN /\ SetCache(t, CacheSchema(coord[P(t)], r.schema, r.version, r.known))
        /\ Set(t, [r EXCEPT !.pc = "align", !.at = 0])
  /\ UNCHANGED <<target, log, writer, initLock, deaths>>

\* The Realms RLMGetAnyCachedRealmForPath may find.
InUse(p) == {u \in Thread : P(u) = p /\
  realm[u].pc \in {"open", "promote", "begun", "writing", "committed", "refreshed"}}

\* With a Realm of another thread at hand, its schema is taken over:
\* set_schema_subset, which may throw.
Align(t) ==
  /\ At(t, "align")
  /\ \/ /\ InUse(P(t)) = {}
        /\ Set(t, [realm[t] EXCEPT !.pc = "update"])
        /\ UNCHANGED initLock
     \/ \E u \in InUse(P(t)) :
          IF NeedsMigration(Compare(realm[t].schema, realm[u].schema))
            THEN Failed(t, realm[t])
            ELSE Opened(t, [realm[t] EXCEPT !.schema = realm[u].schema, !.dynamic = FALSE])
  /\ UNCHANGED <<target, log, writer, coord, deaths>>

\* update_schema up to the write transaction: get_full_schema and compare.
ReadSchema(t) ==
  /\ At(t, "update")
  /\ LET r == BeginRead(realm[t])
         goal == target[P(t)]
         changes == Compare(r.schema, goal.schema)
     IN CASE TooOld(r.version, goal.version) -> Failed(t, r)
          [] NeedsWrite(r.version, goal.version, changes) /\ ~TooOld(r.version, goal.version) ->
               /\ Set(t, [r EXCEPT !.pc = "begin", !.changes = changes])
               /\ UNCHANGED initLock
          [] OTHER -> Opened(t, [r EXCEPT !.schema = goal.schema, !.dynamic = FALSE])
  /\ SetCache(t, BeginReadCaches(coord[P(t)], realm[t]))
  /\ UNCHANGED <<target, log, writer, deaths>>

\* Mutant: the write transaction begins without waiting for the lock.
BeginWriteAnyway(t) ==
  /\ At(t, "begin")
  /\ writer' = t
  /\ Set(t, [Advance(realm[t]) EXCEPT !.pc = "recheck"])
  /\ UNCHANGED <<target, log, initLock, coord, deaths>>

\* begin_without_validation waits for the write lock, then moves to the latest version.
BeginWrite(t) ==
  /\ At(t, "begin") /\ writer = Null
  /\ writer' = t
  /\ Set(t, [Advance(realm[t]) EXCEPT !.pc = "recheck"])
  /\ UNCHANGED <<target, log, initLock, coord, deaths>>

\* Mutant: nothing is looked at again after the wait for the write lock.
RecheckNot(t) ==
  /\ At(t, "recheck")
  /\ Set(t, [CacheNew(realm[t]) EXCEPT !.pc = "apply"])
  /\ SetCache(t, NewCached(coord[P(t)], realm[t]))
  /\ UNCHANGED <<target, log, writer, initLock, deaths>>

\* Mutant: the second look computes the changes but lets an older program go on.
RecheckForgiving(t) ==
  /\ At(t, "recheck")
  /\ LET r == realm[t]
         goal == target[P(t)]
         changes == IF r.new = Null THEN r.changes ELSE Compare(r.new, goal.schema)
     IN /\ Set(t, [CacheNew(r) EXCEPT !.pc = "apply", !.changes = changes])
        /\ SetCache(t, NewCached(coord[P(t)], r))
  /\ UNCHANGED <<target, log, writer, initLock, deaths>>

\* If the schema has changed during the wait, everything is decided again.  When
\* that throws, the write transaction stays open until the Realm is destroyed.
Recheck(t) ==
  /\ At(t, "recheck")
  /\ LET r == realm[t]
         goal == target[P(t)]
         changes == IF r.new = Null THEN r.changes ELSE Compare(r.new, goal.schema)
     IN \/ /\ r.new # Null /\ TooOld(r.version, goal.version)
           /\ Failed(t, r)
           /\ UNCHANGED <<writer, coord>>
        \/ /\ r.new # Null /\ ~NeedsWrite(r.version, goal.version, changes)
           /\ writer' = Null
           /\ SetCache(t, NewCached(coord[P(t)], r))
           /\ Opened(t, [CacheNew(r) EXCEPT !.schema = goal.schema, !.dynamic = FALSE])
        \/ /\ r.new # Null => /\ ~TooOld(r.version, goal.version)
                             /\ NeedsWrite(r.version, goal.version, changes)
           /\ SetCache(t, NewCached(coord[P(t)], r))
           /\ Set(t, [CacheNew(r) EXCEPT !.pc = "apply", !.changes = changes])
           /\ UNCHANGED <<writer, initLock>>
  /\ UNCHANGED <<target, log, deaths>>

\* apply_schema_changes, then commit_transaction.  Without a new schema version
\* only tables may be added; otherwise it throws and the transaction is cancelled.
Apply(t) ==
  /\ At(t, "apply")
  /\ writer' = Null
  /\ LET r == realm[t]
         goal == target[P(t)]
     IN IF r.version = goal.version /\ NeedsMigration(r.changes)
          THEN Failed(t, r) /\ UNCHANGED log
          ELSE /\ log' = Append(log, [schema |-> Applied(log[Latest].schema, r.changes),
                                      version |-> goal.version])
               /\ Set(t, [r EXCEPT !.pc = "applied", !.at = Latest + 1])
               /\ UNCHANGED initLock
  /\ UNCHANGED <<target, coord, deaths>>

\* The end of update_schema: the cache, advanced by the commit as if the schema had
\* stayed the same, is cleared.
Clear(t) ==
  /\ At(t, "clear")
  /\ LET goal == target[P(t)]
     IN /\ SetCache(t, ClearCache(coord[P(t)], goal.version))
        /\ Opened(t, [realm[t] EXCEPT !.schema = goal.schema, !.version = goal.version,
                                      !.dynamic = FALSE])
  /\ UNCHANGED <<target, log, writer, deaths>>

\* Mutant: the Realm goes without cancelling its write transaction.
DestroyUncancelled(t) ==
  /\ At(t, "failed")
  /\ Set(t, Closed)
  /\ UNCHANGED <<target, log, writer, initLock, coord, deaths>>

\* The Realm that could not be opened, or used, is destroyed.
Destroy(t) ==
  /\ At(t, "failed")
  /\ writer' = IF writer = t THEN Null ELSE writer
  /\ Set(t, Closed)
  /\ UNCHANGED <<target, log, initLock, coord, deaths>>

(***************************************************************************)
(* A Realm in use.  A user's exception ends its use.                       *)
(***************************************************************************)
Fails(t) == Set(t, [realm[t] EXCEPT !.pc = "failed"])

\* The first access, or begin_transaction, starts a read transaction.
Access(t) ==
  /\ At(t, "open") /\ realm[t].at = 0
  /\ SetCache(t, BeginReadCaches(coord[P(t)], realm[t]))
  /\ IF BeginReadFails(realm[t]) THEN Fails(t) ELSE Set(t, BeginRead(realm[t]))
  /\ UNCHANGED <<target, log, writer, initLock, deaths>>

StartWrite(t) ==
  /\ At(t, "open") /\ realm[t].at # 0 /\ Latest < MaxVersion
  /\ Set(t, [realm[t] EXCEPT !.pc = "promote"])
  /\ UNCHANGED <<target, log, writer, initLock, coord, deaths>>

Promote(t) ==
  /\ At(t, "promote") /\ writer = Null
  /\ \/ AdvanceFails(realm[t]) /\ Fails(t) /\ UNCHANGED writer
     \/ /\ ~AdvanceFails(realm[t])
        /\ writer' = t
        /\ Set(t, [Advance(realm[t]) EXCEPT !.pc = "begun"])
  /\ UNCHANGED <<target, log, initLock, coord, deaths>>

Commit(t) ==
  /\ At(t, "writing")
  /\ log' = Append(log, log[Latest])
  /\ writer' = Null
  /\ Set(t, [realm[t] EXCEPT !.pc = "committed", !.at = Latest + 1])
  /\ UNCHANGED <<target, initLock, coord, deaths>>

Cancel(t) ==
  /\ At(t, "writing")
  /\ writer' = Null
  /\ Set(t, [realm[t] EXCEPT !.pc = "open"])
  /\ UNCHANGED <<target, log, initLock, coord, deaths>>

\* Mutant: the run loop moves the Realm on without validating the log.
RefreshUnvalidated(t) ==
  /\ At(t, "open") /\ realm[t].at \in 1..(Latest - 1)
  /\ Set(t, [Advance(realm[t]) EXCEPT !.pc = "refreshed"])
  /\ UNCHANGED <<target, log, writer, initLock, coord, deaths>>

\* refresh, or the run loop: on to the latest version.
Refresh(t) ==
  /\ At(t, "open") /\ realm[t].at \in 1..(Latest - 1)
  /\ \/ AdvanceFails(realm[t]) /\ Fails(t)
     \/ /\ ~AdvanceFails(realm[t])
        /\ Set(t, [Advance(realm[t]) EXCEPT !.pc = "refreshed"])
  /\ UNCHANGED <<target, log, writer, initLock, coord, deaths>>

AfterCaching ==
  [begun |-> "writing", committed |-> "open", refreshed |-> "open", applied |-> "clear"]

\* cache_new_schema, after the transaction that begins, commits or moves on.
CacheNewSchema(t) ==
  /\ realm[t].pc \in DOMAIN AfterCaching
  /\ SetCache(t, NewCached(coord[P(t)], realm[t]))
  /\ Set(t, [CacheNew(realm[t]) EXCEPT !.pc = AfterCaching[realm[t].pc]])
  /\ UNCHANGED <<target, log, writer, initLock, deaths>>

Invalidate(t) ==
  /\ At(t, "open") /\ realm[t].at # 0
  /\ Set(t, [realm[t] EXCEPT !.at = 0])
  /\ UNCHANGED <<target, log, writer, initLock, coord, deaths>>

Close(t) ==
  /\ At(t, "open")
  /\ Set(t, Closed)
  /\ UNCHANGED <<target, log, writer, initLock, coord, deaths>>

\* A process ends, with what its threads had not committed.
Die(p) ==
  /\ deaths < MaxDeaths
  /\ deaths' = deaths + 1
  /\ realm' = [t \in Thread |-> IF P(t) = p THEN Closed ELSE realm[t]]
  /\ coord' = [coord EXCEPT ![p] = EmptyCache]
  /\ initLock' = [initLock EXCEPT ![p] = Null]
  /\ writer' = IF writer # Null /\ P(writer) = p THEN Null ELSE writer
  /\ UNCHANGED <<target, log>>

\* What a thread does on its way through realmWithConfiguration and through a write.
Library(t) == \/ Construct(t) \/ CacheFirst(t) \/ Align(t) \/ ReadSchema(t)
              \/ BeginWrite(t) \/ Recheck(t) \/ Apply(t) \/ Clear(t) \/ Destroy(t)
              \/ Promote(t) \/ CacheNewSchema(t)

Next == \/ \E t \in Thread : \/ Enter(t) \/ Library(t)
                            \/ Access(t) \/ StartWrite(t) \/ Commit(t) \/ Cancel(t)
                            \/ Refresh(t) \/ Invalidate(t) \/ Close(t)
        \/ \E p \in Process : Die(p)

Spec == Init /\ [][Next]_vars

\* Every thread goes on, a thread that waits for the write lock again and again to
\* update the schema gets it, and the user ends every write transaction.
FairSpec == /\ Spec
            /\ \A t \in Thread : /\ WF_vars(Library(t)) /\ SF_vars(BeginWrite(t))
                                 /\ WF_vars(Commit(t) \/ Cancel(t))

(***************************************************************************)
(* Properties                                                              *)
(***************************************************************************)
TypeOK ==
  /\ target \in [Process -> Targets]
  /\ log \in Seq(Contents) /\ log # <<>>
  /\ writer \in Thread \cup {Null}
  /\ initLock \in [Process -> Thread \cup {Null}]
  /\ coord \in [Process -> Cache]
  /\ realm \in [Thread -> Realm]
  /\ deaths \in Nat
  /\ \A t \in Thread : realm[t].at <= Latest /\ realm[t].known <= Latest
  /\ \A t \in Thread : realm[t].pc \in {"recheck", "apply", "begun", "writing"} => writer = t

\* A schema version that shows: every program has a column that no older program, and no
\* first file that is older or not versioned, has.  update_schema looks at schema
\* versions again, after its wait for the write lock, only if it sees other columns.
VersionsShow ==
  \A a \in Targets : \E c \in a.schema : \A b \in Targets \cup FirstFiles :
    b.version < a.version \/ b.version = NotVersioned => c \notin b.schema

\* The changes update_schema is about to make are the differences between the file
\* as it is under the write lock and the target, however long it had to wait and
\* whatever other processes did meanwhile, and the schema version is the one looked at.
ChangesFit ==
  \A t \in Thread : At(t, "apply") =>
    /\ realm[t].changes = Compare(log[Latest].schema, target[P(t)].schema)
    /\ realm[t].version = log[Latest].version

\* A file never goes back to an older schema version.
SchemaForward ==
  [][log' # log /\ log[Latest].version # NotVersioned =>
       log'[Latest'].version >= log[Latest].version]_log

\* "Ensure that m_schema and m_schema_version match that of the current version of
\* the file": in every read transaction, also when the constructor took them from
\* the cache, and until update_schema's own commit.
KnowsFile ==
  \A t \in Thread : LET r == realm[t] IN
    r.at # 0 /\ r.pc \notin {"applied", "clear", "failed"} =>
      /\ r.version = log[r.at].version
      /\ r.dynamic => r.schema = log[r.at].schema

\* A Realm in use never reads a version of the file that lacks one of its columns.
ColumnsThere ==
  \A t \in Thread : At(t, "open") /\ realm[t].at # 0 =>
    realm[t].schema \subseteq log[realm[t].at].schema

\* The cached schema is the one of every version the cache says it is for, but for
\* the moment between update_schema's commit and the clearing of the cache.
CacheExact ==
  \A p \in Process :
    coord[p].schema # Null /\ ~(\E t \in Thread : P(t) = p /\ At(t, "clear")) =>
      \A v \in coord[p].min..coord[p].max : v <= Latest /\
        log[v].schema = coord[p].schema /\ log[v].version = coord[p].version

\* Whoever has asked for a Realm gets it or an exception, and the write lock always
\* becomes free, also when update_schema throws with a write transaction open.
OpeningEnds ==
  /\ \A p \in Process : (initLock[p] # Null) ~> (initLock[p] = Null)
  /\ (writer # Null) ~> (writer = Null)

\* realm_coordinator.cpp:289, in advance_schema_cache:
\* REALM_ASSERT(previous <= m_schema_transaction_version_max)
AdvancesFromKnown ==
  \A t \in Thread : LET r == realm[t] IN
    r.pc \in DOMAIN AfterCaching /\ r.new = Null /\ coord[P(t)].schema # Null =>
      r.known <= coord[P(t)].max
=============================================================================
