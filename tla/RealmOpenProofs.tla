-------------------------- MODULE RealmOpenProofs ---------------------------
(***************************************************************************)
(* Proofs about RealmOpen, for any threads, processes, programs, columns   *)
(* and number of versions and deaths.                                      *)
(*                                                                         *)
(* Every Realm has the schema of the version it knows, or its program's as *)
(* a part of it; the range of versions of a cache, and the versions that   *)
(* threads have got to beyond it, all have the cached schema.  What is     *)
(* said of schema versions besides holds if they can be seen in the        *)
(* columns (VersionsShow): the second half of the module.                  *)
(***************************************************************************)
EXTENDS RealmOpen, WellFoundedInduction, TLAPS

-----------------------------------------------------------------------------
(* The invariant.                                                          *)

Opening == {"construct", "cache", "align", "update", "begin", "recheck", "apply", "applied", "clear"}
Updating == {"update", "begin", "recheck", "apply", "applied", "clear"}
Using == {"open", "promote", "begun", "writing", "committed", "refreshed"}
Holding == {"recheck", "apply", "begun", "writing"}
Moving == {"recheck", "begun", "refreshed"}

S(v) == log[v].schema
Ver(v) == log[v].version
Goal(t) == target[P(t)].schema
Same(i, j) == \A v \in i .. j : S(v) = S(i)

\* Tables are never dropped, and a file that has been written has a schema version.
LogInv ==
  /\ \A i, j \in 1 .. Latest : i <= j => Tables(S(i)) \subseteq Tables(S(j))
  /\ \A v \in 2 .. Latest : Ver(v) # NotVersioned

\* A Realm against the file.  Before it is in use it has the schema of the version it
\* knows; in use it has its program's, which is part of that version's.
SchemaOK(t) == LET r == realm[t] IN
  /\ r.pc \in Opening => r.dynamic
  /\ r.pc \in {"cache", "align", "update", "begin", "apply", "applied"} => r.schema = S(r.known)
  /\ r.pc = "recheck" => r.schema = S(r.at)
  /\ r.pc \in Using => ~r.dynamic /\ r.schema = Goal(t) /\ Goal(t) \subseteq S(r.known)
  /\ r.pc \in {"begun", "refreshed", "applied", "clear"} => Goal(t) \subseteq S(r.at)
  /\ r.pc = "committed" => S(r.at) = S(r.known)
  /\ r.pc \in {"begin", "apply"} \/ (r.pc = "recheck" /\ r.new = Null) =>
       r.changes = Compare(S(r.at), Goal(t))

\* The version it knows and the one it reads.
PlaceOK(t) == LET r == realm[t] IN
  /\ r.at <= Latest /\ r.known <= Latest
  /\ r.pc = "construct" => r.known = 0
  /\ r.pc \in (Opening \ {"construct"}) \cup Using => r.known >= 1
  /\ r.pc \in {"cache", "begin", "apply", "clear", "promote", "writing"} => r.at = r.known
  /\ r.pc = "open" => r.at \in {0, r.known}
  /\ r.pc \in {"committed", "applied"} => r.at = r.known + 1
  /\ r.pc \in Moving => r.known <= r.at

\* The new schema is there after a move over versions that differ, until it is cached.
NewOK(t) == LET r == realm[t] IN
  /\ r.pc \notin Moving \cup {"failed"} => r.new = Null
  /\ r.pc \in Moving => \/ r.new = Null /\ Same(r.known, r.at)
                        \/ r.new = S(r.at) /\ r.new # {} /\ r.at >= 2 /\ r.version = Ver(r.at)
  /\ r.pc = "cache" => r.version = Ver(r.known)

\* Who holds the write lock reads the latest version.
WriterOK(t) == realm[t].pc \in Holding => writer = t /\ realm[t].at = Latest

\* One thread of a process opens the file at a time, and while it updates the schema
\* none of the others is using a Realm.
LockOK(t) == realm[t].pc \in Opening => initLock[P(t)] = t
AloneOK(t, u) == realm[t].pc \in Updating => realm[u].pc \in {"closed", "failed"}

\* A thread that may take over the schema of a Realm in use knows a version that has
\* its tables.
OfferOK(t, u) ==
  realm[t].pc \in {"cache", "align"} /\ realm[u].pc \in Using =>
    Tables(Goal(t)) \subseteq Tables(S(realm[t].known))

Clearing(p) == \E t \in Thread : P(t) = p /\ realm[t].pc = "clear"

\* The cache is about versions that exist, have something in them and are versioned,
\* and, until it is to be cleared, it has their schema.
CacheOK(p) == LET c == coord[p] IN
  /\ c.max <= Latest
  /\ c.schema # Null => /\ 1 <= c.min /\ c.min <= c.max /\ c.schema # {}
                        /\ Ver(c.max) # NotVersioned
CachedOK(p) == LET c == coord[p] IN
  c.schema # Null /\ ~Clearing(p) => \A v \in c.min .. c.max : S(v) = c.schema

\* The versions a thread of the process has got to without caching them, because
\* nothing was cached or nothing had changed.
Settled(t) == realm[t].pc \in Using \cup {"align", "update", "begin", "recheck", "apply", "applied"}
GapOK(t) == LET c == coord[P(t)] IN
  Settled(t) /\ c.schema # Null => \A v \in c.max .. realm[t].known : S(v) = c.schema

\* What is about to be cached, by a thread that read it before others moved on.
Pending(t) == \/ realm[t].pc = "cache"
              \/ realm[t].pc \in Moving /\ realm[t].new # Null
WaitOK(t, u) ==
  Settled(t) /\ Pending(u) =>
    realm[u].at < coord[P(t)].max \/ Same(realm[u].at, realm[t].known)

\* Nobody has used a file without a schema version.
Unversioned ==
  Latest = 1 /\ Ver(1) = NotVersioned =>
    /\ \A p \in Process : coord[p].schema = Null
    /\ \A t \in Thread : /\ realm[t].pc \notin Using \cup {"applied", "clear"}
                         /\ realm[t].version = NotVersioned

ThreadInv(t) == SchemaOK(t) /\ PlaceOK(t) /\ NewOK(t) /\ WriterOK(t) /\ LockOK(t) /\ GapOK(t)
PairInv(t, u) == (t # u => AloneOK(t, u)) /\ OfferOK(t, u) /\ WaitOK(t, u)
CacheInv(p) == CacheOK(p) /\ CachedOK(p)

IInv ==
  /\ TypeOK /\ LogInv /\ Unversioned
  /\ \A t \in Thread : ThreadInv(t)
  /\ \A t, u \in Thread : P(t) = P(u) => PairInv(t, u)
  /\ \A p \in Process : CacheInv(p)

-----------------------------------------------------------------------------
(* Sets of columns, and the log.                                           *)

\* A set of natural numbers that is not empty has a least element.
LEMMA LeastNat ==
  ASSUME NEW T \in SUBSET Nat, T # {}
  PROVE  \E x \in T : \A y \in T : x <= y
<1> DEFINE R == OpToRel(<, Nat)
<1>1. R = {ss \in Nat \X Nat : ss[1] < ss[2]}
  BY Zenon DEF OpToRel
<1>2. IsWellFoundedOn(R, Nat)
  BY NatLessThanWellFounded, Zenon
<1> HIDE DEF R
<1>3. PICK x \in T : \A y \in T : ~(<<y, x>> \in R)
  BY <1>2, WFMin, Zenon
<1>4. ASSUME NEW y \in T, ~(x <= y) PROVE FALSE
  <2>1. <<y, x>> \in R
    BY <1>1, <1>4
  <2> QED BY <1>3, <2>1
<1> QED BY <1>4

\* What every step from i to i + 1 keeps is kept from a on.
LEMMA Along ==
  ASSUME NEW a \in Nat, NEW b \in Nat, NEW G, a \in G,
         \A i \in a .. (b - 1) : i \in G => i + 1 \in G
  PROVE  \A j \in a .. b : j \in G
<1> DEFINE T == {j \in a .. b : j \notin G}
<1>1. SUFFICES ASSUME T # {} PROVE FALSE
  OBVIOUS
<1>2. T \in SUBSET Nat
  OBVIOUS
<1>3. PICK x \in T : \A y \in T : x <= y
  <2> HIDE DEF T
  <2> QED BY <1>1, <1>2, LeastNat
<1>4. x # a /\ x - 1 \in a .. (b - 1) /\ x - 1 \notin T
  BY <1>3
<1>5. x - 1 \in G
  BY <1>4
<1> QED BY <1>3, <1>4, <1>5

LEMMA TablesGrow == ASSUME NEW s, NEW q, s \subseteq q PROVE Tables(s) \subseteq Tables(q)
  BY DEF Tables

LEMMA NoTables == ASSUME NEW s, Tables(s) = {} PROVE s = {}
  BY DEF Tables

\* Columns whose tables are all there need no migration only if they are there too.
LEMMA NothingToAdd ==
  ASSUME NEW existing, NEW wanted, Tables(wanted) \subseteq Tables(existing),
         Compare(existing, wanted).add = {}
  PROVE  wanted \subseteq existing
<1>1. {c \in wanted \ existing : c[1] \in Tables(existing)} = {}
  BY DEF Compare
<1>2. \A c \in wanted : c[1] \in Tables(existing)
  BY DEF Tables
<1> QED BY <1>1, <1>2

LEMMA NothingToRemove ==
  ASSUME NEW existing, NEW wanted, Tables(wanted) \subseteq Tables(existing),
         Compare(wanted, existing).remove = {}
  PROVE  wanted \subseteq existing
<1>1. {c \in wanted \ existing : c[1] \in Tables(existing)} = {}
  BY DEF Compare
<1>2. \A c \in wanted : c[1] \in Tables(existing)
  BY DEF Tables
<1> QED BY <1>1, <1>2

LEMMA NothingToDo ==
  ASSUME NEW existing, NEW wanted, Compare(existing, wanted) = NoChanges
  PROVE  wanted \subseteq existing
<1>1. /\ {c \in wanted : c[1] \notin Tables(existing)} = {}
      /\ {c \in wanted \ existing : c[1] \in Tables(existing)} = {}
  BY DEF Compare, NoChanges
<1> QED BY <1>1

LEMMA CompareType ==
  ASSUME NEW existing \in SUBSET Column, NEW wanted \in SUBSET Column
  PROVE  Compare(existing, wanted) \in Changes
  BY DEF Compare, Changes

\* What apply_schema_changes makes of a schema: no table goes, and the wanted columns
\* are there.
LEMMA AppliedIs ==
  ASSUME NEW existing \in SUBSET Column, NEW wanted \in SUBSET Column
  PROVE  LET after == Applied(existing, Compare(existing, wanted)) IN
         /\ after \in SUBSET Column /\ wanted \subseteq after
         /\ Tables(existing) \subseteq Tables(after)
<1> DEFINE after == Applied(existing, Compare(existing, wanted))
<1>1. after = (existing \ {c \in existing \ wanted : c[1] \in Tables(wanted)})
                \cup {c \in wanted \ existing : c[1] \in Tables(existing)}
                \cup {c \in wanted : c[1] \notin Tables(existing)}
  BY DEF Applied, Compare
<1> HIDE DEF after
<1>2. after \in SUBSET Column /\ wanted \subseteq after
  BY <1>1
<1>3. ASSUME NEW c \in existing PROVE \E d \in after : d[1] = c[1]
  <2>1. CASE c[1] \in Tables(wanted)
    <3>1. PICK d \in wanted : d[1] = c[1]
      BY <2>1 DEF Tables
    <3> QED BY <1>2, <3>1
  <2>2. CASE c[1] \notin Tables(wanted)
    BY <1>1, <2>2
  <2> QED BY <2>1, <2>2
<1>4. Tables(existing) \subseteq Tables(after)
  BY <1>3 DEF Tables
<1> QED BY <1>2, <1>4 DEF after

-----------------------------------------------------------------------------
(* A step of a thread.                                                     *)

LEMMA Types ==
  ASSUME TypeOK, NEW t \in Thread
  PROVE  /\ P(t) \in Process /\ realm[t] \in Realm /\ coord[P(t)] \in Cache
         /\ target[P(t)] \in Targets /\ target[P(t)] \in Contents
         /\ target[P(t)].version \in Nat /\ target[P(t)].version < NotVersioned
         /\ Goal(t) \in SUBSET Column
         /\ realm[t].known \in Nat /\ realm[t].at \in Nat
<1>1. P(t) \in Process
  BY RealmOpenAssumption DEF P
<1>2. realm[t] \in Realm /\ coord[P(t)] \in Cache /\ target[P(t)] \in Targets
  BY <1>1 DEF TypeOK
<1>3. target[P(t)] \in Contents /\ target[P(t)].version < NotVersioned
  BY <1>2, RealmOpenAssumption
<1> QED BY <1>1, <1>2, <1>3 DEF Contents, Goal, Realm

LEMMA LogTypes ==
  ASSUME TypeOK
  PROVE  /\ Latest \in Nat /\ Latest >= 1 /\ DOMAIN log = 1 .. Latest
         /\ \A v \in 1 .. Latest : log[v] \in Contents /\ S(v) \in SUBSET Column /\ Ver(v) \in Nat
<1>1. Latest \in Nat /\ Latest >= 1 /\ DOMAIN log = 1 .. Latest
  BY DEF TypeOK, Latest
<1>2. \A v \in 1 .. Latest : log[v] \in Contents
  BY <1>1 DEF TypeOK
<1> QED BY <1>1, <1>2 DEF Contents, S, Ver

\* The log keeps what it has.
Grown == /\ log' \in Seq(Contents) /\ Latest' \in Nat /\ Latest' >= Latest
         /\ \A v \in 1 .. Latest : log'[v] = log[v]

\* What t does to what is not its own.
OnlyThread(t) ==
  /\ target' = target /\ deaths' \in Nat
  /\ realm' \in [Thread -> Realm] /\ \A u \in Thread \ {t} : realm'[u] = realm[u]
  /\ coord' \in [Process -> Cache] /\ \A p \in Process \ {P(t)} : coord'[p] = coord[p]
  /\ initLock' \in [Process -> Thread \cup {Null}]
  /\ \A p \in Process \ {P(t)} : initLock'[p] = initLock[p]
  /\ initLock'[P(t)] = initLock[P(t)] \/ initLock[P(t)] \in {t, Null}
  /\ writer' \in Thread \cup {Null}
  /\ writer' = writer \/ writer \in {t, Null}
  /\ Grown /\ (Latest' = Latest \/ writer = t)

LEMMA LogSame ==
  ASSUME TypeOK, log' = log
  PROVE  /\ Grown /\ Latest' = Latest /\ \A v : S(v)' = S(v) /\ Ver(v)' = Ver(v)
         /\ LogInv => LogInv'
<1>1. Latest' = Latest /\ \A v : S(v)' = S(v) /\ Ver(v)' = Ver(v)
  BY DEF Latest, S, Ver
<1>2. Grown
  BY <1>1, LogTypes DEF Grown, TypeOK
<1>3. LogInv => LogInv'
  BY <1>1, Zenon DEF LogInv
<1> QED BY <1>1, <1>2, <1>3

LEMMA GrownKeeps ==
  ASSUME TypeOK, Grown
  PROVE  /\ \A v \in 1 .. Latest : S(v)' = S(v) /\ Ver(v)' = Ver(v)
         /\ \A i, j \in 1 .. Latest : Same(i, j)' <=> Same(i, j)
<1>1. \A v \in 1 .. Latest : S(v)' = S(v) /\ Ver(v)' = Ver(v)
  BY DEF Grown, S, Ver
<1>2. ASSUME NEW i \in 1 .. Latest, NEW j \in 1 .. Latest
      PROVE  Same(i, j)' <=> Same(i, j)
  <2>1. \A v \in i .. j : v \in 1 .. Latest
    BY LogTypes
  <2> QED BY <1>1, <2>1 DEF Same
<1> QED BY <1>1, <1>2

\* The Realm of a thread that does not move fits as before.
LEMMA Unmoved ==
  ASSUME TypeOK, Grown, target' = target, NEW t \in Thread, realm'[t] = realm[t],
         SchemaOK(t), PlaceOK(t), NewOK(t)
  PROVE  SchemaOK(t)' /\ PlaceOK(t)' /\ NewOK(t)'
<1> DEFINE r == realm[t]
<1>1. r.known \in Nat /\ r.at \in Nat /\ Latest \in Nat /\ Latest' \in Nat /\ Latest <= Latest'
  BY Types, LogTypes DEF Grown
<1>2. r.at <= Latest /\ r.known <= Latest
  BY DEF PlaceOK
<1>3. r.known >= 1 => S(r.known)' = S(r.known) /\ Ver(r.known)' = Ver(r.known)
  BY <1>1, <1>2, GrownKeeps
<1>4. r.at >= 1 => S(r.at)' = S(r.at) /\ Ver(r.at)' = Ver(r.at)
  BY <1>1, <1>2, GrownKeeps
<1>5. r.at >= 1 /\ r.known >= 1 => (Same(r.known, r.at)' <=> Same(r.known, r.at))
  BY <1>1, <1>2, GrownKeeps
<1>6. Goal(t)' = Goal(t)
  BY DEF Goal
<1>7. PlaceOK(t)'
  BY <1>1, <1>2 DEF PlaceOK
<1>8. SchemaOK(t)'
  <2>1. r.pc \in (Opening \ {"construct"}) \cup Using => r.known >= 1
    BY DEF PlaceOK
  <2>2. r.pc \in {"recheck", "begin", "apply", "begun", "refreshed", "applied", "clear", "committed"}
          => r.at >= 1
    BY <1>1 DEF PlaceOK, Opening, Using, Moving
  <2> QED BY <1>3, <1>4, <1>6, <2>1, <2>2 DEF SchemaOK, Opening, Using
<1>9. NewOK(t)'
  <2>1. r.pc \in Moving \cup {"cache"} => r.known >= 1 /\ r.at >= 1
    BY <1>1 DEF PlaceOK, Opening, Using, Moving
  <2> QED BY <1>3, <1>4, <1>5, <2>1 DEF NewOK
<1> QED BY <1>7, <1>8, <1>9

\* What concerns the cache of a process.
ProcessOK(p) ==
  /\ CacheInv(p)
  /\ \A u \in Thread : P(u) = p => GapOK(u)
  /\ \A u, w \in Thread : P(u) = p /\ P(w) = p => WaitOK(u, w)

UnversionedAt(t) ==
  Latest = 1 /\ Ver(1) = NotVersioned =>
    /\ coord[P(t)].schema = Null
    /\ realm[t].pc \notin Using \cup {"applied", "clear"}
    /\ realm[t].version = NotVersioned

\* The other threads of its process.
Mates(t) == {u \in Thread : P(u) = P(t) /\ u # t}

\* Nothing has to be shown of other processes, nor of the other threads but what
\* relates them to t and to the cache.
LEMMA ThreadStep ==
  ASSUME IInv, NEW t \in Thread, OnlyThread(t), LogInv', UnversionedAt(t)',
         SchemaOK(t)', PlaceOK(t)', NewOK(t)', WriterOK(t)', LockOK(t)',
         \A u \in Mates(t) : AloneOK(t, u)' /\ AloneOK(u, t)' /\ OfferOK(t, u)' /\ OfferOK(u, t)',
         ProcessOK(P(t))'
  PROVE  IInv'
<1>1. TypeOK /\ Grown /\ target' = target /\ t \in Thread /\ Null \notin Thread
  BY RealmOpenAssumption DEF IInv, OnlyThread
<1>2. \A u \in Thread : P(u)' = P(u) /\ P(u) \in Process
  BY <1>1, Types DEF P
<1>3. ASSUME NEW u \in Thread, u # t
      PROVE  /\ realm'[u] = realm[u] /\ SchemaOK(u)' /\ PlaceOK(u)' /\ NewOK(u)'
             /\ WriterOK(u)' /\ LockOK(u)'
  <2>1. realm'[u] = realm[u]
    BY <1>3 DEF OnlyThread
  <2>2. SchemaOK(u)' /\ PlaceOK(u)' /\ NewOK(u)'
    BY <1>1, <1>3, <2>1, Unmoved DEF IInv, ThreadInv
  <2>3. WriterOK(u) /\ LockOK(u)
    BY DEF IInv, ThreadInv
  <2>4. WriterOK(u)'
    BY <1>1, <1>3, <2>1, <2>3 DEF WriterOK, OnlyThread
  <2>5. LockOK(u)'
    BY <1>1, <1>2, <1>3, <2>1, <2>3 DEF LockOK, OnlyThread
  <2> QED BY <2>1, <2>2, <2>4, <2>5
<1>4. \A u \in Thread : SchemaOK(u)' /\ PlaceOK(u)' /\ NewOK(u)' /\ WriterOK(u)' /\ LockOK(u)'
  BY <1>3
<1>5. ASSUME NEW p \in Process, p # P(t)
      PROVE  ProcessOK(p)'
  <2>1. coord'[p] = coord[p] /\ CacheInv(p) /\ coord[p] \in Cache
    BY <1>1, <1>5 DEF OnlyThread, IInv, TypeOK
  <2>2. ASSUME NEW u \in Thread, P(u) = p
        PROVE  /\ u # t /\ realm'[u] = realm[u] /\ GapOK(u) /\ PlaceOK(u)
               /\ realm[u].known \in Nat /\ realm[u].at \in Nat
    BY <1>1, <1>3, <1>5, <2>2, Types DEF IInv, ThreadInv
  <2>3. Clearing(p)' <=> Clearing(p)
    BY <1>2, <2>2, Zenon DEF Clearing
  <2>4. coord[p].max \in Nat /\ coord[p].min \in Nat /\ Latest \in Nat /\ Latest' \in Nat /\ Latest <= Latest'
    BY <1>1, <2>1, LogTypes DEF Cache, Grown
  <2>5. \A v \in 1 .. Latest : S(v)' = S(v) /\ Ver(v)' = Ver(v)
    BY <1>1, GrownKeeps
  <2>6. CacheInv(p)'
    <3>1. CacheOK(p)'
      BY <2>1, <2>4, <2>5 DEF CacheInv, CacheOK
    <3>2. CachedOK(p)'
      BY <2>1, <2>3, <2>4, <2>5 DEF CacheInv, CacheOK, CachedOK
    <3> QED BY <3>1, <3>2 DEF CacheInv
  <2>7. ASSUME NEW u \in Thread, P(u) = p
        PROVE  GapOK(u)'
    <3>1. coord'[P(u)'] = coord[P(u)] /\ realm'[u] = realm[u] /\ GapOK(u) /\ P(u) = p
      BY <1>2, <2>1, <2>2, <2>7
    <3>2. realm[u].known \in Nat /\ realm[u].known <= Latest
      BY <2>2, <2>7 DEF PlaceOK
    <3>3. coord[P(u)].schema # Null => 1 <= coord[P(u)].max
      BY <2>1, <2>4, <2>7 DEF CacheInv, CacheOK, Cache
    <3>4. Settled(u)' <=> Settled(u)
      BY <3>1 DEF Settled
    <3>5. coord[P(u)].max \in Nat
      BY <2>4, <2>7
    <3> QED BY <3>1, <3>2, <3>3, <3>4, <3>5, <2>4, <2>5 DEF GapOK
  <2>8. ASSUME NEW u \in Thread, NEW w \in Thread, P(u) = p, P(w) = p
        PROVE  WaitOK(u, w)'
    <3>1. coord'[P(u)'] = coord[P(u)] /\ realm'[u] = realm[u] /\ realm'[w] = realm[w] /\ WaitOK(u, w)
      <4>1. realm'[u] = realm[u] /\ realm'[w] = realm[w]
        BY <2>2, <2>8
      <4> QED BY <1>2, <2>1, <2>8, <4>1 DEF IInv, PairInv
    <3>2. (Settled(u)' <=> Settled(u)) /\ (Pending(w)' <=> Pending(w))
      BY <3>1 DEF Settled, Pending
    <3>3. Pending(w) => realm[w].at >= 1
      BY <2>2, <2>8 DEF Pending, PlaceOK, Opening, Using, Moving
    <3>4. Settled(u) => realm[u].known >= 1
      BY <2>2, <2>8 DEF Settled, PlaceOK, Opening, Using
    <3>5. realm[w].at <= Latest /\ realm[u].known <= Latest
      BY <2>2, <2>8 DEF PlaceOK
    <3>6. Settled(u) /\ Pending(w) =>
            (Same(realm[w].at, realm[u].known)' <=> Same(realm[w].at, realm[u].known))
      <4>1. /\ realm[w].at \in Nat /\ realm[u].known \in Nat
            /\ \A i, j \in 1 .. Latest : Same(i, j)' <=> Same(i, j)
        BY <1>1, <2>2, <2>8, GrownKeeps
      <4> QED BY <2>4, <3>1, <3>3, <3>4, <3>5, <4>1
    <3> QED BY <3>1, <3>2, <3>6 DEF WaitOK
  <2> QED BY <1>2, <2>6, <2>7, <2>8 DEF ProcessOK
<1>6. \A p \in Process : ProcessOK(p)'
  BY <1>2, <1>5 DEF OnlyThread
<1>7. ASSUME NEW u \in Thread, NEW w \in Thread, P(u) = P(w)
      PROVE  (u # w => AloneOK(u, w)') /\ OfferOK(u, w)'
  <2>1. PairInv(u, w)
    BY <1>7 DEF IInv
  <2>2. CASE u # t /\ w # t
    <3>1. realm'[u] = realm[u] /\ realm'[w] = realm[w] /\ Goal(u)' = Goal(u)
      BY <1>1, <1>2, <1>3, <2>2 DEF Goal
    <3>2. realm[u].pc \in {"cache", "align"} => S(realm[u].known)' = S(realm[u].known)
      <4>1. realm[u].known \in Nat /\ Latest \in Nat /\ realm[u].known <= Latest
        BY <1>1, Types, LogTypes DEF IInv, ThreadInv, PlaceOK
      <4>2. realm[u].pc \in {"cache", "align"} => realm[u].known >= 1
        BY DEF IInv, ThreadInv, PlaceOK, Opening
      <4> QED BY <1>1, <3>1, <4>1, <4>2, GrownKeeps
    <3> QED BY <2>1, <3>1, <3>2 DEF PairInv, AloneOK, OfferOK
  <2>3. CASE u = t /\ w = t
    <3>1. OfferOK(t, t)'
      BY DEF OfferOK, Using
    <3> QED BY <2>3, <3>1
  <2>4. CASE u = t /\ w # t
    BY <1>7, <2>4 DEF Mates
  <2>5. CASE u # t /\ w = t
    BY <1>7, <2>5 DEF Mates
  <2> QED BY <2>2, <2>3, <2>4, <2>5
<1>8. TypeOK'
  <2>1. log' # <<>>
    BY <1>1, LogTypes DEF Grown, Latest
  <2>2. \A u \in Thread : (realm[u].at <= Latest /\ realm[u].known <= Latest)'
    BY <1>4 DEF PlaceOK
  <2>3. \A u \in Thread : (realm[u].pc \in {"recheck", "apply", "begun", "writing"} => writer = u)'
    BY <1>4 DEF WriterOK, Holding
  <2>4. target' \in [Process -> Targets]
    BY <1>1 DEF TypeOK
  <2> QED BY <2>1, <2>2, <2>3, <2>4 DEF TypeOK, OnlyThread, Grown
<1>9. Unversioned'
  <2>1. ASSUME (Latest = 1 /\ Ver(1) = NotVersioned)'
        PROVE  /\ \A p \in Process : coord'[p].schema = Null
               /\ \A u \in Thread : /\ realm'[u].pc \notin Using \cup {"applied", "clear"}
                                    /\ realm'[u].version = NotVersioned
    <3>1. Latest = 1 /\ Ver(1) = NotVersioned
      BY <1>1, <2>1, LogTypes, GrownKeeps DEF Grown
    <3>2. \A p \in Process \ {P(t)} : coord'[p].schema = Null
      BY <3>1 DEF IInv, Unversioned, OnlyThread
    <3>3. \A u \in Thread \ {t} : /\ realm'[u].pc \notin Using \cup {"applied", "clear"}
                                 /\ realm'[u].version = NotVersioned
      BY <3>1 DEF IInv, Unversioned, OnlyThread
    <3>4. /\ coord'[P(t)].schema = Null
          /\ realm'[t].pc \notin Using \cup {"applied", "clear"}
          /\ realm'[t].version = NotVersioned
      BY <1>2, <2>1 DEF UnversionedAt
    <3> QED BY <3>2, <3>3, <3>4
  <2> QED BY <2>1 DEF Unversioned
<1>10. \A u \in Thread : ThreadInv(u)'
  BY <1>2, <1>4, <1>6 DEF ThreadInv, ProcessOK
<1>11. \A u, w \in Thread : P(u)' = P(w)' => PairInv(u, w)'
  <2>1. ASSUME NEW u \in Thread, NEW w \in Thread, P(u) = P(w) PROVE PairInv(u, w)'
    <3>1. WaitOK(u, w)'
      BY <1>2, <1>6, <2>1 DEF ProcessOK
    <3>2. (u # w => AloneOK(u, w)') /\ OfferOK(u, w)'
      BY <1>7, <2>1
    <3> QED BY <3>1, <3>2 DEF PairInv
  <2> QED BY <1>2, <2>1
<1>12. \A p \in Process : CacheInv(p)'
  BY <1>6 DEF ProcessOK
<1> QED BY <1>8, <1>9, <1>10, <1>11, <1>12 DEF IInv

-----------------------------------------------------------------------------
(* What a step does with the cache.                                        *)

\* While the cache waits to be cleared, the process has no other thread on its way.
LEMMA NotClearing ==
  ASSUME IInv, NEW t \in Thread, realm[t].pc \notin {"closed", "failed", "clear"}
  PROVE  ~Clearing(P(t))
<1>1. ASSUME NEW u \in Thread, P(u) = P(t), realm[u].pc = "clear" PROVE FALSE
  <2>1. u # t
    BY <1>1
  <2>2. AloneOK(u, t)
    BY <1>1, <2>1 DEF IInv, PairInv
  <2> QED BY <1>1, <2>2 DEF AloneOK, Updating
<1> QED BY <1>1 DEF Clearing

\* The facts about a thread and its process that the lemmas below need.
LEMMA Facts ==
  ASSUME IInv, NEW t \in Thread
  PROVE  /\ TypeOK /\ LogInv /\ Unversioned
         /\ P(t) \in Process /\ realm[t] \in Realm /\ coord[P(t)] \in Cache
         /\ target[P(t)] \in Contents /\ target[P(t)].version < NotVersioned
         /\ Goal(t) \in SUBSET Column
         /\ realm[t].known \in Nat /\ realm[t].at \in Nat
         /\ coord[P(t)].min \in Nat /\ coord[P(t)].max \in Nat
         /\ Latest \in Nat /\ Latest >= 1
         /\ ThreadInv(t) /\ CacheOK(P(t)) /\ CachedOK(P(t)) /\ WaitOK(t, t)
BY Types, LogTypes DEF IInv, Cache, CacheInv, PairInv

\* The clearing of the cache is another matter: it ends, or it is not under way.
Uncleared(t) == ~Clearing(P(t)) /\ realm'[t].pc # "clear"

LEMMA StillNotClearing ==
  ASSUME NEW t \in Thread, OnlyThread(t), Uncleared(t)
  PROVE  ~Clearing(P(t))'
<1>1. \A u \in Thread : P(u)' = P(u)
  BY DEF P
<1>2. ASSUME NEW u \in Thread, P(u) = P(t), realm'[u].pc = "clear" PROVE FALSE
  <2>1. CASE u = t
    BY <1>2, <2>1 DEF Uncleared
  <2>2. CASE u # t
    <3>1. realm'[u] = realm[u]
      BY <2>2 DEF OnlyThread
    <3> QED BY <1>2, <3>1 DEF Uncleared, Clearing
  <2> QED BY <2>1, <2>2
<1> QED BY <1>1, <1>2 DEF Clearing

\* The cache stays.
LEMMA QuietCache ==
  ASSUME IInv, NEW t \in Thread, OnlyThread(t), coord'[P(t)] = coord[P(t)],
         PlaceOK(t)', realm[t].pc # "clear", realm'[t].pc # "clear", GapOK(t)',
         \A u \in Thread : P(u) = P(t) => WaitOK(t, u)' /\ WaitOK(u, t)'
  PROVE  ProcessOK(P(t))'
<1> DEFINE p == P(t)
           c == coord[p]
<1>1. TypeOK /\ Grown /\ CacheOK(p) /\ CachedOK(p) /\ p \in Process
      /\ c.min \in Nat /\ c.max \in Nat /\ Latest \in Nat /\ Latest' \in Nat /\ Latest <= Latest'
  BY Facts DEF OnlyThread, Grown
<1>2. \A u \in Thread : P(u)' = P(u)
  BY DEF P
<1>3. \A v \in 1 .. Latest : S(v)' = S(v) /\ Ver(v)' = Ver(v)
  BY <1>1, GrownKeeps
<1>4. coord'[p]  = c
  OBVIOUS
<1> HIDE DEF c
<1>5. CacheOK(p)'
  BY <1>1, <1>2, <1>3, <1>4 DEF CacheOK, c
<1>6. CachedOK(p)'
  <2>1. Clearing(p)' <=> Clearing(p)
    BY <1>2, Zenon DEF Clearing, OnlyThread
  <2> QED BY <1>1, <1>2, <1>3, <1>4, <2>1 DEF CacheOK, CachedOK, c
<1>7. ASSUME NEW u \in Thread, P(u) = p
      PROVE  GapOK(u)'
  <2>1. CASE u = t
    BY <2>1
  <2>2. CASE u # t
    <3>1. realm'[u] = realm[u] /\ coord'[P(u)'] = coord[P(u)] /\ P(u)' = P(u)
      BY <1>2, <1>4, <1>7, <2>2 DEF OnlyThread, c
    <3>2. GapOK(u) /\ realm[u].known \in Nat /\ realm[u].known <= Latest
      BY Facts DEF ThreadInv, PlaceOK
    <3>3. coord[P(u)].schema # Null => 1 <= coord[P(u)].max
      BY <1>1, <1>7 DEF CacheOK, c
    <3>4. (Settled(u)' <=> Settled(u)) /\ coord[P(u)].max \in Nat
      BY <3>1, <1>1, <1>7 DEF Settled, c
    <3> QED BY <1>1, <1>3, <3>1, <3>2, <3>3, <3>4 DEF GapOK
  <2> QED BY <2>1, <2>2
<1>8. ASSUME NEW u \in Thread, NEW w \in Thread, P(u) = p, P(w) = p
      PROVE  WaitOK(u, w)'
  <2>1. CASE u = t \/ w = t
    BY <1>8, <2>1
  <2>2. CASE u # t /\ w # t
    <3>1. realm'[u] = realm[u] /\ realm'[w] = realm[w] /\ coord'[P(u)'] = coord[P(u)]
      BY <1>2, <1>4, <1>8, <2>2 DEF OnlyThread, c
    <3>2. WaitOK(u, w)
      BY <1>8 DEF IInv, PairInv
    <3>3. (Settled(u)' <=> Settled(u)) /\ (Pending(w)' <=> Pending(w))
      BY <3>1 DEF Settled, Pending
    <3>4. /\ PlaceOK(u) /\ PlaceOK(w) /\ realm[u].known \in Nat
          /\ realm[w].at \in Nat /\ realm[w].known \in Nat
      BY Facts DEF ThreadInv
    <3>5. Pending(w) => realm[w].at >= 1
      BY <3>4 DEF Pending, PlaceOK, Opening, Using, Moving
    <3>6. Settled(u) => realm[u].known >= 1
      BY <3>4 DEF Settled, PlaceOK, Opening, Using
    <3>7. realm[w].at <= Latest /\ realm[u].known <= Latest
      BY <3>4 DEF PlaceOK
    <3>8. \A i, j \in 1 .. Latest : Same(i, j)' <=> Same(i, j)
      BY <1>1, GrownKeeps
    <3>9. Settled(u) /\ Pending(w) =>
            (Same(realm[w].at, realm[u].known)' <=> Same(realm[w].at, realm[u].known))
      BY <1>1, <3>1, <3>4, <3>5, <3>6, <3>7, <3>8
    <3> QED BY <3>1, <3>2, <3>3, <3>9 DEF WaitOK
  <2> QED BY <2>1, <2>2
<1> QED BY <1>2, <1>5, <1>6, <1>7, <1>8 DEF ProcessOK, CacheInv

\* The schema of version a is cached, unless the cache is about later ones, there is
\* nothing in it or it is not versioned.
LEMMA CacheSchemaStep ==
  ASSUME IInv, NEW t \in Thread, OnlyThread(t), log' = log, PlaceOK(t)', Uncleared(t),
         NEW a \in 1 .. Latest,
         coord'[P(t)] = CacheSchema(coord[P(t)], S(a), Ver(a), a),
         Settled(t)' => realm'[t].known = a, ~Pending(t)',
         \A u \in Mates(t) : Settled(u) => a < coord[P(t)].max \/ Same(a, realm[u].known)
  PROVE  ProcessOK(P(t))'
<1> DEFINE p == P(t)
           c == coord[p]
<1>1. /\ TypeOK /\ LogInv /\ CacheOK(p) /\ CachedOK(p) /\ p \in Process
      /\ c.min \in Nat /\ c.max \in Nat /\ Latest \in Nat /\ Latest' = Latest
      /\ a \in Nat /\ 1 <= a /\ a <= Latest
  BY Facts, LogSame
<1>2. \A u \in Thread : P(u)' = P(u)
  BY DEF P
<1>3. \A v : S(v)' = S(v) /\ Ver(v)' = Ver(v)
  BY <1>1, LogSame
<1>4. ~Clearing(p) /\ ~Clearing(p)'
  BY StillNotClearing DEF Uncleared
<1>a. realm[t].pc # "clear" /\ realm'[t].pc # "clear"
  BY DEF Uncleared, Clearing
<1>5. /\ \A u \in Thread \ {t} : realm'[u] = realm[u]
      /\ \A u \in Thread \ {t} : (Settled(u)' <=> Settled(u)) /\ (Pending(u)' <=> Pending(u))
  BY DEF OnlyThread, Settled, Pending
<1>6. ASSUME NEW u \in Thread, Pending(u) PROVE realm[u].at \in 1 .. Latest
  <2>1. PlaceOK(u) /\ realm[u].known \in Nat /\ realm[u].at \in Nat
    BY Facts DEF ThreadInv
  <2>2. realm[u].at >= 1
    BY <1>6, <2>1 DEF Pending, PlaceOK, Opening, Using, Moving
  <2> QED BY <1>1, <2>1, <2>2 DEF PlaceOK
<1>7. CASE coord'[p] = c
  <2>1. CASE a < c.max
    <3>1. GapOK(t)'
      BY <1>1, <1>2, <1>7, <2>1 DEF GapOK
    <3>2. ASSUME NEW u \in Thread, P(u) = p PROVE WaitOK(t, u)' /\ WaitOK(u, t)'
      <4>1. WaitOK(u, t)'
        BY DEF WaitOK
      <4>2. ASSUME Settled(t)', Pending(u)'
            PROVE  realm'[u].at < c.max \/ Same(realm[u].at, realm[t].known)'
        <5>1. realm'[u].at \in 1 .. Latest /\ realm'[t].known = a
          BY <1>5, <1>6, <4>2
        <5> QED BY <1>1, <2>1, <5>1 DEF Same
      <4> QED BY <1>2, <1>7, <4>1, <4>2 DEF WaitOK
    <3> QED BY <1>7, <3>1, <3>2, <1>a, QuietCache
  <2>2. CASE S(a) = {}
    <3>1. ASSUME NEW v \in 1 .. a PROVE S(v) = {}
      <4>1. Tables(S(v)) \subseteq Tables(S(a)) /\ Tables(S(a)) = {}
        BY <1>1, <2>2 DEF LogInv, Tables
      <4> QED BY <4>1, NoTables
    <3>2. c.schema # Null => a < c.max
      BY <1>1, <1>4, <3>1 DEF CacheOK, CachedOK
    <3>3. GapOK(t)'
      BY <1>1, <1>2, <1>7, <3>2 DEF GapOK
    <3>4. ASSUME NEW u \in Thread, P(u) = p PROVE WaitOK(t, u)' /\ WaitOK(u, t)'
      <4>1. WaitOK(u, t)'
        BY DEF WaitOK
      <4>2. ASSUME Settled(t)', Pending(u)'
            PROVE  Same(realm[u].at, realm[t].known)'
        <5>1. realm'[u].at \in 1 .. Latest /\ realm'[t].known = a
          BY <1>5, <1>6, <4>2
        <5>2. \A v \in realm'[u].at .. a : S(v)' = {} /\ S(realm[u].at)' = {}
          BY <1>1, <1>3, <3>1, <5>1
        <5> QED BY <5>1, <5>2 DEF Same
      <4> QED BY <1>2, <1>7, <4>1, <4>2 DEF WaitOK
    <3> QED BY <1>7, <3>3, <3>4, <1>a, QuietCache
  <2>3. CASE Ver(a) = NotVersioned
    <3>1. a = 1
      BY <1>1, <2>3 DEF LogInv
    <3>2. c.schema # Null => a < c.max
      BY <1>1, <2>3, <3>1 DEF CacheOK
    <3>3. GapOK(t)'
      BY <1>1, <1>2, <1>7, <3>2 DEF GapOK
    <3>4. ASSUME NEW u \in Thread, P(u) = p PROVE WaitOK(t, u)' /\ WaitOK(u, t)'
      <4>1. WaitOK(u, t)'
        BY DEF WaitOK
      <4>2. ASSUME Settled(t)', Pending(u)'
            PROVE  Same(realm[u].at, realm[t].known)'
        <5>1. realm'[u].at \in 1 .. Latest /\ realm'[t].known = 1
          BY <1>5, <1>6, <3>1, <4>2
        <5>2. \A v \in realm'[u].at .. 1 : v = realm'[u].at
          BY <1>1, <5>1
        <5> QED BY <5>1, <5>2 DEF Same
      <4> QED BY <1>2, <1>7, <4>1, <4>2 DEF WaitOK
    <3> QED BY <1>7, <3>3, <3>4, <1>a, QuietCache
  <2>4. CASE a >= c.max /\ S(a) # {} /\ Ver(a) # NotVersioned
    <3>1. c = [schema |-> S(a), version |-> Ver(a), min |-> a, max |-> a]
      BY <1>1, <1>7, <2>4 DEF CacheSchema
    <3>2. GapOK(t)'
      BY <1>1, <1>2, <1>3, <1>7, <3>1 DEF GapOK
    <3>3. ASSUME NEW u \in Thread, P(u) = p PROVE WaitOK(t, u)' /\ WaitOK(u, t)'
      <4>1. WaitOK(u, t)'
        BY DEF WaitOK
      <4>2. ASSUME Settled(t)', Pending(u)'
            PROVE  Same(realm[u].at, realm[t].known)' \/ realm'[u].at < a
        <5>1. realm'[u].at \in 1 .. Latest /\ realm'[t].known = a
          BY <1>5, <1>6, <4>2
        <5>2. realm'[u].at >= a => \A v \in realm'[u].at .. a : v = realm'[u].at
          BY <1>1, <5>1
        <5> QED BY <1>1, <5>1, <5>2 DEF Same
      <4> QED BY <1>2, <1>7, <3>1, <4>1, <4>2 DEF WaitOK
    <3> QED BY <1>7, <3>2, <3>3, <1>a, QuietCache
  <2> QED BY <1>1, <2>1, <2>2, <2>3, <2>4
<1>8. CASE coord'[p] # c
  <2>1. /\ a >= c.max /\ S(a) # {} /\ Ver(a) # NotVersioned
        /\ coord'[p] = [schema |-> S(a), version |-> Ver(a), min |-> a, max |-> a]
    BY <1>1, <1>8 DEF CacheSchema
  <2>2. /\ coord'[p].schema = S(a) /\ coord'[p].min = a /\ coord'[p].max = a
    BY <2>1
  <2>3. CacheInv(p)'
    BY <1>1, <1>2, <1>3, <2>1, <2>2 DEF CacheInv, CacheOK, CachedOK
  <2>4. ASSUME NEW u \in Thread, P(u) = p
        PROVE  Settled(u)' => Same(a, realm'[u].known)
    <3>1. CASE u = t
      <4>1. ASSUME Settled(u)' PROVE Same(a, realm'[u].known)
        BY <1>1, <3>1, <4>1 DEF Same
      <4> QED BY <4>1
    <3>2. CASE u # t
      BY <1>1, <1>5, <2>1, <2>4, <3>2 DEF Mates
    <3> QED BY <3>1, <3>2
  <2>5. ASSUME NEW u \in Thread, P(u) = p
        PROVE  GapOK(u)'
    BY <1>2, <1>3, <2>2, <2>4, <2>5 DEF GapOK, Same
  <2>6. ASSUME NEW u \in Thread, NEW w \in Thread, P(u) = p, P(w) = p
        PROVE  WaitOK(u, w)'
    <3>1. SUFFICES ASSUME Settled(u)', Pending(w)', ~(realm'[w].at < a)
                   PROVE  Same(realm[w].at, realm[u].known)'
      BY <1>2, <2>2, <2>6 DEF WaitOK
    <3>2. realm'[w].at \in 1 .. Latest
      BY <1>5, <1>6, <3>1
    <3>3. Same(a, realm'[u].known)
      BY <2>4, <2>6, <3>1
    <3>4. ASSUME NEW v \in realm'[w].at .. realm'[u].known
          PROVE  S(v) = S(realm'[w].at)
      <4>1. v \in a .. realm'[u].known /\ realm'[w].at \in a .. realm'[u].known
        <5>1. realm'[u].known \in Nat
          BY DEF OnlyThread, Realm
        <5> QED BY <1>1, <3>1, <3>2, <5>1
      <4> QED BY <3>3, <4>1 DEF Same
    <3> QED BY <1>3, <3>4 DEF Same
  <2> QED BY <1>2, <2>3, <2>5, <2>6 DEF ProcessOK
<1> QED BY <1>7, <1>8

\* The range of the cache grows over versions that are the same.
LEMMA AdvanceStep ==
  ASSUME IInv, NEW t \in Thread, OnlyThread(t), log' = log, PlaceOK(t)', Uncleared(t),
         coord'[P(t)] = AdvanceCache(coord[P(t)], realm[t].known, realm[t].at),
         realm'[t].known = realm[t].at, Settled(t), ~Pending(t)',
         realm[t].known <= realm[t].at, Same(realm[t].known, realm[t].at)
  PROVE  ProcessOK(P(t))'
<1> DEFINE p == P(t)
           c == coord[p]
           k == realm[t].known
           a == realm[t].at
<1>1. /\ TypeOK /\ LogInv /\ CacheOK(p) /\ CachedOK(p) /\ p \in Process /\ GapOK(t)
      /\ c.min \in Nat /\ c.max \in Nat /\ Latest \in Nat /\ Latest' = Latest
      /\ k \in Nat /\ a \in Nat /\ k <= a /\ c \in Cache
  BY Facts, LogSame DEF ThreadInv
<1>2. \A u \in Thread : P(u)' = P(u)
  BY DEF P
<1>3. \A v : S(v)' = S(v) /\ Ver(v)' = Ver(v)
  BY <1>1, LogSame
<1>4. ~Clearing(p) /\ ~Clearing(p)'
  BY StillNotClearing DEF Uncleared
<1>a. realm[t].pc # "clear" /\ realm'[t].pc # "clear"
  BY DEF Uncleared, Clearing
<1>5. /\ \A u \in Thread \ {t} : realm'[u] = realm[u]
      /\ \A u \in Thread \ {t} : (Settled(u)' <=> Settled(u)) /\ (Pending(u)' <=> Pending(u))
  BY DEF OnlyThread, Settled, Pending
<1>6. k >= 1 /\ a <= Latest
  BY Facts DEF ThreadInv, PlaceOK, Settled, Opening, Using
<1>7. Same(k, a)
  OBVIOUS
<1>8. ASSUME NEW u \in Thread, Pending(u) PROVE realm[u].at \in 1 .. Latest
  <2>1. PlaceOK(u) /\ realm[u].known \in Nat /\ realm[u].at \in Nat
    BY Facts DEF ThreadInv
  <2>2. realm[u].at >= 1
    BY <1>8, <2>1 DEF Pending, PlaceOK, Opening, Using, Moving
  <2> QED BY <1>1, <2>1, <2>2 DEF PlaceOK
<1>9. c.schema # Null => \A v \in c.min .. c.max : S(v) = c.schema
  BY <1>1, <1>4 DEF CachedOK
<1>10. c.schema # Null => \A v \in c.max .. k : S(v) = c.schema
  BY <1>1 DEF GapOK
<1>11. c.schema # Null => 1 <= c.min /\ c.min <= c.max /\ c.max <= Latest
  BY <1>1 DEF CacheOK
<1> HIDE DEF k, a
\* In the middle of what moves, the schema is one; so it is that of the cache.
<1>12. ASSUME c.schema # Null, c.min <= a, NEW v \in Nat,
              v \in c.min .. c.max \/ v \in c.max .. k \/ v \in k .. a
       PROVE  S(v) = c.schema
  <2>1. CASE v \in c.min .. c.max
    BY <1>9, <1>12, <2>1
  <2>a. CASE v \in c.max .. k
    BY <1>10, <1>12, <2>a
  <2>2. CASE v \in k .. a /\ c.min > v
    <3>1. c.min \in k .. a /\ c.min \in c.min .. c.max
      BY <1>1, <1>11, <1>12, <2>2
    <3>2. S(c.min) = S(k) /\ S(v) = S(k)
      BY <1>7, <2>2, <3>1 DEF Same
    <3> QED BY <1>9, <1>12, <3>1, <3>2
  <2>3. CASE v \in k .. a /\ v > c.max /\ k < c.max
    <3>1. c.max \in k .. a /\ c.max \in c.min .. c.max
      BY <1>1, <1>11, <1>12, <2>3
    <3>2. S(c.max) = S(k) /\ S(v) = S(k)
      BY <1>7, <2>3, <3>1 DEF Same
    <3> QED BY <1>9, <1>12, <3>1, <3>2
  <2>4. CASE v \in k .. a /\ v > c.max /\ k >= c.max
    <3>1. k \in c.max .. k
      BY <1>1, <2>4
    <3>2. S(v) = S(k)
      BY <1>7, <2>4 DEF Same
    <3> QED BY <1>10, <1>12, <3>1, <3>2
  <2> QED BY <1>1, <1>12, <2>1, <2>a, <2>2, <2>3, <2>4
\* Whoever waits for a version before a, waits for one before k or in between.
<1>13. ASSUME NEW w \in Thread, P(w) = p, Pending(w)
       PROVE  realm[w].at < c.max \/ Same(realm[w].at, a)
  <2>1. realm[w].at < c.max \/ Same(realm[w].at, k)
    BY <1>13 DEF IInv, PairInv, WaitOK, k
  <2>2. realm[w].at \in Nat
    BY <1>8, <1>13
  <2>3. ASSUME Same(realm[w].at, k), realm[w].at <= k PROVE Same(realm[w].at, a)
    <3>1. \A v \in realm[w].at .. a : v \in realm[w].at .. k \/ v \in k .. a
      BY <1>1, <2>2
    <3>2. S(k) = S(realm[w].at)
      BY <1>1, <2>2, <2>3 DEF Same
    <3> QED BY <1>7, <2>3, <3>1, <3>2 DEF Same
  <2>4. ASSUME realm[w].at > k PROVE Same(realm[w].at, a)
    <3>1. ASSUME NEW v \in realm[w].at .. a PROVE v \in k .. a /\ realm[w].at \in k .. a
      BY <1>1, <2>2, <2>4
    <3> QED BY <1>7, <3>1 DEF Same
  <2> QED BY <1>1, <2>1, <2>2, <2>3, <2>4
<1>14. ASSUME NEW u \in Thread, P(u) = p, Settled(u)'
       PROVE  u # t => GapOK(u) /\ Settled(u) /\ realm'[u].known = realm[u].known
  BY <1>5, <1>14 DEF IInv, ThreadInv
<1>15. CASE c.schema = Null \/ a < c.min
  <2>1. coord'[p] = c
    BY <1>15 DEF AdvanceCache, a, k
  <2>2. GapOK(t)'
    <3>1. \A v \in c.max .. a : c.schema = Null
      BY <1>1, <1>11, <1>15
    <3> QED BY <1>2, <2>1, <3>1 DEF GapOK, a
  <2>3. ASSUME NEW u \in Thread, P(u) = p PROVE WaitOK(t, u)' /\ WaitOK(u, t)'
    <3>1. WaitOK(u, t)'
      BY DEF WaitOK
    <3>2. ASSUME Pending(u)'
          PROVE  realm'[u].at < c.max \/ Same(realm'[u].at, a)
      BY <1>5, <1>13, <2>3, <3>2
    <3>3. Same(realm[u].at, realm[t].known)' <=> Same(realm'[u].at, a)
      BY <1>3 DEF Same, a
    <3> QED BY <1>2, <2>1, <3>1, <3>2, <3>3 DEF WaitOK
  <2> QED BY <2>1, <2>2, <2>3, <1>a, QuietCache
<1>16. CASE c.schema # Null /\ ~(a < c.min)
  <2> DEFINE n == coord'[p]
  <2>1. n = [c EXCEPT !.min = IF k < @ THEN k ELSE @, !.max = IF a > @ THEN a ELSE @]
    BY <1>16 DEF AdvanceCache, a, k
  <2>2. /\ n.schema = c.schema /\ n.min = (IF k < c.min THEN k ELSE c.min)
        /\ n.max = IF a > c.max THEN a ELSE c.max
    BY <1>1, <2>1 DEF Cache
  <2> HIDE DEF n
  <2>3. n.min \in Nat /\ n.max \in Nat /\ c.max <= n.max /\ n.min <= c.min /\ c.min <= a
    BY <1>1, <1>16, <2>2
  <2>4. CacheOK(p)'
    <3>1. 1 <= n.min /\ n.min <= n.max /\ n.max <= Latest /\ n.schema # {}
      BY <1>1, <1>6, <1>11, <1>16, <2>2, <2>3 DEF CacheOK
    <3>2. Ver(n.max) # NotVersioned
      <4>1. CASE a > c.max
        BY <1>1, <1>6, <1>11, <1>16, <2>2, <4>1 DEF LogInv
      <4>2. CASE ~(a > c.max)
        BY <1>1, <1>16, <2>2, <4>2 DEF CacheOK
      <4> QED BY <4>1, <4>2
    <3> QED BY <1>1, <1>2, <1>3, <3>1, <3>2 DEF CacheOK, n
  <2>5. CachedOK(p)'
    <3>1. ASSUME NEW v \in n.min .. n.max PROVE S(v) = c.schema
      <4>1. v \in Nat /\ (v \in c.min .. c.max \/ v \in c.max .. k \/ v \in k .. a)
        BY <1>1, <1>11, <1>16, <2>2, <2>3
      <4> QED BY <1>12, <1>16, <2>3, <4>1
    <3> QED BY <1>2, <1>3, <2>2, <3>1 DEF CachedOK, n
  <2>6. ASSUME NEW u \in Thread, P(u) = p
        PROVE  GapOK(u)'
    <3>1. ASSUME Settled(u)', NEW v \in n.max .. realm'[u].known PROVE S(v) = n.schema
      <4>1. realm'[u].known \in Nat
        BY DEF OnlyThread, Realm
      <4>2. CASE u = t
        <5>1. v = a
          BY <1>1, <2>2, <2>3, <3>1, <4>1, <4>2 DEF a
        <5>2. a \in k .. a /\ a \in Nat
          BY <1>1
        <5> QED BY <1>12, <1>16, <2>2, <2>3, <5>1, <5>2
      <4>3. CASE u # t
        <5>1. v \in c.max .. realm[u].known
          BY <1>1, <1>14, <2>3, <2>6, <3>1, <4>1, <4>3
        <5> QED BY <1>14, <1>16, <2>2, <2>6, <3>1, <4>3, <5>1 DEF GapOK
      <4> QED BY <4>2, <4>3
    <3> QED BY <1>2, <1>3, <2>6, <3>1 DEF GapOK, n
  <2>7. ASSUME NEW u \in Thread, NEW w \in Thread, P(u) = p, P(w) = p
        PROVE  WaitOK(u, w)'
    <3>1. SUFFICES ASSUME Settled(u)', Pending(w)'
                   PROVE  realm'[w].at < n.max \/ Same(realm[w].at, realm[u].known)'
      BY <1>2, <2>7 DEF WaitOK, n
    <3>2. w # t /\ Pending(w) /\ realm'[w] = realm[w] /\ realm[w].at \in Nat
      BY <1>5, <1>8, <3>1
    <3>3. realm[w].at < c.max \/ Same(realm[w].at, realm'[u].known)
      <4>1. CASE u = t
        BY <1>13, <2>7, <3>2, <4>1 DEF a
      <4>2. CASE u # t
        <5>1. WaitOK(u, w) /\ Settled(u) /\ realm'[u].known = realm[u].known
          BY <1>14, <2>7, <3>1, <4>2 DEF IInv, PairInv
        <5> QED BY <2>7, <3>2, <5>1 DEF WaitOK
      <4> QED BY <4>1, <4>2
    <3>4. Same(realm[w].at, realm[u].known)' <=> Same(realm[w].at, realm'[u].known)
      BY <1>3, <3>2 DEF Same
    <3> QED BY <1>1, <2>3, <3>2, <3>3, <3>4
  <2> QED BY <1>2, <2>4, <2>5, <2>6, <2>7 DEF ProcessOK, CacheInv
<1> QED BY <1>15, <1>16

-----------------------------------------------------------------------------
(* What most steps have in common.                                         *)

LEMMA OneThread ==
  ASSUME IInv, NEW t \in Thread, NEW r \in Realm, NEW c \in Cache,
         Set(t, r), target' = target, deaths' = deaths,
         SetCache(t, c) \/ (coord' = coord /\ c = coord[P(t)]),
         \/ initLock' = initLock
         \/ Unlock(t) /\ initLock[P(t)] \in {t, Null}
         \/ initLock' = [initLock EXCEPT ![P(t)] = t] /\ initLock[P(t)] = Null,
         writer' = writer \/ (writer' \in {t, Null} /\ writer \in {t, Null}),
         \/ log' = log
         \/ writer = t /\ \E e \in Contents : log' = Append(log, e)
  PROVE  OnlyThread(t) /\ realm'[t] = r /\ coord'[P(t)] = c
<1>1. TypeOK /\ P(t) \in Process
  BY Types DEF IInv
<1>2. realm' \in [Thread -> Realm] /\ realm'[t] = r /\ \A u \in Thread \ {t} : realm'[u] = realm[u]
  BY <1>1 DEF TypeOK, Set
<1>3. coord' \in [Process -> Cache] /\ coord'[P(t)] = c /\ \A p \in Process \ {P(t)} : coord'[p] = coord[p]
  BY <1>1 DEF TypeOK, SetCache
<1>4. /\ initLock' \in [Process -> Thread \cup {Null}]
      /\ \A p \in Process \ {P(t)} : initLock'[p] = initLock[p]
      /\ initLock'[P(t)] = initLock[P(t)] \/ initLock[P(t)] \in {t, Null}
  BY <1>1 DEF TypeOK, Unlock
<1>5. writer' \in Thread \cup {Null} /\ (writer' = writer \/ writer \in {t, Null})
  BY <1>1 DEF TypeOK
<1>6. Grown /\ (Latest' = Latest \/ writer = t)
  <2>1. CASE log' = log
    BY <1>1, <2>1, LogSame
  <2>2. CASE writer = t /\ \E e \in Contents : log' = Append(log, e)
    <3>1. PICK e \in Contents : log' = Append(log, e)
      BY <2>2
    <3>2. log \in Seq(Contents)
      BY <1>1 DEF TypeOK
    <3> QED BY <2>2, <3>1, <3>2 DEF Grown, Latest
  <2> QED BY <2>1, <2>2
<1>7. deaths' \in Nat
  BY <1>1 DEF TypeOK
<1> QED BY <1>2, <1>3, <1>4, <1>5, <1>6, <1>7 DEF OnlyThread

\* A thread that goes on without caching anything.
LEMMA QuietThread ==
  ASSUME IInv, NEW t \in Thread, OnlyThread(t), coord'[P(t)] = coord[P(t)],
         PlaceOK(t)', realm[t].pc # "clear", realm'[t].pc # "clear",
         Settled(t)' => Settled(t) /\ realm'[t].known = realm[t].known,
         Pending(t)' => realm'[t].at = Latest /\ Latest' = Latest
  PROVE  ProcessOK(P(t))'
<1>1. /\ TypeOK /\ Grown /\ CacheOK(P(t)) /\ GapOK(t) /\ PlaceOK(t)
      /\ coord[P(t)].min \in Nat /\ coord[P(t)].max \in Nat
      /\ Latest \in Nat /\ Latest' \in Nat /\ Latest <= Latest'
      /\ realm[t].known \in Nat /\ realm'[t].known \in Nat /\ realm[t].known <= Latest
  BY Facts DEF OnlyThread, Grown, ThreadInv, PlaceOK, Realm
<1>2. \A u \in Thread : P(u)' = P(u)
  BY DEF P
<1>3. \A v \in 1 .. Latest : S(v)' = S(v)
  BY <1>1, GrownKeeps
<1>4. GapOK(t)'
  <2>1. coord[P(t)].schema # Null => 1 <= coord[P(t)].max
    BY <1>1 DEF CacheOK
  <2>2. ASSUME Settled(t)', coord[P(t)].schema # Null, NEW v \in coord[P(t)].max .. realm'[t].known
        PROVE  log'[v].schema = coord[P(t)].schema
    <3>1. Settled(t) /\ v \in coord[P(t)].max .. realm[t].known
      BY <2>2
    <3>2. S(v) = coord[P(t)].schema
      BY <1>1, <2>2, <3>1 DEF GapOK
    <3>3. v \in 1 .. Latest
      BY <1>1, <2>1, <2>2, <3>1
    <3> QED BY <1>3, <3>2, <3>3 DEF S
  <2>3. ASSUME Settled(t)', coord[P(t)].schema # Null
        PROVE  \A v \in coord[P(t)].max .. realm'[t].known : log'[v].schema = coord[P(t)].schema
    BY <2>2, <2>3
  <2> QED BY <1>2, <2>3, Zenon DEF GapOK, S
<1>5. ASSUME NEW u \in Thread, P(u) = P(t)
      PROVE  WaitOK(u, t)'
  <2>1. SUFFICES ASSUME Pending(t)' PROVE Same(realm[t].at, realm[u].known)'
    BY DEF WaitOK
  <2>2. realm'[t].at = Latest /\ realm'[u].known \in Nat /\ realm'[u].known <= Latest
    <3>1. CASE u = t
      BY <1>1, <2>1, <3>1 DEF PlaceOK
    <3>2. CASE u # t
      <4>1. realm'[u] = realm[u]
        BY <3>2 DEF OnlyThread
      <4>2. realm[u].known \in Nat /\ PlaceOK(u)
        BY Facts DEF ThreadInv
      <4> QED BY <2>1, <4>1, <4>2 DEF PlaceOK
    <3> QED BY <3>1, <3>2
  <2>3. \A v \in realm'[t].at .. realm'[u].known : v = realm'[t].at
    BY <1>1, <2>2
  <2> QED BY <2>3 DEF Same
<1>6. ASSUME NEW u \in Thread, P(u) = P(t)
      PROVE  WaitOK(t, u)'
  <2>1. CASE u = t
    BY <1>5, <2>1
  <2>2. CASE u # t
    <3>1. SUFFICES ASSUME Settled(t)', Pending(u)'
                   PROVE  \/ realm'[u].at < coord[P(t)].max
                          \/ Same(realm[u].at, realm[t].known)'
      BY <1>2 DEF WaitOK
    <3>2. realm'[u] = realm[u] /\ Pending(u)
      BY <2>2, <3>1 DEF OnlyThread, Pending
    <3>3. Settled(t) /\ realm'[t].known = realm[t].known /\ WaitOK(t, u)
      BY <1>6, <3>1 DEF IInv, PairInv
    <3>4. PlaceOK(u) /\ realm[u].at \in Nat /\ realm[u].known \in Nat
      BY Facts DEF ThreadInv
    <3>5. realm[u].at \in 1 .. Latest
      <4>1. realm[u].at >= 1
        BY <3>2, <3>4 DEF Pending, PlaceOK, Opening, Using, Moving
      <4> QED BY <1>1, <3>4, <4>1 DEF PlaceOK
    <3>6. realm[t].known >= 1
      BY <1>1, <3>3 DEF Settled, PlaceOK, Opening, Using
    <3>7. \A i, j \in 1 .. Latest : Same(i, j)' <=> Same(i, j)
      BY <1>1, GrownKeeps
    <3>8. Same(realm[u].at, realm[t].known)' <=> Same(realm[u].at, realm[t].known)
      BY <1>1, <3>2, <3>3, <3>5, <3>6, <3>7
    <3> QED BY <3>2, <3>3, <3>8 DEF WaitOK
  <2> QED BY <2>1, <2>2
<1> QED BY <1>4, <1>5, <1>6, QuietCache

\* A thread that neither starts to update the schema nor may take one over.
LEMMA Routine ==
  ASSUME IInv, NEW t \in Thread, OnlyThread(t), LogInv', UnversionedAt(t)',
         SchemaOK(t)', PlaceOK(t)', NewOK(t)', WriterOK(t)', LockOK(t)',
         realm'[t].pc \in Updating => realm[t].pc \in Updating,
         \/ realm[t].pc \notin {"closed", "failed"}
         \/ realm'[t].pc \in {"closed", "failed"}
         \/ initLock[P(t)] = Null,
         realm'[t].pc \in {"cache", "align"} =>
           realm[t].pc \in {"cache", "align"} /\ realm'[t].known = realm[t].known,
         realm'[t].pc \in Using => realm[t].pc \in Using \cup Opening,
         ProcessOK(P(t))'
  PROVE  IInv'
<1>1. ASSUME NEW u \in Mates(t)
      PROVE  AloneOK(t, u)' /\ AloneOK(u, t)' /\ OfferOK(t, u)' /\ OfferOK(u, t)'
  <2>1. u \in Thread /\ P(u) = P(t) /\ u # t /\ realm'[u] = realm[u]
    BY DEF Mates, OnlyThread
  <2>2. AloneOK(t, u) /\ AloneOK(u, t) /\ OfferOK(t, u) /\ OfferOK(u, t) /\ LockOK(u) /\ LockOK(t)
    BY <2>1 DEF IInv, PairInv, ThreadInv
  <2>3. u # Null
    BY <2>1, RealmOpenAssumption
  <2>4. AloneOK(t, u)'
    BY <2>1, <2>2 DEF AloneOK
  <2>5. AloneOK(u, t)'
    BY <2>1, <2>2, <2>3 DEF AloneOK, LockOK, Updating, Opening
  <2>6. ASSUME NEW w \in Thread, realm'[w].pc \in {"cache", "align"}, realm'[w].known = realm[w].known,
               realm[w].pc \in {"cache", "align"}
        PROVE  S(realm[w].known)' = S(realm[w].known) /\ Goal(w)' = Goal(w)
    <3>1. TypeOK /\ PlaceOK(w) /\ realm[w].known \in Nat /\ Latest \in Nat
      BY Facts DEF ThreadInv
    <3>2. realm[w].known \in 1 .. Latest
      BY <2>6, <3>1 DEF PlaceOK, Opening
    <3>3. Grown /\ Goal(w)' = Goal(w)
      BY DEF OnlyThread, Goal, P
    <3> QED BY <2>6, <3>1, <3>2, <3>3, GrownKeeps
  <2>7. OfferOK(t, u)'
    BY <2>1, <2>2, <2>6 DEF OfferOK
  <2>8. OfferOK(u, t)'
    BY <2>1, <2>2, <2>3, <2>6 DEF OfferOK, LockOK, Opening
  <2> QED BY <2>4, <2>5, <2>7, <2>8
<1> QED BY <1>1, ThreadStep

-----------------------------------------------------------------------------
(* Read transactions.                                                      *)

LEMMA SameAlong ==
  ASSUME TypeOK, NEW a \in 1 .. Latest, \A i \in a .. (Latest - 1) : S(i) = S(i + 1)
  PROVE  Same(a, Latest)
<1> DEFINE G == {i \in Nat : S(i) = S(a)}
<1>1. a \in Nat /\ Latest \in Nat /\ a \in G
  BY LogTypes
<1>2. \A i \in a .. (Latest - 1) : i \in G => i + 1 \in G
  BY <1>1
<1> HIDE DEF G
<1>3. \A j \in a .. Latest : j \in G
  BY <1>1, <1>2, Along
<1> QED BY <1>3 DEF Same, G

LEMMA ThereAlong ==
  ASSUME TypeOK, NEW a \in 1 .. Latest, \A i \in a .. (Latest - 1) : S(i) \subseteq S(i + 1)
  PROVE  S(a) \subseteq S(Latest)
<1> DEFINE G == {i \in Nat : S(a) \subseteq S(i)}
<1>1. a \in Nat /\ Latest \in Nat /\ a \in G
  BY LogTypes
<1>2. \A i \in a .. (Latest - 1) : i \in G => i + 1 \in G
  BY <1>1
<1> HIDE DEF G
<1>3. \A j \in a .. Latest : j \in G
  BY <1>1, <1>2, Along
<1>4. Latest \in G
  BY <1>1, <1>3
<1> QED BY <1>4 DEF G

\* The move to the latest version, from the version the Realm knows.
LEMMA Advances ==
  ASSUME IInv, NEW t \in Thread, realm[t].new = Null, realm[t].at = realm[t].known,
         realm[t].at >= 1
  PROVE  LET r == realm[t]
             n == Advance(realm[t]) IN
         /\ n \in Realm /\ n.at = Latest /\ n.known = r.known /\ n.pc = r.pc
         /\ n.dynamic = r.dynamic /\ n.changes = r.changes
         /\ \/ /\ n.new = Null /\ Same(r.known, Latest)
               /\ n.schema = r.schema /\ n.version = r.version
            \/ /\ n.new = S(Latest) /\ S(Latest) # {} /\ Latest >= 2
               /\ n.version = Ver(Latest)
               /\ n.schema = IF r.dynamic THEN S(Latest) ELSE r.schema
<1> DEFINE r == realm[t]
           n == Advance(realm[t])
<1>1. /\ TypeOK /\ LogInv /\ r \in Realm /\ Latest \in Nat /\ r.at \in 1 .. Latest
      /\ Latest \in 1 .. Latest
  BY Facts DEF ThreadInv, PlaceOK
<1>2. S(Latest) \in SUBSET Column /\ Ver(Latest) \in Nat
  BY <1>1, LogTypes
<1>3. CASE \A i \in r.at .. (Latest - 1) : S(i) = S(i + 1)
  <2>1. n = [r EXCEPT !.at = Latest]
    BY <1>3 DEF Advance, Between, S
  <2>2. Same(r.known, Latest)
    BY <1>1, <1>3, SameAlong
  <2> QED BY <1>1, <2>1, <2>2 DEF Realm
<1>4. CASE \E i \in r.at .. (Latest - 1) : S(i) # S(i + 1)
  <2>1. PICK i \in r.at .. (Latest - 1) : S(i) # S(i + 1)
    BY <1>4
  <2>2. n = [r EXCEPT !.at = Latest, !.new = S(Latest), !.version = Ver(Latest),
                      !.schema = IF r.dynamic THEN S(Latest) ELSE @]
    BY <1>4 DEF Advance, Between, S, Ver
  <2>3. i \in 1 .. Latest /\ i + 1 \in 1 .. Latest /\ i <= Latest /\ i + 1 <= Latest /\ Latest >= 2
    BY <1>1, <2>1
  <2>4. ASSUME S(Latest) = {} PROVE FALSE
    <3>1. Tables(S(Latest)) = {}
      BY <2>4 DEF Tables
    <3>2. Tables(S(i)) \subseteq Tables(S(Latest)) /\ Tables(S(i + 1)) \subseteq Tables(S(Latest))
      BY <1>1, <2>3 DEF LogInv
    <3>3. Tables(S(i)) = {} /\ Tables(S(i + 1)) = {}
      BY <3>1, <3>2
    <3> QED BY <2>1, <3>3, NoTables
  <2>5. n \in Realm
    BY <1>1, <1>2, <2>2 DEF Realm
  <2> QED BY <1>1, <2>2, <2>3, <2>4, <2>5 DEF Realm
<1> QED BY <1>3, <1>4

LEMMA AdvancesOver ==
  ASSUME IInv, NEW t \in Thread, realm[t].at \in 1 .. Latest, ~AdvanceFails(realm[t])
  PROVE  S(realm[t].at) \subseteq S(Latest)
<1>1. \A i \in realm[t].at .. (Latest - 1) : S(i) \subseteq S(i + 1)
  BY DEF AdvanceFails, Between, S
<1>2. TypeOK
  BY DEF IInv
<1> QED BY <1>1, <1>2, ThereAlong

LEMMA Begins ==
  ASSUME IInv, NEW t \in Thread
  PROVE  LET r == realm[t]
             n == BeginRead(realm[t]) IN
         /\ n \in Realm /\ n.at = Latest /\ n.known = Latest /\ n.pc = r.pc
         /\ n.new = r.new /\ n.dynamic = r.dynamic /\ n.changes = r.changes
         /\ r.known # Latest => n.version = Ver(Latest)
         /\ r.known = Latest => n.version = r.version
         /\ n.schema = IF r.known # Latest /\ r.dynamic THEN S(Latest) ELSE r.schema
<1>1. /\ realm[t] \in Realm /\ Latest \in Nat /\ S(Latest) \in SUBSET Column /\ Ver(Latest) \in Nat
  BY Facts, LogTypes
<1> QED BY <1>1 DEF BeginRead, Realm, S, Ver

LEMMA StillUnversioned ==
  ASSUME IInv, NEW t \in Thread, OnlyThread(t),
         Latest = 1 /\ Ver(1) = NotVersioned =>
           /\ coord'[P(t)].schema = Null
           /\ realm'[t].pc \notin Using \cup {"applied", "clear"}
           /\ realm'[t].version = NotVersioned
  PROVE  UnversionedAt(t)'
<1>1. TypeOK /\ Grown /\ Latest \in Nat /\ Latest >= 1
  BY Facts DEF OnlyThread
<1>2. (Latest = 1 /\ Ver(1) = NotVersioned)' => Latest = 1 /\ Ver(1) = NotVersioned
  BY <1>1, GrownKeeps DEF Grown
<1>3. P(t)' = P(t)
  BY DEF P
<1> QED BY <1>2, <1>3 DEF UnversionedAt

\* What Unversioned says of one thread.
LEMMA NotUsed ==
  ASSUME IInv, NEW t \in Thread, Latest = 1, Ver(1) = NotVersioned
  PROVE  /\ coord[P(t)].schema = Null
         /\ realm[t].pc \notin Using \cup {"applied", "clear"}
         /\ realm[t].version = NotVersioned
  BY Facts DEF Unversioned

\* A Realm that fails or goes is no one's concern.
LEMMA Leaves ==
  ASSUME IInv, NEW t \in Thread, OnlyThread(t), log' = log, ProcessOK(P(t))',
         realm'[t].pc \in {"closed", "failed"},
         realm'[t].at <= Latest, realm'[t].known <= Latest,
         realm'[t].pc = "closed" => realm'[t].new = Null,
         Latest = 1 /\ Ver(1) = NotVersioned =>
           coord'[P(t)].schema = Null /\ realm'[t].version = NotVersioned
  PROVE  IInv'
<1>1. TypeOK /\ LogInv /\ Latest' = Latest
  BY Facts, LogSame
<1>2. LogInv'
  BY <1>1, LogSame
<1>3. SchemaOK(t)' /\ NewOK(t)' /\ WriterOK(t)' /\ LockOK(t)'
  BY DEF SchemaOK, NewOK, WriterOK, LockOK, Opening, Using, Moving, Holding
<1>4. PlaceOK(t)'
  BY <1>1 DEF PlaceOK, Opening, Using, Moving
<1>5. UnversionedAt(t)'
  BY StillUnversioned DEF Using
<1> QED BY <1>2, <1>3, <1>4, <1>5, Routine DEF Using, Updating

\* The same without caching.
LEMMA LeavesQuietly ==
  ASSUME IInv, NEW t \in Thread, OnlyThread(t), log' = log, coord'[P(t)] = coord[P(t)],
         realm[t].pc # "clear", realm'[t].pc \in {"closed", "failed"},
         realm'[t].at <= Latest, realm'[t].known <= Latest,
         realm'[t].pc = "closed" => realm'[t].new = Null,
         Latest = 1 /\ Ver(1) = NotVersioned => realm'[t].version = NotVersioned
  PROVE  IInv'
<1>1. Latest' = Latest
  BY Facts, LogSame
<1>2. PlaceOK(t)'
  BY <1>1 DEF PlaceOK, Opening, Using, Moving
<1>3. ~Settled(t)' /\ ~Pending(t)'
  BY DEF Settled, Pending, Using, Moving
<1>4. ProcessOK(P(t))'
  BY <1>2, <1>3, QuietThread
<1>5. Latest = 1 /\ Ver(1) = NotVersioned => coord'[P(t)].schema = Null
  BY NotUsed
<1> QED BY <1>4, <1>5, Leaves

LEMMA ClosedIs == Closed \in Realm /\ Closed.at = 0 /\ Closed.known = 0 /\ Closed.new = Null
                    /\ Closed.pc = "closed" /\ Closed.version = NotVersioned /\ Closed.dynamic
<1>1. NotVersioned \in Nat
  BY RealmOpenAssumption
<1> QED BY <1>1 DEF Closed, Realm

-----------------------------------------------------------------------------
(* The steps, one by one.                                                  *)

LEMMA EnterKeeps == ASSUME IInv, NEW t \in Thread, Enter(t) PROVE IInv'
<1> DEFINE r == [Closed EXCEPT !.pc = "construct"]
<1>1. /\ r \in Realm /\ r.pc = "construct" /\ r.at = 0 /\ r.known = 0 /\ r.new = Null
      /\ r.version = NotVersioned /\ r.dynamic
  BY ClosedIs DEF Realm, Closed
<1>2. /\ realm[t].pc = "closed" /\ initLock[P(t)] = Null /\ Set(t, r) /\ log' = log
      /\ initLock' = [initLock EXCEPT ![P(t)] = t]
      /\ target' = target /\ deaths' = deaths /\ writer' = writer /\ coord' = coord
  BY DEF Enter, At
<1> HIDE DEF r
<1>3. /\ TypeOK /\ LogInv /\ coord[P(t)] \in Cache /\ P(t) \in Process
      /\ Latest \in Nat /\ Latest >= 1 /\ Latest' = Latest
  BY <1>2, Facts, LogSame
<1>4. OnlyThread(t) /\ realm'[t] = r /\ coord'[P(t)] = coord[P(t)]
  BY <1>1, <1>2, <1>3, OneThread
<1>5. LogInv'
  BY <1>2, <1>3, LogSame
<1>6. SchemaOK(t)' /\ NewOK(t)' /\ WriterOK(t)' /\ PlaceOK(t)'
  BY <1>1, <1>3, <1>4 DEF SchemaOK, NewOK, WriterOK, PlaceOK, Opening, Using, Moving, Holding
<1>7. LockOK(t)'
  BY <1>2, <1>3 DEF LockOK, TypeOK, P
<1>8. ~Settled(t)' /\ ~Pending(t)'
  BY <1>1, <1>4 DEF Settled, Pending, Using, Moving
<1>9. ProcessOK(P(t))'
  BY <1>1, <1>2, <1>4, <1>6, <1>8, QuietThread
<1>10. UnversionedAt(t)'
  BY <1>1, <1>4, NotUsed, StillUnversioned DEF Using
<1> QED BY <1>1, <1>2, <1>4, <1>5, <1>6, <1>7, <1>9, <1>10, Routine DEF Using, Updating

LEMMA DestroyKeeps == ASSUME IInv, NEW t \in Thread, Destroy(t) PROVE IInv'
<1>1. /\ realm[t].pc = "failed" /\ Set(t, Closed) /\ log' = log
      /\ writer' = (IF writer = t THEN Null ELSE writer)
      /\ target' = target /\ deaths' = deaths /\ initLock' = initLock /\ coord' = coord
  BY DEF Destroy, At
<1>2. coord[P(t)] \in Cache /\ Latest \in Nat /\ Latest >= 1
  BY Facts
<1>3. OnlyThread(t) /\ realm'[t] = Closed /\ coord'[P(t)] = coord[P(t)]
  BY <1>1, <1>2, ClosedIs, OneThread
<1> QED BY <1>1, <1>2, <1>3, ClosedIs, LeavesQuietly

LEMMA CloseKeeps == ASSUME IInv, NEW t \in Thread, Close(t) PROVE IInv'
<1>1. /\ realm[t].pc = "open" /\ Set(t, Closed) /\ log' = log /\ writer' = writer
      /\ target' = target /\ deaths' = deaths /\ initLock' = initLock /\ coord' = coord
  BY DEF Close, At
<1>2. coord[P(t)] \in Cache /\ Latest \in Nat /\ Latest >= 1
  BY Facts
<1>3. OnlyThread(t) /\ realm'[t] = Closed /\ coord'[P(t)] = coord[P(t)]
  BY <1>1, <1>2, ClosedIs, OneThread
<1> QED BY <1>1, <1>2, <1>3, ClosedIs, LeavesQuietly

\* A Realm in use that stays with the version it knows.
LEMMA StaysInUse ==
  ASSUME IInv, NEW t \in Thread, OnlyThread(t), log' = log, coord'[P(t)] = coord[P(t)],
         realm[t].pc \in {"open", "writing"}, realm'[t].pc \in {"open", "promote"},
         realm'[t].known = realm[t].known, realm'[t].new = realm[t].new,
         realm'[t].dynamic = realm[t].dynamic, realm'[t].schema = realm[t].schema,
         realm'[t].at = realm[t].at \/ (realm'[t].at = 0 /\ realm'[t].pc = "open"),
         realm'[t].pc = "promote" => realm[t].at # 0
  PROVE  IInv'
<1>1. TypeOK /\ LogInv /\ Latest \in Nat /\ ThreadInv(t)
  BY Facts
<1>2. LogInv' /\ Latest' = Latest /\ Goal(t)' = Goal(t) /\ \A v : S(v)' = S(v) /\ Ver(v)' = Ver(v)
  BY <1>1, LogSame DEF Goal, P, OnlyThread
<1>3. SchemaOK(t)' /\ NewOK(t)' /\ WriterOK(t)' /\ PlaceOK(t)' /\ LockOK(t)'
  BY <1>1, <1>2
     DEF ThreadInv, SchemaOK, NewOK, WriterOK, PlaceOK, LockOK, Opening, Using, Moving, Holding
<1>4. (Settled(t)' => Settled(t)) /\ ~Pending(t)'
  BY DEF Settled, Pending, Using, Moving
<1>5. ProcessOK(P(t))'
  BY <1>3, <1>4, QuietThread
<1>6. UnversionedAt(t)'
  BY NotUsed, StillUnversioned DEF Using
<1> QED BY <1>2, <1>3, <1>5, <1>6, Routine DEF Using, Updating

LEMMA StartWriteKeeps == ASSUME IInv, NEW t \in Thread, StartWrite(t) PROVE IInv'
<1> DEFINE r == [realm[t] EXCEPT !.pc = "promote"]
<1>1. realm[t] \in Realm /\ coord[P(t)] \in Cache /\ ThreadInv(t)
  BY Facts
<1>2. /\ r \in Realm /\ r.pc = "promote" /\ r.at = realm[t].at /\ r.known = realm[t].known
      /\ r.new = realm[t].new /\ r.dynamic = realm[t].dynamic /\ r.schema = realm[t].schema
  BY <1>1 DEF Realm
<1>3. /\ realm[t].pc = "open" /\ Set(t, r) /\ log' = log
      /\ target' = target /\ deaths' = deaths /\ initLock' = initLock /\ coord' = coord
      /\ realm[t].at # 0 /\ writer' = writer
  BY <1>1 DEF StartWrite, At
<1> HIDE DEF r
<1>4. OnlyThread(t) /\ realm'[t] = r /\ coord'[P(t)] = coord[P(t)]
  BY <1>1, <1>2, <1>3, OneThread
<1> QED BY <1>2, <1>3, <1>4, StaysInUse

LEMMA InvalidateKeeps == ASSUME IInv, NEW t \in Thread, Invalidate(t) PROVE IInv'
<1> DEFINE r == [realm[t] EXCEPT !.at = 0]
<1>1. realm[t] \in Realm /\ coord[P(t)] \in Cache /\ ThreadInv(t)
  BY Facts
<1>2. /\ r \in Realm /\ r.pc = "open" /\ r.at = 0 /\ r.known = realm[t].known
      /\ r.new = realm[t].new /\ r.dynamic = realm[t].dynamic /\ r.schema = realm[t].schema
  BY <1>1 DEF Realm, Invalidate, At
<1>3. /\ realm[t].pc = "open" /\ Set(t, r) /\ log' = log
      /\ target' = target /\ deaths' = deaths /\ initLock' = initLock /\ coord' = coord
      /\ writer' = writer
  BY <1>1 DEF Invalidate, At
<1> HIDE DEF r
<1>4. OnlyThread(t) /\ realm'[t] = r /\ coord'[P(t)] = coord[P(t)]
  BY <1>1, <1>2, <1>3, OneThread
<1> QED BY <1>2, <1>3, <1>4, StaysInUse

LEMMA CancelKeeps == ASSUME IInv, NEW t \in Thread, Cancel(t) PROVE IInv'
<1> DEFINE r == [realm[t] EXCEPT !.pc = "open"]
<1>1. realm[t] \in Realm /\ coord[P(t)] \in Cache /\ ThreadInv(t)
  BY Facts
<1>2. /\ r \in Realm /\ r.pc = "open" /\ r.at = realm[t].at /\ r.known = realm[t].known
      /\ r.new = realm[t].new /\ r.dynamic = realm[t].dynamic /\ r.schema = realm[t].schema
  BY <1>1 DEF Realm
<1>3. /\ realm[t].pc = "writing" /\ Set(t, r) /\ log' = log
      /\ target' = target /\ deaths' = deaths /\ initLock' = initLock /\ coord' = coord
      /\ writer = t /\ writer' = Null
  BY <1>1 DEF Cancel, At, ThreadInv, WriterOK, Holding
<1> HIDE DEF r
<1>4. OnlyThread(t) /\ realm'[t] = r /\ coord'[P(t)] = coord[P(t)]
  BY <1>1, <1>2, <1>3, OneThread
<1> QED BY <1>2, <1>3, <1>4, StaysInUse

LEMMA CommitKeeps == ASSUME IInv, NEW t \in Thread, Commit(t) PROVE IInv'
<1> DEFINE r == [realm[t] EXCEPT !.pc = "committed", !.at = Latest + 1]
<1>1. realm[t] \in Realm /\ coord[P(t)] \in Cache /\ TypeOK /\ LogInv /\ Latest \in Nat
      /\ Latest >= 1 /\ ThreadInv(t)
  BY Facts
<1>2. /\ r \in Realm /\ r.pc = "committed" /\ r.at = Latest + 1 /\ r.known = realm[t].known
      /\ r.new = realm[t].new /\ r.dynamic = realm[t].dynamic /\ r.schema = realm[t].schema
  <2>1. Latest + 1 \in Nat
    BY <1>1
  <2> QED BY <1>1, <2>1 DEF Realm
<1>3. /\ realm[t].pc = "writing" /\ writer = t /\ Set(t, r) /\ writer' = Null
      /\ log' = Append(log, log[Latest])
      /\ target' = target /\ deaths' = deaths /\ initLock' = initLock /\ coord' = coord
  BY <1>1 DEF Commit, At, ThreadInv, WriterOK, Holding
<1> HIDE DEF r
<1>4. log[Latest] \in Contents /\ log \in Seq(Contents)
  BY <1>1, LogTypes DEF TypeOK
<1>5. OnlyThread(t) /\ realm'[t] = r /\ coord'[P(t)] = coord[P(t)]
  BY <1>1, <1>2, <1>3, <1>4, OneThread
<1>6. /\ Latest' = Latest + 1 /\ Goal(t)' = Goal(t)
      /\ \A v \in 1 .. Latest : log'[v] = log[v]
      /\ log'[Latest + 1] = log[Latest]
  BY <1>1, <1>3, <1>4 DEF Goal, P, Latest
<1>7. realm[t].known = Latest /\ realm[t].at = Latest /\ realm[t].new = Null
  BY <1>1, <1>3 DEF ThreadInv, WriterOK, PlaceOK, NewOK, Holding, Moving
<1>8. LogInv'
  <2>1. ASSUME NEW i \in 1 .. (Latest + 1), NEW j \in 1 .. (Latest + 1), i <= j
        PROVE  Tables(log'[i].schema) \subseteq Tables(log'[j].schema)
    <3> DEFINE o(k) == IF k <= Latest THEN k ELSE Latest
    <3>1. o(i) \in 1 .. Latest /\ o(j) \in 1 .. Latest /\ o(i) <= o(j)
      BY <1>1, <2>1
    <3>2. log'[i] = log[o(i)] /\ log'[j] = log[o(j)]
      BY <1>1, <1>6
    <3> HIDE DEF o
    <3> QED BY <1>1, <3>1, <3>2 DEF LogInv, S
  <2>2. ASSUME NEW v \in 2 .. (Latest + 1) PROVE log'[v].version # NotVersioned
    <3>1. CASE v <= Latest
      BY <1>1, <1>6, <3>1 DEF LogInv, Ver
    <3>2. CASE v = Latest + 1 /\ Latest >= 2
      BY <1>1, <1>6, <3>2 DEF LogInv, Ver
    <3>3. CASE v = Latest + 1 /\ Latest = 1
      <4>1. log[1].version # NotVersioned
        BY <1>3, <3>3, NotUsed DEF Ver, Using
      <4> QED BY <1>6, <3>3, <4>1
    <3> QED BY <1>1, <3>1, <3>2, <3>3
  <2> QED BY <1>6, <2>1, <2>2 DEF LogInv, S, Ver
<1>9. SchemaOK(t)' /\ NewOK(t)' /\ WriterOK(t)' /\ PlaceOK(t)' /\ LockOK(t)'
  <2>1. /\ ~realm[t].dynamic /\ realm[t].schema = Goal(t) /\ Goal(t) \subseteq log[Latest].schema
    BY <1>1, <1>3, <1>7 DEF ThreadInv, SchemaOK, Using, S
  <2>2. SchemaOK(t)'
    <3>1. log'[Latest].schema = log[Latest].schema /\ log'[Latest + 1].schema = log[Latest].schema
      BY <1>1, <1>6
    <3> QED BY <1>2, <1>5, <1>6, <1>7, <2>1, <3>1 DEF SchemaOK, S, Opening, Using
  <2>3. NewOK(t)' /\ WriterOK(t)' /\ PlaceOK(t)' /\ LockOK(t)'
    BY <1>1, <1>2, <1>5, <1>6, <1>7 DEF NewOK, WriterOK, PlaceOK, LockOK, Opening, Using, Moving, Holding
  <2> QED BY <2>2, <2>3
<1>10. (Settled(t)' => Settled(t)) /\ ~Pending(t)'
  BY <1>2, <1>3, <1>5 DEF Settled, Pending, Using, Moving
<1>11. ProcessOK(P(t))'
  BY <1>2, <1>3, <1>5, <1>9, <1>10, QuietThread
<1>12. UnversionedAt(t)'
  BY <1>3, <1>5, NotUsed, StillUnversioned DEF Using
<1> QED BY <1>2, <1>3, <1>5, <1>8, <1>9, <1>11, <1>12, Routine DEF Using, Updating

\* A move to the latest version while the Realm is in use.
LEMMA MovesOn ==
  ASSUME IInv, NEW t \in Thread, NEW n, n = Advance(realm[t]), n \in Realm,
         NEW pc \in {"begun", "refreshed"}, NEW r \in Realm, r = [n EXCEPT !.pc = pc],
         realm[t].pc \in {"open", "promote"}, realm[t].at # 0, ~AdvanceFails(realm[t]),
         OnlyThread(t), realm'[t] = r, coord'[P(t)] = coord[P(t)], log' = log,
         pc = "begun" => writer' = t
  PROVE  IInv'
<1>1. realm[t] \in Realm /\ TypeOK /\ LogInv /\ Latest \in Nat /\ ThreadInv(t)
  BY Facts
<1>2. realm[t].new = Null /\ realm[t].at = realm[t].known /\ realm[t].at \in 1 .. Latest
      /\ ~realm[t].dynamic /\ realm[t].schema = Goal(t) /\ Goal(t) \subseteq S(realm[t].known)
  BY <1>1 DEF ThreadInv, NewOK, PlaceOK, SchemaOK, Moving, Using, Realm
<1>3. /\ n.at = Latest /\ n.known = realm[t].known /\ n.dynamic = realm[t].dynamic
      /\ \/ n.new = Null /\ Same(n.known, Latest) /\ n.version = realm[t].version
         \/ n.new = S(Latest) /\ S(Latest) # {} /\ Latest >= 2 /\ n.version = Ver(Latest)
      /\ n.schema = realm[t].schema
  BY <1>1, <1>2, Advances
<1>4. /\ r.pc = pc /\ r.at = n.at /\ r.known = n.known /\ r.new = n.new
      /\ r.schema = n.schema /\ r.dynamic = n.dynamic /\ r.version = n.version
  BY DEF Realm
<1>5. S(realm[t].known) \subseteq S(Latest)
  BY <1>2, AdvancesOver
<1>6. LogInv' /\ Latest' = Latest /\ Goal(t)' = Goal(t) /\ \A v : S(v)' = S(v) /\ Ver(v)' = Ver(v)
  BY <1>1, LogSame DEF Goal, P, OnlyThread
<1>7. SchemaOK(t)' /\ WriterOK(t)' /\ PlaceOK(t)' /\ LockOK(t)'
  BY <1>1, <1>2, <1>3, <1>4, <1>5, <1>6
     DEF SchemaOK, WriterOK, PlaceOK, LockOK, Opening, Using, Moving, Holding
<1>8. NewOK(t)'
  <2>1. Same(realm[t].known, realm[t].at)' <=> Same(n.known, Latest)
    BY <1>3, <1>4, <1>6 DEF Same
  <2> QED BY <1>3, <1>4, <1>6, <2>1 DEF NewOK, Moving
<1>9. (Settled(t)' => Settled(t)) /\ (Pending(t)' => realm'[t].at = Latest)
  BY <1>3, <1>4 DEF Settled, Pending, Using, Moving
<1>10. ProcessOK(P(t))'
  BY <1>3, <1>4, <1>6, <1>7, <1>9, QuietThread
<1>11. UnversionedAt(t)'
  BY NotUsed, StillUnversioned DEF Using
<1> QED BY <1>4, <1>6, <1>7, <1>8, <1>10, <1>11, Routine DEF Using, Updating

LEMMA FailedIs ==
  ASSUME NEW r \in Realm
  PROVE  LET f == [r EXCEPT !.pc = "failed"] IN
         /\ f \in Realm /\ f.pc = "failed" /\ f.at = r.at /\ f.known = r.known /\ f.version = r.version
  BY DEF Realm

LEMMA PromoteKeeps == ASSUME IInv, NEW t \in Thread, Promote(t) PROVE IInv'
<1> DEFINE n == Advance(realm[t])
           r == [n EXCEPT !.pc = "begun"]
           f == [realm[t] EXCEPT !.pc = "failed"]
<1>1. realm[t] \in Realm /\ coord[P(t)] \in Cache /\ TypeOK /\ Latest \in Nat /\ ThreadInv(t)
  BY Facts
<1>2. /\ realm[t].pc = "promote" /\ writer = Null /\ log' = log
      /\ target' = target /\ deaths' = deaths /\ initLock' = initLock /\ coord' = coord
      /\ \/ AdvanceFails(realm[t]) /\ Set(t, f) /\ writer' = writer
         \/ ~AdvanceFails(realm[t]) /\ writer' = t /\ Set(t, r)
  BY DEF Promote, At, Fails
<1>3. realm[t].new = Null /\ realm[t].at = realm[t].known /\ realm[t].at >= 1
  BY <1>1, <1>2 DEF ThreadInv, NewOK, PlaceOK, Moving, Using
<1>4. CASE Set(t, f) /\ writer' = writer
  <2>1. /\ f \in Realm /\ f.pc = "failed" /\ f.at = realm[t].at /\ f.known = realm[t].known
        /\ f.version = realm[t].version
    BY <1>1, FailedIs
  <2> HIDE DEF f
  <2>2. OnlyThread(t) /\ realm'[t] = f /\ coord'[P(t)] = coord[P(t)]
    BY <1>1, <1>2, <1>4, <2>1, OneThread
  <2>3. realm[t].at <= Latest /\ realm[t].known <= Latest
    BY <1>1 DEF ThreadInv, PlaceOK
  <2> QED BY <1>2, <2>1, <2>2, <2>3, NotUsed, LeavesQuietly
<1>5. CASE ~AdvanceFails(realm[t]) /\ writer' = t /\ Set(t, r)
  <2>1. n \in Realm
    BY <1>3, Advances
  <2>2. r \in Realm
    BY <2>1 DEF Realm
  <2>3. OnlyThread(t) /\ realm'[t] = r /\ coord'[P(t)] = coord[P(t)]
    <3> HIDE DEF r
    <3> QED BY <1>1, <1>2, <1>5, <2>2, OneThread
  <2>4. r = [n EXCEPT !.pc = "begun"] /\ n = Advance(realm[t])
    OBVIOUS
  <2> HIDE DEF n, r
  <2> QED BY <1>2, <1>3, <1>5, <2>1, <2>2, <2>3, <2>4, MovesOn
<1> QED BY <1>2, <1>4, <1>5

LEMMA RefreshKeeps == ASSUME IInv, NEW t \in Thread, Refresh(t) PROVE IInv'
<1> DEFINE n == Advance(realm[t])
           r == [n EXCEPT !.pc = "refreshed"]
           f == [realm[t] EXCEPT !.pc = "failed"]
<1>1. realm[t] \in Realm /\ coord[P(t)] \in Cache /\ TypeOK /\ Latest \in Nat /\ ThreadInv(t)
  BY Facts
<1>2. /\ realm[t].pc = "open" /\ realm[t].at # 0 /\ log' = log /\ writer' = writer
      /\ target' = target /\ deaths' = deaths /\ initLock' = initLock /\ coord' = coord
      /\ \/ AdvanceFails(realm[t]) /\ Set(t, f)
         \/ ~AdvanceFails(realm[t]) /\ Set(t, r)
  BY <1>1 DEF Refresh, At, Fails, Realm
<1>3. realm[t].new = Null /\ realm[t].at = realm[t].known /\ realm[t].at >= 1
  BY <1>1, <1>2 DEF ThreadInv, NewOK, PlaceOK, Moving, Using
<1>4. CASE Set(t, f)
  <2>1. /\ f \in Realm /\ f.pc = "failed" /\ f.at = realm[t].at /\ f.known = realm[t].known
        /\ f.version = realm[t].version
    BY <1>1, FailedIs
  <2> HIDE DEF f
  <2>2. OnlyThread(t) /\ realm'[t] = f /\ coord'[P(t)] = coord[P(t)]
    BY <1>1, <1>2, <1>4, <2>1, OneThread
  <2>3. realm[t].at <= Latest /\ realm[t].known <= Latest
    BY <1>1 DEF ThreadInv, PlaceOK
  <2> QED BY <1>2, <2>1, <2>2, <2>3, NotUsed, LeavesQuietly
<1>5. CASE ~AdvanceFails(realm[t]) /\ Set(t, r)
  <2>1. n \in Realm
    BY <1>3, Advances
  <2>2. r \in Realm
    BY <2>1 DEF Realm
  <2>3. OnlyThread(t) /\ realm'[t] = r /\ coord'[P(t)] = coord[P(t)]
    <3> HIDE DEF r
    <3> QED BY <1>1, <1>2, <1>5, <2>2, OneThread
  <2>4. r = [n EXCEPT !.pc = "refreshed"] /\ n = Advance(realm[t])
    OBVIOUS
  <2> HIDE DEF n, r
  <2> QED BY <1>2, <1>3, <1>5, <2>1, <2>2, <2>3, <2>4, MovesOn
<1> QED BY <1>2, <1>4, <1>5

\* What the constructor leaves to be shown.
LEMMA Constructed ==
  ASSUME IInv, NEW t \in Thread, OnlyThread(t), log' = log, initLock' = initLock,
         realm[t].pc = "construct", realm'[t].pc \in {"cache", "align"}, realm'[t].dynamic,
         realm'[t].new = Null, realm'[t].known \in 1 .. Latest, realm'[t].at <= Latest,
         realm'[t].schema = S(realm'[t].known),
         realm'[t].pc = "cache" => /\ realm'[t].at = realm'[t].known
                                   /\ realm'[t].version = Ver(realm'[t].known),
         \A u \in Mates(t) : realm[u].pc \in Using =>
           Tables(S(realm[u].known)) \subseteq Tables(S(realm'[t].known)),
         UnversionedAt(t)', ProcessOK(P(t))'
  PROVE  IInv'
<1>1. TypeOK /\ LogInv /\ Latest \in Nat /\ ThreadInv(t)
  BY Facts
<1>2. LogInv' /\ Latest' = Latest /\ \A v : S(v)' = S(v) /\ Ver(v)' = Ver(v)
  BY <1>1, LogSame
<1>3. \A u \in Thread : P(u)' = P(u) /\ Goal(u)' = Goal(u)
  BY DEF P, Goal, OnlyThread
<1>4. SchemaOK(t)'
  BY <1>2 DEF SchemaOK, Using
<1>5. PlaceOK(t)' /\ NewOK(t)' /\ WriterOK(t)'
  BY <1>1, <1>2 DEF PlaceOK, NewOK, WriterOK, Opening, Using, Moving, Holding
<1>6. LockOK(t)'
  BY <1>1, <1>3 DEF LockOK, ThreadInv, Opening
<1>7. ASSUME NEW u \in Mates(t)
      PROVE  AloneOK(t, u)' /\ AloneOK(u, t)' /\ OfferOK(t, u)' /\ OfferOK(u, t)'
  <2>1. u \in Thread /\ P(u) = P(t) /\ u # t /\ realm'[u] = realm[u]
    BY DEF Mates, OnlyThread
  <2>2. realm[u].pc \notin Opening
    BY <1>1, <2>1 DEF IInv, ThreadInv, LockOK, Opening
  <2>3. AloneOK(t, u)' /\ AloneOK(u, t)'
    BY <2>1, <2>2 DEF AloneOK, Updating, Opening
  <2>4. OfferOK(u, t)'
    BY DEF OfferOK, Using
  <2>5. OfferOK(t, u)'
    <3>1. SUFFICES ASSUME realm[u].pc \in Using
                   PROVE  Tables(Goal(t)) \subseteq Tables(S(realm'[t].known))
      BY <1>2, <1>3, <2>1 DEF OfferOK
    <3>2. Goal(u) = Goal(t) /\ Goal(u) \subseteq S(realm[u].known)
      BY <2>1, <3>1 DEF IInv, ThreadInv, SchemaOK, Goal
    <3>3. Tables(Goal(t)) \subseteq Tables(S(realm[u].known))
      BY <3>2, TablesGrow
    <3> QED BY <3>1, <3>3
  <2> QED BY <2>3, <2>4, <2>5
<1> QED BY <1>2, <1>4, <1>5, <1>6, <1>7, ThreadStep

LEMMA ConstructKeeps == ASSUME IInv, NEW t \in Thread, Construct(t) PROVE IInv'
<1> DEFINE c == coord[P(t)]
           r == [realm[t] EXCEPT !.pc = "align", !.schema = c.schema,
                                 !.version = c.version, !.known = c.max]
           n == BeginRead(realm[t])
           b == [n EXCEPT !.pc = "cache"]
<1>1. /\ realm[t] \in Realm /\ coord[P(t)] \in Cache /\ TypeOK /\ LogInv /\ ThreadInv(t)
      /\ Latest \in Nat /\ Latest >= 1
  BY Facts
<1>2. /\ realm[t].pc = "construct" /\ log' = log /\ writer' = writer
      /\ target' = target /\ deaths' = deaths /\ initLock' = initLock /\ coord' = coord
      /\ \/ c.schema # Null /\ Set(t, r)
         \/ c.schema = Null /\ Set(t, b)
  BY DEF Construct, At
<1>3. realm[t].new = Null /\ realm[t].known = 0 /\ realm[t].dynamic /\ realm[t].at <= Latest
  BY <1>1, <1>2 DEF ThreadInv, NewOK, PlaceOK, SchemaOK, Opening, Moving
<1>4. Latest' = Latest /\ \A v : S(v)' = S(v)
  BY <1>1, <1>2, LogSame
<1>5. CASE c.schema # Null /\ Set(t, r)
  <2>1. /\ c.schema \in SUBSET Column /\ c.max \in 1 .. Latest
        /\ c.min \in 1 .. c.max /\ c.version \in Nat
    BY <1>1, <1>5, Facts DEF Cache, CacheOK
  <2>2. /\ r \in Realm /\ r.pc = "align" /\ r.schema = c.schema /\ r.known = c.max
        /\ r.new = Null /\ r.dynamic /\ r.at = realm[t].at
    <3>1. c.max \in Nat
      BY <1>1, <2>1
    <3> HIDE DEF c
    <3> QED BY <1>1, <1>3, <2>1, <3>1 DEF Realm
  <2>3. S(c.max) = c.schema
    <3>1. ~Clearing(P(t)) /\ CachedOK(P(t))
      BY <1>2, NotClearing, Facts
    <3> QED BY <1>5, <2>1, <3>1 DEF CachedOK
  <2> HIDE DEF r
  <2>4. OnlyThread(t) /\ realm'[t] = r /\ coord'[P(t)] = c
    BY <1>1, <1>2, <1>5, <2>2, OneThread
  <2>5. ASSUME NEW u \in Mates(t), realm[u].pc \in Using
        PROVE  Tables(S(realm[u].known)) \subseteq Tables(S(c.max))
    <3>1. /\ u \in Thread /\ P(u) = P(t) /\ GapOK(u) /\ PlaceOK(u) /\ realm[u].known \in Nat
      BY Facts DEF Mates, ThreadInv
    <3>2. realm[u].known \in 1 .. Latest
      BY <1>1, <2>5, <3>1 DEF PlaceOK, Using
    <3>3. CASE realm[u].known <= c.max
      BY <1>1, <2>1, <3>2, <3>3 DEF LogInv
    <3>4. CASE ~(realm[u].known <= c.max)
      <4>1. realm[u].known \in c.max .. realm[u].known
        BY <2>1, <3>2, <3>4
      <4>2. S(realm[u].known) = c.schema
        BY <1>5, <2>5, <3>1, <4>1 DEF GapOK, Settled
      <4> QED BY <2>3, <4>2
    <3> QED BY <3>3, <3>4
  <2>6. PlaceOK(t)'
    BY <1>3, <1>4, <2>1, <2>2, <2>4 DEF PlaceOK, Opening, Using, Moving
  <2>7. ~Pending(t)'
    BY <2>2, <2>4 DEF Pending, Moving
  <2>8. \A u \in Thread : P(u)' = P(u)
    BY DEF P
  <2>9. GapOK(t)'
    <3>1. \A v \in c.max .. c.max : v = c.max
      BY <2>1
    <3> QED BY <1>4, <2>2, <2>3, <2>4, <2>8, <3>1 DEF GapOK
  <2>10. ASSUME NEW u \in Thread, P(u) = P(t)
         PROVE  WaitOK(t, u)' /\ WaitOK(u, t)'
    <3>1. WaitOK(u, t)'
      BY <2>7 DEF WaitOK
    <3>2. ASSUME Pending(u)' PROVE realm'[u].at < c.max \/ Same(realm[u].at, realm[t].known)'
      <4>1. u # t /\ realm'[u] = realm[u] /\ realm[u].at \in Nat
        BY <2>4, <2>7, <3>2, Facts DEF OnlyThread
      <4>2. realm[u].at >= c.max => \A v \in realm[u].at .. c.max : v = realm[u].at
        BY <2>1, <4>1
      <4> QED BY <2>1, <2>2, <2>4, <4>1, <4>2 DEF Same
    <3> QED BY <2>4, <2>8, <3>1, <3>2 DEF WaitOK
  <2>11. ProcessOK(P(t))'
    BY <1>2, <2>2, <2>4, <2>6, <2>9, <2>10, QuietCache
  <2>12. UnversionedAt(t)'
    BY <1>5, <2>4, NotUsed, StillUnversioned
  <2> HIDE DEF c
  <2> QED BY <1>2, <1>3, <2>1, <2>2, <2>3, <2>4, <2>5, <2>11, <2>12, Constructed
<1>6. CASE Set(t, b)
  <2>1. /\ n \in Realm /\ n.at = Latest /\ n.known = Latest /\ n.new = Null /\ n.dynamic
        /\ n.version = Ver(Latest) /\ n.schema = S(Latest)
    BY <1>1, <1>3, Begins
  <2>2. /\ b \in Realm /\ b.pc = "cache" /\ b.at = Latest /\ b.known = Latest /\ b.new = Null
        /\ b.dynamic /\ b.version = Ver(Latest) /\ b.schema = S(Latest)
    <3> HIDE DEF n
    <3> QED BY <2>1 DEF Realm
  <2> HIDE DEF b, n
  <2>3. OnlyThread(t) /\ realm'[t] = b /\ coord'[P(t)] = c
    BY <1>1, <1>2, <1>6, <2>2, OneThread
  <2>4. PlaceOK(t)'
    BY <1>1, <1>4, <2>2, <2>3 DEF PlaceOK, Opening, Using, Moving
  <2>5. ~Settled(t)'
    BY <2>2, <2>3 DEF Settled, Using
  <2>6. ProcessOK(P(t))'
    BY <1>2, <1>4, <2>2, <2>3, <2>4, <2>5, QuietThread
  <2>7. UnversionedAt(t)'
    BY <2>2, <2>3, NotUsed, StillUnversioned DEF Using
  <2>8. ASSUME NEW u \in Mates(t), realm[u].pc \in Using
        PROVE  Tables(S(realm[u].known)) \subseteq Tables(S(Latest))
    <3>1. u \in Thread /\ PlaceOK(u) /\ realm[u].known \in Nat
      BY Facts DEF Mates, ThreadInv
    <3>2. realm[u].known \in 1 .. Latest /\ Latest \in 1 .. Latest /\ realm[u].known <= Latest
      BY <1>1, <2>8, <3>1 DEF PlaceOK, Using
    <3> QED BY <1>1, <3>2 DEF LogInv
  <2>9. Latest \in 1 .. Latest /\ Latest <= Latest
    BY <1>1
  <2> QED BY <1>2, <2>2, <2>3, <2>6, <2>7, <2>8, <2>9, Constructed
<1> QED BY <1>2, <1>5, <1>6

LEMMA CacheFirstKeeps == ASSUME IInv, NEW t \in Thread, CacheFirst(t) PROVE IInv'
<1> DEFINE a == realm[t].known
           r == [realm[t] EXCEPT !.pc = "align", !.at = 0]
           c == CacheSchema(coord[P(t)], S(a), Ver(a), a)
<1>1. /\ realm[t] \in Realm /\ coord[P(t)] \in Cache /\ TypeOK /\ LogInv /\ ThreadInv(t)
      /\ Latest \in Nat /\ Latest >= 1 /\ WaitOK(t, t)
  BY Facts
<1>2. realm[t].pc = "cache"
  BY DEF CacheFirst, At
<1>3. /\ realm[t].new = Null /\ realm[t].dynamic /\ realm[t].schema = S(a)
      /\ realm[t].version = Ver(a) /\ realm[t].at = a /\ a \in 1 .. Latest
  BY <1>1, <1>2 DEF ThreadInv, NewOK, PlaceOK, SchemaOK, Opening, Moving, Realm
<1>4. /\ Set(t, r) /\ SetCache(t, c) /\ log' = log /\ writer' = writer
      /\ target' = target /\ deaths' = deaths /\ initLock' = initLock
  BY <1>3 DEF CacheFirst
<1>5. /\ r \in Realm /\ r.pc = "align" /\ r.at = 0 /\ r.known = a /\ r.new = Null
      /\ r.dynamic /\ r.schema = S(a) /\ r.version = Ver(a)
  BY <1>1, <1>3 DEF Realm
<1>6. c \in Cache
  <2>1. S(a) \in SUBSET Column /\ Ver(a) \in Nat /\ a \in Nat
    BY <1>1, <1>3, LogTypes
  <2> HIDE DEF a
  <2> QED BY <1>1, <2>1 DEF CacheSchema, Cache
<1>7. Latest = 1 /\ Ver(1) = NotVersioned => c = coord[P(t)]
  BY <1>3 DEF CacheSchema
<1> HIDE DEF r
<1>8. OnlyThread(t) /\ realm'[t] = r /\ coord'[P(t)] = c
  <2> HIDE DEF c
  <2> QED BY <1>4, <1>5, <1>6, OneThread
<1>9. LogInv' /\ Latest' = Latest /\ \A v : S(v)' = S(v) /\ Ver(v)' = Ver(v)
  BY <1>1, <1>4, LogSame
<1>10. SchemaOK(t)' /\ NewOK(t)' /\ WriterOK(t)' /\ PlaceOK(t)'
  BY <1>1, <1>3, <1>5, <1>8, <1>9
     DEF SchemaOK, NewOK, WriterOK, PlaceOK, Opening, Using, Moving, Holding
<1>11. LockOK(t)'
  BY <1>1, <1>2, <1>4 DEF LockOK, ThreadInv, Opening, P
<1>12. ProcessOK(P(t))'
  <2>1. Uncleared(t) /\ ~Pending(t)' /\ realm'[t].known = a
    BY <1>2, <1>5, <1>8, NotClearing DEF Uncleared, Pending, Moving
  <2>2. ASSUME NEW u \in Mates(t), Settled(u)
        PROVE  a < coord[P(t)].max \/ Same(a, realm[u].known)
    <3>1. WaitOK(u, t) /\ P(u) = P(t) /\ Pending(t)
      BY <1>2 DEF IInv, PairInv, Mates, Pending
    <3> QED BY <1>3, <2>2, <3>1 DEF WaitOK
  <2>3. coord'[P(t)] = CacheSchema(coord[P(t)], S(a), Ver(a), a)
    BY <1>8
  <2> HIDE DEF a, c
  <2> QED BY <1>3, <1>4, <1>8, <1>10, <2>1, <2>2, <2>3, CacheSchemaStep
<1>13. UnversionedAt(t)'
  <2> HIDE DEF c
  <2> QED BY <1>3, <1>5, <1>7, <1>8, NotUsed, StillUnversioned DEF Using
<1> QED BY <1>2, <1>5, <1>8, <1>9, <1>10, <1>11, <1>12, <1>13, Routine DEF Using, Updating

LEMMA BeginWriteKeeps == ASSUME IInv, NEW t \in Thread, BeginWrite(t) PROVE IInv'
<1> DEFINE n == Advance(realm[t])
           r == [n EXCEPT !.pc = "recheck"]
<1>1. /\ realm[t] \in Realm /\ coord[P(t)] \in Cache /\ TypeOK /\ LogInv /\ ThreadInv(t)
      /\ Latest \in Nat /\ Latest >= 1
  BY Facts
<1>2. /\ realm[t].pc = "begin" /\ writer = Null /\ writer' = t /\ Set(t, r) /\ log' = log
      /\ target' = target /\ deaths' = deaths /\ initLock' = initLock /\ coord' = coord
  BY DEF BeginWrite, At
<1>3. /\ realm[t].new = Null /\ realm[t].dynamic /\ realm[t].schema = S(realm[t].known)
      /\ realm[t].at = realm[t].known /\ realm[t].known \in 1 .. Latest
      /\ realm[t].changes = Compare(S(realm[t].known), Goal(t))
  BY <1>1, <1>2 DEF ThreadInv, NewOK, PlaceOK, SchemaOK, Opening, Moving, Realm
<1>4. /\ n \in Realm /\ n.at = Latest /\ n.known = realm[t].known /\ n.dynamic
      /\ n.changes = realm[t].changes
      /\ \/ n.new = Null /\ Same(realm[t].known, Latest) /\ n.version = realm[t].version
            /\ n.schema = realm[t].schema
         \/ /\ n.new = S(Latest) /\ S(Latest) # {} /\ Latest >= 2 /\ n.version = Ver(Latest)
            /\ n.schema = S(Latest)
  BY <1>1, <1>3, Advances
<1> HIDE DEF n
<1>5. /\ r \in Realm /\ r.pc = "recheck" /\ r.at = n.at /\ r.known = n.known /\ r.new = n.new
      /\ r.schema = n.schema /\ r.dynamic = n.dynamic /\ r.version = n.version
      /\ r.changes = n.changes
  BY <1>4 DEF Realm
<1> HIDE DEF r
<1>6. OnlyThread(t) /\ realm'[t] = r /\ coord'[P(t)] = coord[P(t)]
  BY <1>1, <1>2, <1>5, OneThread
<1>7. LogInv' /\ Latest' = Latest /\ Goal(t)' = Goal(t) /\ \A v : S(v)' = S(v) /\ Ver(v)' = Ver(v)
  BY <1>1, <1>2, LogSame DEF Goal, P, OnlyThread
<1>8. Same(realm[t].known, Latest) => S(Latest) = S(realm[t].known)
  BY <1>1, <1>3 DEF Same
<1>9. SchemaOK(t)'
  <2>1. n.schema = S(Latest) /\ (n.new = Null => n.changes = Compare(S(Latest), Goal(t)))
    <3>1. CASE n.new = Null /\ Same(realm[t].known, Latest) /\ n.schema = realm[t].schema
      BY <1>3, <1>4, <1>8, <3>1
    <3>2. CASE n.new = S(Latest) /\ n.schema = S(Latest)
      <4>1. Latest \in 1 .. Latest
        BY <1>1
      <4>2. S(Latest) # Null
        BY <1>1, <4>1, LogTypes, RealmOpenAssumption
      <4> QED BY <3>2, <4>2
    <3> QED BY <1>4, <3>1, <3>2
  <2> QED BY <1>4, <1>5, <1>6, <1>7, <2>1 DEF SchemaOK, Opening, Using
<1>10. WriterOK(t)' /\ PlaceOK(t)' /\ LockOK(t)'
  BY <1>1, <1>2, <1>3, <1>4, <1>5, <1>6, <1>7
     DEF ThreadInv, WriterOK, PlaceOK, LockOK, Opening, Using, Moving, Holding, P
<1>11. NewOK(t)'
  <2>1. Same(realm[t].known, realm[t].at)' <=> Same(realm[t].known, Latest)
    BY <1>4, <1>5, <1>6, <1>7 DEF Same
  <2> QED BY <1>4, <1>5, <1>6, <1>7, <2>1 DEF NewOK, Moving
<1>12. Settled(t) /\ (Pending(t)' => realm'[t].at = Latest)
  BY <1>2, <1>4, <1>5, <1>6 DEF Settled, Pending
<1>13. ProcessOK(P(t))'
  BY <1>2, <1>4, <1>5, <1>6, <1>7, <1>10, <1>12, QuietThread
<1>14. UnversionedAt(t)'
  BY <1>4, <1>5, <1>6, NotUsed, StillUnversioned DEF Using
<1> QED BY <1>2, <1>5, <1>6, <1>7, <1>9, <1>10, <1>11, <1>13, <1>14, Routine DEF Using, Updating

LEMMA ClearKeeps == ASSUME IInv, NEW t \in Thread, Clear(t) PROVE IInv'
<1> DEFINE r == [[realm[t] EXCEPT !.schema = Goal(t), !.version = target[P(t)].version,
                                  !.dynamic = FALSE]
                   EXCEPT !.pc = "open", !.at = 0, !.changes = Null]
           c == ClearCache(coord[P(t)], target[P(t)].version)
<1>1. /\ realm[t] \in Realm /\ coord[P(t)] \in Cache /\ TypeOK /\ LogInv /\ ThreadInv(t)
      /\ Latest \in Nat /\ Latest >= 1 /\ Goal(t) \in SUBSET Column
      /\ target[P(t)].version \in Nat /\ CacheOK(P(t))
  BY Facts, Types
<1>2. /\ realm[t].pc = "clear" /\ Set(t, r) /\ SetCache(t, c) /\ Unlock(t) /\ log' = log
      /\ target' = target /\ deaths' = deaths /\ writer' = writer
  BY DEF Clear, At, Opened, Goal
<1>3. /\ realm[t].new = Null /\ realm[t].at = realm[t].known /\ realm[t].known \in 1 .. Latest
      /\ Goal(t) \subseteq S(realm[t].known) /\ initLock[P(t)] = t
  BY <1>1, <1>2 DEF ThreadInv, NewOK, PlaceOK, SchemaOK, LockOK, Opening, Moving, Realm
<1>4. /\ r \in Realm /\ r.pc = "open" /\ r.at = 0 /\ r.known = realm[t].known /\ r.new = Null
      /\ ~r.dynamic /\ r.schema = Goal(t)
  BY <1>1, <1>3 DEF Realm
<1>5. c \in Cache /\ c.schema = Null /\ c.max = coord[P(t)].max
  BY <1>1 DEF ClearCache, Cache
<1> HIDE DEF r, c
<1>6. OnlyThread(t) /\ realm'[t] = r /\ coord'[P(t)] = c
  BY <1>2, <1>3, <1>4, <1>5, OneThread
<1>7. LogInv' /\ Latest' = Latest /\ Goal(t)' = Goal(t) /\ \A v : S(v)' = S(v) /\ Ver(v)' = Ver(v)
  BY <1>1, <1>2, LogSame DEF Goal, P, OnlyThread
<1>8. SchemaOK(t)' /\ NewOK(t)' /\ WriterOK(t)' /\ PlaceOK(t)' /\ LockOK(t)'
  BY <1>1, <1>3, <1>4, <1>6, <1>7
     DEF SchemaOK, NewOK, WriterOK, PlaceOK, LockOK, Opening, Using, Moving, Holding
<1>9. ProcessOK(P(t))'
  <2>1. \A u \in Thread : P(u)' = P(u)
    BY DEF P
  <2>2. ~Pending(t)'
    BY <1>4, <1>6 DEF Pending, Moving
  <2>3. ASSUME NEW u \in Thread, P(u) = P(t)
        PROVE  ~Pending(u)'
    <3>1. CASE u = t
      BY <2>2, <3>1
    <3>2. CASE u # t
      <4>1. realm'[u] = realm[u] /\ AloneOK(t, u)
        BY <2>3, <3>2, <1>6 DEF OnlyThread, IInv, PairInv
      <4> QED BY <1>2, <4>1 DEF Pending, AloneOK, Updating, Moving
    <3> QED BY <3>1, <3>2
  <2>4. CacheInv(P(t))'
    BY <1>1, <1>5, <1>6, <1>7, <2>1 DEF CacheInv, CacheOK, CachedOK
  <2>5. \A u \in Thread : P(u) = P(t) => GapOK(u)'
    BY <1>5, <1>6, <2>1 DEF GapOK
  <2>6. \A u, w \in Thread : P(u) = P(t) /\ P(w) = P(t) => WaitOK(u, w)'
    BY <2>3 DEF WaitOK
  <2> QED BY <2>1, <2>4, <2>5, <2>6 DEF ProcessOK
<1>10. UnversionedAt(t)'
  BY <1>2, <1>5, <1>6, NotUsed, StillUnversioned
<1> QED BY <1>2, <1>4, <1>6, <1>7, <1>8, <1>9, <1>10, Routine DEF Using, Opening, Updating

\* A Realm that has got its schema goes to the caller.
LEMMA Opens ==
  ASSUME IInv, NEW t \in Thread, OnlyThread(t), log' = log, realm[t].pc \in Opening,
         realm'[t].pc = "open", realm'[t].at = 0, ~realm'[t].dynamic, realm'[t].new = Null,
         realm'[t].schema = Goal(t), realm'[t].known \in 1 .. Latest,
         Goal(t) \subseteq S(realm'[t].known), ProcessOK(P(t))',
         ~(Latest = 1 /\ Ver(1) = NotVersioned)
  PROVE  IInv'
<1>1. TypeOK /\ LogInv /\ Latest \in Nat
  BY Facts
<1>2. LogInv' /\ Latest' = Latest /\ Goal(t)' = Goal(t) /\ \A v : S(v)' = S(v)
  BY <1>1, LogSame DEF Goal, P, OnlyThread
<1>3. SchemaOK(t)' /\ NewOK(t)' /\ WriterOK(t)' /\ PlaceOK(t)' /\ LockOK(t)'
  BY <1>1, <1>2 DEF SchemaOK, NewOK, WriterOK, PlaceOK, LockOK, Opening, Using, Moving, Holding
<1>4. UnversionedAt(t)'
  BY StillUnversioned
<1> QED BY <1>2, <1>3, <1>4, Routine DEF Using, Opening, Updating

LEMMA OpenedIs ==
  ASSUME NEW t \in Thread, NEW r \in Realm, Goal(t) \in SUBSET Column
  PROVE  LET o == [[r EXCEPT !.schema = Goal(t), !.dynamic = FALSE]
                     EXCEPT !.pc = "open", !.at = 0, !.changes = Null] IN
         /\ o \in Realm /\ o.pc = "open" /\ o.at = 0 /\ o.known = r.known /\ o.new = r.new
         /\ ~o.dynamic /\ o.schema = Goal(t) /\ o.version = r.version
  BY DEF Realm

LEMMA AlignKeeps == ASSUME IInv, NEW t \in Thread, Align(t) PROVE IInv'
<1> DEFINE m == [realm[t] EXCEPT !.pc = "update"]
           f == [realm[t] EXCEPT !.pc = "failed"]
           o == [[realm[t] EXCEPT !.schema = Goal(t), !.dynamic = FALSE]
                   EXCEPT !.pc = "open", !.at = 0, !.changes = Null]
<1>1. /\ realm[t] \in Realm /\ coord[P(t)] \in Cache /\ TypeOK /\ LogInv /\ ThreadInv(t)
      /\ Latest \in Nat /\ Latest >= 1 /\ Goal(t) \in SUBSET Column
  BY Facts
<1>2. /\ realm[t].pc = "align" /\ log' = log /\ writer' = writer
      /\ target' = target /\ deaths' = deaths /\ coord' = coord
  BY DEF Align, At
<1>3. /\ realm[t].new = Null /\ realm[t].dynamic /\ realm[t].schema = S(realm[t].known)
      /\ realm[t].known \in 1 .. Latest /\ realm[t].at <= Latest /\ initLock[P(t)] = t
  BY <1>1, <1>2 DEF ThreadInv, NewOK, PlaceOK, SchemaOK, LockOK, Opening, Moving, Realm
<1>4. LogInv' /\ Latest' = Latest /\ \A v : S(v)' = S(v) /\ Ver(v)' = Ver(v)
  BY <1>1, <1>2, LogSame
<1>5. InUse(P(t)) = {u \in Thread : P(u) = P(t) /\ realm[u].pc \in Using}
  BY DEF InUse, Using
<1>6. ASSUME NEW u \in InUse(P(t))
      PROVE  /\ u \in Mates(t) /\ realm[u].pc \in Using /\ realm[u].schema = Goal(t)
             /\ Tables(Goal(t)) \subseteq Tables(S(realm[t].known))
             /\ ~(Latest = 1 /\ Ver(1) = NotVersioned)
  <2>1. u \in Thread /\ P(u) = P(t) /\ u # t /\ realm[u].pc \in Using
    BY <1>2, <1>5 DEF Using
  <2>2. SchemaOK(u) /\ OfferOK(t, u)
    BY <2>1 DEF IInv, ThreadInv, PairInv
  <2>3. realm[u].schema = Goal(t)
    BY <2>1, <2>2 DEF SchemaOK, Goal
  <2> QED BY <1>2, <2>1, <2>2, <2>3, NotUsed DEF Mates, OfferOK
<1>7. \/ InUse(P(t)) = {} /\ Set(t, m) /\ initLock' = initLock
      \/ Unlock(t) /\ Set(t, f)
      \/ \E u \in InUse(P(t)) : /\ ~NeedsMigration(Compare(realm[t].schema, realm[u].schema))
                                /\ Unlock(t) /\ Set(t, o)
  <2>1. CASE InUse(P(t)) = {} /\ Set(t, m) /\ initLock' = initLock
    BY <2>1
  <2>2. CASE \E u \in InUse(P(t)) :
               IF NeedsMigration(Compare(realm[t].schema, realm[u].schema))
                 THEN Failed(t, realm[t])
                 ELSE Opened(t, [realm[t] EXCEPT !.schema = realm[u].schema, !.dynamic = FALSE])
    <3>1. PICK u \in InUse(P(t)) :
               IF NeedsMigration(Compare(realm[t].schema, realm[u].schema))
                 THEN Failed(t, realm[t])
                 ELSE Opened(t, [realm[t] EXCEPT !.schema = realm[u].schema, !.dynamic = FALSE])
      BY <2>2
    <3>2. CASE NeedsMigration(Compare(realm[t].schema, realm[u].schema))
      BY <3>1, <3>2 DEF Failed
    <3>3. CASE ~NeedsMigration(Compare(realm[t].schema, realm[u].schema))
      <4>1. Opened(t, [realm[t] EXCEPT !.schema = Goal(t), !.dynamic = FALSE])
        BY <1>6, <3>1, <3>3
      <4>2. Unlock(t) /\ Set(t, o)
        BY <4>1 DEF Opened
      <4> QED BY <3>3, <4>2
    <3> QED BY <3>2, <3>3
  <2> QED BY <2>1, <2>2 DEF Align
<1>8. CASE InUse(P(t)) = {} /\ Set(t, m) /\ initLock' = initLock
  <2>1. /\ m \in Realm /\ m.pc = "update" /\ m.at = realm[t].at /\ m.known = realm[t].known
        /\ m.new = Null /\ m.dynamic /\ m.schema = realm[t].schema /\ m.version = realm[t].version
    BY <1>1, <1>3 DEF Realm
  <2> HIDE DEF m
  <2>2. OnlyThread(t) /\ realm'[t] = m /\ coord'[P(t)] = coord[P(t)]
    BY <1>1, <1>2, <1>8, <2>1, OneThread
  <2>3. SchemaOK(t)' /\ NewOK(t)' /\ WriterOK(t)' /\ PlaceOK(t)'
    BY <1>1, <1>3, <1>4, <2>1, <2>2
       DEF SchemaOK, NewOK, WriterOK, PlaceOK, Opening, Using, Moving, Holding
  <2>4. LockOK(t)'
    BY <1>3, <1>8 DEF LockOK, P
  <2>5. ASSUME NEW u \in Mates(t)
        PROVE  AloneOK(t, u)' /\ AloneOK(u, t)' /\ OfferOK(t, u)' /\ OfferOK(u, t)'
    <3>1. u \in Thread /\ P(u) = P(t) /\ u # t /\ realm'[u] = realm[u] /\ realm[u] \in Realm
      BY <2>2, Facts DEF Mates, OnlyThread
    <3>2. realm[u].pc \notin Opening
      BY <1>3, <3>1 DEF IInv, ThreadInv, LockOK
    <3>3. realm[u].pc \notin Using
      BY <1>5, <1>8, <3>1
    <3>4. realm[u].pc \in {"closed", "failed"}
      BY <3>1, <3>2, <3>3 DEF Realm, Opening, Using
    <3> QED BY <2>1, <2>2, <3>1, <3>4 DEF AloneOK, OfferOK, Updating, Using
  <2>6. ProcessOK(P(t))'
    BY <1>2, <2>1, <2>2, <2>3, QuietThread DEF Settled, Pending, Using, Moving
  <2>7. UnversionedAt(t)'
    BY <2>1, <2>2, NotUsed, StillUnversioned DEF Using
  <2> QED BY <1>4, <2>2, <2>3, <2>4, <2>5, <2>6, <2>7, ThreadStep
<1>9. CASE Unlock(t) /\ Set(t, f)
  <2>1. /\ f \in Realm /\ f.pc = "failed" /\ f.at = realm[t].at /\ f.known = realm[t].known
        /\ f.version = realm[t].version
    BY <1>1, FailedIs
  <2> HIDE DEF f
  <2>2. OnlyThread(t) /\ realm'[t] = f /\ coord'[P(t)] = coord[P(t)]
    BY <1>1, <1>2, <1>3, <1>9, <2>1, OneThread
  <2>3. realm[t].known <= Latest
    BY <1>3
  <2> QED BY <1>2, <1>3, <2>1, <2>2, <2>3, NotUsed, LeavesQuietly
<1>10. CASE \E u \in InUse(P(t)) : /\ ~NeedsMigration(Compare(realm[t].schema, realm[u].schema))
                                   /\ Unlock(t) /\ Set(t, o)
  <2>1. PICK u \in InUse(P(t)) : /\ ~NeedsMigration(Compare(realm[t].schema, realm[u].schema))
                                 /\ Unlock(t) /\ Set(t, o)
    BY <1>10
  <2>2. Goal(t) \subseteq S(realm[t].known)
    <3>1. Compare(S(realm[t].known), Goal(t)).add = {}
      BY <1>3, <1>6, <2>1 DEF NeedsMigration
    <3> QED BY <1>6, <3>1, NothingToAdd
  <2>3. /\ o \in Realm /\ o.pc = "open" /\ o.at = 0 /\ o.known = realm[t].known /\ o.new = Null
        /\ ~o.dynamic /\ o.schema = Goal(t)
    BY <1>1, <1>3, OpenedIs
  <2> HIDE DEF o
  <2>4. OnlyThread(t) /\ realm'[t] = o /\ coord'[P(t)] = coord[P(t)]
    BY <1>1, <1>2, <1>3, <2>1, <2>3, OneThread
  <2>5. PlaceOK(t)'
    BY <1>1, <1>3, <1>4, <2>3, <2>4 DEF PlaceOK, Opening, Using, Moving
  <2>6. ProcessOK(P(t))'
    BY <1>2, <2>3, <2>4, <2>5, QuietThread DEF Settled, Pending, Using, Moving
  <2> QED BY <1>2, <1>3, <1>6, <2>1, <2>2, <2>3, <2>4, <2>6, Opens DEF Opening
<1> QED BY <1>7, <1>8, <1>9, <1>10

\* What the beginning of a read transaction does to the cache.
LEMMA CachesRead ==
  ASSUME IInv, NEW t \in Thread
  PROVE  LET c == BeginReadCaches(coord[P(t)], realm[t]) IN
         /\ c \in Cache
         /\ Latest = 1 /\ Ver(1) = NotVersioned => c.schema = Null
<1> DEFINE c == CacheSchema(coord[P(t)], S(Latest), Ver(Latest), Latest)
<1>1. coord[P(t)] \in Cache /\ S(Latest) \in SUBSET Column /\ Ver(Latest) \in Nat /\ Latest \in Nat
  BY Facts, LogTypes
<1>2. c \in Cache /\ (Ver(Latest) = NotVersioned => c = coord[P(t)])
  BY <1>1 DEF CacheSchema, Cache
<1>3. BeginReadCaches(coord[P(t)], realm[t]) \in {c, coord[P(t)]}
  BY DEF BeginReadCaches, S, Ver
<1> HIDE DEF c
<1> QED BY <1>1, <1>2, <1>3, NotUsed

LEMMA ReadCaches ==
  ASSUME IInv, NEW t \in Thread, OnlyThread(t), log' = log, PlaceOK(t)', Settled(t), Uncleared(t),
         coord'[P(t)] = BeginReadCaches(coord[P(t)], realm[t]),
         Settled(t)' => realm'[t].known = Latest, ~Pending(t)'
  PROVE  ProcessOK(P(t))'
<1>1. Latest \in Nat /\ Latest >= 1
  BY Facts
<1>2. CASE realm[t].known = Latest
  BY <1>2, QuietThread DEF BeginReadCaches, Uncleared, Settled, Using
<1>3. CASE realm[t].known # Latest
  <2>1. coord'[P(t)] = CacheSchema(coord[P(t)], S(Latest), Ver(Latest), Latest)
    BY <1>3 DEF BeginReadCaches, S, Ver
  <2>2. ASSUME NEW u \in Mates(t)
        PROVE  Same(Latest, realm[u].known)
    <3>1. realm[u].known \in Nat /\ realm[u].known <= Latest
      BY Facts DEF Mates, ThreadInv, PlaceOK
    <3>2. \A v \in Latest .. realm[u].known : v = Latest
      BY <1>1, <3>1
    <3> QED BY <3>2 DEF Same
  <2>3. Latest \in 1 .. Latest
    BY <1>1
  <2> QED BY <2>1, <2>2, <2>3, CacheSchemaStep
<1> QED BY <1>2, <1>3

LEMMA ReadSchemaKeeps == ASSUME IInv, NEW t \in Thread, ReadSchema(t) PROVE IInv'
<1> DEFINE n == BeginRead(realm[t])
           goal == target[P(t)]
           ch == Compare(n.schema, Goal(t))
           c == BeginReadCaches(coord[P(t)], realm[t])
           f == [n EXCEPT !.pc = "failed"]
           b == [n EXCEPT !.pc = "begin", !.changes = ch]
           o == [[n EXCEPT !.schema = Goal(t), !.dynamic = FALSE]
                   EXCEPT !.pc = "open", !.at = 0, !.changes = Null]
<1>1. /\ realm[t] \in Realm /\ coord[P(t)] \in Cache /\ TypeOK /\ LogInv /\ ThreadInv(t)
      /\ Latest \in Nat /\ Latest >= 1 /\ Goal(t) \in SUBSET Column
      /\ goal.version < NotVersioned /\ goal.version \in Nat /\ NotVersioned \in Nat
  BY Facts, Types, RealmOpenAssumption
<1>2. /\ realm[t].pc = "update" /\ log' = log /\ writer' = writer
      /\ target' = target /\ deaths' = deaths /\ SetCache(t, c)
  BY DEF ReadSchema, At
<1>3. /\ realm[t].new = Null /\ realm[t].dynamic /\ realm[t].schema = S(realm[t].known)
      /\ initLock[P(t)] = t
  BY <1>1, <1>2 DEF ThreadInv, NewOK, SchemaOK, LockOK, Opening, Moving, Realm
<1>4. LogInv' /\ Latest' = Latest /\ \A v : S(v)' = S(v) /\ Ver(v)' = Ver(v)
  BY <1>1, <1>2, LogSame
<1>5. /\ n \in Realm /\ n.at = Latest /\ n.known = Latest /\ n.new = Null /\ n.dynamic
      /\ n.schema = S(Latest)
      /\ Latest = 1 /\ Ver(1) = NotVersioned => n.version = NotVersioned
  <2>1. n.schema = S(Latest)
    BY <1>3, Begins
  <2> QED BY <1>3, <2>1, Begins, NotUsed
<1>6. c \in Cache /\ (Latest = 1 /\ Ver(1) = NotVersioned => c.schema = Null)
  BY CachesRead
<1>7. \/ Unlock(t) /\ Set(t, f)
      \/ Set(t, b) /\ initLock' = initLock
      \/ ~NeedsWrite(n.version, goal.version, ch) /\ Unlock(t) /\ Set(t, o)
  <2>1. CASE TooOld(n.version, goal.version)
    BY <2>1 DEF ReadSchema, Failed, Goal
  <2>2. CASE NeedsWrite(n.version, goal.version, ch) /\ ~TooOld(n.version, goal.version)
    BY <2>2 DEF ReadSchema, Goal
  <2>3. CASE ~NeedsWrite(n.version, goal.version, ch) /\ ~TooOld(n.version, goal.version)
    BY <2>3 DEF ReadSchema, Opened, Goal
  <2> QED BY <2>1, <2>2, <2>3
<1> HIDE DEF n, c
<1>8. Uncleared(t) <=> realm'[t].pc # "clear"
  BY <1>2, NotClearing DEF Uncleared
<1>9. Settled(t)
  BY <1>2 DEF Settled
<1>10. CASE Unlock(t) /\ Set(t, f)
  <2>1. /\ f \in Realm /\ f.pc = "failed" /\ f.at = Latest /\ f.known = Latest
        /\ f.version = n.version
    BY <1>5, FailedIs
  <2> HIDE DEF f
  <2>2. OnlyThread(t) /\ realm'[t] = f /\ coord'[P(t)] = c
    BY <1>1, <1>2, <1>3, <1>6, <1>10, <2>1, OneThread
  <2>3. PlaceOK(t)'
    BY <1>1, <1>4, <2>1, <2>2 DEF PlaceOK, Opening, Using, Moving
  <2>4. ProcessOK(P(t))'
    BY <1>2, <1>8, <1>9, <2>1, <2>2, <2>3, ReadCaches DEF Pending, Moving, c
  <2> QED BY <1>1, <1>2, <1>5, <1>6, <2>1, <2>2, <2>4, Leaves
<1>11. CASE Set(t, b) /\ initLock' = initLock
  <2>1. ch \in Changes
    <3>1. n.schema \in SUBSET Column
      BY <1>5 DEF Realm
    <3> QED BY <1>1, <3>1, CompareType
  <2>2. /\ b \in Realm /\ b.pc = "begin" /\ b.at = Latest /\ b.known = Latest /\ b.new = Null
        /\ b.dynamic /\ b.schema = S(Latest) /\ b.version = n.version /\ b.changes = ch
    <3> HIDE DEF ch
    <3> QED BY <1>5, <2>1 DEF Realm
  <2>3. ch = Compare(S(Latest), Goal(t))
    BY <1>5
  <2> HIDE DEF b, ch
  <2>4. OnlyThread(t) /\ realm'[t] = b /\ coord'[P(t)] = c
    BY <1>1, <1>2, <1>6, <1>11, <2>2, OneThread
  <2>5. Goal(t)' = Goal(t)
    BY <1>2 DEF Goal, P
  <2>6. SchemaOK(t)' /\ NewOK(t)' /\ WriterOK(t)' /\ PlaceOK(t)'
    BY <1>1, <1>4, <2>2, <2>3, <2>4, <2>5
       DEF SchemaOK, NewOK, WriterOK, PlaceOK, Opening, Using, Moving, Holding
  <2>7. LockOK(t)'
    BY <1>3, <1>11 DEF LockOK, P
  <2>8. ProcessOK(P(t))'
    BY <1>2, <1>8, <1>9, <2>2, <2>4, <2>6, ReadCaches DEF Pending, Moving, c
  <2>9. UnversionedAt(t)'
    BY <1>5, <1>6, <2>2, <2>4, StillUnversioned DEF Using
  <2> QED BY <1>2, <1>4, <2>2, <2>4, <2>6, <2>7, <2>8, <2>9, Routine DEF Using, Updating
<1>12. CASE ~NeedsWrite(n.version, goal.version, ch) /\ Unlock(t) /\ Set(t, o)
  <2>1. goal.version = n.version /\ Goal(t) \subseteq S(Latest)
    BY <1>5, <1>12, NothingToDo DEF NeedsWrite
  <2>2. /\ o \in Realm /\ o.pc = "open" /\ o.at = 0 /\ o.known = Latest /\ o.new = Null
        /\ ~o.dynamic /\ o.schema = Goal(t)
    BY <1>1, <1>5, OpenedIs
  <2> HIDE DEF o
  <2>3. OnlyThread(t) /\ realm'[t] = o /\ coord'[P(t)] = c
    BY <1>1, <1>2, <1>3, <1>6, <1>12, <2>2, OneThread
  <2>4. PlaceOK(t)'
    BY <1>1, <1>4, <2>2, <2>3 DEF PlaceOK, Opening, Using, Moving
  <2>5. ProcessOK(P(t))'
    BY <1>2, <1>8, <1>9, <2>2, <2>3, <2>4, ReadCaches DEF Pending, Moving, c
  <2>6. ~(Latest = 1 /\ Ver(1) = NotVersioned)
    BY <1>1, <1>5, <2>1
  <2>7. Latest \in 1 .. Latest
    BY <1>1
  <2> QED BY <1>2, <2>1, <2>2, <2>3, <2>5, <2>6, <2>7, Opens DEF Opening
<1> QED BY <1>7, <1>10, <1>11, <1>12

LEMMA AccessKeeps == ASSUME IInv, NEW t \in Thread, Access(t) PROVE IInv'
<1> DEFINE n == BeginRead(realm[t])
           c == BeginReadCaches(coord[P(t)], realm[t])
           f == [realm[t] EXCEPT !.pc = "failed"]
<1>1. /\ realm[t] \in Realm /\ coord[P(t)] \in Cache /\ TypeOK /\ LogInv /\ ThreadInv(t)
      /\ Latest \in Nat /\ Latest >= 1
  BY Facts
<1>2. /\ realm[t].pc = "open" /\ log' = log /\ writer' = writer
      /\ target' = target /\ deaths' = deaths /\ initLock' = initLock /\ SetCache(t, c)
      /\ \/ Set(t, f)
         \/ ~BeginReadFails(realm[t]) /\ Set(t, n)
  BY DEF Access, At, Fails
<1>3. /\ realm[t].new = Null /\ ~realm[t].dynamic /\ realm[t].schema = Goal(t)
      /\ realm[t].at <= Latest /\ realm[t].known \in 1 .. Latest
      /\ Goal(t) \subseteq S(realm[t].known)
  BY <1>1, <1>2 DEF ThreadInv, NewOK, SchemaOK, PlaceOK, Using, Moving, Realm
<1>4. LogInv' /\ Latest' = Latest /\ Goal(t)' = Goal(t) /\ \A v : S(v)' = S(v)
  BY <1>1, <1>2, LogSame DEF Goal, P
<1>5. c \in Cache /\ (Latest = 1 /\ Ver(1) = NotVersioned => c.schema = Null)
  BY CachesRead
<1>6. /\ n \in Realm /\ n.at = Latest /\ n.known = Latest /\ n.new = Null /\ ~n.dynamic
      /\ n.schema = Goal(t) /\ n.pc = "open"
  BY <1>2, <1>3, Begins
<1>7. Uncleared(t) <=> realm'[t].pc # "clear"
  BY <1>2, NotClearing DEF Uncleared
<1>8. Settled(t)
  BY <1>2 DEF Settled, Using
<1> HIDE DEF n, c
<1>9. CASE Set(t, f)
  <2>1. /\ f \in Realm /\ f.pc = "failed" /\ f.at = realm[t].at /\ f.known = realm[t].known
        /\ f.version = realm[t].version
    BY <1>1, FailedIs
  <2> HIDE DEF f
  <2>2. OnlyThread(t) /\ realm'[t] = f /\ coord'[P(t)] = c
    BY <1>1, <1>2, <1>5, <1>9, <2>1, OneThread
  <2>3. PlaceOK(t)'
    BY <1>1, <1>3, <1>4, <2>1, <2>2 DEF PlaceOK, Opening, Using, Moving
  <2>4. ProcessOK(P(t))'
    BY <1>2, <1>7, <1>8, <2>1, <2>2, <2>3, ReadCaches DEF Settled, Pending, Using, Moving, c
  <2>5. realm[t].known <= Latest
    BY <1>3
  <2> QED BY <1>2, <1>3, <1>5, <2>1, <2>2, <2>4, <2>5, NotUsed, Leaves
<1>10. CASE ~BeginReadFails(realm[t]) /\ Set(t, n)
  <2>1. Goal(t) \subseteq S(Latest)
    <3>1. CASE realm[t].known = Latest
      BY <1>3, <3>1
    <3>2. CASE realm[t].known # Latest
      <4>1. Compare(Goal(t), S(Latest)).remove = {}
        BY <1>3, <1>10, <3>2 DEF BeginReadFails, S
      <4>2. Tables(Goal(t)) \subseteq Tables(S(realm[t].known))
        BY <1>3, TablesGrow
      <4>3. Tables(S(realm[t].known)) \subseteq Tables(S(Latest))
        <5>1. Latest \in 1 .. Latest /\ realm[t].known <= Latest
          BY <1>1, <1>3
        <5> QED BY <1>1, <1>3, <5>1 DEF LogInv
      <4> QED BY <4>1, <4>2, <4>3, NothingToRemove
    <3> QED BY <3>1, <3>2
  <2>2. OnlyThread(t) /\ realm'[t] = n /\ coord'[P(t)] = c
    BY <1>1, <1>2, <1>5, <1>6, <1>10, OneThread
  <2>3. SchemaOK(t)' /\ NewOK(t)' /\ WriterOK(t)' /\ PlaceOK(t)' /\ LockOK(t)'
    BY <1>1, <1>3, <1>4, <1>6, <2>1, <2>2
       DEF SchemaOK, NewOK, WriterOK, PlaceOK, LockOK, Opening, Using, Moving, Holding
  <2>4. ProcessOK(P(t))'
    BY <1>2, <1>6, <1>7, <1>8, <2>2, <2>3, ReadCaches DEF Pending, Moving, c
  <2>5. UnversionedAt(t)'
    BY <1>2, NotUsed, StillUnversioned, <2>2 DEF Using
  <2> QED BY <1>2, <1>4, <1>6, <2>2, <2>3, <2>4, <2>5, Routine DEF Using, Updating
<1> QED BY <1>2, <1>9, <1>10

LEMMA ApplyKeeps == ASSUME IInv, NEW t \in Thread, Apply(t) PROVE IInv'
<1> DEFINE f == [realm[t] EXCEPT !.pc = "failed"]
           r == [realm[t] EXCEPT !.pc = "applied", !.at = Latest + 1]
           new == [schema |-> Applied(log[Latest].schema, realm[t].changes),
                   version |-> target[P(t)].version]
<1>1. /\ realm[t] \in Realm /\ coord[P(t)] \in Cache /\ TypeOK /\ LogInv /\ ThreadInv(t)
      /\ Latest \in Nat /\ Latest >= 1 /\ Goal(t) \in SUBSET Column
      /\ target[P(t)].version < NotVersioned /\ target[P(t)].version \in Nat
      /\ NotVersioned \in Nat
  BY Facts, Types, RealmOpenAssumption
<1>2. /\ realm[t].pc = "apply" /\ writer' = Null /\ target' = target /\ deaths' = deaths
      /\ coord' = coord
      /\ \/ Unlock(t) /\ Set(t, f) /\ log' = log
         \/ log' = Append(log, new) /\ Set(t, r) /\ initLock' = initLock
  BY DEF Apply, At, Failed
<1>3. /\ realm[t].new = Null /\ realm[t].dynamic /\ realm[t].schema = S(Latest)
      /\ realm[t].known = Latest /\ realm[t].at = Latest /\ initLock[P(t)] = t /\ writer = t
      /\ realm[t].changes = Compare(S(Latest), Goal(t))
  BY <1>1, <1>2 DEF ThreadInv, NewOK, SchemaOK, PlaceOK, WriterOK, LockOK, Opening, Moving, Holding
<1>4. CASE Unlock(t) /\ Set(t, f) /\ log' = log
  <2>1. /\ f \in Realm /\ f.pc = "failed" /\ f.at = realm[t].at /\ f.known = realm[t].known
        /\ f.version = realm[t].version
    BY <1>1, FailedIs
  <2> HIDE DEF f
  <2>2. OnlyThread(t) /\ realm'[t] = f /\ coord'[P(t)] = coord[P(t)]
    BY <1>1, <1>2, <1>3, <1>4, <2>1, OneThread
  <2>3. realm[t].known <= Latest /\ realm[t].at <= Latest
    BY <1>1, <1>3
  <2> QED BY <1>2, <1>4, <2>1, <2>2, <2>3, NotUsed, LeavesQuietly
<1>5. CASE log' = Append(log, new) /\ Set(t, r) /\ initLock' = initLock
  <2>1. Latest + 1 \in Nat /\ Latest \in 1 .. Latest
    BY <1>1
  <2>2. /\ r \in Realm /\ r.pc = "applied" /\ r.at = Latest + 1 /\ r.known = Latest
        /\ r.new = Null /\ r.dynamic /\ r.schema = S(Latest)
    BY <1>1, <1>3, <2>1 DEF Realm
  <2>3. /\ new.schema \in SUBSET Column /\ Goal(t) \subseteq new.schema
        /\ Tables(S(Latest)) \subseteq Tables(new.schema)
        /\ new.version # NotVersioned /\ new \in Contents
    <3>1. S(Latest) \in SUBSET Column
      BY <1>1, <2>1, LogTypes
    <3>2. new.schema = Applied(S(Latest), Compare(S(Latest), Goal(t)))
      BY <1>3 DEF S
    <3>3. /\ new.schema \in SUBSET Column /\ Goal(t) \subseteq new.schema
          /\ Tables(S(Latest)) \subseteq Tables(new.schema)
      BY <1>1, <3>1, <3>2, AppliedIs
    <3>4. new.version # NotVersioned
      BY <1>1
    <3> QED BY <1>1, <3>3, <3>4 DEF Contents
  <2> HIDE DEF r, new
  <2>4. OnlyThread(t) /\ realm'[t] = r /\ coord'[P(t)] = coord[P(t)]
    BY <1>1, <1>2, <1>3, <1>5, <2>2, <2>3, OneThread
  <2>5. /\ Latest' = Latest + 1 /\ Goal(t)' = Goal(t)
        /\ \A v \in 1 .. Latest : log'[v] = log[v]
        /\ log'[Latest + 1] = new
    BY <1>1, <1>2, <1>5, <2>3 DEF Goal, P, Latest, TypeOK
  <2>6. LogInv'
    <3>1. ASSUME NEW i \in 1 .. (Latest + 1), NEW j \in 1 .. (Latest + 1), i <= j
          PROVE Tables(log'[i].schema) \subseteq Tables(log'[j].schema)
      <4>1. CASE j <= Latest
        <5>1. i \in 1 .. Latest /\ j \in 1 .. Latest
          BY <1>1, <3>1, <4>1
        <5> QED BY <1>1, <2>5, <3>1, <5>1 DEF LogInv, S
      <4>2. CASE i <= Latest /\ j = Latest + 1
        <5>1. i \in 1 .. Latest /\ i <= Latest
          BY <1>1, <4>2
        <5>2. Tables(S(i)) \subseteq Tables(S(Latest))
          BY <1>1, <2>1, <5>1 DEF LogInv
        <5> QED BY <2>3, <2>5, <4>2, <5>1, <5>2 DEF S
      <4>3. CASE i = Latest + 1 /\ j = Latest + 1
        BY <4>3
      <4> QED BY <1>1, <3>1, <4>1, <4>2, <4>3
    <3>2. ASSUME NEW v \in 2 .. (Latest + 1) PROVE log'[v].version # NotVersioned
      <4>1. CASE v <= Latest
        BY <1>1, <2>5, <4>1 DEF LogInv, Ver
      <4>2. CASE v = Latest + 1
        BY <2>3, <2>5, <4>2
      <4> QED BY <1>1, <4>1, <4>2
    <3> QED BY <2>5, <3>1, <3>2 DEF LogInv, S, Ver
  <2>7. SchemaOK(t)'
    <3>1. log'[Latest] = log[Latest]
      BY <2>1, <2>5
    <3> QED BY <2>2, <2>3, <2>4, <2>5, <3>1 DEF SchemaOK, S, Opening, Using
  <2>8. NewOK(t)' /\ WriterOK(t)' /\ PlaceOK(t)'
    BY <1>1, <2>2, <2>4, <2>5 DEF NewOK, WriterOK, PlaceOK, Opening, Using, Moving, Holding
  <2>9. LockOK(t)'
    BY <1>3, <1>5 DEF LockOK, P
  <2>10. ProcessOK(P(t))'
    <3>1. Settled(t) /\ ~Pending(t)'
      BY <1>2, <2>2, <2>4 DEF Settled, Pending, Moving
    <3> QED BY <1>2, <1>3, <2>2, <2>4, <2>8, <3>1, QuietThread
  <2>11. UnversionedAt(t)'
    BY <1>1, <2>5 DEF UnversionedAt
  <2> QED BY <1>2, <2>2, <2>4, <2>6, <2>7, <2>8, <2>9, <2>10, <2>11, Routine DEF Using, Updating
<1> QED BY <1>2, <1>4, <1>5

\* What cache_new_schema does to the cache.
LEMMA CachesNew ==
  ASSUME IInv, NEW t \in Thread
  PROVE  LET c == NewCached(coord[P(t)], realm[t]) IN
         /\ c \in Cache
         /\ Latest = 1 /\ Ver(1) = NotVersioned => c.schema = Null
<1> DEFINE c == coord[P(t)]
           r == realm[t]
           n == CacheSchema(c, r.new, r.version, r.at)
           a == AdvanceCache(c, r.known, r.at)
<1>1. c \in Cache /\ r \in Realm
  BY Facts
<1>2. /\ r.new \in (SUBSET Column) \cup {Null} /\ r.version \in Nat /\ r.at \in Nat /\ r.known \in Nat
      /\ c.min \in Nat /\ c.max \in Nat
  BY <1>1 DEF Realm, Cache
<1>3. n \in Cache /\ (r.version = NotVersioned => n = c)
  <2> HIDE DEF c, r
  <2> QED BY <1>1, <1>2 DEF CacheSchema, Cache
<1>4. a \in Cache /\ a.schema = c.schema
  <2> HIDE DEF c, r
  <2> QED BY <1>1, <1>2 DEF AdvanceCache, Cache
<1>5. NewCached(coord[P(t)], realm[t]) \in {n, a}
  BY DEF NewCached
<1>6. Latest = 1 /\ Ver(1) = NotVersioned => r.version = NotVersioned /\ c.schema = Null
  BY NotUsed
<1> HIDE DEF c, r, n, a
<1> QED BY <1>3, <1>4, <1>5, <1>6

LEMMA NewCaches ==
  ASSUME IInv, NEW t \in Thread, OnlyThread(t), log' = log, PlaceOK(t)',
         realm[t].pc \in Moving \cup {"committed"}, realm'[t].pc # "clear",
         coord'[P(t)] = NewCached(coord[P(t)], realm[t]),
         realm'[t].known = realm[t].at, ~Pending(t)'
  PROVE  ProcessOK(P(t))'
<1> DEFINE k == realm[t].known
           a == realm[t].at
<1>1. /\ TypeOK /\ ThreadInv(t) /\ Latest \in Nat /\ k \in Nat /\ a \in Nat
  BY Facts
<1>2. k >= 1 /\ k <= a /\ a <= Latest
  BY <1>1 DEF ThreadInv, PlaceOK, Moving, Opening, Using
<1>3. Uncleared(t)
  BY NotClearing DEF Uncleared, Moving
<1>4. Settled(t)
  BY DEF Settled, Moving, Using
<1>5. CASE realm[t].new = Null
  <2>1. Same(k, a)
    <3>1. CASE realm[t].pc = "committed"
      <4>1. a = k + 1 /\ S(a) = S(k)
        BY <1>1, <3>1 DEF ThreadInv, PlaceOK, SchemaOK
      <4>2. \A v \in k .. a : v = k \/ v = a
        BY <1>1, <4>1
      <4> QED BY <4>1, <4>2 DEF Same
    <3>2. CASE realm[t].pc \in Moving
      <4>1. \A v \in 1 .. Latest : S(v) # Null
        BY <1>1, LogTypes, RealmOpenAssumption
      <4> QED BY <1>1, <1>2, <1>5, <3>2, <4>1 DEF ThreadInv, NewOK
    <3> QED BY <3>1, <3>2
  <2>2. coord'[P(t)] = AdvanceCache(coord[P(t)], k, a)
    BY <1>5 DEF NewCached
  <2> QED BY <1>2, <1>3, <1>4, <2>1, <2>2, AdvanceStep
<1>6. CASE realm[t].new # Null
  <2>1. realm[t].pc \in Moving /\ realm[t].new = S(a) /\ realm[t].version = Ver(a)
    BY <1>1, <1>6 DEF ThreadInv, NewOK, Moving
  <2>2. coord'[P(t)] = CacheSchema(coord[P(t)], S(a), Ver(a), a)
    BY <1>6, <2>1 DEF NewCached
  <2>3. ASSUME NEW u \in Mates(t), Settled(u)
        PROVE  a < coord[P(t)].max \/ Same(a, realm[u].known)
    <3>1. WaitOK(u, t) /\ P(u) = P(t) /\ Pending(t)
      BY <1>6, <2>1 DEF IInv, PairInv, Mates, Pending
    <3> QED BY <2>3, <3>1 DEF WaitOK
  <2>4. a \in 1 .. Latest
    BY <1>1, <1>2
  <2> HIDE DEF a
  <2> QED BY <1>3, <2>2, <2>3, <2>4, CacheSchemaStep DEF a
<1> QED BY <1>5, <1>6

LEMMA CacheNewIs ==
  ASSUME NEW r \in Realm
  PROVE  LET n == CacheNew(r) IN
         /\ n \in Realm /\ n.known = r.at /\ n.new = Null /\ n.at = r.at /\ n.schema = r.schema
         /\ n.dynamic = r.dynamic /\ n.version = r.version /\ n.changes = r.changes /\ n.pc = r.pc
  BY DEF CacheNew, Realm

LEMMA RecheckKeeps == ASSUME IInv, NEW t \in Thread, Recheck(t) PROVE IInv'
<1> DEFINE n == CacheNew(realm[t])
           ch == IF realm[t].new = Null THEN realm[t].changes ELSE Compare(realm[t].new, Goal(t))
           c == NewCached(coord[P(t)], realm[t])
           f == [realm[t] EXCEPT !.pc = "failed"]
           a == [n EXCEPT !.pc = "apply", !.changes = ch]
           o == [[n EXCEPT !.schema = Goal(t), !.dynamic = FALSE]
                   EXCEPT !.pc = "open", !.at = 0, !.changes = Null]
<1>1. /\ realm[t] \in Realm /\ coord[P(t)] \in Cache /\ TypeOK /\ LogInv /\ ThreadInv(t)
      /\ Latest \in Nat /\ Latest >= 1 /\ Goal(t) \in SUBSET Column /\ Latest \in 1 .. Latest
  BY Facts
<1>2. /\ realm[t].pc = "recheck" /\ log' = log /\ target' = target /\ deaths' = deaths
      /\ \/ Unlock(t) /\ Set(t, f) /\ writer' = writer /\ coord' = coord
         \/ /\ realm[t].new # Null /\ ~NeedsWrite(realm[t].version, target[P(t)].version, ch)
            /\ writer' = Null /\ SetCache(t, c) /\ Unlock(t) /\ Set(t, o)
         \/ SetCache(t, c) /\ Set(t, a) /\ writer' = writer /\ initLock' = initLock
  BY DEF Recheck, At, Failed, Opened, Goal
<1>3. /\ realm[t].dynamic /\ realm[t].schema = S(Latest) /\ realm[t].known \in 1 .. Latest
      /\ realm[t].at = Latest /\ initLock[P(t)] = t /\ writer = t
      /\ realm[t].new = Null => realm[t].changes = Compare(S(Latest), Goal(t))
      /\ realm[t].new # Null => realm[t].new = S(Latest) /\ Latest >= 2
  BY <1>1, <1>2
     DEF ThreadInv, NewOK, SchemaOK, PlaceOK, WriterOK, LockOK, Opening, Moving, Holding, Realm
<1>4. c \in Cache /\ (Latest = 1 /\ Ver(1) = NotVersioned => c.schema = Null)
  BY CachesNew
<1>5. /\ n \in Realm /\ n.known = Latest /\ n.new = Null /\ n.at = Latest /\ n.schema = S(Latest)
      /\ n.dynamic /\ n.version = realm[t].version
  BY <1>1, <1>3, CacheNewIs
<1>6. ch = Compare(S(Latest), Goal(t))
  BY <1>3
<1>7. ch \in Changes
  BY <1>1, <1>6, LogTypes, CompareType
<1>8. LogInv' /\ Latest' = Latest /\ Goal(t)' = Goal(t) /\ \A v : S(v)' = S(v)
  BY <1>1, <1>2, LogSame DEF Goal, P
<1> HIDE DEF n, c, ch
<1>9. CASE Unlock(t) /\ Set(t, f) /\ writer' = writer /\ coord' = coord
  <2>1. /\ f \in Realm /\ f.pc = "failed" /\ f.at = realm[t].at /\ f.known = realm[t].known
        /\ f.version = realm[t].version
    BY <1>1, FailedIs
  <2> HIDE DEF f
  <2>2. OnlyThread(t) /\ realm'[t] = f /\ coord'[P(t)] = coord[P(t)]
    BY <1>1, <1>2, <1>3, <1>9, <2>1, OneThread
  <2>3. realm[t].known <= Latest /\ realm[t].at <= Latest
    BY <1>1, <1>3
  <2> QED BY <1>2, <2>1, <2>2, <2>3, NotUsed, LeavesQuietly
<1>10. CASE /\ realm[t].new # Null /\ ~NeedsWrite(realm[t].version, target[P(t)].version, ch)
            /\ writer' = Null /\ SetCache(t, c) /\ Unlock(t) /\ Set(t, o)
  <2>1. Goal(t) \subseteq S(Latest) /\ ~(Latest = 1)
    BY <1>1, <1>3, <1>6, <1>10, NothingToDo DEF NeedsWrite
  <2>2. /\ o \in Realm /\ o.pc = "open" /\ o.at = 0 /\ o.known = Latest /\ o.new = Null
        /\ ~o.dynamic /\ o.schema = Goal(t)
    BY <1>1, <1>5, OpenedIs
  <2> HIDE DEF o
  <2>3. OnlyThread(t) /\ realm'[t] = o /\ coord'[P(t)] = c
    BY <1>2, <1>3, <1>4, <1>10, <2>2, OneThread
  <2>4. PlaceOK(t)'
    BY <1>1, <1>8, <2>2, <2>3 DEF PlaceOK, Opening, Using, Moving
  <2>5. ProcessOK(P(t))'
    BY <1>2, <1>3, <2>2, <2>3, <2>4, NewCaches DEF Pending, Moving, c
  <2> QED BY <1>1, <1>2, <2>1, <2>2, <2>3, <2>5, Opens DEF Opening
<1>11. CASE SetCache(t, c) /\ Set(t, a) /\ writer' = writer /\ initLock' = initLock
  <2>1. /\ a \in Realm /\ a.pc = "apply" /\ a.at = Latest /\ a.known = Latest /\ a.new = Null
        /\ a.dynamic /\ a.schema = S(Latest) /\ a.version = realm[t].version /\ a.changes = ch
    BY <1>5, <1>7 DEF Realm
  <2> HIDE DEF a
  <2>2. OnlyThread(t) /\ realm'[t] = a /\ coord'[P(t)] = c
    BY <1>2, <1>4, <1>11, <2>1, OneThread
  <2>3. SchemaOK(t)' /\ NewOK(t)' /\ WriterOK(t)' /\ PlaceOK(t)'
    BY <1>1, <1>3, <1>6, <1>8, <1>11, <2>1, <2>2
       DEF SchemaOK, NewOK, WriterOK, PlaceOK, Opening, Using, Moving, Holding
  <2>4. LockOK(t)'
    BY <1>3, <1>11 DEF LockOK, P
  <2>5. ProcessOK(P(t))'
    BY <1>2, <1>3, <2>1, <2>2, <2>3, NewCaches DEF Pending, Moving, c
  <2>6. UnversionedAt(t)'
    BY <1>4, <2>1, <2>2, NotUsed, StillUnversioned DEF Using
  <2> QED BY <1>2, <1>8, <2>1, <2>2, <2>3, <2>4, <2>5, <2>6, Routine DEF Using, Updating
<1> QED BY <1>2, <1>9, <1>10, <1>11

\* update_schema's own commit: the cache is wrong until it is cleared.
LEMMA AppliedCaches ==
  ASSUME IInv, NEW t \in Thread, OnlyThread(t), log' = log, realm[t].pc = "applied",
         realm'[t].pc = "clear", coord'[P(t)] = NewCached(coord[P(t)], realm[t])
  PROVE  ProcessOK(P(t))'
<1> DEFINE k == realm[t].known
           a == realm[t].at
           c == coord[P(t)]
           n == AdvanceCache(c, k, a)
<1>1. /\ TypeOK /\ LogInv /\ ThreadInv(t) /\ Latest \in Nat /\ k \in Nat /\ a \in Nat
      /\ CacheOK(P(t)) /\ c \in Cache /\ c.min \in Nat /\ c.max \in Nat
  BY Facts
<1>2. k >= 1 /\ a = k + 1 /\ a <= Latest /\ realm[t].new = Null
  BY <1>1 DEF ThreadInv, PlaceOK, NewOK, Moving, Opening
<1>3. coord'[P(t)] = n
  BY <1>2 DEF NewCached
<1>4. \A u \in Thread : P(u)' = P(u)
  BY DEF P
<1>5. ASSUME NEW u \in Thread, P(u) = P(t)
      PROVE  ~Settled(u)' /\ ~Pending(u)'
  <2>1. CASE u = t
    BY <2>1 DEF Settled, Pending, Using, Moving
  <2>2. CASE u # t
    <3>1. realm'[u] = realm[u] /\ AloneOK(t, u)
      BY <1>5, <2>2 DEF OnlyThread, IInv, PairInv
    <3> QED BY <3>1 DEF Settled, Pending, AloneOK, Updating, Using, Moving
  <2> QED BY <2>1, <2>2
<1>6. Clearing(P(t))'
  BY <1>4 DEF Clearing
<1>7. CacheOK(P(t))'
  <2>1. Latest' = Latest /\ \A v : Ver(v)' = Ver(v)
    BY <1>1, LogSame
  <2>2. \/ n = c
        \/ /\ n.schema = c.schema /\ n.min = (IF k < c.min THEN k ELSE c.min)
           /\ n.max = IF a > c.max THEN a ELSE c.max
    <3> HIDE DEF c, k, a
    <3> QED BY <1>1 DEF AdvanceCache, Cache
  <2> HIDE DEF n, c, k, a
  <2>3. \/ n.max = c.max
        \/ n.max = a /\ a >= c.max
    BY <1>1, <2>2
  <2>4. n.schema = c.schema /\ (1 <= c.min => 1 <= n.min) /\ n.min <= c.min
    BY <1>1, <1>2, <2>2
  <2>5. c.max <= Latest /\ (c.schema # Null => /\ 1 <= c.min /\ c.min <= c.max /\ c.schema # {}
                                               /\ Ver(c.max) # NotVersioned)
    BY <1>1 DEF CacheOK, c
  <2>6. Ver(a) # NotVersioned
    BY <1>1, <1>2 DEF LogInv
  <2>7. n.max <= Latest /\ n.min \in Nat /\ n.max \in Nat /\ c.max <= n.max
    BY <1>1, <1>2, <2>2, <2>3, <2>5
  <2>8. n.schema # Null => /\ 1 <= n.min /\ n.min <= n.max /\ n.schema # {}
                           /\ Ver(n.max) # NotVersioned
    BY <1>1, <2>3, <2>4, <2>5, <2>6, <2>7
  <2> QED BY <1>3, <1>4, <2>1, <2>7, <2>8 DEF CacheOK
<1>8. CachedOK(P(t))'
  BY <1>6 DEF CachedOK
<1> QED BY <1>4, <1>5, <1>7, <1>8 DEF ProcessOK, CacheInv, GapOK, WaitOK

LEMMA CacheNewSchemaKeeps == ASSUME IInv, NEW t \in Thread, CacheNewSchema(t) PROVE IInv'
<1> DEFINE n == CacheNew(realm[t])
           c == NewCached(coord[P(t)], realm[t])
           next == AfterCaching[realm[t].pc]
           r == [n EXCEPT !.pc = next]
<1>1. /\ realm[t] \in Realm /\ coord[P(t)] \in Cache /\ TypeOK /\ LogInv /\ ThreadInv(t)
      /\ Latest \in Nat /\ Latest >= 1
  BY Facts
<1>2. /\ realm[t].pc \in DOMAIN AfterCaching /\ Set(t, r) /\ SetCache(t, c) /\ log' = log
      /\ target' = target /\ deaths' = deaths /\ writer' = writer /\ initLock' = initLock
  BY DEF CacheNewSchema
<1>3. \/ realm[t].pc = "begun" /\ next = "writing"
      \/ realm[t].pc = "committed" /\ next = "open"
      \/ realm[t].pc = "refreshed" /\ next = "open"
      \/ realm[t].pc = "applied" /\ next = "clear"
  BY <1>2 DEF AfterCaching
<1>4. /\ n \in Realm /\ n.known = realm[t].at /\ n.new = Null /\ n.at = realm[t].at
      /\ n.schema = realm[t].schema /\ n.dynamic = realm[t].dynamic
  BY <1>1, CacheNewIs
<1> HIDE DEF n, next
<1>5. /\ r \in Realm /\ r.pc = next /\ r.known = realm[t].at /\ r.at = realm[t].at
      /\ r.new = Null /\ r.schema = realm[t].schema /\ r.dynamic = realm[t].dynamic
  BY <1>3, <1>4 DEF Realm
<1>6. c \in Cache /\ (Latest = 1 /\ Ver(1) = NotVersioned => c.schema = Null)
  BY CachesNew
<1> HIDE DEF r, c
<1>7. OnlyThread(t) /\ realm'[t] = r /\ coord'[P(t)] = c
  BY <1>2, <1>5, <1>6, OneThread
<1>8. LogInv' /\ Latest' = Latest /\ Goal(t)' = Goal(t) /\ \A v : S(v)' = S(v)
  BY <1>1, <1>2, LogSame DEF Goal, P
<1>9. /\ realm[t].at \in Nat /\ realm[t].at >= 1 /\ realm[t].at <= Latest
      /\ Goal(t) \subseteq S(realm[t].at)
      /\ realm[t].pc # "applied" => ~realm[t].dynamic /\ realm[t].schema = Goal(t)
      /\ realm[t].pc = "applied" => realm[t].dynamic
  <2>1. realm[t].known \in Nat /\ realm[t].at \in Nat /\ realm[t].known >= 1
    BY <1>1, <1>3, Facts DEF ThreadInv, PlaceOK, Opening, Using
  <2> QED BY <1>1, <1>3, <2>1 DEF ThreadInv, PlaceOK, SchemaOK, Opening, Using, Moving
<1>10. SchemaOK(t)' /\ NewOK(t)' /\ PlaceOK(t)'
  BY <1>1, <1>3, <1>5, <1>7, <1>8, <1>9
     DEF SchemaOK, NewOK, PlaceOK, Opening, Using, Moving
<1>11. WriterOK(t)' /\ LockOK(t)'
  BY <1>1, <1>2, <1>3, <1>5, <1>7, <1>8 DEF ThreadInv, WriterOK, LockOK, Opening, Holding, P
<1>12. ProcessOK(P(t))'
  <2>1. CASE realm[t].pc = "applied"
    BY <1>2, <1>3, <1>5, <1>7, <2>1, AppliedCaches DEF c
  <2>2. CASE realm[t].pc # "applied"
    <3>1. realm[t].pc \in Moving \cup {"committed"} /\ next \in {"writing", "open"}
      BY <1>3, <2>2 DEF Moving
    <3>2. ~Pending(t)'
      BY <1>5, <1>7, <3>1 DEF Pending, Moving
    <3> QED BY <1>2, <1>5, <1>7, <1>10, <3>1, <3>2, NewCaches DEF c
  <2> QED BY <2>1, <2>2
<1>13. UnversionedAt(t)'
  BY <1>3, <1>7, NotUsed, StillUnversioned DEF Using
<1> QED BY <1>2, <1>3, <1>5, <1>7, <1>8, <1>10, <1>11, <1>12, <1>13, Routine DEF Using, Updating

\* A process ends: nothing is left of it, and the others' Realms and caches stay.
LEMMA DieKeeps == ASSUME IInv, NEW p \in Process, Die(p) PROVE IInv'
<1>1. /\ TypeOK /\ LogInv /\ Latest \in Nat /\ Null \notin Thread
  BY RealmOpenAssumption, LogTypes DEF IInv
<1>2. /\ deaths' = deaths + 1 /\ target' = target /\ log' = log
      /\ realm' = [t \in Thread |-> IF P(t) = p THEN Closed ELSE realm[t]]
      /\ coord' = [coord EXCEPT ![p] = EmptyCache]
      /\ initLock' = [initLock EXCEPT ![p] = Null]
      /\ writer' = IF writer # Null /\ P(writer) = p THEN Null ELSE writer
  BY DEF Die
<1>3. /\ Grown /\ LogInv' /\ Latest' = Latest /\ \A v : S(v)' = S(v) /\ Ver(v)' = Ver(v)
      /\ \A u \in Thread : P(u)' = P(u) /\ P(u) \in Process
  BY <1>1, <1>2, LogSame, Types DEF P
<1>4. /\ EmptyCache \in Cache /\ EmptyCache.schema = Null /\ EmptyCache.max = 0
  BY RealmOpenAssumption DEF EmptyCache, Cache
<1>5. /\ coord' \in [Process -> Cache] /\ coord'[p].schema = Null /\ coord'[p].max = 0
      /\ \A q \in Process \ {p} : coord'[q] = coord[q]
  BY <1>1, <1>2, <1>4 DEF TypeOK
<1>6. /\ initLock' \in [Process -> Thread \cup {Null}]
      /\ \A q \in Process \ {p} : initLock'[q] = initLock[q]
  BY <1>1, <1>2 DEF TypeOK
<1>7. realm' \in [Thread -> Realm]
  BY <1>1, <1>2, ClosedIs DEF TypeOK
<1>8. ASSUME NEW u \in Thread, P(u) = p
      PROVE  /\ realm'[u] = Closed /\ realm'[u].pc = "closed"
             /\ SchemaOK(u)' /\ PlaceOK(u)' /\ NewOK(u)' /\ WriterOK(u)' /\ LockOK(u)'
             /\ ~Settled(u)' /\ ~Pending(u)'
  <2>1. realm'[u] = Closed
    BY <1>2, <1>8
  <2>2. realm'[u].pc = "closed" /\ realm'[u].at = 0 /\ realm'[u].known = 0 /\ realm'[u].new = Null
    BY <2>1, ClosedIs
  <2>3. SchemaOK(u)' /\ NewOK(u)' /\ WriterOK(u)' /\ LockOK(u)'
    BY <2>2 DEF SchemaOK, NewOK, WriterOK, LockOK, Opening, Using, Moving, Holding
  <2>4. PlaceOK(u)'
    BY <1>1, <1>3, <2>2 DEF PlaceOK, Opening, Using, Moving
  <2>5. ~Settled(u)' /\ ~Pending(u)'
    BY <2>2 DEF Settled, Pending, Using, Moving
  <2> QED BY <2>1, <2>2, <2>3, <2>4, <2>5
<1>9. ASSUME NEW u \in Thread, P(u) # p
      PROVE  /\ realm'[u] = realm[u] /\ coord'[P(u)] = coord[P(u)]
             /\ SchemaOK(u)' /\ PlaceOK(u)' /\ NewOK(u)' /\ WriterOK(u)' /\ LockOK(u)'
             /\ (Settled(u)' <=> Settled(u)) /\ (Pending(u)' <=> Pending(u))
  <2>1. realm'[u] = realm[u] /\ coord'[P(u)] = coord[P(u)] /\ initLock'[P(u)] = initLock[P(u)]
    BY <1>2, <1>3, <1>5, <1>6, <1>9
  <2>2. ThreadInv(u)
    BY DEF IInv
  <2>3. SchemaOK(u)' /\ PlaceOK(u)' /\ NewOK(u)'
    BY <1>1, <1>2, <1>3, <2>1, <2>2, Unmoved DEF ThreadInv
  <2>4. WriterOK(u)'
    BY <1>1, <1>2, <1>3, <1>9, <2>1, <2>2 DEF ThreadInv, WriterOK
  <2>5. LockOK(u)'
    BY <1>3, <2>1, <2>2 DEF ThreadInv, LockOK
  <2>6. (Settled(u)' <=> Settled(u)) /\ (Pending(u)' <=> Pending(u))
    BY <2>1 DEF Settled, Pending
  <2> QED BY <2>1, <2>3, <2>4, <2>5, <2>6
<1>10. ASSUME NEW u \in Thread
       PROVE  ThreadInv(u)'
  <2>1. GapOK(u)'
    <3>1. CASE P(u) = p
      BY <1>8, <3>1 DEF GapOK
    <3>2. CASE P(u) # p
      <4>1. GapOK(u)
        BY DEF IInv, ThreadInv
      <4> QED BY <1>3, <1>9, <3>2, <4>1 DEF GapOK
    <3> QED BY <3>1, <3>2
  <2> QED BY <1>8, <1>9, <2>1 DEF ThreadInv
<1>11. ASSUME NEW u \in Thread, NEW w \in Thread, P(u) = P(w)
       PROVE  PairInv(u, w)'
  <2>1. CASE P(u) = p
    <3>1. /\ realm'[u].pc = "closed" /\ realm'[w].pc = "closed" /\ ~Settled(u)' /\ ~Pending(w)'
      BY <1>8, <1>11, <2>1
    <3> QED BY <3>1 DEF PairInv, AloneOK, OfferOK, WaitOK, Updating
  <2>2. CASE P(u) # p
    <3>1. PairInv(u, w)
      BY <1>11 DEF IInv
    <3>2. /\ realm'[u] = realm[u] /\ realm'[w] = realm[w] /\ coord'[P(u)] = coord[P(u)]
          /\ (Settled(u)' <=> Settled(u)) /\ (Pending(w)' <=> Pending(w))
      BY <1>9, <1>11, <2>2
    <3>3. Goal(u)' = Goal(u)
      BY <1>2, <1>3 DEF Goal
    <3>4. (u # w => AloneOK(u, w)') /\ OfferOK(u, w)'
      BY <1>3, <3>1, <3>2, <3>3 DEF PairInv, AloneOK, OfferOK
    <3>5. WaitOK(u, w)'
      <4>1. Same(realm[w].at, realm[u].known)' <=> Same(realm[w].at, realm[u].known)
        BY <1>3, <3>2 DEF Same
      <4> QED BY <1>3, <3>1, <3>2, <4>1 DEF PairInv, WaitOK
    <3> QED BY <3>4, <3>5 DEF PairInv
  <2> QED BY <2>1, <2>2
<1>12. ASSUME NEW q \in Process
       PROVE  CacheInv(q)'
  <2>1. CASE q = p
    BY <1>1, <1>3, <1>5, <2>1 DEF CacheInv, CacheOK, CachedOK
  <2>2. CASE q # p
    <3>1. coord'[q] = coord[q] /\ CacheOK(q) /\ CachedOK(q)
      BY <1>5, <2>2 DEF IInv, CacheInv
    <3>2. Clearing(q)' <=> Clearing(q)
      BY <1>3, <1>9, <2>2 DEF Clearing
    <3> QED BY <1>3, <3>1, <3>2 DEF CacheInv, CacheOK, CachedOK
  <2> QED BY <2>1, <2>2
<1>13. Unversioned'
  <2>1. SUFFICES ASSUME Latest = 1, Ver(1) = NotVersioned
                 PROVE  /\ \A q \in Process : coord'[q].schema = Null
                        /\ \A u \in Thread : /\ realm'[u].pc \notin Using \cup {"applied", "clear"}
                                             /\ realm'[u].version = NotVersioned
    BY <1>3 DEF Unversioned
  <2>2. \A q \in Process : coord'[q].schema = Null
    BY <1>5, <2>1 DEF IInv, Unversioned
  <2>3. ASSUME NEW u \in Thread
        PROVE  /\ realm'[u].pc \notin Using \cup {"applied", "clear"}
               /\ realm'[u].version = NotVersioned
    <3>1. CASE P(u) = p
      BY <1>8, <3>1, ClosedIs DEF Using
    <3>2. CASE P(u) # p
      BY <1>9, <2>1, <3>2, NotUsed
    <3> QED BY <3>1, <3>2
  <2> QED BY <2>2, <2>3
<1>14. TypeOK'
  <2>1. \A u \in Thread : (realm[u].at <= Latest /\ realm[u].known <= Latest)'
    BY <1>10 DEF ThreadInv, PlaceOK
  <2>2. \A u \in Thread : (realm[u].pc \in {"recheck", "apply", "begun", "writing"} => writer = u)'
    BY <1>10 DEF ThreadInv, WriterOK, Holding
  <2>3. writer' \in Thread \cup {Null} /\ deaths' \in Nat
    BY <1>1, <1>2 DEF TypeOK
  <2> QED BY <1>1, <1>2, <1>5, <1>6, <1>7, <2>1, <2>2, <2>3 DEF TypeOK
<1> QED BY <1>3, <1>10, <1>11, <1>12, <1>13, <1>14 DEF IInv

-----------------------------------------------------------------------------
(* The invariant holds, and with it the properties.                        *)

LEMMA InitIInv == Init => IInv
<1> SUFFICES ASSUME Init PROVE IInv
  OBVIOUS
<1>1. PICK f \in FirstFiles : log = <<f>>
  BY DEF Init
<1>2. f \in Contents /\ Latest = 1 /\ log[1] = f
  BY <1>1, RealmOpenAssumption DEF Latest
<1>3. /\ \A t \in Thread : realm[t] = Closed /\ P(t) \in Process
      /\ \A p \in Process : initLock[p] = Null /\ coord[p] = EmptyCache
  BY RealmOpenAssumption DEF Init, P
<1>4. \A t \in Thread : /\ realm[t].pc = "closed" /\ realm[t].at = 0 /\ realm[t].known = 0
                        /\ realm[t].new = Null /\ realm[t].version = NotVersioned
  BY <1>3, ClosedIs
<1>5. EmptyCache \in Cache /\ EmptyCache.schema = Null /\ EmptyCache.max = 0
  BY RealmOpenAssumption DEF EmptyCache, Cache
<1>6. TypeOK
  <2>1. log \in Seq(Contents) /\ log # <<>>
    BY <1>1, <1>2
  <2>2. realm \in [Thread -> Realm] /\ coord \in [Process -> Cache]
    BY <1>5, ClosedIs DEF Init
  <2> QED BY <1>2, <1>4, <2>1, <2>2 DEF Init, TypeOK
<1>7. LogInv
  BY <1>2 DEF LogInv
<1>8. Unversioned
  BY <1>3, <1>4, <1>5 DEF Unversioned, Using
<1>9. ASSUME NEW t \in Thread
      PROVE  ThreadInv(t)
  <2>1. ~Settled(t)
    BY <1>4 DEF Settled, Using
  <2>2. SchemaOK(t) /\ PlaceOK(t) /\ NewOK(t) /\ WriterOK(t) /\ LockOK(t)
    BY <1>2, <1>4 DEF SchemaOK, PlaceOK, NewOK, WriterOK, LockOK, Opening, Using, Moving, Holding
  <2> QED BY <2>1, <2>2 DEF ThreadInv, GapOK
<1>10. ASSUME NEW t \in Thread, NEW u \in Thread
       PROVE  PairInv(t, u)
  BY <1>4 DEF PairInv, AloneOK, OfferOK, WaitOK, Settled, Using, Updating
<1>11. ASSUME NEW p \in Process
       PROVE  CacheInv(p)
  BY <1>2, <1>3, <1>5 DEF CacheInv, CacheOK, CachedOK
<1> QED BY <1>6, <1>7, <1>8, <1>9, <1>10, <1>11 DEF IInv

LEMMA StepIInv == IInv /\ [Next]_vars => IInv'
<1> SUFFICES ASSUME IInv, [Next]_vars PROVE IInv'
  OBVIOUS
<1>1. ASSUME NEW t \in Thread, Library(t)
      PROVE  IInv'
  <2>1. CASE Construct(t)
    BY <2>1, ConstructKeeps
  <2>2. CASE CacheFirst(t)
    BY <2>2, CacheFirstKeeps
  <2>3. CASE Align(t)
    BY <2>3, AlignKeeps
  <2>4. CASE ReadSchema(t)
    BY <2>4, ReadSchemaKeeps
  <2>5. CASE BeginWrite(t)
    BY <2>5, BeginWriteKeeps
  <2>6. CASE Recheck(t)
    BY <2>6, RecheckKeeps
  <2>7. CASE Apply(t)
    BY <2>7, ApplyKeeps
  <2>8. CASE Clear(t)
    BY <2>8, ClearKeeps
  <2>9. CASE Destroy(t)
    BY <2>9, DestroyKeeps
  <2>10. CASE Promote(t)
    BY <2>10, PromoteKeeps
  <2>11. CASE CacheNewSchema(t)
    BY <2>11, CacheNewSchemaKeeps
  <2> QED BY <1>1, <2>1, <2>2, <2>3, <2>4, <2>5, <2>6, <2>7, <2>8, <2>9, <2>10, <2>11 DEF Library
<1>2. ASSUME NEW t \in Thread, Enter(t)
      PROVE  IInv'
  BY <1>2, EnterKeeps
<1>3. ASSUME NEW t \in Thread, Access(t) \/ StartWrite(t) \/ Commit(t) \/ Cancel(t)
      PROVE  IInv'
  BY <1>3, AccessKeeps, StartWriteKeeps, CommitKeeps, CancelKeeps
<1>4. ASSUME NEW t \in Thread, Refresh(t) \/ Invalidate(t) \/ Close(t)
      PROVE  IInv'
  BY <1>4, RefreshKeeps, InvalidateKeeps, CloseKeeps
<1>5. ASSUME NEW p \in Process, Die(p)
      PROVE  IInv'
  BY <1>5, DieKeeps
<1>6. CASE UNCHANGED vars
  <2>1. /\ target' = target /\ log' = log /\ writer' = writer /\ initLock' = initLock
        /\ coord' = coord /\ realm' = realm /\ deaths' = deaths
    BY <1>6 DEF vars
  <2>2. TypeOK' /\ LogInv' /\ Unversioned'
    BY <2>1 DEF IInv, TypeOK, LogInv, Unversioned, S, Ver, P, Latest
  <2>3. /\ \A v : S(v)' = S(v) /\ Ver(v)' = Ver(v)
        /\ \A t \in Thread : P(t)' = P(t) /\ Goal(t)' = Goal(t)
        /\ \A i, j : Same(i, j)' <=> Same(i, j)
        /\ Latest' = Latest
    BY <2>1 DEF S, Ver, P, Goal, Same, Latest
  <2>4. \A t \in Thread : (Settled(t)' <=> Settled(t)) /\ (Pending(t)' <=> Pending(t))
    BY <2>1 DEF Settled, Pending
  <2>5. \A t \in Thread : ThreadInv(t)'
    <3>1. ASSUME NEW t \in Thread PROVE ThreadInv(t)'
      <4>1. ThreadInv(t)
        BY DEF IInv
      <4>2. SchemaOK(t)' /\ PlaceOK(t)'
        BY <2>1, <2>3, <4>1 DEF ThreadInv, SchemaOK, PlaceOK
      <4>3. NewOK(t)'
        <5>1. Same(realm[t].known, realm[t].at)' <=> Same(realm[t].known, realm[t].at)
          BY <2>1, <2>3 DEF Same
        <5> QED BY <2>1, <2>3, <4>1, <5>1 DEF ThreadInv, NewOK
      <4>4. WriterOK(t)' /\ LockOK(t)' /\ GapOK(t)'
        BY <2>1, <2>3, <2>4, <4>1 DEF ThreadInv, WriterOK, LockOK, GapOK
      <4> QED BY <4>2, <4>3, <4>4 DEF ThreadInv
    <3> QED BY <3>1
  <2>6. \A t, u \in Thread : P(t) = P(u) => PairInv(t, u)'
    <3>1. ASSUME NEW t \in Thread, NEW u \in Thread, P(t) = P(u) PROVE PairInv(t, u)'
      <4>1. PairInv(t, u)
        BY <3>1 DEF IInv
      <4>2. Same(realm[u].at, realm[t].known)' <=> Same(realm[u].at, realm[t].known)
        BY <2>1, <2>3 DEF Same
      <4> QED BY <2>1, <2>3, <2>4, <4>1, <4>2 DEF PairInv, AloneOK, OfferOK, WaitOK
    <3> QED BY <3>1
  <2>7. \A p \in Process : CacheInv(p)'
    <3>1. ASSUME NEW p \in Process PROVE CacheInv(p)'
      <4>1. CacheInv(p) /\ (Clearing(p)' <=> Clearing(p))
        BY <2>1, <2>3 DEF IInv, Clearing
      <4> QED BY <2>1, <2>3, <4>1 DEF CacheInv, CacheOK, CachedOK
    <3> QED BY <3>1
  <2> QED BY <2>2, <2>3, <2>5, <2>6, <2>7 DEF IInv
<1> QED BY <1>1, <1>2, <1>3, <1>4, <1>5, <1>6 DEF Next

LEMMA Inductive == Spec => []IInv
BY InitIInv, StepIInv, PTL DEF Spec

\* Every variable has its type; no Realm is at a version, or knows one, that the file
\* has not got, and who is in a write transaction holds the file's write lock.
THEOREM RealmTypeOK == Spec => []TypeOK
<1>1. IInv => TypeOK
  BY DEF IInv
<1> QED BY <1>1, Inductive, PTL

\* A Realm in use never reads a version of the file that lacks one of its columns: its
\* schema is its program's, and that is a part of the version it knows and reads,
\* whatever programs with other schemas have made of the file.
THEOREM NoColumnMissing == Spec => []ColumnsThere
<1>1. ASSUME IInv PROVE ColumnsThere
  <2>1. ASSUME NEW t \in Thread, realm[t].pc = "open", realm[t].at # 0
        PROVE  realm[t].schema \subseteq log[realm[t].at].schema
    <3>1. SchemaOK(t) /\ PlaceOK(t)
      BY <1>1 DEF IInv, ThreadInv
    <3>2. realm[t].at = realm[t].known /\ realm[t].schema = Goal(t) /\ Goal(t) \subseteq S(realm[t].known)
      BY <2>1, <3>1 DEF SchemaOK, PlaceOK, Using
    <3> QED BY <3>2 DEF S
  <2> QED BY <2>1 DEF ColumnsThere, At
<1> QED BY <1>1, Inductive, PTL

\* What KnowsFile, CacheExact and ChangesFit say of columns.
ColumnsExact ==
  /\ \A t \in Thread : LET r == realm[t] IN
       /\ r.pc \in {"cache", "begin", "recheck", "apply"} => r.schema = log[r.at].schema
       /\ r.pc = "apply" => r.changes = Compare(log[Latest].schema, target[P(t)].schema)
  /\ \A p \in Process :
       coord[p].schema # Null /\ ~Clearing(p) =>
         \A v \in coord[p].min .. coord[p].max : v <= Latest /\ log[v].schema = coord[p].schema

\* In the read transactions of the constructor and of update_schema a Realm has the
\* columns of the version it reads, the cache has the columns of every version in its
\* range, and what update_schema is about to change is what the file and the program
\* differ in, whatever the schema versions of the programs are.
THEOREM ColumnsKnown == Spec => []ColumnsExact
<1>1. ASSUME IInv PROVE ColumnsExact
  <2>1. ASSUME NEW t \in Thread, realm[t].pc \in {"cache", "begin", "recheck", "apply"}
        PROVE  /\ realm[t].schema = S(realm[t].at)
               /\ realm[t].pc = "apply" => realm[t].changes = Compare(S(Latest), Goal(t))
    <3>1. SchemaOK(t) /\ PlaceOK(t) /\ WriterOK(t)
      BY <1>1 DEF IInv, ThreadInv
    <3>2. CASE realm[t].pc \in {"cache", "begin", "apply"}
      <4>1. realm[t].at = realm[t].known /\ realm[t].schema = S(realm[t].known)
        BY <3>1, <3>2 DEF SchemaOK, PlaceOK
      <4>2. realm[t].pc = "apply" => /\ realm[t].at = Latest
                                     /\ realm[t].changes = Compare(S(realm[t].at), Goal(t))
        BY <3>1 DEF SchemaOK, WriterOK, Holding
      <4> QED BY <4>1, <4>2
    <3>3. CASE realm[t].pc = "recheck"
      BY <3>1, <3>3 DEF SchemaOK
    <3> QED BY <2>1, <3>2, <3>3
  <2>2. ASSUME NEW p \in Process, coord[p].schema # Null, ~Clearing(p),
               NEW v \in coord[p].min .. coord[p].max
        PROVE  v <= Latest /\ S(v) = coord[p].schema
    <3>1. CacheOK(p) /\ CachedOK(p) /\ coord[p].min \in Nat /\ coord[p].max \in Nat /\ Latest \in Nat
      BY <1>1, LogTypes DEF IInv, CacheInv, TypeOK, Cache
    <3> QED BY <2>2, <3>1 DEF CacheOK, CachedOK
  <2> QED BY <2>1, <2>2 DEF ColumnsExact, S, Goal
<1> QED BY <1>1, Inductive, PTL

-----------------------------------------------------------------------------
(* Schema versions.  What the code says of them holds if they can be seen  *)
(* in the columns (VersionsShow).                                          *)

\* Versions grow, and a file of a version has what a program of it wants and only what
\* programs, or first files, up to that version have.
LogVersions ==
  /\ \A i, j \in 1 .. Latest : i <= j => Ver(i) = NotVersioned \/ Ver(i) <= Ver(j)
  /\ \A v \in 1 .. Latest : \A c \in S(v) : \E b \in Targets \cup FirstFiles :
       c \in b.schema /\ (b.version = NotVersioned \/ b.version <= Ver(v))
  /\ \A v \in 1 .. Latest : \/ Ver(v) = Ver(1)
                            \/ \E a \in Targets : a.version = Ver(v) /\ a.schema \subseteq S(v)
  /\ log[1] \in FirstFiles

\* A Realm has the schema version that goes with its schema, and the program is not too
\* old for what is to be applied.
VersionOK(t) == LET r == realm[t]
                    wanted == target[P(t)].version IN
  /\ Settled(t) \/ r.pc = "cache" => r.version = Ver(IF r.new = Null THEN r.known ELSE r.at)
  /\ r.pc \in {"begin", "apply"} \/ (r.pc = "recheck" /\ r.new = Null) =>
       ~TooOld(r.version, wanted)
  /\ r.pc \in {"applied", "clear"} => Ver(r.at) = wanted
  /\ r.pc \in {"closed", "construct", "align", "update"} => r.at = 0

CacheVersionOK(p) ==
  coord[p].schema # Null /\ ~Clearing(p) => coord[p].version = Ver(coord[p].max)

VInv == /\ LogVersions
        /\ \A t \in Thread : VersionOK(t)
        /\ \A p \in Process : CacheVersionOK(p)

\* One schema, one schema version.
LEMMA OneVersion ==
  ASSUME VersionsShow, TypeOK, LogInv, LogVersions,
         NEW i \in 1 .. Latest, NEW j \in 1 .. Latest, S(i) = S(j)
  PROVE  Ver(i) = Ver(j)
<1>1. Latest \in Nat /\ \A v \in 1 .. Latest : Ver(v) \in Nat
  BY LogTypes
<1>2. ASSUME NEW k \in 1 .. Latest, NEW m \in 1 .. Latest, k <= m, S(k) = S(m), Ver(k) # Ver(m)
      PROVE  FALSE
  <2>1. Ver(k) = NotVersioned \/ Ver(k) < Ver(m)
    BY <1>1, <1>2 DEF LogVersions
  <2>2. Ver(1) = NotVersioned \/ Ver(1) <= Ver(k)
    <3>1. 1 \in 1 .. Latest /\ 1 <= k
      BY <1>1
    <3> QED BY <3>1 DEF LogVersions
  <2>3. Ver(k) = NotVersioned => k = 1
    BY <1>1 DEF LogInv
  <2>4. m # 1 /\ Ver(m) # NotVersioned
    BY <1>1, <1>2 DEF LogInv
  <2>5. Ver(m) # Ver(1)
    BY <1>1, <1>2, <2>1, <2>2, <2>3, <2>4
  <2>6. PICK a \in Targets : a.version = Ver(m) /\ a.schema \subseteq S(m)
    BY <2>5 DEF LogVersions
  <2>7. PICK c \in a.schema : \A b \in Targets \cup FirstFiles :
          b.version < a.version \/ b.version = NotVersioned => c \notin b.schema
    BY DEF VersionsShow
  <2>8. c \in S(k)
    BY <1>2, <2>6, <2>7
  <2>9. CASE Ver(k) = NotVersioned
    <3>1. log[1] \in FirstFiles /\ log[1].version = NotVersioned /\ c \in log[1].schema
      BY <2>3, <2>8, <2>9 DEF LogVersions, S, Ver
    <3> QED BY <2>7, <3>1
  <2>10. CASE Ver(k) < Ver(m)
    <3>1. PICK b \in Targets \cup FirstFiles :
            c \in b.schema /\ (b.version = NotVersioned \/ b.version <= Ver(k))
      BY <2>8 DEF LogVersions
    <3>2. b.version \in Nat
      BY RealmOpenAssumption DEF Contents
    <3>3. b.version < a.version \/ b.version = NotVersioned
      BY <1>1, <2>6, <2>10, <3>1, <3>2
    <3> QED BY <2>7, <3>1, <3>3
  <2> QED BY <2>1, <2>9, <2>10
<1>3. CASE i <= j
  BY <1>2, <1>3
<1>4. CASE j <= i
  BY <1>2, <1>4
<1> QED BY <1>1, <1>3, <1>4

\* The version at the end of a stretch that is the same.
LEMMA SameVersion ==
  ASSUME VersionsShow, TypeOK, LogInv, LogVersions,
         NEW i \in 1 .. Latest, NEW j \in 1 .. Latest, i <= j, Same(i, j)
  PROVE  Ver(i) = Ver(j)
<1>1. S(i) = S(j)
  BY DEF Same
<1> QED BY <1>1, OneVersion

\* The Realm of a thread that does not move has its version as before.
LEMMA VersionStays ==
  ASSUME IInv, Grown, target' = target, NEW t \in Thread, realm'[t] = realm[t], VersionOK(t)
  PROVE  VersionOK(t)'
<1>1. /\ PlaceOK(t) /\ NewOK(t) /\ realm[t].known \in Nat /\ realm[t].at \in Nat /\ TypeOK
  BY Facts DEF ThreadInv
<1>2. \A i \in 1 .. Latest : log'[i] = log[i]
  BY DEF Grown
<1>3. PICK v : v = IF realm[t].new = Null THEN realm[t].known ELSE realm[t].at
  OBVIOUS
<1>4. Settled(t) \/ realm[t].pc = "cache" => v \in 1 .. Latest
  <2>1. Settled(t) \/ realm[t].pc = "cache" => realm[t].known \in 1 .. Latest
    BY <1>1, LogTypes DEF PlaceOK, Settled, Using, Opening
  <2>2. (Settled(t) \/ realm[t].pc = "cache") /\ realm[t].new # Null => realm[t].at \in 1 .. Latest
    BY <1>1, LogTypes DEF PlaceOK, NewOK, Settled, Using, Opening, Moving
  <2> QED BY <1>3, <2>1, <2>2
<1>5. realm[t].pc \in {"applied", "clear"} => realm[t].at \in 1 .. Latest
  BY <1>1, LogTypes DEF PlaceOK, Opening
<1>6. (Settled(t)' <=> Settled(t)) /\ target'[P(t)'] = target[P(t)]
  BY DEF Settled, P
<1>7. Settled(t)' \/ realm[t].pc = "cache" => realm[t].version = log'[v].version
  BY <1>2, <1>3, <1>4, <1>6 DEF VersionOK, Ver
<1>8. realm[t].pc \in {"applied", "clear"} => log'[realm[t].at].version = target[P(t)].version
  BY <1>2, <1>5 DEF VersionOK, Ver
<1>9. ~TooOld(realm[t].version, target'[P(t)'].version)
        <=> ~TooOld(realm[t].version, target[P(t)].version)
  BY <1>6
<1> QED BY <1>3, <1>6, <1>7, <1>8, <1>9 DEF VersionOK, Ver

LEMMA LogVersionsStay == ASSUME LogVersions, log' = log PROVE LogVersions'
<1>1. Latest' = Latest /\ \A v : S(v)' = S(v) /\ Ver(v)' = Ver(v)
  BY DEF Latest, S, Ver
<1> QED BY <1>1 DEF LogVersions

LEMMA VersionsAppend ==
  ASSUME IInv, LogVersions, NEW e \in Contents, log' = Append(log, e),
         Ver(Latest) = NotVersioned \/ Ver(Latest) <= e.version,
         \A c \in e.schema : \E b \in Targets \cup FirstFiles :
           c \in b.schema /\ (b.version = NotVersioned \/ b.version <= e.version),
         e.version = Ver(1) \/ \E a \in Targets : a.version = e.version /\ a.schema \subseteq e.schema
  PROVE  LogVersions'
<1>1. /\ TypeOK /\ LogInv /\ Latest \in Nat /\ Latest >= 1 /\ e.version \in Nat
      /\ Latest \in 1 .. Latest /\ 1 \in 1 .. Latest /\ \A v \in 1 .. Latest : Ver(v) \in Nat
  BY Facts, LogTypes DEF IInv, Contents
<1>2. /\ Latest' = Latest + 1 /\ log'[Latest + 1] = e
      /\ \A v \in 1 .. Latest : log'[v] = log[v]
  BY <1>1 DEF Latest, TypeOK
<1>3. \A v \in 1 .. (Latest + 1) : v \in 1 .. Latest \/ v = Latest + 1
  BY <1>1
<1>a. \A v \in 1 .. Latest : log'[v].version = Ver(v)
  BY <1>2 DEF Ver
<1>4. ASSUME NEW i \in 1 .. (Latest + 1), NEW j \in 1 .. (Latest + 1), i <= j
      PROVE  log'[i].version = NotVersioned \/ log'[i].version <= log'[j].version
  <2>1. CASE i \in 1 .. Latest /\ j \in 1 .. Latest
    <3>1. Ver(i) = NotVersioned \/ Ver(i) <= Ver(j)
      BY <1>4, <2>1 DEF LogVersions
    <3> QED BY <1>a, <2>1, <3>1
  <2>2. CASE i \in 1 .. Latest /\ j = Latest + 1
    <3>1. Ver(i) = NotVersioned \/ Ver(i) <= Ver(Latest)
      BY <1>1, <2>2 DEF LogVersions
    <3>2. Ver(i) = NotVersioned \/ Ver(Latest) # NotVersioned
      BY <1>1, <2>2 DEF LogInv
    <3>3. log'[i].version = Ver(i) /\ log'[j].version = e.version
      BY <1>a, <1>2, <2>2
    <3>4. Ver(i) \in Nat /\ Ver(Latest) \in Nat
      BY <1>1, <2>2
    <3> QED BY <1>1, <3>1, <3>2, <3>3, <3>4
  <2>3. CASE i = Latest + 1 /\ j = Latest + 1
    <3>1. log'[i].version = e.version /\ log'[j].version = e.version
      BY <1>2, <2>3
    <3> QED BY <1>1, <3>1
  <2>4. CASE i = Latest + 1 /\ j \in 1 .. Latest
    BY <1>1, <1>4, <2>4
  <2> QED BY <1>3, <2>1, <2>2, <2>3, <2>4
<1>5. ASSUME NEW v \in 1 .. (Latest + 1), NEW c \in log'[v].schema
      PROVE  \E b \in Targets \cup FirstFiles :
               c \in b.schema /\ (b.version = NotVersioned \/ b.version <= log'[v].version)
  <2>1. CASE v \in 1 .. Latest
    BY <1>2, <1>5, <2>1 DEF LogVersions, S, Ver
  <2>2. CASE v = Latest + 1
    BY <1>2, <1>5, <2>2
  <2> QED BY <1>3, <2>1, <2>2
<1>6. ASSUME NEW v \in 1 .. (Latest + 1)
      PROVE  \/ log'[v].version = log'[1].version
             \/ \E a \in Targets : a.version = log'[v].version /\ a.schema \subseteq log'[v].schema
  <2>1. CASE v \in 1 .. Latest
    BY <1>1, <1>2, <2>1 DEF LogVersions, S, Ver
  <2>2. CASE v = Latest + 1
    BY <1>1, <1>2, <2>2 DEF Ver
  <2> QED BY <1>3, <2>1, <2>2
<1>7. log'[1] \in FirstFiles
  BY <1>1, <1>2 DEF LogVersions
<1> QED BY <1>2, <1>4, <1>5, <1>6, <1>7 DEF LogVersions, S, Ver

LEMMA CommitVersions ==
  ASSUME IInv, VInv, NEW t \in Thread, Commit(t)
  PROVE  LogVersions'
<1> DEFINE e == log[Latest]
<1>1. /\ TypeOK /\ LogVersions /\ Latest \in 1 .. Latest /\ e \in Contents /\ Ver(Latest) \in Nat
      /\ e.version = Ver(Latest) /\ e.schema = S(Latest)
  BY Facts, LogTypes DEF VInv, S, Ver
<1>2. log' = Append(log, e)
  BY DEF Commit
<1> HIDE DEF e
<1>3. e.version <= e.version
  BY <1>1
<1>4. \A c \in e.schema : \E b \in Targets \cup FirstFiles :
           c \in b.schema /\ (b.version = NotVersioned \/ b.version <= e.version)
  BY <1>1 DEF LogVersions
<1>5. e.version = Ver(1) \/ \E a \in Targets : a.version = e.version /\ a.schema \subseteq e.schema
  BY <1>1 DEF LogVersions
<1> QED BY <1>1, <1>2, <1>3, <1>4, <1>5, VersionsAppend

\* What Apply adds to the log.
LEMMA ApplyAdds ==
  ASSUME IInv, VInv, NEW t \in Thread, Apply(t), log' # log
  PROVE  \E e \in Contents :
           /\ log' = Append(log, e) /\ e.version = target[P(t)].version
           /\ Goal(t) \subseteq e.schema /\ e.schema \subseteq S(Latest) \cup Goal(t)
           /\ Ver(Latest) = NotVersioned \/ Ver(Latest) <= e.version
<1> DEFINE e == [schema |-> Applied(log[Latest].schema, realm[t].changes),
                 version |-> target[P(t)].version]
<1>1. /\ TypeOK /\ ThreadInv(t) /\ VersionOK(t) /\ Latest \in 1 .. Latest /\ Latest \in Nat
      /\ S(Latest) \in SUBSET Column /\ Goal(t) \in SUBSET Column
      /\ target[P(t)].version \in Nat /\ Ver(Latest) \in Nat
  BY Facts, Types, LogTypes DEF VInv
<1>2. realm[t].pc = "apply" /\ log' = Append(log, e)
  BY DEF Apply, At
<1>3. /\ realm[t].known = Latest /\ realm[t].new = Null
      /\ realm[t].changes = Compare(S(Latest), Goal(t))
  BY <1>1, <1>2 DEF ThreadInv, SchemaOK, PlaceOK, NewOK, WriterOK, Moving, Holding
<1>4. realm[t].version = Ver(Latest) /\ ~TooOld(Ver(Latest), target[P(t)].version)
  BY <1>1, <1>2, <1>3 DEF VersionOK, Settled
<1>5. e.schema = Applied(S(Latest), Compare(S(Latest), Goal(t))) /\ e.version = target[P(t)].version
  BY <1>3 DEF S
<1>6. e.schema \in SUBSET Column /\ Goal(t) \subseteq e.schema
  BY <1>1, <1>5, AppliedIs
<1>7. e \in Contents
  BY <1>1, <1>6 DEF Contents
<1> HIDE DEF e
<1>8. e.schema \subseteq S(Latest) \cup Goal(t)
  BY <1>5 DEF Applied, Compare
<1>9. Ver(Latest) = NotVersioned \/ Ver(Latest) <= e.version
  BY <1>1, <1>4, <1>5 DEF TooOld
<1> QED BY <1>2, <1>5, <1>6, <1>7, <1>8, <1>9

LEMMA ApplyVersions ==
  ASSUME IInv, VInv, NEW t \in Thread, Apply(t), log' # log
  PROVE  LogVersions'
<1>1. PICK e \in Contents :
           /\ log' = Append(log, e) /\ e.version = target[P(t)].version
           /\ Goal(t) \subseteq e.schema /\ e.schema \subseteq S(Latest) \cup Goal(t)
           /\ Ver(Latest) = NotVersioned \/ Ver(Latest) <= e.version
  BY ApplyAdds
<1>2. /\ TypeOK /\ LogInv /\ LogVersions /\ Latest \in 1 .. Latest /\ Latest \in Nat
      /\ target[P(t)] \in Targets /\ target[P(t)].version \in Nat /\ Ver(Latest) \in Nat
  BY Facts, Types, LogTypes DEF VInv
<1>3. ASSUME NEW c \in e.schema
      PROVE  \E b \in Targets \cup FirstFiles :
               c \in b.schema /\ (b.version = NotVersioned \/ b.version <= e.version)
  <2>1. CASE c \in Goal(t)
    BY <1>1, <1>2, <2>1 DEF Goal
  <2>2. CASE c \in S(Latest) /\ Ver(Latest) = NotVersioned
    <3>1. Latest = 1
      BY <1>2, <2>2 DEF LogInv
    <3>2. log[1] \in FirstFiles /\ c \in log[1].schema /\ log[1].version = NotVersioned
      BY <1>2, <2>2, <3>1 DEF LogVersions, S, Ver
    <3> QED BY <3>2
  <2>3. CASE c \in S(Latest) /\ Ver(Latest) # NotVersioned
    <3>1. PICK b \in Targets \cup FirstFiles :
            c \in b.schema /\ (b.version = NotVersioned \/ b.version <= Ver(Latest))
      BY <1>2, <2>3 DEF LogVersions
    <3>2. b.version \in Nat
      BY RealmOpenAssumption DEF Contents
    <3> QED BY <1>1, <1>2, <2>3, <3>1, <3>2
  <2> QED BY <1>1, <2>1, <2>2, <2>3
<1>4. target[P(t)].version = e.version /\ target[P(t)].schema \subseteq e.schema
  BY <1>1 DEF Goal
<1> QED BY <1>1, <1>2, <1>3, <1>4, VersionsAppend

LEMMA SetIs ==
  ASSUME IInv, NEW t \in Thread, NEW r, Set(t, r)
  PROVE  realm'[t] = r /\ \A u \in Thread \ {t} : realm'[u] = realm[u]
  BY DEF IInv, TypeOK, Set

LEMMA VersionFits ==
  ASSUME log' = log, target' = target, NEW t \in Thread, NEW r, realm'[t] = r,
         NEW v, v = (IF r.new = Null THEN r.known ELSE r.at),
         r.pc \in Using \cup {"cache", "align", "update", "begin", "recheck", "apply", "applied"} =>
           r.version = Ver(v),
         r.pc \in {"begin", "apply"} \/ (r.pc = "recheck" /\ r.new = Null) =>
           ~TooOld(r.version, target[P(t)].version),
         r.pc \in {"applied", "clear"} => Ver(r.at) = target[P(t)].version,
         r.pc \in {"closed", "construct", "align", "update"} => r.at = 0
  PROVE  VersionOK(t)'
<1>1. P(t)' = P(t) /\ Ver(v)' = Ver(v) /\ Ver(r.at)' = Ver(r.at)
  BY DEF P, Ver
<1>2. Settled(t)' <=> r.pc \in Using \cup {"align", "update", "begin", "recheck", "apply", "applied"}
  BY DEF Settled
<1>3. Settled(t)' \/ r.pc = "cache" => r.version = log[v].version
  BY <1>2 DEF Ver
<1>4. r.pc \in {"applied", "clear"} => log[r.at].version = target[P(t)].version
  BY DEF Ver
<1> QED BY <1>1, <1>3, <1>4 DEF VersionOK, Ver

\* The version of what a Realm reads, once it has moved or committed.
LEMMA VersionRead ==
  ASSUME VersionsShow, IInv, VInv, NEW t \in Thread, realm[t].pc \in Moving \cup {"committed"}
  PROVE  realm[t].at \in 1 .. Latest /\ realm[t].version = Ver(realm[t].at)
<1>1. /\ TypeOK /\ LogInv /\ LogVersions /\ VersionOK(t) /\ ThreadInv(t) /\ Latest \in Nat
      /\ realm[t].known \in Nat /\ realm[t].at \in Nat
  BY Facts DEF VInv
<1>2. realm[t].known \in 1 .. Latest /\ realm[t].at \in 1 .. Latest /\ realm[t].known <= realm[t].at
  BY <1>1 DEF ThreadInv, PlaceOK, Moving, Using, Opening
<1>3. realm[t].new = Null => realm[t].version = Ver(realm[t].known)
  BY <1>1 DEF VersionOK, Settled, Moving, Using
<1>4. CASE realm[t].pc = "committed"
  <2>1. realm[t].new = Null /\ S(realm[t].at) = S(realm[t].known)
    BY <1>1, <1>4 DEF ThreadInv, NewOK, SchemaOK, Moving
  <2> QED BY <1>1, <1>2, <1>3, <2>1, OneVersion
<1>5. CASE realm[t].new = Null /\ realm[t].pc \in Moving
  <2>1. S(realm[t].at) # Null
    BY <1>1, <1>2, LogTypes, RealmOpenAssumption
  <2>2. Same(realm[t].known, realm[t].at)
    BY <1>1, <1>5, <2>1 DEF ThreadInv, NewOK
  <2> QED BY <1>1, <1>2, <1>3, <1>5, <2>2, SameVersion
<1>6. CASE realm[t].new # Null /\ realm[t].pc \in Moving
  BY <1>1, <1>2, <1>6 DEF ThreadInv, NewOK
<1> QED BY <1>4, <1>5, <1>6

LEMMA VersionSettled ==
  ASSUME IInv, VInv, NEW t \in Thread, Settled(t) \/ realm[t].pc = "cache", realm[t].new = Null
  PROVE  realm[t].known \in 1 .. Latest /\ realm[t].version = Ver(realm[t].known)
<1>1. VersionOK(t) /\ PlaceOK(t) /\ realm[t].known \in Nat /\ Latest \in Nat
  BY Facts DEF VInv, ThreadInv
<1> QED BY <1>1 DEF VersionOK, PlaceOK, Settled, Using, Opening

\* A read transaction begins with the schema version of the latest version.
LEMMA VersionBegins ==
  ASSUME IInv, VInv, NEW t \in Thread, Settled(t) \/ realm[t].pc = "construct", realm[t].new = Null
  PROVE  BeginRead(realm[t]).version = Ver(Latest)
<1>1. CASE realm[t].known = Latest
  <2>1. realm[t].pc # "construct"
    BY <1>1, Facts DEF ThreadInv, PlaceOK
  <2> QED BY <1>1, <2>1, VersionSettled, Begins
<1>2. CASE realm[t].known # Latest
  BY <1>2, Begins
<1> QED BY <1>1, <1>2

-----------------------------------------------------------------------------
LEMMA ConstructVersion ==
  ASSUME IInv, VInv, NEW t \in Thread, Construct(t)
  PROVE  VersionOK(t)'
<1> DEFINE c == coord[P(t)]
           r == [realm[t] EXCEPT !.pc = "align", !.schema = c.schema,
                                 !.version = c.version, !.known = c.max]
           n == BeginRead(realm[t])
           b == [n EXCEPT !.pc = "cache"]
<1>1. /\ realm[t] \in Realm /\ c \in Cache /\ ThreadInv(t) /\ VersionOK(t) /\ P(t) \in Process
  BY Facts DEF VInv
<1>2. /\ realm[t].pc = "construct" /\ log' = log /\ target' = target
      /\ \/ c.schema # Null /\ Set(t, r)
         \/ c.schema = Null /\ Set(t, b)
  BY DEF Construct, At
<1>3. realm[t].new = Null /\ realm[t].at = 0
  BY <1>1, <1>2 DEF ThreadInv, NewOK, VersionOK, Moving
<1>4. CASE c.schema # Null /\ Set(t, r)
  <2>1. c.version = Ver(c.max)
    BY <1>1, <1>2, <1>4, NotClearing DEF VInv, CacheVersionOK
  <2>2. r.pc = "align" /\ r.version = c.version /\ r.known = c.max /\ r.new = Null /\ r.at = 0
    <3> HIDE DEF c
    <3> QED BY <1>1, <1>3 DEF Realm
  <2>3. realm'[t] = r
    <3> HIDE DEF r
    <3> QED BY <1>4, SetIs
  <2> HIDE DEF r, c
  <2>4. r.known = (IF r.new = Null THEN r.known ELSE r.at)
    BY <2>2
  <2> QED BY <1>2, <2>1, <2>2, <2>3, <2>4, VersionFits
<1>5. CASE Set(t, b)
  <2>1. n \in Realm /\ n.known = Latest /\ n.new = Null /\ n.version = Ver(Latest)
    BY <1>2, <1>3, Begins, VersionBegins
  <2>2. b.pc = "cache" /\ b.version = Ver(Latest) /\ b.known = Latest /\ b.new = Null
    <3> HIDE DEF n
    <3> QED BY <2>1 DEF Realm
  <2>3. realm'[t] = b
    <3> HIDE DEF b
    <3> QED BY <1>5, SetIs
  <2> HIDE DEF b, n
  <2>4. b.known = (IF b.new = Null THEN b.known ELSE b.at)
    BY <2>2
  <2> QED BY <1>2, <2>2, <2>3, <2>4, VersionFits
<1> QED BY <1>2, <1>4, <1>5

\* A step that leaves a Realm as it is, but for what its thread does next.
LEMMA SameRealmVersion ==
  ASSUME IInv, VInv, NEW t \in Thread, log' = log, target' = target, NEW r, realm'[t] = r,
         Settled(t) \/ realm[t].pc = "cache", realm[t].new = Null, r.new = Null,
         r.known = realm[t].known, r.version = realm[t].version,
         r.pc \in {"align", "update"} => r.at = 0,
         r.pc \in Using \cup {"align", "update", "failed"}
  PROVE  VersionOK(t)'
<1>1. realm[t].version = Ver(realm[t].known)
  BY VersionSettled
<1>2. r.known = (IF r.new = Null THEN r.known ELSE r.at)
  OBVIOUS
<1> QED BY <1>1, <1>2, VersionFits DEF Using

LEMMA FailedVersion ==
  ASSUME log' = log, target' = target, NEW t \in Thread, realm'[t].pc = "failed"
  PROVE  VersionOK(t)'
  BY DEF VersionOK, Settled, Using

LEMMA AlignVersion ==
  ASSUME IInv, VInv, NEW t \in Thread, CacheFirst(t) \/ Align(t)
  PROVE  VersionOK(t)'
<1>1. /\ realm[t] \in Realm /\ ThreadInv(t) /\ VersionOK(t)
  BY Facts DEF VInv
<1>2. realm[t].pc \in {"cache", "align"} /\ log' = log /\ target' = target
  BY DEF CacheFirst, Align, At
<1>3. realm[t].new = Null /\ (realm[t].pc = "align" => realm[t].at = 0)
  BY <1>1, <1>2 DEF ThreadInv, NewOK, VersionOK, Moving
<1>4. /\ realm'[t].pc \in {"align", "update", "open", "failed"}
      /\ realm'[t].new = Null /\ realm'[t].known = realm[t].known
      /\ realm'[t].version = realm[t].version
      /\ realm'[t].pc \in {"align", "update"} => realm'[t].at = 0
  <2>1. CASE CacheFirst(t)
    <3>1. realm'[t] = [realm[t] EXCEPT !.pc = "align", !.at = 0]
      BY <2>1, SetIs DEF CacheFirst
    <3> QED BY <1>1, <1>3, <3>1 DEF Realm
  <2>2. CASE Align(t)
    <3>1. CASE Set(t, [realm[t] EXCEPT !.pc = "update"])
      <4>1. realm'[t] = [realm[t] EXCEPT !.pc = "update"]
        BY <3>1, SetIs
      <4>2. realm[t].at = 0
        BY <1>3, <2>2 DEF Align, At
      <4> QED BY <1>1, <1>3, <4>1, <4>2 DEF Realm
    <3>2. CASE Failed(t, realm[t])
      <4>1. realm'[t] = [realm[t] EXCEPT !.pc = "failed"]
        BY <3>2, SetIs DEF Failed
      <4> QED BY <1>1, <1>3, <4>1 DEF Realm
    <3>3. CASE \E u \in Thread :
                 Opened(t, [realm[t] EXCEPT !.schema = realm[u].schema, !.dynamic = FALSE])
      <4>1. PICK u \in Thread :
                 Opened(t, [realm[t] EXCEPT !.schema = realm[u].schema, !.dynamic = FALSE])
        BY <3>3
      <4>2. realm'[t] = [[realm[t] EXCEPT !.schema = realm[u].schema, !.dynamic = FALSE]
                           EXCEPT !.pc = "open", !.at = 0, !.changes = Null]
        BY <4>1, SetIs DEF Opened
      <4> QED BY <1>1, <1>3, <4>2 DEF Realm
    <3> QED BY <2>2, <3>1, <3>2, <3>3 DEF Align, InUse
  <2> QED BY <2>1, <2>2
<1>5. Settled(t) \/ realm[t].pc = "cache"
  BY <1>2 DEF Settled
<1> QED BY <1>2, <1>3, <1>4, <1>5, SameRealmVersion DEF Using

LEMMA ReadSchemaVersion ==
  ASSUME IInv, VInv, NEW t \in Thread, ReadSchema(t)
  PROVE  VersionOK(t)'
<1> DEFINE n == BeginRead(realm[t])
           goal == target[P(t)]
           ch == Compare(n.schema, goal.schema)
           b == [n EXCEPT !.pc = "begin", !.changes = ch]
           o == [[n EXCEPT !.schema = goal.schema, !.dynamic = FALSE]
                   EXCEPT !.pc = "open", !.at = 0, !.changes = Null]
<1>1. realm[t] \in Realm /\ ThreadInv(t)
  BY Facts
<1>2. /\ realm[t].pc = "update" /\ log' = log /\ target' = target
      /\ \/ Set(t, [n EXCEPT !.pc = "failed"])
         \/ ~TooOld(n.version, goal.version) /\ Set(t, b)
         \/ Set(t, o)
  <2>1. CASE TooOld(n.version, goal.version)
    BY <2>1 DEF ReadSchema, Failed, At
  <2>2. CASE NeedsWrite(n.version, goal.version, ch) /\ ~TooOld(n.version, goal.version)
    BY <2>2 DEF ReadSchema, At
  <2>3. CASE ~NeedsWrite(n.version, goal.version, ch) /\ ~TooOld(n.version, goal.version)
    BY <2>3 DEF ReadSchema, Opened, At
  <2> QED BY <2>1, <2>2, <2>3
<1>3. realm[t].new = Null /\ Settled(t)
  BY <1>1, <1>2 DEF ThreadInv, NewOK, Moving, Settled
<1>4. n \in Realm /\ n.known = Latest /\ n.new = Null /\ n.version = Ver(Latest)
  BY <1>3, Begins, VersionBegins
<1> HIDE DEF n, ch
<1>5. CASE Set(t, [n EXCEPT !.pc = "failed"])
  <2>1. realm'[t] = [n EXCEPT !.pc = "failed"]
    BY <1>5, SetIs
  <2> QED BY <1>2, <1>4, <2>1, FailedVersion DEF Realm
<1>6. CASE ~TooOld(n.version, goal.version) /\ Set(t, b)
  <2>1. b.pc = "begin" /\ b.version = Ver(Latest) /\ b.known = Latest /\ b.new = Null
    BY <1>4 DEF Realm
  <2>2. realm'[t] = b
    <3> HIDE DEF b
    <3> QED BY <1>6, SetIs
  <2> HIDE DEF b
  <2>3. b.known = (IF b.new = Null THEN b.known ELSE b.at)
    BY <2>1
  <2> QED BY <1>2, <1>4, <1>6, <2>1, <2>2, <2>3, VersionFits
<1>7. CASE Set(t, o)
  <2>1. o.pc = "open" /\ o.version = Ver(Latest) /\ o.known = Latest /\ o.new = Null
    <3> HIDE DEF goal
    <3> QED BY <1>4 DEF Realm
  <2>2. realm'[t] = o
    <3> HIDE DEF o
    <3> QED BY <1>7, SetIs
  <2> HIDE DEF o
  <2>3. o.known = (IF o.new = Null THEN o.known ELSE o.at)
    BY <2>1
  <2> QED BY <1>2, <2>1, <2>2, <2>3, VersionFits
<1> QED BY <1>2, <1>5, <1>6, <1>7

\* A move to the latest version.
LEMMA AdvanceVersion ==
  ASSUME IInv, VInv, NEW t \in Thread, Settled(t), realm[t].new = Null,
         realm[t].at = realm[t].known, log' = log, target' = target,
         NEW pc \in {"recheck", "begun", "refreshed"},
         Set(t, [Advance(realm[t]) EXCEPT !.pc = pc]),
         pc = "recheck" => realm[t].pc = "begin"
  PROVE  VersionOK(t)'
<1> DEFINE n == Advance(realm[t])
           r == [n EXCEPT !.pc = pc]
<1>1. /\ realm[t].known \in 1 .. Latest /\ realm[t].version = Ver(realm[t].known)
      /\ VersionOK(t) /\ LogInv /\ TypeOK /\ Latest \in 1 .. Latest
  BY VersionSettled, Facts DEF VInv
<1>2. /\ n \in Realm /\ n.at = Latest /\ n.known = realm[t].known
      /\ \/ n.new = Null /\ n.version = realm[t].version
         \/ n.new = S(Latest) /\ n.version = Ver(Latest)
  BY <1>1, Advances
<1>3. S(Latest) # Null
  BY <1>1, LogTypes, RealmOpenAssumption
<1> HIDE DEF n
<1>4. r.pc = pc /\ r.at = Latest /\ r.known = realm[t].known /\ r.new = n.new /\ r.version = n.version
  BY <1>2 DEF Realm
<1>5. realm'[t] = r
  <2> HIDE DEF r
  <2> QED BY SetIs DEF r, n
<1> HIDE DEF r
<1>6. PICK v : v = IF r.new = Null THEN r.known ELSE r.at
  OBVIOUS
<1>7. r.version = Ver(v)
  BY <1>1, <1>2, <1>3, <1>4, <1>6
<1>8. r.pc = "recheck" /\ r.new = Null => ~TooOld(r.version, target[P(t)].version)
  BY <1>1, <1>2, <1>3, <1>4 DEF VersionOK
<1>9. /\ r.pc \notin {"begin", "apply", "applied", "clear", "closed", "construct", "align", "update"}
      /\ r.pc \in {"begin", "apply"} \/ (r.pc = "recheck" /\ r.new = Null) =>
           ~TooOld(r.version, target[P(t)].version)
  BY <1>4, <1>8
<1>a. /\ r.pc \in {"applied", "clear"} => Ver(r.at) = target[P(t)].version
      /\ r.pc \in {"closed", "construct", "align", "update"} => r.at = 0
  BY <1>9
<1> QED BY <1>5, <1>6, <1>7, <1>9, <1>a, VersionFits

LEMMA BeginWriteVersion ==
  ASSUME IInv, VInv, NEW t \in Thread, BeginWrite(t) \/ Promote(t) \/ Refresh(t)
  PROVE  VersionOK(t)'
<1>1. realm[t] \in Realm /\ ThreadInv(t)
  BY Facts
<1>2. realm[t].pc \in {"begin", "promote", "open"} /\ log' = log /\ target' = target
  BY DEF BeginWrite, Promote, Refresh, At
<1>3. realm[t].new = Null /\ Settled(t)
  BY <1>1, <1>2 DEF ThreadInv, NewOK, Moving, Settled, Using
<1>4. realm[t].pc # "open" \/ realm[t].at # 0 => realm[t].at = realm[t].known
  BY <1>1, <1>2 DEF ThreadInv, PlaceOK
<1>5. CASE Fails(t)
  <2>1. realm'[t] = [realm[t] EXCEPT !.pc = "failed"]
    BY <1>5, SetIs DEF Fails
  <2> QED BY <1>1, <1>2, <2>1, FailedVersion DEF Realm
<1>6. CASE BeginWrite(t)
  BY <1>2, <1>3, <1>4, <1>6, AdvanceVersion DEF BeginWrite, At
<1>7. CASE Promote(t) /\ Set(t, [Advance(realm[t]) EXCEPT !.pc = "begun"])
  BY <1>2, <1>3, <1>4, <1>7, AdvanceVersion DEF Promote, At
<1>8. CASE Refresh(t) /\ Set(t, [Advance(realm[t]) EXCEPT !.pc = "refreshed"])
  <2>1. realm[t].at # 0
    BY <1>8 DEF Refresh
  <2>2. realm[t].at = realm[t].known /\ Set(t, [Advance(realm[t]) EXCEPT !.pc = "refreshed"])
    BY <1>4, <1>8, <2>1
  <2> QED BY <1>2, <1>3, <2>2, AdvanceVersion
<1>9. Promote(t) => Fails(t) \/ Set(t, [Advance(realm[t]) EXCEPT !.pc = "begun"])
  BY DEF Promote
<1>10. Refresh(t) => Fails(t) \/ Set(t, [Advance(realm[t]) EXCEPT !.pc = "refreshed"])
  BY DEF Refresh
<1> QED BY <1>5, <1>6, <1>7, <1>8, <1>9, <1>10

LEMMA RecheckVersion ==
  ASSUME VersionsShow, IInv, VInv, NEW t \in Thread, Recheck(t)
  PROVE  VersionOK(t)'
<1> DEFINE n == CacheNew(realm[t])
           goal == target[P(t)]
           ch == IF realm[t].new = Null THEN realm[t].changes ELSE Compare(realm[t].new, goal.schema)
           a == [n EXCEPT !.pc = "apply", !.changes = ch]
           o == [[n EXCEPT !.schema = goal.schema, !.dynamic = FALSE]
                   EXCEPT !.pc = "open", !.at = 0, !.changes = Null]
<1>1. realm[t] \in Realm /\ VersionOK(t)
  BY Facts DEF VInv
<1>2. /\ realm[t].pc = "recheck" /\ log' = log /\ target' = target
      /\ \/ Set(t, [realm[t] EXCEPT !.pc = "failed"])
         \/ Set(t, o)
         \/ Set(t, a) /\ (realm[t].new # Null => ~TooOld(realm[t].version, goal.version))
  BY DEF Recheck, Failed, Opened, At
<1>3. realm[t].version = Ver(realm[t].at)
  BY <1>2, VersionRead DEF Moving
<1>4. /\ n \in Realm /\ n.known = realm[t].at /\ n.new = Null /\ n.at = realm[t].at
      /\ n.version = realm[t].version
  BY <1>1, CacheNewIs
<1> HIDE DEF n, ch
<1>5. CASE Set(t, [realm[t] EXCEPT !.pc = "failed"])
  <2>1. realm'[t] = [realm[t] EXCEPT !.pc = "failed"]
    BY <1>5, SetIs
  <2> QED BY <1>1, <1>2, <2>1, FailedVersion DEF Realm
<1>6. CASE Set(t, o)
  <2>1. o.pc = "open" /\ o.version = realm[t].version /\ o.known = realm[t].at /\ o.new = Null
    <3> HIDE DEF goal
    <3> QED BY <1>4 DEF Realm
  <2>2. realm'[t] = o
    <3> HIDE DEF o
    <3> QED BY <1>6, SetIs
  <2> HIDE DEF o
  <2>3. o.known = (IF o.new = Null THEN o.known ELSE o.at)
    BY <2>1
  <2> QED BY <1>2, <1>3, <2>1, <2>2, <2>3, VersionFits
<1>7. CASE Set(t, a) /\ (realm[t].new # Null => ~TooOld(realm[t].version, goal.version))
  <2>1. a.pc = "apply" /\ a.version = realm[t].version /\ a.known = realm[t].at /\ a.new = Null
    BY <1>4 DEF Realm
  <2>2. realm'[t] = a
    <3> HIDE DEF a
    <3> QED BY <1>7, SetIs
  <2>3. ~TooOld(realm[t].version, goal.version)
    BY <1>1, <1>2, <1>7 DEF VersionOK
  <2> HIDE DEF a
  <2>4. a.known = (IF a.new = Null THEN a.known ELSE a.at)
    BY <2>1
  <2> QED BY <1>2, <1>3, <2>1, <2>2, <2>3, <2>4, VersionFits
<1> QED BY <1>2, <1>5, <1>6, <1>7

\* What the file has got of a program's update.
LEMMA ApplyVersion ==
  ASSUME IInv, VInv, NEW t \in Thread, Apply(t)
  PROVE  VersionOK(t)'
<1> DEFINE f == [realm[t] EXCEPT !.pc = "failed"]
           r == [realm[t] EXCEPT !.pc = "applied", !.at = Latest + 1]
<1>1. /\ realm[t] \in Realm /\ ThreadInv(t) /\ VersionOK(t) /\ TypeOK /\ Latest \in Nat /\ Latest >= 1
      /\ Latest + 1 \in Nat
  BY Facts DEF VInv
<1>2. /\ realm[t].pc = "apply" /\ target' = target
      /\ \/ Set(t, f) /\ log' = log
         \/ log' = Append(log, [schema |-> Applied(log[Latest].schema, realm[t].changes),
                                version |-> target[P(t)].version]) /\ Set(t, r)
  BY DEF Apply, At, Failed
<1>3. realm[t].new = Null /\ realm[t].known = Latest /\ Settled(t)
  BY <1>1, <1>2 DEF ThreadInv, NewOK, PlaceOK, WriterOK, Holding, Moving, Settled
<1>4. realm[t].version = Ver(Latest)
  BY <1>3, VersionSettled
<1>5. CASE Set(t, f) /\ log' = log
  <2>1. realm'[t] = f
    <3> HIDE DEF f
    <3> QED BY <1>5, SetIs
  <2>2. f.pc = "failed"
    BY <1>1 DEF Realm
  <2> QED BY <1>2, <1>5, <2>1, <2>2, FailedVersion
<1>6. CASE log' = Append(log, [schema |-> Applied(log[Latest].schema, realm[t].changes),
                               version |-> target[P(t)].version]) /\ Set(t, r)
  <2>1. /\ r.pc = "applied" /\ r.at = Latest + 1 /\ r.known = Latest /\ r.new = Null
        /\ r.version = Ver(Latest)
    BY <1>1, <1>3, <1>4 DEF Realm
  <2> HIDE DEF r
  <2>2. realm'[t] = r
    BY <1>6, SetIs
  <2>3. log' # log
    <3>1. Len(log') = Len(log) + 1 /\ Len(log) \in Nat
      BY <1>1, <1>6 DEF TypeOK
    <3> QED BY <3>1
  <2>4. PICK e \in Contents : log' = Append(log, e) /\ e.version = target[P(t)].version
    BY <2>3, ApplyAdds
  <2>5. /\ log'[Latest] = log[Latest] /\ log'[Latest + 1] = e
    BY <1>1, <2>4 DEF TypeOK, Latest
  <2>6. target'[P(t)'] = target[P(t)]
    BY <1>2 DEF P
  <2>7. r.version = log'[r.known].version /\ log'[r.at].version = target[P(t)].version
    BY <2>1, <2>4, <2>5 DEF Ver
  <2> QED BY <2>1, <2>2, <2>6, <2>7 DEF VersionOK, Ver
<1> QED BY <1>2, <1>5, <1>6

LEMMA ClearVersion ==
  ASSUME IInv, VInv, NEW t \in Thread, Clear(t)
  PROVE  VersionOK(t)'
<1> DEFINE goal == target[P(t)]
           r == [[realm[t] EXCEPT !.schema = goal.schema, !.version = goal.version,
                                  !.dynamic = FALSE]
                   EXCEPT !.pc = "open", !.at = 0, !.changes = Null]
<1>1. /\ realm[t] \in Realm /\ ThreadInv(t) /\ VersionOK(t)
  BY Facts DEF VInv
<1>2. realm[t].pc = "clear" /\ log' = log /\ target' = target /\ Set(t, r)
  BY DEF Clear, At, Opened
<1>3. realm[t].new = Null /\ realm[t].at = realm[t].known /\ Ver(realm[t].at) = goal.version
  BY <1>1, <1>2 DEF ThreadInv, NewOK, PlaceOK, VersionOK, Moving
<1> HIDE DEF goal
<1>4. r.pc = "open" /\ r.version = goal.version /\ r.known = realm[t].known /\ r.new = Null
  BY <1>1, <1>3 DEF Realm
<1> HIDE DEF r
<1>5. realm'[t] = r
  BY <1>2, SetIs
<1>6. r.known = (IF r.new = Null THEN r.known ELSE r.at) /\ r.version = Ver(r.known)
  BY <1>3, <1>4
<1> QED BY <1>2, <1>4, <1>5, <1>6, VersionFits

LEMMA ClosedVersion ==
  ASSUME log' = log, target' = target, NEW t \in Thread, NEW r, realm'[t] = r,
         r.pc \in {"closed", "construct"}, r.at = 0
  PROVE  VersionOK(t)'
  BY DEF VersionOK, Settled, Using

LEMMA ComesAndGoesVersion ==
  ASSUME IInv, NEW t \in Thread, Enter(t) \/ Destroy(t) \/ Close(t)
  PROVE  VersionOK(t)'
<1> DEFINE r == [Closed EXCEPT !.pc = "construct"]
<1>1. r.pc = "construct" /\ r.at = 0
  BY DEF Closed
<1>2. log' = log /\ target' = target /\ (Set(t, r) \/ Set(t, Closed))
  BY DEF Enter, Destroy, Close
<1> HIDE DEF r
<1> QED BY <1>1, <1>2, SetIs, ClosedIs, ClosedVersion

LEMMA AccessVersion ==
  ASSUME IInv, VInv, NEW t \in Thread, Access(t)
  PROVE  VersionOK(t)'
<1> DEFINE n == BeginRead(realm[t])
<1>1. realm[t] \in Realm /\ ThreadInv(t)
  BY Facts
<1>2. realm[t].pc = "open" /\ log' = log /\ target' = target /\ (Fails(t) \/ Set(t, n))
  BY DEF Access, At
<1>3. realm[t].new = Null /\ Settled(t)
  BY <1>1, <1>2 DEF ThreadInv, NewOK, Moving, Settled, Using
<1>4. n.known = Latest /\ n.new = Null /\ n.version = Ver(Latest) /\ n.pc = "open"
  BY <1>2, <1>3, Begins, VersionBegins
<1>5. CASE Fails(t)
  <2>1. realm'[t] = [realm[t] EXCEPT !.pc = "failed"]
    BY <1>5, SetIs DEF Fails
  <2> QED BY <1>1, <1>2, <2>1, FailedVersion DEF Realm
<1>6. CASE Set(t, n)
  <2> HIDE DEF n
  <2>1. realm'[t] = n
    BY <1>6, SetIs
  <2>2. Latest = (IF n.new = Null THEN n.known ELSE n.at)
    BY <1>4
  <2> QED BY <1>2, <1>4, <2>1, <2>2, VersionFits
<1> QED BY <1>2, <1>5, <1>6

\* The steps that leave the Realm as it is, but for the transaction.
LEMMA QuietVersion ==
  ASSUME IInv, VInv, NEW t \in Thread, StartWrite(t) \/ Cancel(t) \/ Invalidate(t)
  PROVE  VersionOK(t)'
<1>1. realm[t] \in Realm /\ ThreadInv(t)
  BY Facts
<1>2. realm[t].pc \in {"open", "writing"} /\ log' = log /\ target' = target
  BY DEF StartWrite, Cancel, Invalidate, At
<1>3. realm[t].new = Null /\ Settled(t)
  BY <1>1, <1>2 DEF ThreadInv, NewOK, Moving, Settled, Using
<1>4. \/ Set(t, [realm[t] EXCEPT !.pc = "promote"])
      \/ Set(t, [realm[t] EXCEPT !.pc = "open"])
      \/ Set(t, [realm[t] EXCEPT !.at = 0])
  BY DEF StartWrite, Cancel, Invalidate
<1>5. \/ realm'[t] = [realm[t] EXCEPT !.pc = "promote"]
      \/ realm'[t] = [realm[t] EXCEPT !.pc = "open"]
      \/ realm'[t] = [realm[t] EXCEPT !.at = 0]
  BY <1>4, SetIs
<1>6. /\ realm'[t].pc \in {"open", "writing", "promote"} /\ realm'[t].new = Null
      /\ realm'[t].known = realm[t].known /\ realm'[t].version = realm[t].version
  BY <1>1, <1>2, <1>3, <1>5 DEF Realm
<1> QED BY <1>2, <1>3, <1>6, SameRealmVersion DEF Using

LEMMA CommitVersion ==
  ASSUME IInv, VInv, NEW t \in Thread, Commit(t)
  PROVE  VersionOK(t)'
<1> DEFINE r == [realm[t] EXCEPT !.pc = "committed", !.at = Latest + 1]
<1>1. realm[t] \in Realm /\ ThreadInv(t) /\ TypeOK /\ Latest \in Nat /\ Latest + 1 \in Nat
  BY Facts
<1>2. realm[t].pc = "writing" /\ log' = Append(log, log[Latest]) /\ target' = target /\ Set(t, r)
  BY DEF Commit, At
<1>3. realm[t].new = Null /\ Settled(t)
  BY <1>1, <1>2 DEF ThreadInv, NewOK, Moving, Settled, Using
<1>4. realm[t].known \in 1 .. Latest /\ realm[t].version = Ver(realm[t].known)
  BY <1>3, VersionSettled
<1>5. r.pc = "committed" /\ r.known = realm[t].known /\ r.new = Null /\ r.version = realm[t].version
  BY <1>1, <1>3 DEF Realm
<1> HIDE DEF r
<1>6. realm'[t] = r
  BY <1>2, SetIs
<1>7. log'[realm[t].known] = log[realm[t].known]
  BY <1>1, <1>2, <1>4, LogTypes DEF TypeOK, Latest
<1>8. r.version = log'[r.known].version
  BY <1>4, <1>5, <1>7 DEF Ver
<1> QED BY <1>5, <1>6, <1>8 DEF VersionOK, Settled, Ver

LEMMA CacheNewSchemaVersion ==
  ASSUME VersionsShow, IInv, VInv, NEW t \in Thread, CacheNewSchema(t)
  PROVE  VersionOK(t)'
<1> DEFINE n == CacheNew(realm[t])
           next == AfterCaching[realm[t].pc]
           r == [n EXCEPT !.pc = next]
<1>1. realm[t] \in Realm /\ VersionOK(t)
  BY Facts DEF VInv
<1>2. realm[t].pc \in DOMAIN AfterCaching /\ Set(t, r) /\ log' = log /\ target' = target
  BY DEF CacheNewSchema
<1>3. \/ realm[t].pc \in {"begun", "committed", "refreshed"} /\ next \in {"writing", "open"}
      \/ realm[t].pc = "applied" /\ next = "clear"
  BY <1>2 DEF AfterCaching
<1>4. /\ n \in Realm /\ n.known = realm[t].at /\ n.new = Null /\ n.at = realm[t].at
      /\ n.version = realm[t].version
  BY <1>1, CacheNewIs
<1> HIDE DEF n, next
<1>5. /\ r.pc = next /\ r.known = realm[t].at /\ r.at = realm[t].at /\ r.new = Null
      /\ r.version = realm[t].version
  BY <1>3, <1>4 DEF Realm
<1> HIDE DEF r
<1>6. realm'[t] = r
  BY <1>2, SetIs
<1>7. realm[t].at = (IF r.new = Null THEN r.known ELSE r.at)
  BY <1>5
<1>8. CASE realm[t].pc \in {"begun", "committed", "refreshed"} /\ next \in {"writing", "open"}
  <2>1. r.version = Ver(realm[t].at)
    BY <1>5, <1>8, VersionRead DEF Moving
  <2>2. r.pc \in {"writing", "open"}
    BY <1>5, <1>8
  <2> QED BY <1>2, <1>6, <1>7, <2>1, <2>2, VersionFits
<1>9. CASE realm[t].pc = "applied" /\ next = "clear"
  <2>1. Ver(r.at) = target[P(t)].version
    BY <1>1, <1>5, <1>9 DEF VersionOK
  <2>2. r.pc = "clear"
    BY <1>5, <1>9
  <2> QED BY <1>2, <1>6, <1>7, <2>1, <2>2, VersionFits DEF Using
<1> QED BY <1>3, <1>8, <1>9

-----------------------------------------------------------------------------
(* The schema versions of the caches.                                      *)

\* Nothing happens to a cache but that the file grows.
LEMMA CacheVersionStays ==
  ASSUME IInv, VInv, Grown, NEW p \in Process, coord'[p] = coord[p], Clearing(p) => Clearing(p)'
  PROVE  CacheVersionOK(p)'
<1>1. /\ CacheOK(p) /\ CacheVersionOK(p) /\ TypeOK
      /\ coord[p].max \in Nat /\ coord[p].min \in Nat /\ Latest \in Nat
  BY LogTypes DEF IInv, VInv, CacheInv, TypeOK, Cache
<1>2. coord[p].schema # Null => coord[p].max \in 1 .. Latest
  BY <1>1 DEF CacheOK
<1>3. coord[p].schema # Null => log'[coord[p].max] = log[coord[p].max]
  BY <1>2 DEF Grown
<1> QED BY <1>1, <1>3 DEF CacheVersionOK, Ver

\* What is cached has its version.
LEMMA CacheVersionCached ==
  ASSUME IInv, VInv, log' = log, NEW t \in Thread, ~Clearing(P(t)), NEW a \in 1 .. Latest, NEW s,
         coord'[P(t)] = CacheSchema(coord[P(t)], s, Ver(a), a)
  PROVE  CacheVersionOK(P(t))'
<1> DEFINE c == coord[P(t)]
           n == [schema |-> s, version |-> Ver(a), min |-> a, max |-> a]
<1>1. CacheVersionOK(P(t)) /\ P(t)' = P(t) /\ \A v : Ver(v)' = Ver(v)
  BY Facts DEF VInv, P, Ver
<1>2. coord'[P(t)] \in {c, n}
  BY DEF CacheSchema
<1>3. c.schema # Null => c.version = Ver(c.max)
  BY <1>1 DEF CacheVersionOK
<1>4. n.version = Ver(n.max)
  OBVIOUS
<1> HIDE DEF c, n
<1>5. coord'[P(t)].schema # Null => coord'[P(t)].version = Ver(coord'[P(t)].max)
  BY <1>2, <1>3, <1>4
<1> QED BY <1>1, <1>5 DEF CacheVersionOK, Ver

\* The range of the cache grows over versions that are the same.
LEMMA CacheVersionAdvances ==
  ASSUME VersionsShow, IInv, IInv', VInv, log' = log, NEW t \in Thread,
         ~Clearing(P(t)), ~Clearing(P(t))',
         coord'[P(t)] = AdvanceCache(coord[P(t)], realm[t].known, realm[t].at)
  PROVE  CacheVersionOK(P(t))'
<1> DEFINE c == coord[P(t)]
           n == AdvanceCache(c, realm[t].known, realm[t].at)
<1>1. /\ P(t) \in Process /\ P(t)' = P(t) /\ c \in Cache
      /\ CacheVersionOK(P(t)) /\ CachedOK(P(t)) /\ CacheOK(P(t))
      /\ TypeOK /\ LogInv /\ LogVersions /\ realm[t].at \in Nat /\ realm[t].known \in Nat
      /\ Latest \in Nat /\ c.min \in Nat /\ c.max \in Nat
  BY Facts DEF VInv, P
<1>2. CacheOK(P(t))' /\ CachedOK(P(t))' /\ Latest' = Latest /\ \A v : Ver(v)' = Ver(v) /\ S(v)' = S(v)
  BY <1>1 DEF IInv, CacheInv, Latest, Ver, S
<1>3. coord'[P(t)] = n
  OBVIOUS
<1>4. n.schema = c.schema /\ n.version = c.version /\ n.max \in Nat /\ n.min \in Nat
  <2> HIDE DEF c
  <2> QED BY <1>1 DEF AdvanceCache, Cache
<1> HIDE DEF n, c
<1>5. ASSUME c.schema # Null PROVE n.version = Ver(n.max)
  <2>1. c.version = Ver(c.max)
    BY <1>1, <1>5 DEF CacheVersionOK, c
  <2>2. c.max \in 1 .. Latest /\ S(c.max) = c.schema
    <3>1. 1 <= c.min /\ c.min <= c.max /\ c.max <= Latest
      BY <1>1, <1>5 DEF CacheOK, c
    <3>2. c.max \in c.min .. c.max
      BY <1>1, <3>1
    <3> QED BY <1>1, <1>5, <3>1, <3>2 DEF CachedOK, c
  <2>3. n.max \in 1 .. Latest /\ S(n.max) = n.schema
    <3>1. 1 <= n.min /\ n.min <= n.max /\ n.max <= Latest
      BY <1>1, <1>2, <1>3, <1>4, <1>5 DEF CacheOK
    <3>2. n.max \in n.min .. n.max
      BY <1>4, <3>1
    <3> QED BY <1>1, <1>2, <1>3, <1>4, <1>5, <3>1, <3>2 DEF CachedOK
  <2> QED BY <1>1, <1>4, <2>1, <2>2, <2>3, OneVersion
<1> QED BY <1>1, <1>2, <1>3, <1>4, <1>5 DEF CacheVersionOK

LEMMA CacheVersionBegins ==
  ASSUME IInv, VInv, log' = log, NEW t \in Thread, ~Clearing(P(t)),
         coord'[P(t)] = BeginReadCaches(coord[P(t)], realm[t])
  PROVE  CacheVersionOK(P(t))'
<1>1. Latest \in 1 .. Latest /\ Grown /\ P(t) \in Process
  BY Facts, LogSame
<1>2. CASE realm[t].known = Latest
  BY <1>1, <1>2, CacheVersionStays DEF BeginReadCaches
<1>3. CASE realm[t].known # Latest
  <2>1. coord'[P(t)] = CacheSchema(coord[P(t)], S(Latest), Ver(Latest), Latest)
    BY <1>3 DEF BeginReadCaches, S, Ver
  <2> QED BY <1>1, <2>1, CacheVersionCached
<1> QED BY <1>2, <1>3

LEMMA CacheVersionNew ==
  ASSUME VersionsShow, IInv, IInv', VInv, log' = log, NEW t \in Thread,
         realm[t].pc \in Moving \cup {"committed"}, ~Clearing(P(t)), ~Clearing(P(t))',
         coord'[P(t)] = NewCached(coord[P(t)], realm[t])
  PROVE  CacheVersionOK(P(t))'
<1>1. realm[t].at \in 1 .. Latest /\ realm[t].version = Ver(realm[t].at)
  BY VersionRead
<1>2. CASE realm[t].new = Null
  BY <1>2, CacheVersionAdvances DEF NewCached
<1>3. CASE realm[t].new # Null
  BY <1>1, <1>3, CacheVersionCached DEF NewCached
<1> QED BY <1>2, <1>3

-----------------------------------------------------------------------------
(* The steps of a thread, for VInv.                                        *)

Own(t) ==
  /\ \E r : Set(t, r)
  /\ target' = target
  /\ coord' = coord \/ \E c : SetCache(t, c)

LEMMA OwnStep ==
  ASSUME NEW t \in Thread,
         Enter(t) \/ Library(t) \/ Access(t) \/ StartWrite(t) \/ Commit(t) \/ Cancel(t)
           \/ Refresh(t) \/ Invalidate(t) \/ Close(t)
  PROVE  Own(t)
<1>1. CASE Enter(t) \/ Construct(t) \/ CacheFirst(t) \/ Clear(t) \/ Destroy(t)
  BY <1>1 DEF Own, Enter, Construct, CacheFirst, Clear, Opened, Destroy
<1>2. CASE Align(t)
  <2>1. \E r : Set(t, r)
    BY <1>2 DEF Align, Failed, Opened
  <2> QED BY <1>2, <2>1 DEF Own, Align
<1>3. CASE ReadSchema(t)
  <2> DEFINE n == BeginRead(realm[t])
             goal == target[P(t)]
             ch == Compare(n.schema, goal.schema)
  <2>1. CASE TooOld(n.version, goal.version)
    BY <1>3, <2>1 DEF Own, ReadSchema, Failed
  <2>2. CASE NeedsWrite(n.version, goal.version, ch) /\ ~TooOld(n.version, goal.version)
    BY <1>3, <2>2 DEF Own, ReadSchema
  <2>3. CASE ~NeedsWrite(n.version, goal.version, ch) /\ ~TooOld(n.version, goal.version)
    BY <1>3, <2>3 DEF Own, ReadSchema, Opened
  <2> QED BY <2>1, <2>2, <2>3
<1>4. CASE BeginWrite(t) \/ Recheck(t)
  BY <1>4 DEF Own, BeginWrite, Recheck, Failed, Opened
<1>5. CASE Apply(t)
  BY <1>5 DEF Own, Apply, Failed
<1>6. CASE Promote(t) \/ CacheNewSchema(t) \/ Access(t) \/ StartWrite(t) \/ Commit(t)
  BY <1>6 DEF Own, Promote, CacheNewSchema, Access, StartWrite, Commit, Fails
<1>7. CASE Cancel(t) \/ Refresh(t) \/ Invalidate(t) \/ Close(t)
  BY <1>7 DEF Own, Cancel, Refresh, Invalidate, Close, Fails
<1> QED BY <1>1, <1>2, <1>3, <1>4, <1>5, <1>6, <1>7 DEF Library

\* What such a step has to show.
LEMMA VersionStep ==
  ASSUME IInv, VInv, NEW t \in Thread, Own(t), Grown, LogVersions', VersionOK(t)',
         CacheVersionOK(P(t))'
  PROVE  VInv'
<1>1. TypeOK /\ P(t) \in Process /\ P(t)' = P(t)
  BY Facts DEF P
<1>2. \A u \in Thread \ {t} : realm'[u] = realm[u]
  BY SetIs DEF Own
<1>3. \A p \in Process \ {P(t)} : coord'[p] = coord[p]
  BY <1>1 DEF Own, SetCache, TypeOK
<1>4. ASSUME NEW u \in Thread PROVE VersionOK(u)'
  BY <1>2, VersionStays DEF VInv, Own
<1>5. ASSUME NEW p \in Process PROVE CacheVersionOK(p)'
  <2>1. CASE p = P(t)
    BY <1>1, <2>1
  <2>2. CASE p # P(t)
    <3>1. Clearing(p) => Clearing(p)'
      BY <1>2, <2>2 DEF Clearing, P
    <3> QED BY <1>3, <2>2, <3>1, CacheVersionStays
  <2> QED BY <2>1, <2>2
<1> QED BY <1>4, <1>5 DEF VInv

\* A step that leaves the cache alone.
LEMMA QuietVersionStep ==
  ASSUME IInv, VInv, NEW t \in Thread, Own(t), Grown, LogVersions', VersionOK(t)',
         coord' = coord, realm[t].pc # "clear"
  PROVE  VInv'
<1>1. \A u \in Thread \ {t} : realm'[u] = realm[u]
  BY SetIs DEF Own
<1>2. Clearing(P(t)) => Clearing(P(t))'
  BY <1>1 DEF Clearing, P
<1>3. P(t) \in Process
  BY Facts
<1>4. CacheVersionOK(P(t))'
  BY <1>2, <1>3, CacheVersionStays
<1> QED BY <1>4, VersionStep

LEMMA NotThenClearing ==
  ASSUME IInv, NEW t \in Thread, Own(t), ~Clearing(P(t)), realm'[t].pc # "clear"
  PROVE  ~Clearing(P(t))'
<1>1. \A u \in Thread : P(u)' = P(u) /\ (u # t => realm'[u] = realm[u])
  BY SetIs DEF Own, P
<1> QED BY <1>1 DEF Clearing

LEMMA QuietSteps ==
  ASSUME VersionsShow, IInv, VInv, NEW t \in Thread,
         \/ Enter(t) \/ Construct(t) \/ Align(t) \/ BeginWrite(t) \/ Destroy(t) \/ Promote(t)
         \/ StartWrite(t) \/ Cancel(t) \/ Refresh(t) \/ Invalidate(t) \/ Close(t)
  PROVE  VInv'
<1>1. Own(t)
  BY OwnStep DEF Library
<1>2. VersionOK(t)'
  BY ComesAndGoesVersion, ConstructVersion, AlignVersion, BeginWriteVersion, QuietVersion
<1>3. log' = log /\ coord' = coord /\ realm[t].pc # "clear"
  BY DEF Enter, Construct, Align, BeginWrite, Destroy, Promote, StartWrite, Cancel, Refresh,
         Invalidate, Close, At
<1>4. LogVersions' /\ Grown
  BY <1>3, LogVersionsStay, Facts, LogSame DEF VInv
<1> QED BY <1>1, <1>2, <1>3, <1>4, QuietVersionStep

LEMMA WriteGrows ==
  ASSUME IInv, VInv, NEW t \in Thread, Commit(t) \/ Apply(t)
  PROVE  Grown
<1>1. TypeOK /\ log \in Seq(Contents) /\ Latest \in 1 .. Latest /\ log[Latest] \in Contents
  BY Facts, LogTypes DEF TypeOK
<1>2. ASSUME NEW e \in Contents, log' = Append(log, e) PROVE Grown
  BY <1>1, <1>2 DEF Grown, Latest
<1>3. CASE Commit(t)
  BY <1>1, <1>2, <1>3 DEF Commit
<1>4. CASE Apply(t) /\ log' # log
  BY <1>2, <1>4, ApplyAdds
<1>5. CASE log' = log
  BY <1>1, <1>5, LogSame
<1> QED BY <1>3, <1>4, <1>5

LEMMA WritingSteps ==
  ASSUME VersionsShow, IInv, VInv, NEW t \in Thread, Commit(t) \/ Apply(t)
  PROVE  VInv'
<1>1. Own(t)
  BY OwnStep DEF Library
<1>2. VersionOK(t)'
  BY CommitVersion, ApplyVersion
<1>3. coord' = coord /\ realm[t].pc # "clear"
  BY DEF Commit, Apply, At
<1>4. LogVersions'
  <2>1. log' = log => LogVersions'
    BY LogVersionsStay DEF VInv
  <2> QED BY <2>1, CommitVersions, ApplyVersions
<1> QED BY <1>1, <1>2, <1>3, <1>4, WriteGrows, QuietVersionStep

LEMMA CachingSteps ==
  ASSUME VersionsShow, IInv, VInv, IInv', NEW t \in Thread,
         CacheFirst(t) \/ ReadSchema(t) \/ Access(t) \/ Recheck(t) \/ CacheNewSchema(t) \/ Clear(t)
  PROVE  VInv'
<1>1. Own(t)
  BY OwnStep DEF Library
<1>2. VersionOK(t)'
  BY AlignVersion, ReadSchemaVersion, AccessVersion, RecheckVersion, CacheNewSchemaVersion, ClearVersion
<1>3. log' = log
  BY DEF CacheFirst, ReadSchema, Access, Recheck, CacheNewSchema, Clear
<1>4. /\ LogVersions' /\ Grown /\ TypeOK /\ realm[t] \in Realm /\ P(t) \in Process /\ P(t)' = P(t)
      /\ ThreadInv(t) /\ coord[P(t)] \in Cache
  BY <1>3, LogVersionsStay, Facts, LogSame DEF VInv, P
<1>5. ASSUME NEW c, SetCache(t, c) PROVE coord'[P(t)] = c
  BY <1>4, <1>5 DEF SetCache, TypeOK
<1>6. CASE CacheFirst(t)
  <2>1. /\ realm[t].pc = "cache"
        /\ SetCache(t, CacheSchema(coord[P(t)], realm[t].schema, realm[t].version, realm[t].known))
    BY <1>6 DEF CacheFirst, At
  <2>2. realm[t].new = Null
    BY <1>4, <2>1 DEF ThreadInv, NewOK, Moving
  <2>3. realm[t].known \in 1 .. Latest /\ realm[t].version = Ver(realm[t].known)
    BY <2>1, <2>2, VersionSettled
  <2>4. coord'[P(t)] = CacheSchema(coord[P(t)], realm[t].schema, Ver(realm[t].known), realm[t].known)
    BY <1>5, <2>1, <2>3
  <2>5. CacheVersionOK(P(t))'
    BY <1>3, <2>1, <2>3, <2>4, NotClearing, CacheVersionCached
  <2> QED BY <1>1, <1>2, <1>4, <2>5, VersionStep
<1>7. CASE ReadSchema(t) \/ Access(t)
  <2>1. /\ realm[t].pc \in {"update", "open"}
        /\ SetCache(t, BeginReadCaches(coord[P(t)], realm[t]))
    BY <1>7 DEF ReadSchema, Access, At
  <2>2. coord'[P(t)] = BeginReadCaches(coord[P(t)], realm[t])
    BY <1>5, <2>1
  <2>3. CacheVersionOK(P(t))'
    BY <1>3, <2>1, <2>2, NotClearing, CacheVersionBegins
  <2> QED BY <1>1, <1>2, <1>4, <2>3, VersionStep
<1>8. CASE Recheck(t)
  <2>1. realm[t].pc = "recheck" /\ (coord' = coord \/ SetCache(t, NewCached(coord[P(t)], realm[t])))
    BY <1>8 DEF Recheck, At
  <2>2. CASE coord' = coord
    BY <1>1, <1>2, <1>4, <2>1, <2>2, QuietVersionStep
  <2>3. CASE SetCache(t, NewCached(coord[P(t)], realm[t]))
    <3>1. coord'[P(t)] = NewCached(coord[P(t)], realm[t])
      BY <1>5, <2>3
    <3>2. realm'[t].pc # "clear"
      <4> DEFINE n == CacheNew(realm[t])
                 goal == target[P(t)]
                 ch == IF realm[t].new = Null THEN realm[t].changes ELSE Compare(realm[t].new, goal.schema)
                 a == [n EXCEPT !.pc = "apply", !.changes = ch]
                 o == [[n EXCEPT !.schema = goal.schema, !.dynamic = FALSE]
                         EXCEPT !.pc = "open", !.at = 0, !.changes = Null]
                 f == [realm[t] EXCEPT !.pc = "failed"]
      <4>1. Set(t, f) \/ Set(t, o) \/ Set(t, a)
        BY <1>8 DEF Recheck, Failed, Opened
      <4>2. n \in Realm
        BY <1>4, CacheNewIs
      <4> HIDE DEF n, ch, goal
      <4>3. f.pc = "failed" /\ o.pc = "open" /\ a.pc = "apply"
        BY <1>4, <4>2 DEF Realm
      <4> HIDE DEF f, o, a
      <4> QED BY <4>1, <4>3, SetIs
    <3>3. ~Clearing(P(t)) /\ ~Clearing(P(t))'
      BY <1>1, <2>1, <3>2, NotClearing, NotThenClearing
    <3>4. CacheVersionOK(P(t))'
      BY <1>3, <2>1, <3>1, <3>3, CacheVersionNew DEF Moving
    <3> QED BY <1>1, <1>2, <1>4, <3>4, VersionStep
  <2> QED BY <2>1, <2>2, <2>3
<1>9. CASE CacheNewSchema(t)
  <2> DEFINE n == CacheNew(realm[t])
             r == [n EXCEPT !.pc = AfterCaching[realm[t].pc]]
  <2>1. realm[t].pc \in DOMAIN AfterCaching /\ SetCache(t, NewCached(coord[P(t)], realm[t])) /\ Set(t, r)
    BY <1>9 DEF CacheNewSchema
  <2>2. n \in Realm
    BY <1>4, CacheNewIs
  <2>3. r.pc = AfterCaching[realm[t].pc]
    <3> HIDE DEF n
    <3> QED BY <2>2 DEF Realm
  <2>4. realm'[t].pc = AfterCaching[realm[t].pc]
    <3> HIDE DEF r
    <3> QED BY <2>1, <2>3, SetIs
  <2>5. coord'[P(t)] = NewCached(coord[P(t)], realm[t])
    BY <1>5, <2>1
  <2>6. CASE realm[t].pc = "applied"
    <3>1. realm'[t].pc = "clear"
      BY <2>4, <2>6 DEF AfterCaching
    <3>2. CacheVersionOK(P(t))'
      BY <1>4, <3>1 DEF CacheVersionOK, Clearing
    <3> QED BY <1>1, <1>2, <1>4, <3>2, VersionStep
  <2>7. CASE realm[t].pc # "applied"
    <3>1. realm[t].pc \in {"begun", "committed", "refreshed"} /\ realm'[t].pc # "clear"
      BY <2>1, <2>4, <2>7 DEF AfterCaching
    <3>2. ~Clearing(P(t)) /\ ~Clearing(P(t))'
      BY <1>1, <3>1, NotClearing, NotThenClearing
    <3>3. CacheVersionOK(P(t))'
      BY <1>3, <2>5, <3>1, <3>2, CacheVersionNew DEF Moving
    <3> QED BY <1>1, <1>2, <1>4, <3>3, VersionStep
  <2> QED BY <2>6, <2>7
<1>10. CASE Clear(t)
  <2>1. SetCache(t, ClearCache(coord[P(t)], target[P(t)].version))
    BY <1>10 DEF Clear
  <2>2. coord'[P(t)] = ClearCache(coord[P(t)], target[P(t)].version)
    BY <1>5, <2>1
  <2>3. coord'[P(t)].schema = Null
    BY <1>4, <2>2 DEF ClearCache, Cache
  <2>4. CacheVersionOK(P(t))'
    BY <1>4, <2>3 DEF CacheVersionOK
  <2> QED BY <1>1, <1>2, <1>4, <2>4, VersionStep
<1> QED BY <1>6, <1>7, <1>8, <1>9, <1>10

LEMMA DieVersions ==
  ASSUME IInv, VInv, NEW p \in Process, Die(p)
  PROVE  VInv'
<1>1. /\ log' = log /\ target' = target
      /\ realm' = [t \in Thread |-> IF P(t) = p THEN Closed ELSE realm[t]]
      /\ coord' = [coord EXCEPT ![p] = EmptyCache]
  BY DEF Die
<1>2. TypeOK /\ Grown /\ LogVersions'
  BY <1>1, LogSame, LogVersionsStay DEF IInv, VInv
<1>3. ASSUME NEW u \in Thread PROVE VersionOK(u)'
  <2>1. CASE P(u) = p
    <3>1. realm'[u] = Closed
      BY <1>1, <2>1
    <3> QED BY <1>1, <3>1, ClosedIs, ClosedVersion
  <2>2. CASE P(u) # p
    <3>1. realm'[u] = realm[u]
      BY <1>1, <2>2
    <3> QED BY <1>1, <1>2, <3>1, VersionStays DEF VInv
  <2> QED BY <2>1, <2>2
<1>4. ASSUME NEW q \in Process PROVE CacheVersionOK(q)'
  <2>1. CASE q = p
    <3>1. coord'[q].schema = Null
      BY <1>1, <1>2, <2>1 DEF EmptyCache, TypeOK
    <3> QED BY <3>1 DEF CacheVersionOK
  <2>2. CASE q # p
    <3>1. coord'[q] = coord[q]
      BY <1>1, <1>2, <2>2 DEF TypeOK
    <3>2. Clearing(q) => Clearing(q)'
      BY <1>1, <2>2 DEF Clearing, P
    <3> QED BY <1>2, <3>1, <3>2, CacheVersionStays
  <2> QED BY <2>1, <2>2
<1> QED BY <1>2, <1>3, <1>4 DEF VInv

LEMMA InitVInv == Init => VInv
<1> SUFFICES ASSUME Init PROVE VInv
  OBVIOUS
<1>1. PICK f \in FirstFiles : log = <<f>>
  BY DEF Init
<1>2. f \in Contents /\ Latest = 1 /\ log[1] = f
  BY <1>1, RealmOpenAssumption DEF Latest
<1>3. \A t \in Thread : realm[t] = Closed
  BY DEF Init
<1>4. \A p \in Process : coord[p].schema = Null
  BY DEF Init, EmptyCache
<1>5. LogVersions
  <2>1. S(1) = f.schema /\ Ver(1) = f.version /\ f.version \in Nat
    BY <1>2 DEF S, Ver, Contents
  <2>2. \A v \in 1 .. Latest : v = 1
    BY <1>2
  <2> QED BY <1>2, <2>1, <2>2 DEF LogVersions
<1>6. \A t \in Thread : VersionOK(t)
  BY <1>3, ClosedIs DEF VersionOK, Settled, Using
<1>7. \A p \in Process : CacheVersionOK(p)
  BY <1>4 DEF CacheVersionOK
<1> QED BY <1>5, <1>6, <1>7 DEF VInv

LEMMA StepVInv ==
  ASSUME VersionsShow, IInv, VInv, [Next]_vars
  PROVE  VInv'
<1>1. IInv'
  BY StepIInv
<1>2. ASSUME NEW t \in Thread,
             Enter(t) \/ Library(t) \/ Access(t) \/ StartWrite(t) \/ Commit(t) \/ Cancel(t)
               \/ Refresh(t) \/ Invalidate(t) \/ Close(t)
      PROVE  VInv'
  <2>1. CASE Enter(t) \/ Access(t) \/ StartWrite(t) \/ Commit(t) \/ Cancel(t)
               \/ Refresh(t) \/ Invalidate(t) \/ Close(t)
    BY <1>1, <2>1, QuietSteps, WritingSteps, CachingSteps
  <2>2. CASE Library(t)
    BY <1>1, <2>2, QuietSteps, WritingSteps, CachingSteps DEF Library
  <2> QED BY <1>2, <2>1, <2>2
<1>3. ASSUME NEW p \in Process, Die(p) PROVE VInv'
  BY <1>3, DieVersions
<1>4. CASE UNCHANGED vars
  <2>1. target' = target /\ log' = log /\ coord' = coord /\ realm' = realm
    BY <1>4 DEF vars
  <2>2. TypeOK /\ Grown /\ LogVersions'
    BY <2>1, LogSame, LogVersionsStay DEF IInv, VInv
  <2>3. \A u \in Thread : VersionOK(u)'
    BY <2>1, <2>2, VersionStays DEF VInv
  <2>4. \A p \in Process : CacheVersionOK(p)'
    <3>1. \A p \in Process : Clearing(p)' <=> Clearing(p)
      BY <2>1 DEF Clearing, P
    <3> QED BY <2>1, <2>2, <3>1, CacheVersionStays
  <2> QED BY <2>2, <2>3, <2>4 DEF VInv
<1> QED BY <1>2, <1>3, <1>4 DEF Next

LEMMA VersionsInductive ==
  ASSUME VersionsShow
  PROVE  Spec => [](IInv /\ VInv)
<1>1. VInv /\ IInv /\ [Next]_vars => VInv'
  BY StepVInv
<1> QED BY <1>1, InitVInv, InitIInv, StepIInv, PTL DEF Spec

-----------------------------------------------------------------------------
(* What is said of schema versions, then.                                  *)

\* In every read transaction, and until update_schema's own commit, a Realm has the
\* schema version and the schema of the version of the file that it reads.
THEOREM SchemaKnown == ASSUME VersionsShow PROVE Spec => []KnowsFile
<1>1. ASSUME IInv, VInv PROVE KnowsFile
  <2>1. ASSUME NEW t \in Thread, realm[t].at # 0, realm[t].pc \notin {"applied", "clear", "failed"}
        PROVE  /\ realm[t].version = log[realm[t].at].version
               /\ realm[t].dynamic => realm[t].schema = log[realm[t].at].schema
    <3>1. realm[t] \in Realm /\ SchemaOK(t) /\ PlaceOK(t) /\ NewOK(t) /\ VersionOK(t)
      BY <1>1, Facts DEF ThreadInv, VInv
    <3>2. realm[t].pc \notin {"closed", "construct", "align", "update"}
      BY <2>1, <3>1 DEF VersionOK
    <3>3. CASE realm[t].pc \in {"cache", "begin", "apply", "open", "promote", "writing"}
      <4>1. realm[t].at = realm[t].known /\ realm[t].new = Null
        BY <2>1, <3>1, <3>3 DEF PlaceOK, NewOK, Moving
      <4>2. realm[t].version = Ver(realm[t].known)
        BY <1>1, <3>3, <4>1, VersionSettled DEF Settled, Using
      <4>3. realm[t].dynamic => realm[t].schema = S(realm[t].known)
        BY <3>1, <3>3 DEF SchemaOK, Using
      <4> QED BY <4>1, <4>2, <4>3 DEF S, Ver
    <3>4. CASE realm[t].pc \in {"recheck", "begun", "refreshed", "committed"}
      <4>1. realm[t].version = Ver(realm[t].at)
        BY <1>1, <3>4, VersionRead DEF Moving
      <4>2. realm[t].dynamic => realm[t].schema = S(realm[t].at)
        BY <3>1, <3>4 DEF SchemaOK, Using
      <4> QED BY <4>1, <4>2 DEF S, Ver
    <3> QED BY <2>1, <3>1, <3>2, <3>3, <3>4 DEF Realm
  <2> QED BY <2>1 DEF KnowsFile
<1> QED BY <1>1, VersionsInductive, PTL

\* The schema and the schema version of the cache are those of every version in its
\* range, but for the moment between update_schema's commit and the clearing.
THEOREM CacheIsExact == ASSUME VersionsShow PROVE Spec => []CacheExact
<1>1. ASSUME IInv, VInv PROVE CacheExact
  <2>1. ASSUME NEW p \in Process, coord[p].schema # Null, ~Clearing(p),
               NEW v \in coord[p].min .. coord[p].max
        PROVE  v <= Latest /\ log[v].schema = coord[p].schema /\ log[v].version = coord[p].version
    <3>1. /\ CacheOK(p) /\ CachedOK(p)
          /\ coord[p].min \in Nat /\ coord[p].max \in Nat /\ Latest \in Nat
          /\ TypeOK /\ LogInv /\ LogVersions /\ CacheVersionOK(p)
      BY <1>1, LogTypes DEF IInv, VInv, CacheInv, TypeOK, Cache
    <3>2. /\ v \in 1 .. Latest /\ coord[p].max \in 1 .. Latest
          /\ coord[p].max \in coord[p].min .. coord[p].max
      BY <2>1, <3>1 DEF CacheOK
    <3>3. S(v) = coord[p].schema /\ S(coord[p].max) = coord[p].schema
      BY <2>1, <3>1, <3>2 DEF CachedOK
    <3>4. Ver(v) = Ver(coord[p].max)
      BY <3>1, <3>2, <3>3, OneVersion
    <3>5. coord[p].version = Ver(coord[p].max)
      BY <2>1, <3>1 DEF CacheVersionOK
    <3> QED BY <3>1, <3>2, <3>3, <3>4, <3>5 DEF S, Ver
  <2> QED BY <2>1 DEF CacheExact, Clearing, At
<1> QED BY <1>1, VersionsInductive, PTL

\* What update_schema applies are the differences between the file, as it is under the
\* write lock, and the target, and the schema version it looked at is still the file's.
THEOREM ChangesAreRight == ASSUME VersionsShow PROVE Spec => []ChangesFit
<1>1. ASSUME IInv, VInv PROVE ChangesFit
  <2>1. ASSUME NEW t \in Thread, realm[t].pc = "apply"
        PROVE  /\ realm[t].changes = Compare(log[Latest].schema, target[P(t)].schema)
               /\ realm[t].version = log[Latest].version
    <3>1. SchemaOK(t) /\ PlaceOK(t) /\ NewOK(t) /\ WriterOK(t)
      BY <1>1 DEF IInv, ThreadInv
    <3>2. /\ realm[t].at = Latest /\ realm[t].known = Latest /\ realm[t].new = Null
          /\ realm[t].changes = Compare(S(Latest), Goal(t))
      BY <2>1, <3>1 DEF SchemaOK, PlaceOK, NewOK, WriterOK, Holding, Moving
    <3>3. realm[t].version = Ver(Latest)
      BY <1>1, <2>1, <3>2, VersionSettled DEF Settled
    <3> QED BY <3>2, <3>3 DEF S, Ver, Goal
  <2> QED BY <2>1 DEF ChangesFit, At
<1> QED BY <1>1, VersionsInductive, PTL

\* No program takes a file back to an older schema version, also one that waited for the
\* write lock while a newer program updated the file.
THEOREM NeverBack == ASSUME VersionsShow PROVE Spec => SchemaForward
<1> DEFINE Forward == log' # log /\ log[Latest].version # NotVersioned =>
                        log'[Latest'].version >= log[Latest].version
<1>1. ASSUME IInv, VInv, [Next]_vars PROVE [Forward]_log
  <2>1. VInv' /\ IInv' /\ TypeOK
    BY <1>1, StepVInv, StepIInv DEF IInv
  <2>2. Grown
    <3>1. \A t \in Thread : Commit(t) \/ Apply(t) => Grown
      <4>1. ASSUME NEW t \in Thread, Commit(t) \/ Apply(t) PROVE Grown
        BY <1>1, <4>1, WriteGrows
      <4> QED BY <4>1
    <3>2. (\A t \in Thread : ~(Commit(t) \/ Apply(t))) => log' = log
      BY <1>1 DEF Next, vars, Library, Enter, Construct, CacheFirst, Align, ReadSchema, BeginWrite,
                  Recheck, Clear, Destroy, Promote, CacheNewSchema, Access, StartWrite, Cancel,
                  Refresh, Invalidate, Close, Die
    <3> QED BY <2>1, <3>1, <3>2, LogSame
  <2>3. /\ Latest \in Nat /\ Latest >= 1 /\ Latest' \in Nat /\ Latest <= Latest'
        /\ log'[Latest] = log[Latest] /\ Ver(Latest) \in Nat /\ log'[Latest'].version \in Nat
    <3>1. Latest \in Nat /\ Latest >= 1 /\ Ver(Latest) \in Nat
      BY <2>1, LogTypes
    <3>2. Latest' \in Nat /\ Latest <= Latest' /\ log' \in Seq(Contents) /\ log'[Latest] = log[Latest]
      BY <2>2, <3>1 DEF Grown
    <3>3. log'[Latest'] \in Contents
      BY <3>1, <3>2 DEF Latest
    <3> QED BY <3>1, <3>2, <3>3 DEF Contents
  <2>4. \A i, j \in 1 .. Latest' :
          i <= j => log'[i].version = NotVersioned \/ log'[i].version <= log'[j].version
    BY <2>1 DEF VInv, LogVersions, Ver
  <2>5. log'[Latest].version = NotVersioned \/ log'[Latest].version <= log'[Latest'].version
    BY <2>3, <2>4
  <2> QED BY <2>3, <2>5 DEF Ver
<1>2. IInv /\ VInv /\ [Next]_vars => [Forward]_log
  BY <1>1
<1>3. Spec => [][Forward]_log
  BY <1>2, VersionsInductive, PTL DEF Spec
<1> QED BY <1>3 DEF SchemaForward
=============================================================================
