------------------------- MODULE ListChangesProofs --------------------------
(***************************************************************************)
(* What the operators of ListChanges compute, for change sets of any size. *)
(* The positions that are neither deleted nor inserted are the same rows   *)
(* in both lists, in the same order: OldPlace takes one from the new list  *)
(* to the old.  Merge composes these maps, and one insertion or erasure is *)
(* the merge of a change set with one position.  The theorems are those of *)
(* ChangeBuilder, at the end.                                              *)
(***************************************************************************)
EXTENDS ChangeBuilder, FiniteSetTheorems, TLAPS

Position == Nat \ {0}

Below(P, i) == {p \in P : p < i}

\* The positions that are left once P is taken out are numbered 1, 2, ...: the
\* one with number i.
Place(i, P) == CHOOSE j \in Position : j \notin P /\ Unshift(j, P) = i

-----------------------------------------------------------------------------
(* Numbering the positions outside a set.                                  *)

\* A set of natural numbers that is not empty has a least element.
LEMMA LeastNat ==
  ASSUME NEW T \in SUBSET Nat, T # {}
  PROVE  \E x \in T : \A y \in T : x <= y
<1> DEFINE R == OpToRel(<, Nat)
<1>1. R = {ss \in Nat \X Nat : ss[1] < ss[2]}
  BY Zenon DEF OpToRel
<1>2. IsWellFoundedOn(R, Nat)
  BY NatLessThanWellFounded, Zenon
<1> HIDE DEF R
<1>3. PICK x \in T : \A y \in T : ~(<<y, x>> \in R)
  BY <1>2, WFMin, Zenon
<1>4. ASSUME NEW y \in T, ~(x <= y) PROVE FALSE
  <2>1. <<y, x>> \in R
    BY <1>1, <1>4
  <2> QED BY <1>3, <2>1
<1> QED BY <1>4

LEMMA BelowFinite ==
  ASSUME NEW P \in SUBSET Position, NEW i \in Position
  PROVE  /\ IsFiniteSet(Below(P, i)) /\ Cardinality(Below(P, i)) \in 0 .. (i - 1)
         /\ Unshift(i, P) = i - Cardinality(Below(P, i))
         /\ Unshift(i, P) \in 1 .. i
<1>1. Below(P, i) \subseteq 1 .. (i - 1)
  <2>1. ASSUME NEW p \in Below(P, i) PROVE p \in 1 .. (i - 1)
    BY DEF Below, Position
  <2> QED BY <2>1
<1>2. IsFiniteSet(1 .. (i - 1)) /\ Cardinality(1 .. (i - 1)) = i - 1
  BY FS_Interval DEF Position
<1>3. IsFiniteSet(Below(P, i)) /\ Cardinality(Below(P, i)) <= i - 1
  BY <1>1, <1>2, FS_Subset
<1>4. Cardinality(Below(P, i)) \in Nat
  BY <1>3, FS_CardinalityType
<1>5. Unshift(i, P) = i - Cardinality(Below(P, i))
  BY DEF Unshift, Below
<1> QED BY <1>3, <1>4, <1>5 DEF Position

\* Of two positions the later has no smaller number, and a greater one unless the
\* first is in the set; by one step the number grows by one at most.
LEMMA UnshiftGrows ==
  ASSUME NEW P \in SUBSET Position, NEW i \in Position, NEW k \in Position, i < k
  PROVE  /\ Unshift(i, P) <= Unshift(k, P)
         /\ i \notin P => Unshift(i, P) < Unshift(k, P)
         /\ Unshift(k, P) - Unshift(i, P) <= k - i
         /\ i \in P /\ k = i + 1 => Unshift(i, P) = Unshift(k, P)
<1> DEFINE B == {p \in P : i <= p /\ p < k}
<1>0. i \in Nat /\ k \in Nat /\ \A p \in P : p \in Nat
  BY DEF Position
<1>1. B \subseteq i .. (k - 1) /\ (i \notin P => B \subseteq (i + 1) .. (k - 1))
  <2>1. ASSUME NEW p \in B PROVE p \in i .. (k - 1) /\ (p # i => p \in (i + 1) .. (k - 1))
    BY <1>0
  <2> QED BY <2>1
<1>2. IsFiniteSet(i .. (k - 1)) /\ Cardinality(i .. (k - 1)) = k - i
  BY FS_Interval DEF Position
<1>3. IsFiniteSet((i + 1) .. (k - 1)) /\ Cardinality((i + 1) .. (k - 1)) = k - 1 - i
  BY FS_Interval DEF Position
<1>4. IsFiniteSet(B) /\ Cardinality(B) <= k - i /\ (i \notin P => Cardinality(B) <= k - 1 - i)
  <2> HIDE DEF B
  <2>1. IsFiniteSet(B) /\ Cardinality(B) <= Cardinality(i .. (k - 1))
    BY <1>1, <1>2, FS_Subset, Zenon
  <2>2. i \notin P => Cardinality(B) <= Cardinality((i + 1) .. (k - 1))
    BY <1>1, <1>3, FS_Subset, Zenon
  <2> QED BY <1>2, <1>3, <2>1, <2>2
<1>5. Cardinality(B) \in Nat
  BY <1>4, FS_CardinalityType
<1>6. Below(P, k) = Below(P, i) \cup B /\ Below(P, i) \cap B = {}
  <2>1. ASSUME NEW p \in P PROVE p < k <=> p < i \/ (i <= p /\ p < k)
    BY <1>0
  <2>2. ASSUME NEW p \in P PROVE ~(p < i /\ i <= p)
    BY <1>0
  <2> QED BY <2>1, <2>2 DEF Below
<1>7. Cardinality(Below(P, k)) = Cardinality(Below(P, i)) + Cardinality(B)
  <2>1. Cardinality(Below(P, i) \cap B) = 0
    BY <1>6, FS_EmptySet
  <2>2. Cardinality(Below(P, i) \cup B)
          = Cardinality(Below(P, i)) + Cardinality(B) - Cardinality(Below(P, i) \cap B)
    BY <1>4, BelowFinite, FS_Union
  <2> HIDE DEF B
  <2> QED BY <1>5, <1>6, <2>1, <2>2, BelowFinite
<1>8. i \in P /\ k = i + 1 => Cardinality(B) = 1
  <2>1. ASSUME i \in P, k = i + 1 PROVE B = {i}
    <3>1. ASSUME NEW p \in P PROVE i <= p /\ p < k <=> p = i
      BY <1>0, <2>1
    <3> QED BY <2>1, <3>1
  <2> QED BY <2>1, FS_Singleton
<1> HIDE DEF B
<1>9. /\ Unshift(i, P) = i - Cardinality(Below(P, i))
      /\ Unshift(k, P) = k - Cardinality(Below(P, k))
      /\ Cardinality(Below(P, i)) \in Nat
  BY BelowFinite
<1> QED BY <1>4, <1>5, <1>7, <1>8, <1>9 DEF Position

\* Outside the set the numbers are in the order of the positions.
LEMMA UnshiftOrder ==
  ASSUME NEW P \in SUBSET Position, NEW i \in Position \ P, NEW k \in Position \ P
  PROVE  /\ i < k <=> Unshift(i, P) < Unshift(k, P)
         /\ i = k <=> Unshift(i, P) = Unshift(k, P)
<1>1. Unshift(i, P) \in Nat /\ Unshift(k, P) \in Nat
  BY BelowFinite
<1>2. i < k => Unshift(i, P) < Unshift(k, P)
  BY UnshiftGrows
<1>3. k < i => Unshift(k, P) < Unshift(i, P)
  BY UnshiftGrows
<1> QED BY <1>1, <1>2, <1>3 DEF Position

\* Every number is the number of a position.
LEMMA PlaceExists ==
  ASSUME NEW P \in SUBSET Position, IsFiniteSet(P), NEW i \in Position
  PROVE  \E j \in Position : j \notin P /\ Unshift(j, P) = i
<1> DEFINE n == Cardinality(P)
           T == {j \in Position : Unshift(j + 1, P) > i}
<1>1. n \in Nat
  BY FS_CardinalityType
<1>2. i + n \in T
  <2>1. i + n \in Position /\ i + n + 1 \in Position
    BY <1>1 DEF Position
  <2>2. Cardinality(Below(P, i + n + 1)) <= n
    <3>1. Below(P, i + n + 1) \in SUBSET P
      BY DEF Below
    <3> QED BY <3>1, FS_Subset
  <2>3. \A k \in Position : /\ Unshift(k, P) = k - Cardinality(Below(P, k))
                            /\ Cardinality(Below(P, k)) \in Nat
    BY BelowFinite
  <2> HIDE DEF n
  <2> QED BY <1>1, <2>1, <2>2, <2>3 DEF Position
<1>3. T \in SUBSET Nat
  BY DEF Position
<1> HIDE DEF T
<1>4. PICK j \in T : \A k \in T : j <= k
  BY <1>2, <1>3, LeastNat
<1>5. j \in Position /\ j + 1 \in Position /\ Unshift(j + 1, P) > i
  BY <1>4 DEF T, Position
<1>6. Unshift(j, P) \in 1 .. j /\ Unshift(j + 1, P) \in Nat
  BY <1>5, BelowFinite
<1>7. Unshift(j, P) <= i
  <2>1. CASE j = 1
    BY <1>6, <2>1 DEF Position
  <2>2. CASE j # 1
    <3>1. j - 1 \in Position /\ j - 1 \notin T
      BY <1>3, <1>4, <1>5, <2>2 DEF Position
    <3>2. ~(Unshift((j - 1) + 1, P) > i)
      BY <3>1 DEF T
    <3>3. (j - 1) + 1 = j
      BY <1>5 DEF Position
    <3> QED BY <1>6, <3>2, <3>3 DEF Position
  <2> QED BY <2>1, <2>2
<1>8. /\ Unshift(j + 1, P) - Unshift(j, P) <= (j + 1) - j
      /\ j \in P => Unshift(j, P) = Unshift(j + 1, P)
  BY <1>5, UnshiftGrows DEF Position
<1> QED BY <1>5, <1>6, <1>7, <1>8 DEF Position

LEMMA PlaceIs ==
  ASSUME NEW P \in SUBSET Position, IsFiniteSet(P), NEW i \in Position
  PROVE  Place(i, P) \in Position \ P /\ Unshift(Place(i, P), P) = i
  BY PlaceExists DEF Place

LEMMA PlaceOfUnshift ==
  ASSUME NEW P \in SUBSET Position, IsFiniteSet(P), NEW j \in Position \ P
  PROVE  Unshift(j, P) \in Position /\ Place(Unshift(j, P), P) = j
<1>1. Unshift(j, P) \in Position
  BY BelowFinite DEF Position
<1> QED BY <1>1, PlaceIs, UnshiftOrder

\* Making room in a set of positions moves each to its place.
LEMMA ShiftedPlaces ==
  ASSUME NEW P \in SUBSET Position, IsFiniteSet(P), NEW S \in SUBSET Position
  PROVE  ShiftedFor(S, P) = {Place(i, P) : i \in S}
<1> DEFINE Room(i) == {j \in i .. (i + Cardinality(P)) : j \notin P /\ Unshift(j, P) = i}
<1>1. ASSUME NEW i \in S PROVE Room(i) = {Place(i, P)}
  <2>1. i \in Position /\ Place(i, P) \in Position \ P /\ Unshift(Place(i, P), P) = i
    BY PlaceIs
  <2>2. Place(i, P) \in i .. (i + Cardinality(P))
    <3>1. Below(P, Place(i, P)) \in SUBSET P
      BY DEF Below
    <3>2. Cardinality(Below(P, Place(i, P))) <= Cardinality(P)
      BY <3>1, FS_Subset
    <3>3. /\ Cardinality(Below(P, Place(i, P))) \in Nat
          /\ i = Place(i, P) - Cardinality(Below(P, Place(i, P)))
      BY <2>1, BelowFinite
    <3>4. Cardinality(P) \in Nat
      BY FS_CardinalityType
    <3> QED BY <2>1, <3>2, <3>3, <3>4 DEF Position
  <2>3. ASSUME NEW j \in Room(i) PROVE j = Place(i, P)
    <3>1. j \in Position \ P /\ Unshift(j, P) = i
      BY <2>1, <2>3, FS_CardinalityType DEF Position
    <3> QED BY <2>1, <3>1, UnshiftOrder
  <2> QED BY <2>1, <2>2, <2>3
<1>2. ShiftedFor(S, P) = UNION {Room(i) : i \in S}
  BY DEF ShiftedFor
<1> HIDE DEF Room
<1> QED BY <1>1, <1>2

LEMMA ImageCount ==
  ASSUME NEW S \in SUBSET Position, IsFiniteSet(S), NEW h \in [S -> Position],
         NEW m \in Position, NEW n \in Position,
         \A p, q \in S : h[p] = h[q] => p = q,
         \A p \in S : p < m <=> h[p] < n
  PROVE  /\ IsFiniteSet({h[p] : p \in S})
         /\ Cardinality(Below({h[p] : p \in S}, n)) = Cardinality(Below(S, m))
<1> DEFINE T == {h[p] : p \in S}
           f == [p \in Below(S, m) |-> h[p]]
<1>1. IsFiniteSet(T)
  <2>1. h \in Surjection(S, T)
    BY DEF Surjection
  <2> HIDE DEF T
  <2> QED BY <2>1, FS_Surjection
<1>2. f \in Bijection(Below(S, m), Below(T, n))
  <2>1. f \in [Below(S, m) -> Below(T, n)]
    BY DEF Below
  <2>2. \A y \in Below(T, n) : \E p \in Below(S, m) : f[p] = y
    BY DEF Below
  <2>3. \A p, q \in Below(S, m) : f[p] = f[q] => p = q
    BY DEF Below
  <2> HIDE DEF T, f
  <2> QED BY <2>1, <2>2, <2>3 DEF Bijection, Surjection, Injection, IsInjective
<1>3. IsFiniteSet(Below(S, m))
  BY BelowFinite
<1> HIDE DEF T, f
<1>4. Cardinality(Below(T, n)) = Cardinality(Below(S, m))
  <2>1. ExistsBijection(Below(S, m), Below(T, n))
    BY <1>2 DEF ExistsBijection
  <2> QED BY <1>3, <2>1, FS_Bijection
<1> QED BY <1>1, <1>4 DEF T

-----------------------------------------------------------------------------
(* The rows that a change set keeps.                                       *)

IsChange(c) ==
  /\ c.deletions \in SUBSET Position /\ IsFiniteSet(c.deletions)
  /\ c.insertions \in SUBSET Position /\ IsFiniteSet(c.insertions)

\* Where the row at j of the new list was in the old one, and the other way round.
OldPlace(j, c) == Place(Unshift(j, c.insertions), c.deletions)
NewPlace(i, c) == Place(Unshift(i, c.deletions), c.insertions)

LEMMA OldPlaceIs ==
  ASSUME NEW c, IsChange(c), NEW j \in Position \ c.insertions
  PROVE  /\ OldPlace(j, c) \in Position \ c.deletions
         /\ Unshift(OldPlace(j, c), c.deletions) = Unshift(j, c.insertions)
         /\ NewPlace(OldPlace(j, c), c) = j
  BY PlaceIs, PlaceOfUnshift DEF IsChange, OldPlace, NewPlace

LEMMA NewPlaceIs ==
  ASSUME NEW c, IsChange(c), NEW i \in Position \ c.deletions
  PROVE  /\ NewPlace(i, c) \in Position \ c.insertions
         /\ Unshift(NewPlace(i, c), c.insertions) = Unshift(i, c.deletions)
         /\ OldPlace(NewPlace(i, c), c) = i
  BY PlaceIs, PlaceOfUnshift DEF IsChange, OldPlace, NewPlace

\* The rows that are kept stay in the same order.
LEMMA SameOrder ==
  ASSUME NEW c, IsChange(c), NEW j \in Position \ c.insertions, NEW k \in Position \ c.insertions
  PROVE  /\ j < k <=> OldPlace(j, c) < OldPlace(k, c)
         /\ j = k <=> OldPlace(j, c) = OldPlace(k, c)
<1>1. /\ j < k <=> Unshift(j, c.insertions) < Unshift(k, c.insertions)
      /\ j = k <=> Unshift(j, c.insertions) = Unshift(k, c.insertions)
  BY UnshiftOrder DEF IsChange
<1>2. /\ OldPlace(j, c) \in Position \ c.deletions
      /\ OldPlace(k, c) \in Position \ c.deletions
      /\ Unshift(OldPlace(j, c), c.deletions) = Unshift(j, c.insertions)
      /\ Unshift(OldPlace(k, c), c.deletions) = Unshift(k, c.insertions)
  BY OldPlaceIs
<1>3. /\ OldPlace(j, c) < OldPlace(k, c) <=>
            Unshift(OldPlace(j, c), c.deletions) < Unshift(OldPlace(k, c), c.deletions)
      /\ OldPlace(j, c) = OldPlace(k, c) <=>
            Unshift(OldPlace(j, c), c.deletions) = Unshift(OldPlace(k, c), c.deletions)
  BY <1>2, UnshiftOrder DEF IsChange
<1> QED BY <1>1, <1>2, <1>3

\* Unshifting with one set and making room with the other: from the new list to
\* the old, and back.
LEMMA PlacesMove ==
  ASSUME NEW c, IsChange(c), NEW S \in SUBSET Position
  PROVE  /\ ShiftedFor(ErasedAt(S, c.insertions), c.deletions)
               = {OldPlace(j, c) : j \in S \ c.insertions}
         /\ ShiftedFor(ErasedAt(S, c.deletions), c.insertions)
               = {NewPlace(i, c) : i \in S \ c.deletions}
<1>1. ErasedAt(S, c.insertions) \in SUBSET Position
  BY PlaceOfUnshift DEF ErasedAt, IsChange
<1>2. ErasedAt(S, c.deletions) \in SUBSET Position
  BY PlaceOfUnshift DEF ErasedAt, IsChange
<1>3. ShiftedFor(ErasedAt(S, c.insertions), c.deletions)
        = {Place(i, c.deletions) : i \in ErasedAt(S, c.insertions)}
  BY <1>1, ShiftedPlaces DEF IsChange
<1>4. ShiftedFor(ErasedAt(S, c.deletions), c.insertions)
        = {Place(i, c.insertions) : i \in ErasedAt(S, c.deletions)}
  BY <1>2, ShiftedPlaces DEF IsChange
<1> QED BY <1>3, <1>4 DEF ErasedAt, OldPlace, NewPlace

-----------------------------------------------------------------------------
(* One change set after another.                                           *)

LEMMA MergeParts ==
  ASSUME NEW c, IsChange(c), NEW d, IsChange(d)
  PROVE  /\ Merge(c, d).deletions
               = c.deletions \cup {OldPlace(x, c) : x \in d.deletions \ c.insertions}
         /\ Merge(c, d).insertions
               = d.insertions \cup {NewPlace(p, d) : p \in c.insertions \ d.deletions}
         /\ IsChange(Merge(c, d))
<1>1. Merge(c, d).deletions
        = c.deletions \cup {OldPlace(x, c) : x \in d.deletions \ c.insertions}
  <2>1. Merge(c, d).deletions
          = c.deletions \cup ShiftedFor(ErasedAt(d.deletions, c.insertions), c.deletions)
    BY DEF Merge
  <2>2. d.deletions \in SUBSET Position
    BY DEF IsChange
  <2> QED BY <2>1, <2>2, PlacesMove
<1>2. Merge(c, d).insertions
        = d.insertions \cup {NewPlace(p, d) : p \in c.insertions \ d.deletions}
  <2>1. Merge(c, d).insertions
          = ShiftedFor(ErasedAt(c.insertions, d.deletions), d.insertions) \cup d.insertions
    BY DEF Merge
  <2>2. c.insertions \in SUBSET Position
    BY DEF IsChange
  <2> QED BY <2>1, <2>2, PlacesMove
<1>3. {OldPlace(x, c) : x \in d.deletions \ c.insertions} \in SUBSET Position
  BY OldPlaceIs DEF IsChange
<1>4. {NewPlace(p, d) : p \in c.insertions \ d.deletions} \in SUBSET Position
  BY NewPlaceIs DEF IsChange
<1>5. IsFiniteSet({OldPlace(x, c) : x \in d.deletions \ c.insertions})
  <2> DEFINE S == d.deletions \ c.insertions
             T == {OldPlace(x, c) : x \in S}
  <2>1. [x \in S |-> OldPlace(x, c)] \in Surjection(S, T)
    BY DEF Surjection
  <2>2. IsFiniteSet(S)
    BY FS_Difference DEF IsChange
  <2> HIDE DEF S, T
  <2>3. IsFiniteSet(T)
    BY <2>1, <2>2, FS_Surjection
  <2> QED BY <2>3 DEF S, T
<1>6. IsFiniteSet({NewPlace(p, d) : p \in c.insertions \ d.deletions})
  <2> DEFINE S == c.insertions \ d.deletions
             T == {NewPlace(p, d) : p \in S}
  <2>1. [p \in S |-> NewPlace(p, d)] \in Surjection(S, T)
    BY DEF Surjection
  <2>2. IsFiniteSet(S)
    BY FS_Difference DEF IsChange
  <2> HIDE DEF S, T
  <2>3. IsFiniteSet(T)
    BY <2>1, <2>2, FS_Surjection
  <2> QED BY <2>3 DEF S, T
<1>7. IsFiniteSet(Merge(c, d).deletions) /\ IsFiniteSet(Merge(c, d).insertions)
  <2>1. IsFiniteSet(c.deletions) /\ IsFiniteSet(d.insertions)
    BY DEF IsChange
  <2>2. /\ IsFiniteSet(c.deletions \cup {OldPlace(x, c) : x \in d.deletions \ c.insertions})
        /\ IsFiniteSet(d.insertions \cup {NewPlace(p, d) : p \in c.insertions \ d.deletions})
    BY <1>5, <1>6, <2>1, FS_Union, Zenon
  <2> QED BY <1>1, <1>2, <2>2, Zenon
<1> QED BY <1>1, <1>2, <1>3, <1>4, <1>7 DEF IsChange

\* The number of a position when two disjoint sets are taken out.
LEMMA UnshiftBoth ==
  ASSUME NEW P \in SUBSET Position, NEW Q \in SUBSET Position, P \cap Q = {},
         NEW i \in Position
  PROVE  Unshift(i, P \cup Q) = i - Cardinality(Below(P, i)) - Cardinality(Below(Q, i))
<1>1. /\ Below(P \cup Q, i) = Below(P, i) \cup Below(Q, i)
      /\ Below(P, i) \cap Below(Q, i) = {}
  BY DEF Below
<1>2. /\ IsFiniteSet(Below(P, i)) /\ Cardinality(Below(P, i)) \in Nat
      /\ IsFiniteSet(Below(Q, i)) /\ Cardinality(Below(Q, i)) \in Nat
  BY BelowFinite
<1>3. Cardinality(Below(P \cup Q, i)) = Cardinality(Below(P, i)) + Cardinality(Below(Q, i))
  <2>1. Cardinality(Below(P, i) \cup Below(Q, i))
          = Cardinality(Below(P, i)) + Cardinality(Below(Q, i))
            - Cardinality(Below(P, i) \cap Below(Q, i))
    BY <1>2, FS_Union
  <2>2. Cardinality(Below(P, i) \cap Below(Q, i)) = 0
    BY <1>1, FS_EmptySet
  <2>3. Cardinality(Below(P \cup Q, i)) = Cardinality(Below(P, i) \cup Below(Q, i))
    BY <1>1, Zenon
  <2> QED BY <1>2, <2>1, <2>2, <2>3
<1>4. Unshift(i, P \cup Q) = i - Cardinality(Below(P \cup Q, i))
  BY BelowFinite
<1> QED BY <1>2, <1>3, <1>4 DEF Position

\* What has been inserted first and what is deleted later, counted together: the
\* same number of rows come before m if one looks at either first.
LEMMA BelowEither ==
  ASSUME NEW P \in SUBSET Position, NEW Q \in SUBSET Position, NEW m \in Position
  PROVE  Cardinality(Below(P, m)) + Cardinality(Below(Q \ P, m))
           = Cardinality(Below(Q, m)) + Cardinality(Below(P \ Q, m))
<1>1. Unshift(m, P \cup (Q \ P)) = m - Cardinality(Below(P, m)) - Cardinality(Below(Q \ P, m))
  BY UnshiftBoth
<1>2. Unshift(m, Q \cup (P \ Q)) = m - Cardinality(Below(Q, m)) - Cardinality(Below(P \ Q, m))
  BY UnshiftBoth
<1>3. P \cup (Q \ P) = Q \cup (P \ Q)
  OBVIOUS
<1>4. /\ Cardinality(Below(P, m)) \in Nat /\ Cardinality(Below(Q \ P, m)) \in Nat
      /\ Cardinality(Below(Q, m)) \in Nat /\ Cardinality(Below(P \ Q, m)) \in Nat
  BY BelowFinite
<1> QED BY <1>1, <1>2, <1>3, <1>4 DEF Position

\* Merge is the composition: what the merged set keeps is kept by both, and the old
\* place of a row is found by going back through one after the other.
LEMMA MergeOld ==
  ASSUME NEW c, IsChange(c), NEW d, IsChange(d), NEW j \in Position
  PROVE  /\ j \notin Merge(c, d).insertions <=>
                j \notin d.insertions /\ OldPlace(j, d) \notin c.insertions
         /\ j \notin Merge(c, d).insertions =>
                OldPlace(j, Merge(c, d)) = OldPlace(OldPlace(j, d), c)
<1> DEFINE D2 == d.deletions \ c.insertions
           I1 == c.insertions \ d.deletions
           D  == {OldPlace(x, c) : x \in D2}
           I  == {NewPlace(p, d) : p \in I1}
           e  == Merge(c, d)
<1>1. e.deletions = c.deletions \cup D /\ e.insertions = d.insertions \cup I /\ IsChange(e)
  BY MergeParts
<1>2. D2 \in SUBSET Position /\ I1 \in SUBSET Position /\ IsFiniteSet(D2) /\ IsFiniteSet(I1)
  BY FS_Difference DEF IsChange
<1> HIDE DEF D2, I1, e
<1>3. D \in SUBSET Position /\ D \cap c.deletions = {}
  BY OldPlaceIs, <1>2 DEF D2
<1>4. I \in SUBSET Position /\ I \cap d.insertions = {}
  BY NewPlaceIs, <1>2 DEF I1
<1>5. j \notin e.insertions <=> j \notin d.insertions /\ OldPlace(j, d) \notin c.insertions
  <2>1. ASSUME j \in I PROVE OldPlace(j, d) \in c.insertions
    BY <2>1, NewPlaceIs, <1>2 DEF I1
  <2>2. ASSUME j \notin d.insertions, OldPlace(j, d) \in c.insertions PROVE j \in I
    <3>1. OldPlace(j, d) \in Position \ d.deletions /\ NewPlace(OldPlace(j, d), d) = j
      BY <2>2, OldPlaceIs
    <3> QED BY <2>2, <3>1 DEF I1
  <2>3. ASSUME j \in d.insertions PROVE j \in e.insertions
    BY <1>1, <2>3
  <2> HIDE DEF I
  <2> QED BY <1>1, <2>1, <2>2, <2>3, <1>4
<1>6. ASSUME j \notin e.insertions PROVE OldPlace(j, e) = OldPlace(OldPlace(j, d), c)
  <2> DEFINE m == OldPlace(j, d)
             o == OldPlace(m, c)
  <2>1. j \in Position \ d.insertions /\ m \in Position \ d.deletions /\ m \notin c.insertions
        /\ Unshift(m, d.deletions) = Unshift(j, d.insertions)
    BY <1>5, <1>6, OldPlaceIs
  <2>2. o \in Position \ c.deletions /\ Unshift(o, c.deletions) = Unshift(m, c.insertions)
    BY <2>1, OldPlaceIs
  <2> HIDE DEF m
  <2>3. o \notin D
    <3>1. ASSUME NEW x \in D2, OldPlace(x, c) = o PROVE FALSE
      <4>1. x \in Position \ c.insertions /\ m \in Position \ c.insertions
        BY <1>2, <2>1 DEF D2
      <4>2. x = m
        BY <3>1, <4>1, SameOrder
      <4> QED BY <2>1, <4>2 DEF D2
    <3> QED BY <3>1
  <2>4. Cardinality(Below(I, j)) = Cardinality(Below(I1, m))
    <3> DEFINE h == [p \in I1 |-> NewPlace(p, d)]
    <3>1. h \in [I1 -> Position]
      BY <1>2, NewPlaceIs DEF I1
    <3>2. \A p, q \in I1 : h[p] = h[q] => p = q
      BY <1>2, NewPlaceIs DEF I1
    <3>3. ASSUME NEW p \in I1 PROVE p < m <=> h[p] < j
      <4>1. NewPlace(p, d) \in Position \ d.insertions /\ OldPlace(NewPlace(p, d), d) = p
        BY <1>2, NewPlaceIs DEF I1
      <4> QED BY <2>1, <4>1, SameOrder DEF m
    <3>4. I = {h[p] : p \in I1}
      OBVIOUS
    <3> HIDE DEF h, I
    <3> QED BY <1>2, <2>1, <3>1, <3>2, <3>3, <3>4, ImageCount
  <2>5. Cardinality(Below(D, o)) = Cardinality(Below(D2, m))
    <3> DEFINE h == [x \in D2 |-> OldPlace(x, c)]
    <3>1. h \in [D2 -> Position]
      BY <1>2, OldPlaceIs DEF D2
    <3>2. \A p, q \in D2 : h[p] = h[q] => p = q
      BY <1>2, SameOrder DEF D2
    <3>3. ASSUME NEW p \in D2 PROVE p < m <=> h[p] < o
      <4>1. p \in Position \ c.insertions /\ m \in Position \ c.insertions
        BY <1>2, <2>1 DEF D2
      <4> QED BY <4>1, SameOrder
    <3>4. D = {h[p] : p \in D2}
      OBVIOUS
    <3> HIDE DEF h, D, o
    <3> QED BY <1>2, <2>1, <2>2, <3>1, <3>2, <3>3, <3>4, ImageCount
  <2> HIDE DEF o, I, D
  <2>6. Unshift(o, e.deletions) = Unshift(j, e.insertions)
    <3>1. /\ Unshift(o, e.deletions)
                = o - Cardinality(Below(c.deletions, o)) - Cardinality(Below(D, o))
          /\ Unshift(j, e.insertions)
                = j - Cardinality(Below(d.insertions, j)) - Cardinality(Below(I, j))
      BY <1>1, <1>3, <1>4, <2>2, UnshiftBoth DEF IsChange
    <3>2. /\ Unshift(o, c.deletions) = o - Cardinality(Below(c.deletions, o))
          /\ Unshift(j, d.insertions) = j - Cardinality(Below(d.insertions, j))
          /\ Unshift(m, c.insertions) = m - Cardinality(Below(c.insertions, m))
          /\ Unshift(m, d.deletions) = m - Cardinality(Below(d.deletions, m))
      BY <2>1, <2>2, BelowFinite DEF IsChange
    <3>3. Cardinality(Below(c.insertions, m)) + Cardinality(Below(D2, m))
            = Cardinality(Below(d.deletions, m)) + Cardinality(Below(I1, m))
      BY <2>1, BelowEither DEF IsChange, D2, I1
    <3>4. /\ Cardinality(Below(c.insertions, m)) \in Nat /\ Cardinality(Below(D2, m)) \in Nat
          /\ Cardinality(Below(d.deletions, m)) \in Nat /\ Cardinality(Below(I1, m)) \in Nat
          /\ Cardinality(Below(c.deletions, o)) \in Nat
          /\ Cardinality(Below(d.insertions, j)) \in Nat
      BY <1>2, <2>1, <2>2, BelowFinite DEF IsChange
    <3>5. o \in Int /\ j \in Int /\ m \in Int
      BY <2>1, <2>2 DEF Position
    <3>6. Unshift(o, e.deletions) = Unshift(o, c.deletions) - Cardinality(Below(D2, m))
      BY <2>5, <3>1, <3>2
    <3>7. Unshift(j, e.insertions) = Unshift(j, d.insertions) - Cardinality(Below(I1, m))
      BY <2>4, <3>1, <3>2
    <3>8. /\ Unshift(o, e.deletions)
                = m - Cardinality(Below(c.insertions, m)) - Cardinality(Below(D2, m))
          /\ Unshift(j, e.insertions)
                = m - Cardinality(Below(d.deletions, m)) - Cardinality(Below(I1, m))
      BY <2>1, <2>2, <3>2, <3>6, <3>7
    <3> QED BY <3>3, <3>4, <3>5, <3>8
  <2>7. o \in Position \ e.deletions
    BY <1>1, <2>2, <2>3
  <2>8. Place(Unshift(o, e.deletions), e.deletions) = o
    BY <1>1, <2>7, PlaceOfUnshift DEF IsChange
  <2> QED BY <2>6, <2>8 DEF OldPlace, o, m
<1> QED BY <1>5, <1>6 DEF e

\* A change set with its modifications.
IsChangeSet(c) ==
  /\ IsChange(c) /\ c.modifications \in SUBSET Position
  /\ c = [deletions |-> c.deletions, insertions |-> c.insertions,
          modifications |-> c.modifications]

LEMMA MergeIsChangeSet ==
  ASSUME NEW c, IsChangeSet(c), NEW d, IsChangeSet(d)
  PROVE  /\ IsChangeSet(Merge(c, d))
         /\ Merge(c, d).modifications
              = {NewPlace(p, d) : p \in c.modifications \ d.deletions} \cup d.modifications
<1>1. IsChange(c) /\ IsChange(d) /\ c.modifications \in SUBSET Position
      /\ d.modifications \in SUBSET Position
  BY DEF IsChangeSet
<1>2. Merge(c, d).modifications
        = ShiftedFor(ErasedAt(c.modifications, d.deletions), d.insertions) \cup d.modifications
  BY DEF Merge
<1>3. Merge(c, d).modifications
        = {NewPlace(p, d) : p \in c.modifications \ d.deletions} \cup d.modifications
  BY <1>1, <1>2, PlacesMove
<1>4. ASSUME NEW p \in c.modifications \ d.deletions PROVE NewPlace(p, d) \in Position
  BY <1>1, NewPlaceIs
<1>5. IsChange(Merge(c, d))
  BY <1>1, MergeParts
<1>6. Merge(c, d) = [deletions |-> Merge(c, d).deletions, insertions |-> Merge(c, d).insertions,
                     modifications |-> Merge(c, d).modifications]
  BY DEF Merge
<1> QED BY <1>1, <1>3, <1>4, <1>5, <1>6 DEF IsChangeSet

\* Which rows a merged change set counts as modified.
LEMMA MergeModified ==
  ASSUME NEW c, IsChangeSet(c), NEW d, IsChangeSet(d), NEW j \in Position
  PROVE  j \in Merge(c, d).modifications <=>
           \/ j \in d.modifications
           \/ j \notin d.insertions /\ OldPlace(j, d) \in c.modifications
<1>1. IsChange(d) /\ c.modifications \in SUBSET Position
  BY DEF IsChangeSet
<1>2. ASSUME NEW p \in c.modifications \ d.deletions, NewPlace(p, d) = j
      PROVE  j \notin d.insertions /\ OldPlace(j, d) \in c.modifications
  BY <1>1, <1>2, NewPlaceIs
<1>3. ASSUME j \notin d.insertions, OldPlace(j, d) \in c.modifications
      PROVE  \E p \in c.modifications \ d.deletions : NewPlace(p, d) = j
  BY <1>1, <1>3, OldPlaceIs
<1>4. Merge(c, d).modifications
        = {NewPlace(p, d) : p \in c.modifications \ d.deletions} \cup d.modifications
  BY MergeIsChangeSet
<1> QED BY <1>2, <1>3, <1>4

-----------------------------------------------------------------------------
(* The sizes of the two lists.                                             *)

\* c leads from a list of n rows to one of m rows: a row that is kept is in the one
\* list if it is in the other.
Leads(c, n, m) ==
  /\ IsChangeSet(c)
  /\ c.deletions \subseteq 1 .. n
  /\ c.insertions \subseteq 1 .. m
  /\ c.modifications \subseteq 1 .. m
  /\ \A j \in Position \ c.insertions : j <= m <=> OldPlace(j, c) <= n

LEMMA MergeLeads ==
  ASSUME NEW c, NEW d, NEW n \in Nat, NEW k \in Nat, NEW m \in Nat,
         Leads(c, n, k), Leads(d, k, m)
  PROVE  Leads(Merge(c, d), n, m)
<1> DEFINE e == Merge(c, d)
<1>1. IsChange(c) /\ IsChange(d) /\ IsChangeSet(c) /\ IsChangeSet(d)
      /\ c.modifications \in SUBSET Position
  BY DEF Leads, IsChangeSet
<1>2. /\ e.deletions = c.deletions \cup {OldPlace(x, c) : x \in d.deletions \ c.insertions}
      /\ e.insertions = d.insertions \cup {NewPlace(p, d) : p \in c.insertions \ d.deletions}
      /\ e.modifications
            = {NewPlace(p, d) : p \in c.modifications \ d.deletions} \cup d.modifications
      /\ IsChangeSet(e)
  BY <1>1, MergeParts, MergeIsChangeSet
<1>3. ASSUME NEW x \in d.deletions \ c.insertions PROVE OldPlace(x, c) \in 1 .. n
  <2>1. x \in Position \ c.insertions /\ x <= k
    BY <1>1 DEF Leads, IsChange
  <2>2. OldPlace(x, c) \in Position /\ OldPlace(x, c) <= n
    BY <1>1, <2>1, OldPlaceIs DEF Leads
  <2> QED BY <2>2 DEF Position
<1>4. ASSUME NEW p \in (c.insertions \cup c.modifications) \ d.deletions
      PROVE  NewPlace(p, d) \in 1 .. m
  <2>1. p \in Position \ d.deletions /\ p <= k
    BY <1>1 DEF Leads, IsChange
  <2>2. NewPlace(p, d) \in Position \ d.insertions /\ OldPlace(NewPlace(p, d), d) = p
    BY <1>1, <2>1, NewPlaceIs
  <2>3. NewPlace(p, d) <= m
    BY <2>1, <2>2 DEF Leads
  <2> QED BY <2>2, <2>3 DEF Position
<1>5. ASSUME NEW j \in Position \ e.insertions PROVE j <= m <=> OldPlace(j, e) <= n
  <2>1. /\ j \in Position \ d.insertions /\ OldPlace(j, d) \notin c.insertions
        /\ OldPlace(j, e) = OldPlace(OldPlace(j, d), c)
    BY <1>1, <1>5, MergeOld
  <2>2. OldPlace(j, d) \in Position \ c.insertions
    BY <1>1, <2>1, OldPlaceIs
  <2> QED BY <2>1, <2>2 DEF Leads
<1> HIDE DEF e
<1>6. e.deletions \subseteq 1 .. n /\ e.insertions \subseteq 1 .. m /\ e.modifications \subseteq 1 .. m
  BY <1>2, <1>3, <1>4 DEF Leads
<1> QED BY <1>2, <1>5, <1>6 DEF Leads, e

\* No change, one insertion, one erasure.
Inserted(i) == [NoChanges EXCEPT !.insertions = {i}]
Erased(i) == [NoChanges EXCEPT !.deletions = {i}]

LEMMA OneIsChangeSet ==
  ASSUME NEW i \in Position
  PROVE  IsChangeSet(NoChanges) /\ IsChangeSet(Inserted(i)) /\ IsChangeSet(Erased(i))
<1>1. IsFiniteSet({}) /\ IsFiniteSet({i}) /\ {} \in SUBSET Position /\ {i} \in SUBSET Position
  BY FS_EmptySet, FS_Singleton
<1>2. IsChangeSet(NoChanges)
  BY <1>1 DEF IsChangeSet, IsChange, NoChanges
<1>3. Inserted(i) = [deletions |-> {}, insertions |-> {i}, modifications |-> {}]
  BY DEF Inserted, NoChanges
<1>4. Erased(i) = [deletions |-> {i}, insertions |-> {}, modifications |-> {}]
  BY DEF Erased, NoChanges
<1>5. IsChangeSet(Inserted(i))
  BY <1>1, <1>3 DEF IsChangeSet, IsChange
<1>6. IsChangeSet(Erased(i))
  BY <1>1, <1>4 DEF IsChangeSet, IsChange
<1> QED BY <1>2, <1>5, <1>6

LEMMA UnshiftNone == ASSUME NEW i \in Position PROVE Unshift(i, {}) = i /\ Place(i, {}) = i
<1>1. ASSUME NEW j \in Position PROVE Unshift(j, {}) = j
  <2>1. {p \in {} : p < j} = {}
    OBVIOUS
  <2>2. Cardinality({p \in {} : p < j}) = 0
    BY <2>1, FS_EmptySet
  <2> QED BY <2>2 DEF Unshift, Position
<1>2. IsFiniteSet({})
  BY FS_EmptySet
<1> QED BY <1>1, <1>2, PlaceOfUnshift

LEMMA UnshiftSingle ==
  ASSUME NEW i \in Position, NEW j \in Position
  PROVE  /\ Unshift(j, {i}) = IF i < j THEN j - 1 ELSE j
         /\ Place(j, {i}) = IF j < i THEN j ELSE j + 1
<1>1. ASSUME NEW k \in Position PROVE Unshift(k, {i}) = IF i < k THEN k - 1 ELSE k
  <2>1. {p \in {i} : p < k} = IF i < k THEN {i} ELSE {}
    OBVIOUS
  <2>2. Cardinality({p \in {i} : p < k}) = IF i < k THEN 1 ELSE 0
    BY <2>1, FS_EmptySet, FS_Singleton
  <2> QED BY <2>2 DEF Unshift, Position
<1>2. IsFiniteSet({i})
  BY FS_Singleton
<1>3. CASE j < i
  <2>1. j \in Position \ {i} /\ Unshift(j, {i}) = j
    BY <1>1, <1>3 DEF Position
  <2>2. Place(Unshift(j, {i}), {i}) = j
    BY <1>2, <2>1, PlaceOfUnshift
  <2> QED BY <1>1, <1>3, <2>1, <2>2
<1>4. CASE ~(j < i)
  <2>1. j + 1 \in Position \ {i} /\ Unshift(j + 1, {i}) = j
    BY <1>1, <1>4 DEF Position
  <2>2. Place(Unshift(j + 1, {i}), {i}) = j + 1
    BY <1>2, <2>1, PlaceOfUnshift
  <2> QED BY <1>1, <1>4, <2>1, <2>2
<1> QED BY <1>3, <1>4

LEMMA NoneLeads ==
  ASSUME NEW n \in Nat
  PROVE  Leads(NoChanges, n, n) /\ \A j \in Position : OldPlace(j, NoChanges) = j
<1>1. \A j \in Position : OldPlace(j, NoChanges) = j
  BY UnshiftNone DEF OldPlace, NoChanges
<1>2. IsChangeSet(NoChanges)
  <2>1. 1 \in Position
    BY DEF Position
  <2> QED BY <2>1, OneIsChangeSet
<1> QED BY <1>1, <1>2 DEF Leads, NoChanges

LEMMA InsertedLeads ==
  ASSUME NEW n \in Nat, NEW i \in 1 .. (n + 1)
  PROVE  /\ Leads(Inserted(i), n, n + 1)
         /\ \A j \in Position \ {i} : OldPlace(j, Inserted(i)) = IF i < j THEN j - 1 ELSE j
<1>1. i \in Position /\ i <= n + 1
  BY DEF Position
<1>2. Inserted(i).deletions = {} /\ Inserted(i).insertions = {i} /\ Inserted(i).modifications = {}
  BY DEF Inserted, NoChanges
<1>3. ASSUME NEW j \in Position \ {i}
      PROVE  OldPlace(j, Inserted(i)) = IF i < j THEN j - 1 ELSE j
  <2>1. Unshift(j, {i}) = (IF i < j THEN j - 1 ELSE j) /\ Unshift(j, {i}) \in Position
    BY <1>1, UnshiftSingle DEF Position
  <2> QED BY <1>2, <2>1, UnshiftNone DEF OldPlace
<1>4. IsChangeSet(Inserted(i))
  BY <1>1, OneIsChangeSet
<1>5. ASSUME NEW j \in Position \ {i} PROVE j <= n + 1 <=> OldPlace(j, Inserted(i)) <= n
  BY <1>1, <1>3 DEF Position
<1> QED BY <1>2, <1>3, <1>4, <1>5 DEF Leads

LEMMA ErasedLeads ==
  ASSUME NEW n \in Nat, NEW i \in 1 .. n
  PROVE  /\ Leads(Erased(i), n, n - 1)
         /\ \A j \in Position : OldPlace(j, Erased(i)) = IF j < i THEN j ELSE j + 1
<1>1. i \in Position /\ i <= n
  BY DEF Position
<1>2. Erased(i).deletions = {i} /\ Erased(i).insertions = {} /\ Erased(i).modifications = {}
  BY DEF Erased, NoChanges
<1>3. ASSUME NEW j \in Position
      PROVE  OldPlace(j, Erased(i)) = IF j < i THEN j ELSE j + 1
  <2>1. OldPlace(j, Erased(i)) = Place(Unshift(j, {}), {i})
    BY <1>2 DEF OldPlace
  <2> QED BY <1>1, <2>1, UnshiftNone, UnshiftSingle
<1>4. IsChangeSet(Erased(i))
  BY <1>1, OneIsChangeSet
<1>5. ASSUME NEW j \in Position PROVE j <= n - 1 <=> OldPlace(j, Erased(i)) <= n
  BY <1>1, <1>3 DEF Position
<1> QED BY <1>2, <1>3, <1>4, <1>5 DEF Leads

LEMMA ShiftedNone == ASSUME NEW S \in SUBSET Position PROVE ShiftedFor(S, {}) = S /\ ErasedAt(S, {}) = S
<1>1. ShiftedFor(S, {}) = {Place(i, {}) : i \in S}
  BY ShiftedPlaces, FS_EmptySet
<1>2. ErasedAt(S, {}) = {Unshift(i, {}) : i \in S}
  BY DEF ErasedAt
<1> QED BY <1>1, <1>2, UnshiftNone

\* One insertion, and one erasure, is merged like any other change set.
LEMMA OneAtATime ==
  ASSUME NEW c, IsChangeSet(c), NEW i \in Position
  PROVE  /\ InsertOne(c, i) = Merge(c, Inserted(i))
         /\ EraseOne(c, i) = Merge(c, Erased(i))
<1>1. c.deletions \in SUBSET Position /\ c.insertions \in SUBSET Position
      /\ c.modifications \in SUBSET Position
  BY DEF IsChangeSet, IsChange
<1>2. /\ Inserted(i).deletions = {} /\ Inserted(i).insertions = {i}
      /\ Inserted(i).modifications = {}
      /\ Erased(i).deletions = {i} /\ Erased(i).insertions = {} /\ Erased(i).modifications = {}
  BY DEF Inserted, Erased, NoChanges
<1>3. ErasedAt({}, c.insertions) = {} /\ ShiftedFor({}, c.deletions) = {}
  BY DEF ErasedAt, ShiftedFor
<1>4. InsertOne(c, i) = Merge(c, Inserted(i))
  <2>1. c.deletions \cup ShiftedFor(ErasedAt({}, c.insertions), c.deletions) = c.deletions
    BY <1>3
  <2>2. ErasedAt(c.insertions, {}) = c.insertions /\ ErasedAt(c.modifications, {}) = c.modifications
    BY <1>1, ShiftedNone
  <2>3. Merge(c, Inserted(i)) =
          [deletions     |-> c.deletions \cup ShiftedFor(ErasedAt({}, c.insertions), c.deletions),
           insertions    |-> ShiftedFor(ErasedAt(c.insertions, {}), {i}) \cup {i},
           modifications |-> ShiftedFor(ErasedAt(c.modifications, {}), {i}) \cup {}]
    BY <1>2, Zenon DEF Merge
  <2> QED BY <2>1, <2>2, <2>3 DEF InsertOne
<1>5. EraseOne(c, i) = Merge(c, Erased(i))
  <2>1. ErasedAt({i}, c.insertions) = IF i \in c.insertions THEN {} ELSE {Unshift(i, c.insertions)}
    BY DEF ErasedAt
  <2>2. c.deletions \cup ShiftedFor(ErasedAt({i}, c.insertions), c.deletions)
          = IF i \in c.insertions THEN c.deletions
            ELSE c.deletions \cup ShiftedFor({Unshift(i, c.insertions)}, c.deletions)
    BY <1>3, <2>1
  <2>3. ErasedAt(c.insertions, {i}) \in SUBSET Position
        /\ ErasedAt(c.modifications, {i}) \in SUBSET Position
    <3>1. ASSUME NEW j \in Position \ {i} PROVE Unshift(j, {i}) \in Position
      BY UnshiftSingle DEF Position
    <3> QED BY <1>1, <3>1 DEF ErasedAt
  <2>4. /\ ShiftedFor(ErasedAt(c.insertions, {i}), {}) = ErasedAt(c.insertions, {i})
        /\ ShiftedFor(ErasedAt(c.modifications, {i}), {}) = ErasedAt(c.modifications, {i})
    BY <2>3, ShiftedNone
  <2>5. Merge(c, Erased(i)) =
          [deletions     |-> c.deletions \cup ShiftedFor(ErasedAt({i}, c.insertions), c.deletions),
           insertions    |-> ShiftedFor(ErasedAt(c.insertions, {i}), {}) \cup {},
           modifications |-> ShiftedFor(ErasedAt(c.modifications, {i}), {}) \cup {}]
    BY <1>2, Zenon DEF Merge
  <2> QED BY <2>2, <2>4, <2>5 DEF EraseOne
<1> QED BY <1>4, <1>5

\* As many rows are kept of the one list as of the other.
LEMMA LeadsCount ==
  ASSUME NEW c, NEW n \in Nat, NEW m \in Nat, Leads(c, n, m)
  PROVE  /\ n - Cardinality(c.deletions) = m - Cardinality(c.insertions)
         /\ Cardinality(c.deletions) \in 0 .. n /\ Cardinality(c.insertions) \in 0 .. m
<1> DEFINE A == (1 .. m) \ c.insertions
           B == (1 .. n) \ c.deletions
           f == [j \in A |-> OldPlace(j, c)]
<1>1. IsChange(c) /\ c.deletions \subseteq 1 .. n /\ c.insertions \subseteq 1 .. m
  BY DEF Leads, IsChangeSet
<1>2. ASSUME NEW j \in A PROVE f[j] \in B /\ NewPlace(f[j], c) = j
  <2>1. j \in Position \ c.insertions /\ j <= m
    BY DEF Position
  <2>2. OldPlace(j, c) \in Position \ c.deletions /\ OldPlace(j, c) <= n
        /\ NewPlace(OldPlace(j, c), c) = j
    BY <1>1, <2>1, OldPlaceIs DEF Leads
  <2> QED BY <2>2 DEF Position
<1>3. ASSUME NEW i \in B PROVE \E j \in A : f[j] = i
  <2>1. i \in Position \ c.deletions /\ i <= n
    BY DEF Position
  <2>2. NewPlace(i, c) \in Position \ c.insertions /\ OldPlace(NewPlace(i, c), c) = i
    BY <1>1, <2>1, NewPlaceIs
  <2>3. NewPlace(i, c) <= m
    BY <2>1, <2>2 DEF Leads
  <2>4. NewPlace(i, c) \in A
    BY <2>2, <2>3 DEF Position
  <2> QED BY <2>2, <2>4
<1>4. IsFiniteSet(A) /\ Cardinality(A) = m - Cardinality(c.insertions)
      /\ Cardinality(c.insertions) \in 0 .. m
  <2>1. IsFiniteSet(1 .. m) /\ Cardinality(1 .. m) = m
    BY FS_Interval
  <2>2. c.insertions = (1 .. m) \cap c.insertions
    BY <1>1
  <2>3. IsFiniteSet(c.insertions) /\ Cardinality(c.insertions) <= m
        /\ Cardinality(c.insertions) \in Nat
    BY <1>1, <2>1, FS_Subset, FS_CardinalityType
  <2>4. IsFiniteSet(A) /\ Cardinality(A) = m - Cardinality((1 .. m) \cap c.insertions)
    BY <2>1, FS_Difference
  <2>5. Cardinality((1 .. m) \cap c.insertions) = Cardinality(c.insertions)
    BY <2>2, Zenon
  <2> HIDE DEF A
  <2> QED BY <2>3, <2>4, <2>5
<1>5. Cardinality(B) = n - Cardinality(c.deletions) /\ Cardinality(c.deletions) \in 0 .. n
  <2>1. IsFiniteSet(1 .. n) /\ Cardinality(1 .. n) = n
    BY FS_Interval
  <2>2. c.deletions = (1 .. n) \cap c.deletions
    BY <1>1
  <2>3. IsFiniteSet(c.deletions) /\ Cardinality(c.deletions) <= n
        /\ Cardinality(c.deletions) \in Nat
    BY <1>1, <2>1, FS_Subset, FS_CardinalityType
  <2>4. Cardinality(B) = n - Cardinality((1 .. n) \cap c.deletions)
    BY <2>1, FS_Difference
  <2>5. Cardinality((1 .. n) \cap c.deletions) = Cardinality(c.deletions)
    BY <2>2, Zenon
  <2> HIDE DEF B
  <2> QED BY <2>3, <2>4, <2>5
<1>6. f \in [A -> B]
  BY <1>2
<1> HIDE DEF A, B
<1>7. \A j, k \in A : f[j] = f[k] => j = k
  BY <1>2
<1> HIDE DEF f
<1>8. f \in Bijection(A, B)
  BY <1>3, <1>6, <1>7 DEF Bijection, Injection, Surjection, IsInjective
<1>9. Cardinality(B) = Cardinality(A)
  BY <1>4, <1>8, FS_Bijection DEF ExistsBijection
<1> QED BY <1>4, <1>5, <1>9

-----------------------------------------------------------------------------
(* What a callback and a table view make of a change set.                  *)

LEMMA FinalizeParts ==
  ASSUME NEW c, IsChangeSet(c)
  PROVE  /\ Finalize(c).deletions = c.deletions
         /\ Finalize(c).insertions = c.insertions
         /\ Finalize(c).modifications = {OldPlace(j, c) : j \in c.modifications \ c.insertions}
         /\ Finalize(c).modificationsNew = c.modifications \ c.insertions
<1>1. IsChange(c) /\ c.modifications \in SUBSET Position
  BY DEF IsChangeSet
<1>2. Finalize(c).modifications
        = ShiftedFor(ErasedAt(c.modifications, c.insertions), c.deletions)
  BY DEF Finalize
<1>3. Finalize(c).modifications = {OldPlace(j, c) : j \in c.modifications \ c.insertions}
  BY <1>1, <1>2, PlacesMove
<1> QED BY <1>3 DEF Finalize

LEMMA OldPositionIs ==
  ASSUME NEW c, IsChangeSet(c), NEW j \in Position \ c.insertions
  PROVE  OldPosition(j, Finalize(c)) = OldPlace(j, c)
<1>1. IsChange(c) /\ c.insertions \in SUBSET Position /\ IsFiniteSet(c.insertions)
      /\ c.deletions \in SUBSET Position /\ IsFiniteSet(c.deletions)
  BY DEF IsChangeSet, IsChange
<1>2. Unshift(j, c.insertions) \in Position
  BY <1>1, PlaceOfUnshift
<1>3. ShiftedFor({Unshift(j, c.insertions)}, c.deletions) = {OldPlace(j, c)}
  <2>1. {Unshift(j, c.insertions)} \in SUBSET Position
    BY <1>2
  <2>2. ShiftedFor({Unshift(j, c.insertions)}, c.deletions)
          = {Place(i, c.deletions) : i \in {Unshift(j, c.insertions)}}
    BY <1>1, <2>1, ShiftedPlaces
  <2> QED BY <2>2 DEF OldPlace
<1>4. OldPosition(j, Finalize(c)) = CHOOSE i \in {OldPlace(j, c)} : TRUE
  BY <1>3, FinalizeParts, Zenon DEF OldPosition
<1> QED BY <1>4

\* A batch of updates with changes that lead from the table's rows to the list's
\* is accepted; and if the rows that were neither inserted nor modified are what
\* they were, the table shows the list.
LEMMA BatchRight ==
  ASSUME NEW T, NEW table \in Seq(T), NEW U, NEW list \in Seq(U), NEW c,
         Leads(c, Len(table), Len(list))
  PROVE  /\ Fits(table, Finalize(c), list)
         /\ (\A j \in DOMAIN list \ (c.insertions \cup c.modifications) :
               list[j] = table[OldPlace(j, c)])
            => BatchUpdate(table, Finalize(c), list) = list
<1> DEFINE f == Finalize(c)
<1>1. IsChange(c) /\ c.modifications \in SUBSET Position /\ IsChangeSet(c)
  BY DEF IsChangeSet, Leads
<1>2. /\ f.deletions = c.deletions /\ f.insertions = c.insertions
      /\ f.modifications = {OldPlace(j, c) : j \in c.modifications \ c.insertions}
  BY <1>1, FinalizeParts
<1> HIDE DEF f
<1>3. DOMAIN table = 1 .. Len(table) /\ DOMAIN list = 1 .. Len(list)
      /\ Len(table) \in Nat /\ Len(list) \in Nat
  OBVIOUS
<1>4. Fits(table, f, list)
  <2>1. ASSUME NEW j \in c.modifications \ c.insertions
        PROVE  OldPlace(j, c) \in DOMAIN table /\ OldPlace(j, c) \notin c.deletions
    <3>1. j \in Position \ c.insertions /\ j <= Len(list)
      BY <1>1, <1>3 DEF Leads
    <3>2. OldPlace(j, c) \in Position \ c.deletions
      BY <1>1, <3>1, OldPlaceIs
    <3>3. OldPlace(j, c) <= Len(table)
      BY <3>1 DEF Leads
    <3> QED BY <1>3, <3>2, <3>3 DEF Position
  <2>2. c.deletions \subseteq DOMAIN table /\ c.insertions \subseteq DOMAIN list
    BY <1>3 DEF Leads
  <2>3. Len(table) - Cardinality(c.deletions) + Cardinality(c.insertions) = Len(list)
    BY <1>3, LeadsCount
  <2> QED BY <1>2, <2>1, <2>2, <2>3 DEF Fits
<1>5. ASSUME \A j \in DOMAIN list \ (c.insertions \cup c.modifications) :
               list[j] = table[OldPlace(j, c)]
      PROVE  BatchUpdate(table, f, list) = list
  <2>1. ASSUME NEW j \in DOMAIN list, j \notin f.insertions,
               OldPosition(j, f) \notin f.modifications
        PROVE  table[OldPosition(j, f)] = list[j]
    <3>1. j \in Position \ c.insertions
      BY <1>2, <1>3, <2>1 DEF Position
    <3>2. OldPosition(j, f) = OldPlace(j, c)
      BY <1>1, <3>1, OldPositionIs DEF f
    <3>3. j \notin c.modifications
      BY <1>2, <2>1, <3>1, <3>2
    <3> QED BY <1>5, <3>1, <3>2, <3>3
  <2>2. BatchUpdate(table, f, list)
          = [j \in DOMAIN list |-> IF j \in f.insertions \/ OldPosition(j, f) \in f.modifications
                                     THEN list[j] ELSE table[OldPosition(j, f)]]
    BY DEF BatchUpdate
  <2>3. BatchUpdate(table, f, list) = [j \in DOMAIN list |-> list[j]]
    BY <2>1, <2>2
  <2> QED BY <2>3
<1> QED BY <1>4, <1>5 DEF f

-----------------------------------------------------------------------------
(* Sequences with one element more or less.                                *)

LEMMA InsertAtIs ==
  ASSUME NEW T, NEW s \in Seq(T), NEW i \in 1 .. (Len(s) + 1), NEW e \in T
  PROVE  /\ InsertAt(s, i, e) \in Seq(T) /\ Len(InsertAt(s, i, e)) = Len(s) + 1
         /\ \A j \in 1 .. (Len(s) + 1) :
              InsertAt(s, i, e)[j] = IF j < i THEN s[j] ELSE IF j = i THEN e ELSE s[j - 1]
<1> DEFINE a == SubSeq(s, 1, i - 1)
           b == SubSeq(s, i, Len(s))
<1>1. a \in Seq(T) /\ Len(a) = i - 1 /\ \A j \in 1 .. (i - 1) : a[j] = s[j]
  OBVIOUS
<1>2. b \in Seq(T) /\ Len(b) = Len(s) - i + 1 /\ \A j \in 1 .. (Len(s) - i + 1) : b[j] = s[i + j - 1]
  OBVIOUS
<1>3. InsertAt(s, i, e) = a \o <<e>> \o b
  BY DEF InsertAt
<1> HIDE DEF a, b
<1>4. a \o <<e>> \in Seq(T) /\ Len(a \o <<e>>) = i
      /\ \A j \in 1 .. i : (a \o <<e>>)[j] = IF j < i THEN a[j] ELSE e
  BY <1>1
<1> DEFINE g == a \o <<e>>
<1> HIDE DEF g
<1>5. g \o b \in Seq(T) /\ Len(g \o b) = Len(s) + 1
      /\ \A j \in 1 .. (Len(s) + 1) : (g \o b)[j] = IF j <= i THEN g[j] ELSE b[j - i]
  BY <1>2, <1>4 DEF g
<1> QED BY <1>1, <1>2, <1>3, <1>4, <1>5 DEF g

LEMMA ConcatIs ==
  ASSUME NEW T, NEW a \in Seq(T), NEW b \in Seq(T)
  PROVE  /\ a \o b \in Seq(T) /\ Len(a \o b) = Len(a) + Len(b)
         /\ \A j \in 1 .. (Len(a) + Len(b)) : (a \o b)[j] = IF j <= Len(a) THEN a[j] ELSE b[j - Len(a)]
  OBVIOUS

LEMMA RemoveAtIs ==
  ASSUME NEW T, NEW s \in Seq(T), NEW i \in 1 .. Len(s)
  PROVE  /\ RemoveAt(s, i) \in Seq(T) /\ Len(RemoveAt(s, i)) = Len(s) - 1
         /\ \A j \in 1 .. (Len(s) - 1) : RemoveAt(s, i)[j] = IF j < i THEN s[j] ELSE s[j + 1]
<1> DEFINE a == SubSeq(s, 1, i - 1)
           b == SubSeq(s, i + 1, Len(s))
<1>1. a \in Seq(T) /\ Len(a) = i - 1 /\ \A j \in 1 .. (i - 1) : a[j] = s[j]
  OBVIOUS
<1>2. b \in Seq(T) /\ Len(b) = Len(s) - i /\ \A j \in 1 .. (Len(s) - i) : b[j] = s[i + j]
  OBVIOUS
<1>3. RemoveAt(s, i) = a \o b
  BY DEF RemoveAt
<1> HIDE DEF a, b
<1>4. a \o b \in Seq(T) /\ Len(a \o b) = Len(s) - 1
      /\ \A j \in 1 .. (Len(s) - 1) : (a \o b)[j] = IF j <= i - 1 THEN a[j] ELSE b[j - (i - 1)]
  <2>1. Len(a) + Len(b) = Len(s) - 1
    BY <1>1, <1>2
  <2>2. a \o b \in Seq(T) /\ Len(a \o b) = Len(a) + Len(b)
        /\ \A j \in 1 .. (Len(a) + Len(b)) : (a \o b)[j] = IF j <= Len(a) THEN a[j] ELSE b[j - Len(a)]
    BY <1>1, <1>2, ConcatIs
  <2> QED BY <1>1, <2>1, <2>2
<1>5. ASSUME NEW j \in 1 .. (Len(s) - 1)
      PROVE  (a \o b)[j] = IF j < i THEN s[j] ELSE s[j + 1]
  <2>1. CASE j < i
    BY <1>1, <1>4, <2>1
  <2>2. CASE ~(j < i)
    <3>1. j - (i - 1) \in 1 .. (Len(s) - i) /\ i + (j - (i - 1)) = j + 1
      BY <2>2
    <3> QED BY <1>2, <1>4, <2>2, <3>1
  <2> QED BY <2>1, <2>2
<1> QED BY <1>3, <1>4, <1>5

(***************************************************************************)
(* ChangeBuilder: for lists of any size and any number of changes, what    *)
(* has been recorded is exactly what happened to each row.  The invariant  *)
(* says of the two change sets together what traced says: the accumulated  *)
(* one leads from the first list to some list in between, the current one  *)
(* from there to the present one, and a row that both keep was where going *)
(* back through both of them ends.                                         *)
(***************************************************************************)
Both == Merge(accumulated, current)

\* Where a change set says that the row at j was: 0 if it is new.
From(c, j) == IF j \in c.insertions THEN 0 ELSE OldPlace(j, c)

RowRecord == [from : Nat, modified : BOOLEAN]

BuilderType ==
  /\ size \in Nat
  /\ traced \in Seq(RowRecord)

BuilderInv ==
  /\ BuilderType
  /\ \E k \in Nat : Leads(accumulated, size, k) /\ Leads(current, k, Len(traced))
  /\ \A j \in 1 .. Len(traced) :
       /\ traced[j].from = From(Both, j)
       /\ traced[j].modified <=> j \in Both.modifications

-----------------------------------------------------------------------------
\* Of three change sets it does not matter which two are merged first: what they
\* say of a row that the last one keeps is what the others say of it.
LEMMA MergeAssociates ==
  ASSUME NEW c, IsChangeSet(c), NEW d, IsChangeSet(d), NEW g, IsChangeSet(g), NEW j \in Position
  PROVE  /\ From(Merge(c, Merge(d, g)), j)
              = IF j \in g.insertions THEN 0 ELSE From(Merge(c, d), OldPlace(j, g))
         /\ j \in Merge(c, Merge(d, g)).modifications <=>
              \/ j \in g.modifications
              \/ j \notin g.insertions /\ OldPlace(j, g) \in Merge(c, d).modifications
<1> DEFINE k == OldPlace(j, g)
           dg == Merge(d, g)
           cd == Merge(c, d)
           e == Merge(c, dg)
<1>1. IsChange(c) /\ IsChange(d) /\ IsChange(g) /\ IsChangeSet(dg) /\ IsChange(dg)
  <2>1. IsChangeSet(dg)
    BY MergeIsChangeSet
  <2> QED BY <2>1 DEF IsChangeSet
<1>2. CASE j \in g.insertions
  <2>1. j \in dg.insertions
    BY <1>1, <1>2, MergeOld
  <2>2. j \in e.insertions
    BY <1>1, <2>1, MergeOld
  <2>3. j \in e.modifications <=> j \in dg.modifications
    BY <1>1, <2>1, MergeModified
  <2>4. j \in dg.modifications <=> j \in g.modifications
    BY <1>1, <1>2, MergeModified
  <2> HIDE DEF e, dg, cd, k
  <2> QED BY <1>2, <2>2, <2>3, <2>4 DEF From, e, dg, cd, k
<1>3. CASE j \notin g.insertions
  <2>1. k \in Position
    BY <1>1, <1>3, OldPlaceIs
  <2>2. /\ j \notin dg.insertions <=> k \notin d.insertions
        /\ j \notin dg.insertions => OldPlace(j, dg) = OldPlace(k, d)
    BY <1>1, <1>3, MergeOld
  <2>3. /\ j \notin e.insertions <=> j \notin dg.insertions /\ OldPlace(j, dg) \notin c.insertions
        /\ j \notin e.insertions => OldPlace(j, e) = OldPlace(OldPlace(j, dg), c)
    BY <1>1, MergeOld
  <2>4. /\ k \notin cd.insertions <=> k \notin d.insertions /\ OldPlace(k, d) \notin c.insertions
        /\ k \notin cd.insertions => OldPlace(k, cd) = OldPlace(OldPlace(k, d), c)
    BY <1>1, <2>1, MergeOld
  <2>5. j \in dg.modifications <=> j \in g.modifications \/ k \in d.modifications
    BY <1>1, <1>3, MergeModified
  <2>6. j \in e.modifications <=>
          \/ j \in dg.modifications
          \/ j \notin dg.insertions /\ OldPlace(j, dg) \in c.modifications
    BY <1>1, MergeModified
  <2>7. k \in cd.modifications <=>
          \/ k \in d.modifications
          \/ k \notin d.insertions /\ OldPlace(k, d) \in c.modifications
    BY <2>1, MergeModified
  <2> HIDE DEF e, dg, cd, k
  <2>8. From(e, j) = From(cd, k)
    BY <2>2, <2>3, <2>4 DEF From
  <2>9. j \in e.modifications <=> j \in g.modifications \/ k \in cd.modifications
    BY <2>2, <2>5, <2>6, <2>7
  <2> QED BY <1>3, <2>8, <2>9 DEF e, dg, cd, k
<1> QED BY <1>2, <1>3

LEMMA InitBuilder == BuilderInit => BuilderInv
<1> SUFFICES ASSUME BuilderInit PROVE BuilderInv
  OBVIOUS
<1> USE DEF BuilderInit
<1>1. size \in Nat /\ Len(traced) = size /\ traced \in Seq(RowRecord)
  BY SizeAssumption DEF RowRecord
<1>2. IsChangeSet(NoChanges) /\ Leads(NoChanges, size, size)
  BY <1>1, NoneLeads, OneIsChangeSet DEF Position
<1>3. ASSUME NEW j \in 1 .. Len(traced) 
      PROVE  traced[j].from = From(Both, j) /\ (traced[j].modified <=> j \in Both.modifications)
  <2>1. j \in Position /\ IsChange(NoChanges)
    BY <1>2 DEF Position, IsChangeSet
  <2>2. j \notin Both.insertions /\ OldPlace(j, Both) = j
    BY <2>1, NoneLeads, MergeOld DEF Both, NoChanges
  <2>3. j \notin Both.modifications
    BY <1>2, <2>1, NoneLeads, MergeModified DEF Both, NoChanges
  <2> QED BY <1>1, <2>2, <2>3 DEF From
<1> QED BY <1>1, <1>2, <1>3 DEF BuilderInv, BuilderType, NoChanges

\* A change recorded in the current set: the sizes still fit, and of each row the
\* two sets together say what they said of the row it was before that change.
LEMMA Recorded ==
  ASSUME BuilderInv, NEW g, IsChangeSet(g), NEW n \in Nat, Leads(g, Len(traced), n),
         current' = Merge(current, g), UNCHANGED <<accumulated, size>>
  PROVE  /\ IsChangeSet(accumulated') /\ IsChangeSet(current')
         /\ \E k \in Nat : Leads(accumulated', size', k) /\ Leads(current', k, n)
         /\ \A j \in Position :
              /\ From(Both', j) = IF j \in g.insertions THEN 0 ELSE From(Both, OldPlace(j, g))
              /\ j \in Both'.modifications <=>
                   \/ j \in g.modifications
                   \/ j \notin g.insertions /\ OldPlace(j, g) \in Both.modifications
<1>1. IsChangeSet(accumulated) /\ IsChangeSet(current) /\ size \in Nat /\ Len(traced) \in Nat
  BY DEF BuilderInv, BuilderType, Leads
<1>2. PICK k \in Nat : Leads(accumulated, size, k) /\ Leads(current, k, Len(traced))
  BY DEF BuilderInv
<1>3. Leads(current', k, n)
  BY <1>1, <1>2, MergeLeads
<1>4. IsChangeSet(current')
  BY <1>1, MergeIsChangeSet
<1>5. Both' = Merge(accumulated, Merge(current, g)) /\ Both = Merge(accumulated, current)
  BY DEF Both
<1>6. ASSUME NEW j \in Position
      PROVE  /\ From(Both', j) = IF j \in g.insertions THEN 0 ELSE From(Both, OldPlace(j, g))
             /\ j \in Both'.modifications <=>
                  \/ j \in g.modifications
                  \/ j \notin g.insertions /\ OldPlace(j, g) \in Both.modifications
  BY <1>1, <1>5, MergeAssociates
<1> QED BY <1>1, <1>2, <1>3, <1>4, <1>6

LEMMA RowsAreRows ==
  ASSUME BuilderInv
  PROVE  /\ traced \in Seq(RowRecord) /\ Len(traced) \in Nat /\ DOMAIN traced = 1 .. Len(traced)
         /\ IsChangeSet(current) /\ IsChangeSet(accumulated) /\ size \in Nat
         /\ \A j \in 1 .. Len(traced) : traced[j].from \in Nat /\ traced[j].modified \in BOOLEAN
<1>1. traced \in Seq(RowRecord) /\ IsChangeSet(current) /\ IsChangeSet(accumulated) /\ size \in Nat
  BY DEF BuilderInv, BuilderType, Leads
<1>2. ASSUME NEW j \in 1 .. Len(traced) PROVE traced[j].from \in Nat /\ traced[j].modified \in BOOLEAN
  <2>1. traced[j] \in RowRecord
    BY <1>1
  <2> QED BY <2>1 DEF RowRecord
<1> QED BY <1>1, <1>2

LEMMA InsertKeeps == BuilderInv /\ (\E i \in 1 .. (Len(traced) + 1) : Insert(i)) => BuilderInv'
<1> SUFFICES ASSUME BuilderInv, NEW i \in 1 .. (Len(traced) + 1), Insert(i) PROVE BuilderInv'
  OBVIOUS
<1> DEFINE new == [from |-> 0, modified |-> FALSE]
           g == Inserted(i)
<1>1. i \in Position /\ Len(traced) + 1 \in Nat
  BY RowsAreRows DEF Position
<1>2. IsChangeSet(g) /\ g.insertions = {i} /\ g.modifications = {}
  BY <1>1, OneIsChangeSet DEF Inserted, NoChanges
<1>3. /\ Leads(g, Len(traced), Len(traced) + 1)
      /\ \A j \in Position \ {i} : OldPlace(j, g) = IF i < j THEN j - 1 ELSE j
  BY InsertedLeads, RowsAreRows
<1>4. current' = Merge(current, g) /\ UNCHANGED <<accumulated, size>>
  BY <1>1, OneAtATime, RowsAreRows DEF Insert, Step
<1> HIDE DEF g
<1>5. /\ IsChangeSet(accumulated') /\ IsChangeSet(current')
      /\ \E k \in Nat : Leads(accumulated', size', k) /\ Leads(current', k, Len(traced) + 1)
      /\ \A j \in Position :
           /\ From(Both', j) = IF j \in g.insertions THEN 0 ELSE From(Both, OldPlace(j, g))
           /\ j \in Both'.modifications <=>
                \/ j \in g.modifications
                \/ j \notin g.insertions /\ OldPlace(j, g) \in Both.modifications
  BY <1>1, <1>2, <1>3, <1>4, Recorded
<1>6. /\ traced' \in Seq(RowRecord) /\ Len(traced') = Len(traced) + 1
      /\ \A j \in 1 .. (Len(traced) + 1) :
           traced'[j] = IF j < i THEN traced[j] ELSE IF j = i THEN new ELSE traced[j - 1]
  <2>1. new \in RowRecord /\ traced' = InsertAt(traced, i, new)
    BY DEF RowRecord, Insert
  <2>2. traced \in Seq(RowRecord)
    BY RowsAreRows
  <2>3. ASSUME NEW x \in RowRecord
        PROVE  /\ InsertAt(traced, i, x) \in Seq(RowRecord) /\ Len(InsertAt(traced, i, x)) = Len(traced) + 1
               /\ \A j \in 1 .. (Len(traced) + 1) :
                    InsertAt(traced, i, x)[j] = IF j < i THEN traced[j] ELSE IF j = i THEN x ELSE traced[j - 1]
    BY <2>2, InsertAtIs
  <2> HIDE DEF new
  <2> QED BY <2>1, <2>3
<1>7. ASSUME NEW j \in 1 .. Len(traced')
      PROVE  /\ traced'[j].from = From(Both', j)
             /\ traced'[j].modified <=> j \in Both'.modifications
  <2>1. j \in Position /\ j \in 1 .. (Len(traced) + 1)
    BY <1>6 DEF Position
  <2>2. CASE j = i
    BY <1>2, <1>5, <1>6, <2>1, <2>2
  <2>3. CASE j # i
    <3> DEFINE k == IF i < j THEN j - 1 ELSE j
    <3>1. OldPlace(j, g) = k /\ j \notin g.insertions /\ j \notin g.modifications
      BY <1>2, <1>3, <2>1, <2>3
    <3>2. k \in 1 .. Len(traced) /\ traced'[j] = traced[k]
      BY <1>6, <2>1, <2>3, RowsAreRows
    <3> HIDE DEF k
    <3>3. traced[k].from = From(Both, k) /\ (traced[k].modified <=> k \in Both.modifications)
      BY <3>2 DEF BuilderInv
    <3>4. From(Both', j) = From(Both, k) /\ (j \in Both'.modifications <=> k \in Both.modifications)
      BY <1>5, <2>1, <3>1
    <3> QED BY <3>2, <3>3, <3>4
  <2> QED BY <2>2, <2>3
<1>9. BuilderType'
  BY <1>4, <1>5, <1>6, RowsAreRows DEF BuilderType
<1> QED BY <1>5, <1>6, <1>7, <1>9 DEF BuilderInv

LEMMA EraseKeeps == BuilderInv /\ (\E i \in DOMAIN traced : Erase(i)) => BuilderInv'
<1> SUFFICES ASSUME BuilderInv, NEW i \in 1 .. Len(traced), Erase(i) PROVE BuilderInv'
  BY RowsAreRows
<1> DEFINE g == Erased(i)
<1>1. i \in Position /\ Len(traced) - 1 \in Nat
  BY RowsAreRows DEF Position
<1>2. IsChangeSet(g) /\ g.insertions = {} /\ g.modifications = {}
  <2>1. IsChangeSet(g)
    BY <1>1, OneIsChangeSet
  <2>2. g.insertions = {} /\ g.modifications = {}
    BY DEF Erased, NoChanges
  <2> QED BY <2>1, <2>2
<1>3. /\ Leads(g, Len(traced), Len(traced) - 1)
      /\ \A j \in Position : OldPlace(j, g) = IF j < i THEN j ELSE j + 1
  BY ErasedLeads, RowsAreRows
<1>4. current' = Merge(current, g) /\ UNCHANGED <<accumulated, size>>
  BY <1>1, OneAtATime, RowsAreRows DEF Erase, Step
<1> HIDE DEF g
<1>5. /\ IsChangeSet(accumulated') /\ IsChangeSet(current')
      /\ \E k \in Nat : Leads(accumulated', size', k) /\ Leads(current', k, Len(traced) - 1)
      /\ \A j \in Position :
           /\ From(Both', j) = IF j \in g.insertions THEN 0 ELSE From(Both, OldPlace(j, g))
           /\ j \in Both'.modifications <=>
                \/ j \in g.modifications
                \/ j \notin g.insertions /\ OldPlace(j, g) \in Both.modifications
  BY <1>1, <1>2, <1>3, <1>4, Recorded
<1>6. /\ traced' \in Seq(RowRecord) /\ Len(traced') = Len(traced) - 1
      /\ \A j \in 1 .. (Len(traced) - 1) : traced'[j] = IF j < i THEN traced[j] ELSE traced[j + 1]
  <2>1. traced' = RemoveAt(traced, i)
    BY DEF Erase
  <2> QED BY <2>1, RemoveAtIs, RowsAreRows
<1>7. ASSUME NEW j \in 1 .. Len(traced')
      PROVE  /\ traced'[j].from = From(Both', j)
             /\ traced'[j].modified <=> j \in Both'.modifications
  <2>1. j \in Position /\ j \in 1 .. (Len(traced) - 1)
    BY <1>6 DEF Position
  <2> DEFINE k == IF j < i THEN j ELSE j + 1
  <2>2. OldPlace(j, g) = k /\ j \notin g.insertions /\ j \notin g.modifications
    BY <1>2, <1>3, <2>1
  <2>3. k \in 1 .. Len(traced) /\ traced'[j] = traced[k]
    BY <1>6, <2>1, RowsAreRows
  <2> HIDE DEF k
  <2>4. traced[k].from = From(Both, k) /\ (traced[k].modified <=> k \in Both.modifications)
    BY <2>3 DEF BuilderInv
  <2>5. From(Both', j) = From(Both, k) /\ (j \in Both'.modifications <=> k \in Both.modifications)
    BY <1>5, <2>1, <2>2
  <2> QED BY <2>3, <2>4, <2>5
<1>9. BuilderType'
  BY <1>4, <1>5, <1>6, RowsAreRows DEF BuilderType
<1> QED BY <1>5, <1>6, <1>7, <1>9 DEF BuilderInv

LEMMA ModifyKeeps == BuilderInv /\ (\E i \in DOMAIN traced : Modify(i)) => BuilderInv'
<1> SUFFICES ASSUME BuilderInv, NEW i \in 1 .. Len(traced), Modify(i) PROVE BuilderInv'
  BY RowsAreRows
<1> DEFINE more == ModifyOne(current, i)
<1>1. /\ traced' = [traced EXCEPT ![i].modified = TRUE] /\ current' = more
      /\ accumulated' = accumulated /\ size' = size
  BY DEF Modify, Step
<1>2. /\ IsChangeSet(current) /\ IsChangeSet(accumulated) /\ i \in Position
  BY RowsAreRows DEF Position
<1>3. /\ more.insertions = current.insertions /\ more.deletions = current.deletions
      /\ more.modifications = current.modifications \cup {i}
      /\ more = [deletions |-> more.deletions, insertions |-> more.insertions,
                 modifications |-> more.modifications]
  <2> DEFINE D == current.deletions
             I == current.insertions
             M == current.modifications
  <2>1. current = [deletions |-> D, insertions |-> I, modifications |-> M]
    BY <1>2 DEF IsChangeSet
  <2>2. more = [current EXCEPT !.modifications = M \cup {i}]
    BY DEF ModifyOne
  <2> HIDE DEF D, I, M, more
  <2>3. more = [deletions |-> D, insertions |-> I, modifications |-> M \cup {i}]
    BY <2>1, <2>2
  <2>4. more.deletions = D /\ more.insertions = I /\ more.modifications = M \cup {i}
    BY <2>3
  <2> QED BY <2>3, <2>4 DEF D, I, M
<1> HIDE DEF more
<1>4. IsChangeSet(more)
  BY <1>2, <1>3 DEF IsChangeSet, IsChange
<1>5. \A j \in Position : OldPlace(j, more) = OldPlace(j, current)
  BY <1>3, Zenon DEF OldPlace
<1>6. PICK k \in Nat : Leads(accumulated, size, k) /\ Leads(current, k, Len(traced))
  BY DEF BuilderInv
<1>7. /\ traced' \in Seq(RowRecord) /\ Len(traced') = Len(traced)
      /\ \A j \in 1 .. Len(traced) : /\ traced'[j].from = traced[j].from
                                   /\ traced'[j].modified = IF j = i THEN TRUE ELSE traced[j].modified
  <2>1. traced \in Seq(RowRecord) /\ traced[i] \in RowRecord
    BY RowsAreRows
  <2>2. traced' = [traced EXCEPT ![i] = [traced[i] EXCEPT !.modified = TRUE]]
    BY <1>1
  <2>3. [traced[i] EXCEPT !.modified = TRUE] \in RowRecord
        /\ [traced[i] EXCEPT !.modified = TRUE].from = traced[i].from
        /\ [traced[i] EXCEPT !.modified = TRUE].modified = TRUE
    BY <2>1 DEF RowRecord
  <2>4. traced' \in Seq(RowRecord) /\ Len(traced') = Len(traced)
        /\ \A j \in 1 .. Len(traced) :
             traced'[j] = IF j = i THEN [traced[i] EXCEPT !.modified = TRUE] ELSE traced[j]
    BY <2>1, <2>2, <2>3
  <2> QED BY <2>3, <2>4
<1>8. Leads(current', k, Len(traced'))
  <2>2. \A j \in Position \ more.insertions : j <= Len(traced) <=> OldPlace(j, more) <= k
    BY <1>3, <1>5, <1>6 DEF Leads
  <2> QED BY <1>1, <1>3, <1>4, <1>6, <1>7, <2>2 DEF Leads
<1>9. ASSUME NEW j \in 1 .. Len(traced')
      PROVE  /\ traced'[j].from = From(Both', j)
             /\ traced'[j].modified <=> j \in Both'.modifications
  <2>1. j \in Position /\ j \in 1 .. Len(traced)
    BY <1>7 DEF Position
  <2>2. Both' = Merge(accumulated, more) /\ Both = Merge(accumulated, current)
    BY <1>1 DEF Both
  <2>3. IsChange(accumulated) /\ IsChange(current) /\ IsChange(more)
    BY <1>2, <1>4 DEF IsChangeSet
  <2>4. /\ j \notin Both'.insertions <=> j \notin more.insertions /\ OldPlace(j, more) \notin accumulated.insertions
        /\ j \notin Both'.insertions => OldPlace(j, Both') = OldPlace(OldPlace(j, more), accumulated)
    BY <2>1, <2>2, <2>3, MergeOld
  <2>5. /\ j \notin Both.insertions <=> j \notin current.insertions /\ OldPlace(j, current) \notin accumulated.insertions
        /\ j \notin Both.insertions => OldPlace(j, Both) = OldPlace(OldPlace(j, current), accumulated)
    BY <2>1, <2>2, <2>3, MergeOld
  <2>6. From(Both', j) = From(Both, j)
    BY <1>3, <1>5, <2>1, <2>4, <2>5 DEF From
  <2>7. j \in Both'.modifications <=>
          \/ j \in more.modifications
          \/ j \notin more.insertions /\ OldPlace(j, more) \in accumulated.modifications
    BY <1>2, <1>4, <2>1, <2>2, MergeModified
  <2>8. j \in Both.modifications <=>
          \/ j \in current.modifications
          \/ j \notin current.insertions /\ OldPlace(j, current) \in accumulated.modifications
    BY <1>2, <2>1, <2>2, MergeModified
  <2>9. j \in Both'.modifications <=> j = i \/ j \in Both.modifications
    BY <1>3, <1>5, <2>1, <2>7, <2>8
  <2>10. traced[j].from = From(Both, j) /\ (traced[j].modified <=> j \in Both.modifications)
    BY <2>1 DEF BuilderInv
  <2> QED BY <1>7, <2>1, <2>6, <2>9, <2>10
<1>11. BuilderType'
  BY <1>1, <1>4, <1>7, RowsAreRows DEF BuilderType
<1> QED BY <1>1, <1>6, <1>8, <1>9, <1>11 DEF BuilderInv

\* Every row of the list the current set began with is deleted, and none is left.
LEMMA ClearKeeps == BuilderInv /\ Clear => BuilderInv'
<1> SUFFICES ASSUME BuilderInv, Clear PROVE BuilderInv'
  OBVIOUS
<1>1. PICK k \in Nat : Leads(accumulated, size, k) /\ Leads(current, k, Len(traced))
  BY DEF BuilderInv
<1>2. /\ traced' = <<>> /\ current' = ClearAll(current, Len(traced))
      /\ accumulated' = accumulated /\ size' = size
  BY DEF Clear, Step
<1>3. Len(traced) + Cardinality(current.deletions) - Cardinality(current.insertions) = k
  <2>1. Len(traced) \in Nat
    BY RowsAreRows
  <2>2. /\ k - Cardinality(current.deletions) = Len(traced) - Cardinality(current.insertions)
        /\ Cardinality(current.deletions) \in 0 .. k /\ Cardinality(current.insertions) \in 0 .. Len(traced)
    BY <1>1, <2>1, LeadsCount, Zenon
  <2> QED BY <2>1, <2>2
<1>4. current' = [deletions |-> 1 .. k, insertions |-> {}, modifications |-> {}]
  BY <1>2, <1>3 DEF ClearAll, NoChanges
<1>5. 1 .. k \in SUBSET Position /\ IsFiniteSet(1 .. k) /\ IsFiniteSet({})
  BY FS_Interval, FS_EmptySet DEF Position
<1>6. IsChangeSet(current') /\ IsChange(current')
  BY <1>4, <1>5 DEF IsChangeSet, IsChange
<1>7. ASSUME NEW j \in Position \ current'.insertions PROVE ~(j <= 0) /\ ~(OldPlace(j, current') <= k)
  <2>1. OldPlace(j, current') \in Position \ (1 .. k)
    BY <1>4, <1>6, OldPlaceIs
  <2> QED BY <2>1 DEF Position
<1>8. Leads(current', k, 0)
  BY <1>4, <1>6, <1>7 DEF Leads
<1>9. Len(traced') = 0 /\ traced' \in Seq(RowRecord)
  BY <1>2
<1>10. BuilderType'
  BY <1>2, <1>6, <1>9, RowsAreRows DEF BuilderType
<1> QED BY <1>1, <1>2, <1>4, <1>8, <1>9, <1>10 DEF BuilderInv

\* The current changes become part of the accumulated ones.
LEMMA AddKeeps == BuilderInv /\ AddChanges => BuilderInv'
<1> SUFFICES ASSUME BuilderInv, AddChanges PROVE BuilderInv'
  OBVIOUS
<1>1. PICK k \in Nat : Leads(accumulated, size, k) /\ Leads(current, k, Len(traced))
  BY DEF BuilderInv
<1>2. /\ traced' = traced /\ current' = NoChanges
      /\ accumulated' = Both /\ size' = size
  BY DEF AddChanges, Step, Both
<1>3. IsChangeSet(Both) /\ IsChangeSet(NoChanges) /\ Leads(Both, size, Len(traced))
      /\ Leads(NoChanges, Len(traced), Len(traced))
  <2>1. 1 \in Position
    BY DEF Position
  <2> QED BY <1>1, <2>1, RowsAreRows, MergeIsChangeSet, OneIsChangeSet, MergeLeads, NoneLeads DEF Both
<1>4. ASSUME NEW j \in 1 .. Len(traced')
      PROVE  /\ traced'[j].from = From(Both', j)
             /\ traced'[j].modified <=> j \in Both'.modifications
  <2>1. j \in Position /\ j \in 1 .. Len(traced) /\ OldPlace(j, NoChanges) = j
    BY <1>2, NoneLeads, RowsAreRows DEF Position
  <2>2. Both' = Merge(Both, NoChanges) /\ IsChange(Both) /\ IsChange(NoChanges)
    BY <1>2, <1>3 DEF Both, IsChangeSet
  <2>3. NoChanges.insertions = {} /\ NoChanges.modifications = {}
    BY DEF NoChanges
  <2>4. From(Both', j) = From(Both, j)
    BY <2>1, <2>2, <2>3, MergeOld DEF From
  <2>5. j \in Both'.modifications <=> j \in Both.modifications
    BY <1>3, <2>1, <2>2, <2>3, MergeModified
  <2>6. traced[j].from = From(Both, j) /\ (traced[j].modified <=> j \in Both.modifications)
    BY <2>1 DEF BuilderInv
  <2> QED BY <1>2, <2>4, <2>5, <2>6
<1>5. BuilderType'
  BY <1>2, <1>3, RowsAreRows DEF BuilderType
<1> QED BY <1>2, <1>3, <1>4, <1>5, RowsAreRows DEF BuilderInv

LEMMA BuilderStep == BuilderInv /\ [BuilderNext]_builderVars => BuilderInv'
<1> SUFFICES ASSUME BuilderInv, [BuilderNext]_builderVars PROVE BuilderInv'
  OBVIOUS
<1>1. CASE UNCHANGED builderVars
  BY <1>1, Zenon DEF builderVars, BuilderInv, BuilderType, Both
<1> QED BY <1>1, InsertKeeps, EraseKeeps, ModifyKeeps, ClearKeeps, AddKeeps DEF BuilderNext

-----------------------------------------------------------------------------
(* What the invariant says of the callback's changes.                      *)

LEMMA BothLeads ==
  ASSUME BuilderInv
  PROVE  /\ IsChangeSet(Both) /\ IsChange(Both) /\ Leads(Both, size, Len(traced))
         /\ Everything = Finalize(Both)
<1>1. PICK k \in Nat : Leads(accumulated, size, k) /\ Leads(current, k, Len(traced))
  BY DEF BuilderInv
<1>2. Leads(Both, size, Len(traced))
  BY <1>1, RowsAreRows, MergeLeads DEF Both
<1>3. Everything = Finalize(Both)
  BY DEF Everything, Both
<1> QED BY <1>2, <1>3 DEF Leads, IsChangeSet

LEMMA ExactHolds == BuilderInv => ChangesExact
<1> SUFFICES ASSUME BuilderInv PROVE ChangesExact
  OBVIOUS
<1> DEFINE I == Both.insertions
           D == Both.deletions
           M == Both.modifications
<1>1. /\ IsChange(Both) /\ D \subseteq 1 .. size /\ I \subseteq 1 .. Len(traced)
      /\ M \subseteq 1 .. Len(traced)
      /\ \A j \in Position \ I : j <= Len(traced) <=> OldPlace(j, Both) <= size
  BY BothLeads DEF Leads
<1>2. /\ Everything.deletions = D /\ Everything.insertions = I
      /\ Everything.modifications = {OldPlace(j, Both) : j \in M \ I}
      /\ Everything.modificationsNew = M \ I
  BY BothLeads, FinalizeParts
<1>3. DOMAIN traced = 1 .. Len(traced) /\ size \in Nat /\ Len(traced) \in Nat
  BY RowsAreRows
<1>4. ASSUME NEW j \in DOMAIN traced
      PROVE  /\ traced[j].from = From(Both, j) /\ traced[j].modified \in BOOLEAN
             /\ traced[j].modified <=> j \in M
             /\ j \in Position
  <2>1. j \in 1 .. Len(traced)
    BY <1>3
  <2>2. traced[j].modified \in BOOLEAN
    BY <2>1, RowsAreRows
  <2> QED BY <2>1, <2>2 DEF BuilderInv, Position
<1>5. ASSUME NEW j \in DOMAIN traced, j \notin I
      PROVE  /\ traced[j].from = OldPlace(j, Both)
             /\ traced[j].from \in (1 .. size) \ D
  <2>1. traced[j].from = OldPlace(j, Both) /\ j \in Position \ I /\ j <= Len(traced)
    BY <1>3, <1>4, <1>5 DEF From
  <2>2. OldPlace(j, Both) \in Position \ D /\ OldPlace(j, Both) <= size
    BY <1>1, <2>1, OldPlaceIs
  <2> QED BY <2>1, <2>2 DEF Position
<1>6. KeptRows = DOMAIN traced \ I
  <2>1. ASSUME NEW j \in DOMAIN traced PROVE traced[j].from # 0 <=> j \notin I
    <3>1. j \in I => traced[j].from = 0
      BY <1>4 DEF From
    <3>2. j \notin I => traced[j].from # 0
      BY <1>5
    <3> QED BY <3>1, <3>2
  <2> QED BY <2>1 DEF KeptRows
<1>7. ASSUME NEW i \in (1 .. size) \ D PROVE \E j \in KeptRows : traced[j].from = i
  <2>1. i \in Position \ D /\ i <= size
    BY DEF Position
  <2> DEFINE j == NewPlace(i, Both)
  <2>2. j \in Position \ I /\ OldPlace(j, Both) = i
    BY <1>1, <2>1, NewPlaceIs
  <2>3. j <= Len(traced)
    BY <1>1, <2>1, <2>2
  <2>4. j \in DOMAIN traced \ I
    BY <1>3, <2>2, <2>3 DEF Position
  <2> HIDE DEF j
  <2> QED BY <1>5, <1>6, <2>2, <2>4
<1> HIDE DEF I, D, M
<1>8. I = DOMAIN traced \ KeptRows
  BY <1>1, <1>3, <1>6
<1>9. D = (1 .. size) \ {traced[j].from : j \in KeptRows}
  BY <1>1, <1>5, <1>6, <1>7
<1>10. {k \in KeptRows : traced[k].modified} = M \ I
  BY <1>1, <1>3, <1>4, <1>6
<1>11. {OldPlace(j, Both) : j \in M \ I} = {traced[j].from : j \in {k \in KeptRows : traced[k].modified}}
  <2>1. \A j \in M \ I : traced[j].from = OldPlace(j, Both)
    BY <1>1, <1>3, <1>5
  <2> QED BY <1>10, <2>1
<1> QED BY <1>2, <1>8, <1>9, <1>10, <1>11 DEF ChangesExact

LEMMA BatchHolds == BuilderInv => BatchExact
<1> SUFFICES ASSUME BuilderInv PROVE BatchExact
  OBVIOUS
<1> DEFINE old == [i \in 1 .. size |-> [from |-> i, modified |-> FALSE]]
<1>1. size \in Nat /\ traced \in Seq(RowRecord) /\ DOMAIN traced = 1 .. Len(traced)
  BY RowsAreRows
<1>2. old \in Seq(RowRecord) /\ Len(old) = size
  BY <1>1 DEF RowRecord
<1>3. ASSUME NEW j \in DOMAIN traced \ (Both.insertions \cup Both.modifications)
      PROVE  traced[j] = old[OldPlace(j, Both)]
  <2>1. j \in 1 .. Len(traced) /\ j \in Position \ Both.insertions /\ j <= Len(traced)
    BY <1>1 DEF Position
  <2>2. traced[j] \in RowRecord
    BY <1>1, <2>1
  <2>3. traced[j].from = OldPlace(j, Both) /\ ~traced[j].modified
    BY <2>1 DEF BuilderInv, From
  <2>4. OldPlace(j, Both) \in Position /\ OldPlace(j, Both) <= size
    BY <2>1, BothLeads, OldPlaceIs DEF Leads
  <2>5. OldPlace(j, Both) \in 1 .. size
    BY <2>4 DEF Position
  <2>6. traced[j] = [from |-> traced[j].from, modified |-> traced[j].modified]
        /\ traced[j].modified \in BOOLEAN
    BY <2>2 DEF RowRecord
  <2>7. traced[j].modified = FALSE
    BY <2>3, <2>6
  <2>8. traced[j] = [from |-> OldPlace(j, Both), modified |-> FALSE]
    BY <2>3, <2>6, <2>7, Zenon
  <2> QED BY <2>5, <2>8
<1> HIDE DEF old
<1>4. Leads(Both, Len(old), Len(traced))
  BY <1>2, BothLeads
<1>5. Fits(old, Finalize(Both), traced) /\ BatchUpdate(old, Finalize(Both), traced) = traced
  <2>1. /\ Fits(old, Finalize(Both), traced)
        /\ (\A j \in DOMAIN traced \ (Both.insertions \cup Both.modifications) :
              traced[j] = old[OldPlace(j, Both)])
             => BatchUpdate(old, Finalize(Both), traced) = traced
    BY <1>1, <1>2, <1>4, BatchRight, Zenon
  <2>2. \A j \in DOMAIN traced \ (Both.insertions \cup Both.modifications) :
          traced[j] = old[OldPlace(j, Both)]
    BY <1>3, Zenon
  <2> QED BY <2>1, <2>2, Zenon
<1> QED BY <1>5, BothLeads DEF BatchExact, old

\* However insertions, erasures, modifications, removals of everything and merges
\* follow one another, and however many there are, the callback is told exactly
\* what happened to each row: by its old and by its new position (finalize).
THEOREM Exact == BuilderSpec => []ChangesExact
<1>1. BuilderSpec => []BuilderInv
  BY InitBuilder, BuilderStep, PTL DEF BuilderSpec
<1> QED BY <1>1, ExactHolds, PTL

\* A table view that shows the first list accepts the batch of updates for these
\* changes, and shows the present list after it.
THEOREM Batch == BuilderSpec => []BatchExact
<1>1. BuilderSpec => []BuilderInv
  BY InitBuilder, BuilderStep, PTL DEF BuilderSpec
<1> QED BY <1>1, BatchHolds, PTL
=============================================================================
