--------------------------- MODULE TagChipsProofs ---------------------------
(***************************************************************************)
(* Proofs about TagChips: whatever the tags, the widths of their chips and *)
(* the sizes of the screen, the lines on the screen show a stretch of the  *)
(* list, and apart from one place no way to break it needs fewer lines.    *)
(*                                                                         *)
(* A line that was laid out downward is tight at its end: the next chip    *)
(* does not fit.  One laid out upward is tight at its beginning.  Filling  *)
(* the screen and scrolling keep the lines in a stack, where the next line *)
(* begins with the chip after the last of the one before, with the lines   *)
(* tight at their beginning above those tight at their end.  Any way to    *)
(* break the chips of a stack of tight lines must break within every line  *)
(* and the chip next to it, so it has at least as many lines.              *)
(***************************************************************************)
EXTENDS TagChips, FiniteSetTheorems, TLAPS

Chip == [at : Nat \ {0}, tag : Tag]

Fst(line) == Head(line).at
Lst(line) == Last(line).at

\* The lines of the present list that are not too wide.
GoodLine(w) ==
  {line \in Seq(Chip) :
     /\ Fst(line) \in 1..Size /\ Lst(line) \in Fst(line)..Size
     /\ line = Line(Fst(line), Lst(line))
     /\ CanFit(Fst(line), Lst(line), w)}

\* Lines that follow each other.
Stack(w) ==
  {ls \in Seq(GoodLine(w)) :
     /\ \A i \in 1..(Len(ls) - 1) : Fst(ls[i + 1]) = Lst(ls[i]) + 1
     /\ \A i, j \in 1..Len(ls) : i < j => Lst(ls[i]) < Fst(ls[j])}

DownTight(line, w) == Lst(line) = Size \/ ~CanFit(Fst(line), Lst(line) + 1, w)
UpTight(line, w) == Fst(line) = 1 \/ ~CanFit(Fst(line) - 1, Lst(line), w)

\* What filling makes from the chip at p on, and up to it.
DownStack(p, w) ==
  {ls \in Stack(w) : /\ \A i \in 1..Len(ls) : DownTight(ls[i], w)
                     /\ ls # <<>> => Fst(ls[1]) = p}
UpStack(p, w) ==
  {ls \in Stack(w) : /\ \A i \in 1..Len(ls) : UpTight(ls[i], w)
                     /\ ls # <<>> => Lst(ls[Len(ls)]) = p}

-----------------------------------------------------------------------------
(* Numbers and recursion.                                                  *)

\* A set of natural numbers that is not empty has a least element.
LEMMA LeastNat ==
  ASSUME NEW T \in SUBSET Nat, T # {}
  PROVE  \E x \in T : \A y \in T : x <= y
<1> DEFINE R == OpToRel(<, Nat)
<1>1. R = {ss \in Nat \X Nat : ss[1] < ss[2]}
  BY Zenon DEF OpToRel
<1>2. IsWellFoundedOn(R, Nat)
  BY NatLessThanWellFounded, Zenon
<1> HIDE DEF R
<1>3. PICK x \in T : \A y \in T : ~(<<y, x>> \in R)
  BY <1>2, WFMin, Zenon
<1>4. ASSUME NEW y \in T, ~(x <= y) PROVE FALSE
  <2>1. <<y, x>> \in R
    BY <1>1, <1>4
  <2> QED BY <1>3, <2>1
<1> QED BY <1>4

LEMMA MinIs ==
  ASSUME NEW T \in SUBSET Nat, T # {}
  PROVE  Min(T) \in T /\ \A x \in T : Min(T) <= x
<1>1. \E x \in T : \A y \in T : x <= y
  BY LeastNat, Zenon
<1> QED BY <1>1 DEF Min

LEMMA MaxIs ==
  ASSUME NEW n \in Nat, NEW T \in SUBSET (0..n), T # {}
  PROVE  Max(T) \in T /\ \A x \in T : x <= Max(T)
<1> DEFINE U == {n - x : x \in T}
<1>1. U \in SUBSET Nat /\ U # {}
  OBVIOUS
<1> HIDE DEF U
<1>2. PICK u \in U : \A y \in U : u <= y
  BY <1>1, LeastNat, Zenon
<1>3. PICK x \in T : u = n - x
  BY DEF U
<1>4. ASSUME NEW y \in T PROVE y <= x
  <2>1. n - y \in U
    BY DEF U
  <2> QED BY <1>2, <1>3, <2>1
<1>5. \A y \in T : x >= y
  BY <1>4
<1>6. Max(T) \in T /\ \A y \in T : Max(T) >= y
  BY <1>5, Zenon DEF Max
<1> QED BY <1>6

\* A set of numbers that has 0, and with each number the next, has all.
LEMMA NatSet ==
  ASSUME NEW T, 0 \in T, \A m \in Nat : m \in T => m + 1 \in T
  PROVE  Nat \subseteq T
<1> DEFINE U == Nat \ T
<1>1. SUFFICES ASSUME U # {} PROVE FALSE
  OBVIOUS
<1>2. PICK x \in U : \A y \in U : x <= y
  BY <1>1, LeastNat, Zenon
<1>3. x \in Nat /\ x # 0
  OBVIOUS
<1>4. x - 1 \in Nat /\ x - 1 \notin U
  BY <1>2, <1>3
<1>5. (x - 1) + 1 \in T
  BY <1>4
<1> QED BY <1>3, <1>5

\* A function defined by a step from each number to the next exists.
Steps(f, X, first, step, n) ==
  f \in [0..n -> X] /\ f[0] = first /\ \A r \in 1..n : f[r] = step[f[r - 1]]

LEMMA StepsExist ==
  ASSUME NEW X, NEW first \in X, NEW step \in [X -> X], NEW n \in Nat
  PROVE  \E f : Steps(f, X, first, step, n)
<1> DEFINE Has(m) == \E f \in [0..m -> X] : f[0] = first /\ \A r \in 1..m : f[r] = step[f[r - 1]]
           T == {m \in Nat : Has(m)}
<1>1. 0 \in T
  <2> DEFINE g == [r \in 0..0 |-> first]
  <2>1. g \in [0..0 -> X] /\ g[0] = first /\ \A r \in 1..0 : g[r] = step[g[r - 1]]
    OBVIOUS
  <2> HIDE DEF g
  <2>2. Has(0)
    BY <2>1
  <2> QED BY <2>2
<1>2. ASSUME NEW m \in Nat, m \in T PROVE m + 1 \in T
  <2>1. PICK f \in [0..m -> X] : f[0] = first /\ \A r \in 1..m : f[r] = step[f[r - 1]]
    BY <1>2
  <2> DEFINE g == [r \in 0..(m + 1) |-> IF r <= m THEN f[r] ELSE step[f[m]]]
  <2>2. f[m] \in X /\ step[f[m]] \in X
    BY <2>1
  <2>3. g \in [0..(m + 1) -> X] /\ g[0] = first
    BY <2>1, <2>2
  <2>4. ASSUME NEW r \in 1..(m + 1) PROVE g[r] = step[g[r - 1]]
    BY <2>1
  <2> HIDE DEF g
  <2>5. Has(m + 1)
    BY <2>3, <2>4
  <2> QED BY <2>5
<1> HIDE DEF T
<1>3. Nat \subseteq T
  BY <1>1, <1>2, NatSet
<1>4. Has(n)
  BY <1>3 DEF T
<1> QED BY <1>4 DEF Steps

-----------------------------------------------------------------------------
(* A line.                                                                 *)

\* A line within another is not wider, and a chip alone is never too wide.
LEMMA WidthGrows ==
  ASSUME NEW a \in Int, NEW b \in Int, NEW c \in Int, NEW d \in Int, NEW w \in Nat,
         c <= a, b <= d
  PROVE  /\ LineWidth(a, b, w) \in Nat /\ LineWidth(c, d, w) \in Nat
         /\ LineWidth(a, b, w) <= LineWidth(c, d, w)
<1> DEFINE Pixels(x, y) == {p \in (x..y) \X (1..w) : p[2] <= ChipWidth(p[1], w)}
<1>1. LineWidth(a, b, w) = Cardinality(Pixels(a, b)) /\ LineWidth(c, d, w) = Cardinality(Pixels(c, d))
  BY DEF LineWidth
<1>2. IsFiniteSet((c..d) \X (1..w))
  <2>1. 1 \in Int /\ w \in Int
    OBVIOUS
  <2>2. IsFiniteSet(c..d) /\ IsFiniteSet(1..w)
    BY <2>1, FS_Interval, Zenon
  <2> QED BY <2>2, FS_Product, Zenon
<1>3. a..b \subseteq c..d
  OBVIOUS
<1>4. Pixels(a, b) \subseteq Pixels(c, d) /\ Pixels(c, d) \subseteq (c..d) \X (1..w)
  BY <1>3
<1> HIDE DEF Pixels
<1>5. IsFiniteSet(Pixels(c, d))
  BY <1>2, <1>4, FS_Subset
<1>6. IsFiniteSet(Pixels(a, b)) /\ Cardinality(Pixels(a, b)) <= Cardinality(Pixels(c, d))
  BY <1>4, <1>5, FS_Subset
<1> QED BY <1>1, <1>5, <1>6, FS_CardinalityType

LEMMA OneFits == ASSUME NEW p \in Int, NEW w \in Nat PROVE CanFit(p, p, w)
<1> DEFINE P == {c \in (p..p) \X (1..w) : c[2] <= ChipWidth(c[1], w)}
           A == p..p
           B == 1..w
<1>1. IsFiniteSet(A) /\ Cardinality(A) = 1 /\ IsFiniteSet(B) /\ Cardinality(B) = w
  <2>1. 1 \in Int /\ w \in Int
    OBVIOUS
  <2>2. /\ IsFiniteSet(p..p) /\ Cardinality(p..p) = IF p > p THEN 0 ELSE p - p + 1
        /\ IsFiniteSet(1..w) /\ Cardinality(1..w) = IF 1 > w THEN 0 ELSE w - 1 + 1
    BY <2>1, FS_Interval, Zenon
  <2> QED BY <2>2
<1>2. P \subseteq A \X B
  OBVIOUS
<1>3. LineWidth(p, p, w) = Cardinality(P)
  BY DEF LineWidth
<1> HIDE DEF P, A, B
<1>4. IsFiniteSet(A \X B) /\ Cardinality(A \X B) = w
  BY <1>1, FS_Product
<1>5. Cardinality(P) <= w
  BY <1>2, <1>4, FS_Subset
<1> QED BY <1>3, <1>5 DEF CanFit

LEMMA FitsWithin ==
  ASSUME NEW a \in Int, NEW b \in Int, NEW c \in Int, NEW d \in Int, NEW w \in Nat,
         c <= a, b <= d, CanFit(c, d, w)
  PROVE  CanFit(a, b, w)
<1>1. /\ LineWidth(a, b, w) \in Nat /\ LineWidth(c, d, w) \in Nat
      /\ LineWidth(a, b, w) <= LineWidth(c, d, w)
  BY WidthGrows, Zenon
<1> QED BY <1>1 DEF CanFit

LEMMA LineIs ==
  ASSUME hashTags \in Seq(Tag), NEW f \in 1..Size, NEW t \in f..Size
  PROVE  /\ Line(f, t) \in Seq(Chip) /\ Line(f, t) # <<>> /\ Len(Line(f, t)) = t - f + 1
         /\ Fst(Line(f, t)) = f /\ Lst(Line(f, t)) = t
         /\ \A i \in DOMAIN Line(f, t) :
              LET chip == Line(f, t)[i]
              IN  chip.at = f + i - 1 /\ chip.at \in 1..Size /\ chip.tag = hashTags[chip.at]
<1> DEFINE n == t - f + 1
           e == Line(f, t)
<1>1. Size \in Nat /\ DOMAIN hashTags = 1..Size /\ n \in Nat \ {0} /\ f \in Nat /\ t \in Nat
  BY DEF Size
<1>2. e = [i \in 1..n |-> [at |-> f + i - 1, tag |-> hashTags[f + i - 1]]]
  BY DEF Line
<1>3. ASSUME NEW i \in 1..n
      PROVE  /\ f + i - 1 \in 1..Size /\ f + i - 1 \in Nat \ {0}
             /\ hashTags[f + i - 1] \in Tag
  BY <1>1
<1>4. \A i \in 1..n : e[i] = [at |-> f + i - 1, tag |-> hashTags[f + i - 1]]
  BY <1>2
<1>5. ASSUME NEW i \in 1..n
      PROVE  e[i] \in Chip /\ e[i].at = f + i - 1 /\ e[i].tag = hashTags[f + i - 1]
  <2> DEFINE at == f + i - 1
             tag == hashTags[f + i - 1]
  <2>1. at \in Nat \ {0} /\ tag \in Tag
    BY <1>3
  <2>2. e[i] = [at |-> at, tag |-> tag]
    BY <1>4
  <2> HIDE DEF at, tag
  <2>3. e[i] \in Chip /\ e[i].at = at /\ e[i].tag = tag
    BY <2>1, <2>2 DEF Chip
  <2> QED BY <2>3 DEF at, tag
<1>6. DOMAIN e = 1..n
  BY <1>2
<1> HIDE DEF e
<1>7. e \in [1..n -> Chip]
  BY <1>2, <1>5, <1>6
<1> HIDE DEF n
<1>8. e \in Seq(Chip) /\ Len(e) = n
  BY <1>1, <1>7
<1>9. \A i \in 1..n : e[i].at = f + i - 1 /\ e[i].tag = hashTags[f + i - 1]
  BY <1>5
<1>10. e # <<>> /\ Head(e) = e[1] /\ Last(e) = e[n]
  BY <1>1, <1>8 DEF Last
<1>11. Fst(e) = f /\ Lst(e) = t
  <2>1. 1 \in 1..n /\ n \in 1..n
    BY <1>1
  <2> QED BY <1>1, <1>9, <1>10, <2>1 DEF Fst, Lst, n
<1> QED BY <1>3, <1>6, <1>8, <1>9, <1>10, <1>11 DEF e, n

LEMMA GoodLineIs ==
  ASSUME hashTags \in Seq(Tag), NEW w \in Nat, NEW line \in GoodLine(w)
  PROVE  /\ Size \in Nat /\ Fst(line) \in Nat /\ Lst(line) \in Nat
         /\ 1 <= Fst(line) /\ Fst(line) <= Lst(line) /\ Lst(line) <= Size
         /\ CanFit(Fst(line), Lst(line), w)
BY DEF GoodLine, Size

LEMMA LineGood ==
  ASSUME hashTags \in Seq(Tag), NEW w \in Nat, NEW f \in 1..Size, NEW t \in f..Size, CanFit(f, t, w)
  PROVE  Line(f, t) \in GoodLine(w)
BY LineIs DEF GoodLine

\* layoutChunk takes as many chips as fit, from one on and up to one.
LEMMA LineDownIs ==
  ASSUME hashTags \in Seq(Tag), NEW w \in Nat, NEW p \in 1..Size
  PROVE  /\ LineDown(p, w) \in GoodLine(w) /\ Fst(LineDown(p, w)) = p
         /\ DownTight(LineDown(p, w), w)
<1> DEFINE T == {q \in p..Size : CanFit(p, q, w)}
<1>1. Size \in Nat /\ p \in T /\ T \subseteq 0..Size
  BY OneFits DEF Size
<1>2. Max(T) \in T /\ \A x \in T : x <= Max(T)
  BY <1>1, MaxIs
<1> DEFINE t == Max(T)
<1>3. LineDown(p, w) = Line(p, t)
  BY DEF LineDown
<1>4. t \in p..Size /\ CanFit(p, t, w)
  BY <1>2
<1>5. t = Size \/ ~CanFit(p, t + 1, w)
  <2>1. SUFFICES ASSUME t # Size, CanFit(p, t + 1, w) PROVE FALSE
    OBVIOUS
  <2>2. t + 1 \in T
    BY <1>1, <1>4, <2>1
  <2> QED BY <1>1, <1>2, <1>4, <2>2
<1> HIDE DEF t
<1>6. Line(p, t) \in GoodLine(w) /\ Fst(Line(p, t)) = p /\ Lst(Line(p, t)) = t
  BY <1>4, LineGood, LineIs
<1> QED BY <1>3, <1>5, <1>6 DEF DownTight

LEMMA LineUpIs ==
  ASSUME hashTags \in Seq(Tag), NEW w \in Nat, NEW p \in 1..Size
  PROVE  /\ LineUp(p, w) \in GoodLine(w) /\ Lst(LineUp(p, w)) = p
         /\ UpTight(LineUp(p, w), w)
<1> DEFINE T == {q \in 1..p : CanFit(q, p, w)}
<1>1. Size \in Nat /\ p \in T /\ T \subseteq Nat
  BY OneFits DEF Size
<1>2. Min(T) \in T /\ \A x \in T : Min(T) <= x
  BY <1>1, MinIs
<1> DEFINE f == Min(T)
<1>3. LineUp(p, w) = Line(f, p)
  BY DEF LineUp
<1>4. f \in 1..Size /\ p \in f..Size /\ CanFit(f, p, w)
  BY <1>1, <1>2
<1>5. f = 1 \/ ~CanFit(f - 1, p, w)
  <2>1. SUFFICES ASSUME f # 1, CanFit(f - 1, p, w) PROVE FALSE
    OBVIOUS
  <2>2. f - 1 \in T
    BY <1>1, <1>2, <2>1
  <2> QED BY <1>1, <1>2, <1>4, <2>2
<1> HIDE DEF f
<1>6. Line(f, p) \in GoodLine(w) /\ Fst(Line(f, p)) = f /\ Lst(Line(f, p)) = p
  BY <1>4, LineGood, LineIs
<1> QED BY <1>3, <1>5, <1>6 DEF UpTight

-----------------------------------------------------------------------------
(* Stacks of lines.                                                        *)

LEMMA JoinIs ==
  ASSUME NEW S, NEW a \in Seq(S), NEW b \in Seq(S)
  PROVE  /\ a \o b \in Seq(S) /\ Len(a \o b) = Len(a) + Len(b)
         /\ \A i \in 1..(Len(a) + Len(b)) :
              (a \o b)[i] = IF i <= Len(a) THEN a[i] ELSE b[i - Len(a)]
OBVIOUS

LEMMA AppendIs == ASSUME NEW S, NEW a \in Seq(S), NEW x \in S PROVE Append(a, x) = a \o <<x>>
OBVIOUS

LEMMA CutIs ==
  ASSUME NEW S, NEW a \in Seq(S), NEW m \in 1..(Len(a) + 1), NEW n \in (m - 1)..Len(a)
  PROVE  /\ SubSeq(a, m, n) \in Seq(S) /\ Len(SubSeq(a, m, n)) = n - m + 1
         /\ \A i \in 1..(n - m + 1) : SubSeq(a, m, n)[i] = a[i + m - 1]
OBVIOUS

LEMMA StackIs ==
  ASSUME hashTags \in Seq(Tag), NEW w \in Nat, NEW ls \in Stack(w)
  PROVE  /\ ls \in Seq(GoodLine(w)) /\ Len(ls) \in Nat /\ Size \in Nat
         /\ \A i \in 1..Len(ls) : /\ ls[i] \in GoodLine(w)
                                  /\ Fst(ls[i]) \in Nat /\ Lst(ls[i]) \in Nat
                                  /\ 1 <= Fst(ls[i]) /\ Fst(ls[i]) <= Lst(ls[i]) /\ Lst(ls[i]) <= Size
         /\ \A i \in 1..(Len(ls) - 1) : Fst(ls[i + 1]) = Lst(ls[i]) + 1
         /\ \A i, j \in 1..Len(ls) : i < j => Lst(ls[i]) < Fst(ls[j])
<1>1. /\ ls \in Seq(GoodLine(w))
      /\ \A i \in 1..(Len(ls) - 1) : Fst(ls[i + 1]) = Lst(ls[i]) + 1
      /\ \A i, j \in 1..Len(ls) : i < j => Lst(ls[i]) < Fst(ls[j])
  BY DEF Stack
<1>2. Size \in Nat /\ Len(ls) \in Nat
  BY <1>1 DEF Size
<1>3. ASSUME NEW i \in 1..Len(ls)
      PROVE  /\ ls[i] \in GoodLine(w)
             /\ Fst(ls[i]) \in Nat /\ Lst(ls[i]) \in Nat
             /\ 1 <= Fst(ls[i]) /\ Fst(ls[i]) <= Lst(ls[i]) /\ Lst(ls[i]) <= Size
  <2>1. ls[i] \in GoodLine(w)
    BY <1>1
  <2> QED BY <2>1, GoodLineIs
<1> QED BY <1>1, <1>2, <1>3

LEMMA StackJoin ==
  ASSUME hashTags \in Seq(Tag), NEW w \in Nat, NEW a \in Stack(w), NEW b \in Stack(w),
         a = <<>> \/ b = <<>> \/ Fst(b[1]) = Lst(a[Len(a)]) + 1
  PROVE  a \o b \in Stack(w)
<1> DEFINE c == a \o b
           m == Len(a)
           n == Len(b)
<1>1. /\ a \in Seq(GoodLine(w)) /\ m \in Nat
      /\ \A i \in 1..m : Fst(a[i]) \in Nat /\ Lst(a[i]) \in Nat /\ Fst(a[i]) <= Lst(a[i])
      /\ \A i \in 1..(m - 1) : Fst(a[i + 1]) = Lst(a[i]) + 1
      /\ \A i, j \in 1..m : i < j => Lst(a[i]) < Fst(a[j])
  BY StackIs
<1>2. /\ b \in Seq(GoodLine(w)) /\ n \in Nat
      /\ \A i \in 1..n : Fst(b[i]) \in Nat /\ Lst(b[i]) \in Nat /\ Fst(b[i]) <= Lst(b[i])
      /\ \A i \in 1..(n - 1) : Fst(b[i + 1]) = Lst(b[i]) + 1
      /\ \A i, j \in 1..n : i < j => Lst(b[i]) < Fst(b[j])
  BY StackIs
<1>3. /\ c \in Seq(GoodLine(w)) /\ Len(c) = m + n
      /\ \A i \in 1..(m + n) : c[i] = IF i <= m THEN a[i] ELSE b[i - m]
  BY <1>1, <1>2, JoinIs
<1>4. m = 0 \/ n = 0 \/ Fst(b[1]) = Lst(a[m]) + 1
  BY <1>1, <1>2
<1> HIDE DEF c, m, n
<1>5. ASSUME NEW i \in 1..((m + n) - 1) PROVE Fst(c[i + 1]) = Lst(c[i]) + 1
  <2>1. CASE i < m
    <3>1. c[i] = a[i] /\ c[i + 1] = a[i + 1] /\ i \in 1..(m - 1)
      BY <1>1, <1>2, <1>3, <2>1
    <3> QED BY <1>1, <3>1
  <2>2. CASE i = m
    <3>1. c[i] = a[m] /\ c[i + 1] = b[1] /\ m # 0 /\ n # 0
      <4>1. i \in 1..(m + n) /\ i + 1 \in 1..(m + n) /\ (i + 1) - m = 1 /\ ~(i + 1 <= m) /\ i <= m
        BY <1>1, <1>2, <2>2
      <4> QED BY <1>1, <1>2, <1>3, <2>2, <4>1
    <3> QED BY <1>4, <3>1
  <2>3. CASE i > m
    <3>1. i \in 1..(m + n) /\ i + 1 \in 1..(m + n) /\ ~(i + 1 <= m) /\ ~(i <= m)
          /\ i - m \in 1..(n - 1) /\ (i + 1) - m = (i - m) + 1
      BY <1>1, <1>2, <2>3
    <3>2. c[i] = b[i - m] /\ c[i + 1] = b[(i - m) + 1]
      BY <1>3, <3>1
    <3> QED BY <1>2, <3>1, <3>2
  <2> QED BY <1>1, <1>2, <2>1, <2>2, <2>3
<1>6. ASSUME NEW i \in 1..m, NEW j \in 1..n PROVE Lst(a[i]) < Fst(b[j])
  <2>1. m \in 1..m /\ 1 \in 1..n
    BY <1>1, <1>2
  <2>2. Lst(a[i]) <= Lst(a[m])
    <3>1. i < m => Lst(a[i]) < Fst(a[m])
      BY <1>1, <2>1
    <3> QED BY <1>1, <2>1, <3>1
  <2>3. Fst(b[1]) <= Fst(b[j])
    <3>1. 1 < j => Lst(b[1]) < Fst(b[j])
      BY <1>2, <2>1
    <3> QED BY <1>2, <2>1, <3>1
  <2>4. Lst(a[m]) < Fst(b[1])
    BY <1>1, <1>2, <1>4, <2>1
  <2> QED BY <1>1, <1>2, <2>1, <2>2, <2>3, <2>4
<1>7. ASSUME NEW i \in 1..(m + n), NEW j \in 1..(m + n), i < j PROVE Lst(c[i]) < Fst(c[j])
  <2>1. CASE j <= m
    <3>1. c[i] = a[i] /\ c[j] = a[j] /\ i \in 1..m /\ j \in 1..m
      BY <1>1, <1>2, <1>3, <1>7, <2>1
    <3> QED BY <1>1, <1>7, <3>1
  <2>2. CASE i > m
    <3>1. c[i] = b[i - m] /\ c[j] = b[j - m] /\ i - m \in 1..n /\ j - m \in 1..n /\ i - m < j - m
      BY <1>1, <1>2, <1>3, <1>7, <2>2
    <3> QED BY <1>2, <3>1
  <2>3. CASE i <= m /\ j > m
    <3>1. c[i] = a[i] /\ c[j] = b[j - m] /\ i \in 1..m /\ j - m \in 1..n
      BY <1>1, <1>2, <1>3, <1>7, <2>3
    <3> QED BY <1>6, <3>1
  <2> QED BY <1>1, <1>2, <2>1, <2>2, <2>3
<1>8. \A i \in 1..(Len(c) - 1) : Fst(c[i + 1]) = Lst(c[i]) + 1
  <2>1. Len(c) = m + n
    BY <1>3
  <2> QED BY <1>5, <2>1, Zenon
<1>9. \A i, j \in 1..Len(c) : i < j => Lst(c[i]) < Fst(c[j])
  <2>1. Len(c) = m + n
    BY <1>3
  <2> QED BY <1>7, <2>1, Zenon
<1>10. c \in Stack(w)
  BY <1>3, <1>8, <1>9, Zenon DEF Stack
<1> QED BY <1>10 DEF c

LEMMA StackCut ==
  ASSUME hashTags \in Seq(Tag), NEW w \in Nat, NEW a \in Stack(w),
         NEW m \in 1..(Len(a) + 1), NEW n \in (m - 1)..Len(a)
  PROVE  SubSeq(a, m, n) \in Stack(w)
<1> DEFINE c == SubSeq(a, m, n)
           k == n - m + 1
<1>1. /\ a \in Seq(GoodLine(w)) /\ Len(a) \in Nat
      /\ \A i \in 1..(Len(a) - 1) : Fst(a[i + 1]) = Lst(a[i]) + 1
      /\ \A i, j \in 1..Len(a) : i < j => Lst(a[i]) < Fst(a[j])
  BY StackIs
<1>2. /\ c \in Seq(GoodLine(w)) /\ Len(c) = k
      /\ \A i \in 1..k : c[i] = a[i + m - 1]
  BY <1>1, CutIs
<1>3. k \in Nat /\ \A i \in 1..k : i + m - 1 \in 1..Len(a)
  BY <1>1
<1> HIDE DEF c
<1>4. ASSUME NEW i \in 1..(k - 1) PROVE Fst(c[i + 1]) = Lst(c[i]) + 1
  <2>1. i \in 1..k /\ i + 1 \in 1..k /\ (i + 1) + m - 1 = (i + m - 1) + 1
        /\ i + m - 1 \in 1..(Len(a) - 1)
    BY <1>1, <1>3
  <2>2. c[i] = a[i + m - 1] /\ c[i + 1] = a[(i + m - 1) + 1]
    BY <1>2, <2>1
  <2> QED BY <1>1, <2>1, <2>2
<1>5. ASSUME NEW i \in 1..k, NEW j \in 1..k, i < j PROVE Lst(c[i]) < Fst(c[j])
  <2>1. i + m - 1 \in 1..Len(a) /\ j + m - 1 \in 1..Len(a) /\ i + m - 1 < j + m - 1
    BY <1>3, <1>5
  <2> QED BY <1>1, <1>2, <2>1
<1> HIDE DEF k
<1>6. c \in Stack(w)
  BY <1>2, <1>4, <1>5 DEF Stack
<1> QED BY <1>6 DEF c

LEMMA StackOne ==
  ASSUME NEW w \in Nat
  PROVE  /\ <<>> \in Stack(w)
         /\ \A line \in GoodLine(w) : <<line>> \in Stack(w)
<1>1. <<>> \in Stack(w)
  BY DEF Stack
<1>2. ASSUME NEW line \in GoodLine(w) PROVE <<line>> \in Stack(w)
  <2> DEFINE s == <<line>>
  <2>1. s \in Seq(GoodLine(w)) /\ Len(s) = 1
    OBVIOUS
  <2> HIDE DEF s
  <2>2. /\ \A i \in 1..(Len(s) - 1) : Fst(s[i + 1]) = Lst(s[i]) + 1
        /\ \A i, j \in 1..Len(s) : i < j => Lst(s[i]) < Fst(s[j])
    BY <2>1
  <2>3. s \in Stack(w)
    BY <2>1, <2>2, Zenon DEF Stack
  <2> QED BY <2>3 DEF s
<1> QED BY <1>1, <1>2

-----------------------------------------------------------------------------
(* Filling the screen.                                                     *)

\* LinearLayoutManager.fill, one line: the next one downward.
LEMMA DownStep ==
  ASSUME hashTags \in Seq(Tag), NEW w \in Nat, NEW p \in Nat \ {0}, NEW ls \in DownStack(p, w),
         NEW next, next = (IF ls = <<>> THEN p ELSE After(Last(ls)))
  PROVE  /\ next \in Nat \ {0}
         /\ next <= Size => /\ Append(ls, LineDown(next, w)) \in DownStack(p, w)
                            /\ Len(Append(ls, LineDown(next, w))) = Len(ls) + 1
         /\ next > Size => (ls = <<>> /\ p > Size) \/ (ls # <<>> /\ Lst(ls[Len(ls)]) = Size)
<1> DEFINE n == Len(ls)
<1>1. /\ ls \in Stack(w) /\ ls \in Seq(GoodLine(w)) /\ n \in Nat /\ Size \in Nat
      /\ \A i \in 1..n : /\ Fst(ls[i]) \in Nat /\ Lst(ls[i]) \in Nat
                         /\ 1 <= Fst(ls[i]) /\ Fst(ls[i]) <= Lst(ls[i]) /\ Lst(ls[i]) <= Size
      /\ \A i \in 1..n : DownTight(ls[i], w)
      /\ ls # <<>> => Fst(ls[1]) = p
  <2>1. ls \in Stack(w) /\ (\A i \in 1..n : DownTight(ls[i], w)) /\ (ls # <<>> => Fst(ls[1]) = p)
    BY DEF DownStack
  <2> QED BY <2>1, StackIs
<1>2. ls # <<>> => n \in 1..n /\ Last(ls) = ls[n]
  BY <1>1 DEF Last
<1>3. ls # <<>> => next = Lst(ls[n]) + 1
  BY <1>2 DEF After, Lst
<1>4. next \in Nat \ {0}
  BY <1>1, <1>2, <1>3
<1>5. next > Size => (ls = <<>> /\ p > Size) \/ (ls # <<>> /\ Lst(ls[n]) = Size)
  BY <1>1, <1>2, <1>3
<1>6. ASSUME next <= Size
      PROVE  Append(ls, LineDown(next, w)) \in DownStack(p, w) /\ Len(Append(ls, LineDown(next, w))) = n + 1
  <2> DEFINE line == LineDown(next, w)
             one == <<line>>
             new == ls \o one
  <2>1. next \in 1..Size
    BY <1>1, <1>4, <1>6
  <2>2. line \in GoodLine(w) /\ Fst(line) = next /\ DownTight(line, w)
    BY <2>1, LineDownIs
  <2> HIDE DEF line
  <2>3. one \in Stack(w) /\ Len(one) = 1 /\ one[1] = line
    BY <2>2, StackOne
  <2> HIDE DEF one
  <2>4. ls = <<>> \/ one = <<>> \/ Fst(one[1]) = Lst(ls[Len(ls)]) + 1
    BY <1>3, <2>2, <2>3
  <2>5. new \in Stack(w)
    BY <1>1, <2>3, <2>4, StackJoin
  <2>6. one \in Seq(GoodLine(w))
    BY <2>3, StackIs
  <2>7. Len(new) = n + 1 /\ \A i \in 1..(n + 1) : new[i] = IF i <= n THEN ls[i] ELSE one[i - n]
    BY <1>1, <2>3, <2>6, JoinIs
  <2>8. new # <<>>
    BY <1>1, <2>7
  <2> HIDE DEF new
  <2>9. ASSUME NEW i \in 1..Len(new) PROVE DownTight(new[i], w)
    <3>1. CASE i <= n
      BY <1>1, <2>7, <3>1
    <3>2. CASE i > n
      <4>1. i \in 1..(n + 1) /\ ~(i <= n) /\ i - n = 1
        BY <1>1, <2>7, <3>2
      <4>2. new[i] = line
        BY <2>3, <2>7, <4>1
      <4> QED BY <2>2, <4>2
    <3> QED BY <1>1, <3>1, <3>2
  <2>10. Fst(new[1]) = p
    <3>1. CASE ls = <<>>
      <4>1. n = 0 /\ next = p
        BY <3>1
      <4>2. new[1] = line
        BY <2>3, <2>7, <4>1
      <4> QED BY <2>2, <4>1, <4>2
    <3>2. CASE ls # <<>>
      <4>1. 1 \in 1..(n + 1) /\ 1 <= n
        BY <1>1, <1>2, <3>2
      <4>2. new[1] = ls[1]
        BY <2>7, <4>1
      <4> QED BY <1>1, <3>2, <4>2
    <3> QED BY <3>1, <3>2
  <2>11. new \in DownStack(p, w)
    BY <2>5, <2>9, <2>10 DEF DownStack
  <2>12. Append(ls, line) = new
    <3>1. Append(ls, line) = ls \o <<line>>
      BY <1>1, <2>2, AppendIs
    <3> QED BY <3>1 DEF new, one
  <2> QED BY <2>7, <2>11, <2>12 DEF line
<1> QED BY <1>4, <1>5, <1>6

\* The next one upward.
LEMMA UpStep ==
  ASSUME hashTags \in Seq(Tag), NEW w \in Nat, NEW p \in Nat, p <= Size, NEW ls \in UpStack(p, w),
         NEW next, next = (IF ls = <<>> THEN p ELSE Before(Head(ls)))
  PROVE  /\ next \in Nat
         /\ next # 0 => /\ <<LineUp(next, w)>> \o ls \in UpStack(p, w)
                        /\ Len(<<LineUp(next, w)>> \o ls) = Len(ls) + 1
         /\ next = 0 => (ls = <<>> /\ p = 0) \/ (ls # <<>> /\ Fst(ls[1]) = 1)
<1> DEFINE n == Len(ls)
<1>1. /\ ls \in Stack(w) /\ ls \in Seq(GoodLine(w)) /\ n \in Nat /\ Size \in Nat
      /\ \A i \in 1..n : /\ Fst(ls[i]) \in Nat /\ Lst(ls[i]) \in Nat
                         /\ 1 <= Fst(ls[i]) /\ Fst(ls[i]) <= Lst(ls[i]) /\ Lst(ls[i]) <= Size
      /\ \A i \in 1..n : UpTight(ls[i], w)
      /\ ls # <<>> => Lst(ls[n]) = p
  <2>1. ls \in Stack(w) /\ (\A i \in 1..n : UpTight(ls[i], w)) /\ (ls # <<>> => Lst(ls[n]) = p)
    BY DEF UpStack
  <2> QED BY <2>1, StackIs
<1>2. ls # <<>> => 1 \in 1..n /\ Head(ls) = ls[1]
  BY <1>1
<1>3. ls # <<>> => next = Fst(ls[1]) - 1
  BY <1>2 DEF Before, Fst
<1>4. next \in Nat /\ next <= Size
  BY <1>1, <1>2, <1>3
<1>5. next = 0 => (ls = <<>> /\ p = 0) \/ (ls # <<>> /\ Fst(ls[1]) = 1)
  BY <1>1, <1>2, <1>3
<1>6. ASSUME next # 0
      PROVE  <<LineUp(next, w)>> \o ls \in UpStack(p, w) /\ Len(<<LineUp(next, w)>> \o ls) = n + 1
  <2> DEFINE line == LineUp(next, w)
             one == <<line>>
             new == one \o ls
  <2>1. next \in 1..Size
    BY <1>1, <1>4, <1>6
  <2>2. line \in GoodLine(w) /\ Lst(line) = next /\ UpTight(line, w)
    BY <2>1, LineUpIs
  <2> HIDE DEF line
  <2>3. one \in Stack(w) /\ Len(one) = 1 /\ one[1] = line
    BY <2>2, StackOne
  <2> HIDE DEF one
  <2>4. one = <<>> \/ ls = <<>> \/ Fst(ls[1]) = Lst(one[Len(one)]) + 1
    BY <1>1, <1>2, <1>3, <2>2, <2>3
  <2>5. new \in Stack(w)
    BY <1>1, <2>3, <2>4, StackJoin
  <2>6. one \in Seq(GoodLine(w))
    BY <2>3, StackIs
  <2>7. Len(new) = n + 1 /\ \A i \in 1..(n + 1) : new[i] = IF i <= 1 THEN one[i] ELSE ls[i - 1]
    <3>1. Len(new) = Len(one) + n
          /\ \A i \in 1..(Len(one) + n) : new[i] = IF i <= Len(one) THEN one[i] ELSE ls[i - Len(one)]
      BY <1>1, <2>6, JoinIs
    <3> QED BY <1>1, <2>3, <3>1
  <2>8. new # <<>>
    BY <1>1, <2>7
  <2> HIDE DEF new
  <2>9. ASSUME NEW i \in 1..Len(new) PROVE UpTight(new[i], w)
    <3>1. CASE i = 1
      <4>1. new[i] = line
        BY <1>1, <2>3, <2>7, <3>1
      <4> QED BY <2>2, <4>1
    <3>2. CASE i # 1
      <4>1. i \in 1..(n + 1) /\ ~(i <= 1) /\ i - 1 \in 1..n
        BY <1>1, <2>7, <3>2
      <4>2. new[i] = ls[i - 1]
        BY <2>7, <4>1
      <4> QED BY <1>1, <4>1, <4>2
    <3> QED BY <3>1, <3>2
  <2>10. Lst(new[Len(new)]) = p
    <3>1. CASE ls = <<>>
      <4>1. n = 0 /\ next = p
        BY <3>1
      <4>2. new[Len(new)] = line
        BY <2>3, <2>7, <4>1
      <4> QED BY <2>2, <4>1, <4>2
    <3>2. CASE ls # <<>>
      <4>1. n + 1 \in 1..(n + 1) /\ ~(n + 1 <= 1) /\ (n + 1) - 1 = n
        BY <1>1, <1>2, <3>2
      <4>2. new[n + 1] = ls[n]
        BY <2>7, <4>1
      <4> QED BY <1>1, <2>7, <3>2, <4>2
    <3> QED BY <3>1, <3>2
  <2>11. new \in UpStack(p, w)
    BY <2>5, <2>9, <2>10 DEF UpStack
  <2>12. <<line>> \o ls = new
    BY DEF new, one
  <2> QED BY <2>7, <2>11, <2>12 DEF line
<1> QED BY <1>4, <1>5, <1>6

\* What fill makes of a screen with room lines: it stops when the room is taken or
\* when the list ends.
LEMMA FillEndIs ==
  ASSUME hashTags \in Seq(Tag), NEW w \in Nat, NEW p \in Nat \ {0}, NEW room \in Nat
  PROVE  LET ls == FillEnd(p, room, w)
         IN  /\ ls \in DownStack(p, w) /\ Len(ls) <= room
             /\ \/ Len(ls) = room
                \/ ls = <<>> /\ p > Size
                \/ ls # <<>> /\ Lst(ls[Len(ls)]) = Size
<1> DEFINE X == DownStack(p, w)
           Next1(ls) == IF ls = <<>> THEN p ELSE After(Last(ls))
           Step(ls) == IF Next1(ls) > Size THEN ls ELSE Append(ls, LineDown(Next1(ls), w))
           step == [ls \in X |-> Step(ls)]
           Fill(g) == g = [r \in 0..room |-> IF r = 0 THEN <<>> ELSE Step(g[r - 1])]
           fill == CHOOSE g : Fill(g)
           Ends(ls) == (ls = <<>> /\ p > Size) \/ (ls # <<>> /\ Lst(ls[Len(ls)]) = Size)
           Fine(ls, r) == ls \in X /\ Len(ls) <= r /\ (Len(ls) = r \/ Ends(ls))
<1>1. FillEnd(p, room, w) = fill[room]
  BY DEF FillEnd
<1>2. <<>> \in X
  BY StackOne DEF DownStack
<1>3. ASSUME NEW ls \in X, NEW r \in Nat, Fine(ls, r)
      PROVE  Step(ls) \in X /\ Fine(Step(ls), r + 1)
  <2> DEFINE next == Next1(ls)
  <2>1. next = (IF ls = <<>> THEN p ELSE After(Last(ls)))
    OBVIOUS
  <2>2. Len(ls) \in Nat /\ Size \in Nat
    BY StackIs DEF DownStack
  <2> HIDE DEF next
  <2>3. /\ next \in Nat \ {0}
        /\ next <= Size => /\ Append(ls, LineDown(next, w)) \in DownStack(p, w)
                           /\ Len(Append(ls, LineDown(next, w))) = Len(ls) + 1
        /\ next > Size => Ends(ls)
    BY <2>1, DownStep
  <2>4. CASE next > Size
    <3>1. Step(ls) = ls
      BY <2>4 DEF next
    <3>2. Ends(ls)
      BY <2>3, <2>4
    <3> HIDE DEF Step, Ends, X
    <3> QED BY <1>3, <2>2, <3>1, <3>2
  <2>5. CASE next <= Size
    <3>1. Step(ls) = Append(ls, LineDown(next, w))
      BY <2>2, <2>3, <2>5 DEF next
    <3>2. Step(ls) \in X /\ Len(Step(ls)) = Len(ls) + 1
      BY <2>3, <2>5, <3>1
    <3>3. Len(ls) = r \/ Ends(ls)
      BY <1>3
    <3>4. ~Ends(ls)
      <4>1. ls # <<>> => next = Lst(ls[Len(ls)]) + 1
        BY <2>1, <2>2 DEF After, Lst, Last
      <4>2. ls = <<>> => next = p
        BY <2>1
      <4>3. ls # <<>> => Lst(ls[Len(ls)]) \in Nat
        <5>1. ls # <<>> => Len(ls) \in 1..Len(ls)
          BY <2>2, StackIs DEF DownStack
        <5> QED BY <5>1, StackIs DEF DownStack
      <4> QED BY <2>2, <2>5, <4>1, <4>2, <4>3
    <3> HIDE DEF Step, Ends, X
    <3> QED BY <2>2, <3>2, <3>3, <3>4
  <2> QED BY <2>2, <2>3, <2>4, <2>5
<1>4. ASSUME NEW ls \in X PROVE Step(ls) \in X
  <2>1. ls \in Stack(w) /\ Size \in Nat
    BY StackIs DEF DownStack
  <2> DEFINE next == Next1(ls)
  <2>2. next = (IF ls = <<>> THEN p ELSE After(Last(ls)))
    OBVIOUS
  <2> HIDE DEF next
  <2>3. /\ next \in Nat \ {0}
        /\ next <= Size => Append(ls, LineDown(next, w)) \in DownStack(p, w)
    BY <2>2, DownStep
  <2> QED BY <2>1, <2>3 DEF next
<1> HIDE DEF X, Step, Ends
<1>5. step \in [X -> X]
  BY <1>4
<1> HIDE DEF step
<1>6. \E f : Steps(f, X, <<>>, step, room)
  BY <1>2, <1>5, StepsExist, Zenon
<1>7. \E f : Fill(f)
  <2> PICK f : Steps(f, X, <<>>, step, room)
    BY <1>6
  <2>0. f \in [0..room -> X] /\ f[0] = <<>> /\ \A r \in 1..room : f[r] = step[f[r - 1]]
    BY DEF Steps
  <2>1. ASSUME NEW r \in 0..room PROVE f[r] = IF r = 0 THEN <<>> ELSE Step(f[r - 1])
    <3>1. CASE r = 0
      BY <2>0, <3>1
    <3>2. CASE r # 0
      <4>1. r \in 1..room /\ r - 1 \in 0..room
        BY <3>2
      <4>2. f[r - 1] \in X
        BY <2>0, <4>1
      <4>3. f[r] = step[f[r - 1]] /\ step[f[r - 1]] = Step(f[r - 1])
        BY <2>0, <4>1, <4>2 DEF step
      <4> QED BY <3>2, <4>3
    <3> QED BY <3>1, <3>2
  <2>2. f = [r \in 0..room |-> f[r]]
    BY <2>0
  <2>3. Fill(f)
    BY <2>1, <2>2
  <2> QED BY <2>3
<1>8. Fill(fill)
  <2> HIDE DEF Fill
  <2> QED BY <1>7, Zenon
<1> HIDE DEF fill
<1>9. fill[0] = <<>> /\ \A r \in 1..room : fill[r] = Step(fill[r - 1])
  <2>1. \A r \in 0..room : fill[r] = IF r = 0 THEN <<>> ELSE Step(fill[r - 1])
    BY <1>8
  <2> QED BY <2>1
<1> DEFINE T == {r \in Nat : r <= room => Fine(fill[r], r)}
<1>10. 0 \in T
  BY <1>2, <1>9
<1>11. ASSUME NEW r \in Nat, r \in T PROVE r + 1 \in T
  <2>1. SUFFICES ASSUME r + 1 <= room PROVE Fine(fill[r + 1], r + 1)
    OBVIOUS
  <2>2. Fine(fill[r], r)
    BY <1>11, <2>1
  <2>3. fill[r + 1] = Step(fill[r])
    <3>1. r + 1 \in 1..room /\ (r + 1) - 1 = r
      BY <2>1
    <3> QED BY <1>9, <3>1
  <2>4. Fine(Step(fill[r]), r + 1)
    BY <1>3, <2>2
  <2> HIDE DEF Fine
  <2> QED BY <2>3, <2>4
<1> HIDE DEF T
<1>12. room \in T
  BY <1>10, <1>11, NatSet
<1>13. Fine(fill[room], room)
  BY <1>12 DEF T
<1> QED BY <1>1, <1>13 DEF X, Ends

LEMMA FillStartIs ==
  ASSUME hashTags \in Seq(Tag), NEW w \in Nat, NEW p \in Nat, p <= Size, NEW room \in Nat
  PROVE  LET ls == FillStart(p, room, w)
         IN  /\ ls \in UpStack(p, w) /\ Len(ls) <= room
             /\ \/ Len(ls) = room
                \/ ls = <<>> /\ p = 0
                \/ ls # <<>> /\ Fst(ls[1]) = 1
<1> DEFINE X == UpStack(p, w)
           Next1(ls) == IF ls = <<>> THEN p ELSE Before(Head(ls))
           Step(ls) == IF Next1(ls) = 0 THEN ls ELSE <<LineUp(Next1(ls), w)>> \o ls
           step == [ls \in X |-> Step(ls)]
           Fill(g) == g = [r \in 0..room |-> IF r = 0 THEN <<>> ELSE Step(g[r - 1])]
           fill == CHOOSE g : Fill(g)
           Ends(ls) == (ls = <<>> /\ p = 0) \/ (ls # <<>> /\ Fst(ls[1]) = 1)
           Fine(ls, r) == ls \in X /\ Len(ls) <= r /\ (Len(ls) = r \/ Ends(ls))
<1>1. FillStart(p, room, w) = fill[room]
  BY DEF FillStart
<1>2. <<>> \in X
  BY StackOne DEF UpStack
<1>3. ASSUME NEW ls \in X, NEW r \in Nat, Fine(ls, r)
      PROVE  Step(ls) \in X /\ Fine(Step(ls), r + 1)
  <2> DEFINE next == Next1(ls)
  <2>1. next = (IF ls = <<>> THEN p ELSE Before(Head(ls)))
    OBVIOUS
  <2>2. Len(ls) \in Nat /\ Size \in Nat
    BY StackIs DEF UpStack
  <2> HIDE DEF next
  <2>3. /\ next \in Nat
        /\ next # 0 => /\ <<LineUp(next, w)>> \o ls \in UpStack(p, w)
                       /\ Len(<<LineUp(next, w)>> \o ls) = Len(ls) + 1
        /\ next = 0 => Ends(ls)
    BY <2>1, UpStep
  <2>4. CASE next = 0
    <3>1. Step(ls) = ls
      BY <2>4 DEF next
    <3>2. Ends(ls)
      BY <2>3, <2>4
    <3> HIDE DEF Step, Ends, X
    <3> QED BY <1>3, <2>2, <3>1, <3>2
  <2>5. CASE next # 0
    <3>1. Step(ls) = <<LineUp(next, w)>> \o ls
      BY <2>5 DEF next
    <3>2. Step(ls) \in X /\ Len(Step(ls)) = Len(ls) + 1
      BY <2>3, <2>5, <3>1
    <3>3. Len(ls) = r \/ Ends(ls)
      BY <1>3
    <3>4. ~Ends(ls)
      <4>1. ls # <<>> => next = Fst(ls[1]) - 1
        <5>1. ls # <<>> => Head(ls) = ls[1]
          BY StackIs DEF UpStack
        <5> QED BY <2>1, <5>1 DEF Before, Fst
      <4>2. ls = <<>> => next = p
        BY <2>1
      <4> QED BY <2>5, <4>1, <4>2
    <3> HIDE DEF Step, Ends, X
    <3> QED BY <2>2, <3>2, <3>3, <3>4
  <2> QED BY <2>4, <2>5
<1>4. ASSUME NEW ls \in X PROVE Step(ls) \in X
  <2> DEFINE next == Next1(ls)
  <2>1. next = (IF ls = <<>> THEN p ELSE Before(Head(ls)))
    OBVIOUS
  <2> HIDE DEF next
  <2>2. next # 0 => <<LineUp(next, w)>> \o ls \in UpStack(p, w)
    BY <2>1, UpStep
  <2> QED BY <2>2 DEF next
<1> HIDE DEF X, Step, Ends
<1>5. step \in [X -> X]
  BY <1>4
<1> HIDE DEF step
<1>6. \E f : Steps(f, X, <<>>, step, room)
  BY <1>2, <1>5, StepsExist, Zenon
<1>7. \E f : Fill(f)
  <2> PICK f : Steps(f, X, <<>>, step, room)
    BY <1>6
  <2>0. f \in [0..room -> X] /\ f[0] = <<>> /\ \A r \in 1..room : f[r] = step[f[r - 1]]
    BY DEF Steps
  <2>1. ASSUME NEW r \in 0..room PROVE f[r] = IF r = 0 THEN <<>> ELSE Step(f[r - 1])
    <3>1. CASE r = 0
      BY <2>0, <3>1
    <3>2. CASE r # 0
      <4>1. r \in 1..room /\ r - 1 \in 0..room
        BY <3>2
      <4>2. f[r - 1] \in X
        BY <2>0, <4>1
      <4>3. f[r] = step[f[r - 1]] /\ step[f[r - 1]] = Step(f[r - 1])
        BY <2>0, <4>1, <4>2 DEF step
      <4> QED BY <3>2, <4>3
    <3> QED BY <3>1, <3>2
  <2>2. f = [r \in 0..room |-> f[r]]
    BY <2>0
  <2>3. Fill(f)
    BY <2>1, <2>2
  <2> QED BY <2>3
<1>8. Fill(fill)
  <2> HIDE DEF Fill
  <2> QED BY <1>7, Zenon
<1> HIDE DEF fill
<1>9. fill[0] = <<>> /\ \A r \in 1..room : fill[r] = Step(fill[r - 1])
  <2>1. \A r \in 0..room : fill[r] = IF r = 0 THEN <<>> ELSE Step(fill[r - 1])
    BY <1>8
  <2> QED BY <2>1
<1> DEFINE T == {r \in Nat : r <= room => Fine(fill[r], r)}
<1>10. 0 \in T
  BY <1>2, <1>9
<1>11. ASSUME NEW r \in Nat, r \in T PROVE r + 1 \in T
  <2>1. SUFFICES ASSUME r + 1 <= room PROVE Fine(fill[r + 1], r + 1)
    OBVIOUS
  <2>2. Fine(fill[r], r)
    BY <1>11, <2>1
  <2>3. fill[r + 1] = Step(fill[r])
    <3>1. r + 1 \in 1..room /\ (r + 1) - 1 = r
      BY <2>1
    <3> QED BY <1>9, <3>1
  <2>4. Fine(Step(fill[r]), r + 1)
    BY <1>3, <2>2
  <2> HIDE DEF Fine
  <2> QED BY <2>3, <2>4
<1> HIDE DEF T
<1>12. room \in T
  BY <1>10, <1>11, NatSet
<1>13. Fine(fill[room], room)
  BY <1>12 DEF T
<1> QED BY <1>1, <1>13 DEF X, Ends

-----------------------------------------------------------------------------
(* The invariant.                                                          *)

\* What is on the screen after a layout: the lines above the seam were laid out
\* upward, those below it downward, and the screen is full or shows the list.
Shown(ls, w, h) ==
  /\ ls \in Stack(w)
  /\ \E seam \in 0..Len(ls) :
       /\ \A i \in 1..seam : UpTight(ls[i], w)
       /\ \A i \in (seam + 1)..Len(ls) : DownTight(ls[i], w)
  /\ Len(ls) < h =>
       IF Size = 0 THEN ls = <<>>
       ELSE ls # <<>> /\ Fst(ls[1]) = 1 /\ Lst(ls[Len(ls)]) = Size

ChipsType ==
  /\ hashTags \in Seq(Tag)
  /\ width \in Widths /\ height \in Heights /\ layoutWidth \in Widths \cup {0}
  /\ lines \in Seq(Seq(Chip) \ {<<>>})
  /\ saved \in Nat /\ dirty \in BOOLEAN /\ crashed \in BOOLEAN

ChipsInv ==
  /\ ChipsType
  /\ ~dirty => /\ layoutWidth = width
               /\ \E ls, w, h : ls = lines /\ w = width /\ h = height /\ Shown(ls, w, h)

\* What a stack is depends on the list of tags alone.
LEMMA SameList ==
  ASSUME hashTags' = hashTags, NEW ls, NEW w, NEW h
  PROVE  Shown(ls, w, h) => Shown(ls, w, h)'
<1>1. Size' = Size
  BY DEF Size
<1>2. \A f, t, v : CanFit(f, t, v)' <=> CanFit(f, t, v)
  <2> TAKE f, t, v
  <2>1. \A p : ChipWidth(p, v)' = ChipWidth(p, v)
    BY DEF ChipWidth
  <2>2. LineWidth(f, t, v)' = LineWidth(f, t, v)
    BY <2>1 DEF LineWidth
  <2> QED BY <2>2 DEF CanFit
<1>3. \A f, t : Line(f, t)' = Line(f, t)
  BY DEF Line
<1>4. GoodLine(w)' = GoodLine(w)
  BY <1>1, <1>2, <1>3 DEF GoodLine, Chip, Fst, Lst
<1>5. Stack(w)' = Stack(w)
  BY <1>4 DEF Stack, Fst, Lst
<1>6. \A line : /\ UpTight(line, w)' <=> UpTight(line, w)
                /\ DownTight(line, w)' <=> DownTight(line, w)
  BY <1>1, <1>2 DEF UpTight, DownTight, Fst, Lst
<1> QED BY <1>1, <1>5, <1>6 DEF Shown, Fst, Lst

\* The lines on the screen are lines of chips.
LEMMA ShownLines ==
  ASSUME hashTags \in Seq(Tag), NEW w \in Nat, NEW h, NEW ls, Shown(ls, w, h)
  PROVE  ls \in Seq(Seq(Chip) \ {<<>>})
<1>1. ls \in Seq(GoodLine(w))
  BY DEF Shown, Stack
<1>2. ASSUME NEW line \in GoodLine(w) PROVE line \in Seq(Chip) \ {<<>>}
  <2>1. line \in Seq(Chip) /\ Fst(line) \in 1..Size /\ Lst(line) \in Fst(line)..Size
        /\ line = Line(Fst(line), Lst(line))
    BY DEF GoodLine
  <2> QED BY <2>1, LineIs
<1> HIDE DEF GoodLine
<1>3. GoodLine(w) \subseteq Seq(Chip) \ {<<>>}
  BY <1>2
<1> QED BY <1>1, <1>3

\* A line whose chips are known begins and ends somewhere.
LEMMA FirstAt ==
  ASSUME ChipsType, lines # <<>>
  PROVE  FirstChip.at \in Nat \ {0} /\ FirstChip.at = Fst(lines[1])
         /\ LastChip.at = Lst(lines[Len(lines)])
<1> DEFINE S == Seq(Chip) \ {<<>>}
<1>1. lines \in Seq(S) /\ Len(lines) \in Nat \ {0} /\ Head(lines) = lines[1] /\ lines[1] \in S
  BY DEF ChipsType
<1>2. Head(lines[1]) \in Chip
  BY <1>1
<1>3. FirstChip.at \in Nat \ {0}
  BY <1>1, <1>2 DEF FirstChip, Chip
<1> QED BY <1>1, <1>3 DEF FirstChip, LastChip, Fst, Lst, Last

\* The screen after a layout from chip a on.
LEMMA FilledShown ==
  ASSUME hashTags \in Seq(Tag), NEW w \in Nat, NEW h \in Nat,
         NEW a \in Nat \ {0}, a <= Size \/ (Size = 0 /\ a = 1)
  PROVE  LET down == FillEnd(a, h, w)
             up == FillStart(IF Size = 0 THEN 0 ELSE a - 1, h - Len(down), w)
         IN  Shown(up \o down, w, h)
<1> DEFINE down == FillEnd(a, h, w)
           p == IF Size = 0 THEN 0 ELSE a - 1
           room == h - Len(down)
           up == FillStart(p, room, w)
           ls == up \o down
           m == Len(up)
           n == Len(down)
<1>1. /\ down \in DownStack(a, w) /\ n <= h
      /\ n = h \/ (down = <<>> /\ a > Size) \/ (down # <<>> /\ Lst(down[n]) = Size)
  BY FillEndIs
<1>2. Size \in Nat /\ n \in Nat
  BY <1>1, StackIs DEF DownStack
<1>3. p \in Nat /\ p <= Size /\ room \in Nat
  BY <1>1, <1>2
<1> HIDE DEF p, down, room
<1>4. /\ up \in UpStack(p, w) /\ m <= room
      /\ m = room \/ (up = <<>> /\ p = 0) \/ (up # <<>> /\ Fst(up[1]) = 1)
  BY <1>3, FillStartIs
<1> HIDE DEF up
<1>5. /\ up \in Stack(w) /\ up \in Seq(GoodLine(w)) /\ m \in Nat
      /\ \A i \in 1..m : UpTight(up[i], w)
      /\ up # <<>> => Lst(up[m]) = p
      /\ \A i \in 1..m : Fst(up[i]) \in Nat /\ Lst(up[i]) \in Nat /\ 1 <= Fst(up[i])
                         /\ Fst(up[i]) <= Lst(up[i]) /\ Lst(up[i]) <= Size
  <2>1. up \in Stack(w) /\ (\A i \in 1..m : UpTight(up[i], w)) /\ (up # <<>> => Lst(up[m]) = p)
    BY <1>4 DEF UpStack
  <2> QED BY <2>1, StackIs
<1>6. /\ down \in Stack(w) /\ down \in Seq(GoodLine(w))
      /\ \A i \in 1..n : DownTight(down[i], w)
      /\ down # <<>> => Fst(down[1]) = a
      /\ \A i \in 1..n : Fst(down[i]) \in Nat /\ Lst(down[i]) \in Nat /\ 1 <= Fst(down[i])
                         /\ Fst(down[i]) <= Lst(down[i]) /\ Lst(down[i]) <= Size
  <2>1. down \in Stack(w) /\ (\A i \in 1..n : DownTight(down[i], w)) /\ (down # <<>> => Fst(down[1]) = a)
    BY <1>1 DEF DownStack
  <2> QED BY <2>1, StackIs
<1>7. (up # <<>> => m \in 1..m /\ 1 \in 1..m) /\ (down # <<>> => n \in 1..n /\ 1 \in 1..n)
  BY <1>2, <1>5, <1>6
<1>8. up = <<>> \/ down = <<>> \/ Fst(down[1]) = Lst(up[m]) + 1
  BY <1>2, <1>5, <1>6, <1>7 DEF p
<1>9. ls \in Stack(w)
  BY <1>5, <1>6, <1>8, StackJoin
<1>10. /\ Len(ls) = m + n
       /\ \A i \in 1..(m + n) : ls[i] = IF i <= m THEN up[i] ELSE down[i - m]
  BY <1>5, <1>6, JoinIs
<1>11. ls \in Seq(GoodLine(w))
  BY <1>9, StackIs
<1> HIDE DEF ls, m, n
<1>12. /\ \A i \in 1..m : UpTight(ls[i], w)
       /\ \A i \in (m + 1)..Len(ls) : DownTight(ls[i], w)
  <2>1. ASSUME NEW i \in 1..m PROVE UpTight(ls[i], w)
    <3>1. ls[i] = up[i]
      BY <1>2, <1>5, <1>10
    <3> QED BY <1>5, <3>1
  <2>2. ASSUME NEW i \in (m + 1)..Len(ls) PROVE DownTight(ls[i], w)
    <3>1. i \in 1..(m + n) /\ ~(i <= m) /\ i - m \in 1..n
      BY <1>2, <1>5, <1>10
    <3>2. ls[i] = down[i - m]
      BY <1>10, <3>1
    <3> QED BY <1>6, <3>1, <3>2
  <2> QED BY <2>1, <2>2
<1>13. m \in 0..Len(ls)
  BY <1>2, <1>5, <1>10
<1>14. ASSUME Len(ls) < h
       PROVE  IF Size = 0 THEN ls = <<>>
              ELSE ls # <<>> /\ Fst(ls[1]) = 1 /\ Lst(ls[Len(ls)]) = Size
  <2>1. n # h /\ m # room
    BY <1>2, <1>5, <1>10, <1>14 DEF room, n
  <2>2. CASE Size = 0
    <3>1. up = <<>> /\ down = <<>>
      BY <1>2, <1>5, <1>6, <1>7, <2>2
    <3>2. m = 0 /\ n = 0
      BY <3>1 DEF m, n
    <3>3. Len(ls) = 0
      BY <1>10, <3>2
    <3> QED BY <1>11, <2>2, <3>3
  <2>3. CASE Size # 0
    <3>1. down # <<>> /\ Lst(down[n]) = Size /\ a <= Size /\ p = a - 1
      BY <1>1, <1>2, <2>1, <2>3 DEF p
    <3>2. Lst(ls[Len(ls)]) = Size
      <4>1. m + n \in 1..(m + n) /\ ~(m + n <= m) /\ (m + n) - m = n
        BY <1>2, <1>5, <1>7, <3>1
      <4>2. ls[m + n] = down[n]
        BY <1>10, <4>1
      <4> QED BY <1>10, <3>1, <4>2
    <3>3. Fst(ls[1]) = 1
      <4>1. CASE up = <<>>
        <5>1. m = 0 /\ a = 1
          BY <1>4, <2>1, <3>1, <4>1 DEF m
        <5>2. 1 \in 1..(m + n) /\ ~(1 <= m) /\ 1 - m = 1
          BY <1>2, <1>7, <3>1, <5>1
        <5>3. ls[1] = down[1]
          BY <1>10, <5>2
        <5> QED BY <1>6, <3>1, <5>1, <5>3
      <4>2. CASE up # <<>>
        <5>1. Fst(up[1]) = 1
          BY <1>4, <2>1, <4>2
        <5>2. 1 \in 1..(m + n) /\ 1 <= m
          BY <1>2, <1>5, <1>7, <4>2
        <5>3. ls[1] = up[1]
          BY <1>10, <5>2
        <5> QED BY <5>1, <5>3
      <4> QED BY <4>1, <4>2
    <3>4. ls # <<>>
      <4>1. Len(ls) # 0
        BY <1>2, <1>5, <1>7, <1>10, <3>1
      <4> QED BY <4>1
    <3> QED BY <2>3, <3>2, <3>3, <3>4
  <2> QED BY <2>2, <2>3
<1>15. Shown(ls, w, h)
  BY <1>9, <1>12, <1>13, <1>14 DEF Shown
<1> QED BY <1>15 DEF ls, up, down, p, room

LEMMA InitChips == Init => ChipsInv
<1> SUFFICES ASSUME Init PROVE ChipsInv
  OBVIOUS
<1>1. hashTags \in Seq(Tag) /\ width \in Widths /\ height \in Heights
  BY TagChipsAssumption DEF Init
<1>2. lines \in Seq(Seq(Chip) \ {<<>>}) /\ dirty
  BY DEF Init
<1> QED BY <1>1, <1>2 DEF Init, ChipsInv, ChipsType

LEMMA Sizes == ASSUME ChipsType PROVE width \in Nat \ {0} /\ height \in Nat \ {0} /\ Size \in Nat
BY TagChipsAssumption DEF ChipsType, Size

LEMMA LayoutKeeps == ASSUME ChipsInv, NEW h \in Heights, Layout(h) PROVE ChipsInv'
<1>1. ChipsType /\ width \in Nat \ {0} /\ Size \in Nat /\ h \in Nat \ {0} /\ hashTags \in Seq(Tag)
  BY Sizes, TagChipsAssumption DEF ChipsInv, ChipsType
<1> DEFINE down == FillEnd(Anchor, h, width)
           up == FillStart(IF Size = 0 THEN 0 ELSE Anchor - 1, h - Len(down), width)
           ls == up \o down
<1>2. /\ lines' = ls /\ layoutWidth' = width /\ height' = h
      /\ saved' = 0 /\ dirty' = FALSE
      /\ hashTags' = hashTags /\ width' = width /\ crashed' = crashed
  BY DEF Layout
<1>3. Anchor \in Nat \ {0} /\ (Anchor <= Size \/ (Size = 0 /\ Anchor = 1))
  <2>1. lines # <<>> => FirstChip.at \in Nat \ {0}
    BY <1>1, FirstAt
  <2>2. saved \in Nat
    BY <1>1 DEF ChipsType
  <2> QED BY <1>1, <2>1, <2>2 DEF Anchor
<1>4. Shown(ls, width, h)
  BY <1>1, <1>3, FilledShown
<1> HIDE DEF ls
<1>5. ls \in Seq(Seq(Chip) \ {<<>>})
  BY <1>1, <1>4, ShownLines
<1>6. ChipsType'
  BY <1>1, <1>2, <1>5 DEF ChipsType, Chip
<1>7. \E s, v, g : s = lines' /\ v = width' /\ g = height' /\ Shown(s, v, g)'
  <2>1. PICK s, v, g : s = ls /\ v = width /\ g = h
    OBVIOUS
  <2>2. Shown(s, v, g)
    BY <1>4, <2>1
  <2>3. Shown(s, v, g)'
    BY <1>2, <2>2, SameList
  <2> QED BY <1>2, <2>1, <2>3
<1> QED BY <1>2, <1>6, <1>7 DEF ChipsInv

\* A line more at the end, and the first ones are dropped.
LEMMA ScrolledDown ==
  ASSUME hashTags \in Seq(Tag), NEW w \in Nat, NEW h \in Nat \ {0}, NEW ls, Shown(ls, w, h),
         ls # <<>>, Lst(ls[Len(ls)]) < Size
  PROVE  LET new == Append(ls, LineDown(Lst(ls[Len(ls)]) + 1, w))
         IN  Shown(SubSeq(new, Max({1, Len(new) - h + 1}), Len(new)), w, h)
<1> DEFINE n == Len(ls)
           line == LineDown(Lst(ls[n]) + 1, w)
           one == <<line>>
           new == Append(ls, line)
           d == Max({1, Len(new) - h + 1})
           cut == SubSeq(new, d, Len(new))
<1>1. /\ ls \in Stack(w) /\ ls \in Seq(GoodLine(w)) /\ n \in Nat /\ Size \in Nat
      /\ \A i \in 1..n : Fst(ls[i]) \in Nat /\ Lst(ls[i]) \in Nat /\ Fst(ls[i]) <= Lst(ls[i]) /\ 1 <= Fst(ls[i])
  <2>1. ls \in Stack(w)
    BY DEF Shown
  <2> QED BY <2>1, StackIs
<1>2. PICK seam \in 0..n :
        /\ \A i \in 1..seam : UpTight(ls[i], w)
        /\ \A i \in (seam + 1)..n : DownTight(ls[i], w)
  BY DEF Shown
<1>3. n \in 1..n /\ Lst(ls[n]) + 1 \in 1..Size
  BY <1>1
<1>4. line \in GoodLine(w) /\ Fst(line) = Lst(ls[n]) + 1 /\ DownTight(line, w)
  BY <1>3, LineDownIs
<1> HIDE DEF line
<1>5. one \in Stack(w) /\ one \in Seq(GoodLine(w)) /\ Len(one) = 1 /\ one[1] = line
  BY <1>4, StackOne
<1>6. new = ls \o one
  BY <1>1, <1>4, AppendIs
<1> HIDE DEF one
<1>7. new \in Stack(w)
  BY <1>1, <1>4, <1>5, <1>6, StackJoin
<1>8. new \in Seq(GoodLine(w)) /\ Len(new) = n + 1
      /\ \A i \in 1..(n + 1) : new[i] = IF i <= n THEN ls[i] ELSE one[i - n]
  <2>1. ls \o one \in Seq(GoodLine(w)) /\ Len(ls \o one) = n + Len(one)
        /\ \A i \in 1..(n + Len(one)) : (ls \o one)[i] = IF i <= n THEN ls[i] ELSE one[i - n]
    BY <1>1, <1>5, JoinIs
  <2> QED BY <1>5, <1>6, <2>1
<1>9. new[n + 1] = line
  BY <1>1, <1>5, <1>8
<1> HIDE DEF new
<1>10. h \in Nat \ {0} /\ d = IF n >= h THEN (n + 2) - h ELSE 1
  <2>1. {1, Len(new) - h + 1} = {1, (n + 2) - h} /\ (n + 2) - h \in Int
    BY <1>1, <1>8
  <2>2. CASE n >= h
    <3>1. \A x \in {1, (n + 2) - h} : (n + 2) - h >= x
      BY <1>1, <2>2
    <3>2. \A y \in {1, (n + 2) - h} : (\A x \in {1, (n + 2) - h} : y >= x) => y = (n + 2) - h
      BY <1>1, <2>2
    <3> QED BY <2>1, <2>2, <3>1, <3>2 DEF Max
  <2>3. CASE ~(n >= h)
    <3>1. \A x \in {1, (n + 2) - h} : 1 >= x
      BY <1>1, <2>3
    <3>2. \A y \in {1, (n + 2) - h} : (\A x \in {1, (n + 2) - h} : y >= x) => y = 1
      BY <1>1, <2>3
    <3> QED BY <2>1, <2>3, <3>1, <3>2 DEF Max
  <2> QED BY <2>2, <2>3
<1> HIDE DEF d
<1>11. d \in 1..(n + 1) /\ (n + 1) \in (d - 1)..(n + 1) /\ (n >= h => (n + 1) - d + 1 = h)
  BY <1>1, <1>10
<1>12. /\ cut \in Stack(w)
       /\ cut \in Seq(GoodLine(w)) /\ Len(cut) = (n + 1) - d + 1
       /\ \A i \in 1..((n + 1) - d + 1) : cut[i] = new[i + d - 1]
  <2>1. d \in 1..(Len(new) + 1) /\ Len(new) \in (d - 1)..Len(new)
    BY <1>1, <1>8, <1>11
  <2>2. cut \in Stack(w)
    BY <1>7, <2>1, StackCut
  <2> QED BY <1>8, <2>1, <2>2, CutIs
<1> HIDE DEF cut
<1>13. \E t \in 0..Len(cut) :
         /\ \A i \in 1..t : UpTight(cut[i], w)
         /\ \A i \in (t + 1)..Len(cut) : DownTight(cut[i], w)
  <2> DEFINE t == IF seam >= d THEN seam - d + 1 ELSE 0
  <2>1. t \in 0..Len(cut)
    BY <1>1, <1>11, <1>12
  <2>2. ASSUME NEW i \in 1..t PROVE UpTight(cut[i], w)
    <3>1. i + d - 1 \in 1..seam /\ i \in 1..((n + 1) - d + 1) /\ i + d - 1 <= n /\ i + d - 1 \in 1..(n + 1)
      BY <1>1, <1>11
    <3>2. cut[i] = ls[i + d - 1]
      BY <1>8, <1>12, <3>1
    <3> QED BY <1>2, <3>1, <3>2
  <2>3. ASSUME NEW i \in (t + 1)..Len(cut) PROVE DownTight(cut[i], w)
    <3>1. i + d - 1 \in (seam + 1)..(n + 1) /\ i \in 1..((n + 1) - d + 1)
      BY <1>1, <1>11, <1>12
    <3>2. cut[i] = new[i + d - 1]
      BY <1>12, <3>1
    <3>3. CASE i + d - 1 = n + 1
      BY <1>4, <1>9, <3>2, <3>3
    <3>4. CASE i + d - 1 # n + 1
      <4>1. i + d - 1 \in (seam + 1)..n /\ i + d - 1 \in 1..(n + 1) /\ i + d - 1 <= n
        BY <1>1, <3>1, <3>4
      <4>2. cut[i] = ls[i + d - 1]
        BY <1>8, <3>2, <4>1
      <4> QED BY <1>2, <4>1, <4>2
    <3> QED BY <3>3, <3>4
  <2> HIDE DEF t
  <2> QED BY <2>1, <2>2, <2>3
<1>14. n >= h
  BY <1>1, <1>3 DEF Shown
<1>15. ~(Len(cut) < h)
  BY <1>11, <1>12, <1>14
<1>16. Shown(cut, w, h)
  BY <1>12, <1>13, <1>15 DEF Shown
<1> QED BY <1>16 DEF cut, d, new, line

\* A line more at the beginning, and the last ones are dropped.
LEMMA ScrolledUp ==
  ASSUME hashTags \in Seq(Tag), NEW w \in Nat, NEW h \in Nat \ {0}, NEW ls, Shown(ls, w, h),
         ls # <<>>, Fst(ls[1]) > 1
  PROVE  LET new == <<LineUp(Fst(ls[1]) - 1, w)>> \o ls
         IN  Shown(SubSeq(new, 1, Min({h, Len(new)})), w, h)
<1> DEFINE n == Len(ls)
           line == LineUp(Fst(ls[1]) - 1, w)
           one == <<line>>
           new == one \o ls
           d == Min({h, Len(new)})
           cut == SubSeq(new, 1, d)
<1>1. /\ ls \in Stack(w) /\ ls \in Seq(GoodLine(w)) /\ n \in Nat /\ Size \in Nat
      /\ \A i \in 1..n : /\ Fst(ls[i]) \in Nat /\ Lst(ls[i]) \in Nat /\ Fst(ls[i]) <= Lst(ls[i])
                         /\ 1 <= Fst(ls[i]) /\ Lst(ls[i]) <= Size
  <2>1. ls \in Stack(w)
    BY DEF Shown
  <2> QED BY <2>1, StackIs
<1>2. PICK seam \in 0..n :
        /\ \A i \in 1..seam : UpTight(ls[i], w)
        /\ \A i \in (seam + 1)..n : DownTight(ls[i], w)
  BY DEF Shown
<1>3. 1 \in 1..n /\ Fst(ls[1]) - 1 \in 1..Size
  BY <1>1
<1>4. line \in GoodLine(w) /\ Lst(line) = Fst(ls[1]) - 1 /\ UpTight(line, w)
  BY <1>3, LineUpIs
<1> HIDE DEF line
<1>5. one \in Stack(w) /\ one \in Seq(GoodLine(w)) /\ Len(one) = 1 /\ one[1] = line
  BY <1>4, StackOne
<1> HIDE DEF one
<1>6. Fst(ls[1]) = Lst(one[Len(one)]) + 1
  BY <1>1, <1>3, <1>4, <1>5
<1>7. new \in Stack(w)
  BY <1>1, <1>5, <1>6, StackJoin
<1>8. new \in Seq(GoodLine(w)) /\ Len(new) = n + 1
      /\ \A i \in 1..(n + 1) : new[i] = IF i <= 1 THEN one[i] ELSE ls[i - 1]
  <2>1. new \in Seq(GoodLine(w)) /\ Len(new) = Len(one) + n
        /\ \A i \in 1..(Len(one) + n) : new[i] = IF i <= Len(one) THEN one[i] ELSE ls[i - Len(one)]
    BY <1>1, <1>5, JoinIs
  <2> QED BY <1>1, <1>5, <2>1
<1>9. new[1] = line
  BY <1>1, <1>5, <1>8
<1> HIDE DEF new
<1>10. n >= h
  BY <1>1, <1>3 DEF Shown
<1>11. d = h /\ h \in 1..n
  <2>1. {h, Len(new)} = {h, n + 1}
    BY <1>8
  <2>2. \A x \in {h, n + 1} : h =< x
    BY <1>1, <1>10
  <2>3. \A y \in {h, n + 1} : (\A x \in {h, n + 1} : y =< x) => y = h
    BY <1>1, <1>10
  <2> QED BY <1>1, <1>10, <2>1, <2>2, <2>3 DEF Min
<1> HIDE DEF d
<1>12. /\ cut \in Stack(w)
       /\ cut \in Seq(GoodLine(w)) /\ Len(cut) = h
       /\ \A i \in 1..h : cut[i] = new[i]
  <2>1. 1 \in 1..(Len(new) + 1) /\ d \in (1 - 1)..Len(new)
    BY <1>1, <1>8, <1>11
  <2>2. cut \in Stack(w)
    BY <1>7, <2>1, StackCut
  <2>3. cut \in Seq(GoodLine(w)) /\ Len(cut) = d - 1 + 1 /\ \A i \in 1..(d - 1 + 1) : cut[i] = new[i + 1 - 1]
    BY <1>8, <2>1, CutIs
  <2> QED BY <1>11, <2>2, <2>3
<1> HIDE DEF cut
<1>13. \E t \in 0..Len(cut) :
         /\ \A i \in 1..t : UpTight(cut[i], w)
         /\ \A i \in (t + 1)..Len(cut) : DownTight(cut[i], w)
  <2> DEFINE t == IF seam + 1 <= h THEN seam + 1 ELSE h
  <2>1. t \in 0..Len(cut)
    BY <1>1, <1>11, <1>12
  <2>2. ASSUME NEW i \in 1..t PROVE UpTight(cut[i], w)
    <3>1. i \in 1..h /\ i \in 1..(n + 1) /\ i - 1 \in 0..seam
      BY <1>1, <1>11
    <3>2. cut[i] = new[i]
      BY <1>12, <3>1
    <3>3. CASE i = 1
      BY <1>4, <1>9, <3>2, <3>3
    <3>4. CASE i # 1
      <4>1. ~(i <= 1) /\ i - 1 \in 1..seam
        BY <3>1, <3>4
      <4>2. cut[i] = ls[i - 1]
        BY <1>8, <3>1, <3>2, <4>1
      <4> QED BY <1>2, <4>1, <4>2
    <3> QED BY <3>3, <3>4
  <2>3. ASSUME NEW i \in (t + 1)..Len(cut) PROVE DownTight(cut[i], w)
    <3>1. i \in 1..h /\ i \in 1..(n + 1) /\ ~(i <= 1) /\ i - 1 \in (seam + 1)..n
      BY <1>1, <1>11, <1>12
    <3>2. cut[i] = ls[i - 1]
      BY <1>8, <1>12, <3>1
    <3> QED BY <1>2, <3>1, <3>2
  <2> HIDE DEF t
  <2> QED BY <2>1, <2>2, <2>3
<1>14. ~(Len(cut) < h)
  BY <1>12
<1>15. Shown(cut, w, h)
  BY <1>12, <1>13, <1>14 DEF Shown
<1> QED BY <1>15 DEF cut, d, new, one, line

LEMMA ScrollDownKeeps == ASSUME ChipsInv, ScrollDown PROVE ChipsInv'
<1>1. ChipsType /\ width \in Nat \ {0} /\ height \in Nat \ {0} /\ hashTags \in Seq(Tag)
  BY Sizes DEF ChipsInv, ChipsType
<1>2. /\ ~dirty /\ lines # <<>> /\ LastChip.at < Size
      /\ UNCHANGED <<hashTags, width, height, layoutWidth, saved, dirty, crashed>>
  BY DEF ScrollDown
<1>3. PICK ls, w, h : ls = lines /\ w = width /\ h = height /\ Shown(ls, w, h)
  BY <1>2 DEF ChipsInv
<1>4. layoutWidth = width /\ LastChip.at = Lst(ls[Len(ls)])
  BY <1>1, <1>2, <1>3, FirstAt DEF ChipsInv
<1> DEFINE new == Append(ls, LineDown(Lst(ls[Len(ls)]) + 1, w))
           s == SubSeq(new, Max({1, Len(new) - h + 1}), Len(new))
<1>5. lines' = s
  BY <1>3, <1>4 DEF ScrollDown
<1>6. Shown(s, w, h)
  BY <1>1, <1>2, <1>3, <1>4, ScrolledDown
<1> HIDE DEF s
<1>7. s \in Seq(Seq(Chip) \ {<<>>})
  BY <1>1, <1>3, <1>6, ShownLines
<1>8. ChipsType'
  BY <1>1, <1>2, <1>5, <1>7 DEF ChipsType, Chip
<1>9. \E t, v, g : t = lines' /\ v = width' /\ g = height' /\ Shown(t, v, g)'
  <2>1. PICK t : t = s
    OBVIOUS
  <2>2. Shown(t, w, h)
    BY <1>6, <2>1
  <2>3. Shown(t, w, h)'
    BY <1>2, <2>2, SameList
  <2> QED BY <1>2, <1>3, <1>5, <2>1, <2>3
<1> QED BY <1>2, <1>4, <1>8, <1>9 DEF ChipsInv

LEMMA ScrollUpKeeps == ASSUME ChipsInv, ScrollUp PROVE ChipsInv'
<1>1. ChipsType /\ width \in Nat \ {0} /\ height \in Nat \ {0} /\ hashTags \in Seq(Tag)
  BY Sizes DEF ChipsInv, ChipsType
<1>2. /\ ~dirty /\ lines # <<>> /\ FirstChip.at > 1
      /\ UNCHANGED <<hashTags, width, height, layoutWidth, saved, dirty, crashed>>
  BY DEF ScrollUp
<1>3. PICK ls, w, h : ls = lines /\ w = width /\ h = height /\ Shown(ls, w, h)
  BY <1>2 DEF ChipsInv
<1>4. layoutWidth = width /\ FirstChip.at = Fst(ls[1])
  BY <1>1, <1>2, <1>3, FirstAt DEF ChipsInv
<1> DEFINE new == <<LineUp(Fst(ls[1]) - 1, w)>> \o ls
           s == SubSeq(new, 1, Min({h, Len(new)}))
<1>5. lines' = s
  BY <1>3, <1>4 DEF ScrollUp
<1>6. Shown(s, w, h)
  BY <1>1, <1>2, <1>3, <1>4, ScrolledUp
<1> HIDE DEF s
<1>7. s \in Seq(Seq(Chip) \ {<<>>})
  BY <1>1, <1>3, <1>6, ShownLines
<1>8. ChipsType'
  BY <1>1, <1>2, <1>5, <1>7 DEF ChipsType, Chip
<1>9. \E t, v, g : t = lines' /\ v = width' /\ g = height' /\ Shown(t, v, g)'
  <2>1. PICK t : t = s
    OBVIOUS
  <2>2. Shown(t, w, h)
    BY <1>6, <2>1
  <2>3. Shown(t, w, h)'
    BY <1>2, <2>2, SameList
  <2> QED BY <1>2, <1>3, <1>5, <2>1, <2>3
<1> QED BY <1>2, <1>4, <1>8, <1>9 DEF ChipsInv

-----------------------------------------------------------------------------
(* The list of tags.                                                       *)

LEMMA SetToSeqIs ==
  ASSUME NEW S, NEW T \in SUBSET S, IsFiniteSet(T)
  PROVE  SetToSeq(T) \in Seq(S)
<1> DEFINE n == Cardinality(T)
           Lists == {f \in [1..n -> T] : IsInjective(f)}
<1>1. n \in Nat /\ ExistsBijection(1..n, T)
  BY FS_CardinalityType
<1>2. \E f \in [1..n -> T] : IsInjective(f)
  BY <1>1 DEF ExistsBijection, Bijection, Injection, IsInjective
<1>3. SetToSeq(T) \in [1..n -> T]
  BY <1>2 DEF SetToSeq
<1> HIDE DEF n
<1>4. [1..n -> T] \subseteq Seq(S)
  BY <1>1
<1> QED BY <1>3, <1>4

\* The tags of a list are not greater than some number.
LEMMA Bounded ==
  ASSUME NEW s \in Seq(Nat)
  PROVE  \E m \in Nat : \A j \in 1..Len(s) : s[j] <= m
<1> DEFINE T == {k \in Nat : k <= Len(s) => \E m \in Nat : \A j \in 1..k : s[j] <= m}
<1>1. 0 \in T
  OBVIOUS
<1>2. ASSUME NEW k \in Nat, k \in T PROVE k + 1 \in T
  <2>1. SUFFICES ASSUME k + 1 <= Len(s) PROVE \E m \in Nat : \A j \in 1..(k + 1) : s[j] <= m
    OBVIOUS
  <2>2. PICK m \in Nat : \A j \in 1..k : s[j] <= m
    BY <1>2, <2>1
  <2>3. s[k + 1] \in Nat
    BY <2>1
  <2> DEFINE x == IF m <= s[k + 1] THEN s[k + 1] ELSE m
  <2>4. x \in Nat /\ \A j \in 1..(k + 1) : s[j] <= x
    <3>1. \A j \in 1..(k + 1) : s[j] \in Nat /\ (j = k + 1 \/ j \in 1..k)
      BY <2>1
    <3> QED BY <2>2, <2>3, <3>1
  <2> QED BY <2>4
<1> HIDE DEF T
<1>3. Len(s) \in T
  BY <1>1, <1>2, NatSet
<1> QED BY <1>3 DEF T

\* Sorting finds a tag for each position.
LEMMA RankExists ==
  ASSUME NEW s \in Seq(Nat), NEW i \in 1..Len(s)
  PROVE  \E t \in ToSet(s) : /\ Cardinality({j \in DOMAIN s : s[j] < t}) < i
                             /\ i <= Cardinality({j \in DOMAIN s : s[j] <= t})
<1> DEFINE Lower(t) == {j \in DOMAIN s : s[j] < t}
           UpTo(t) == {j \in DOMAIN s : s[j] <= t}
           V == {t \in Nat : i <= Cardinality(UpTo(t))}
<1>1. DOMAIN s = 1..Len(s) /\ Len(s) \in Nat /\ \A j \in 1..Len(s) : s[j] \in Nat
  OBVIOUS
<1>2. IsFiniteSet(1..Len(s)) /\ Cardinality(1..Len(s)) = Len(s)
  <2>1. /\ Cardinality(1..Len(s)) = IF 1 > Len(s) THEN 0 ELSE Len(s) - 1 + 1
        /\ IsFiniteSet(1..Len(s))
    <3>1. 1 \in Int /\ Len(s) \in Int
      BY <1>1
    <3> QED BY <3>1, FS_Interval, Zenon
  <2> QED BY <1>1, <2>1
<1>3. V # {}
  <2>1. PICK m \in Nat : \A j \in 1..Len(s) : s[j] <= m
    BY Bounded
  <2>2. UpTo(m) = 1..Len(s)
    BY <1>1, <2>1
  <2> HIDE DEF UpTo
  <2>3. Cardinality(UpTo(m)) = Len(s) /\ i <= Len(s)
    <3>1. Cardinality(UpTo(m)) = Len(s)
      BY <1>2, <2>2, Zenon
    <3> QED BY <1>1, <3>1
  <2>4. m \in V
    BY <2>3
  <2> QED BY <2>4
<1>4. PICK t \in V : \A u \in V : t <= u
  <2>1. V \in SUBSET Nat
    OBVIOUS
  <2> HIDE DEF V
  <2> QED BY <1>3, <2>1, LeastNat, Zenon
<1>5. Cardinality(Lower(t)) < i
  <2>1. CASE t = 0
    <3>1. Lower(t) = {}
      BY <1>1, <2>1
    <3>2. Cardinality(Lower(t)) = 0
      BY <3>1, FS_EmptySet, Zenon
    <3> HIDE DEF Lower
    <3> QED BY <3>2
  <2>2. CASE t # 0
    <3>1. t - 1 \in Nat /\ t - 1 \notin V
      BY <1>4, <2>2
    <3>2. UpTo(t - 1) = Lower(t)
      BY <1>1, <1>4
    <3>3. ~(i <= Cardinality(Lower(t)))
      BY <3>1, <3>2
    <3>4. Cardinality(Lower(t)) \in Nat
      <4>1. Lower(t) \subseteq 1..Len(s)
        BY <1>1
      <4> HIDE DEF Lower
      <4> QED BY <1>2, <4>1, FS_Subset, FS_CardinalityType
    <3> QED BY <3>3, <3>4
  <2> QED BY <2>1, <2>2
<1>6. t \in ToSet(s)
  <2>1. SUFFICES ASSUME t \notin ToSet(s) PROVE FALSE
    OBVIOUS
  <2>2. \A j \in DOMAIN s : s[j] # t
    BY <2>1 DEF ToSet
  <2>3. UpTo(t) = Lower(t)
    BY <1>1, <1>4, <2>2
  <2>4. i <= Cardinality(UpTo(t)) /\ Cardinality(UpTo(t)) \in Nat
    <3>1. UpTo(t) \subseteq 1..Len(s)
      BY <1>1
    <3>2. i <= Cardinality(UpTo(t))
      BY <1>4
    <3> HIDE DEF UpTo
    <3> QED BY <1>2, <3>1, <3>2, FS_Subset, FS_CardinalityType
  <2> HIDE DEF UpTo, Lower
  <2> QED BY <1>5, <2>3, <2>4
<1> QED BY <1>4, <1>5, <1>6

\* addTag leaves a list of tags.
LEMMA AddedIs ==
  ASSUME hashTags \in Seq(Tag), NEW pieces \in Inputs
  PROVE  Added(pieces) \in Seq(Tag)
<1> DEFINE all == hashTags \o SetToSeq(pieces \ ToSet(hashTags))
           Rank(i, t) == /\ Cardinality({j \in DOMAIN all : all[j] < t}) < i
                         /\ i <= Cardinality({j \in DOMAIN all : all[j] <= t})
<1>1. pieces \ ToSet(hashTags) \in SUBSET Tag /\ IsFiniteSet(pieces \ ToSet(hashTags))
  BY TagChipsAssumption, FS_Difference
<1>2. SetToSeq(pieces \ ToSet(hashTags)) \in Seq(Tag)
  BY <1>1, SetToSeqIs
<1>3. all \in Seq(Tag)
  BY <1>2
<1>4. Added(pieces) = [i \in DOMAIN all |-> CHOOSE t \in ToSet(all) : Rank(i, t)]
  BY DEF Added
<1> HIDE DEF all
<1>5. DOMAIN all = 1..Len(all) /\ Len(all) \in Nat /\ all \in Seq(Nat) /\ ToSet(all) \subseteq Tag
  <2>1. DOMAIN all = 1..Len(all) /\ Len(all) \in Nat /\ \A i \in DOMAIN all : all[i] \in Tag
    BY <1>3
  <2>2. all \in Seq(Nat)
    BY <1>3, TagChipsAssumption
  <2> QED BY <2>1, <2>2 DEF ToSet
<1>6. ASSUME NEW i \in 1..Len(all) PROVE (CHOOSE t \in ToSet(all) : Rank(i, t)) \in Tag
  <2>1. \E t \in ToSet(all) : Rank(i, t)
    BY <1>5, RankExists
  <2> HIDE DEF Rank
  <2>2. (CHOOSE t \in ToSet(all) : Rank(i, t)) \in ToSet(all)
    BY <2>1
  <2> QED BY <1>5, <2>2
<1> HIDE DEF Rank
<1>7. Added(pieces) \in [1..Len(all) -> Tag]
  BY <1>4, <1>5, <1>6
<1> QED BY <1>5, <1>7

LEMMA AddKeeps == ASSUME ChipsInv, NEW pieces \in Inputs, AddTags(pieces) PROVE ChipsInv'
<1>1. ChipsType
  BY DEF ChipsInv
<1>2. hashTags' = Added(pieces) /\ dirty' = TRUE
      /\ UNCHANGED <<width, height, layoutWidth, lines, saved, crashed>>
  BY DEF AddTags, NotifyDataChanged
<1>3. Added(pieces) \in Seq(Tag)
  BY <1>1, AddedIs DEF ChipsType
<1>4. ChipsType'
  BY <1>1, <1>2, <1>3 DEF ChipsType, Chip
<1> QED BY <1>2, <1>4 DEF ChipsInv

LEMMA ClickKeeps == ASSUME ChipsInv, ClickChip PROVE ChipsInv'
<1>1. ChipsType /\ UNCHANGED <<width, height, layoutWidth, lines, saved>>
  BY DEF ChipsInv, ClickChip
<1>2. CASE hashTags = <<>>
  <2>1. crashed' = TRUE /\ UNCHANGED <<hashTags, dirty>>
    BY <1>2 DEF ClickChip
  <2>2. ChipsType'
    BY <1>1, <2>1 DEF ChipsType, Chip
  <2>3. ASSUME ~dirty
        PROVE  \E ls, w, h : ls = lines' /\ w = width' /\ h = height' /\ Shown(ls, w, h)'
    <3>1. PICK ls, w, h : ls = lines /\ w = width /\ h = height /\ Shown(ls, w, h)
      BY <2>3 DEF ChipsInv
    <3>2. Shown(ls, w, h)'
      BY <2>1, <3>1, SameList
    <3> QED BY <1>1, <3>1, <3>2
  <2> QED BY <1>1, <2>1, <2>2, <2>3 DEF ChipsInv
<1>3. CASE hashTags # <<>>
  <2>1. hashTags' = Tail(hashTags) /\ dirty' = TRUE /\ UNCHANGED crashed
    BY <1>3 DEF ClickChip, NotifyDataChanged
  <2>2. Tail(hashTags) \in Seq(Tag)
    BY <1>1, <1>3 DEF ChipsType
  <2>3. ChipsType'
    BY <1>1, <2>1, <2>2 DEF ChipsType, Chip
  <2> QED BY <2>1, <2>3 DEF ChipsInv
<1> QED BY <1>2, <1>3

LEMMA RecreateKeeps ==
  ASSUME ChipsInv, NEW list \in Given \cup {hashTags}, NEW w \in Widths, Recreate(list, w)
  PROVE  ChipsInv'
<1>1. ChipsType
  BY DEF ChipsInv
<1>2. /\ hashTags' = list /\ dirty' = TRUE /\ width' = w /\ layoutWidth' = 0 /\ lines' = <<>>
      /\ saved' = IF saved # 0 THEN saved ELSE IF lines # <<>> THEN FirstChip.at ELSE 0
      /\ UNCHANGED <<height, crashed>>
  BY DEF Recreate, NotifyDataChanged
<1>3. list \in Seq(Tag) /\ saved' \in Nat
  BY <1>1, <1>2, FirstAt, TagChipsAssumption DEF ChipsType
<1>4. ChipsType'
  BY <1>1, <1>2, <1>3 DEF ChipsType, Chip
<1> QED BY <1>2, <1>4 DEF ChipsInv

LEMMA ChipsStep == ChipsInv /\ [Next]_vars => ChipsInv'
<1> SUFFICES ASSUME ChipsInv, [Next]_vars PROVE ChipsInv'
  OBVIOUS
<1>1. ASSUME NEW h \in Heights, Layout(h) PROVE ChipsInv'
  BY <1>1, LayoutKeeps
<1>2. CASE ScrollDown
  BY <1>2, ScrollDownKeeps
<1>3. CASE ScrollUp
  BY <1>3, ScrollUpKeeps
<1>4. ASSUME NEW pieces \in Inputs, AddTags(pieces) PROVE ChipsInv'
  BY <1>4, AddKeeps
<1>5. CASE ClickChip
  BY <1>5, ClickKeeps
<1>6. ASSUME NEW list \in Given \cup {hashTags}, NEW w \in Widths, Recreate(list, w) PROVE ChipsInv'
  BY <1>6, RecreateKeeps
<1>7. CASE UNCHANGED vars
  <2>1. ChipsType' /\ UNCHANGED <<dirty, layoutWidth, width, hashTags, lines, height>>
    BY <1>7 DEF vars, ChipsInv, ChipsType, Chip
  <2>2. ASSUME ~dirty
        PROVE  \E ls, w, h : ls = lines' /\ w = width' /\ h = height' /\ Shown(ls, w, h)'
    <3>1. PICK ls, w, h : ls = lines /\ w = width /\ h = height /\ Shown(ls, w, h)
      BY <2>2 DEF ChipsInv
    <3>2. Shown(ls, w, h)'
      BY <2>1, <3>1, SameList
    <3> QED BY <2>1, <3>1, <3>2
  <2> QED BY <2>1, <2>2 DEF ChipsInv
<1> QED BY <1>1, <1>2, <1>3, <1>4, <1>5, <1>6, <1>7 DEF Next

-----------------------------------------------------------------------------
(* The properties.                                                         *)

LEMMA WindowHolds == ChipsInv => ShownIsWindow
<1> SUFFICES ASSUME ChipsInv, ~dirty PROVE ShownIsWindow
  BY DEF ShownIsWindow
<1>1. ChipsType /\ width \in Nat \ {0} /\ hashTags \in Seq(Tag)
  BY Sizes DEF ChipsInv, ChipsType
<1>2. PICK ls, w, h : ls = lines /\ w = width /\ h = height /\ Shown(ls, w, h)
  BY DEF ChipsInv
<1>3. w \in Nat /\ ls \in Stack(w)
  BY <1>1, <1>2 DEF Shown
<1>4. /\ ls \in Seq(GoodLine(w)) /\ DOMAIN ls = 1..Len(ls) /\ Len(ls) \in Nat
      /\ \A i \in 1..(Len(ls) - 1) : Fst(ls[i + 1]) = Lst(ls[i]) + 1
  BY <1>1, <1>3, StackIs
<1>5. ASSUME NEW l \in DOMAIN ls
      PROVE  /\ ls[l] # <<>>
             /\ \A i \in DOMAIN ls[l] :
                  LET chip == ls[l][i]
                  IN  /\ chip.at = Head(ls[l]).at + i - 1
                      /\ chip.at \in 1..Size /\ chip.tag = hashTags[chip.at]
             /\ l > 1 => Head(ls[l]).at = Last(ls[l - 1]).at + 1
  <2>1. ls[l] \in GoodLine(w)
    BY <1>4
  <2> DEFINE f == Fst(ls[l])
             t == Lst(ls[l])
  <2>2. f \in 1..Size /\ t \in f..Size /\ ls[l] = Line(f, t)
    BY <2>1 DEF GoodLine
  <2> HIDE DEF f, t
  <2>3. ls[l] # <<>> /\ \A i \in DOMAIN ls[l] :
          LET chip == ls[l][i]
          IN  chip.at = f + i - 1 /\ chip.at \in 1..Size /\ chip.tag = hashTags[chip.at]
    <3>1. Line(f, t) # <<>> /\ \A i \in DOMAIN Line(f, t) :
            LET chip == Line(f, t)[i]
            IN  chip.at = f + i - 1 /\ chip.at \in 1..Size /\ chip.tag = hashTags[chip.at]
      BY <1>1, <2>2, LineIs, Zenon
    <3> QED BY <2>2, <3>1, Zenon
  <2>4. f = Head(ls[l]).at
    BY DEF f, Fst
  <2>5. l > 1 => Head(ls[l]).at = Last(ls[l - 1]).at + 1
    <3>1. l > 1 => l - 1 \in 1..(Len(ls) - 1) /\ (l - 1) + 1 = l
      BY <1>4
    <3>2. l > 1 => Fst(ls[l]) = Lst(ls[l - 1]) + 1
      BY <1>4, <3>1
    <3> QED BY <3>2 DEF Fst, Lst
  <2> QED BY <2>3, <2>4, <2>5
<1>6. Len(lines) < height =>
        IF Size = 0 THEN lines = <<>>
        ELSE lines # <<>> /\ FirstChip.at = 1 /\ LastChip.at = Size
  <2>1. Len(lines) < height =>
          IF Size = 0 THEN lines = <<>>
          ELSE lines # <<>> /\ Fst(lines[1]) = 1 /\ Lst(lines[Len(lines)]) = Size
    BY <1>2 DEF Shown
  <2>2. lines # <<>> => FirstChip.at = Fst(lines[1]) /\ LastChip.at = Lst(lines[Len(lines)])
    BY <1>1, FirstAt
  <2> QED BY <2>1, <2>2
<1>7. \A l \in DOMAIN lines :
        /\ lines[l] # <<>>
        /\ \A i \in DOMAIN lines[l] :
             LET chip == lines[l][i]
             IN  /\ chip.at = Head(lines[l]).at + i - 1
                 /\ chip.at \in 1..Size /\ chip.tag = hashTags[chip.at]
        /\ l > 1 => Head(lines[l]).at = Last(lines[l - 1]).at + 1
  BY <1>2, <1>5
<1> QED BY <1>6, <1>7 DEF ShownIsWindow

\* A set with an element between any two of n numbers has n elements.
LEMMA Separated ==
  ASSUME NEW B \in SUBSET Nat, IsFiniteSet(B), NEW n \in Nat,
         NEW lo \in [1..n -> Nat], NEW hi \in [1..n -> Nat],
         \A k \in 1..n : \E b \in B : lo[k] < b /\ b <= hi[k],
         \A j, k \in 1..n : j < k => hi[j] <= lo[k]
  PROVE  n <= Cardinality(B)
<1> DEFINE g == [k \in 1..n |-> CHOOSE b \in B : lo[k] < b /\ b <= hi[k]]
<1>1. ASSUME NEW k \in 1..n PROVE g[k] \in B /\ lo[k] < g[k] /\ g[k] <= hi[k]
  <2>1. \E b \in B : lo[k] < b /\ b <= hi[k]
    OBVIOUS
  <2> QED BY <2>1
<1>2. g \in [1..n -> B]
  BY <1>1
<1> HIDE DEF g
<1>3. ASSUME NEW j \in 1..n, NEW k \in 1..n, j < k PROVE g[j] < g[k]
  <2>1. hi[j] <= lo[k] /\ g[j] <= hi[j] /\ lo[k] < g[k]
    BY <1>1, <1>3
  <2>2. g[j] \in Nat /\ g[k] \in Nat /\ hi[j] \in Nat /\ lo[k] \in Nat
    BY <1>1
  <2> QED BY <2>1, <2>2
<1>4. ASSUME NEW j \in 1..n, NEW k \in 1..n, g[j] = g[k] PROVE j = k
  <2>1. g[j] \in Nat /\ g[k] \in Nat
    BY <1>1
  <2>2. ~(j < k) /\ ~(k < j)
    BY <1>3, <1>4, <2>1
  <2> QED BY <2>2
<1>5. g \in Injection(1..n, B)
  BY <1>2, <1>4 DEF Injection, IsInjective
<1>6. Cardinality(1..n) <= Cardinality(B)
  BY <1>5, FS_Injection
<1>7. Cardinality(1..n) = n
  <2>1. Cardinality(1..n) = IF 1 > n THEN 0 ELSE n - 1 + 1
    <3>1. 1 \in Int /\ n \in Int
      OBVIOUS
    <3> QED BY <3>1, FS_Interval, Zenon
  <2> QED BY <2>1
<1> QED BY <1>6, <1>7

LEMMA BreaksAre ==
  ASSUME NEW f \in Nat, NEW t \in Nat, NEW w \in Nat, NEW B \in Breaks(f, t, w)
  PROVE  /\ B \subseteq (f + 1)..t /\ B \in SUBSET Nat /\ IsFiniteSet(B) /\ Cardinality(B) \in Nat
         /\ \A a \in B \cup {f} : CanFit(a, Min({b \in B : b > a} \cup {t + 1}) - 1, w)
<1>1. /\ B \subseteq (f + 1)..t
      /\ \A a \in B \cup {f} : LineWidth(a, Min({b \in B : b > a} \cup {t + 1}) - 1, w) <= w
  BY DEF Breaks
<1>2. IsFiniteSet((f + 1)..t)
  <2>1. f + 1 \in Int /\ t \in Int
    OBVIOUS
  <2> QED BY <2>1, FS_Interval, Zenon
<1>3. IsFiniteSet(B) /\ Cardinality(B) \in Nat
  BY <1>1, <1>2, FS_Subset, FS_CardinalityType
<1> QED BY <1>1, <1>3 DEF CanFit

\* Chips that do not fit one line must be broken somewhere.
LEMMA BreakNeeded ==
  ASSUME NEW f \in Nat, NEW t \in Nat, NEW w \in Nat, NEW B \in Breaks(f, t, w),
         NEW x \in Nat, NEW y \in Nat, f <= x, x <= y, y <= t, ~CanFit(x, y, w)
  PROVE  \E b \in B : x < b /\ b <= y
<1> SUFFICES ASSUME \A b \in B : ~(x < b /\ b <= y) PROVE FALSE
  OBVIOUS
<1>1. B \subseteq (f + 1)..t
      /\ \A a \in B \cup {f} : CanFit(a, Min({b \in B : b > a} \cup {t + 1}) - 1, w)
  BY BreaksAre
<1> DEFINE A == {a \in B \cup {f} : a <= x}
           a == Max(A)
           M == {b \in B : b > a} \cup {t + 1}
           m == Min(M)
<1>2. A \in SUBSET (0..x) /\ A # {}
  <2>1. B \cup {f} \subseteq Nat
    BY <1>1
  <2>2. f \in A
    OBVIOUS
  <2> QED BY <2>1, <2>2
<1> HIDE DEF A
<1>3. a \in A /\ \A z \in A : z <= a
  BY <1>2, MaxIs
<1>4. a \in B \cup {f} /\ a \in Nat /\ a <= x
  BY <1>2, <1>3 DEF A
<1> HIDE DEF a
<1>5. M \in SUBSET Nat /\ M # {}
  <2>1. B \subseteq Nat /\ t + 1 \in Nat
    BY <1>1
  <2> QED BY <2>1
<1>6. \A b \in M : b > y
  <2>1. ASSUME NEW b \in B, b > a PROVE b > y
    <3>1. b \in Nat /\ ~(x < b /\ b <= y)
      BY <1>1
    <3>2. ~(b <= x)
      <4>1. b \in A => b <= a
        BY <1>3
      <4> QED BY <1>4, <2>1, <3>1, <4>1 DEF A
    <3> QED BY <3>1, <3>2
  <2> QED BY <2>1
<1>7. CanFit(a, m - 1, w)
  BY <1>1, <1>4
<1> HIDE DEF M
<1>8. m \in M
  BY <1>5, MinIs
<1>9. m \in Nat /\ y <= m - 1
  <2>1. m \in Nat /\ m > y
    BY <1>5, <1>6, <1>8, Zenon
  <2> HIDE DEF m
  <2> QED BY <2>1
<1> HIDE DEF m
<1>10. CanFit(x, y, w)
  <2>1. a \in Int /\ m - 1 \in Int /\ x \in Int /\ y \in Int /\ a <= x
    BY <1>4, <1>9
  <2> QED BY <1>7, <1>9, <2>1, FitsWithin
<1> QED BY <1>10

\* The breaks between the lines of a stack are one way to break its chips.
LEMMA OwnBreaks ==
  ASSUME hashTags \in Seq(Tag), NEW w \in Nat, NEW ls \in Stack(w), ls # <<>>
  PROVE  \E B \in Breaks(Fst(ls[1]), Lst(ls[Len(ls)]), w) :
            Cardinality(B) \in Nat /\ Cardinality(B) + 1 <= Len(ls)
<1> DEFINE n == Len(ls)
           f == Fst(ls[1])
           t == Lst(ls[n])
           B == {Fst(ls[k + 1]) : k \in 1..(n - 1)}
<1>1. /\ n \in Nat \ {0} /\ 1 \in 1..n /\ n \in 1..n
      /\ \A i \in 1..n : /\ ls[i] \in GoodLine(w)
                         /\ Fst(ls[i]) \in Nat /\ Lst(ls[i]) \in Nat /\ Fst(ls[i]) <= Lst(ls[i])
      /\ \A i \in 1..(n - 1) : Fst(ls[i + 1]) = Lst(ls[i]) + 1
      /\ \A i, j \in 1..n : i < j => Lst(ls[i]) < Fst(ls[j])
  BY StackIs
<1>2. ASSUME NEW i \in 1..n, NEW j \in 1..n, i < j
      PROVE  Fst(ls[i]) < Fst(ls[j]) /\ Lst(ls[i]) < Fst(ls[j]) /\ Lst(ls[i]) < Lst(ls[j])
  <2>1. Lst(ls[i]) < Fst(ls[j])
    BY <1>1, <1>2
  <2>2. /\ Fst(ls[i]) \in Nat /\ Lst(ls[i]) \in Nat /\ Fst(ls[i]) <= Lst(ls[i])
        /\ Fst(ls[j]) \in Nat /\ Lst(ls[j]) \in Nat /\ Fst(ls[j]) <= Lst(ls[j])
    BY <1>1
  <2> QED BY <2>1, <2>2
<1>3. f \in Nat /\ t \in Nat
  BY <1>1
<1>4. \A k \in 1..(n - 1) : k + 1 \in 1..n /\ k \in 1..n
  BY <1>1
<1> HIDE DEF n
<1>5. B \subseteq (f + 1)..t
  <2>1. ASSUME NEW k \in 1..(n - 1) PROVE Fst(ls[k + 1]) \in (f + 1)..t
    <3>1. k + 1 \in 1..n /\ 1 < k + 1
      BY <1>1, <1>4
    <3>2. f < Fst(ls[k + 1]) /\ Fst(ls[k + 1]) \in Nat /\ Lst(ls[k + 1]) \in Nat
          /\ Fst(ls[k + 1]) <= Lst(ls[k + 1])
      BY <1>1, <1>2, <3>1
    <3>3. Lst(ls[k + 1]) <= t
      <4>1. k + 1 = n \/ k + 1 < n
        BY <1>1, <3>1
      <4>2. k + 1 < n => Lst(ls[k + 1]) < t
        BY <1>1, <1>2, <3>1
      <4> QED BY <1>3, <3>2, <4>1, <4>2
    <3> QED BY <1>3, <3>2, <3>3
  <2> QED BY <2>1
<1>6. IsFiniteSet(B) /\ Cardinality(B) \in Nat /\ Cardinality(B) <= n - 1
  <2> DEFINE g == [k \in 1..(n - 1) |-> Fst(ls[k + 1])]
  <2>1. g \in Surjection(1..(n - 1), B)
    BY DEF Surjection
  <2>2. ExistsSurjection(1..(n - 1), B) /\ n - 1 \in Nat
    <3>1. n - 1 \in Nat
      BY <1>1
    <3> HIDE DEF g, B
    <3>2. ExistsSurjection(1..(n - 1), B)
      BY <2>1, Zenon DEF ExistsSurjection
    <3> QED BY <3>1, <3>2
  <2>3. IsFiniteSet((f + 1)..t)
    <3>1. f + 1 \in Int /\ t \in Int
      BY <1>3
    <3> QED BY <3>1, FS_Interval, Zenon
  <2> HIDE DEF B
  <2>4. IsFiniteSet(B)
    BY <1>5, <2>3, FS_Subset
  <2> QED BY <2>2, <2>4, FS_SurjCardinalityBound, FS_CardinalityType
<1>7. ASSUME NEW a \in B \cup {f}
      PROVE  LineWidth(a, Min({b \in B : b > a} \cup {t + 1}) - 1, w) <= w
  <2>1. PICK k \in 1..n : a = Fst(ls[k])
    <3>1. CASE a = f
      BY <1>1, <3>1
    <3>2. CASE a # f
      <4>1. PICK k \in 1..(n - 1) : a = Fst(ls[k + 1])
        BY <1>7, <3>2
      <4> QED BY <1>4, <4>1
    <3> QED BY <3>1, <3>2
  <2> DEFINE M == {b \in B : b > a} \cup {t + 1}
             e == Lst(ls[k])
  <2>2. e \in Nat /\ a \in Nat /\ CanFit(a, e, w)
    BY <1>1, <2>1, GoodLineIs
  <2>3. e + 1 \in M
    <3>1. CASE k = n
      BY <3>1
    <3>2. CASE k # n
      <4>1. k \in 1..(n - 1)
        BY <1>1, <3>2
      <4>2. Fst(ls[k + 1]) \in B /\ Fst(ls[k + 1]) = e + 1
        BY <1>1, <4>1
      <4>3. e >= a
        BY <1>1, <2>1
      <4>4. Fst(ls[k + 1]) > a
        BY <2>2, <4>2, <4>3
      <4> QED BY <4>2, <4>4
    <3> QED BY <3>1, <3>2
  <2>4. ASSUME NEW x \in M PROVE x \in Nat /\ e + 1 <= x
    <3>1. CASE x = t + 1
      <4>1. k = n \/ k < n
        BY <1>1
      <4>2. k < n => e < t
        BY <1>1, <1>2
      <4> QED BY <1>3, <2>2, <3>1, <4>1, <4>2
    <3>2. CASE x \in B /\ x > a
      <4>1. PICK j \in 1..(n - 1) : x = Fst(ls[j + 1])
        BY <3>2
      <4>2. j + 1 \in 1..n /\ x \in Nat
        BY <1>1, <1>4, <4>1
      <4>3. ~(j + 1 = k) /\ ~(j + 1 < k)
        <5>1. j + 1 < k => x < a
          BY <1>2, <2>1, <4>1, <4>2
        <5> QED BY <2>1, <2>2, <3>2, <4>1, <4>2, <5>1
      <4>4. k < j + 1
        BY <4>2, <4>3
      <4>5. e < x
        BY <1>2, <4>1, <4>2, <4>4
      <4> QED BY <2>2, <4>2, <4>5
    <3> QED BY <3>1, <3>2
  <2> HIDE DEF M, e
  <2>5. Min(M) \in M /\ \A x \in M : Min(M) <= x
    <3>1. M \subseteq Nat /\ M # {}
      BY <2>3, <2>4
    <3> QED BY <3>1, MinIs
  <2>6. Min(M) = e + 1
    <3>1. Min(M) \in Nat /\ e + 1 <= Min(M) /\ Min(M) <= e + 1
      BY <2>3, <2>4, <2>5
    <3> QED BY <2>2, <3>1
  <2>7. LineWidth(a, Min(M) - 1, w) <= w
    <3>1. Min(M) - 1 = e
      BY <2>2, <2>6
    <3> QED BY <2>2, <3>1 DEF CanFit
  <2> QED BY <2>7 DEF M
<1>8. B \in Breaks(f, t, w)
  <2> HIDE DEF B, f, t
  <2> QED BY <1>5, <1>7 DEF Breaks
<1> HIDE DEF B
<1>9. Cardinality(B) + 1 <= n
  BY <1>1, <1>6
<1> QED BY <1>6, <1>8, <1>9 DEF n

\* No way to break the chips of a stack of tight lines has fewer lines.
LEMMA TightIsFewest ==
  ASSUME hashTags \in Seq(Tag), NEW w \in Nat, NEW ls \in Stack(w), ls # <<>>,
         \/ \A i \in 1..Len(ls) : UpTight(ls[i], w)
         \/ \A i \in 1..Len(ls) : DownTight(ls[i], w)
  PROVE  Len(ls) = Fewest(Fst(ls[1]), Lst(ls[Len(ls)]), w)
<1> DEFINE n == Len(ls)
           f == Fst(ls[1])
           t == Lst(ls[n])
           N == {Cardinality(B) + 1 : B \in Breaks(f, t, w)}
<1>1. /\ n \in Nat \ {0} /\ 1 \in 1..n /\ n \in 1..n /\ Size \in Nat
      /\ \A i \in 1..n : /\ Fst(ls[i]) \in Nat /\ Lst(ls[i]) \in Nat
                         /\ 1 <= Fst(ls[i]) /\ Fst(ls[i]) <= Lst(ls[i]) /\ Lst(ls[i]) <= Size
      /\ \A i, j \in 1..n : i < j => Lst(ls[i]) < Fst(ls[j])
  BY StackIs
<1>2. f \in Nat /\ t \in Nat
  BY <1>1
<1>3. ASSUME NEW k \in 1..n, k # 1 PROVE f < Fst(ls[k])
  <2>1. Lst(ls[1]) < Fst(ls[k]) /\ Fst(ls[1]) <= Lst(ls[1]) /\ Lst(ls[1]) \in Nat /\ Fst(ls[k]) \in Nat
    BY <1>1, <1>3
  <2> QED BY <1>2, <2>1
<1>4. ASSUME NEW k \in 1..n PROVE Lst(ls[k]) <= t
  <2>1. k = n \/ k < n
    BY <1>1
  <2>2. k < n => Lst(ls[k]) < Fst(ls[n]) /\ Fst(ls[n]) <= t /\ Fst(ls[n]) \in Nat
    BY <1>1
  <2>3. Lst(ls[k]) \in Nat
    BY <1>1
  <2> QED BY <1>2, <2>1, <2>2, <2>3
<1>5. ASSUME NEW k \in 1..n, k # n PROVE Lst(ls[k]) < t
  <2>1. Lst(ls[k]) < Fst(ls[n]) /\ Fst(ls[n]) <= t /\ Fst(ls[n]) \in Nat /\ Lst(ls[k]) \in Nat
    BY <1>1, <1>5
  <2> QED BY <1>2, <2>1
<1>6. ASSUME NEW k \in 1..n PROVE f <= Fst(ls[k])
  BY <1>1, <1>2, <1>3
<1>7. ASSUME NEW B \in Breaks(f, t, w) PROVE Cardinality(B) \in Nat /\ n <= Cardinality(B) + 1
  <2>1. B \in SUBSET Nat /\ IsFiniteSet(B) /\ Cardinality(B) \in Nat
    BY <1>2, BreaksAre
  <2>2. n - 1 \in Nat /\ \A k \in 1..(n - 1) : k \in 1..n /\ k # n /\ k + 1 \in 1..n /\ k + 1 # 1
    BY <1>1
  <2>3. CASE \A i \in 1..n : DownTight(ls[i], w)
    <3> DEFINE lo == [k \in 1..(n - 1) |-> Fst(ls[k])]
               hi == [k \in 1..(n - 1) |-> Lst(ls[k]) + 1]
    <3>1. lo \in [1..(n - 1) -> Nat] /\ hi \in [1..(n - 1) -> Nat]
      <4>1. ASSUME NEW k \in 1..(n - 1) PROVE Fst(ls[k]) \in Nat /\ Lst(ls[k]) + 1 \in Nat
        <5>1. k \in 1..n
          BY <2>2
        <5>2. Fst(ls[k]) \in Nat /\ Lst(ls[k]) \in Nat
          BY <1>1, <5>1
        <5> QED BY <5>2
      <4> QED BY <4>1
    <3>2. ASSUME NEW k \in 1..(n - 1) PROVE \E b \in B : lo[k] < b /\ b <= hi[k]
      <4> DEFINE x == Fst(ls[k])
                 y == Lst(ls[k])
      <4>1. k \in 1..n /\ k # n
        BY <2>2
      <4>2. x \in Nat /\ y \in Nat /\ x <= y /\ y <= Size
        BY <1>1, <4>1
      <4>3. f <= x /\ y < t /\ t <= Size
        BY <1>1, <1>5, <1>6, <4>1
      <4>4. ~CanFit(x, y + 1, w)
        BY <1>1, <1>2, <2>3, <4>1, <4>2, <4>3 DEF DownTight
      <4> HIDE DEF x, y
      <4>5. y + 1 \in Nat /\ x <= y + 1 /\ y + 1 <= t
        BY <1>2, <4>2, <4>3
      <4>6. \E b \in B : x < b /\ b <= y + 1
        BY <1>2, <4>2, <4>3, <4>4, <4>5, BreakNeeded
      <4> QED BY <4>6 DEF x, y
    <3>3. ASSUME NEW j \in 1..(n - 1), NEW k \in 1..(n - 1), j < k PROVE hi[j] <= lo[k]
      <4>1. Lst(ls[j]) < Fst(ls[k]) /\ Lst(ls[j]) \in Nat /\ Fst(ls[k]) \in Nat
        BY <1>1, <2>2, <3>3
      <4> QED BY <4>1
    <3> HIDE DEF lo, hi
    <3>4. n - 1 <= Cardinality(B)
      BY <2>1, <2>2, <3>1, <3>2, <3>3, Separated
    <3> QED BY <1>1, <2>1, <3>4
  <2>4. CASE \A i \in 1..n : UpTight(ls[i], w)
    <3> DEFINE lo == [k \in 1..(n - 1) |-> Fst(ls[k + 1]) - 1]
               hi == [k \in 1..(n - 1) |-> Lst(ls[k + 1])]
    <3>1. lo \in [1..(n - 1) -> Nat] /\ hi \in [1..(n - 1) -> Nat]
      <4>1. ASSUME NEW k \in 1..(n - 1) PROVE Fst(ls[k + 1]) - 1 \in Nat /\ Lst(ls[k + 1]) \in Nat
        <5>1. k + 1 \in 1..n
          BY <2>2
        <5>2. Fst(ls[k + 1]) \in Nat /\ 1 <= Fst(ls[k + 1]) /\ Lst(ls[k + 1]) \in Nat
          BY <1>1, <5>1
        <5> QED BY <5>2
      <4> QED BY <4>1
    <3>2. ASSUME NEW k \in 1..(n - 1) PROVE \E b \in B : lo[k] < b /\ b <= hi[k]
      <4> DEFINE x == Fst(ls[k + 1])
                 y == Lst(ls[k + 1])
      <4>1. k + 1 \in 1..n /\ k + 1 # 1
        BY <2>2
      <4>2. x \in Nat /\ y \in Nat /\ x <= y
        BY <1>1, <4>1
      <4>3. f < x /\ y <= t /\ 1 <= f
        BY <1>1, <1>3, <1>4, <4>1
      <4>4. ~CanFit(x - 1, y, w)
        BY <1>2, <2>4, <4>1, <4>2, <4>3 DEF UpTight
      <4> HIDE DEF x, y
      <4>5. x - 1 \in Nat /\ x - 1 <= y /\ f <= x - 1
        BY <1>2, <4>2, <4>3
      <4>6. \E b \in B : x - 1 < b /\ b <= y
        BY <1>2, <4>2, <4>3, <4>4, <4>5, BreakNeeded
      <4> QED BY <4>6 DEF x, y
    <3>3. ASSUME NEW j \in 1..(n - 1), NEW k \in 1..(n - 1), j < k PROVE hi[j] <= lo[k]
      <4>1. j + 1 \in 1..n /\ k + 1 \in 1..n /\ j + 1 < k + 1
        BY <2>2, <3>3
      <4>2. Lst(ls[j + 1]) < Fst(ls[k + 1]) /\ Lst(ls[j + 1]) \in Nat /\ Fst(ls[k + 1]) \in Nat
        BY <1>1, <4>1
      <4> QED BY <4>2
    <3> HIDE DEF lo, hi
    <3>4. n - 1 <= Cardinality(B)
      BY <2>1, <2>2, <3>1, <3>2, <3>3, Separated
    <3> QED BY <1>1, <2>1, <3>4
  <2> QED BY <2>1, <2>3, <2>4
<1>8. PICK B \in Breaks(f, t, w) : Cardinality(B) \in Nat /\ Cardinality(B) + 1 <= n
  BY OwnBreaks
<1> HIDE DEF n, f, t
<1>9. N \in SUBSET Nat /\ \A x \in N : n <= x
  BY <1>7
<1>10. n \in N
  <2>1. Cardinality(B) + 1 = n
    <3>1. n <= Cardinality(B) + 1
      BY <1>7
    <3> QED BY <1>1, <1>8, <3>1
  <2> QED BY <2>1
<1> HIDE DEF N
<1>11. Min(N) = n
  <2>1. Min(N) \in N /\ Min(N) <= n
    BY <1>9, <1>10, MinIs
  <2>2. Min(N) \in Nat /\ n <= Min(N)
    BY <1>9, <2>1
  <2> QED BY <1>1, <2>1, <2>2
<1>12. Fewest(f, t, w) = Min(N)
  BY DEF Fewest, N
<1> QED BY <1>11, <1>12 DEF n, f, t

LEMMA FewLinesHolds == ChipsInv => FewLines
<1> SUFFICES ASSUME ChipsInv, ~dirty PROVE FewLines
  BY DEF FewLines
<1>1. ChipsType /\ width \in Nat \ {0} /\ hashTags \in Seq(Tag)
  BY Sizes DEF ChipsInv, ChipsType
<1>2. PICK ls, w, h : ls = lines /\ w = width /\ h = height /\ Shown(ls, w, h)
  BY DEF ChipsInv
<1>3. w \in Nat /\ ls \in Stack(w)
  BY <1>1, <1>2 DEF Shown
<1>4. /\ ls \in Seq(GoodLine(w)) /\ DOMAIN ls = 1..Len(ls) /\ Len(ls) \in Nat
  BY <1>1, <1>3, StackIs
<1>5. ASSUME NEW l \in DOMAIN ls PROVE LineWidth(Head(ls[l]).at, Last(ls[l]).at, w) <= w
  <2>1. ls[l] \in GoodLine(w)
    BY <1>4
  <2> QED BY <2>1 DEF GoodLine, CanFit, Fst, Lst
<1>6. PICK seam \in 0..Len(ls) :
        /\ \A i \in 1..seam : UpTight(ls[i], w)
        /\ \A i \in (seam + 1)..Len(ls) : DownTight(ls[i], w)
  BY <1>2 DEF Shown
<1>7. ASSUME NEW part \in Stack(w),
             \/ \A i \in 1..Len(part) : UpTight(part[i], w)
             \/ \A i \in 1..Len(part) : DownTight(part[i], w)
      PROVE  Best(part)
  <2>1. SUFFICES ASSUME part # <<>>
                 PROVE  Len(part) = Fewest(Head(part[1]).at, Last(Last(part)).at, width)
    BY DEF Best
  <2>2. Len(part) = Fewest(Fst(part[1]), Lst(part[Len(part)]), w)
    BY <1>1, <1>3, <1>7, <2>1, TightIsFewest
  <2> QED BY <1>2, <2>2 DEF Fst, Lst, Last
<1>8. Best(SubSeq(ls, 1, seam))
  <2> DEFINE part == SubSeq(ls, 1, seam)
  <2>1. 1 \in 1..(Len(ls) + 1) /\ seam \in (1 - 1)..Len(ls)
    BY <1>4
  <2>2. part \in Stack(w)
    BY <1>1, <1>3, <2>1, StackCut
  <2>3. Len(part) = seam - 1 + 1 /\ \A i \in 1..(seam - 1 + 1) : part[i] = ls[i + 1 - 1]
    BY <1>4, <2>1, CutIs
  <2> HIDE DEF part
  <2>4. \A i \in 1..Len(part) : UpTight(part[i], w)
    <3>1. Len(part) = seam /\ \A i \in 1..seam : part[i] = ls[i]
      BY <2>1, <2>3
    <3> QED BY <1>6, <3>1
  <2>5. Best(part)
    BY <1>7, <2>2, <2>4
  <2> QED BY <2>5 DEF part
<1>9. Best(SubSeq(ls, seam + 1, Len(ls)))
  <2> DEFINE part == SubSeq(ls, seam + 1, Len(ls))
             n == Len(ls)
  <2>1. seam + 1 \in 1..(n + 1) /\ n \in ((seam + 1) - 1)..n
    BY <1>4
  <2>2. part \in Stack(w)
    BY <1>1, <1>3, <2>1, StackCut
  <2>3. Len(part) = n - (seam + 1) + 1
        /\ \A i \in 1..(n - (seam + 1) + 1) : part[i] = ls[i + (seam + 1) - 1]
    BY <1>4, <2>1, CutIs
  <2> HIDE DEF part
  <2>4. \A i \in 1..Len(part) : DownTight(part[i], w)
    <3>1. ASSUME NEW i \in 1..Len(part) PROVE DownTight(part[i], w)
      <4>1. i \in 1..(n - (seam + 1) + 1) /\ i + (seam + 1) - 1 \in (seam + 1)..n
        BY <1>4, <2>1, <2>3
      <4>2. part[i] = ls[i + (seam + 1) - 1]
        BY <2>3, <4>1
      <4> QED BY <1>6, <4>1, <4>2
    <3> QED BY <3>1
  <2>5. Best(part)
    BY <1>7, <2>2, <2>4
  <2> QED BY <2>5 DEF part
<1>10. \A l \in DOMAIN lines : LineWidth(Head(lines[l]).at, Last(lines[l]).at, width) <= width
  BY <1>2, <1>5
<1>11. \E m \in 0..Len(lines) : Best(SubSeq(lines, 1, m)) /\ Best(SubSeq(lines, m + 1, Len(lines)))
  BY <1>2, <1>8, <1>9
<1> QED BY <1>10, <1>11 DEF FewLines

\* The chips on the screen are laid out from the list that the adapter has: after
\* any history of layouts, scrolling, rotations and edits they are a stretch of it,
\* each chip with its own tag, and fill the screen unless they are all of it.
THEOREM WindowOfTheList == Spec => []ShownIsWindow
<1>1. Spec => []ChipsInv
  BY InitChips, ChipsStep, PTL DEF Spec
<1> QED BY <1>1, WindowHolds, PTL

\* For chips and screens of any width: no line is too wide, and except at the one
\* place between the lines laid out upward and those laid out downward, layoutChunk
\* needs no more lines than any other way to break the list.
THEOREM FewestLines == Spec => []FewLines
<1>1. Spec => []ChipsInv
  BY InitChips, ChipsStep, PTL DEF Spec
<1> QED BY <1>1, FewLinesHolds, PTL

=============================================================================
