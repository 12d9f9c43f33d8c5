------------------------------ MODULE TagChips ------------------------------
(***************************************************************************)
(* The chips of an editor: HashTagListAdapter, the list of tags, and       *)
(* WordsLayoutManager, which breaks it into lines like the words of a text.*)
(*                                                                         *)
(* The adapter reports every change at once, but the chips are laid out    *)
(* again only in the next frame: until then those of the old list are on   *)
(* the screen and can be clicked.  RecyclerView and LinearLayoutManager    *)
(* (external) decide when lines are asked for, from which position, upward *)
(* or downward, and throw away the lines that leave the screen; which      *)
(* chips a line takes is layoutChunk's.  All lines have the same height    *)
(* here, and the list scrolls by whole lines.                              *)
(***************************************************************************)
EXTENDS Integers, SequencesExt, FiniteSetsExt

CONSTANTS
  Tag,      \* numbers: < stands for String.compareTo
  Inputs,   \* what is typed into actv_tag: a set of tags
  Given,    \* the tags an editor may be opened with, in order
  Width,    \* Width[t]: the chip of t on one line, with its margins
  Widths,   \* what is left of the screen's width, in portrait and landscape
  Heights   \* lines on the screen, with and without the keyboard

ASSUME TagChipsAssumption ==
  /\ Tag \subseteq Nat /\ Width \in [Tag -> Nat \ {0}]
  /\ \A pieces \in Inputs : pieces \subseteq Tag /\ IsFiniteSet(pieces)
  /\ Given \subseteq Seq(Tag)
  /\ Widths \subseteq Nat \ {0} /\ Heights \subseteq Nat \ {0}

VARIABLES
  hashTags,     \* the adapter's list
  width,        \* the width of the RecyclerView
  height,       \* its height
  layoutWidth,  \* the width at the last layout; 0 before the first
  lines,        \* the lines on the screen; a chip is its position and its tag
  saved,        \* the position restored from the instance state, 0 if none
  dirty,        \* notifyDataSetChanged was called after the last layout
  crashed       \* remove(0) found the list empty

vars == <<hashTags, width, height, layoutWidth, lines, saved, dirty, crashed>>

Size == Len(hashTags)
FirstChip == Head(Head(lines))
LastChip == Last(Last(lines))

Init ==
  /\ hashTags \in Given
  /\ width \in Widths /\ height \in Heights /\ layoutWidth = 0
  /\ lines = <<>> /\ saved = 0 /\ dirty = TRUE /\ crashed = FALSE

(***************************************************************************)
(* layoutChunk                                                             *)
(***************************************************************************)
\* tag_item is measured with the width of the line as its maximum.
ChipWidth(p, w) == Min({Width[hashTags[p]], w})

\* LineModel.width, once the chips first..last are added: the columns of pixels
\* that they take.
LineWidth(first, last, w) ==
  Cardinality({c \in (first..last) \X (1..w) : c[2] <= ChipWidth(c[1], w)})

\* Mutant: a line is closed before it is full.
CanFitStrict(first, last, w) == first = last \/ LineWidth(first, last, w) < w

\* LineModel.canFit, for every chip that is on the line at the end.
CanFit(first, last, w) == LineWidth(first, last, w) <= w

Line(first, last) == [i \in 1..(last - first + 1) |->
                        [at |-> first + i - 1, tag |-> hashTags[first + i - 1]]]

\* The line that begins at p, and the line that ends at p.
LineDown(p, w) == Line(p, Max({q \in p..Size : CanFit(p, q, w)}))
LineUp(p, w) == Line(Min({q \in 1..p : CanFit(q, p, w)}), p)

\* Mutant: the chip that did not fit is not put back (mCurrentPosition--).
AfterLost(line) == Last(line).at + 2

\* mCurrentPosition after a line downward, and after a line upward.
After(line) == Last(line).at + 1
Before(line) == Head(line).at - 1

\* LinearLayoutManager.fill: room lines from p on, or up to p, while there is a
\* chip left.
FillEnd(p, room, w) ==
  LET fill[r \in 0..room] ==
        IF r = 0 THEN <<>>
        ELSE LET done == fill[r - 1]
                 next == IF done = <<>> THEN p ELSE After(Last(done))
             IN  IF next > Size THEN done ELSE Append(done, LineDown(next, w))
  IN  fill[room]

FillStart(p, room, w) ==
  LET fill[r \in 0..room] ==
        IF r = 0 THEN <<>>
        ELSE LET done == fill[r - 1]
                 next == IF done = <<>> THEN p ELSE Before(Head(done))
             IN  IF next = 0 THEN done ELSE <<LineUp(next, w)>> \o done
  IN  fill[room]

(***************************************************************************)
(* Layout and scrolling                                                    *)
(***************************************************************************)
\* LinearLayoutManager.updateAnchorInfoForLayout: the position restored, or
\* the first chip on the screen, if the list still has that position.
Anchor ==
  LET p == IF saved # 0 THEN saved ELSE IF lines # <<>> THEN FirstChip.at ELSE 1
  IN  IF p <= Size THEN p ELSE 1

\* onLayoutChildren: from the anchor downward, then upward into the room left.
\* Layouts are asked for by a change of the list, or of the view's height.
Layout(h) ==
  /\ dirty \/ h # height
  /\ LET down == FillEnd(Anchor, h, width)
         up == FillStart(IF Size = 0 THEN 0 ELSE Anchor - 1, h - Len(down), width)
     IN  lines' = up \o down
  /\ layoutWidth' = width /\ height' = h
  /\ saved' = 0 /\ dirty' = FALSE
  /\ UNCHANGED <<hashTags, width, crashed>>

\* RecyclerView does an outstanding layout before it scrolls.
ScrollDown ==
  /\ ~dirty /\ lines # <<>> /\ LastChip.at < Size
  /\ LET new == Append(lines, LineDown(LastChip.at + 1, layoutWidth))
     IN  lines' = SubSeq(new, Max({1, Len(new) - height + 1}), Len(new))
  /\ UNCHANGED <<hashTags, width, height, layoutWidth, saved, dirty, crashed>>

ScrollUp ==
  /\ ~dirty /\ lines # <<>> /\ FirstChip.at > 1
  /\ LET new == <<LineUp(FirstChip.at - 1, layoutWidth)>> \o lines
     IN  lines' = SubSeq(new, 1, Min({height, Len(new)}))
  /\ UNCHANGED <<hashTags, width, height, layoutWidth, saved, dirty, crashed>>

(***************************************************************************)
(* The editor                                                              *)
(***************************************************************************)
\* notifyDataChanged; what onDataChanged saves is in MemoManage.
NotifyDataChanged(list) == hashTags' = list /\ dirty' = TRUE

\* The list with every piece that isContain does not find in it, sorted: at i is
\* the tag that less than i of them come before, but not less than i up to it.
Added(pieces) ==
  LET all == hashTags \o SetToSeq(pieces \ ToSet(hashTags))
      Lower(t) == {j \in DOMAIN all : all[j] < t}
      UpTo(t) == {j \in DOMAIN all : all[j] <= t}
  IN  [i \in DOMAIN all |->
         CHOOSE t \in ToSet(all) : Cardinality(Lower(t)) < i /\ i <= Cardinality(UpTo(t))]

\* addTag
AddTags(pieces) ==
  /\ NotifyDataChanged(Added(pieces))
  /\ UNCHANGED <<width, height, layoutWidth, lines, saved, crashed>>

\* A click on a chip.  ItemHashTag.position is never assigned: whichever chip it
\* is, the first tag goes, and ArrayList.remove throws when there is none.
ClickChip ==
  /\ lines # <<>>
  /\ IF hashTags = <<>>
     THEN crashed' = TRUE /\ UNCHANGED <<hashTags, dirty>>
     ELSE NotifyDataChanged(Tail(hashTags)) /\ UNCHANGED crashed
  /\ UNCHANGED <<width, height, layoutWidth, lines, saved>>

\* The activity is built again, perhaps after a rotation: set() of the tags of
\* the memo or of the parent group; LinearLayoutManager keeps the position.
Recreate(list, w) ==
  /\ NotifyDataChanged(list)
  /\ width' = w /\ layoutWidth' = 0 /\ lines' = <<>>
  /\ saved' = IF saved # 0 THEN saved ELSE IF lines # <<>> THEN FirstChip.at ELSE 0
  /\ UNCHANGED <<height, crashed>>

Next ==
  /\ ~crashed
  /\ \/ \E h \in Heights : Layout(h)
     \/ ScrollDown
     \/ ScrollUp
     \/ \E pieces \in Inputs : AddTags(pieces)
     \/ ClickChip
     \/ \E list \in Given \cup {hashTags}, w \in Widths : Recreate(list, w)

Spec == Init /\ [][Next]_vars

(***************************************************************************)
(* Properties                                                              *)
(***************************************************************************)
\* After a layout, and however it was scrolled since, the screen shows a stretch
\* of the list, each chip once, in order and with its own tag; and it is full
\* unless it shows the whole list.  Guards the position that layoutChunk gives
\* back when a chip does not fit, in both directions.  A click that finds the list
\* empty is therefore always one on a chip of the frame before.
ShownIsWindow ==
  ~dirty =>
    /\ \A l \in DOMAIN lines :
         /\ lines[l] # <<>>
         /\ \A i \in DOMAIN lines[l] :
              LET chip == lines[l][i]
              IN  /\ chip.at = Head(lines[l]).at + i - 1
                  /\ chip.at \in 1..Size /\ chip.tag = hashTags[chip.at]
         /\ l > 1 => Head(lines[l]).at = Last(lines[l - 1]).at + 1
    /\ Len(lines) < height =>
         IF Size = 0 THEN lines = <<>>
         ELSE lines # <<>> /\ FirstChip.at = 1 /\ LastChip.at = Size

\* Reference: the ways to break first..last into lines, as the set of the
\* positions at which a line begins, and the number of lines of the best one.
Breaks(first, last, w) ==
  {B \in SUBSET ((first + 1)..last) :
     \A a \in B \cup {first} :
       LineWidth(a, Min({b \in B : b > a} \cup {last + 1}) - 1, w) <= w}

Fewest(first, last, w) ==
  Min({Cardinality(B) + 1 : B \in Breaks(first, last, w)})

Best(ls) ==
  ls # <<>> => Len(ls) = Fewest(Head(ls[1]).at, Last(Last(ls)).at, width)

\* No line is wider than the view, and filling lines one chip at a time is as good
\* as any way to break them, with one exception: after any history of layouts,
\* scrolling, rotations and edits there is at most one place on the screen, the
\* line from which was laid out downward and above which upward, where the lines
\* could be fewer.
FewLines ==
  ~dirty =>
    /\ \A l \in DOMAIN lines : LineWidth(Head(lines[l]).at, Last(lines[l]).at, width) <= width
    /\ \E seam \in 0..Len(lines) :
         Best(SubSeq(lines, 1, seam)) /\ Best(SubSeq(lines, seam + 1, Len(lines)))

=============================================================================
