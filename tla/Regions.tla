------------------------------ MODULE Regions ------------------------------
(***************************************************************************)
(* The region arithmetic of mi/miregion.c, on which clipping, exposure and *)
(* every window operation of the server rest.                              *)
(*                                                                         *)
(* A region is a set of pixels kept as an array of boxes in YX-banded      *)
(* order: the boxes of a band have the same top and bottom and do not      *)
(* touch, bands follow each other downwards, and two bands that touch are  *)
(* merged when their boxes have the same sides (comment at miregion.c:80). *)
(* The module computes with that array as the code does: bands are swept   *)
(* two at a time, clipped with ybot and ytop, appended, and coalesced with *)
(* the band before.  What the array stands for, the set of its pixels, is  *)
(* kept beside it in the history variable pixels, and the property is that *)
(* the array is always the banded form of that set.                        *)
(*                                                                         *)
(* The region operated on is the destination and one of the sources, as in *)
(* most calls of the server; the other source is one of Operands.          *)
(* Allocation fails at the first allocation of an operation or not at all. *)
(***************************************************************************)
EXTENDS Integers, Sequences, FiniteSets

CONSTANTS Operands,    \* the pixel sets of the regions operated with
          MinShort,    \* the coordinates are shorts: pixels lie between
          MaxShort,    \* MinShort and MaxShort
          Shifts,      \* <<x, y>> a region is translated by
          RectLists,   \* lists of rectangles a client describes regions with
          MaxAppends   \* how many regions are appended before a validation

VARIABLES region,      \* the RegionRec: extents, boxes, REGION_NAR
          pixels,      \* history: the set the region is to stand for
          appends,     \* regions appended since the last validation
          exact,       \* history: is the region to be the form of pixels?
          overlap,     \* *pOverlap of the last miRegionValidate
          overlapped   \* history: whether the boxes appended did overlap

regionVars == <<region, pixels, appends, exact, overlap, overlapped>>

LOCAL Least(a, b) == IF a < b THEN a ELSE b
LOCAL Most(a, b)  == IF a > b THEN a ELSE b

Box(x1, y1, x2, y2) == [x1 |-> x1, y1 |-> y1, x2 |-> x2, y2 |-> y2]
Boxes == {Box(x1, y1, x2, y2) : x1, y1, x2, y2 \in MinShort .. MaxShort}
ProperBoxes == {b \in Boxes : b.x1 < b.x2 /\ b.y1 < b.y2}
Plane == (MinShort .. MaxShort - 1) \X (MinShort .. MaxShort - 1)

InBox(p, b) == b.x1 <= p[1] /\ p[1] < b.x2 /\ b.y1 <= p[2] /\ p[2] < b.y2
PixelsOf(boxes) == {p \in Plane : \E i \in DOMAIN boxes : InBox(p, boxes[i])}

EmptyBox == Box(0, 0, 0, 0)
Whole(extents, boxes) == [extents |-> extents, boxes |-> boxes, nar |-> FALSE]
Broken == [extents |-> EmptyBox, boxes |-> <<>>, nar |-> TRUE]
Rectangle(b) == Whole(b, <<b>>)

IsNil(r) == r.boxes = <<>>
IsRectangle(r) == Len(r.boxes) = 1        \* data is NULL
ExtentCheck(a, b) == ~(a.x2 <= b.x1 \/ a.x1 >= b.x2 \/ a.y2 <= b.y1 \/ a.y1 >= b.y2)
Subsumes(a, b) == a.x1 <= b.x1 /\ a.x2 >= b.x2 /\ a.y1 <= b.y1 /\ a.y2 >= b.y2
Collapsed(e) == [e EXCEPT !.x2 = e.x1, !.y2 = e.y1]
Join(a, b) == Box(Least(a.x1, b.x1), Least(a.y1, b.y1), Most(a.x2, b.x2), Most(a.y2, b.y2))
Meet(a, b) == Box(Most(a.x1, b.x1), Most(a.y1, b.y1), Least(a.x2, b.x2), Least(a.y2, b.y2))

(***************************************************************************)
(* The reference: the banded form of a set of pixels.  A row's spans are   *)
(* the maximal runs of the row; a band is a maximal run of rows that have  *)
(* the same, nonempty spans.                                               *)
(***************************************************************************)
Row(set, y) == {x \in MinShort .. MaxShort - 1 : <<x, y>> \in set}
Spans(row) == {s \in (MinShort .. MaxShort) \X (MinShort .. MaxShort) :
                 /\ s[1] < s[2]
                 /\ s[1] .. s[2] - 1 \subseteq row
                 /\ s[1] - 1 \notin row /\ s[2] \notin row}
BandedBoxes(set) ==
  {b \in ProperBoxes :
     /\ \A y \in b.y1 .. b.y2 - 1 : Row(set, y) = Row(set, b.y1)
     /\ Row(set, b.y1 - 1) # Row(set, b.y1) /\ Row(set, b.y2) # Row(set, b.y1)
     /\ <<b.x1, b.x2>> \in Spans(Row(set, b.y1))}
Before(a, b) == a.y1 < b.y1 \/ (a.y1 = b.y1 /\ a.x1 < b.x1)
BandedForm(set) ==
  LET all == BandedBoxes(set)
  IN [i \in 1 .. Cardinality(all) |->
        CHOOSE b \in all : Cardinality({a \in all : Before(a, b)}) = i - 1]
Tight(e, form) ==
  /\ \A b \in form : Subsumes(e, b)
  /\ \E b \in form : b.x1 = e.x1
  /\ \E b \in form : b.y1 = e.y1
  /\ \E b \in form : b.x2 = e.x2
  /\ \E b \in form : b.y2 = e.y2
IsFormOf(r, set) ==
  IF set = {} THEN r.boxes = <<>> /\ r.extents = Collapsed(r.extents)
  ELSE r.boxes = BandedForm(set) /\ Tight(r.extents, BandedBoxes(set))

---------------------------------------------------------------------------
(* A region under construction: its boxes, how many of them come before    *)
(* the previous band, and *pOverlap.                                       *)

Start == [boxes |-> <<>>, prevBand |-> 0, hit |-> FALSE]

\* mutant of Coalesce: bands are merged though they do not touch
CoalesceAcrossGaps(new, curBand) ==
  LET n == curBand - new.prevBand
      b == new.boxes
      Same(i) == b[new.prevBand + i].x1 = b[curBand + i].x1 /\ b[new.prevBand + i].x2 = b[curBand + i].x2
  IN IF n > 0 /\ n = Len(b) - curBand /\ \A i \in 1 .. n : Same(i)
     THEN [new EXCEPT !.boxes = [i \in 1 .. curBand |->
                        IF i <= new.prevBand THEN b[i] ELSE [b[i] EXCEPT !.y2 = b[curBand + 1].y2]]]
     ELSE [new EXCEPT !.prevBand = curBand]

\* Coalesce and miCoalesce: the boxes after curBand are the current band.
Coalesce(new, curBand) ==
  LET n == curBand - new.prevBand
      b == new.boxes
      Same(i) == b[new.prevBand + i].x1 = b[curBand + i].x1 /\ b[new.prevBand + i].x2 = b[curBand + i].x2
  IN IF /\ n > 0 /\ n = Len(b) - curBand
        /\ b[new.prevBand + 1].y2 = b[curBand + 1].y1
        /\ \A i \in 1 .. n : Same(i)
     THEN [new EXCEPT !.boxes = [i \in 1 .. curBand |->
                        IF i <= new.prevBand THEN b[i] ELSE [b[i] EXCEPT !.y2 = b[curBand + 1].y2]]]
     ELSE [new EXCEPT !.prevBand = curBand]

AppendBand(new, band) == Coalesce([new EXCEPT !.boxes = @ \o band], Len(new.boxes))

\* miAppendNonO: a band of one region only, clipped at top and bottom.
AppendNonO(new, wanted, band, top, bottom) ==
  IF wanted /\ top # bottom
  THEN AppendBand(new, [i \in DOMAIN band |-> [band[i] EXCEPT !.y1 = top, !.y2 = bottom]])
  ELSE new

\* FindBand: the boxes that share the top of the first, and those after.
BandOf(r) == SelectSeq(r, LAMBDA b : b.y1 = r[1].y1)
AfterBand(r) == SelectSeq(r, LAMBDA b : b.y1 # r[1].y1)

\* miIntersectO.
RECURSIVE IntersectO(_, _, _, _)
IntersectO(r1, r2, y1, y2) ==
  IF r1 = <<>> \/ r2 = <<>> THEN <<>> ELSE
  LET left  == Most(r1[1].x1, r2[1].x1)
      right == Least(r1[1].x2, r2[1].x2)
  IN (IF left < right THEN <<Box(left, y1, right, y2)>> ELSE <<>>)
     \o IntersectO(IF r1[1].x2 = right THEN Tail(r1) ELSE r1,
                   IF r2[1].x2 = right THEN Tail(r2) ELSE r2, y1, y2)

\* miUnionO: the leftmost box that is left is merged into the current one
\* (MERGERECT) or begins a new one.
RECURSIVE MergeRects(_, _, _)
MergeRects(cur, r1, r2) ==
  IF r1 = <<>> /\ r2 = <<>> THEN <<cur>> ELSE
  LET first == r2 = <<>> \/ (r1 # <<>> /\ r1[1].x1 < r2[1].x1)
      next  == IF first THEN r1[1] ELSE r2[1]
      rest1 == IF first THEN Tail(r1) ELSE r1
      rest2 == IF first THEN r2 ELSE Tail(r2)
  IN IF next.x1 <= cur.x2
     THEN MergeRects([cur EXCEPT !.x2 = Most(@, next.x2)], rest1, rest2)
     ELSE <<cur>> \o MergeRects([cur EXCEPT !.x1 = next.x1, !.x2 = next.x2], rest1, rest2)

UnionO(r1, r2, y1, y2) ==
  IF r1[1].x1 < r2[1].x1
  THEN MergeRects(Box(r1[1].x1, y1, r1[1].x2, y2), Tail(r1), r2)
  ELSE MergeRects(Box(r2[1].x1, y1, r2[1].x2, y2), r1, Tail(r2))

\* MERGERECT reports a box that begins before the current one ends; in a band
\* of two regions that is one box of each.
Overlaps(r1, r2) == \E i \in DOMAIN r1, j \in DOMAIN r2 : r1[i].x1 < r2[j].x2 /\ r2[j].x1 < r1[i].x2

\* miSubtractO: x1 is the leftmost point of the minuend not yet checked.
RECURSIVE SubtractFrom(_, _, _, _, _)
SubtractFrom(x1, r1, r2, y1, y2) ==
  LET NextMinuend == SubtractFrom(IF Len(r1) > 1 THEN r1[2].x1 ELSE x1, Tail(r1), r2, y1, y2)
      Covered == IF r2[1].x2 >= r1[1].x2 THEN NextMinuend
                 ELSE SubtractFrom(r2[1].x2, r1, Tail(r2), y1, y2)
      Piece(to) == IF x1 < to THEN <<Box(x1, y1, to, y2)>> ELSE <<>>
  IN IF r1 = <<>> THEN <<>>
     ELSE IF r2 = <<>> THEN Piece(r1[1].x2) \o NextMinuend
     ELSE IF r2[1].x2 <= x1 THEN SubtractFrom(x1, r1, Tail(r2), y1, y2)
     ELSE IF r2[1].x1 >= r1[1].x2 THEN Piece(r1[1].x2) \o NextMinuend
     ELSE Piece(r2[1].x1) \o Covered

OverlapFunc(op, r1, r2, y1, y2) ==
  CASE op = "union"     -> UnionO(r1, r2, y1, y2)
    [] op = "intersect" -> IntersectO(r1, r2, y1, y2)
    [] op = "subtract"  -> SubtractFrom(r1[1].x1, r1, r2, y1, y2)
AppendsFirst(op)  == op \in {"union", "subtract"}     \* appendNon1
AppendsSecond(op) == op = "union"                     \* appendNon2

\* miRegionOp: one band of each region at a time; ybot is the bottom of the
\* last intersection.  What is left of a wanted region at the end is clipped
\* and coalesced for its first band and appended as it is for the others.
AppendLeftovers(new, wanted, r, ybot) ==
  IF wanted /\ r # <<>>
  THEN [AppendNonO(new, TRUE, BandOf(r), Most(r[1].y1, ybot), r[1].y2) EXCEPT !.boxes = @ \o AfterBand(r)]
  ELSE new

RECURSIVE SweepBands(_, _, _, _, _)
SweepBands(op, r1, r2, ybot, new) ==
  IF r1 = <<>> \/ r2 = <<>>
  THEN AppendLeftovers(AppendLeftovers(new, AppendsFirst(op), r1, ybot), AppendsSecond(op), r2, ybot)
  ELSE
    LET a == r1[1]
        b == r2[1]
        above == IF a.y1 < b.y1
                 THEN AppendNonO(new, AppendsFirst(op), BandOf(r1), Most(a.y1, ybot), Least(a.y2, b.y1))
                 ELSE IF b.y1 < a.y1
                 THEN AppendNonO(new, AppendsSecond(op), BandOf(r2), Most(b.y1, ybot), Least(b.y2, a.y1))
                 ELSE new
        ytop  == Most(a.y1, b.y1)
        below == Least(a.y2, b.y2)
        both  == IF below > ytop
                 THEN [AppendBand(above, OverlapFunc(op, BandOf(r1), BandOf(r2), ytop, below))
                         EXCEPT !.hit = @ \/ Overlaps(BandOf(r1), BandOf(r2))]
                 ELSE above
    IN SweepBands(op, IF a.y2 = below THEN AfterBand(r1) ELSE r1,
                      IF b.y2 = below THEN AfterBand(r2) ELSE r2, below, both)

RegionOp(op, r1, r2) == SweepBands(op, r1, r2, Least(r1[1].y1, r2[1].y1), Start)

\* miSetExtents.
RECURSIVE SidesOf(_)
SidesOf(boxes) == IF Len(boxes) = 1 THEN boxes[1] ELSE Join(boxes[1], SidesOf(Tail(boxes)))
SetExtents(extents, boxes) ==
  Whole(IF boxes = <<>> THEN Collapsed(extents)
        ELSE [SidesOf(boxes) EXCEPT !.y1 = boxes[1].y1, !.y2 = boxes[Len(boxes)].y2], boxes)

---------------------------------------------------------------------------
(* The exported operations.  dst is the destination before the operation;  *)
(* memory says whether the allocation, when there is one, succeeds.        *)

RegionCopy(dst, src, memory) == IF dst # src /\ Len(src.boxes) > 1 /\ ~memory THEN Broken ELSE src

\* miIntersect.
Intersect(dst, reg1, reg2, same, memory) ==
  IF IsNil(reg1) \/ IsNil(reg2) \/ ~ExtentCheck(reg1.extents, reg2.extents)
  THEN [Whole(Collapsed(dst.extents), <<>>) EXCEPT !.nar = reg1.nar \/ reg2.nar]
  ELSE IF IsRectangle(reg1) /\ IsRectangle(reg2) THEN Rectangle(Meet(reg1.extents, reg2.extents))
  ELSE IF IsRectangle(reg2) /\ Subsumes(reg2.extents, reg1.extents) THEN RegionCopy(dst, reg1, memory)
  ELSE IF IsRectangle(reg1) /\ Subsumes(reg1.extents, reg2.extents) THEN RegionCopy(dst, reg2, memory)
  ELSE IF same THEN RegionCopy(dst, reg1, memory)
  ELSE IF ~memory THEN Broken
  ELSE SetExtents(dst.extents, RegionOp("intersect", reg1.boxes, reg2.boxes).boxes)

\* miUnion.
Unite(dst, reg1, reg2, same, memory) ==
  IF same THEN RegionCopy(dst, reg1, memory)
  ELSE IF IsNil(reg1) THEN IF reg1.nar THEN Broken ELSE RegionCopy(dst, reg2, memory)
  ELSE IF IsNil(reg2) THEN IF reg2.nar THEN Broken ELSE RegionCopy(dst, reg1, memory)
  ELSE IF IsRectangle(reg1) /\ Subsumes(reg1.extents, reg2.extents) THEN RegionCopy(dst, reg1, memory)
  ELSE IF IsRectangle(reg2) /\ Subsumes(reg2.extents, reg1.extents) THEN RegionCopy(dst, reg2, memory)
  ELSE IF ~memory THEN Broken
  ELSE Whole(Join(reg1.extents, reg2.extents), RegionOp("union", reg1.boxes, reg2.boxes).boxes)

\* miSubtract.
Subtract(dst, regM, regS, same, memory) ==
  IF IsNil(regM) \/ IsNil(regS) \/ ~ExtentCheck(regM.extents, regS.extents)
  THEN IF regS.nar THEN Broken ELSE RegionCopy(dst, regM, memory)
  ELSE IF same THEN Whole(Collapsed(dst.extents), <<>>)
  ELSE IF ~memory THEN Broken
  ELSE SetExtents(dst.extents, RegionOp("subtract", regM.boxes, regS.boxes).boxes)

\* miInverse.
InverseIn(dst, reg1, invRect, memory) ==
  IF IsNil(reg1) \/ ~ExtentCheck(invRect, reg1.extents)
  THEN IF reg1.nar THEN Broken ELSE Rectangle(invRect)
  ELSE IF ~memory THEN Broken
  ELSE SetExtents(dst.extents, RegionOp("subtract", <<invRect>>, reg1.boxes).boxes)

\* miRegionAppend: in front or behind when the boxes are clear of each other,
\* else behind with the extents collapsed as a sign that they are unsorted.
Follows(first, last) == first.y1 > last.y2
                        \/ (first.y1 = last.y1 /\ first.y2 = last.y2 /\ first.x1 > last.x2)
\* A broken destination is not recognised: it begins again with r.
AppendTo(dst, r, memory) ==
  LET d == dst.boxes
      s == r.boxes
  IN IF r.nar THEN Broken
     ELSE IF IsNil(r) THEN dst
     ELSE IF ~memory /\ ~(IsNil(dst) /\ ~dst.nar /\ IsRectangle(r)) THEN Broken
     ELSE IF IsNil(dst) THEN Whole(r.extents, s)
     ELSE IF dst.extents.x2 <= dst.extents.x1 THEN [dst EXCEPT !.boxes = d \o s]
     ELSE IF Follows(s[1], d[Len(d)]) THEN
            Whole([Join(dst.extents, r.extents) EXCEPT !.y1 = dst.extents.y1, !.y2 = r.extents.y2], d \o s)
     ELSE IF Follows(d[1], s[Len(s)]) THEN
            Whole([Join(dst.extents, r.extents) EXCEPT !.y1 = r.extents.y1, !.y2 = dst.extents.y2], s \o d)
     ELSE [dst EXCEPT !.boxes = d \o s, !.extents.x2 = dst.extents.x1]

\* QuickSortRects is not stable: any order that the key (y1, x1) allows.
RECURSIVE Sortings(_)
Sortings(boxes) ==
  IF boxes = <<>> THEN {<<>>}
  ELSE UNION {{<<boxes[i]>> \o rest : rest \in
                 Sortings(SubSeq(boxes, 1, i - 1) \o SubSeq(boxes, i + 1, Len(boxes)))} :
              i \in {k \in DOMAIN boxes : \A m \in DOMAIN boxes : ~Before(boxes[m], boxes[k])}}

\* Step 2 of miRegionValidate: a box goes to the first region into whose last
\* band it fits, or below whose last band it lies; otherwise to a new region.
SameBand(box, last) == box.y1 = last.y1 /\ box.y2 = last.y2
Fits(box, ri) == LET last == ri.boxes[Len(ri.boxes)] IN SameBand(box, last) \/ box.y1 >= last.y2
CloseBand(ri) == LET done == Coalesce(ri, ri.curBand)
                     last == ri.boxes[Len(ri.boxes)]
                 IN [ri EXCEPT !.boxes = done.boxes, !.prevBand = done.prevBand,
                               !.extents.x2 = Most(@, last.x2), !.extents.y2 = last.y2]
PutBox(box, ri) ==
  LET n    == Len(ri.boxes)
      last == ri.boxes[n]
      done == CloseBand(ri)
  IN IF SameBand(box, last)
     THEN IF box.x1 <= last.x2 THEN [ri EXCEPT !.boxes[n].x2 = Most(@, box.x2)]
          ELSE [ri EXCEPT !.boxes = Append(@, box)]
     ELSE [done EXCEPT !.boxes = Append(@, box), !.curBand = Len(done.boxes),
                       !.extents.x1 = Least(@, box.x1)]
Merges(box, ri) == LET last == ri.boxes[Len(ri.boxes)] IN SameBand(box, last) /\ box.x1 < last.x2

RECURSIVE Scatter(_, _, _)
Scatter(boxes, ris, hit) ==
  IF boxes = <<>> THEN [ris |-> [j \in DOMAIN ris |-> CloseBand(ris[j])], hit |-> hit]
  ELSE LET box  == boxes[1]
           good == {j \in DOMAIN ris : Fits(box, ris[j])}
           j    == CHOOSE k \in good : \A m \in good : k <= m
       IN IF good = {}
          THEN Scatter(Tail(boxes), Append(ris, [boxes |-> <<box>>, prevBand |-> 0, curBand |-> 0, extents |-> box, hit |-> FALSE]), hit)
          ELSE Scatter(Tail(boxes), [ris EXCEPT ![j] = PutBox(box, ris[j])], hit \/ Merges(box, ris[j]))

\* Step 3: regions are joined two by two, the first half with the second; of
\* an odd number the first waits for the next round.
JoinPair(a, b) ==
  LET op == RegionOp("union", a.boxes, b.boxes)
  IN [a EXCEPT !.boxes = op.boxes, !.hit = op.hit, !.extents = Join(@, b.extents)]
RECURSIVE JoinAll(_, _)
JoinAll(ris, hit) ==
  LET n     == Len(ris)
      odd   == n % 2
      half  == n \div 2
      round == [j \in 1 .. half + odd |-> IF j <= odd THEN ris[j] ELSE JoinPair(ris[j], ris[j + half])]
  IN IF n = 1 THEN [region |-> Whole(ris[1].extents, ris[1].boxes), overlap |-> hit]
     ELSE JoinAll(round, hit \/ \E j \in odd + 1 .. half + odd : round[j].hit)

\* miRegionValidate of boxes in the order of one sorting.
ValidatedAs(boxes) ==
  LET first == [boxes |-> <<boxes[1]>>, prevBand |-> 0, curBand |-> 0, extents |-> boxes[1], hit |-> FALSE]
      put   == Scatter(Tail(boxes), <<first>>, FALSE)
  IN JoinAll(put.ris, put.hit)
Validations(r) ==
  IF r.boxes = <<>> \/ r.extents.x1 < r.extents.x2
  THEN {[region |-> r, overlap |-> FALSE]}
  ELSE {ValidatedAs(order) : order \in Sortings(r.boxes)}

\* miRectsToRegion: the corners are cut at MAXSHORT, empty rectangles dropped.
Cut(rect) == Box(rect.x, rect.y, Least(rect.x + rect.width, MaxShort), Least(rect.y + rect.height, MaxShort))
CutAll(rects) == SelectSeq([i \in DOMAIN rects |-> Cut(rects[i])], LAMBDA b : b.x1 # b.x2 /\ b.y1 # b.y2)
RectsToRegions(rects) ==
  LET boxes == CutAll(rects)
  IN IF boxes = <<>> THEN {Whole(EmptyBox, <<>>)}
     ELSE IF Len(rects) = 1 THEN {Rectangle(boxes[1])}
     ELSE {v.region : v \in Validations(Whole(EmptyBox, boxes))}

\* miTranslateRegion: boxes that leave the plane of shorts are dropped, boxes
\* across its edge are cut, and the extents with them.
Moved(b, d) == Box(b.x1 + d[1], b.y1 + d[2], b.x2 + d[1], b.y2 + d[2])
Inside(b) == b.x1 >= MinShort /\ b.y1 >= MinShort /\ b.x2 <= MaxShort /\ b.y2 <= MaxShort
\* The test of the code is on the or of four differences: it is not positive
\* when one of them is negative or all are zero.
Outside(b) == LET differences == {b.x2 - MinShort, b.y2 - MinShort, MaxShort - b.x1, MaxShort - b.y1}
              IN (\E x \in differences : x < 0) \/ differences = {0}
CutToPlane(b) ==
  Box(IF b.x1 < MinShort THEN MinShort ELSE b.x1,
      IF b.y1 < MinShort THEN MinShort ELSE b.y1,
      IF b.x1 >= MinShort /\ b.x2 > MaxShort THEN MaxShort ELSE b.x2,
      IF b.y1 >= MinShort /\ b.y2 > MaxShort THEN MaxShort ELSE b.y2)
Translated(r, d) ==
  LET extents == Moved(r.extents, d)
      moved   == [i \in DOMAIN r.boxes |-> Moved(r.boxes[i], d)]
      kept    == SelectSeq(moved, LAMBDA b : ~Outside(b))
      cut     == [i \in DOMAIN kept |-> CutToPlane(kept[i])]
  IN IF Inside(extents) THEN Whole(extents, moved)
     ELSE IF Outside(extents) THEN Whole(Collapsed(extents), <<>>)
     ELSE IF Len(moved) = 1 THEN Rectangle(CutToPlane(extents))
     ELSE IF Len(kept) = Len(moved) THEN Whole(CutToPlane(extents), cut)
     ELSE SetExtents(CutToPlane(extents), cut)

(***************************************************************************)
(* miRectIn: is the box inside the region, outside, or in part?  (x, y)    *)
(* is the first point of the box not yet looked at.                        *)
(***************************************************************************)
RECURSIVE RectInFrom(_, _, _, _, _, _)
RectInFrom(boxes, rect, x, y, partIn, partOut) ==
  LET Answer(in, at) == IF in THEN (IF at < rect.y2 THEN "rgnPART" ELSE "rgnIN") ELSE "rgnOUT"
      b     == boxes[1]
      above == b.y1 > y
      y2    == IF above THEN b.y1 ELSE y
      left  == b.x1 > x
      in    == partIn \/ b.x1 < rect.x2
      out   == partOut \/ above \/ left
  IN IF boxes = <<>> THEN Answer(partIn, y)
     ELSE IF b.y2 <= y THEN RectInFrom(Tail(boxes), rect, x, y, partIn, partOut)
     ELSE IF above /\ (partIn \/ b.y1 >= rect.y2) THEN Answer(partIn, y)
     ELSE IF b.x2 <= x THEN RectInFrom(Tail(boxes), rect, x, y2, partIn, partOut \/ above)
     ELSE IF left /\ partIn THEN Answer(partIn, y2)
     ELSE IF b.x1 < rect.x2 /\ out THEN Answer(in, y2)
     ELSE IF b.x2 < rect.x2 THEN Answer(in, y2)
     ELSE IF b.y2 >= rect.y2 THEN Answer(in, b.y2)
     ELSE RectInFrom(Tail(boxes), rect, rect.x1, b.y2, in, out)

RectIn(r, rect) ==
  IF IsNil(r) \/ ~ExtentCheck(r.extents, rect) THEN "rgnOUT"
  ELSE IF IsRectangle(r) THEN IF Subsumes(r.extents, rect) THEN "rgnIN" ELSE "rgnPART"
  ELSE RectInFrom(r.boxes, rect, rect.x1, rect.y1, FALSE, FALSE)

\* miPointInRegion.
RECURSIVE PointInBoxes(_, _)
PointInBoxes(boxes, p) ==
  IF boxes = <<>> THEN FALSE
  ELSE LET b == boxes[1]
       IN IF p[2] >= b.y2 THEN PointInBoxes(Tail(boxes), p)
          ELSE IF p[2] < b.y1 \/ p[1] < b.x1 THEN FALSE
          ELSE p[1] < b.x2 \/ PointInBoxes(Tail(boxes), p)
PointInRegion(r, p) == ~IsNil(r) /\ InBox(p, r.extents) /\ (IsRectangle(r) \/ PointInBoxes(r.boxes, p))

---------------------------------------------------------------------------
(* The steps: every exported operation that changes a region, with region  *)
(* as its destination.                                                     *)

Lost == {<<MinShort - 1, MinShort - 1>>}       \* pixels of a region that broke
Computed(sets, result) == IF Lost \in sets THEN Lost ELSE result

RegionOf(set) ==
  LET form == BandedForm(set)
  IN IF form = <<>> THEN Whole(EmptyBox, <<>>) ELSE SetExtents(EmptyBox, form)
Source(set) == [region |-> RegionOf(set), pixels |-> set, same |-> FALSE]
Sources == {Source(set) : set \in Operands} \cup {[region |-> Broken, pixels |-> Lost, same |-> FALSE]}
Itself == [region |-> region, pixels |-> pixels, same |-> TRUE]

RegionInit ==
  /\ region = Whole(EmptyBox, <<>>)
  /\ pixels = {}
  /\ appends = 0
  /\ exact = "exact"
  /\ overlap = FALSE /\ overlapped = FALSE

\* Between operations: what is appended to is not operated on before it is
\* validated (comment at miregion.c:1263); a region cut at the edge of the
\* plane, or mended by an append, is followed no further.
Valid == appends = 0 /\ exact = "exact"

\* The destination is r; set is what it stands for, unless memory ran out.
BecomesRegion(r, set, memory) ==
  /\ region' = r
  /\ pixels' = IF r.nar /\ ~memory THEN Lost ELSE set
  /\ overlap' = FALSE /\ overlapped' = FALSE
  /\ UNCHANGED <<appends, exact>>

MiIntersect ==
  /\ Valid
  /\ \E s \in Sources \cup {Itself}, memory, swap \in BOOLEAN :
       LET a == IF swap THEN s ELSE Itself
           b == IF swap THEN Itself ELSE s
       IN BecomesRegion(Intersect(region, a.region, b.region, s.same, memory),
                  Computed({a.pixels, b.pixels}, a.pixels \cap b.pixels), memory)

MiUnion ==
  /\ Valid
  /\ \E s \in Sources \cup {Itself}, memory, swap \in BOOLEAN :
       LET a == IF swap THEN s ELSE Itself
           b == IF swap THEN Itself ELSE s
       IN BecomesRegion(Unite(region, a.region, b.region, s.same, memory),
                  Computed({a.pixels, b.pixels}, a.pixels \cup b.pixels), memory)

MiSubtract ==
  /\ Valid
  /\ \E s \in Sources \cup {Itself}, memory, swap \in BOOLEAN :
       LET a == IF swap THEN s ELSE Itself
           b == IF swap THEN Itself ELSE s
       IN BecomesRegion(Subtract(region, a.region, b.region, s.same, memory),
                  Computed({a.pixels, b.pixels}, a.pixels \ b.pixels), memory)

MiInverse ==
  /\ Valid
  /\ \E b \in ProperBoxes, memory \in BOOLEAN :
       BecomesRegion(InverseIn(region, region, b, memory),
               Computed({pixels}, PixelsOf(<<b>>) \ pixels), memory)

\* miRegionReset, miRegionEmpty and the initialisation of a region.
MiRegionReset ==
  /\ \/ \E b \in ProperBoxes : region' = Rectangle(b) /\ pixels' = PixelsOf(<<b>>)
     \/ region' = Whole(Collapsed(region.extents), <<>>) /\ pixels' = {}
  /\ appends' = 0 /\ exact' = "exact"
  /\ overlap' = FALSE /\ overlapped' = FALSE

\* miRegionAppend, to a region that begins empty.
MiRegionAppend ==
  /\ exact = "exact" /\ appends < MaxAppends
  /\ appends = 0 => IsNil(region) /\ ~region.nar
  /\ \E s \in Sources, memory \in BOOLEAN :
       LET r == AppendTo(region, s.region, memory)
       IN /\ region' = r
          /\ pixels' = IF r.nar /\ ~memory THEN Lost ELSE Computed({pixels, s.pixels}, pixels \cup s.pixels)
          /\ exact' = IF region.nar /\ ~r.nar THEN "mended" ELSE exact
          /\ overlapped' = (overlapped \/ pixels \cap s.pixels # {})
  /\ appends' = appends + 1
  /\ UNCHANGED overlap

MiRegionValidate ==
  /\ appends > 0 /\ exact = "exact"
  /\ \E v \in Validations(region) : region' = v.region /\ overlap' = v.overlap
  /\ appends' = 0
  /\ UNCHANGED <<pixels, exact, overlapped>>

MiRectsToRegion ==
  /\ Valid
  /\ \E rects \in RectLists :
       /\ region' \in RectsToRegions(rects)
       /\ pixels' = UNION {{p \in Plane : /\ rects[i].x <= p[1] /\ p[1] < rects[i].x + rects[i].width
                                          /\ rects[i].y <= p[2] /\ p[2] < rects[i].y + rects[i].height} :
                           i \in DOMAIN rects}
  /\ overlap' = FALSE /\ overlapped' = FALSE
  /\ UNCHANGED <<appends, exact>>

\* miTranslateRegion.  (A region without boxes has only its extents to move.)
MiTranslateRegion ==
  /\ Valid /\ ~IsNil(region)
  /\ \E d \in Shifts :
       /\ region' = Translated(region, d)
       /\ pixels' = {<<p[1] + d[1], p[2] + d[2]>> : p \in pixels} \cap Plane
       /\ exact' = IF Inside(Moved(region.extents, d)) THEN "exact" ELSE "clipped"
  /\ overlap' = FALSE /\ overlapped' = FALSE
  /\ UNCHANGED appends

RegionNext ==
  \/ MiIntersect \/ MiUnion \/ MiSubtract \/ MiInverse
  \/ MiRegionReset \/ MiRegionAppend \/ MiRegionValidate
  \/ MiRectsToRegion \/ MiTranslateRegion

RegionSpec == RegionInit /\ [][RegionNext]_regionVars

---------------------------------------------------------------------------
RegionTypeOK ==
  /\ region.boxes \in Seq([x1 : Int, y1 : Int, x2 : Int, y2 : Int])
  /\ region.nar \in BOOLEAN
  /\ pixels = Lost \/ pixels \subseteq Plane
  /\ appends \in 0 .. MaxAppends
  /\ exact \in {"exact", "clipped", "mended"}
  /\ overlap \in BOOLEAN /\ overlapped \in BOOLEAN

(***************************************************************************)
(* Whatever operations made it, a region stands for the pixels the         *)
(* operations say: its boxes cover exactly them, in the one banded form    *)
(* that the comment at miregion.c:80-140 describes and on which every      *)
(* operation relies, with the extents that fit, so that rectangles and     *)
(* points are found in it and outside it (miRectIn, miPointInRegion).  A   *)
(* region is broken when, and only when, memory ran out for it or for a    *)
(* region it was made of (but for an append to a broken region).  Boxes    *)
(* appended out of order are sorted and merged into the same form, and     *)
(* miRegionValidate says whether they overlapped.  A region cut at the     *)
(* edge of the plane keeps the right pixels, if not the banded form.       *)
(***************************************************************************)
RegionsAreTheirPixels ==
  /\ exact = "exact" => (region.nar <=> pixels = Lost)
  /\ exact = "clipped" => PixelsOf(region.boxes) = pixels
  /\ Valid /\ ~region.nar =>
       /\ IsFormOf(region, pixels)
       /\ overlap = overlapped
  /\ Valid /\ ~IsNil(region) =>
       /\ \A b \in ProperBoxes :
            RectIn(region, b) = IF PixelsOf(<<b>>) \subseteq pixels THEN "rgnIN"
                                ELSE IF PixelsOf(<<b>>) \cap pixels = {} THEN "rgnOUT" ELSE "rgnPART"
       /\ \A p \in Plane : PointInRegion(region, p) <=> p \in pixels
=============================================================================
