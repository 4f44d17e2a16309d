------------------------------ MODULE WindowClips ------------------------------
(***************************************************************************)
(* What each window shows: dix/window.c (mapping, configuring, restacking,   *)
(* reparenting) with the screen functions of mi/miwindow.c and              *)
(* mi/mivaltree.c, which keep the clip lists by marking the windows a        *)
(* change may touch and validating only those.                             *)
(*                                                                         *)
(* A region is a set of pixels (Regions shows that the code's bands of       *)
(* boxes compute the same).  screen holds what is painted at every pixel:    *)
(* <<w, "inside", p>> for the bit of w at p in w's own coordinates,          *)
(* <<w, "border", ..>> for its border.  Painting an exposed region and        *)
(* copying one are the only things that change it.                         *)
(*                                                                         *)
(* Left out: shapes, redirected windows, backing store, save unders,         *)
(* InputOnly windows, borders with a pixmap, redirection of requests to a     *)
(* window manager, the events and the cursor.                              *)
(***************************************************************************)
EXTENDS Geometry, Sequences, FiniteSets, SequencesExt

CONSTANTS
    Wins,          \* the windows, without the root
    RootWin,
    ScreenSize,    \* <<width, height>>
    InitialTrees,  \* how the windows may be arranged before they are mapped:
                   \* records of children, origin, size, border, gravities
    SomeRequests,  \* requests of ConfigureWindow
    SomePlaces,    \* where ReparentWindow puts a window
    MaxWindowRequests    \* bound: requests other than mapping and unmapping

ASSUME WindowClipsAssumption == RootWin \notin Wins /\ MaxWindowRequests \in Nat

VARIABLES
    win,        \* a window's WindowRec
    children,   \* a window's children, highest first
    valdata,    \* the marked windows' ValidateRec
    screen,
    windowRequests

clipVars == <<win, children, valdata, screen, windowRequests>>

NullWin == "NullWindow"
AllWins == Wins \cup {RootWin}

-----------------------------------------------------------------------------
(* Geometry. *)

Inner(me) == BoxAt(me.at, me.size)
Outer(me) == BoxAt(Minus2(me.at, Both(me.border)), Plus2(me.size, Both(2 * me.border)))

ScreenPixels == BoxAt(<<0, 0>>, ScreenSize)

ForgetGravity == 0      \* of bits; UnmapGravity of windows
NorthWestGravity == 1
StaticGravity == 10
Gravities == ForgetGravity .. StaticGravity

\* Half of an int, rounded as C does.
Half(d) == IF d < 0 THEN -((-d) \div 2) ELSE d \div 2

GravityTranslate(at, old, grown, g) ==
    LET Shift(i, middle, far) ==
            IF g \in middle THEN Half(grown[i]) ELSE IF g \in far THEN grown[i] ELSE 0
    IN  IF g = StaticGravity THEN old
        ELSE Plus2(at, <<Shift(1, {2, 5, 8}, {3, 6, 9}), Shift(2, {4, 5, 6}, {7, 8, 9})>>)

-----------------------------------------------------------------------------
(* The tree.  An operation is a function of the state s, a record of win,    *)
(* children, valdata, screen and of after, what validation found exposed.   *)

Now == [win |-> win, children |-> children, valdata |-> valdata, screen |-> screen, after |-> <<>>]

ParentIn(s, w) == CHOOSE p \in AllWins : w \in ToSet(s.children[p])
Siblings(s, w) == s.children[ParentIn(s, w)]
Position(list, w) == CHOOSE i \in DOMAIN list : list[i] = w

\* w and the siblings below it; all children of the parent for NullWin.
FromSibling(list, w) == IF w = NullWin THEN list ELSE SubSeq(list, Position(list, w), Len(list))
NextSib(s, w) == LET below == Tail(FromSibling(Siblings(s, w), w)) IN IF below = <<>> THEN NullWin ELSE Head(below)

Subwindows(s, list) == UNION {ToSet(s.children[w]) : w \in list}

\* A walk down the tree that enters the windows of which Enter holds.
RECURSIVE Walk(_, _, _)
Walk(s, tops, Enter) == LET in == {w \in tops : Enter[w]}
                        IN  IF in = {} THEN {} ELSE in \cup Walk(s, Subwindows(s, in), Enter)

ViewableTree(s, w) == Walk(s, {w}, [v \in AllWins |-> s.win[v].viewable])

WithClip(s, w, clip, border) == [s EXCEPT !.win[w].clipList = clip, !.win[w].borderClip = border]

\* SetWinSize and SetBorderSize.
SetSizes(s, w) ==
    LET within == s.win[ParentIn(s, w)].winSize
    IN  [s EXCEPT !.win[w].winSize = Inner(s.win[w]) \cap within,
                  !.win[w].borderSize = Outer(s.win[w]) \cap within]

PlaceAt(s, w, origin) ==
    SetSizes([s EXCEPT !.win[w].origin = origin,
                       !.win[w].at = Plus2(s.win[ParentIn(s, w)].at, origin)], w)

\* The children of w follow it, those with a gravity its size too.
RECURSIVE ResizeChildrenWinSize(_, _, _, _)
ResizeChildrenWinSize(s, w, moved, grown) ==
    LET Follow(t, c) ==
            LET o == s.win[c].origin
                g == s.win[c].winGravity
                n == IF grown # <<0, 0>> /\ g > NorthWestGravity
                     THEN GravityTranslate(o, Minus2(o, moved), grown, g) ELSE o
            IN  ResizeChildrenWinSize(PlaceAt(t, c, n), c, <<0, 0>>, <<0, 0>>)
    IN  FoldLeft(Follow, s, s.children[w])

-----------------------------------------------------------------------------
(* Marking. *)

ValidateRec(me) == [oldAbsCorner |-> me.at, borderVisible |-> <<>>]

MarkWindows(s, marked) ==
    [s EXCEPT !.valdata = @ @@ [w \in marked |-> ValidateRec(s.win[w])]]

\* The windows MarkOverlappedWindows finds from the sibling first on.
Overlapped(s, w, first) ==
    LET meets == [v \in AllWins |-> s.win[v].viewable /\ s.win[v].borderSize \cap s.win[w].borderSize # {}]
        below == IF first = w THEN Tail(FromSibling(Siblings(s, w), w)) ELSE FromSibling(Siblings(s, w), first)
    IN  (IF first = w THEN ViewableTree(s, w) ELSE {}) \cup Walk(s, ToSet(below), meets)

MarkOverlappedWindows(s, w, first) ==
    LET found == IF first = NullWin THEN {} ELSE Overlapped(s, w, first)
    IN  MarkWindows(s, IF found = {} THEN {} ELSE found \cup {ParentIn(s, w)})

-----------------------------------------------------------------------------
(* Validation. *)

Visibility(me, universe) ==
    IF Outer(me) \cap universe = {} THEN "FullyObscured"
    ELSE IF Outer(me) \subseteq universe THEN "Unobscured" ELSE "PartiallyObscured"

NothingExposed == [exposed |-> {}, borderExposed |-> {}]
WithAfter(s, w, exposed, borderExposed) ==
    [s EXCEPT !.after = (w :> [exposed |-> exposed, borderExposed |-> borderExposed]) @@ @]

\* Some pixel is in the borders of two of the windows.
AnyOverlap(s, list) ==
    \E i \in DOMAIN list, j \in DOMAIN list :
        i < j /\ s.win[list[i]].borderSize \cap s.win[list[j]].borderSize # {}
CoveredBy(s, list) == UNION {s.win[w].borderSize : w \in ToSet(list)}

\* A move that leaves all or nothing of w visible takes the clips along.
ShiftClips(s, w, d) ==
    LET tree == ViewableTree(s, w)
        shown == {v \in tree : s.win[v].visibility # "FullyObscured"}
    IN  [s EXCEPT !.win = [v \in shown |-> [@[v] EXCEPT !.clipList = Translate(@, d), !.borderClip = Translate(@, d)]] @@ @,
                  !.after = [v \in tree \cap DOMAIN s.valdata |-> NothingExposed] @@ @]

\* The clips w is left with when its children have taken theirs.
OwnClips(s, w, universe, clip, moved, borderExposed) ==
    LET me == s.win[w]
        newVis == Visibility(me, universe)
        exposed == IF me.visibility \in {"FullyObscured", "NotViewable"} THEN clip
                   ELSE IF newVis # "FullyObscured" THEN clip \ Translate(me.clipList, moved) ELSE {}
    IN  WithAfter([WithClip(s, w, clip, universe) EXCEPT !.win[w].visibility = newVis], w, exposed, borderExposed)

BorderExposed(me, val, universe, moved) ==
    LET oldBorder == IF val.borderVisible # <<>> THEN val.borderVisible[1] ELSE Translate(me.borderClip, moved)
    IN  IF me.border > 0 THEN (universe \ oldBorder) \ me.winSize ELSE {}

\* miComputeClips, of which universe is the part of the screen w may have.
RECURSIVE ComputeClips(_, _, _, _)
ComputeClips(s, w, universe, kind) ==
    LET me == s.win[w]
        d == Minus2(me.at, s.valdata[w].oldAbsCorner)
        inside == IF me.border > 0 THEN universe \cap me.winSize ELSE universe
        list == SelectSeq(s.children[w], LAMBDA c : s.win[c].viewable)
        overlap == AnyOverlap(s, list)
        Child(acc, c) ==
            [s |-> IF c \in DOMAIN acc.s.valdata
                   THEN ComputeClips(acc.s, c, acc.left \cap s.win[c].borderSize, kind) ELSE acc.s,
             left |-> IF overlap THEN acc.left \ s.win[c].borderSize ELSE acc.left]
        Own(acc) == OwnClips(acc.s, w, universe, IF overlap THEN acc.left ELSE acc.left \ CoveredBy(s, list), d,
                             BorderExposed(me, s.valdata[w], universe, d))
    IN  IF kind = "VTMove" /\ me.visibility = Visibility(me, universe)
           /\ me.visibility \in {"FullyObscured", "Unobscured"}
        THEN ShiftClips(s, w, d)
        ELSE Own(FoldLeft(Child, [s |-> s, left |-> inside], list))

TreeObscured(s, w) ==
    [s EXCEPT !.win = [v \in ViewableTree(s, w) |-> [@[v] EXCEPT !.visibility = "FullyObscured"]] @@ @]

\* The clip of the parent is what its children have left of it.
ParentClip(s, p, clip, kind) ==
    LET exposed == IF kind \in {"VTStack", "VTMap"} THEN {} ELSE clip \ s.win[p].clipList
    IN  [WithAfter(s, p, exposed, {}) EXCEPT !.win[p].clipList = IF kind = "VTStack" THEN @ ELSE clip]

ValidateTree(s, p, first, kind) ==
    LET list == FromSibling(s.children[p], first)
        marked == SelectSeq(list, LAMBDA w : w \in DOMAIN s.valdata)
        seen == SelectSeq(marked, LAMBDA w : s.win[w].viewable)
        total == UNION {s.win[w].borderClip : w \in ToSet(marked)}
                 \cup (IF kind = "VTStack" THEN {} ELSE s.win[p].clipList)
        overlap == kind = "VTStack" \/ Len(seen) <= 1 \/ AnyOverlap(s, seen)
        Child(acc, w) ==
            IF w \in ToSet(seen)
            THEN [s |-> ComputeClips(acc.s, w, acc.left \cap s.win[w].borderSize, kind),
                  left |-> IF overlap THEN acc.left \ s.win[w].borderSize ELSE acc.left]
            ELSE IF s.win[w].viewable
                 THEN IF s.win[w].visibility = "NotViewable" THEN [acc EXCEPT !.s = TreeObscured(@, w)] ELSE acc
                 ELSE IF w \in ToSet(marked)
                      THEN [acc EXCEPT !.s = [WithClip(@, w, {}, {}) EXCEPT
                                !.valdata = [v \in DOMAIN @ \ {w} |-> @[v]]]]
                      ELSE acc
        Parent(acc) == ParentClip(acc.s, p, IF overlap THEN acc.left ELSE acc.left \ CoveredBy(s, seen), kind)
    IN  Parent(FoldLeft(Child, [s |-> s, left |-> total], list))

-----------------------------------------------------------------------------
(* Painting. *)

\* The marked windows reached from those of list, in the order of the walk.
RECURSIVE Reached(_, _)
Reached(s, list) ==
    IF list = <<>> THEN <<>>
    ELSE (IF Head(list) \in DOMAIN s.valdata THEN <<Head(list)>> \o Reached(s, s.children[Head(list)]) ELSE <<>>)
         \o Reached(s, Tail(list))

\* Exposed borders and backgrounds are painted.
HandleExposures(s, w) ==
    LET Paint(v, screen0) ==
            [p \in DOMAIN screen0 |->
                IF p \in s.after[v].exposed THEN <<v, "inside", Minus2(p, s.win[v].at)>>
                ELSE IF p \in s.after[v].borderExposed THEN <<v, "border", <<0, 0>>>> ELSE screen0[p]]
        reached == Reached(s, <<w>>)
    IN  [s EXCEPT !.screen = FoldRight(Paint, Reverse(reached), @),
                  !.valdata = [v \in DOMAIN @ \ ToSet(reached) |-> @[v]],
                  !.after = <<>>]

ValidateAndExpose(s, p, first, kind) == HandleExposures(ValidateTree(s, p, first, kind), p)

\* The bits of w and its inferiors that were in region moved with w by d.
CopyWindow(s, w, region, d) ==
    LET to == Translate(region, d) \cap s.win[w].borderClip
    IN  [s EXCEPT !.screen = [p \in DOMAIN @ |-> IF p \in to THEN s.screen[Minus2(p, d)] ELSE @[p]]]

-----------------------------------------------------------------------------
(* Mapping. *)

UnmapVal == [oldAbsCorner |-> <<0, 0>>, borderVisible |-> <<>>]

RealizeTree(s, w) ==
    LET tree == Walk(s, {w}, [v \in AllWins |-> s.win[v].mapped])
    IN  [s EXCEPT !.win = [v \in tree |-> [@[v] EXCEPT !.viewable = TRUE]] @@ @]

\* What w keeps of its clips is divided among the windows below it.
UnrealizeTree(s, w, fromConfigure) ==
    LET Gone(v) == [s.win[v] EXCEPT !.viewable = FALSE, !.visibility = "NotViewable",
                       !.clipList = IF v # w \/ fromConfigure THEN {} ELSE @,
                       !.borderClip = IF v # w \/ fromConfigure THEN {} ELSE @]
    IN  [s EXCEPT !.win = [v \in ViewableTree(s, w) |-> Gone(v)] @@ @]

MapOne(s, w) ==
    LET p == ParentIn(s, w)
        s1 == [s EXCEPT !.win[w].mapped = TRUE]
    IN  IF s.win[w].mapped THEN s
        ELSE IF ~s.win[p].viewable THEN s1
        ELSE ValidateAndExpose(MarkOverlappedWindows(RealizeTree(s1, w), w, w), p, w, "VTMap")

UnmapOne(s, w, fromConfigure) ==
    LET p == ParentIn(s, w)
        s1 == MarkOverlappedWindows([s EXCEPT !.valdata = (w :> UnmapVal) @@ @], w, NextSib(s, w))
        marked == IF s.win[w].viewable /\ ~fromConfigure THEN MarkWindows(s1, {p}) ELSE s
        gone == UnrealizeTree([marked EXCEPT !.win[w].mapped = FALSE], w, fromConfigure)
    IN  IF ~s.win[w].mapped THEN s
        ELSE IF s.win[w].viewable /\ ~fromConfigure THEN ValidateAndExpose(gone, p, w, "VTUnmap") ELSE gone

MapAll(s, p) ==
    LET list == SelectSeq(s.children[p], LAMBDA w : ~s.win[w].mapped)
        One(t, w) == LET t1 == [t EXCEPT !.win[w].mapped = TRUE]
                     IN  IF t.win[p].viewable THEN MarkOverlappedWindows(RealizeTree(t1, w), w, w) ELSE t1
        all == FoldLeft(One, s, list)
    IN  IF p \in DOMAIN all.valdata THEN ValidateAndExpose(all, p, Head(list), "VTMap") ELSE all

UnmapAll(s, p) ==
    LET list == SelectSeq(s.children[p], LAMBDA w : s.win[w].mapped)
        One(t, w) == LET t1 == IF t.win[w].viewable THEN [t EXCEPT !.valdata = (w :> UnmapVal) @@ @] ELSE t
                     IN  UnrealizeTree([t1 EXCEPT !.win[w].mapped = FALSE], w, FALSE)
        all == FoldLeft(One, s, Reverse(list))
    IN  IF s.win[p].viewable /\ list # <<>>
        THEN ValidateAndExpose(MarkWindows(all, {p}), p, NullWin, "VTUnmap") ELSE all

-----------------------------------------------------------------------------
(* Stacking. *)

Without(list, w) == SelectSeq(list, LAMBDA v : v # w)

\* w goes above next, a sibling or NullWin.
Restacked(list, w, next) ==
    IF next = NullWin THEN Append(Without(list, w), w)
    ELSE InsertAt(Without(list, w), Position(Without(list, w), next), w)

\* mutant of FirstChange: the windows that moved up when w went down are forgotten
FirstIsMoved(old, new, w) == w

\* The highest window where the list changed, or w.
FirstChange(old, new, w) ==
    IF old = new THEN w
    ELSE new[CHOOSE i \in DOMAIN new : new[i] # old[i] /\ \A j \in 1 .. i - 1 : new[j] = old[j]]

MoveWindowInStack(s, w, next) ==
    IF NextSib(s, w) = next THEN s
    ELSE [s EXCEPT !.children[ParentIn(s, w)] = Restacked(@, w, next)]

\* t is s with w in another place of the stack.
HighestChange(s, t, w) == FirstChange(Siblings(s, w), Siblings(t, w), w)
MarkChanged(s, t, w) == MarkOverlappedWindows(t, w, HighestChange(s, t, w))

ShowStackChange(s, t, w, kind) ==
    LET p == ParentIn(s, w)
        marked == MarkChanged(s, t, w)
    IN  IF s.win[w].viewable /\ p \in DOMAIN marked.valdata
        THEN ValidateAndExpose(marked, p, HighestChange(s, t, w), kind) ELSE t
ReflectStackChange(s, w, next, kind) == ShowStackChange(s, MoveWindowInStack(s, w, next), w, kind)

Meets(s, w, box) == s.win[w].borderSize \cap box # {}

\* The mapped siblings above, or below, w whose extents meet the box.
HigherSiblings(s, w) == ToSet(SubSeq(Siblings(s, w), 1, Position(Siblings(s, w), w) - 1))
LowerSiblings(s, w) == ToSet(Siblings(s, w)) \ (HigherSiblings(s, w) \cup {w})
Crosses(s, list, box) == \E v \in list : s.win[v].mapped /\ Outer(s.win[v]) \cap box # {}

\* The sibling w is to be placed above.
WhereDoIGoInTheStack(s, w, sib, box, mode) ==
    LET list == Siblings(s, w)
        first == Head(list)
        next == NextSib(s, w)
        some == sib # NullWin
        occluded == IF some THEN sib \in HigherSiblings(s, w) /\ Meets(s, sib, box) ELSE Crosses(s, HigherSiblings(s, w), box)
        occludes == IF some THEN sib \in LowerSiblings(s, w) /\ Meets(s, sib, box) ELSE Crosses(s, LowerSiblings(s, w), box)
        mapped == s.win[w].mapped /\ (some => s.win[sib].mapped)
    IN  IF Len(list) = 1 THEN NullWin
        ELSE CASE mode = "Above" -> IF some THEN sib ELSE IF w = first THEN next ELSE first
               [] mode = "Below" -> IF ~some THEN NullWin
                                    ELSE IF NextSib(s, sib) # w THEN NextSib(s, sib) ELSE next
               [] OTHER -> IF mapped /\ mode \in {"TopIf", "Opposite"} /\ occluded THEN first
                           ELSE IF mapped /\ mode \in {"BottomIf", "Opposite"} /\ occludes THEN NullWin
                           ELSE next

-----------------------------------------------------------------------------
(* Moving and sizing. *)

MovedTo(s, w, outer) == PlaceAt(s, w, Plus2(outer, Both(s.win[w].border)))

\* t is s with w moved, stacked and its children taken along.
ShowMove(s, t, w, kind) ==
    LET me == s.win[w]
        p == ParentIn(s, w)
        valid == ValidateTree(MarkChanged(s, t, w), p, NullWin, kind)
    IN  IF me.viewable
        THEN HandleExposures(CopyWindow(valid, w, me.borderClip, Minus2(t.win[w].at, me.at)), p) ELSE t
MoveWindow(s, w, outer, next, kind) ==
    LET marked == IF s.win[w].viewable THEN MarkOverlappedWindows(s, w, w) ELSE s
        Stacked(t) == ResizeChildrenWinSize(MoveWindowInStack(t, w, next), w,
                                            Minus2(t.win[w].at, s.win[w].at), <<0, 0>>)
    IN  ShowMove(s, Stacked(MovedTo(marked, w, outer)), w, kind)

\* Of child and its marked inferiors all is exposed but what was copied.
RecomputeExposures(s, child, valid) ==
    LET tree == Walk(s, {child}, [v \in AllWins |-> v \in DOMAIN s.valdata])
        Lost(me) == [exposed |-> me.clipList \ valid, borderExposed |-> (me.borderClip \ me.winSize) \ valid]
    IN  [s EXCEPT !.after = [v \in tree |-> Lost(s.win[v])] @@ @]

\* Which bits a resized window keeps, under the names they have afterwards.
Renamed(s, w, d) ==
    [s EXCEPT !.screen = [p \in DOMAIN @ |->
        IF @[p][1] # w \/ @[p][2] # "inside" THEN @[p]
        ELSE IF s.win[w].bitGravity = ForgetGravity THEN <<w, "lost", <<0, 0>>>>
        ELSE <<w, "inside", Plus2(@[p][3], d)>>]]

\* The bits that stay with w, and its children, each by its gravity; old is
\* w before it was sized.  Bits that others of later gravities are yet to be
\* copied from are not written over.  The bits of w itself are clipped where
\* aim takes them: the code computes it for w, but a window with a border and
\* children finds there what it last computed for a child.
GravityBits(s, w, old, childBits, To) ==
    LET me == s.win[w]
        g == me.bitGravity
        buckets == {s.win[c].winGravity : c \in ToSet(s.children[w])} \ {ForgetGravity}
        fit == [h \in 1 .. StaticGravity |->
                   IF me.border = 0 THEN childBits[h]
                   ELSE childBits[h] \cap Translate(me.winSize, Minus2(old.at, To[h]))]
        later == UNION {fit[h] : h \in g + 1 .. StaticGravity}
        aim == IF me.border = 0 \/ buckets = {} THEN To[g] ELSE To[Max(buckets)]
        kept == (Translate(old.clipList, Minus2(aim, old.at)) \cap me.clipList) \ later
    IN  IF g = ForgetGravity THEN fit
        ELSE [fit EXCEPT ![g] = @ \cup Translate(kept, Minus2(old.at, aim))]

\* The copies of miSlideAndSizeWindow, gravity by gravity.  left is what may
\* still be copied, dest what was written.
SlideBits(s, w, old, bits, To) ==
    LET Slide(acc, g) ==
            LET d == Minus2(To[g], old.at)
                from == (bits[g] \cap acc.left) \ Translate(acc.dest, Minus2(<<0, 0>>, d))
                to == Translate(from, d)
                s1 == IF d # <<0, 0>> THEN CopyWindow(acc.s, w, from, d) ELSE acc.s
                moved == SelectSeq(s.children[w], LAMBDA c : s.win[c].winGravity = g)
                s2 == FoldLeft(LAMBDA t, c : RecomputeExposures(t, c, s.win[c].borderClip \cap to), s1, moved)
            IN  [s |-> IF g = s.win[w].bitGravity THEN [s2 EXCEPT !.after[w].exposed = @ \ to] ELSE s2,
                 left |-> acc.left \ to, dest |-> acc.dest \cup to]
    IN  FoldLeft(Slide, [s |-> s, left |-> old.winSize, dest |-> {}], [g \in 1 .. StaticGravity |-> g]).s

\* mutant of KeptBorder: what is inside the new border need not be painted
WholeBorder(old, changes) == old.borderClip

\* Where the border of a window that moves or shrinks need not be painted.
KeptBorder(old, changes) == IF changes THEN old.borderClip \ old.winSize ELSE old.borderClip

\* t is s with w sized, moved and stacked, and the tree validated.
ShowSize(s, t, w, grown) ==
    LET old == s.win[w]
        at == t.win[w].at
        To == [g \in Gravities |-> GravityTranslate(at, old.at, grown, g)]
        childBits == [g \in 1 .. StaticGravity |->
                         UNION {s.win[c].borderClip : c \in {v \in ToSet(s.children[w]) : s.win[v].winGravity = g}}]
        bits == GravityBits(t, w, old, childBits, To)
        named == Renamed([t EXCEPT !.after[w].exposed = t.win[w].clipList], w, Minus2(To[old.bitGravity], at))
    IN  HandleExposures(SlideBits(named, w, old, bits, To), ParentIn(s, w))

ValidateSize(s, t, w, changes) ==
    LET old == s.win[w]
        visible == IF old.border = 0 THEN <<>> ELSE <<KeptBorder(old, changes)>>
    IN  ValidateTree([MarkChanged(s, t, w) EXCEPT !.valdata[w].borderVisible = visible],
                     ParentIn(s, w), HighestChange(s, t, w), "VTOther")

SlideAndSizeWindow(s, w, outer, size, next) ==
    LET old == s.win[w]
        grown == Minus2(size, old.size)
        doomed == SelectSeq(s.children[w], LAMBDA c : s.win[c].winGravity = ForgetGravity)
        undone == FoldLeft(LAMBDA t, c : UnmapOne(t, c, TRUE), s, doomed)
        marked == IF old.viewable THEN MarkOverlappedWindows(undone, w, w) ELSE s
        Stacked(t) == MoveWindowInStack(ResizeChildrenWinSize(t, w, Minus2(t.win[w].at, old.at), grown), w, next)
        Shown(t) == LET changes == grown[1] < 0 \/ grown[2] < 0 \/ t.win[w].at # old.at
                    IN  IF old.viewable THEN ShowSize(s, ValidateSize(s, t, w, changes), w, grown) ELSE t
    IN  Shown(Stacked(MovedTo([marked EXCEPT !.win[w].size = size], w, outer)))

ChangeBorderWidth(s, w, width) ==
    LET me == s.win[w]
        wider == width > me.border
        s1 == IF me.viewable /\ ~wider THEN MarkOverlappedWindows(s, w, w) ELSE s
        s2 == SetSizes([s1 EXCEPT !.win[w].border = width], w)
        s3 == IF me.viewable /\ wider THEN MarkOverlappedWindows(s2, w, w) ELSE s2
        s4 == IF wider /\ me.border > 0
              THEN [s3 EXCEPT !.valdata[w].borderVisible = <<me.borderClip \ me.winSize>>] ELSE s3
    IN  IF width = me.border THEN s
        ELSE IF me.viewable THEN ValidateAndExpose(s4, ParentIn(s, w), w, "VTOther") ELSE s2

-----------------------------------------------------------------------------
(* Requests. *)

\* r says what to change: mask, at, size, border, sibling, mode.
Given(r, bits) == r.mask \cap bits # {}
NewOf(r, bit, new, old) == IF bit \in r.mask THEN new ELSE old

\* The value list of r against the window as it is.
Wanted(s, w, r) ==
    LET me == s.win[w]
        before == Minus2(Minus2(me.at, s.win[ParentIn(s, w)].at), Both(me.border))
        at == <<NewOf(r, "CWX", r.at[1], before[1]), NewOf(r, "CWY", r.at[2], before[2])>>
        size == <<NewOf(r, "CWWidth", r.size[1], me.size[1]), NewOf(r, "CWHeight", r.size[2], me.size[2])>>
        border == NewOf(r, "CWBorderWidth", r.border, me.border)
        box == BoxAt(Plus2(s.win[ParentIn(s, w)].at, at), Plus2(size, Both(2 * border)))
        sibling == IF "CWSibling" \in r.mask THEN r.sibling ELSE NullWin
        action == IF size # me.size THEN "RESIZE_WIN"
                  ELSE IF Given(r, {"CWX", "CWY"}) THEN "MOVE_WIN" ELSE "RESTACK_WIN"
    IN  [before |-> before, at |-> at, size |-> size, border |-> border, action |-> action,
         next |-> IF Given(r, {"CWStackMode"}) THEN WhereDoIGoInTheStack(s, w, sibling, box, r.mode)
                  ELSE NextSib(s, w)]

Carried(s, w, r, v) ==
    LET me == s.win[w]
        keepsInside == Plus2(v.before, Both(me.border)) = Plus2(v.at, Both(v.border))
        bordered == [s EXCEPT !.win[w].border = v.border]
        Restack(t) == IF Given(r, {"CWStackMode"}) THEN ReflectStackChange(t, w, v.next, "VTOther") ELSE t
    IN  IF v.action = "RESIZE_WIN" THEN SlideAndSizeWindow(bordered, w, v.at, v.size, v.next)
        ELSE IF v.at = v.before /\ v.border = me.border /\ v.next = NextSib(s, w) THEN s
        ELSE IF Given(r, {"CWBorderWidth"})
             THEN IF v.action = "MOVE_WIN" /\ keepsInside
                  THEN Restack(ChangeBorderWidth(s, w, v.border))
                  ELSE MoveWindow(bordered, w, v.at, v.next, "VTOther")
        ELSE IF v.action = "MOVE_WIN" THEN MoveWindow(s, w, v.at, v.next, "VTMove")
        ELSE ReflectStackChange(s, w, v.next, "VTOther")
Configured(s, w, r) == Carried(s, w, r, Wanted(s, w, r))

\* The child CirculateWindow takes, NullWin if none is obscured.
Circulated(s, p, direction) ==
    LET list == IF direction = "RaiseLowest" THEN Reverse(s.children[p]) ELSE s.children[p]
        Wants(w) == s.win[w].mapped
                    /\ Crosses(s, IF direction = "RaiseLowest" THEN HigherSiblings(s, w) ELSE LowerSiblings(s, w), Outer(s.win[w]))
        found == SelectSeq(list, Wants)
    IN  IF found = <<>> THEN NullWin ELSE Head(found)

CirculateOne(s, p, direction) ==
    LET w == Circulated(s, p, direction)
    IN  IF w = NullWin THEN s
        ELSE ReflectStackChange(s, w, IF direction = "RaiseLowest" THEN Head(s.children[p]) ELSE NullWin, "VTStack")

Inferiors(s, w) == Walk(s, {w}, [v \in AllWins |-> TRUE])

Reparented(s, w, p, outer) ==
    LET s1 == UnmapOne(s, w, FALSE)
        out == [s1 EXCEPT !.children[ParentIn(s, w)] = Without(@, w)]
        s2 == [out EXCEPT !.children[p] = <<w>> \o @]
        s3 == ResizeChildrenWinSize(MovedTo(s2, w, outer), w, <<0, 0>>, <<0, 0>>)
    IN  IF s.win[w].mapped THEN MapOne(s3, w) ELSE s3

-----------------------------------------------------------------------------
(* Actions. *)

TreeBecomes(s) == /\ s # Now
              /\ win' = s.win /\ children' = s.children /\ valdata' = s.valdata /\ screen' = s.screen

Counted == windowRequests < MaxWindowRequests /\ windowRequests' = windowRequests + 1

MapWindow(w) == TreeBecomes(MapOne(Now, w)) /\ UNCHANGED windowRequests
UnmapWindow(w) == TreeBecomes(UnmapOne(Now, w, FALSE)) /\ UNCHANGED windowRequests
MapSubwindows(p) == TreeBecomes(MapAll(Now, p)) /\ UNCHANGED windowRequests
UnmapSubwindows(p) == TreeBecomes(UnmapAll(Now, p)) /\ UNCHANGED windowRequests

ConfigureWindow(w, r) ==
    /\ Counted
    /\ "CWSibling" \in r.mask => r.sibling \in ToSet(Siblings(Now, w)) \ {w}
    /\ TreeBecomes(Configured(Now, w, r))

CirculateWindow(p, direction) == Counted /\ TreeBecomes(CirculateOne(Now, p, direction))

Reparent(w, p, outer) ==
    /\ Counted /\ p \notin Inferiors(Now, w)
    /\ TreeBecomes(Reparented(Now, w, p, outer))

WindowNext ==
    \/ \E w \in Wins : MapWindow(w) \/ UnmapWindow(w)
    \/ \E p \in AllWins : MapSubwindows(p) \/ UnmapSubwindows(p)
    \/ \E w \in Wins, r \in SomeRequests : ConfigureWindow(w, r)
    \/ \E p \in AllWins, d \in {"RaiseLowest", "LowerHighest"} : CirculateWindow(p, d)
    \/ \E w \in Wins, p \in AllWins, outer \in SomePlaces : Reparent(w, p, outer)

\* Windows of a tree t as CreateWindow leaves them: unmapped and sized.
Created(t) ==
    LET root == [origin |-> <<0, 0>>, at |-> <<0, 0>>, size |-> ScreenSize, border |-> 0,
                 mapped |-> TRUE, viewable |-> TRUE, visibility |-> "Unobscured",
                 winSize |-> ScreenPixels, borderSize |-> ScreenPixels,
                 clipList |-> ScreenPixels, borderClip |-> ScreenPixels,
                 winGravity |-> NorthWestGravity, bitGravity |-> ForgetGravity]
        new(w) == [root EXCEPT !.origin = t.origin[w], !.size = t.size[w], !.border = t.border[w],
                      !.mapped = FALSE, !.viewable = FALSE, !.visibility = "NotViewable",
                      !.clipList = {}, !.borderClip = {},
                      !.winGravity = t.winGravity[w], !.bitGravity = t.bitGravity[w]]
        s == [win |-> [w \in AllWins |-> IF w = RootWin THEN root ELSE new(w)], children |-> t.children,
              valdata |-> <<>>, screen |-> [p \in ScreenPixels |-> <<RootWin, "inside", p>>], after |-> <<>>]
    IN  ResizeChildrenWinSize(s, RootWin, <<0, 0>>, <<0, 0>>)

WindowInit ==
    /\ \E t \in InitialTrees : LET s == Created(t) IN win = s.win /\ children = s.children
    /\ valdata = <<>>
    /\ screen = [p \in ScreenPixels |-> <<RootWin, "inside", p>>]
    /\ windowRequests = 0

WindowSpec == WindowInit /\ [][WindowNext]_clipVars

-----------------------------------------------------------------------------
(* Properties. *)

WindowTypeOK ==
    /\ \A w \in DOMAIN win :
          /\ {win[w].winSize, win[w].borderSize, win[w].clipList, win[w].borderClip} \subseteq SUBSET ScreenPixels
          /\ win[w].visibility \in {"Unobscured", "PartiallyObscured", "FullyObscured", "NotViewable"}
    /\ \A w \in DOMAIN win \ {RootWin} : Cardinality({<<p, i>> \in AllWins \X (1 .. Cardinality(Wins)) :
                                       i \in DOMAIN children[p] /\ children[p][i] = w}) = 1
    /\ windowRequests \in 0 .. MaxWindowRequests

\* The windows whose ancestors and themselves are mapped.
Showing == Walk(Now, {RootWin}, [v \in AllWins |-> win[v].mapped])

\* What each window may cover: the inside of its parent, without what the
\* mapped siblings above it cover.
RECURSIVE Territory(_)
Territory(w) ==
    IF w = RootWin THEN ScreenPixels
    ELSE LET p == ParentIn(Now, w)
             covered == UNION {Outer(win[v]) : v \in {x \in HigherSiblings(Now, w) : win[x].mapped}}
         IN  (Territory(p) \cap Inner(win[p]) \cap Outer(win[w])) \ covered

Uncovered(w) ==
    (Territory(w) \cap Inner(win[w])) \ UNION {Outer(win[v]) : v \in {x \in ToSet(children[w]) : win[x].mapped}}

(***************************************************************************)
(* After every request each window's clip lists are exactly what is visible  *)
(* of it, its visibility says so, and no window is left marked, although     *)
(* only the windows a change may touch are looked at (miMarkOverlapped-      *)
(* Windows, miValidateTree, miComputeClips).                                *)
(***************************************************************************)
ClipsAreVisible ==
    /\ valdata = <<>>
    /\ \A w \in DOMAIN win :
          LET me == win[w] IN
          IF w \in Showing
          THEN /\ me.viewable
               /\ me.borderClip = Territory(w) /\ me.clipList = Uncovered(w)
               /\ me.visibility = Visibility(me, Territory(w))
          ELSE ~me.viewable /\ me.visibility = "NotViewable" /\ me.clipList = {} /\ me.borderClip = {}

(***************************************************************************)
(* Every pixel shows the bit, or the border, of the window it belongs to:    *)
(* what a move, a resize with gravities, a restack or an unmap uncovers was  *)
(* either copied there or exposed, and nothing was copied over what stays    *)
(* (miMoveWindow, miSlideAndSizeWindow, miChangeBorderWidth).               *)
(***************************************************************************)
ScreenIsRight ==
    \A w \in DOMAIN win : w \in Showing =>
        LET inside == Uncovered(w)
            border == Territory(w) \ Inner(win[w])
        IN  /\ \A p \in inside : screen[p] = <<w, "inside", Minus2(p, win[w].at)>>
            /\ \A p \in border : screen[p] = <<w, "border", <<0, 0>>>>
=============================================================================
