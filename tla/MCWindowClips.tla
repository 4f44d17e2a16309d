---------------------------- MODULE MCWindowClips ----------------------------
(***************************************************************************)
(* Three windows on a screen of four by three pixels: two that overlap with  *)
(* a child in the higher one, and one with two children that overlap and      *)
(* follow its size by gravities of their own.                              *)
(***************************************************************************)
EXTENDS WindowClips

CONSTANTS A, B, C

OneInside == (RootWin :> <<A, B>>) @@ (A :> <<C>>) @@ (B :> <<>>) @@ (C :> <<>>)
TwoInside == (RootWin :> <<A>>) @@ (A :> <<B, C>>) @@ (B :> <<>>) @@ (C :> <<>>)

Tree(nested, origin, size, border, winGravity, bitGravity) ==
    [children |-> nested, origin |-> origin, size |-> size, border |-> border,
     winGravity |-> winGravity, bitGravity |-> [w \in Wins |-> bitGravity]]
Of3(a, b, c) == (A :> a) @@ (B :> b) @@ (C :> c)

\* Gravities: north-west, center, south-east, static, and unmap or forget.
SomeGravities == {0, 1, 5, 9, 10}

OverlappingTrees ==
    {Tree(OneInside, Of3(at, <<0, 1>>, <<1, 0>>), Of3(<<2, 2>>, <<3, 1>>, <<2, 1>>), Of3(b, 0, 1), Of3(1, 1, g), h) :
        at \in {<<1, 0>>, <<-1, 0>>}, b \in {0, 1}, g \in {0, 9}, h \in {1, 5}}
NestedTrees ==
    {Tree(TwoInside, Of3(<<0, 0>>, <<1, 1>>, <<0, 1>>), Of3(<<3, 2>>, <<1, 1>>, <<2, 1>>), Of3(b, 0, 0), Of3(1, g, h), i) :
        b \in {0, 1}, g \in SomeGravities, h \in {1, 9, 10}, i \in SomeGravities}
AllTrees == OverlappingTrees \cup NestedTrees

(***************************************************************************)
(* miSlideAndSizeWindow mistakes a child's gravity for the window's when the *)
(* window has a border.  SomeTrees are those where it cannot tell: whoever   *)
(* has a border has no bits to keep, or children of the same gravity.       *)
(***************************************************************************)
SomeTrees ==
    {t \in AllTrees : \A w \in Wins, c \in Wins :
        c \in ToSet(t.children[w]) /\ t.border[w] > 0 => t.bitGravity[w] = 0 \/ t.winGravity[c] \in {0, t.bitGravity[w]}}
\* One where it does.
MistakenTrees ==
    {Tree(TwoInside, Of3(<<0, 0>>, <<1, 1>>, <<0, 1>>), Of3(<<3, 2>>, <<1, 1>>, <<2, 1>>), Of3(1, 0, 0), Of3(1, 1, 9), 1)}

Configuration(mask, at, size, border, sibling, mode) ==
    [mask |-> mask, at |-> at, size |-> size, border |-> border, sibling |-> sibling, mode |-> mode]
Move(at) == Configuration({"CWX", "CWY"}, at, <<1, 1>>, 0, NullWin, "Above")
Size(size) == Configuration({"CWWidth", "CWHeight"}, <<0, 0>>, size, 0, NullWin, "Above")
MoveSize(at, size) == Configuration({"CWX", "CWY", "CWWidth", "CWHeight"}, at, size, 0, NullWin, "Above")
Border(n) == Configuration({"CWBorderWidth"}, <<0, 0>>, <<1, 1>>, n, NullWin, "Above")
Stack(mode) == Configuration({"CWStackMode"}, <<0, 0>>, <<1, 1>>, 0, NullWin, mode)
StackBy(sibling, mode) == Configuration({"CWSibling", "CWStackMode"}, <<0, 0>>, <<1, 1>>, 0, sibling, mode)
With(r, mask, border, mode) == [r EXCEPT !.mask = @ \cup mask, !.border = border, !.mode = mode]

Configurations ==
    {Move(at) : at \in {<<0, 0>>, <<1, 1>>, <<2, 0>>, <<-1, 0>>, <<4, 0>>}}
    \cup {Size(size) : size \in {<<1, 2>>, <<2, 3>>, <<4, 2>>}}
    \cup {MoveSize(<<1, 0>>, <<2, 1>>), MoveSize(<<-1, -1>>, <<3, 3>>), MoveSize(<<1, 1>>, <<1, 1>>)}
    \cup {Border(n) : n \in {0, 1, 2}}
    \cup {Stack(mode) : mode \in {"Above", "Below", "TopIf", "BottomIf", "Opposite"}}
    \cup {StackBy(w, mode) : w \in {A, B}, mode \in {"Above", "Below", "Opposite"}}
    \cup {With(MoveSize(<<1, 0>>, <<3, 1>>), {"CWBorderWidth", "CWStackMode"}, 0, "Below"),
          With(Move(<<0, 1>>), {"CWBorderWidth", "CWStackMode"}, 1, "Above"),
          With(Move(<<2, 1>>), {"CWStackMode"}, 0, "Below"),
          With(Move(<<1, 0>>), {"CWBorderWidth", "CWStackMode"}, 0, "Below")}
Places == {<<0, 0>>, <<1, -1>>}
Screen43 == <<4, 3>>
=============================================================================
