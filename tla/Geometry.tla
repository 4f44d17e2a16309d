------------------------------- MODULE Geometry -------------------------------
(***************************************************************************)
(* Points, boxes and regions of pixels, the words of WindowClips and        *)
(* Sprite.  A point is a pair, a region the set of its pixels.              *)
(***************************************************************************)
EXTENDS Integers

Plus2(p, q) == <<p[1] + q[1], p[2] + q[2]>>
Minus2(p, q) == <<p[1] - q[1], p[2] - q[2]>>
Both(n) == <<n, n>>
BoxAt(at, size) == {<<x, y>> : x \in at[1] .. at[1] + size[1] - 1, y \in at[2] .. at[2] + size[2] - 1}
Within(p, at, size) == \A i \in {1, 2} : at[i] <= p[i] /\ p[i] < at[i] + size[i]
Translate(region, d) == {Plus2(p, d) : p \in region}
=============================================================================
