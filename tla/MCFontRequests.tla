---------------------------- MODULE MCFontRequests ----------------------------
(***************************************************************************)
(* Two clients, each with a GC and an ID for a font, two fonts, and texts   *)
(* that change the font to one's own or the other's.                       *)
(***************************************************************************)
EXTENDS FontRequests

CONSTANTS c1, c2, aString

FontOwner == 1 :> c1 @@ 2 :> c2
SomeTexts == {<<aString>>, <<aString, 1, aString>>, <<2, aString, 1, 2>>}
=============================================================================
