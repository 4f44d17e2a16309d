----------------------------- MODULE MCColormaps -----------------------------
(***************************************************************************)
(* Two clients, each with a colormap of two cells.                          *)
(***************************************************************************)
EXTENDS Colormaps

TwoMaps == "m1" :> 1 @@ "m2" :> 2
=============================================================================
