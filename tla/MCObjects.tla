------------------------------ MODULE MCObjects ------------------------------
(***************************************************************************)
(* The objects a client makes and shares, checked in one run: resource     *)
(* tables (of two clients, with one window and with two), fonts under      *)
(* suspended requests, callback lists, passive grabs, colour cells, and the *)
(* cursor that shows some of them.                                         *)
(*                                                                         *)
(* These components share no variable, so their interleavings would show   *)
(* nothing that they do not show alone.  A behaviour of this module is one *)
(* of a single component, part, chosen at the start; the others keep their *)
(* initial values.                                                         *)
(* The states of the run are the sum of the components'.                   *)
(***************************************************************************)
EXTENDS Resources, MCFontRequests, Callbacks, PassiveGrabs, MCColormaps, Sprite

VARIABLE part

objectVars == <<vars, fontRequestVars, callbacksVars, passive, colormapVars, spriteVars>>

Init_ == /\ part \in {"resources", "fonts", "callbacks", "grabs", "colours", "cursor"}
         /\ part # "fonts" => /\ idFont = [i \in FontIds |-> CHOOSE f \in Fonts : TRUE]
                              /\ gcFont = [c \in FClients |-> CHOOSE f \in Fonts : TRUE]
         /\ Init /\ FontInit /\ CallbacksInit /\ PassiveInit /\ ColormapInit /\ SpriteInit

ResourcesStep ==
  /\ part = "resources" /\ Next
  /\ UNCHANGED <<part, fontRequestVars, callbacksVars, passive, colormapVars, spriteVars>>
FontsStep ==
  /\ part = "fonts" /\ FontNext
  /\ UNCHANGED <<part, vars, callbacksVars, passive, colormapVars, spriteVars>>
CallbacksStep ==
  /\ part = "callbacks" /\ CallbacksNext
  /\ UNCHANGED <<part, vars, fontRequestVars, passive, colormapVars, spriteVars>>
GrabsStep ==
  /\ part = "grabs" /\ PassiveNext
  /\ UNCHANGED <<part, vars, fontRequestVars, callbacksVars, colormapVars, spriteVars>>
ColoursStep ==
  /\ part = "colours" /\ ColormapNext
  /\ UNCHANGED <<part, vars, fontRequestVars, callbacksVars, passive, spriteVars>>
CursorStep ==
  /\ part = "cursor" /\ SpriteNext
  /\ UNCHANGED <<part, vars, fontRequestVars, callbacksVars, passive, colormapVars>>

Next_ == ResourcesStep \/ FontsStep \/ CallbacksStep \/ GrabsStep \/ ColoursStep \/ CursorStep
ObjectsSpec == Init_ /\ [][Next_]_<<part, objectVars>>

-----------------------------------------------------------------------------
(* Instances. *)

ThreeWindows == {<<1, "own", 0>>, <<2, "own", 0>>, <<2, "own", 1>>}
FirstWindow == {<<1, "own", 0>>}

\* A cursor of one pixel and one of two colours, with its hot spot to the right.
SomeCursors ==
  [dot |-> [hot |-> <<0, 0>>, size |-> <<1, 1>>, source |-> {<<0, 0>>}, mask |-> {}],
   bar |-> [hot |-> <<1, 0>>, size |-> <<2, 1>>, source |-> {<<0, 0>>}, mask |-> {<<1, 0>>}]]
SomeColours == [dot |-> [source |-> 1, mask |-> 3], bar |-> [source |-> 3, mask |-> 1]]
CellsFor(a, b) == (0 :> [rgb |-> 1, use |-> a]) @@ (1 :> [rgb |-> 2, use |-> b])
TwoColormaps == [m1 |-> CellsFor("private", "free"), m2 |-> CellsFor("private", "private")]
Stored == {<<Def(0, 3)>>, <<Def(1, 3), Def(0, 1)>>, <<Def(0, 2), Def(1, 1)>>}
Shapes == {{<<1, 1>>}, {<<0, 0>>, <<2, 1>>}}
Points == {<<0, 0>>, <<2, 1>>}
Moves == {<<1, 0>>, <<-1, 1>>}
Screen32 == <<3, 2>>

-----------------------------------------------------------------------------
(* Every variable of the component that runs has its type. *)
ObjectsTypeOK ==
  CASE part = "resources" -> TypeOK
    [] part = "fonts" -> FontTypeOK
    [] part = "callbacks" -> CallbacksTypeOK
    [] part = "grabs" -> PassiveTypeOK
    [] part = "colours" -> ColormapTypeOK
    [] part = "cursor" -> SpriteTypeOK

(***************************************************************************)
(* A colour cell counts exactly the places of clients' lists that have its  *)
(* pixel, whoever freed or copied what.  A font counts no less than the     *)
(* IDs, GCs and sleeping requests that refer to it, unless it was closed    *)
(* for marks on another font or opened under an ID that a sleeping request  *)
(* mentions, and no more, unless marks on it were never undone: what        *)
(* doPolyText miscounts is the count of these fonts alone.                  *)
(***************************************************************************)
ReferencesAgree ==
  CASE part = "fonts" -> FontsAreCounted
    [] part = "colours" -> CellsAreCounted
    [] OTHER -> TRUE
=============================================================================
