-------------------------------- MODULE Sprite --------------------------------
(***************************************************************************)
(* The software cursor: mi/misprite.c, which takes the cursor off the frame  *)
(* buffer before anything draws or reads there and puts it back before the   *)
(* server sleeps, with the drawing of mi/midispcur.c and the reports of       *)
(* miext/damage/damage.c it relies on.                                      *)
(*                                                                         *)
(* shown is the frame buffer, content what it would hold without a cursor.   *)
(* A pixel shows a bit of its own at the start, or something drawn later, or *)
(* a pixel value of the cursor.                                             *)
(*                                                                         *)
(* Colours are single numbers that the visual can resolve, as distances in   *)
(* a PseudoColor map are all that FindBestPixel looks at.  Left out: the      *)
(* other visual classes, cursors with alpha, failing allocations, freed       *)
(* colormaps, several screens, and StoreColors with the same pixel twice.    *)
(***************************************************************************)
EXTENDS Geometry, Sequences

CONSTANTS
    SpriteScreen,     \* <<width, height>>
    SPRITE_PAD,       \* what is saved around a cursor
    CursorBits,       \* the cursors: [hot, size, source, mask], the latter
                      \* two the pixels drawn in the one colour and the other
    SpriteMaps,       \* the colormaps; CHOOSE takes one as the first
    SpriteCells,      \* the cells of each at the start, by pixel: [rgb, use]
    CursorColours,    \* the two colours of each cursor at the start
    Rgbs,             \* colours
    SomeShapes,       \* regions that are drawn or copied
    SomeDefs,         \* what clients store: sequences of [pixel, rgb]
    SomePoints,       \* pixels that are read, copied, or pointed at first
    SomeMoves,        \* how far bits are copied
    MaxSpriteChanges  \* bound: changes of colours, of which drawing on the
                      \* screen counts as two

VARIABLES
    sprite,        \* miSpriteScreenRec, the saved pixmap, the frame buffer, the colormaps
    content,       \* history
    cursorRgb,     \* the two colours of each cursor
    misread,       \* history: some read returned pixels of the cursor
    spriteChanges

spriteVars == <<sprite, content, cursorRgb, misread, spriteChanges>>

SpriteCursors == DOMAIN CursorBits
NoCursor == "NullCursor"
NullColormap == "NullColormap"
Planes2 == {"source", "mask"}
SpritePixels == BoxAt(<<0, 0>>, SpriteScreen)
Garbage == <<"garbage", 0>>
Coloured(pixel) == <<"pixel", pixel>>

\* The bits of a cursor are within its size.  Who draws and reads is on the screen.
ASSUME SpriteAssumption ==
    /\ SpriteScreen \in Nat \X Nat /\ SPRITE_PAD \in Nat
    /\ \A c \in SpriteCursors :
          /\ CursorBits[c].hot \in Int \X Int /\ CursorBits[c].size \in Nat \X Nat
          /\ CursorBits[c].source \cup CursorBits[c].mask \subseteq BoxAt(<<0, 0>>, CursorBits[c].size)
    /\ SomeShapes \subseteq SUBSET SpritePixels /\ SomePoints \subseteq SpritePixels
    /\ SomeMoves \subseteq Int \X Int
    /\ Rgbs \subseteq Int /\ MaxSpriteChanges \in Nat

ASSUME ColoursAssumption ==
    /\ NoCursor \notin SpriteCursors /\ NullColormap \notin SpriteMaps
    /\ SpriteMaps # {} /\ DOMAIN SpriteCells = SpriteMaps
    /\ \A m \in SpriteMaps :
          /\ DOMAIN SpriteCells[m] \subseteq Nat /\ DOMAIN SpriteCells[m] # {}
          /\ \A p \in DOMAIN SpriteCells[m] : SpriteCells[m][p] \in [rgb : Int, use : {"free", "shared", "private"}]
    /\ CursorColours \in [SpriteCursors -> [Planes2 -> Int]]
    /\ SomeDefs \subseteq Seq([pixel : Nat, rgb : Int])

\* No client defines a pixel twice in one request: the sprite stops at its second
\* match, and would miss what the request says of the pixel after that.
ASSUME DefinitionsAssumption ==
    \A defs \in SomeDefs : \A i, j \in DOMAIN defs : defs[i].pixel = defs[j].pixel => i = j

-----------------------------------------------------------------------------
(* What midispcur does to the frame buffer and its pixmaps. *)

\* CopyArea between the root window and the pixmap that saves its bits.  What
\* comes from beyond the edges is not written by the code; here it is garbage,
\* which nothing may make use of.
CopyBits(s, c) ==
    [s EXCEPT ![c.to] = [p \in DOMAIN @ |->
        IF ~Within(p, c.at, c.size) THEN @[p]
        ELSE LET q == Plus2(p, Minus2(c.src, c.at))
             IN  IF q \in DOMAIN s[c.from] THEN s[c.from][q] ELSE Garbage]]

Fetch(src, size, at)   == [from |-> "shown", to |-> "pSave", src |-> src, size |-> size, at |-> at]
PutBack(src, size, at) == [from |-> "pSave", to |-> "shown", src |-> src, size |-> size, at |-> at]

PutBits(image, cursor, at, colors) ==
    [p \in DOMAIN image |->
        LET q == Minus2(p, at)
        IN  IF q \in CursorBits[cursor].source THEN Coloured(colors["source"].pixel)
            ELSE IF q \in CursorBits[cursor].mask THEN Coloured(colors["mask"].pixel)
            ELSE image[p]]

\* Where the top left of the cursor is.
CursorAt(s) == Minus2(<<s.x, s.y>>, CursorBits[s.pCursor].hot)

SaveUnderCursor(s) ==
    LET pixmap == BoxAt(<<0, 0>>, s.saved.size)
        room == IF pixmap \subseteq DOMAIN s.pSave THEN DOMAIN s.pSave ELSE pixmap
    IN  CopyBits([s EXCEPT !.pSave = [p \in room |-> Garbage]], Fetch(s.saved.at, s.saved.size, <<0, 0>>))

RestoreUnderCursor(s) == CopyBits(s, PutBack(<<0, 0>>, s.saved.size, s.saved.at))

PutUpCursor(s) == [s EXCEPT !.shown = PutBits(@, s.pCursor, CursorAt(s), s.colors), !.isUp = TRUE]

(***************************************************************************)
(* The saved box has moved by <<-dx, -dy>>.  Of the old one, the rows and    *)
(* then the columns that are no longer in it go back to the screen, the rest *)
(* shifts within the pixmap, and the new rows and columns are fetched.       *)
(***************************************************************************)
Pos(n) == IF n > 0 THEN n ELSE 0
Abs(n) == Pos(n) + Pos(-n)

SaveCopies(x, y, w, h, dx, dy) ==
    LET kept == <<w - Abs(dx), h - Abs(dy)>>
    IN  <<PutBack(<<0, IF dy > 0 THEN h - dy ELSE 0>>, <<w, Abs(dy)>>,
              <<x + dx, IF dy > 0 THEN y + h ELSE y + dy>>),
          PutBack(<<IF dx > 0 THEN w - dx ELSE 0, Pos(-dy)>>, <<Abs(dx), kept[2]>>,
              <<IF dx > 0 THEN x + w ELSE x + dx, y + Pos(dy)>>),
          [from |-> "pSave", to |-> "pSave", src |-> <<Pos(-dx), Pos(-dy)>>, size |-> kept, at |-> <<Pos(dx), Pos(dy)>>],
          Fetch(<<x, IF dy > 0 THEN y ELSE y + h + dy>>, <<w, Abs(dy)>>,
                <<0, IF dy > 0 THEN 0 ELSE h + dy>>),
          Fetch(<<IF dx > 0 THEN x ELSE x + w + dx, y + Pos(dy)>>, <<Abs(dx), kept[2]>>,
                <<IF dx > 0 THEN 0 ELSE w + dx, Pos(dy)>>)>>

ChangeSave(s, d) ==
    LET c == SaveCopies(s.saved.at[1], s.saved.at[2], s.saved.size[1], s.saved.size[2], d[1], d[2])
    IN  CopyBits(CopyBits(CopyBits(CopyBits(CopyBits(s, c[1]), c[2]), c[3]), c[4]), c[5])

\* The cursor is drawn over the saved bits in a pixmap of its own, which is
\* then copied to the screen.
DCMoveCursor(s) ==
    LET pTemp == PutBits(s.pSave, s.pCursor, Minus2(CursorAt(s), s.saved.at), s.colors)
    IN  [RestoreUnderCursor([s EXCEPT !.pSave = pTemp]) EXCEPT !.pSave = s.pSave]

-----------------------------------------------------------------------------
(* Taking the cursor off the frame buffer, and its colours. *)

RemoveCursor(s) == [RestoreUnderCursor(s) EXCEPT !.isUp = FALSE]
RemoveIf(s, condition) == IF s.isUp /\ condition THEN RemoveCursor(s) ELSE s

\* The loop over the definitions ends at its second match.
UpdateColor(acc, def, plane) ==
    IF acc.updated < 2 /\ def.pixel = acc.colors[plane].pixel
    THEN [colors |-> [acc.colors EXCEPT ![plane] = def], updated |-> acc.updated + 1] ELSE acc
UpdateColors(acc, def) == UpdateColor(UpdateColor(acc, def, "source"), def, "mask")

UpdatedColors(s, defs) ==
    LET after[i \in 0 .. Len(defs)] ==
            IF i = 0 THEN [colors |-> s.colors, updated |-> 0] ELSE UpdateColors(after[i - 1], defs[i])
    IN  after[Len(defs)]

\* The screen's StoreColors, called for cells m has changed.
SpriteStoreColors(s, m, defs) ==
    LET new == UpdatedColors(s, defs)
    IN  IF s.pColormap = m /\ new.updated > 0
        THEN [RemoveIf(s, TRUE) EXCEPT !.colors = new.colors, !.checkPixels = TRUE] ELSE s

WithCell(s, m, p, rgb, use) == [s EXCEPT !.cmaps[m][p] = [rgb |-> rgb, use |-> use]]

\* The pixels nearest to a colour: the first of them.
FindBestPixel(cells, rgb) ==
    CHOOSE p \in DOMAIN cells : \A q \in DOMAIN cells :
        LET dp == Abs(cells[p].rgb - rgb)
            dq == Abs(cells[q].rgb - rgb)
        IN  dp < dq \/ (dp = dq /\ p <= q)

(***************************************************************************)
(* FakeAllocColor for one plane: a cell that is shared and has the colour, a *)
(* free cell, or the nearest.  The search starts at a pixel that is never     *)
(* initialized, so that which of several cells it finds is open.  A free cell *)
(* is stored through the sprite's own StoreColors, with its pixel set to 0.   *)
(***************************************************************************)
FakeAllocColor(s, plane) ==
    LET m == s.pColormap
        cells == s.cmaps[m]
        rgb == cursorRgb[s.pCursor][plane]
        asked == [s EXCEPT !.colors[plane] = [pixel |-> 0, rgb |-> rgb]]
        equal == {p \in DOMAIN cells : cells[p].use = "shared" /\ cells[p].rgb = rgb}
        free == {p \in DOMAIN cells : cells[p].use = "free"}
        Taken(t, p) == [t EXCEPT !.colors[plane].pixel = p, !.chosen[plane] = t.cmaps[m][p].rgb]
    IN  IF equal # {} THEN {Taken(asked, p) : p \in equal}
        ELSE IF free # {}
        THEN {Taken(SpriteStoreColors(WithCell(asked, m, p, rgb, "temporary"), m,
                                      <<[pixel |-> p, rgb |-> rgb]>>), p) : p \in free}
        ELSE {Taken(asked, FindBestPixel(cells, rgb))}

FakeFreeColors(s) ==
    [s EXCEPT !.cmaps[s.pColormap] = [p \in DOMAIN @ |->
        IF @[p].use = "temporary" THEN [rgb |-> @[p].rgb, use |-> "free"] ELSE @[p]]]

\* Mutant: colours that were right in another colormap.
KnownAnywhere(s) == \A plane \in Planes2 : s.colors[plane].rgb = cursorRgb[s.pCursor][plane]

ColorsKnown(s) ==
    /\ s.pColormap = s.pInstalledMap
    /\ \A plane \in Planes2 : s.colors[plane].rgb = cursorRgb[s.pCursor][plane]

FindColors(s) ==
    LET found == IF ColorsKnown(s) THEN {s}
                 ELSE {FakeFreeColors(u) : u \in UNION {FakeAllocColor(t, "mask") :
                          t \in FakeAllocColor([s EXCEPT !.pColormap = s.pInstalledMap], "source")}}
    IN  {[u EXCEPT !.checkPixels = FALSE] : u \in found}

-----------------------------------------------------------------------------
(* Putting it there and moving it. *)

ComputeSaved(s) ==
    [s EXCEPT !.saved = [at |-> Minus2(CursorAt(s), Both(SPRITE_PAD)),
                         size |-> Plus2(CursorBits[s.pCursor].size, Both(2 * SPRITE_PAD))]]

RestoreCursor(s) ==
    LET t == SaveUnderCursor(ComputeSaved(s))
    IN  {PutUpCursor(u) : u \in IF t.checkPixels THEN FindColors(t) ELSE {t}}

\* Mutant: a cursor of another size slides too.
CanSlideAnySize(s) ==
    \A i \in {1, 2} : /\ CursorAt(s)[i] + CursorBits[s.pCursor].size[i] >= s.saved.at[i]
                      /\ CursorAt(s)[i] < s.saved.at[i] + s.saved.size[i]

\* The saved box is as large as it has to be and overlaps the cursor.
CanSlide(s) ==
    LET at == CursorAt(s)
        size == CursorBits[s.pCursor].size
    IN  /\ s.saved.size = Plus2(size, Both(2 * SPRITE_PAD))
        /\ \A i \in {1, 2} : /\ at[i] + size[i] >= s.saved.at[i]
                             /\ at[i] < s.saved.at[i] + s.saved.size[i]

WithinSaved(s) ==
    \A i \in {1, 2} : /\ CursorAt(s)[i] >= s.saved.at[i]
                      /\ CursorAt(s)[i] + CursorBits[s.pCursor].size[i] < s.saved.at[i] + s.saved.size[i]

Slide(s) ==
    LET next == ComputeSaved(s)
    IN  DCMoveCursor(IF WithinSaved(s) THEN s ELSE ChangeSave(next, Minus2(s.saved.at, next.saved.at)))

SetCursor(s, cursor, x, y) ==
    LET placed == [s EXCEPT !.shouldBeUp = TRUE, !.x = x, !.y = y, !.pCursor = cursor]
    IN  CASE cursor = NoCursor ->
               {[RemoveIf(s, TRUE) EXCEPT !.shouldBeUp = FALSE, !.pCursor = NoCursor]}
          [] cursor # NoCursor /\ placed = [s EXCEPT !.shouldBeUp = TRUE] /\ ~s.checkPixels -> {placed}
          [] OTHER ->
               UNION {IF u.isUp /\ CanSlide(u) THEN {Slide(u)} ELSE RestoreCursor(RemoveIf(u, TRUE)) :
                      u \in IF s.checkPixels \/ s.pCursor # cursor THEN FindColors(placed) ELSE {placed}}
-----------------------------------------------------------------------------
(* Steps. *)

Counts(n) == spriteChanges + n <= MaxSpriteChanges /\ spriteChanges' = spriteChanges + n

DisplayCursor(cursor, x, y) ==
    /\ sprite' \in SetCursor(sprite, cursor, x, y)
    /\ UNCHANGED <<content, cursorRgb, misread, spriteChanges>>

MoveCursor(x, y) == DisplayCursor(sprite.pCursor, x, y)

BlockHandler ==
    /\ ~sprite.isUp /\ sprite.shouldBeUp
    /\ sprite' \in RestoreCursor(sprite)
    /\ UNCHANGED <<content, cursorRgb, misread, spriteChanges>>

\* Damage is reported before anything is drawn.
MeetsSaved(s, region) == \E p \in region : Within(p, s.saved.at, s.saved.size)
ReportDamage(s, region) == RemoveIf(s, MeetsSaved(s, region))

Sees(s, region) == misread' = (misread \/ \E p \in region : s.shown[p] # content[p])

Draw(region) ==
    /\ Counts(2)
    /\ LET s == ReportDamage(sprite, region)
           Painted(image) == [p \in DOMAIN image |-> IF p \in region THEN <<"drawn", spriteChanges>> ELSE image[p]]
       IN  sprite' = [s EXCEPT !.shown = Painted(@)] /\ content' = Painted(content)
    /\ UNCHANGED <<cursorRgb, misread>>

\* A box and the saved box meet, or touch.
OverlapsSaved(s, at, size) ==
    \A i \in {1, 2} : /\ s.saved.at[i] <= at[i] + size[i]
                      /\ at[i] <= s.saved.at[i] + s.saved.size[i]

SourceValidate(s, at, size) == RemoveIf(s, OverlapsSaved(s, at, size))

GetImage(at, size) ==
    /\ sprite' = SourceValidate(sprite, at, size)
    /\ Sees(sprite', BoxAt(at, size))
    /\ UNCHANGED <<content, cursorRgb, spriteChanges>>

\* A row of w pixels that ends where its box would begin again.
GetSpans(at, w) ==
    /\ sprite' = RemoveIf(sprite, OverlapsSaved(sprite, at, <<w, 0>>))
    /\ Sees(sprite', BoxAt(at, <<w, 1>>))
    /\ UNCHANGED <<content, cursorRgb, spriteChanges>>

\* Bits are moved on the screen, those of region by d.
Moved2(image, region, d) ==
    [p \in DOMAIN image |-> IF Minus2(p, d) \in region THEN image[Minus2(p, d)] ELSE image[p]]

MoveBits(s, region, d) ==
    /\ LET t == ReportDamage(s, Translate(region, d))
       IN  sprite' = [t EXCEPT !.shown = Moved2(@, region, d)] /\ Sees(t, region)
    /\ content' = Moved2(content, region, d)
    /\ UNCHANGED cursorRgb

CopySpriteWindow(region, d) ==
    /\ Counts(2)
    /\ MoveBits(RemoveIf(sprite, MeetsSaved(sprite, region)), region, d)

CopyAreaInWindow(at, size, d) ==
    /\ Counts(2)
    /\ MoveBits(SourceValidate(sprite, at, size), BoxAt(at, size), d)

\* What is saved of a window that was moved by d is read where it was before.
SaveDoomedAreas(obscured, d) ==
    /\ sprite' = RemoveIf(sprite, \E p \in obscured : Within(p, Plus2(sprite.saved.at, d), sprite.saved.size))
    /\ Sees(sprite', SpritePixels \cap Translate(obscured, Minus2(<<0, 0>>, d)))
    /\ UNCHANGED <<content, cursorRgb, spriteChanges>>

InstallColormap(m) ==
    /\ Counts(1)
    /\ sprite' = IF sprite.pColormap = m THEN [sprite EXCEPT !.pInstalledMap = m]
                 ELSE [RemoveIf(sprite, TRUE) EXCEPT !.pInstalledMap = m, !.checkPixels = TRUE]
    /\ UNCHANGED <<content, cursorRgb, misread>>

\* A client's cell gets the last colour that is stored in it, and a use.
Defines(defs, p) == {i \in DOMAIN defs : defs[i].pixel = p}
CellsWith(cells, defs, use) ==
    [p \in DOMAIN cells |->
        IF Defines(defs, p) = {} THEN cells[p]
        ELSE LET last == CHOOSE i \in Defines(defs, p) : \A j \in Defines(defs, p) : j <= i
             IN  [rgb |-> defs[last].rgb, use |-> use]]

Stores(s, m, defs, use) ==
    /\ Counts(1)
    /\ sprite' = SpriteStoreColors([s EXCEPT !.cmaps[m] = CellsWith(@, defs, use)], m, defs)
    /\ UNCHANGED <<content, cursorRgb, misread>>

Cell(m, p) == sprite.cmaps[m][p]
Def(p, rgb) == [pixel |-> p, rgb |-> rgb]

StoreColors(m, defs) ==
    /\ \A i \in DOMAIN defs : Cell(m, defs[i].pixel).use = "private"
    /\ Stores(sprite, m, defs, "private")

AllocSharedCell(m, p, rgb) ==
    /\ Cell(m, p).use = "free"
    /\ \A q \in DOMAIN sprite.cmaps[m] : Cell(m, q).use = "shared" => Cell(m, q).rgb # rgb
    /\ Stores(sprite, m, <<Def(p, rgb)>>, "shared")

\* A private cell keeps the colour it had, a cell that is freed too.
ChangesUse(m, p, from, to) ==
    /\ Counts(1)
    /\ Cell(m, p).use \in from
    /\ sprite' = WithCell(sprite, m, p, Cell(m, p).rgb, to)
    /\ UNCHANGED <<content, cursorRgb, misread>>

AllocPrivateCell(m, p) == ChangesUse(m, p, {"free"}, "private")
FreeCellOf(m, p) == ChangesUse(m, p, {"shared", "private"}, "free")

\* miRecolorCursor realizes the cursor again.
RecolorCursor(cursor, source, mask) ==
    /\ Counts(1)
    /\ cursorRgb' = [cursorRgb EXCEPT ![cursor] = [source |-> source, mask |-> mask]]
    /\ sprite' = IF cursor = sprite.pCursor THEN [sprite EXCEPT !.checkPixels = TRUE] ELSE sprite
    /\ UNCHANGED <<content, misread>>

SpriteInit ==
    /\ content = [p \in SpritePixels |-> <<"bit", p>>]
    /\ sprite = [pCursor |-> NoCursor, x |-> 0, y |-> 0, saved |-> [at |-> <<0, 0>>, size |-> <<0, 0>>],
                 isUp |-> FALSE, shouldBeUp |-> FALSE, checkPixels |-> TRUE,
                 colors |-> [plane \in Planes2 |-> Def(0, 0)], chosen |-> [plane \in Planes2 |-> 0],
                 pInstalledMap |-> CHOOSE m \in SpriteMaps : TRUE, pColormap |-> NullColormap,
                 pSave |-> <<>>, shown |-> content, cmaps |-> SpriteCells]
    /\ cursorRgb = CursorColours
    /\ misread = FALSE
    /\ spriteChanges = 0

CursorSteps ==
    \/ \E p \in SpritePixels : MoveCursor(p[1], p[2])
    \/ \E p \in SomePoints, c \in SpriteCursors \cup {NoCursor} : DisplayCursor(c, p[1], p[2])
    \/ BlockHandler
    \/ \E c \in SpriteCursors, r \in Rgbs : RecolorCursor(c, r, cursorRgb[c]["mask"])

ColourSteps ==
    \E m \in SpriteMaps :
        \/ InstallColormap(m)
        \/ \E defs \in SomeDefs : StoreColors(m, defs)
        \/ \E p \in DOMAIN SpriteCells[m] :
               \/ \E r \in Rgbs : AllocSharedCell(m, p, r)
               \/ AllocPrivateCell(m, p)
               \/ FreeCellOf(m, p)

ScreenSteps ==
    \/ \E region \in SomeShapes : Draw(region) \/ \E d \in SomeMoves : CopySpriteWindow(region, d) \/ SaveDoomedAreas(region, d)
    \/ \E at \in SomePoints :
           \/ GetImage(at, <<1, 1>>)
           \/ GetSpans(at, 1)
           \/ \E d \in SomeMoves : CopyAreaInWindow(at, <<1, 1>>, d)

SpriteNext == CursorSteps \/ ColourSteps \/ ScreenSteps

SpriteSpec == SpriteInit /\ [][SpriteNext]_spriteVars

SpriteTypeOK ==
    /\ sprite.pCursor \in SpriteCursors \cup {NoCursor}
    /\ sprite.isUp \in BOOLEAN /\ sprite.shouldBeUp \in BOOLEAN /\ sprite.checkPixels \in BOOLEAN
    /\ DOMAIN sprite.shown = SpritePixels
    /\ sprite.isUp => sprite.shouldBeUp /\ sprite.pCursor # NoCursor
    /\ \A m \in SpriteMaps : \A p \in DOMAIN SpriteCells[m] : Cell(m, p).use \in {"free", "shared", "private"}
    /\ spriteChanges \in 0 .. MaxSpriteChanges

(***************************************************************************)
(* However the cursor was moved, slid, recoloured, and taken off for drawing  *)
(* and reading: without it the frame buffer shows what was drawn, with it     *)
(* that and the cursor at its place; what is saved under it is what was drawn *)
(* there, and nobody ever read its pixels.                                   *)
(***************************************************************************)
SpriteIsAnOverlay ==
    /\ ~misread
    /\ sprite.shown = IF sprite.isUp THEN PutBits(content, sprite.pCursor, CursorAt(sprite), sprite.colors) ELSE content
    /\ sprite.isUp => \A p \in SpritePixels : Within(p, sprite.saved.at, sprite.saved.size) =>
                         sprite.pSave[Minus2(p, sprite.saved.at)] = content[p]

(***************************************************************************)
(* The sprite holds no cells: the pixels it picked may get another colour at  *)
(* any time.  While it shows them and believes them checked, they have in the *)
(* installed colormap the colour they had when picked, or the cursor's.       *)
(***************************************************************************)
SpriteColoursAreCurrent ==
    sprite.isUp /\ ~sprite.checkPixels =>
        \A plane \in Planes2 :
            Cell(sprite.pInstalledMap, sprite.colors[plane].pixel).rgb
                \in {sprite.chosen[plane], cursorRgb[sprite.pCursor][plane]}
=============================================================================
