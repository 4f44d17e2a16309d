----------------------------- MODULE SpriteProofs -----------------------------
(***************************************************************************)
(* Proofs about Sprite for any screen, padding, set of cursors, colormaps   *)
(* and stored colours: the cursor is an overlay, and one that is shown as   *)
(* checked has current colours.  What changes a colour changes no pixel;    *)
(* what moves the cursor is a sequence of copies between the frame buffer   *)
(* and the pixmap that saves what is under it, each described by the pixels *)
(* it changes, and leaves the colours alone.                                *)
(***************************************************************************)
EXTENDS Sprite, WellFoundedInduction, TLAPS

Pairs == Int \X Int

\* A pixmap of the size of the screen.
IsImage(image) == image = [p \in SpritePixels |-> image[p]]

SpriteFields == {"pCursor", "x", "y", "saved", "isUp", "shouldBeUp", "checkPixels", "colors", "chosen",
                 "pInstalledMap", "pColormap", "pSave", "shown", "cmaps"}

\* The fields of a sprite, as far as pixels depend on them.
IsSprite(s) ==
    /\ DOMAIN s = SpriteFields
    /\ s.x \in Int /\ s.y \in Int
    /\ s.saved \in [at : Pairs, size : Nat \X Nat]
    /\ s.isUp \in BOOLEAN
    /\ s.pCursor \in SpriteCursors \cup {NoCursor}
    /\ s.shouldBeUp => s.pCursor \in SpriteCursors
    /\ IsImage(s.shown)

-----------------------------------------------------------------------------
\* The pixels that there is room for in the pixmap that saves them.
Pixmap(s) == DOMAIN s.pSave

OnlyChanged(field, s, t) == \A k \in SpriteFields \ {field} : t[k] = s[k]

LEMMA ScreenIsPairs == SpritePixels \subseteq Pairs
  BY SpriteAssumption DEF SpritePixels, BoxAt, Pairs

LEMMA InBox ==
  ASSUME NEW p \in Pairs, NEW at \in Pairs, NEW size \in Pairs
  PROVE  p \in BoxAt(at, size) <=> Within(p, at, size)
  <1>1. PICK a \in Int, b \in Int : p = <<a, b>>
    BY DEF Pairs
  <1>2. p \in BoxAt(at, size) <=> a \in at[1] .. at[1] + size[1] - 1 /\ b \in at[2] .. at[2] + size[2] - 1
    BY <1>1 DEF BoxAt, Pairs
  <1>3. Within(p, at, size) <=> at[1] <= a /\ a < at[1] + size[1] /\ at[2] <= b /\ b < at[2] + size[2]
    BY <1>1 DEF Within, Pairs
  <1> QED BY <1>2, <1>3 DEF Pairs

LEMMA Differences ==
  ASSUME NEW p \in Pairs, NEW q \in Pairs
  PROVE  /\ Plus2(p, q) \in Pairs /\ Minus2(p, q) \in Pairs
         /\ Plus2(p, q)[1] = p[1] + q[1] /\ Plus2(p, q)[2] = p[2] + q[2]
         /\ Minus2(p, q)[1] = p[1] - q[1] /\ Minus2(p, q)[2] = p[2] - q[2]
  BY DEF Plus2, Minus2, Pairs

LEMMA SamePair ==
  ASSUME NEW p \in Pairs, NEW q \in Pairs, p[1] = q[1], p[2] = q[2] PROVE p = q
  BY DEF Pairs

LEMMA SameSource ==
  ASSUME NEW p \in Pairs, NEW src \in Pairs, NEW at \in Pairs, NEW old \in Pairs,
         src[1] - at[1] = -old[1], src[2] - at[2] = -old[2]
  PROVE  Plus2(p, Minus2(src, at)) = Minus2(p, old)
  <1> DEFINE d == Minus2(src, at)
  <1>1. d \in Pairs /\ d[1] = -old[1] /\ d[2] = -old[2]
    BY Differences
  <1> HIDE DEF d
  <1>2. /\ Plus2(p, d) \in Pairs /\ Plus2(p, d)[1] = p[1] + d[1] /\ Plus2(p, d)[2] = p[2] + d[2]
        /\ Minus2(p, old) \in Pairs /\ Minus2(p, old)[1] = p[1] - old[1] /\ Minus2(p, old)[2] = p[2] - old[2]
    BY <1>1, Differences
  <1>3. Plus2(p, d) = Minus2(p, old)
    BY <1>1, <1>2, SamePair DEF Pairs
  <1> QED BY <1>3 DEF d

-----------------------------------------------------------------------------
(* Copies: what a copy of a box at src to the box at at does. *)

PutBackBits(s, src, size, at, t) ==
    /\ IsSprite(t)
    /\ OnlyChanged("shown", s, t)
    /\ \A p \in SpritePixels : ~Within(p, at, size) => t.shown[p] = s.shown[p]
    /\ \A p \in SpritePixels : Within(p, at, size) /\ Plus2(p, Minus2(src, at)) \in Pixmap(s)
          => t.shown[p] = s.pSave[Plus2(p, Minus2(src, at))]

FetchedBits(s, src, size, at, t) ==
    /\ IsSprite(t)
    /\ OnlyChanged("pSave", s, t)
    /\ Pixmap(t) = Pixmap(s)
    /\ \A p \in Pixmap(s) : ~Within(p, at, size) => t.pSave[p] = s.pSave[p]
    /\ \A p \in Pixmap(s) : Within(p, at, size) /\ Plus2(p, Minus2(src, at)) \in SpritePixels
          => t.pSave[p] = s.shown[Plus2(p, Minus2(src, at))]

ShiftedBits(s, src, size, at, t) ==
    /\ IsSprite(t)
    /\ OnlyChanged("pSave", s, t)
    /\ Pixmap(t) = Pixmap(s)
    /\ \A p \in Pixmap(s) : Within(p, at, size) /\ Plus2(p, Minus2(src, at)) \in Pixmap(s)
          => t.pSave[p] = s.pSave[Plus2(p, Minus2(src, at))]

LEMMA PuttingBack ==
  ASSUME NEW s, IsSprite(s), NEW src \in Pairs, NEW size \in Pairs, NEW at \in Pairs,
         NEW t, t = CopyBits(s, PutBack(src, size, at))
  PROVE  PutBackBits(s, src, size, at, t)
  <1> DEFINE f == [p \in DOMAIN s.shown |->
                    IF ~Within(p, at, size) THEN s.shown[p]
                    ELSE LET q == Plus2(p, Minus2(src, at))
                         IN  IF q \in Pixmap(s) THEN s.pSave[q] ELSE Garbage]
  <1>1. t = [s EXCEPT !.shown = f]
    BY DEF CopyBits, PutBack, Pixmap
  <1>2. DOMAIN s.shown = SpritePixels
    BY DEF IsSprite, IsImage
  <1>3. t.shown = f /\ OnlyChanged("shown", s, t)
    BY <1>1 DEF IsSprite, SpriteFields, OnlyChanged
  <1>4. DOMAIN t = SpriteFields
    BY <1>1 DEF IsSprite
  <1>5. IsSprite(t)
    BY <1>2, <1>3, <1>4 DEF IsSprite, SpriteFields, IsImage, OnlyChanged
  <1> QED BY <1>1, <1>2, <1>3, <1>5 DEF PutBackBits

LEMMA Fetching ==
  ASSUME NEW s, IsSprite(s), NEW src \in Pairs, NEW size \in Pairs, NEW at \in Pairs,
         NEW t, t = CopyBits(s, Fetch(src, size, at))
  PROVE  FetchedBits(s, src, size, at, t)
  <1> DEFINE f == [p \in Pixmap(s) |->
                    IF ~Within(p, at, size) THEN s.pSave[p]
                    ELSE LET q == Plus2(p, Minus2(src, at))
                         IN  IF q \in DOMAIN s.shown THEN s.shown[q] ELSE Garbage]
  <1>1. t = [s EXCEPT !.pSave = f]
    BY DEF CopyBits, Fetch, Pixmap
  <1>2. DOMAIN s.shown = SpritePixels
    BY DEF IsSprite, IsImage
  <1>3. t.pSave = f /\ OnlyChanged("pSave", s, t)
    BY <1>1 DEF IsSprite, SpriteFields, OnlyChanged
  <1>4. DOMAIN t = SpriteFields
    BY <1>1 DEF IsSprite
  <1>5. IsSprite(t)
    BY <1>2, <1>3, <1>4 DEF IsSprite, SpriteFields, IsImage, OnlyChanged
  <1> QED BY <1>2, <1>3, <1>5 DEF Pixmap, FetchedBits

LEMMA Shifting ==
  ASSUME NEW s, IsSprite(s), NEW src \in Pairs, NEW size \in Pairs, NEW at \in Pairs,
         NEW t, t = CopyBits(s, [from |-> "pSave", to |-> "pSave", src |-> src, size |-> size, at |-> at])
  PROVE  ShiftedBits(s, src, size, at, t)
  <1> DEFINE f == [p \in Pixmap(s) |->
                    IF ~Within(p, at, size) THEN s.pSave[p]
                    ELSE LET q == Plus2(p, Minus2(src, at))
                         IN  IF q \in Pixmap(s) THEN s.pSave[q] ELSE Garbage]
  <1>1. t = [s EXCEPT !.pSave = f]
    BY DEF CopyBits, Pixmap
  <1>3. t.pSave = f /\ OnlyChanged("pSave", s, t)
    BY <1>1 DEF IsSprite, SpriteFields, OnlyChanged
  <1>4. DOMAIN t = SpriteFields
    BY <1>1 DEF IsSprite
  <1>5. IsSprite(t)
    BY <1>3, <1>4 DEF IsSprite, SpriteFields, IsImage, OnlyChanged
  <1> QED BY <1>3, <1>5 DEF Pixmap, ShiftedBits
-----------------------------------------------------------------------------
(* Where the saved box is, and what is in it and around it.                 *)

Room(s) == BoxAt(<<0, 0>>, s.saved.size) \subseteq Pixmap(s)
Saves(s, at, image) ==
    \A p \in SpritePixels : Within(p, at, s.saved.size) => s.pSave[Minus2(p, at)] = image[p]
Clear(s, at, image) == \A p \in SpritePixels : ~Within(p, at, s.saved.size) => s.shown[p] = image[p]

LEMMA InPixmap ==
  ASSUME NEW p \in Pairs, NEW at \in Pairs, NEW size \in Pairs, Within(p, at, size)
  PROVE  Minus2(p, at) \in Pairs /\ Minus2(p, at) \in BoxAt(<<0, 0>>, size)
  <1>1. Minus2(p, at) \in Pairs
    BY Differences
  <1>2. Within(Minus2(p, at), <<0, 0>>, size)
    BY Differences DEF Within, Pairs
  <1> QED BY <1>1, <1>2, InBox DEF Pairs

LEMMA Restores ==
  ASSUME NEW s, NEW image, IsSprite(s), Room(s), Saves(s, s.saved.at, image), Clear(s, s.saved.at, image), IsImage(image)
  PROVE  LET t == RestoreUnderCursor(s)
         IN  IsSprite(t) /\ t.shown = image /\ OnlyChanged("shown", s, t)
  <1> DEFINE t == RestoreUnderCursor(s)
             at == s.saved.at
             size == s.saved.size
  <1>1. at \in Pairs /\ size \in Pairs /\ <<0, 0>> \in Pairs
    BY DEF IsSprite, Pairs
  <1>2. t = CopyBits(s, PutBack(<<0, 0>>, size, at))
    BY DEF RestoreUnderCursor
  <1>3. /\ IsSprite(t) /\ OnlyChanged("shown", s, t)
        /\ \A p \in SpritePixels : ~Within(p, at, size) => t.shown[p] = s.shown[p]
        /\ \A p \in SpritePixels : Within(p, at, size) /\ Plus2(p, Minus2(<<0, 0>>, at)) \in Pixmap(s)
               => t.shown[p] = s.pSave[Plus2(p, Minus2(<<0, 0>>, at))]
    <2> HIDE DEF t, at, size
    <2>1. PutBackBits(s, <<0, 0>>, size, at, t)
      BY <1>1, <1>2, PuttingBack
    <2> QED BY <2>1 DEF PutBackBits
  <1>4. ASSUME NEW p \in SpritePixels PROVE t.shown[p] = image[p]
    <2>1. p \in Pairs
      BY ScreenIsPairs
    <2>2. Plus2(p, Minus2(<<0, 0>>, at)) = Minus2(p, at)
      BY <1>1, <2>1, SameSource DEF Pairs
    <2>3. CASE Within(p, at, size)
      <3>1. Minus2(p, at) \in Pixmap(s)
        BY <1>1, <2>1, <2>3, InPixmap DEF Room
      <3> QED BY <1>3, <2>2, <2>3, <3>1 DEF Saves
    <2>4. CASE ~Within(p, at, size)
      BY <1>3, <2>4 DEF Clear
    <2> QED BY <2>3, <2>4
  <1>5. t.shown = image
    BY <1>3, <1>4 DEF IsSprite, IsImage
  <1> QED BY <1>3, <1>5

-----------------------------------------------------------------------------
(* The saved box moves.                                                    *)

\* What ChangeSave starts from: the box is where it will be, its bits are those
\* of the box at old, of which something is left.
Moving(s, d) ==
    LET old == Plus2(s.saved.at, d)
    IN  /\ IsSprite(s) /\ Room(s) /\ Saves(s, old, content) /\ Clear(s, old, content)
        /\ d \in Pairs
        /\ \A i \in {1, 2} : -s.saved.size[i] <= d[i] /\ d[i] <= s.saved.size[i]

\* The box in numbers.

LEMMA PatchNumbers ==
  ASSUME NEW s, NEW d, Moving(s, d), NEW x, NEW y, NEW w, NEW h, NEW dx, NEW dy,
         x = s.saved.at[1], y = s.saved.at[2], w = s.saved.size[1], h = s.saved.size[2],
         dx = d[1], dy = d[2], NEW old, old = Plus2(s.saved.at, d)
  PROVE  /\ x \in Int /\ y \in Int /\ w \in Nat /\ h \in Nat /\ dx \in Int /\ dy \in Int
         /\ -w <= dx /\ dx <= w /\ -h <= dy /\ dy <= h
         /\ s.saved.at \in Pairs /\ s.saved.size \in Pairs /\ d \in Pairs
         /\ old \in Pairs /\ old[1] = x + dx /\ old[2] = y + dy
         /\ Abs(dx) = (IF dx > 0 THEN dx ELSE -dx) /\ Abs(dy) = (IF dy > 0 THEN dy ELSE -dy)
         /\ Pos(dx) = (IF dx > 0 THEN dx ELSE 0) /\ Pos(dy) = (IF dy > 0 THEN dy ELSE 0)
         /\ Pos(-dx) = (IF dx > 0 THEN 0 ELSE -dx) /\ Pos(-dy) = (IF dy > 0 THEN 0 ELSE -dy)
  <1>1. /\ x \in Int /\ y \in Int /\ w \in Nat /\ h \in Nat /\ dx \in Int /\ dy \in Int
        /\ -w <= dx /\ dx <= w /\ -h <= dy /\ dy <= h
        /\ s.saved.at \in Pairs /\ s.saved.size \in Pairs /\ d \in Pairs
    BY DEF Moving, IsSprite, Pairs
  <1>2. old \in Pairs /\ old[1] = x + dx /\ old[2] = y + dy
    BY <1>1, Differences
  <1>3. /\ Abs(dx) = (IF dx > 0 THEN dx ELSE -dx) /\ Abs(dy) = (IF dy > 0 THEN dy ELSE -dy)
        /\ Pos(dx) = (IF dx > 0 THEN dx ELSE 0) /\ Pos(dy) = (IF dy > 0 THEN dy ELSE 0)
        /\ Pos(-dx) = (IF dx > 0 THEN 0 ELSE -dx) /\ Pos(-dy) = (IF dy > 0 THEN 0 ELSE -dy)
    BY <1>1 DEF Abs, Pos
  <1> QED BY <1>1, <1>2, <1>3

LEMMA RowsGoBack ==
  ASSUME NEW s, NEW d, Moving(s, d), NEW x, NEW y, NEW w, NEW h, NEW dx, NEW dy,
         x = s.saved.at[1], y = s.saved.at[2], w = s.saved.size[1], h = s.saved.size[2],
         dx = d[1], dy = d[2]
  PROVE  LET t == CopyBits(s, SaveCopies(x, y, w, h, dx, dy)[1])
         IN  /\ IsSprite(t) /\ OnlyChanged("shown", s, t)
             /\ Clear(t, Plus2(s.saved.at, d), content)
             /\ \A p \in SpritePixels :
                   ~(s.saved.at[2] <= p[2] /\ p[2] < s.saved.at[2] + s.saved.size[2])
                      => t.shown[p] = content[p]
  <1> DEFINE src == <<0, IF dy > 0 THEN h - dy ELSE 0>>
             size == <<w, Abs(dy)>>
             at == <<x + dx, IF dy > 0 THEN y + h ELSE y + dy>>
             old == Plus2(s.saved.at, d)
             t == CopyBits(s, PutBack(src, size, at))
  <1>1. /\ x \in Int /\ y \in Int /\ w \in Nat /\ h \in Nat /\ dx \in Int /\ dy \in Int
        /\ -w <= dx /\ dx <= w /\ -h <= dy /\ dy <= h
        /\ s.saved.at \in Pairs /\ s.saved.size \in Pairs /\ d \in Pairs
        /\ old \in Pairs /\ old[1] = x + dx /\ old[2] = y + dy
    BY PatchNumbers
  <1>2. Abs(dy) = (IF dy > 0 THEN dy ELSE -dy)
    BY PatchNumbers
  <1>3. src \in Pairs /\ size \in Pairs /\ at \in Pairs
    BY <1>1, <1>2 DEF Pairs
  <1>4. SaveCopies(x, y, w, h, dx, dy)[1] = PutBack(src, size, at)
    BY DEF SaveCopies
  <1>5. Saves(s, old, content) /\ Clear(s, old, content)
    BY DEF Moving
  <1>6. /\ IsSprite(t) /\ OnlyChanged("shown", s, t)
        /\ \A p \in SpritePixels : ~Within(p, at, size) => t.shown[p] = s.shown[p]
        /\ \A p \in SpritePixels : Within(p, at, size) /\ Plus2(p, Minus2(src, at)) \in Pixmap(s)
               => t.shown[p] = s.pSave[Plus2(p, Minus2(src, at))]
    <2> HIDE DEF src, size, at, t
    <2>1. IsSprite(s)
      BY DEF Moving
    <2>2. t = CopyBits(s, PutBack(src, size, at))
      BY DEF t
    <2>3. PutBackBits(s, src, size, at, t)
      BY <1>3, <2>1, <2>2, PuttingBack
    <2> QED BY <2>3 DEF PutBackBits
  <1>7. ASSUME NEW p \in SpritePixels, Within(p, at, size) PROVE t.shown[p] = content[p]
    <2>1. p \in Pairs
      BY ScreenIsPairs
    <2>2. Within(p, old, s.saved.size)
      BY <1>1, <1>2, <1>7, <2>1 DEF Within, Pairs
    <2>3. Plus2(p, Minus2(src, at)) = Minus2(p, old)
      <3> HIDE DEF old
      <3>1. src[1] - at[1] = -old[1] /\ src[2] - at[2] = -old[2]
        BY <1>1, <1>2
      <3> HIDE DEF src, at
      <3> QED BY <1>1, <1>3, <2>1, <3>1, SameSource
    <2>4. Minus2(p, old) \in Pixmap(s)
      BY <1>1, <2>1, <2>2, InPixmap DEF Moving, Room
    <2>5. s.pSave[Minus2(p, old)] = content[p]
      BY <1>5, <2>2 DEF Saves
    <2> QED BY <1>6, <1>7, <2>3, <2>4, <2>5
  <1>8. Clear(t, old, content)
    <2>1. t.saved = s.saved
      BY <1>6 DEF SpriteFields, OnlyChanged
    <2> HIDE DEF t, old, at, size
    <2> QED BY <1>5, <1>6, <1>7, <2>1 DEF Clear
  <1>9. ASSUME NEW p \in SpritePixels, ~(y <= p[2] /\ p[2] < y + h) PROVE t.shown[p] = content[p]
    <2>1. p \in Pairs
      BY ScreenIsPairs
    <2>2. CASE Within(p, at, size)
      BY <1>7, <2>2
    <2>3. CASE ~Within(p, at, size)
      <3>1. ~Within(p, old, s.saved.size)
        BY <1>1, <1>2, <1>9, <2>1, <2>3 DEF Within, Pairs
      <3> QED BY <1>6, <2>3, <3>1 DEF Moving, Clear
    <2> QED BY <2>2, <2>3
  <1> QED BY <1>4, <1>6, <1>8, <1>9

LEMMA ColumnsGoBack ==
  ASSUME NEW s, NEW d, Moving(s, d), NEW x, NEW y, NEW w, NEW h, NEW dx, NEW dy,
         x = s.saved.at[1], y = s.saved.at[2], w = s.saved.size[1], h = s.saved.size[2],
         dx = d[1], dy = d[2],
         \A p \in SpritePixels : ~(y <= p[2] /\ p[2] < y + h) => s.shown[p] = content[p],
         NEW t, t = CopyBits(s, SaveCopies(x, y, w, h, dx, dy)[2])
  PROVE  /\ IsSprite(t) /\ OnlyChanged("shown", s, t)
         /\ \A p \in SpritePixels :
               ~Within(p, s.saved.at, s.saved.size) \/ ~Within(p, Plus2(s.saved.at, d), s.saved.size)
                  => t.shown[p] = content[p]
  <1> DEFINE src == <<IF dx > 0 THEN w - dx ELSE 0, Pos(-dy)>>
             size == <<Abs(dx), h - Abs(dy)>>
             at == <<IF dx > 0 THEN x + w ELSE x + dx, y + Pos(dy)>>
             old == Plus2(s.saved.at, d)
  <1>1. /\ x \in Int /\ y \in Int /\ w \in Nat /\ h \in Nat /\ dx \in Int /\ dy \in Int
        /\ -w <= dx /\ dx <= w /\ -h <= dy /\ dy <= h
        /\ s.saved.at \in Pairs /\ s.saved.size \in Pairs /\ d \in Pairs
        /\ old \in Pairs /\ old[1] = x + dx /\ old[2] = y + dy
    BY PatchNumbers
  <1>2. /\ Abs(dx) = (IF dx > 0 THEN dx ELSE -dx) /\ Abs(dy) = (IF dy > 0 THEN dy ELSE -dy)
        /\ Pos(dy) = (IF dy > 0 THEN dy ELSE 0) /\ Pos(-dy) = (IF dy > 0 THEN 0 ELSE -dy)
    BY PatchNumbers
  <1>3. src \in Pairs /\ size \in Pairs /\ at \in Pairs
    BY <1>1, <1>2 DEF Pairs
  <1>4. SaveCopies(x, y, w, h, dx, dy)[2] = PutBack(src, size, at)
    BY DEF SaveCopies
  <1> HIDE DEF old
  <1>6. /\ IsSprite(t) /\ OnlyChanged("shown", s, t)
        /\ \A p \in SpritePixels : ~Within(p, at, size) => t.shown[p] = s.shown[p]
        /\ \A p \in SpritePixels : Within(p, at, size) /\ Plus2(p, Minus2(src, at)) \in Pixmap(s)
               => t.shown[p] = s.pSave[Plus2(p, Minus2(src, at))]
    <2> HIDE DEF src, size, at
    <2>1. IsSprite(s)
      BY DEF Moving
    <2>2. PutBackBits(s, src, size, at, t)
      BY <1>3, <1>4, <2>1, PuttingBack
    <2> QED BY <2>2 DEF PutBackBits
  <1>7. ASSUME NEW p \in SpritePixels, Within(p, at, size) PROVE t.shown[p] = content[p]
    <2>1. p \in Pairs
      BY ScreenIsPairs
    <2>2. Within(p, old, s.saved.size)
      BY <1>1, <1>2, <1>7, <2>1 DEF Within, Pairs
    <2>3. Plus2(p, Minus2(src, at)) = Minus2(p, old)
      <3>1. src[1] - at[1] = -old[1] /\ src[2] - at[2] = -old[2]
        BY <1>1, <1>2
      <3> HIDE DEF src, at
      <3> QED BY <1>1, <1>3, <2>1, <3>1, SameSource
    <2>4. Minus2(p, old) \in Pixmap(s)
      BY <1>1, <2>1, <2>2, InPixmap DEF Moving, Room
    <2>5. t.shown[p] = s.pSave[Minus2(p, old)]
      BY <1>6, <1>7, <2>3, <2>4
    <2> QED BY <2>2, <2>5 DEF Moving, Saves, old
  <1>9. ASSUME NEW p \in SpritePixels,
               ~Within(p, s.saved.at, s.saved.size) \/ ~Within(p, old, s.saved.size)
        PROVE  t.shown[p] = content[p]
    <2>1. p \in Pairs
      BY ScreenIsPairs
    <2>2. CASE Within(p, at, size)
      BY <1>7, <2>2
    <2>3. CASE ~Within(p, at, size) /\ ~Within(p, old, s.saved.size)
      BY <1>6, <2>3 DEF Moving, Clear, old
    <2>4. CASE ~Within(p, at, size) /\ Within(p, old, s.saved.size)
      <3>1. ~(y <= p[2] /\ p[2] < y + h)
        BY <1>1, <1>2, <1>9, <2>1, <2>4 DEF Within, Pairs
      <3> QED BY <1>6, <2>4, <3>1
    <2> QED BY <2>2, <2>3, <2>4
  <1> QED BY <1>6, <1>9 DEF old

\* The bits of the part of the box that stays move within the pixmap.

LEMMA BitsShift ==
  ASSUME NEW s, NEW d, Moving(s, d), NEW x, NEW y, NEW w, NEW h, NEW dx, NEW dy,
         x = s.saved.at[1], y = s.saved.at[2], w = s.saved.size[1], h = s.saved.size[2],
         dx = d[1], dy = d[2],
         NEW t, t = CopyBits(s, SaveCopies(x, y, w, h, dx, dy)[3])
  PROVE  /\ IsSprite(t) /\ OnlyChanged("pSave", s, t) /\ Pixmap(t) = Pixmap(s)
         /\ \A p \in SpritePixels :
               Within(p, s.saved.at, s.saved.size) /\ Within(p, Plus2(s.saved.at, d), s.saved.size)
                  => t.pSave[Minus2(p, s.saved.at)] = content[p]
  <1> DEFINE src == <<Pos(-dx), Pos(-dy)>>
             size == <<w - Abs(dx), h - Abs(dy)>>
             at == <<Pos(dx), Pos(dy)>>
             old == Plus2(s.saved.at, d)
  <1>1. /\ x \in Int /\ y \in Int /\ w \in Nat /\ h \in Nat /\ dx \in Int /\ dy \in Int
        /\ -w <= dx /\ dx <= w /\ -h <= dy /\ dy <= h
        /\ s.saved.at \in Pairs /\ s.saved.size \in Pairs /\ d \in Pairs
        /\ old \in Pairs /\ old[1] = x + dx /\ old[2] = y + dy
    BY PatchNumbers
  <1>2. /\ Abs(dx) = (IF dx > 0 THEN dx ELSE -dx) /\ Abs(dy) = (IF dy > 0 THEN dy ELSE -dy)
        /\ Pos(dx) = (IF dx > 0 THEN dx ELSE 0) /\ Pos(dy) = (IF dy > 0 THEN dy ELSE 0)
        /\ Pos(-dx) = (IF dx > 0 THEN 0 ELSE -dx) /\ Pos(-dy) = (IF dy > 0 THEN 0 ELSE -dy)
    BY PatchNumbers
  <1>3. src \in Pairs /\ size \in Pairs /\ at \in Pairs
    BY <1>1, <1>2 DEF Pairs
  <1>4. SaveCopies(x, y, w, h, dx, dy)[3] =
           [from |-> "pSave", to |-> "pSave", src |-> src, size |-> size, at |-> at]
    BY DEF SaveCopies
  <1> HIDE DEF old
  <1>6. /\ IsSprite(t) /\ OnlyChanged("pSave", s, t) /\ Pixmap(t) = Pixmap(s)
        /\ \A p \in Pixmap(s) : Within(p, at, size) /\ Plus2(p, Minus2(src, at)) \in Pixmap(s)
               => t.pSave[p] = s.pSave[Plus2(p, Minus2(src, at))]
    <2> HIDE DEF src, size, at
    <2>1. IsSprite(s)
      BY DEF Moving
    <2>2. ShiftedBits(s, src, size, at, t)
      BY <1>3, <1>4, <2>1, Shifting
    <2> QED BY <2>2 DEF ShiftedBits
  <1>7. ASSUME NEW p \in SpritePixels, Within(p, s.saved.at, s.saved.size), Within(p, old, s.saved.size)
        PROVE  t.pSave[Minus2(p, s.saved.at)] = content[p]
    <2> DEFINE q == Minus2(p, s.saved.at)
    <2>1. p \in Pairs
      BY ScreenIsPairs
    <2>2. q \in Pairs /\ q[1] = p[1] - x /\ q[2] = p[2] - y /\ q \in Pixmap(s)
      BY <1>1, <1>7, <2>1, Differences, InPixmap DEF Moving, Room
    <2>3. Within(q, at, size)
      <3> HIDE DEF q
      <3> QED BY <1>1, <1>2, <1>7, <2>1, <2>2 DEF Within, Pairs
    <2>4. Plus2(q, Minus2(src, at)) = Minus2(p, old)
      <3>1. src[1] - at[1] = -dx /\ src[2] - at[2] = -dy
        BY <1>1, <1>2
      <3> HIDE DEF src, at, q
      <3>2. Plus2(q, Minus2(src, at)) = Minus2(q, d)
        BY <1>1, <1>3, <2>2, <3>1, SameSource
      <3>3. /\ Minus2(q, d) \in Pairs /\ Minus2(q, d)[1] = q[1] - dx /\ Minus2(q, d)[2] = q[2] - dy
            /\ Minus2(p, old) \in Pairs /\ Minus2(p, old)[1] = p[1] - old[1] /\ Minus2(p, old)[2] = p[2] - old[2]
        BY <1>1, <2>1, <2>2, Differences
      <3>4. Minus2(q, d) = Minus2(p, old)
        BY <1>1, <2>1, <2>2, <3>3, SamePair DEF Pairs
      <3> QED BY <3>2, <3>4
    <2>5. Minus2(p, old) \in Pixmap(s)
      BY <1>1, <1>7, <2>1, InPixmap DEF Moving, Room
    <2>6. t.pSave[q] = s.pSave[Minus2(p, old)]
      BY <1>6, <2>2, <2>3, <2>4, <2>5
    <2> QED BY <1>7, <2>6 DEF Moving, Saves, old
  <1> QED BY <1>6, <1>7 DEF old

\* What is fetched from where the pixmap belongs is what is drawn there.

LEMMA BoxFetched ==
  ASSUME NEW s, IsSprite(s), Room(s), NEW src \in Pairs, NEW size \in Pairs, NEW at \in Pairs,
         Minus2(src, at) = s.saved.at,
         NEW t, t = CopyBits(s, Fetch(src, size, at))
  PROVE  /\ IsSprite(t) /\ OnlyChanged("pSave", s, t) /\ Pixmap(t) = Pixmap(s)
         /\ \A p \in SpritePixels :
               LET q == Minus2(p, s.saved.at)
               IN  Within(p, s.saved.at, s.saved.size) =>
                     /\ Within(q, at, size) => t.pSave[q] = s.shown[p]
                     /\ ~Within(q, at, size) => t.pSave[q] = s.pSave[q]
  <1>1. s.saved.at \in Pairs /\ s.saved.size \in Pairs
    BY DEF IsSprite, Pairs
  <1>2. /\ IsSprite(t) /\ OnlyChanged("pSave", s, t) /\ Pixmap(t) = Pixmap(s)
        /\ \A p \in Pixmap(s) : ~Within(p, at, size) => t.pSave[p] = s.pSave[p]
        /\ \A p \in Pixmap(s) : Within(p, at, size) /\ Plus2(p, Minus2(src, at)) \in SpritePixels
               => t.pSave[p] = s.shown[Plus2(p, Minus2(src, at))]
    <2>1. FetchedBits(s, src, size, at, t)
      BY Fetching
    <2> QED BY <2>1 DEF FetchedBits
  <1>3. ASSUME NEW p \in SpritePixels, Within(p, s.saved.at, s.saved.size)
        PROVE  LET q == Minus2(p, s.saved.at)
               IN  /\ Within(q, at, size) => t.pSave[q] = s.shown[p]
                   /\ ~Within(q, at, size) => t.pSave[q] = s.pSave[q]
    <2> DEFINE q == Minus2(p, s.saved.at)
               e == Minus2(src, at)
    <2>1. p \in Pairs
      BY ScreenIsPairs
    <2>2. q \in Pairs /\ q[1] = p[1] - s.saved.at[1] /\ q[2] = p[2] - s.saved.at[2] /\ q \in Pixmap(s)
      BY <1>1, <1>3, <2>1, Differences, InPixmap DEF Room
    <2>3. e \in Pairs /\ e[1] = s.saved.at[1] /\ e[2] = s.saved.at[2]
      BY <1>1
    <2> HIDE DEF q, e
    <2>4. Plus2(q, e) \in Pairs /\ Plus2(q, e)[1] = q[1] + e[1] /\ Plus2(q, e)[2] = q[2] + e[2]
      BY <2>2, <2>3, Differences
    <2>5. Plus2(q, e) = p
      BY <1>1, <2>1, <2>2, <2>3, <2>4, SamePair DEF Pairs
    <2> QED BY <1>2, <2>2, <2>5 DEF q, e
  <1> QED BY <1>2, <1>3

LEMMA BoxSlides ==
  ASSUME NEW s, NEW d, Moving(s, d)
  PROVE  LET t == ChangeSave(s, d)
         IN  /\ IsSprite(t) /\ Room(t) /\ Saves(t, t.saved.at, content) /\ Clear(t, t.saved.at, content)
             /\ \A k \in SpriteFields \ {"pSave", "shown"} : t[k] = s[k]
  <1> DEFINE x == s.saved.at[1]
             y == s.saved.at[2]
             w == s.saved.size[1]
             h == s.saved.size[2]
             dx == d[1]
             dy == d[2]
             new == s.saved.at
             size == s.saved.size
             old == Plus2(s.saved.at, d)
             c == SaveCopies(x, y, w, h, dx, dy)
             s1 == CopyBits(s, c[1])
             s2 == CopyBits(s1, c[2])
             s3 == CopyBits(s2, c[3])
             s4 == CopyBits(s3, c[4])
             s5 == CopyBits(s4, c[5])
  <1>1. ChangeSave(s, d) = s5
    BY DEF ChangeSave
  <1>2. /\ x \in Int /\ y \in Int /\ w \in Nat /\ h \in Nat /\ dx \in Int /\ dy \in Int
        /\ -w <= dx /\ dx <= w /\ -h <= dy /\ dy <= h
        /\ new \in Pairs /\ size \in Pairs /\ d \in Pairs
        /\ old \in Pairs /\ old[1] = x + dx /\ old[2] = y + dy
    BY PatchNumbers
  <1>3. /\ Abs(dx) = (IF dx > 0 THEN dx ELSE -dx) /\ Abs(dy) = (IF dy > 0 THEN dy ELSE -dy)
        /\ Pos(dx) = (IF dx > 0 THEN dx ELSE 0) /\ Pos(dy) = (IF dy > 0 THEN dy ELSE 0)
        /\ Pos(-dx) = (IF dx > 0 THEN 0 ELSE -dx) /\ Pos(-dy) = (IF dy > 0 THEN 0 ELSE -dy)
    BY PatchNumbers
  <1>4. c[4] = Fetch(<<x, IF dy > 0 THEN y ELSE y + h + dy>>, <<w, Abs(dy)>>,
                     <<0, IF dy > 0 THEN 0 ELSE h + dy>>)
    BY DEF SaveCopies
  <1>5. c[5] = Fetch(<<IF dx > 0 THEN x ELSE x + w + dx, y + Pos(dy)>>, <<Abs(dx), h - Abs(dy)>>,
                     <<IF dx > 0 THEN 0 ELSE w + dx, Pos(dy)>>)
    BY DEF SaveCopies
  <1>6. /\ IsSprite(s1) /\ OnlyChanged("shown", s, s1) /\ Clear(s1, old, content)
        /\ \A p \in SpritePixels : ~(y <= p[2] /\ p[2] < y + h) => s1.shown[p] = content[p]
    BY RowsGoBack
  <1> HIDE DEF s1, c
  <1>7. s1.saved = s.saved /\ s1.pSave = s.pSave /\ Pixmap(s1) = Pixmap(s)
    BY <1>6 DEF OnlyChanged, SpriteFields, Pixmap
  <1>8. Moving(s1, d)
    BY <1>6, <1>7 DEF Moving, Room, Saves
  <1>9. /\ IsSprite(s2) /\ OnlyChanged("shown", s1, s2)
        /\ \A p \in SpritePixels : ~Within(p, new, size) \/ ~Within(p, old, size) => s2.shown[p] = content[p]
    BY <1>6, <1>7, <1>8, ColumnsGoBack DEF c
  <1> HIDE DEF s2
  <1>10. s2.saved = s.saved /\ s2.pSave = s.pSave /\ Pixmap(s2) = Pixmap(s)
    BY <1>7, <1>9 DEF OnlyChanged, SpriteFields, Pixmap
  <1>11. Moving(s2, d)
    BY <1>8, <1>9, <1>10 DEF Moving, Room, Saves, Clear
  <1>12. /\ IsSprite(s3) /\ OnlyChanged("pSave", s2, s3) /\ Pixmap(s3) = Pixmap(s2)
         /\ \A p \in SpritePixels : Within(p, new, size) /\ Within(p, old, size) => s3.pSave[Minus2(p, new)] = content[p]
    BY <1>10, <1>11, BitsShift DEF c
  <1> HIDE DEF s3
  <1>13. s3.saved = s.saved /\ s3.shown = s2.shown /\ Pixmap(s3) = Pixmap(s)
    BY <1>10, <1>12 DEF OnlyChanged, SpriteFields
  <1>14. Room(s)
    BY DEF Moving
  <1> DEFINE at4 == <<0, IF dy > 0 THEN 0 ELSE h + dy>>
             size4 == <<w, Abs(dy)>>
             at5 == <<IF dx > 0 THEN 0 ELSE w + dx, Pos(dy)>>
             size5 == <<Abs(dx), h - Abs(dy)>>
  <1>15. /\ IsSprite(s4) /\ OnlyChanged("pSave", s3, s4) /\ Pixmap(s4) = Pixmap(s3)
         /\ \A p \in SpritePixels :
               LET q == Minus2(p, new)
               IN  Within(p, new, size) =>
                     /\ Within(q, at4, size4) => s4.pSave[q] = s3.shown[p]
                     /\ ~Within(q, at4, size4) => s4.pSave[q] = s3.pSave[q]
    <2> DEFINE src == <<x, IF dy > 0 THEN y ELSE y + h + dy>>
    <2>1. src \in Pairs /\ at4 \in Pairs /\ size4 \in Pairs
      BY <1>2, <1>3 DEF Pairs
    <2>2. src[1] - at4[1] = x /\ src[2] - at4[2] = y
      BY <1>2
    <2>3. Room(s3)
      BY <1>13, <1>14 DEF Room
    <2>4. s4 = CopyBits(s3, Fetch(src, size4, at4))
      BY <1>4
    <2> HIDE DEF s4, src, at4, size4, new, size
    <2>5. Minus2(src, at4) = new
      <3>1. /\ Minus2(src, at4) \in Pairs
            /\ Minus2(src, at4)[1] = src[1] - at4[1] /\ Minus2(src, at4)[2] = src[2] - at4[2]
        BY <2>1, Differences
      <3> QED BY <1>2, <2>2, <3>1, SamePair DEF new
    <2>6. s3.saved.at = new /\ s3.saved.size = size
      BY <1>13 DEF new, size
    <2> QED BY <1>12, <2>1, <2>3, <2>4, <2>5, <2>6, BoxFetched
  <1> HIDE DEF s4
  <1>16. s4.saved = s.saved /\ s4.shown = s2.shown /\ Pixmap(s4) = Pixmap(s)
    BY <1>13, <1>15 DEF OnlyChanged, SpriteFields
  <1>17. /\ IsSprite(s5) /\ OnlyChanged("pSave", s4, s5) /\ Pixmap(s5) = Pixmap(s4)
         /\ \A p \in SpritePixels :
               LET q == Minus2(p, new)
               IN  Within(p, new, size) =>
                     /\ Within(q, at5, size5) => s5.pSave[q] = s4.shown[p]
                     /\ ~Within(q, at5, size5) => s5.pSave[q] = s4.pSave[q]
    <2> DEFINE src == <<IF dx > 0 THEN x ELSE x + w + dx, y + Pos(dy)>>
    <2>1. src \in Pairs /\ at5 \in Pairs /\ size5 \in Pairs
      BY <1>2, <1>3 DEF Pairs
    <2>2. src[1] - at5[1] = x /\ src[2] - at5[2] = y
      BY <1>2, <1>3
    <2>3. Room(s4)
      BY <1>14, <1>16 DEF Room
    <2>4. s5 = CopyBits(s4, Fetch(src, size5, at5))
      BY <1>5
    <2> HIDE DEF s5, src, at5, size5, new, size
    <2>5. Minus2(src, at5) = new
      <3>1. /\ Minus2(src, at5) \in Pairs
            /\ Minus2(src, at5)[1] = src[1] - at5[1] /\ Minus2(src, at5)[2] = src[2] - at5[2]
        BY <2>1, Differences
      <3> QED BY <1>2, <2>2, <3>1, SamePair DEF new
    <2>6. s4.saved.at = new /\ s4.saved.size = size
      BY <1>16 DEF new, size
    <2> QED BY <1>15, <2>1, <2>3, <2>4, <2>5, <2>6, BoxFetched
  <1> HIDE DEF s5
  <1>18. s5.saved = s.saved /\ s5.shown = s2.shown /\ Pixmap(s5) = Pixmap(s)
    BY <1>16, <1>17 DEF OnlyChanged, SpriteFields
  <1>19. ASSUME NEW p \in SpritePixels, Within(p, new, size) PROVE s5.pSave[Minus2(p, new)] = content[p]
    <2> DEFINE q == Minus2(p, new)
    <2>1. p \in Pairs
      BY ScreenIsPairs
    <2>2. q \in Pairs /\ q[1] = p[1] - x /\ q[2] = p[2] - y
      BY <1>2, <2>1, Differences
    <2> HIDE DEF q
    <2>3. Within(q, at4, size4) \/ Within(q, at5, size5) => ~Within(p, old, size)
      BY <1>2, <1>3, <1>19, <2>1, <2>2 DEF Within, Pairs
    <2>4. ~Within(p, old, size) => Within(q, at4, size4) \/ Within(q, at5, size5)
      BY <1>2, <1>3, <1>19, <2>1, <2>2 DEF Within, Pairs
    <2> HIDE DEF at4, at5, size4, size5
    <2>5. CASE Within(q, at5, size5)
      BY <1>9, <1>16, <1>17, <1>19, <2>3, <2>5 DEF q
    <2>6. CASE ~Within(q, at5, size5) /\ Within(q, at4, size4)
      BY <1>9, <1>13, <1>15, <1>17, <1>19, <2>3, <2>6 DEF q
    <2>7. CASE ~Within(q, at5, size5) /\ ~Within(q, at4, size4)
      BY <1>12, <1>15, <1>17, <1>19, <2>4, <2>7 DEF q
    <2> QED BY <2>5, <2>6, <2>7 DEF q
  <1>20. Room(s5) /\ Saves(s5, s5.saved.at, content) /\ Clear(s5, s5.saved.at, content)
    BY <1>9, <1>14, <1>18, <1>19 DEF Room, Saves, Clear
  <1>21. \A k \in SpriteFields \ {"pSave", "shown"} : s5[k] = s[k]
    BY <1>6, <1>9, <1>12, <1>15, <1>17 DEF OnlyChanged
  <1> QED BY <1>1, <1>17, <1>20, <1>21
-----------------------------------------------------------------------------
(* A steady sprite shows the image with the cursor on it, or without.       *)

CursorFits(s) ==
    \A i \in {1, 2} : /\ s.saved.at[i] <= CursorAt(s)[i]
                      /\ CursorAt(s)[i] + CursorBits[s.pCursor].size[i] <= s.saved.at[i] + s.saved.size[i]

Steady(s, image) ==
    /\ IsSprite(s)
    /\ s.isUp => /\ s.shouldBeUp
                 /\ Room(s) /\ Saves(s, s.saved.at, image) /\ CursorFits(s)
                 /\ s.shown = PutBits(image, s.pCursor, CursorAt(s), s.colors)
    /\ ~s.isUp => s.shown = image

\* Enough to take the cursor off, wherever it is to be by now.
Loose(s, image) ==
    /\ IsSprite(s)
    /\ s.isUp => Room(s) /\ Saves(s, s.saved.at, image) /\ Clear(s, s.saved.at, image)
    /\ ~s.isUp => s.shown = image

LEMMA Cursors ==
  ASSUME NEW s, IsSprite(s), s.shouldBeUp
  PROVE  /\ CursorAt(s) \in Pairs /\ CursorBits[s.pCursor].size \in Nat \X Nat
         /\ CursorAt(s)[1] = s.x - CursorBits[s.pCursor].hot[1]
         /\ CursorAt(s)[2] = s.y - CursorBits[s.pCursor].hot[2]
  <1>1. CursorBits[s.pCursor].hot \in Pairs /\ CursorBits[s.pCursor].size \in Nat \X Nat
    BY SpriteAssumption DEF IsSprite, Pairs
  <1>2. <<s.x, s.y>> \in Pairs
    BY DEF IsSprite, Pairs
  <1> QED BY <1>1, <1>2, Differences DEF CursorAt

\* A cursor is drawn within its box.

LEMMA DrawnWithin ==
  ASSUME NEW image, IsImage(image), NEW c \in SpriteCursors, NEW at \in Pairs, NEW colors
  PROVE  /\ IsImage(PutBits(image, c, at, colors))
         /\ \A p \in SpritePixels :
               ~Within(p, at, CursorBits[c].size) => PutBits(image, c, at, colors)[p] = image[p]
  <1>1. DOMAIN image = SpritePixels
    BY DEF IsImage
  <1>2. IsImage(PutBits(image, c, at, colors))
    BY <1>1 DEF IsImage, PutBits
  <1>3. ASSUME NEW p \in SpritePixels, ~Within(p, at, CursorBits[c].size)
        PROVE  PutBits(image, c, at, colors)[p] = image[p]
    <2> DEFINE q == Minus2(p, at)
               size == CursorBits[c].size
    <2>1. p \in Pairs /\ size \in Pairs
      BY ScreenIsPairs, SpriteAssumption DEF Pairs
    <2>2. q \in Pairs /\ q[1] = p[1] - at[1] /\ q[2] = p[2] - at[2]
      BY <2>1, Differences
    <2>3. ~Within(q, <<0, 0>>, size)
      <3> HIDE DEF q, size
      <3> QED BY <1>3, <2>1, <2>2 DEF Within, Pairs, size
    <2>4. q \notin BoxAt(<<0, 0>>, size)
      BY <2>1, <2>2, <2>3, InBox DEF Pairs
    <2>5. q \notin CursorBits[c].source /\ q \notin CursorBits[c].mask
      BY <2>4, SpriteAssumption
    <2> QED BY <1>1, <2>5 DEF PutBits
  <1> QED BY <1>2, <1>3

LEMMA SteadyIsLoose ==
  ASSUME NEW s, NEW image, IsImage(image), Steady(s, image) PROVE Loose(s, image)
  <1>1. ASSUME s.isUp PROVE Clear(s, s.saved.at, image)
    <2>1. /\ CursorAt(s) \in Pairs /\ CursorBits[s.pCursor].size \in Pairs /\ s.pCursor \in SpriteCursors
          /\ s.saved.at \in Pairs /\ s.saved.size \in Pairs
      <3>1. IsSprite(s) /\ s.shouldBeUp
        BY <1>1 DEF Steady
      <3>2. CursorAt(s) \in Pairs /\ CursorBits[s.pCursor].size \in Pairs
        BY <3>1, Cursors DEF Pairs
      <3> QED BY <3>1, <3>2 DEF IsSprite, Pairs
    <2>2. ASSUME NEW p \in SpritePixels, ~Within(p, s.saved.at, s.saved.size) PROVE s.shown[p] = image[p]
      <3>1. p \in Pairs
        BY ScreenIsPairs
      <3>2. ~Within(p, CursorAt(s), CursorBits[s.pCursor].size)
        <4>1. CursorFits(s)
          BY <1>1 DEF Steady
        <4> QED BY <2>1, <2>2, <3>1, <4>1 DEF CursorFits, Within, Pairs
      <3> QED BY <1>1, <2>1, <3>2, DrawnWithin DEF Steady
    <2> QED BY <2>2 DEF Clear
  <1> QED BY <1>1 DEF Steady, Loose

LEMMA Removing ==
  ASSUME NEW s, NEW image, IsImage(image), Loose(s, image), NEW condition,
         NEW t, t = RemoveIf(s, condition)
  PROVE  \/ s.isUp /\ condition /\ IsSprite(t) /\ ~t.isUp /\ t.shown = image
            /\ \A k \in SpriteFields \ {"shown", "isUp"} : t[k] = s[k]
         \/ ~(s.isUp /\ condition) /\ t = s
  <1>1. CASE ~(s.isUp /\ condition)
    BY <1>1 DEF RemoveIf
  <1>2. CASE s.isUp /\ condition
    <2> DEFINE r == RestoreUnderCursor(s)
    <2>1. IsSprite(r) /\ r.shown = image /\ OnlyChanged("shown", s, r)
      BY <1>2, Restores DEF Loose
    <2>2. t = [r EXCEPT !.isUp = FALSE]
      BY <1>2 DEF RemoveIf, RemoveCursor
    <2> HIDE DEF r
    <2>3. DOMAIN t = SpriteFields /\ t.isUp = FALSE /\ \A k \in SpriteFields \ {"isUp"} : t[k] = r[k]
      BY <2>1, <2>2 DEF IsSprite, SpriteFields
    <2>4. IsSprite(t)
      BY <2>1, <2>3 DEF IsSprite, SpriteFields
    <2>5. \A k \in SpriteFields \ {"shown", "isUp"} : t[k] = s[k]
      BY <2>1, <2>3 DEF OnlyChanged
    <2>6. t.shown = image
      BY <2>1, <2>3 DEF SpriteFields
    <2> QED BY <1>2, <2>3, <2>4, <2>5, <2>6
  <1> QED BY <1>1, <1>2
-----------------------------------------------------------------------------
(* Colours.                                                                *)

PixelFields == {"x", "y", "pCursor", "saved", "shouldBeUp", "pSave", "isUp", "shown"}

\* The sprite has other colours, and may have been taken off meanwhile.
Recoloured(s, u, image) ==
    /\ IsSprite(u)
    /\ \A k \in PixelFields \ {"isUp", "shown"} : u[k] = s[k]
    /\ \/ u.isUp = s.isUp /\ u.shown = s.shown
       \/ ~u.isUp /\ u.shown = image

LEMMA OtherFields ==
  ASSUME NEW s, IsSprite(s), NEW u, DOMAIN u = SpriteFields, \A k \in PixelFields : u[k] = s[k],
         NEW image
  PROVE  IsSprite(u) /\ Recoloured(s, u, image) /\ (Loose(s, image) => Loose(u, image))
  <1>1. /\ u.x = s.x /\ u.y = s.y /\ u.pCursor = s.pCursor /\ u.saved = s.saved
        /\ u.shouldBeUp = s.shouldBeUp /\ u.pSave = s.pSave /\ u.isUp = s.isUp /\ u.shown = s.shown
    BY DEF PixelFields
  <1>2. IsSprite(u)
    BY <1>1 DEF IsSprite
  <1>3. Loose(s, image) => Loose(u, image)
    BY <1>1, <1>2 DEF Loose, Room, Saves, Clear, Pixmap
  <1> QED BY <1>1, <1>2, <1>3 DEF Recoloured

LEMMA LooseStays ==
  ASSUME NEW s, NEW u, NEW image, Loose(s, image), Recoloured(s, u, image) PROVE Loose(u, image)
  <1>1. u.saved = s.saved /\ u.pSave = s.pSave
    BY DEF Recoloured, PixelFields
  <1> QED BY <1>1 DEF Recoloured, Loose, Room, Saves, Clear, Pixmap

LEMMA RecolouredTwice ==
  ASSUME NEW s, NEW t, NEW u, NEW image, Loose(s, image),
         Recoloured(s, t, image), Recoloured(t, u, image)
  PROVE  Recoloured(s, u, image)
  BY DEF Recoloured

LEMMA StoringColors ==
  ASSUME NEW s, NEW image, IsImage(image), Loose(s, image), NEW m, NEW defs,
         NEW t, t = SpriteStoreColors(s, m, defs)
  PROVE  /\ Recoloured(s, t, image)
         /\ t = s \/ (IsSprite(t) /\ ~t.isUp /\ t.shown = image)
  <1> DEFINE r == RemoveIf(s, TRUE)
             new == UpdatedColors(s, defs)
  <1>1. CASE t = s
    BY <1>1, OtherFields DEF Loose, IsSprite
  <1>2. CASE t = [r EXCEPT !.colors = new.colors, !.checkPixels = TRUE]
    <2>1. /\ IsSprite(r) /\ ~r.isUp /\ r.shown = image
          /\ \A k \in SpriteFields \ {"shown", "isUp"} : r[k] = s[k]
      <3> HIDE DEF r
      <3>1. r = RemoveIf(s, TRUE)
        BY DEF r
      <3>2. \/ s.isUp /\ TRUE /\ IsSprite(r) /\ ~r.isUp /\ r.shown = image
               /\ \A k \in SpriteFields \ {"shown", "isUp"} : r[k] = s[k]
            \/ ~(s.isUp /\ TRUE) /\ r = s
        BY <3>1, Removing
      <3> QED BY <3>2 DEF Loose
    <2> HIDE DEF r, new
    <2>2. DOMAIN t = SpriteFields /\ \A k \in SpriteFields \ {"colors", "checkPixels"} : t[k] = r[k]
      BY <1>2, <2>1 DEF IsSprite, SpriteFields
    <2>3. \A k \in PixelFields : t[k] = r[k]
      BY <2>2 DEF PixelFields, SpriteFields
    <2>4. IsSprite(t)
      BY <2>1, <2>2, <2>3, OtherFields
    <2>5. ~t.isUp /\ t.shown = image
      BY <2>1, <2>3 DEF PixelFields
    <2>6. \A k \in PixelFields \ {"isUp", "shown"} : t[k] = s[k]
      BY <2>1, <2>3 DEF PixelFields, SpriteFields
    <2> QED BY <2>4, <2>5, <2>6 DEF Recoloured
  <1> QED BY <1>1, <1>2 DEF SpriteStoreColors

LEMMA Allocating ==
  ASSUME NEW s, NEW image, IsImage(image), Loose(s, image), NEW plane, NEW u \in FakeAllocColor(s, plane)
  PROVE  Recoloured(s, u, image)
  <1> DEFINE m == s.pColormap
             cells == s.cmaps[m]
             rgb == cursorRgb[s.pCursor][plane]
             asked == [s EXCEPT !.colors[plane] = [pixel |-> 0, rgb |-> rgb]]
             Taken(t, p) == [t EXCEPT !.colors[plane].pixel = p, !.chosen[plane] = t.cmaps[m][p].rgb]
             With(p) == WithCell(asked, m, p, rgb, "temporary")
             After(p) == SpriteStoreColors(With(p), m, <<[pixel |-> p, rgb |-> rgb]>>)
  <1>1. PICK p : u = Taken(asked, p) \/ u = Taken(After(p), p)
    BY Zenon DEF FakeAllocColor
  <1>2. ASSUME NEW t, IsSprite(t) PROVE DOMAIN Taken(t, p) = SpriteFields /\ \A k \in PixelFields : Taken(t, p)[k] = t[k]
    BY <1>2 DEF IsSprite, PixelFields, SpriteFields
  <1>3. IsSprite(s)
    BY DEF Loose
  <1>4. DOMAIN asked = SpriteFields /\ \A k \in PixelFields : asked[k] = s[k]
    BY <1>3 DEF IsSprite, PixelFields, SpriteFields
  <1>5. IsSprite(asked) /\ Recoloured(s, asked, image) /\ Loose(asked, image)
    <2> HIDE DEF asked
    <2> QED BY <1>3, <1>4, OtherFields
  <1>6. CASE u = Taken(asked, p)
    <2> HIDE DEF asked
    <2>1. DOMAIN u = SpriteFields /\ \A k \in PixelFields : u[k] = asked[k]
      BY <1>2, <1>5, <1>6
    <2>2. Recoloured(asked, u, image)
      BY <1>5, <2>1, OtherFields
    <2> QED BY <1>5, <2>2, RecolouredTwice
  <1>7. CASE u = Taken(After(p), p)
    <2>1. DOMAIN With(p) = SpriteFields /\ \A k \in PixelFields : With(p)[k] = asked[k]
      <3> HIDE DEF asked
      <3> QED BY <1>5 DEF IsSprite, PixelFields, SpriteFields, WithCell
    <2> DEFINE v == With(p)
               w == After(p)
    <2>2. v = With(p) /\ w = SpriteStoreColors(v, m, <<[pixel |-> p, rgb |-> rgb]>>)
      OBVIOUS
    <2>3. u = Taken(w, p)
      BY <1>7
    <2>4. DOMAIN v = SpriteFields /\ \A k \in PixelFields : v[k] = asked[k]
      BY <2>1
    <2> HIDE DEF v, w, asked
    <2>5. Recoloured(asked, v, image) /\ Loose(v, image)
      BY <1>5, <2>4, OtherFields
    <2>6. Recoloured(v, w, image)
      BY <2>2, <2>5, StoringColors
    <2>7. Loose(w, image) /\ IsSprite(w)
      BY <2>5, <2>6, LooseStays DEF Loose
    <2>8. DOMAIN u = SpriteFields /\ \A k \in PixelFields : u[k] = w[k]
      BY <1>2, <2>3, <2>7
    <2>9. Recoloured(w, u, image)
      BY <2>7, <2>8, OtherFields
    <2>10. Recoloured(asked, w, image)
      BY <1>5, <2>5, <2>6, RecolouredTwice
    <2>11. Recoloured(asked, u, image)
      BY <1>5, <2>9, <2>10, RecolouredTwice
    <2> QED BY <1>5, <2>11, RecolouredTwice
  <1> QED BY <1>1, <1>6, <1>7

LEMMA FindingColors ==
  ASSUME NEW s, NEW image, IsImage(image), Loose(s, image), NEW u \in FindColors(s)
  PROVE  Recoloured(s, u, image)
  <1> DEFINE Checked(v) == [v EXCEPT !.checkPixels = FALSE]
             asked == [s EXCEPT !.pColormap = s.pInstalledMap]
  <1>1. IsSprite(s)
    BY DEF Loose
  <1>2. ASSUME NEW v, Recoloured(s, v, image) PROVE Recoloured(s, Checked(v), image)
    <2>1. IsSprite(v) /\ Loose(v, image)
      BY <1>2, LooseStays DEF Recoloured
    <2>2. DOMAIN Checked(v) = SpriteFields /\ \A k \in PixelFields : Checked(v)[k] = v[k]
      BY <2>1 DEF IsSprite, PixelFields, SpriteFields
    <2>3. Recoloured(v, Checked(v), image)
      <3> HIDE DEF Checked
      <3> QED BY <2>1, <2>2, OtherFields
    <2> HIDE DEF Checked
    <2> QED BY <1>2, <2>3, RecolouredTwice
  <1>3. Recoloured(s, s, image)
    BY <1>1, OtherFields DEF IsSprite
  <1>4. Recoloured(s, asked, image) /\ Loose(asked, image)
    <2>1. DOMAIN asked = SpriteFields /\ \A k \in PixelFields : asked[k] = s[k]
      BY <1>1 DEF IsSprite, PixelFields, SpriteFields
    <2> HIDE DEF asked
    <2> QED BY <1>1, <2>1, OtherFields
  <1>5. ASSUME NEW t \in FakeAllocColor(asked, "source"), NEW v \in FakeAllocColor(t, "mask")
        PROVE  Recoloured(s, FakeFreeColors(v), image)
    <2> HIDE DEF asked
    <2>1. Recoloured(asked, t, image) /\ Loose(t, image)
      BY <1>4, <1>5, Allocating, LooseStays
    <2>2. Recoloured(t, v, image)
      BY <1>5, <2>1, Allocating
    <2>3. IsSprite(v) /\ Loose(v, image)
      BY <2>1, <2>2, LooseStays DEF Recoloured
    <2> DEFINE w == FakeFreeColors(v)
    <2>4. DOMAIN w = SpriteFields /\ \A k \in PixelFields : w[k] = v[k]
      BY <2>3 DEF IsSprite, PixelFields, SpriteFields, FakeFreeColors
    <2> HIDE DEF w
    <2>5. Recoloured(v, w, image)
      BY <2>3, <2>4, OtherFields
    <2>6. Recoloured(s, t, image)
      BY <1>4, <2>1, RecolouredTwice
    <2>7. Recoloured(s, v, image)
      BY <2>2, <2>6, RecolouredTwice
    <2>8. Recoloured(s, w, image)
      BY <2>5, <2>7, RecolouredTwice
    <2> QED BY <2>8 DEF w
  <1>6. PICK v : u = Checked(v) /\ (v = s \/ \E t \in FakeAllocColor(asked, "source") :
                                       \E r \in FakeAllocColor(t, "mask") : v = FakeFreeColors(r))
    BY DEF FindColors
  <1>7. Recoloured(s, v, image)
    BY <1>3, <1>5, <1>6
  <1> HIDE DEF Checked
  <1> QED BY <1>2, <1>6, <1>7
-----------------------------------------------------------------------------
(* The cursor is put there.                                                *)

\* Its bits over an image, from where the pixmap of what is under it begins.

LEMMA DrawnInPixmap ==
  ASSUME NEW image, IsImage(image), NEW save, NEW c, NEW p \in SpritePixels, NEW at \in Pairs, NEW box \in Pairs,
         NEW colors, Minus2(p, box) \in DOMAIN save, save[Minus2(p, box)] = image[p]
  PROVE  PutBits(save, c, Minus2(at, box), colors)[Minus2(p, box)] = PutBits(image, c, at, colors)[p]
  <1>1. p \in Pairs
    BY ScreenIsPairs
  <1> DEFINE q == Minus2(p, box)
             e == Minus2(at, box)
  <1>2. /\ q \in Pairs /\ q[1] = p[1] - box[1] /\ q[2] = p[2] - box[2]
        /\ e \in Pairs /\ e[1] = at[1] - box[1] /\ e[2] = at[2] - box[2]
    BY <1>1, Differences
  <1> HIDE DEF q, e
  <1>3. /\ Minus2(q, e) \in Pairs /\ Minus2(q, e)[1] = q[1] - e[1] /\ Minus2(q, e)[2] = q[2] - e[2]
        /\ Minus2(p, at) \in Pairs /\ Minus2(p, at)[1] = p[1] - at[1] /\ Minus2(p, at)[2] = p[2] - at[2]
    BY <1>1, <1>2, Differences
  <1>4. Minus2(q, e) = Minus2(p, at)
    BY <1>1, <1>2, <1>3, SamePair DEF Pairs
  <1>5. q \in DOMAIN save /\ save[q] = image[p] /\ p \in DOMAIN image
    BY DEF q, IsImage
  <1>6. PutBits(save, c, e, colors)[q] = PutBits(image, c, at, colors)[p]
    BY <1>4, <1>5 DEF PutBits
  <1> QED BY <1>6 DEF q, e

LEMMA PuttingUp ==
  ASSUME NEW s, NEW image, IsImage(image), IsSprite(s), ~s.isUp, s.shouldBeUp, s.shown = image,
         Room(s), Saves(s, s.saved.at, image), CursorFits(s),
         NEW t, t = PutUpCursor(s)
  PROVE  Steady(t, image)
  <1>1. /\ DOMAIN t = SpriteFields /\ t.isUp = TRUE
        /\ t.shown = PutBits(image, s.pCursor, CursorAt(s), s.colors)
        /\ \A k \in SpriteFields \ {"shown", "isUp"} : t[k] = s[k]
    BY DEF PutUpCursor, IsSprite, SpriteFields
  <1>2. IsImage(t.shown)
    BY <1>1, Cursors, DrawnWithin DEF IsSprite
  <1>3. /\ t.x = s.x /\ t.y = s.y /\ t.pCursor = s.pCursor /\ t.saved = s.saved
        /\ t.shouldBeUp = s.shouldBeUp /\ t.pSave = s.pSave /\ t.colors = s.colors
    BY <1>1 DEF SpriteFields
  <1>4. IsSprite(t)
    BY <1>1, <1>2, <1>3 DEF IsSprite
  <1>5. Room(t) /\ Saves(t, t.saved.at, image) /\ CursorFits(t) /\ CursorAt(t) = CursorAt(s)
    BY <1>3 DEF Room, Saves, CursorFits, CursorAt, Pixmap
  <1> QED BY <1>1, <1>3, <1>4, <1>5 DEF Steady

\* The box that is saved contains the cursor.

LEMMA ComputingSaved ==
  ASSUME NEW s, IsSprite(s), s.shouldBeUp, NEW t, t = ComputeSaved(s)
  PROVE  /\ IsSprite(t) /\ OnlyChanged("saved", s, t) /\ CursorFits(t)
         /\ t.saved.at[1] = CursorAt(s)[1] - SPRITE_PAD /\ t.saved.at[2] = CursorAt(s)[2] - SPRITE_PAD
         /\ t.saved.size[1] = CursorBits[s.pCursor].size[1] + 2 * SPRITE_PAD
         /\ t.saved.size[2] = CursorBits[s.pCursor].size[2] + 2 * SPRITE_PAD
  <1> DEFINE at == CursorAt(s)
             size == CursorBits[s.pCursor].size
             box == [at |-> Minus2(at, Both(SPRITE_PAD)), size |-> Plus2(size, Both(2 * SPRITE_PAD))]
  <1>1. /\ at \in Pairs /\ size \in Nat \X Nat /\ SPRITE_PAD \in Nat
        /\ size \in Pairs /\ Both(SPRITE_PAD) \in Pairs /\ Both(2 * SPRITE_PAD) \in Pairs
        /\ Both(SPRITE_PAD)[1] = SPRITE_PAD /\ Both(SPRITE_PAD)[2] = SPRITE_PAD
        /\ Both(2 * SPRITE_PAD)[1] = 2 * SPRITE_PAD /\ Both(2 * SPRITE_PAD)[2] = 2 * SPRITE_PAD
    BY Cursors, SpriteAssumption DEF Pairs, Both
  <1>2. /\ box.at \in Pairs /\ box.at[1] = at[1] - SPRITE_PAD /\ box.at[2] = at[2] - SPRITE_PAD
        /\ box.size \in Pairs /\ box.size[1] = size[1] + 2 * SPRITE_PAD /\ box.size[2] = size[2] + 2 * SPRITE_PAD
    <2> HIDE DEF at, size
    <2> QED BY <1>1, Differences
  <1>3. box \in [at : Pairs, size : Nat \X Nat]
    <2>1. box.size \in Nat \X Nat
      BY <1>1, <1>2 DEF Pairs
    <2> QED BY <1>2, <2>1
  <1>4. DOMAIN t = SpriteFields /\ t.saved = box /\ OnlyChanged("saved", s, t)
    BY DEF ComputeSaved, IsSprite, SpriteFields, OnlyChanged
  <1> HIDE DEF box
  <1>5. /\ t.x = s.x /\ t.y = s.y /\ t.pCursor = s.pCursor /\ t.isUp = s.isUp
        /\ t.shouldBeUp = s.shouldBeUp /\ t.shown = s.shown
    BY <1>4 DEF SpriteFields, OnlyChanged
  <1>6. IsSprite(t)
    BY <1>3, <1>4, <1>5 DEF IsSprite
  <1>7. CursorAt(t) = at
    BY <1>5 DEF CursorAt
  <1>8. CursorFits(t)
    BY <1>1, <1>2, <1>4, <1>5, <1>7 DEF CursorFits, Pairs
  <1> QED BY <1>2, <1>4, <1>6, <1>8

LEMMA SavingUnder ==
  ASSUME NEW s, NEW image, IsImage(image), IsSprite(s), s.shown = image, NEW t, t = SaveUnderCursor(s)
  PROVE  IsSprite(t) /\ OnlyChanged("pSave", s, t) /\ Room(t) /\ Saves(t, t.saved.at, image)
  <1> DEFINE pixmap == BoxAt(<<0, 0>>, s.saved.size)
             room == IF pixmap \subseteq DOMAIN s.pSave THEN DOMAIN s.pSave ELSE pixmap
             r == [s EXCEPT !.pSave = [p \in room |-> Garbage]]
             at == <<0, 0>>
  <1>1. /\ DOMAIN r = SpriteFields /\ OnlyChanged("pSave", s, r) /\ Pixmap(r) = room
    BY DEF IsSprite, SpriteFields, OnlyChanged, Pixmap
  <1>2. t = CopyBits(r, Fetch(s.saved.at, s.saved.size, at))
    BY DEF SaveUnderCursor
  <1> HIDE DEF r
  <1>3. r.saved = s.saved /\ r.shown = s.shown /\ IsSprite(r)
    BY <1>1 DEF SpriteFields, OnlyChanged, IsSprite
  <1>4. pixmap \subseteq room
    OBVIOUS
  <1>5. Room(r)
    BY <1>1, <1>3, <1>4 DEF Room
  <1>6. s.saved.at \in Pairs /\ s.saved.size \in Pairs /\ at \in Pairs
    BY DEF IsSprite, Pairs
  <1>7. Minus2(s.saved.at, at) = r.saved.at
    BY <1>3, <1>6 DEF Minus2, Pairs
  <1> HIDE DEF at
  <1>8. /\ IsSprite(t) /\ OnlyChanged("pSave", r, t) /\ Pixmap(t) = Pixmap(r)
        /\ \A p \in SpritePixels :
              LET q == Minus2(p, r.saved.at)
              IN  Within(p, r.saved.at, r.saved.size) =>
                    /\ Within(q, at, s.saved.size) => t.pSave[q] = r.shown[p]
                    /\ ~Within(q, at, s.saved.size) => t.pSave[q] = r.pSave[q]
    BY <1>2, <1>3, <1>5, <1>6, <1>7, BoxFetched
  <1>9. t.saved = s.saved /\ Room(t) /\ OnlyChanged("pSave", s, t)
    BY <1>1, <1>3, <1>5, <1>8 DEF OnlyChanged, SpriteFields, Room
  <1>10. ASSUME NEW p \in SpritePixels, Within(p, s.saved.at, s.saved.size)
         PROVE  t.pSave[Minus2(p, s.saved.at)] = image[p]
    <2>1. p \in Pairs
      BY ScreenIsPairs
    <2>2. Minus2(p, s.saved.at) \in Pairs /\ Minus2(p, s.saved.at) \in BoxAt(at, s.saved.size)
      BY <1>6, <1>10, <2>1, InPixmap DEF at
    <2>3. Within(Minus2(p, s.saved.at), at, s.saved.size)
      BY <1>6, <2>2, InBox
    <2> QED BY <1>3, <1>8, <1>10, <2>3
  <1> QED BY <1>8, <1>9, <1>10 DEF Saves

LEMMA RestoringCursor ==
  ASSUME NEW s, NEW image, IsImage(image), IsSprite(s), ~s.isUp, s.shouldBeUp, s.shown = image,
         NEW t \in RestoreCursor(s)
  PROVE  Steady(t, image)
  <1> DEFINE r == ComputeSaved(s)
             v == SaveUnderCursor(r)
  <1>1. PICK u : t = PutUpCursor(u) /\ (u = v \/ u \in FindColors(v))
    BY DEF RestoreCursor
  <1>2. IsSprite(r) /\ OnlyChanged("saved", s, r) /\ CursorFits(r)
    BY ComputingSaved
  <1> HIDE DEF r
  <1>3. r.shown = image /\ ~r.isUp /\ r.shouldBeUp
    BY <1>2 DEF OnlyChanged, SpriteFields
  <1>4. IsSprite(v) /\ OnlyChanged("pSave", r, v) /\ Room(v) /\ Saves(v, v.saved.at, image)
    BY <1>2, <1>3, SavingUnder
  <1> HIDE DEF v
  <1>5. v.saved = r.saved /\ v.pCursor = r.pCursor /\ CursorAt(v) = CursorAt(r) /\ v.shown = image /\ ~v.isUp /\ v.shouldBeUp
    BY <1>3, <1>4 DEF OnlyChanged, SpriteFields, CursorAt
  <1>6. CursorFits(v) /\ Loose(v, image)
    BY <1>2, <1>4, <1>5 DEF CursorFits, Loose
  <1>7. Recoloured(v, u, image)
    BY <1>1, <1>4, <1>6, FindingColors, OtherFields DEF IsSprite
  <1>8. /\ u.saved = v.saved /\ u.pSave = v.pSave /\ u.pCursor = v.pCursor /\ u.x = v.x /\ u.y = v.y
        /\ u.shouldBeUp = v.shouldBeUp /\ u.shown = image /\ ~u.isUp /\ IsSprite(u)
    BY <1>5, <1>7 DEF Recoloured, PixelFields
  <1>9. Room(u) /\ Saves(u, u.saved.at, image) /\ CursorFits(u)
    BY <1>4, <1>6, <1>8 DEF Room, Saves, CursorFits, CursorAt, Pixmap
  <1> QED BY <1>1, <1>5, <1>8, <1>9, PuttingUp

LEMMA MovingInBox ==
  ASSUME NEW s, NEW image, IsImage(image), Loose(s, image), s.isUp, s.shouldBeUp, CursorFits(s),
         NEW t, t = DCMoveCursor(s)
  PROVE  Steady(t, image)
  <1> DEFINE at == CursorAt(s)
             drawn == PutBits(image, s.pCursor, at, s.colors)
             save == PutBits(s.pSave, s.pCursor, Minus2(at, s.saved.at), s.colors)
             v == [s EXCEPT !.pSave = save]
             r == RestoreUnderCursor(v)
  <1>1. /\ IsSprite(s) /\ Room(s) /\ Saves(s, s.saved.at, image) /\ Clear(s, s.saved.at, image)
    BY DEF Loose
  <1>2. /\ at \in Pairs /\ s.saved.at \in Pairs /\ s.saved.size \in Pairs /\ s.pCursor \in SpriteCursors
        /\ CursorBits[s.pCursor].size \in Pairs
    <2>1. at \in Pairs /\ CursorBits[s.pCursor].size \in Pairs
      BY <1>1, Cursors DEF Pairs
    <2> QED BY <1>1, <2>1 DEF IsSprite, Pairs
  <1>3. DOMAIN v = SpriteFields /\ v.pSave = save /\ OnlyChanged("pSave", s, v)
    BY <1>1 DEF IsSprite, SpriteFields, OnlyChanged
  <1>4. DOMAIN save = DOMAIN s.pSave
    BY DEF PutBits
  <1>5. IsImage(drawn) /\ \A p \in SpritePixels : ~Within(p, at, CursorBits[s.pCursor].size) => drawn[p] = image[p]
    BY <1>2, DrawnWithin
  <1>6. t = [r EXCEPT !.pSave = s.pSave]
    BY DEF DCMoveCursor
  <1> HIDE DEF v, r, save
  <1>7. v.saved = s.saved /\ v.shown = s.shown /\ IsSprite(v)
    BY <1>1, <1>3 DEF SpriteFields, OnlyChanged, IsSprite
  <1>8. Room(v)
    BY <1>1, <1>3, <1>4, <1>7 DEF Room, Pixmap
  <1>9. ASSUME NEW p \in SpritePixels, Within(p, s.saved.at, s.saved.size)
        PROVE  save[Minus2(p, s.saved.at)] = drawn[p]
    <2>1. p \in Pairs
      BY ScreenIsPairs
    <2>2. Minus2(p, s.saved.at) \in DOMAIN s.pSave
      BY <1>1, <1>2, <1>9, <2>1, InPixmap DEF Room, Pixmap
    <2>3. s.pSave[Minus2(p, s.saved.at)] = image[p]
      BY <1>1, <1>9 DEF Saves
    <2> QED BY <1>2, <2>2, <2>3, DrawnInPixmap DEF save
  <1>10. ASSUME NEW p \in SpritePixels, ~Within(p, s.saved.at, s.saved.size) PROVE s.shown[p] = drawn[p]
    <2>1. p \in Pairs
      BY ScreenIsPairs
    <2>2. ~Within(p, at, CursorBits[s.pCursor].size)
      <3> HIDE DEF at, drawn
      <3> QED BY <1>2, <1>10, <2>1 DEF CursorFits, Within, Pairs, at
    <2> QED BY <1>1, <1>5, <1>10, <2>2 DEF Clear
  <1> HIDE DEF drawn
  <1>11. Saves(v, v.saved.at, drawn) /\ Clear(v, v.saved.at, drawn)
    BY <1>3, <1>7, <1>9, <1>10 DEF Saves, Clear
  <1>12. IsSprite(r) /\ r.shown = drawn /\ OnlyChanged("shown", v, r)
    BY <1>5, <1>7, <1>8, <1>11, Restores DEF r
  <1>13. DOMAIN t = SpriteFields /\ t.pSave = s.pSave /\ t.shown = drawn /\ \A k \in SpriteFields \ {"pSave", "shown"} : t[k] = s[k]
    BY <1>3, <1>6, <1>12 DEF IsSprite, OnlyChanged, SpriteFields
  <1>14. /\ t.x = s.x /\ t.y = s.y /\ t.pCursor = s.pCursor /\ t.saved = s.saved /\ t.isUp = s.isUp
         /\ t.shouldBeUp = s.shouldBeUp /\ t.colors = s.colors
    BY <1>13 DEF SpriteFields
  <1>15. IsSprite(t)
    BY <1>1, <1>5, <1>13, <1>14 DEF IsSprite
  <1>16. Room(t) /\ Saves(t, t.saved.at, image) /\ CursorFits(t) /\ CursorAt(t) = CursorAt(s)
    BY <1>1, <1>13, <1>14 DEF Room, Saves, CursorFits, CursorAt, Pixmap
  <1> QED BY <1>13, <1>14, <1>15, <1>16 DEF Steady, drawn

-----------------------------------------------------------------------------
(* The cursor moves.                                                       *)

LEMMA Sliding ==
  ASSUME NEW s, IsImage(content), Loose(s, content), s.isUp, s.shouldBeUp, CanSlide(s), NEW t, t = Slide(s)
  PROVE  Steady(t, content)
  <1> DEFINE next == ComputeSaved(s)
             d == Minus2(s.saved.at, next.saved.at)
             at == CursorAt(s)
             size == CursorBits[s.pCursor].size
  <1>1. /\ IsSprite(s) /\ Room(s) /\ Saves(s, s.saved.at, content) /\ Clear(s, s.saved.at, content)
    BY DEF Loose
  <1>2. at \in Pairs /\ size \in Nat \X Nat /\ s.saved.at \in Pairs /\ s.saved.size \in Nat \X Nat /\ SPRITE_PAD \in Nat
    BY <1>1, Cursors, SpriteAssumption DEF IsSprite
  <1>3. CASE WithinSaved(s)
    <2>1. CursorFits(s)
      <3> HIDE DEF at, size
      <3> QED BY <1>2, <1>3 DEF WithinSaved, CursorFits, Pairs, at, size
    <2>2. t = DCMoveCursor(s)
      BY <1>3 DEF Slide
    <2> QED BY <2>1, <2>2, MovingInBox
  <1>4. CASE ~WithinSaved(s)
    <2> DEFINE v == ChangeSave(next, d)
    <2>1. t = DCMoveCursor(v)
      BY <1>4 DEF Slide
    <2>2. next = ComputeSaved(s) /\ next.saved.size = Plus2(size, Both(2 * SPRITE_PAD))
      BY <1>1 DEF ComputeSaved, IsSprite, SpriteFields
    <2> HIDE DEF next
    <2>3. /\ IsSprite(next) /\ OnlyChanged("saved", s, next) /\ CursorFits(next)
          /\ next.saved.at[1] = at[1] - SPRITE_PAD /\ next.saved.at[2] = at[2] - SPRITE_PAD
          /\ next.saved.size[1] = size[1] + 2 * SPRITE_PAD
          /\ next.saved.size[2] = size[2] + 2 * SPRITE_PAD
      BY <1>1, <2>2, ComputingSaved
    <2>4. next.saved.size = s.saved.size
      BY <2>2 DEF CanSlide
    <2>5. next.pSave = s.pSave /\ next.shown = s.shown /\ next.isUp = s.isUp /\ next.shouldBeUp = s.shouldBeUp
          /\ Pixmap(next) = Pixmap(s)
      BY <2>3 DEF OnlyChanged, SpriteFields, Pixmap
    <2>6. next.saved.at \in Pairs
      BY <2>3 DEF IsSprite
    <2>7. d \in Pairs /\ d[1] = s.saved.at[1] - next.saved.at[1] /\ d[2] = s.saved.at[2] - next.saved.at[2]
      BY <1>2, <2>6, Differences
    <2> HIDE DEF d
    <2>8. Plus2(next.saved.at, d) = s.saved.at
      <3>1. /\ Plus2(next.saved.at, d) \in Pairs /\ Plus2(next.saved.at, d)[1] = next.saved.at[1] + d[1]
            /\ Plus2(next.saved.at, d)[2] = next.saved.at[2] + d[2]
        BY <2>6, <2>7, Differences
      <3> QED BY <1>2, <2>6, <2>7, <3>1, SamePair DEF Pairs
    <2>9. \A i \in {1, 2} : -next.saved.size[i] <= d[i] /\ d[i] <= next.saved.size[i]
      <3>1. \A i \in {1, 2} : at[i] + size[i] >= s.saved.at[i] /\ at[i] < s.saved.at[i] + s.saved.size[i]
        BY DEF CanSlide
      <3> HIDE DEF at, size
      <3> QED BY <1>2, <2>3, <2>4, <2>7, <3>1 DEF Pairs
    <2>10. Moving(next, d)
      BY <1>1, <2>3, <2>4, <2>5, <2>7, <2>8, <2>9 DEF Moving, Room, Saves, Clear
    <2>11. /\ IsSprite(v) /\ Room(v) /\ Saves(v, v.saved.at, content) /\ Clear(v, v.saved.at, content)
           /\ \A k \in SpriteFields \ {"pSave", "shown"} : v[k] = next[k]
      BY <2>10, BoxSlides
    <2> HIDE DEF v
    <2>12. /\ v.isUp = next.isUp /\ v.shouldBeUp = next.shouldBeUp /\ v.saved = next.saved
           /\ v.x = next.x /\ v.y = next.y /\ v.pCursor = next.pCursor
      BY <2>11 DEF SpriteFields
    <2>13. CursorFits(v) /\ Loose(v, content)
      BY <2>3, <2>5, <2>11, <2>12 DEF CursorFits, CursorAt, Loose
    <2> QED BY <2>1, <2>5, <2>12, <2>13, MovingInBox
  <1> QED BY <1>3, <1>4

LEMMA SettingCursor ==
  ASSUME NEW s, IsImage(content), Steady(s, content), NEW cursor \in SpriteCursors \cup {NoCursor},
         NEW x \in Int, NEW y \in Int, NEW t \in SetCursor(s, cursor, x, y)
  PROVE  Steady(t, content)
  <1> DEFINE placed == [s EXCEPT !.shouldBeUp = TRUE, !.x = x, !.y = y, !.pCursor = cursor]
             raised == [s EXCEPT !.shouldBeUp = TRUE]
             gone == RemoveIf(s, TRUE)
             Same == cursor # NoCursor /\ placed = raised /\ ~s.checkPixels
  <1>1. IsSprite(s) /\ Loose(s, content)
    BY SteadyIsLoose DEF Steady
  <1>2. CASE cursor = NoCursor
    <2>1. t = [gone EXCEPT !.shouldBeUp = FALSE, !.pCursor = NoCursor]
      BY <1>2 DEF SetCursor
    <2>2. IsSprite(gone) /\ ~gone.isUp /\ gone.shown = content
      <3>1. gone = RemoveIf(s, TRUE)
        OBVIOUS
      <3> HIDE DEF gone
      <3>2. \/ s.isUp /\ TRUE /\ IsSprite(gone) /\ ~gone.isUp /\ gone.shown = content
               /\ \A k \in SpriteFields \ {"shown", "isUp"} : gone[k] = s[k]
            \/ ~(s.isUp /\ TRUE) /\ gone = s
        BY <1>1, <3>1, Removing
      <3> QED BY <1>1, <3>2 DEF Loose
    <2> HIDE DEF gone
    <2>3. /\ DOMAIN t = SpriteFields /\ t.shouldBeUp = FALSE /\ t.pCursor = NoCursor /\ t.x = gone.x /\ t.y = gone.y
          /\ t.saved = gone.saved /\ t.isUp = gone.isUp /\ t.shown = gone.shown
      BY <2>1, <2>2 DEF IsSprite, SpriteFields
    <2> QED BY <2>2, <2>3 DEF Steady, IsSprite
  <1>3. CASE Same
    <2>1. t = placed
      BY <1>3 DEF SetCursor
    <2>2. /\ DOMAIN placed = SpriteFields /\ placed.shouldBeUp = TRUE /\ placed.pCursor = cursor
          /\ \A k \in SpriteFields \ {"shouldBeUp", "x", "y", "pCursor"} : placed[k] = s[k]
      BY <1>1 DEF IsSprite, SpriteFields
    <2>3. \A k \in SpriteFields \ {"shouldBeUp"} : placed[k] = s[k]
      BY <1>1, <1>3 DEF IsSprite, SpriteFields
    <2> HIDE DEF placed
    <2>4. /\ placed.x = s.x /\ placed.y = s.y /\ placed.pCursor = s.pCursor /\ placed.saved = s.saved
          /\ placed.pSave = s.pSave /\ placed.isUp = s.isUp /\ placed.shown = s.shown /\ placed.colors = s.colors
          /\ placed.pCursor \in SpriteCursors
      BY <1>3, <2>2, <2>3 DEF SpriteFields
    <2>5. IsSprite(placed)
      BY <1>1, <2>2, <2>4 DEF IsSprite
    <2>6. /\ Room(s) => Room(placed)
          /\ Saves(s, s.saved.at, content) => Saves(placed, placed.saved.at, content)
          /\ CursorFits(s) => CursorFits(placed)
          /\ CursorAt(placed) = CursorAt(s)
      BY <2>4 DEF Room, Saves, CursorFits, CursorAt, Pixmap
    <2> QED BY <2>1, <2>2, <2>4, <2>5, <2>6 DEF Steady
  <1>4. CASE cursor # NoCursor /\ ~Same
    <2>1. PICK u \in FindColors(placed) \cup {placed} :
             t \in IF u.isUp /\ CanSlide(u) THEN {Slide(u)} ELSE RestoreCursor(RemoveIf(u, TRUE))
      <3> HIDE DEF placed
      <3>1. PICK u \in IF s.checkPixels \/ s.pCursor # cursor THEN FindColors(placed) ELSE {placed} :
               t \in IF u.isUp /\ CanSlide(u) THEN {Slide(u)} ELSE RestoreCursor(RemoveIf(u, TRUE))
        BY <1>4 DEF SetCursor, placed
      <3> QED BY <3>1
    <2>2. /\ DOMAIN placed = SpriteFields /\ placed.shouldBeUp = TRUE /\ placed.pCursor = cursor
          /\ placed.x = x /\ placed.y = y
          /\ \A k \in SpriteFields \ {"shouldBeUp", "x", "y", "pCursor"} : placed[k] = s[k]
      BY <1>1 DEF IsSprite, SpriteFields
    <2> HIDE DEF placed
    <2>3. /\ placed.saved = s.saved /\ placed.pSave = s.pSave /\ placed.isUp = s.isUp /\ placed.shown = s.shown
      BY <2>2 DEF SpriteFields
    <2>4. IsSprite(placed)
      BY <1>1, <1>4, <2>2, <2>3 DEF IsSprite
    <2>5. Loose(placed, content)
      BY <1>1, <2>3, <2>4 DEF Loose, Room, Saves, Clear, Pixmap
    <2>6. Recoloured(placed, u, content)
      BY <2>1, <2>4, <2>5, FindingColors, OtherFields DEF IsSprite
    <2>7. Loose(u, content) /\ IsSprite(u) /\ u.shouldBeUp
      BY <2>2, <2>5, <2>6, LooseStays DEF Loose, Recoloured, PixelFields
    <2>8. CASE u.isUp /\ CanSlide(u)
      BY <2>1, <2>7, <2>8, Sliding
    <2>9. CASE ~(u.isUp /\ CanSlide(u))
      <3> DEFINE v == RemoveIf(u, TRUE)
      <3>1. v = RemoveIf(u, TRUE)
        OBVIOUS
      <3>2. t \in RestoreCursor(v)
        BY <2>1, <2>9
      <3> HIDE DEF v
      <3>3. \/ u.isUp /\ TRUE /\ IsSprite(v) /\ ~v.isUp /\ v.shown = content
               /\ \A k \in SpriteFields \ {"shown", "isUp"} : v[k] = u[k]
            \/ ~(u.isUp /\ TRUE) /\ v = u
        BY <2>7, <3>1, Removing
      <3>4. IsSprite(v) /\ ~v.isUp /\ v.shown = content /\ v.shouldBeUp
        BY <2>7, <3>3 DEF Loose, SpriteFields
      <3> QED BY <3>2, <3>4, RestoringCursor
    <2> QED BY <2>8, <2>9
  <1> QED BY <1>2, <1>3, <1>4

-----------------------------------------------------------------------------
(* The steps.                                                              *)

\* The inductive invariant.
SpriteInv == IsImage(content) /\ Steady(sprite, content) /\ misread = FALSE

\* What a steady sprite looks like depends on these only.

LEMMA SteadyStays ==
  ASSUME NEW s, NEW image, Steady(s, image), NEW t, DOMAIN t = SpriteFields,
         \A k \in PixelFields \cup {"colors"} : t[k] = s[k]
  PROVE  Steady(t, image)
  <1>1. /\ t.x = s.x /\ t.y = s.y /\ t.pCursor = s.pCursor /\ t.saved = s.saved /\ t.shouldBeUp = s.shouldBeUp
        /\ t.pSave = s.pSave /\ t.isUp = s.isUp /\ t.shown = s.shown /\ t.colors = s.colors
    BY DEF PixelFields
  <1>2. IsSprite(t)
    BY <1>1 DEF Steady, IsSprite
  <1>3. /\ Room(s) => Room(t)
        /\ Saves(s, s.saved.at, image) => Saves(t, t.saved.at, image)
        /\ CursorFits(s) => CursorFits(t)
        /\ CursorAt(t) = CursorAt(s)
    BY <1>1 DEF Room, Saves, CursorFits, CursorAt, Pixmap
  <1> QED BY <1>1, <1>2, <1>3 DEF Steady

\* Outside the saved box what is read is what was drawn.

LEMMA Uncovered ==
  ASSUME NEW s, IsImage(content), Steady(s, content), NEW condition, NEW t, t = RemoveIf(s, condition)
  PROVE  /\ Steady(t, content)
         /\ t.isUp => t = s /\ ~condition
         /\ \A p \in SpritePixels : condition \/ ~Within(p, s.saved.at, s.saved.size) => t.shown[p] = content[p]
  <1>1. Loose(s, content) /\ IsSprite(s)
    BY SteadyIsLoose DEF Steady
  <1>2. \/ s.isUp /\ condition /\ IsSprite(t) /\ ~t.isUp /\ t.shown = content
           /\ \A k \in SpriteFields \ {"shown", "isUp"} : t[k] = s[k]
        \/ ~(s.isUp /\ condition) /\ t = s
    BY <1>1, Removing
  <1>3. Steady(t, content)
    BY <1>2 DEF Steady
  <1> QED BY <1>1, <1>2, <1>3 DEF Loose, Clear, IsSprite

LEMMA Repainting ==
  ASSUME NEW s, IsImage(content), Steady(s, content), NEW f, NEW g, IsImage(f), IsImage(g),
         ~s.isUp => f = g,
         s.isUp => \A p \in SpritePixels :
            /\ Within(p, s.saved.at, s.saved.size) => f[p] = s.shown[p] /\ g[p] = content[p]
            /\ ~Within(p, s.saved.at, s.saved.size) => f[p] = g[p],
         NEW t, t = [s EXCEPT !.shown = f]
  PROVE  Steady(t, g)
  <1>1. IsSprite(s)
    BY DEF Steady
  <1>2. DOMAIN t = SpriteFields /\ t.shown = f /\ OnlyChanged("shown", s, t)
    BY <1>1 DEF IsSprite, SpriteFields, OnlyChanged
  <1>3. /\ t.x = s.x /\ t.y = s.y /\ t.pCursor = s.pCursor /\ t.saved = s.saved /\ t.shouldBeUp = s.shouldBeUp
        /\ t.pSave = s.pSave /\ t.isUp = s.isUp /\ t.colors = s.colors /\ CursorAt(t) = CursorAt(s)
    BY <1>2 DEF SpriteFields, OnlyChanged, CursorAt
  <1>4. IsSprite(t)
    BY <1>1, <1>2, <1>3 DEF IsSprite
  <1>5. CASE ~s.isUp
    BY <1>2, <1>3, <1>4, <1>5 DEF Steady
  <1>6. CASE s.isUp
    <2> DEFINE at == CursorAt(s)
               size == CursorBits[s.pCursor].size
    <2>1. /\ Room(t) /\ CursorFits(t) /\ CursorFits(s) /\ s.shouldBeUp
          /\ s.shown = PutBits(content, s.pCursor, at, s.colors)
      BY <1>3, <1>6 DEF Steady, Room, CursorFits, Pixmap
    <2>2. Saves(t, t.saved.at, g)
      BY <1>3, <1>6 DEF Steady, Saves
    <2>3. at \in Pairs /\ size \in Pairs /\ s.pCursor \in SpriteCursors /\ s.saved.at \in Pairs /\ s.saved.size \in Pairs
      <3>1. at \in Pairs /\ size \in Pairs
        BY <1>1, <2>1, Cursors DEF Pairs
      <3> QED BY <1>1, <2>1, <3>1 DEF IsSprite, Pairs
    <2>4. IsImage(PutBits(g, s.pCursor, at, s.colors))
      BY <2>3, DrawnWithin
    <2>5. ASSUME NEW p \in SpritePixels PROVE f[p] = PutBits(g, s.pCursor, at, s.colors)[p]
      <3>1. p \in Pairs
        BY ScreenIsPairs
      <3>2. CASE Within(p, s.saved.at, s.saved.size)
        <4>1. f[p] = PutBits(content, s.pCursor, at, s.colors)[p] /\ g[p] = content[p]
          BY <1>6, <2>1, <3>2
        <4> QED BY <4>1 DEF PutBits, IsImage
      <3>3. CASE ~Within(p, s.saved.at, s.saved.size)
        <4>1. ~Within(p, at, size)
          <5> HIDE DEF at, size
          <5> QED BY <2>1, <2>3, <3>1, <3>3 DEF CursorFits, Within, Pairs, at, size
        <4> QED BY <1>6, <2>3, <3>3, <4>1, DrawnWithin
      <3> QED BY <3>2, <3>3
    <2>6. f = PutBits(g, s.pCursor, at, s.colors)
      BY <2>4, <2>5 DEF IsImage
    <2> QED BY <1>2, <1>3, <1>4, <1>6, <2>1, <2>2, <2>6 DEF Steady
  <1> QED BY <1>5, <1>6

LEMMA CursorStepsKeep == SpriteInv /\ CursorSteps => SpriteInv'
  <1> SUFFICES ASSUME SpriteInv, CursorSteps PROVE SpriteInv'
    OBVIOUS
  <1>1. IsImage(content) /\ Steady(sprite, content) /\ IsSprite(sprite) /\ misread = FALSE
    BY DEF SpriteInv, Steady
  <1>2. ASSUME NEW c \in SpriteCursors \cup {NoCursor}, NEW p \in SpritePixels, DisplayCursor(c, p[1], p[2])
        PROVE  SpriteInv'
    <2>1. p[1] \in Int /\ p[2] \in Int
      BY ScreenIsPairs DEF Pairs
    <2>2. Steady(sprite', content)
      BY <1>1, <1>2, <2>1, SettingCursor DEF DisplayCursor
    <2> QED BY <1>1, <1>2, <2>2 DEF DisplayCursor, SpriteInv
  <1>3. ASSUME NEW p \in SpritePixels, MoveCursor(p[1], p[2]) PROVE SpriteInv'
    BY <1>1, <1>2, <1>3 DEF MoveCursor, IsSprite
  <1>4. ASSUME NEW p \in SomePoints, NEW c \in SpriteCursors \cup {NoCursor}, DisplayCursor(c, p[1], p[2])
        PROVE  SpriteInv'
    BY <1>2, <1>4, SpriteAssumption
  <1>5. ASSUME BlockHandler PROVE SpriteInv'
    <2>1. sprite.shown = content
      BY <1>1, <1>5 DEF BlockHandler, Steady
    <2>2. Steady(sprite', content)
      BY <1>1, <1>5, <2>1, RestoringCursor DEF BlockHandler
    <2> QED BY <1>1, <1>5, <2>2 DEF BlockHandler, SpriteInv
  <1>6. ASSUME NEW c \in SpriteCursors, NEW r \in Rgbs, RecolorCursor(c, r, cursorRgb[c]["mask"]) PROVE SpriteInv'
    <2>1. DOMAIN sprite' = SpriteFields /\ \A k \in PixelFields \cup {"colors"} : sprite'[k] = sprite[k]
      BY <1>1, <1>6 DEF RecolorCursor, IsSprite, PixelFields, SpriteFields
    <2>2. Steady(sprite', content)
      BY <1>1, <2>1, SteadyStays
    <2> QED BY <1>1, <1>6, <2>2 DEF RecolorCursor, SpriteInv
  <1> QED BY <1>3, <1>4, <1>5, <1>6 DEF CursorSteps

LEMMA ColourStepsKeep == SpriteInv /\ ColourSteps => SpriteInv'
  <1> SUFFICES ASSUME SpriteInv, NEW m \in SpriteMaps,
                      \/ InstallColormap(m)
                      \/ \E defs \in SomeDefs : StoreColors(m, defs)
                      \/ \E p \in DOMAIN SpriteCells[m] :
                            (\E r \in Rgbs : AllocSharedCell(m, p, r)) \/ AllocPrivateCell(m, p) \/ FreeCellOf(m, p)
               PROVE  SpriteInv'
    BY DEF ColourSteps
  <1>1. IsImage(content) /\ Steady(sprite, content) /\ IsSprite(sprite) /\ misread = FALSE
    BY DEF SpriteInv, Steady
  <1>2. ASSUME InstallColormap(m) PROVE SpriteInv'
    <2> DEFINE s == RemoveIf(sprite, TRUE)
    <2>1. Steady(s, content)
      BY <1>1, Uncovered
    <2> HIDE DEF s
    <2>2. sprite' = [sprite EXCEPT !.pInstalledMap = m] \/ sprite' = [s EXCEPT !.pInstalledMap = m, !.checkPixels = TRUE]
      BY <1>2 DEF InstallColormap, s
    <2>3. ASSUME NEW u, Steady(u, content), sprite' = [u EXCEPT !.pInstalledMap = m] \/
                    sprite' = [u EXCEPT !.pInstalledMap = m, !.checkPixels = TRUE]
          PROVE  Steady(sprite', content)
      <3>1. DOMAIN sprite' = SpriteFields /\ \A k \in PixelFields \cup {"colors"} : sprite'[k] = u[k]
        BY <2>3 DEF Steady, IsSprite, PixelFields, SpriteFields
      <3> QED BY <2>3, <3>1, SteadyStays
    <2>4. Steady(sprite', content)
      BY <1>1, <2>1, <2>2, <2>3
    <2> QED BY <1>1, <1>2, <2>4 DEF InstallColormap, SpriteInv
  <1>3. ASSUME NEW defs, NEW use, Stores(sprite, m, defs, use) PROVE SpriteInv'
    <2> DEFINE s == [sprite EXCEPT !.cmaps[m] = CellsWith(@, defs, use)]
    <2>1. DOMAIN s = SpriteFields /\ \A k \in PixelFields \cup {"colors"} : s[k] = sprite[k]
      BY <1>1 DEF IsSprite, PixelFields, SpriteFields
    <2>2. sprite' = SpriteStoreColors(s, m, defs)
      BY <1>3 DEF Stores
    <2> HIDE DEF s
    <2>3. Steady(s, content)
      BY <1>1, <2>1, SteadyStays
    <2>4. Loose(s, content)
      BY <1>1, <2>3, SteadyIsLoose
    <2>5. sprite' = s \/ (IsSprite(sprite') /\ ~sprite'.isUp /\ sprite'.shown = content)
      BY <1>1, <2>2, <2>4, StoringColors
    <2>6. Steady(sprite', content)
      BY <2>3, <2>5 DEF Steady
    <2> QED BY <1>1, <1>3, <2>6 DEF Stores, SpriteInv
  <1>4. ASSUME NEW p, NEW from, NEW to, ChangesUse(m, p, from, to) PROVE SpriteInv'
    <2>1. DOMAIN sprite' = SpriteFields /\ \A k \in PixelFields \cup {"colors"} : sprite'[k] = sprite[k]
      BY <1>1, <1>4 DEF ChangesUse, WithCell, IsSprite, PixelFields, SpriteFields
    <2>2. Steady(sprite', content)
      BY <1>1, <2>1, SteadyStays
    <2> QED BY <1>1, <1>4, <2>2 DEF ChangesUse, SpriteInv
  <1> QED BY <1>2, <1>3, <1>4 DEF StoreColors, AllocSharedCell, AllocPrivateCell, FreeCellOf

\* Bits move that are not in the saved box.

LEMMA MovingBits ==
  ASSUME SpriteInv, NEW s, Steady(s, content), NEW region \in SUBSET SpritePixels, NEW d \in Pairs,
         s.isUp => \A p \in region : ~Within(p, s.saved.at, s.saved.size), MoveBits(s, region, d)
  PROVE  SpriteInv'
  <1> DEFINE to == Translate(region, d)
             t == RemoveIf(s, MeetsSaved(s, to))
             f == Moved2(t.shown, region, d)
             g == Moved2(content, region, d)
  <1>1. IsImage(content) /\ misread = FALSE
    BY DEF SpriteInv
  <1>2. Steady(t, content) /\ (t.isUp => t = s /\ ~MeetsSaved(s, to))
    BY <1>1, Uncovered
  <1>3. sprite' = [t EXCEPT !.shown = f] /\ content' = g /\ Sees(t, region)
    BY DEF MoveBits, ReportDamage
  <1> HIDE DEF t
  <1>4. Loose(t, content) /\ IsImage(t.shown) /\ (~t.isUp => t.shown = content)
    BY <1>1, <1>2, SteadyIsLoose DEF Steady, IsSprite
  <1>5. IsImage(f) /\ IsImage(g) /\ DOMAIN t.shown = SpritePixels /\ DOMAIN content = SpritePixels
    BY <1>1, <1>4 DEF IsImage, Moved2
  <1>6. \A p \in region : t.shown[p] = content[p]
    BY <1>2, <1>4 DEF Loose, Clear
  <1>7. ASSUME t.isUp, NEW p \in SpritePixels, Within(p, t.saved.at, t.saved.size)
        PROVE  f[p] = t.shown[p] /\ g[p] = content[p]
    <2> DEFINE q == Minus2(p, d)
    <2>1. p \in Pairs
      BY ScreenIsPairs
    <2>2. q \in Pairs /\ q[1] = p[1] - d[1] /\ q[2] = p[2] - d[2]
      BY <2>1, Differences
    <2> HIDE DEF q
    <2>3. Plus2(q, d) \in Pairs /\ Plus2(q, d)[1] = q[1] + d[1] /\ Plus2(q, d)[2] = q[2] + d[2]
      BY <2>2, Differences
    <2>4. Plus2(q, d) = p
      BY <2>1, <2>2, <2>3, SamePair DEF Pairs
    <2>5. q \notin region
      BY <1>2, <1>7, <2>4 DEF MeetsSaved, Translate
    <2> QED BY <1>5, <2>5 DEF Moved2, q
  <1>8. ASSUME t.isUp, NEW p \in SpritePixels, ~Within(p, t.saved.at, t.saved.size) PROVE f[p] = g[p]
    <2>1. t.shown[p] = content[p]
      BY <1>4, <1>8 DEF Loose, Clear
    <2> QED BY <1>5, <1>6, <2>1 DEF Moved2
  <1>9. Steady(sprite', content')
    <2> HIDE DEF f, g
    <2>1. ~t.isUp => f = g
      BY <1>4 DEF f, g
    <2> QED BY <1>1, <1>2, <1>3, <1>5, <1>7, <1>8, <2>1, Repainting
  <1>10. misread' = FALSE
    BY <1>1, <1>3, <1>6 DEF Sees
  <1> QED BY <1>3, <1>5, <1>9, <1>10 DEF SpriteInv

LEMMA OnePixel ==
  ASSUME NEW at \in SpritePixels PROVE BoxAt(at, <<1, 1>>) = {at}
  <1>1. PICK a \in Int, b \in Int : at = <<a, b>>
    BY ScreenIsPairs DEF Pairs
  <1> QED BY <1>1 DEF BoxAt

\* Reading after the cursor was taken off, or from where it is not.

LEMMA Reading ==
  ASSUME SpriteInv, NEW condition, sprite' = RemoveIf(sprite, condition), NEW region,
         \A p \in region : p \in SpritePixels /\ (condition \/ ~Within(p, sprite.saved.at, sprite.saved.size)),
         Sees(sprite', region), UNCHANGED content
  PROVE  SpriteInv'
  <1>1. IsImage(content) /\ misread = FALSE /\ Steady(sprite, content)
    BY DEF SpriteInv
  <1>2. /\ Steady(sprite', content)
        /\ \A p \in SpritePixels : condition \/ ~Within(p, sprite.saved.at, sprite.saved.size) => sprite'.shown[p] = content[p]
    BY <1>1, Uncovered
  <1>3. misread' = FALSE
    BY <1>1, <1>2 DEF Sees
  <1> QED BY <1>1, <1>2, <1>3 DEF SpriteInv

\* Boxes that meet overlap, also as the code sees the row of GetSpans.

LEMMA Overlapping ==
  ASSUME NEW s, IsSprite(s), NEW at \in SpritePixels, Within(at, s.saved.at, s.saved.size)
  PROVE  OverlapsSaved(s, at, <<1, 1>>) /\ OverlapsSaved(s, at, <<1, 0>>)
  <1>1. at \in Pairs /\ s.saved.at \in Pairs /\ s.saved.size \in Pairs
    BY ScreenIsPairs DEF IsSprite, Pairs
  <1> QED BY <1>1 DEF OverlapsSaved, Within, Pairs

LEMMA ScreenStepsKeep == SpriteInv /\ ScreenSteps => SpriteInv'
  <1> SUFFICES ASSUME SpriteInv, ScreenSteps PROVE SpriteInv'
    OBVIOUS
  <1>1. IsImage(content) /\ Steady(sprite, content) /\ IsSprite(sprite) /\ misread = FALSE
        /\ sprite.saved.at \in Pairs /\ sprite.saved.size \in Pairs
    BY DEF SpriteInv, Steady, IsSprite, Pairs
  <1>2. /\ \A region \in SomeShapes : region \in SUBSET SpritePixels
        /\ \A d \in SomeMoves : d \in Pairs
        /\ \A at \in SomePoints : at \in SpritePixels
    BY SpriteAssumption DEF Pairs
  <1>3. ASSUME NEW region \in SomeShapes, Draw(region) PROVE SpriteInv'
    <2> DEFINE s == RemoveIf(sprite, MeetsSaved(sprite, region))
               Painted(image) == [p \in DOMAIN image |-> IF p \in region THEN <<"drawn", spriteChanges>> ELSE image[p]]
    <2>1. sprite' = [s EXCEPT !.shown = Painted(s.shown)] /\ content' = Painted(content) /\ misread' = misread
      BY <1>3 DEF Draw, ReportDamage
    <2>2. Steady(s, content) /\ (s.isUp => s = sprite /\ ~MeetsSaved(sprite, region))
      BY <1>1, Uncovered
    <2> HIDE DEF s
    <2>3. Loose(s, content) /\ IsImage(s.shown) /\ (~s.isUp => s.shown = content)
      BY <1>1, <2>2, SteadyIsLoose DEF Steady, IsSprite
    <2> DEFINE f == Painted(s.shown)
               g == Painted(content)
    <2>4. IsImage(f) /\ IsImage(g) /\ DOMAIN s.shown = SpritePixels /\ DOMAIN content = SpritePixels
      BY <1>1, <2>3 DEF IsImage
    <2>5. ASSUME s.isUp, NEW p \in SpritePixels
          PROVE  /\ Within(p, s.saved.at, s.saved.size) => f[p] = s.shown[p] /\ g[p] = content[p]
                 /\ ~Within(p, s.saved.at, s.saved.size) => f[p] = g[p]
      <3>1. Within(p, s.saved.at, s.saved.size) => p \notin region
        BY <2>2, <2>5 DEF MeetsSaved
      <3>2. ~Within(p, s.saved.at, s.saved.size) => s.shown[p] = content[p]
        BY <2>3, <2>5 DEF Loose, Clear
      <3> QED BY <2>4, <3>1, <3>2
    <2>6. Steady(sprite', content')
      <3>1. ~s.isUp => f = g
        BY <2>3
      <3>2. sprite' = [s EXCEPT !.shown = f] /\ content' = g
        BY <2>1
      <3> HIDE DEF f, g
      <3> QED BY <1>1, <2>2, <2>4, <2>5, <3>1, <3>2, Repainting
    <2> QED BY <1>1, <2>1, <2>4, <2>6 DEF SpriteInv
  <1>4. ASSUME NEW region \in SomeShapes, NEW d \in SomeMoves, CopySpriteWindow(region, d) PROVE SpriteInv'
    <2> DEFINE s == RemoveIf(sprite, MeetsSaved(sprite, region))
    <2>1. Steady(s, content) /\ (s.isUp => s = sprite /\ ~MeetsSaved(sprite, region))
      BY <1>1, Uncovered
    <2>2. MoveBits(s, region, d)
      BY <1>4 DEF CopySpriteWindow
    <2> HIDE DEF s
    <2>3. s.isUp => \A p \in region : ~Within(p, s.saved.at, s.saved.size)
      BY <2>1 DEF MeetsSaved
    <2> QED BY <1>2, <2>1, <2>2, <2>3, MovingBits
  <1>5. ASSUME NEW region \in SomeShapes, NEW d \in SomeMoves, SaveDoomedAreas(region, d) PROVE SpriteInv'
    <2> DEFINE box == Plus2(sprite.saved.at, d)
               back == Minus2(<<0, 0>>, d)
               read == SpritePixels \cap Translate(region, back)
               meets == \E p \in region : Within(p, box, sprite.saved.size)
    <2>1. sprite' = RemoveIf(sprite, meets) /\ Sees(sprite', read) /\ content' = content
      BY <1>5 DEF SaveDoomedAreas
    <2>2. ASSUME NEW r \in read, Within(r, sprite.saved.at, sprite.saved.size) PROVE meets
      <3>1. PICK p \in region : r = Plus2(p, back)
        BY DEF Translate
      <3>2. p \in Pairs /\ d \in Pairs /\ <<0, 0>> \in Pairs
        BY <1>2, ScreenIsPairs DEF Pairs
      <3>3. back \in Pairs /\ back[1] = -d[1] /\ back[2] = -d[2]
        BY <3>2, Differences DEF Pairs
      <3>4. box \in Pairs /\ box[1] = sprite.saved.at[1] + d[1] /\ box[2] = sprite.saved.at[2] + d[2]
        BY <1>1, <3>2, Differences
      <3> HIDE DEF back, box
      <3>5. r \in Pairs /\ r[1] = p[1] + back[1] /\ r[2] = p[2] + back[2]
        BY <3>1, <3>2, <3>3, Differences
      <3>6. Within(p, box, sprite.saved.size)
        BY <1>1, <2>2, <3>2, <3>3, <3>4, <3>5 DEF Within, Pairs
      <3> QED BY <3>6
    <2> HIDE DEF meets, box, back
    <2>3. \A p \in read : p \in SpritePixels /\ (meets \/ ~Within(p, sprite.saved.at, sprite.saved.size))
      BY <2>2
    <2> HIDE DEF read
    <2> QED BY <2>1, <2>3, Reading
  <1>6. ASSUME NEW at \in SomePoints, GetImage(at, <<1, 1>>) PROVE SpriteInv'
    <2> DEFINE overlaps == OverlapsSaved(sprite, at, <<1, 1>>)
    <2>1. sprite' = RemoveIf(sprite, overlaps) /\ Sees(sprite', {at}) /\ content' = content
      BY <1>2, <1>6, OnePixel DEF GetImage, SourceValidate
    <2>2. at \in SpritePixels /\ (overlaps \/ ~Within(at, sprite.saved.at, sprite.saved.size))
      BY <1>1, <1>2, Overlapping
    <2> HIDE DEF overlaps
    <2> QED BY <2>1, <2>2, Reading
  <1>7. ASSUME NEW at \in SomePoints, GetSpans(at, 1) PROVE SpriteInv'
    <2> DEFINE overlaps == OverlapsSaved(sprite, at, <<1, 0>>)
    <2>1. sprite' = RemoveIf(sprite, overlaps) /\ Sees(sprite', {at}) /\ content' = content
      BY <1>2, <1>7, OnePixel DEF GetSpans
    <2>2. at \in SpritePixels /\ (overlaps \/ ~Within(at, sprite.saved.at, sprite.saved.size))
      BY <1>1, <1>2, Overlapping
    <2> HIDE DEF overlaps
    <2> QED BY <2>1, <2>2, Reading
  <1>8. ASSUME NEW at \in SomePoints, NEW d \in SomeMoves, CopyAreaInWindow(at, <<1, 1>>, d) PROVE SpriteInv'
    <2> DEFINE overlaps == OverlapsSaved(sprite, at, <<1, 1>>)
               s == RemoveIf(sprite, overlaps)
    <2>1. MoveBits(s, {at}, d)
      BY <1>2, <1>8, OnePixel DEF CopyAreaInWindow, SourceValidate
    <2>2. at \in SpritePixels /\ (overlaps \/ ~Within(at, sprite.saved.at, sprite.saved.size))
      BY <1>1, <1>2, Overlapping
    <2> HIDE DEF overlaps
    <2>3. Steady(s, content) /\ (s.isUp => s = sprite /\ ~overlaps)
      BY <1>1, Uncovered
    <2> HIDE DEF s
    <2> QED BY <1>2, <2>1, <2>2, <2>3, MovingBits
  <1> QED BY <1>3, <1>4, <1>5, <1>6, <1>7, <1>8 DEF ScreenSteps

-----------------------------------------------------------------------------
LEMMA SpriteInductive == SpriteSpec => []SpriteInv
  <1>1. SpriteInit => SpriteInv
    <2> SUFFICES ASSUME SpriteInit PROVE SpriteInv
      OBVIOUS
    <2>1. IsImage(content) /\ misread = FALSE
      BY DEF SpriteInit, IsImage
    <2>2. /\ DOMAIN sprite = SpriteFields /\ sprite.x = 0 /\ sprite.y = 0 /\ sprite.pCursor = NoCursor
          /\ sprite.saved = [at |-> <<0, 0>>, size |-> <<0, 0>>] /\ sprite.isUp = FALSE
          /\ sprite.shouldBeUp = FALSE /\ sprite.shown = content
      BY DEF SpriteInit, SpriteFields
    <2>3. sprite.saved \in [at : Pairs, size : Nat \X Nat]
      BY <2>2 DEF Pairs
    <2>4. IsSprite(sprite)
      <3>1. IsImage(sprite.shown)
        BY <2>1, <2>2
      <3>2. sprite.x \in Int /\ sprite.y \in Int
        BY <2>2
      <3>3. sprite.isUp \in BOOLEAN
        BY <2>2
      <3>4. DOMAIN sprite = SpriteFields /\ sprite.pCursor = NoCursor /\ ~sprite.shouldBeUp
        BY <2>2
      <3> QED BY <2>3, <3>1, <3>2, <3>3, <3>4 DEF IsSprite
    <2> QED BY <2>1, <2>2, <2>4 DEF SpriteInv, Steady
  <1>2. SpriteInv /\ [SpriteNext]_spriteVars => SpriteInv'
    <2>1. ASSUME SpriteInv, UNCHANGED spriteVars PROVE SpriteInv'
      BY <2>1 DEF SpriteInv, spriteVars, Steady, Room, Saves, CursorFits, CursorAt, Pixmap, IsSprite
    <2> QED BY <2>1, CursorStepsKeep, ColourStepsKeep, ScreenStepsKeep DEF SpriteNext
  <1> QED BY <1>1, <1>2, PTL DEF SpriteSpec

\* For every screen, padding and cursors, with or without hot spots outside: what
\* was drawn is what the frame buffer shows but for the cursor, what is saved
\* under the cursor is what was drawn there, slid over whatever edges, and no
\* read returns its pixels.
THEOREM CursorIsOverlay == SpriteSpec => []SpriteIsAnOverlay
  <1>1. SpriteInv => SpriteIsAnOverlay
    BY DEF SpriteInv, SpriteIsAnOverlay, Steady, Saves
  <1> QED BY <1>1, SpriteInductive, PTL
-----------------------------------------------------------------------------
(* Colours.                                                                *)

LEMMA LeastNumber ==
  ASSUME NEW S \in SUBSET Nat, S # {}
  PROVE  \E x \in S : \A y \in S : x <= y
  <1> DEFINE R == OpToRel(<, Nat)
  <1>1. IsWellFoundedOn(R, Nat)
    BY NatLessThanWellFounded
  <1> HIDE DEF R
  <1>2. PICK x \in S : \A y \in S : <<y, x>> \notin R
    BY <1>1, WFMin
  <1>3. \A y \in Nat : <<y, x>> \notin R => x <= y
    BY DEF R, OpToRel
  <1> QED BY <1>2, <1>3

Colour == [pixel : Nat, rgb : Int]
Updates == [colors : [Planes2 -> Colour], updated : Nat]

Distinct(defs) == \A i, j \in DOMAIN defs : defs[i].pixel = defs[j].pixel => i = j

\* What the first n definitions match of the colours c.
Matches(c, defs, n, plane) == \E i \in 1 .. n : defs[i].pixel = c[plane].pixel
One(b) == IF b THEN 1 ELSE 0

Updated(c, defs, n, acc) ==
    /\ acc \in Updates
    /\ \A plane \in Planes2 :
          IF Matches(c, defs, n, plane)
          THEN \E i \in 1 .. n : defs[i].pixel = c[plane].pixel /\ acc.colors[plane] = defs[i]
          ELSE acc.colors[plane] = c[plane]
    /\ acc.updated = One(Matches(c, defs, n, "source")) + One(Matches(c, defs, n, "mask"))

LEMMA UpdatingColors ==
  ASSUME NEW c \in [Planes2 -> Colour], NEW defs \in Seq(Colour), Distinct(defs), NEW n \in 1 .. Len(defs),
         NEW acc, Updated(c, defs, n - 1, acc), NEW r, r = UpdateColors(acc, defs[n])
  PROVE  Updated(c, defs, n, r)
  <1> DEFINE d == defs[n]
             u == UpdateColor(acc, d, "source")
             Hit(plane) == d.pixel = c[plane].pixel
             Before(plane) == Matches(c, defs, n - 1, plane)
  <1>1. d \in Colour /\ acc \in Updates /\ n - 1 \in Nat /\ n \in Nat
    BY DEF Updated
  <1>2. r = UpdateColor(u, d, "mask")
    BY DEF UpdateColors
  <1>3. ASSUME NEW plane \in Planes2
        PROVE  /\ Matches(c, defs, n, plane) <=> Before(plane) \/ Hit(plane)
               /\ Hit(plane) => ~Before(plane)
               /\ acc.colors[plane].pixel = c[plane].pixel
    <2>1. 1 .. n = 1 .. n - 1 \cup {n} /\ 1 .. n \subseteq DOMAIN defs
      BY <1>1
    <2>2. Matches(c, defs, n, plane) <=> Before(plane) \/ Hit(plane)
      BY <2>1 DEF Matches
    <2>3. Hit(plane) => ~Before(plane)
      <3>1. ASSUME Hit(plane), NEW i \in 1 .. n - 1, defs[i].pixel = c[plane].pixel PROVE FALSE
        <4>1. i \in DOMAIN defs /\ n \in DOMAIN defs /\ i # n
          BY <1>1, <2>1
        <4> QED BY <3>1, <4>1 DEF Distinct
      <3> QED BY <3>1 DEF Matches
    <2>4. acc.colors[plane].pixel = c[plane].pixel
      BY DEF Updated
    <2> QED BY <2>2, <2>3, <2>4
  <1> DEFINE S == "source"
             M == "mask"
  <1>4. S \in Planes2 /\ M \in Planes2 /\ S # M /\ Planes2 = {S, M}
    BY DEF Planes2
  <1>5. acc.updated = One(Before(S)) + One(Before(M))
    BY DEF Updated
  <1> HIDE DEF S, M, d, u, Before, Hit
  <1>6. /\ u \in Updates /\ u.colors[M] = acc.colors[M]
        /\ Hit(S) => u.colors[S] = d /\ u.updated = acc.updated + 1
        /\ ~Hit(S) => u = acc
    <2>1. Hit(S) => acc.updated < 2
      BY <1>3, <1>4, <1>5 DEF One
    <2>2. u = UpdateColor(acc, d, S)
      BY DEF u, S
    <2>3. /\ u \in Updates
          /\ \A other \in Planes2 \ {S} : u.colors[other] = acc.colors[other]
          /\ acc.updated < 2 /\ d.pixel = acc.colors[S].pixel => u.colors[S] = d /\ u.updated = acc.updated + 1
          /\ ~(acc.updated < 2 /\ d.pixel = acc.colors[S].pixel) => u = acc
      BY <1>1, <1>4, <2>2 DEF UpdateColor, Updates
    <2> QED BY <1>3, <1>4, <2>1, <2>3 DEF Hit
  <1>7. /\ r \in Updates /\ r.colors[S] = u.colors[S]
        /\ Hit(M) => r.colors[M] = d /\ r.updated = u.updated + 1
        /\ ~Hit(M) => r = u
    <2>1. Hit(M) => u.updated < 2
      BY <1>1, <1>3, <1>4, <1>5, <1>6 DEF One
    <2>2. r = UpdateColor(u, d, M)
      BY <1>2 DEF u, M
    <2>3. /\ r \in Updates
          /\ \A other \in Planes2 \ {M} : r.colors[other] = u.colors[other]
          /\ u.updated < 2 /\ d.pixel = u.colors[M].pixel => r.colors[M] = d /\ r.updated = u.updated + 1
          /\ ~(u.updated < 2 /\ d.pixel = u.colors[M].pixel) => r = u
      BY <1>1, <1>4, <1>6, <2>2 DEF UpdateColor, Updates
    <2> QED BY <1>3, <1>4, <1>6, <2>1, <2>3 DEF Hit
  <1>8. ASSUME NEW plane \in Planes2
        PROVE  IF Matches(c, defs, n, plane)
               THEN \E i \in 1 .. n : defs[i].pixel = c[plane].pixel /\ r.colors[plane] = defs[i]
               ELSE r.colors[plane] = c[plane]
    <2>1. CASE Hit(plane)
      <3>1. r.colors[plane] = d
        BY <1>4, <1>6, <1>7, <2>1
      <3>2. n \in 1 .. n /\ d = defs[n] /\ d.pixel = c[plane].pixel
        BY <1>1, <2>1 DEF d, Hit
      <3> QED BY <1>3, <2>1, <3>1, <3>2
    <2>2. CASE ~Hit(plane)
      <3>1. r.colors[plane] = acc.colors[plane]
        BY <1>4, <1>6, <1>7, <2>2
      <3>2. Matches(c, defs, n, plane) <=> Matches(c, defs, n - 1, plane)
        BY <1>3, <2>2 DEF Before
      <3>3. 1 .. n - 1 \subseteq 1 .. n
        BY <1>1
      <3>4. IF Matches(c, defs, n - 1, plane)
            THEN \E i \in 1 .. n - 1 : defs[i].pixel = c[plane].pixel /\ acc.colors[plane] = defs[i]
            ELSE acc.colors[plane] = c[plane]
        BY DEF Updated
      <3> QED BY <3>1, <3>2, <3>3, <3>4
    <2> QED BY <2>1, <2>2
  <1>9. r.updated = One(Matches(c, defs, n, S)) + One(Matches(c, defs, n, M))
    <2>1. acc.updated \in Nat
      BY <1>1 DEF Updates
    <2> QED BY <1>3, <1>4, <1>5, <1>6, <1>7, <2>1 DEF One
  <1> QED BY <1>7, <1>8, <1>9 DEF Updated, S, M

Loop(c, defs, n, f) ==
    f = [i \in 0 .. n |-> IF i = 0 THEN [colors |-> c, updated |-> 0] ELSE UpdateColors(f[i - 1], defs[i])]

\* The recursion is one over numbers.

LEMMA LoopExists ==
  ASSUME NEW c, NEW defs, NEW n \in Nat PROVE \E f : Loop(c, defs, n, f)
  <1> DEFINE bad == {m \in Nat : ~\E f : Loop(c, defs, m, f)}
  <1>1. ASSUME bad # {} PROVE FALSE
    <2>1. PICK m \in bad : \A l \in bad : m <= l
      BY <1>1, LeastNumber
    <2>2. m # 0
      <3>1. Loop(c, defs, 0, [i \in 0 .. 0 |-> [colors |-> c, updated |-> 0]])
        BY DEF Loop
      <3> QED BY <2>1, <3>1
    <2>3. m - 1 \in Nat /\ m - 1 \notin bad
      BY <2>1, <2>2
    <2>4. PICK f : Loop(c, defs, m - 1, f)
      BY <2>3
    <2> DEFINE g == [i \in 0 .. m |-> IF i = m THEN UpdateColors(f[m - 1], defs[m]) ELSE f[i]]
    <2>5. Loop(c, defs, m, g)
      <3>1. ASSUME NEW i \in 0 .. m
            PROVE  g[i] = IF i = 0 THEN [colors |-> c, updated |-> 0] ELSE UpdateColors(g[i - 1], defs[i])
        <4>1. CASE i = m
          <5>1. m - 1 \in 0 .. m /\ m - 1 # m /\ i # 0
            BY <2>1, <2>2, <4>1
          <5>2. g[m - 1] = f[m - 1]
            BY <5>1
          <5> QED BY <4>1, <5>1, <5>2
        <4>2. CASE i # m
          <5>1. i \in 0 .. m - 1 /\ (i # 0 => i - 1 \in 0 .. m /\ i - 1 # m)
            BY <2>1, <4>2
          <5>2. g[i] = f[i] /\ (i # 0 => g[i - 1] = f[i - 1])
            BY <4>2, <5>1
          <5>3. f[i] = IF i = 0 THEN [colors |-> c, updated |-> 0] ELSE UpdateColors(f[i - 1], defs[i])
            BY <2>4, <5>1 DEF Loop
          <5> QED BY <5>2, <5>3
        <4> QED BY <4>1, <4>2
      <3> HIDE DEF g
      <3>2. g = [i \in 0 .. m |-> g[i]]
        BY DEF g
      <3> QED BY <3>1, <3>2 DEF Loop
    <2> QED BY <2>1, <2>5
  <1> QED BY <1>1

\* The loop finds every match, as no pixel comes twice.

LEMMA ColorsUpdated ==
  ASSUME NEW s, s.colors \in [Planes2 -> Colour], NEW defs \in Seq(Colour), Distinct(defs)
  PROVE  Updated(s.colors, defs, Len(defs), UpdatedColors(s, defs))
  <1> DEFINE c == s.colors
             f == CHOOSE g : Loop(c, defs, Len(defs), g)
  <1>1. Len(defs) \in Nat
    OBVIOUS
  <1>2. Loop(c, defs, Len(defs), f)
    BY <1>1, LoopExists
  <1>3. UpdatedColors(s, defs) = f[Len(defs)]
    BY DEF UpdatedColors, Loop
  <1> HIDE DEF f
  <1>4. f[0] = [colors |-> c, updated |-> 0] /\ \A n \in 1 .. Len(defs) : f[n] = UpdateColors(f[n - 1], defs[n])
    <2>1. \A n \in 0 .. Len(defs) : f[n] = IF n = 0 THEN [colors |-> c, updated |-> 0] ELSE UpdateColors(f[n - 1], defs[n])
      BY <1>2, Zenon DEF Loop
    <2>2. 0 \in 0 .. Len(defs) /\ \A n \in 1 .. Len(defs) : n \in 0 .. Len(defs) /\ n # 0
      BY <1>1
    <2> QED BY <2>1, <2>2
  <1> HIDE DEF c
  <1>5. c \in [Planes2 -> Colour]
    BY DEF c
  <1> DEFINE bad == {n \in 0 .. Len(defs) : ~Updated(c, defs, n, f[n])}
  <1>6. ASSUME bad # {} PROVE FALSE
    <2>1. PICK n \in bad : \A m \in bad : n <= m
      <3>1. bad \in SUBSET Nat
        BY <1>1
      <3> HIDE DEF bad
      <3> QED BY <1>6, <3>1, LeastNumber
    <2>2. n # 0
      <3>1. f[0] \in Updates /\ f[0].colors = c /\ f[0].updated = 0
        BY <1>4, <1>5 DEF Updates
      <3>2. \A plane : ~Matches(c, defs, 0, plane)
        BY DEF Matches
      <3>3. Updated(c, defs, 0, f[0])
        BY <3>1, <3>2 DEF Updated, One
      <3> QED BY <2>1, <3>3
    <2>3. n \in 1 .. Len(defs) /\ n - 1 \in 0 .. Len(defs) /\ n - 1 \notin bad
      BY <1>1, <2>1, <2>2
    <2>4. Updated(c, defs, n - 1, f[n - 1])
      BY <2>3
    <2>5. Updated(c, defs, n, f[n])
      BY <1>4, <1>5, <2>3, <2>4, UpdatingColors
    <2> QED BY <2>1, <2>5
  <1> QED BY <1>1, <1>3, <1>6 DEF c
-----------------------------------------------------------------------------
(* The sprite's colours and the cells.                                     *)

ColourFields == {"colors", "chosen", "checkPixels", "pInstalledMap", "pColormap", "cmaps", "pCursor", "shouldBeUp"}
SameColours(s, t) == \A k \in ColourFields : t[k] = s[k]

ColourTypes(s) ==
    /\ DOMAIN s = SpriteFields
    /\ s.colors \in [Planes2 -> Colour]
    /\ DOMAIN s.chosen = Planes2
    /\ DOMAIN s.cmaps = SpriteMaps
    /\ \A m \in SpriteMaps : /\ DOMAIN s.cmaps[m] = DOMAIN SpriteCells[m]
                             /\ \A p \in DOMAIN SpriteCells[m] : s.cmaps[m][p].rgb \in Int
    /\ s.pInstalledMap \in SpriteMaps
    /\ s.pColormap \in SpriteMaps \cup {NullColormap}

\* The pixel of a plane, in the map it was found in, has the colour it had when it
\* was picked or the one the sprite believes.
Picked(s, plane) ==
    s.pColormap \in SpriteMaps =>
        /\ s.colors[plane].pixel \in DOMAIN SpriteCells[s.pColormap]
        /\ s.cmaps[s.pColormap][s.colors[plane].pixel].rgb \in {s.chosen[plane], s.colors[plane].rgb}

AllPicked(s) == \A plane \in Planes2 : Picked(s, plane)

\* What a sprite that is checked believes are the colours of the cursor.
Knows(s, rgbs) ==
    s.pColormap = s.pInstalledMap /\ \A plane \in Planes2 : s.colors[plane].rgb = rgbs[s.pCursor][plane]
Believes(s, rgbs) == ~s.checkPixels /\ s.pCursor # NoCursor => Knows(s, rgbs)

ClientUses == {"free", "shared", "private"}

\* The sprite's cells are its own in the map temp only.
UsesOK(s, temp) ==
    /\ s.checkPixels \in BOOLEAN /\ s.shouldBeUp \in BOOLEAN
    /\ \A m \in SpriteMaps : \A p \in DOMAIN SpriteCells[m] :
          s.cmaps[m][p].use \in ClientUses \/ (m = temp /\ s.cmaps[m][p].use = "temporary")

Agrees(s, rgbs) == ColourTypes(s) /\ AllPicked(s) /\ Believes(s, rgbs) /\ UsesOK(s, NullColormap)

LEMMA SameStays ==
  ASSUME NEW rgbs, NEW s, ColourTypes(s), NEW t, DOMAIN t = SpriteFields, SameColours(s, t)
  PROVE  /\ ColourTypes(t)
         /\ \A plane \in Planes2 : Picked(s, plane) => Picked(t, plane)
         /\ AllPicked(s) => AllPicked(t)
         /\ Believes(s, rgbs) => Believes(t, rgbs)
         /\ Knows(s, rgbs) => Knows(t, rgbs)
         /\ \A temp : UsesOK(s, temp) => UsesOK(t, temp)
  <1>1. /\ t.colors = s.colors /\ t.chosen = s.chosen /\ t.checkPixels = s.checkPixels
        /\ t.pInstalledMap = s.pInstalledMap /\ t.pColormap = s.pColormap /\ t.cmaps = s.cmaps /\ t.pCursor = s.pCursor
        /\ t.shouldBeUp = s.shouldBeUp
    BY DEF SameColours, ColourFields
  <1>2. \A temp : UsesOK(s, temp) => UsesOK(t, temp)
    BY <1>1 DEF UsesOK
  <1> QED BY <1>1, <1>2 DEF ColourTypes, Picked, AllPicked, Believes, Knows

LEMMA RemovedHasColours ==
  ASSUME NEW s, DOMAIN s = SpriteFields, NEW condition, NEW t, t = RemoveIf(s, condition)
  PROVE  DOMAIN t = SpriteFields /\ SameColours(s, t)
  BY DEF RemoveIf, RemoveCursor, RestoreUnderCursor, CopyBits, PutBack, SameColours, ColourFields, SpriteFields

\* The cells of m have got the colours of defs.
CellsStored(s, m, defs, v) ==
    /\ DOMAIN v = SpriteFields /\ \A k \in SpriteFields \ {"cmaps"} : v[k] = s[k]
    /\ DOMAIN v.cmaps = SpriteMaps
    /\ \A o \in SpriteMaps \ {m} : v.cmaps[o] = s.cmaps[o]
    /\ DOMAIN v.cmaps[m] = DOMAIN s.cmaps[m]
    /\ \A i \in DOMAIN defs : defs[i].pixel \in DOMAIN s.cmaps[m] => v.cmaps[m][defs[i].pixel].rgb = defs[i].rgb
    /\ \A p \in DOMAIN s.cmaps[m] : (\A i \in DOMAIN defs : defs[i].pixel # p) => v.cmaps[m][p] = s.cmaps[m][p]

LEMMA StoringCells ==
  ASSUME NEW s, ColourTypes(s), NEW m \in SpriteMaps, NEW defs \in Seq(Colour), Distinct(defs), NEW use
  PROVE  CellsStored(s, m, defs, [s EXCEPT !.cmaps[m] = CellsWith(@, defs, use)])
  <1> DEFINE cells == s.cmaps[m]
             new == CellsWith(cells, defs, use)
             v == [s EXCEPT !.cmaps[m] = CellsWith(@, defs, use)]
  <1>1. /\ DOMAIN v = SpriteFields /\ \A k \in SpriteFields \ {"cmaps"} : v[k] = s[k]
        /\ DOMAIN v.cmaps = SpriteMaps /\ v.cmaps[m] = new
        /\ \A o \in SpriteMaps \ {m} : v.cmaps[o] = s.cmaps[o]
    <2> HIDE DEF new
    <2>1. v = [s EXCEPT !.cmaps[m] = new]
      BY DEF new
    <2> QED BY <2>1 DEF ColourTypes, SpriteFields
  <1>2. DOMAIN new = DOMAIN cells
    BY DEF CellsWith
  <1>3. ASSUME NEW i \in DOMAIN defs, defs[i].pixel \in DOMAIN cells PROVE new[defs[i].pixel].rgb = defs[i].rgb
    <2> DEFINE p == defs[i].pixel
               last == CHOOSE j \in Defines(defs, p) : \A k \in Defines(defs, p) : k <= j
    <2>1. Defines(defs, p) = {i}
      BY DEF Defines, Distinct
    <2>2. last = i
      BY <2>1
    <2>3. new[p] = [rgb |-> defs[last].rgb, use |-> use]
      BY <1>3, <2>1 DEF CellsWith
    <2> HIDE DEF last, new
    <2> QED BY <2>2, <2>3
  <1>4. ASSUME NEW p \in DOMAIN cells, \A i \in DOMAIN defs : defs[i].pixel # p PROVE new[p] = cells[p]
    <2>1. Defines(defs, p) = {}
      BY <1>4 DEF Defines
    <2> QED BY <2>1 DEF CellsWith
  <1> HIDE DEF new, v
  <1>5. CellsStored(s, m, defs, v)
    BY <1>1, <1>2, <1>3, <1>4 DEF CellsStored
  <1> QED BY <1>5 DEF v

LEMMA StoringCell ==
  ASSUME NEW s, ColourTypes(s), NEW m \in SpriteMaps, NEW p \in DOMAIN SpriteCells[m], NEW rgb \in Int, NEW use,
         NEW v, v = WithCell(s, m, p, rgb, use)
  PROVE  CellsStored(s, m, <<[pixel |-> p, rgb |-> rgb]>>, v)
  <1> DEFINE def == [pixel |-> p, rgb |-> rgb]
             new == [s.cmaps[m] EXCEPT ![p] = [rgb |-> rgb, use |-> use]]
  <1>1. p \in DOMAIN s.cmaps[m]
    BY DEF ColourTypes
  <1>2. /\ DOMAIN v = SpriteFields /\ \A k \in SpriteFields \ {"cmaps"} : v[k] = s[k]
        /\ DOMAIN v.cmaps = SpriteMaps /\ v.cmaps[m] = new
        /\ \A o \in SpriteMaps \ {m} : v.cmaps[o] = s.cmaps[o]
    <2>1. v = [s EXCEPT !.cmaps[m] = new]
      BY DEF WithCell
    <2> HIDE DEF new
    <2> QED BY <2>1 DEF ColourTypes, SpriteFields
  <1>3. /\ DOMAIN new = DOMAIN s.cmaps[m] /\ new[p].rgb = rgb
        /\ \A q \in DOMAIN s.cmaps[m] : q # p => new[q] = s.cmaps[m][q]
    BY <1>1
  <1>4. DOMAIN <<def>> = {1} /\ <<def>>[1].pixel = p /\ <<def>>[1].rgb = rgb
    OBVIOUS
  <1> HIDE DEF new, def
  <1>5. CellsStored(s, m, <<def>>, v)
    BY <1>1, <1>2, <1>3, <1>4 DEF CellsStored
  <1> QED BY <1>5 DEF def

LEMMA OneDefinition ==
  ASSUME NEW p \in Nat, NEW rgb \in Int
  PROVE  <<[pixel |-> p, rgb |-> rgb]>> \in Seq(Colour) /\ Distinct(<<[pixel |-> p, rgb |-> rgb]>>)
  BY DEF Colour, Distinct

ColorsStored(s, defs, v, t) ==
    /\ ColourTypes(t)
    /\ t.chosen = s.chosen /\ t.pInstalledMap = s.pInstalledMap /\ t.pColormap = s.pColormap /\ t.pCursor = s.pCursor
    /\ t.cmaps = v.cmaps /\ t.shouldBeUp = s.shouldBeUp /\ t.checkPixels \in {TRUE, s.checkPixels}
    /\ \A plane \in Planes2 : Picked(s, plane) => Picked(t, plane)
    /\ t.checkPixels \/ (t.colors = s.colors /\ t.checkPixels = s.checkPixels)
    /\ \A plane \in Planes2 : \/ t.colors[plane] = s.colors[plane]
                              \/ \E i \in DOMAIN defs : defs[i].pixel = s.colors[plane].pixel /\ t.colors[plane] = defs[i]

LEMMA SpriteStores ==
  ASSUME NEW s, ColourTypes(s), NEW m \in SpriteMaps, NEW defs \in Seq(Colour), Distinct(defs),
         NEW v, CellsStored(s, m, defs, v), NEW t, t = SpriteStoreColors(v, m, defs)
  PROVE  ColorsStored(s, defs, v, t)
  <1> DEFINE new == UpdatedColors(v, defs)
             r == RemoveIf(v, TRUE)
             Hit(plane) == \E i \in DOMAIN defs : defs[i].pixel = s.colors[plane].pixel
  <1>1. /\ v.colors = s.colors /\ v.chosen = s.chosen /\ v.checkPixels = s.checkPixels
        /\ v.pInstalledMap = s.pInstalledMap /\ v.pColormap = s.pColormap /\ v.pCursor = s.pCursor
        /\ DOMAIN v = SpriteFields /\ v.shouldBeUp = s.shouldBeUp
    BY DEF CellsStored, SpriteFields
  <1>2. s.colors \in [Planes2 -> Colour]
    BY DEF ColourTypes
  <1>3. Updated(s.colors, defs, Len(defs), new)
    BY <1>1, <1>2, ColorsUpdated
  <1> HIDE DEF new
  <1>4. /\ new.colors \in [Planes2 -> Colour] /\ new.updated \in Nat
        /\ \A plane \in Planes2 :
              IF Hit(plane) THEN \E i \in DOMAIN defs : defs[i].pixel = s.colors[plane].pixel /\ new.colors[plane] = defs[i]
              ELSE new.colors[plane] = s.colors[plane]
        /\ new.updated = 0 => \A plane \in Planes2 : ~Hit(plane)
    <2>1. 1 .. Len(defs) = DOMAIN defs
      OBVIOUS
    <2>2. \A plane : Matches(s.colors, defs, Len(defs), plane) <=> Hit(plane)
      BY <2>1 DEF Matches
    <2> HIDE DEF Hit
    <2>3. new.updated = One(Hit("source")) + One(Hit("mask"))
      BY <1>3, <2>2 DEF Updated, One
    <2>4. new.updated = 0 => \A plane \in Planes2 : ~Hit(plane)
      BY <2>3 DEF One, Planes2
    <2> QED BY <1>3, <2>1, <2>2, <2>4 DEF Updated, Updates
  <1>5. DOMAIN r = SpriteFields /\ SameColours(v, r)
    BY <1>1, RemovedHasColours
  <1> HIDE DEF r, Hit
  <1>6. /\ DOMAIN t = SpriteFields /\ t.chosen = s.chosen /\ t.pInstalledMap = s.pInstalledMap
        /\ t.pColormap = s.pColormap /\ t.pCursor = s.pCursor /\ t.cmaps = v.cmaps
        /\ t.shouldBeUp = s.shouldBeUp
        /\ IF s.pColormap = m /\ new.updated > 0 THEN t.checkPixels = TRUE /\ t.colors = new.colors
           ELSE t.checkPixels = s.checkPixels /\ t.colors = s.colors
    <2>1. t = IF s.pColormap = m /\ new.updated > 0 THEN [r EXCEPT !.colors = new.colors, !.checkPixels = TRUE] ELSE v
      BY <1>1 DEF SpriteStoreColors, new, r
    <2>2. CASE s.pColormap = m /\ new.updated > 0
      <3>1. t = [r EXCEPT !.colors = new.colors, !.checkPixels = TRUE]
        BY <2>1, <2>2
      <3>2. /\ r.chosen = v.chosen /\ r.pInstalledMap = v.pInstalledMap /\ r.pColormap = v.pColormap
            /\ r.cmaps = v.cmaps /\ r.pCursor = v.pCursor /\ r.shouldBeUp = v.shouldBeUp
        BY <1>5 DEF SameColours, ColourFields
      <3> QED BY <1>1, <1>5, <2>2, <3>1, <3>2 DEF SpriteFields
    <2>3. CASE ~(s.pColormap = m /\ new.updated > 0)
      BY <1>1, <2>1, <2>3
    <2> QED BY <2>2, <2>3
  <1>7. \A plane \in Planes2 : IF s.pColormap = m /\ Hit(plane)
              THEN \E i \in DOMAIN defs : defs[i].pixel = s.colors[plane].pixel /\ t.colors[plane] = defs[i]
              ELSE t.colors[plane] = s.colors[plane]
    BY <1>4, <1>6
  <1>8. ASSUME NEW o \in SpriteMaps, NEW p \in DOMAIN SpriteCells[o]
        PROVE  v.cmaps[o][p].rgb \in Int
    <2>1. s.cmaps[o][p].rgb \in Int /\ p \in DOMAIN s.cmaps[o]
      BY DEF ColourTypes
    <2>2. CASE o # m
      BY <2>1, <2>2 DEF CellsStored
    <2>3. CASE o = m
      <3>1. CASE \E i \in DOMAIN defs : defs[i].pixel = p
        <4>1. PICK i \in DOMAIN defs : defs[i].pixel = p
          BY <3>1
        <4>2. defs[i] \in Colour
          BY <4>1
        <4>3. defs[i].rgb \in Int
          BY <4>2 DEF Colour
        <4> QED BY <2>1, <2>3, <4>1, <4>3 DEF CellsStored
      <3>2. CASE \A i \in DOMAIN defs : defs[i].pixel # p
        BY <2>1, <2>3, <3>2 DEF CellsStored
      <3> QED BY <3>1, <3>2
    <2> QED BY <2>2, <2>3
  <1>9. ColourTypes(t)
    <2>1. t.colors \in [Planes2 -> Colour]
      BY <1>2, <1>4, <1>6
    <2>2. DOMAIN v.cmaps = SpriteMaps /\ \A o \in SpriteMaps : DOMAIN v.cmaps[o] = DOMAIN SpriteCells[o]
      BY DEF CellsStored, ColourTypes
    <2> QED BY <1>6, <1>8, <2>1, <2>2 DEF ColourTypes
  <1>10. ASSUME NEW plane \in Planes2, Picked(s, plane) PROVE Picked(t, plane)
    <2>1. SUFFICES ASSUME s.pColormap \in SpriteMaps
                   PROVE  /\ t.colors[plane].pixel \in DOMAIN SpriteCells[s.pColormap]
                          /\ v.cmaps[s.pColormap][t.colors[plane].pixel].rgb \in {s.chosen[plane], t.colors[plane].rgb}
      BY <1>6 DEF Picked
    <2> DEFINE p == s.colors[plane].pixel
    <2>2. /\ p \in DOMAIN SpriteCells[s.pColormap]
          /\ s.cmaps[s.pColormap][p].rgb \in {s.chosen[plane], s.colors[plane].rgb}
          /\ p \in DOMAIN s.cmaps[s.pColormap]
      BY <1>10, <2>1 DEF Picked, ColourTypes
    <2>3. CASE s.pColormap = m /\ Hit(plane)
      <3>1. PICK i \in DOMAIN defs : defs[i].pixel = p /\ t.colors[plane] = defs[i]
        BY <1>7, <2>3
      <3>2. v.cmaps[m][p].rgb = defs[i].rgb
        BY <2>2, <2>3, <3>1 DEF CellsStored
      <3> QED BY <2>2, <2>3, <3>1, <3>2
    <2>4. CASE ~(s.pColormap = m /\ Hit(plane))
      <3>1. t.colors[plane] = s.colors[plane]
        BY <1>7, <2>4
      <3>2. v.cmaps[s.pColormap][p] = s.cmaps[s.pColormap][p]
        BY <2>1, <2>2, <2>4 DEF CellsStored, Hit
      <3> QED BY <2>2, <3>1, <3>2
    <2> QED BY <2>3, <2>4
  <1> QED BY <1>6, <1>7, <1>9, <1>10 DEF ColorsStored
-----------------------------------------------------------------------------
(* Finding pixels for the cursor's colours.                                *)

\* Whoever looks for a colour finds a nearest one.

LEMMA NearestExists ==
  ASSUME NEW cells, DOMAIN cells \subseteq Nat, DOMAIN cells # {},
         \A p \in DOMAIN cells : cells[p].rgb \in Int, NEW rgb \in Int
  PROVE  FindBestPixel(cells, rgb) \in DOMAIN cells
  <1> DEFINE D(p) == Abs(cells[p].rgb - rgb)
             distances == {D(p) : p \in DOMAIN cells}
  <1>1. \A p \in DOMAIN cells : D(p) \in Nat
    BY DEF Abs, Pos
  <1> HIDE DEF D
  <1>2. PICK d \in distances : \A e \in distances : d <= e
    <2>1. distances \in SUBSET Nat /\ distances # {}
      BY <1>1
    <2> HIDE DEF distances
    <2> QED BY <2>1, LeastNumber
  <1> DEFINE nearest == {p \in DOMAIN cells : D(p) = d}
  <1>3. PICK p \in nearest : \A q \in nearest : p <= q
    <2>1. nearest \in SUBSET Nat /\ nearest # {}
      BY <1>2
    <2> HIDE DEF nearest
    <2> QED BY <2>1, LeastNumber
  <1>4. \A q \in DOMAIN cells : D(p) < D(q) \/ (D(p) = D(q) /\ p <= q)
    <2>1. ASSUME NEW q \in DOMAIN cells PROVE D(p) < D(q) \/ (D(p) = D(q) /\ p <= q)
      <3>1. D(p) = d /\ d <= D(q) /\ D(q) \in Nat /\ d \in Nat
        BY <1>1, <1>2, <1>3
      <3>2. D(q) = d => p <= q
        BY <1>3
      <3> QED BY <3>1, <3>2
    <2> QED BY <2>1
  <1>5. \E b \in DOMAIN cells : \A q \in DOMAIN cells :
           LET dp == Abs(cells[b].rgb - rgb)
               dq == Abs(cells[q].rgb - rgb)
           IN  dp < dq \/ (dp = dq /\ b <= q)
    BY <1>3, <1>4 DEF D
  <1> QED BY <1>5 DEF FindBestPixel

\* A pixel that nobody takes as a free cell.
Settled(s, plane) ==
    LET cells == s.cmaps[s.pColormap]
    IN  \/ cells[s.colors[plane].pixel].use # "free"
        \/ \A p \in DOMAIN cells : cells[p].use # "free"

\* The sprite has been given a pixel for a plane of its cursor.
FoundColour(s, plane, rgbs) ==
    Picked(s, plane) /\ Settled(s, plane) /\ s.colors[plane].rgb = rgbs[s.pCursor][plane]

Realized(s) == ColourTypes(s) /\ s.pColormap \in SpriteMaps /\ s.pCursor \in SpriteCursors

CursorRgbs == [SpriteCursors -> [Planes2 -> Int]]

\* The pixel p is taken.
PixelTaken(t, plane, rgbs, u) ==
    /\ Realized(u) /\ FoundColour(u, plane, rgbs)
    /\ u.pInstalledMap = t.pInstalledMap /\ u.pColormap = t.pColormap /\ u.pCursor = t.pCursor
    /\ u.cmaps = t.cmaps /\ u.checkPixels = t.checkPixels /\ u.shouldBeUp = t.shouldBeUp
    /\ \A other \in Planes2 \ {plane} : u.colors[other] = t.colors[other] /\ u.chosen[other] = t.chosen[other]

LEMMA TakingPixel ==
  ASSUME NEW rgbs \in CursorRgbs, NEW t, Realized(t), NEW plane \in Planes2,
         t.colors[plane].rgb = rgbs[t.pCursor][plane],
         NEW p \in DOMAIN SpriteCells[t.pColormap],
         t.cmaps[t.pColormap][p].use # "free" \/ \A q \in DOMAIN t.cmaps[t.pColormap] : t.cmaps[t.pColormap][q].use # "free",
         NEW u, u = [t EXCEPT !.colors[plane].pixel = p, !.chosen[plane] = t.cmaps[t.pColormap][p].rgb]
  PROVE  PixelTaken(t, plane, rgbs, u)
  <1> DEFINE rgb == t.cmaps[t.pColormap][p].rgb
             colors == [t.colors EXCEPT ![plane].pixel = p]
             chosen == [t.chosen EXCEPT ![plane] = rgb]
  <1>1. p \in Nat /\ rgb \in Int
    BY ColoursAssumption DEF Realized, ColourTypes
  <1>2. /\ colors \in [Planes2 -> Colour] /\ colors[plane].pixel = p /\ colors[plane].rgb = t.colors[plane].rgb
        /\ \A other \in Planes2 \ {plane} : colors[other] = t.colors[other]
    BY <1>1 DEF Realized, ColourTypes, Colour
  <1>3. /\ DOMAIN chosen = Planes2 /\ chosen[plane] = rgb
        /\ \A other \in Planes2 \ {plane} : chosen[other] = t.chosen[other]
    BY DEF Realized, ColourTypes
  <1>4. u = [t EXCEPT !.colors = colors, !.chosen = chosen]
    OBVIOUS
  <1> HIDE DEF colors, chosen
  <1>5. /\ DOMAIN u = SpriteFields /\ u.colors = colors /\ u.chosen = chosen /\ u.pInstalledMap = t.pInstalledMap
        /\ u.pColormap = t.pColormap /\ u.pCursor = t.pCursor /\ u.cmaps = t.cmaps /\ u.checkPixels = t.checkPixels
        /\ u.shouldBeUp = t.shouldBeUp
    BY <1>4 DEF Realized, ColourTypes, SpriteFields
  <1>6. Realized(u)
    BY <1>2, <1>3, <1>5 DEF Realized, ColourTypes
  <1>7. FoundColour(u, plane, rgbs)
    <2>1. Picked(u, plane)
      BY <1>2, <1>3, <1>5 DEF Picked
    <2>2. Settled(u, plane)
      BY <1>2, <1>5 DEF Settled
    <2> QED BY <1>2, <1>5, <2>1, <2>2 DEF FoundColour
  <1> QED BY <1>2, <1>3, <1>5, <1>6, <1>7 DEF PixelTaken

ColorAllocated(s, plane, rgbs, u) ==
    /\ Realized(u) /\ FoundColour(u, plane, rgbs)
    /\ u.pInstalledMap = s.pInstalledMap /\ u.pColormap = s.pColormap /\ u.pCursor = s.pCursor
    /\ \A other \in Planes2 \ {plane} : FoundColour(s, other, rgbs) => FoundColour(u, other, rgbs)
    /\ UsesOK(s, s.pColormap) => UsesOK(u, s.pColormap)

LEMMA AllocatingColor ==
  ASSUME NEW rgbs \in CursorRgbs, cursorRgb = rgbs, NEW s, Realized(s), NEW plane \in Planes2, NEW u \in FakeAllocColor(s, plane)
  PROVE  ColorAllocated(s, plane, rgbs, u)
  <1> DEFINE m == s.pColormap
             cells == s.cmaps[m]
             rgb == rgbs[s.pCursor][plane]
             asked == [s EXCEPT !.colors[plane] = [pixel |-> 0, rgb |-> rgb]]
             Taken(t, p) == [t EXCEPT !.colors[plane].pixel = p, !.chosen[plane] = t.cmaps[m][p].rgb]
             With(p) == WithCell(asked, m, p, rgb, "temporary")
             After(p) == SpriteStoreColors(With(p), m, <<[pixel |-> p, rgb |-> rgb]>>)
  <1>1. m \in SpriteMaps /\ rgb \in Int /\ DOMAIN cells = DOMAIN SpriteCells[m] /\ DOMAIN cells \subseteq Nat /\ DOMAIN cells # {}
        /\ \A p \in DOMAIN cells : cells[p].rgb \in Int
    BY ColoursAssumption DEF Realized, ColourTypes, CursorRgbs
  <1>2. \/ \E p \in DOMAIN cells : u = Taken(asked, p) /\ cells[p].use = "shared"
        \/ \E p \in DOMAIN cells : u = Taken(After(p), p) /\ cells[p].use = "free"
        \/ u = Taken(asked, FindBestPixel(cells, rgb)) /\ \A p \in DOMAIN cells : cells[p].use # "free"
    BY Zenon DEF FakeAllocColor
  <1>3. /\ Realized(asked) /\ asked.colors[plane] = [pixel |-> 0, rgb |-> rgb]
        /\ asked.pInstalledMap = s.pInstalledMap /\ asked.pColormap = s.pColormap /\ asked.pCursor = s.pCursor
        /\ asked.cmaps = s.cmaps /\ asked.chosen = s.chosen
        /\ asked.checkPixels = s.checkPixels /\ asked.shouldBeUp = s.shouldBeUp
        /\ \A other \in Planes2 \ {plane} : asked.colors[other] = s.colors[other]
    <2> DEFINE colors == [s.colors EXCEPT ![plane] = [pixel |-> 0, rgb |-> rgb]]
    <2>1. /\ colors \in [Planes2 -> Colour] /\ colors[plane] = [pixel |-> 0, rgb |-> rgb]
          /\ \A other \in Planes2 \ {plane} : colors[other] = s.colors[other]
      <3> HIDE DEF rgb
      <3> QED BY <1>1 DEF Realized, ColourTypes, Colour
    <2>2. asked = [s EXCEPT !.colors = colors]
      OBVIOUS
    <2> HIDE DEF colors, asked
    <2>3. /\ DOMAIN asked = SpriteFields /\ asked.colors = colors /\ asked.pInstalledMap = s.pInstalledMap
          /\ asked.pColormap = s.pColormap /\ asked.pCursor = s.pCursor
          /\ asked.cmaps = s.cmaps /\ asked.chosen = s.chosen
          /\ asked.checkPixels = s.checkPixels /\ asked.shouldBeUp = s.shouldBeUp
      BY <2>2 DEF Realized, ColourTypes, SpriteFields
    <2> QED BY <2>1, <2>3 DEF Realized, ColourTypes
  <1> HIDE DEF asked
  \* What was found for the other plane stays with what is asked.
  <1>4. ASSUME NEW other \in Planes2 \ {plane}, FoundColour(s, other, rgbs) PROVE FoundColour(asked, other, rgbs)
    BY <1>3, <1>4 DEF FoundColour, Picked, Settled
  <1>5. ASSUME NEW p \in DOMAIN cells, u = Taken(asked, p), cells[p].use # "free" \/ \A q \in DOMAIN cells : cells[q].use # "free"
        PROVE  ColorAllocated(s, plane, rgbs, u)
    <2>1. u = [asked EXCEPT !.colors[plane].pixel = p, !.chosen[plane] = asked.cmaps[asked.pColormap][p].rgb]
      BY <1>3, <1>5
    <2>2. /\ Realized(u) /\ FoundColour(u, plane, rgbs)
          /\ u.pInstalledMap = asked.pInstalledMap /\ u.pColormap = asked.pColormap
          /\ u.pCursor = asked.pCursor /\ u.cmaps = asked.cmaps /\ u.checkPixels = asked.checkPixels /\ u.shouldBeUp = asked.shouldBeUp
          /\ \A other \in Planes2 \ {plane} : u.colors[other] = asked.colors[other] /\ u.chosen[other] = asked.chosen[other]
      <3>1. p \in DOMAIN SpriteCells[asked.pColormap]
        BY <1>1, <1>3
      <3>2. asked.colors[plane].rgb = rgbs[asked.pCursor][plane]
        BY <1>3
      <3>3. \/ asked.cmaps[asked.pColormap][p].use # "free"
            \/ \A q \in DOMAIN asked.cmaps[asked.pColormap] : asked.cmaps[asked.pColormap][q].use # "free"
        BY <1>3, <1>5
      <3>4. Realized(asked)
        BY <1>3
      <3>5. PixelTaken(asked, plane, rgbs, u)
        BY <2>1, <3>1, <3>2, <3>3, <3>4, TakingPixel
      <3> QED BY <3>5 DEF PixelTaken
    <2>3. ASSUME NEW other \in Planes2 \ {plane}, FoundColour(asked, other, rgbs) PROVE FoundColour(u, other, rgbs)
      BY <2>2, <2>3 DEF FoundColour, Picked, Settled
    <2>4. UsesOK(s, m) => UsesOK(u, m)
      BY <1>3, <2>2 DEF UsesOK
    <2> QED BY <1>3, <1>4, <2>2, <2>3, <2>4 DEF ColorAllocated
  <1>6. ASSUME NEW p \in DOMAIN cells, u = Taken(After(p), p), cells[p].use = "free"
        PROVE  ColorAllocated(s, plane, rgbs, u)
    <2> DEFINE v == With(p)
               w == After(p)
               def == [pixel |-> p, rgb |-> rgb]
    <2>1. v = WithCell(asked, m, p, rgb, "temporary") /\ w = SpriteStoreColors(v, m, <<def>>)
      OBVIOUS
    <2>2. <<def>> \in Seq(Colour) /\ Distinct(<<def>>)
      BY <1>1, <1>6, OneDefinition
    <2>3. u = [w EXCEPT !.colors[plane].pixel = p, !.chosen[plane] = w.cmaps[m][p].rgb]
      BY <1>6
    <2>4. DOMAIN <<def>> = {1} /\ <<def>>[1] = def /\ def.pixel = p /\ def.rgb = rgb
      OBVIOUS
    <2> HIDE DEF v, w
    <2>5. CellsStored(asked, m, <<def>>, v)
      BY <1>1, <1>3, <1>6, <2>1, StoringCell DEF Realized
    <2>6. v.cmaps[m][p].use = "temporary" /\ \A q \in DOMAIN cells : q # p => v.cmaps[m][q] = cells[q]
      <3>1. v = [asked EXCEPT !.cmaps = [asked.cmaps EXCEPT ![m] = [asked.cmaps[m] EXCEPT ![p] = [rgb |-> rgb, use |-> "temporary"]]]]
        BY <2>1 DEF WithCell
      <3> DEFINE new == [asked.cmaps[m] EXCEPT ![p] = [rgb |-> rgb, use |-> "temporary"]]
      <3>2. new[p].use = "temporary" /\ \A q \in DOMAIN cells : q # p => new[q] = cells[q]
        BY <1>1, <1>3, <1>6
      <3>3. v.cmaps[m] = new
        <4> HIDE DEF new
        <4>1. v = [asked EXCEPT !.cmaps = [asked.cmaps EXCEPT ![m] = new]]
          BY <3>1 DEF new
        <4> QED BY <1>1, <1>3, <4>1 DEF Realized, ColourTypes, SpriteFields
      <3> QED BY <3>2, <3>3
    <2> HIDE DEF def
    <2>7. /\ ColourTypes(w) /\ w.pInstalledMap = asked.pInstalledMap /\ w.pColormap = asked.pColormap
          /\ w.pCursor = asked.pCursor /\ w.chosen = asked.chosen /\ w.cmaps = v.cmaps
          /\ w.shouldBeUp = asked.shouldBeUp /\ w.checkPixels \in {TRUE, asked.checkPixels}
          /\ \A q \in Planes2 : Picked(asked, q) => Picked(w, q)
          /\ \A q \in Planes2 : w.colors[q] = asked.colors[q] \/ (p = asked.colors[q].pixel /\ w.colors[q] = def)
      <3>1. ColorsStored(asked, <<def>>, v, w)
        <4>1. ColourTypes(asked)
          BY <1>3 DEF Realized
        <4> HIDE DEF m, rgb
        <4> QED BY <1>1, <2>1, <2>2, <2>5, <4>1, SpriteStores
      <3>2. /\ ColourTypes(w) /\ w.pInstalledMap = asked.pInstalledMap /\ w.pColormap = asked.pColormap
            /\ w.pCursor = asked.pCursor /\ w.chosen = asked.chosen /\ w.cmaps = v.cmaps /\ w.shouldBeUp = asked.shouldBeUp
        BY <3>1 DEF ColorsStored
      <3>3. w.checkPixels \in {TRUE, asked.checkPixels} /\ \A q \in Planes2 : Picked(asked, q) => Picked(w, q)
        BY <3>1 DEF ColorsStored
      <3>4. \A q \in Planes2 : w.colors[q] = asked.colors[q] \/ (p = asked.colors[q].pixel /\ w.colors[q] = def)
        BY <2>4, <3>1 DEF ColorsStored
      <3> QED BY <3>2, <3>3, <3>4
    <2>8. Realized(w) /\ w.colors[plane].rgb = rgbs[w.pCursor][plane]
      <3>1. w.colors[plane].rgb = rgb
        BY <1>3, <2>4, <2>7
      <3> QED BY <1>1, <1>3, <2>7, <3>1 DEF Realized
    <2>9. u = [w EXCEPT !.colors[plane].pixel = p, !.chosen[plane] = w.cmaps[w.pColormap][p].rgb]
      BY <1>3, <2>3, <2>7
    <2>10. w.cmaps[w.pColormap][p].use # "free"
      BY <1>3, <2>6, <2>7
    <2>11. /\ Realized(u) /\ FoundColour(u, plane, rgbs)
           /\ u.pInstalledMap = w.pInstalledMap /\ u.pColormap = w.pColormap
           /\ u.pCursor = w.pCursor /\ u.cmaps = w.cmaps /\ u.checkPixels = w.checkPixels /\ u.shouldBeUp = w.shouldBeUp
           /\ \A other \in Planes2 \ {plane} : u.colors[other] = w.colors[other] /\ u.chosen[other] = w.chosen[other]
      <3>1. p \in DOMAIN SpriteCells[w.pColormap]
        BY <1>1, <1>3, <1>6, <2>7
      <3> HIDE DEF m, cells, rgb, Taken, With, After
      <3>2. PixelTaken(w, plane, rgbs, u)
        BY <2>8, <2>9, <2>10, <3>1, TakingPixel
      <3> QED BY <3>2 DEF PixelTaken
    <2>12. ASSUME NEW other \in Planes2 \ {plane}, FoundColour(asked, other, rgbs) PROVE FoundColour(u, other, rgbs)
      <3> DEFINE q == asked.colors[other].pixel
      <3>1. q \in DOMAIN cells /\ cells[q].use # "free"
        <4>1. q \in DOMAIN SpriteCells[asked.pColormap]
          BY <2>12, <1>3, <1>1 DEF FoundColour, Picked
        <4>2. cells[q].use # "free" \/ \A r \in DOMAIN cells : cells[r].use # "free"
          BY <2>12, <1>3 DEF FoundColour, Settled
        <4> QED BY <1>1, <1>3, <1>6, <4>1, <4>2
      <3>2. q # p
        BY <1>6, <3>1
      <3>3. w.colors[other] = asked.colors[other]
        BY <2>7, <3>2
      <3>4. u.colors[other] = asked.colors[other] /\ u.chosen[other] = asked.chosen[other]
        BY <2>7, <2>11, <3>3
      <3>5. u.cmaps[m][q] = cells[q] /\ u.pColormap = m /\ u.pCursor = asked.pCursor
        BY <1>3, <2>6, <2>7, <2>11, <3>1, <3>2
      <3>6. Settled(u, other)
        BY <3>1, <3>4, <3>5 DEF Settled
      <3>7. Picked(u, other)
        BY <1>3, <2>12, <3>4, <3>5 DEF FoundColour, Picked
      <3> QED BY <2>12, <3>4, <3>5, <3>6, <3>7 DEF FoundColour
    <2>13. ASSUME UsesOK(s, m) PROVE UsesOK(u, m)
      <3>1. ASSUME NEW o \in SpriteMaps, NEW q \in DOMAIN SpriteCells[o]
            PROVE  v.cmaps[o][q].use \in ClientUses \/ (o = m /\ v.cmaps[o][q].use = "temporary")
        <4>1. s.cmaps[o][q].use \in ClientUses \/ (o = m /\ s.cmaps[o][q].use = "temporary")
          BY <2>13, <3>1 DEF UsesOK
        <4>2. CASE o # m
          <5>1. v.cmaps[o] = asked.cmaps[o]
            BY <2>5, <3>1, <4>2 DEF CellsStored
          <5> QED BY <1>3, <4>1, <5>1
        <4>3. CASE o = m
          <5>1. q \in DOMAIN cells
            BY <1>1, <3>1, <4>3
          <5> QED BY <2>6, <4>1, <4>3, <5>1
        <4> QED BY <4>2, <4>3
      <3>2. u.cmaps = v.cmaps /\ u.checkPixels \in BOOLEAN /\ u.shouldBeUp \in BOOLEAN
        BY <1>3, <2>7, <2>11, <2>13 DEF UsesOK
      <3> QED BY <3>1, <3>2 DEF UsesOK
    <2> QED BY <1>3, <1>4, <2>7, <2>11, <2>12, <2>13 DEF ColorAllocated
  <1>7. CASE \E p \in DOMAIN cells : u = Taken(asked, p) /\ cells[p].use = "shared"
    <2>1. PICK p \in DOMAIN cells : u = Taken(asked, p) /\ cells[p].use = "shared"
      BY <1>7
    <2>2. cells[p].use # "free"
      BY <2>1
    <2> QED BY <1>5, <2>1, <2>2
  <1>8. CASE \E p \in DOMAIN cells : u = Taken(After(p), p) /\ cells[p].use = "free"
    BY <1>6, <1>8
  <1>9. CASE u = Taken(asked, FindBestPixel(cells, rgb)) /\ \A p \in DOMAIN cells : cells[p].use # "free"
    <2>1. FindBestPixel(cells, rgb) \in DOMAIN cells
      <3> HIDE DEF cells, rgb
      <3> QED BY <1>1, NearestExists
    <2> QED BY <1>5, <1>9, <2>1
  <1> QED BY <1>2, <1>7, <1>8, <1>9
-----------------------------------------------------------------------------
LEMMA Unchecking ==
  ASSUME NEW rgbs, NEW s, ColourTypes(s), AllPicked(s), Knows(s, rgbs), UsesOK(s, NullColormap), NEW u, u = [s EXCEPT !.checkPixels = FALSE]
  PROVE  Agrees(u, rgbs) /\ Knows(u, rgbs) /\ u.pCursor = s.pCursor
  <1>1. /\ DOMAIN u = SpriteFields /\ u.colors = s.colors /\ u.chosen = s.chosen /\ u.cmaps = s.cmaps
        /\ u.pInstalledMap = s.pInstalledMap /\ u.pColormap = s.pColormap /\ u.pCursor = s.pCursor
        /\ u.checkPixels = FALSE /\ u.shouldBeUp = s.shouldBeUp
    BY DEF ColourTypes, SpriteFields
  <1>2. UsesOK(u, NullColormap)
    BY <1>1 DEF UsesOK
  <1> QED BY <1>1, <1>2 DEF Agrees, ColourTypes, AllPicked, Picked, Believes, Knows

LEMMA FreeingColors ==
  ASSUME NEW s, Realized(s), NEW u, u = FakeFreeColors(s)
  PROVE  /\ Realized(u) /\ u.colors = s.colors /\ u.chosen = s.chosen
         /\ u.pInstalledMap = s.pInstalledMap /\ u.pColormap = s.pColormap /\ u.pCursor = s.pCursor
         /\ \A plane \in Planes2 : Picked(s, plane) => Picked(u, plane)
         /\ UsesOK(s, s.pColormap) => UsesOK(u, NullColormap)
  <1> DEFINE m == s.pColormap
             cells == s.cmaps[m]
             new == [p \in DOMAIN cells |-> IF cells[p].use = "temporary" THEN [rgb |-> cells[p].rgb, use |-> "free"] ELSE cells[p]]
  <1>1. u = [s EXCEPT !.cmaps[m] = new]
    BY DEF FakeFreeColors
  <1>2. DOMAIN new = DOMAIN cells /\ \A p \in DOMAIN cells : new[p].rgb = cells[p].rgb
        /\ \A q \in DOMAIN cells : new[q].use = IF cells[q].use = "temporary" THEN "free" ELSE cells[q].use
    OBVIOUS
  <1> HIDE DEF new
  <1>3. /\ DOMAIN u = SpriteFields /\ u.colors = s.colors /\ u.chosen = s.chosen /\ u.pInstalledMap = s.pInstalledMap
        /\ u.pColormap = s.pColormap /\ u.pCursor = s.pCursor /\ DOMAIN u.cmaps = SpriteMaps /\ u.cmaps[m] = new
        /\ \A o \in SpriteMaps \ {m} : u.cmaps[o] = s.cmaps[o]
        /\ u.checkPixels = s.checkPixels /\ u.shouldBeUp = s.shouldBeUp
    BY <1>1 DEF Realized, ColourTypes, SpriteFields
  <1>4. \A o \in SpriteMaps : /\ DOMAIN u.cmaps[o] = DOMAIN SpriteCells[o]
                             /\ \A p \in DOMAIN SpriteCells[o] : u.cmaps[o][p].rgb = s.cmaps[o][p].rgb
    BY <1>2, <1>3 DEF Realized, ColourTypes
  <1>5. Realized(u)
    BY <1>3, <1>4 DEF Realized, ColourTypes
  <1>6. ASSUME NEW plane \in Planes2, Picked(s, plane) PROVE Picked(u, plane)
    <2>1. m \in SpriteMaps
      BY DEF Realized
    <2>2. /\ s.colors[plane].pixel \in DOMAIN SpriteCells[m]
          /\ s.cmaps[m][s.colors[plane].pixel].rgb \in {s.chosen[plane], s.colors[plane].rgb}
      BY <1>6, <2>1 DEF Picked
    <2>3. u.cmaps[m][s.colors[plane].pixel].rgb = s.cmaps[m][s.colors[plane].pixel].rgb
      BY <1>4, <2>1, <2>2
    <2> QED BY <1>3, <2>2, <2>3 DEF Picked
  <1>7. ASSUME UsesOK(s, m) PROVE UsesOK(u, NullColormap)
    <2>1. ASSUME NEW o \in SpriteMaps, NEW p \in DOMAIN SpriteCells[o] PROVE u.cmaps[o][p].use \in ClientUses
      <3>1. s.cmaps[o][p].use \in ClientUses \/ (o = m /\ s.cmaps[o][p].use = "temporary")
        BY <1>7, <2>1 DEF UsesOK
      <3>2. CASE o # m
        BY <1>3, <3>1, <3>2
      <3>3. CASE o = m
        <4>1. p \in DOMAIN cells
          BY <2>1, <3>3 DEF Realized, ColourTypes
        <4>2. u.cmaps[o][p].use = IF cells[p].use = "temporary" THEN "free" ELSE cells[p].use
          BY <1>2, <1>3, <3>3, <4>1
        <4> QED BY <3>1, <3>3, <4>2 DEF ClientUses
      <3> QED BY <3>2, <3>3
    <2> QED BY <1>3, <1>7, <2>1 DEF UsesOK
  <1> QED BY <1>3, <1>5, <1>6, <1>7

LEMMA FindingCursorColors ==
  ASSUME NEW rgbs \in CursorRgbs, cursorRgb = rgbs, NEW s, ColourTypes(s), AllPicked(s), s.pCursor \in SpriteCursors,
         UsesOK(s, NullColormap), NEW u \in FindColors(s)
  PROVE  Agrees(u, rgbs) /\ u.pCursor = s.pCursor
  <1> DEFINE asked == [s EXCEPT !.pColormap = s.pInstalledMap]
  <1>1. PICK v : /\ u = [v EXCEPT !.checkPixels = FALSE]
                 /\ \/ v = s /\ Knows(s, rgbs)
                    \/ \E t \in FakeAllocColor(asked, "source") : \E w \in FakeAllocColor(t, "mask") : v = FakeFreeColors(w)
    BY DEF FindColors, ColorsKnown, Knows
  <1>2. CASE v = s /\ Knows(s, rgbs)
    BY <1>1, <1>2, Unchecking
  <1>3. ASSUME NEW t \in FakeAllocColor(asked, "source"), NEW w \in FakeAllocColor(t, "mask"), v = FakeFreeColors(w)
        PROVE  Agrees(u, rgbs) /\ u.pCursor = s.pCursor
    <2>1. Realized(asked) /\ asked.pCursor = s.pCursor /\ asked.pColormap = asked.pInstalledMap
      BY DEF Realized, ColourTypes, SpriteFields
    <2>9. UsesOK(asked, asked.pColormap)
      <3>1. asked.cmaps = s.cmaps /\ asked.checkPixels = s.checkPixels /\ asked.shouldBeUp = s.shouldBeUp
        BY DEF ColourTypes, SpriteFields
      <3> HIDE DEF asked
      <3>2. \A m \in SpriteMaps : m # NullColormap
        BY ColoursAssumption
      <3> QED BY <3>1, <3>2 DEF UsesOK
    <2> HIDE DEF asked
    <2>2. "source" \in Planes2 /\ "mask" \in Planes2 \ {"source"} /\ "source" \in Planes2 \ {"mask"}
          /\ Planes2 = {"source", "mask"}
      BY DEF Planes2
    <2>3. ColorAllocated(asked, "source", rgbs, t)
      BY <1>3, <2>1, <2>2, AllocatingColor
    <2>4. Realized(t) /\ FoundColour(t, "source", rgbs) /\ t.pCursor = s.pCursor /\ t.pColormap = t.pInstalledMap
          /\ UsesOK(t, t.pColormap)
      BY <2>1, <2>3, <2>9 DEF ColorAllocated
    <2>5. ColorAllocated(t, "mask", rgbs, w)
      BY <1>3, <2>2, <2>4, AllocatingColor
    <2>6. /\ Realized(w) /\ FoundColour(w, "mask", rgbs) /\ FoundColour(w, "source", rgbs)
          /\ w.pCursor = s.pCursor /\ w.pColormap = w.pInstalledMap /\ UsesOK(w, w.pColormap)
      BY <2>2, <2>4, <2>5 DEF ColorAllocated
    <2>7. /\ Realized(v) /\ v.colors = w.colors /\ v.pCursor = s.pCursor /\ v.pColormap = v.pInstalledMap
          /\ \A plane \in Planes2 : Picked(w, plane) => Picked(v, plane)
          /\ UsesOK(v, NullColormap)
      BY <1>3, <2>6, FreeingColors
    <2>8. ColourTypes(v) /\ AllPicked(v) /\ Knows(v, rgbs)
      BY <2>2, <2>6, <2>7 DEF Realized, AllPicked, Knows, FoundColour
    <2> QED BY <1>1, <2>7, <2>8, Unchecking
  <1> QED BY <1>1, <1>2, <1>3

-----------------------------------------------------------------------------
(* Nothing that moves pixels touches colours.                              *)

Draws(s, t) == DOMAIN t = SpriteFields /\ SameColours(s, t)

LEMMA DrawsTwice ==
  ASSUME NEW s, NEW t, NEW u, Draws(s, t), Draws(t, u) PROVE Draws(s, u)
  BY DEF Draws, SameColours

LEMMA CopyingDraws ==
  ASSUME NEW s, DOMAIN s = SpriteFields, NEW c, c.to \in {"shown", "pSave"} PROVE Draws(s, CopyBits(s, c))
  BY DEF CopyBits, Draws, SameColours, ColourFields, SpriteFields

LEMMA DrawnAgrees ==
  ASSUME NEW rgbs, NEW s, NEW t, Agrees(s, rgbs), Draws(s, t) PROVE Agrees(t, rgbs) /\ t.pCursor = s.pCursor
  BY SameStays DEF Agrees, Draws, SameColours, ColourFields

LEMMA Drawing ==
  ASSUME NEW s, DOMAIN s = SpriteFields
  PROVE  /\ Draws(s, ComputeSaved(s)) /\ Draws(s, SaveUnderCursor(s)) /\ Draws(s, PutUpCursor(s))
         /\ Draws(s, DCMoveCursor(s)) /\ \A condition : Draws(s, RemoveIf(s, condition))
         /\ \A d : Draws(s, ChangeSave(s, d))
  <1>1. Draws(s, ComputeSaved(s)) /\ Draws(s, PutUpCursor(s))
    BY DEF ComputeSaved, PutUpCursor, Draws, SameColours, ColourFields, SpriteFields
  <1>2. ASSUME NEW save PROVE Draws(s, [s EXCEPT !.pSave = save])
    BY DEF Draws, SameColours, ColourFields, SpriteFields
  <1>3. \A t : DOMAIN t = SpriteFields => Draws(t, RestoreUnderCursor(t))
    BY CopyingDraws DEF RestoreUnderCursor, PutBack
  <1>4. Draws(s, SaveUnderCursor(s))
    <2> DEFINE r(save) == [s EXCEPT !.pSave = save]
    <2>1. PICK save : SaveUnderCursor(s) = CopyBits(r(save), Fetch(s.saved.at, s.saved.size, <<0, 0>>))
      BY DEF SaveUnderCursor
    <2>2. Draws(s, r(save))
      BY <1>2
    <2> HIDE DEF r
    <2>3. Draws(r(save), SaveUnderCursor(s))
      BY <2>1, <2>2, CopyingDraws DEF Draws, Fetch
    <2> QED BY <2>2, <2>3, DrawsTwice
  <1>5. Draws(s, DCMoveCursor(s))
    <2> DEFINE r == [s EXCEPT !.pSave = PutBits(s.pSave, s.pCursor, Minus2(CursorAt(s), s.saved.at), s.colors)]
               v == RestoreUnderCursor(r)
    <2>1. DCMoveCursor(s) = [v EXCEPT !.pSave = s.pSave]
      BY DEF DCMoveCursor
    <2>2. Draws(s, r)
      BY <1>2
    <2> HIDE DEF r
    <2>3. Draws(r, v)
      BY <1>3, <2>2 DEF Draws
    <2> HIDE DEF v
    <2>4. Draws(v, DCMoveCursor(s))
      BY <2>1, <2>3 DEF Draws, SameColours, ColourFields, SpriteFields
    <2> QED BY <2>2, <2>3, <2>4, DrawsTwice
  <1>6. ASSUME NEW condition PROVE Draws(s, RemoveIf(s, condition))
    BY RemovedHasColours DEF Draws
  <1>7. ASSUME NEW d PROVE Draws(s, ChangeSave(s, d))
    <2> DEFINE c == SaveCopies(s.saved.at[1], s.saved.at[2], s.saved.size[1], s.saved.size[2], d[1], d[2])
               t1 == CopyBits(s, c[1])
               t2 == CopyBits(t1, c[2])
               t3 == CopyBits(t2, c[3])
               t4 == CopyBits(t3, c[4])
               t5 == CopyBits(t4, c[5])
    <2>1. c[1].to \in {"shown", "pSave"} /\ c[2].to \in {"shown", "pSave"} /\ c[3].to \in {"shown", "pSave"}
          /\ c[4].to \in {"shown", "pSave"} /\ c[5].to \in {"shown", "pSave"}
      BY DEF SaveCopies, PutBack, Fetch
    <2>2. ChangeSave(s, d) = t5
      BY DEF ChangeSave
    <2> HIDE DEF c
    <2>3. Draws(s, t1)
      BY <2>1, CopyingDraws
    <2> HIDE DEF t1
    <2>4. Draws(s, t2)
      <3>1. DOMAIN t1 = SpriteFields
        BY <2>3 DEF Draws
      <3>2. Draws(t1, t2)
        BY <2>1, <3>1, CopyingDraws
      <3> QED BY <2>3, <3>2, DrawsTwice
    <2> HIDE DEF t2
    <2>5. Draws(s, t3)
      <3>1. DOMAIN t2 = SpriteFields
        BY <2>4 DEF Draws
      <3>2. Draws(t2, t3)
        BY <2>1, <3>1, CopyingDraws
      <3> QED BY <2>4, <3>2, DrawsTwice
    <2> HIDE DEF t3
    <2>6. Draws(s, t4)
      <3>1. DOMAIN t3 = SpriteFields
        BY <2>5 DEF Draws
      <3>2. Draws(t3, t4)
        BY <2>1, <3>1, CopyingDraws
      <3> QED BY <2>5, <3>2, DrawsTwice
    <2> HIDE DEF t4
    <2>7. Draws(s, t5)
      <3>1. DOMAIN t4 = SpriteFields
        BY <2>6 DEF Draws
      <3>2. Draws(t4, t5)
        BY <2>1, <3>1, CopyingDraws
      <3> QED BY <2>6, <3>2, DrawsTwice
    <2> QED BY <2>2, <2>7
  <1> QED BY <1>1, <1>4, <1>5, <1>6, <1>7

LEMMA SlidingDraws ==
  ASSUME NEW s, DOMAIN s = SpriteFields PROVE Draws(s, Slide(s))
  <1> DEFINE next == ComputeSaved(s)
             v == ChangeSave(next, Minus2(s.saved.at, next.saved.at))
  <1>1. Slide(s) = DCMoveCursor(IF WithinSaved(s) THEN s ELSE v)
    BY DEF Slide
  <1>2. Draws(s, next)
    BY Drawing
  <1> HIDE DEF next
  <1>3. Draws(next, v)
    BY <1>2, Drawing DEF Draws
  <1> HIDE DEF v
  <1>4. Draws(s, v)
    BY <1>2, <1>3, DrawsTwice
  <1>5. Draws(v, DCMoveCursor(v)) /\ Draws(s, DCMoveCursor(s))
    BY <1>4, Drawing DEF Draws
  <1>6. Draws(s, DCMoveCursor(v))
    BY <1>4, <1>5, DrawsTwice
  <1> QED BY <1>1, <1>5, <1>6

LEMMA RestoringColours ==
  ASSUME NEW rgbs \in CursorRgbs, cursorRgb = rgbs, NEW s, Agrees(s, rgbs), s.pCursor \in SpriteCursors,
         NEW t \in RestoreCursor(s)
  PROVE  Agrees(t, rgbs) /\ t.pCursor = s.pCursor
  <1> DEFINE r == ComputeSaved(s)
             v == SaveUnderCursor(r)
  <1>1. PICK u : t = PutUpCursor(u) /\ (u = v \/ u \in FindColors(v))
    BY DEF RestoreCursor
  <1>2. Draws(s, r)
    BY Drawing DEF Agrees, ColourTypes
  <1> HIDE DEF r
  <1>3. Draws(r, v)
    BY <1>2, Drawing DEF Draws
  <1> HIDE DEF v
  <1>4. Agrees(v, rgbs) /\ v.pCursor = s.pCursor
    BY <1>2, <1>3, DrawnAgrees
  <1>5. Agrees(u, rgbs) /\ u.pCursor = s.pCursor
    <2>1. CASE u = v
      BY <1>4, <2>1
    <2>2. CASE u \in FindColors(v)
      BY <1>4, <2>2, FindingCursorColors DEF Agrees
    <2> QED BY <1>1, <2>1, <2>2
  <1>6. Draws(u, t)
    BY <1>1, <1>5, Drawing DEF Agrees, ColourTypes
  <1> QED BY <1>5, <1>6, DrawnAgrees

\* The cursor is put somewhere.
Placed(s, t, cursor) ==
    /\ DOMAIN t = SpriteFields /\ t.pCursor = cursor /\ t.shouldBeUp \in BOOLEAN
    /\ t.colors = s.colors /\ t.chosen = s.chosen /\ t.checkPixels = s.checkPixels
    /\ t.pInstalledMap = s.pInstalledMap /\ t.pColormap = s.pColormap /\ t.cmaps = s.cmaps

LEMMA PlacedAgrees ==
  ASSUME NEW rgbs, NEW s, Agrees(s, rgbs), NEW cursor, NEW t, Placed(s, t, cursor)
  PROVE  /\ ColourTypes(t) /\ AllPicked(t) /\ UsesOK(t, NullColormap)
         /\ cursor = s.pCursor \/ cursor = NoCursor => Agrees(t, rgbs)
  <1>1. UsesOK(t, NullColormap)
    BY DEF Placed, Agrees, UsesOK
  <1> QED BY <1>1 DEF Placed, Agrees, ColourTypes, AllPicked, Picked, Believes, Knows

LEMMA SettingColours ==
  ASSUME NEW rgbs \in CursorRgbs, cursorRgb = rgbs, NEW s, Agrees(s, rgbs),
         NEW cursor \in SpriteCursors \cup {NoCursor}, NEW x, NEW y, NEW t \in SetCursor(s, cursor, x, y)
  PROVE  Agrees(t, rgbs) /\ t.pCursor = cursor
  <1> DEFINE placed == [s EXCEPT !.shouldBeUp = TRUE, !.x = x, !.y = y, !.pCursor = cursor]
             raised == [s EXCEPT !.shouldBeUp = TRUE]
             gone == RemoveIf(s, TRUE)
             Same == cursor # NoCursor /\ placed = raised /\ ~s.checkPixels
  <1>1. DOMAIN s = SpriteFields
    BY DEF Agrees, ColourTypes
  <1>2. Placed(s, placed, cursor)
    BY <1>1 DEF Placed, SpriteFields
  <1>3. CASE cursor = NoCursor
    <2>1. t = [gone EXCEPT !.shouldBeUp = FALSE, !.pCursor = NoCursor]
      BY <1>3 DEF SetCursor
    <2>2. Draws(s, gone)
      BY <1>1, Drawing
    <2> HIDE DEF gone
    <2>3. Agrees(gone, rgbs)
      BY <2>2, DrawnAgrees
    <2>4. Placed(gone, t, NoCursor)
      BY <2>1, <2>2 DEF Draws, Placed, SpriteFields
    <2> QED BY <1>3, <2>3, <2>4, PlacedAgrees DEF Placed
  <1>4. CASE Same
    <2>1. t = placed
      BY <1>4 DEF SetCursor
    <2>2. raised.pCursor = s.pCursor
      BY <1>1 DEF SpriteFields
    <2>3. cursor = s.pCursor
      BY <1>2, <1>4, <2>2 DEF Placed
    <2> HIDE DEF placed, raised
    <2> QED BY <1>2, <2>1, <2>3, PlacedAgrees DEF Placed
  <1>5. CASE cursor # NoCursor /\ ~Same
    <2>1. PICK u \in IF s.checkPixels \/ s.pCursor # cursor THEN FindColors(placed) ELSE {placed} :
             t \in IF u.isUp /\ CanSlide(u) THEN {Slide(u)} ELSE RestoreCursor(RemoveIf(u, TRUE))
      BY <1>5 DEF SetCursor
    <2> HIDE DEF placed, raised
    <2>2. ColourTypes(placed) /\ AllPicked(placed) /\ UsesOK(placed, NullColormap) /\ placed.pCursor = cursor /\ cursor \in SpriteCursors
      BY <1>2, <1>5, PlacedAgrees DEF Placed
    <2>3. Agrees(u, rgbs) /\ u.pCursor = cursor
      <3>1. CASE s.checkPixels \/ s.pCursor # cursor
        <4>1. u \in FindColors(placed)
          BY <2>1, <3>1
        <4> QED BY <2>2, <4>1, FindingCursorColors
      <3>2. CASE ~(s.checkPixels \/ s.pCursor # cursor)
        <4>1. u = placed /\ cursor = s.pCursor
          BY <2>1, <3>2
        <4> QED BY <1>2, <2>2, <4>1, PlacedAgrees
      <3> QED BY <3>1, <3>2
    <2>4. CASE u.isUp /\ CanSlide(u)
      <3>1. t = Slide(u) /\ DOMAIN u = SpriteFields
        BY <2>1, <2>3, <2>4 DEF Agrees, ColourTypes
      <3>2. Draws(u, t)
        BY <3>1, SlidingDraws
      <3> QED BY <2>3, <3>2, DrawnAgrees
    <2>5. CASE ~(u.isUp /\ CanSlide(u))
      <3> DEFINE v == RemoveIf(u, TRUE)
      <3>1. t \in RestoreCursor(v)
        BY <2>1, <2>5
      <3>2. Draws(u, v)
        BY <2>3, Drawing DEF Agrees, ColourTypes
      <3> HIDE DEF v
      <3>3. Agrees(v, rgbs) /\ v.pCursor = cursor
        BY <2>3, <3>2, DrawnAgrees
      <3> QED BY <2>2, <3>1, <3>3, RestoringColours
    <2> QED BY <2>4, <2>5
  <1> QED BY <1>3, <1>4, <1>5

-----------------------------------------------------------------------------
(* The steps.                                                              *)

ColourInv == cursorRgb \in CursorRgbs /\ Agrees(sprite, cursorRgb)

LEMMA CursorStepsAgree == SpriteInv /\ ColourInv /\ CursorSteps => ColourInv'
  <1> SUFFICES ASSUME SpriteInv, ColourInv, CursorSteps PROVE ColourInv'
    OBVIOUS
  <1> DEFINE rgbs == cursorRgb
  <1>1. rgbs \in CursorRgbs /\ Agrees(sprite, rgbs) /\ IsSprite(sprite) /\ DOMAIN sprite = SpriteFields
    BY DEF ColourInv, SpriteInv, Steady, IsSprite
  <1>2. ASSUME NEW c \in SpriteCursors \cup {NoCursor}, NEW x, NEW y, DisplayCursor(c, x, y) PROVE ColourInv'
    <2>1. Agrees(sprite', rgbs)
      BY <1>1, <1>2, SettingColours DEF DisplayCursor
    <2> QED BY <1>1, <1>2, <2>1 DEF DisplayCursor, ColourInv
  <1>3. ASSUME NEW p \in SpritePixels, MoveCursor(p[1], p[2]) PROVE ColourInv'
    BY <1>1, <1>2, <1>3 DEF MoveCursor, IsSprite
  <1>4. ASSUME BlockHandler PROVE ColourInv'
    <2>1. sprite.pCursor \in SpriteCursors
      BY <1>1, <1>4 DEF BlockHandler, IsSprite
    <2>2. Agrees(sprite', rgbs)
      BY <1>1, <1>4, <2>1, RestoringColours DEF BlockHandler
    <2> QED BY <1>1, <1>4, <2>2 DEF BlockHandler, ColourInv
  <1>5. ASSUME NEW c \in SpriteCursors, NEW r \in Rgbs, RecolorCursor(c, r, cursorRgb[c]["mask"]) PROVE ColourInv'
    <2> DEFINE new == [rgbs EXCEPT ![c] = [source |-> r, mask |-> rgbs[c]["mask"]]]
    <2>1. [source |-> r, mask |-> rgbs[c]["mask"]] \in [Planes2 -> Int]
      <3>1. rgbs[c]["mask"] \in Int /\ r \in Int
        BY <1>1, SpriteAssumption DEF CursorRgbs, Planes2
      <3> HIDE DEF rgbs
      <3> QED BY <3>1 DEF Planes2
    <2>2. new \in CursorRgbs /\ \A o \in SpriteCursors \ {c} : new[o] = rgbs[o]
      BY <1>1, <2>1 DEF CursorRgbs
    <2>3. cursorRgb' = new
      BY <1>5 DEF RecolorCursor
    <2> HIDE DEF new, rgbs
    <2>4. CASE c = sprite.pCursor
      <3>1. sprite' = [sprite EXCEPT !.checkPixels = TRUE]
        BY <1>5, <2>4 DEF RecolorCursor
      <3>2. /\ DOMAIN sprite' = SpriteFields /\ sprite'.colors = sprite.colors /\ sprite'.chosen = sprite.chosen
            /\ sprite'.checkPixels = TRUE /\ sprite'.pInstalledMap = sprite.pInstalledMap
            /\ sprite'.pColormap = sprite.pColormap /\ sprite'.cmaps = sprite.cmaps
            /\ sprite'.shouldBeUp = sprite.shouldBeUp
        BY <1>1, <3>1 DEF SpriteFields
      <3>3. UsesOK(sprite', NullColormap)
        BY <1>1, <3>2 DEF Agrees, UsesOK
      <3>4. Agrees(sprite', new)
        BY <1>1, <3>2, <3>3 DEF Agrees, ColourTypes, AllPicked, Picked, Believes
      <3> QED BY <2>2, <2>3, <3>4 DEF ColourInv
    <2>5. CASE c # sprite.pCursor
      <3>1. sprite' = sprite
        BY <1>5, <2>5 DEF RecolorCursor
      <3>2. sprite.pCursor # NoCursor => new[sprite.pCursor] = rgbs[sprite.pCursor]
        BY <1>1, <2>2, <2>5 DEF IsSprite
      <3>3. Agrees(sprite, new)
        BY <1>1, <3>2 DEF Agrees, Believes, Knows
      <3> QED BY <2>2, <2>3, <3>1, <3>3 DEF ColourInv
    <2> QED BY <2>4, <2>5
  <1>6. ASSUME NEW p \in SomePoints, NEW c \in SpriteCursors \cup {NoCursor}, DisplayCursor(c, p[1], p[2]) PROVE ColourInv'
    BY <1>2, <1>6
  <1> QED BY <1>3, <1>4, <1>5, <1>6 DEF CursorSteps

LEMMA ColourStepsAgree == SpriteInv /\ ColourInv /\ ColourSteps => ColourInv'
  <1> SUFFICES ASSUME SpriteInv, ColourInv, NEW m \in SpriteMaps,
                      \/ InstallColormap(m)
                      \/ \E defs \in SomeDefs : StoreColors(m, defs)
                      \/ \E p \in DOMAIN SpriteCells[m] :
                            (\E r \in Rgbs : AllocSharedCell(m, p, r)) \/ AllocPrivateCell(m, p) \/ FreeCellOf(m, p)
               PROVE  ColourInv'
    BY DEF ColourSteps
  <1> DEFINE rgbs == cursorRgb
  <1>1. rgbs \in CursorRgbs /\ Agrees(sprite, rgbs) /\ ColourTypes(sprite) /\ DOMAIN sprite = SpriteFields
    BY DEF ColourInv, Agrees, ColourTypes
  <1> HIDE DEF rgbs
  <1>2. ASSUME Agrees(sprite', rgbs), UNCHANGED cursorRgb PROVE ColourInv'
    BY <1>1, <1>2 DEF ColourInv, rgbs
  <1>3. ASSUME InstallColormap(m) PROVE ColourInv'
    <2> DEFINE s == RemoveIf(sprite, TRUE)
    <2>1. Draws(sprite, s)
      BY <1>1, Drawing
    <2>2. IF sprite.pColormap = m THEN sprite' = [sprite EXCEPT !.pInstalledMap = m]
          ELSE sprite' = [s EXCEPT !.pInstalledMap = m, !.checkPixels = TRUE]
      BY <1>3 DEF InstallColormap
    <2> HIDE DEF s
    <2>3. Agrees(s, rgbs)
      BY <1>1, <2>1, DrawnAgrees
    <2>4. CASE sprite.pColormap = m
      <3>1. sprite' = [sprite EXCEPT !.pInstalledMap = m]
        BY <2>2, <2>4
      <3>2. /\ DOMAIN sprite' = SpriteFields /\ sprite'.colors = sprite.colors /\ sprite'.chosen = sprite.chosen
            /\ sprite'.checkPixels = sprite.checkPixels /\ sprite'.pInstalledMap = m /\ sprite'.pCursor = sprite.pCursor
            /\ sprite'.pColormap = sprite.pColormap /\ sprite'.cmaps = sprite.cmaps
            /\ sprite'.shouldBeUp = sprite.shouldBeUp
        BY <1>1, <3>1 DEF SpriteFields
      <3>4. UsesOK(sprite', NullColormap)
        BY <1>1, <3>2 DEF Agrees, UsesOK
      <3>3. Agrees(sprite', rgbs)
        BY <1>1, <2>4, <3>2, <3>4 DEF Agrees, ColourTypes, AllPicked, Picked, Believes, Knows
      <3> QED BY <1>2, <1>3, <3>3 DEF InstallColormap
    <2>5. CASE sprite.pColormap # m
      <3>1. sprite' = [s EXCEPT !.pInstalledMap = m, !.checkPixels = TRUE] /\ DOMAIN s = SpriteFields
        BY <2>1, <2>2, <2>5 DEF Draws
      <3>2. /\ DOMAIN sprite' = SpriteFields /\ sprite'.colors = s.colors /\ sprite'.chosen = s.chosen
            /\ sprite'.checkPixels = TRUE /\ sprite'.pInstalledMap = m
            /\ sprite'.pColormap = s.pColormap /\ sprite'.cmaps = s.cmaps
            /\ sprite'.shouldBeUp = s.shouldBeUp
        BY <3>1 DEF SpriteFields
      <3>4. UsesOK(sprite', NullColormap)
        <4>1. sprite'.checkPixels \in BOOLEAN
          BY <3>2
        <4> QED BY <2>3, <3>2, <4>1 DEF Agrees, UsesOK
      <3>3. Agrees(sprite', rgbs)
        BY <2>3, <3>2, <3>4 DEF Agrees, ColourTypes, AllPicked, Picked, Believes
      <3> QED BY <1>2, <1>3, <3>3 DEF InstallColormap
    <2> QED BY <2>4, <2>5
  <1>4. ASSUME NEW defs \in Seq(Colour), Distinct(defs), NEW use \in ClientUses, Stores(sprite, m, defs, use) PROVE ColourInv'
    <2> DEFINE v == [sprite EXCEPT !.cmaps[m] = CellsWith(@, defs, use)]
    <2>1. CellsStored(sprite, m, defs, v)
      BY <1>1, <1>4, StoringCells
    <2>2. sprite' = SpriteStoreColors(v, m, defs)
      BY <1>4 DEF Stores
    <2>5. \A p \in DOMAIN sprite.cmaps[m] : v.cmaps[m][p] = sprite.cmaps[m][p] \/ v.cmaps[m][p].use = use
      <3> DEFINE new == CellsWith(sprite.cmaps[m], defs, use)
      <3>1. \A p \in DOMAIN sprite.cmaps[m] : new[p] = sprite.cmaps[m][p] \/ new[p].use = use
        BY DEF CellsWith
      <3>2. v = [sprite EXCEPT !.cmaps[m] = new]
        OBVIOUS
      <3> HIDE DEF new, v
      <3>3. v.cmaps[m] = new
        BY <1>1, <3>2 DEF ColourTypes, SpriteFields
      <3> QED BY <3>1, <3>3
    <2> HIDE DEF v
    <2>3. ColorsStored(sprite, defs, v, sprite')
      BY <1>1, <1>4, <2>1, <2>2, SpriteStores
    <2>6. ASSUME NEW o \in SpriteMaps, NEW p \in DOMAIN SpriteCells[o] PROVE v.cmaps[o][p].use \in ClientUses
      <3>1. sprite.cmaps[o][p].use \in ClientUses /\ p \in DOMAIN sprite.cmaps[o]
        BY <1>1, <2>6, ColoursAssumption DEF Agrees, UsesOK, ColourTypes
      <3>2. o # m => v.cmaps[o] = sprite.cmaps[o]
        BY <2>1, <2>6 DEF CellsStored
      <3> QED BY <1>4, <2>5, <3>1, <3>2
    <2>7. UsesOK(sprite', NullColormap)
      BY <1>1, <2>3, <2>6 DEF ColorsStored, Agrees, UsesOK
    <2>4. Agrees(sprite', rgbs)
      BY <1>1, <2>3, <2>7 DEF ColorsStored, Agrees, AllPicked, Believes, Knows
    <2> QED BY <1>2, <1>4, <2>4 DEF Stores
  <1>5. ASSUME NEW defs \in SomeDefs, StoreColors(m, defs) PROVE ColourInv'
    <2>1. defs \in Seq(Colour) /\ Distinct(defs)
      BY ColoursAssumption, DefinitionsAssumption DEF Colour, Distinct
    <2> QED BY <1>4, <1>5, <2>1 DEF StoreColors, ClientUses
  <1>6. ASSUME NEW p \in DOMAIN SpriteCells[m], NEW r \in Rgbs, AllocSharedCell(m, p, r) PROVE ColourInv'
    <2>1. p \in Nat /\ r \in Int
      BY ColoursAssumption, SpriteAssumption
    <2>2. <<Def(p, r)>> \in Seq(Colour) /\ Distinct(<<Def(p, r)>>)
      BY <2>1, OneDefinition DEF Def
    <2> QED BY <1>4, <1>6, <2>2 DEF AllocSharedCell, ClientUses
  <1>7. ASSUME NEW p \in DOMAIN SpriteCells[m], NEW from, NEW to \in ClientUses, ChangesUse(m, p, from, to) PROVE ColourInv'
    <2> DEFINE new == [sprite.cmaps[m] EXCEPT ![p] = [rgb |-> sprite.cmaps[m][p].rgb, use |-> to]]
    <2>1. sprite' = [sprite EXCEPT !.cmaps[m] = new]
      BY <1>7 DEF ChangesUse, WithCell, Cell
    <2>2. DOMAIN new = DOMAIN sprite.cmaps[m] /\ \A q \in DOMAIN sprite.cmaps[m] : new[q].rgb = sprite.cmaps[m][q].rgb
          /\ \A r \in DOMAIN sprite.cmaps[m] : new[r].use \in {to, sprite.cmaps[m][r].use}
      OBVIOUS
    <2> HIDE DEF new
    <2>3. /\ DOMAIN sprite' = SpriteFields /\ sprite'.colors = sprite.colors /\ sprite'.chosen = sprite.chosen
          /\ sprite'.checkPixels = sprite.checkPixels /\ sprite'.pInstalledMap = sprite.pInstalledMap
          /\ sprite'.pCursor = sprite.pCursor /\ sprite'.pColormap = sprite.pColormap
          /\ DOMAIN sprite'.cmaps = SpriteMaps /\ sprite'.cmaps[m] = new /\ sprite'.shouldBeUp = sprite.shouldBeUp
          /\ \A o \in SpriteMaps \ {m} : sprite'.cmaps[o] = sprite.cmaps[o]
      BY <1>1, <2>1 DEF ColourTypes, SpriteFields
    <2>4. \A o \in SpriteMaps : /\ DOMAIN sprite'.cmaps[o] = DOMAIN SpriteCells[o]
                               /\ \A q \in DOMAIN SpriteCells[o] : sprite'.cmaps[o][q].rgb = sprite.cmaps[o][q].rgb
                               /\ \A r \in DOMAIN SpriteCells[o] : sprite'.cmaps[o][r].use \in {to, sprite.cmaps[o][r].use}
      BY <1>1, <2>2, <2>3 DEF ColourTypes
    <2>5. ColourTypes(sprite')
      BY <1>1, <2>3, <2>4 DEF ColourTypes
    <2>6. AllPicked(sprite')
      <3>1. ASSUME NEW plane \in Planes2, Picked(sprite, plane) PROVE Picked(sprite', plane)
        <4> DEFINE o == sprite.pColormap
                   q == sprite.colors[plane].pixel
        <4>1. o \in SpriteMaps => q \in DOMAIN SpriteCells[o] /\ sprite'.cmaps[o][q].rgb = sprite.cmaps[o][q].rgb
          BY <2>4, <3>1 DEF Picked
        <4>2. sprite'.colors = sprite.colors /\ sprite'.chosen = sprite.chosen /\ sprite'.pColormap = o
          BY <2>3
        <4> QED BY <3>1, <4>1, <4>2 DEF Picked
      <3> QED BY <1>1, <3>1 DEF Agrees, AllPicked
    <2>7. Believes(sprite', rgbs)
      BY <1>1, <2>3 DEF Agrees, Believes, Knows
    <2>8. UsesOK(sprite', NullColormap)
      <3>1. \A o \in SpriteMaps : \A q \in DOMAIN SpriteCells[o] : sprite.cmaps[o][q].use \in ClientUses
        BY <1>1, ColoursAssumption DEF Agrees, UsesOK
      <3> QED BY <1>1, <1>7, <2>3, <2>4, <3>1 DEF Agrees, UsesOK
    <2> QED BY <1>2, <1>7, <2>5, <2>6, <2>7, <2>8 DEF ChangesUse, Agrees
  <1> QED BY <1>3, <1>5, <1>6, <1>7 DEF AllocPrivateCell, FreeCellOf, ClientUses

LEMMA ScreenStepsAgree == ColourInv /\ ScreenSteps => ColourInv'
  <1> SUFFICES ASSUME ColourInv, ScreenSteps PROVE ColourInv'
    OBVIOUS
  <1> DEFINE rgbs == cursorRgb
  <1>1. rgbs \in CursorRgbs /\ Agrees(sprite, rgbs) /\ DOMAIN sprite = SpriteFields
    BY DEF ColourInv, Agrees, ColourTypes
  <1> HIDE DEF rgbs
  <1>2. ASSUME Draws(sprite, sprite'), UNCHANGED cursorRgb PROVE ColourInv'
    <2>1. Agrees(sprite', rgbs)
      BY <1>1, <1>2, DrawnAgrees
    <2> QED BY <1>1, <1>2, <2>1 DEF ColourInv, rgbs
  <1>3. ASSUME NEW condition PROVE Draws(sprite, RemoveIf(sprite, condition))
    BY <1>1, Drawing
  <1>4. ASSUME NEW s, Draws(sprite, s), NEW image, sprite' = [s EXCEPT !.shown = image], UNCHANGED cursorRgb
        PROVE  ColourInv'
    <2>1. Draws(s, sprite')
      BY <1>4 DEF Draws, SameColours, ColourFields, SpriteFields
    <2>2. Draws(sprite, sprite')
      BY <1>4, <2>1, DrawsTwice
    <2> QED BY <1>2, <1>4, <2>2
  <1>5. ASSUME NEW region \in SomeShapes, Draw(region) PROVE ColourInv'
    <2> DEFINE s == ReportDamage(sprite, region)
    <2>1. PICK image : sprite' = [s EXCEPT !.shown = image] /\ UNCHANGED cursorRgb
      BY <1>5 DEF Draw
    <2>2. Draws(sprite, s)
      BY <1>3 DEF ReportDamage
    <2> HIDE DEF s
    <2> QED BY <1>4, <2>1, <2>2
  <1>6. ASSUME NEW s, Draws(sprite, s), NEW region, NEW d, MoveBits(s, region, d) PROVE ColourInv'
    <2> DEFINE t == ReportDamage(s, Translate(region, d))
    <2>1. PICK image : sprite' = [t EXCEPT !.shown = image] /\ UNCHANGED cursorRgb
      BY <1>6 DEF MoveBits
    <2>2. Draws(s, t)
      BY <1>6, Drawing DEF ReportDamage, Draws
    <2>3. Draws(sprite, t)
      BY <1>6, <2>2, DrawsTwice
    <2> HIDE DEF t
    <2> QED BY <1>4, <2>1, <2>3
  <1>7. ASSUME NEW region, NEW d, CopySpriteWindow(region, d) PROVE ColourInv'
    BY <1>3, <1>6, <1>7 DEF CopySpriteWindow
  <1>8. ASSUME NEW at, NEW size, NEW d, CopyAreaInWindow(at, size, d) PROVE ColourInv'
    BY <1>3, <1>6, <1>8 DEF CopyAreaInWindow, SourceValidate
  <1>9. ASSUME NEW obscured, NEW d, SaveDoomedAreas(obscured, d) PROVE ColourInv'
    BY <1>2, <1>3, <1>9 DEF SaveDoomedAreas
  <1>10. ASSUME NEW at, NEW size, GetImage(at, size) PROVE ColourInv'
    BY <1>2, <1>3, <1>10 DEF GetImage, SourceValidate
  <1>11. ASSUME NEW at, NEW w, GetSpans(at, w) PROVE ColourInv'
    BY <1>2, <1>3, <1>11 DEF GetSpans
  <1> QED BY <1>5, <1>7, <1>8, <1>9, <1>10, <1>11 DEF ScreenSteps

LEMMA ColoursInductive == SpriteSpec => []ColourInv
  <1>1. SpriteInit => ColourInv
    <2> SUFFICES ASSUME SpriteInit PROVE ColourInv
      OBVIOUS
    <2>1. /\ DOMAIN sprite = SpriteFields /\ sprite.pCursor = NoCursor /\ sprite.checkPixels = TRUE
          /\ sprite.colors = [plane \in Planes2 |-> Def(0, 0)] /\ sprite.chosen = [plane \in Planes2 |-> 0]
          /\ sprite.pInstalledMap = CHOOSE m \in SpriteMaps : TRUE
          /\ sprite.pColormap = NullColormap /\ sprite.cmaps = SpriteCells
          /\ sprite.shouldBeUp = FALSE
      BY DEF SpriteInit, SpriteFields
    <2>2. sprite.pInstalledMap \in SpriteMaps
      BY <2>1, ColoursAssumption
    <2>3. sprite.colors \in [Planes2 -> Colour]
      BY <2>1 DEF Colour, Def
    <2>4. ColourTypes(sprite)
      BY <2>1, <2>2, <2>3, ColoursAssumption DEF ColourTypes
    <2>5. AllPicked(sprite)
      BY <2>1, ColoursAssumption DEF AllPicked, Picked
    <2>8. UsesOK(sprite, NullColormap)
      BY <2>1, ColoursAssumption DEF UsesOK, ClientUses
    <2>6. Agrees(sprite, cursorRgb)
      BY <2>1, <2>4, <2>5, <2>8 DEF Agrees, Believes
    <2>7. cursorRgb \in CursorRgbs
      BY ColoursAssumption DEF SpriteInit, CursorRgbs
    <2> QED BY <2>6, <2>7 DEF ColourInv
  <1>2. SpriteInv /\ ColourInv /\ [SpriteNext]_spriteVars => ColourInv'
    <2>1. ASSUME ColourInv, UNCHANGED spriteVars PROVE ColourInv'
      BY <2>1 DEF ColourInv, spriteVars
    <2> QED BY <2>1, CursorStepsAgree, ColourStepsAgree, ScreenStepsAgree DEF SpriteNext
  <1> QED BY <1>1, <1>2, SpriteInductive, PTL DEF SpriteSpec

\* For any cells, colours and cursors: whatever clients store, allocate and free
\* behind the sprite's back, and whichever map is installed meanwhile, a cursor
\* that is shown as checked has the colours it had when its pixels were picked, or
\* those it should have.
THEOREM CursorColoursAreCurrent == SpriteSpec => []SpriteColoursAreCurrent
  <1>1. SpriteInv /\ ColourInv => SpriteColoursAreCurrent
    <2> SUFFICES ASSUME SpriteInv, ColourInv, sprite.isUp, ~sprite.checkPixels, NEW plane \in Planes2
                 PROVE  Cell(sprite.pInstalledMap, sprite.colors[plane].pixel).rgb
                            \in {sprite.chosen[plane], cursorRgb[sprite.pCursor][plane]}
      BY DEF SpriteColoursAreCurrent
    <2>1. sprite.pCursor \in SpriteCursors /\ sprite.pCursor # NoCursor
      BY ColoursAssumption DEF SpriteInv, Steady, IsSprite
    <2>2. ColourTypes(sprite) /\ Picked(sprite, plane) /\ Knows(sprite, cursorRgb)
      BY <2>1 DEF ColourInv, Agrees, AllPicked, Believes
    <2> QED BY <2>2 DEF Knows, Picked, ColourTypes, Cell
  <1> QED BY <1>1, SpriteInductive, ColoursInductive, PTL

\* The state of the sprite has its type; a cursor that is up should be up and is
\* one, and between steps no cell of a colormap is left as the sprite's own.
THEOREM SpriteTypeCorrect == SpriteSpec => []SpriteTypeOK
  <1> DEFINE Count == spriteChanges \in 0 .. MaxSpriteChanges
  <1>1. SpriteSpec => []Count
    <2>1. SpriteInit => Count
      BY SpriteAssumption DEF SpriteInit
    <2>2. Count /\ [SpriteNext]_spriteVars => Count'
      <3> SUFFICES ASSUME Count, [SpriteNext]_spriteVars PROVE Count'
        OBVIOUS
      <3>1. CursorSteps => UNCHANGED spriteChanges \/ Counts(1)
        BY DEF CursorSteps, MoveCursor, DisplayCursor, BlockHandler, RecolorCursor
      <3>2. ColourSteps => Counts(1)
        BY DEF ColourSteps, InstallColormap, StoreColors, AllocSharedCell, AllocPrivateCell, FreeCellOf, ChangesUse, Stores
      <3>3. ScreenSteps => UNCHANGED spriteChanges \/ Counts(2)
        BY DEF ScreenSteps, Draw, CopySpriteWindow, CopyAreaInWindow, SaveDoomedAreas, GetImage, GetSpans
      <3>4. UNCHANGED spriteChanges \/ Counts(1) \/ Counts(2)
        BY <3>1, <3>2, <3>3 DEF SpriteNext, spriteVars
      <3> QED BY <3>4, SpriteAssumption DEF Counts
    <2> QED BY <2>1, <2>2, PTL DEF SpriteSpec
  <1>2. SpriteInv /\ ColourInv /\ Count => SpriteTypeOK
    <2> SUFFICES ASSUME SpriteInv, ColourInv, Count PROVE SpriteTypeOK
      OBVIOUS
    <2>1. /\ sprite.pCursor \in SpriteCursors \cup {NoCursor} /\ sprite.isUp \in BOOLEAN
          /\ DOMAIN sprite.shown = SpritePixels
          /\ sprite.isUp => sprite.shouldBeUp /\ sprite.pCursor # NoCursor
      BY ColoursAssumption DEF SpriteInv, Steady, IsSprite, IsImage
    <2>2. /\ sprite.shouldBeUp \in BOOLEAN /\ sprite.checkPixels \in BOOLEAN
          /\ \A m \in SpriteMaps : \A p \in DOMAIN SpriteCells[m] : Cell(m, p).use \in ClientUses
      BY ColoursAssumption DEF ColourInv, Agrees, UsesOK, Cell
    <2> QED BY <2>1, <2>2 DEF SpriteTypeOK, ClientUses
  <1> QED BY <1>1, <1>2, SpriteInductive, ColoursInductive, PTL
=============================================================================
