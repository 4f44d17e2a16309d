------------------------------ MODULE Colormaps ------------------------------
(***************************************************************************)
(* PseudoColor colormaps, dix/colormap.c.  The cells of a colormap are      *)
(* shared by clients (read-only cells, counted), or private to one.  What a *)
(* client has allocated is kept twice: in the counts of the cells and in    *)
(* the client's list of pixels, which tells what to free when it dies.      *)
(* Cells of AllocColorPlanes share the red, green and blue of their colours.*)
(*                                                                         *)
(* Left out: the other visual classes, StoreColors (it writes private cells *)
(* only), installed colormaps, the cursor's temporary cells, allocations    *)
(* that fail.  Which of several suitable cells is taken is a choice.        *)
(***************************************************************************)
EXTENDS Integers, Sequences, FiniteSets, SequencesExt, FiniteSetsExt

CONSTANTS
    ColourClients,
    Maps, MapOwner,   \* IDs of colormaps, and whose they are
    Pixels,           \* 0 .. ColormapEntries - 1
    PlaneMasks,       \* the bits of a pixel
    Planes,           \* 0, and the channels AllocColorPlanes is asked a plane of
    Colours,
    MaxRefs           \* bound: the count of a cell

ASSUME ColormapAssumption ==
    /\ IsFiniteSet(ColourClients) /\ MapOwner \in [Maps -> ColourClients]
    /\ IsFiniteSet(Pixels) /\ Pixels \subseteq Nat /\ PlaneMasks \subseteq Nat
    /\ MaxRefs \in Nat \ {0}

VARIABLES
    colormaps,    \* the colormap of each ID, or NoMap
    shared,       \* the SHAREDCOLORs: their refcnt
    cmapEntries,  \* RT_CMAPENTRY resources, <<colormap, client>>
    colourClients \* the clients that are connected

colormapVars == <<colormaps, shared, cmapEntries, colourClients>>

NoMap == [all |-> FALSE]
AllocPrivate == -1

Exists(m) == colormaps[m] # NoMap

EmptyCell == [refcnt |-> 0, colour |-> "none", shares |-> {}]
PrivateCell == [EmptyCell EXCEPT !.refcnt = AllocPrivate]

----------------------------------------------------------------------------
(* Freeing.                                                                *)

FreeCell(map, p) ==
    IF map.cells[p].refcnt > 1 THEN [map EXCEPT !.cells[p].refcnt = @ - 1]
    ELSE [map EXCEPT !.cells[p] = EmptyCell, !.free = @ + 1]

FreePixels(map, c) ==
    LET list == map.pixels[c]
        freed[i \in 0..Len(list)] == IF i = 0 THEN [map EXCEPT !.pixels[c] = <<>>]
                                     ELSE FreeCell(freed[i - 1], list[i])
    IN  freed[Len(list)]

\* The cells of colormaps maps that use SHAREDCOLOR i.
Users(maps, i) == {x \in Maps \X Pixels : maps[x[1]] # NoMap /\ i \in maps[x[1]].cells[x[2]].shares}

\* SHAREDCOLORs lose a reference for each cell that is freed when the colormaps
\* become maps; one without references is freed.
Released(maps) ==
    LET left == [i \in DOMAIN shared |->
                    shared[i] - Cardinality(Users(colormaps, i)) + Cardinality(Users(maps, i))]
    IN  [i \in {j \in DOMAIN shared : left[j] > 0} |-> left[i]]

\* FreeCo for one pixel: only a client that has it in its list may free it.
FreePixel(map, c, p) ==
    LET at == {i \in DOMAIN map.pixels[c] : map.pixels[c][i] = p}
    IN  IF at = {} THEN map
        ELSE [FreeCell(map, p) EXCEPT !.pixels[c] = RemoveAt(@, Min(at))]

Has(p, mask) == mask # 0 /\ (p \div mask) % 2 = 1

\* The other pixel that p and a plane mask mean.
Partner(p, mask) == IF Has(p, mask) THEN p ELSE p + mask

FreeColors(c, m, p, mask) ==
    /\ Exists(m) /\ ~colormaps[m].all
    /\ LET map == FreePixel(colormaps[m], c, p)
       IN  colormaps' = [colormaps EXCEPT ![m] =
                            IF mask = 0 THEN map ELSE FreePixel(map, c, Partner(p, mask))]
    /\ shared' = Released(colormaps')
    /\ UNCHANGED <<cmapEntries, colourClients>>

----------------------------------------------------------------------------
(* Allocating.                                                             *)

\* A client's first pixels in a colormap of others have to be freed when it
\* dies.
Registered(c, m, first) ==
    IF first /\ MapOwner[m] # c THEN cmapEntries \cup {<<m, c>>} ELSE cmapEntries

\* A free cell of a colormap is allocated, or a read-only one is once more.
Take(map, c, p, cell) ==
    [map EXCEPT !.cells[p] = cell, !.free = @ - 1, !.pixels[c] = Append(@, p)]
TakeAgain(map, c, p) ==
    [map EXCEPT !.cells[p].refcnt = @ + 1, !.pixels[c] = Append(@, p)]

FindColor(c, m, colour) ==
    LET map == colormaps[m]
        equal == {p \in Pixels : map.cells[p].refcnt > 0 /\ map.cells[p].colour = colour}
        cell == [EmptyCell EXCEPT !.refcnt = 1, !.colour = colour]
    IN  IF equal # {}
        THEN \E p \in equal : /\ map.cells[p].refcnt < MaxRefs
                              /\ colormaps' = [colormaps EXCEPT ![m] = TakeAgain(map, c, p)]
        ELSE \E p \in {q \in Pixels : map.cells[q].refcnt = 0} :
                colormaps' = [colormaps EXCEPT ![m] = Take(map, c, p, cell)]

AllocColor(c, m, colour) ==
    /\ Exists(m)
    /\ FindColor(c, m, colour)
    /\ cmapEntries' = Registered(c, m, Len(colormaps'[m].pixels[c]) = 1)
    /\ UNCHANGED <<shared, colourClients>>

\* AllocPseudo, for one pixel and at most one plane: the pixel and its partner
\* in the plane, both free, are put on the client's list in this order.
Allocable(m, p, mask) ==
    /\ ~Has(p, mask)
    /\ \A q \in {p, p + mask} : q \in Pixels /\ colormaps[m].cells[q].refcnt = 0

WithPrivate(map, c, p, mask, cellOf) ==
    LET one == Take(map, c, p, cellOf[p])
    IN  IF mask = 0 THEN one ELSE Take(one, c, p + mask, cellOf[p + mask])

AllocColorCells(c, m, p, mask) ==
    /\ Exists(m) /\ Allocable(m, p, mask)
    /\ colormaps' = [colormaps EXCEPT ![m] = WithPrivate(@, c, p, mask, [q \in Pixels |-> PrivateCell])]
    /\ cmapEntries' = Registered(c, m, colormaps[m].pixels[c] = <<>>)
    /\ UNCHANGED <<shared, colourClients>>

(***************************************************************************)
(* AllocColorPlanes, for one pixel and at most one plane.  Its two cells    *)
(* differ in the colour that has the plane and share the others.  The       *)
(* reference counts are those of AllocShared.                               *)
(***************************************************************************)
Channels == {1, 2, 3}    \* red, green, blue

SharedRefs(channel, plane) ==
    LET Two(ch) == IF plane = ch THEN 2 ELSE 1    \* 1 << the planes of ch
        gb == Two(2) * Two(3)
    IN  IF plane # channel THEN gb
        ELSE CASE channel = 1 -> gb [] channel = 2 -> Two(1) * Two(3) [] OTHER -> Two(1) * Two(2)

\* The SHAREDCOLORs a request makes, <<number, channel, of the cell with the
\* plane>>.
NewShared(n, plane) == {i \in {n} \X Channels \X BOOLEAN : i[3] => i[2] = plane}

Unused == CHOOSE n \in 1 .. Cardinality(DOMAIN shared) + 1 : \A i \in DOMAIN shared : i[1] # n

AllocColorPlanes(c, m, p, mask, plane) ==
    /\ Exists(m) /\ (mask = 0 <=> plane = 0) /\ Allocable(m, p, mask)
    /\ LET new == NewShared(Unused, plane)
           Shares(q, i) == i[3] <=> (q # p /\ i[2] = plane)
           cellOf == [q \in Pixels |-> [PrivateCell EXCEPT !.shares = {i \in new : Shares(q, i)}]]
       IN  /\ colormaps' = [colormaps EXCEPT ![m] = WithPrivate(@, c, p, mask, cellOf)]
           /\ shared' = [i \in DOMAIN shared \cup new |->
                            IF i \in new THEN SharedRefs(i[2], plane) ELSE shared[i]]
    /\ cmapEntries' = Registered(c, m, colormaps[m].pixels[c] = <<>>)
    /\ UNCHANGED colourClients

----------------------------------------------------------------------------
(* Colormaps.                                                              *)

NewMap(c, all) ==
    [cells |-> [p \in Pixels |-> IF all THEN PrivateCell ELSE EmptyCell],
     free |-> IF all THEN 0 ELSE Cardinality(Pixels),
     pixels |-> [d \in ColourClients |-> IF all /\ d = c THEN SetToSeq(Pixels) ELSE <<>>],
     all |-> all]

CreateColormap(c, m, all) ==
    /\ MapOwner[m] = c /\ ~Exists(m)
    /\ colormaps' = [colormaps EXCEPT ![m] = NewMap(c, all)]
    /\ UNCHANGED <<shared, cmapEntries, colourClients>>

\* mutant of CopyCell: the new cell keeps the count that all clients had on the old
CopyCellKeepsCount(s, p) ==
    LET from == s.map.cells[p]
    IN  [map |-> FreeCell(s.map, p),
         to |-> IF s.to.cells[p].refcnt > 0 THEN [s.to EXCEPT !.cells[p].refcnt = @ + 1]
                ELSE [s.to EXCEPT !.cells[p] = from, !.free = @ - 1]]

\* One pixel of CopyFree.  A private cell takes its SHAREDCOLORs with it.
CopyCell(s, p) ==
    LET from == s.map.cells[p]
        count == IF from.refcnt > 0 THEN 1 ELSE from.refcnt
    IN  [map |-> FreeCell(s.map, p),
         to |-> IF s.to.cells[p].refcnt > 0 THEN [s.to EXCEPT !.cells[p].refcnt = @ + 1]
                ELSE [s.to EXCEPT !.cells[p] = [from EXCEPT !.refcnt = count], !.free = @ - 1]]

CopyFree(map, to, c) ==
    LET list == map.pixels[c]
        copied[i \in 0..Len(list)] ==
            IF i = 0 THEN [map |-> [map EXCEPT !.pixels[c] = <<>>], to |-> [to EXCEPT !.pixels[c] = list]]
            ELSE CopyCell(copied[i - 1], list[i])
    IN  copied[Len(list)]

CopyColormapAndFree(c, src, m) ==
    /\ MapOwner[m] = c /\ ~Exists(m) /\ Exists(src)
    /\ LET map == colormaps[src]
           all == map.all /\ MapOwner[src] = c
           s == IF all THEN [map |-> FreePixels([map EXCEPT !.all = FALSE], c), to |-> NewMap(c, TRUE)]
                ELSE CopyFree(map, NewMap(c, FALSE), c)
       IN  colormaps' = [colormaps EXCEPT ![src] = s.map, ![m] = s.to]
    /\ shared' = Released(colormaps')
    /\ UNCHANGED <<cmapEntries, colourClients>>

FreeColormap(m) ==
    /\ Exists(m)
    /\ colormaps' = [colormaps EXCEPT ![m] = NoMap]
    /\ shared' = Released(colormaps')
    /\ UNCHANGED <<cmapEntries, colourClients>>

(***************************************************************************)
(* FreeClientResources of a dying client, as far as colours go: its         *)
(* colormaps, and with its entries (FreeClientPixels) the pixels it has in  *)
(* those of others.                                                        *)
(***************************************************************************)
ClientDies(c) ==
    /\ c \in colourClients
    /\ colourClients' = colourClients \ {c}
    /\ colormaps' = [m \in Maps |->
          IF ~Exists(m) \/ MapOwner[m] = c THEN NoMap
          ELSE IF <<m, c>> \in cmapEntries THEN FreePixels(colormaps[m], c) ELSE colormaps[m]]
    /\ shared' = Released(colormaps')
    /\ cmapEntries' = {e \in cmapEntries : e[2] # c}

ClientConnects(c) ==
    /\ c \notin colourClients
    /\ colourClients' = colourClients \cup {c}
    /\ UNCHANGED <<colormaps, shared, cmapEntries>>

----------------------------------------------------------------------------
ColormapInit ==
    /\ colormaps = [m \in Maps |-> NoMap]
    /\ shared = [i \in {} |-> 0]
    /\ cmapEntries = {}
    /\ colourClients = ColourClients

ColourRequest(c) ==
    \E m \in Maps :
       \/ \E colour \in Colours : AllocColor(c, m, colour)
       \/ \E p \in Pixels, mask \in PlaneMasks \cup {0} :
             \/ FreeColors(c, m, p, mask)
             \/ AllocColorCells(c, m, p, mask)
             \/ \E plane \in Planes : AllocColorPlanes(c, m, p, mask, plane)
       \/ \E all \in BOOLEAN : CreateColormap(c, m, all)
       \/ \E src \in Maps : CopyColormapAndFree(c, src, m)
       \/ FreeColormap(m)

ColormapNext ==
    \/ \E c \in colourClients : ColourRequest(c) \/ ClientDies(c)
    \/ \E c \in ColourClients : ClientConnects(c)

ColormapSpec == ColormapInit /\ [][ColormapNext]_colormapVars

----------------------------------------------------------------------------
\* Where a pixel is on the clients' lists.
Occurrences(m, p) ==
    LET places == UNION {{<<c, i>> : i \in DOMAIN colormaps[m].pixels[c]} : c \in ColourClients}
    IN  Cardinality({x \in places : colormaps[m].pixels[x[1]][x[2]] = p})

(***************************************************************************)
(* Type invariant.                                                         *)
(***************************************************************************)
ColormapTypeOK ==
    /\ \A m \in Maps : Exists(m) =>
          /\ colormaps[m].cells \in [Pixels -> [refcnt : -1 .. MaxRefs, colour : Colours \cup {"none"},
                                                shares : SUBSET (Nat \X Channels \X BOOLEAN)]]
          /\ colormaps[m].free \in 0 .. Cardinality(Pixels)
          /\ colormaps[m].pixels \in [ColourClients -> Seq(Pixels)]
    /\ cmapEntries \subseteq Maps \X ColourClients
    /\ colourClients \subseteq ColourClients

(***************************************************************************)
(* The invariants that are stated in dix/colormap.c:240 and what they are   *)
(* for, through sharing, freeing, copying to another map and deaths: a cell *)
(* is counted as often as it is on the clients' lists, a private one is on  *)
(* one list once, the free cells are counted right, and whoever has pixels  *)
(* in a map of somebody else has an entry that frees them, so that the dead *)
(* have none.                                                              *)
(***************************************************************************)
CellsAreCounted ==
    /\ \A m \in Maps : Exists(m) =>
          /\ \A p \in Pixels :
                LET r == colormaps[m].cells[p].refcnt
                IN  Occurrences(m, p) = IF r = AllocPrivate THEN 1 ELSE r
          /\ colormaps[m].free = Cardinality({p \in Pixels : colormaps[m].cells[p].refcnt = 0})
          /\ \A c \in ColourClients :
                /\ colormaps[m].pixels[c] # <<>> =>
                      c \in colourClients /\ (MapOwner[m] = c \/ <<m, c>> \in cmapEntries)
          /\ MapOwner[m] \in colourClients

(***************************************************************************)
(* A SHAREDCOLOR is counted as often as there are cells that use it: else   *)
(* FreeCell frees it while some do.                                        *)
(***************************************************************************)
SharedColoursAreCounted ==
    \A m \in Maps : Exists(m) =>
       \A p \in Pixels : \A i \in colormaps[m].cells[p].shares :
          /\ i \in DOMAIN shared
          /\ shared[i] = Cardinality({q \in Pixels : i \in colormaps[m].cells[q].shares})
=============================================================================
