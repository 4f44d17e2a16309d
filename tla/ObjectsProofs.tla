----------------------------- MODULE ObjectsProofs -----------------------------
(***************************************************************************)
(* Proofs about two lists that operations split, mark and sweep, and about  *)
(* the composition of MCObjects, in which they are two of the parts.        *)
(*                                                                         *)
(* PassiveGrabs, for any keys, modifiers, clients and length of the list:   *)
(* however grabs are split by ungrabbing parts of them, the list stands for *)
(* the combinations of keys and modifiers of GrabCombinations.             *)
(*                                                                         *)
(* Callbacks, for any functions, depth of calls and number of changes:      *)
(* however the lists change while they are called, each function is called  *)
(* once a round, and a call leaves out nothing.                            *)
(*                                                                         *)
(* MCObjects: a behaviour of the composition is one of each of its parts,   *)
(* so what is proved of Resources, FontRequests, Colormaps, Sprite and of   *)
(* the two lists holds of it.                                              *)
(***************************************************************************)
EXTENDS MCObjects, ResourcesProofs, SharingProofs, SpriteProofs


-----------------------------------------------------------------------------
(* Passive grabs: what a detail stands for.  Both details are treated       *)
(* alike: all is Keys or Modifiers, any is AnyKey or AnyModifier.          *)

Covers(d, x, any) == d.exact = x \/ (d.exact = any /\ x \notin d.except)

KeysOf(g) == {k \in Keys : Covers(g.detail, k, AnyKey)}
ModifiersOf(g) == {m \in Modifiers : Covers(g.modifiersDetail, m, AnyModifier)}

Overlap(first, second, any) ==
    DetailSupersedesSecond(first, second, any) \/ DetailSupersedesSecond(second, first, any)

LEMMA DetailFields ==
    ASSUME NEW all, NEW any, NEW d \in Detail(all, any)
    PROVE  /\ d.exact \in all \cup {any}
           /\ d.exact # any => d.except = {}
           /\ d.except \subseteq all
           /\ d = [exact |-> d.exact, except |-> d.except]
BY DEF Detail

LEMMA AskedIsDetail ==
    ASSUME NEW all, NEW any, NEW x \in all \cup {any}
    PROVE  Asked(x) \in Detail(all, any)
BY DEF Asked, Detail

\* A detail and one value of it overlap when the detail covers the value.
LEMMA CoversIsOverlap ==
    ASSUME NEW all, NEW any, any \notin all, NEW d \in Detail(all, any), NEW x \in all
    PROVE  /\ Covers(d, x, any) <=> DetailSupersedesSecond(d, Asked(x), any)
           /\ DetailSupersedesSecond(Asked(x), d, any) => Covers(d, x, any)
BY DetailFields DEF Covers, Asked, DetailSupersedesSecond, IsInGrabMask, IdenticalExactDetails

\* Two details that have a value in common overlap, if one is of a request.
LEMMA CommonIsOverlap ==
    ASSUME NEW all, NEW any, any \notin all, NEW d \in Detail(all, any),
           NEW a \in all \cup {any}, NEW x \in all,
           Covers(d, x, any), Covers(Asked(a), x, any)
    PROVE  Overlap(d, Asked(a), any)
BY DetailFields DEF Overlap, Covers, Asked, DetailSupersedesSecond, IsInGrabMask, IdenticalExactDetails

\* What a request's detail supersedes it covers.
LEMMA SupersedesIsCovering ==
    ASSUME NEW all, NEW any, any \notin all, NEW d \in Detail(all, any),
           NEW a \in all \cup {any}, NEW x \in all,
           DetailSupersedesSecond(Asked(a), d, any), Covers(d, x, any)
    PROVE  Covers(Asked(a), x, any)
BY DetailFields DEF Covers, Asked, DetailSupersedesSecond, IsInGrabMask, IdenticalExactDetails

\* A detail that overlaps with that of a request, and is not superseded by
\* it, is the wildcard, and the request names one value.
LEMMA NotSuperseded ==
    ASSUME NEW all, NEW any, any \notin all, NEW d \in Detail(all, any), NEW a \in all \cup {any}
    PROVE  /\ a = any => DetailSupersedesSecond(Asked(a), d, any)
           /\ Overlap(d, Asked(a), any) /\ ~DetailSupersedesSecond(Asked(a), d, any)
                 => d.exact = any /\ a # any
           /\ d.exact # any /\ Overlap(d, Asked(a), any)
                 => DetailSupersedesSecond(Asked(a), d, any)
BY DetailFields DEF Overlap, Asked, DetailSupersedesSecond, IsInGrabMask, IdenticalExactDetails

-----------------------------------------------------------------------------
(* The same for grabs.                                                      *)

IsRequest(r) == \E c \in GrabClients, k \in Keys \cup {AnyKey}, m \in Modifiers \cup {AnyModifier} :
                    r = Request(c, k, m)

LEMMA GrabFields ==
    ASSUME NEW g \in PassiveGrab
    PROVE  /\ g.client \in GrabClients
           /\ g.detail \in Detail(Keys, AnyKey)
           /\ g.modifiersDetail \in Detail(Modifiers, AnyModifier)
BY DEF PassiveGrab

LEMMA RequestFields ==
    ASSUME NEW c \in GrabClients, NEW k \in Keys \cup {AnyKey}, NEW m \in Modifiers \cup {AnyModifier}
    PROVE  /\ Request(c, k, m) \in PassiveGrab
           /\ Request(c, k, m).client = c
           /\ Request(c, k, m).detail = Asked(k)
           /\ Request(c, k, m).modifiersDetail = Asked(m)
BY AskedIsDetail DEF Request, PassiveGrab

\* An event activates a grab that covers its key and the modifiers.
LEMMA ActivatesMeansCovers ==
    ASSUME NEW g \in PassiveGrab, NEW k \in Keys, NEW m \in Modifiers
    PROVE  Activates(k, m, g) <=> k \in KeysOf(g) /\ m \in ModifiersOf(g)
<1>1. /\ Covers(g.detail, k, AnyKey) <=> DetailSupersedesSecond(g.detail, Asked(k), AnyKey)
      /\ DetailSupersedesSecond(Asked(k), g.detail, AnyKey) => Covers(g.detail, k, AnyKey)
  BY CoversIsOverlap, GrabFields, PassiveAssumption
<1>2. /\ Covers(g.modifiersDetail, m, AnyModifier)
            <=> DetailSupersedesSecond(g.modifiersDetail, Asked(m), AnyModifier)
      /\ DetailSupersedesSecond(Asked(m), g.modifiersDetail, AnyModifier)
            => Covers(g.modifiersDetail, m, AnyModifier)
  BY CoversIsOverlap, GrabFields, PassiveAssumption
<1> QED
  BY <1>1, <1>2 DEF Activates, GrabMatchesSecond, GrabSupersedesSecond, KeySupersedes,
                    ModifiersSupersede, KeysOf, ModifiersOf

LEMMA MatchesMeansOverlap ==
    ASSUME NEW f, NEW s
    PROVE  GrabMatchesSecond(f, s) <=> /\ Overlap(f.detail, s.detail, AnyKey)
                                       /\ Overlap(f.modifiersDetail, s.modifiersDetail, AnyModifier)
BY DEF GrabMatchesSecond, GrabSupersedesSecond, KeySupersedes, ModifiersSupersede, Overlap

\* A request and a grab that an event would both activate match.
LEMMA CommonMatches ==
    ASSUME NEW c \in GrabClients, NEW k \in Keys \cup {AnyKey}, NEW m \in Modifiers \cup {AnyModifier},
           NEW g \in PassiveGrab, NEW x \in Keys, NEW y \in Modifiers,
           Activates(x, y, g), Activates(x, y, Request(c, k, m))
    PROVE  GrabMatchesSecond(g, Request(c, k, m)) /\ GrabMatchesSecond(Request(c, k, m), g)
<1> DEFINE r == Request(c, k, m)
<1>1. r \in PassiveGrab /\ r.detail = Asked(k) /\ r.modifiersDetail = Asked(m)
  BY RequestFields
<1>2. /\ Covers(g.detail, x, AnyKey) /\ Covers(r.detail, x, AnyKey)
      /\ Covers(g.modifiersDetail, y, AnyModifier) /\ Covers(r.modifiersDetail, y, AnyModifier)
  BY <1>1, ActivatesMeansCovers DEF KeysOf, ModifiersOf
<1>3. Overlap(g.detail, r.detail, AnyKey)
  BY <1>1, <1>2, CommonIsOverlap, GrabFields, PassiveAssumption
<1>4. Overlap(g.modifiersDetail, r.modifiersDetail, AnyModifier)
  BY <1>1, <1>2, CommonIsOverlap, GrabFields, PassiveAssumption
<1> QED
  BY <1>3, <1>4, MatchesMeansOverlap DEF Overlap

-----------------------------------------------------------------------------
(* What an ungrab leaves of a grab.                                         *)

LEMMA KeyExceptedMeans ==
    ASSUME NEW g \in PassiveGrab, g.detail.exact = AnyKey, NEW k \in Keys
    PROVE  /\ KeyExcepted(g, k) \in PassiveGrab
           /\ KeyExcepted(g, k).client = g.client
           /\ KeysOf(KeyExcepted(g, k)) = KeysOf(g) \ {k}
           /\ ModifiersOf(KeyExcepted(g, k)) = ModifiersOf(g)
<1> DEFINE d == [g.detail EXCEPT !.except = @ \cup {k}]
<1>1. d \in Detail(Keys, AnyKey) /\ d.exact = AnyKey /\ d.except = g.detail.except \cup {k}
  BY GrabFields, PassiveAssumption DEF Detail
<1>2. KeyExcepted(g, k) = [g EXCEPT !.detail = d]
  BY DEF KeyExcepted, PassiveGrab
<1>3. /\ KeyExcepted(g, k) \in PassiveGrab
      /\ KeyExcepted(g, k).client = g.client
      /\ KeyExcepted(g, k).detail = d
      /\ KeyExcepted(g, k).modifiersDetail = g.modifiersDetail
  BY <1>1, <1>2 DEF PassiveGrab
<1> QED
  BY <1>1, <1>3, PassiveAssumption DEF KeysOf, ModifiersOf, Covers

LEMMA ModifiersExceptedMeans ==
    ASSUME NEW g \in PassiveGrab, g.modifiersDetail.exact = AnyModifier, NEW m \in Modifiers
    PROVE  /\ ModifiersExcepted(g, m) \in PassiveGrab
           /\ ModifiersExcepted(g, m).client = g.client
           /\ KeysOf(ModifiersExcepted(g, m)) = KeysOf(g)
           /\ ModifiersOf(ModifiersExcepted(g, m)) = ModifiersOf(g) \ {m}
<1> DEFINE d == [g.modifiersDetail EXCEPT !.except = @ \cup {m}]
<1>1. /\ d \in Detail(Modifiers, AnyModifier) /\ d.exact = AnyModifier
      /\ d.except = g.modifiersDetail.except \cup {m}
  BY GrabFields, PassiveAssumption DEF Detail
<1>2. ModifiersExcepted(g, m) = [g EXCEPT !.modifiersDetail = d]
  BY DEF ModifiersExcepted, PassiveGrab
<1>3. /\ ModifiersExcepted(g, m) \in PassiveGrab
      /\ ModifiersExcepted(g, m).client = g.client
      /\ ModifiersExcepted(g, m).modifiersDetail = d
      /\ ModifiersExcepted(g, m).detail = g.detail
  BY <1>1, <1>2 DEF PassiveGrab
<1> QED
  BY <1>1, <1>3, PassiveAssumption DEF KeysOf, ModifiersOf, Covers

\* The grab of one key that the split of a grab of all keys adds.
LEMMA OneKeyMeans ==
    ASSUME NEW g \in PassiveGrab, NEW k \in Keys
    PROVE  /\ [g EXCEPT !.detail = Asked(k)] \in PassiveGrab
           /\ [g EXCEPT !.detail = Asked(k)].client = g.client
           /\ [g EXCEPT !.detail = Asked(k)].modifiersDetail = g.modifiersDetail
           /\ KeysOf([g EXCEPT !.detail = Asked(k)]) = {k}
           /\ ModifiersOf([g EXCEPT !.detail = Asked(k)]) = ModifiersOf(g)
<1>1. Asked(k) \in Detail(Keys, AnyKey)
  BY AskedIsDetail
<1> QED
  BY <1>1, PassiveAssumption DEF PassiveGrab, KeysOf, ModifiersOf, Covers, Asked

LEMMA RequestCovers ==
    ASSUME NEW c \in GrabClients, NEW k \in Keys \cup {AnyKey}, NEW m \in Modifiers \cup {AnyModifier}
    PROVE  /\ KeysOf(Request(c, k, m)) = IF k = AnyKey THEN Keys ELSE {k}
           /\ ModifiersOf(Request(c, k, m)) = IF m = AnyModifier THEN Modifiers ELSE {m}
<1>1. \A x \in Keys : Covers(Asked(k), x, AnyKey) <=> k \in {x, AnyKey}
  BY DEF Covers, Asked
<1>2. \A x \in Modifiers : Covers(Asked(m), x, AnyModifier) <=> m \in {x, AnyModifier}
  BY DEF Covers, Asked
<1>3. KeysOf(Request(c, k, m)) = {x \in Keys : k \in {x, AnyKey}}
  BY <1>1, RequestFields DEF KeysOf
<1>4. ModifiersOf(Request(c, k, m)) = {x \in Modifiers : m \in {x, AnyModifier}}
  BY <1>2, RequestFields DEF ModifiersOf
<1> QED
  BY <1>3, <1>4, PassiveAssumption

\* Remainder takes away just the combinations that the request names.
LEMMA RemainderMeans ==
    ASSUME NEW c \in GrabClients, NEW k \in Keys \cup {AnyKey}, NEW m \in Modifiers \cup {AnyModifier},
           NEW g \in PassiveGrab, GrabMatchesSecond(g, Request(c, k, m)),
           ~GrabSupersedesSecond(Request(c, k, m), g)
    PROVE  /\ \A h \in Remainder(g, Request(c, k, m)) : h \in PassiveGrab /\ h.client = g.client
           /\ \A x \in Keys, y \in Modifiers :
                 (\E h \in Remainder(g, Request(c, k, m)) : Activates(x, y, h))
                    <=> Activates(x, y, g) /\ ~Activates(x, y, Request(c, k, m))
<1> DEFINE r == Request(c, k, m)
           R == Remainder(g, r)
           Keeps(H) == /\ \A h \in H : h \in PassiveGrab /\ h.client = g.client
                       /\ \A x \in Keys, y \in Modifiers :
                             (\E h \in H : x \in KeysOf(h) /\ y \in ModifiersOf(h))
                                <=> /\ x \in KeysOf(g) /\ y \in ModifiersOf(g)
                                    /\ ~(x \in KeysOf(r) /\ y \in ModifiersOf(r))
<1>1. /\ r \in PassiveGrab /\ r.detail = Asked(k) /\ r.modifiersDetail = Asked(m)
      /\ r.detail.exact = k /\ r.modifiersDetail.exact = m
  BY RequestFields DEF Asked
<1>2. /\ KeysOf(r) = IF k = AnyKey THEN Keys ELSE {k}
      /\ ModifiersOf(r) = IF m = AnyModifier THEN Modifiers ELSE {m}
  BY RequestCovers
<1>3. SUFFICES Keeps(R)
  <2>1. \A x \in Keys, y \in Modifiers, h \in PassiveGrab :
            Activates(x, y, h) <=> x \in KeysOf(h) /\ y \in ModifiersOf(h)
    BY ActivatesMeansCovers
  <2> QED
    BY <1>1, <2>1
<1>4. /\ Overlap(g.detail, Asked(k), AnyKey)
      /\ Overlap(g.modifiersDetail, Asked(m), AnyModifier)
  BY <1>1, MatchesMeansOverlap
<1>5. \/ ~DetailSupersedesSecond(Asked(k), g.detail, AnyKey)
      \/ ~DetailSupersedesSecond(Asked(m), g.modifiersDetail, AnyModifier)
  BY <1>1 DEF GrabSupersedesSecond, KeySupersedes, ModifiersSupersede
<1>6. /\ g.modifiersDetail.exact # AnyModifier
             => DetailSupersedesSecond(Asked(m), g.modifiersDetail, AnyModifier)
      /\ ~DetailSupersedesSecond(Asked(m), g.modifiersDetail, AnyModifier)
             => g.modifiersDetail.exact = AnyModifier /\ m # AnyModifier
      /\ g.detail.exact # AnyKey => DetailSupersedesSecond(Asked(k), g.detail, AnyKey)
      /\ ~DetailSupersedesSecond(Asked(k), g.detail, AnyKey)
             => g.detail.exact = AnyKey /\ k # AnyKey
  BY <1>4, NotSuperseded, GrabFields, PassiveAssumption
<1>7. /\ DetailSupersedesSecond(Asked(k), g.detail, AnyKey) => KeysOf(g) \subseteq KeysOf(r)
      /\ DetailSupersedesSecond(Asked(m), g.modifiersDetail, AnyModifier)
             => ModifiersOf(g) \subseteq ModifiersOf(r)
  BY <1>1, SupersedesIsCovering, GrabFields, PassiveAssumption DEF KeysOf, ModifiersOf
<1>8. CASE g.modifiersDetail.exact # AnyModifier
  <2>1. R = {KeyExcepted(g, k)}
    BY <1>1, <1>8 DEF Remainder
  <2>2. g.detail.exact = AnyKey /\ k \in Keys /\ k # AnyKey
    BY <1>5, <1>6, <1>8
  <2>3. ModifiersOf(g) \subseteq ModifiersOf(r)
    BY <1>6, <1>7, <1>8
  <2> QED
    BY <1>2, <2>1, <2>2, <2>3, KeyExceptedMeans
<1>9. CASE g.modifiersDetail.exact = AnyModifier /\ g.detail.exact # AnyKey
  <2>1. R = {ModifiersExcepted(g, m)}
    BY <1>1, <1>9 DEF Remainder
  <2>2. m \in Modifiers /\ m # AnyModifier
    BY <1>5, <1>6, <1>9
  <2>3. KeysOf(g) \subseteq KeysOf(r)
    BY <1>6, <1>7, <1>9
  <2> QED
    BY <1>2, <1>9, <2>1, <2>2, <2>3, ModifiersExceptedMeans
<1>10. CASE /\ g.modifiersDetail.exact = AnyModifier /\ g.detail.exact = AnyKey
            /\ k # AnyKey /\ m # AnyModifier
  <2> DEFINE one == [g EXCEPT !.detail = Asked(k)]
  <2>1. R = {KeyExcepted(g, k), ModifiersExcepted(one, m)}
    BY <1>1, <1>10 DEF Remainder
  <2>2. k \in Keys /\ m \in Modifiers
    BY <1>10
  <2>3. /\ one \in PassiveGrab /\ one.client = g.client /\ one.modifiersDetail = g.modifiersDetail
        /\ KeysOf(one) = {k} /\ ModifiersOf(one) = ModifiersOf(g)
    BY <2>2, OneKeyMeans
  <2>4. /\ ModifiersExcepted(one, m) \in PassiveGrab
        /\ ModifiersExcepted(one, m).client = g.client
        /\ KeysOf(ModifiersExcepted(one, m)) = {k}
        /\ ModifiersOf(ModifiersExcepted(one, m)) = ModifiersOf(g) \ {m}
    BY <1>10, <2>2, <2>3, ModifiersExceptedMeans
  <2>5. k \in KeysOf(g)
    <3>1. Covers(g.detail, k, AnyKey)
      <4>1. CASE DetailSupersedesSecond(g.detail, Asked(k), AnyKey)
        BY <2>2, <4>1, CoversIsOverlap, GrabFields, PassiveAssumption
      <4>2. CASE DetailSupersedesSecond(Asked(k), g.detail, AnyKey)
        BY <2>2, <4>2, CoversIsOverlap, GrabFields, PassiveAssumption
      <4> QED
        BY <1>4, <4>1, <4>2 DEF Overlap
    <3> QED
      BY <2>2, <3>1 DEF KeysOf
  <2>6. /\ KeyExcepted(g, k) \in PassiveGrab
        /\ KeyExcepted(g, k).client = g.client
        /\ KeysOf(KeyExcepted(g, k)) = KeysOf(g) \ {k}
        /\ ModifiersOf(KeyExcepted(g, k)) = ModifiersOf(g)
    BY <1>10, <2>2, KeyExceptedMeans
  <2>7. KeysOf(r) = {k} /\ ModifiersOf(r) = {m}
    BY <1>2, <1>10
  <2> QED
    BY <2>1, <2>4, <2>5, <2>6, <2>7
<1>11. CASE /\ g.modifiersDetail.exact = AnyModifier /\ g.detail.exact = AnyKey
            /\ k = AnyKey
  <2>1. R = {ModifiersExcepted(g, m)}
    BY <1>1, <1>11 DEF Remainder
  <2>2. m \in Modifiers /\ m # AnyModifier
    BY <1>5, <1>6, <1>11
  <2> QED
    BY <1>2, <1>11, <2>1, <2>2, ModifiersExceptedMeans DEF KeysOf
<1>12. CASE /\ g.modifiersDetail.exact = AnyModifier /\ g.detail.exact = AnyKey
            /\ k # AnyKey /\ m = AnyModifier
  <2>1. R = {KeyExcepted(g, k)}
    BY <1>1, <1>12 DEF Remainder
  <2>2. k \in Keys
    BY <1>12
  <2> QED
    BY <1>2, <1>12, <2>1, <2>2, KeyExceptedMeans DEF ModifiersOf
<1> QED
  BY <1>8, <1>9, <1>10, <1>11, <1>12

-----------------------------------------------------------------------------
(* The steps, in terms of what the clients hold.                            *)

LEMMA HeldMeans ==
    ASSUME NEW c \in GrabClients
    PROVE  /\ Held[c] \subseteq Keys \X Modifiers
           /\ \A x \in Keys, y \in Modifiers :
                 <<x, y>> \in Held[c] <=> \E g \in passive : g.client = c /\ Activates(x, y, g)
BY DEF Held

\* Sets of combinations that agree on every pair are one set.
LEMMA SameCombinations ==
    ASSUME NEW A \in SUBSET (Keys \X Modifiers), NEW B \in SUBSET (Keys \X Modifiers),
           \A x \in Keys, y \in Modifiers : <<x, y>> \in A <=> <<x, y>> \in B
    PROVE  A = B
OBVIOUS

\* The combinations a request names are one of the sets GrabCombinations has.
LEMMA NamedByRequest ==
    ASSUME NEW c \in GrabClients, NEW k \in Keys \cup {AnyKey}, NEW m \in Modifiers \cup {AnyModifier}
    PROVE  \E S \in Combos!Named :
              S \subseteq Keys \X Modifiers
              /\ \A x \in Keys, y \in Modifiers : <<x, y>> \in S <=> Activates(x, y, Request(c, k, m))
<1> DEFINE K == KeysOf(Request(c, k, m))
           M == ModifiersOf(Request(c, k, m))
<1>1. K \in {{x} : x \in Keys} \cup {Keys} /\ M \in {{y} : y \in Modifiers} \cup {Modifiers}
  BY RequestCovers
<1>2. K \X M \in Combos!Named
  BY <1>1 DEF Combos!Named
<1>3. \A x \in Keys, y \in Modifiers : <<x, y>> \in K \X M <=> Activates(x, y, Request(c, k, m))
  BY ActivatesMeansCovers, RequestFields
<1>4. K \X M \subseteq Keys \X Modifiers
  BY DEF KeysOf, ModifiersOf
<1> QED
  BY <1>2, <1>3, <1>4

\* Adding a grab: the client holds all that the request names besides.
LEMMA AddStep ==
    ASSUME PassiveTypeOK,
           NEW c \in GrabClients, NEW k \in Keys \cup {AnyKey}, NEW m \in Modifiers \cup {AnyModifier},
           AddPassiveGrabToList(Request(c, k, m))
    PROVE  PassiveTypeOK' /\ \E S \in Combos!Named : Combos!Grab(c, S)
<1> DEFINE r == Request(c, k, m)
<1>1. r \in PassiveGrab /\ r.client = c
  BY RequestFields
<1>2. passive' = passive \cup {r} /\ \A g \in passive : GrabMatchesSecond(r, g) => g.client = c
  BY <1>1 DEF AddPassiveGrabToList
<1>3. PassiveTypeOK'
  BY <1>1, <1>2 DEF PassiveTypeOK
<1>4. PICK S \in Combos!Named :
          S \subseteq Keys \X Modifiers
          /\ \A x \in Keys, y \in Modifiers : <<x, y>> \in S <=> Activates(x, y, r)
  BY NamedByRequest
<1>5. ASSUME NEW d \in GrabClients \ {c} PROVE Held[d] \cap S = {}
  <2> SUFFICES ASSUME NEW x \in Keys, NEW y \in Modifiers, <<x, y>> \in Held[d], <<x, y>> \in S
               PROVE  FALSE
    BY <1>4
  <2>1. PICK g \in passive : g.client = d /\ Activates(x, y, g)
    BY HeldMeans
  <2>2. GrabMatchesSecond(r, g)
    BY <1>4, <2>1, CommonMatches DEF PassiveTypeOK
  <2> QED
    BY <1>2, <2>1, <2>2
<1>6. Held' = [Held EXCEPT ![c] = @ \cup S]
  <2>1. ASSUME NEW d \in GrabClients PROVE Held'[d] = IF d = c THEN Held[d] \cup S ELSE Held[d]
    <3>1. ASSUME NEW x \in Keys, NEW y \in Modifiers
          PROVE  <<x, y>> \in Held'[d] <=> <<x, y>> \in Held[d] \/ (d = c /\ <<x, y>> \in S)
      <4>1. <<x, y>> \in Held'[d] <=> \E g \in passive' : g.client = d /\ Activates(x, y, g)
        BY DEF Held
      <4> QED
        BY <1>1, <1>2, <1>4, <4>1, HeldMeans
    <3>2. Held'[d] \subseteq Keys \X Modifiers
      BY DEF Held
    <3> DEFINE new == IF d = c THEN Held[d] \cup S ELSE Held[d]
    <3>3. new \subseteq Keys \X Modifiers
      BY <1>4, HeldMeans
    <3>4. \A x \in Keys, y \in Modifiers : <<x, y>> \in Held'[d] <=> <<x, y>> \in new
      BY <3>1
    <3> HIDE DEF new
    <3>5. Held'[d] = new
      BY <3>2, <3>3, <3>4, SameCombinations
    <3> QED
      BY <3>5 DEF new
  <2> QED
    BY <2>1 DEF Held
<1> QED
  BY <1>3, <1>4, <1>5, <1>6 DEF Combos!Grab

\* Ungrabbing: the client holds all but what the request names.
LEMMA DeleteStep ==
    ASSUME PassiveTypeOK,
           NEW c \in GrabClients, NEW k \in Keys \cup {AnyKey}, NEW m \in Modifiers \cup {AnyModifier},
           DeletePassiveGrabFromList(Request(c, k, m))
    PROVE  PassiveTypeOK' /\ \E S \in Combos!Named : Combos!Ungrab(c, S)
<1> DEFINE r == Request(c, k, m)
           matching == {g \in passive : g.client = c /\ GrabMatchesSecond(g, r)}
           left == {g \in matching : ~GrabSupersedesSecond(r, g)}
<1>1. r \in PassiveGrab /\ r.client = c
  BY RequestFields
<1>2. passive' = (passive \ matching) \cup UNION {Remainder(g, r) : g \in left}
  BY <1>1 DEF DeletePassiveGrabFromList
<1>3. ASSUME NEW g \in left
      PROVE  /\ \A h \in Remainder(g, r) : h \in PassiveGrab /\ h.client = c
             /\ \A x \in Keys, y \in Modifiers :
                   (\E h \in Remainder(g, r) : Activates(x, y, h))
                      <=> Activates(x, y, g) /\ ~Activates(x, y, r)
  <2>1. /\ g \in PassiveGrab /\ g.client = c
        /\ GrabMatchesSecond(g, r) /\ ~GrabSupersedesSecond(r, g)
    BY DEF PassiveTypeOK
  <2> QED
    BY <2>1, RemainderMeans
<1>4. PassiveTypeOK'
  BY <1>2, <1>3 DEF PassiveTypeOK
<1>5. PICK S \in Combos!Named :
          S \subseteq Keys \X Modifiers
          /\ \A x \in Keys, y \in Modifiers : <<x, y>> \in S <=> Activates(x, y, r)
  BY NamedByRequest
<1>6. ASSUME NEW g \in passive, g.client = c, NEW x \in Keys, NEW y \in Modifiers, Activates(x, y, g)
      PROVE  /\ g \notin matching => ~Activates(x, y, r)
             /\ g \in matching \ left => Activates(x, y, r)
  <2>1. g \notin matching => ~Activates(x, y, r)
    BY <1>6, CommonMatches DEF PassiveTypeOK
  <2>2. ASSUME GrabSupersedesSecond(r, g) PROVE Activates(x, y, r)
    <3>1. Covers(g.detail, x, AnyKey) /\ Covers(g.modifiersDetail, y, AnyModifier)
      BY <1>6, ActivatesMeansCovers DEF PassiveTypeOK, KeysOf, ModifiersOf
    <3>2. r.detail = Asked(k) /\ r.modifiersDetail = Asked(m)
      BY RequestFields
    <3>3. Covers(r.detail, x, AnyKey) /\ Covers(r.modifiersDetail, y, AnyModifier)
      BY <2>2, <3>1, <3>2, SupersedesIsCovering, GrabFields, PassiveAssumption
         DEF GrabSupersedesSecond, KeySupersedes, ModifiersSupersede, PassiveTypeOK
    <3> QED
      BY <1>1, <3>3, ActivatesMeansCovers DEF KeysOf, ModifiersOf
  <2> QED
    BY <2>1, <2>2
<1>7. Held' = [Held EXCEPT ![c] = @ \ S]
  <2>1. ASSUME NEW d \in GrabClients PROVE Held'[d] = IF d = c THEN Held[d] \ S ELSE Held[d]
    <3>1. ASSUME NEW x \in Keys, NEW y \in Modifiers
          PROVE  <<x, y>> \in Held'[d] <=> <<x, y>> \in Held[d] /\ ~(d = c /\ <<x, y>> \in S)
      <4>1. <<x, y>> \in Held'[d] <=> \E g \in passive' : g.client = d /\ Activates(x, y, g)
        BY DEF Held
      <4>2. CASE d # c
        <5>2. (\E g \in passive' : g.client = d /\ Activates(x, y, g))
                 <=> (\E g \in passive : g.client = d /\ Activates(x, y, g))
          BY <1>2, <1>3, <4>2
        <5> QED
          BY <4>1, <4>2, <5>2, HeldMeans
      <4>3. CASE d = c
        <5>1. ASSUME NEW g \in passive', g.client = d, Activates(x, y, g)
              PROVE  <<x, y>> \in Held[d] /\ <<x, y>> \notin S
          <6>1. CASE g \in passive \ matching
            BY <1>5, <1>6, <4>3, <5>1, <6>1, HeldMeans
          <6>2. CASE \E f \in left : g \in Remainder(f, r)
            BY <1>3, <1>5, <4>3, <5>1, <6>2, HeldMeans
          <6> QED
            BY <1>2, <6>1, <6>2
        <5>2. ASSUME NEW g \in passive, g.client = d, Activates(x, y, g), <<x, y>> \notin S
              PROVE  \E h \in passive' : h.client = d /\ Activates(x, y, h)
          <6>1. CASE g \notin matching
            BY <1>2, <5>2, <6>1
          <6>2. CASE g \in left
            BY <1>2, <1>3, <1>5, <4>3, <5>2, <6>2
          <6> QED
            BY <1>5, <1>6, <4>3, <5>2, <6>1, <6>2
        <5> QED
          BY <4>1, <4>3, <5>1, <5>2, HeldMeans
      <4> QED
        BY <4>2, <4>3
    <3>2. Held'[d] \subseteq Keys \X Modifiers
      BY DEF Held
    <3> DEFINE new == IF d = c THEN Held[d] \ S ELSE Held[d]
    <3>3. new \subseteq Keys \X Modifiers
      BY HeldMeans
    <3>4. \A x \in Keys, y \in Modifiers : <<x, y>> \in Held'[d] <=> <<x, y>> \in new
      BY <3>1
    <3> HIDE DEF new
    <3>5. Held'[d] = new
      BY <3>2, <3>3, <3>4, SameCombinations
    <3> QED
      BY <3>5 DEF new
  <2> QED
    BY <2>1 DEF Held
<1> QED
  BY <1>4, <1>5, <1>7 DEF Combos!Ungrab

\* Grabs of clients that go: nothing else changes.
LEMMA ReleaseStep ==
    ASSUME PassiveTypeOK, NEW C \in SUBSET GrabClients, DeletePassiveGrabs(C)
    PROVE  PassiveTypeOK' /\ Combos!Release(C)
<1>1. passive' = {g \in passive : g.client \notin C}
  BY DEF DeletePassiveGrabs
<1>2. PassiveTypeOK'
  BY <1>1 DEF PassiveTypeOK
<1>3. ASSUME NEW c \in GrabClients PROVE Held'[c] = IF c \in C THEN {} ELSE Held[c]
  BY <1>1 DEF Held
<1>4. Held' = [c \in GrabClients |-> IF c \in C THEN {} ELSE Held[c]]
  BY <1>3 DEF Held
<1> QED
  BY <1>2, <1>4 DEF Combos!Release

-----------------------------------------------------------------------------
(* The theorems.                                                            *)

LEMMA PassiveInitOK == PassiveInit => PassiveTypeOK /\ Combos!CombinationsInit
BY DEF PassiveInit, PassiveTypeOK, Combos!CombinationsInit, Held

LEMMA PassiveStepOK ==
    PassiveTypeOK /\ [PassiveNext]_passive => PassiveTypeOK' /\ [Combos!CombinationsNext]_Held
<1> SUFFICES ASSUME PassiveTypeOK, [PassiveNext]_passive
             PROVE  PassiveTypeOK' /\ [Combos!CombinationsNext]_Held
  OBVIOUS
<1>1. CASE UNCHANGED passive
  BY <1>1 DEF PassiveTypeOK, Held
<1>2. ASSUME NEW c \in GrabClients, NEW k \in Keys \cup {AnyKey}, NEW m \in Modifiers \cup {AnyModifier},
             AddPassiveGrabToList(Request(c, k, m))
      PROVE  PassiveTypeOK' /\ Combos!CombinationsNext
  BY <1>2, AddStep DEF Combos!CombinationsNext
<1>3. ASSUME NEW c \in GrabClients, NEW k \in Keys \cup {AnyKey}, NEW m \in Modifiers \cup {AnyModifier},
             DeletePassiveGrabFromList(Request(c, k, m))
      PROVE  PassiveTypeOK' /\ Combos!CombinationsNext
  BY <1>3, DeleteStep DEF Combos!CombinationsNext
<1>4. ASSUME NEW C \in SUBSET GrabClients, DeletePassiveGrabs(C)
      PROVE  PassiveTypeOK' /\ Combos!CombinationsNext
  BY <1>4, ReleaseStep DEF Combos!CombinationsNext
<1> QED
  BY <1>1, <1>2, <1>3, <1>4 DEF PassiveNext

\* A list holds only grabs, with exceptions only in wildcards (SetPMask,
\* DeletePassiveGrabFromList).
THEOREM PassiveTypeCorrect == PassiveSpec => []PassiveTypeOK
BY PassiveInitOK, PassiveStepOK, PTL DEF PassiveSpec

\* Splitting keeps the sets: the list of passive grabs implements the sets of
\* combinations that the protocol speaks of, step by step.
THEOREM GrabsImplementCombinations == PassiveSpec => GrabsAreCombinations
BY PassiveInitOK, PassiveStepOK, PTL DEF PassiveSpec, GrabsAreCombinations, Combos!CombinationsSpec

\* The abstract side keeps combinations apart.
LEMMA CombinationsStayApart ==
    /\ Combos!CombinationsInit => Combos!HeldByOne
    /\ PassiveTypeOK /\ PassiveTypeOK' /\ Combos!HeldByOne /\ [Combos!CombinationsNext]_Held
          => Combos!HeldByOne'
<1>1. Combos!CombinationsInit => Combos!HeldByOne
  BY DEF Combos!CombinationsInit, Combos!HeldByOne
<1>2. ASSUME Combos!HeldByOne, [Combos!CombinationsNext]_Held PROVE Combos!HeldByOne'
  <2>1. CASE UNCHANGED Held
    BY <1>2, <2>1 DEF Combos!HeldByOne
  <2>2. ASSUME NEW c \in GrabClients, NEW S \in Combos!Named, Combos!Grab(c, S)
        PROVE  Combos!HeldByOne'
    <3>1. DOMAIN Held = GrabClients
      BY DEF Held
    <3> QED
      BY <1>2, <2>2, <3>1 DEF Combos!HeldByOne, Combos!Grab
  <2>3. ASSUME NEW c \in GrabClients, NEW S \in Combos!Named, Combos!Ungrab(c, S)
        PROVE  Combos!HeldByOne'
    <3>1. DOMAIN Held = GrabClients
      BY DEF Held
    <3> QED
      BY <1>2, <2>3, <3>1 DEF Combos!HeldByOne, Combos!Ungrab
  <2>4. ASSUME NEW C \in SUBSET GrabClients, Combos!Release(C) PROVE Combos!HeldByOne'
    BY <1>2, <2>4 DEF Combos!HeldByOne, Combos!Release
  <2> QED
    BY <1>2, <2>1, <2>2, <2>3, <2>4 DEF Combos!CombinationsNext
<1> QED
  BY <1>1, <1>2

\* No event activates the passive grabs of two clients.
THEOREM NoCombinationOfTwoClients == PassiveSpec => []Combos!HeldByOne
BY PassiveInitOK, PassiveStepOK, CombinationsStayApart, PTL DEF PassiveSpec

-----------------------------------------------------------------------------
(* Callbacks: what is taken out of a list.                                 *)

LEMMA FirstOfSome ==
    ASSUME NEW S \in SUBSET Nat, S # {}
    PROVE  \E x \in S : \A y \in S : x <= y
<1> DEFINE R == OpToRel(<, Nat)
<1>1. IsWellFoundedOn(R, Nat)
  BY NatLessThanWellFounded
<1> HIDE DEF R
<1>2. PICK x \in S : \A y \in S : <<y, x>> \notin R
  BY <1>1, WFMin
<1>3. \A y \in Nat : <<y, x>> \notin R => x <= y
  BY DEF R, OpToRel
<1> QED
  BY <1>2, <1>3

\* A list with one entry taken out.
LEMMA TakenOut ==
    ASSUME NEW S, NEW s \in Seq(S), NEW i \in 1 .. Len(s)
    PROVE  /\ RemoveAt(s, i) \in Seq(S) /\ Len(RemoveAt(s, i)) = Len(s) - 1
           /\ \A j \in 1 .. Len(s) - 1 : RemoveAt(s, i)[j] = IF j < i THEN s[j] ELSE s[j + 1]
<1> DEFINE a == SubSeq(s, 1, i - 1)
           b == SubSeq(s, i + 1, Len(s))
<1>0. Len(s) \in Nat /\ i \in 1 .. Len(s) /\ \A j \in 1 .. Len(s) : s[j] \in S
  BY ElementOfSeq
<1>1. /\ a \in Seq(S) /\ Len(a) = i - 1
      /\ \A j \in 1 .. i - 1 : a[j] = s[j]
  <2>1. 1 \in Int /\ i - 1 \in Int /\ \A j \in 1 .. i - 1 : s[j] \in S
    BY <1>0
  <2>2. /\ a \in Seq(S) /\ Len(a) = IF 1 <= i - 1 THEN (i - 1) - 1 + 1 ELSE 0
        /\ \A j \in 1 .. (i - 1) - 1 + 1 : a[j] = s[1 + j - 1]
    BY <2>1, SubSeqProperties
  <2> HIDE DEF a
  <2> QED
    BY <1>0, <2>2
<1>2. /\ b \in Seq(S) /\ Len(b) = Len(s) - i
      /\ \A j \in 1 .. Len(s) - i : b[j] = s[i + j]
  <2>1. i + 1 \in Int /\ Len(s) \in Int /\ \A j \in i + 1 .. Len(s) : s[j] \in S
    BY <1>0
  <2>2. /\ b \in Seq(S) /\ Len(b) = IF i + 1 <= Len(s) THEN Len(s) - (i + 1) + 1 ELSE 0
        /\ \A j \in 1 .. Len(s) - (i + 1) + 1 : b[j] = s[i + 1 + j - 1]
    BY <2>1, SubSeqProperties
  <2> HIDE DEF b
  <2> QED
    BY <1>0, <2>2
<1> HIDE DEF a, b
<1>3. /\ a \o b \in Seq(S) /\ Len(a \o b) = Len(a) + Len(b)
      /\ \A j \in 1 .. Len(a) + Len(b) : (a \o b)[j] = IF j <= Len(a) THEN a[j] ELSE b[j - Len(a)]
  BY <1>1, <1>2, ConcatProperties
<1>4. ASSUME NEW j \in 1 .. Len(s) - 1 PROVE (a \o b)[j] = IF j < i THEN s[j] ELSE s[j + 1]
  <2>1. j \in 1 .. Len(a) + Len(b)
    BY <1>0, <1>1, <1>2
  <2>2. CASE j < i
    BY <1>0, <1>1, <1>3, <2>1, <2>2
  <2>3. CASE ~(j < i)
    <3>1. ~(j <= Len(a)) /\ j - Len(a) \in 1 .. Len(s) - i /\ i + (j - Len(a)) = j + 1
      BY <1>0, <1>1, <2>3
    <3> QED
      BY <1>2, <1>3, <2>1, <2>3, <3>1
  <2> QED
    BY <2>2, <2>3
<1>5. Len(a \o b) = Len(s) - 1
  BY <1>0, <1>1, <1>2, <1>3
<1> QED
  BY <1>3, <1>4, <1>5 DEF RemoveAt, a, b

\* What Leaving takes over of the first n entries of s.
Takes(s, out, n, r) ==
    /\ Len(r) <= n
    /\ \A k \in 1 .. Len(r) : \E i \in (1 .. n) \ out : r[k] = s[i]
    /\ \A j, k \in 1 .. Len(r) : j < k => \E i, l \in 1 .. n : i < l /\ r[j] = s[i] /\ r[k] = s[l]

LEMMA TakesNext ==
    ASSUME NEW S, NEW s \in Seq(S), NEW out, NEW n \in 1 .. Len(s), NEW r \in Seq(S), Takes(s, out, n - 1, r)
    PROVE  /\ n \in out => Takes(s, out, n, r)
           /\ n \notin out => Append(r, s[n]) \in Seq(S) /\ Takes(s, out, n, Append(r, s[n]))
<1>0. Len(r) \in Nat /\ n \in Nat /\ n - 1 \in Nat /\ 1 .. n - 1 \subseteq 1 .. n /\ s[n] \in S
  BY ElementOfSeq
<1>1. CASE n \in out
  <2>1. Len(r) <= n
    BY <1>0 DEF Takes
  <2>2. \A i \in (1 .. n - 1) \ out : i \in (1 .. n) \ out
    BY <1>0
  <2>3. \A k \in 1 .. Len(r) : \E i \in (1 .. n) \ out : r[k] = s[i]
    BY <2>2 DEF Takes
  <2>4. \A j, k \in 1 .. Len(r) : j < k => \E i, l \in 1 .. n : i < l /\ r[j] = s[i] /\ r[k] = s[l]
    BY <1>0 DEF Takes
  <2> QED BY <1>1, <2>1, <2>3, <2>4 DEF Takes
<1>2. CASE n \notin out
  <2> DEFINE q == Append(r, s[n])
  <2>1. /\ q \in Seq(S) /\ Len(q) = Len(r) + 1 /\ q[Len(r) + 1] = s[n]
        /\ \A k \in 1 .. Len(r) : q[k] = r[k]
    BY <1>0, AppendProperties
  <2> HIDE DEF q
  <2>2. \A k \in 1 .. Len(q) : k \in 1 .. Len(r) \/ k = Len(r) + 1
    BY <1>0, <2>1
  <2>3. \A k \in 1 .. Len(q) : \E i \in (1 .. n) \ out : q[k] = s[i]
    <3> TAKE k \in 1 .. Len(q)
    <3>1. CASE k \in 1 .. Len(r)
      BY <1>0, <2>1, <3>1 DEF Takes
    <3>2. CASE k = Len(r) + 1
      BY <1>0, <1>2, <2>1, <3>2
    <3> QED
      BY <2>2, <3>1, <3>2
  <2>4. ASSUME NEW j \in 1 .. Len(q), NEW k \in 1 .. Len(q), j < k
        PROVE  \E i, l \in 1 .. n : i < l /\ q[j] = s[i] /\ q[k] = s[l]
    <3>1. j \in 1 .. Len(r)
      BY <1>0, <2>1, <2>4
    <3>2. CASE k \in 1 .. Len(r)
      <4>1. PICK i \in 1 .. n - 1, l \in 1 .. n - 1 : i < l /\ r[j] = s[i] /\ r[k] = s[l]
        BY <2>4, <3>1, <3>2 DEF Takes
      <4> QED
        BY <1>0, <2>1, <3>1, <3>2, <4>1
    <3>3. CASE k = Len(r) + 1
      <4>1. PICK i \in 1 .. n - 1 : r[j] = s[i]
        BY <3>1 DEF Takes
      <4>2. i < n /\ i \in 1 .. n /\ n \in 1 .. n
        BY <1>0
      <4> QED
        BY <2>1, <3>1, <3>3, <4>1, <4>2
    <3> QED
      BY <2>2, <3>2, <3>3
  <2>5. Len(r) <= n - 1
    BY DEF Takes
  <2>6. Len(q) <= n
    BY <1>0, <2>1, <2>5
  <2>7. Takes(s, out, n, q)
    BY <2>3, <2>4, <2>6 DEF Takes
  <2> QED
    BY <1>2, <2>1, <2>7 DEF q
<1> QED
  BY <1>1, <1>2

\* f is what Leaving computes up to n.
Keeps(s, out, n, f) == f = [i \in 0 .. n |-> IF i = 0 THEN <<>> ELSE IF i \in out THEN f[i - 1] ELSE Append(f[i - 1], s[i])]

\* The recursion is one over numbers.
LEMMA KeepsExists ==
    ASSUME NEW s, NEW out, NEW n \in Nat PROVE \E f : Keeps(s, out, n, f)
<1> DEFINE bad == {m \in Nat : ~\E f : Keeps(s, out, m, f)}
<1>1. ASSUME bad # {} PROVE FALSE
  <2>1. PICK m \in bad : \A l \in bad : m <= l
    BY <1>1, FirstOfSome
  <2>2. m # 0
    <3>1. Keeps(s, out, 0, [i \in 0 .. 0 |-> <<>>])
      BY DEF Keeps
    <3> QED
      BY <2>1, <3>1
  <2>3. m - 1 \in Nat /\ m - 1 \notin bad
    BY <2>1, <2>2
  <2>4. PICK f : Keeps(s, out, m - 1, f)
    BY <2>3
  <2> DEFINE g == [i \in 0 .. m |-> IF i = m THEN IF m \in out THEN f[m - 1] ELSE Append(f[m - 1], s[m]) ELSE f[i]]
  <2>5. Keeps(s, out, m, g)
    <3>1. ASSUME NEW i \in 0 .. m
          PROVE  g[i] = IF i = 0 THEN <<>> ELSE IF i \in out THEN g[i - 1] ELSE Append(g[i - 1], s[i])
      <4>1. CASE i = m
        <5>1. m - 1 \in 0 .. m /\ m - 1 # m /\ i # 0
          BY <2>1, <2>2, <4>1
        <5>2. g[m - 1] = f[m - 1]
          BY <5>1
        <5> QED
          BY <4>1, <5>1, <5>2
      <4>2. CASE i # m
        <5>1. i \in 0 .. m - 1 /\ (i # 0 => i - 1 \in 0 .. m /\ i - 1 # m)
          BY <2>1, <4>2
        <5>2. g[i] = f[i] /\ (i # 0 => g[i - 1] = f[i - 1])
          BY <4>2, <5>1
        <5>3. f[i] = IF i = 0 THEN <<>> ELSE IF i \in out THEN f[i - 1] ELSE Append(f[i - 1], s[i])
          BY <2>4, <5>1 DEF Keeps
        <5> QED
          BY <5>2, <5>3
      <4> QED
        BY <4>1, <4>2
    <3> HIDE DEF g
    <3>2. g = [i \in 0 .. m |-> g[i]]
      BY DEF g
    <3> QED
      BY <3>1, <3>2 DEF Keeps
  <2> QED
    BY <2>1, <2>5
<1> QED
  BY <1>1

\* A list that loses some entries keeps the others in their order.
LEMMA LeavingProperties ==
    ASSUME NEW S, NEW s \in Seq(S), NEW out
    PROVE  Leaving(s, out) \in Seq(S) /\ Takes(s, out, Len(s), Leaving(s, out))
<1> DEFINE f == CHOOSE g : Keeps(s, out, Len(s), g)
<1>1. Len(s) \in Nat
  OBVIOUS
<1>2. Keeps(s, out, Len(s), f)
  BY <1>1, KeepsExists
<1>3. Leaving(s, out) = f[Len(s)]
  BY DEF Leaving, Keeps
<1> HIDE DEF f
<1>4. f[0] = <<>> /\ \A n \in 1 .. Len(s) : f[n] = IF n \in out THEN f[n - 1] ELSE Append(f[n - 1], s[n])
  <2>1. \A n \in 0 .. Len(s) : f[n] = IF n = 0 THEN <<>> ELSE IF n \in out THEN f[n - 1] ELSE Append(f[n - 1], s[n])
    BY <1>2, Zenon DEF Keeps
  <2>2. 0 \in 0 .. Len(s) /\ \A n \in 1 .. Len(s) : n \in 0 .. Len(s) /\ n # 0
    BY <1>1
  <2> QED
    BY <2>1, <2>2
<1> DEFINE bad == {n \in 0 .. Len(s) : ~(f[n] \in Seq(S) /\ Takes(s, out, n, f[n]))}
<1>5. ASSUME bad # {} PROVE FALSE
  <2>1. PICK n \in bad : \A m \in bad : n <= m
    <3>1. bad \in SUBSET Nat
      BY <1>1
    <3> HIDE DEF bad
    <3> QED
      BY <1>5, <3>1, FirstOfSome
  <2>2. n # 0
    <3>1. f[0] \in Seq(S) /\ Len(f[0]) = 0
      BY <1>4
    <3>2. Takes(s, out, 0, f[0])
      BY <3>1 DEF Takes
    <3> QED
      BY <2>1, <3>1, <3>2
  <2>3. n \in 1 .. Len(s) /\ n - 1 \in 0 .. Len(s) /\ n - 1 \notin bad
    BY <1>1, <2>1, <2>2
  <2>4. f[n - 1] \in Seq(S) /\ Takes(s, out, n - 1, f[n - 1])
    BY <2>3
  <2>5. f[n] = IF n \in out THEN f[n - 1] ELSE Append(f[n - 1], s[n])
    BY <1>4, <2>3
  <2>6. f[n] \in Seq(S) /\ Takes(s, out, n, f[n])
    BY <2>3, <2>4, <2>5, TakesNext
  <2> QED
    BY <2>1, <2>6
<1> QED
  BY <1>1, <1>3, <1>5

LEMMA Replaced ==
    ASSUME NEW S, NEW s \in Seq(S), NEW i \in 1 .. Len(s), NEW e \in S
    PROVE  /\ [s EXCEPT ![i] = e] \in Seq(S) /\ Len([s EXCEPT ![i] = e]) = Len(s)
           /\ [s EXCEPT ![i] = e][i] = e
           /\ \A j \in 1 .. Len(s) : j # i => [s EXCEPT ![i] = e][j] = s[j]
OBVIOUS

-----------------------------------------------------------------------------
(* The handlers.                                                           *)

HandlerEntry == [function : Functions, deleted : BOOLEAN, number : 1 .. MaxChanges,
                 blocked : BOOLEAN, woken : BOOLEAN]

\* Who was called, by the round r and the next index n: before it nobody, then
\* those up to the next, at the wakeup those after it; what is registered then
\* waits for the next round.
CalledSoFar(h, i, r, n) ==
    /\ r = "none" => ~h.blocked /\ ~h.woken
    /\ r = "block" => (h.blocked <=> i < n) /\ ~h.woken
    /\ r = "sleep" => h.blocked /\ ~h.woken
    /\ r = "wakeup" => /\ h.woken => h.blocked
                       /\ h.blocked => (h.woken <=> i > n)
                       /\ i <= n => h.blocked

AllCalled(s, r, n) ==
    /\ s \in Seq(HandlerEntry)
    /\ \A i \in 1 .. Len(s) : CalledSoFar(s[i], i, r, n)
    /\ r \in {"none", "sleep"} => \A i \in 1 .. Len(s) : ~s[i].deleted

NextHandler(s, r, n) ==
    /\ r \in {"none", "block", "sleep", "wakeup"}
    /\ n \in 0 .. Len(s) + 1
    /\ r \in {"none", "sleep"} => n = 0
    /\ r = "block" => n # 0
    /\ r = "wakeup" => n <= Len(s)

HandlersOK == AllCalled(handlers, round, nextHandler) /\ NextHandler(handlers, round, nextHandler)

LEMMA SomeIndex ==
    ASSUME NEW S, NEW s \in Seq(S), NEW f, Indices(s, f) # {}
    PROVE  FirstIndex(s, f) \in 1 .. Len(s) /\ s[FirstIndex(s, f)].function = f
<1>1. Indices(s, f) \subseteq 1 .. Len(s) /\ 1 .. Len(s) \subseteq Nat
  BY DEF Indices
<1>2. \E i \in Indices(s, f) : \A j \in Indices(s, f) : i <= j
  BY <1>1, FirstOfSome
<1>3. FirstIndex(s, f) \in Indices(s, f)
  BY <1>2 DEF FirstIndex
<1> QED
  BY <1>1, <1>3 DEF Indices

LEMMA NoneDeleted ==
    ASSUME NEW S, NEW s \in Seq(S)
    PROVE  DeletedIn(s) = {} <=> \A i \in 1 .. Len(s) : ~s[i].deleted
BY DEF DeletedIn

\* After the marked entries are taken out.
LEMMA LiveIsClean ==
    ASSUME NEW S, NEW s \in Seq(S)
    PROVE  /\ Live(s) \in Seq(S) /\ Len(Live(s)) <= Len(s)
           /\ \A k \in 1 .. Len(Live(s)) : ~Live(s)[k].deleted /\ \E i \in 1 .. Len(s) : Live(s)[k] = s[i]
<1>1. Live(s) \in Seq(S) /\ Takes(s, DeletedIn(s), Len(s), Live(s))
  BY LeavingProperties DEF Live
<1>2. ASSUME NEW k \in 1 .. Len(Live(s)) PROVE ~Live(s)[k].deleted /\ \E i \in 1 .. Len(s) : Live(s)[k] = s[i]
  <2>1. PICK i \in (1 .. Len(s)) \ DeletedIn(s) : Live(s)[k] = s[i]
    BY <1>1 DEF Takes
  <2>2. ~s[i].deleted
    BY DEF DeletedIn
  <2> QED
    BY <2>1, <2>2
<1> QED
  BY <1>1, <1>2 DEF Takes

LEMMA Registering ==
    ASSUME HandlersOK, NEW f \in Functions, changes \in Nat, MaxChanges \in Nat, RegisterBlockAndWakeupHandlers(f)
    PROVE  HandlersOK'
<1> DEFINE h == Handler(f)
           t == Append(handlers, h)
<1>1. h \in HandlerEntry /\ h.blocked = FALSE /\ h.woken = FALSE /\ h.deleted = FALSE
  BY DEF RegisterBlockAndWakeupHandlers, CountChange, Handler, HandlerEntry
<1>2. /\ handlers \in Seq(HandlerEntry) /\ Len(handlers) \in Nat
      /\ handlers' = t /\ round' = round /\ nextHandler' = nextHandler /\ round # "sleep"
  BY DEF RegisterBlockAndWakeupHandlers, HandlersOK, AllCalled
<1> HIDE DEF h
<1>3. /\ t \in Seq(HandlerEntry) /\ Len(t) = Len(handlers) + 1
      /\ t[Len(handlers) + 1] = h
      /\ \A i \in 1 .. Len(handlers) : t[i] = handlers[i]
  BY <1>1, <1>2, AppendProperties
<1> HIDE DEF t
<1>4. ASSUME NEW i \in 1 .. Len(t)
      PROVE  CalledSoFar(t[i], i, round, nextHandler) /\ (round = "none" => ~t[i].deleted)
  <2>1. CASE i \in 1 .. Len(handlers)
    BY <1>3, <2>1 DEF HandlersOK, AllCalled
  <2>2. CASE i = Len(handlers) + 1
    <3>1. /\ round = "block" => ~(i < nextHandler)
          /\ round = "wakeup" => ~(i <= nextHandler)
      BY <1>2, <2>2 DEF HandlersOK, NextHandler
    <3> QED
      BY <1>1, <1>2, <1>3, <2>2, <3>1 DEF CalledSoFar
  <2> QED
    BY <1>2, <1>3, <2>1, <2>2
<1>5. AllCalled(t, round, nextHandler)
  BY <1>2, <1>3, <1>4 DEF AllCalled
<1>6. NextHandler(t, round, nextHandler)
  BY <1>2, <1>3 DEF HandlersOK, NextHandler
<1> QED
  BY <1>2, <1>5, <1>6 DEF HandlersOK

LEMMA RemovingHandlers ==
    ASSUME HandlersOK, NEW f \in Functions, RemoveBlockAndWakeupHandlers(f)
    PROVE  HandlersOK'
<1> DEFINE i == FirstIndex(handlers, f)
           h == [handlers[i] EXCEPT !.deleted = TRUE]
<1>1. /\ handlers \in Seq(HandlerEntry) /\ Len(handlers) \in Nat /\ i \in 1 .. Len(handlers)
      /\ round' = round /\ nextHandler' = nextHandler /\ round # "sleep"
      /\ handlers' = IF InHandler THEN [handlers EXCEPT ![i] = h] ELSE RemoveAt(handlers, i)
  BY SomeIndex DEF RemoveBlockAndWakeupHandlers, HandlersOK, AllCalled
<1>2. handlers[i] \in HandlerEntry
  BY <1>1, ElementOfSeq
<1>3. h \in HandlerEntry /\ h.blocked = handlers[i].blocked /\ h.woken = handlers[i].woken
  BY <1>2 DEF HandlerEntry
<1> HIDE DEF i, h
<1>4. CASE InHandler
  <2> DEFINE t == [handlers EXCEPT ![i] = h]
  <2>1. /\ t \in Seq(HandlerEntry) /\ Len(t) = Len(handlers)
        /\ t[i] = h /\ \A j \in 1 .. Len(handlers) : j # i => t[j] = handlers[j]
    BY <1>1, <1>3, Replaced
  <2>2. handlers' = t /\ round \in {"block", "wakeup"}
    BY <1>1, <1>4 DEF InHandler
  <2> HIDE DEF t
  <2>3. CalledSoFar(t[i], i, round, nextHandler)
    BY <1>1, <1>3, <2>1 DEF HandlersOK, AllCalled, CalledSoFar
  <2>4. AllCalled(t, round, nextHandler)
    BY <2>1, <2>2, <2>3 DEF HandlersOK, AllCalled
  <2>5. NextHandler(t, round, nextHandler)
    BY <2>1 DEF HandlersOK, NextHandler
  <2> QED
    BY <1>1, <2>2, <2>4, <2>5 DEF HandlersOK
<1>5. CASE ~InHandler
  <2> DEFINE t == RemoveAt(handlers, i)
  <2>1. /\ t \in Seq(HandlerEntry) /\ Len(t) = Len(handlers) - 1
        /\ \A j \in 1 .. Len(handlers) - 1 : t[j] = IF j < i THEN handlers[j] ELSE handlers[j + 1]
    BY <1>1, TakenOut
  <2>2. handlers' = t /\ round = "none" /\ nextHandler = 0
    BY <1>1, <1>5 DEF HandlersOK, NextHandler, InHandler
  <2> HIDE DEF t
  <2>3. ASSUME NEW j \in 1 .. Len(t) PROVE ~t[j].blocked /\ ~t[j].woken /\ ~t[j].deleted
    <3>1. PICK k \in 1 .. Len(handlers) : t[j] = handlers[k]
      <4>1. j \in 1 .. Len(handlers) - 1 /\ j \in 1 .. Len(handlers) /\ j + 1 \in 1 .. Len(handlers)
        BY <1>1, <2>1
      <4> QED
        BY <2>1, <4>1
    <3> QED
      BY <2>2, <3>1 DEF HandlersOK, AllCalled, CalledSoFar
  <2>4. AllCalled(t, "none", 0)
    BY <2>1, <2>3 DEF AllCalled, CalledSoFar
  <2>5. NextHandler(t, "none", 0)
    BY <1>1, <2>1 DEF NextHandler
  <2> QED
    BY <1>1, <2>2, <2>4, <2>5 DEF HandlersOK
<1> QED
  BY <1>4, <1>5

LEMMA Blocking ==
    ASSUME HandlersOK, BlockBegins \/ CallBlockHandler \/ BlockEnds PROVE HandlersOK'
<1>0. handlers \in Seq(HandlerEntry) /\ Len(handlers) \in Nat /\ nextHandler \in 0 .. Len(handlers) + 1
  BY DEF HandlersOK, AllCalled, NextHandler
<1>1. CASE BlockBegins
  <2>1. round = "none" /\ round' = "block" /\ nextHandler' = 1 /\ handlers' = handlers
    BY <1>1 DEF BlockBegins
  <2>2. \A i \in 1 .. Len(handlers) : CalledSoFar(handlers[i], i, "block", 1)
    BY <1>0, <2>1 DEF HandlersOK, AllCalled, CalledSoFar
  <2>3. AllCalled(handlers, "block", 1) /\ NextHandler(handlers, "block", 1)
    BY <1>0, <2>2 DEF AllCalled, NextHandler
  <2> QED
    BY <2>1, <2>3 DEF HandlersOK
<1>2. CASE CallBlockHandler
  <2> DEFINE n == nextHandler
             h == [handlers[n] EXCEPT !.blocked = TRUE]
             t == [handlers EXCEPT ![n] = h]
  <2>1. /\ n \in 1 .. Len(handlers) /\ nextHandler' = n + 1
        /\ round = "block" /\ round' = "block" /\ handlers' = t
    BY <1>0, <1>2 DEF CallBlockHandler, HandlersOK, NextHandler
  <2>2. handlers[n] \in HandlerEntry
    BY <1>0, <2>1, ElementOfSeq
  <2>3. h \in HandlerEntry /\ h.blocked = TRUE /\ h.woken = handlers[n].woken
    BY <2>2 DEF HandlerEntry
  <2> HIDE DEF n, h
  <2>4. /\ t \in Seq(HandlerEntry) /\ Len(t) = Len(handlers)
        /\ t[n] = h /\ \A j \in 1 .. Len(handlers) : j # n => t[j] = handlers[j]
    BY <1>0, <2>1, <2>3, Replaced
  <2> HIDE DEF t
  <2>5. \A j \in 1 .. Len(handlers) : CalledSoFar(handlers[j], j, "block", n)
    BY <2>1 DEF HandlersOK, AllCalled, n
  <2>6. ASSUME NEW j \in 1 .. Len(t) PROVE CalledSoFar(t[j], j, "block", n + 1)
    <3>1. CASE j = n
      BY <1>0, <2>1, <2>3, <2>4, <2>5, <3>1 DEF CalledSoFar
    <3>2. CASE j # n
      <4>1. j < n <=> j < n + 1
        BY <1>0, <2>1, <2>4, <3>2
      <4> QED
        BY <2>4, <2>5, <3>2, <4>1 DEF CalledSoFar
    <3> QED
      BY <3>1, <3>2
  <2>7. AllCalled(t, "block", n + 1) /\ NextHandler(t, "block", n + 1)
    BY <1>0, <2>1, <2>4, <2>6 DEF AllCalled, NextHandler
  <2> QED
    BY <2>1, <2>7 DEF HandlersOK
<1>3. CASE BlockEnds
  <2> DEFINE t == Live(handlers)
  <2>1. /\ round = "block" /\ nextHandler > Len(handlers) /\ round' = "sleep" /\ nextHandler' = 0 /\ handlers' = t
    BY <1>3 DEF BlockEnds
  <2>2. ASSUME NEW i \in 1 .. Len(handlers) PROVE handlers[i].blocked /\ ~handlers[i].woken
    <3>1. i < nextHandler
      BY <1>0, <2>1
    <3> QED
      BY <2>1, <3>1 DEF HandlersOK, AllCalled, CalledSoFar
  <2>3. /\ t \in Seq(HandlerEntry)
        /\ \A k \in 1 .. Len(t) : ~t[k].deleted /\ \E i \in 1 .. Len(handlers) : t[k] = handlers[i]
    BY <1>0, LiveIsClean
  <2> HIDE DEF t
  <2>4. AllCalled(t, "sleep", 0) /\ NextHandler(t, "sleep", 0)
    BY <2>2, <2>3 DEF AllCalled, CalledSoFar, NextHandler
  <2> QED
    BY <2>1, <2>4 DEF HandlersOK
<1> QED
  BY <1>1, <1>2, <1>3

LEMMA Waking ==
    ASSUME HandlersOK, WakeupBegins \/ CallWakeupHandler \/ WakeupEnds PROVE HandlersOK'
<1>0. handlers \in Seq(HandlerEntry) /\ Len(handlers) \in Nat /\ nextHandler \in 0 .. Len(handlers) + 1
  BY DEF HandlersOK, AllCalled, NextHandler
<1>1. CASE WakeupBegins
  <2>1. round = "sleep" /\ round' = "wakeup" /\ nextHandler' = Len(handlers) /\ handlers' = handlers
    BY <1>1 DEF WakeupBegins
  <2>2. \A i \in 1 .. Len(handlers) : CalledSoFar(handlers[i], i, "wakeup", Len(handlers))
    BY <1>0, <2>1 DEF HandlersOK, AllCalled, CalledSoFar
  <2>3. AllCalled(handlers, "wakeup", Len(handlers)) /\ NextHandler(handlers, "wakeup", Len(handlers))
    BY <1>0, <2>2 DEF AllCalled, NextHandler
  <2> QED
    BY <2>1, <2>3 DEF HandlersOK
<1>2. CASE CallWakeupHandler
  <2> DEFINE n == nextHandler
             h == [handlers[n] EXCEPT !.woken = TRUE]
             t == [handlers EXCEPT ![n] = h]
  <2>1. /\ n \in 1 .. Len(handlers) /\ nextHandler' = n - 1
        /\ round = "wakeup" /\ round' = "wakeup" /\ handlers' = t
    BY <1>0, <1>2 DEF CallWakeupHandler, HandlersOK, NextHandler
  <2>2. handlers[n] \in HandlerEntry
    BY <1>0, <2>1, ElementOfSeq
  <2>3. h \in HandlerEntry /\ h.woken = TRUE /\ h.blocked = handlers[n].blocked
    BY <2>2 DEF HandlerEntry
  <2> HIDE DEF n, h
  <2>4. /\ t \in Seq(HandlerEntry) /\ Len(t) = Len(handlers)
        /\ t[n] = h /\ \A j \in 1 .. Len(handlers) : j # n => t[j] = handlers[j]
    BY <1>0, <2>1, <2>3, Replaced
  <2> HIDE DEF t
  <2>5. \A j \in 1 .. Len(handlers) : CalledSoFar(handlers[j], j, "wakeup", n)
    BY <2>1 DEF HandlersOK, AllCalled, n
  <2>6. ASSUME NEW j \in 1 .. Len(t) PROVE CalledSoFar(t[j], j, "wakeup", n - 1)
    <3>1. CASE j = n
      BY <1>0, <2>1, <2>3, <2>4, <2>5, <3>1 DEF CalledSoFar
    <3>2. CASE j # n
      <4>1. (j > n <=> j > n - 1) /\ (j <= n <=> j <= n - 1)
        BY <1>0, <2>1, <2>4, <3>2
      <4> QED
        BY <2>4, <2>5, <3>2, <4>1 DEF CalledSoFar
    <3> QED
      BY <3>1, <3>2
  <2>7. AllCalled(t, "wakeup", n - 1) /\ NextHandler(t, "wakeup", n - 1)
    BY <1>0, <2>1, <2>4, <2>6 DEF AllCalled, NextHandler
  <2> QED
    BY <2>1, <2>7 DEF HandlersOK
<1>3. CASE WakeupEnds
  <2> DEFINE live == Live(handlers)
             t == [i \in DOMAIN live |-> [live[i] EXCEPT !.blocked = FALSE, !.woken = FALSE]]
  <2>1. /\ round' = "none" /\ nextHandler' = nextHandler /\ nextHandler = 0 /\ handlers' = t
    BY <1>3 DEF WakeupEnds
  <2>2. live \in Seq(HandlerEntry) /\ \A i \in 1 .. Len(live) : ~live[i].deleted
    BY <1>0, LiveIsClean
  <2> HIDE DEF live
  <2>3. DOMAIN live = 1 .. Len(live) /\ Len(live) \in Nat /\ \A i \in 1 .. Len(live) : live[i] \in HandlerEntry
    BY <2>2, ElementOfSeq
  <2>4. ASSUME NEW i \in 1 .. Len(live)
        PROVE  t[i] \in HandlerEntry /\ t[i].blocked = FALSE /\ t[i].woken = FALSE /\ ~t[i].deleted
    <3>1. t[i] = [live[i] EXCEPT !.blocked = FALSE, !.woken = FALSE] /\ live[i] \in HandlerEntry
      BY <2>3
    <3>2. t[i] \in HandlerEntry /\ t[i].blocked = FALSE /\ t[i].woken = FALSE /\ t[i].deleted = live[i].deleted
      BY <3>1 DEF HandlerEntry
    <3> QED
      BY <2>2, <3>2
  <2>5. t \in Seq(HandlerEntry) /\ Len(t) = Len(live)
    <3>1. t \in [1 .. Len(live) -> HandlerEntry]
      BY <2>3, <2>4
    <3> HIDE DEF t
    <3> QED
      BY <2>3, <3>1
  <2> HIDE DEF t
  <2>6. \A i \in 1 .. Len(t) : CalledSoFar(t[i], i, "none", 0) /\ ~t[i].deleted
    BY <2>4, <2>5 DEF CalledSoFar
  <2>7. AllCalled(t, "none", 0)
    BY <2>5, <2>6 DEF AllCalled
  <2>8. NextHandler(t, "none", 0)
    BY <2>3, <2>5 DEF NextHandler
  <2> QED
    BY <2>1, <2>7, <2>8 DEF HandlersOK
<1> QED
  BY <1>1, <1>2, <1>3

-----------------------------------------------------------------------------
(* The callback list.                                                      *)

Entry == [function : Functions, deleted : BOOLEAN, number : 1 .. MaxChanges]
Call == [cursor : Nat, called : Seq(Nat), began : Seq(Nat)]

\* The entries are numbered, the newest first.
Descending(s) == \A i, j \in 1 .. Len(s) : i < j => s[i].number > s[j].number

\* A call began with the entries from m on, which are still there, and has
\* called some of them, the last of which is the one its cursor is at.
RunsFrom(call, s, m) ==
    /\ Len(call.began) = Len(s) - m + 1
    /\ \A i \in 1 .. Len(call.began) : call.began[i] = s[m + i - 1].number
    /\ Len(call.called) \in 1 .. Len(call.began)
    /\ \A i \in 1 .. Len(call.called) : call.called[i] = call.began[i]
    /\ call.cursor = call.called[Len(call.called)]

Runs(call, s) == \E m \in 1 .. Len(s) : RunsFrom(call, s, m)

ListOK ==
    /\ callbacks \in Seq(Entry)
    /\ changes \in 0 .. MaxChanges /\ numDeleted \in 0 .. changes
    /\ \A i \in 1 .. Len(callbacks) : callbacks[i].number <= changes
    /\ Descending(callbacks)
    /\ Cardinality(DeletedIn(callbacks)) <= numDeleted
    /\ calls \in Seq(Call) /\ Len(calls) <= MaxDepth
    /\ calls = <<>> => DeletedIn(callbacks) = {}
    /\ \A k \in 1 .. Len(calls) : Runs(calls[k], callbacks)

LEMMA MarkedIsFinite ==
    ASSUME NEW S, NEW s \in Seq(S)
    PROVE  /\ IsFiniteSet(DeletedIn(s)) /\ Cardinality(DeletedIn(s)) \in Nat
           /\ DeletedIn(s) = {} => Cardinality(DeletedIn(s)) = 0
<1>1. Len(s) \in Nat /\ DeletedIn(s) \subseteq 1 .. Len(s) /\ 1 \in Int
  BY DEF DeletedIn
<1>2. IsFiniteSet(1 .. Len(s))
  BY <1>1, FS_Interval
<1> QED
  BY <1>1, <1>2, FS_Subset, FS_CardinalityType, FS_EmptySet

LEMMA NumberIsInt ==
    ASSUME NEW s \in Seq(Entry), NEW i \in 1 .. Len(s) PROVE s[i].number \in Int
<1>1. s[i] \in Entry
  BY ElementOfSeq
<1> QED
  BY <1>1, CallbacksAssumption DEF Entry

\* There is one entry of a number.
LEMMA OneOfANumber ==
    ASSUME NEW s \in Seq(Entry), Descending(s), NEW i \in 1 .. Len(s), NEW j \in 1 .. Len(s),
           s[i].number = s[j].number
    PROVE  i = j
<1>1. s[i].number \in Int /\ s[j].number \in Int
  BY NumberIsInt
<1>2. ~(i < j) /\ ~(j < i)
  BY <1>1 DEF Descending
<1> QED
  BY <1>2

LEMMA RunsInSame ==
    ASSUME NEW call, NEW s, NEW t, Runs(call, s), Len(t) = Len(s),
           \A i \in 1 .. Len(s) : t[i].number = s[i].number, Len(s) \in Nat
    PROVE  Runs(call, t)
<1>1. PICK m \in 1 .. Len(s) : RunsFrom(call, s, m)
  BY DEF Runs
<1>2. \A i \in 1 .. Len(call.began) : m + i - 1 \in 1 .. Len(s)
  BY <1>1 DEF RunsFrom
<1>3. RunsFrom(call, t, m)
  BY <1>1, <1>2 DEF RunsFrom
<1> QED
  BY <1>1, <1>3 DEF Runs

LEMMA AddingCallback ==
    ASSUME ListOK, MaxChanges \in Nat, NEW f \in Functions, AddCallback(f) PROVE ListOK'
<1> DEFINE e == [function |-> f, deleted |-> FALSE, number |-> changes + 1]
           t == <<e>> \o callbacks
<1>1. /\ changes < MaxChanges /\ changes' = changes + 1 /\ callbacks' = t
      /\ calls' = calls /\ numDeleted' = numDeleted
  BY DEF AddCallback, CountChange
<1>2. callbacks \in Seq(Entry) /\ Len(callbacks) \in Nat /\ changes \in Nat /\ numDeleted \in 0 .. changes
  BY DEF ListOK
<1>3. e \in Entry /\ e.number = changes + 1 /\ e.deleted = FALSE
  BY <1>1, <1>2 DEF Entry
<1> HIDE DEF e
<1>4. /\ t \in Seq(Entry) /\ Len(t) = Len(callbacks) + 1 /\ t[1] = e
      /\ \A i \in 1 .. Len(callbacks) : t[i + 1] = callbacks[i]
  <2> DEFINE one == <<e>>
  <2>1. one \in Seq(Entry) /\ Len(one) = 1 /\ one[1] = e
    BY <1>3
  <2> HIDE DEF one
  <2>0. /\ one \o callbacks \in Seq(Entry) /\ Len(one \o callbacks) = Len(one) + Len(callbacks)
        /\ \A i \in 1 .. Len(one) + Len(callbacks) :
              (one \o callbacks)[i] = IF i <= Len(one) THEN one[i] ELSE callbacks[i - Len(one)]
    BY <1>2, <2>1, ConcatProperties
  <2>2. /\ one \o callbacks \in Seq(Entry) /\ Len(one \o callbacks) = 1 + Len(callbacks)
        /\ \A i \in 1 .. 1 + Len(callbacks) :
              (one \o callbacks)[i] = IF i <= 1 THEN one[i] ELSE callbacks[i - 1]
    BY <2>0, <2>1
  <2>3. /\ 1 \in 1 .. 1 + Len(callbacks)
        /\ \A i \in 1 .. Len(callbacks) : i + 1 \in 1 .. 1 + Len(callbacks) /\ ~(i + 1 <= 1) /\ (i + 1) - 1 = i
    BY <1>2
  <2>4. one \o callbacks = t
    BY DEF one
  <2> HIDE DEF t
  <2>5. t[1] = e
    BY <2>1, <2>2, <2>3, <2>4
  <2>6. \A i \in 1 .. Len(callbacks) : t[i + 1] = callbacks[i]
    BY <2>2, <2>3, <2>4
  <2> QED
    BY <1>2, <2>2, <2>4, <2>5, <2>6
<1> HIDE DEF t
<1>5. \A i \in 1 .. Len(t) : i = 1 \/ (i - 1 \in 1 .. Len(callbacks) /\ t[i] = callbacks[i - 1])
  <2> TAKE i \in 1 .. Len(t)
  <2>1. CASE i # 1
    <3>1. i - 1 \in 1 .. Len(callbacks) /\ (i - 1) + 1 = i
      BY <1>2, <1>4, <2>1
    <3> QED
      BY <1>4, <3>1
  <2> QED
    BY <2>1
<1>6. \A i \in 1 .. Len(t) : t[i].number <= changes + 1
  <2> TAKE i \in 1 .. Len(t)
  <2>1. CASE i = 1
    BY <1>2, <1>3, <1>4, <2>1
  <2>2. CASE i # 1
    <3>1. i - 1 \in 1 .. Len(callbacks) /\ t[i] = callbacks[i - 1]
      BY <1>5, <2>2
    <3>2. callbacks[i - 1].number <= changes /\ callbacks[i - 1].number \in Int
      BY <1>2, <3>1, NumberIsInt DEF ListOK
    <3> QED
      BY <1>2, <3>1, <3>2
  <2> QED
    BY <2>1, <2>2
<1>7. Descending(t)
  <2> SUFFICES ASSUME NEW i \in 1 .. Len(t), NEW j \in 1 .. Len(t), i < j PROVE t[i].number > t[j].number
    BY DEF Descending
  <2>1. j - 1 \in 1 .. Len(callbacks) /\ t[j] = callbacks[j - 1]
    BY <1>5
  <2>2. callbacks[j - 1].number <= changes /\ callbacks[j - 1].number \in Int
    BY <1>2, <2>1, NumberIsInt DEF ListOK
  <2>3. CASE i = 1
    BY <1>2, <1>3, <1>4, <2>1, <2>2, <2>3
  <2>4. CASE i # 1
    <3>1. i - 1 \in 1 .. Len(callbacks) /\ t[i] = callbacks[i - 1] /\ i - 1 < j - 1
      BY <1>5, <2>4
    <3> QED
      BY <2>1, <3>1 DEF ListOK, Descending
  <2> QED
    BY <2>3, <2>4
<1>8. Cardinality(DeletedIn(t)) <= numDeleted
  \* The marks move by one place.
  <2>1. DeletedIn(t) = {i + 1 : i \in DeletedIn(callbacks)}
    <3>1. ASSUME NEW i \in DeletedIn(t) PROVE i \in {j + 1 : j \in DeletedIn(callbacks)}
      <4>1. i \in 1 .. Len(t) /\ t[i].deleted
        BY <1>4, <3>1 DEF DeletedIn
      <4>2. i # 1
        BY <1>3, <1>4, <4>1
      <4>3. i - 1 \in 1 .. Len(callbacks) /\ callbacks[i - 1].deleted /\ i = (i - 1) + 1
        BY <1>5, <4>1, <4>2
      <4> QED
        BY <1>2, <4>3 DEF DeletedIn
    <3>2. ASSUME NEW i \in DeletedIn(callbacks) PROVE i + 1 \in DeletedIn(t)
      <4>1. i \in 1 .. Len(callbacks) /\ callbacks[i].deleted
        BY <1>2, <3>2 DEF DeletedIn
      <4>2. i + 1 \in 1 .. Len(t) /\ t[i + 1].deleted
        BY <1>2, <1>4, <4>1
      <4> QED
        BY <1>4, <4>2 DEF DeletedIn
    <3> QED
      BY <3>1, <3>2
  <2>2. /\ IsFiniteSet(DeletedIn(callbacks)) /\ Cardinality(DeletedIn(callbacks)) \in Nat
        /\ Cardinality(DeletedIn(t)) \in Nat
    BY <1>2, <1>4, MarkedIsFinite
  <2> DEFINE g == [i \in DeletedIn(callbacks) |-> i + 1]
  <2>3. g \in Surjection(DeletedIn(callbacks), DeletedIn(t))
    BY <2>1 DEF Surjection
  <2>4. Cardinality(DeletedIn(t)) <= Cardinality(DeletedIn(callbacks))
    BY <2>2, <2>3, FS_Surjection
  <2> QED
    BY <1>2, <2>2, <2>4 DEF ListOK
<1>9. calls = <<>> => DeletedIn(t) = {}
  <2> SUFFICES ASSUME calls = <<>> PROVE DeletedIn(t) = {}
    OBVIOUS
  <2>1. \A i \in 1 .. Len(callbacks) : ~callbacks[i].deleted
    BY <1>2, NoneDeleted DEF ListOK
  <2>2. \A i \in 1 .. Len(t) : ~t[i].deleted
    BY <1>3, <1>4, <1>5, <2>1
  <2> QED
    BY <1>4, <2>2, NoneDeleted
<1>10. ASSUME NEW k \in 1 .. Len(calls) PROVE Runs(calls[k], t)
  <2>1. PICK m \in 1 .. Len(callbacks) : RunsFrom(calls[k], callbacks, m)
    BY <1>10 DEF ListOK, Runs
  <2>2. m + 1 \in 1 .. Len(t) /\ Len(t) - (m + 1) + 1 = Len(callbacks) - m + 1
    BY <1>2, <1>4
  <2>3. ASSUME NEW i \in 1 .. Len(calls[k].began) PROVE t[(m + 1) + i - 1].number = callbacks[m + i - 1].number
    <3>1. m + i - 1 \in 1 .. Len(callbacks) /\ (m + i - 1) + 1 = (m + 1) + i - 1
      BY <1>2, <2>1 DEF RunsFrom
    <3> QED
      BY <1>4, <3>1
  <2>4. RunsFrom(calls[k], t, m + 1)
    BY <2>1, <2>2, <2>3 DEF RunsFrom
  <2> QED
    BY <2>2, <2>4 DEF Runs
<1>11. changes + 1 \in 0 .. MaxChanges /\ numDeleted \in 0 .. changes + 1
  BY <1>1, <1>2
<1> QED
  BY <1>1, <1>4, <1>6, <1>7, <1>8, <1>9, <1>10, <1>11 DEF ListOK

LEMMA DeletingCallback ==
    ASSUME ListOK, MaxChanges \in Nat, NEW f \in Functions, DeleteCallback(f) PROVE ListOK'
<1> DEFINE i == FirstIndex(callbacks, f)
           e == [callbacks[i] EXCEPT !.deleted = TRUE]
<1>1. /\ callbacks \in Seq(Entry) /\ Len(callbacks) \in Nat /\ i \in 1 .. Len(callbacks)
      /\ changes < MaxChanges /\ changes' = changes + 1 /\ calls' = calls
      /\ changes \in Nat /\ numDeleted \in 0 .. changes
  BY SomeIndex DEF DeleteCallback, CountChange, ListOK
<1>2. CASE calls # <<>>
  <2> DEFINE t == [callbacks EXCEPT ![i] = e]
  <2>1. callbacks' = t /\ numDeleted' = numDeleted + 1
    BY <1>2 DEF DeleteCallback
  <2>2. callbacks[i] \in Entry
    BY <1>1, ElementOfSeq
  <2>3. e \in Entry /\ e.number = callbacks[i].number
    BY <2>2 DEF Entry
  <2> HIDE DEF e, i
  <2>4. /\ t \in Seq(Entry) /\ Len(t) = Len(callbacks)
        /\ t[i] = e /\ \A j \in 1 .. Len(callbacks) : j # i => t[j] = callbacks[j]
    BY <1>1, <2>3, Replaced
  <2> HIDE DEF t
  <2>5. \A j \in 1 .. Len(callbacks) : t[j].number = callbacks[j].number
    BY <2>3, <2>4
  <2>6. Descending(t)
    BY <2>4, <2>5 DEF ListOK, Descending
  <2>7. \A j \in 1 .. Len(t) : t[j].number <= changes + 1
    <3> TAKE j \in 1 .. Len(t)
    <3>1. callbacks[j].number \in Int /\ callbacks[j].number <= changes
      BY <1>1, <2>4, NumberIsInt DEF ListOK
    <3> QED
      BY <1>1, <2>4, <2>5, <3>1
  <2>8. Cardinality(DeletedIn(t)) <= numDeleted + 1
    <3> DEFINE marked == DeletedIn(callbacks)
    <3>1. IsFiniteSet(marked) /\ Cardinality(marked) \in Nat /\ Cardinality(DeletedIn(t)) \in Nat
      BY <1>1, <2>4, MarkedIsFinite
    <3>2. DeletedIn(t) \in SUBSET (marked \cup {i})
      BY <1>1, <2>4 DEF DeletedIn
    <3>3. Cardinality(marked) <= numDeleted
      BY DEF ListOK
    <3> HIDE DEF marked
    <3>4. /\ IsFiniteSet(marked \cup {i}) /\ Cardinality(marked \cup {i}) <= Cardinality(marked) + 1
          /\ Cardinality(marked \cup {i}) \in Nat
      BY <3>1, FS_AddElement
    <3>5. Cardinality(DeletedIn(t)) <= Cardinality(marked \cup {i})
      BY <3>2, <3>4, FS_Subset
    <3> QED
      BY <1>1, <3>1, <3>3, <3>4, <3>5
  <2>9. \A k \in 1 .. Len(calls) : Runs(calls[k], t)
    BY <1>1, <2>4, <2>5, RunsInSame DEF ListOK
  <2>10. changes + 1 \in 0 .. MaxChanges /\ numDeleted + 1 \in 0 .. changes + 1
    BY <1>1
  <2> QED
    BY <1>1, <1>2, <2>1, <2>4, <2>6, <2>7, <2>8, <2>9, <2>10 DEF ListOK
<1>3. CASE calls = <<>>
  <2> DEFINE t == RemoveAt(callbacks, i)
  <2>1. callbacks' = t /\ numDeleted' = numDeleted
    BY <1>3 DEF DeleteCallback
  <2> HIDE DEF i
  <2>2. /\ t \in Seq(Entry) /\ Len(t) = Len(callbacks) - 1
        /\ \A j \in 1 .. Len(callbacks) - 1 : t[j] = IF j < i THEN callbacks[j] ELSE callbacks[j + 1]
    BY <1>1, TakenOut
  <2> HIDE DEF t
  <2> DEFINE old(j) == IF j < i THEN j ELSE j + 1
  <2>3. \A j \in 1 .. Len(t) : old(j) \in 1 .. Len(callbacks) /\ t[j] = callbacks[old(j)]
    BY <1>1, <2>2
  <2>4. \A j, k \in 1 .. Len(t) : j < k => old(j) < old(k)
    BY <1>1, <2>2
  <2> HIDE DEF old
  <2>5. Descending(t)
    BY <2>3, <2>4 DEF ListOK, Descending
  <2>6. \A j \in 1 .. Len(t) : t[j].number <= changes + 1
    <3> TAKE j \in 1 .. Len(t)
    <3>1. callbacks[old(j)].number \in Int /\ callbacks[old(j)].number <= changes
      BY <1>1, <2>3, NumberIsInt DEF ListOK
    <3> QED
      BY <1>1, <2>3, <3>1
  <2>7. \A j \in 1 .. Len(t) : ~t[j].deleted
    BY <1>1, <1>3, <2>3, NoneDeleted DEF ListOK
  <2>8. DeletedIn(t) = {} /\ Cardinality(DeletedIn(t)) = 0
    BY <2>2, <2>7, NoneDeleted, MarkedIsFinite
  <2>9. changes + 1 \in 0 .. MaxChanges /\ numDeleted \in 0 .. changes + 1
    BY <1>1
  <2>10. Len(calls) = 0
    BY <1>3
  <2> QED
    BY <1>1, <2>1, <2>2, <2>5, <2>6, <2>8, <2>9, <2>10 DEF ListOK
<1> QED
  BY <1>2, <1>3

\* A call is pushed.
LEMMA PushedOnto ==
    ASSUME NEW S, NEW s \in Seq(S), NEW e \in S
    PROVE  /\ <<e>> \o s \in Seq(S) /\ Len(<<e>> \o s) = Len(s) + 1 /\ (<<e>> \o s)[1] = e
           /\ \A i \in 2 .. Len(s) + 1 : (<<e>> \o s)[i] = s[i - 1]
<1> DEFINE one == <<e>>
<1>1. one \in Seq(S) /\ Len(one) = 1 /\ one[1] = e /\ Len(s) \in Nat
  OBVIOUS
<1>2. one \o s = <<e>> \o s
  OBVIOUS
<1> HIDE DEF one
<1>3. /\ one \o s \in Seq(S) /\ Len(one \o s) = Len(one) + Len(s)
      /\ \A i \in 1 .. Len(one) + Len(s) : (one \o s)[i] = IF i <= Len(one) THEN one[i] ELSE s[i - Len(one)]
  BY <1>1, ConcatProperties
<1>4. (one \o s)[1] = e /\ \A i \in 2 .. Len(s) + 1 : (one \o s)[i] = s[i - 1]
  BY <1>1, <1>3
<1> QED
  BY <1>1, <1>2, <1>3, <1>4

LEMMA CallingCallbacks ==
    ASSUME ListOK, MaxDepth \in Nat, CallCallbacks PROVE ListOK'
<1> DEFINE first == Head(callbacks).number
           numbers == Numbers(callbacks)
           call == [cursor |-> first, called |-> <<first>>, began |-> numbers]
           t == <<call>> \o calls
<1>1. /\ callbacks \in Seq(Entry) /\ Len(callbacks) \in Nat /\ calls \in Seq(Call) /\ Len(calls) \in Nat
      /\ Len(calls) < MaxDepth /\ callbacks # <<>> /\ calls' = t
      /\ UNCHANGED <<callbacks, numDeleted, changes>>
  BY DEF CallCallbacks, ListOK
<1>2. 1 \in 1 .. Len(callbacks) /\ first = callbacks[1].number /\ DOMAIN callbacks = 1 .. Len(callbacks)
  BY <1>1
<1>3. \A i \in 1 .. Len(callbacks) : callbacks[i].number \in Nat
  <2> TAKE i \in 1 .. Len(callbacks)
  <2>1. callbacks[i] \in Entry
    BY <1>1, ElementOfSeq
  <2> QED
    BY <2>1, CallbacksAssumption DEF Entry
<1>4. /\ numbers \in Seq(Nat) /\ Len(numbers) = Len(callbacks)
      /\ \A i \in 1 .. Len(callbacks) : numbers[i] = callbacks[i].number
  <2>1. numbers = [i \in 1 .. Len(callbacks) |-> callbacks[i].number]
    BY <1>2 DEF Numbers
  <2>2. numbers \in [1 .. Len(callbacks) -> Nat]
    BY <1>3, <2>1
  <2>3. \A i \in 1 .. Len(callbacks) : numbers[i] = callbacks[i].number
    BY <2>1
  <2>4. Len(callbacks) \in Nat
    BY <1>1
  <2> HIDE DEF numbers
  <2>5. numbers \in Seq(Nat) /\ Len(numbers) = Len(callbacks)
    BY <2>2, <2>4
  <2> QED
    BY <2>3, <2>5
<1>5. first \in Nat
  BY <1>2, <1>3
<1> HIDE DEF first, numbers
<1>6. /\ call \in Call /\ call.began = numbers /\ call.cursor = first
      /\ Len(call.called) = 1 /\ call.called[1] = first
  BY <1>4, <1>5 DEF Call
<1> HIDE DEF call
<1>7. /\ t \in Seq(Call) /\ Len(t) = Len(calls) + 1 /\ t[1] = call
      /\ \A i \in 2 .. Len(calls) + 1 : t[i] = calls[i - 1]
  BY <1>1, <1>6, PushedOnto
<1> HIDE DEF t
<1>8. RunsFrom(call, callbacks, 1)
  BY <1>1, <1>2, <1>4, <1>6 DEF RunsFrom
<1>9. \A k \in 1 .. Len(t) : Runs(t[k], callbacks)
  <2> TAKE k \in 1 .. Len(t)
  <2>1. CASE k = 1
    BY <1>2, <1>7, <1>8, <2>1 DEF Runs
  <2>2. CASE k # 1
    <3>1. k \in 2 .. Len(calls) + 1 /\ k - 1 \in 1 .. Len(calls)
      BY <1>1, <1>7, <2>2
    <3> QED
      BY <1>7, <3>1 DEF ListOK
  <2> QED
    BY <2>1, <2>2
<1>10. Len(t) <= MaxDepth /\ t # <<>>
  BY <1>1, <1>7
<1> QED
  BY <1>1, <1>7, <1>9, <1>10 DEF ListOK

LEMMA RestOfSeq ==
    ASSUME NEW S, NEW s \in Seq(S), NEW i \in 1 .. Len(s)
    PROVE  /\ SubSeq(s, i + 1, Len(s)) \in Seq(S) /\ Len(SubSeq(s, i + 1, Len(s))) = Len(s) - i
           /\ i < Len(s) => Head(SubSeq(s, i + 1, Len(s))) = s[i + 1]
<1> DEFINE b == SubSeq(s, i + 1, Len(s))
<1>1. Len(s) \in Nat /\ i \in Nat /\ i <= Len(s)
  OBVIOUS
<1>2. i + 1 \in Int /\ Len(s) \in Int /\ \A j \in i + 1 .. Len(s) : s[j] \in S
  BY <1>1, ElementOfSeq
<1>3. /\ b \in Seq(S) /\ Len(b) = IF i + 1 <= Len(s) THEN Len(s) - (i + 1) + 1 ELSE 0
      /\ \A j \in 1 .. Len(s) - (i + 1) + 1 : b[j] = s[i + 1 + j - 1]
  BY <1>2, SubSeqProperties
<1> HIDE DEF b
<1>4. Len(b) = Len(s) - i
  BY <1>1, <1>3
<1>5. ASSUME i < Len(s) PROVE Head(b) = s[i + 1]
  <2>1. 1 \in 1 .. Len(s) - (i + 1) + 1 /\ i + 1 + 1 - 1 = i + 1
    BY <1>1, <1>5
  <2>2. b[1] = s[i + 1]
    BY <1>3, <2>1
  <2>3. b # <<>>
    BY <1>1, <1>4, <1>5
  <2> QED
    BY <1>3, <2>2, <2>3
<1> QED
  BY <1>3, <1>4, <1>5 DEF b

\* Where the cursor of the innermost call is, and what comes after it.
LEMMA AtCursor ==
    ASSUME ListOK, calls # <<>>, NEW m \in 1 .. Len(callbacks), RunsFrom(Head(calls), callbacks, m),
           NEW at, at = m + Len(Head(calls).called) - 1
    PROVE  /\ at \in 1 .. Len(callbacks) /\ callbacks[at].number = Head(calls).cursor
           /\ AfterCursor \in Seq(Entry) /\ Len(AfterCursor) = Len(callbacks) - at
           /\ at < Len(callbacks) => Head(AfterCursor) = callbacks[at + 1]
<1> DEFINE call == Head(calls)
<1>1. callbacks \in Seq(Entry) /\ Len(callbacks) \in Nat /\ Descending(callbacks) /\ DOMAIN callbacks = 1 .. Len(callbacks)
  BY DEF ListOK
<1>2. call \in Call
  BY DEF ListOK
<1>3. /\ Len(call.called) \in 1 .. Len(call.began) /\ Len(call.began) = Len(callbacks) - m + 1
      /\ \A i \in 1 .. Len(call.began) : call.began[i] = callbacks[m + i - 1].number
      /\ \A i \in 1 .. Len(call.called) : call.called[i] = call.began[i]
      /\ call.cursor = call.called[Len(call.called)]
  BY DEF RunsFrom
<1>4. Len(call.called) \in Nat /\ Len(call.began) \in Nat /\ at = m + Len(call.called) - 1
  BY <1>2 DEF Call
<1> HIDE DEF call
<1>5. at \in 1 .. Len(callbacks)
  BY <1>1, <1>3, <1>4
<1>6. callbacks[at].number = call.cursor
  <2>1. Len(call.called) \in 1 .. Len(call.called)
    BY <1>3, <1>4
  <2> QED
    BY <1>3, <1>4, <2>1
<1>7. at = CHOOSE i \in DOMAIN callbacks : callbacks[i].number = call.cursor
  BY <1>1, <1>5, <1>6, OneOfANumber
<1>8. AfterCursor = SubSeq(callbacks, at + 1, Len(callbacks))
  BY <1>7 DEF AfterCursor, call
<1>9. /\ AfterCursor \in Seq(Entry) /\ Len(AfterCursor) = Len(callbacks) - at
      /\ at < Len(callbacks) => Head(AfterCursor) = callbacks[at + 1]
  BY <1>1, <1>5, <1>8, RestOfSeq
<1> QED
  BY <1>5, <1>6, <1>9 DEF call

LEMMA CallingNext ==
    ASSUME ListOK, CallNext PROVE ListOK'
<1> DEFINE call == Head(calls)
           next == Head(AfterCursor).number
           c == [calls[1] EXCEPT !.called = Append(@, next), !.cursor = next]
           t == [calls EXCEPT ![1] = c]
<1>1. /\ calls \in Seq(Call) /\ calls # <<>> /\ Len(calls) \in Nat /\ AfterCursor # <<>>
      /\ callbacks \in Seq(Entry) /\ Len(callbacks) \in Nat
      /\ UNCHANGED <<callbacks, numDeleted, changes>>
  BY DEF CallNext, ListOK
<1>2. calls' = [calls EXCEPT ![1].called = Append(@, next), ![1].cursor = next]
  BY DEF CallNext
<1>3. 1 \in 1 .. Len(calls) /\ call = calls[1] /\ call \in Call
  BY <1>1
<1>4. calls' = t
  BY <1>1, <1>2, <1>3
<1>5. PICK m \in 1 .. Len(callbacks) : RunsFrom(call, callbacks, m)
  BY <1>3 DEF ListOK, Runs
<1> DEFINE at == m + Len(call.called) - 1
<1>6. /\ at \in 1 .. Len(callbacks)
      /\ AfterCursor \in Seq(Entry) /\ Len(AfterCursor) = Len(callbacks) - at
      /\ at < Len(callbacks) => Head(AfterCursor) = callbacks[at + 1]
  BY <1>1, <1>5, AtCursor
<1>7. at < Len(callbacks)
  BY <1>1, <1>6
<1>8. next = callbacks[at + 1].number /\ at + 1 \in 1 .. Len(callbacks)
  BY <1>1, <1>6, <1>7
<1>9. next \in Nat
  <2>1. callbacks[at + 1] \in Entry
    BY <1>1, <1>8, ElementOfSeq
  <2> QED
    BY <1>8, <2>1, CallbacksAssumption DEF Entry
<1>10. call.called \in Seq(Nat) /\ call.began \in Seq(Nat) /\ Len(call.called) \in Nat /\ Len(call.began) \in Nat
  BY <1>3 DEF Call
<1> DEFINE q == Append(call.called, next)
<1> HIDE DEF call, next
<1>11. /\ q \in Seq(Nat) /\ Len(q) = Len(call.called) + 1 /\ q[Len(call.called) + 1] = next
       /\ \A i \in 1 .. Len(call.called) : q[i] = call.called[i]
  BY <1>9, <1>10, AppendProperties
<1>12. c \in Call /\ c.called = q /\ c.cursor = next /\ c.began = call.began
  BY <1>3, <1>9, <1>11 DEF Call
<1> HIDE DEF c, q
<1>13. /\ t \in Seq(Call) /\ Len(t) = Len(calls) /\ t[1] = c
       /\ \A k \in 1 .. Len(calls) : k # 1 => t[k] = calls[k]
  BY <1>1, <1>3, <1>12, Replaced
<1> HIDE DEF t
<1>14. RunsFrom(c, callbacks, m)
  <2>1. /\ Len(call.began) = Len(callbacks) - m + 1
        /\ \A i \in 1 .. Len(call.began) : call.began[i] = callbacks[m + i - 1].number
        /\ Len(call.called) \in 1 .. Len(call.began)
        /\ \A i \in 1 .. Len(call.called) : call.called[i] = call.began[i]
    BY <1>5 DEF RunsFrom
  <2>2. Len(q) \in 1 .. Len(call.began)
    <3>1. /\ Len(q) = Len(call.called) + 1 /\ m + Len(call.called) - 1 < Len(callbacks)
          /\ Len(call.began) = Len(callbacks) - m + 1
      BY <1>7, <1>11, <2>1
    <3>2. m \in Nat /\ Len(call.called) \in Nat /\ Len(callbacks) \in Nat
      BY <1>1, <1>10
    <3> QED
      BY <3>1, <3>2
  <2>3. next = call.began[Len(q)]
    <3>1. m + Len(q) - 1 = at + 1
      BY <1>10, <1>11
    <3> QED
      BY <1>8, <2>1, <2>2, <3>1
  <2>4. \A i \in 1 .. Len(q) : q[i] = call.began[i]
    <3> TAKE i \in 1 .. Len(q)
    <3>1. i \in 1 .. Len(call.called) \/ i = Len(q)
      BY <1>10, <1>11
    <3> QED
      BY <1>11, <2>1, <2>3, <3>1
  <2>5. next = q[Len(q)]
    BY <1>11
  <2> QED
    BY <1>12, <2>1, <2>2, <2>4, <2>5 DEF RunsFrom
<1>15. \A k \in 1 .. Len(t) : Runs(t[k], callbacks)
  <2> TAKE k \in 1 .. Len(t)
  <2>1. CASE k = 1
    BY <1>13, <1>14, <2>1 DEF Runs
  <2>2. CASE k # 1
    BY <1>13, <2>2 DEF ListOK
  <2> QED
    BY <2>1, <2>2
<1>16. t # <<>>
  BY <1>1, <1>3, <1>13
<1> QED
  BY <1>1, <1>4, <1>13, <1>15, <1>16 DEF ListOK

\* The sweep finds every marked entry: there are at most numDeleted.
LEMMA SweepCleans ==
    ASSUME ListOK
    PROVE  /\ Sweep.list \in Seq(Entry) /\ Descending(Sweep.list)
           /\ \A k \in 1 .. Len(Sweep.list) : Sweep.list[k].number <= changes
           /\ DeletedIn(Sweep.list) = {} /\ Sweep.left \in 0 .. changes
<1> DEFINE marked == DeletedIn(callbacks)
           early == {i \in marked : Cardinality({j \in marked : j < i}) < numDeleted}
           t == Leaving(callbacks, early)
<1>1. /\ callbacks \in Seq(Entry) /\ Len(callbacks) \in Nat /\ Descending(callbacks)
      /\ changes \in Nat /\ numDeleted \in 0 .. changes /\ Cardinality(marked) <= numDeleted
  BY DEF ListOK
<1>2. IsFiniteSet(marked) /\ Cardinality(marked) \in Nat
  BY <1>1, MarkedIsFinite
<1>3. Sweep.list = t /\ Sweep.left = numDeleted - Cardinality(early)
  BY DEF Sweep
<1>4. early = marked
  <2> SUFFICES ASSUME NEW i \in marked PROVE Cardinality({j \in marked : j < i}) < numDeleted
    OBVIOUS
  <2> DEFINE below == {j \in marked : j < i}
  <2>1. marked \subseteq 1 .. Len(callbacks)
    BY <1>1 DEF DeletedIn
  <2>2. ~(i < i)
    BY <1>1, <2>1
  <2> HIDE DEF marked
  <2>3. below \in SUBSET (marked \ {i})
    BY <2>2
  <2>4. IsFiniteSet(marked \ {i}) /\ Cardinality(marked \ {i}) = Cardinality(marked) - 1
    BY <1>2, FS_RemoveElement
  <2> HIDE DEF below
  <2>5. IsFiniteSet(below) /\ Cardinality(below) <= Cardinality(marked \ {i})
    BY <2>3, <2>4, FS_Subset
  <2>6. Cardinality(below) \in Nat
    BY <2>5, FS_CardinalityType
  <2>7. Cardinality(below) < numDeleted
    BY <1>1, <1>2, <2>4, <2>5, <2>6
  <2> QED
    BY <2>7 DEF below
<1> HIDE DEF marked, early
<1>5. t \in Seq(Entry) /\ Takes(callbacks, early, Len(callbacks), t)
  BY <1>1, LeavingProperties
<1> HIDE DEF t
<1>6. \A k \in 1 .. Len(t) : ~t[k].deleted /\ t[k].number <= changes
  <2> TAKE k \in 1 .. Len(t)
  <2>1. PICK i \in (1 .. Len(callbacks)) \ early : t[k] = callbacks[i]
    BY <1>5 DEF Takes
  <2>2. ~callbacks[i].deleted
    BY <1>1, <1>4, <2>1 DEF marked, DeletedIn
  <2> QED
    BY <2>1, <2>2 DEF ListOK
<1>7. Descending(t)
  <2> SUFFICES ASSUME NEW j \in 1 .. Len(t), NEW k \in 1 .. Len(t), j < k PROVE t[j].number > t[k].number
    BY DEF Descending
  <2>1. PICK i \in 1 .. Len(callbacks), l \in 1 .. Len(callbacks) :
            i < l /\ t[j] = callbacks[i] /\ t[k] = callbacks[l]
    BY <1>5 DEF Takes
  <2> QED
    BY <1>1, <2>1 DEF Descending
<1>8. DeletedIn(t) = {}
  BY <1>5, <1>6, NoneDeleted
<1>9. numDeleted - Cardinality(early) \in 0 .. changes
  BY <1>1, <1>2, <1>4
<1> QED
  BY <1>3, <1>5, <1>6, <1>7, <1>8, <1>9

LEMMA Returning ==
    ASSUME ListOK, MaxDepth \in Nat, CallEnds PROVE ListOK'
<1>1. /\ calls \in Seq(Call) /\ calls # <<>> /\ Len(calls) \in Nat /\ Len(calls) # 0 /\ Len(calls) <= MaxDepth
      /\ calls' = Tail(calls) /\ changes' = changes /\ changes \in 0 .. MaxChanges
  BY DEF CallEnds, ListOK
<1>2. /\ Tail(calls) \in Seq(Call) /\ Len(Tail(calls)) = Len(calls) - 1
      /\ \A k \in 1 .. Len(Tail(calls)) : Tail(calls)[k] = calls[k + 1] /\ k + 1 \in 1 .. Len(calls)
  BY <1>1, HeadTailProperties
<1>3. CASE Len(calls) = 1
  <2>1. callbacks' = Sweep.list /\ numDeleted' = Sweep.left
    BY <1>3 DEF CallEnds, SweepsAt
  <2>2. calls' = <<>> /\ Len(calls') = 0 /\ calls' \in Seq(Call)
    BY <1>1, <1>2, <1>3
  <2> DEFINE t == Sweep.list
             n == Sweep.left
  <2>3. /\ t \in Seq(Entry) /\ Descending(t) /\ DeletedIn(t) = {} /\ n \in 0 .. changes
        /\ \A k \in 1 .. Len(t) : t[k].number <= changes
    BY SweepCleans
  <2> HIDE DEF t, n
  <2>4. Cardinality(DeletedIn(t)) <= n
    <3>1. Cardinality(DeletedIn(t)) = 0
      BY <2>3, FS_EmptySet
    <3>2. n >= 0
      BY <1>1, <2>3
    <3> QED
      BY <3>1, <3>2
  <2>5. callbacks' = t /\ numDeleted' = n
    BY <2>1 DEF t, n
  <2>6. Len(calls') <= MaxDepth /\ \A k \in 1 .. Len(calls') : FALSE
    BY <2>2
  <2> QED
    BY <1>1, <2>2, <2>3, <2>4, <2>5, <2>6 DEF ListOK
<1>4. CASE Len(calls) # 1
  <2>1. UNCHANGED <<callbacks, numDeleted>>
    BY <1>4 DEF CallEnds, SweepsAt
  <2>2. Tail(calls) # <<>> /\ Len(Tail(calls)) <= MaxDepth
    <3> DEFINE t == Tail(calls)
    <3>1. t \in Seq(Call) /\ Len(t) = Len(calls) - 1
      BY <1>2
    <3> HIDE DEF t
    <3>2. Len(t) # 0 /\ Len(t) <= MaxDepth
      BY <1>1, <1>4, <3>1
    <3> QED
      BY <3>1, <3>2 DEF t
  <2>3. \A k \in 1 .. Len(Tail(calls)) : Runs(Tail(calls)[k], callbacks)
    BY <1>2 DEF ListOK
  <2> QED
    BY <1>1, <1>2, <2>1, <2>2, <2>3 DEF ListOK
<1> QED
  BY <1>3, <1>4

-----------------------------------------------------------------------------
(* The theorems about callbacks.                                           *)

LEMMA CallbacksInitOK == CallbacksInit => HandlersOK /\ ListOK
<1> SUFFICES ASSUME CallbacksInit PROVE HandlersOK /\ ListOK
  OBVIOUS
<1>1. HandlersOK
  BY DEF CallbacksInit, HandlersOK, AllCalled, NextHandler
<1>2. DeletedIn(callbacks) = {}
  BY DEF CallbacksInit, DeletedIn
<1>3. Cardinality(DeletedIn(callbacks)) = 0
  BY <1>2, FS_EmptySet
<1>4. ListOK
  BY <1>2, <1>3, CallbacksAssumption DEF CallbacksInit, ListOK, Descending
<1> QED
  BY <1>1, <1>4

LEMMA CallbacksStepOK ==
    HandlersOK /\ ListOK /\ [CallbacksNext]_callbacksVars => HandlersOK' /\ ListOK'
<1> SUFFICES ASSUME HandlersOK, ListOK, [CallbacksNext]_callbacksVars PROVE HandlersOK' /\ ListOK'
  OBVIOUS
<1>1. MaxDepth \in Nat /\ MaxChanges \in Nat /\ changes \in Nat
  BY CallbacksAssumption DEF ListOK
<1>2. ASSUME UNCHANGED callbackVars, changes' \in 0 .. MaxChanges, changes' >= changes PROVE ListOK'
  <2>1. \A i \in 1 .. Len(callbacks) : callbacks[i].number \in Int
    BY NumberIsInt DEF ListOK
  <2> QED
    BY <1>1, <1>2, <2>1 DEF callbackVars, ListOK
<1>3. ASSUME UNCHANGED handlerVars PROVE HandlersOK'
  BY <1>3 DEF handlerVars, HandlersOK
<1>4. CASE UNCHANGED callbacksVars
  BY <1>1, <1>2, <1>3, <1>4 DEF callbacksVars, ListOK
<1>5. ASSUME NEW f \in Functions, RegisterBlockAndWakeupHandlers(f) PROVE HandlersOK' /\ ListOK'
  BY <1>1, <1>2, <1>5, Registering DEF RegisterBlockAndWakeupHandlers, CountChange
<1>6. ASSUME NEW f \in Functions, RemoveBlockAndWakeupHandlers(f) PROVE HandlersOK' /\ ListOK'
  BY <1>1, <1>2, <1>6, RemovingHandlers DEF RemoveBlockAndWakeupHandlers, CountChange
<1>7. ASSUME NEW f \in Functions, AddCallback(f) PROVE HandlersOK' /\ ListOK'
  BY <1>1, <1>3, <1>7, AddingCallback DEF AddCallback
<1>8. ASSUME NEW f \in Functions, DeleteCallback(f) PROVE HandlersOK' /\ ListOK'
  BY <1>1, <1>3, <1>8, DeletingCallback DEF DeleteCallback
<1>9. CASE BlockBegins \/ CallBlockHandler \/ BlockEnds
  <2>1. UNCHANGED <<callbackVars, changes>>
    BY <1>9 DEF BlockBegins, CallBlockHandler, BlockEnds
  <2> QED
    BY <1>1, <1>2, <1>9, <2>1, Blocking DEF ListOK
<1>10. CASE WakeupBegins \/ CallWakeupHandler \/ WakeupEnds
  <2>1. UNCHANGED <<callbackVars, changes>>
    BY <1>10 DEF WakeupBegins, CallWakeupHandler, WakeupEnds
  <2> QED
    BY <1>1, <1>2, <1>10, <2>1, Waking DEF ListOK
<1>11. CASE CallCallbacks
  BY <1>1, <1>3, <1>11, CallingCallbacks DEF CallCallbacks
<1>12. CASE CallNext
  BY <1>3, <1>12, CallingNext DEF CallNext
<1>13. CASE CallEnds
  BY <1>1, <1>3, <1>13, Returning DEF CallEnds
<1> QED
  BY <1>4, <1>5, <1>6, <1>7, <1>8, <1>9, <1>10, <1>11, <1>12, <1>13 DEF CallbacksNext

LEMMA StandsInList ==
    ASSUME ListOK, NEW k \in 1 .. Len(calls)
    PROVE  /\ calls[k].cursor \in ToSet(Numbers(callbacks))
           /\ calls[k].cursor = Last(calls[k].called)
           /\ IsPrefix(calls[k].called, calls[k].began)
           /\ calls[k].cursor = Last(Numbers(callbacks)) => calls[k].called = calls[k].began
<1> DEFINE call == calls[k]
           numbers == Numbers(callbacks)
<1>1. PICK m \in 1 .. Len(callbacks) : RunsFrom(call, callbacks, m)
  BY DEF ListOK, Runs
<1>2. /\ callbacks \in Seq(Entry) /\ Len(callbacks) \in Nat /\ Descending(callbacks) /\ calls \in Seq(Call)
      /\ DOMAIN callbacks = 1 .. Len(callbacks)
  BY DEF ListOK
<1>3. call \in Call
  BY <1>2, ElementOfSeq
<1>4. call.called \in Seq(Nat) /\ call.began \in Seq(Nat)
  BY <1>3 DEF Call
<1> HIDE DEF call
<1>5. /\ Len(call.began) = Len(callbacks) - m + 1
      /\ \A i \in 1 .. Len(call.began) : call.began[i] = callbacks[m + i - 1].number
      /\ Len(call.called) \in 1 .. Len(call.began)
      /\ \A i \in 1 .. Len(call.called) : call.called[i] = call.began[i]
      /\ call.cursor = call.called[Len(call.called)]
  BY <1>1 DEF RunsFrom
<1> DEFINE at == m + Len(call.called) - 1
<1>6. at \in 1 .. Len(callbacks) /\ call.cursor = callbacks[at].number
  BY <1>2, <1>5
<1>7. DOMAIN numbers = 1 .. Len(callbacks) /\ \A i \in 1 .. Len(callbacks) : numbers[i] = callbacks[i].number
  BY <1>2 DEF Numbers
<1>8. call.cursor \in ToSet(numbers)
  BY <1>6, <1>7 DEF ToSet
<1>9. IsPrefix(call.called, call.began)
  <2> DEFINE n == Len(call.called)
             a == SubSeq(call.called, 1, n)
             b == SubSeq(call.began, 1, n)
  <2>1. n \in Nat /\ n <= Len(call.began) /\ n \in 1 .. Len(call.began)
    BY <1>4, <1>5
  <2>2. a \in Seq(Nat) /\ Len(a) = n /\ \A i \in 1 .. n : a[i] = call.called[i]
    <3>1. 1 \in Int /\ n \in Int /\ \A i \in 1 .. n : call.called[i] \in Nat
      BY <1>4, <2>1, ElementOfSeq
    <3>2. /\ a \in Seq(Nat) /\ Len(a) = IF 1 <= n THEN n - 1 + 1 ELSE 0
          /\ \A i \in 1 .. n - 1 + 1 : a[i] = call.called[1 + i - 1]
      BY <3>1, SubSeqProperties
    <3> HIDE DEF a, n
    <3> QED
      BY <2>1, <3>2
  <2>3. b \in Seq(Nat) /\ Len(b) = n /\ \A i \in 1 .. n : b[i] = call.began[i]
    <3>1. 1 \in Int /\ n \in Int /\ \A i \in 1 .. n : call.began[i] \in Nat
      BY <1>4, <2>1, ElementOfSeq
    <3>2. /\ b \in Seq(Nat) /\ Len(b) = IF 1 <= n THEN n - 1 + 1 ELSE 0
          /\ \A i \in 1 .. n - 1 + 1 : b[i] = call.began[1 + i - 1]
      BY <3>1, SubSeqProperties
    <3> HIDE DEF b, n
    <3> QED
      BY <2>1, <3>2
  <2> HIDE DEF a, b
  <2>4. a = b
    BY <1>5, <2>1, <2>2, <2>3, SeqEqual
  <2> QED
    BY <2>1, <2>4 DEF IsPrefix, a, b
<1>10. ASSUME call.cursor = Last(numbers) PROVE call.called = call.began
  <2>1. Len(numbers) = Len(callbacks) /\ Len(callbacks) \in 1 .. Len(callbacks)
    BY <1>2, <1>6, <1>7
  <2>2. callbacks[at].number = callbacks[Len(callbacks)].number
    BY <1>6, <1>7, <1>10, <2>1 DEF Last
  <2>3. at = Len(callbacks)
    BY <1>2, <1>6, <2>1, <2>2, OneOfANumber
  <2>4. Len(call.called) = Len(call.began)
    BY <1>2, <1>4, <1>5, <2>3
  <2> QED
    BY <1>4, <1>5, <2>4, SeqEqual
<1> QED
  BY <1>5, <1>8, <1>9, <1>10 DEF Last, call

\* The array, the list and their counters keep their types.
THEOREM CallbacksTypeCorrect == CallbacksSpec => []CallbacksTypeOK
<1>1. ASSUME HandlersOK, ListOK PROVE CallbacksTypeOK
  <2>1. /\ round \in {"none", "block", "sleep", "wakeup"} /\ nextHandler \in 0 .. Len(handlers) + 1
        /\ handlers \in Seq(HandlerEntry)
    BY <1>1 DEF HandlersOK, AllCalled, NextHandler
  <2>2. /\ callbacks \in Seq(Entry) /\ changes \in 0 .. MaxChanges /\ numDeleted \in 0 .. changes
        /\ Len(calls) <= MaxDepth
    BY <1>1 DEF ListOK
  <2>3. numDeleted \in 0 .. MaxChanges
    BY <2>2, CallbacksAssumption
  <2> QED
    BY <2>1, <2>2, <2>3 DEF CallbacksTypeOK, HandlerEntry, Entry
<1> QED
  BY <1>1, CallbacksInitOK, CallbacksStepOK, PTL DEF CallbacksSpec

\* However handlers and callbacks are registered, removed and called in each
\* other: every handler of a round is called once before the sleep and once after
\* it, a call of the list leaves out nothing of what it began with, and no marked
\* entry stays (BlockHandler, WakeupHandler, _CallCallbacks).
THEOREM EachCalledOnce == CallbacksSpec => []EachIsCalledOnce
<1>1. ASSUME HandlersOK, ListOK PROVE EachIsCalledOnce
  <2>1. handlers \in Seq(HandlerEntry) /\ callbacks \in Seq(Entry) /\ calls \in Seq(Call)
    BY <1>1 DEF HandlersOK, AllCalled, ListOK
  <2>2. DOMAIN handlers = 1 .. Len(handlers) /\ DOMAIN calls = 1 .. Len(calls)
    BY <2>1
  <2>3. ASSUME NEW i \in 1 .. Len(handlers)
        PROVE  /\ handlers[i].woken => handlers[i].blocked
               /\ round = "block" => (handlers[i].blocked <=> i < nextHandler)
               /\ round = "sleep" => handlers[i].blocked
               /\ round = "wakeup" /\ handlers[i].blocked => (handlers[i].woken <=> i > nextHandler)
    BY <1>1 DEF HandlersOK, AllCalled, NextHandler, CalledSoFar
  <2>4. ~InHandler => DeletedIn(handlers) = {}
    BY <1>1, <2>1, NoneDeleted DEF HandlersOK, AllCalled, NextHandler, InHandler
  <2>5. calls = <<>> => DeletedIn(callbacks) = {}
    BY <1>1 DEF ListOK
  <2> QED
    BY <1>1, <2>2, <2>3, <2>4, <2>5, StandsInList DEF EachIsCalledOnce
<1> QED
  BY <1>1, CallbacksInitOK, CallbacksStepOK, PTL DEF CallbacksSpec

-----------------------------------------------------------------------------
(* The composition.                                                        *)

PartOK == part \in {"resources", "fonts", "callbacks", "grabs", "colours", "cursor"}

\* A step of a part is a step of its component, and the other parts stand still.
LEMMA StepsOfParts ==
  ASSUME [Next_]_<<part, objectVars>>
  PROVE  /\ [Next]_vars /\ [FontNext]_fontRequestVars /\ [CallbacksNext]_callbacksVars
         /\ [PassiveNext]_passive /\ [ColormapNext]_colormapVars /\ [SpriteNext]_spriteVars
         /\ UNCHANGED part
<1>1. ASSUME ResourcesStep
      PROVE  /\ Next /\ UNCHANGED part
             /\ UNCHANGED <<fontRequestVars, callbacksVars, passive, colormapVars, spriteVars>>
  BY <1>1 DEF ResourcesStep
<1>2. ASSUME FontsStep
      PROVE  /\ FontNext /\ UNCHANGED part
             /\ UNCHANGED <<vars, callbacksVars, passive, colormapVars, spriteVars>>
  BY <1>2 DEF FontsStep
<1>3. ASSUME CallbacksStep
      PROVE  /\ CallbacksNext /\ UNCHANGED part
             /\ UNCHANGED <<vars, fontRequestVars, passive, colormapVars, spriteVars>>
  BY <1>3 DEF CallbacksStep
<1>4. ASSUME GrabsStep
      PROVE  /\ PassiveNext /\ UNCHANGED part
             /\ UNCHANGED <<vars, fontRequestVars, callbacksVars, colormapVars, spriteVars>>
  BY <1>4 DEF GrabsStep
<1>5. ASSUME ColoursStep
      PROVE  /\ ColormapNext /\ UNCHANGED part
             /\ UNCHANGED <<vars, fontRequestVars, callbacksVars, passive, spriteVars>>
  BY <1>5 DEF ColoursStep
<1>6. ASSUME CursorStep
      PROVE  /\ SpriteNext /\ UNCHANGED part
             /\ UNCHANGED <<vars, fontRequestVars, callbacksVars, passive, colormapVars>>
  BY <1>6 DEF CursorStep
<1>7. ASSUME UNCHANGED <<part, objectVars>>
      PROVE  UNCHANGED <<part, vars, fontRequestVars, callbacksVars, passive, colormapVars, spriteVars>>
  BY <1>7 DEF objectVars
<1> QED
  BY <1>1, <1>2, <1>3, <1>4, <1>5, <1>6, <1>7 DEF Next_

\* A behaviour of MCObjects is a behaviour of each of its components: what holds of
\* them alone holds of the composition, with any part chosen.
THEOREM PartsAreComponents ==
  ObjectsSpec => /\ Spec /\ FontSpec /\ CallbacksSpec /\ PassiveSpec /\ ColormapSpec /\ SpriteSpec
                 /\ []PartOK
<1>1. Init_ => /\ Init /\ FontInit /\ CallbacksInit /\ PassiveInit /\ ColormapInit /\ SpriteInit
               /\ PartOK
  BY DEF Init_, PartOK
<1>2. PartOK /\ UNCHANGED part => PartOK'
  BY DEF PartOK
<1> QED
  BY <1>1, <1>2, StepsOfParts, PTL
  DEF ObjectsSpec, Spec, FontSpec, CallbacksSpec, PassiveSpec, ColormapSpec, SpriteSpec

\* Whichever part of MCObjects runs, its variables keep their types.
THEOREM ObjectsTypeCorrect == ObjectsSpec => []ObjectsTypeOK
<1> DEFINE AllTyped == /\ TypeOK /\ FontTypeOK /\ CallbacksTypeOK
                      /\ PassiveTypeOK /\ ColormapTypeOK /\ SpriteTypeOK
<1>1. PartOK /\ AllTyped => ObjectsTypeOK
  <2>1. CASE part = "resources" BY <2>1 DEF ObjectsTypeOK
  <2>2. CASE part = "fonts" BY <2>2 DEF ObjectsTypeOK
  <2>3. CASE part = "callbacks" BY <2>3 DEF ObjectsTypeOK
  <2>4. CASE part = "grabs" BY <2>4 DEF ObjectsTypeOK
  <2>5. CASE part = "colours" BY <2>5 DEF ObjectsTypeOK
  <2>6. CASE part = "cursor" BY <2>6 DEF ObjectsTypeOK
  <2> QED BY <2>1, <2>2, <2>3, <2>4, <2>5, <2>6 DEF PartOK
<1> QED
  BY <1>1, PartsAreComponents, ResourcesTypeCorrect, FontsTypeCorrect, CallbacksTypeCorrect, PassiveTypeCorrect,
     ColoursTypeCorrect, SpriteTypeCorrect, PTL

\* For any clients, fonts, texts, colormaps and pixels: each cell counts exactly the
\* clients' pixels in it; each font at least those who name it, hold it in a GC or
\* keep it for a suspended request, but the fonts doPolyText closed in another's
\* stead or could not mark, and at most those, but the fonts it left marked.
THEOREM ReferencesCounted == ObjectsSpec => []ReferencesAgree
<1>1. FontsAreCounted /\ CellsAreCounted => ReferencesAgree
  BY DEF ReferencesAgree
<1> QED
  BY <1>1, PartsAreComponents, FontsCounted, ColoursCounted, PTL
=============================================================================
