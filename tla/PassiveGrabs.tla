----------------------------- MODULE PassiveGrabs -----------------------------
(***************************************************************************)
(* The passive grabs of a window, dix/grabs.c.  A grab has two details, its *)
(* key (or button) and its modifiers, and each is one value, or any but     *)
(* some.  The list of a window holds what is left of the grabs it was given:*)
(* ungrabbing a part of a grab marks exceptions, or splits it in two.       *)
(*                                                                         *)
(* The window, the device, the device with the modifiers and the type of    *)
(* the event are the same for all grabs here; others never match them.      *)
(* Which of a client's own grabs comes first in the list is not modelled,   *)
(* nor are failing allocations, which leave the list as it was.             *)
(***************************************************************************)
EXTENDS Naturals, FiniteSets

CONSTANTS
    GrabClients,
    Keys, AnyKey,
    Modifiers, AnyModifier,
    MaxPassive    \* bound: how long the list is when a grab is added

ASSUME PassiveAssumption == AnyKey \notin Keys /\ AnyModifier \notin Modifiers

VARIABLE passive    \* the passive grabs of the window

----------------------------------------------------------------------------
(* Details.  `except' is what pMask has cleared; no pMask is no exception.  *)

Detail(all, any) == [exact : all, except : {{}}] \cup [exact : {any}, except : SUBSET all]

PassiveGrab == [client : GrabClients, detail : Detail(Keys, AnyKey),
                modifiersDetail : Detail(Modifiers, AnyModifier)]

Asked(x) == [exact |-> x, except |-> {}]

IsInGrabMask(first, second, any) ==
    /\ first.exact = any
    /\ \/ first.except = {}
       \/ second.exact # any /\ second.exact \notin first.except

IdenticalExactDetails(first, second, any) ==
    first.exact # any /\ second.exact # any /\ first.exact = second.exact

DetailSupersedesSecond(first, second, any) ==
    IsInGrabMask(first, second, any) \/ IdenticalExactDetails(first, second, any)

KeySupersedes(f, s) == DetailSupersedesSecond(f.detail, s.detail, AnyKey)
ModifiersSupersede(f, s) ==
    DetailSupersedesSecond(f.modifiersDetail, s.modifiersDetail, AnyModifier)

GrabSupersedesSecond(f, s) == ModifiersSupersede(f, s) /\ KeySupersedes(f, s)

\* mutant of GrabMatchesSecond: grabs that overlap crosswise are overlooked
MatchesOneWay(f, s) ==
    GrabSupersedesSecond(f, s) \/ GrabSupersedesSecond(s, f)

GrabMatchesSecond(f, s) ==
    \/ GrabSupersedesSecond(f, s)
    \/ GrabSupersedesSecond(s, f)
    \/ KeySupersedes(s, f) /\ ModifiersSupersede(f, s)
    \/ KeySupersedes(f, s) /\ ModifiersSupersede(s, f)

----------------------------------------------------------------------------
\* What ProcGrabKey asks for, and the minuend of ProcUngrabKey.
Request(c, k, m) == [client |-> c, detail |-> Asked(k), modifiersDetail |-> Asked(m)]

AddPassiveGrabToList(grab) ==
    /\ Cardinality(passive) < MaxPassive
    /\ \A g \in passive : GrabMatchesSecond(grab, g) => g.client = grab.client
    /\ passive' = passive \cup {grab}

\* The exceptions an ungrab adds to a grab.
KeyExcepted(g, k) == [g EXCEPT !.detail.except = @ \cup {k}]
ModifiersExcepted(g, m) == [g EXCEPT !.modifiersDetail.except = @ \cup {m}]

\* What an ungrab leaves of a grab that it matches and does not cover.
Remainder(g, minuend) ==
    LET k == minuend.detail.exact
        m == minuend.modifiersDetail.exact
        split == {KeyExcepted(g, k), ModifiersExcepted([g EXCEPT !.detail = Asked(k)], m)}
    IN  IF g.modifiersDetail.exact # AnyModifier THEN {KeyExcepted(g, k)}
        ELSE IF g.detail.exact # AnyKey THEN {ModifiersExcepted(g, m)}
        ELSE IF k # AnyKey /\ m # AnyModifier THEN split
        ELSE IF k = AnyKey THEN {ModifiersExcepted(g, m)}
        ELSE {KeyExcepted(g, k)}

DeletePassiveGrabFromList(minuend) ==
    LET matching == {g \in passive : g.client = minuend.client /\ GrabMatchesSecond(g, minuend)}
        left == {g \in matching : ~GrabSupersedesSecond(minuend, g)}
    IN  passive' = (passive \ matching) \cup UNION {Remainder(g, minuend) : g \in left}

(***************************************************************************)
(* DeletePassiveGrab for all grabs of some clients: of one that dies, or    *)
(* closes the device, and of all when the window is destroyed.              *)
(***************************************************************************)
DeletePassiveGrabs(C) == passive' = {g \in passive : g.client \notin C}

----------------------------------------------------------------------------
PassiveInit == passive = {}

PassiveNext ==
    \/ \E c \in GrabClients, k \in Keys \cup {AnyKey}, m \in Modifiers \cup {AnyModifier} :
          AddPassiveGrabToList(Request(c, k, m)) \/ DeletePassiveGrabFromList(Request(c, k, m))
    \/ \E c \in GrabClients : DeletePassiveGrabs({c})
    \/ DeletePassiveGrabs(GrabClients)

PassiveSpec == PassiveInit /\ [][PassiveNext]_passive

----------------------------------------------------------------------------
(***************************************************************************)
(* Type invariant.                                                         *)
(***************************************************************************)
PassiveTypeOK == passive \subseteq PassiveGrab

\* CheckPassiveGrabsOnWindow: an event activates a grab it matches.
Activates(k, m, g) ==
    GrabMatchesSecond([detail |-> Asked(k), modifiersDetail |-> Asked(m)], g)

Held == [c \in GrabClients |->
           {x \in Keys \X Modifiers : \E g \in passive : g.client = c /\ Activates(x[1], x[2], g)}]

(***************************************************************************)
(* Splitting keeps the sets: the grabs an event activates are those of      *)
(* exactly the combinations that were grabbed and not ungrabbed since,      *)
(* whatever mixture of single and wildcard requests came in whatever order, *)
(* and never those of two clients.                                         *)
(***************************************************************************)
Combos == INSTANCE GrabCombinations WITH held <- Held

GrabsAreCombinations == Combos!CombinationsSpec
=============================================================================
