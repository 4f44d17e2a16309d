--------------------------- MODULE GrabCombinations ---------------------------
(***************************************************************************)
(* What GrabKey, GrabButton and their counterparts promise about one window *)
(* and one device: each client holds a set of combinations of a key (or     *)
(* button) and modifiers, no combination is held by two clients, a grab     *)
(* adds all that it names or nothing, and ungrabbing takes away exactly     *)
(* what it names.                                                          *)
(***************************************************************************)
CONSTANTS GrabClients, Keys, Modifiers

VARIABLE held    \* the combinations each client holds

Combinations == Keys \X Modifiers

\* What a request can name: one key or all of them, with one state of the
\* modifiers or all.
Named == {K \X M : K \in {{k} : k \in Keys} \cup {Keys},
                   M \in {{m} : m \in Modifiers} \cup {Modifiers}}

CombinationsInit == held = [c \in GrabClients |-> {}]

Grab(c, S) == /\ \A d \in GrabClients \ {c} : held[d] \cap S = {}
              /\ held' = [held EXCEPT ![c] = @ \cup S]

Ungrab(c, S) == held' = [held EXCEPT ![c] = @ \ S]

Release(C) == held' = [c \in GrabClients |-> IF c \in C THEN {} ELSE held[c]]

CombinationsNext ==
    \/ \E c \in GrabClients, S \in Named : Grab(c, S) \/ Ungrab(c, S)
    \/ \E C \in SUBSET GrabClients : Release(C)

CombinationsSpec == CombinationsInit /\ [][CombinationsNext]_held

\* No combination is held by two clients.
HeldByOne == \A c, d \in GrabClients : c # d => held[c] \cap held[d] = {}
=============================================================================
