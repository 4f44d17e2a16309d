---------------------------- MODULE MCSyncGrabs ----------------------------
(* SyncGrabs on a root window and one window in it, with two clients.       *)
EXTENDS SyncGrabs
CONSTANTS a, b

G(c, w, this, others) == [client |-> c, window |-> w, this |-> this, others |-> others]
P(g, d) == [grab |-> g, dev |-> d]

\* Two clients whose grabs freeze each other's devices: a has a synchronous
\* button grab on the root window, b a key grab on the window in it.
MCPassive == {P(G(a, 1, "Sync", "Async"), "mouse"), P(G(b, 2, "Sync", "Sync"), "keybd")}
MCRequested == {G(a, 1, "Async", "Sync"), G(b, 2, "Sync", "Async")}

\* The inner window belongs to a, who has a key grab on the root; b grabs on it.
OwnedByA == [w \in 1 .. 2 |-> IF w = 2 THEN a ELSE None]
MCKeyGrab == {P(G(a, 1, "Async", "Async"), "keybd")}
MCOnInner == {G(b, 2, "Async", "Sync")}
=============================================================================
