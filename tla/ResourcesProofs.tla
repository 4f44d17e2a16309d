---------------------------- MODULE ResourcesProofs ----------------------------
(***************************************************************************)
(* Proofs about Resources for any number of clients, windows and fake IDs   *)
(* and any size of the tables: the types, that tables, tree and selections  *)
(* agree between requests, that frees inside frees take nothing from the    *)
(* frees around them, and that the windows of a save set outlive its client.*)
(***************************************************************************)
EXTENDS ResourceTablesProofs

-----------------------------------------------------------------------------
(* The inductive invariant: the calls under way, ...                        *)

Frames(s) == {s[k] : k \in DOMAIN s}
LastOf(s) == s[Len(s)]
Bottoms == {"FreeAll", "FreeNeverRetained", "DestroySubwindows"}

IsFree(f, skip) == f.op = "Free" /\ f.skip = skip

\* What a request begins with.
Base(f) ==
    \/ f.op \in Bottoms
    \/ IsFree(f, "None")
    \/ IsFree(f, "RRClient") /\ ~IsOwn(f.id)

\* What calls what: f runs in g.
On(f, g) ==
    \/ IsFree(f, "None") /\ IsOwn(f.id) /\ g.op = "DestroySubwindows"
    \/ IsFree(f, "None") /\ ~IsOwn(f.id) /\ g.op = "FreeWindow"
    \/ IsFree(f, "Window") /\ IsOwn(f.id) /\ g = FreeWindow(f.id)
    \/ IsFree(f, "RRClient") /\ ~IsOwn(f.id) /\ g.op = "RRFreeEvents"
    \/ f.op = "Delete" /\ ((IsFree(g, "None") /\ ~IsOwn(g.id)) \/ g.op \in {"FreeNeverRetained", "FreeAll"})
    \/ f.op = "RRFreeEvents" /\ ((g.op = "Free" /\ g.skip # "RRClient" /\ IsOwn(g.id)) \/ g.op = "FreeAll")
    \/ f.op = "FreeWindow" /\ ((IsFree(g, "None") /\ IsOwn(g.id)) \/ g.op \in {"FreeAll", "FreeWindow"})

\* No window is freed inside its own deletion; what is deleted inside another
\* deletion is a leaf.
Stack(s, leaves) ==
    /\ s # <<>> => Base(LastOf(s))
    /\ \A k \in 1 .. Len(s) - 1 : On(s[k], s[k + 1])
    /\ \A j, k \in 1 .. Len(s) : j < k /\ s[j].op = "FreeWindow" /\ s[k].op = "FreeWindow" =>
          s[j].win # s[k].win /\ s[j].win \in leaves

Childless == {w \in Windows : Children(w) = {}}
StackOK == Stack(todo, Childless)

Freeing(w) == FreeWindow(w) \in Frames(todo)
Clearing(w) == RRFreeEvents(w) \in Frames(todo)
Deleting(e) == Delete(e) \in Frames(todo)
Sparing(id, skip) == \E f \in Frames(todo) : IsFree(f, skip) /\ f.id = id

HasEntry(id, type, w) == EntryOf(id, type, w) \in EntriesIn(table[Owner(id)])

\* ... the scans, of which one that skips a type is of the only entry of its ID
\* and of a selection that has left its list, ...
KindOK(f) ==
    ~IsOwn(f.id) => \A e \in EntriesIn(table[Owner(f.id)]) :
        e.id = f.id => e.type = IF f.skip = "None" THEN "OtherClient" ELSE "RRClient"
DropOK(f) == f.skip = "RRClient" => \A w \in Windows : f.id \notin rrEvents[w]
ScansOK == \A f \in Frames(todo) : f.op = "Free" => ScanOK(f) /\ KindOK(f) /\ DropOK(f)

\* ... the tree, which has no cycle, ...
ParentsOK == Alive \subseteq Windows /\ \A w \in Alive : parent[w] \in Alive \cup {Root}
TreeOK == \A X \in SUBSET Alive : X # {} => \E x \in X : parent[x] \notin X

\* ... windows: one without an entry is being freed, and one that is being freed
\* has none, or its entries are about to go, ...
WindowsOK ==
    /\ \A w \in Alive : HasEntry(w, "Window", w) \/ Freeing(w)
    /\ \A c \in Clients : \A e \in EntriesIn(table[c]) : e.win \in Alive
    /\ \A w \in Windows : Freeing(w) => w \in Alive /\ (Sparing(w, "Window") \/ ~Holds(table[Owner(w)], w))

\* ... selections: on the list of a window and in the table of a client, or on
\* the way from the one or the other, ...
SelectionsOK ==
    /\ \A w \in Windows : others[w] \cup rrEvents[w] # {} => w \in Alive
    /\ \A w \in Windows : rrEvents[w] # {} => Clearing(w) \/ HasEntry(w, "RREvent", w)
    /\ \A w \in Windows :
          /\ \A id \in others[w] : HasEntry(id, "OtherClient", w) \/ Deleting(EntryOf(id, "OtherClient", w))
          /\ \A id \in rrEvents[w] : HasEntry(id, "RRClient", w) \/ Deleting(EntryOf(id, "RRClient", w))
    /\ \A c \in Clients : \A e \in EntriesIn(table[c]) :
          /\ e.type = "OtherClient" => e.id \in others[e.win]
          /\ e.type = "RRClient" => e.id \in rrEvents[e.win] \/ Sparing(e.id, "RRClient")
    /\ \A e \in Entries : Deleting(e) =>
          /\ e.win \in Alive /\ ~IsOwn(e.id) /\ e.type \in {"OtherClient", "RRClient"}
          /\ ~Holds(table[Owner(e.id)], e.id)
          /\ e.type = "OtherClient" => e.id \in others[e.win]

\* ... clients: a retained one has lost its selections, or is about to, ...
ClosingIs(c) == todo # <<>> /\ LastOf(todo) = FreeAll(c)
RetainingIs(c) == todo # <<>> /\ LastOf(todo) = FreeNeverRetained(c)

ClientsOK ==
    \A c \in Clients :
        /\ table[c] = NoTable <=> state[c] = "free"
        /\ state[c] = "free" => fake[c] = NewFakes
        /\ state[c] = "closing" <=> ClosingIs(c)
        /\ RetainingIs(c) => state[c] = "retained"
        /\ state[c] = "retained" =>
              RetainingIs(c) \/ \A e \in EntriesIn(table[c]) : e.type # "OtherClient"

SaveSetsOK == \A c \in Clients : \A w \in saveSet[c] : w \in Alive /\ Owner(w) # c

\* ... and what is spared: it and all windows above it belong to others, and
\* nobody frees them.
Shelter(c, S) ==
    /\ spared \subseteq S
    /\ \A w \in S : Owner(w) # c /\ parent[w] \in S \cup {Root} /\ ~Freeing(w)

SparedOK ==
    spared # {} => \E c \in Clients : ClosingIs(c) /\ \E S \in SUBSET Alive : Shelter(c, S)

TypesOK ==
    /\ state \in [Clients -> {"free", "running", "retained", "closing"}]
    /\ fake \in [Clients -> [next : 0 .. FakeRange, end : 0 .. FakeRange]]
    /\ ParentsOK
    /\ others \in [Windows -> SUBSET AllFakeIds]
    /\ rrEvents \in [Windows -> SUBSET AllFakeIds]
    /\ saveSet \in [Clients -> SUBSET Windows]
    /\ todo \in Seq(Calls)
    /\ spared \subseteq Windows

ResourcesInv ==
    /\ TypesOK /\ TablesOK /\ StackOK /\ ScansOK /\ TreeOK /\ WindowsOK /\ SelectionsOK
    /\ ClientsOK /\ SaveSetsOK /\ FakesOK /\ SparedOK

-----------------------------------------------------------------------------
(* The tree.                                                               *)

Depth == Cardinality(Windows)

LEMMA DepthIs == Depth \in Nat /\ IsFiniteSet(Windows) /\ Root \notin Windows
  BY ResourcesAssumption, FS_CardinalityType, WindowIds DEF Depth

LEMMA Pigeons ==
  ASSUME NEW h \in [0 .. Depth -> Windows]
  PROVE  \E i, j \in 0 .. Depth : i # j /\ h[i] = h[j]
  <1> DEFINE n == Depth
             I == 0 .. n
  <1>1. n \in Nat /\ IsFiniteSet(Windows) /\ n = Cardinality(Windows)
    BY DepthIs DEF Depth
  <1> HIDE DEF n
  <1>2. IsFiniteSet(I) /\ Cardinality(I) = n + 1
    <2>1. 0 \in Int /\ n \in Int /\ ~(0 > n) /\ n - 0 + 1 = n + 1
      BY <1>1
    <2> QED BY <2>1, FS_Interval
  <1>3. Cardinality(Windows) < Cardinality(I)
    BY <1>1, <1>2
  <1>4. h \in [I -> Windows]
    BY DEF n
  <1> HIDE DEF I
  <1>5. \E i, j \in I : i # j /\ h[i] = h[j]
    BY <1>1, <1>2, <1>3, <1>4, FS_PigeonHole
  <1> QED BY <1>5 DEF I, n

\* Who goes up as long as he is in A, leaves it.
LEMMA Climbing ==
  ASSUME TreeOK, ParentsOK, NEW A \in SUBSET Alive, NEW g \in [0 .. Depth -> Alive \cup {Root}],
         \A i \in 1 .. Depth : g[i] = IF g[i - 1] \in A THEN parent[g[i - 1]] ELSE g[i - 1]
  PROVE  g[Depth] \notin A
  <1> DEFINE n == Depth
  <1>0. n \in Nat /\ IsFiniteSet(Windows) /\ n = Cardinality(Windows)
    BY DepthIs DEF Depth
  <1> HIDE DEF n
  <1>0a. /\ g \in [0 .. n -> Alive \cup {Root}]
         /\ \A i \in 1 .. n : g[i] = IF g[i - 1] \in A THEN parent[g[i - 1]] ELSE g[i - 1]
    BY DEF n
  <1>1. SUFFICES ASSUME g[n] \in A PROVE FALSE
    BY DEF n
  <1>2. ASSUME NEW k \in 0 .. n, g[k] \notin A PROVE FALSE
    <2> DEFINE S == {i \in 0 .. n - k : g[k + i] = g[k]}
    <2>1. 0 \in S /\ n - k \in Nat
      BY <1>0
    <2>2. ASSUME NEW i \in 0 .. (n - k) - 1, i \in S PROVE i + 1 \in S
      <3>1. i + 1 \in 0 .. n - k /\ k + (i + 1) \in 1 .. n /\ (k + (i + 1)) - 1 = k + i
        BY <1>0
      <3>2. g[k + i] = g[k]
        BY <2>2
      <3>3. g[k + (i + 1)] = g[k]
        BY <1>0a, <1>2, <3>1, <3>2
      <3> QED BY <3>1, <3>3
    <2> HIDE DEF S
    <2>3. \A i \in 0 .. n - k : i \in S
      <3> DEFINE m == n - k
      <3>1. m \in Nat /\ 0 \in S /\ \A i \in 0 .. m - 1 : i \in S => i + 1 \in S
        BY <2>1, <2>2
      <3> HIDE DEF m
      <3>2. \A i \in 0 .. m : i \in S
        BY <3>1, SetInduction
      <3> QED BY <3>2 DEF m
    <2>4. n - k \in S /\ k + (n - k) = n
      BY <1>0, <2>1, <2>3
    <2>5. g[n] = g[k]
      BY <2>4 DEF S
    <2> QED BY <1>1, <1>2, <2>5
  <1>3. g \in [0 .. n -> Windows]
    BY <1>0a, <1>2 DEF ParentsOK
  <1>4. \A h \in [0 .. n -> Windows] : \E i, j \in 0 .. n : i # j /\ h[i] = h[j]
    BY Pigeons DEF n
  <1>6. \E i, j \in 0 .. n : i # j /\ g[i] = g[j]
    BY <1>3, <1>4, Zenon
  <1>7. PICK i \in 0 .. n, j \in 0 .. n : i < j /\ g[i] = g[j]
    <2>1. PICK i \in 0 .. n, j \in 0 .. n : i # j /\ g[i] = g[j]
      BY <1>6
    <2>2. i < j \/ j < i
      BY <2>1
    <2> QED BY <2>1, <2>2
  <1> DEFINE X == {g[k] : k \in i .. j - 1}
  <1>8. X \in SUBSET Alive /\ X # {}
    <2>1. \A k \in i .. j - 1 : k \in 0 .. n
      BY <1>0
    <2>2. \A k \in i .. j - 1 : g[k] \in Alive
      BY <1>2, <2>1
    <2>3. i \in i .. j - 1
      BY <1>7
    <2> QED BY <2>2, <2>3
  <1>9. PICK x \in X : parent[x] \notin X
    BY <1>8 DEF TreeOK
  <1>10. PICK k \in i .. j - 1 : x = g[k]
    BY <1>9
  <1>11. k + 1 \in 1 .. n /\ (k + 1) - 1 = k /\ k \in 0 .. n
    BY <1>0
  <1>12. g[k + 1] = parent[x]
    BY <1>0a, <1>2, <1>10, <1>11
  <1>13. g[k + 1] \in X
    <2>1. CASE k + 1 = j
      <3>1. i \in i .. j - 1
        BY <1>7
      <3> QED BY <1>7, <2>1, <3>1
    <2>2. CASE k + 1 # j
      <3>1. k + 1 \in i .. j - 1
        BY <2>2
      <3> QED BY <3>1
    <2> QED BY <2>1, <2>2
  <1> QED BY <1>9, <1>12, <1>13

\* The superiors of a window from its parent to the root.
Path(w, p) ==
    /\ p \in [0 .. Depth -> Alive \cup {Root}]
    /\ p[0] = parent[w] /\ p[Depth] = Root
    /\ \A i \in 1 .. Depth : p[i] = IF p[i - 1] \in Alive THEN parent[p[i - 1]] ELSE p[i - 1]

LEMMA PathExists ==
  ASSUME TreeOK, ParentsOK, NEW w \in Alive
  PROVE  \E p : Path(w, p)
  <1> DEFINE X == Alive \cup {Root}
             F == [q \in X \X (1 .. Depth) |-> IF q[1] \in Alive THEN parent[q[1]] ELSE q[1]]
  <1>1. parent[w] \in X /\ Depth \in Nat
    BY DepthIs DEF ParentsOK
  <1>2. F \in [X \X (1 .. Depth) -> X]
    BY DEF ParentsOK
  <1> HIDE DEF F
  <1>3. PICK p : Recursive(p, X, Depth, parent[w], F)
    <2> HIDE DEF X
    <2> QED BY <1>1, <1>2, RecursionExists
  <1>4. p \in [0 .. Depth -> X] /\ p[0] = parent[w] /\ \A i \in 1 .. Depth : p[i] = F[<<p[i - 1], i>>]
    BY <1>3 DEF Recursive
  <1>5. ASSUME NEW i \in 1 .. Depth PROVE p[i] = IF p[i - 1] \in Alive THEN parent[p[i - 1]] ELSE p[i - 1]
    <2>1. i - 1 \in 0 .. Depth
      BY <1>1
    <2>2. <<p[i - 1], i>> \in X \X (1 .. Depth)
      BY <1>4, <2>1
    <2> QED BY <1>4, <2>2 DEF F
  <1>6. p[Depth] \notin Alive
    BY <1>4, <1>5, Climbing
  <1>7. Depth \in 0 .. Depth
    BY <1>1
  <1> QED BY <1>4, <1>5, <1>6, <1>7 DEF Path

LEMMA AboveIsPath ==
  ASSUME TreeOK, ParentsOK, NEW w \in Alive, NEW p, Path(w, p)
  PROVE  Above(w) = {p[k] : k \in 0 .. Depth}
  <1> DEFINE n == Depth
             X == SUBSET (Alive \cup {Root})
             Up(S) == S \cup {parent[x] : x \in S \ {Root}}
             F == [q \in X \X (1 .. n) |-> Up(q[1])]
             f == CHOOSE g : g = [k \in 0 .. n |-> IF k = 0 THEN {parent[w]}
                                    ELSE g[k - 1] \cup {parent[x] : x \in g[k - 1] \ {Root}}]
  <1>1. Above(w) = f[n]
    BY DEF Above, Depth
  <1>2. n \in Nat /\ {parent[w]} \in X /\ Root \notin Alive
    BY DepthIs DEF ParentsOK
  <1> HIDE DEF n
  <1>3. \E g : g = [k \in 0 .. n |-> IF k = 0 THEN {parent[w]}
                                    ELSE g[k - 1] \cup {parent[x] : x \in g[k - 1] \ {Root}}]
    <2>1. F \in [X \X (1 .. n) -> X]
      BY DEF ParentsOK
    <2> HIDE DEF F, f, X
    <2>2. PICK g : Recursive(g, X, n, {parent[w]}, F)
      BY <1>2, <2>1, RecursionExists
    <2>3. g \in [0 .. n -> X] /\ g[0] = {parent[w]} /\ \A i \in 1 .. n : g[i] = F[<<g[i - 1], i>>]
      BY <2>2 DEF Recursive
    <2>4. ASSUME NEW i \in 1 .. n PROVE g[i] = Up(g[i - 1])
      <3>1. i - 1 \in 0 .. n /\ g[i - 1] \in X
        BY <1>2, <2>3
      <3>2. <<g[i - 1], i>> \in X \X (1 .. n)
        BY <3>1
      <3>3. F[<<g[i - 1], i>>] = Up(g[i - 1])
        BY <3>2 DEF F
      <3> QED BY <2>3, <3>3
    <2>5. \A i \in 0 .. n : g[i] = IF i = 0 THEN {parent[w]} ELSE Up(g[i - 1])
      <3>1. \A i \in 0 .. n : i = 0 \/ i \in 1 .. n
        BY <1>2
      <3> QED BY <2>3, <2>4, <3>1
    <2>6. g = [i \in 0 .. n |-> g[i]]
      BY <2>3
    <2>7. g = [k \in 0 .. n |-> IF k = 0 THEN {parent[w]}
                                    ELSE g[k - 1] \cup {parent[x] : x \in g[k - 1] \ {Root}}]
      BY <2>5, <2>6
    <2> QED BY <2>7
  <1>4. f = [k \in 0 .. n |-> IF k = 0 THEN {parent[w]}
                                    ELSE f[k - 1] \cup {parent[x] : x \in f[k - 1] \ {Root}}]
    BY <1>3, Zenon
  <1> HIDE DEF f, F, X
  <1>5. f[0] = {parent[w]} /\ \A i \in 1 .. n : f[i] = f[i - 1] \cup {parent[x] : x \in f[i - 1] \ {Root}}
    <2>1. \A k \in 0 .. n : f[k] = IF k = 0 THEN {parent[w]}
                                    ELSE f[k - 1] \cup {parent[x] : x \in f[k - 1] \ {Root}}
      BY <1>4, Zenon
    <2>2. 0 \in 0 .. n /\ \A i \in 1 .. n : i \in 0 .. n /\ i # 0
      BY <1>2
    <2> QED BY <2>1, <2>2
  <1>6. /\ p \in [0 .. n -> Alive \cup {Root}] /\ p[0] = parent[w]
        /\ \A i \in 1 .. n : p[i] = IF p[i - 1] \in Alive THEN parent[p[i - 1]] ELSE p[i - 1]
    BY DEF Path, n
  <1> DEFINE S == {k \in 0 .. n : f[k] = {p[i] : i \in 0 .. k}}
  <1>7. 0 \in S
    BY <1>2, <1>5, <1>6
  <1>8. ASSUME NEW k \in 0 .. n - 1, k \in S PROVE k + 1 \in S
    <2>1. k + 1 \in 1 .. n /\ (k + 1) - 1 = k /\ k + 1 \in 0 .. n /\ k \in 0 .. n
      BY <1>2
    <2>2. f[k] = {p[i] : i \in 0 .. k}
      BY <1>8
    <2>3. f[k + 1] = f[k] \cup {parent[x] : x \in f[k] \ {Root}}
      BY <1>5, <2>1
    <2>4. ASSUME NEW y \in f[k + 1] PROVE \E i \in 0 .. k + 1 : y = p[i]
      <3>1. CASE y \in f[k]
        <4>1. PICK i \in 0 .. k : y = p[i]
          BY <2>2, <3>1
        <4>2. i \in 0 .. k + 1
          BY <1>2
        <4> QED BY <4>1, <4>2
      <3>2. CASE y \notin f[k]
        <4>1. PICK x \in f[k] \ {Root} : y = parent[x]
          BY <2>3, <2>4, <3>2
        <4>2. PICK i \in 0 .. k : x = p[i]
          BY <2>2, <4>1
        <4>3. i \in 0 .. n /\ i + 1 \in 1 .. n /\ (i + 1) - 1 = i /\ i + 1 \in 0 .. k + 1
          BY <1>2
        <4>4. p[i] \in Alive
          BY <1>6, <4>1, <4>2, <4>3
        <4>5. p[i + 1] = y
          BY <1>6, <4>1, <4>2, <4>3, <4>4
        <4> QED BY <4>3, <4>5
      <3> QED BY <3>1, <3>2
    <2>5. ASSUME NEW i \in 0 .. k + 1 PROVE p[i] \in f[k + 1]
      <3>1. CASE i \in 0 .. k
        BY <2>2, <2>3, <3>1
      <3>2. CASE i \notin 0 .. k
        <4>1. i = k + 1
          BY <1>2, <3>2
        <4>2. p[k] \in f[k]
          <5>1. k \in 0 .. k
            BY <1>2
          <5> QED BY <2>2, <5>1
        <4>3. p[k + 1] = IF p[k] \in Alive THEN parent[p[k]] ELSE p[k]
          BY <1>6, <2>1
        <4>4. p[k] \in Alive => p[k] # Root
          BY <1>2
        <4> QED BY <2>3, <4>1, <4>2, <4>3, <4>4
      <3> QED BY <3>1, <3>2
    <2>6. f[k + 1] = {p[i] : i \in 0 .. k + 1}
      BY <2>4, <2>5
    <2> QED BY <2>1, <2>6
  <1>9. f[n] = {p[i] : i \in 0 .. n}
    <2> HIDE DEF S
    <2>1. \A i \in 0 .. n - 1 : i \in S => i + 1 \in S
      BY <1>8
    <2>2. \A i \in 0 .. n : i \in S
      BY <1>2, <1>7, <2>1, SetInduction, Zenon
    <2>3. n \in S
      BY <1>2, <2>2
    <2> QED BY <2>3 DEF S
  <1> QED BY <1>1, <1>9 DEF n

\* What is above a window: its parent, and with a window that window's parent.
LEMMA AboveIs ==
  ASSUME TreeOK, ParentsOK, NEW w \in Alive
  PROVE  /\ parent[w] \in Above(w)
         /\ Above(w) \subseteq Alive \cup {Root}
         /\ \A z \in Above(w) : z # Root => z \in Alive /\ parent[z] \in Above(w) /\ Children(z) # {}
  <1> DEFINE n == Depth
  <1>0. n \in Nat /\ Root \notin Alive
    BY DepthIs DEF ParentsOK
  <1>1. PICK p : Path(w, p)
    BY PathExists
  <1>2. Above(w) = {p[k] : k \in 0 .. n}
    BY <1>1, AboveIsPath
  <1>3. /\ p \in [0 .. n -> Alive \cup {Root}] /\ p[0] = parent[w] /\ p[n] = Root
        /\ \A i \in 1 .. n : p[i] = IF p[i - 1] \in Alive THEN parent[p[i - 1]] ELSE p[i - 1]
    BY <1>1 DEF Path
  <1> HIDE DEF n
  <1>4. 0 \in 0 .. n
    BY <1>0
  <1>5. ASSUME NEW z \in Above(w), z # Root PROVE z \in Alive /\ parent[z] \in Above(w) /\ Children(z) # {}
    <2>1. PICK k \in 0 .. n : z = p[k]
      BY <1>2
    <2>2. z \in Alive
      BY <1>3, <1>5, <2>1
    <2>3. k + 1 \in 1 .. n /\ (k + 1) - 1 = k /\ k + 1 \in 0 .. n
      BY <1>0, <1>3, <1>5, <2>1
    <2>4. p[k + 1] = parent[z]
      BY <1>3, <2>1, <2>2, <2>3
    <2>5. parent[z] \in Above(w)
      BY <1>2, <2>3, <2>4
    <2> DEFINE S == {i \in 0 .. n : p[i] # Root => Children(p[i]) # {}}
    <2>6. 0 \in S
      BY <1>3, <1>4 DEF Children
    <2>7. ASSUME NEW i \in 0 .. n - 1, i \in S PROVE i + 1 \in S
      <3>1. i + 1 \in 1 .. n /\ (i + 1) - 1 = i /\ i + 1 \in 0 .. n /\ i \in 0 .. n
        BY <1>0
      <3>2. p[i + 1] = IF p[i] \in Alive THEN parent[p[i]] ELSE p[i]
        BY <1>3, <3>1
      <3>3. CASE p[i] \in Alive
        BY <3>1, <3>2, <3>3 DEF Children
      <3>4. CASE p[i] \notin Alive
        BY <1>3, <3>1, <3>2, <3>4
      <3> QED BY <3>3, <3>4
    <2> HIDE DEF S
    <2>8. \A i \in 0 .. n - 1 : i \in S => i + 1 \in S
      BY <2>7
    <2>9. \A i \in 0 .. n : i \in S
      BY <1>0, <2>6, <2>8, SetInduction, Zenon
    <2>10. Children(z) # {}
      BY <1>5, <2>1, <2>9 DEF S
    <2> QED BY <2>2, <2>5, <2>10
  <1>6. parent[w] \in Above(w)
    BY <1>2, <1>3, <1>4
  <1>7. Above(w) \subseteq Alive \cup {Root}
    BY <1>2, <1>3
  <1> QED BY <1>5, <1>6, <1>7

\* What a set of windows that leads only to the root has above it.
LEMMA AboveWithin ==
  ASSUME TreeOK, ParentsOK, NEW w \in Alive, NEW S \in SUBSET Alive, parent[w] \in S \cup {Root},
         \A x \in S : parent[x] \in S \cup {Root}
  PROVE  Above(w) \subseteq S \cup {Root}
  <1> DEFINE n == Depth
  <1>0. n \in Nat /\ Root \notin Alive
    BY DepthIs DEF ParentsOK
  <1>1. PICK p : Path(w, p)
    BY PathExists
  <1>2. Above(w) = {p[k] : k \in 0 .. n}
    BY <1>1, AboveIsPath
  <1>3. /\ p \in [0 .. n -> Alive \cup {Root}] /\ p[0] = parent[w]
        /\ \A i \in 1 .. n : p[i] = IF p[i - 1] \in Alive THEN parent[p[i - 1]] ELSE p[i - 1]
    BY <1>1 DEF Path
  <1> HIDE DEF n
  <1> DEFINE U == {i \in 0 .. n : p[i] \in S \cup {Root}}
  <1>4. 0 \in U
    BY <1>0, <1>3
  <1>5. ASSUME NEW i \in 0 .. n - 1, i \in U PROVE i + 1 \in U
    <2>1. i + 1 \in 1 .. n /\ (i + 1) - 1 = i /\ i + 1 \in 0 .. n
      BY <1>0
    <2>2. p[i + 1] = IF p[i] \in Alive THEN parent[p[i]] ELSE p[i]
      BY <1>3, <2>1
    <2>3. p[i] \in S \cup {Root}
      BY <1>5
    <2> QED BY <1>0, <2>1, <2>2, <2>3
  <1> HIDE DEF U
  <1>6. \A i \in 0 .. n - 1 : i \in U => i + 1 \in U
    BY <1>5
  <1>7. \A i \in 0 .. n : i \in U
    BY <1>0, <1>4, <1>6, SetInduction, Zenon
  <1> QED BY <1>2, <1>7 DEF U

LEMMA AboveTransitive ==
  ASSUME TreeOK, ParentsOK, NEW w \in Alive, NEW z \in Above(w), z # Root
  PROVE  z \in Alive /\ Above(z) \subseteq Above(w)
  <1> DEFINE S == Above(w) \ {Root}
  <1>1. S \in SUBSET Alive /\ \A x \in Above(w) : x # Root => x \in Alive /\ parent[x] \in Above(w)
    BY AboveIs
  <1>2. z \in Alive /\ parent[z] \in S \cup {Root} /\ \A x \in S : parent[x] \in S \cup {Root}
    BY <1>1
  <1>3. Above(z) \subseteq S \cup {Root}
    <2> HIDE DEF S
    <2> QED BY <1>1, <1>2, AboveWithin
  <1>4. ASSUME Root \in Above(z) PROVE Root \in Above(w)
    <2>1. PICK p : Path(w, p)
      BY PathExists
    <2>2. Depth \in 0 .. Depth
      BY DepthIs
    <2> QED BY <2>1, <2>2, AboveIsPath DEF Path
  <1> QED BY <1>2, <1>3, <1>4

\* Of some windows, one has none of them above it.
LEMMA Highest ==
  ASSUME TreeOK, ParentsOK, NEW X \in SUBSET Alive, X # {}
  PROVE  \E x \in X : Above(x) \cap X = {}
  <1> SUFFICES ASSUME \A x \in X : Above(x) \cap X # {} PROVE FALSE
    OBVIOUS
  <1> DEFINE Y == {z \in Alive : Above(z) \cap X # {}}
  <1>1. Y \in SUBSET Alive /\ Y # {} /\ X \subseteq Y
    OBVIOUS
  <1>2. ASSUME NEW z \in Y PROVE parent[z] \in Y
    <2>1. PICK y \in X : y \in Above(z)
      OBVIOUS
    <2>2. CASE y = parent[z]
      BY <1>1, <2>2
    <2>3. CASE y # parent[z]
      <3>0. Root \notin Alive
        BY DepthIs DEF ParentsOK
      <3>1. parent[z] # Root
        <4>1. SUFFICES ASSUME parent[z] = Root PROVE FALSE
          OBVIOUS
        <4>2. {} \in SUBSET Alive /\ parent[z] \in {} \cup {Root} /\ z \in Alive
          BY <4>1
        <4>3. Above(z) \subseteq {} \cup {Root}
          BY <4>2, AboveWithin
        <4> QED BY <2>1, <3>0, <4>3
      <3>2. parent[z] \in Alive /\ z \in Alive
        BY <3>1 DEF ParentsOK
      <3> DEFINE S == {parent[z]} \cup (Above(parent[z]) \ {Root})
      <3>3. /\ S \in SUBSET Alive /\ parent[z] \in S \cup {Root}
            /\ \A x \in S : parent[x] \in S \cup {Root}
        <4>1. /\ parent[parent[z]] \in Above(parent[z]) /\ Above(parent[z]) \subseteq Alive \cup {Root}
              /\ \A x \in Above(parent[z]) : x # Root => parent[x] \in Above(parent[z])
          BY <3>2, AboveIs
        <4> QED BY <3>2, <4>1
      <3>4. Above(z) \subseteq S \cup {Root}
        <4> HIDE DEF S, Y
        <4> QED BY <3>2, <3>3, AboveWithin
      <3>5. y \in Above(parent[z])
        BY <2>1, <2>3, <3>0, <3>4
      <3> QED BY <3>2, <3>5
    <2> QED BY <2>2, <2>3
  <1> HIDE DEF Y
  <1> QED BY <1>1, <1>2 DEF TreeOK

\* The tree stays one when windows go, or come under what was above them.
LEMMA TreeKept ==
  ASSUME TreeOK, ParentsOK, Alive' \subseteq Alive, \A w \in Alive' : parent'[w] \in Above(w)
  PROVE  TreeOK'
  <1> SUFFICES ASSUME NEW X \in SUBSET Alive', X # {} PROVE \E x \in X : parent'[x] \notin X
    BY DEF TreeOK
  <1>1. PICK x \in X : Above(x) \cap X = {}
    BY Highest
  <1> QED BY <1>1

\* The nearest superior that is not the client's is a superior.
LEMMA HeirIs ==
  ASSUME TreeOK, ParentsOK, NEW c \in Clients, NEW w \in Alive
  PROVE  /\ HeirOf(c, w) \in Above(w) /\ Owner(HeirOf(c, w)) # c
         /\ HeirOf(c, w) \in Alive \cup {Root}
  <1> DEFINE n == Depth
             X == Alive \cup {Root}
             U(x) == IF Owner(x) = c THEN parent[x] ELSE x
             F == [q \in X \X (1 .. n) |-> U(q[1])]
             f == CHOOSE g : g = [k \in 0 .. n |-> IF k = 0 THEN parent[w]
                                    ELSE IF Owner(g[k - 1]) = c THEN parent[g[k - 1]] ELSE g[k - 1]]
  <1>1. HeirOf(c, w) = f[n]
    BY DEF HeirOf, Depth
  <1>2. n \in Nat /\ parent[w] \in X /\ Root \notin Alive
    BY DepthIs DEF ParentsOK
  <1>3. Owner(Root) # c
    BY ResourcesAssumption DEF Owner, Root
  <1> HIDE DEF n
  <1>4. \E g : g = [k \in 0 .. n |-> IF k = 0 THEN parent[w]
                                    ELSE IF Owner(g[k - 1]) = c THEN parent[g[k - 1]] ELSE g[k - 1]]
    <2>0. \A x \in X : U(x) \in X
      BY <1>3 DEF ParentsOK
    <2>1. F \in [X \X (1 .. n) -> X]
      BY <2>0
    <2> HIDE DEF F, f, X
    <2>2. PICK g : Recursive(g, X, n, parent[w], F)
      BY <1>2, <2>1, RecursionExists
    <2>3. g \in [0 .. n -> X] /\ g[0] = parent[w] /\ \A i \in 1 .. n : g[i] = F[<<g[i - 1], i>>]
      BY <2>2 DEF Recursive
    <2>4. ASSUME NEW i \in 1 .. n PROVE g[i] = U(g[i - 1])
      <3>1. i - 1 \in 0 .. n /\ g[i - 1] \in X
        BY <1>2, <2>3
      <3>2. <<g[i - 1], i>> \in X \X (1 .. n)
        BY <3>1
      <3>3. F[<<g[i - 1], i>>] = U(g[i - 1])
        BY <3>2 DEF F
      <3> QED BY <2>3, <3>3
    <2>5. \A i \in 0 .. n : g[i] = IF i = 0 THEN parent[w] ELSE U(g[i - 1])
      <3>1. \A i \in 0 .. n : i = 0 \/ i \in 1 .. n
        BY <1>2
      <3> QED BY <2>3, <2>4, <3>1
    <2>6. g = [i \in 0 .. n |-> g[i]]
      BY <2>3
    <2>7. g = [k \in 0 .. n |-> IF k = 0 THEN parent[w]
                                    ELSE IF Owner(g[k - 1]) = c THEN parent[g[k - 1]] ELSE g[k - 1]]
      BY <2>5, <2>6
    <2> QED BY <2>7
  <1>5. f = [k \in 0 .. n |-> IF k = 0 THEN parent[w]
                                    ELSE IF Owner(f[k - 1]) = c THEN parent[f[k - 1]] ELSE f[k - 1]]
    BY <1>4, Zenon
  <1> HIDE DEF f, F
  <1>6. f[0] = parent[w] /\ \A i \in 1 .. n : f[i] = U(f[i - 1])
    <2>1. \A k \in 0 .. n : f[k] = IF k = 0 THEN parent[w]
                                    ELSE IF Owner(f[k - 1]) = c THEN parent[f[k - 1]] ELSE f[k - 1]
      BY <1>5, Zenon
    <2>2. 0 \in 0 .. n /\ \A i \in 1 .. n : i \in 0 .. n /\ i # 0
      BY <1>2
    <2> QED BY <2>1, <2>2
  <1>7. f = [k \in 0 .. n |-> f[k]]
    BY <1>5, Zenon
  <1>8. /\ parent[w] \in Above(w) /\ Above(w) \subseteq X
        /\ \A z \in Above(w) : z # Root => parent[z] \in Above(w)
    BY AboveIs
  <1> DEFINE S == {i \in 0 .. n : f[i] \in Above(w)}
  <1>9. 0 \in S
    BY <1>2, <1>6, <1>8
  <1>10. ASSUME NEW i \in 0 .. n - 1, i \in S PROVE i + 1 \in S
    <2>1. i + 1 \in 1 .. n /\ (i + 1) - 1 = i /\ i + 1 \in 0 .. n
      BY <1>2
    <2>2. f[i + 1] = U(f[i])
      BY <1>6, <2>1
    <2>3. f[i] \in Above(w)
      BY <1>10
    <2>4. f[i + 1] \in Above(w)
      BY <1>3, <1>8, <2>2, <2>3
    <2> QED BY <2>1, <2>4
  <1> HIDE DEF S
  <1>11. \A i \in 0 .. n - 1 : i \in S => i + 1 \in S
    BY <1>10
  <1>12. \A i \in 0 .. n : i \in S
    BY <1>2, <1>9, <1>11, SetInduction, Zenon
  <1>13. \A i \in 0 .. n : f[i] \in Above(w)
    BY <1>12 DEF S
  <1> DEFINE A == {x \in Alive : Owner(x) = c}
  <1>14. f \in [0 .. n -> X]
    BY <1>7, <1>8, <1>13
  <1>15. ASSUME NEW i \in 1 .. n PROVE f[i] = IF f[i - 1] \in A THEN parent[f[i - 1]] ELSE f[i - 1]
    <2>1. i - 1 \in 0 .. n
      BY <1>2
    <2>2. f[i - 1] \in X
      BY <1>14, <2>1
    <2>3. Owner(f[i - 1]) = c <=> f[i - 1] \in A
      BY <1>3, <2>2
    <2> QED BY <1>6, <2>3
  <1>16. A \in SUBSET Alive
    OBVIOUS
  <1>17. f[n] \notin A
    <2> HIDE DEF A
    <2> QED BY <1>14, <1>15, <1>16, Climbing DEF n
  <1>18. n \in 0 .. n
    BY <1>2
  <1>19. f[n] \in Above(w) /\ f[n] \in X
    BY <1>13, <1>14, <1>18
  <1>20. Owner(f[n]) # c
    BY <1>3, <1>17, <1>19
  <1> QED BY <1>1, <1>19, <1>20

\* What is left of the windows above a protected window.
LEMMA ProtectedHeirs ==
  ASSUME TreeOK, ParentsOK, SaveSetsOK, NEW c \in Clients, NEW w \in Protected(c),
         NEW z \in Alive, Owner(z) # c, z = w \/ z \in Above(w)
  PROVE  LET h == HandleSaveSet(c)[z]
         IN  h = Root \/ (h \in Above(w) /\ h \in Alive /\ Owner(h) # c)
  <1> DEFINE h == HandleSaveSet(c)[z]
  <1>1. w \in Alive /\ w \in saveSet[c]
    BY DEF Protected, SaveSetsOK
  <1>2. h = IF z \in saveSet[c] THEN HeirOf(c, z) ELSE parent[z]
    BY DEF HandleSaveSet
  <1>3. z # Root
    BY DepthIs DEF ParentsOK
  <1>4. Above(z) \subseteq Above(w)
    BY <1>1, <1>3, AboveTransitive
  <1>5. CASE z \in saveSet[c]
    <2>1. h \in Above(z) /\ Owner(h) # c /\ h \in Alive \cup {Root}
      BY <1>2, <1>5, HeirIs
    <2> QED BY <1>4, <2>1
  <1>6. CASE z \notin saveSet[c]
    <2>1. z \in Above(w) \ {Root}
      BY <1>1, <1>3, <1>6
    <2>2. \A y \in Above(z) : Owner(y) # c
      BY <2>1 DEF Protected
    <2>3. h \in Above(z) /\ h \in Alive \cup {Root}
      BY <1>2, <1>6, AboveIs
    <2> QED BY <1>4, <2>2, <2>3
  <1> QED BY <1>5, <1>6

LEMMA HandlingKeepsTheTree ==
  ASSUME TreeOK, ParentsOK, NEW c \in Clients, parent' = HandleSaveSet(c)
  PROVE  Alive' = Alive /\ ParentsOK' /\ TreeOK'
  <1>1. /\ Alive' = Alive
        /\ \A w \in Alive : parent'[w] = IF w \in saveSet[c] THEN HeirOf(c, w) ELSE parent[w]
    BY DEF HandleSaveSet, Alive
  <1>2. \A w \in Alive : parent'[w] \in Above(w) /\ parent'[w] \in Alive \cup {Root}
    BY <1>1, HeirIs, AboveIs
  <1>3. TreeOK'
    BY <1>1, <1>2, TreeKept
  <1> QED BY <1>1, <1>2, <1>3 DEF ParentsOK

LEMMA RemovingKeepsTheTree ==
  ASSUME TreeOK, ParentsOK, NEW w \in Alive, Children(w) = {}, parent' = [x \in Alive \ {w} |-> parent[x]]
  PROVE  /\ Alive' = Alive \ {w} /\ ParentsOK' /\ TreeOK'
         /\ \A x \in Alive' : parent'[x] = parent[x]
  <1>1. Alive' = Alive \ {w} /\ \A x \in Alive' : parent'[x] = parent[x]
    BY DEF Alive
  <1>2. TreeOK'
    BY <1>1, AboveIs, TreeKept
  <1>3. \A x \in Alive : parent[x] # w
    BY DEF Children
  <1> QED BY <1>1, <1>2, <1>3 DEF ParentsOK

LEMMA CreatingKeepsTheTree ==
  ASSUME TreeOK, ParentsOK, NEW w \in Windows, w \notin Alive, NEW p \in Alive \cup {Root},
         parent' = [x \in Alive \cup {w} |-> IF x = w THEN p ELSE parent[x]]
  PROVE  Alive' = Alive \cup {w} /\ ParentsOK' /\ TreeOK'
  <1>1. Alive' = Alive \cup {w} /\ parent'[w] = p /\ \A x \in Alive : parent'[x] = parent[x]
    BY DEF Alive
  <1>2. ParentsOK'
    BY <1>1 DEF ParentsOK
  <1>3. w # Root /\ p # w
    BY DepthIs
  <1>4. ASSUME NEW X \in SUBSET Alive', X # {} PROVE \E x \in X : parent'[x] \notin X
    <2>1. CASE X \ {w} = {}
      BY <1>1, <1>3, <1>4, <2>1
    <2>2. CASE X \ {w} # {}
      <3> DEFINE Y == X \ {w}
      <3>1. Y \in SUBSET Alive
        BY <1>1
      <3>2. PICK x \in Y : parent[x] \notin Y
        BY <2>2, <3>1 DEF TreeOK
      <3>3. parent[x] # w
        BY <1>3, <3>1 DEF ParentsOK
      <3> QED BY <1>1, <3>1, <3>2, <3>3
    <2> QED BY <2>1, <2>2
  <1> QED BY <1>1, <1>2, <1>4 DEF TreeOK

LEMMA ReparentingKeepsTheTree ==
  ASSUME TreeOK, ParentsOK, NEW w \in Alive, NEW p \in Alive \cup {Root},
         p # w, p # Root => w \notin Above(p), parent' = [parent EXCEPT ![w] = p]
  PROVE  Alive' = Alive /\ ParentsOK' /\ TreeOK'
  <1>1. Alive' = Alive
    BY DEF Alive
  <1>2. parent'[w] = p /\ \A x \in Alive : x # w => parent'[x] = parent[x]
    BY DEF Alive
  <1>3. ParentsOK'
    BY <1>1, <1>2 DEF ParentsOK
  <1>4. ASSUME NEW X \in SUBSET Alive, X # {}, \A x \in X : parent'[x] \in X PROVE FALSE
    <2>0. Root \notin Alive
      BY DepthIs DEF ParentsOK
    <2>1. w \in X
      BY <1>2, <1>4 DEF TreeOK
    <2>2. p \in X /\ p # Root /\ p \in Alive
      BY <1>2, <1>4, <2>0, <2>1
    <2> DEFINE Y == X \cap ({p} \cup Above(p))
    <2>3. w \notin Y /\ p \in Y /\ Y \in SUBSET Alive
      BY <2>2
    <2>4. ASSUME NEW y \in Y PROVE parent[y] \in Y
      <3>1. parent[y] \in X /\ y \in Alive /\ y # Root
        BY <1>2, <1>4, <2>0, <2>3
      <3>2. parent[y] \in Above(p)
        BY <2>2, <3>1, AboveIs
      <3> QED BY <3>1, <3>2
    <2> HIDE DEF Y
    <2> QED BY <2>3, <2>4 DEF TreeOK
  <1> QED BY <1>1, <1>3, <1>4 DEF TreeOK

-----------------------------------------------------------------------------
(* The calls under way.                                                    *)

LEMMA CallKinds ==
  ASSUME NEW g \in Calls
  PROVE  /\ g.op \in {"Free", "Delete", "RRFreeEvents", "FreeWindow"} \cup Bottoms
         /\ g.op = "Free" =>
              /\ g.id \in Windows \cup AllFakeIds /\ g.skip \in Types \cup {"None"}
              /\ g.prev \in Entries \cup {TheHead} /\ g.elements \in Int
         /\ g.op = "Delete" => g.entry \in Entries /\ g = Delete(g.entry)
         /\ g.op = "RRFreeEvents" => g.win \in Windows /\ g = RRFreeEvents(g.win)
         /\ g.op = "FreeWindow" => g.win \in Windows /\ g = FreeWindow(g.win)
         /\ g.op = "DestroySubwindows" => g.win \in Windows \cup {Root}
         /\ g.op = "FreeNeverRetained" => g.client \in Clients /\ g = FreeNeverRetained(g.client)
         /\ g.op = "FreeAll" => g.client \in Clients /\ g = FreeAll(g.client)
  BY DEF Calls, Bottoms, Delete, RRFreeEvents, FreeWindow, FreeNeverRetained, FreeAll

LEMMA CallFields ==
  /\ \A id \in Windows \cup AllFakeIds, skip \in Types \cup {"None"} :
        Free(id, skip) \in Calls /\ IsFree(Free(id, skip), skip) /\ Free(id, skip).id = id /\ Free(id, skip).prev = TheHead
  /\ \A e \in Entries : Delete(e) \in Calls
  /\ \A e : Delete(e).op = "Delete" /\ Delete(e).entry = e
  /\ \A w \in Windows : RRFreeEvents(w) \in Calls /\ FreeWindow(w) \in Calls
  /\ \A w : /\ RRFreeEvents(w).op = "RRFreeEvents" /\ RRFreeEvents(w).win = w
            /\ FreeWindow(w).op = "FreeWindow" /\ FreeWindow(w).win = w
  /\ \A w \in Windows \cup {Root} : DestroySubwindows(w) \in Calls /\ DestroySubwindows(w).op = "DestroySubwindows"
  /\ \A c \in Clients : FreeNeverRetained(c) \in Calls /\ FreeAll(c) \in Calls
  /\ \A c : /\ FreeNeverRetained(c).op = "FreeNeverRetained" /\ FreeNeverRetained(c).client = c
            /\ FreeAll(c).op = "FreeAll" /\ FreeAll(c).client = c
  BY DEF Calls, IsFree, Free, Delete, RRFreeEvents, FreeWindow, DestroySubwindows, FreeNeverRetained, FreeAll

FreeKind(f) ==
    /\ f.skip \in {"None", "Window", "RRClient"}
    /\ f.skip = "RRClient" => ~IsOwn(f.id)
    /\ f.skip = "Window" => IsOwn(f.id)

LEMMA BaseWhat ==
  ASSUME NEW f, Base(f), f.op = "Free"
  PROVE  FreeKind(f)
  BY DEF Base, IsFree, Bottoms, FreeKind

LEMMA OnWhat ==
  ASSUME NEW f, NEW g, On(f, g)
  PROVE  /\ g.op # "Delete" /\ ~IsFree(g, "RRClient") /\ f.op \notin Bottoms
         /\ g.op = "RRFreeEvents" => IsFree(f, "RRClient")
         /\ IsFree(f, "Window") => g = FreeWindow(f.id)
         /\ f.op = "Free" => FreeKind(f)
  <1>1. CASE g = FreeWindow(f.id) /\ IsFree(f, "Window")
    <2>1. g.op = "FreeWindow"
      BY <1>1 DEF FreeWindow
    <2> QED BY <1>1, <2>1 DEF IsFree, Bottoms, On, FreeKind
  <1>2. CASE ~(g = FreeWindow(f.id) /\ IsFree(f, "Window"))
    <2>1. \/ IsFree(f, "None") /\ g.op \in {"DestroySubwindows", "FreeWindow"}
          \/ IsFree(f, "RRClient") /\ ~IsOwn(f.id) /\ g.op = "RRFreeEvents"
          \/ f.op = "Delete" /\ (IsFree(g, "None") \/ g.op \in {"FreeNeverRetained", "FreeAll"})
          \/ f.op = "RRFreeEvents" /\ ((g.op = "Free" /\ g.skip # "RRClient") \/ g.op = "FreeAll")
          \/ f.op = "FreeWindow" /\ (IsFree(g, "None") \/ g.op \in {"FreeAll", "FreeWindow"})
      BY <1>2 DEF On
    <2> QED BY <2>1 DEF IsFree, Bottoms, FreeKind
  <1> QED BY <1>1, <1>2

LEMMA FramesAre ==
  ASSUME NEW s, NEW x
  PROVE  x \in Frames(s) <=> \E k \in DOMAIN s : x = s[k]
  BY DEF Frames

LEMMA NoFrames == Frames(<<>>) = {} /\ \A L : Stack(<<>>, L)
  BY DEF Frames, Stack

\* What a stack has below its innermost call.
LEMMA StackTop ==
  ASSUME NEW s \in Seq(Calls), s # <<>>, NEW L, Stack(s, L)
  PROVE  /\ Head(s) \in Calls /\ Tail(s) \in Seq(Calls) /\ Stack(Tail(s), L)
         /\ Frames(s) = {Head(s)} \cup Frames(Tail(s))
         /\ Tail(s) # <<>> => LastOf(Tail(s)) = LastOf(s) /\ On(Head(s), Head(Tail(s)))
         /\ Tail(s) = <<>> => LastOf(s) = Head(s) /\ Base(Head(s))
         /\ \A g \in Frames(Tail(s)) :
               /\ g \in Calls /\ g.op # "Delete" /\ ~IsFree(g, "RRClient")
               /\ Head(s).op = "FreeWindow" /\ g.op = "FreeWindow" => g.win # Head(s).win /\ Head(s).win \in L
               /\ g.op = "RRFreeEvents" => IsFree(Head(s), "RRClient")
         /\ \A g \in Frames(s) : IsFree(g, "Window") => FreeWindow(g.id) \in Frames(Tail(s))
         /\ Head(s).op \in Bottoms => Tail(s) = <<>>
         /\ Head(s).op = "Free" => FreeKind(Head(s))
  <1> DEFINE n == Len(s)
             h == Head(s)
             r == Tail(s)
  <1>1. /\ h = s[1] /\ h \in Calls /\ n \in Nat /\ 1 \in 1 .. n
        /\ r \in Seq(Calls) /\ Len(r) = n - 1 /\ \A k \in 1 .. n - 1 : r[k] = s[k + 1]
    BY Popped
  <1>2. DOMAIN s = 1 .. n /\ DOMAIN r = 1 .. n - 1 /\ \A k \in 1 .. n : s[k] \in Calls
    BY <1>1
  <1>3. /\ Base(s[n]) /\ \A k \in 1 .. n - 1 : On(s[k], s[k + 1])
        /\ \A j, k \in 1 .. n : j < k /\ s[j].op = "FreeWindow" /\ s[k].op = "FreeWindow" =>
              s[j].win # s[k].win /\ s[j].win \in L
    BY DEF Stack, LastOf
  <1>4. r = <<>> <=> n = 1
    <2> HIDE DEF n, r
    <2> QED BY <1>1
  <1>5. ASSUME r # <<>> PROVE LastOf(r) = LastOf(s) /\ r[1] = Head(r) /\ r[1] = s[2] /\ 1 \in 1 .. n - 1
    <2>1. n - 1 \in 1 .. n - 1 /\ 1 \in 1 .. n - 1 /\ (n - 1) + 1 = n /\ 1 + 1 = 2
      BY <1>1, <1>4, <1>5
    <2>2. r[n - 1] = s[n] /\ r[1] = s[2]
      BY <1>1, <2>1
    <2>3. Head(r) = r[1]
      BY <1>1, <1>5
    <2> QED BY <1>1, <2>1, <2>2, <2>3 DEF LastOf
  <1> HIDE DEF n, h, r
  <1>6. Stack(r, L)
    <2>1. r # <<>> => Base(LastOf(r))
      BY <1>3, <1>5 DEF LastOf, n
    <2>2. ASSUME NEW k \in 1 .. Len(r) - 1 PROVE On(r[k], r[k + 1])
      <3>1. k \in 1 .. n - 1 /\ k + 1 \in 1 .. n - 1
        BY <1>1
      <3> QED BY <1>1, <1>3, <3>1
    <2>3. ASSUME NEW j \in 1 .. Len(r), NEW k \in 1 .. Len(r), j < k, r[j].op = "FreeWindow", r[k].op = "FreeWindow"
          PROVE  r[j].win # r[k].win /\ r[j].win \in L
      <3>1. j + 1 \in 1 .. n /\ k + 1 \in 1 .. n /\ j + 1 < k + 1 /\ j \in 1 .. n - 1 /\ k \in 1 .. n - 1
        BY <1>1, <2>3
      <3>2. r[j] = s[j + 1] /\ r[k] = s[k + 1]
        BY <1>1, <3>1
      <3> QED BY <1>3, <2>3, <3>1, <3>2
    <2> QED BY <2>1, <2>2, <2>3 DEF Stack
  <1>7. \A x : x \in Frames(r) <=> \E k \in 2 .. n : x = s[k]
    <2>1. \A k \in 1 .. n - 1 : k + 1 \in 2 .. n
      BY <1>1
    <2>2. \A k \in 2 .. n : k - 1 \in 1 .. n - 1 /\ (k - 1) + 1 = k
      BY <1>1
    <2>3. \A k \in 1 .. n - 1 : \E j \in 2 .. n : r[k] = s[j]
      BY <1>1, <2>1
    <2>4. \A k \in 2 .. n : \E j \in 1 .. n - 1 : r[j] = s[k]
      <3> TAKE k \in 2 .. n
      <3>1. r[k - 1] = s[k]
        BY <1>1, <2>2
      <3> QED BY <2>2, <3>1
    <2> SUFFICES ASSUME NEW x PROVE x \in Frames(r) <=> \E k \in 2 .. n : x = s[k]
      OBVIOUS
    <2>5. x \in Frames(r) <=> \E k \in 1 .. n - 1 : x = r[k]
      BY <1>2, FramesAre
    <2> QED BY <2>3, <2>4, <2>5
  <1>8. Frames(s) = {h} \cup Frames(r)
    <2>1. \A k \in 1 .. n : k = 1 \/ k \in 2 .. n
      BY <1>1
    <2>2. \A k \in 2 .. n : k \in 1 .. n
      BY <1>1
    <2>3. \A x : x \in Frames(s) <=> x \in {h} \cup Frames(r)
      BY <1>1, <1>2, <1>7, <2>1, <2>2, FramesAre
    <2> QED BY <2>3
  <1>9. r # <<>> => On(h, Head(r))
    <2>1. 1 + 1 = 2
      OBVIOUS
    <2> QED BY <1>1, <1>3, <1>5, <2>1
  <1>10. r = <<>> => LastOf(s) = h /\ Base(h)
    BY <1>1, <1>3, <1>4 DEF LastOf, n
  <1>11. \A k \in 2 .. n : k \in 1 .. n /\ k - 1 \in 1 .. n - 1 /\ (k - 1) + 1 = k /\ On(s[k - 1], s[k])
    BY <1>1, <1>3
  <1>12. \A k \in 2 .. n : s[k].op # "Delete" /\ ~IsFree(s[k], "RRClient")
    BY <1>11, OnWhat
  <1>13. \A k \in 2 .. n : s[k].op = "RRFreeEvents" => IsFree(h, "RRClient")
    <2> SUFFICES ASSUME NEW k \in 2 .. n, s[k].op = "RRFreeEvents" PROVE IsFree(h, "RRClient")
      OBVIOUS
    <2>1. On(s[k - 1], s[k])
      BY <1>11
    <2>3. IsFree(s[k - 1], "RRClient")
      BY <2>1, OnWhat
    <2>4. k - 1 \notin 2 .. n
      BY <1>12, <2>3
    <2>5. k - 1 = 1
      BY <1>1, <2>4
    <2> QED BY <1>1, <2>3, <2>5
  <1>14. \A k \in 2 .. n : h.op = "FreeWindow" /\ s[k].op = "FreeWindow" => s[k].win # h.win /\ h.win \in L
    <2> TAKE k \in 2 .. n
    <2>1. 1 \in 1 .. n /\ k \in 1 .. n /\ 1 < k
      BY <1>1
    <2> QED BY <1>1, <1>3, <2>1
  <1>15. ASSUME NEW k \in 1 .. n, IsFree(s[k], "Window") PROVE FreeWindow(s[k].id) \in Frames(r)
    <2>1. k # n
      BY <1>3, <1>15 DEF Base, IsFree, Bottoms
    <2>2. k \in 1 .. n - 1 /\ k + 1 \in 2 .. n
      BY <1>1, <2>1
    <2>3. On(s[k], s[k + 1])
      BY <1>3, <2>2
    <2>4. s[k + 1] = FreeWindow(s[k].id)
      BY <1>15, <2>3, OnWhat
    <2> QED BY <1>7, <2>2, <2>4
  <1>16. \A g \in Frames(s) : IsFree(g, "Window") => FreeWindow(g.id) \in Frames(r)
    BY <1>2, <1>15 DEF Frames
  <1>17. h.op \in Bottoms => r = <<>>
    BY <1>9, OnWhat
  <1>18. \A g \in Frames(r) :
               /\ g \in Calls /\ g.op # "Delete" /\ ~IsFree(g, "RRClient")
               /\ h.op = "FreeWindow" /\ g.op = "FreeWindow" => g.win # h.win /\ h.win \in L
               /\ g.op = "RRFreeEvents" => IsFree(h, "RRClient")
    <2>1. \A k \in 2 .. n : s[k] \in Calls
      BY <1>2, <1>11
    <2> QED BY <1>7, <1>12, <1>13, <1>14, <2>1
  <1>19. h.op = "Free" => FreeKind(h)
    BY <1>9, <1>10, BaseWhat, OnWhat
  <1> QED BY <1>1, <1>5, <1>6, <1>8, <1>9, <1>10, <1>16, <1>17, <1>18, <1>19 DEF h, r

\* A call of FreeResource on a window is nobody's death.
LEMMA FreeOfOwn ==
  ASSUME NEW s \in Seq(Calls), s # <<>>, NEW L, Stack(s, L), IsFree(Head(s), "None"), IsOwn(Head(s).id)
  PROVE  LastOf(s).op # "FreeAll" /\ \A g \in Frames(Tail(s)) : g.op = "DestroySubwindows"
  <1>1. CASE Tail(s) = <<>>
    <2>1. LastOf(s) = Head(s)
      BY <1>1, StackTop
    <2> QED BY <1>1, <2>1, NoFrames DEF IsFree
  <1>2. CASE Tail(s) # <<>>
    <2>1. Tail(s) \in Seq(Calls) /\ Stack(Tail(s), L) /\ On(Head(s), Head(Tail(s))) /\ LastOf(Tail(s)) = LastOf(s)
      BY <1>2, StackTop
    <2>2. Head(Tail(s)).op = "DestroySubwindows"
      BY <2>1 DEF On, IsFree
    <2>3. Head(Tail(s)).op \in Bottoms
      BY <2>2 DEF Bottoms
    <2>4. Tail(Tail(s)) = <<>>
      BY <1>2, <2>1, <2>3, StackTop
    <2>5. LastOf(Tail(s)) = Head(Tail(s))
      BY <1>2, <2>1, <2>4, StackTop
    <2>6. Frames(Tail(s)) = {Head(Tail(s))}
      <3>1. Frames(Tail(s)) = {Head(Tail(s))} \cup Frames(Tail(Tail(s)))
        BY <1>2, <2>1, StackTop
      <3> QED BY <2>4, <3>1, NoFrames
    <2> QED BY <2>1, <2>2, <2>5, <2>6
  <1> QED BY <1>1, <1>2

LEMMA StackOne ==
  ASSUME NEW g \in Calls, Base(g), NEW L
  PROVE  /\ <<g>> \in Seq(Calls) /\ <<g>> # <<>> /\ Stack(<<g>>, L) /\ Frames(<<g>>) = {g}
         /\ LastOf(<<g>>) = g /\ Head(<<g>>) = g /\ Tail(<<g>>) = <<>>
  <1> DEFINE s == <<g>>
  <1>1. s \in Seq(Calls) /\ Len(s) = 1 /\ s[1] = g /\ DOMAIN s = {1} /\ Head(s) = g /\ Tail(s) = <<>> /\ s # <<>>
    OBVIOUS
  <1> HIDE DEF s
  <1>2. Frames(s) = {g} /\ LastOf(s) = g
    BY <1>1 DEF Frames, LastOf
  <1>3. Stack(s, L)
    BY <1>1, <1>2 DEF Stack
  <1> QED BY <1>1, <1>2, <1>3 DEF s

LEMMA StackPush ==
  ASSUME NEW s \in Seq(Calls), s # <<>>, NEW L, Stack(s, L), NEW g \in Calls, On(g, Head(s)),
         g.op = "FreeWindow" => \A f \in Frames(s) : f.op = "FreeWindow" => f.win # g.win /\ g.win \in L
  PROVE  LET r == <<g>> \o s
         IN  /\ r \in Seq(Calls) /\ r # <<>> /\ Stack(r, L) /\ Frames(r) = Frames(s) \cup {g}
             /\ LastOf(r) = LastOf(s) /\ Head(r) = g /\ Tail(r) = s
  <1> DEFINE n == Len(s)
             r == <<g>> \o s
  <1>1. /\ r \in Seq(Calls) /\ r # <<>> /\ Len(r) = n + 1 /\ r[1] = g /\ Tail(r) = s
        /\ \A k \in 1 .. n : r[k + 1] = s[k]
    BY Pushed
  <1>2. n \in Nat /\ 1 \in 1 .. n /\ Head(s) = s[1] /\ DOMAIN s = 1 .. n
    BY Popped
  <1>3. /\ Base(s[n]) /\ \A k \in 1 .. n - 1 : On(s[k], s[k + 1])
        /\ \A j, k \in 1 .. n : j < k /\ s[j].op = "FreeWindow" /\ s[k].op = "FreeWindow" =>
              s[j].win # s[k].win /\ s[j].win \in L
    BY DEF Stack, LastOf
  <1> HIDE DEF n, r
  <1>4. \A k \in 1 .. n + 1 : k = 1 \/ (k - 1 \in 1 .. n /\ r[k] = s[k - 1])
    <2> SUFFICES ASSUME NEW k \in 1 .. n + 1, k # 1 PROVE k - 1 \in 1 .. n /\ r[k] = s[k - 1]
      OBVIOUS
    <2>1. k - 1 \in 1 .. n /\ (k - 1) + 1 = k
      BY <1>2
    <2> QED BY <1>1, <2>1
  <1>5. DOMAIN r = 1 .. n + 1 /\ Head(r) = g
    BY <1>1
  <1>6. Frames(r) = Frames(s) \cup {g}
    <2>1. \A k \in 1 .. n : k + 1 \in 1 .. n + 1
      BY <1>2
    <2>2. 1 \in 1 .. n + 1
      BY <1>2
    <2>3. \A k \in 1 .. n + 1 : r[k] = g \/ \E j \in 1 .. n : r[k] = s[j]
      BY <1>1, <1>4
    <2>4. \A k \in 1 .. n : \E j \in 1 .. n + 1 : r[j] = s[k]
      BY <1>1, <2>1
    <2>5. \A x : x \in Frames(r) <=> x \in Frames(s) \cup {g}
      <3> TAKE x
      <3>1. x \in Frames(r) <=> \E k \in 1 .. n + 1 : x = r[k]
        BY <1>5, FramesAre
      <3>2. x \in Frames(s) <=> \E k \in 1 .. n : x = s[k]
        BY <1>2, FramesAre
      <3> QED BY <1>1, <2>2, <2>3, <2>4, <3>1, <3>2
    <2> QED BY <2>5
  <1>7. LastOf(r) = LastOf(s)
    <2>1. n \in 1 .. n
      BY <1>2
    <2> QED BY <1>1, <2>1 DEF LastOf, n
  <1>8. ASSUME NEW k \in 1 .. Len(r) - 1 PROVE On(r[k], r[k + 1])
    <2>1. k \in 1 .. n /\ k \in 1 .. n + 1
      BY <1>1, <1>2
    <2>2. CASE k = 1
      BY <1>1, <1>2, <2>2
    <2>3. CASE k # 1
      <3>1. k - 1 \in 1 .. n - 1 /\ (k - 1) + 1 = k
        BY <1>2, <2>1, <2>3
      <3>2. On(s[k - 1], s[(k - 1) + 1])
        BY <1>3, <3>1
      <3> QED BY <1>1, <1>4, <2>1, <2>3, <3>1, <3>2
    <2> QED BY <2>2, <2>3
  <1>9. ASSUME NEW j \in 1 .. Len(r), NEW k \in 1 .. Len(r), j < k, r[j].op = "FreeWindow", r[k].op = "FreeWindow"
        PROVE  r[j].win # r[k].win /\ r[j].win \in L
    <2>1. k # 1 /\ k - 1 \in 1 .. n /\ j \in 1 .. n + 1 /\ k \in 1 .. n + 1
      BY <1>1, <1>2, <1>9
    <2>2. r[k] = s[k - 1]
      BY <1>4, <2>1
    <2>3. CASE j = 1
      <3>1. s[k - 1] \in Frames(s)
        BY <1>2, <2>1 DEF Frames
      <3> QED BY <1>1, <1>9, <2>2, <2>3, <3>1
    <2>4. CASE j # 1
      <3>1. j - 1 \in 1 .. n /\ r[j] = s[j - 1] /\ j - 1 < k - 1
        BY <1>4, <1>9, <2>1, <2>4
      <3> QED BY <1>3, <1>9, <2>1, <2>2, <3>1
    <2> QED BY <2>3, <2>4
  <1>10. Base(LastOf(r))
    BY <1>3, <1>7 DEF LastOf, n
  <1>11. Stack(r, L)
    BY <1>8, <1>9, <1>10 DEF Stack
  <1> QED BY <1>1, <1>5, <1>6, <1>7, <1>11 DEF r

\* FreeResource goes on.
LEMMA StackSwap ==
  ASSUME NEW s \in Seq(Calls), s # <<>>, NEW L, Stack(s, L), NEW g \in Calls,
         g.op = "Free", Head(s).op = "Free", g.id = Head(s).id, g.skip = Head(s).skip
  PROVE  LET r == <<g>> \o Tail(s)
         IN  /\ r \in Seq(Calls) /\ r # <<>> /\ Stack(r, L) /\ Frames(r) = Frames(Tail(s)) \cup {g}
             /\ \A x : x.op # "Free" => (LastOf(r) = x <=> LastOf(s) = x)
             /\ Head(r) = g /\ Tail(r) = Tail(s)
  <1> DEFINE t == Tail(s)
             h == Head(s)
             r == <<g>> \o t
  <1>1. /\ t \in Seq(Calls) /\ Stack(t, L)
        /\ t # <<>> => LastOf(t) = LastOf(s) /\ On(h, Head(t))
        /\ t = <<>> => LastOf(s) = h /\ Base(h)
    BY StackTop
  <1>2. h.op = "Free" /\ g.id = h.id /\ g.skip = h.skip
    OBVIOUS
  <1> HIDE DEF t, h
  <1>3. CASE t = <<>>
    <2>1. Base(g)
      BY <1>1, <1>2, <1>3 DEF Base, IsFree, Bottoms
    <2>2. r = <<g>>
      BY <1>3
    <2>3. /\ r \in Seq(Calls) /\ r # <<>> /\ Stack(r, L) /\ Frames(r) = {g} /\ LastOf(r) = g
          /\ Head(r) = g /\ Tail(r) = <<>>
      BY <2>1, <2>2, StackOne
    <2> HIDE DEF r
    <2> QED BY <1>1, <1>2, <1>3, <2>3, NoFrames DEF r, t
  <1>4. CASE t # <<>>
    <2>1. On(g, Head(t))
      BY <1>1, <1>2, <1>4 DEF On, IsFree
    <2>2. /\ r \in Seq(Calls) /\ r # <<>> /\ Stack(r, L) /\ Frames(r) = Frames(t) \cup {g}
          /\ LastOf(r) = LastOf(t) /\ Head(r) = g /\ Tail(r) = t
      BY <1>1, <1>4, <2>1, StackPush
    <2> HIDE DEF r
    <2> QED BY <1>1, <1>4, <2>2 DEF r, t
  <1> QED BY <1>3, <1>4

LEMMA StackKept ==
  ASSUME NEW s, NEW L, NEW M, Stack(s, L), L \subseteq M
  PROVE  Stack(s, M)
  BY DEF Stack

-----------------------------------------------------------------------------
(* The parts of the invariant.                                             *)

LEMMA TypesAreOK ==
  ASSUME TypesOK, TablesOK
  PROVE  TypeOK
  <1>1. \A c \in Clients :
          /\ table[c].hashsize \in {-1} \cup InitHashSize .. MaxHashSize
          /\ table[c].buckets \in Nat
          /\ table[c].elements \in Int
          /\ EntriesIn(table[c]) \subseteq Entries
    BY TableTypes DEF TablesOK
  <1> QED BY <1>1 DEF TypesOK, TypeOK, ParentsOK

\* Entry e of client c is unlinked.
Cut(c, e) ==
    \E b \in DOMAIN table[c].bucket : \E i \in DOMAIN table[c].bucket[b] : \E u :
        /\ e = table[c].bucket[b][i]
        /\ Unlinked(table[c], b, i, u) /\ table' = [table EXCEPT ![c] = u]

LEMMA TableCut ==
  ASSUME TablesOK, NEW c \in Clients, NEW e, Cut(c, e)
  PROVE  /\ TablesOK' /\ table[c] # NoTable
         /\ EntryOK(c, e) /\ e \in EntriesIn(table[c])
         /\ \A d \in Clients : table'[d] = NoTable <=> table[d] = NoTable
         /\ \A d \in Clients : EntriesIn(table'[d]) = EntriesIn(table[d]) \ {e}
         /\ \A d \in Clients : d # c => table'[d] = table[d]
  <1> DEFINE t == table[c]
  <1>0. PICK b \in DOMAIN t.bucket : \E i \in DOMAIN t.bucket[b] : \E u :
           e = t.bucket[b][i] /\ Unlinked(t, b, i, u) /\ table' = [table EXCEPT ![c] = u]
    BY DEF Cut
  <1>0a. PICK i \in DOMAIN t.bucket[b] : \E u :
           e = t.bucket[b][i] /\ Unlinked(t, b, i, u) /\ table' = [table EXCEPT ![c] = u]
    BY <1>0
  <1>1. PICK u : e = t.bucket[b][i] /\ Unlinked(t, b, i, u) /\ table' = [table EXCEPT ![c] = u]
    BY <1>0a
  <1>2. TableOK(c, t) /\ DOMAIN table = Clients
    BY DEF TablesOK
  <1>3. t # NoTable
    <2> HIDE DEF t
    <2>1. e \in EntriesIn(t)
      BY <1>1, EntriesAre
    <2> QED BY <2>1, NoTableIsEmpty
  <1>4. b \in 0 .. t.buckets - 1
    BY <1>1, <1>2, <1>3 DEF TableOK
  <1>5. TableOK(c, u) /\ u # NoTable /\ e \in EntriesIn(t) /\ EntriesIn(u) = EntriesIn(t) \ {e}
    BY <1>1, <1>2, <1>3, <1>4, Unlinking
  <1>6. EntryOK(c, e)
    BY <1>2, <1>5, TableTypes
  <1>7. /\ DOMAIN table' = Clients /\ table'[c] = u
        /\ \A d \in Clients : d # c => table'[d] = table[d]
    BY <1>1, <1>2
  <1>8. \A d \in Clients : d # c => e \notin EntriesIn(table[d])
    <2>1. \A d \in Clients : \A x \in EntriesIn(table[d]) : Owner(x.id) = d
      BY TableTypes DEF TablesOK, EntryOK
    <2> QED BY <1>6, <2>1 DEF EntryOK
  <1>9. \A d \in Clients : EntriesIn(table'[d]) = EntriesIn(table[d]) \ {e}
    <2> TAKE d \in Clients
    <2>1. CASE d = c
      BY <1>5, <1>7, <2>1
    <2>2. CASE d # c
      <3>1. table'[d] = table[d] /\ e \notin EntriesIn(table[d])
        BY <1>7, <1>8, <2>2
      <3> QED BY <3>1
    <2> QED BY <2>1, <2>2
  <1>10. TablesOK'
    BY <1>5, <1>7 DEF TablesOK
  <1> HIDE DEF t
  <1>11. \A d \in Clients : table'[d] = NoTable <=> table[d] = NoTable
    BY <1>3, <1>5, <1>7 DEF t
  <1> QED BY <1>3, <1>5, <1>6, <1>7, <1>9, <1>10, <1>11 DEF t

\* What an entry has to do with the lists, in the calls that are under way
\* after it was unlinked.
Pushes(e) ==
    /\ \A w \in Windows :
          /\ Freeing(w) => Freeing(w)'
          /\ Freeing(w)' => \/ Freeing(w)
                            \/ /\ e.type = "Window" /\ w = e.win
                               /\ ~Holds(table[Owner(w)], w)'
                               /\ spared # {} => ClosingIs(Owner(w))
          /\ Clearing(w) => Clearing(w)'
    /\ \A id \in Windows \cup AllFakeIds, skip \in {"Window", "RRClient"} : Sparing(id, skip) <=> Sparing(id, skip)'
    /\ \A d \in Entries :
          /\ Deleting(d) => Deleting(d)'
          /\ Deleting(d)' => Deleting(d) \/ (d = e /\ e.type \in {"OtherClient", "RRClient"})
    /\ e.type = "Window" => Freeing(e.win)'
    /\ e.type = "RREvent" => Clearing(e.win)'
    /\ e.type = "OtherClient" => Deleting(e)'
    /\ e.type = "RRClient" => Deleting(e)' \/ Sparing(e.id, "RRClient")
    /\ \A d \in Clients : (ClosingIs(d) <=> ClosingIs(d)') /\ (RetainingIs(d) <=> RetainingIs(d)')

CutUnchanged == UNCHANGED <<state, fake, parent, others, rrEvents, saveSet, spared>>

LEMMA EntryOfIs ==
  ASSUME NEW c \in Clients, NEW e, EntryOK(c, e)
  PROVE  /\ e = EntryOf(e.id, e.type, e.win)
         /\ \A id, type, w : EntryOf(id, type, w) = e => id = e.id /\ type = e.type /\ w = e.win
  BY EntryFields DEF EntryOf

\* After the cut.
LEMMA CutEntries ==
  ASSUME TablesOK, NEW c \in Clients, NEW e, Cut(c, e)
  PROVE  /\ \A id \in Windows \cup AllFakeIds : \A type, w :
               HasEntry(id, type, w) => HasEntry(id, type, w)' \/ (id = e.id /\ type = e.type /\ w = e.win)
         /\ \A id \in Windows \cup AllFakeIds :
               Holds(table[Owner(id)], id)' => Holds(table[Owner(id)], id)
         /\ \A d \in Clients : EntriesIn(table[d])' \subseteq EntriesIn(table[d])
         /\ \A d \in Clients : \A id : Holds(table[d], id)' => Holds(table[d], id)
  <1>1. \A d \in Clients : EntriesIn(table'[d]) = EntriesIn(table[d]) \ {e}
    BY TableCut
  <1>2. \A id, type, w : EntryOf(id, type, w) = e => id = e.id /\ type = e.type /\ w = e.win
    BY TableCut, EntryOfIs
  <1>3. \A id \in Windows \cup AllFakeIds : Owner(id) \in Clients
    BY AllIds
  <1> QED BY <1>1, <1>2, <1>3 DEF HasEntry, Holds


LEMMA CutKeepsWindows ==
  ASSUME ResourcesInv, NEW c \in Clients, NEW e, Cut(c, e), CutUnchanged, Pushes(e)
  PROVE  WindowsOK'
  <1>1. Alive' = Alive
    BY DEF CutUnchanged, Alive
  <1>2. TablesOK /\ WindowsOK /\ Alive \subseteq Windows
    BY DEF ResourcesInv, TypesOK, ParentsOK
  <1>3. EntryOK(c, e) /\ e \in EntriesIn(table[c])
    BY <1>2, TableCut
  <1>4. e.win \in Alive
    BY <1>2, <1>3 DEF WindowsOK
  <1>5. ASSUME NEW w \in Alive PROVE HasEntry(w, "Window", w)' \/ Freeing(w)'
    <2>0. w \in Windows \cup AllFakeIds /\ w \in Windows
      BY <1>2
    <2>1. CASE Freeing(w)
      BY <2>0, <2>1 DEF Pushes
    <2>2. CASE ~Freeing(w)
      <3>1. HasEntry(w, "Window", w)
        BY <1>2, <2>2 DEF WindowsOK
      <3>2. HasEntry(w, "Window", w)' \/ (e.type = "Window" /\ w = e.win)
        BY <1>2, <2>0, <3>1, CutEntries
      <3> QED BY <3>2 DEF Pushes
    <2> QED BY <2>1, <2>2
  <1>6. \A d \in Clients : \A x \in EntriesIn(table[d])' : x.win \in Alive
    BY <1>2, CutEntries DEF WindowsOK
  <1>7. ASSUME NEW w \in Windows, Freeing(w)'
        PROVE  w \in Alive /\ (Sparing(w, "Window")' \/ ~Holds(table[Owner(w)], w)')
    <2>1. CASE Freeing(w)
      <3>1. w \in Alive /\ (Sparing(w, "Window") \/ ~Holds(table[Owner(w)], w))
        BY <1>2, <2>1 DEF WindowsOK
      <3>2. Sparing(w, "Window") => Sparing(w, "Window")'
        BY DEF Pushes
      <3>3. ~Holds(table[Owner(w)], w) => ~Holds(table[Owner(w)], w)'
        BY <1>2, CutEntries
      <3> QED BY <3>1, <3>2, <3>3
    <2>2. CASE ~Freeing(w)
      BY <1>4, <1>7, <2>2 DEF Pushes
    <2> QED BY <2>1, <2>2
  <1> QED BY <1>1, <1>5, <1>6, <1>7 DEF WindowsOK

LEMMA CutKeepsSelections ==
  ASSUME ResourcesInv, NEW c \in Clients, NEW e, Cut(c, e), CutUnchanged, Pushes(e)
  PROVE  SelectionsOK'
  <1>1. Alive' = Alive /\ others' = others /\ rrEvents' = rrEvents
    BY DEF CutUnchanged, Alive
  <1>2. /\ TablesOK /\ WindowsOK /\ SelectionsOK /\ ScansOK /\ Alive \subseteq Windows
        /\ others \in [Windows -> SUBSET AllFakeIds] /\ rrEvents \in [Windows -> SUBSET AllFakeIds]
    BY DEF ResourcesInv, TypesOK, ParentsOK
  <1>3. EntryOK(c, e) /\ e \in EntriesIn(table[c]) /\ TableOK(c, table[c])
    BY <1>2, TableCut DEF TablesOK
  <1>4. e.win \in Alive
    BY <1>2, <1>3 DEF WindowsOK
  <1>5. ASSUME NEW w \in Windows, rrEvents[w] # {} PROVE Clearing(w)' \/ HasEntry(w, "RREvent", w)'
    <2>1. CASE Clearing(w)
      BY <2>1 DEF Pushes
    <2>2. CASE ~Clearing(w)
      <3>1. HasEntry(w, "RREvent", w)
        BY <1>2, <1>5, <2>2 DEF SelectionsOK
      <3>2. HasEntry(w, "RREvent", w)' \/ (e.type = "RREvent" /\ w = e.win)
        BY <1>2, <3>1, CutEntries
      <3> QED BY <3>2 DEF Pushes
    <2> QED BY <2>1, <2>2
  <1>6. ASSUME NEW w \in Windows, NEW id \in others[w]
        PROVE  HasEntry(id, "OtherClient", w)' \/ Deleting(EntryOf(id, "OtherClient", w))'
    <2>0. id \in AllFakeIds /\ EntryOf(id, "OtherClient", w) \in Entries
      BY <1>2 DEF Entries, EntryOf, Types
    <2>1. CASE Deleting(EntryOf(id, "OtherClient", w))
      BY <2>0, <2>1 DEF Pushes
    <2>2. CASE HasEntry(id, "OtherClient", w)
      <3>1. HasEntry(id, "OtherClient", w)' \/ (id = e.id /\ e.type = "OtherClient" /\ w = e.win)
        BY <1>2, <2>0, <2>2, CutEntries
      <3>2. CASE id = e.id /\ e.type = "OtherClient" /\ w = e.win
        <4>1. e = EntryOf(id, "OtherClient", w)
          BY <1>3, <3>2, EntryOfIs
        <4>2. Deleting(e)'
          BY <3>2 DEF Pushes
        <4> QED BY <4>1, <4>2
      <3> QED BY <3>1, <3>2
    <2> QED BY <1>2, <2>1, <2>2 DEF SelectionsOK
  <1>7. ASSUME NEW w \in Windows, NEW id \in rrEvents[w]
        PROVE  HasEntry(id, "RRClient", w)' \/ Deleting(EntryOf(id, "RRClient", w))'
    <2>0. id \in AllFakeIds /\ EntryOf(id, "RRClient", w) \in Entries
      BY <1>2 DEF Entries, EntryOf, Types
    <2>1. CASE Deleting(EntryOf(id, "RRClient", w))
      BY <2>0, <2>1 DEF Pushes
    <2>2. CASE HasEntry(id, "RRClient", w)
      <3>1. HasEntry(id, "RRClient", w)' \/ (id = e.id /\ e.type = "RRClient" /\ w = e.win)
        BY <1>2, <2>0, <2>2, CutEntries
      <3>2. CASE id = e.id /\ e.type = "RRClient" /\ w = e.win
        <4>1. e = EntryOf(id, "RRClient", w)
          BY <1>3, <3>2, EntryOfIs
        <4>2. ~Sparing(id, "RRClient")
          BY <1>2 DEF Sparing, ScansOK, DropOK, IsFree
        <4>3. Deleting(e)'
          BY <3>2, <4>2 DEF Pushes
        <4> QED BY <4>1, <4>3
      <3> QED BY <3>1, <3>2
    <2> QED BY <1>2, <2>1, <2>2 DEF SelectionsOK
  <1>8. ASSUME NEW d \in Clients, NEW x \in EntriesIn(table[d])'
        PROVE  /\ x.type = "OtherClient" => x.id \in others[x.win]
               /\ x.type = "RRClient" => x.id \in rrEvents[x.win] \/ Sparing(x.id, "RRClient")'
    <2>1. x \in EntriesIn(table[d])
      BY <1>2, CutEntries
    <2>2. /\ x.type = "OtherClient" => x.id \in others[x.win]
          /\ x.type = "RRClient" => x.id \in rrEvents[x.win] \/ Sparing(x.id, "RRClient")
      BY <1>2, <2>1 DEF SelectionsOK
    <2>3. x.id \in Windows \cup AllFakeIds
      BY <1>2, <2>1, TableTypes DEF TablesOK, Entries
    <2>4. Sparing(x.id, "RRClient") => Sparing(x.id, "RRClient")'
      BY <2>3 DEF Pushes
    <2> QED BY <2>2, <2>4
  <1>9. ASSUME NEW d \in Entries, Deleting(d)'
        PROVE  /\ d.win \in Alive /\ ~IsOwn(d.id) /\ d.type \in {"OtherClient", "RRClient"}
               /\ ~Holds(table[Owner(d.id)], d.id)'
               /\ d.type = "OtherClient" => d.id \in others[d.win]
    <2>1. CASE Deleting(d)
      <3>1. /\ d.win \in Alive /\ ~IsOwn(d.id) /\ d.type \in {"OtherClient", "RRClient"}
            /\ ~Holds(table[Owner(d.id)], d.id)
            /\ d.type = "OtherClient" => d.id \in others[d.win]
        BY <1>2, <2>1 DEF SelectionsOK
      <3>2. d.id \in Windows \cup AllFakeIds
        BY DEF Entries
      <3>3. ~Holds(table[Owner(d.id)], d.id)'
        BY <1>2, <3>1, <3>2, CutEntries
      <3> QED BY <3>1, <3>3
    <2>2. CASE ~Deleting(d)
      <3>1. d = e /\ e.type \in {"OtherClient", "RRClient"}
        BY <1>9, <2>2 DEF Pushes
      <3>2. ~IsOwn(e.id) /\ Owner(e.id) = c
        BY <1>3, <3>1, EntryFields
      <3>3. EntriesIn(table[c])' = EntriesIn(table[c]) \ {e}
        BY <1>2, TableCut
      <3>4. \A x \in EntriesIn(table[c]) : x.id = e.id => x = e
        BY <1>3, <3>2, SameId
      <3>5. ~Holds(table[c], e.id)'
        BY <3>3, <3>4 DEF Holds
      <3>6. e.type = "OtherClient" => e.id \in others[e.win]
        BY <1>2, <1>3 DEF SelectionsOK
      <3> QED BY <1>4, <3>1, <3>2, <3>5, <3>6
    <2> QED BY <2>1, <2>2
  <1>10. \A w \in Windows : others[w] \cup rrEvents[w] # {} => w \in Alive
    BY <1>2 DEF SelectionsOK
  <1> QED BY <1>1, <1>5, <1>6, <1>7, <1>8, <1>9, <1>10 DEF SelectionsOK

LEMMA CutStep ==
  ASSUME ResourcesInv, NEW c \in Clients, NEW e, Cut(c, e), CutUnchanged, Pushes(e), ScansOK', todo' \in Seq(Calls), StackOK'
  PROVE  ResourcesInv'
  <1>0. /\ TypesOK /\ TablesOK /\ TreeOK /\ ClientsOK /\ SaveSetsOK /\ FakesOK /\ SparedOK
    BY DEF ResourcesInv
  <1>1. TypesOK'
    BY <1>0 DEF TypesOK, ParentsOK, Alive, CutUnchanged
  <1>2. TablesOK' /\ \A d \in Clients : table'[d] = NoTable <=> table[d] = NoTable
    BY <1>0, TableCut
  <1>3. TreeOK'
    BY <1>0 DEF TreeOK, Alive, CutUnchanged
  <1>4. WindowsOK' /\ SelectionsOK'
    BY CutKeepsWindows, CutKeepsSelections
  <1>5. /\ \A d \in Clients : EntriesIn(table[d])' \subseteq EntriesIn(table[d])
        /\ \A d \in Clients : \A id : Holds(table[d], id)' => Holds(table[d], id)
    BY <1>0, CutEntries
  <1>6. ClientsOK'
    <2>1. \A d \in Clients : (ClosingIs(d) <=> ClosingIs(d)') /\ (RetainingIs(d) <=> RetainingIs(d)')
      BY DEF Pushes
    <2> QED BY <1>0, <1>2, <1>5, <2>1 DEF ClientsOK, CutUnchanged
  <1>7. SaveSetsOK'
    BY <1>0 DEF SaveSetsOK, Alive, CutUnchanged
  <1>8. FakesOK'
    BY <1>0, <1>5 DEF FakesOK, FakeOK, UnusedFake, CutUnchanged
  <1>9. SparedOK'
    <2> SUFFICES ASSUME spared # {} PROVE \E d \in Clients : ClosingIs(d)' /\ \E S \in SUBSET Alive : Shelter(d, S)'
      BY DEF SparedOK, CutUnchanged, Alive
    <2>1. PICK d \in Clients : ClosingIs(d) /\ \E S \in SUBSET Alive : Shelter(d, S)
      BY <1>0 DEF SparedOK
    <2>2. PICK S \in SUBSET Alive : Shelter(d, S)
      BY <2>1
    <2>3. ClosingIs(d)'
      BY <2>1 DEF Pushes
    <2>4. \A x \in Clients : ClosingIs(x) => x = d
      BY <2>1 DEF ClosingIs, FreeAll
    <2>5. ASSUME NEW w \in S PROVE Owner(w) # d /\ parent[w] \in S \cup {Root} /\ ~Freeing(w)'
      <3>1. Owner(w) # d /\ parent[w] \in S \cup {Root} /\ ~Freeing(w)
        BY <2>2 DEF Shelter
      <3>2. w \in Windows /\ Owner(w) \in Clients
        BY <1>0, WindowIds DEF TypesOK, ParentsOK
      <3>3. ~Freeing(w)'
        BY <2>4, <3>1, <3>2 DEF Pushes
      <3> QED BY <3>1, <3>3
    <2>6. Shelter(d, S)'
      BY <2>2, <2>5 DEF Shelter, CutUnchanged
    <2> QED BY <2>3, <2>6
  <1> QED BY <1>1, <1>2, <1>3, <1>4, <1>6, <1>7, <1>8, <1>9 DEF ResourcesInv

-----------------------------------------------------------------------------
(* FreeResource.                                                           *)

\* The innermost call returns.
LEMMA Popping ==
  ASSUME todo \in Seq(Calls), StackOK, todo # <<>>, todo' = Tail(todo), Childless \subseteq Childless'
  PROVE  /\ todo' \in Seq(Calls) /\ StackOK' /\ Frames(todo) = {Head(todo)} \cup Frames(todo') /\ Head(todo) \in Calls
         /\ \A c : (ClosingIs(c)' => ClosingIs(c)) /\ (RetainingIs(c)' => RetainingIs(c))
         /\ Head(todo).op # "FreeAll" => \A c : ClosingIs(c) => ClosingIs(c)'
         /\ Head(todo).op # "FreeNeverRetained" => \A c : RetainingIs(c) => RetainingIs(c)'
  <1>1. /\ Head(todo) \in Calls /\ todo' \in Seq(Calls) /\ Stack(todo', Childless)
        /\ Frames(todo) = {Head(todo)} \cup Frames(todo')
        /\ todo' # <<>> => LastOf(todo') = LastOf(todo)
        /\ todo' = <<>> => LastOf(todo) = Head(todo)
    BY StackTop DEF StackOK
  <1>2. StackOK'
    BY <1>1, StackKept DEF StackOK
  <1>3. \A c : FreeAll(c).op = "FreeAll" /\ FreeNeverRetained(c).op = "FreeNeverRetained"
    BY CallFields
  <1> QED BY <1>1, <1>2, <1>3 DEF ClosingIs, RetainingIs

\* A call is made.
LEMMA Pushing ==
  ASSUME todo \in Seq(Calls), StackOK, todo # <<>>, Childless' = Childless,
         NEW g \in Calls, todo' = <<g>> \o todo, On(g, Head(todo)),
         g.op = "FreeWindow" => \A f \in Frames(todo) : f.op = "FreeWindow" => f.win # g.win /\ g.win \in Childless
  PROVE  /\ todo' \in Seq(Calls) /\ StackOK' /\ Frames(todo') = Frames(todo) \cup {g}
         /\ \A c : (ClosingIs(c)' <=> ClosingIs(c)) /\ (RetainingIs(c)' <=> RetainingIs(c))
  <1>1. /\ todo' \in Seq(Calls) /\ todo' # <<>> /\ Stack(todo', Childless) /\ Frames(todo') = Frames(todo) \cup {g}
        /\ LastOf(todo') = LastOf(todo)
    BY StackPush DEF StackOK
  <1> QED BY <1>1 DEF StackOK, ClosingIs, RetainingIs

LEMMA FreeReturns ==
  ASSUME ResourcesInv, Top("Free"), ~Holds(table[Owner(Head(todo).id)], Head(todo).id), Return, UNCHANGED table, CutUnchanged
  PROVE  ResourcesInv'
  <1> DEFINE f == Head(todo)
  <1>0. /\ TypesOK /\ TablesOK /\ StackOK /\ ScansOK /\ TreeOK /\ WindowsOK /\ SelectionsOK
        /\ ClientsOK /\ SaveSetsOK /\ FakesOK /\ SparedOK
    BY DEF ResourcesInv
  <1>1. f.op = "Free" /\ todo # <<>> /\ todo \in Seq(Calls) /\ todo' = Tail(todo)
    BY <1>0 DEF Top, Return, TypesOK
  <1>2. Alive' = Alive /\ Childless' = Childless
    BY DEF CutUnchanged, Alive, Childless, Children
  <1>3. /\ todo' \in Seq(Calls) /\ StackOK' /\ Frames(todo) = {f} \cup Frames(todo') /\ f \in Calls
        /\ \A c : (ClosingIs(c)' <=> ClosingIs(c)) /\ (RetainingIs(c)' <=> RetainingIs(c))
    BY <1>0, <1>1, <1>2, Popping
  <1>4. f.id \in Windows \cup AllFakeIds /\ ~Holds(table[Owner(f.id)], f.id)
    BY <1>1, <1>3, CallKinds
  <1> HIDE DEF f
  <1>5. /\ \A w : (Freeing(w)' <=> Freeing(w)) /\ (Clearing(w)' <=> Clearing(w))
        /\ \A e : Deleting(e)' <=> Deleting(e)
    <2>1. \A x : x.op # "Free" => (x \in Frames(todo') <=> x \in Frames(todo))
      BY <1>1, <1>3
    <2>2. \A w : FreeWindow(w).op = "FreeWindow" /\ RRFreeEvents(w).op = "RRFreeEvents"
      BY CallFields
    <2>3. \A e : Delete(e).op = "Delete"
      BY CallFields
    <2> QED BY <2>1, <2>2, <2>3 DEF Freeing, Clearing, Deleting
  <1>6. \A id, skip : Sparing(id, skip) => Sparing(id, skip)' \/ id = f.id
    BY <1>3 DEF Sparing
  <1>7. TypesOK'
    BY <1>0, <1>3 DEF TypesOK, ParentsOK, Alive, CutUnchanged
  <1>8. TablesOK'
    BY <1>0 DEF TablesOK
  <1>9. ScansOK'
    BY <1>0, <1>3 DEF ScansOK, ScanOK, ScanAt, KindOK, DropOK, CutUnchanged
  <1>10. TreeOK' /\ SaveSetsOK' /\ FakesOK'
    BY <1>0 DEF TreeOK, SaveSetsOK, FakesOK, FakeOK, UnusedFake, Alive, CutUnchanged
  <1>11. ClientsOK'
    BY <1>0, <1>3 DEF ClientsOK, CutUnchanged
  <1>12. WindowsOK'
    <2>1. \A w \in Windows : Freeing(w) => w \in Alive /\ (Sparing(w, "Window")' \/ ~Holds(table[Owner(w)], w))
      BY <1>0, <1>4, <1>6 DEF WindowsOK
    <2>2. \A w, type : HasEntry(w, type, w)' <=> HasEntry(w, type, w)
      BY DEF HasEntry
    <2> QED BY <1>0, <1>2, <1>5, <2>1, <2>2 DEF WindowsOK
  <1>13. SelectionsOK'
    <2>1. \A id, type, w : HasEntry(id, type, w)' <=> HasEntry(id, type, w)
      BY DEF HasEntry
    <2>2. ASSUME NEW c \in Clients, NEW x \in EntriesIn(table[c]), x.type = "RRClient"
          PROVE  x.id \in rrEvents[x.win] \/ Sparing(x.id, "RRClient")'
      <3>1. Owner(x.id) = c
        BY <1>0, TableTypes DEF TablesOK, EntryOK
      <3>2. x.id # f.id
        BY <1>4, <3>1 DEF Holds
      <3> QED BY <1>0, <1>6, <2>2, <3>2 DEF SelectionsOK
    <2>3. others' = others /\ rrEvents' = rrEvents
      BY DEF CutUnchanged
    <2> QED BY <1>0, <1>2, <1>5, <2>1, <2>2, <2>3 DEF SelectionsOK
  <1>14. SparedOK'
    BY <1>0, <1>2, <1>3, <1>5 DEF SparedOK, Shelter, CutUnchanged
  <1> QED BY <1>3, <1>7, <1>8, <1>9, <1>10, <1>11, <1>12, <1>13, <1>14 DEF ResourcesInv

\* FreeResource unlinks the i-th entry of the bucket and goes on from f2.
Found(f, i, f2) ==
    LET c == Owner(f.id)
        t == table[c]
        b == BucketOf(t, f.id)
    IN  /\ i \in DOMAIN b /\ FoundAt(f, b, i)
        /\ table' = [table EXCEPT ![c] = [Unlink(t, Hash(t, f.id), i) EXCEPT !.elements = @ - 1]]
        /\ f2 = [f EXCEPT !.prev = IF i = 1 THEN TheHead ELSE b[i - 1], !.elements = t.elements - 1]

LEMMA FoundIs ==
  ASSUME TablesOK, NEW f \in Calls, f.op = "Free", ScanOK(f), NEW i, NEW f2, Found(f, i, f2)
  PROVE  LET c == Owner(f.id)
             e == BucketOf(table[c], f.id)[i]
         IN  /\ c \in Clients /\ e.id = f.id /\ Cut(c, e)
             /\ table'[c].elements = table[c].elements - 1
             /\ \A x \in EntriesIn(table[c]) : x.id = f.id /\ x # e => e.type = "RREvent"
             /\ f2 \in Calls /\ f2.op = "Free" /\ f2.id = f.id /\ f2.skip = f.skip /\ ScanOK(f2)'
  <1> DEFINE c == Owner(f.id)
             t == table[c]
             b == BucketOf(t, f.id)
             h == Hash(t, f.id)
             u == [Unlink(t, h, i) EXCEPT !.elements = @ - 1]
             e == b[i]
  <1>1. /\ f.id \in Windows \cup AllFakeIds /\ f.skip \in Types \cup {"None"}
        /\ f.prev \in Entries \cup {TheHead} /\ f.elements \in Int
    BY CallKinds
  <1>2. c \in Clients
    BY <1>1, AllIds
  <1>3. TableOK(c, t) /\ DOMAIN table = Clients
    BY <1>2 DEF TablesOK
  <1>4. /\ i \in DOMAIN b /\ FoundAt(f, b, i) /\ table' = [table EXCEPT ![c] = u]
        /\ f2 = [f EXCEPT !.prev = IF i = 1 THEN TheHead ELSE b[i - 1], !.elements = t.elements - 1]
    BY DEF Found
  <1>5. /\ b \in Seq(Entries) /\ e \in EntriesIn(t)
        /\ t # NoTable => h \in 0 .. t.buckets - 1 /\ b = t.bucket[h]
        /\ \A x \in EntriesIn(t) : x.id = f.id => \E k \in DOMAIN b : x = b[k]
        /\ \A j, k \in DOMAIN b : j < k => Ordered(b[j], b[k])
    <2> HIDE DEF t, c
    <2> QED BY <1>1, <1>2, <1>3, <1>4, InItsBucket
  <1>6. t # NoTable
    <2> HIDE DEF t, b
    <2> QED BY <1>5, NoTableIsEmpty
  <1>7. h \in 0 .. t.buckets - 1 /\ b = t.bucket[h] /\ DOMAIN t.bucket = 0 .. t.buckets - 1 /\ t.elements \in Int
    BY <1>3, <1>5, <1>6 DEF TableOK
  <1>8. e.id = f.id /\ \A k \in 1 .. i - 1 : b[k].id # f.id
    BY <1>1, <1>3, <1>4, ScanFinds
  <1>9. Unlinked(t, h, i, u)
    BY DEF Unlinked
  <1>10. Cut(c, e)
    <2>1. h \in DOMAIN t.bucket /\ i \in DOMAIN t.bucket[h] /\ e = t.bucket[h][i]
      BY <1>4, <1>7
    <2> HIDE DEF t, h, u, b, e
    <2> QED BY <1>4, <1>9, <2>1 DEF Cut, t
  <1>11. i \in DOMAIN t.bucket[h]
    BY <1>4, <1>7
  <1> HIDE DEF u
  <1>12. /\ u = [Unlink(t, h, i) EXCEPT !.elements = @ - 1]
         /\ u # NoTable /\ TableOK(c, u) /\ u.buckets = t.buckets
         /\ u.elements = t.elements - 1
         /\ Len(u.bucket[h]) = Len(b) - 1 /\ u.bucket[h] \in Seq(Entries)
         /\ \A k \in 1 .. Len(b) - 1 : u.bucket[h][k] = IF k < i THEN b[k] ELSE b[k + 1]
    <2>1. u = [Unlink(t, h, i) EXCEPT !.elements = @ - 1]
      BY DEF u
    <2> HIDE DEF h, b
    <2>2. /\ u # NoTable /\ TableOK(c, u) /\ u.buckets = t.buckets
          /\ u = [Unlink(t, h, i) EXCEPT !.elements = @ - 1] => u.elements = t.elements - 1
          /\ Len(u.bucket[h]) = Len(t.bucket[h]) - 1 /\ u.bucket[h] \in Seq(Entries)
          /\ \A k \in 1 .. Len(t.bucket[h]) - 1 : u.bucket[h][k] = IF k < i THEN t.bucket[h][k] ELSE t.bucket[h][k + 1]
      BY <1>2, <1>3, <1>6, <1>7, <1>9, <1>11, Unlinking
    <2> QED BY <1>7, <2>1, <2>2
  <1>13. table'[c] = u
    BY <1>2, <1>3, <1>4
  <1>14. ASSUME NEW x \in EntriesIn(t), x.id = f.id, x # e PROVE e.type = "RREvent"
    <2>1. PICK k \in DOMAIN b : x = b[k]
      BY <1>5, <1>14
    <2>2. k # i /\ ~(k \in 1 .. i - 1)
      BY <1>8, <1>14, <2>1
    <2>3. i < k
      BY <1>4, <1>5, <2>2
    <2>4. Ordered(e, x)
      BY <1>4, <1>5, <2>1, <2>3
    <2> QED BY <1>8, <1>14, <2>4 DEF Ordered
  <1>15. /\ f2.op = "Free" /\ f2.id = f.id /\ f2.skip = f.skip
         /\ f2.prev = IF i = 1 THEN TheHead ELSE b[i - 1]
         /\ f2.elements = t.elements - 1 /\ f2 \in Calls
    <2>1. f = [op |-> "Free", id |-> f.id, skip |-> f.skip, prev |-> f.prev, elements |-> f.elements]
      BY DEF Calls
    <2> DEFINE p == IF i = 1 THEN TheHead ELSE b[i - 1]
               m == t.elements - 1
    <2>2. p \in Entries \cup {TheHead}
      BY <1>4, <1>5
    <2>3. m \in Int
      BY <1>7
    <2>4. f2 = [f EXCEPT !.prev = p, !.elements = m]
      BY <1>4
    <2> HIDE DEF p, m
    <2>5. f2 = [op |-> "Free", id |-> f.id, skip |-> f.skip, prev |-> p, elements |-> m]
      BY <2>1, <2>4
    <2>6. f2 \in Calls
      BY <1>1, <2>2, <2>3, <2>5 DEF Calls
    <2> QED BY <2>5, <2>6 DEF p, m
  <1>16. ScanOK(f2)'
    <2>1. CASE i = 1
      BY <1>15, <2>1 DEF ScanOK, ScanAt
    <2>2. CASE i # 1
      <3> DEFINE d == BucketOf(u, f.id)
      <3>1. d = u.bucket[h]
        <4>1. u.buckets = t.buckets /\ t.buckets # 0
          BY <1>3, <1>6, <1>12 DEF TableOK
        <4>2. Hash(u, f.id) = h
          BY <4>1, Zenon DEF Hash
        <4> QED BY <4>1, <4>2 DEF BucketOf
      <3>2. i - 1 \in DOMAIN d /\ \A k \in 1 .. i - 1 : d[k] = b[k]
        <4>1. i \in 1 .. Len(b) /\ Len(b) \in Nat /\ DOMAIN d = 1 .. Len(b) - 1
          BY <1>4, <1>5, <1>12, <3>1
        <4>2. \A k \in 1 .. i - 1 : k \in 1 .. Len(b) - 1 /\ k < i
          BY <4>1
        <4>3. i - 1 \in 1 .. Len(b) - 1
          BY <2>2, <4>1
        <4> QED BY <1>12, <3>1, <4>1, <4>2, <4>3
      <3>3. \A k \in 1 .. i - 1 : d[k].id # f2.id
        BY <1>8, <1>15, <3>2
      <3>4. d[i - 1] = f2.prev
        <4>1. i - 1 \in 1 .. i - 1
          BY <1>4, <1>5, <2>2
        <4> QED BY <1>15, <2>2, <3>2, <4>1
      <3>5. /\ u.elements <= f2.elements
            /\ u.elements = f2.elements => \E j \in DOMAIN d : d[j] = f2.prev /\ \A k \in 1 .. j : d[k].id # f2.id
        <4>1. u.elements = f2.elements /\ f2.elements \in Int
          BY <1>7, <1>12, <1>15
        <4> HIDE DEF d
        <4> QED BY <3>2, <3>3, <3>4, <4>1
      <3>6. table[Owner(f2.id)]' = u /\ BucketOf(table[Owner(f2.id)], f2.id)' = d
        BY <1>13, <1>15
      <3> HIDE DEF d
      <3> QED BY <3>5, <3>6 DEF ScanOK, ScanAt
    <2> QED BY <2>1, <2>2
  <1> QED BY <1>2, <1>8, <1>10, <1>12, <1>13, <1>14, <1>15, <1>16

LEMMA DeleteFuncIs ==
  ASSUME NEW e
  PROVE  /\ e.type = "Window" => DeleteFunc(e) = FreeWindow(e.win)
         /\ e.type = "RREvent" => DeleteFunc(e) = RRFreeEvents(e.win)
         /\ e.type \in {"OtherClient", "RRClient"} => DeleteFunc(e) = Delete(e)
  BY DEF DeleteFunc

LEMMA CallsDiffer ==
  /\ \A w, v : FreeWindow(w) # RRFreeEvents(v) /\ (FreeWindow(w) = FreeWindow(v) => w = v)
               /\ (RRFreeEvents(w) = RRFreeEvents(v) => w = v)
  /\ \A w, e : FreeWindow(w) # Delete(e) /\ RRFreeEvents(w) # Delete(e)
  /\ \A d, e : Delete(d) = Delete(e) => d = e
  BY DEF FreeWindow, RRFreeEvents, Delete

\* The calls after FreeResource has found an entry.
LEMMA FindsCalls ==
  ASSUME TypesOK, StackOK, Top("Free"), KindOK(Head(todo)), UNCHANGED parent,
         NEW c \in Clients, NEW e, EntryOK(c, e), e \in EntriesIn(table[c]), c = Owner(Head(todo).id), e.id = Head(todo).id,
         NEW f2 \in Calls, f2.op = "Free", f2.id = Head(todo).id, f2.skip = Head(todo).skip,
         Becomes((IF e.type = Head(todo).skip THEN <<>> ELSE <<DeleteFunc(e)>>) \o <<f2>>)
  PROVE  /\ todo' \in Seq(Calls) /\ StackOK'
         /\ Frames(todo') = (Frames(Tail(todo)) \cup {f2}) \cup IF e.type = Head(todo).skip THEN {} ELSE {DeleteFunc(e)}
         /\ \A x : x.op # "Free" => (LastOf(todo') = x <=> LastOf(todo) = x)
         /\ todo' # <<>>
         /\ e.type = "Window" => e.type = Head(todo).skip \/ LastOf(todo).op # "FreeAll"
         /\ e.type = "RRClient" => e.type = Head(todo).skip
  <1> DEFINE f == Head(todo)
             t == Tail(todo)
             s == <<f2>> \o t
             g == DeleteFunc(e)
  <1>1. f.op = "Free" /\ todo # <<>> /\ todo \in Seq(Calls) /\ Stack(todo, Childless)
    BY DEF Top, TypesOK, StackOK
  <1>2. f \in Calls /\ t \in Seq(Calls) /\ FreeKind(f)
    BY <1>1, StackTop
  <1>3. /\ s \in Seq(Calls) /\ s # <<>> /\ Stack(s, Childless) /\ Frames(s) = Frames(t) \cup {f2}
        /\ \A x : x.op # "Free" => (LastOf(s) = x <=> LastOf(todo) = x)
        /\ Head(s) = f2
    BY <1>1, StackSwap
  <1>4. Childless' = Childless
    BY DEF Childless, Children, Alive
  <1>5. /\ e.type \in {"Window", "RREvent", "OtherClient", "RRClient"}
        /\ e.win \in Windows /\ e \in Entries
        /\ e.type \in {"Window", "RREvent"} => IsOwn(f.id)
        /\ e.type \in {"OtherClient", "RRClient"} => ~IsOwn(f.id)
    BY EntryFields DEF EntryOK
  <1>6. ~IsOwn(f.id) => e.type = IF f.skip = "None" THEN "OtherClient" ELSE "RRClient"
    BY DEF KindOK
  <1>7. e.type = "RRClient" => e.type = f.skip
    BY <1>2, <1>5, <1>6 DEF FreeKind
  <1>8. ASSUME e.type = f.skip PROVE todo' = s
    <2>1. todo' = (<<>> \o <<f2>>) \o t
      BY <1>8 DEF Becomes
    <2>2. <<f2>> \in Seq(Calls)
      OBVIOUS
    <2>3. <<>> \o <<f2>> = <<f2>>
      BY <2>2, ConcatEmptySeq
    <2> QED BY <2>1, <2>3
  <1>9. ASSUME e.type # f.skip
        PROVE  /\ todo' \in Seq(Calls) /\ todo' # <<>> /\ Stack(todo', Childless)
               /\ Frames(todo') = Frames(s) \cup {g} /\ LastOf(todo') = LastOf(s)
               /\ e.type = "Window" => LastOf(todo).op # "FreeAll"
    <2>1. f.skip = "None" \/ e.type = "RREvent"
      BY <1>2, <1>5, <1>6, <1>7, <1>9 DEF FreeKind
    <2>2. CASE e.type = "Window"
      <3>1. IsFree(f, "None") /\ IsOwn(f.id)
        BY <1>1, <1>5, <2>1, <2>2 DEF IsFree
      <3>2. LastOf(todo).op # "FreeAll" /\ \A x \in Frames(t) : x.op = "DestroySubwindows"
        BY <1>1, <3>1, FreeOfOwn
      <3>3. g = FreeWindow(e.win)
        BY <2>2, DeleteFuncIs
      <3>4. g \in Calls /\ g.op = "FreeWindow"
        BY <1>5, <3>3, CallFields
      <3>5. On(g, Head(s))
        BY <1>3, <3>1, <3>4 DEF On, IsFree
      <3>6. \A x \in Frames(s) : x.op # "FreeWindow"
        BY <1>3, <3>2
      <3>7. todo' = (<<g>> \o <<f2>>) \o t
        BY <1>9 DEF Becomes
      <3> HIDE DEF s, g, f, t
      <3>8. todo' = <<g>> \o s
        <4>1. <<g>> \in Seq(Calls) /\ <<f2>> \in Seq(Calls)
          BY <3>4
        <4> QED BY <1>2, <3>7, <4>1, ConcatAssociative DEF s
      <3>9. /\ todo' \in Seq(Calls) /\ todo' # <<>> /\ Stack(todo', Childless)
            /\ Frames(todo') = Frames(s) \cup {g} /\ LastOf(todo') = LastOf(s)
        BY <1>3, <3>4, <3>5, <3>6, <3>8, StackPush
      <3> QED BY <3>2, <3>9
    <2>3. CASE e.type # "Window"
      <3>1. g \in Calls /\ g.op # "FreeWindow" /\ On(g, Head(s))
        <4>1. CASE e.type = "RREvent"
          <5>1. g = RRFreeEvents(e.win)
            BY <4>1, DeleteFuncIs
          <5>2. g \in Calls /\ g.op = "RRFreeEvents"
            BY <1>5, <5>1, CallFields
          <5>3. f.skip # "RRClient"
            BY <1>2, <1>5, <4>1 DEF FreeKind
          <5> QED BY <1>3, <1>5, <4>1, <5>2, <5>3 DEF On
        <4>2. CASE e.type # "RREvent"
          <5>1. e.type = "OtherClient" /\ f.skip = "None"
            BY <1>5, <1>7, <1>9, <2>1, <2>3, <4>2
          <5>2. g = Delete(e)
            BY <5>1, DeleteFuncIs
          <5>3. g \in Calls /\ g.op = "Delete"
            BY <1>5, <5>2, CallFields
          <5> QED BY <1>3, <1>5, <5>1, <5>3 DEF On, IsFree
        <4> QED BY <4>1, <4>2
      <3>7. todo' = (<<g>> \o <<f2>>) \o t
        BY <1>9 DEF Becomes
      <3> HIDE DEF s, g, f, t
      <3>8. todo' = <<g>> \o s
        <4>1. <<g>> \in Seq(Calls) /\ <<f2>> \in Seq(Calls)
          BY <3>1
        <4> QED BY <1>2, <3>7, <4>1, ConcatAssociative DEF s
      <3>9. /\ todo' \in Seq(Calls) /\ todo' # <<>> /\ Stack(todo', Childless)
            /\ Frames(todo') = Frames(s) \cup {g} /\ LastOf(todo') = LastOf(s)
        BY <1>3, <3>1, <3>8, StackPush
      <3> QED BY <2>3, <3>9
    <2> QED BY <2>2, <2>3
  <1> HIDE DEF s, g, f, t
  <1>10. CASE e.type = f.skip
    BY <1>3, <1>4, <1>7, <1>8, <1>10 DEF StackOK, f, t
  <1>11. CASE e.type # f.skip
    BY <1>3, <1>4, <1>7, <1>9, <1>11 DEF StackOK, f, t, g
  <1> QED BY <1>10, <1>11

LEMMA FreeFinds ==
  ASSUME ResourcesInv, Top("Free"), CutUnchanged, NEW i, NEW f2, Found(Head(todo), i, f2),
         Becomes((IF BucketOf(table[Owner(Head(todo).id)], Head(todo).id)[i].type = Head(todo).skip THEN <<>>
                  ELSE <<DeleteFunc(BucketOf(table[Owner(Head(todo).id)], Head(todo).id)[i])>>) \o <<f2>>)
  PROVE  ResourcesInv'
  <1>a. PICK f, c, e, t : f = Head(todo) /\ c = Owner(f.id) /\ e = BucketOf(table[c], f.id)[i] /\ t = Tail(todo)
    OBVIOUS
  <1> DEFINE D == IF e.type = f.skip THEN {} ELSE {DeleteFunc(e)}
  <1>0. /\ TypesOK /\ TablesOK /\ StackOK /\ ScansOK /\ TreeOK /\ WindowsOK /\ SelectionsOK
        /\ ClientsOK /\ SaveSetsOK /\ FakesOK /\ SparedOK
    BY DEF ResourcesInv
  <1>1. f.op = "Free" /\ todo # <<>> /\ todo \in Seq(Calls) /\ Stack(todo, Childless)
    BY <1>0, <1>a DEF Top, TypesOK, StackOK
  <1>2. /\ f \in Calls /\ t \in Seq(Calls) /\ FreeKind(f) /\ Frames(todo) = {f} \cup Frames(t)
        /\ \A g \in Frames(t) : g \in Calls
        /\ f.skip = "Window" => FreeWindow(f.id) \in Frames(t)
    BY <1>1, <1>a, StackTop DEF IsFree
  <1>3. ScanOK(f) /\ KindOK(f) /\ DropOK(f)
    BY <1>0, <1>1, <1>2 DEF ScansOK
  <1>4. /\ c \in Clients /\ e.id = f.id /\ Cut(c, e)
        /\ table'[c].elements = table[c].elements - 1
        /\ \A x \in EntriesIn(table[c]) : x.id = f.id /\ x # e => e.type = "RREvent"
        /\ f2 \in Calls /\ f2.op = "Free" /\ f2.id = f.id /\ f2.skip = f.skip /\ ScanOK(f2)'
    <2>1. Found(f, i, f2)
      BY <1>a
    <2> QED BY <1>0, <1>1, <1>2, <1>3, <1>a, <2>1, FoundIs
  <1>4a. /\ EntryOK(c, e) /\ e \in EntriesIn(table[c])
         /\ \A d \in Clients : EntriesIn(table'[d]) = EntriesIn(table[d]) \ {e}
         /\ \A d \in Clients : d # c => table'[d] = table[d]
    BY <1>0, <1>4, TableCut
  <1>5. /\ todo' \in Seq(Calls) /\ StackOK' /\ todo' # <<>>
        /\ Frames(todo') = (Frames(t) \cup {f2}) \cup D
        /\ \A x : x.op # "Free" => (LastOf(todo') = x <=> LastOf(todo) = x)
        /\ e.type = "Window" => e.type = f.skip \/ LastOf(todo).op # "FreeAll"
        /\ e.type = "RRClient" => e.type = f.skip
    <2>1. UNCHANGED parent
      BY DEF CutUnchanged
    <2>2. Becomes((IF e.type = Head(todo).skip THEN <<>> ELSE <<DeleteFunc(e)>>) \o <<f2>>)
      BY <1>a
    <2>3. /\ KindOK(Head(todo)) /\ c = Owner(Head(todo).id) /\ e.id = Head(todo).id
          /\ f2.id = Head(todo).id /\ f2.skip = Head(todo).skip
      BY <1>3, <1>4, <1>a
    <2>4. /\ todo' \in Seq(Calls) /\ StackOK'
          /\ Frames(todo') = (Frames(Tail(todo)) \cup {f2}) \cup IF e.type = Head(todo).skip THEN {} ELSE {DeleteFunc(e)}
          /\ \A x : x.op # "Free" => (LastOf(todo') = x <=> LastOf(todo) = x)
          /\ todo' # <<>>
          /\ e.type = "Window" => e.type = Head(todo).skip \/ LastOf(todo).op # "FreeAll"
          /\ e.type = "RRClient" => e.type = Head(todo).skip
      BY <1>0, <1>4, <1>4a, <2>1, <2>2, <2>3, FindsCalls
    <2> QED BY <1>a, <2>4
  <1>6. /\ e.type \in {"Window", "RREvent", "OtherClient", "RRClient"}
        /\ e.type \in {"Window", "RREvent"} => e.id = e.win
        /\ e.id \in Windows \cup AllFakeIds /\ Owner(e.id) = c
    BY <1>4, <1>4a, EntryFields
  <1>7. D = IF e.type = f.skip THEN {} ELSE IF e.type = "Window" THEN {FreeWindow(e.win)}
            ELSE IF e.type = "RREvent" THEN {RRFreeEvents(e.win)} ELSE {Delete(e)}
    BY <1>6, DeleteFuncIs
  <1>8. \A x : x.op # "Free" => (x \in Frames(todo') <=> x \in Frames(todo) \/ x \in D)
    BY <1>1, <1>2, <1>4, <1>5
  <1> HIDE DEF D
  <1>9. /\ \A w : FreeWindow(w).op # "Free" /\ RRFreeEvents(w).op # "Free"
        /\ \A d : Delete(d).op # "Free" /\ FreeAll(d).op # "Free" /\ FreeNeverRetained(d).op # "Free"
    BY DEF FreeWindow, RRFreeEvents, Delete, FreeAll, FreeNeverRetained
  <1>10. \A w : (Freeing(w)' <=> Freeing(w) \/ FreeWindow(w) \in D) /\ (Clearing(w)' <=> Clearing(w) \/ RRFreeEvents(w) \in D)
    BY <1>8, <1>9 DEF Freeing, Clearing
  <1>11. \A d : Deleting(d)' <=> Deleting(d) \/ Delete(d) \in D
    BY <1>8, <1>9 DEF Deleting
  <1>12. \A x \in D : x.op # "Free"
    BY <1>7, <1>9
  <1>13. \A id, skip : Sparing(id, skip) <=> Sparing(id, skip)'
    BY <1>1, <1>2, <1>4, <1>5, <1>12 DEF Sparing, IsFree
  <1>14. Pushes(e)
    <2>1. ASSUME NEW w \in Windows, Freeing(w)', ~Freeing(w)
          PROVE  /\ e.type = "Window" /\ w = e.win /\ ~Holds(table[Owner(w)], w)'
                 /\ spared # {} => ClosingIs(Owner(w))
      <3>1. FreeWindow(w) \in D
        BY <1>10, <2>1
      <3>2. e.type = "Window" /\ e.type # f.skip /\ w = e.win
        BY <1>7, <3>1, CallsDiffer
      <3>3. ~Holds(table[c], w)'
        BY <1>4, <1>4a, <1>6, <3>2 DEF Holds
      <3>4. Owner(w) = c
        BY <1>6, <3>2
      <3>5. spared = {}
        <4>1. LastOf(todo).op # "FreeAll"
          BY <1>5, <3>2
        <4>2. \A d : FreeAll(d).op = "FreeAll"
          BY DEF FreeAll
        <4> QED BY <1>0, <4>1, <4>2 DEF SparedOK, ClosingIs
      <3> QED BY <3>2, <3>3, <3>4, <3>5
    <2>2. ASSUME NEW d \in Entries, Deleting(d)', ~Deleting(d) PROVE d = e /\ e.type \in {"OtherClient", "RRClient"}
      <3>1. Delete(d) \in D
        BY <1>11, <2>2
      <3> QED BY <1>6, <1>7, <3>1, CallsDiffer
    <2>3. e.type = "Window" => Freeing(e.win)'
      <3>1. CASE e.type = "Window" /\ f.skip = "Window"
        <4>1. FreeWindow(e.win) \in Frames(todo)
          BY <1>2, <1>4, <1>6, <3>1
        <4>2. Freeing(e.win)
          BY <4>1 DEF Freeing
        <4> QED BY <1>10, <4>2
      <3>2. CASE e.type = "Window" /\ f.skip # "Window"
        BY <1>7, <1>10, <3>2
      <3> QED BY <3>1, <3>2
    <2>4. e.type = "RREvent" => Clearing(e.win)'
      <3>1. f.skip # "RREvent"
        BY <1>2 DEF FreeKind
      <3> QED BY <1>7, <1>10, <3>1
    <2>5. e.type = "OtherClient" => Deleting(e)'
      <3>1. f.skip # "OtherClient"
        BY <1>2 DEF FreeKind
      <3> QED BY <1>7, <1>11, <3>1
    <2>6. e.type = "RRClient" => Sparing(e.id, "RRClient")
      BY <1>1, <1>2, <1>4, <1>5 DEF Sparing, IsFree
    <2>7. \A d \in Clients : (ClosingIs(d) <=> ClosingIs(d)') /\ (RetainingIs(d) <=> RetainingIs(d)')
      BY <1>1, <1>5, <1>9 DEF ClosingIs, RetainingIs
    <2> QED BY <1>10, <1>11, <1>13, <2>1, <2>2, <2>3, <2>4, <2>5, <2>6, <2>7 DEF Pushes
  <1>15. ScansOK'
    <2> SUFFICES ASSUME NEW g \in Frames(todo'), g.op = "Free" PROVE ScanOK(g)' /\ KindOK(g)' /\ DropOK(g)'
      BY DEF ScansOK
    <2>1. g = f2 \/ g \in Frames(t)
      BY <1>5, <1>12
    <2>2. \E h \in Frames(todo) : h.op = "Free" /\ h.id = g.id /\ h.skip = g.skip
      BY <1>1, <1>2, <1>4, <2>1
    <2>3. KindOK(g) /\ DropOK(g)
      BY <1>0, <2>2 DEF ScansOK, KindOK, DropOK
    <2>4. Owner(g.id) \in Clients
      BY <1>2, <1>4, <2>1, CallKinds, AllIds
    <2>5. KindOK(g)' /\ DropOK(g)'
      BY <1>4a, <2>3, <2>4 DEF KindOK, DropOK, CutUnchanged
    <2>6. CASE g \in Frames(t)
      <3>1. ScanOK(g)
        BY <1>0, <1>2, <2>6 DEF ScansOK
      <3>2. CASE Owner(g.id) # c
        <4>1. table'[Owner(g.id)] = table[Owner(g.id)]
          BY <1>4a, <2>4, <3>2
        <4> QED BY <2>5, <3>1, <4>1 DEF ScanOK
      <3>3. CASE Owner(g.id) = c
        <4>1. g.elements \in Int
          BY <1>2, <2>6, CallKinds
        <4>2. table[c].elements \in Int
          BY <1>0, <1>4, TableTypes DEF TablesOK
        <4>3. g.prev = TheHead \/ table[c].elements <= g.elements
          BY <3>1, <3>3 DEF ScanOK, ScanAt
        <4>4. g.prev = TheHead \/ (table'[c].elements <= g.elements /\ table'[c].elements # g.elements)
          BY <1>4, <4>1, <4>2, <4>3
        <4>5. ScanAt(g, table'[c])
          BY <4>4 DEF ScanAt
        <4> QED BY <2>5, <3>3, <4>5 DEF ScanOK
      <3> QED BY <3>2, <3>3
    <2> QED BY <1>4, <2>1, <2>5, <2>6
  <1> QED BY <1>4, <1>5, <1>14, <1>15, CutStep

LEMMA FreeResourceStep ==
  ASSUME ResourcesInv, FreeResource
  PROVE  ResourcesInv'
  <1>a. PICK f, c, t, b : f = Head(todo) /\ c = Owner(f.id) /\ t = table[c] /\ b = BucketOf(t, f.id)
    OBVIOUS
  <1>1. TypesOK /\ TablesOK /\ StackOK /\ ScansOK
    BY DEF ResourcesInv
  <1>2. f.op = "Free" /\ todo # <<>> /\ todo \in Seq(Calls) /\ Top("Free")
    BY <1>1, <1>a DEF FreeResource, Top, TypesOK
  <1>3. f \in Calls /\ f \in Frames(todo)
    <2>1. f \in Calls /\ Frames(todo) = {f} \cup Frames(Tail(todo))
      BY <1>1, <1>2, <1>a, StackTop DEF StackOK
    <2> QED BY <2>1
  <1>4. f.id \in Windows \cup AllFakeIds /\ c \in Clients
    BY <1>2, <1>3, <1>a, CallKinds, AllIds
  <1>5. TableOK(c, t) /\ ScanOK(f)
    BY <1>1, <1>2, <1>3, <1>4, <1>a DEF TablesOK, ScansOK
  <1>6. CutUnchanged
    BY DEF FreeResource, CutUnchanged
  <1>7. \/ (\A i \in DOMAIN b : ~FoundAt(f, b, i)) /\ Return /\ UNCHANGED table
        \/ \E i \in DOMAIN b : \E f2 :
             /\ Found(f, i, f2)
             /\ Becomes((IF b[i].type = f.skip THEN <<>> ELSE <<DeleteFunc(b[i])>>) \o <<f2>>)
    BY <1>a DEF FreeResource, Found
  <1>8. CASE (\A i \in DOMAIN b : ~FoundAt(f, b, i)) /\ Return /\ UNCHANGED table
    <2>1. ~Holds(table[Owner(f.id)], f.id)
      BY <1>4, <1>5, <1>8, <1>a, ScanEnds
    <2> QED BY <1>2, <1>6, <1>8, <1>a, <2>1, FreeReturns
  <1>9. CASE \E i \in DOMAIN b : \E f2 :
               /\ Found(f, i, f2)
               /\ Becomes((IF b[i].type = f.skip THEN <<>> ELSE <<DeleteFunc(b[i])>>) \o <<f2>>)
    <2>1. PICK i \in DOMAIN b : \E f2 :
               /\ Found(f, i, f2)
               /\ Becomes((IF b[i].type = f.skip THEN <<>> ELSE <<DeleteFunc(b[i])>>) \o <<f2>>)
      BY <1>9
    <2>2. PICK f2 : /\ Found(f, i, f2)
                    /\ Becomes((IF b[i].type = f.skip THEN <<>> ELSE <<DeleteFunc(b[i])>>) \o <<f2>>)
      BY <2>1
    <2>3. Found(Head(todo), i, f2)
      BY <1>a, <2>2
    <2>4. Becomes((IF BucketOf(table[Owner(Head(todo).id)], Head(todo).id)[i].type = Head(todo).skip THEN <<>>
                   ELSE <<DeleteFunc(BucketOf(table[Owner(Head(todo).id)], Head(todo).id)[i])>>) \o <<f2>>)
      BY <1>a, <2>2
    <2> QED BY <1>2, <1>6, <2>3, <2>4, FreeFinds
  <1> QED BY <1>7, <1>8, <1>9
-----------------------------------------------------------------------------
(* The delete functions.                                                   *)

\* Selections leave the lists.
Forgets(R) == \A w \in Windows : others'[w] = others[w] \ R /\ rrEvents'[w] = rrEvents[w] \ R

LEMMA ListsShrink ==
  ASSUME TypesOK, TablesOK, SelectionsOK, table' = table, NEW R, Forgets(R),
         Alive' \subseteq Alive, \A w \in Alive \ Alive' : others[w] \cup rrEvents[w] \subseteq R,
         \A w \in Windows : Clearing(w) => Clearing(w)' \/ rrEvents[w] \subseteq R,
         \A d \in Entries : /\ Deleting(d) => Deleting(d)' \/ d.id \in R
                            /\ Deleting(d)' => Deleting(d) /\ d.id \notin R /\ d.win \in Alive',
         \A id \in Windows \cup AllFakeIds : Sparing(id, "RRClient") => Sparing(id, "RRClient")',
         \A c \in Clients : \A x \in EntriesIn(table[c]) : x.id \in R => x.type = "RRClient" /\ Sparing(x.id, "RRClient")'
  PROVE  SelectionsOK'
  <1>0. /\ others \in [Windows -> SUBSET AllFakeIds] /\ rrEvents \in [Windows -> SUBSET AllFakeIds]
        /\ Alive \subseteq Windows
    BY DEF TypesOK, ParentsOK
  <1>1. \A w \in Windows : others'[w] \cup rrEvents'[w] # {} => w \in Alive'
    BY DEF SelectionsOK, Forgets
  <1>2. \A id, type, w : HasEntry(id, type, w)' <=> HasEntry(id, type, w)
    BY DEF HasEntry
  <1>3. \A w \in Windows : rrEvents'[w] # {} => Clearing(w)' \/ HasEntry(w, "RREvent", w)'
    BY <1>2 DEF SelectionsOK, Forgets
  <1>4. ASSUME NEW w \in Windows
        PROVE  /\ \A id \in others'[w] : HasEntry(id, "OtherClient", w)' \/ Deleting(EntryOf(id, "OtherClient", w))'
               /\ \A id \in rrEvents'[w] : HasEntry(id, "RRClient", w)' \/ Deleting(EntryOf(id, "RRClient", w))'
    <2>1. \A id \in AllFakeIds : EntryOf(id, "OtherClient", w) \in Entries /\ EntryOf(id, "RRClient", w) \in Entries
      BY DEF EntryOf, Entries, Types
    <2>2. \A id, type : EntryOf(id, type, w).id = id
      BY DEF EntryOf
    <2>3. others[w] \subseteq AllFakeIds /\ rrEvents[w] \subseteq AllFakeIds
      BY <1>0
    <2> QED BY <1>2, <2>1, <2>2, <2>3 DEF SelectionsOK, Forgets
  <1>5. ASSUME NEW c \in Clients, NEW x \in EntriesIn(table[c])
        PROVE  /\ x.type = "OtherClient" => x.id \in others'[x.win]
               /\ x.type = "RRClient" => x.id \in rrEvents'[x.win] \/ Sparing(x.id, "RRClient")'
    <2>1. x.win \in Windows /\ x.id \in Windows \cup AllFakeIds
      BY TableTypes, EntryFields DEF TablesOK
    <2>2. /\ x.type = "OtherClient" => x.id \in others[x.win]
          /\ x.type = "RRClient" => x.id \in rrEvents[x.win] \/ Sparing(x.id, "RRClient")
      BY DEF SelectionsOK
    <2> QED BY <2>1, <2>2 DEF Forgets
  <1>6. ASSUME NEW d \in Entries, Deleting(d)'
        PROVE  /\ d.win \in Alive' /\ ~IsOwn(d.id) /\ d.type \in {"OtherClient", "RRClient"}
               /\ ~Holds(table[Owner(d.id)], d.id)
               /\ d.type = "OtherClient" => d.id \in others'[d.win]
    <2>1. Deleting(d) /\ d.id \notin R /\ d.win \in Alive' /\ d.win \in Windows
      BY <1>6 DEF Entries
    <2> QED BY <2>1 DEF SelectionsOK, Forgets
  <1> QED BY <1>1, <1>3, <1>4, <1>5, <1>6 DEF SelectionsOK

LEMMA ScansKept ==
  ASSUME ScansOK, table' = table, \A w \in Windows : rrEvents'[w] \subseteq rrEvents[w],
         \A f \in Frames(todo') : f.op = "Free" => f \in Frames(todo) \/ (f.prev = TheHead /\ KindOK(f) /\ DropOK(f)')
  PROVE  ScansOK'
  <1> SUFFICES ASSUME NEW f \in Frames(todo'), f.op = "Free" PROVE ScanOK(f)' /\ KindOK(f)' /\ DropOK(f)'
    BY DEF ScansOK
  <1>1. CASE f \in Frames(todo)
    <2>1. ScanOK(f) /\ KindOK(f) /\ DropOK(f)
      BY <1>1 DEF ScansOK
    <2>2. DropOK(f)'
      BY <2>1 DEF DropOK
    <2> QED BY <2>1, <2>2 DEF ScanOK, KindOK
  <1>2. CASE f.prev = TheHead /\ KindOK(f) /\ DropOK(f)'
    BY <1>2 DEF ScanOK, ScanAt, KindOK
  <1> QED BY <1>1, <1>2

\* A step that calls or returns and leaves the tables and the tree alone.
CallUnchanged == UNCHANGED <<state, table, fake, parent, spared>>

ListTypes ==
    /\ others \in [Windows -> SUBSET AllFakeIds] /\ rrEvents \in [Windows -> SUBSET AllFakeIds]
    /\ saveSet \in [Clients -> SUBSET Windows]

LEMMA Calling ==
  ASSUME ResourcesInv, CallUnchanged, ListTypes', \A c \in Clients : saveSet'[c] \subseteq saveSet[c],
         todo' \in Seq(Calls), StackOK', ScansOK', SelectionsOK',
         \A w \in Windows :
            /\ Freeing(w) => Freeing(w)'
            /\ Freeing(w)' => \/ Freeing(w)
                              \/ w \in Alive /\ Sparing(w, "Window")' /\ \E y \in Above(w) : y \in Windows /\ Freeing(y)
            /\ Sparing(w, "Window") => Sparing(w, "Window")',
         \A c \in Clients : (ClosingIs(c)' <=> ClosingIs(c)) /\ (RetainingIs(c)' <=> RetainingIs(c))
  PROVE  ResourcesInv'
  <1>0. /\ TypesOK /\ TablesOK /\ TreeOK /\ ClientsOK /\ SaveSetsOK /\ FakesOK /\ SparedOK /\ WindowsOK /\ ParentsOK
    BY DEF ResourcesInv, TypesOK
  <1>1. Alive' = Alive /\ table' = table /\ parent' = parent /\ spared' = spared /\ state' = state /\ fake' = fake
    BY DEF CallUnchanged, Alive
  <1>2. TypesOK'
    BY <1>0, <1>1 DEF TypesOK, ParentsOK, ListTypes
  <1>3. TablesOK' /\ TreeOK' /\ FakesOK'
    BY <1>0, <1>1 DEF TablesOK, TreeOK, FakesOK, FakeOK, UnusedFake
  <1>4. ClientsOK'
    BY <1>0, <1>1 DEF ClientsOK
  <1>5. SaveSetsOK'
    BY <1>0, <1>1 DEF SaveSetsOK
  <1>6. WindowsOK'
    <2>1. \A w : HasEntry(w, "Window", w)' <=> HasEntry(w, "Window", w)
      BY <1>1 DEF HasEntry
    <2>2. \A w \in Alive : w \in Windows
      BY <1>0 DEF ParentsOK
    <2>3. \A w \in Windows : Freeing(w)' => w \in Alive /\ (Sparing(w, "Window")' \/ ~Holds(table[Owner(w)], w))
      BY <1>0 DEF WindowsOK
    <2>4. \A w \in Alive : HasEntry(w, "Window", w)' \/ Freeing(w)'
      BY <1>0, <2>1, <2>2 DEF WindowsOK
    <2>5. \A c \in Clients : \A e \in EntriesIn(table[c]) : e.win \in Alive
      BY <1>0 DEF WindowsOK
    <2> QED BY <1>1, <2>3, <2>4, <2>5 DEF WindowsOK
  <1>7. SparedOK'
    <2> SUFFICES ASSUME spared # {} PROVE \E d \in Clients : ClosingIs(d)' /\ \E S \in SUBSET Alive : Shelter(d, S)'
      BY <1>1 DEF SparedOK
    <2>1. PICK d \in Clients : ClosingIs(d) /\ \E S \in SUBSET Alive : Shelter(d, S)
      BY <1>0 DEF SparedOK
    <2>2. PICK S \in SUBSET Alive : Shelter(d, S)
      BY <2>1
    <2>3. ASSUME NEW w \in S PROVE ~Freeing(w)'
      <3>1. w \in Alive /\ w \in Windows /\ parent[w] \in S \cup {Root} /\ ~Freeing(w)
        BY <1>0, <2>2 DEF Shelter, ParentsOK
      <3>2. Above(w) \subseteq S \cup {Root}
        BY <1>0, <2>2, <3>1, AboveWithin DEF Shelter
      <3>3. \A y \in Above(w) : y \in Windows => ~Freeing(y)
        BY <2>2, <3>2, DepthIs DEF Shelter
      <3> QED BY <3>1, <3>3
    <2>4. Shelter(d, S)'
      BY <1>1, <2>2, <2>3 DEF Shelter
    <2> QED BY <2>1, <2>4
  <1> QED BY <1>2, <1>3, <1>4, <1>5, <1>6, <1>7 DEF ResourcesInv

\* The frames after a return and after a call.
LEMMA Returned ==
  ASSUME todo \in Seq(Calls), StackOK, todo # <<>>, todo' = Tail(todo)
  PROVE  /\ \A w : /\ Freeing(w)' => Freeing(w) /\ Head(todo) # FreeWindow(w)
                   /\ Freeing(w) => Freeing(w)' \/ Head(todo) = FreeWindow(w)
                   /\ Clearing(w)' => Clearing(w) /\ IsFree(Head(todo), "RRClient")
                   /\ Clearing(w) => Clearing(w)' \/ Head(todo) = RRFreeEvents(w)
         /\ \A d : ~Deleting(d)' /\ (Deleting(d) => Head(todo) = Delete(d))
         /\ \A id, skip : /\ Sparing(id, skip)' => Sparing(id, skip)
                          /\ Sparing(id, skip) => Sparing(id, skip)' \/ (IsFree(Head(todo), skip) /\ Head(todo).id = id)
         /\ \A id : ~Sparing(id, "RRClient")' /\ (Sparing(id, "Window") => Freeing(id)')
  <1>1. /\ Frames(todo) = {Head(todo)} \cup Frames(todo')
        /\ \A g \in Frames(todo') :
               /\ g.op # "Delete" /\ ~IsFree(g, "RRClient")
               /\ Head(todo).op = "FreeWindow" /\ g.op = "FreeWindow" => g.win # Head(todo).win
               /\ g.op = "RRFreeEvents" => IsFree(Head(todo), "RRClient")
        /\ \A g \in Frames(todo) : IsFree(g, "Window") => FreeWindow(g.id) \in Frames(todo')
    BY StackTop DEF StackOK
  <1>2. \A w : /\ RRFreeEvents(w).op = "RRFreeEvents" /\ FreeWindow(w).op = "FreeWindow" /\ FreeWindow(w).win = w
               /\ Delete(w).op = "Delete"
    BY CallFields
  <1> QED BY <1>1, <1>2 DEF Freeing, Clearing, Deleting, Sparing

LEMMA Called ==
  ASSUME NEW g, Frames(todo') = Frames(todo) \cup {g}
  PROVE  /\ \A w : /\ Freeing(w) => Freeing(w)'
                   /\ Freeing(w)' => Freeing(w) \/ g = FreeWindow(w)
                   /\ Clearing(w) => Clearing(w)'
                   /\ Clearing(w)' => Clearing(w) \/ g = RRFreeEvents(w)
         /\ \A d : (Deleting(d) => Deleting(d)') /\ (Deleting(d)' => Deleting(d) \/ g = Delete(d))
         /\ \A id, skip : /\ Sparing(id, skip) => Sparing(id, skip)'
                          /\ Sparing(id, skip)' => Sparing(id, skip) \/ (IsFree(g, skip) /\ g.id = id)
  BY DEF Freeing, Clearing, Deleting, Sparing

\* A delete function of a selection takes it off its list.
LEMMA DeleteReturns ==
  ASSUME ResourcesInv, Top("Delete"), Return, CallUnchanged, UNCHANGED saveSet, ListTypes', Forgets({Value.id})
  PROVE  ResourcesInv'
  <1>a. PICK e : e = Head(todo).entry
    OBVIOUS
  <1>0. /\ TypesOK /\ TablesOK /\ StackOK /\ ScansOK /\ SelectionsOK /\ WindowsOK
    BY DEF ResourcesInv
  <1>1. todo # <<>> /\ todo \in Seq(Calls) /\ todo' = Tail(todo) /\ Head(todo).op = "Delete"
    BY <1>0 DEF Top, Return, TypesOK
  <1>2. Alive' = Alive /\ Childless' = Childless /\ table' = table
    BY DEF CallUnchanged, Alive, Childless, Children
  <1>3. /\ todo' \in Seq(Calls) /\ StackOK' /\ Frames(todo) = {Head(todo)} \cup Frames(todo') /\ Head(todo) \in Calls
        /\ \A c : (ClosingIs(c)' <=> ClosingIs(c)) /\ (RetainingIs(c)' <=> RetainingIs(c))
    BY <1>0, <1>1, <1>2, Popping
  <1>4. e \in Entries /\ Head(todo) = Delete(e) /\ Deleting(e)
    BY <1>1, <1>3, <1>a, CallKinds DEF Deleting
  <1>5. /\ \A w : FreeWindow(w) # Delete(e) /\ RRFreeEvents(w) # Delete(e)
        /\ \A d : Delete(d) = Delete(e) => d = e
        /\ \A skip : ~IsFree(Delete(e), skip)
    BY CallsDiffer, CallFields DEF IsFree
  <1>6. /\ \A w : (Freeing(w)' <=> Freeing(w)) /\ (Clearing(w) => Clearing(w)')
        /\ \A d : ~Deleting(d)' /\ (Deleting(d) => d = e)
        /\ \A id, skip : Sparing(id, skip)' <=> Sparing(id, skip)
    BY <1>0, <1>1, <1>4, <1>5, Returned
  <1>7. ~Holds(table[Owner(e.id)], e.id)
    BY <1>0, <1>4 DEF SelectionsOK
  <1>8. SelectionsOK'
    <2>1. Forgets({e.id})
      BY <1>a DEF Value
    <2>2. \A c \in Clients : \A x \in EntriesIn(table[c]) : x.id # e.id
      BY <1>0, <1>7, TableTypes DEF TablesOK, EntryOK, Holds
    <2> QED BY <1>0, <1>2, <1>6, <2>1, <2>2, ListsShrink
  <1>9. ScansOK'
    BY <1>0, <1>2, <1>3, ScansKept DEF Forgets
  <1> QED BY <1>0, <1>3, <1>6, <1>8, <1>9, Calling

LEMMA OtherClientGoneStep ==
  ASSUME ResourcesInv, OtherClientGone
  PROVE  ResourcesInv'
  <1>a. PICK e : e = Head(todo).entry
    OBVIOUS
  <1>0. TypesOK /\ StackOK /\ SelectionsOK
    BY DEF ResourcesInv
  <1>1. /\ Top("Delete") /\ e.type = "OtherClient" /\ Return /\ CallUnchanged /\ UNCHANGED <<saveSet, rrEvents>>
        /\ others' = [others EXCEPT ![e.win] = @ \ {e.id}]
    BY <1>a DEF OtherClientGone, Deletes, Value, CallUnchanged
  <1>2. todo # <<>> /\ todo \in Seq(Calls) /\ Head(todo).op = "Delete"
    BY <1>0, <1>1 DEF Top, TypesOK
  <1>3. Head(todo) \in Calls /\ Frames(todo) = {Head(todo)} \cup Frames(Tail(todo)) /\ \A g \in Frames(Tail(todo)) : g.op # "Delete"
    BY <1>0, <1>2, StackTop DEF StackOK
  <1>4. e \in Entries /\ Deleting(e)
    BY <1>2, <1>3, <1>a, CallKinds DEF Deleting
  <1>5. \A d : Deleting(d) => d = e
    BY <1>2, <1>3, <1>a, CallFields DEF Deleting
  <1>6. ~Holds(table[Owner(e.id)], e.id)
    BY <1>0, <1>4 DEF SelectionsOK
  <1>7. \A id, type, w : /\ HasEntry(id, type, w) => Holds(table[Owner(id)], id)
                         /\ EntryOf(id, type, w).id = id /\ EntryOf(id, type, w).type = type /\ EntryOf(id, type, w).win = w
    BY DEF HasEntry, Holds, EntryOf
  <1>8. ASSUME NEW w \in Windows PROVE (e.id \in others[w] => w = e.win) /\ e.id \notin rrEvents[w]
    <2>1. /\ e.id \in others[w] => Deleting(EntryOf(e.id, "OtherClient", w))
          /\ e.id \in rrEvents[w] => Deleting(EntryOf(e.id, "RRClient", w))
      BY <1>0, <1>6, <1>7 DEF SelectionsOK
    <2>2. /\ e.id \in others[w] => EntryOf(e.id, "OtherClient", w) = e
          /\ e.id \in rrEvents[w] => EntryOf(e.id, "RRClient", w) = e
      BY <1>5, <2>1
    <2> QED BY <1>1, <1>7, <2>2
  <1>9. others \in [Windows -> SUBSET AllFakeIds] /\ ListTypes /\ e.win \in Windows
    BY <1>0, <1>4 DEF TypesOK, ListTypes, Entries
  <1>10. ListTypes'
    BY <1>1, <1>9 DEF ListTypes
  <1>11. Forgets({e.id})
    BY <1>1, <1>8, <1>9 DEF Forgets
  <1>12. Forgets({Value.id})
    BY <1>11, <1>a DEF Value
  <1> QED BY <1>1, <1>10, <1>12, DeleteReturns

LEMMA HasEventListIs ==
  ASSUME TablesOK, NEW w \in Windows
  PROVE  HasEventList(w) <=> HasEntry(w, "RREvent", w)
  <1>1. Owner(w) \in Clients
    BY WindowIds
  <1>2. ASSUME NEW e \in EntriesIn(table[Owner(w)]), e.id = w, e.type = "RREvent" PROVE e = EntryOf(w, "RREvent", w)
    <2>1. EntryOK(Owner(w), e)
      BY <1>1, TableTypes DEF TablesOK
    <2> QED BY <1>1, <1>2, <2>1, EntryFields
  <1>3. EntryOf(w, "RREvent", w).id = w /\ EntryOf(w, "RREvent", w).type = "RREvent"
    BY DEF EntryOf
  <1> QED BY <1>2, <1>3 DEF HasEventList, HasEntry

LEMMA RRFreeClientStep ==
  ASSUME ResourcesInv, RRFreeClient
  PROVE  ResourcesInv'
  <1>a. PICK e : e = Head(todo).entry
    OBVIOUS
  <1>0. TypesOK /\ StackOK /\ SelectionsOK /\ TablesOK
    BY DEF ResourcesInv
  <1>1. /\ Top("Delete") /\ e.type = "RRClient" /\ Return /\ CallUnchanged /\ UNCHANGED <<saveSet, others>>
        /\ rrEvents' = IF HasEventList(e.win) THEN [rrEvents EXCEPT ![e.win] = @ \ {e.id}] ELSE rrEvents
    BY <1>a DEF RRFreeClient, Deletes, Value, CallUnchanged
  <1>2. todo # <<>> /\ todo \in Seq(Calls) /\ Head(todo).op = "Delete"
    BY <1>0, <1>1 DEF Top, TypesOK
  <1>3. /\ Head(todo) \in Calls /\ Frames(todo) = {Head(todo)} \cup Frames(Tail(todo))
        /\ \A g \in Frames(Tail(todo)) : g.op # "Delete" /\ (g.op = "RRFreeEvents" => IsFree(Head(todo), "RRClient"))
    BY <1>0, <1>2, StackTop DEF StackOK
  <1>4. e \in Entries /\ Deleting(e) /\ e.win \in Windows
    BY <1>2, <1>3, <1>a, CallKinds DEF Deleting, Entries
  <1>5. (\A d : Deleting(d) => d = e) /\ \A w : ~Clearing(w)
    BY <1>2, <1>3, <1>a, CallFields DEF Deleting, Clearing, IsFree
  <1>6. ~Holds(table[Owner(e.id)], e.id)
    BY <1>0, <1>4 DEF SelectionsOK
  <1>7. \A id, type, w : /\ HasEntry(id, type, w) => Holds(table[Owner(id)], id)
                         /\ EntryOf(id, type, w).id = id /\ EntryOf(id, type, w).type = type /\ EntryOf(id, type, w).win = w
    BY DEF HasEntry, Holds, EntryOf
  <1>8. ASSUME NEW w \in Windows PROVE (e.id \in rrEvents[w] => w = e.win) /\ e.id \notin others[w]
    <2>1. /\ e.id \in others[w] => Deleting(EntryOf(e.id, "OtherClient", w))
          /\ e.id \in rrEvents[w] => Deleting(EntryOf(e.id, "RRClient", w))
      BY <1>0, <1>6, <1>7 DEF SelectionsOK
    <2>2. /\ e.id \in others[w] => EntryOf(e.id, "OtherClient", w) = e
          /\ e.id \in rrEvents[w] => EntryOf(e.id, "RRClient", w) = e
      BY <1>5, <2>1
    <2> QED BY <1>1, <1>7, <2>2
  <1>9. rrEvents \in [Windows -> SUBSET AllFakeIds] /\ ListTypes
    BY <1>0 DEF TypesOK, ListTypes
  <1>10. rrEvents' = [rrEvents EXCEPT ![e.win] = @ \ {e.id}]
    <2>1. CASE HasEventList(e.win)
      BY <1>1, <2>1
    <2>2. CASE ~HasEventList(e.win)
      <3>1. ~HasEntry(e.win, "RREvent", e.win)
        BY <1>0, <1>4, <2>2, HasEventListIs
      <3>2. rrEvents[e.win] = {}
        BY <1>0, <1>4, <1>5, <3>1 DEF SelectionsOK
      <3> QED BY <1>1, <1>9, <2>2, <3>2
    <2> QED BY <2>1, <2>2
  <1>11. ListTypes'
    BY <1>1, <1>4, <1>9, <1>10 DEF ListTypes
  <1>12. Forgets({e.id})
    BY <1>1, <1>4, <1>8, <1>9, <1>10 DEF Forgets
  <1>13. Forgets({Value.id})
    BY <1>12, <1>a DEF Value
  <1> QED BY <1>1, <1>11, <1>13, DeleteReturns

\* The entry of a selection on a list, when no delete function is under way.
LEMMA OnList ==
  ASSUME TypesOK, TablesOK, SelectionsOK, \A d : ~Deleting(d), NEW w \in Windows, NEW type, NEW id,
         (type = "OtherClient" /\ id \in others[w]) \/ (type = "RRClient" /\ id \in rrEvents[w])
  PROVE  /\ id \in AllFakeIds /\ ~IsOwn(id)
         /\ \A e \in EntriesIn(table[Owner(id)]) : e.id = id => e.type = type
         /\ \A v \in Windows : /\ id \in others[v] => v = w /\ type = "OtherClient"
                               /\ id \in rrEvents[v] => v = w /\ type = "RRClient"
  <1>1. id \in AllFakeIds /\ ~IsOwn(id) /\ Owner(id) \in Clients
    BY FakeIdsAre DEF TypesOK
  <1>2. HasEntry(id, type, w)
    BY DEF SelectionsOK
  <1>3. \A d, e \in EntriesIn(table[Owner(id)]) : d.id = id /\ e.id = id => d = e
    BY <1>1, SameId DEF TablesOK
  <1>4. \A x, v : EntryOf(id, x, v).id = id /\ EntryOf(id, x, v).type = x /\ EntryOf(id, x, v).win = v
    BY DEF EntryOf
  <1>5. \A x, v : HasEntry(id, x, v) => x = type /\ v = w
    BY <1>2, <1>3, <1>4 DEF HasEntry
  <1>6. \A e \in EntriesIn(table[Owner(id)]) : e.id = id => e.type = type
    BY <1>2, <1>3, <1>4 DEF HasEntry
  <1>7. \A v \in Windows : /\ id \in others[v] => HasEntry(id, "OtherClient", v)
                           /\ id \in rrEvents[v] => HasEntry(id, "RRClient", v)
    BY DEF SelectionsOK
  <1> QED BY <1>1, <1>5, <1>6, <1>7

LEMMA OnOthers ==
  ASSUME TypesOK, TablesOK, SelectionsOK, \A d : ~Deleting(d), NEW w \in Windows, NEW id \in others[w]
  PROVE  /\ id \in AllFakeIds /\ ~IsOwn(id)
         /\ \A e \in EntriesIn(table[Owner(id)]) : e.id = id => e.type = "OtherClient"
  BY OnList

LEMMA FreeRREventStep ==
  ASSUME ResourcesInv, FreeRREvent
  PROVE  ResourcesInv'
  <1>a. PICK w : w = Head(todo).win
    OBVIOUS
  <1>0. TypesOK /\ StackOK /\ SelectionsOK /\ TablesOK /\ ScansOK
    BY DEF ResourcesInv
  <1>1. /\ Top("RRFreeEvents") /\ CallUnchanged /\ UNCHANGED <<saveSet, others>>
        /\ \/ rrEvents[w] = {} /\ Return /\ UNCHANGED rrEvents
           \/ \E id \in rrEvents[w] : rrEvents' = [rrEvents EXCEPT ![w] = @ \ {id}] /\ CallFirst(<<Free(id, "RRClient")>>)
    BY <1>a DEF FreeRREvent, CallUnchanged
  <1>2. todo # <<>> /\ todo \in Seq(Calls) /\ Head(todo).op = "RRFreeEvents"
    BY <1>0, <1>1 DEF Top, TypesOK
  <1>3. /\ Head(todo) \in Calls /\ Frames(todo) = {Head(todo)} \cup Frames(Tail(todo))
        /\ \A g \in Frames(Tail(todo)) : g.op # "Delete"
    BY <1>0, <1>2, StackTop DEF StackOK
  <1>4. w \in Windows /\ Head(todo) = RRFreeEvents(w)
    BY <1>2, <1>3, <1>a, CallKinds
  <1>5. \A d : ~Deleting(d)
    BY <1>2, <1>3, CallFields DEF Deleting
  <1>6. Alive' = Alive /\ Childless' = Childless /\ table' = table
    BY <1>1 DEF CallUnchanged, Alive, Childless, Children
  <1>7. ListTypes
    BY <1>0 DEF TypesOK, ListTypes
  <1>8. CASE rrEvents[w] = {} /\ Return /\ UNCHANGED rrEvents
    <2>1. todo' = Tail(todo)
      BY <1>8 DEF Return
    <2>2. /\ todo' \in Seq(Calls) /\ StackOK' /\ Frames(todo) = {Head(todo)} \cup Frames(todo')
          /\ \A c : (ClosingIs(c)' <=> ClosingIs(c)) /\ (RetainingIs(c)' <=> RetainingIs(c))
      BY <1>0, <1>2, <1>6, <2>1, Popping
    <2>3. /\ \A v : FreeWindow(v) # RRFreeEvents(w)
          /\ \A v : RRFreeEvents(v) = RRFreeEvents(w) => v = w
          /\ \A skip : ~IsFree(RRFreeEvents(w), skip)
      BY CallsDiffer, CallFields DEF IsFree
    <2>4. /\ \A v : (Freeing(v)' <=> Freeing(v)) /\ (Clearing(v) => Clearing(v)' \/ v = w)
          /\ \A d : ~Deleting(d)'
          /\ \A id, skip : Sparing(id, skip)' <=> Sparing(id, skip)
      BY <1>0, <1>2, <1>4, <2>1, <2>3, Returned
    <2>5. Forgets({})
      BY <1>1, <1>8 DEF Forgets
    <2>6. SelectionsOK'
      BY <1>0, <1>5, <1>6, <1>8, <2>4, <2>5, ListsShrink
    <2>7. ScansOK'
      BY <1>0, <1>6, <1>8, <2>2, ScansKept
    <2>8. ListTypes'
      BY <1>1, <1>7, <1>8 DEF ListTypes
    <2> QED BY <1>1, <2>2, <2>4, <2>6, <2>7, <2>8, Calling
  <1>9. ASSUME NEW id \in rrEvents[w], rrEvents' = [rrEvents EXCEPT ![w] = @ \ {id}], CallFirst(<<Free(id, "RRClient")>>)
        PROVE  ResourcesInv'
    <2> DEFINE g == Free(id, "RRClient")
    <2>1. /\ id \in AllFakeIds /\ ~IsOwn(id)
          /\ \A e \in EntriesIn(table[Owner(id)]) : e.id = id => e.type = "RRClient"
          /\ \A v \in Windows : (id \in others[v] => FALSE) /\ (id \in rrEvents[v] => v = w)
      BY <1>0, <1>4, <1>5, OnList
    <2>2. g \in Calls /\ IsFree(g, "RRClient") /\ g.id = id /\ g.op = "Free" /\ g.prev = TheHead /\ g.skip = "RRClient"
      BY <2>1, CallFields DEF Types, IsFree
    <2> HIDE DEF g
    <2>3. On(g, Head(todo)) /\ todo' = <<g>> \o todo
      BY <1>2, <1>9, <2>1, <2>2 DEF On, CallFirst, g
    <2>4. /\ todo' \in Seq(Calls) /\ StackOK' /\ Frames(todo') = Frames(todo) \cup {g}
          /\ \A c : (ClosingIs(c)' <=> ClosingIs(c)) /\ (RetainingIs(c)' <=> RetainingIs(c))
      BY <1>0, <1>2, <1>6, <2>2, <2>3, Pushing
    <2>5. /\ \A v : FreeWindow(v) # g /\ RRFreeEvents(v) # g
          /\ \A d : Delete(d) # g
      BY <2>2, CallFields
    <2>6. /\ \A v : (Freeing(v)' <=> Freeing(v)) /\ (Clearing(v) => Clearing(v)')
          /\ \A d : ~Deleting(d)'
          /\ \A i, skip : (Sparing(i, skip) => Sparing(i, skip)')
          /\ Sparing(id, "RRClient")'
      BY <1>5, <2>2, <2>4, <2>5, Called DEF Sparing
    <2>7. Forgets({id}) /\ ListTypes'
      BY <1>1, <1>4, <1>7, <1>9, <2>1 DEF Forgets, ListTypes
    <2>8. \A c \in Clients : \A x \in EntriesIn(table[c]) : x.id = id => x.type = "RRClient"
      BY <1>0, <2>1, TableTypes DEF TablesOK, EntryOK
    <2>9. SelectionsOK'
      BY <1>0, <1>5, <1>6, <2>6, <2>7, <2>8, ListsShrink
    <2>10. ScansOK'
      <3>1. KindOK(g) /\ DropOK(g)'
        BY <2>1, <2>2, <2>7 DEF KindOK, DropOK, Forgets
      <3> QED BY <1>0, <1>6, <2>2, <2>4, <2>7, <3>1, ScansKept DEF Forgets
    <2> QED BY <1>1, <2>4, <2>6, <2>7, <2>9, <2>10, Calling
  <1> QED BY <1>1, <1>8, <1>9

\* What is under way while a window is being freed.
LEMMA WhileFreeing ==
  ASSUME ResourcesInv, Top("FreeWindow")
  PROVE  LET w == Head(todo).win
         IN  /\ w \in Windows /\ w \in Alive /\ Head(todo) = FreeWindow(w) /\ Freeing(w)
             /\ todo # <<>> /\ todo \in Seq(Calls)
             /\ \A d : ~Deleting(d)
             /\ \A v : ~Clearing(v) /\ ~Sparing(v, "RRClient")
             /\ Children(w) = {} => ~Holds(table[Owner(w)], w)
             /\ \A f \in Frames(Tail(todo)) : f.op = "FreeWindow" => f.win # w /\ w \in Childless
  <1>a. PICK w : w = Head(todo).win
    OBVIOUS
  <1>0. TypesOK /\ StackOK /\ WindowsOK
    BY DEF ResourcesInv
  <1>1. todo # <<>> /\ todo \in Seq(Calls) /\ Head(todo).op = "FreeWindow"
    BY <1>0 DEF Top, TypesOK
  <1>2. /\ Head(todo) \in Calls /\ Frames(todo) = {Head(todo)} \cup Frames(Tail(todo))
        /\ \A g \in Frames(Tail(todo)) :
              /\ g.op # "Delete" /\ ~IsFree(g, "RRClient")
              /\ g.op = "FreeWindow" => g.win # Head(todo).win /\ Head(todo).win \in Childless
              /\ g.op = "RRFreeEvents" => IsFree(Head(todo), "RRClient")
        /\ \A g \in Frames(todo) : IsFree(g, "Window") => FreeWindow(g.id) \in Frames(Tail(todo))
    BY <1>0, <1>1, StackTop DEF StackOK
  <1>3. w \in Windows /\ Head(todo) = FreeWindow(w) /\ Freeing(w)
    BY <1>1, <1>2, <1>a, CallKinds DEF Freeing
  <1>4. (\A d : ~Deleting(d)) /\ \A v : ~Clearing(v) /\ ~Sparing(v, "RRClient")
    BY <1>1, <1>2, CallFields DEF Deleting, Clearing, Sparing, IsFree
  <1>5. \A f \in Frames(Tail(todo)) : f.op = "FreeWindow" => f.win # w /\ w \in Childless
    BY <1>2, <1>a
  <1>6. ~Sparing(w, "Window")
    <2>1. FreeWindow(w).op = "FreeWindow" /\ FreeWindow(w).win = w
      BY CallFields
    <2> QED BY <1>2, <1>5, <2>1 DEF Sparing
  <1>7. w \in Alive /\ ~Holds(table[Owner(w)], w)
    BY <1>0, <1>3, <1>6 DEF WindowsOK
  <1> QED BY <1>1, <1>3, <1>4, <1>5, <1>7, <1>a

\* CrushTree goes on to a window without children.
LEMMA CrushStep ==
  ASSUME ResourcesInv, Top("FreeWindow"), CallUnchanged, UNCHANGED <<others, rrEvents, saveSet>>,
         NEW x \in Alive, IsLeafBelow(x, Head(todo).win), CallFirst(<<Free(x, "Window"), FreeWindow(x)>>)
  PROVE  ResourcesInv'
  <1>a. PICK w : w = Head(todo).win
    OBVIOUS
  <1> DEFINE s == <<FreeWindow(x)>> \o todo
  <1>0. TypesOK /\ StackOK /\ SelectionsOK /\ TablesOK /\ ScansOK /\ TreeOK /\ ParentsOK
    BY DEF ResourcesInv, TypesOK
  <1>1. /\ w \in Windows /\ Head(todo) = FreeWindow(w) /\ Freeing(w) /\ todo # <<>> /\ todo \in Seq(Calls)
        /\ \A d : ~Deleting(d)
        /\ \A v : ~Clearing(v) /\ ~Sparing(v, "RRClient")
        /\ \A f \in Frames(Tail(todo)) : f.op = "FreeWindow" => w \in Childless
    BY <1>a, WhileFreeing
  <1>2. x \in Windows /\ x \in Windows \cup AllFakeIds /\ IsOwn(x) /\ w \in Above(x) /\ x \in Childless
    BY <1>0, <1>a, WindowIds DEF ParentsOK, IsLeafBelow, Childless
  <1>3. w \notin Childless
    <2>1. w # Root
      BY <1>1, WindowIds
    <2>2. Children(w) # {}
      BY <1>0, <1>2, <2>1, AboveIs
    <2> QED BY <2>2 DEF Childless
  <1>4. Alive' = Alive /\ Childless' = Childless /\ table' = table
    BY DEF CallUnchanged, Alive, Childless, Children
  <1>5. \A f \in Frames(todo) : f.op = "FreeWindow" => f.win # x
    <2>1. Frames(todo) = {Head(todo)} \cup Frames(Tail(todo))
      BY <1>0, <1>1, StackTop DEF StackOK
    <2>2. FreeWindow(w).win = w
      BY CallFields
    <2> QED BY <1>1, <1>2, <1>3, <2>1, <2>2
  <1>6. /\ FreeWindow(x) \in Calls /\ FreeWindow(x).op = "FreeWindow" /\ FreeWindow(x).win = x
        /\ FreeWindow(w).op = "FreeWindow" /\ FreeWindow(w).win = w
    BY <1>2, CallFields
  <1>7. On(FreeWindow(x), Head(todo))
    BY <1>1, <1>6 DEF On
  <1>8. /\ s \in Seq(Calls) /\ s # <<>> /\ Stack(s, Childless) /\ Frames(s) = Frames(todo) \cup {FreeWindow(x)}
        /\ LastOf(s) = LastOf(todo) /\ Head(s) = FreeWindow(x) /\ Tail(s) = todo
    BY <1>0, <1>1, <1>2, <1>5, <1>6, <1>7, StackPush DEF StackOK
  <1> DEFINE g == Free(x, "Window")
  <1>9. g \in Calls /\ IsFree(g, "Window") /\ g.id = x /\ g.op = "Free" /\ g.prev = TheHead /\ g.skip = "Window"
    BY <1>2, CallFields DEF Types, IsFree
  <1>10. todo' = <<g>> \o s
    <2>1. todo' = <<g, FreeWindow(x)>> \o todo
      BY DEF CallFirst
    <2> HIDE DEF g
    <2> DEFINE h == FreeWindow(x)
    <2>2. h \in Calls
      BY <1>6
    <2> HIDE DEF h
    <2>3. <<g, h>> = <<g>> \o <<h>> /\ <<g>> \in Seq(Calls) /\ <<h>> \in Seq(Calls)
      BY <1>9, <2>2
    <2>4. todo' = (<<g>> \o <<h>>) \o todo
      BY <2>1, <2>3 DEF h
    <2>5. todo' = <<g>> \o (<<h>> \o todo)
      BY <1>1, <2>3, <2>4, ConcatAssociative
    <2> QED BY <2>5 DEF h
  <1> HIDE DEF s, g
  <1>11. On(g, Head(s))
    BY <1>2, <1>8, <1>9 DEF On
  <1>12. /\ todo' \in Seq(Calls) /\ todo' # <<>> /\ Stack(todo', Childless)
         /\ Frames(todo') = Frames(s) \cup {g} /\ LastOf(todo') = LastOf(s)
    BY <1>8, <1>9, <1>10, <1>11, StackPush
  <1>13. StackOK' /\ \A c : (ClosingIs(c)' <=> ClosingIs(c)) /\ (RetainingIs(c)' <=> RetainingIs(c))
    BY <1>1, <1>4, <1>8, <1>12 DEF StackOK, ClosingIs, RetainingIs
  <1>14. Frames(todo') = (Frames(todo) \cup {FreeWindow(x)}) \cup {g}
    BY <1>8, <1>12
  <1>15. /\ \A v : RRFreeEvents(v) # g /\ RRFreeEvents(v) # FreeWindow(x) /\ FreeWindow(v) # g
         /\ \A v : FreeWindow(v) = FreeWindow(x) => v = x
         /\ \A d : Delete(d) # g /\ Delete(d) # FreeWindow(x)
         /\ \A skip : ~IsFree(FreeWindow(x), skip)
    BY <1>9, CallsDiffer, CallFields DEF IsFree
  <1>16. /\ \A v : Freeing(v) => Freeing(v)'
         /\ \A v : Freeing(v)' => Freeing(v) \/ v = x
         /\ \A d : ~Deleting(d)'
         /\ \A i, skip : Sparing(i, skip) => Sparing(i, skip)'
         /\ Sparing(x, "Window")'
    BY <1>1, <1>9, <1>14, <1>15 DEF Freeing, Deleting, Sparing
  <1>17. Forgets({}) /\ ListTypes'
    BY <1>0 DEF Forgets, ListTypes, TypesOK
  <1>18. SelectionsOK'
    BY <1>0, <1>1, <1>4, <1>16, <1>17, ListsShrink
  <1>19. ScansOK'
    <2>1. KindOK(g) /\ DropOK(g)'
      BY <1>2, <1>9 DEF KindOK, DropOK
    <2>2. \A f \in Frames(todo') : f.op = "Free" => f \in Frames(todo) \/ f = g
      BY <1>6, <1>14
    <2> QED BY <1>0, <1>4, <1>9, <2>1, <2>2, ScansKept
  <1> QED BY <1>1, <1>2, <1>12, <1>13, <1>16, <1>17, <1>18, <1>19, Calling

\* FreeWindowResources frees a selection.
LEMMA DeleteSelectionStep ==
  ASSUME ResourcesInv, Top("FreeWindow"), CallUnchanged, UNCHANGED <<others, rrEvents>>, Children(Head(todo).win) = {},
         saveSet' = [c \in Clients |-> saveSet[c] \ {Head(todo).win}],
         NEW id \in others[Head(todo).win], CallFirst(<<Free(id, "None")>>)
  PROVE  ResourcesInv'
  <1>a. PICK w : w = Head(todo).win
    OBVIOUS
  <1> DEFINE g == Free(id, "None")
  <1>0. TypesOK /\ StackOK /\ SelectionsOK /\ TablesOK /\ ScansOK
    BY DEF ResourcesInv
  <1>1. /\ w \in Windows /\ Head(todo) = FreeWindow(w) /\ todo # <<>> /\ todo \in Seq(Calls)
        /\ \A d : ~Deleting(d)
        /\ \A v : ~Clearing(v) /\ ~Sparing(v, "RRClient")
    BY <1>a, WhileFreeing
  <1>2. /\ id \in AllFakeIds /\ ~IsOwn(id)
        /\ \A e \in EntriesIn(table[Owner(id)]) : e.id = id => e.type = "OtherClient"
    <2>1. id \in others[w]
      BY <1>a
    <2> QED BY <1>0, <1>1, <2>1, OnOthers
  <1>3. g \in Calls /\ IsFree(g, "None") /\ g.id = id /\ g.op = "Free" /\ g.prev = TheHead /\ g.skip = "None"
    BY <1>2, CallFields DEF IsFree
  <1> HIDE DEF g
  <1>4. Alive' = Alive /\ Childless' = Childless /\ table' = table
    BY DEF CallUnchanged, Alive, Childless, Children
  <1>5. On(g, Head(todo)) /\ todo' = <<g>> \o todo
    <2>1. FreeWindow(w).op = "FreeWindow"
      BY CallFields
    <2> QED BY <1>1, <1>2, <1>3, <2>1 DEF On, CallFirst, g
  <1>6. /\ todo' \in Seq(Calls) /\ StackOK' /\ Frames(todo') = Frames(todo) \cup {g}
        /\ \A c : (ClosingIs(c)' <=> ClosingIs(c)) /\ (RetainingIs(c)' <=> RetainingIs(c))
    BY <1>0, <1>1, <1>3, <1>4, <1>5, Pushing
  <1>7. /\ \A v : FreeWindow(v) # g /\ RRFreeEvents(v) # g
        /\ \A d : Delete(d) # g
    BY <1>3, CallFields
  <1>8. /\ \A v : (Freeing(v)' <=> Freeing(v)) /\ (Clearing(v) => Clearing(v)')
        /\ \A d : ~Deleting(d)'
        /\ \A i, skip : (Sparing(i, skip) => Sparing(i, skip)')
    BY <1>1, <1>6, <1>7, Called
  <1>9. Forgets({}) /\ ListTypes' /\ \A c \in Clients : saveSet'[c] \subseteq saveSet[c]
    BY <1>0 DEF Forgets, ListTypes, TypesOK
  <1>10. SelectionsOK'
    BY <1>0, <1>1, <1>4, <1>8, <1>9, ListsShrink
  <1>11. ScansOK'
    <2>1. KindOK(g) /\ DropOK(g)'
      BY <1>2, <1>3 DEF KindOK, DropOK
    <2> QED BY <1>0, <1>3, <1>4, <1>6, <2>1, ScansKept
  <1> QED BY <1>6, <1>8, <1>9, <1>10, <1>11, Calling

\* The window itself goes.
LEMMA RemoveWindowStep ==
  ASSUME ResourcesInv, Top("FreeWindow"), UNCHANGED <<state, table, fake, others, rrEvents, spared>>, Return,
         Children(Head(todo).win) = {}, others[Head(todo).win] = {},
         saveSet' = [c \in Clients |-> saveSet[c] \ {Head(todo).win}],
         parent' = [x \in Alive \ {Head(todo).win} |-> parent[x]]
  PROVE  ResourcesInv'
  <1>a. PICK w : w = Head(todo).win
    OBVIOUS
  <1>0. /\ TypesOK /\ TablesOK /\ StackOK /\ ScansOK /\ TreeOK /\ WindowsOK /\ SelectionsOK
        /\ ClientsOK /\ SaveSetsOK /\ FakesOK /\ SparedOK /\ ParentsOK
    BY DEF ResourcesInv, TypesOK
  <1>1. /\ w \in Windows /\ w \in Alive /\ Head(todo) = FreeWindow(w) /\ Freeing(w) /\ todo # <<>> /\ todo \in Seq(Calls)
        /\ \A d : ~Deleting(d)
        /\ \A v : ~Clearing(v) /\ ~Sparing(v, "RRClient")
        /\ ~Holds(table[Owner(w)], w)
    BY <1>a, WhileFreeing
  <1>2. /\ Alive' = Alive \ {w} /\ ParentsOK' /\ TreeOK'
        /\ \A x \in Alive' : parent'[x] = parent[x]
    BY <1>0, <1>1, <1>a, RemovingKeepsTheTree
  <1>3. Childless \subseteq Childless'
    BY <1>2 DEF Childless, Children
  <1>4. todo' = Tail(todo) /\ others[w] = {} /\ others' = others /\ rrEvents' = rrEvents /\ table' = table
    BY <1>a DEF Return
  <1>5. /\ todo' \in Seq(Calls) /\ StackOK' /\ Frames(todo) = {Head(todo)} \cup Frames(todo')
        /\ \A c : (ClosingIs(c)' <=> ClosingIs(c)) /\ (RetainingIs(c)' <=> RetainingIs(c))
    <2>1. Head(todo).op = "FreeWindow"
      BY <1>1, CallFields
    <2> QED BY <1>0, <1>1, <1>3, <1>4, <2>1, Popping
  <1>6. /\ \A v : ~(FreeWindow(w) = RRFreeEvents(v)) /\ (FreeWindow(w) = FreeWindow(v) => v = w)
        /\ \A skip : ~IsFree(FreeWindow(w), skip)
    BY CallsDiffer, CallFields DEF IsFree
  <1>7. /\ \A v : (Freeing(v)' => Freeing(v) /\ v # w) /\ (Freeing(v) => Freeing(v)' \/ v = w)
        /\ \A d : ~Deleting(d)'
        /\ \A id, skip : Sparing(id, skip)' <=> Sparing(id, skip)
    BY <1>0, <1>1, <1>4, <1>6, Returned
  <1>8. rrEvents[w] = {}
    <2>1. ~HasEntry(w, "RREvent", w)
      <3>1. EntryOf(w, "RREvent", w).id = w
        BY DEF EntryOf
      <3> QED BY <1>1, <3>1 DEF HasEntry, Holds
    <2> QED BY <1>0, <1>1, <2>1 DEF SelectionsOK
  <1>9. ASSUME NEW c \in Clients, NEW x \in EntriesIn(table[c]) PROVE x.win # w
    <2>1. SUFFICES ASSUME x.win = w PROVE FALSE
      OBVIOUS
    <2>2. EntryOK(c, x)
      BY <1>0, TableTypes DEF TablesOK
    <2>3. Owner(x.id) = c /\ x.type \in {"Window", "RREvent", "OtherClient", "RRClient"} /\ (x.type \in {"Window", "RREvent"} => x.id = w)
      BY <2>1, <2>2, EntryFields
    <2>4. x.type \notin {"Window", "RREvent"}
      BY <1>1, <2>3 DEF Holds
    <2>5. x.id \in others[w] \/ x.id \in rrEvents[w]
      BY <1>0, <1>1, <2>1, <2>3, <2>4 DEF SelectionsOK
    <2> QED BY <1>4, <1>8, <2>5
  <1>10. TypesOK'
    BY <1>0, <1>2, <1>5 DEF TypesOK
  <1>11. TablesOK' /\ FakesOK'
    BY <1>0 DEF TablesOK, FakesOK, FakeOK, UnusedFake
  <1>12. ScansOK'
    BY <1>0, <1>4, <1>5, ScansKept
  <1>13. ClientsOK'
    BY <1>0, <1>5 DEF ClientsOK
  <1>14. SaveSetsOK'
    <2>1. \A c \in Clients : saveSet'[c] = saveSet[c] \ {w}
      BY <1>a
    <2> QED BY <1>0, <1>2, <2>1 DEF SaveSetsOK
  <1>15. WindowsOK'
    <2>1. \A v : HasEntry(v, "Window", v)' <=> HasEntry(v, "Window", v)
      BY <1>4 DEF HasEntry
    <2>2. \A v \in Alive' : HasEntry(v, "Window", v)' \/ Freeing(v)'
      BY <1>0, <1>2, <1>7, <2>1 DEF WindowsOK
    <2>3. \A c \in Clients : \A e \in EntriesIn(table[c]) : e.win \in Alive'
      BY <1>0, <1>2, <1>9 DEF WindowsOK
    <2>4. \A v \in Windows : Freeing(v)' => v \in Alive' /\ (Sparing(v, "Window")' \/ ~Holds(table[Owner(v)], v))
      BY <1>0, <1>2, <1>7 DEF WindowsOK
    <2> QED BY <1>4, <2>2, <2>3, <2>4 DEF WindowsOK
  <1>16. SelectionsOK'
    <2>1. Forgets({})
      BY <1>4 DEF Forgets
    <2> QED BY <1>0, <1>1, <1>2, <1>4, <1>7, <1>8, <2>1, ListsShrink
  <1>17. SparedOK'
    <2> SUFFICES ASSUME spared # {} PROVE \E d \in Clients : ClosingIs(d)' /\ \E S \in SUBSET Alive' : Shelter(d, S)'
      BY DEF SparedOK
    <2>1. PICK d \in Clients : ClosingIs(d) /\ \E S \in SUBSET Alive : Shelter(d, S)
      BY <1>0 DEF SparedOK
    <2>2. PICK S \in SUBSET Alive : Shelter(d, S)
      BY <2>1
    <2>3. w \notin S
      BY <1>1, <2>2 DEF Shelter
    <2>4. S \in SUBSET Alive'
      BY <1>2, <2>3
    <2>5. Shelter(d, S)'
      BY <1>2, <1>7, <2>2, <2>4 DEF Shelter
    <2> QED BY <1>5, <2>1, <2>4, <2>5
  <1> QED BY <1>2, <1>5, <1>10, <1>11, <1>12, <1>13, <1>14, <1>15, <1>16, <1>17 DEF ResourcesInv

LEMMA DeleteWindowStep ==
  ASSUME ResourcesInv, DeleteWindow
  PROVE  ResourcesInv'
  <1>1. /\ Top("FreeWindow") /\ UNCHANGED <<state, table, fake, others, rrEvents, spared>>
        /\ \/ \E x \in Alive :
                /\ IsLeafBelow(x, Head(todo).win)
                /\ CallFirst(<<Free(x, "Window"), FreeWindow(x)>>)
                /\ UNCHANGED <<saveSet, parent>>
           \/ /\ Children(Head(todo).win) = {}
              /\ saveSet' = [c \in Clients |-> saveSet[c] \ {Head(todo).win}]
              /\ \/ /\ others[Head(todo).win] = {}
                    /\ parent' = [x \in Alive \ {Head(todo).win} |-> parent[x]]
                    /\ Return
                 \/ \E id \in others[Head(todo).win] :
                      /\ CallFirst(<<Free(id, "None")>>)
                      /\ UNCHANGED parent
    BY DEF DeleteWindow
  <1>2. ASSUME NEW x \in Alive, IsLeafBelow(x, Head(todo).win), CallFirst(<<Free(x, "Window"), FreeWindow(x)>>),
               UNCHANGED <<saveSet, parent>>
        PROVE  ResourcesInv'
    BY <1>1, <1>2, CrushStep DEF CallUnchanged
  <1>3. ASSUME Children(Head(todo).win) = {}, saveSet' = [c \in Clients |-> saveSet[c] \ {Head(todo).win}],
               others[Head(todo).win] = {}, parent' = [x \in Alive \ {Head(todo).win} |-> parent[x]], Return
        PROVE  ResourcesInv'
    BY <1>1, <1>3, RemoveWindowStep
  <1>4. ASSUME Children(Head(todo).win) = {}, saveSet' = [c \in Clients |-> saveSet[c] \ {Head(todo).win}],
               NEW id \in others[Head(todo).win], CallFirst(<<Free(id, "None")>>), UNCHANGED parent
        PROVE  ResourcesInv'
    BY <1>1, <1>4, DeleteSelectionStep DEF CallUnchanged
  <1> QED BY <1>1, <1>2, <1>3, <1>4

LEMMA DestroyNextSubwindowStep ==
  ASSUME ResourcesInv, DestroyNextSubwindow
  PROVE  ResourcesInv'
  <1>a. PICK w : w = Head(todo).win
    OBVIOUS
  <1>0. TypesOK /\ StackOK /\ SelectionsOK /\ TablesOK /\ ScansOK /\ ParentsOK
    BY DEF ResourcesInv, TypesOK
  <1>1. /\ Top("DestroySubwindows") /\ CallUnchanged /\ UNCHANGED <<saveSet, others, rrEvents>>
        /\ \/ Return
           \/ \E x \in Children(w) : CallFirst(<<Free(x, "None")>>)
    BY <1>a DEF DestroyNextSubwindow, CallUnchanged
  <1>2. todo # <<>> /\ todo \in Seq(Calls) /\ Head(todo).op = "DestroySubwindows"
    BY <1>0, <1>1 DEF Top, TypesOK
  <1>3. /\ Head(todo) \in Calls /\ Tail(todo) = <<>> /\ Frames(todo) = {Head(todo)} \cup Frames(Tail(todo))
    BY <1>0, <1>2, StackTop DEF StackOK, Bottoms
  <1>4. \A x \in Frames(todo) : x.op = "DestroySubwindows"
    BY <1>2, <1>3, NoFrames
  <1>5. (\A d : ~Deleting(d)) /\ \A v : ~Clearing(v) /\ ~Freeing(v) /\ \A skip : ~Sparing(v, skip)
    BY <1>4, CallFields DEF Deleting, Clearing, Freeing, Sparing, IsFree
  <1>6. Alive' = Alive /\ Childless' = Childless /\ table' = table
    BY <1>1 DEF CallUnchanged, Alive, Childless, Children
  <1>7. Forgets({}) /\ ListTypes' /\ saveSet' = saveSet /\ rrEvents' = rrEvents
    BY <1>0, <1>1 DEF Forgets, ListTypes, TypesOK
  <1>8. CASE Return
    <2>1. todo' = Tail(todo)
      BY <1>8 DEF Return
    <2>2. /\ todo' \in Seq(Calls) /\ StackOK' /\ Frames(todo) = {Head(todo)} \cup Frames(todo')
          /\ \A c : (ClosingIs(c)' <=> ClosingIs(c)) /\ (RetainingIs(c)' <=> RetainingIs(c))
      BY <1>0, <1>2, <1>6, <2>1, Popping
    <2>3. /\ \A v : ~Freeing(v)'
          /\ \A d : ~Deleting(d)'
      BY <1>0, <1>2, <1>5, <2>1, Returned
    <2>4. SelectionsOK'
      BY <1>0, <1>5, <1>6, <1>7, <2>3, ListsShrink
    <2>5. ScansOK'
      BY <1>0, <1>6, <1>7, <2>2, ScansKept
    <2> QED BY <1>1, <1>5, <1>7, <2>2, <2>3, <2>4, <2>5, Calling
  <1>9. ASSUME NEW x \in Children(w), CallFirst(<<Free(x, "None")>>)
        PROVE  ResourcesInv'
    <2> DEFINE g == Free(x, "None")
    <2>1. x \in Windows /\ x \in Windows \cup AllFakeIds /\ IsOwn(x)
      BY <1>0, WindowIds DEF Children, ParentsOK
    <2>2. g \in Calls /\ IsFree(g, "None") /\ g.id = x /\ g.op = "Free" /\ g.prev = TheHead /\ g.skip = "None"
      BY <2>1, CallFields DEF IsFree
    <2> HIDE DEF g
    <2>3. On(g, Head(todo)) /\ todo' = <<g>> \o todo
      BY <1>2, <1>9, <2>1, <2>2 DEF On, CallFirst, g
    <2>4. /\ todo' \in Seq(Calls) /\ StackOK' /\ Frames(todo') = Frames(todo) \cup {g}
          /\ \A c : (ClosingIs(c)' <=> ClosingIs(c)) /\ (RetainingIs(c)' <=> RetainingIs(c))
      BY <1>0, <1>2, <1>6, <2>2, <2>3, Pushing
    <2>5. (\A v : FreeWindow(v) # g) /\ \A d : Delete(d) # g
      BY <2>2, CallFields
    <2>6. (\A v : ~Freeing(v)') /\ \A d : ~Deleting(d)'
      BY <1>5, <2>4, <2>5, Called
    <2>7. SelectionsOK'
      BY <1>0, <1>5, <1>6, <1>7, <2>6, ListsShrink
    <2>8. ScansOK'
      <3>1. KindOK(g) /\ DropOK(g)'
        BY <2>1, <2>2 DEF KindOK, DropOK
      <3> QED BY <1>0, <1>6, <1>7, <2>2, <2>4, <3>1, ScansKept
    <2> QED BY <1>1, <1>5, <1>7, <2>4, <2>6, <2>7, <2>8, Calling
  <1> QED BY <1>1, <1>8, <1>9

-----------------------------------------------------------------------------
(* The death of a client.                                                  *)

LEMMA FirstIsCut ==
  ASSUME NEW c \in Clients, NEW types, NEW b, NEW i, FirstOf(table[c], types, b, i), table' = [table EXCEPT ![c] = Unlink(table[c], b, i)]
  PROVE  LET e == table[c].bucket[b][i]
         IN  Cut(c, e) /\ e.type \in types
  <1>1. b \in DOMAIN table[c].bucket /\ i \in DOMAIN table[c].bucket[b] /\ table[c].bucket[b][i].type \in types
    BY DEF FirstOf
  <1>2. Unlinked(table[c], b, i, Unlink(table[c], b, i))
    BY DEF Unlinked
  <1> QED BY <1>1, <1>2 DEF Cut

\* The list of RandR selections is taken before its window.
LEMMA FirstTaken ==
  ASSUME NEW c \in Clients, NEW t, TableOK(c, t), NEW b, NEW i, FirstOf(t, Types, b, i),
         NEW x \in EntriesIn(t), x.id = t.bucket[b][i].id, x # t.bucket[b][i]
  PROVE  t.bucket[b][i].type = "RREvent"
  <1>1. b \in DOMAIN t.bucket /\ i \in DOMAIN t.bucket[b]
        /\ \A d \in DOMAIN t.bucket : \A j \in DOMAIN t.bucket[d] : t.bucket[d][j].type \in Types => b < d \/ (b = d /\ i <= j)
    BY DEF FirstOf
  <1>2. t # NoTable
    BY NoTableIsEmpty
  <1>3. /\ DOMAIN t.bucket = 0 .. t.buckets - 1 /\ t.buckets \in Nat
        /\ \A a \in 0 .. t.buckets - 1 :
             /\ t.bucket[a] \in Seq(Entries)
             /\ \A k \in DOMAIN t.bucket[a] : EntryOK(c, t.bucket[a][k]) /\ Hash(t, t.bucket[a][k].id) = a
             /\ \A j, k \in DOMAIN t.bucket[a] : j < k => Ordered(t.bucket[a][j], t.bucket[a][k])
    BY <1>2 DEF TableOK
  <1>4. PICK a \in DOMAIN t.bucket : \E k \in DOMAIN t.bucket[a] : x = t.bucket[a][k]
    BY EntriesAre
  <1>5. PICK k \in DOMAIN t.bucket[a] : x = t.bucket[a][k]
    BY <1>4
  <1>6. a = b
    <2>1. Hash(t, x.id) = a /\ Hash(t, t.bucket[b][i].id) = b
      BY <1>1, <1>3, <1>5
    <2> QED BY <2>1
  <1>7. x.type \in Types
    BY TableTypes, EntryFields
  <1>8. i <= k /\ i # k
    <2>1. ~(b < b)
      BY <1>1, <1>3
    <2> QED BY <1>1, <1>5, <1>6, <1>7, <2>1
  <1>9. i < k
    <2>1. i \in Nat /\ k \in Nat
      BY <1>1, <1>3, <1>5, <1>6
    <2> QED BY <1>8, <2>1
  <1>10. Ordered(t.bucket[b][i], x)
    BY <1>1, <1>3, <1>5, <1>6, <1>9
  <1> QED BY <1>10 DEF Ordered

\* Nothing but one call is under way.
LEMMA OnlyCall ==
  ASSUME TypesOK, StackOK, todo # <<>>, Head(todo).op \in Bottoms
  PROVE  /\ todo \in Seq(Calls) /\ Head(todo) \in Calls /\ Tail(todo) = <<>> /\ Frames(todo) = {Head(todo)} /\ LastOf(todo) = Head(todo)
         /\ \A v : ~Freeing(v) /\ ~Clearing(v)
         /\ \A d : ~Deleting(d)
         /\ \A id, skip : ~Sparing(id, skip)
  <1>1. todo \in Seq(Calls)
    BY DEF TypesOK
  <1>2. Head(todo) \in Calls /\ Tail(todo) = <<>> /\ Frames(todo) = {Head(todo)} \cup Frames(Tail(todo)) /\ LastOf(todo) = Head(todo)
    BY <1>1, StackTop DEF StackOK
  <1>3. Frames(todo) = {Head(todo)}
    BY <1>2, NoFrames
  <1>4. /\ \A v : FreeWindow(v).op \notin Bottoms /\ RRFreeEvents(v).op \notin Bottoms
        /\ \A d : Delete(d).op \notin Bottoms
        /\ \A f, skip : IsFree(f, skip) => f.op \notin Bottoms
    BY CallFields DEF Bottoms, IsFree
  <1> QED BY <1>1, <1>2, <1>3, <1>4 DEF Freeing, Clearing, Deleting, Sparing

LEMMA FreeNextNeverRetainedStep ==
  ASSUME ResourcesInv, FreeNextNeverRetained
  PROVE  ResourcesInv'
  <1>a. PICK c : c = Head(todo).client
    OBVIOUS
  <1>0. /\ TypesOK /\ TablesOK /\ StackOK /\ ScansOK /\ TreeOK /\ WindowsOK /\ SelectionsOK
        /\ ClientsOK /\ SaveSetsOK /\ FakesOK /\ SparedOK
    BY DEF ResourcesInv
  <1>1. /\ Top("FreeNeverRetained") /\ CutUnchanged
        /\ \/ /\ \A e \in EntriesIn(table[c]) : e.type \notin NeverRetained
              /\ Return
              /\ UNCHANGED table
           \/ \E b \in DOMAIN table[c].bucket : \E i \in DOMAIN table[c].bucket[b] :
                /\ FirstOf(table[c], NeverRetained, b, i)
                /\ table' = [table EXCEPT ![c] = Unlink(table[c], b, i)]
                /\ CallFirst(<<DeleteFunc(table[c].bucket[b][i])>>)
    BY <1>a DEF FreeNextNeverRetained, CutUnchanged
  <1>2. todo # <<>> /\ Head(todo).op = "FreeNeverRetained" /\ Head(todo).op \in Bottoms
    BY <1>1 DEF Top, Bottoms
  <1>3. /\ todo \in Seq(Calls) /\ Head(todo) \in Calls /\ Tail(todo) = <<>> /\ Frames(todo) = {Head(todo)} /\ LastOf(todo) = Head(todo)
        /\ \A v : ~Freeing(v) /\ ~Clearing(v)
        /\ \A d : ~Deleting(d)
        /\ \A id, skip : ~Sparing(id, skip)
    BY <1>0, <1>2, OnlyCall
  <1>4. c \in Clients /\ Head(todo) = FreeNeverRetained(c)
    BY <1>2, <1>3, <1>a, CallKinds
  <1>5. Alive' = Alive /\ Childless' = Childless
    BY <1>1 DEF CutUnchanged, Alive, Childless, Children
  <1>6. CASE /\ \A e \in EntriesIn(table[c]) : e.type \notin NeverRetained
             /\ Return
             /\ UNCHANGED table
    <2>1. todo' = <<>>
      BY <1>3, <1>6 DEF Return
    <2>2. /\ \A v : ~Freeing(v)' /\ ~Clearing(v)'
          /\ \A d : ~Deleting(d)'
          /\ \A id, skip : ~Sparing(id, skip)'
          /\ Frames(todo') = {} /\ StackOK'
      BY <2>1, NoFrames DEF Freeing, Clearing, Deleting, Sparing, StackOK
    <2>3. \A d : ~ClosingIs(d)' /\ ~RetainingIs(d)' /\ ~ClosingIs(d) /\ (RetainingIs(d) => d = c)
      BY <1>3, <1>4, <2>1, CallFields DEF ClosingIs, RetainingIs
    <2>4. ClientsOK'
      <3>1. \A e \in EntriesIn(table[c]) : e.type # "OtherClient"
        BY <1>6 DEF NeverRetained
      <3>2. state' = state /\ fake' = fake /\ table' = table
        BY <1>1, <1>6 DEF CutUnchanged
      <3> QED BY <1>0, <2>3, <3>1, <3>2 DEF ClientsOK
    <2>5. TypesOK'
      BY <1>0, <1>1, <2>1 DEF TypesOK, ParentsOK, Alive, CutUnchanged
    <2>6. TablesOK' /\ TreeOK' /\ SaveSetsOK' /\ FakesOK'
      BY <1>0, <1>1, <1>6 DEF TablesOK, TreeOK, SaveSetsOK, FakesOK, FakeOK, UnusedFake, Alive, CutUnchanged
    <2>7. ScansOK'
      BY <2>2 DEF ScansOK
    <2>8. \A id, type, w : HasEntry(id, type, w)' <=> HasEntry(id, type, w)
      BY <1>6 DEF HasEntry
    <2>9. WindowsOK'
      BY <1>0, <1>3, <1>5, <1>6, <2>2, <2>8 DEF WindowsOK
    <2>10. SelectionsOK'
      <3>1. others' = others /\ rrEvents' = rrEvents
        BY <1>1 DEF CutUnchanged
      <3> QED BY <1>0, <1>3, <1>5, <1>6, <2>2, <2>8, <3>1 DEF SelectionsOK
    <2>11. SparedOK'
      BY <1>0, <1>1, <2>3 DEF SparedOK, CutUnchanged
    <2> QED BY <2>2, <2>4, <2>5, <2>6, <2>7, <2>9, <2>10, <2>11 DEF ResourcesInv
  <1>7. ASSUME NEW b \in DOMAIN table[c].bucket, NEW i \in DOMAIN table[c].bucket[b],
               FirstOf(table[c], NeverRetained, b, i),
               table' = [table EXCEPT ![c] = Unlink(table[c], b, i)],
               CallFirst(<<DeleteFunc(table[c].bucket[b][i])>>)
        PROVE  ResourcesInv'
    <2>1. PICK e : e = table[c].bucket[b][i]
      OBVIOUS
    <2>2. Cut(c, e) /\ e.type = "OtherClient"
      <3>1. PICK types : types = NeverRetained
        OBVIOUS
      <3>2. FirstOf(table[c], types, b, i)
        BY <1>7, <3>1
      <3>3. Cut(c, table[c].bucket[b][i]) /\ table[c].bucket[b][i].type \in types
        BY <1>4, <1>7, <3>2, FirstIsCut
      <3> QED BY <2>1, <3>1, <3>3 DEF NeverRetained
    <2>3. e \in Entries /\ EntryOK(c, e)
      BY <1>0, <1>4, <2>2, TableCut DEF EntryOK
    <2>4. todo' = <<Delete(e)>> \o todo
      BY <1>7, <2>1, <2>2, DeleteFuncIs DEF CallFirst
    <2>5. Delete(e) \in Calls /\ Delete(e).op = "Delete"
      BY <2>3, CallFields
    <2>6. On(Delete(e), Head(todo))
      BY <1>2, <2>5 DEF On
    <2>7. /\ todo' \in Seq(Calls) /\ StackOK' /\ Frames(todo') = Frames(todo) \cup {Delete(e)}
          /\ \A d : (ClosingIs(d)' <=> ClosingIs(d)) /\ (RetainingIs(d)' <=> RetainingIs(d))
      BY <1>0, <1>2, <1>3, <1>5, <2>4, <2>5, <2>6, Pushing
    <2>8. /\ \A v : FreeWindow(v) # Delete(e) /\ RRFreeEvents(v) # Delete(e)
          /\ \A d : Delete(e) = Delete(d) => d = e
          /\ \A skip : ~IsFree(Delete(e), skip)
      BY CallsDiffer, <2>5 DEF IsFree
    <2>9. Pushes(e)
      <3>1. /\ \A v : ~Freeing(v)' /\ ~Clearing(v)'
            /\ \A d : Deleting(d)' => d = e
            /\ \A id, skip : ~Sparing(id, skip)'
        BY <1>3, <2>7, <2>8, Called
      <3>2. Deleting(e)'
        BY <2>7 DEF Deleting
      <3> QED BY <1>3, <2>2, <2>7, <3>1, <3>2 DEF Pushes
    <2>10. ScansOK'
      <3>1. \A f \in Frames(todo') : f.op # "Free"
        BY <1>2, <1>3, <2>5, <2>7
      <3> QED BY <3>1 DEF ScansOK
    <2> QED BY <1>1, <1>4, <2>2, <2>7, <2>9, <2>10, CutStep
  <1> QED BY <1>1, <1>6, <1>7

\* The next resource of a client that is destroyed.
LEMMA FreeNextStep ==
  ASSUME ResourcesInv, Top("FreeAll"), CutUnchanged, NEW c, Head(todo) = FreeAll(c),
         NEW b, NEW i, FirstOf(table[c], Types, b, i), table' = [table EXCEPT ![c] = Unlink(table[c], b, i)],
         CallFirst(<<DeleteFunc(table[c].bucket[b][i])>>)
  PROVE  ResourcesInv'
  <1>a. PICK e, g : e = table[c].bucket[b][i] /\ g = DeleteFunc(e)
    OBVIOUS
  <1>0. TypesOK /\ TablesOK /\ StackOK /\ ScansOK
    BY DEF ResourcesInv
  <1>1. todo # <<>> /\ Head(todo).op = "FreeAll" /\ Head(todo).op \in Bottoms
    BY DEF Top, Bottoms
  <1>2. /\ todo \in Seq(Calls) /\ Head(todo) \in Calls /\ Frames(todo) = {Head(todo)} /\ LastOf(todo) = Head(todo)
        /\ \A v : ~Freeing(v) /\ ~Clearing(v)
        /\ \A d : ~Deleting(d)
        /\ \A id, skip : ~Sparing(id, skip)
    BY <1>0, <1>1, OnlyCall
  <1>3. c \in Clients
    <2>1. Head(todo).client \in Clients
      BY <1>1, <1>2, CallKinds
    <2> QED BY <2>1, CallFields
  <1>4. Alive' = Alive /\ Childless' = Childless
    BY DEF CutUnchanged, Alive, Childless, Children
  <1>5. Cut(c, e)
    BY <1>3, <1>a, FirstIsCut
  <1>6. /\ EntryOK(c, e) /\ e \in Entries /\ e \in EntriesIn(table[c])
        /\ \A d \in Clients : EntriesIn(table'[d]) = EntriesIn(table[d]) \ {e}
    BY <1>0, <1>3, <1>5, TableCut DEF EntryOK
  <1>7. /\ e.type \in {"Window", "RREvent", "OtherClient", "RRClient"} /\ e.win \in Windows /\ Owner(e.id) = c
        /\ e.type \in {"Window", "RREvent"} => e.id = e.win
    BY <1>3, <1>6, EntryFields
  <1>8. /\ e.type = "Window" => g = FreeWindow(e.win)
        /\ e.type = "RREvent" => g = RRFreeEvents(e.win)
        /\ e.type \in {"OtherClient", "RRClient"} => g = Delete(e)
    BY <1>a, DeleteFuncIs
  <1>9. /\ FreeWindow(e.win) \in Calls /\ RRFreeEvents(e.win) \in Calls /\ Delete(e) \in Calls
        /\ FreeWindow(e.win).op = "FreeWindow" /\ RRFreeEvents(e.win).op = "RRFreeEvents" /\ Delete(e).op = "Delete"
    BY <1>6, <1>7, CallFields
  <1>10. g \in Calls /\ g.op \in {"FreeWindow", "RRFreeEvents", "Delete"}
    BY <1>7, <1>8, <1>9
  <1>11. On(g, Head(todo))
    BY <1>1, <1>10 DEF On
  <1>12. todo' = <<g>> \o todo
    BY <1>a DEF CallFirst
  <1>13. /\ todo' \in Seq(Calls) /\ StackOK' /\ Frames(todo') = Frames(todo) \cup {g}
         /\ \A d : (ClosingIs(d)' <=> ClosingIs(d)) /\ (RetainingIs(d)' <=> RetainingIs(d))
    <2>1. g.op = "FreeWindow" => \A f \in Frames(todo) : f.op = "FreeWindow" => f.win # g.win /\ g.win \in Childless
      BY <1>1, <1>2
    <2> QED BY <1>0, <1>1, <1>2, <1>4, <1>10, <1>11, <1>12, <2>1, Pushing
  <1>14. /\ \A w : Freeing(w)' => e.type = "Window" /\ w = e.win
         /\ \A d : Deleting(d)' => d = e /\ e.type \in {"OtherClient", "RRClient"}
         /\ \A id, skip : ~Sparing(id, skip)'
    <2>1. /\ \A w : Freeing(w)' => g = FreeWindow(w)
          /\ \A d : Deleting(d)' => g = Delete(d)
          /\ \A id, skip : Sparing(id, skip)' => IsFree(g, skip)
      BY <1>2, <1>13, Called
    <2> QED BY <1>7, <1>8, <1>10, <2>1, CallsDiffer DEF IsFree
  <1>15. /\ e.type = "Window" => Freeing(e.win)'
         /\ e.type = "RREvent" => Clearing(e.win)'
         /\ e.type \in {"OtherClient", "RRClient"} => Deleting(e)'
    BY <1>8, <1>13 DEF Freeing, Clearing, Deleting
  <1>16. ASSUME e.type = "Window" PROVE ~Holds(table[Owner(e.win)], e.win)' /\ ClosingIs(Owner(e.win))
    <2>1. Owner(e.win) = c /\ e.id = e.win
      BY <1>7, <1>16
    <2>2. ClosingIs(c)
      BY <1>1, <1>2 DEF ClosingIs
    <2>3. ASSUME NEW x \in EntriesIn(table[c]), x.id = e.id, x # e PROVE FALSE
      <3>1. TableOK(c, table[c])
        BY <1>0, <1>3 DEF TablesOK
      <3>2. e.type = "RREvent"
        BY <1>3, <1>a, <2>3, <3>1, FirstTaken
      <3> QED BY <1>16, <3>2
    <2>4. \A x \in EntriesIn(table'[c]) : x.id # e.id
      BY <1>3, <1>6, <2>3
    <2> QED BY <2>1, <2>2, <2>4 DEF Holds
  <1>17. Pushes(e)
    BY <1>2, <1>13, <1>14, <1>15, <1>16 DEF Pushes
  <1>18. ScansOK'
    <2>1. \A f \in Frames(todo') : f.op # "Free"
      BY <1>1, <1>2, <1>10, <1>13
    <2> QED BY <2>1 DEF ScansOK
  <1> QED BY <1>3, <1>5, <1>13, <1>17, <1>18, CutStep

\* At the end of FreeClientResources the client is free.
LEMMA ClientFreedStep ==
  ASSUME ResourcesInv, Top("FreeAll"), NEW c, Head(todo) = FreeAll(c), EntriesIn(table[c]) = {},
         table' = [table EXCEPT ![c] = NoTable], state' = [state EXCEPT ![c] = "free"],
         fake' = [fake EXCEPT ![c] = NewFakes], spared' = {}, Return, UNCHANGED <<parent, others, rrEvents, saveSet>>
  PROVE  ResourcesInv'
  <1>0. /\ TypesOK /\ TablesOK /\ StackOK /\ ScansOK /\ TreeOK /\ WindowsOK /\ SelectionsOK
        /\ ClientsOK /\ SaveSetsOK /\ FakesOK /\ SparedOK
    BY DEF ResourcesInv
  <1>1. todo # <<>> /\ Head(todo).op = "FreeAll" /\ Head(todo).op \in Bottoms
    BY DEF Top, Bottoms
  <1>2. /\ todo \in Seq(Calls) /\ Head(todo) \in Calls /\ Tail(todo) = <<>> /\ LastOf(todo) = FreeAll(c)
        /\ \A v : ~Freeing(v) /\ ~Clearing(v)
        /\ \A d : ~Deleting(d)
        /\ \A id, skip : ~Sparing(id, skip)
    BY <1>0, <1>1, OnlyCall
  <1>3. c \in Clients
    <2>1. Head(todo).client \in Clients
      BY <1>1, <1>2, CallKinds
    <2> QED BY <2>1, CallFields
  <1>4. todo' = <<>>
    BY <1>2 DEF Return
  <1>5. /\ \A v : ~Freeing(v)' /\ ~Clearing(v)'
        /\ \A d : ~Deleting(d)'
        /\ \A id, skip : ~Sparing(id, skip)'
        /\ Frames(todo') = {} /\ StackOK'
    BY <1>4, NoFrames DEF Freeing, Clearing, Deleting, Sparing, StackOK
  <1>6. \A d : ~ClosingIs(d)' /\ ~RetainingIs(d)' /\ (ClosingIs(d) => d = c) /\ ~RetainingIs(d)
    BY <1>2, <1>4, CallFields DEF ClosingIs, RetainingIs
  <1>7. /\ DOMAIN table' = Clients /\ table'[c] = NoTable
        /\ \A d \in Clients : d # c => table'[d] = table[d]
    BY <1>0, <1>3 DEF TablesOK
  <1>8. \A d \in Clients : EntriesIn(table'[d]) = EntriesIn(table[d])
    BY <1>7, NoTableIsEmpty
  <1>9. TablesOK'
    BY <1>0, <1>7 DEF TablesOK, TableOK
  <1>10. /\ \A d \in Clients : state'[d] = IF d = c THEN "free" ELSE state[d]
         /\ \A d \in Clients : fake'[d] = IF d = c THEN NewFakes ELSE fake[d]
         /\ NewFakes \in [next : 0 .. FakeRange, end : 0 .. FakeRange] /\ NewFakes.next <= NewFakes.end
    BY <1>0, ResourcesAssumption DEF TypesOK, NewFakes
  <1>11. TypesOK'
    <2>1. state' \in [Clients -> {"free", "running", "retained", "closing"}]
      BY <1>0 DEF TypesOK
    <2>2. fake' \in [Clients -> [next : 0 .. FakeRange, end : 0 .. FakeRange]]
      BY <1>0, <1>10 DEF TypesOK
    <2>3. ParentsOK' /\ todo' \in Seq(Calls)
      BY <1>0, <1>4 DEF TypesOK, ParentsOK, Alive
    <2> QED BY <1>0, <2>1, <2>2, <2>3 DEF TypesOK
  <1>12. TreeOK' /\ SaveSetsOK'
    BY <1>0 DEF TreeOK, SaveSetsOK, Alive
  <1>13. FakesOK'
    <2> SUFFICES ASSUME NEW d \in Clients PROVE FakeOK(d)'
      BY DEF FakesOK
    <2>1. CASE d = c
      <3>1. \A n : UnusedFake(d, table'[d], n)
        BY <1>7, <2>1, NoTableIsEmpty DEF UnusedFake, Holds
      <3> QED BY <1>10, <2>1, <3>1 DEF FakeOK
    <2>2. CASE d # c
      BY <1>0, <1>7, <1>10, <2>2 DEF FakesOK, FakeOK
    <2> QED BY <2>1, <2>2
  <1>14. ClientsOK'
    <2> SUFFICES ASSUME NEW d \in Clients
                 PROVE  /\ table'[d] = NoTable <=> state'[d] = "free"
                        /\ state'[d] = "free" => fake'[d] = NewFakes
                        /\ state'[d] # "closing"
                        /\ state'[d] = "retained" => \A e \in EntriesIn(table'[d]) : e.type # "OtherClient"
      BY <1>6 DEF ClientsOK
    <2>1. CASE d = c
      BY <1>7, <1>10, <2>1
    <2>2. CASE d # c
      BY <1>0, <1>6, <1>7, <1>10, <2>2 DEF ClientsOK
    <2> QED BY <2>1, <2>2
  <1>15. ScansOK' /\ SparedOK'
    BY <1>5 DEF ScansOK, SparedOK
  <1>16. \A id \in Windows \cup AllFakeIds : \A type, w : HasEntry(id, type, w)' <=> HasEntry(id, type, w)
    BY <1>8, AllIds DEF HasEntry
  <1>17. Alive' = Alive /\ Alive \subseteq Windows
    BY <1>0 DEF Alive, TypesOK, ParentsOK
  <1>18. WindowsOK'
    <2>1. \A w \in Alive : w \in Windows \cup AllFakeIds
      BY <1>17
    <2>2. \A w \in Alive : HasEntry(w, "Window", w)'
      BY <1>0, <1>2, <1>16, <2>1 DEF WindowsOK
    <2>3. \A d \in Clients : \A e \in EntriesIn(table'[d]) : e.win \in Alive
      BY <1>0, <1>8 DEF WindowsOK
    <2> QED BY <1>5, <1>17, <2>2, <2>3 DEF WindowsOK
  <1>19. SelectionsOK'
    <2>1. /\ \A w \in Windows : others[w] \cup rrEvents[w] # {} => w \in Alive
          /\ \A w \in Windows : rrEvents[w] # {} => HasEntry(w, "RREvent", w)'
      BY <1>0, <1>2, <1>16 DEF SelectionsOK
    <2>2. \A w \in Windows : others[w] \subseteq AllFakeIds /\ rrEvents[w] \subseteq AllFakeIds
      BY <1>0 DEF TypesOK
    <2>3. \A w \in Windows :
            /\ \A id \in others[w] : HasEntry(id, "OtherClient", w)'
            /\ \A id \in rrEvents[w] : HasEntry(id, "RRClient", w)'
      BY <1>0, <1>2, <1>16, <2>2 DEF SelectionsOK
    <2>4. \A d \in Clients : \A e \in EntriesIn(table'[d]) :
             /\ e.type = "OtherClient" => e.id \in others[e.win]
             /\ e.type = "RRClient" => e.id \in rrEvents[e.win]
      BY <1>0, <1>2, <1>8 DEF SelectionsOK
    <2> QED BY <1>5, <1>17, <2>1, <2>3, <2>4 DEF SelectionsOK
  <1> QED BY <1>5, <1>9, <1>11, <1>12, <1>13, <1>14, <1>15, <1>18, <1>19 DEF ResourcesInv

LEMMA FreeNextOfAllStep ==
  ASSUME ResourcesInv, FreeNextOfAll
  PROVE  ResourcesInv'
  <1>a. PICK c : c = Head(todo).client
    OBVIOUS
  <1>0. TypesOK /\ StackOK
    BY DEF ResourcesInv
  <1>1. /\ Top("FreeAll") /\ UNCHANGED <<parent, others, rrEvents, saveSet>>
        /\ \/ /\ EntriesIn(table[c]) = {}
              /\ table' = [table EXCEPT ![c] = NoTable]
              /\ state' = [state EXCEPT ![c] = "free"]
              /\ fake' = [fake EXCEPT ![c] = NewFakes]
              /\ spared' = {}
              /\ Return
           \/ \E b \in DOMAIN table[c].bucket : \E i \in DOMAIN table[c].bucket[b] :
                /\ FirstOf(table[c], Types, b, i)
                /\ table' = [table EXCEPT ![c] = Unlink(table[c], b, i)]
                /\ CallFirst(<<DeleteFunc(table[c].bucket[b][i])>>)
                /\ UNCHANGED <<state, fake, spared>>
    BY <1>a DEF FreeNextOfAll
  <1>2. Head(todo) = FreeAll(c)
    <2>1. todo # <<>> /\ Head(todo).op = "FreeAll" /\ Head(todo).op \in Bottoms
      BY <1>1 DEF Top, Bottoms
    <2>2. Head(todo) \in Calls
      BY <1>0, <2>1, OnlyCall
    <2> QED BY <1>a, <2>1, <2>2, CallKinds
  <1>3. CASE /\ EntriesIn(table[c]) = {}
             /\ table' = [table EXCEPT ![c] = NoTable]
             /\ state' = [state EXCEPT ![c] = "free"]
             /\ fake' = [fake EXCEPT ![c] = NewFakes]
             /\ spared' = {}
             /\ Return
    BY <1>1, <1>2, <1>3, ClientFreedStep
  <1>4. ASSUME NEW b, NEW i, FirstOf(table[c], Types, b, i),
               table' = [table EXCEPT ![c] = Unlink(table[c], b, i)],
               CallFirst(<<DeleteFunc(table[c].bucket[b][i])>>),
               UNCHANGED <<state, fake, spared>>
        PROVE  ResourcesInv'
    BY <1>1, <1>2, <1>4, FreeNextStep DEF CutUnchanged
  <1> QED BY <1>1, <1>3, <1>4

-----------------------------------------------------------------------------
(* Between requests.                                                       *)

\* What tables, tree and lists have to do with each other when no resource is
\* being freed.
Listed ==
    /\ \A w \in Alive : HasEntry(w, "Window", w)
    /\ \A c \in Clients : \A e \in EntriesIn(table[c]) :
          /\ e.win \in Alive
          /\ e.type = "OtherClient" => e.id \in others[e.win]
          /\ e.type = "RRClient" => e.id \in rrEvents[e.win]
    /\ \A w \in Windows :
          /\ others[w] \cup rrEvents[w] # {} => w \in Alive
          /\ rrEvents[w] # {} => HasEntry(w, "RREvent", w)
          /\ \A id \in others[w] : HasEntry(id, "OtherClient", w)
          /\ \A id \in rrEvents[w] : HasEntry(id, "RRClient", w)

LEMMA Quiet ==
  ASSUME ResourcesInv, todo = <<>>
  PROVE  /\ Listed /\ spared = {} /\ Frames(todo) = {}
         /\ \A c : ~ClosingIs(c) /\ ~RetainingIs(c)
         /\ \A w : ~Freeing(w) /\ ~Clearing(w)
         /\ \A d : ~Deleting(d)
         /\ \A id, skip : ~Sparing(id, skip)
         /\ \A c \in Clients : /\ table[c] = NoTable <=> state[c] = "free"
                               /\ state[c] = "free" => fake[c] = NewFakes
                               /\ state[c] # "closing"
                               /\ state[c] = "retained" => \A e \in EntriesIn(table[c]) : e.type # "OtherClient"
  <1>0. WindowsOK /\ SelectionsOK /\ ClientsOK /\ SparedOK
    BY DEF ResourcesInv
  <1>1. Frames(todo) = {} /\ \A c : ~ClosingIs(c) /\ ~RetainingIs(c)
    BY NoFrames DEF ClosingIs, RetainingIs
  <1>2. (\A w : ~Freeing(w) /\ ~Clearing(w)) /\ (\A d : ~Deleting(d)) /\ \A id, skip : ~Sparing(id, skip)
    BY <1>1 DEF Freeing, Clearing, Deleting, Sparing
  <1>3. Listed
    <2>1. \A w \in Alive : HasEntry(w, "Window", w)
      BY <1>0, <1>2 DEF WindowsOK
    <2>2. \A c \in Clients : \A e \in EntriesIn(table[c]) :
            /\ e.win \in Alive
            /\ e.type = "OtherClient" => e.id \in others[e.win]
            /\ e.type = "RRClient" => e.id \in rrEvents[e.win]
      BY <1>0, <1>2 DEF WindowsOK, SelectionsOK
    <2>3. \A w \in Windows :
            /\ others[w] \cup rrEvents[w] # {} => w \in Alive
            /\ rrEvents[w] # {} => HasEntry(w, "RREvent", w)
            /\ \A id \in others[w] : HasEntry(id, "OtherClient", w)
            /\ \A id \in rrEvents[w] : HasEntry(id, "RRClient", w)
      BY <1>0, <1>2 DEF SelectionsOK
    <2> QED BY <2>1, <2>2, <2>3 DEF Listed
  <1>4. \A c \in Clients : /\ table[c] = NoTable <=> state[c] = "free"
                           /\ state[c] = "free" => fake[c] = NewFakes
                           /\ state[c] # "closing"
                           /\ state[c] = "retained" => \A e \in EntriesIn(table[c]) : e.type # "OtherClient"
    BY <1>0, <1>1 DEF ClientsOK
  <1> QED BY <1>0, <1>1, <1>2, <1>3, <1>4 DEF SparedOK

LEMMA CalmAfter ==
  ASSUME \A f \in Frames(todo') : f.op \in Bottoms, Listed'
  PROVE  WindowsOK' /\ SelectionsOK' /\ ScansOK' /\ \A w : ~Freeing(w)'
  <1>1. /\ \A v : FreeWindow(v).op \notin Bottoms
        /\ \A d : Delete(d).op \notin Bottoms
        /\ "Free" \notin Bottoms
    BY CallFields DEF Bottoms
  <1>2. (\A w : ~Freeing(w)') /\ \A d : ~Deleting(d)'
    BY <1>1 DEF Freeing, Deleting
  <1>3. WindowsOK'
    BY <1>2 DEF Listed, WindowsOK
  <1>4. SelectionsOK'
    BY <1>2 DEF Listed, SelectionsOK
  <1> QED BY <1>1, <1>2, <1>3, <1>4 DEF ScansOK

\* After a request that frees nothing.
LEMMA QuietAfter ==
  ASSUME todo' = <<>>, spared' = {}, TypesOK', TablesOK', TreeOK', SaveSetsOK', FakesOK', Listed',
         \A c \in Clients : /\ table'[c] = NoTable <=> state'[c] = "free"
                            /\ state'[c] = "free" => fake'[c] = NewFakes
                            /\ state'[c] # "closing"
                            /\ state'[c] = "retained" => \A e \in EntriesIn(table'[c]) : e.type # "OtherClient"
  PROVE  ResourcesInv'
  <1>1. Frames(todo') = {} /\ StackOK' /\ \A c : ~ClosingIs(c)' /\ ~RetainingIs(c)'
    BY NoFrames DEF ClosingIs, RetainingIs, StackOK
  <1>2. WindowsOK' /\ SelectionsOK' /\ ScansOK'
    BY <1>1, CalmAfter
  <1>3. ClientsOK' /\ SparedOK'
    BY <1>1 DEF ClientsOK, SparedOK
  <1> QED BY <1>1, <1>2, <1>3 DEF ResourcesInv

\* An entry is added to a table.
TablesAre(T) == DOMAIN T = Clients /\ \A c \in Clients : TableOK(c, T[c])

Fits(t, e) == \A d \in EntriesIn(t) : Ordered(e, d)

Entering(T, U, c, id, type, w) ==
    /\ DOMAIN U = Clients /\ U[c] = AddResource(T[c], id, type, w)
    /\ \A d \in Clients : d # c => U[d] = T[d]

\* The entries of the tables change only by one more.
Entered(T, U, c, e) ==
    \A d \in Clients : /\ U[d] = NoTable <=> T[d] = NoTable
                       /\ EntriesIn(U[d]) = EntriesIn(T[d]) \cup IF d = c THEN {e} ELSE {}

LEMMA Enter ==
  ASSUME NEW T, TablesAre(T), NEW c \in Clients, T[c] # NoTable, NEW id, NEW type, NEW w,
         EntryOK(c, EntryOf(id, type, w)), Fits(T[c], EntryOf(id, type, w)), NEW U, Entering(T, U, c, id, type, w)
  PROVE  TablesAre(U) /\ Entered(T, U, c, EntryOf(id, type, w))
  <1> DEFINE t == AddResource(T[c], id, type, w)
  <1>1. TableOK(c, T[c]) /\ DOMAIN T = Clients
    BY DEF TablesAre
  <1>2. TableOK(c, t) /\ t # NoTable /\ EntriesIn(t) = EntriesIn(T[c]) \cup {EntryOf(id, type, w)}
    BY <1>1, Adding DEF Fits
  <1>3. DOMAIN U = Clients /\ U[c] = t /\ \A d \in Clients : d # c => U[d] = T[d]
    BY DEF Entering
  <1> HIDE DEF t
  <1>4. TablesAre(U)
    BY <1>2, <1>3 DEF TablesAre
  <1>5. ASSUME NEW d \in Clients
        PROVE  /\ U[d] = NoTable <=> T[d] = NoTable
               /\ EntriesIn(U[d]) = EntriesIn(T[d]) \cup IF d = c THEN {EntryOf(id, type, w)} ELSE {}
    <2>1. CASE d = c
      BY <1>2, <1>3, <2>1
    <2>2. CASE d # c
      BY <1>3, <2>2
    <2> QED BY <2>1, <2>2
  <1> QED BY <1>4, <1>5 DEF Entered

\* A request begins to free something.
LEMMA Starting ==
  ASSUME ResourcesInv, todo = <<>>, CallUnchanged, UNCHANGED saveSet, ListTypes', NEW R, Forgets(R),
         NEW g \in Calls, Base(g), todo' = <<g>>,
         g.op = "DestroySubwindows" \/ (g.op = "Free" /\ g.prev = TheHead /\ KindOK(g) /\ DropOK(g)'),
         \A c \in Clients : \A x \in EntriesIn(table[c]) : x.id \in R => x.type = "RRClient" /\ IsFree(g, "RRClient") /\ g.id = x.id
  PROVE  ResourcesInv'
  <1>0. TypesOK /\ TablesOK /\ SelectionsOK /\ ScansOK /\ StackOK
    BY DEF ResourcesInv
  <1>1. /\ Frames(todo) = {}
        /\ \A c : ~ClosingIs(c) /\ ~RetainingIs(c)
        /\ \A w : ~Freeing(w) /\ ~Clearing(w)
        /\ \A d : ~Deleting(d)
        /\ \A id, skip : ~Sparing(id, skip)
    BY Quiet
  <1>2. Alive' = Alive /\ Childless' = Childless /\ table' = table
    BY DEF CallUnchanged, Alive, Childless, Children
  <1>3. /\ todo' \in Seq(Calls) /\ StackOK' /\ Frames(todo') = {g} /\ LastOf(todo') = g
    <2>1. <<g>> \in Seq(Calls) /\ Stack(<<g>>, Childless) /\ Frames(<<g>>) = {g} /\ LastOf(<<g>>) = g
      BY StackOne
    <2> QED BY <1>2, <2>1 DEF StackOK
  <1>4. \A c : ~ClosingIs(c)' /\ ~RetainingIs(c)'
    BY <1>3, CallFields DEF ClosingIs, RetainingIs
  <1>5. /\ \A w : ~Freeing(w)'
        /\ \A d : ~Deleting(d)'
        /\ \A id, skip : IsFree(g, skip) /\ g.id = id => Sparing(id, skip)'
    BY <1>3, CallFields DEF Freeing, Deleting, Sparing
  <1>6. SelectionsOK'
    <2>1. \A c \in Clients : \A x \in EntriesIn(table[c]) : x.id \in R => x.type = "RRClient" /\ Sparing(x.id, "RRClient")'
      BY <1>5
    <2>2. \A w \in Alive \ Alive' : others[w] \cup rrEvents[w] \subseteq R
      BY <1>2
    <2> QED BY <1>0, <1>1, <1>2, <1>5, <2>1, <2>2, ListsShrink
  <1>7. ScansOK'
    BY <1>0, <1>2, <1>3, ScansKept DEF Forgets
  <1> QED BY <1>1, <1>3, <1>4, <1>5, <1>6, <1>7, Calling

-----------------------------------------------------------------------------
(* Requests.                                                               *)

LEMMA InitClientResourcesStep ==
  ASSUME ResourcesInv, NEW c \in Clients, InitClientResources(c)
  PROVE  ResourcesInv'
  <1>0. TypesOK /\ TablesOK /\ TreeOK /\ SaveSetsOK /\ FakesOK
    BY DEF ResourcesInv
  <1>1. /\ todo = <<>> /\ todo' = <<>> /\ state[c] = "free"
        /\ state' = [state EXCEPT ![c] = "running"] /\ table' = [table EXCEPT ![c] = NewTable]
        /\ fake' = fake /\ parent' = parent /\ others' = others /\ rrEvents' = rrEvents /\ saveSet' = saveSet /\ spared' = spared
    BY DEF InitClientResources
  <1>2. /\ Listed /\ spared = {}
        /\ \A d \in Clients : /\ table[d] = NoTable <=> state[d] = "free"
                              /\ state[d] = "free" => fake[d] = NewFakes
                              /\ state[d] # "closing"
                              /\ state[d] = "retained" => \A e \in EntriesIn(table[d]) : e.type # "OtherClient"
    BY <1>1, Quiet
  <1>3. /\ DOMAIN table' = Clients /\ table'[c] = NewTable
        /\ \A d \in Clients : d # c => table'[d] = table[d]
    BY <1>0, <1>1 DEF TablesOK
  <1>4. TableOK(c, NewTable) /\ NewTable # NoTable /\ EntriesIn(NewTable) = {} /\ EntriesIn(table[c]) = {}
    BY <1>1, <1>2, NewTableIs, NoTableIsEmpty
  <1>5. TablesOK' /\ \A d \in Clients : EntriesIn(table'[d]) = EntriesIn(table[d])
    BY <1>0, <1>3, <1>4 DEF TablesOK
  <1>6. \A d \in Clients : state'[d] = IF d = c THEN "running" ELSE state[d]
    BY <1>0, <1>1 DEF TypesOK
  <1>7. TypesOK'
    <2>1. state' \in [Clients -> {"free", "running", "retained", "closing"}]
      BY <1>0, <1>1 DEF TypesOK
    <2> QED BY <1>0, <1>1, <2>1 DEF TypesOK, ParentsOK, Alive
  <1>8. TreeOK' /\ SaveSetsOK'
    BY <1>0, <1>1 DEF TreeOK, SaveSetsOK, Alive
  <1>9. FakesOK'
    BY <1>0, <1>1, <1>5 DEF FakesOK, FakeOK, UnusedFake, Holds
  <1>10. \A id \in Windows \cup AllFakeIds : \A type, w : HasEntry(id, type, w)' <=> HasEntry(id, type, w)
    BY <1>5, AllIds DEF HasEntry
  <1>11. Alive' = Alive /\ Alive \subseteq Windows
    BY <1>0, <1>1 DEF Alive, TypesOK, ParentsOK
  <1>12. Listed'
    <2>1. \A w \in Alive : HasEntry(w, "Window", w)'
      BY <1>2, <1>10, <1>11 DEF Listed
    <2>2. \A w \in Windows : others[w] \subseteq AllFakeIds /\ rrEvents[w] \subseteq AllFakeIds
      BY <1>0 DEF TypesOK
    <2>3. \A w \in Windows :
            /\ others[w] \cup rrEvents[w] # {} => w \in Alive
            /\ rrEvents[w] # {} => HasEntry(w, "RREvent", w)'
            /\ \A id \in others[w] : HasEntry(id, "OtherClient", w)'
            /\ \A id \in rrEvents[w] : HasEntry(id, "RRClient", w)'
      BY <1>2, <1>10, <2>2 DEF Listed
    <2>4. \A d \in Clients : \A e \in EntriesIn(table'[d]) :
             /\ e.win \in Alive
             /\ e.type = "OtherClient" => e.id \in others[e.win]
             /\ e.type = "RRClient" => e.id \in rrEvents[e.win]
      BY <1>2, <1>5 DEF Listed
    <2> QED BY <1>1, <1>11, <2>1, <2>3, <2>4 DEF Listed
  <1>13. ASSUME NEW d \in Clients
         PROVE  /\ table'[d] = NoTable <=> state'[d] = "free"
                /\ state'[d] = "free" => fake'[d] = NewFakes
                /\ state'[d] # "closing"
                /\ state'[d] = "retained" => \A e \in EntriesIn(table'[d]) : e.type # "OtherClient"
    <2>1. CASE d = c
      BY <1>3, <1>4, <1>6, <2>1
    <2>2. CASE d # c
      BY <1>1, <1>2, <1>3, <1>6, <2>2
    <2> QED BY <2>1, <2>2
  <1> QED BY <1>1, <1>2, <1>5, <1>7, <1>8, <1>9, <1>12, <1>13, QuietAfter

LEMMA CreateWindowStep ==
  ASSUME ResourcesInv, NEW c \in Clients, NEW w \in Windows, NEW p, CreateWindow(c, w, p)
  PROVE  ResourcesInv'
  <1>0. TypesOK /\ TablesOK /\ TreeOK /\ SaveSetsOK /\ FakesOK /\ ParentsOK
    BY DEF ResourcesInv, TypesOK
  <1>1. /\ todo = <<>> /\ todo' = <<>> /\ state[c] = "running" /\ Owner(w) = c /\ ~Holds(table[c], w) /\ p \in Alive \cup {Root}
        /\ parent' = [x \in Alive \cup {w} |-> IF x = w THEN p ELSE parent[x]]
        /\ table' = [table EXCEPT ![c] = AddResource(@, w, "Window", w)]
        /\ state' = state /\ fake' = fake /\ others' = others /\ rrEvents' = rrEvents /\ saveSet' = saveSet /\ spared' = spared
    BY DEF CreateWindow, Requests
  <1>2. /\ Listed /\ spared = {}
        /\ \A d \in Clients : /\ table[d] = NoTable <=> state[d] = "free"
                              /\ state[d] = "free" => fake[d] = NewFakes
                              /\ state[d] # "closing"
                              /\ state[d] = "retained" => \A e \in EntriesIn(table[d]) : e.type # "OtherClient"
    BY <1>1, Quiet
  <1>3. PICK e : e = EntryOf(w, "Window", w)
    OBVIOUS
  <1>4. e.id = w /\ e.type = "Window" /\ e.win = w /\ IsOwn(w)
    BY <1>3, WindowIds DEF EntryOf
  <1>5. w \notin Alive
    <2>1. HasEntry(w, "Window", w) => Holds(table[c], w)
      BY <1>1, <1>3, <1>4 DEF HasEntry, Holds
    <2> QED BY <1>1, <1>2, <2>1 DEF Listed
  <1>6. EntryOK(c, e)
    <2>1. e \in Entries
      BY <1>3 DEF EntryOf, Entries, Types
    <2> QED BY <1>1, <1>4, <2>1 DEF EntryOK
  <1>7. TablesOK' /\ Entered(table, table', c, e)
    <2>1. TablesAre(table) /\ table[c] # NoTable
      BY <1>0, <1>1, <1>2 DEF TablesOK, TablesAre
    <2>2. Fits(table[c], e)
      BY <1>1, <1>4 DEF Fits, Ordered, Holds
    <2>3. Entering(table, table', c, w, "Window", w)
      BY <1>0, <1>1 DEF Entering, TablesOK
    <2>4. TablesAre(table') /\ Entered(table, table', c, EntryOf(w, "Window", w))
      BY <1>3, <1>6, <2>1, <2>2, <2>3, Enter
    <2> QED BY <1>3, <2>4 DEF TablesAre, TablesOK
  <1>8. Alive' = Alive \cup {w} /\ ParentsOK' /\ TreeOK'
    BY <1>0, <1>1, <1>5, CreatingKeepsTheTree
  <1>9. TypesOK' /\ SaveSetsOK'
    BY <1>0, <1>1, <1>8 DEF TypesOK, SaveSetsOK
  <1>10. FakesOK'
    <2>1. \A n : <<c, "fake", n>> # w
      BY WindowIds
    <2>2. \A d \in Clients : \A n : UnusedFake(d, table[d], n) => UnusedFake(d, table'[d], n)
      BY <1>4, <1>7, <2>1 DEF UnusedFake, Holds, Entered
    <2> QED BY <1>0, <1>1, <2>2 DEF FakesOK, FakeOK
  <1>11. /\ \A id \in Windows \cup AllFakeIds : \A type, v : HasEntry(id, type, v) => HasEntry(id, type, v)'
         /\ HasEntry(w, "Window", w)'
    BY <1>1, <1>3, <1>7, AllIds DEF HasEntry, Entered
  <1>12. Listed'
    <2>1. \A v \in Alive' : HasEntry(v, "Window", v)'
      BY <1>0, <1>2, <1>8, <1>11 DEF Listed, ParentsOK
    <2>2. \A v \in Windows : others[v] \subseteq AllFakeIds /\ rrEvents[v] \subseteq AllFakeIds
      BY <1>0 DEF TypesOK
    <2>3. \A v \in Windows :
            /\ others[v] \cup rrEvents[v] # {} => v \in Alive'
            /\ rrEvents[v] # {} => HasEntry(v, "RREvent", v)'
            /\ \A id \in others[v] : HasEntry(id, "OtherClient", v)'
            /\ \A id \in rrEvents[v] : HasEntry(id, "RRClient", v)'
      BY <1>2, <1>8, <1>11, <2>2 DEF Listed
    <2>4. \A d \in Clients : \A x \in EntriesIn(table'[d]) :
             /\ x.win \in Alive'
             /\ x.type = "OtherClient" => x.id \in others[x.win]
             /\ x.type = "RRClient" => x.id \in rrEvents[x.win]
      BY <1>2, <1>4, <1>7, <1>8 DEF Listed, Entered
    <2> QED BY <1>1, <2>1, <2>3, <2>4 DEF Listed
  <1>13. \A d \in Clients :
            /\ table'[d] = NoTable <=> state'[d] = "free"
            /\ state'[d] = "free" => fake'[d] = NewFakes
            /\ state'[d] # "closing"
            /\ state'[d] = "retained" => \A x \in EntriesIn(table'[d]) : x.type # "OtherClient"
    BY <1>1, <1>2, <1>4, <1>7 DEF Entered
  <1> QED BY <1>1, <1>2, <1>7, <1>8, <1>9, <1>10, <1>12, <1>13, QuietAfter

\* Neither tables nor lists are changed.
LEMMA OnlyTreeStep ==
  ASSUME ResourcesInv, todo = <<>>, UNCHANGED <<state, table, fake, others, rrEvents, todo, spared>>,
         Alive' = Alive, ParentsOK', TreeOK', saveSet' \in [Clients -> SUBSET Windows], SaveSetsOK'
  PROVE  ResourcesInv'
  <1>0. TypesOK /\ TablesOK /\ FakesOK
    BY DEF ResourcesInv
  <1>1. /\ Listed /\ spared = {}
        /\ \A d \in Clients : /\ table[d] = NoTable <=> state[d] = "free"
                              /\ state[d] = "free" => fake[d] = NewFakes
                              /\ state[d] # "closing"
                              /\ state[d] = "retained" => \A e \in EntriesIn(table[d]) : e.type # "OtherClient"
    BY Quiet
  <1>2. TypesOK'
    BY <1>0 DEF TypesOK
  <1>3. TablesOK' /\ FakesOK'
    BY <1>0 DEF TablesOK, FakesOK, FakeOK, UnusedFake
  <1>4. Listed'
    BY <1>1 DEF Listed, HasEntry
  <1> QED BY <1>1, <1>2, <1>3, <1>4, QuietAfter

LEMMA ReparentWindowStep ==
  ASSUME ResourcesInv, NEW c \in Clients, NEW w \in Windows, NEW p, ReparentWindow(c, w, p)
  PROVE  ResourcesInv'
  <1>0. TypesOK /\ TreeOK /\ SaveSetsOK /\ ParentsOK
    BY DEF ResourcesInv, TypesOK
  <1>1. Alive' = Alive /\ ParentsOK' /\ TreeOK'
    BY <1>0, ReparentingKeepsTheTree DEF ReparentWindow
  <1>2. /\ todo = <<>> /\ UNCHANGED <<state, table, fake, others, rrEvents, todo, spared>> /\ saveSet' = saveSet
    BY DEF ReparentWindow, Requests
  <1>3. saveSet' \in [Clients -> SUBSET Windows] /\ SaveSetsOK'
    BY <1>0, <1>1, <1>2 DEF TypesOK, SaveSetsOK
  <1> QED BY <1>1, <1>2, <1>3, OnlyTreeStep

LEMMA ChangeSaveSetStep ==
  ASSUME ResourcesInv, NEW c \in Clients, NEW w \in Windows, ChangeSaveSet(c, w)
  PROVE  ResourcesInv'
  <1>0. TypesOK /\ TreeOK /\ SaveSetsOK /\ ParentsOK
    BY DEF ResourcesInv, TypesOK
  <1>1. /\ todo = <<>> /\ UNCHANGED <<state, table, fake, others, rrEvents, todo, spared>> /\ parent' = parent
        /\ w \in Alive /\ Owner(w) # c
        /\ saveSet' = [saveSet EXCEPT ![c] = IF w \in @ THEN @ \ {w} ELSE @ \cup {w}]
    BY DEF ChangeSaveSet, Requests
  <1>2. Alive' = Alive /\ ParentsOK' /\ TreeOK'
    BY <1>0, <1>1 DEF Alive, ParentsOK, TreeOK
  <1>3. saveSet \in [Clients -> SUBSET Windows]
    BY <1>0 DEF TypesOK
  <1>4. \A d \in Clients : saveSet'[d] \subseteq saveSet[d] \cup IF d = c THEN {w} ELSE {}
    BY <1>1, <1>3
  <1>5. saveSet' \in [Clients -> SUBSET Windows] /\ SaveSetsOK'
    BY <1>0, <1>1, <1>2, <1>3, <1>4 DEF SaveSetsOK
  <1> QED BY <1>1, <1>2, <1>5, OnlyTreeStep

LEMMA DestroyRequestStep ==
  ASSUME ResourcesInv, NEW c \in Clients, NEW w, DestroyRequest(c, w)
  PROVE  ResourcesInv'
  <1>0. TypesOK /\ ParentsOK
    BY DEF ResourcesInv, TypesOK
  <1>1. /\ todo = <<>> /\ CallUnchanged /\ UNCHANGED <<others, rrEvents, saveSet>>
        /\ (w \in Alive /\ todo' = <<Free(w, "None")>>) \/ (w \in Alive \cup {Root} /\ todo' = <<DestroySubwindows(w)>>)
    BY DEF DestroyRequest, Requests, CallUnchanged
  <1>2. ListTypes' /\ Forgets({})
    BY <1>0, <1>1 DEF ListTypes, Forgets, TypesOK
  <1>3. CASE w \in Alive /\ todo' = <<Free(w, "None")>>
    <2> DEFINE g == Free(w, "None")
    <2>1. w \in Windows \cup AllFakeIds /\ IsOwn(w)
      BY <1>0, <1>3, WindowIds DEF ParentsOK
    <2>2. g \in Calls /\ IsFree(g, "None") /\ g.id = w /\ g.op = "Free" /\ g.prev = TheHead /\ g.skip = "None"
      BY <2>1, CallFields DEF IsFree
    <2>3. todo' = <<g>>
      BY <1>3
    <2> HIDE DEF g
    <2>4. Base(g) /\ KindOK(g) /\ DropOK(g)'
      BY <2>1, <2>2 DEF Base, KindOK, DropOK
    <2> QED BY <1>1, <1>2, <2>2, <2>3, <2>4, Starting
  <1>4. CASE w \in Alive \cup {Root} /\ todo' = <<DestroySubwindows(w)>>
    <2> DEFINE g == DestroySubwindows(w)
    <2>1. w \in Windows \cup {Root}
      BY <1>0, <1>4 DEF ParentsOK
    <2>2. g \in Calls /\ g.op = "DestroySubwindows" /\ Base(g)
      BY <2>1, CallFields DEF Base, Bottoms
    <2>3. todo' = <<g>>
      BY <1>4
    <2> HIDE DEF g
    <2> QED BY <1>1, <1>2, <2>2, <2>3, Starting
  <1> QED BY <1>1, <1>3, <1>4

\* A request of a running client that adds a selection.
Adds(c, w, id) ==
    /\ todo = <<>> /\ todo' = <<>> /\ state[c] = "running" /\ w \in Alive
    /\ \E i \in FakeIds(c) : ~Holds(table[c], i)
    /\ id = <<c, "fake", FakeClientID(c).id>> /\ fake' = [fake EXCEPT ![c] = FakeClientID(c).then]
    /\ UNCHANGED <<state, parent, saveSet, spared>>

LEMMA AddedId ==
  ASSUME ResourcesInv, NEW c \in Clients, NEW w \in Windows, NEW id, Adds(c, w, id)
  PROVE  /\ id \in AllFakeIds /\ ~IsOwn(id) /\ Owner(id) = c /\ ~Holds(table[c], id)
         /\ fake' \in [Clients -> [next : 0 .. FakeRange, end : 0 .. FakeRange]]
         /\ \A d \in Clients : d # c => fake'[d] = fake[d]
         /\ fake'[c].next <= fake'[c].end
         /\ \A n \in fake'[c].next .. fake'[c].end - 1 : UnusedFake(c, table[c], n) /\ <<c, "fake", n>> # id
         /\ \A type \in {"OtherClient", "RRClient"} :
               EntryOK(c, EntryOf(id, type, w)) /\ Fits(table[c], EntryOf(id, type, w))
         /\ table[c] # NoTable
  <1>0. TypesOK /\ TablesOK /\ FakesOK
    BY DEF ResourcesInv
  <1>1. PICK new : new = FakeClientID(c)
    OBVIOUS
  <1>2. /\ todo = <<>> /\ state[c] = "running" /\ \E i \in FakeIds(c) : ~Holds(table[c], i)
        /\ id = <<c, "fake", new.id>> /\ fake' = [fake EXCEPT ![c] = new.then]
    BY <1>1 DEF Adds
  <1>3. TableOK(c, table[c]) /\ FakeOK(c)
    BY <1>0 DEF TablesOK, FakesOK
  <1>4. /\ new.id \in 0 .. FakeRange - 1 /\ UnusedFake(c, table[c], new.id)
        /\ new.then \in [next : 0 .. FakeRange, end : 0 .. FakeRange] /\ new.then.next <= new.then.end
        /\ \A n \in new.then.next .. new.then.end - 1 : UnusedFake(c, table[c], n) /\ n # new.id
    BY <1>1, <1>2, <1>3, FakeIdsAreNew
  <1>5. id \in AllFakeIds /\ ~IsOwn(id) /\ Owner(id) = c /\ ~Holds(table[c], id)
    BY <1>2, <1>4, FakeIdsAre DEF UnusedFake, Owner
  <1>6. /\ fake' \in [Clients -> [next : 0 .. FakeRange, end : 0 .. FakeRange]]
        /\ fake'[c] = new.then
        /\ \A d \in Clients : d # c => fake'[d] = fake[d]
    BY <1>0, <1>2, <1>4 DEF TypesOK
  <1>7. \A n \in fake'[c].next .. fake'[c].end - 1 : UnusedFake(c, table[c], n) /\ <<c, "fake", n>> # id
    BY <1>2, <1>4, <1>6
  <1>8. ASSUME NEW type \in {"OtherClient", "RRClient"}
        PROVE  EntryOK(c, EntryOf(id, type, w)) /\ Fits(table[c], EntryOf(id, type, w))
    <2>1. /\ EntryOf(id, type, w).id = id /\ EntryOf(id, type, w).type = type /\ EntryOf(id, type, w).win = w
          /\ EntryOf(id, type, w) \in Entries
      BY <1>5 DEF EntryOf, Entries, Types
    <2>2. EntryOK(c, EntryOf(id, type, w))
      BY <1>5, <2>1 DEF EntryOK
    <2>3. Fits(table[c], EntryOf(id, type, w))
      BY <1>5, <2>1 DEF Fits, Ordered, Holds
    <2> QED BY <2>2, <2>3
  <1>9. table[c] # NoTable
    BY <1>2, Quiet
  <1> QED BY <1>4, <1>5, <1>6, <1>7, <1>8, <1>9

\* Entries new of the ID go to its client's table, and more may go to others.
Additions(c, w, id, new, more) ==
    /\ \A e \in new : /\ e.id = id /\ e.win = w
                      /\ e.type = "OtherClient" => id \in others'[w]
                      /\ e.type = "RRClient" => id \in rrEvents'[w]
    /\ \A e \in more : IsOwn(e.id) /\ e.win = w /\ e.type = "RREvent"
    /\ \A d \in Clients : /\ table'[d] = NoTable <=> table[d] = NoTable
                          /\ EntriesIn(table[d]) \subseteq EntriesIn(table'[d])
                          /\ EntriesIn(table'[d]) \subseteq EntriesIn(table[d]) \cup more \cup IF d = c THEN new ELSE {}
    /\ \A v \in Windows : /\ others[v] \subseteq others'[v] /\ rrEvents[v] \subseteq rrEvents'[v]
                          /\ others'[v] \subseteq others[v] \cup IF v = w THEN {id} ELSE {}
                          /\ rrEvents'[v] \subseteq rrEvents[v] \cup IF v = w THEN {id} ELSE {}
    /\ id \in others'[w] => id \in others[w] \/ HasEntry(id, "OtherClient", w)'
    /\ id \in rrEvents'[w] => id \in rrEvents[w] \/ (HasEntry(id, "RRClient", w)' /\ HasEntry(w, "RREvent", w)')

LEMMA AddsStep ==
  ASSUME ResourcesInv, NEW c \in Clients, NEW w \in Windows, NEW id, Adds(c, w, id), TablesOK', ListTypes',
         NEW new, NEW more, Additions(c, w, id, new, more)
  PROVE  ResourcesInv'
  <1>a. /\ \A e \in new : /\ e.id = id /\ e.win = w
                          /\ e.type = "OtherClient" => id \in others'[w]
                          /\ e.type = "RRClient" => id \in rrEvents'[w]
        /\ \A e \in more : IsOwn(e.id) /\ e.win = w /\ e.type = "RREvent"
    BY DEF Additions
  <1>b. \A d \in Clients : /\ table'[d] = NoTable <=> table[d] = NoTable
                           /\ EntriesIn(table[d]) \subseteq EntriesIn(table'[d])
                           /\ EntriesIn(table'[d]) \subseteq EntriesIn(table[d]) \cup more \cup IF d = c THEN new ELSE {}
    BY DEF Additions
  <1>c. /\ \A v \in Windows : /\ others[v] \subseteq others'[v] /\ rrEvents[v] \subseteq rrEvents'[v]
                              /\ others'[v] \subseteq others[v] \cup IF v = w THEN {id} ELSE {}
                              /\ rrEvents'[v] \subseteq rrEvents[v] \cup IF v = w THEN {id} ELSE {}
        /\ id \in others'[w] => id \in others[w] \/ HasEntry(id, "OtherClient", w)'
        /\ id \in rrEvents'[w] => id \in rrEvents[w] \/ (HasEntry(id, "RRClient", w)' /\ HasEntry(w, "RREvent", w)')
    BY DEF Additions
  <1>0. TypesOK /\ TablesOK /\ TreeOK /\ SaveSetsOK /\ FakesOK /\ ParentsOK
    BY DEF ResourcesInv, TypesOK
  <1>1. /\ todo = <<>> /\ todo' = <<>> /\ state[c] = "running" /\ w \in Alive
        /\ state' = state /\ parent' = parent /\ saveSet' = saveSet /\ spared' = spared
    BY DEF Adds
  <1>2. /\ Listed /\ spared = {}
        /\ \A d \in Clients : /\ table[d] = NoTable <=> state[d] = "free"
                              /\ state[d] = "free" => fake[d] = NewFakes
                              /\ state[d] # "closing"
                              /\ state[d] = "retained" => \A e \in EntriesIn(table[d]) : e.type # "OtherClient"
    BY <1>1, Quiet
  <1>3. /\ id \in AllFakeIds /\ ~IsOwn(id) /\ Owner(id) = c
        /\ fake' \in [Clients -> [next : 0 .. FakeRange, end : 0 .. FakeRange]]
        /\ \A d \in Clients : d # c => fake'[d] = fake[d]
        /\ fake'[c].next <= fake'[c].end
        /\ \A n \in fake'[c].next .. fake'[c].end - 1 : UnusedFake(c, table[c], n) /\ <<c, "fake", n>> # id
    BY AddedId
  <1>4. Alive' = Alive /\ ParentsOK' /\ TreeOK' /\ SaveSetsOK'
    BY <1>0, <1>1 DEF Alive, ParentsOK, TreeOK, SaveSetsOK
  <1>5. TypesOK'
    <2>1. todo' \in Seq(Calls) /\ spared' \subseteq Windows
      BY <1>0, <1>1 DEF TypesOK
    <2> QED BY <1>0, <1>1, <1>3, <1>4, <2>1 DEF TypesOK, ListTypes
  <1>6. FakesOK'
    <2> SUFFICES ASSUME NEW d \in Clients PROVE FakeOK(d)'
      BY DEF FakesOK
    <2>1. \A e \in more : \A n : e.id # <<d, "fake", n>>
      BY <1>a DEF IsOwn
    <2>2. CASE d = c
      <3>1. \A n \in fake'[c].next .. fake'[c].end - 1 : UnusedFake(c, table'[c], n)
        BY <1>a, <1>b, <1>3, <2>1, <2>2 DEF UnusedFake, Holds
      <3>2. fake'[c] \in [next : 0 .. FakeRange, end : 0 .. FakeRange]
        BY <1>3
      <3> QED BY <1>3, <2>2, <3>1, <3>2 DEF FakeOK
    <2>3. CASE d # c
      <3>1. fake'[d] = fake[d] /\ FakeOK(d)
        BY <1>0, <1>3, <2>3 DEF FakesOK
      <3>2. \A n : UnusedFake(d, table[d], n) => UnusedFake(d, table'[d], n)
        BY <1>b, <2>1, <2>3 DEF UnusedFake, Holds
      <3> QED BY <3>1, <3>2 DEF FakeOK
    <2> QED BY <2>2, <2>3
  <1>7. \A i \in Windows \cup AllFakeIds : \A type, v : HasEntry(i, type, v) => HasEntry(i, type, v)'
    BY <1>b, AllIds DEF HasEntry
  <1>8. Listed'
    <2>1. \A v \in Alive' : HasEntry(v, "Window", v)'
      BY <1>0, <1>2, <1>4, <1>7 DEF Listed, ParentsOK
    <2>2. ASSUME NEW v \in Windows
          PROVE  /\ others'[v] \cup rrEvents'[v] # {} => v \in Alive'
                 /\ rrEvents'[v] # {} => HasEntry(v, "RREvent", v)'
                 /\ \A i \in others'[v] : HasEntry(i, "OtherClient", v)'
                 /\ \A i \in rrEvents'[v] : HasEntry(i, "RRClient", v)'
      <3>1. others[v] \subseteq AllFakeIds /\ rrEvents[v] \subseteq AllFakeIds
        BY <1>0 DEF TypesOK
      <3>2. /\ others[v] \cup rrEvents[v] # {} => v \in Alive
            /\ rrEvents[v] # {} => HasEntry(v, "RREvent", v)'
            /\ \A i \in others[v] : HasEntry(i, "OtherClient", v)'
            /\ \A i \in rrEvents[v] : HasEntry(i, "RRClient", v)'
        BY <1>2, <1>7, <3>1 DEF Listed
      <3>3. CASE v = w
        BY <1>c, <1>1, <1>4, <3>2, <3>3
      <3>4. CASE v # w
        BY <1>c, <1>4, <3>2, <3>4
      <3> QED BY <3>3, <3>4
    <2>3. ASSUME NEW d \in Clients, NEW e \in EntriesIn(table'[d])
          PROVE  /\ e.win \in Alive
                 /\ e.type = "OtherClient" => e.id \in others'[e.win]
                 /\ e.type = "RRClient" => e.id \in rrEvents'[e.win]
      <3>1. e \in EntriesIn(table[d]) \/ e \in more \/ e \in new
        BY <1>b
      <3>2. CASE e \in EntriesIn(table[d])
        <4>1. /\ e.win \in Alive /\ e.win \in Windows
              /\ e.type = "OtherClient" => e.id \in others[e.win]
              /\ e.type = "RRClient" => e.id \in rrEvents[e.win]
          BY <1>0, <1>2, <3>2 DEF Listed, ParentsOK
        <4> QED BY <1>c, <4>1
      <3>3. CASE e \in more
        BY <1>a, <1>1, <3>3
      <3>4. CASE e \in new
        BY <1>a, <1>1, <3>4
      <3> QED BY <3>1, <3>2, <3>3, <3>4
    <2> QED BY <1>4, <2>1, <2>2, <2>3 DEF Listed
  <1>9. ASSUME NEW d \in Clients
        PROVE  /\ table'[d] = NoTable <=> state'[d] = "free"
               /\ state'[d] = "free" => fake'[d] = NewFakes
               /\ state'[d] # "closing"
               /\ state'[d] = "retained" => \A e \in EntriesIn(table'[d]) : e.type # "OtherClient"
    <2>1. CASE d = c
      BY <1>b, <1>1, <1>2, <2>1
    <2>2. CASE d # c
      <3>1. EntriesIn(table'[d]) \subseteq EntriesIn(table[d]) \cup more
        BY <1>b, <2>2
      <3> QED BY <1>a, <1>b, <1>1, <1>2, <1>3, <2>2, <3>1
    <2> QED BY <2>1, <2>2
  <1> QED BY <1>1, <1>2, <1>4, <1>5, <1>6, <1>8, <1>9, QuietAfter

LEMMA EventSelectForWindowStep ==
  ASSUME ResourcesInv, NEW c \in Clients, NEW w \in Windows, EventSelectForWindow(c, w)
  PROVE  ResourcesInv'
  <1>0. TypesOK /\ TablesOK /\ SelectionsOK /\ ParentsOK
    BY DEF ResourcesInv, TypesOK
  <1>1. /\ todo = <<>> /\ state[c] = "running" /\ w \in Alive /\ UNCHANGED <<state, parent, rrEvents, saveSet, spared>>
        /\ \/ \E id \in others[w] :
                Owner(id) = c /\ todo' = <<Free(id, "None")>> /\ UNCHANGED <<table, fake, others>>
           \/ \E id :
                /\ MaySelect(c) /\ todo' = todo
                /\ id = <<c, "fake", FakeClientID(c).id>> /\ fake' = [fake EXCEPT ![c] = FakeClientID(c).then]
                /\ others' = [others EXCEPT ![w] = @ \cup {id}]
                /\ table' = [table EXCEPT ![c] = AddResource(@, id, "OtherClient", w)]
    BY DEF EventSelectForWindow, Requests
  <1>2. ASSUME NEW id \in others[w], todo' = <<Free(id, "None")>>, UNCHANGED <<table, fake, others>>
        PROVE  ResourcesInv'
    <2> DEFINE g == Free(id, "None")
    <2>1. \A d : ~Deleting(d)
      BY <1>1, Quiet
    <2>2. /\ id \in AllFakeIds /\ ~IsOwn(id)
          /\ \A e \in EntriesIn(table[Owner(id)]) : e.id = id => e.type = "OtherClient"
      BY <1>0, <2>1, OnOthers
    <2>3. g \in Calls /\ IsFree(g, "None") /\ g.id = id /\ g.op = "Free" /\ g.prev = TheHead /\ g.skip = "None"
      BY <2>2, CallFields DEF IsFree
    <2>4. todo' = <<g>>
      BY <1>2
    <2> HIDE DEF g
    <2>5. Base(g) /\ KindOK(g) /\ DropOK(g)'
      BY <2>2, <2>3 DEF Base, KindOK, DropOK
    <2>6. ListTypes' /\ Forgets({}) /\ CallUnchanged
      BY <1>0, <1>1, <1>2 DEF ListTypes, Forgets, TypesOK, CallUnchanged
    <2> QED BY <1>1, <2>3, <2>4, <2>5, <2>6, Starting
  <1>3. ASSUME NEW id, MaySelect(c), todo' = todo,
               id = <<c, "fake", FakeClientID(c).id>>, fake' = [fake EXCEPT ![c] = FakeClientID(c).then],
               others' = [others EXCEPT ![w] = @ \cup {id}],
               table' = [table EXCEPT ![c] = AddResource(@, id, "OtherClient", w)]
        PROVE  ResourcesInv'
    <2>1. Adds(c, w, id)
      BY <1>1, <1>3 DEF Adds, MaySelect
    <2>2. /\ id \in AllFakeIds /\ Owner(id) = c /\ table[c] # NoTable
          /\ EntryOK(c, EntryOf(id, "OtherClient", w)) /\ Fits(table[c], EntryOf(id, "OtherClient", w))
      BY <2>1, AddedId
    <2>3. PICK e : e = EntryOf(id, "OtherClient", w)
      OBVIOUS
    <2>4. TablesOK' /\ Entered(table, table', c, e)
      <3>1. TablesAre(table)
        BY <1>0 DEF TablesOK, TablesAre
      <3>2. Entering(table, table', c, id, "OtherClient", w)
        BY <1>0, <1>3 DEF Entering, TablesOK
      <3>3. TablesAre(table') /\ Entered(table, table', c, EntryOf(id, "OtherClient", w))
        BY <2>2, <3>1, <3>2, Enter
      <3> QED BY <2>3, <3>3 DEF TablesAre, TablesOK
    <2>5. ListTypes' /\ others \in [Windows -> SUBSET AllFakeIds]
      BY <1>0, <1>1, <1>3, <2>2 DEF ListTypes, TypesOK
    <2>6. \A v \in Windows : others'[v] = others[v] \cup IF v = w THEN {id} ELSE {}
      BY <1>3, <2>5
    <2>7. e.id = id /\ e.win = w /\ e.type = "OtherClient"
      BY <2>3 DEF EntryOf
    <2>8. HasEntry(id, "OtherClient", w)'
      BY <2>2, <2>3, <2>4 DEF HasEntry, Entered
    <2>9. PICK N, M : N = {e} /\ M = {}
      OBVIOUS
    <2>10. \A x \in N : x.id = id /\ x.win = w /\ (x.type = "OtherClient" => id \in others'[w])
                       /\ (x.type = "RRClient" => id \in rrEvents'[w])
      BY <2>6, <2>7, <2>9
    <2>11. \A x \in M : IsOwn(x.id) /\ x.win = w /\ x.type = "RREvent"
      BY <2>9
    <2>12. \A d \in Clients : /\ table'[d] = NoTable <=> table[d] = NoTable
                              /\ EntriesIn(table[d]) \subseteq EntriesIn(table'[d])
                              /\ EntriesIn(table'[d]) \subseteq EntriesIn(table[d]) \cup M \cup IF d = c THEN N ELSE {}
      BY <2>4, <2>9 DEF Entered
    <2>13. \A v \in Windows : /\ others[v] \subseteq others'[v] /\ rrEvents[v] \subseteq rrEvents'[v]
                              /\ others'[v] \subseteq others[v] \cup IF v = w THEN {id} ELSE {}
                              /\ rrEvents'[v] \subseteq rrEvents[v] \cup IF v = w THEN {id} ELSE {}
      BY <1>1, <2>6
    <2>14. id \in rrEvents'[w] => id \in rrEvents[w]
      BY <1>1
    <2>15. Additions(c, w, id, N, M)
      BY <2>8, <2>10, <2>11, <2>12, <2>13, <2>14 DEF Additions
    <2> QED BY <2>1, <2>4, <2>5, <2>15, AddsStep
  <1> QED BY <1>1, <1>2, <1>3

LEMMA RRDeselectStep ==
  ASSUME ResourcesInv, NEW c \in Clients, NEW w \in Windows, RRDeselect(c, w)
  PROVE  ResourcesInv'
  <1>0. TypesOK /\ TablesOK /\ SelectionsOK
    BY DEF ResourcesInv
  <1>1. /\ todo = <<>> /\ CallUnchanged /\ UNCHANGED <<others, saveSet>>
        /\ \E id \in rrEvents[w] : /\ rrEvents' = [rrEvents EXCEPT ![w] = @ \ {id}]
                                   /\ todo' = <<Free(id, "RRClient")>>
    BY DEF RRDeselect, Requests, CallUnchanged
  <1>2. PICK id \in rrEvents[w] : rrEvents' = [rrEvents EXCEPT ![w] = @ \ {id}] /\ todo' = <<Free(id, "RRClient")>>
    BY <1>1
  <1> DEFINE g == Free(id, "RRClient")
  <1>3. \A d : ~Deleting(d)
    BY <1>1, Quiet
  <1>4. /\ id \in AllFakeIds /\ ~IsOwn(id)
        /\ \A e \in EntriesIn(table[Owner(id)]) : e.id = id => e.type = "RRClient"
        /\ \A v \in Windows : (id \in others[v] => FALSE) /\ (id \in rrEvents[v] => v = w)
    BY <1>0, <1>3, OnList
  <1>5. g \in Calls /\ IsFree(g, "RRClient") /\ g.id = id /\ g.op = "Free" /\ g.prev = TheHead /\ g.skip = "RRClient"
    BY <1>4, CallFields DEF IsFree, Types
  <1>6. todo' = <<g>>
    BY <1>2
  <1> HIDE DEF g
  <1>7. ListTypes' /\ Forgets({id})
    BY <1>0, <1>1, <1>2, <1>4 DEF ListTypes, Forgets, TypesOK
  <1>8. Base(g) /\ KindOK(g) /\ DropOK(g)'
    BY <1>4, <1>5, <1>7 DEF Base, KindOK, DropOK, Forgets
  <1>9. \A d \in Clients : \A x \in EntriesIn(table[d]) : x.id = id => x.type = "RRClient"
    BY <1>0, <1>4, TableTypes DEF TablesOK, EntryOK
  <1> QED BY <1>1, <1>5, <1>6, <1>7, <1>8, <1>9, Starting

LEMMA RetainStep ==
  ASSUME ResourcesInv, NEW c \in Clients, todo = <<>>, state[c] = "running", Retain(c)
  PROVE  ResourcesInv'
  <1>0. TypesOK /\ TablesOK /\ TreeOK /\ SaveSetsOK /\ FakesOK
    BY DEF ResourcesInv
  <1>1. /\ state' = [state EXCEPT ![c] = "retained"] /\ todo' = <<FreeNeverRetained(c)>>
        /\ table' = table /\ fake' = fake /\ parent' = parent /\ others' = others /\ rrEvents' = rrEvents
        /\ saveSet' = saveSet /\ spared' = spared
    BY DEF Retain
  <1>2. /\ Listed /\ spared = {}
        /\ \A d \in Clients : /\ table[d] = NoTable <=> state[d] = "free"
                              /\ state[d] = "free" => fake[d] = NewFakes
                              /\ state[d] # "closing"
                              /\ state[d] = "retained" => \A e \in EntriesIn(table[d]) : e.type # "OtherClient"
    BY Quiet
  <1>3. \A d \in Clients : state'[d] = IF d = c THEN "retained" ELSE state[d]
    BY <1>0, <1>1 DEF TypesOK
  <1>4. FreeNeverRetained(c) \in Calls /\ FreeNeverRetained(c).op = "FreeNeverRetained" /\ Base(FreeNeverRetained(c))
    BY CallFields DEF Base, Bottoms
  <1>5. /\ todo' \in Seq(Calls) /\ todo' # <<>> /\ StackOK' /\ Frames(todo') = {FreeNeverRetained(c)} /\ LastOf(todo') = FreeNeverRetained(c)
    BY <1>1, <1>4, StackOne DEF StackOK
  <1>6. \A d : ~ClosingIs(d)' /\ (RetainingIs(d)' <=> d = c)
    BY <1>4, <1>5, CallFields DEF ClosingIs, RetainingIs
  <1>7. TypesOK'
    <2>1. state' \in [Clients -> {"free", "running", "retained", "closing"}]
      BY <1>0, <1>1 DEF TypesOK
    <2> QED BY <1>0, <1>1, <1>5, <2>1 DEF TypesOK, ParentsOK, Alive
  <1>8. TablesOK' /\ TreeOK' /\ SaveSetsOK' /\ FakesOK'
    BY <1>0, <1>1 DEF TablesOK, TreeOK, SaveSetsOK, FakesOK, FakeOK, UnusedFake, Alive
  <1>9. Listed'
    BY <1>1, <1>2 DEF Listed, HasEntry, Alive
  <1>10. WindowsOK' /\ SelectionsOK' /\ ScansOK'
    BY <1>4, <1>5, <1>9, CalmAfter DEF Bottoms
  <1>11. ClientsOK'
    BY <1>1, <1>2, <1>3, <1>6 DEF ClientsOK
  <1>12. SparedOK'
    BY <1>1, <1>2 DEF SparedOK
  <1> QED BY <1>5, <1>7, <1>8, <1>10, <1>11, <1>12 DEF ResourcesInv

LEMMA DestroyStep ==
  ASSUME ResourcesInv, NEW c \in Clients, todo = <<>>, state[c] \in {"running", "retained"}, Destroy(c)
  PROVE  ResourcesInv'
  <1>0. TypesOK /\ TablesOK /\ TreeOK /\ SaveSetsOK /\ FakesOK /\ ParentsOK
    BY DEF ResourcesInv, TypesOK
  <1>1. /\ state' = [state EXCEPT ![c] = "closing"] /\ todo' = <<FreeAll(c)>>
        /\ parent' = HandleSaveSet(c) /\ spared' = Protected(c) /\ saveSet' = [saveSet EXCEPT ![c] = {}]
        /\ table' = table /\ fake' = fake /\ others' = others /\ rrEvents' = rrEvents
    BY DEF Destroy
  <1>2. /\ Listed /\ spared = {}
        /\ \A d \in Clients : /\ table[d] = NoTable <=> state[d] = "free"
                              /\ state[d] = "free" => fake[d] = NewFakes
                              /\ state[d] # "closing"
                              /\ state[d] = "retained" => \A e \in EntriesIn(table[d]) : e.type # "OtherClient"
    BY Quiet
  <1>3. \A d \in Clients : state'[d] = IF d = c THEN "closing" ELSE state[d]
    BY <1>0, <1>1 DEF TypesOK
  <1>4. FreeAll(c) \in Calls /\ FreeAll(c).op = "FreeAll" /\ Base(FreeAll(c))
    BY CallFields DEF Base, Bottoms
  <1>5. /\ todo' \in Seq(Calls) /\ todo' # <<>> /\ StackOK' /\ Frames(todo') = {FreeAll(c)} /\ LastOf(todo') = FreeAll(c)
    <2>1. /\ <<FreeAll(c)>> \in Seq(Calls) /\ <<FreeAll(c)>> # <<>> /\ \A L : Stack(<<FreeAll(c)>>, L)
          /\ Frames(<<FreeAll(c)>>) = {FreeAll(c)} /\ LastOf(<<FreeAll(c)>>) = FreeAll(c)
      BY <1>4, StackOne
    <2> QED BY <1>1, <2>1 DEF StackOK
  <1>6. \A d : (ClosingIs(d)' <=> d = c) /\ ~RetainingIs(d)'
    BY <1>4, <1>5, CallFields DEF ClosingIs, RetainingIs
  <1>7. Alive' = Alive /\ ParentsOK' /\ TreeOK'
    BY <1>0, <1>1, HandlingKeepsTheTree
  <1>8. \A d \in Clients : saveSet'[d] = IF d = c THEN {} ELSE saveSet[d]
    BY <1>0, <1>1 DEF TypesOK
  <1>9. Protected(c) \subseteq Alive /\ \A w \in Protected(c) : Owner(w) # c
    BY <1>0 DEF Protected, SaveSetsOK
  <1>10. TypesOK'
    <2>1. state' \in [Clients -> {"free", "running", "retained", "closing"}]
      BY <1>0, <1>1 DEF TypesOK
    <2>2. saveSet' \in [Clients -> SUBSET Windows]
      BY <1>0, <1>1 DEF TypesOK
    <2>3. spared' \subseteq Windows
      BY <1>0, <1>1, <1>9 DEF ParentsOK
    <2> QED BY <1>0, <1>1, <1>5, <1>7, <2>1, <2>2, <2>3 DEF TypesOK
  <1>11. TablesOK' /\ SaveSetsOK' /\ FakesOK'
    BY <1>0, <1>1, <1>7, <1>8 DEF TablesOK, SaveSetsOK, FakesOK, FakeOK, UnusedFake
  <1>12. Listed'
    BY <1>1, <1>2, <1>7 DEF Listed, HasEntry
  <1>13. WindowsOK' /\ SelectionsOK' /\ ScansOK' /\ \A w : ~Freeing(w)'
    BY <1>4, <1>5, <1>12, CalmAfter DEF Bottoms
  <1>14. ClientsOK'
    BY <1>1, <1>2, <1>3, <1>6 DEF ClientsOK
  <1>15. SparedOK'
    <2> DEFINE S == {z \in Alive : Owner(z) # c /\ \E w \in Protected(c) : z = w \/ z \in Above(w)}
    <2>1. Protected(c) \subseteq S
      BY <1>9
    <2>2. ASSUME NEW z \in S PROVE Owner(z) # c /\ parent'[z] \in S \cup {Root}
      <3>1. PICK w \in Protected(c) : z = w \/ z \in Above(w)
        OBVIOUS
      <3>2. z \in Alive /\ Owner(z) # c
        OBVIOUS
      <3>3. parent'[z] = Root \/ (parent'[z] \in Above(w) /\ parent'[z] \in Alive /\ Owner(parent'[z]) # c)
        BY <1>0, <1>1, <3>1, <3>2, ProtectedHeirs
      <3> QED BY <3>2, <3>3
    <2>3. S \in SUBSET Alive
      OBVIOUS
    <2>4. PICK T \in SUBSET Alive : T = S
      BY <2>3
    <2> HIDE DEF S
    <2>5. Shelter(c, T)'
      BY <1>1, <1>13, <2>1, <2>2, <2>4 DEF Shelter
    <2> QED BY <1>6, <1>7, <2>5 DEF SparedOK
  <1> QED BY <1>5, <1>7, <1>10, <1>11, <1>13, <1>14, <1>15 DEF ResourcesInv

LEMMA CloseDownClientStep ==
  ASSUME ResourcesInv, NEW c \in Clients, CloseDownClient(c)
  PROVE  ResourcesInv'
  BY DestroyStep, RetainStep DEF CloseDownClient

LEMMA RRSelectStep ==
  ASSUME ResourcesInv, NEW c \in Clients, NEW w \in Windows, RRSelect(c, w)
  PROVE  ResourcesInv'
  <1>0. TypesOK /\ TablesOK
    BY DEF ResourcesInv
  <1>1. PICK id, mine :
          /\ todo = <<>> /\ state[c] = "running" /\ w \in Alive /\ MaySelect(c)
          /\ UNCHANGED <<state, parent, others, saveSet, todo, spared>>
          /\ id = <<c, "fake", FakeClientID(c).id>> /\ fake' = [fake EXCEPT ![c] = FakeClientID(c).then]
          /\ rrEvents' = [rrEvents EXCEPT ![w] = @ \cup {id}]
          /\ mine = [table EXCEPT ![c] = AddResource(@, id, "RRClient", w)]
          /\ table' = IF HasEventList(w) THEN mine
                      ELSE [mine EXCEPT ![Owner(w)] = AddResource(@, w, "RREvent", w)]
    BY DEF RRSelect, Requests
  <1>2. Adds(c, w, id)
    BY <1>1 DEF Adds, MaySelect
  <1>3. /\ id \in AllFakeIds /\ ~IsOwn(id) /\ Owner(id) = c /\ table[c] # NoTable
        /\ EntryOK(c, EntryOf(id, "RRClient", w)) /\ Fits(table[c], EntryOf(id, "RRClient", w))
    BY <1>2, AddedId
  <1>4. PICK e : e = EntryOf(id, "RRClient", w)
    OBVIOUS
  <1>5. TablesAre(table) /\ DOMAIN table = Clients
    BY <1>0 DEF TablesOK, TablesAre
  <1>6. TablesAre(mine) /\ Entered(table, mine, c, e)
    <2>1. Entering(table, mine, c, id, "RRClient", w)
      BY <1>1, <1>5 DEF Entering
    <2> QED BY <1>3, <1>4, <1>5, <2>1, Enter
  <1>7. Owner(w) \in Clients /\ IsOwn(w) /\ w \in Windows \cup AllFakeIds /\ w # id
    BY <1>3, WindowIds
  <1>8. HasEntry(w, "Window", w)
    BY <1>1, Quiet DEF Listed
  <1>9. PICK N, M, l : N = {e} /\ M = {l} \ {x \in {l} : HasEventList(w)} /\ l = EntryOf(w, "RREvent", w)
    OBVIOUS
  <1>10. /\ e.id = id /\ e.win = w /\ e.type = "RRClient"
         /\ l.id = w /\ l.win = w /\ l.type = "RREvent"
    BY <1>4, <1>9 DEF EntryOf
  <1>11. /\ TablesAre(table')
         /\ \A d \in Clients : /\ table'[d] = NoTable <=> table[d] = NoTable
                               /\ EntriesIn(table[d]) \subseteq EntriesIn(table'[d])
                               /\ EntriesIn(table'[d]) \subseteq EntriesIn(table[d]) \cup M \cup IF d = c THEN N ELSE {}
         /\ HasEntry(id, "RRClient", w)' /\ HasEntry(w, "RREvent", w)'
    <2>1. CASE HasEventList(w)
      <3>1. table' = mine
        BY <1>1, <2>1
      <3>2. l \in EntriesIn(table[Owner(w)])
        BY <1>0, <1>7, <1>9, <2>1, HasEventListIs DEF HasEntry
      <3>3. \A d \in Clients : /\ table'[d] = NoTable <=> table[d] = NoTable
                               /\ EntriesIn(table'[d]) = EntriesIn(table[d]) \cup IF d = c THEN N ELSE {}
        BY <1>6, <1>9, <3>1 DEF Entered
      <3>4. e \in EntriesIn(table'[c]) /\ l \in EntriesIn(table'[Owner(w)])
        BY <1>7, <1>9, <3>2, <3>3
      <3>5. HasEntry(id, "RRClient", w)' /\ HasEntry(w, "RREvent", w)'
        BY <1>3, <1>4, <1>9, <3>4 DEF HasEntry
      <3> QED BY <1>6, <3>1, <3>3, <3>5
    <2>2. CASE ~HasEventList(w)
      <3>1. table' = [mine EXCEPT ![Owner(w)] = AddResource(@, w, "RREvent", w)]
        BY <1>1, <2>2
      <3>2. Entering(mine, table', Owner(w), w, "RREvent", w)
        BY <1>6, <1>7, <3>1 DEF Entering, TablesAre
      <3>3. EntryOK(Owner(w), l)
        BY <1>7, <1>9, <1>10 DEF EntryOK, Entries, EntryOf, Types
      <3>4. table[Owner(w)] # NoTable /\ mine[Owner(w)] # NoTable
        BY <1>6, <1>7, <1>8, NoTableIsEmpty DEF HasEntry, Entered
      <3>5. \A x \in EntriesIn(mine[Owner(w)]) : x \in EntriesIn(table[Owner(w)]) \/ x = e
        BY <1>6, <1>7 DEF Entered
      <3>6. Fits(mine[Owner(w)], l)
        <4> SUFFICES ASSUME NEW x \in EntriesIn(mine[Owner(w)]), x.id = w PROVE x.type = "Window"
          BY <1>10 DEF Fits, Ordered
        <4>1. x \in EntriesIn(table[Owner(w)])
          BY <1>7, <1>10, <3>5
        <4>2. x.type \in {"Window", "RREvent"}
          BY <1>5, <1>7, <4>1, TableTypes, EntryFields DEF TablesAre
        <4>3. x.type # "RREvent"
          BY <2>2, <4>1 DEF HasEventList
        <4> QED BY <4>2, <4>3
      <3>7. TablesAre(table') /\ Entered(mine, table', Owner(w), l)
        BY <1>6, <1>7, <1>9, <3>2, <3>3, <3>4, <3>6, Enter
      <3>8. \A d \in Clients : /\ table'[d] = NoTable <=> table[d] = NoTable
                               /\ EntriesIn(table[d]) \subseteq EntriesIn(table'[d])
                               /\ EntriesIn(table'[d]) \subseteq EntriesIn(table[d]) \cup {l} \cup IF d = c THEN N ELSE {}
                               /\ d = c => e \in EntriesIn(table'[d])
                               /\ d = Owner(w) => l \in EntriesIn(table'[d])
        BY <1>6, <1>9, <3>7 DEF Entered
      <3>9. HasEntry(id, "RRClient", w)' /\ HasEntry(w, "RREvent", w)'
        BY <1>3, <1>4, <1>7, <1>9, <3>8 DEF HasEntry
      <3>10. M = {l}
        BY <1>9, <2>2
      <3> QED BY <3>7, <3>8, <3>9, <3>10
    <2> QED BY <2>1, <2>2
  <1>12. ListTypes' /\ \A v \in Windows : rrEvents'[v] = rrEvents[v] \cup IF v = w THEN {id} ELSE {}
    <2>1. rrEvents \in [Windows -> SUBSET AllFakeIds] /\ others \in [Windows -> SUBSET AllFakeIds]
      BY <1>0 DEF TypesOK
    <2>2. rrEvents' = [rrEvents EXCEPT ![w] = @ \cup {id}] /\ others' = others
      BY <1>1
    <2>3. \A v \in Windows : rrEvents'[v] = rrEvents[v] \cup IF v = w THEN {id} ELSE {}
      BY <2>1, <2>2
    <2>4. rrEvents' \in [Windows -> SUBSET AllFakeIds]
      BY <1>3, <2>1, <2>2
    <2>5. others' \in [Windows -> SUBSET AllFakeIds] /\ saveSet' \in [Clients -> SUBSET Windows]
      BY <1>0, <1>1, <2>1, <2>2 DEF TypesOK
    <2>6. ListTypes'
      BY <2>4, <2>5 DEF ListTypes
    <2> QED BY <2>3, <2>6
  <1>13. Additions(c, w, id, N, M)
    <2>1. \A x \in N : /\ x.id = id /\ x.win = w
                       /\ x.type = "OtherClient" => id \in others'[w]
                       /\ x.type = "RRClient" => id \in rrEvents'[w]
      BY <1>9, <1>10, <1>12
    <2>2. \A x \in M : IsOwn(x.id) /\ x.win = w /\ x.type = "RREvent"
      BY <1>7, <1>9, <1>10
    <2>3. \A v \in Windows : /\ others[v] \subseteq others'[v] /\ rrEvents[v] \subseteq rrEvents'[v]
                             /\ others'[v] \subseteq others[v] \cup IF v = w THEN {id} ELSE {}
                             /\ rrEvents'[v] \subseteq rrEvents[v] \cup IF v = w THEN {id} ELSE {}
      BY <1>1, <1>12
    <2>4. id \in others'[w] => id \in others[w]
      BY <1>1
    <2> QED BY <1>11, <2>1, <2>2, <2>3, <2>4 DEF Additions
  <1>14. TablesOK'
    BY <1>11 DEF TablesAre, TablesOK
  <1> QED BY <1>2, <1>12, <1>13, <1>14, AddsStep

-----------------------------------------------------------------------------
(* The theorems.                                                           *)

LEMMA InitOK ==
  ASSUME Init
  PROVE  ResourcesInv
  <1>1. /\ state = [c \in Clients |-> "free"] /\ table = [c \in Clients |-> NoTable]
        /\ fake = [c \in Clients |-> NewFakes] /\ parent = <<>>
        /\ others = [w \in Windows |-> {}] /\ rrEvents = [w \in Windows |-> {}]
        /\ saveSet = [c \in Clients |-> {}] /\ todo = <<>> /\ spared = {}
    BY DEF Init
  <1>2. Alive = {}
    <2>1. DOMAIN <<>> = {}
      OBVIOUS
    <2> QED BY <1>1, <2>1 DEF Alive
  <1>3. NewFakes \in [next : 0 .. FakeRange, end : 0 .. FakeRange] /\ NewFakes.next <= NewFakes.end
    BY ResourcesAssumption DEF NewFakes
  <1>4. todo \in Seq(Calls) /\ Frames(todo) = {} /\ StackOK /\ \A c : ~ClosingIs(c) /\ ~RetainingIs(c)
    <2>1. <<>> \in Seq(Calls)
      OBVIOUS
    <2> QED BY <1>1, <2>1, NoFrames DEF ClosingIs, RetainingIs, StackOK
  <1>5. \A c \in Clients : table[c] = NoTable /\ EntriesIn(table[c]) = {}
    BY <1>1, NoTableIsEmpty
  <1>6. TypesOK
    BY <1>1, <1>2, <1>3, <1>4 DEF TypesOK, ParentsOK
  <1>7. TablesOK /\ ScansOK /\ TreeOK /\ SaveSetsOK
    BY <1>1, <1>2, <1>4, <1>5 DEF TablesOK, TableOK, ScansOK, TreeOK, SaveSetsOK
  <1>8. (\A w : ~Freeing(w)) /\ \A d : ~Deleting(d)
    BY <1>4 DEF Freeing, Deleting
  <1>9. WindowsOK
    BY <1>2, <1>5, <1>8 DEF WindowsOK
  <1>10. SelectionsOK
    BY <1>1, <1>5, <1>8 DEF SelectionsOK
  <1>11. ClientsOK
    BY <1>1, <1>4, <1>5 DEF ClientsOK
  <1>12. FakesOK
    BY <1>1, <1>3, <1>5 DEF FakesOK, FakeOK, UnusedFake, Holds
  <1>13. SparedOK
    BY <1>1 DEF SparedOK
  <1> QED BY <1>4, <1>6, <1>7, <1>9, <1>10, <1>11, <1>12, <1>13 DEF ResourcesInv

LEMMA UnchangedOK ==
  ASSUME ResourcesInv, UNCHANGED vars
  PROVE  ResourcesInv'
  <1>1. /\ state' = state /\ table' = table /\ fake' = fake /\ parent' = parent /\ others' = others
        /\ rrEvents' = rrEvents /\ saveSet' = saveSet /\ todo' = todo /\ spared' = spared
    BY DEF vars
  <1>2. TypesOK' /\ TablesOK' /\ StackOK' /\ TreeOK' /\ SaveSetsOK'
    BY <1>1 DEF ResourcesInv, TypesOK, ParentsOK, Alive, TablesOK, StackOK, Childless, Children, TreeOK, SaveSetsOK
  <1>3. ScansOK' /\ FakesOK'
    BY <1>1 DEF ResourcesInv, ScansOK, ScanOK, KindOK, DropOK, FakesOK, FakeOK, UnusedFake
  <1>4. WindowsOK' /\ SelectionsOK'
    BY <1>1 DEF ResourcesInv, WindowsOK, SelectionsOK, HasEntry, Freeing, Clearing, Deleting, Sparing, Alive
  <1>5. ClientsOK' /\ SparedOK'
    BY <1>1 DEF ResourcesInv, ClientsOK, ClosingIs, RetainingIs, SparedOK, Shelter, Freeing, Alive
  <1> QED BY <1>2, <1>3, <1>4, <1>5 DEF ResourcesInv

LEMMA NextOK ==
  ASSUME ResourcesInv, [Next]_vars
  PROVE  ResourcesInv'
  <1>1. CASE CallStep
    BY <1>1, FreeResourceStep, OtherClientGoneStep, RRFreeClientStep, FreeRREventStep, DeleteWindowStep,
       DestroyNextSubwindowStep, FreeNextNeverRetainedStep, FreeNextOfAllStep DEF CallStep
  <1>2. ASSUME NEW c \in Clients, RequestStep(c) PROVE ResourcesInv'
    <2>1. CASE InitClientResources(c)
      BY <2>1, InitClientResourcesStep
    <2>2. CASE CloseDownClient(c)
      BY <2>2, CloseDownClientStep
    <2>3. ASSUME NEW w \in Windows, NEW p \in Windows \cup {Root}, CreateWindow(c, w, p) \/ ReparentWindow(c, w, p)
          PROVE  ResourcesInv'
      BY <2>3, CreateWindowStep, ReparentWindowStep
    <2>4. ASSUME NEW w \in Windows, ChangeSaveSet(c, w) PROVE ResourcesInv'
      BY <2>4, ChangeSaveSetStep
    <2>5. ASSUME NEW w \in Windows, EventSelectForWindow(c, w) PROVE ResourcesInv'
      BY <2>5, EventSelectForWindowStep
    <2>6. ASSUME NEW w \in Windows, RRSelect(c, w) \/ RRDeselect(c, w) PROVE ResourcesInv'
      BY <2>6, RRSelectStep, RRDeselectStep
    <2>7. ASSUME NEW w, DestroyRequest(c, w) PROVE ResourcesInv'
      BY <2>7, DestroyRequestStep
    <2> QED BY <1>2, <2>1, <2>2, <2>3, <2>4, <2>5, <2>6, <2>7 DEF RequestStep
  <1>3. CASE UNCHANGED vars
    BY <1>3, UnchangedOK
  <1> QED BY <1>1, <1>2, <1>3 DEF Next

LEMMA Invariance == Spec => []ResourcesInv
  <1>1. Init => ResourcesInv
    BY InitOK
  <1>2. ResourcesInv /\ [Next]_vars => ResourcesInv'
    BY NextOK
  <1> QED BY <1>1, <1>2, PTL DEF Spec

\* The variables keep their types: no table, ID, stack of calls or tree leaves
\* what the code provides for, however deep the frees are nested.
THEOREM ResourcesTypeCorrect == Spec => []TypeOK
  <1>1. ResourcesInv => TypeOK
    BY TypesAreOK DEF ResourcesInv
  <1> QED BY <1>1, Invariance, PTL

LEMMA InvMatches ==
  ASSUME ResourcesInv
  PROVE  TablesMatchTheTree
  <1> SUFFICES ASSUME todo = <<>>
               PROVE  /\ \A c \in Clients : \A e \in EntriesIn(table[c]) :
                            /\ Owner(e.id) = c /\ e.win \in Alive
                            /\ e.type \in {"Window", "RREvent"} => e.id = e.win
                            /\ e.type = "OtherClient" => e.id \in others[e.win]
                            /\ e.type = "RRClient" => e.id \in rrEvents[e.win]
                      /\ \A w \in Alive :
                            Holds(table[Owner(w)], w) /\ (rrEvents[w] # {} => HasEventList(w))
                      /\ \A w \in Windows : \A id \in others[w] \cup rrEvents[w] :
                            w \in Alive /\ Holds(table[Owner(id)], id)
                      /\ \A c \in Clients : saveSet[c] \subseteq Alive
    BY DEF TablesMatchTheTree
  <1>0. TypesOK /\ TablesOK /\ SaveSetsOK /\ ParentsOK
    BY DEF ResourcesInv, TypesOK
  <1>1. Listed
    BY Quiet
  <1>2. ASSUME NEW id, NEW type, NEW w, HasEntry(id, type, w)
        PROVE  Holds(table[Owner(id)], id)
    <2>1. EntryOf(id, type, w).id = id
      BY DEF EntryOf
    <2> QED BY <1>2, <2>1 DEF HasEntry, Holds
  <1>3. ASSUME NEW c \in Clients, NEW e \in EntriesIn(table[c])
        PROVE  /\ Owner(e.id) = c /\ e.win \in Alive
               /\ e.type \in {"Window", "RREvent"} => e.id = e.win
               /\ e.type = "OtherClient" => e.id \in others[e.win]
               /\ e.type = "RRClient" => e.id \in rrEvents[e.win]
    <2>1. EntryOK(c, e)
      BY <1>0, TableTypes DEF TablesOK
    <2> QED BY <1>1, <2>1, EntryFields DEF Listed
  <1>4. ASSUME NEW w \in Alive
        PROVE  Holds(table[Owner(w)], w) /\ (rrEvents[w] # {} => HasEventList(w))
    <2>1. w \in Windows /\ HasEntry(w, "Window", w) /\ (rrEvents[w] # {} => HasEntry(w, "RREvent", w))
      BY <1>0, <1>1 DEF Listed, ParentsOK
    <2> QED BY <1>0, <1>2, <2>1, HasEventListIs
  <1>5. ASSUME NEW w \in Windows, NEW id \in others[w] \cup rrEvents[w]
        PROVE  w \in Alive /\ Holds(table[Owner(id)], id)
    <2>1. HasEntry(id, "OtherClient", w) \/ HasEntry(id, "RRClient", w)
      BY <1>1 DEF Listed
    <2> QED BY <1>1, <1>2, <2>1 DEF Listed
  <1>6. \A c \in Clients : saveSet[c] \subseteq Alive
    BY <1>0 DEF SaveSetsOK
  <1> QED BY <1>3, <1>4, <1>5, <1>6

LEMMA InvRetained ==
  ASSUME ResourcesInv
  PROVE  RetainedClientsSelectNothing
  <1> SUFFICES ASSUME todo = <<>>, NEW c \in Clients, state[c] = "retained", NEW w \in Windows,
                      NEW id \in others[w], Owner(id) = c
               PROVE  FALSE
    BY DEF RetainedClientsSelectNothing
  <1>1. HasEntry(id, "OtherClient", w) /\ \A e \in EntriesIn(table[c]) : e.type # "OtherClient"
    BY Quiet DEF Listed
  <1>2. EntryOf(id, "OtherClient", w).type = "OtherClient"
    BY DEF EntryOf
  <1> QED BY <1>1, <1>2 DEF HasEntry

LEMMA InvUnique ==
  ASSUME ResourcesInv
  PROVE  IdsAreUnique
  <1>1. ASSUME NEW c \in Clients, NEW i \in DOMAIN InOrder(table[c]), NEW j \in DOMAIN InOrder(table[c]), i < j,
               InOrder(table[c])[i].id = InOrder(table[c])[j].id,
               InOrder(table[c])[i].type = InOrder(table[c])[j].type \/ InOrder(table[c])[i].id[2] = "fake"
        PROVE  FALSE
    <2>1. PICK s : s = InOrder(table[c])
      OBVIOUS
    <2>2. TableOK(c, table[c])
      BY DEF ResourcesInv, TablesOK
    <2>3. InOrderSeq(s) /\ EntryOK(c, s[i])
      BY <1>1, <2>1, <2>2, InOrderIs, TableTypes
    <2>4. Ordered(s[i], s[j])
      BY <1>1, <2>1, <2>3 DEF InOrderSeq
    <2>5. s[i].type = "RREvent" /\ s[j].type = "Window"
      BY <1>1, <2>1, <2>4 DEF Ordered
    <2>6. s[i].id[2] = "own"
      BY <2>3, <2>5, EntryFields DEF IsOwn
    <2> QED BY <1>1, <2>1, <2>5, <2>6
  <1>2. ASSUME NEW c \in Clients, NEW i \in DOMAIN InOrder(table[c]), NEW j \in DOMAIN InOrder(table[c]),
               InOrder(table[c])[i].id = InOrder(table[c])[j].id,
               InOrder(table[c])[i].type = InOrder(table[c])[j].type \/ InOrder(table[c])[i].id[2] = "fake"
        PROVE  i = j
    <2>1. PICK s : s = InOrder(table[c])
      OBVIOUS
    <2>2. TableOK(c, table[c])
      BY DEF ResourcesInv, TablesOK
    <2>3. s \in Seq(Entries)
      BY <2>1, <2>2, InOrderIs
    <2>4. i \in Nat /\ j \in Nat
      BY <1>2, <2>1, <2>3
    <2>5. i < j \/ j < i \/ i = j
      BY <2>4
    <2>6. ~(i < j)
      BY <1>1, <1>2
    <2>7. ~(j < i)
      BY <1>1, <1>2
    <2> QED BY <2>5, <2>6, <2>7
  <1> QED BY <1>2 DEF IdsAreUnique

\* Between requests the hash tables, the window tree, the lists on windows and
\* the save sets agree, whoever was destroyed in between and by whom; a retained
\* client selects nothing; no fake ID is given twice.
THEOREM TablesAgree == Spec => []ResourcesAgree
  <1>1. ResourcesInv => ResourcesAgree
    BY InvMatches, InvRetained, InvUnique DEF ResourcesAgree
  <1> QED BY <1>1, Invariance, PTL

LEMMA InvDeletes ==
  ASSUME ResourcesInv
  PROVE  DeletesFindTheirs
  <1>0. todo \in Seq(Calls) /\ WindowsOK /\ SelectionsOK
    BY DEF ResourcesInv, TypesOK
  <1> SUFFICES ASSUME todo # <<>>
               PROVE  /\ Head(todo).op = "FreeWindow" => Head(todo).win \in Alive
                      /\ Head(todo).op = "Delete" =>
                            /\ Value.win \in Alive
                            /\ Value.type = "OtherClient" => Value.id \in others[Value.win]
    BY DEF DeletesFindTheirs, Top
  <1>1. PICK f : f = Head(todo) /\ f \in Calls /\ f \in Frames(todo)
    <2>1. Head(todo) \in Calls /\ Head(todo) \in Frames(todo)
      BY <1>0, StackTop DEF ResourcesInv, StackOK
    <2> QED BY <2>1
  <1>2. CASE f.op = "FreeWindow"
    <2>1. f = FreeWindow(f.win) /\ f.win \in Windows
      BY <1>1, <1>2, CallKinds
    <2>2. Freeing(f.win)
      BY <1>1, <2>1 DEF Freeing
    <2> QED BY <1>0, <1>1, <1>2, <2>1, <2>2 DEF WindowsOK
  <1>3. CASE f.op = "Delete"
    <2>1. f = Delete(f.entry) /\ f.entry \in Entries
      BY <1>1, <1>3, CallKinds
    <2>2. Deleting(f.entry)
      BY <1>1, <2>1 DEF Deleting
    <2> QED BY <1>0, <1>1, <1>3, <2>1, <2>2 DEF SelectionsOK, Value
  <1> QED BY <1>1, <1>2, <1>3

LEMMA InvScans ==
  ASSUME ResourcesInv
  PROVE  ScansStayOnTheList
  <1>0. todo \in Seq(Calls) /\ ScansOK
    BY DEF ResourcesInv, TypesOK
  <1> SUFFICES ASSUME todo # <<>>, Head(todo).op = "Free"
               PROVE  LET f == Head(todo)
                          t == table[Owner(f.id)]
                          b == BucketOf(t, f.id)
                      IN  ScanFrom(f, t) = TheHead \/ \E i \in DOMAIN b : b[i] = ScanFrom(f, t)
    BY DEF ScansStayOnTheList, Top
  <1>1. PICK f : f = Head(todo) /\ f \in Frames(todo)
    BY <1>0, StackTop DEF ResourcesInv, StackOK
  <1>2. PICK t : t = table[Owner(f.id)]
    OBVIOUS
  <1>3. PICK b : b = BucketOf(t, f.id)
    OBVIOUS
  <1>4. ScanAt(f, t)
    BY <1>0, <1>1, <1>2 DEF ScansOK, ScanOK
  <1>5. ScanFrom(f, t) = TheHead \/ \E i \in DOMAIN b : b[i] = ScanFrom(f, t)
    BY <1>3, <1>4 DEF ScanAt, ScanFrom
  <1> QED BY <1>1, <1>2, <1>3, <1>5

\* A delete function finds the window, and the selection on its list, that it
\* was called for, and FreeResource goes on in its bucket after the delete
\* function freed other resources.
THEOREM FreesNested == Spec => []FreesAreNested
  <1>1. ResourcesInv => FreesAreNested
    BY InvDeletes, InvScans DEF FreesAreNested
  <1> QED BY <1>1, Invariance, PTL

\* The windows that the save set of a dying client protects are there until all
\* its resources are gone.
THEOREM SavedSurvive == Spec => []SavedWindowsSurvive
  <1>1. ResourcesInv => SavedWindowsSurvive
    BY DEF ResourcesInv, SparedOK, Shelter, SavedWindowsSurvive
  <1> QED BY <1>1, Invariance, PTL
=============================================================================
