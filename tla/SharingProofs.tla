----------------------------- MODULE SharingProofs -----------------------------
(***************************************************************************)
(* Proofs about FontRequests and Colormaps: for any number of fonts,       *)
(* requests, colormaps, pixels and clients, whoever refers to a font or a  *)
(* colour cell is counted by it, and nothing else is.                      *)
(*                                                                         *)
(* The lemmas on recursive functions are those of ResourceTablesProofs.    *)
(***************************************************************************)
EXTENDS FontRequests, Colormaps, ResourceTablesProofs


-----------------------------------------------------------------------------
(* Counting.                                                               *)

OneIf(p) == IF p THEN 1 ELSE 0

\* Two sets of which one may have x where the other has not.
SameBut(A, B, x) == \A y : y # x => (y \in A <=> y \in B)

LEMMA OneMore ==
  ASSUME NEW A, NEW B, NEW x, IsFiniteSet(A), SameBut(A, B, x)
  PROVE  /\ IsFiniteSet(B) /\ Cardinality(A) \in Nat /\ Cardinality(B) \in Nat
         /\ Cardinality(B) = Cardinality(A) - OneIf(x \in A) + OneIf(x \in B)
  <1> DEFINE C == A \ {x}
  <1>1. IsFiniteSet(C) /\ Cardinality(A) \in Nat /\ Cardinality(C) \in Nat
    BY FS_RemoveElement, FS_CardinalityType, Zenon
  <1>2. Cardinality(C) = IF x \in A THEN Cardinality(A) - 1 ELSE Cardinality(A)
    BY FS_RemoveElement, Zenon
  <1>3. C = B \ {x}
    BY Zenon DEF SameBut
  <1>4. B = IF x \in B THEN C \cup {x} ELSE C
    BY <1>3
  <1> HIDE DEF C
  <1>5. CASE x \in B
    <2>1. IsFiniteSet(C \cup {x}) /\ Cardinality(C \cup {x}) = IF x \in C THEN Cardinality(C) ELSE Cardinality(C) + 1
      BY <1>1, FS_AddElement, Zenon
    <2>2. x \notin C
      BY DEF C
    <2>3. IsFiniteSet(B) /\ Cardinality(B) = Cardinality(C) + 1
      BY <1>4, <1>5, <2>1, <2>2, Zenon
    <2>4. Cardinality(B) \in Nat
      BY <2>3, FS_CardinalityType
    <2> QED BY <1>1, <1>2, <1>5, <2>3, <2>4 DEF OneIf
  <1>6. CASE x \notin B
    <2>1. B = C
      BY <1>4, <1>6
    <2> QED BY <1>1, <1>2, <1>6, <2>1 DEF OneIf
  <1> QED BY <1>5, <1>6

LEMMA SameCount ==
  ASSUME NEW A, NEW B, IsFiniteSet(A), NEW f, f \in Bijection(A, B)
  PROVE  IsFiniteSet(B) /\ Cardinality(B) = Cardinality(A)
  <1>1. ExistsBijection(A, B)
    BY DEF ExistsBijection
  <1> QED BY <1>1, FS_Bijection

LEMMA TwoParts ==
  ASSUME NEW A, NEW B, IsFiniteSet(A), IsFiniteSet(B), \A x \in A : x \notin B
  PROVE  /\ IsFiniteSet(A \cup B)
         /\ Cardinality(A) \in Nat /\ Cardinality(B) \in Nat
         /\ Cardinality(A \cup B) = Cardinality(A) + Cardinality(B)
  <1>1. A \cap B = {}
    OBVIOUS
  <1>2. /\ IsFiniteSet(A \cup B)
        /\ Cardinality(A \cup B) = Cardinality(A) + Cardinality(B) - Cardinality(A \cap B)
    BY FS_Union, Zenon
  <1>3. Cardinality(A \cap B) = 0
    BY <1>1, FS_EmptySet
  <1>4. Cardinality(A) \in Nat /\ Cardinality(B) \in Nat
    BY FS_CardinalityType
  <1> QED BY <1>2, <1>3, <1>4

\* How often a function has the value f.
Times_(g, S, f) == Cardinality({j \in S : g[j] = f})

\* One if a is b.
Is(a, b) == IF a = b THEN 1 ELSE 0

\* Two functions that differ at most at i.
Only(g, h, S, i) == \A j \in S : j # i => h[j] = g[j]

LEMMA OneChanged ==
  ASSUME NEW S, IsFiniteSet(S), NEW g, NEW h, NEW i \in S, Only(g, h, S, i), NEW f
  PROVE  /\ Times_(g, S, f) \in Nat
         /\ Times_(h, S, f) = Times_(g, S, f) - Is(g[i], f) + Is(h[i], f)
  <1> DEFINE A == {j \in S : g[j] = f}
             B == {j \in S : h[j] = f}
  <1>1. IsFiniteSet(A)
    BY FS_Subset
  <1>3. SameBut(A, B, i)
    BY DEF SameBut, Only
  <1>4. (i \in A <=> g[i] = f) /\ (i \in B <=> h[i] = f)
    OBVIOUS
  <1> HIDE DEF A, B
  <1>5. /\ Cardinality(A) \in Nat /\ Cardinality(B) = Cardinality(A) - OneIf(i \in A) + OneIf(i \in B)
    BY <1>1, <1>3, OneMore
  <1>6. OneIf(i \in A) = Is(g[i], f) /\ OneIf(i \in B) = Is(h[i], f)
    BY <1>4 DEF OneIf, Is
  <1>7. Cardinality(B) = Cardinality(A) - Is(g[i], f) + Is(h[i], f)
    BY <1>5, <1>6
  <1> QED BY <1>5, <1>7, Zenon DEF A, B, Times_

\* One of a count given up, another taken.
Transferred(new, old, from, to) == new = old - from + to


\* The values a closure may have.
Closures == {NoClosure}
            \cup [does : {"text"}, elts : Seq(FontIds \cup {String}), gc : Fonts]
            \cup [does : {"open"}, id : FontIds, font : Fonts]

Texting(cl) == {c \in FClients : cl[c].does = "text"}

\* The changes of elts to the font f, when IDs are names of fonts as names says.
ChangesNamed(names, elts, f) == Cardinality({i \in Changes(elts) : names[elts[i]] = f})

ScratchIn(cl, f) == {c \in Texting(cl) : cl[c].gc = f}
MarksIn(names, cl, f) ==
    {x \in UNION {{<<c, i>> : i \in Changes(cl[c].elts)} : c \in Texting(cl)} : names[cl[x[1]].elts[x[2]]] = f}

\* The references to f, as References counts them.
RefCount(names, gcs, cl, f) ==
    Times_(names, FontIds, f) + Times_(gcs, FClients, f)
    + Cardinality(ScratchIn(cl, f)) + Cardinality(MarksIn(names, cl, f))

\* Those of one closure.
HeldBy(names, v, f) ==
    IF v.does = "text" THEN Is(v.gc, f) + ChangesNamed(names, v.elts, f) ELSE 0

LEMMA ReferencesAre == \A f : References(f) = RefCount(idFont, gcFont, closure, f)
  BY DEF References, RefCount, Times_, ScratchIn, MarksIn, Texting

LEMMA ClosureFields ==
  ASSUME NEW v \in Closures
  PROVE  /\ v.does \in {"nothing", "text", "open"}
         /\ v.does = "nothing" <=> v = NoClosure
         /\ v.does = "text" => /\ v \in [does : {"text"}, elts : Seq(FontIds \cup {String}), gc : Fonts]
                               /\ v.elts \in Seq(FontIds \cup {String}) /\ v.gc \in Fonts
         /\ v.does = "open" => v.id \in FontIds /\ v.font \in Fonts
  <1>1. CASE v = NoClosure
    BY <1>1 DEF NoClosure
  <1>2. CASE v \in [does : {"text"}, elts : Seq(FontIds \cup {String}), gc : Fonts]
    <2>1. v.does = "text" /\ v # NoClosure
      BY <1>2 DEF NoClosure
    <2> QED BY <1>2, <2>1
  <1>3. CASE v \in [does : {"open"}, id : FontIds, font : Fonts]
    <2>1. v.does = "open" /\ v # NoClosure
      BY <1>3 DEF NoClosure
    <2> QED BY <1>3, <2>1
  <1> QED BY <1>1, <1>2, <1>3 DEF Closures

LEMMA ChangesFinite ==
  ASSUME NEW elts \in Seq(FontIds \cup {String})
  PROVE  /\ IsFiniteSet(Changes(elts)) /\ Changes(elts) \subseteq 1 .. Len(elts)
         /\ \A i \in Changes(elts) : elts[i] \in FontIds
         /\ \A names, f : /\ IsFiniteSet({i \in Changes(elts) : names[elts[i]] = f})
                          /\ ChangesNamed(names, elts, f) \in Nat
  <1>1. Changes(elts) \subseteq 1 .. Len(elts) /\ \A i \in Changes(elts) : elts[i] \in FontIds
    BY DEF Changes
  <1>2. IsFiniteSet(1 .. Len(elts))
    BY FS_Interval
  <1>3. IsFiniteSet(Changes(elts))
    BY <1>1, <1>2, FS_Subset
  <1>4. ASSUME NEW names, NEW f
        PROVE /\ IsFiniteSet({i \in Changes(elts) : names[elts[i]] = f})
              /\ ChangesNamed(names, elts, f) \in Nat
    <2>1. IsFiniteSet({i \in Changes(elts) : names[elts[i]] = f})
      BY <1>3, FS_Subset
    <2> QED BY <2>1, FS_CardinalityType DEF ChangesNamed
  <1> QED BY <1>1, <1>3, <1>4

\* Marks of other clients than c.
Others(names, cl, c, f) == {x \in MarksIn(names, cl, f) : x[1] # c}

LEMMA MarksOfOne ==
  ASSUME NEW names, NEW cl \in [FClients -> Closures], NEW c \in FClients, NEW f,
         IsFiniteSet(Others(names, cl, c, f))
  PROVE  /\ IsFiniteSet(MarksIn(names, cl, f))
         /\ Cardinality(Others(names, cl, c, f)) \in Nat
         /\ Cardinality(MarksIn(names, cl, f)) = Cardinality(Others(names, cl, c, f))
               + IF cl[c].does = "text" THEN ChangesNamed(names, cl[c].elts, f) ELSE 0
  <1> DEFINE O == Others(names, cl, c, f)
             M == {i \in Changes(cl[c].elts) : names[cl[c].elts[i]] = f}
             P == {<<c, i>> : i \in M}
  <1>0. cl[c] \in Closures
    OBVIOUS
  <1>1. CASE cl[c].does = "text"
    <2>1. MarksIn(names, cl, f) = O \cup P
      <3>1. ASSUME NEW x \in MarksIn(names, cl, f) PROVE x \in O \cup P
        <4>1. PICK d \in Texting(cl) : \E i \in Changes(cl[d].elts) : x = <<d, i>> /\ names[cl[d].elts[i]] = f
          BY <3>1 DEF MarksIn
        <4> QED BY <3>1, <4>1 DEF Others
      <3>2. ASSUME NEW x \in P PROVE x \in MarksIn(names, cl, f)
        <4>1. PICK i \in M : x = <<c, i>>
          BY <3>2
        <4>2. c \in Texting(cl)
          BY <1>1 DEF Texting
        <4> QED BY <4>1, <4>2 DEF MarksIn
      <3>3. O \subseteq MarksIn(names, cl, f)
        BY DEF Others
      <3> QED BY <3>1, <3>2, <3>3
    <2>2. IsFiniteSet(M) /\ Cardinality(M) = ChangesNamed(names, cl[c].elts, f)
      <3>1. cl[c].elts \in Seq(FontIds \cup {String})
        BY <1>0, <1>1, ClosureFields, Zenon
      <3>2. IsFiniteSet({i \in Changes(cl[c].elts) : names[cl[c].elts[i]] = f})
        BY <3>1, ChangesFinite, Zenon
      <3> QED BY <3>2, Zenon DEF ChangesNamed
    <2>3. IsFiniteSet(P) /\ Cardinality(P) = Cardinality(M)
      <3> DEFINE b == [i \in M |-> <<c, i>>]
      <3> HIDE DEF M
      <3>1. b \in Bijection(M, P)
        BY DEF Bijection, Injection, Surjection, IsInjective
      <3> HIDE DEF b, P
      <3> QED BY <2>2, <3>1, SameCount
    <2>4. \A x \in O : x \notin P
      BY DEF Others
    <2> HIDE DEF O, P, M
    <2>5. /\ IsFiniteSet(O \cup P) /\ Cardinality(O) \in Nat
          /\ Cardinality(O \cup P) = Cardinality(O) + Cardinality(P)
      <3>1. IsFiniteSet(O)
        BY DEF O
      <3> QED BY <2>3, <2>4, <3>1, TwoParts
    <2>6. Cardinality(MarksIn(names, cl, f)) = Cardinality(O) + ChangesNamed(names, cl[c].elts, f)
      BY <2>1, <2>2, <2>3, <2>5
    <2>7. IsFiniteSet(MarksIn(names, cl, f))
      BY <2>1, <2>5
    <2>8. Cardinality(Others(names, cl, c, f)) \in Nat
      BY <2>5 DEF O
    <2>9. Cardinality(MarksIn(names, cl, f)) = Cardinality(Others(names, cl, c, f)) + ChangesNamed(names, cl[c].elts, f)
      BY <2>6 DEF O
    <2> QED BY <1>1, <2>7, <2>8, <2>9, Zenon
  <1>2. CASE cl[c].does # "text"
    <2>1. MarksIn(names, cl, f) = O
      <3>1. ASSUME NEW x \in MarksIn(names, cl, f) PROVE x \in O
        <4>1. PICK d \in Texting(cl) : \E i \in Changes(cl[d].elts) : x = <<d, i>>
          BY <3>1 DEF MarksIn
        <4> QED BY <1>2, <3>1, <4>1 DEF Others, Texting
      <3> QED BY <3>1 DEF Others
    <2>2. Cardinality(O) \in Nat
      BY FS_CardinalityType
    <2> HIDE DEF O
    <2>3. Cardinality(O) + 0 = Cardinality(O)
      BY <2>2
    <2> QED BY <1>2, <2>1, <2>2, <2>3, Zenon DEF O
  <1> QED BY <1>1, <1>2

LEMMA MarksFinite ==
  ASSUME NEW names, NEW cl \in [FClients -> Closures], NEW f
  PROVE  IsFiniteSet(MarksIn(names, cl, f))
  <1> DEFINE g == [c \in Texting(cl) |-> {<<c, i>> : i \in Changes(cl[c].elts)}]
             G == {{<<c, i>> : i \in Changes(cl[c].elts)} : c \in Texting(cl)}
  <1>1. IsFiniteSet(Texting(cl))
    <2>1. Texting(cl) \subseteq FClients
      BY DEF Texting
    <2> QED BY <2>1, FS_Subset, FontAssumption
  <1>2. g \in Surjection(Texting(cl), G)
    <2>1. g \in [Texting(cl) -> G]
      OBVIOUS
    <2>2. ASSUME NEW s \in G PROVE \E c \in Texting(cl) : g[c] = s
      <3>1. PICK c \in Texting(cl) : s = {<<c, i>> : i \in Changes(cl[c].elts)}
        BY <2>2
      <3>2. g[c] = s
        BY <3>1
      <3> QED BY <3>2
    <2> HIDE DEF g, G
    <2> QED BY <2>1, <2>2 DEF Surjection
  <1>3. IsFiniteSet(G)
    <2> HIDE DEF g, G
    <2> QED BY <1>1, <1>2, FS_Surjection
  <1>4. \A s \in G : IsFiniteSet(s)
    <2>1. SUFFICES ASSUME NEW c \in Texting(cl) PROVE IsFiniteSet({<<c, i>> : i \in Changes(cl[c].elts)})
      OBVIOUS
    <2> DEFINE M == Changes(cl[c].elts)
               P == {<<c, i>> : i \in M}
               b == [i \in M |-> <<c, i>>]
    <2>2. c \in FClients /\ cl[c].does = "text" /\ cl[c] \in Closures
      BY DEF Texting
    <2>3. IsFiniteSet(M)
      BY <2>2, ClosureFields, ChangesFinite, Zenon
    <2> HIDE DEF M
    <2>4. b \in Bijection(M, P)
      BY DEF Bijection, Injection, Surjection, IsInjective
    <2> HIDE DEF b, P
    <2>5. IsFiniteSet(P)
      BY <2>3, <2>4, SameCount
    <2> QED BY <2>5 DEF P, M
  <1> HIDE DEF G
  <1>5. IsFiniteSet(UNION G)
    BY <1>3, <1>4, FS_UNION
  <1>6. MarksIn(names, cl, f) \subseteq UNION G
    BY DEF MarksIn, G
  <1> QED BY <1>5, <1>6, FS_Subset


FontNames == [FontIds -> Fonts \cup {NoFont}]
FontsOfGCs == [FClients -> Fonts \cup {NoFont}]

LEMMA PartsAreNumbers ==
  ASSUME NEW names \in FontNames, NEW gcs \in FontsOfGCs, NEW cl \in [FClients -> Closures], NEW f
  PROVE  /\ Times_(names, FontIds, f) \in Nat /\ Times_(gcs, FClients, f) \in Nat
         /\ IsFiniteSet(ScratchIn(cl, f)) /\ IsFiniteSet(MarksIn(names, cl, f))
         /\ Cardinality(ScratchIn(cl, f)) \in Nat /\ Cardinality(MarksIn(names, cl, f)) \in Nat
         /\ RefCount(names, gcs, cl, f) \in Nat
  <1>1. IsFiniteSet(FontIds) /\ IsFiniteSet(FClients)
    BY FontAssumption
  <1>2. /\ IsFiniteSet({i \in FontIds : names[i] = f}) /\ IsFiniteSet({c \in FClients : gcs[c] = f})
        /\ IsFiniteSet(ScratchIn(cl, f))
    <2>1. ScratchIn(cl, f) \subseteq FClients
      BY DEF ScratchIn, Texting
    <2> QED BY <1>1, <2>1, FS_Subset
  <1>3. Times_(names, FontIds, f) \in Nat /\ Times_(gcs, FClients, f) \in Nat
        /\ Cardinality(ScratchIn(cl, f)) \in Nat
    BY <1>2, FS_CardinalityType DEF Times_
  <1>4. IsFiniteSet(MarksIn(names, cl, f)) /\ Cardinality(MarksIn(names, cl, f)) \in Nat
    BY MarksFinite, FS_CardinalityType
  <1> QED BY <1>2, <1>3, <1>4 DEF RefCount

LEMMA GcChanged ==
  ASSUME NEW names \in FontNames, NEW gcs \in FontsOfGCs, NEW cl \in [FClients -> Closures], NEW f,
         NEW c \in FClients, NEW v \in Fonts \cup {NoFont}
  PROVE  RefCount(names, [gcs EXCEPT ![c] = v], cl, f)
            = RefCount(names, gcs, cl, f) - Is(gcs[c], f) + Is(v, f)
  <1> DEFINE h == [gcs EXCEPT ![c] = v]
             p == Times_(names, FontIds, f)
             q == Cardinality(ScratchIn(cl, f))
             r == Cardinality(MarksIn(names, cl, f))
  <1>1. /\ Times_(gcs, FClients, f) \in Nat
        /\ Times_(h, FClients, f) = Times_(gcs, FClients, f) - Is(gcs[c], f) + Is(v, f)
    <2>1. IsFiniteSet(FClients) /\ gcs \in [FClients -> Fonts \cup {NoFont}]
      BY FontAssumption DEF FontsOfGCs
    <2>2. h[c] = v /\ Only(gcs, h, FClients, c)
      BY <2>1 DEF Only
    <2> HIDE DEF h
    <2>3. /\ Times_(gcs, FClients, f) \in Nat
          /\ Times_(h, FClients, f) = Times_(gcs, FClients, f) - Is(gcs[c], f) + Is(h[c], f)
      BY <2>1, <2>2, OneChanged, SMT
    <2> QED BY <2>2, <2>3
  <1>2. p \in Nat /\ q \in Nat /\ r \in Nat
    BY PartsAreNumbers
  <1>3. Is(gcs[c], f) \in Int /\ Is(v, f) \in Int
    BY DEF Is
  <1>4. RefCount(names, gcs, cl, f) = p + Times_(gcs, FClients, f) + q + r
    BY DEF RefCount
  <1>5. RefCount(names, h, cl, f) = p + Times_(h, FClients, f) + q + r
    BY DEF RefCount
  <1> HIDE DEF h, p, q, r
  <1>6. RefCount(names, h, cl, f) = RefCount(names, gcs, cl, f) - Is(gcs[c], f) + Is(v, f)
    BY <1>1, <1>2, <1>3, <1>4, <1>5
  <1> QED BY <1>6 DEF h

\* The names of IDs that closures mention are f in both.
SameMarks(names, names2, cl, f) ==
    \A c \in Texting(cl) : \A i \in Changes(cl[c].elts) : names[cl[c].elts[i]] = f <=> names2[cl[c].elts[i]] = f

LEMMA NamesChanged ==
  ASSUME NEW names \in FontNames, NEW names2 \in FontNames, NEW gcs \in FontsOfGCs,
         NEW cl \in [FClients -> Closures], NEW f, SameMarks(names, names2, cl, f)
  PROVE  RefCount(names2, gcs, cl, f)
            = RefCount(names, gcs, cl, f) - Times_(names, FontIds, f) + Times_(names2, FontIds, f)
  <1> DEFINE p == Times_(gcs, FClients, f)
             q == Cardinality(ScratchIn(cl, f))
             r == Cardinality(MarksIn(names, cl, f))
  <1>1. MarksIn(names2, cl, f) = MarksIn(names, cl, f)
    <2>1. ASSUME NEW x \in UNION {{<<c, i>> : i \in Changes(cl[c].elts)} : c \in Texting(cl)}
          PROVE  names[cl[x[1]].elts[x[2]]] = f <=> names2[cl[x[1]].elts[x[2]]] = f
      <3>1. PICK c \in Texting(cl) : \E i \in Changes(cl[c].elts) : x = <<c, i>>
        BY <2>1
      <3>2. PICK i \in Changes(cl[c].elts) : x = <<c, i>>
        BY <3>1
      <3>3. x[1] = c /\ x[2] = i
        BY <3>2
      <3>4. names[cl[c].elts[i]] = f <=> names2[cl[c].elts[i]] = f
        BY <3>2 DEF SameMarks
      <3> QED BY <3>3, <3>4
    <2> QED BY <2>1 DEF MarksIn
  <1>2. /\ p \in Nat /\ q \in Nat /\ r \in Nat
        /\ Times_(names, FontIds, f) \in Nat /\ Times_(names2, FontIds, f) \in Nat
    BY PartsAreNumbers
  <1>3. RefCount(names, gcs, cl, f) = Times_(names, FontIds, f) + p + q + r
    BY DEF RefCount
  <1>4. RefCount(names2, gcs, cl, f) = Times_(names2, FontIds, f) + p + q + r
    BY <1>1 DEF RefCount
  <1> HIDE DEF p, q, r
  <1> QED BY <1>2, <1>3, <1>4

\* The names of IDs that closures mention are f only where they were.
Fewer(names, names2, cl, f) ==
    \A c \in Texting(cl) : \A i \in Changes(cl[c].elts) : names2[cl[c].elts[i]] = f => names[cl[c].elts[i]] = f

NoLess(x, y) == x >= y

LEMMA NamesFewer ==
  ASSUME NEW names \in FontNames, NEW names2 \in FontNames, NEW gcs \in FontsOfGCs,
         NEW cl \in [FClients -> Closures], NEW f, Fewer(names, names2, cl, f)
  PROVE  NoLess(RefCount(names, gcs, cl, f) - Times_(names, FontIds, f) + Times_(names2, FontIds, f),
                RefCount(names2, gcs, cl, f))
  <1> DEFINE p == Times_(gcs, FClients, f)
             q == Cardinality(ScratchIn(cl, f))
             r == Cardinality(MarksIn(names, cl, f))
             r2 == Cardinality(MarksIn(names2, cl, f))
  <1>1. MarksIn(names2, cl, f) \subseteq MarksIn(names, cl, f)
    <2>1. ASSUME NEW x \in UNION {{<<c, i>> : i \in Changes(cl[c].elts)} : c \in Texting(cl)},
                 names2[cl[x[1]].elts[x[2]]] = f
          PROVE  names[cl[x[1]].elts[x[2]]] = f
      <3>1. PICK c \in Texting(cl) : \E i \in Changes(cl[c].elts) : x = <<c, i>>
        BY <2>1
      <3>2. PICK i \in Changes(cl[c].elts) : x = <<c, i>>
        BY <3>1
      <3>3. x[1] = c /\ x[2] = i
        BY <3>2
      <3>4. names2[cl[c].elts[i]] = f
        BY <2>1, <3>3
      <3>5. names[cl[c].elts[i]] = f
        BY <3>2, <3>4 DEF Fewer
      <3> QED BY <3>3, <3>5
    <2> QED BY <2>1 DEF MarksIn
  <1>2. /\ p \in Nat /\ q \in Nat /\ r \in Nat /\ r2 \in Nat
        /\ Times_(names, FontIds, f) \in Nat /\ Times_(names2, FontIds, f) \in Nat
        /\ IsFiniteSet(MarksIn(names, cl, f))
    BY PartsAreNumbers
  <1>3. r2 <= r
    BY <1>1, <1>2, FS_Subset
  <1>4. RefCount(names, gcs, cl, f) = Times_(names, FontIds, f) + p + q + r
    BY DEF RefCount
  <1>5. RefCount(names2, gcs, cl, f) = Times_(names2, FontIds, f) + p + q + r2
    BY DEF RefCount
  <1> HIDE DEF p, q, r, r2
  <1>6. RefCount(names, gcs, cl, f) - Times_(names, FontIds, f) + Times_(names2, FontIds, f)
           >= RefCount(names2, gcs, cl, f)
    BY <1>2, <1>3, <1>4, <1>5
  <1> QED BY <1>6 DEF NoLess

LEMMA ClosureChanged ==
  ASSUME NEW names \in FontNames, NEW gcs \in FontsOfGCs, NEW cl \in [FClients -> Closures], NEW f,
         NEW c \in FClients, NEW v \in Closures
  PROVE  /\ RefCount(names, gcs, [cl EXCEPT ![c] = v], f)
               = RefCount(names, gcs, cl, f) - HeldBy(names, cl[c], f) + HeldBy(names, v, f)
         /\ HeldBy(names, cl[c], f) \in Nat /\ HeldBy(names, v, f) \in Nat
  <1> DEFINE cl2 == [cl EXCEPT ![c] = v]
  <1>1. /\ cl2 \in [FClients -> Closures] /\ cl2[c] = v
        /\ \A d \in FClients : d # c => cl2[d] = cl[d]
    OBVIOUS
  <1> HIDE DEF cl2
  <1> DEFINE S == ScratchIn(cl, f)
             S2 == ScratchIn(cl2, f)
  <1>2. /\ Cardinality(S) \in Nat /\ Cardinality(S2) \in Nat
        /\ Cardinality(S2) = Cardinality(S) - OneIf(c \in S) + OneIf(c \in S2)
    <2>1. SameBut(S, S2, c)
      BY <1>1 DEF SameBut, ScratchIn, Texting
    <2>2. IsFiniteSet(S)
      BY PartsAreNumbers
    <2> HIDE DEF S, S2
    <2> QED BY <2>1, <2>2, OneMore
  <1>3. /\ c \in S <=> cl[c].does = "text" /\ cl[c].gc = f
        /\ c \in S2 <=> v.does = "text" /\ v.gc = f
    BY <1>1 DEF ScratchIn, Texting
  <1> HIDE DEF S, S2
  <1> DEFINE O == Others(names, cl, c, f)
             n == IF cl[c].does = "text" THEN ChangesNamed(names, cl[c].elts, f) ELSE 0
             n2 == IF v.does = "text" THEN ChangesNamed(names, v.elts, f) ELSE 0
  <1>4. Others(names, cl2, c, f) = O
    <2>1. ASSUME NEW x PROVE x \in Others(names, cl2, c, f) <=> x \in O
      <3>1. /\ x \in MarksIn(names, cl2, f)
               <=> \E d \in Texting(cl2) : \E i \in Changes(cl2[d].elts) : x = <<d, i>> /\ names[cl2[d].elts[i]] = f
            /\ x \in MarksIn(names, cl, f)
               <=> \E d \in Texting(cl) : \E i \in Changes(cl[d].elts) : x = <<d, i>> /\ names[cl[d].elts[i]] = f
        BY DEF MarksIn
      <3>2. \A d : d # c => /\ d \in Texting(cl2) <=> d \in Texting(cl)
                            /\ d \in Texting(cl) => cl2[d] = cl[d]
        BY <1>1 DEF Texting
      <3> QED BY <3>1, <3>2 DEF Others
    <2> QED BY <2>1
  <1>5. IsFiniteSet(O)
    BY PartsAreNumbers, FS_Subset DEF Others
  <1>6. /\ Cardinality(O) \in Nat /\ Cardinality(MarksIn(names, cl, f)) = Cardinality(O) + n
        /\ Cardinality(MarksIn(names, cl2, f)) = Cardinality(O) + n2
    <2>1. IsFiniteSet(Others(names, cl2, c, f))
      BY <1>4, <1>5
    <2> QED BY <1>1, <1>4, <1>5, <2>1, MarksOfOne
  <1>7. n \in Nat /\ n2 \in Nat
    <2>1. cl[c] \in Closures
      OBVIOUS
    <2>2. cl[c].does = "text" => cl[c].elts \in Seq(FontIds \cup {String})
      BY <2>1, ClosureFields, Zenon
    <2>3. v.does = "text" => v.elts \in Seq(FontIds \cup {String})
      BY ClosureFields, Zenon
    <2> QED BY <2>2, <2>3, ChangesFinite
  <1>8. /\ HeldBy(names, cl[c], f) = n + OneIf(c \in S)
        /\ HeldBy(names, v, f) = n2 + OneIf(c \in S2)
    BY <1>3, <1>7 DEF HeldBy, OneIf, Is
  <1> HIDE DEF O, n, n2
  <1>9. OneIf(c \in S) \in Nat /\ OneIf(c \in S2) \in Nat
    BY DEF OneIf
  <1> DEFINE p == Times_(names, FontIds, f)
             q == Times_(gcs, FClients, f)
  <1>10. p \in Nat /\ q \in Nat
    BY PartsAreNumbers
  <1>11. /\ RefCount(names, gcs, cl, f) = p + q + Cardinality(S) + Cardinality(MarksIn(names, cl, f))
         /\ RefCount(names, gcs, cl2, f) = p + q + Cardinality(S2) + Cardinality(MarksIn(names, cl2, f))
    BY DEF RefCount, S, S2
  <1> HIDE DEF p, q
  <1>12. RefCount(names, gcs, cl2, f) = RefCount(names, gcs, cl, f) - HeldBy(names, cl[c], f) + HeldBy(names, v, f)
    BY <1>2, <1>6, <1>7, <1>8, <1>9, <1>10, <1>11
  <1>13. HeldBy(names, cl[c], f) \in Nat /\ HeldBy(names, v, f) \in Nat
    BY <1>7, <1>8, <1>9
  <1> QED BY <1>12, <1>13 DEF cl2


Elements == FontIds \cup {String}

LEMMA Pieces ==
  ASSUME NEW elts \in Seq(Elements), NEW n \in 1 .. Len(elts) + 1
  PROVE  /\ Upto(elts, n) \in Seq(Elements) /\ Len(Upto(elts, n)) = n - 1
         /\ From(elts, n) \in Seq(Elements) /\ Len(From(elts, n)) = Len(elts) - n + 1
         /\ \A i \in 1 .. n - 1 : Upto(elts, n)[i] = elts[i]
         /\ \A i \in 1 .. Len(elts) - n + 1 : From(elts, n)[i] = elts[i + n - 1]
         /\ Changes(Upto(elts, n)) = {i \in Changes(elts) : i < n}
         /\ \A i : i \in Changes(From(elts, n)) <=> i \in Nat \ {0} /\ i + n - 1 \in Changes(elts)
  <1> DEFINE u == Upto(elts, n)
             w == From(elts, n)
  <1>0. Len(elts) \in Nat /\ DOMAIN elts = 1 .. Len(elts)
    OBVIOUS
  <1>1. u \in Seq(Elements) /\ Len(u) = n - 1 /\ DOMAIN u = 1 .. n - 1 /\ \A i \in 1 .. n - 1 : u[i] = elts[i]
    BY DEF Upto
  <1>2. /\ w \in Seq(Elements) /\ Len(w) = Len(elts) - n + 1 /\ DOMAIN w = 1 .. Len(elts) - n + 1
        /\ \A i \in 1 .. Len(elts) - n + 1 : w[i] = elts[i + n - 1]
    BY DEF From
  <1> HIDE DEF u, w
  <1>3. Changes(u) = {i \in Changes(elts) : i < n}
    <2>1. \A i : i \in 1 .. n - 1 <=> i \in 1 .. Len(elts) /\ i < n
      BY <1>0
    <2> QED BY <1>0, <1>1, <2>1 DEF Changes
  <1>4. \A i : i \in Changes(w) <=> i \in Nat \ {0} /\ i + n - 1 \in Changes(elts)
    <2>1. \A i \in Nat \ {0} : i \in 1 .. Len(elts) - n + 1 <=> i + n - 1 \in 1 .. Len(elts)
      BY <1>0
    <2>2. \A i : i \in 1 .. Len(elts) - n + 1 => i \in Nat \ {0}
      BY <1>0
    <2>3. \A i : i \in Changes(w) <=> i \in 1 .. Len(elts) - n + 1 /\ w[i] # String
      BY <1>2 DEF Changes
    <2>4. \A i : i + n - 1 \in Changes(elts) <=> i + n - 1 \in 1 .. Len(elts) /\ elts[i + n - 1] # String
      BY <1>0 DEF Changes
    <2>5. \A i \in Nat \ {0} : i \in Changes(w) <=> i + n - 1 \in Changes(elts)
      BY <1>2, <2>1, <2>3, <2>4
    <2> QED BY <2>2, <2>3, <2>5
  <1> QED BY <1>1, <1>2, <1>3, <1>4 DEF u, w

LEMMA Split_ ==
  ASSUME NEW elts \in Seq(Elements), NEW n \in 1 .. Len(elts) + 1, NEW names, NEW f
  PROVE  /\ ChangesNamed(names, Upto(elts, n), f) \in Nat /\ ChangesNamed(names, From(elts, n), f) \in Nat
         /\ ChangesNamed(names, elts, f)
              = ChangesNamed(names, Upto(elts, n), f) + ChangesNamed(names, From(elts, n), f)
  <1> DEFINE u == Upto(elts, n)
             w == From(elts, n)
             A == {i \in Changes(elts) : names[elts[i]] = f}
             B == {i \in Changes(u) : names[u[i]] = f}
             C == {i \in Changes(w) : names[w[i]] = f}
             D == {i \in A : n <= i}
             b == [i \in C |-> i + n - 1]
  <1>0. Changes(elts) \subseteq 1 .. Len(elts) /\ Len(elts) \in Nat
    BY DEF Changes
  <1>1. /\ \A i \in 1 .. n - 1 : u[i] = elts[i]
        /\ \A i \in 1 .. Len(elts) - n + 1 : w[i] = elts[i + n - 1]
        /\ Changes(u) = {i \in Changes(elts) : i < n}
        /\ \A i : i \in Changes(w) <=> i \in Nat \ {0} /\ i + n - 1 \in Changes(elts)
        /\ u \in Seq(Elements) /\ w \in Seq(Elements)
    BY Pieces
  <1>2. IsFiniteSet(A) /\ IsFiniteSet(B) /\ IsFiniteSet(C)
    <2>1. Elements = FontIds \cup {String}
      BY DEF Elements
    <2>2. elts \in Seq(FontIds \cup {String}) /\ u \in Seq(FontIds \cup {String}) /\ w \in Seq(FontIds \cup {String})
      BY <1>1, <2>1
    <2> HIDE DEF u, w
    <2>3. IsFiniteSet(Changes(elts)) /\ IsFiniteSet(Changes(u)) /\ IsFiniteSet(Changes(w))
      BY <2>2, ChangesFinite
    <2>4. A \subseteq Changes(elts) /\ B \subseteq Changes(u) /\ C \subseteq Changes(w)
      OBVIOUS
    <2> HIDE DEF A, B, C
    <2> QED BY <2>3, <2>4, FS_Subset
  <1> HIDE DEF u, w
  <1>3. A = B \cup D /\ \A x \in B : x \notin D
    <2>1. \A i \in Changes(elts) : i < n <=> ~(n <= i)
      BY <1>0
    <2>2. \A i \in Changes(u) : i \in 1 .. n - 1
      BY <1>0, <1>1
    <2>3. \A i \in Changes(elts) : i < n => u[i] = elts[i]
      BY <1>1, <2>2
    <2> QED BY <1>1, <2>1, <2>3
  <1>4. b \in Bijection(C, D)
    <2>1. \A i \in C : /\ i \in Nat \ {0} /\ i + n - 1 \in Changes(elts) /\ i \in 1 .. Len(elts) - n + 1
                       /\ w[i] = elts[i + n - 1] /\ names[w[i]] = f
      <3>1. \A i \in Nat \ {0} : i + n - 1 \in 1 .. Len(elts) => i \in 1 .. Len(elts) - n + 1
        BY <1>0
      <3> QED BY <1>0, <1>1, <3>1
    <2>2. \A i \in C : i + n - 1 \in D
      <3>1. \A i \in Nat \ {0} : n <= i + n - 1
        OBVIOUS
      <3> QED BY <2>1, <3>1
    <2>3. ASSUME NEW j \in D PROVE j - n + 1 \in C /\ (j - n + 1) + n - 1 = j
      <3>1. j \in 1 .. Len(elts) /\ n <= j /\ j \in Changes(elts) /\ names[elts[j]] = f
        BY <1>0
      <3>0. j \in Nat /\ n \in Nat /\ Len(elts) \in Nat /\ n <= j /\ j <= Len(elts)
        BY <1>0, <3>1
      <3>2. j - n + 1 \in Nat \ {0} /\ (j - n + 1) + n - 1 = j /\ j - n + 1 \in 1 .. Len(elts) - n + 1
        BY <3>0
      <3> DEFINE k == j - n + 1
      <3>3. k \in Changes(w) /\ w[k] = elts[j]
        BY <1>1, <3>1, <3>2
      <3> QED BY <3>1, <3>2, <3>3
    <2>4. \A i, j \in C : i + n - 1 = j + n - 1 => i = j
      <3>1. \A i, j \in Nat : i + n - 1 = j + n - 1 => i = j
        OBVIOUS
      <3> QED BY <2>1, <3>1
    <2> HIDE DEF C, D
    <2>5. b \in [C -> D]
      BY <2>2
    <2>6. \A j \in D : b[j - n + 1] = j
      BY <2>3
    <2>7. \A i, j \in C : b[i] = b[j] => i = j
      BY <2>4
    <2> HIDE DEF b
    <2>8. \A j \in D : \E i \in C : b[i] = j
      BY <2>3, <2>6
    <2> QED BY <2>5, <2>7, <2>8 DEF Bijection, Injection, Surjection, IsInjective
  <1> HIDE DEF A, B, C, D, b
  <1>5. IsFiniteSet(D) /\ Cardinality(D) = Cardinality(C)
    BY <1>2, <1>4, SameCount
  <1>6. /\ Cardinality(B) \in Nat /\ Cardinality(D) \in Nat
        /\ Cardinality(A) = Cardinality(B) + Cardinality(D)
    BY <1>2, <1>3, <1>5, TwoParts
  <1>7. /\ ChangesNamed(names, elts, f) = Cardinality(A)
        /\ ChangesNamed(names, u, f) = Cardinality(B)
        /\ ChangesNamed(names, w, f) = Cardinality(C)
    BY DEF ChangesNamed, A, B, C
  <1> QED BY <1>5, <1>6, <1>7 DEF u, w

LEMMA StopIs ==
  ASSUME NEW elts \in Seq(Elements), idFont \in FontNames
  PROVE  /\ Stop(elts) \in 1 .. Len(elts) + 1
         /\ \A i \in Changes(elts) : i < Stop(elts) => idFont[elts[i]] \in Fonts
         /\ Stop(elts) \in 1 .. Len(elts) => Stop(elts) \in Changes(elts) /\ idFont[elts[Stop(elts)]] = NoFont
  <1> DEFINE bad == {i \in Changes(elts) : idFont[elts[i]] = NoFont}
  <1>0. Len(elts) \in Nat /\ Changes(elts) \subseteq 1 .. Len(elts) /\ \A i \in Changes(elts) : elts[i] \in FontIds
    BY DEF Changes, Elements
  <1>1. \A i \in Changes(elts) : idFont[elts[i]] \in Fonts \/ i \in bad
    BY <1>0 DEF FontNames
  <1>2. CASE bad = {}
    <2>1. Stop(elts) = Len(elts) + 1
      BY <1>2 DEF Stop
    <2> QED BY <1>0, <1>1, <1>2, <2>1
  <1>3. CASE bad # {}
    <2>1. bad \in SUBSET Nat
      BY <1>0
    <2>2. \E i \in bad : \A j \in bad : i <= j
      <3> HIDE DEF bad
      <3> QED BY <1>3, <2>1, LeastOf
    <2>3. Stop(elts) = CHOOSE i \in bad : \A j \in bad : i <= j
      BY <1>3 DEF Stop
    <2>4. Stop(elts) \in bad /\ \A j \in bad : Stop(elts) <= j
      <3> HIDE DEF bad
      <3> QED BY <2>2, <2>3
    <2>5. \A i \in Changes(elts) : i < Stop(elts) => i \notin bad
      BY <1>0, <2>4
    <2> QED BY <1>0, <1>1, <2>4, <2>5
  <1> QED BY <1>2, <1>3


FontCounts == [Fonts -> Int]
ExecState == [refs : FontCounts, font : Fonts]

\* One step of Execute.
ExecStep(draws, asleep, e, s) ==
    LET g == IF draws THEN idFont[e] ELSE s.font
        r == IF g # s.font THEN ChangeFont(s.refs, s.font, g) ELSE s.refs
    IN  [refs |-> IF asleep THEN Minus(r, g) ELSE r, font |-> g]

LEMMA PlusMinus ==
  ASSUME NEW r \in FontCounts, NEW f \in Fonts
  PROVE  /\ Plus(r, f) \in FontCounts /\ \A g \in Fonts : Plus(r, f)[g] = r[g] + Is(f, g)
         /\ Minus(r, f) \in FontCounts /\ \A g \in Fonts : Minus(r, f)[g] = r[g] - Is(f, g)
  <1>1. f # NoFont
    BY FontAssumption
  <1>2. Plus(r, f) = [r EXCEPT ![f] = @ + 1] /\ Minus(r, f) = [r EXCEPT ![f] = @ - 1]
    BY <1>1 DEF Plus, Minus
  <1>3. \A g \in Fonts : r[g] \in Int
    BY DEF FontCounts
  <1> QED BY <1>2, <1>3 DEF FontCounts, Is

\* What the marks make, if they are undone.
Undone(asleep, x) == IF asleep THEN x ELSE 0

LEMMA IsNumber == \A a, b : Is(a, b) \in {0, 1}
  BY DEF Is

\* A step changes the count of f by this.
Stepped(x, y, e, asleep, f) ==
    /\ y.font = idFont[e]
    /\ y.refs[f] = x.refs[f] + Is(idFont[e], f) - Is(x.font, f) - Undone(asleep, Is(idFont[e], f))

LEMMA ExecStepIs ==
  ASSUME NEW draws, NEW asleep, NEW e, NEW s \in ExecState, draws => idFont[e] \in Fonts
  PROVE  /\ ExecStep(draws, asleep, e, s) \in ExecState
         /\ draws => \A f \in Fonts : Stepped(s, ExecStep(draws, asleep, e, s), e, asleep, f)
  <1> DEFINE g == IF draws THEN idFont[e] ELSE s.font
             r == IF g # s.font THEN ChangeFont(s.refs, s.font, g) ELSE s.refs
             t == IF asleep THEN Minus(r, g) ELSE r
  <1>1. g \in Fonts /\ s.font \in Fonts /\ s.refs \in FontCounts /\ (draws => g = idFont[e])
    BY DEF ExecState
  <1>2. ExecStep(draws, asleep, e, s) = [refs |-> t, font |-> g]
    BY DEF ExecStep
  <1> HIDE DEF g
  <1>3. r \in FontCounts /\ \A f \in Fonts : r[f] = s.refs[f] + Is(g, f) - Is(s.font, f)
    <2>1. CASE g = s.font
      <3>1. r = s.refs
        BY <2>1
      <3>2. \A f \in Fonts : s.refs[f] \in Int
        BY <1>1 DEF FontCounts
      <3> QED BY <1>1, <2>1, <3>1, <3>2, IsNumber
    <2>2. CASE g # s.font
      <3> DEFINE p == Plus(s.refs, g)
      <3>1. r = Minus(p, s.font)
        BY <2>2 DEF ChangeFont
      <3>2. p \in FontCounts /\ \A f \in Fonts : p[f] = s.refs[f] + Is(g, f)
        BY <1>1, PlusMinus
      <3> HIDE DEF p, r
      <3>3. Minus(p, s.font) \in FontCounts /\ \A f \in Fonts : Minus(p, s.font)[f] = p[f] - Is(s.font, f)
        BY <1>1, <3>2, PlusMinus
      <3>4. ASSUME NEW f \in Fonts PROVE r[f] = s.refs[f] + Is(g, f) - Is(s.font, f)
        <4>1. p[f] = s.refs[f] + Is(g, f) /\ r[f] = p[f] - Is(s.font, f)
          BY <3>1, <3>2, <3>3
        <4>2. s.refs[f] \in Int /\ \A a, b : Is(a, b) \in Int
          BY <1>1, IsNumber DEF FontCounts
        <4> QED BY <4>1, <4>2
      <3>5. r \in FontCounts
        BY <3>1, <3>3
      <3> QED BY <3>4, <3>5
    <2> QED BY <2>1, <2>2
  <1> HIDE DEF r
  <1>4. t \in FontCounts /\ \A f \in Fonts : t[f] = r[f] - Undone(asleep, Is(g, f))
    <2>1. \A f \in Fonts : r[f] \in Int
      BY <1>3 DEF FontCounts
    <2>2. CASE asleep
      BY <1>1, <1>3, <2>2, PlusMinus DEF Undone
    <2>3. CASE ~asleep
      BY <1>3, <2>1, <2>3 DEF Undone
    <2> QED BY <2>2, <2>3
  <1> HIDE DEF t
  <1>5. [refs |-> t, font |-> g] \in ExecState
    BY <1>1, <1>4 DEF ExecState
  <1>6. ASSUME draws, NEW f \in Fonts
        PROVE  t[f] = s.refs[f] + Is(idFont[e], f) - Is(s.font, f) - Undone(asleep, Is(idFont[e], f))
    <2>1. g = idFont[e]
      BY <1>1, <1>6
    <2>2. r[f] = s.refs[f] + Is(g, f) - Is(s.font, f) /\ t[f] = r[f] - Undone(asleep, Is(g, f))
      BY <1>3, <1>4, <1>6
    <2>3. s.refs[f] \in Int /\ \A a, b : Is(a, b) \in Int
      BY <1>1, <1>6, IsNumber DEF FontCounts
    <2>4. CASE asleep
      BY <2>1, <2>2, <2>3, <2>4 DEF Undone
    <2>5. CASE ~asleep
      BY <2>1, <2>2, <2>3, <2>5 DEF Undone
    <2> QED BY <2>4, <2>5
  <1>7. draws => g = idFont[e]
    BY <1>1
  <1>8. [refs |-> t, font |-> g].refs = t /\ [refs |-> t, font |-> g].font = g
    OBVIOUS
  <1>9. ASSUME draws, NEW f \in Fonts PROVE Stepped(s, ExecStep(draws, asleep, e, s), e, asleep, f)
    BY <1>2, <1>6, <1>7, <1>8, <1>9 DEF Stepped
  <1> QED BY <1>2, <1>5, <1>9

\* What Execute computes, place by place.
ExecRun(a, refs, font, elts, draws, asleep) ==
    /\ a \in [0 .. Len(elts) -> ExecState]
    /\ a[0] = [refs |-> refs, font |-> font]
    /\ \A i \in 1 .. Len(elts) :
          a[i] = IF i \in Changes(elts) THEN ExecStep(draws, asleep, elts[i], a[i - 1]) ELSE a[i - 1]

LEMMA ExecIsRun ==
  ASSUME NEW refs \in FontCounts, NEW font \in Fonts, NEW elts \in Seq(Elements),
         NEW draws, NEW asleep,
         draws => \A i \in Changes(elts) : idFont[elts[i]] \in Fonts
  PROVE  \E a : /\ ExecRun(a, refs, font, elts, draws, asleep)
                /\ Execute(refs, font, elts, draws, asleep) = a[Len(elts)]
  <1> DEFINE n == Len(elts)
             Ch == Changes(elts)
             x0 == [refs |-> refs, font |-> font]
             U(x, i) == IF i \in Changes(elts) THEN ExecStep(draws, asleep, elts[i], x) ELSE x
             F == [q \in ExecState \X (1 .. n) |-> U(q[1], q[2])]
             Body(g) == [i \in 0 .. Len(elts) |->
                            IF i = 0 THEN [refs |-> refs, font |-> font]
                            ELSE IF i \in Changes(elts) THEN ExecStep(draws, asleep, elts[i], g[i - 1]) ELSE g[i - 1]]
             f == CHOOSE g : g = Body(g)
  <1>1. Execute(refs, font, elts, draws, asleep) = f[Len(elts)]
    BY DEF Execute, ExecStep
  <1>2. n \in Nat /\ x0 \in ExecState
    BY DEF ExecState
  <1> HIDE DEF x0
  <1>3. \E g : ExecRun(g, refs, font, elts, draws, asleep)
    <2>1. ASSUME NEW x \in ExecState, NEW i \in 1 .. n PROVE U(x, i) \in ExecState
      BY <2>1, ExecStepIs
    <2>2. F \in [ExecState \X (1 .. n) -> ExecState]
      <3>1. ASSUME NEW q \in ExecState \X (1 .. n) PROVE U(q[1], q[2]) \in ExecState
        <4>1. q[1] \in ExecState /\ q[2] \in 1 .. n
          OBVIOUS
        <4> HIDE DEF U
        <4> QED BY <2>1, <4>1
      <3> HIDE DEF U
      <3> QED BY <3>1
    <2> HIDE DEF F, n, U
    <2>3. PICK g : Recursive(g, ExecState, n, x0, F)
      BY <1>2, <2>2, RecursionExists
    <2>4. g \in [0 .. n -> ExecState] /\ g[0] = x0 /\ \A i \in 1 .. n : g[i] = F[<<g[i - 1], i>>]
      BY <2>3 DEF Recursive
    <2>5. ASSUME NEW i \in 1 .. n PROVE g[i] = U(g[i - 1], i)
      <3>1. i - 1 \in 0 .. n
        BY <1>2
      <3>2. <<g[i - 1], i>> \in ExecState \X (1 .. n)
        BY <2>4, <3>1
      <3>3. F[<<g[i - 1], i>>] = U(g[i - 1], i)
        BY <3>2 DEF F
      <3> QED BY <2>4, <3>3
    <2>6. \A i \in 1 .. Len(elts) :
             g[i] = IF i \in Changes(elts) THEN ExecStep(draws, asleep, elts[i], g[i - 1]) ELSE g[i - 1]
      BY <2>5 DEF U, n
    <2>7. g \in [0 .. Len(elts) -> ExecState] /\ g[0] = [refs |-> refs, font |-> font]
      BY <2>4 DEF n, x0
    <2>8. ExecRun(g, refs, font, elts, draws, asleep)
      BY <2>6, <2>7, Zenon DEF ExecRun
    <2> QED BY <2>8
  <1>4. \E g : g = Body(g)
    <2>1. PICK g : ExecRun(g, refs, font, elts, draws, asleep)
      BY <1>3
    <2>2. \A i \in 0 .. Len(elts) : i = 0 \/ i \in 1 .. Len(elts)
      OBVIOUS
    <2>3. /\ g = [i \in 0 .. Len(elts) |-> g[i]] /\ g[0] = [refs |-> refs, font |-> font]
          /\ \A i \in 1 .. Len(elts) :
                g[i] = IF i \in Changes(elts) THEN ExecStep(draws, asleep, elts[i], g[i - 1]) ELSE g[i - 1]
      BY <2>1 DEF ExecRun
    <2>4. \A i \in 0 .. Len(elts) : g[i] =
                IF i = 0 THEN [refs |-> refs, font |-> font]
                ELSE IF i \in Changes(elts) THEN ExecStep(draws, asleep, elts[i], g[i - 1]) ELSE g[i - 1]
      BY <2>2, <2>3, Zenon
    <2>5. g = Body(g)
      BY <2>3, <2>4, Zenon
    <2> QED BY <2>5
  <1>5. f = Body(f)
    <2> HIDE DEF Body
    <2> QED BY <1>4
  <1> HIDE DEF f
  <1>6. ExecRun(f, refs, font, elts, draws, asleep)
    <2>1. f[0] = [refs |-> refs, font |-> font]
      BY <1>2, <1>5
    <2>2. ASSUME NEW i \in 1 .. Len(elts)
          PROVE  f[i] = IF i \in Changes(elts) THEN ExecStep(draws, asleep, elts[i], f[i - 1]) ELSE f[i - 1]
      <3>1. i # 0 /\ i \in 0 .. Len(elts)
        OBVIOUS
      <3> QED BY <1>5, <3>1
    <2>3. f \in [0 .. Len(elts) -> ExecState]
      <3> DEFINE S == {i \in 0 .. Len(elts) : f[i] \in ExecState}
      <3>1. 0 \in S
        BY <1>2, <2>1 DEF x0
      <3>2. ASSUME NEW i \in 0 .. Len(elts) - 1, i \in S PROVE i + 1 \in S
        <4>1. i + 1 \in 1 .. Len(elts) /\ (i + 1) - 1 = i /\ i + 1 \in 0 .. Len(elts)
          OBVIOUS
        <4>2. f[i] \in ExecState
          BY <3>2
        <4>3. i + 1 \in Changes(elts) => ExecStep(draws, asleep, elts[i + 1], f[i]) \in ExecState
          BY <4>2, ExecStepIs
        <4>4. f[i + 1] = IF i + 1 \in Changes(elts) THEN ExecStep(draws, asleep, elts[i + 1], f[i]) ELSE f[i]
          BY <2>2, <4>1
        <4>5. f[i + 1] \in ExecState
          BY <4>2, <4>3, <4>4
        <4> QED BY <4>1, <4>5
      <3>3. Len(elts) \in Nat
        OBVIOUS
      <3> HIDE DEF S
      <3>4. \A i \in 0 .. Len(elts) - 1 : i \in S => i + 1 \in S
        BY <3>2
      <3>5. \A i \in 0 .. Len(elts) : i \in S
        BY <3>1, <3>3, <3>4, SetInduction
      <3>6. \A i \in 0 .. Len(elts) : f[i] \in ExecState
        BY <3>5 DEF S
      <3>7. f = [i \in 0 .. Len(elts) |-> f[i]]
        BY <1>5
      <3> QED BY <3>6, <3>7
    <2> QED BY <2>1, <2>2, <2>3, Zenon DEF ExecRun
  <1> QED BY <1>1, <1>6


\* The first i elements' changes to f.
ChangedBy(elts, i, f) == {j \in Changes(elts) : j <= i /\ idFont[elts[j]] = f}

LEMMA ChangedByIs ==
  ASSUME NEW elts \in Seq(Elements), NEW f
  PROVE  /\ Cardinality(ChangedBy(elts, 0, f)) = 0
         /\ \A i \in 1 .. Len(elts) :
               /\ Cardinality(ChangedBy(elts, i - 1, f)) \in Nat /\ Cardinality(ChangedBy(elts, i, f)) \in Nat
               /\ Cardinality(ChangedBy(elts, i, f)) = Cardinality(ChangedBy(elts, i - 1, f))
                     + IF i \in Changes(elts) THEN Is(idFont[elts[i]], f) ELSE 0
         /\ Cardinality(ChangedBy(elts, Len(elts), f)) = ChangesNamed(idFont, elts, f)
  <1>0. /\ Changes(elts) \subseteq 1 .. Len(elts) /\ Len(elts) \in Nat
        /\ IsFiniteSet(Changes(elts))
    BY ChangesFinite DEF Elements
  <1>1. ChangedBy(elts, 0, f) = {}
    BY <1>0 DEF ChangedBy
  <1>2. Cardinality(ChangedBy(elts, 0, f)) = 0
    BY <1>1, FS_EmptySet
  <1>3. ASSUME NEW i \in 1 .. Len(elts)
        PROVE  /\ Cardinality(ChangedBy(elts, i - 1, f)) \in Nat /\ Cardinality(ChangedBy(elts, i, f)) \in Nat
               /\ Cardinality(ChangedBy(elts, i, f)) = Cardinality(ChangedBy(elts, i - 1, f))
                     + IF i \in Changes(elts) THEN Is(idFont[elts[i]], f) ELSE 0
    <2> DEFINE A == ChangedBy(elts, i - 1, f)
               B == ChangedBy(elts, i, f)
    <2>1. \A j \in 1 .. Len(elts) : j # i => (j <= i - 1 <=> j <= i)
      BY <1>0
    <2>2. SameBut(A, B, i)
      BY <1>0, <2>1 DEF SameBut, ChangedBy
    <2>3. i \notin A /\ (i \in B <=> i \in Changes(elts) /\ idFont[elts[i]] = f)
      BY <1>0 DEF ChangedBy
    <2>4. A \subseteq Changes(elts)
      BY DEF ChangedBy
    <2> HIDE DEF A, B
    <2>5. IsFiniteSet(A)
      BY <1>0, <2>4, FS_Subset
    <2>6. /\ Cardinality(A) \in Nat /\ Cardinality(B) \in Nat
          /\ Cardinality(B) = Cardinality(A) - OneIf(i \in A) + OneIf(i \in B)
      BY <2>2, <2>5, OneMore
    <2>7. OneIf(i \in A) = 0 /\ OneIf(i \in B) = IF i \in Changes(elts) THEN Is(idFont[elts[i]], f) ELSE 0
      BY <2>3 DEF OneIf, Is
    <2>8. OneIf(i \in B) \in Int
      BY DEF OneIf
    <2>9. Cardinality(B) = Cardinality(A) + OneIf(i \in B)
      BY <2>6, <2>7, <2>8
    <2> QED BY <2>6, <2>7, <2>9 DEF A, B
  <1>4. ChangedBy(elts, Len(elts), f) = {j \in Changes(elts) : idFont[elts[j]] = f}
    BY <1>0 DEF ChangedBy
  <1>5. Cardinality(ChangedBy(elts, Len(elts), f)) = ChangesNamed(idFont, elts, f)
    BY <1>4 DEF ChangesNamed
  <1> QED BY <1>2, <1>3, <1>5

LEMMA Executed ==
  ASSUME NEW refs \in FontCounts, NEW font \in Fonts, NEW elts \in Seq(Elements),
         NEW draws, NEW asleep,
         draws => \A i \in Changes(elts) : idFont[elts[i]] \in Fonts
  PROVE  /\ Execute(refs, font, elts, draws, asleep) \in ExecState
         /\ draws => \A f \in Fonts :
               Execute(refs, font, elts, draws, asleep).refs[f]
                  = refs[f] + Is(Execute(refs, font, elts, draws, asleep).font, f) - Is(font, f)
                    - Undone(asleep, ChangesNamed(idFont, elts, f))
         /\ Changes(elts) = {} => Execute(refs, font, elts, draws, asleep) = [refs |-> refs, font |-> font]
  <1> DEFINE n == Len(elts)
             s == Execute(refs, font, elts, draws, asleep)
             Now(i, f) == Undone(asleep, Cardinality(ChangedBy(elts, i, f)))
  <1>1. PICK a : ExecRun(a, refs, font, elts, draws, asleep) /\ s = a[n]
    BY ExecIsRun
  <1>2. /\ a \in [0 .. n -> ExecState] /\ a[0] = [refs |-> refs, font |-> font]
        /\ \A i \in 1 .. n :
              a[i] = IF i \in Changes(elts) THEN ExecStep(draws, asleep, elts[i], a[i - 1]) ELSE a[i - 1]
    BY <1>1 DEF ExecRun
  <1>3. n \in Nat /\ n \in 0 .. n
    OBVIOUS
  <1>4. a[n] \in ExecState
    BY <1>2, <1>3
  <1> HIDE DEF n, s
  <1>5. ASSUME Changes(elts) = {} PROVE a[n] = a[0]
    <2> DEFINE S == {i \in 0 .. n : a[i] = a[0]}
    <2>1. 0 \in S
      BY <1>3
    <2>2. ASSUME NEW i \in 0 .. n - 1, i \in S PROVE i + 1 \in S
      <3>1. i + 1 \in 1 .. n /\ i + 1 \in 0 .. n /\ (i + 1) - 1 = i
        BY <1>3
      <3>2. a[i + 1] = a[i]
        BY <1>2, <1>5, <3>1
      <3> QED BY <2>2, <3>1, <3>2
    <2> HIDE DEF S
    <2>3. n \in S
      BY <1>3, <2>1, <2>2, SetInduction
    <2> QED BY <2>3 DEF S
  <1>6. ASSUME draws, NEW f \in Fonts
        PROVE  a[n].refs[f] = refs[f] + Is(a[n].font, f) - Is(font, f) - Now(n, f)
    <2> DEFINE S == {i \in 0 .. n : a[i].refs[f] = refs[f] + Is(a[i].font, f) - Is(font, f) - Now(i, f)}
    <2>0. refs[f] \in Int /\ \A b, c : Is(b, c) \in Int
      BY <1>6, IsNumber DEF FontCounts
    <2>1. 0 \in S
      <3>1. a[0].refs = refs /\ a[0].font = font /\ Now(0, f) = 0
        BY <1>2, ChangedByIs DEF Undone
      <3>2. refs[f] = refs[f] + Is(font, f) - Is(font, f) - 0
        BY <2>0
      <3> HIDE DEF Now
      <3> QED BY <1>3, <3>1, <3>2
    <2>2. ASSUME NEW i \in 0 .. n - 1, i \in S PROVE i + 1 \in S
      <3>1. i + 1 \in 1 .. n /\ i + 1 \in 0 .. n /\ i \in 0 .. n /\ (i + 1) - 1 = i
        BY <1>3
      <3> DEFINE d == IF i + 1 \in Changes(elts) THEN Is(idFont[elts[i + 1]], f) ELSE 0
                 x == a[i]
                 y == a[i + 1]
      <3>2. x \in ExecState /\ y = IF i + 1 \in Changes(elts) THEN ExecStep(draws, asleep, elts[i + 1], x) ELSE x
        BY <1>2, <3>1
      <3>3. x.refs[f] = refs[f] + Is(x.font, f) - Is(font, f) - Now(i, f)
        BY <2>2
      <3>4. /\ Cardinality(ChangedBy(elts, i, f)) \in Nat
            /\ Cardinality(ChangedBy(elts, i + 1, f)) = Cardinality(ChangedBy(elts, i, f)) + d
        <4>1. i + 1 \in 1 .. Len(elts)
          BY <3>1 DEF n
        <4>2. /\ Cardinality(ChangedBy(elts, (i + 1) - 1, f)) \in Nat
              /\ Cardinality(ChangedBy(elts, i + 1, f)) = Cardinality(ChangedBy(elts, (i + 1) - 1, f)) + d
          BY <4>1, ChangedByIs
        <4> QED BY <3>1, <4>2
      <3>5. d \in Int
        BY <2>0
      <3>6. Now(i + 1, f) = Now(i, f) + (Undone(asleep, d)) /\ Now(i, f) \in Int
        <4> HIDE DEF d
        <4> QED BY <3>4, <3>5 DEF Undone
      <3> HIDE DEF Now
      <3>7. y.refs[f] = refs[f] + Is(y.font, f) - Is(font, f) - Now(i + 1, f)
        <4>1. CASE i + 1 \in Changes(elts)
          <5>1. /\ y.font = idFont[elts[i + 1]]
                /\ y.refs[f] = x.refs[f] + Is(idFont[elts[i + 1]], f) - Is(x.font, f)
                                 - Undone(asleep, Is(idFont[elts[i + 1]], f))
            <6> HIDE DEF x, y, d
            <6>1. idFont[elts[i + 1]] \in Fonts /\ y = ExecStep(draws, asleep, elts[i + 1], x)
              BY <1>6, <3>2, <4>1
            <6>2. Stepped(x, ExecStep(draws, asleep, elts[i + 1], x), elts[i + 1], asleep, f)
              BY <1>6, <3>2, <6>1, ExecStepIs
            <6> QED BY <6>1, <6>2 DEF Stepped
          <5>2. d = Is(idFont[elts[i + 1]], f)
            BY <4>1
          <5> HIDE DEF x, y, d
          <5>3. y.refs[f] = x.refs[f] + Is(y.font, f) - Is(x.font, f) - Undone(asleep, d)
            BY <5>1, <5>2
          <5> QED BY <2>0, <3>3, <3>5, <3>6, <5>3 DEF Undone
        <4>2. CASE i + 1 \notin Changes(elts)
          <5>1. y = x /\ d = 0
            BY <3>2, <4>2
          <5>2. Now(i + 1, f) = Now(i, f)
            <6> HIDE DEF d
            <6> QED BY <3>6, <5>1 DEF Undone
          <5> QED BY <3>3, <5>1, <5>2
        <4> QED BY <4>1, <4>2
      <3> QED BY <3>1, <3>7
    <2> HIDE DEF S, Now
    <2>3. n \in S
      BY <1>3, <2>1, <2>2, SetInduction
    <2> QED BY <2>3 DEF S
  <1>7. \A f : Now(n, f) = Undone(asleep, ChangesNamed(idFont, elts, f))
    BY ChangedByIs DEF n
  <1> HIDE DEF Now
  <1>8. s \in ExecState
    BY <1>1, <1>4
  <1>9. Changes(elts) = {} => s = [refs |-> refs, font |-> font]
    BY <1>1, <1>2, <1>5
  <1>10. draws => \A f \in Fonts : s.refs[f] = refs[f] + Is(s.font, f) - Is(font, f) - Now(n, f)
    BY <1>1, <1>6
  <1> QED BY <1>7, <1>8, <1>9, <1>10, Zenon DEF s


\* Without a drawable the font stays, and it is this that is closed.
OnlyCloses(refs, font, s) ==
    /\ s.font = font
    /\ \A f \in Fonts : s.refs[f] <= refs[f] /\ (f # font => s.refs[f] = refs[f])

LEMMA BlindStep ==
  ASSUME NEW draws, ~draws, NEW asleep, asleep, NEW refs \in FontCounts, NEW font \in Fonts, NEW e, NEW s \in ExecState,
         OnlyCloses(refs, font, s)
  PROVE  OnlyCloses(refs, font, ExecStep(draws, asleep, e, s))
  <1> DEFINE m == Minus(s.refs, font)
  <1>1. s.font = font /\ s.refs \in FontCounts
    BY DEF OnlyCloses, ExecState
  <1>2. ExecStep(draws, asleep, e, s) = [refs |-> m, font |-> font]
    BY <1>1 DEF ExecStep
  <1>3. m \in FontCounts /\ \A f \in Fonts : m[f] = s.refs[f] - Is(font, f)
    BY <1>1, PlusMinus
  <1> HIDE DEF m
  <1>4. ExecStep(draws, asleep, e, s).refs = m /\ ExecStep(draws, asleep, e, s).font = font
    <2>1. [refs |-> m, font |-> font].refs = m /\ [refs |-> m, font |-> font].font = font
      OBVIOUS
    <2> QED BY <1>2, <2>1, Zenon
  <1>5. ASSUME NEW f \in Fonts PROVE m[f] <= refs[f] /\ (f # font => m[f] = refs[f])
    <2>1. s.refs[f] \in Int /\ refs[f] \in Int /\ s.refs[f] <= refs[f] /\ (f # font => s.refs[f] = refs[f])
      BY <1>1 DEF OnlyCloses, FontCounts
    <2>2. Is(font, f) \in {0, 1} /\ (f # font => Is(font, f) = 0)
      BY DEF Is
    <2>3. m[f] = s.refs[f] - Is(font, f)
      BY <1>3
    <2> QED BY <2>1, <2>2, <2>3
  <1> QED BY <1>4, <1>5 DEF OnlyCloses

LEMMA BlindlyExecuted ==
  ASSUME NEW refs \in FontCounts, NEW font \in Fonts, NEW elts \in Seq(Elements),
         NEW draws, NEW asleep,
         draws => \A i \in Changes(elts) : idFont[elts[i]] \in Fonts
  PROVE  ~draws /\ asleep => OnlyCloses(refs, font, Execute(refs, font, elts, draws, asleep))
  <1> DEFINE s == Execute(refs, font, elts, draws, asleep)
             n == Len(elts)
  <1>1. PICK a : ExecRun(a, refs, font, elts, draws, asleep) /\ s = a[n]
    BY ExecIsRun
  <1>2. /\ a \in [0 .. n -> ExecState] /\ a[0] = [refs |-> refs, font |-> font]
        /\ \A i \in 1 .. n :
              a[i] = IF i \in Changes(elts) THEN ExecStep(draws, asleep, elts[i], a[i - 1]) ELSE a[i - 1]
    BY <1>1 DEF ExecRun
  <1>3. n \in Nat
    OBVIOUS
  <1> HIDE DEF n, s
  <1> DEFINE S == {i \in 0 .. n : OnlyCloses(refs, font, a[i])}
  <1>4. 0 \in S
    <2>1. a[0].refs = refs /\ a[0].font = font
      BY <1>2
    <2>2. \A f \in Fonts : refs[f] <= refs[f]
      BY DEF FontCounts
    <2>3. OnlyCloses(refs, font, a[0])
      BY <2>1, <2>2 DEF OnlyCloses
    <2> QED BY <1>3, <2>3
  <1>5. ASSUME ~draws, asleep, NEW i \in 0 .. n - 1, i \in S PROVE i + 1 \in S
    <2>1. i + 1 \in 1 .. n /\ i + 1 \in 0 .. n /\ i \in 0 .. n /\ (i + 1) - 1 = i
      BY <1>3
    <2>2. a[i] \in ExecState /\ OnlyCloses(refs, font, a[i])
      BY <1>2, <1>5, <2>1
    <2>3. OnlyCloses(refs, font, ExecStep(draws, asleep, elts[i + 1], a[i]))
      BY <1>5, <2>2, BlindStep
    <2>4. a[i + 1] = IF i + 1 \in Changes(elts) THEN ExecStep(draws, asleep, elts[i + 1], a[i]) ELSE a[i]
      BY <1>2, <2>1
    <2> QED BY <2>1, <2>2, <2>3, <2>4
  <1> HIDE DEF S
  <1>6. ASSUME ~draws, asleep PROVE \A i \in 0 .. n : i \in S
    BY <1>6,  <1>3, <1>4, <1>5, SetInduction
  <1>7. n \in 0 .. n
    BY <1>3
  <1>8. ~draws /\ asleep => OnlyCloses(refs, font, a[n])
    BY <1>6, <1>7 DEF S
  <1> QED BY <1>1, <1>8 DEF s

\* Execute changes the count of f by this, and by what the marks make.
Exchanged(refs, font, elts, asleep, s, f) ==
    s.refs[f] = refs[f] + Is(s.font, f) - Is(font, f) - Undone(asleep, ChangesNamed(idFont, elts, f))

\* u is the first n - 1 elements.
Prefix_(u, elts, n) ==
    /\ u \in Seq(Elements) /\ Len(u) = n - 1 /\ \A i \in 1 .. n - 1 : u[i] = elts[i]
    /\ Changes(u) = {i \in Changes(elts) : i < n}

LEMMA UptoIs ==
  ASSUME NEW elts \in Seq(Elements), NEW n \in 1 .. Len(elts) + 1
  PROVE  Prefix_(Upto(elts, n), elts, n)
  BY Pieces DEF Prefix_

\* Who draws meets no ID without a font.
Known(draws, elts) == draws => \A i \in Changes(elts) : idFont[elts[i]] \in Fonts

HasExecuted(refs, font, elts, draws, asleep, s) ==
    /\ s \in ExecState
    /\ draws => \A f \in Fonts : Exchanged(refs, font, elts, asleep, s, f)
    /\ Changes(elts) = {} => s = [refs |-> refs, font |-> font]

LEMMA ExecutedIs ==
  ASSUME NEW refs \in FontCounts, NEW font \in Fonts, NEW elts \in Seq(Elements), NEW draws, NEW asleep,
         Known(draws, elts)
  PROVE  HasExecuted(refs, font, elts, draws, asleep, Execute(refs, font, elts, draws, asleep))
  BY Executed DEF Exchanged, Known, HasExecuted

TextClosures == [does : {"text"}, elts : Seq(Elements), gc : Fonts]

\* A closure is given up after n - 1 elements: what it marked there is undone.
GivesUp(refs, v, n, r, f) == r[f] = refs[f] - Is(v.gc, f) - ChangesNamed(idFont, Upto(v.elts, n), f)

\* It is given up without its drawable: its own font alone is closed.
ClosesFont(refs, v, r, f) == r[f] <= refs[f] - Is(v.gc, f) /\ (f # v.gc => r[f] = refs[f])

LEMMA GivenUpIs ==
  ASSUME NEW refs \in FontCounts, NEW v \in TextClosures, NEW n \in 1 .. Len(v.elts) + 1, NEW draws,
         draws => \A i \in Changes(v.elts) : i < n => idFont[v.elts[i]] \in Fonts
  PROVE  /\ GivenUp(refs, v, n, draws) \in FontCounts
         /\ draws \/ Changes(Upto(v.elts, n)) = {} => \A f \in Fonts : GivesUp(refs, v, n, GivenUp(refs, v, n, draws), f)
         /\ ~draws => \A f \in Fonts : ClosesFont(refs, v, GivenUp(refs, v, n, draws), f)
  <1> DEFINE u == Upto(v.elts, n)
             s == Execute(refs, v.gc, u, draws, TRUE)
             r == Minus(s.refs, s.font)
  <1>1. v.elts \in Seq(Elements) /\ v.gc \in Fonts
    BY DEF TextClosures
  <1>2. /\ u \in Seq(Elements) /\ Changes(u) = {i \in Changes(v.elts) : i < n}
        /\ \A i \in 1 .. n - 1 : u[i] = v.elts[i]
        /\ Len(u) = n - 1
    BY <1>1, UptoIs DEF Prefix_
  <1>3. \A i \in Changes(u) : u[i] = v.elts[i]
    <2>1. Changes(u) \subseteq 1 .. Len(u)
      BY <1>2, ChangesFinite DEF Elements
    <2> QED BY <1>2, <2>1
  <1>4. GivenUp(refs, v, n, draws) = r
    BY DEF GivenUp
  <1> HIDE DEF u
  <1>5. Known(draws, u)
    BY <1>2, <1>3 DEF Known
  <1>6. /\ s \in ExecState
        /\ draws => \A f \in Fonts : Exchanged(refs, v.gc, u, TRUE, s, f)
        /\ Changes(u) = {} => s = [refs |-> refs, font |-> v.gc]
    <2>1. HasExecuted(refs, v.gc, u, draws, TRUE, s)
      BY <1>1, <1>2, <1>5, ExecutedIs
    <2> HIDE DEF s
    <2> QED BY <2>1, Zenon DEF HasExecuted
  <1> HIDE DEF s
  <1>7. s.refs \in FontCounts /\ s.font \in Fonts
    BY <1>6 DEF ExecState
  <1>8. r \in FontCounts /\ \A f \in Fonts : r[f] = s.refs[f] - Is(s.font, f)
    BY <1>7, PlusMinus
  <1> HIDE DEF r
  <1>9. ASSUME draws \/ Changes(u) = {}, NEW f \in Fonts
        PROVE  GivesUp(refs, v, n, r, f)
    <2> DEFINE k == ChangesNamed(idFont, u, f)
    <2>1. k \in Nat /\ refs[f] \in Int /\ s.refs[f] \in Int /\ \A a, b : Is(a, b) \in Int
      <3>1. k \in Nat
        BY <1>2, ChangesFinite DEF Elements
      <3> QED BY <1>7, <3>1, IsNumber DEF FontCounts
    <2>2. s.refs[f] = refs[f] + Is(s.font, f) - Is(v.gc, f) - k
      <3>1. CASE draws
        BY <1>6, <3>1 DEF Exchanged, Undone
      <3>2. CASE Changes(u) = {}
        <4>1. Changes(u) = {}
          BY <3>2
        <4>2. k = 0
          <5>1. {i \in Changes(u) : idFont[u[i]] = f} = {}
            BY <4>1
          <5> QED BY <5>1, FS_EmptySet DEF ChangesNamed
        <4>3. s.refs = refs /\ s.font = v.gc
          BY <1>6, <4>1
        <4> HIDE DEF k
        <4> QED BY <2>1, <4>2, <4>3
      <3> QED BY <1>9, <3>1, <3>2
    <2>3. r[f] = s.refs[f] - Is(s.font, f)
      BY <1>8
    <2> HIDE DEF k
    <2>4. r[f] = refs[f] - Is(v.gc, f) - k
      BY <2>1, <2>2, <2>3
    <2> QED BY <2>4 DEF GivesUp, k, u
  <1>10. ASSUME ~draws, NEW f \in Fonts PROVE ClosesFont(refs, v, r, f)
    <2>1. OnlyCloses(refs, v.gc, s)
      BY <1>1, <1>2, <1>10, BlindlyExecuted DEF s
    <2>2. s.font = v.gc /\ s.refs[f] <= refs[f] /\ (f # v.gc => s.refs[f] = refs[f])
      BY <2>1 DEF OnlyCloses
    <2>3. r[f] = s.refs[f] - Is(s.font, f)
      BY <1>8
    <2>4. refs[f] \in Int /\ s.refs[f] \in Int /\ Is(v.gc, f) \in {0, 1} /\ (f # v.gc => Is(v.gc, f) = 0)
      BY <1>7 DEF FontCounts, Is
    <2> QED BY <2>2, <2>3, <2>4 DEF ClosesFont
  <1> QED BY <1>4, <1>8, <1>9, <1>10 DEF u

LEMMA GreatestOf ==
  ASSUME NEW n \in Nat, NEW S \in SUBSET (1 .. n), S # {}
  PROVE  Max(S) \in S
  <1> DEFINE T == {n - i : i \in S}
  <1>1. T \in SUBSET Nat /\ T # {}
    <2>1. \A i \in S : n - i \in Nat
      OBVIOUS
    <2> QED BY <2>1
  <1>2. PICK x \in T : \A y \in T : x <= y
    <2> HIDE DEF T
    <2> QED BY <1>1, LeastOf
  <1>3. PICK i \in S : x = n - i
    BY <1>2
  <1>4. \A j \in S : i >= j
    BY <1>2, <1>3
  <1> QED BY <1>4 DEF Max

\* The font of the GC when the rest of a request is executed.
FinalFont(s, rest) == IF Changes(rest) = {} THEN s.font ELSE idFont[rest[Max(Changes(rest))]]

\* The counts when a client falls asleep.
AsleepRefs(s, rest) ==
    LET r == Marked(Plus(s.refs, s.font), rest)
    IN  IF FinalFont(s, rest) # s.font THEN ChangeFont(r, s.font, FinalFont(s, rest)) ELSE r

MarksRest(s, rest, r, f) ==
    r[f] = s.refs[f] + ChangesNamed(idFont, rest, f) + Is(FinalFont(s, rest), f)

LEMMA AsleepIs ==
  ASSUME NEW s \in ExecState, NEW rest \in Seq(Elements),
         \A i \in Changes(rest) : idFont[rest[i]] \in Fonts
  PROVE  /\ FinalFont(s, rest) \in Fonts /\ AsleepRefs(s, rest) \in FontCounts
         /\ \A f \in Fonts : MarksRest(s, rest, AsleepRefs(s, rest), f)
  <1> DEFINE g == FinalFont(s, rest)
             p == Plus(s.refs, s.font)
             r == Marked(p, rest)
             t == IF g # s.font THEN ChangeFont(r, s.font, g) ELSE r
  <1>1. s.refs \in FontCounts /\ s.font \in Fonts
    BY DEF ExecState
  <1>2. g \in Fonts
    <2>1. Len(rest) \in Nat /\ Changes(rest) \in SUBSET (1 .. Len(rest))
      BY ChangesFinite DEF Elements
    <2>2. Changes(rest) # {} => Max(Changes(rest)) \in Changes(rest)
      BY <2>1, GreatestOf
    <2> QED BY <1>1, <2>2 DEF FinalFont
  <1>3. p \in FontCounts /\ \A f \in Fonts : p[f] = s.refs[f] + Is(s.font, f)
    BY <1>1, PlusMinus
  <1>4. \A f \in Fonts : ChangesNamed(idFont, rest, f) \in Nat
    BY ChangesFinite DEF Elements
  <1>5. AsleepRefs(s, rest) = t
    BY DEF AsleepRefs
  <1> HIDE DEF g, p
  <1>6. r \in FontCounts /\ \A f \in Fonts : r[f] = p[f] + ChangesNamed(idFont, rest, f)
    <2>1. r = [f \in Fonts |-> p[f] + ChangesNamed(idFont, rest, f)]
      BY DEF Marked, ChangesTo, ChangesNamed
    <2>2. \A f \in Fonts : p[f] \in Int
      BY <1>3 DEF FontCounts
    <2> HIDE DEF r
    <2> QED BY <1>4, <2>1, <2>2 DEF FontCounts
  <1> HIDE DEF r
  <1>7. t \in FontCounts /\ \A f \in Fonts : t[f] = r[f] + Is(g, f) - Is(s.font, f)
    <2>1. CASE g = s.font
      <3>1. t = r /\ \A f \in Fonts : r[f] \in Int
        BY <1>6, <2>1 DEF FontCounts
      <3> QED BY <1>6, <2>1, <3>1, IsNumber
    <2>2. CASE g # s.font
      <3> DEFINE q == Plus(r, g)
      <3>1. t = Minus(q, s.font)
        BY <2>2 DEF ChangeFont
      <3>2. q \in FontCounts /\ \A f \in Fonts : q[f] = r[f] + Is(g, f)
        BY <1>2, <1>6, PlusMinus
      <3> HIDE DEF q, t
      <3>3. Minus(q, s.font) \in FontCounts /\ \A f \in Fonts : Minus(q, s.font)[f] = q[f] - Is(s.font, f)
        BY <1>1, <3>2, PlusMinus
      <3>4. ASSUME NEW f \in Fonts PROVE t[f] = r[f] + Is(g, f) - Is(s.font, f)
        <4>1. q[f] = r[f] + Is(g, f) /\ t[f] = q[f] - Is(s.font, f)
          BY <3>1, <3>2, <3>3
        <4>2. r[f] \in Int /\ \A a, b : Is(a, b) \in Int
          BY <1>6, IsNumber DEF FontCounts
        <4> QED BY <4>1, <4>2
      <3>5. t \in FontCounts
        BY <3>1, <3>3
      <3> QED BY <3>4, <3>5
    <2> QED BY <2>1, <2>2
  <1> HIDE DEF t
  <1>8. ASSUME NEW f \in Fonts PROVE MarksRest(s, rest, t, f)
    <2>1. /\ p[f] = s.refs[f] + Is(s.font, f) /\ r[f] = p[f] + ChangesNamed(idFont, rest, f)
          /\ t[f] = r[f] + Is(g, f) - Is(s.font, f)
      BY <1>3, <1>6, <1>7
    <2>2. s.refs[f] \in Int /\ ChangesNamed(idFont, rest, f) \in Int /\ \A a, b : Is(a, b) \in Int
      BY <1>1, <1>4, IsNumber DEF FontCounts
    <2>3. t[f] = s.refs[f] + ChangesNamed(idFont, rest, f) + Is(g, f)
      BY <2>1, <2>2
    <2> QED BY <2>3 DEF MarksRest, g
  <1> QED BY <1>2, <1>5, <1>7, <1>8 DEF g


\* w is q without c, as far as i.
LeavesOut(w, q, c, i) ==
    /\ \A k \in 1 .. Len(w) : \E j \in 1 .. i : w[k] = q[j] /\ q[j] # c
    /\ IsInjective(w)

LEMMA PutLast ==
  ASSUME NEW X, NEW s \in Seq(X), NEW x \in X
  PROVE  /\ Append(s, x) \in Seq(X) /\ Len(Append(s, x)) = Len(s) + 1 /\ Append(s, x) # <<>>
         /\ Append(s, x)[Len(s) + 1] = x
         /\ \A k \in 1 .. Len(s) : Append(s, x)[k] = s[k]
         /\ IsInjective(s) /\ (\A k \in 1 .. Len(s) : s[k] # x) => IsInjective(Append(s, x))
  <1> DEFINE t == Append(s, x)
  <1>1. /\ t \in Seq(X) /\ Len(t) = Len(s) + 1 /\ t # <<>>
        /\ t[Len(s) + 1] = x /\ \A k \in 1 .. Len(s) : t[k] = s[k]
    OBVIOUS
  <1> HIDE DEF t
  <1>2. ASSUME IsInjective(s), \A k \in 1 .. Len(s) : s[k] # x PROVE IsInjective(t)
    <2>1. DOMAIN t = 1 .. Len(s) + 1 /\ DOMAIN s = 1 .. Len(s) /\ Len(s) \in Nat
      BY <1>1
    <2>2. \A i \in DOMAIN t : i \in 1 .. Len(s) \/ i = Len(s) + 1
      BY <2>1
    <2> QED BY <1>1, <1>2, <2>1, <2>2 DEF IsInjective
  <1> QED BY <1>1, <1>2 DEF t

LEMMA WithoutIs ==
  ASSUME NEW X, NEW q \in Seq(X), NEW c,
         \A i, j \in 1 .. Len(q) : q[i] = q[j] /\ q[i] # c => i = j
  PROVE  Without(q, c) \in Seq(X) /\ LeavesOut(Without(q, c), q, c, Len(q))
  <1> DEFINE n == Len(q)
             Y == Seq(X)
             U(w, i) == IF q[i] = c THEN w ELSE Append(w, q[i])
             F == [p \in Y \X (1 .. n) |-> U(p[1], p[2])]
             Body(g) == [i \in 0 .. Len(q) |-> IF i = 0 THEN <<>> ELSE IF q[i] = c THEN g[i - 1] ELSE Append(g[i - 1], q[i])]
             f == CHOOSE g : g = Body(g)
  <1>1. Without(q, c) = f[Len(q)]
    BY DEF Without
  <1>2. n \in Nat /\ <<>> \in Y /\ \A i \in 1 .. n : q[i] \in X
    OBVIOUS
  <1>3. \E g : g = Body(g)
    <2>1. ASSUME NEW w \in Y, NEW i \in 1 .. n PROVE U(w, i) \in Y
      BY <1>2, <2>1, PutLast
    <2>2. F \in [Y \X (1 .. n) -> Y]
      <3>1. ASSUME NEW p \in Y \X (1 .. n) PROVE U(p[1], p[2]) \in Y
        <4>1. p[1] \in Y /\ p[2] \in 1 .. n
          OBVIOUS
        <4> HIDE DEF U, Y
        <4> QED BY <2>1, <4>1
      <3> HIDE DEF U
      <3> QED BY <3>1
    <2> HIDE DEF F, n, U, Y
    <2>3. PICK g : Recursive(g, Y, n, <<>>, F)
      BY <1>2, <2>2, RecursionExists
    <2>4. g \in [0 .. n -> Y] /\ g[0] = <<>> /\ \A i \in 1 .. n : g[i] = F[<<g[i - 1], i>>]
      BY <2>3 DEF Recursive
    <2>5. ASSUME NEW i \in 1 .. n PROVE g[i] = U(g[i - 1], i)
      <3>1. i - 1 \in 0 .. n
        BY <1>2
      <3>2. <<g[i - 1], i>> \in Y \X (1 .. n)
        BY <2>4, <3>1
      <3>3. F[<<g[i - 1], i>>] = U(g[i - 1], i)
        BY <3>2 DEF F
      <3> QED BY <2>4, <3>3
    <2>6. \A i \in 0 .. Len(q) : i = 0 \/ i \in 1 .. Len(q)
      OBVIOUS
    <2>7. \A i \in 0 .. Len(q) : g[i] = IF i = 0 THEN <<>> ELSE IF q[i] = c THEN g[i - 1] ELSE Append(g[i - 1], q[i])
      BY <2>4, <2>5, <2>6, Zenon DEF U, n
    <2>8. g = [i \in 0 .. Len(q) |-> g[i]]
      BY <2>4 DEF n
    <2>9. g = Body(g)
      BY <2>7, <2>8, Zenon
    <2> QED BY <2>9
  <1>4. f = Body(f)
    <2> HIDE DEF Body
    <2> QED BY <1>3
  <1> HIDE DEF f
  <1>5. f[0] = <<>>
    BY <1>2, <1>4
  <1>6. ASSUME NEW i \in 0 .. n - 1 PROVE f[i + 1] = IF q[i + 1] = c THEN f[i] ELSE Append(f[i], q[i + 1])
    <2>1. i + 1 \in 0 .. Len(q) /\ i + 1 # 0 /\ (i + 1) - 1 = i
      BY <1>2
    <2> QED BY <1>4, <2>1
  <1> HIDE DEF Y
  <1> DEFINE S == {i \in 0 .. n : f[i] \in Seq(X) /\ LeavesOut(f[i], q, c, i)}
  <1>7. 0 \in S
    <2>1. Len(<<>>) = 0 /\ DOMAIN <<>> = {} /\ <<>> \in Seq(X)
      OBVIOUS
    <2>2. LeavesOut(<<>>, q, c, 0)
      BY <2>1 DEF LeavesOut, IsInjective
    <2>3. 0 \in 0 .. n
      BY <1>2
    <2>4. f[0] \in Seq(X) /\ LeavesOut(f[0], q, c, 0)
      BY <1>5, <2>1, <2>2
    <2> HIDE DEF n
    <2> QED BY <2>3, <2>4
  <1>8. ASSUME NEW i \in 0 .. n - 1, i \in S PROVE i + 1 \in S
    <2>1. i + 1 \in 0 .. n /\ i + 1 \in 1 .. n /\ \A j \in 1 .. i : j \in 1 .. i + 1 /\ j \in 1 .. n /\ j # i + 1
      BY <1>2
    <2>2. f[i] \in Seq(X) /\ LeavesOut(f[i], q, c, i)
      BY <1>8
    <2> DEFINE w == f[i]
    <2>3. CASE q[i + 1] = c
      <3>1. f[i + 1] = w
        BY <1>6, <2>3
      <3>2. LeavesOut(w, q, c, i + 1)
        BY <2>1, <2>2 DEF LeavesOut
      <3> QED BY <2>1, <2>2, <3>1, <3>2
    <2>4. CASE q[i + 1] # c
      <3> DEFINE x == q[i + 1]
      <3>1. f[i + 1] = Append(w, x) /\ x \in X
        BY <1>2, <1>6, <2>1, <2>4
      <3> HIDE DEF w
      <3>2. w \in Seq(X) /\ LeavesOut(w, q, c, i)
        BY <2>2 DEF w
      <3>3. \A k \in 1 .. Len(w) : w[k] # x
        <4>1. ASSUME NEW k \in 1 .. Len(w) PROVE w[k] # x
          <5>1. PICK j \in 1 .. i : w[k] = q[j]
            BY <3>2 DEF LeavesOut
          <5>2. q[j] # q[i + 1]
            BY <2>1, <2>4
          <5> QED BY <5>1, <5>2
        <4> QED BY <4>1
      <3> DEFINE t == Append(w, x)
      <3>4. /\ t \in Seq(X) /\ Len(t) = Len(w) + 1 /\ t[Len(w) + 1] = x
            /\ \A k \in 1 .. Len(w) : t[k] = w[k]
            /\ IsInjective(t)
        BY <3>1, <3>2, <3>3, PutLast DEF LeavesOut
      <3> HIDE DEF t
      <3>5. LeavesOut(t, q, c, i + 1)
        <4>1. \A k \in 1 .. Len(t) : k \in 1 .. Len(w) \/ k = Len(w) + 1
          BY <3>2, <3>4
        <4>2. ASSUME NEW k \in 1 .. Len(t) PROVE \E j \in 1 .. i + 1 : t[k] = q[j] /\ q[j] # c
          <5>1. CASE k \in 1 .. Len(w)
            <6>1. PICK j \in 1 .. i : w[k] = q[j] /\ q[j] # c
              BY <3>2, <5>1 DEF LeavesOut
            <6> QED BY <2>1, <3>4, <5>1, <6>1
          <5>2. CASE k = Len(w) + 1
            <6>1. i + 1 \in 1 .. i + 1
              BY <1>2
            <6> QED BY <2>4, <3>4, <5>2, <6>1
          <5> QED BY <4>1, <5>1, <5>2
        <4> QED BY <3>4, <4>2 DEF LeavesOut
      <3>6. f[i + 1] = t
        BY <3>1 DEF t
      <3> QED BY <2>1, <3>4, <3>5, <3>6
    <2> QED BY <2>3, <2>4
  <1> HIDE DEF S
  <1>9. n \in S
    <2> HIDE DEF n
    <2>1. n \in 0 .. n /\ \A i \in 0 .. n - 1 : i \in S => i + 1 \in S
      BY <1>2, <1>8
    <2> QED BY <1>2, <1>7, <2>1, SetInduction
  <1> QED BY <1>1, <1>9 DEF S


ValuesOK ==
    /\ idFont \in FontNames /\ gcFont \in FontsOfGCs /\ refcnt \in FontCounts
    /\ alive \subseteq FClients /\ drawables \subseteq FClients
    /\ closure \in [FClients -> Closures]
    /\ wrong \in BOOLEAN /\ abandoned \subseteq Fonts /\ reopened \subseteq Fonts /\ leaked \subseteq Fonts
    /\ requests \in 0 .. MaxRequests

QueueOK ==
    /\ sleepQueue \subseteq alive /\ pending \subseteq sleepQueue
    /\ \A c \in FClients : c \in sleepQueue <=> closure[c] # NoClosure
    /\ workQueue \in Seq(sleepQueue) /\ IsInjective(workQueue)
    /\ \A i \in 1 .. Len(workQueue) : workQueue[i] \notin pending
    /\ processing \in BOOLEAN /\ (processing => workQueue # <<>>)

\* An ID for which a font is being opened names none yet.
OpenOK ==
    \A c \in FClients : closure[c].does = "open" =>
        idFont[closure[c].id] = NoFont /\ IdOwner[closure[c].id] = c

FontsInv == ValuesOK /\ QueueOK /\ OpenOK /\ FontsAreCounted

-----------------------------------------------------------------------------
\* What a font is counted beyond its references.
Debt(refs, names, gcs, cl, f) == refs[f] - RefCount(names, gcs, cl, f)

LEMMA DebtKept ==
  ASSUME FontsAreCounted, ValuesOK, ValuesOK',
         abandoned \subseteq abandoned', reopened \subseteq reopened', leaked \subseteq leaked',
         \A f \in Fonts : f \notin abandoned' \cup reopened' =>
            NoLess(Debt(refcnt', idFont', gcFont', closure', f), Debt(refcnt, idFont, gcFont, closure, f)),
         \A f \in Fonts : f \notin leaked' =>
            NoLess(Debt(refcnt, idFont, gcFont, closure, f), Debt(refcnt', idFont', gcFont', closure', f))
  PROVE  FontsAreCounted'
  <1>1. SUFFICES ASSUME NEW f \in Fonts
                 PROVE  /\ f \notin abandoned' \cup reopened' => refcnt'[f] >= References(f)'
                        /\ f \notin leaked' => refcnt'[f] <= References(f)'
    BY DEF FontsAreCounted
  <1> DEFINE k == RefCount(idFont, gcFont, closure, f)
             k2 == RefCount(idFont', gcFont', closure', f)
  <1>2. References(f) = k /\ References(f)' = k2
    BY DEF References, RefCount, Times_, ScratchIn, MarksIn, Texting
  <1>3. k \in Nat /\ k2 \in Nat
    BY PartsAreNumbers DEF ValuesOK
  <1>4. refcnt[f] \in Int /\ refcnt'[f] \in Int
    BY DEF ValuesOK, FontCounts
  <1>5. /\ f \notin abandoned \cup reopened => refcnt[f] >= References(f)
        /\ f \notin leaked => refcnt[f] <= References(f)
    BY DEF FontsAreCounted
  <1>6. /\ f \notin abandoned' \cup reopened' => refcnt'[f] - k2 >= refcnt[f] - k
        /\ f \notin leaked' => refcnt[f] - k >= refcnt'[f] - k2
    BY DEF Debt, NoLess
  <1> HIDE DEF k, k2
  <1>7. /\ f \notin abandoned \cup reopened => refcnt[f] >= k
        /\ f \notin leaked => refcnt[f] <= k
    BY <1>2, <1>5
  <1>8. f \notin abandoned' \cup reopened' => refcnt'[f] >= k2
    BY <1>3, <1>4, <1>6, <1>7
  <1>9. f \notin leaked' => refcnt'[f] <= k2
    BY <1>3, <1>4, <1>6, <1>7
  <1> QED BY <1>2, <1>8, <1>9

LEMMA SameIsNoLess ==
  ASSUME NEW refs \in FontCounts, NEW names \in FontNames, NEW gcs \in FontsOfGCs, NEW cl \in [FClients -> Closures],
         NEW f \in Fonts, NEW d, d = Debt(refs, names, gcs, cl, f)
  PROVE  NoLess(d, Debt(refs, names, gcs, cl, f)) /\ NoLess(Debt(refs, names, gcs, cl, f), d) /\ d \in Int
  <1>1. Debt(refs, names, gcs, cl, f) \in Int
    BY PartsAreNumbers DEF Debt, FontCounts
  <1>2. \A i \in Int : i >= i
    OBVIOUS
  <1> QED BY <1>1, <1>2 DEF NoLess

\* The simplest case: nothing is counted otherwise.
LEMMA DebtSame ==
  ASSUME FontsAreCounted, ValuesOK, ValuesOK', UNCHANGED <<abandoned, reopened, leaked>>,
         \A f \in Fonts : Debt(refcnt', idFont', gcFont', closure', f) = Debt(refcnt, idFont, gcFont, closure, f)
  PROVE  FontsAreCounted'
  <1>1. \A f \in Fonts :
           /\ NoLess(Debt(refcnt', idFont', gcFont', closure', f), Debt(refcnt, idFont, gcFont, closure, f))
           /\ NoLess(Debt(refcnt, idFont, gcFont, closure, f), Debt(refcnt', idFont', gcFont', closure', f))
    BY SameIsNoLess DEF ValuesOK
  <1> QED BY <1>1, DebtKept

LEMMA Begun ==
  ASSUME NEW elts \in Seq(Elements), NEW n \in 1 .. Len(elts) + 1, NEW outcome, Outcome(elts, n, outcome),
         idFont \in FontNames
  PROVE  /\ \A i \in Changes(elts) : i < n => idFont[elts[i]] \in Fonts
         /\ Upto(elts, n) \in Seq(Elements) /\ \A d : Known(d, Upto(elts, n))
  <1>1. /\ Stop(elts) \in 1 .. Len(elts) + 1
        /\ \A i \in Changes(elts) : i < Stop(elts) => idFont[elts[i]] \in Fonts
    BY StopIs
  <1>2. n <= Stop(elts)
    BY <1>1 DEF Outcome
  <1>3. Changes(elts) \subseteq 1 .. Len(elts)
    BY ChangesFinite DEF Elements
  <1>4. \A i \in Changes(elts) : i < n => idFont[elts[i]] \in Fonts
    BY <1>1, <1>2, <1>3
  <1> DEFINE u == Upto(elts, n)
  <1>5. /\ u \in Seq(Elements) /\ Len(u) = n - 1 /\ \A i \in 1 .. n - 1 : u[i] = elts[i]
        /\ Changes(u) = {i \in Changes(elts) : i < n}
    BY UptoIs DEF Prefix_
  <1> HIDE DEF u
  <1>6. ASSUME NEW i \in Changes(u) PROVE idFont[u[i]] \in Fonts
    <2>1. i \in Changes(elts) /\ i < n /\ i \in 1 .. n - 1
      BY <1>3, <1>5
    <2> QED BY <1>4, <1>5, <2>1
  <1> QED BY <1>4, <1>5, <1>6 DEF Known, u


LEMMA Recounted ==
  ASSUME NEW names \in FontNames, NEW gcs \in FontsOfGCs, NEW cl \in [FClients -> Closures], NEW f,
         NEW c \in FClients
  PROVE  /\ \A g \in Fonts \cup {NoFont} : /\ [gcs EXCEPT ![c] = g] \in FontsOfGCs
                /\ Transferred(RefCount(names, [gcs EXCEPT ![c] = g], cl, f), RefCount(names, gcs, cl, f), Is(gcs[c], f), Is(g, f))
         /\ \A v \in Closures : /\ [cl EXCEPT ![c] = v] \in [FClients -> Closures]
                /\ Transferred(RefCount(names, gcs, [cl EXCEPT ![c] = v], f), RefCount(names, gcs, cl, f),
                         HeldBy(names, cl[c], f), HeldBy(names, v, f))
                /\ HeldBy(names, cl[c], f) \in Nat /\ HeldBy(names, v, f) \in Nat
         /\ RefCount(names, gcs, cl, f) \in Nat
  <1>1. \A g \in Fonts \cup {NoFont} : [gcs EXCEPT ![c] = g] \in FontsOfGCs
    BY DEF FontsOfGCs
  <1>2. \A v \in Closures : [cl EXCEPT ![c] = v] \in [FClients -> Closures]
    OBVIOUS
  <1>3. ASSUME NEW g \in Fonts \cup {NoFont}
        PROVE  Transferred(RefCount(names, [gcs EXCEPT ![c] = g], cl, f), RefCount(names, gcs, cl, f), Is(gcs[c], f), Is(g, f))
    BY GcChanged DEF Transferred
  <1>4. ASSUME NEW v \in Closures
        PROVE  /\ Transferred(RefCount(names, gcs, [cl EXCEPT ![c] = v], f), RefCount(names, gcs, cl, f),
                         HeldBy(names, cl[c], f), HeldBy(names, v, f))
               /\ HeldBy(names, cl[c], f) \in Nat /\ HeldBy(names, v, f) \in Nat
    BY ClosureChanged DEF Transferred
  <1> QED BY <1>1, <1>2, <1>3, <1>4, PartsAreNumbers


\* What falls asleep: the rest of a request, as far as its IDs have fonts.
RestOf_(elts, n) == Upto(From(elts, n), Stop(From(elts, n)))

LEMMA RestIs ==
  ASSUME NEW elts \in Seq(Elements), NEW n \in 1 .. Len(elts) + 1, idFont \in FontNames
  PROVE  /\ RestOf_(elts, n) \in Seq(Elements)
         /\ \A i \in Changes(RestOf_(elts, n)) : idFont[RestOf_(elts, n)[i]] \in Fonts
  <1> DEFINE w == From(elts, n)
             k == Stop(w)
             u == Upto(w, k)
  <1>1. w \in Seq(Elements)
    BY Pieces
  <1>2. k \in 1 .. Len(w) + 1 /\ \A i \in Changes(w) : i < k => idFont[w[i]] \in Fonts
    BY <1>1, StopIs
  <1>3. RestOf_(elts, n) = u
    BY DEF RestOf_
  <1> HIDE DEF w, k
  <1>4. /\ u \in Seq(Elements) /\ Len(u) = k - 1 /\ \A i \in 1 .. k - 1 : u[i] = w[i]
        /\ Changes(u) = {i \in Changes(w) : i < k}
    BY <1>1, <1>2, UptoIs DEF Prefix_
  <1>5. Changes(w) \subseteq 1 .. Len(w)
    BY <1>1, ChangesFinite DEF Elements
  <1> HIDE DEF u
  <1>6. ASSUME NEW i \in Changes(u) PROVE idFont[u[i]] \in Fonts
    <2>1. i \in Changes(w) /\ i < k /\ i \in 1 .. k - 1
      BY <1>2, <1>4, <1>5
    <2> QED BY <1>2, <1>4, <2>1
  <1> QED BY <1>3, <1>4, <1>6

TextOf(rest, font) == [does |-> "text", elts |-> rest, gc |-> font]

LEMMA TextOfIs ==
  ASSUME NEW rest \in Seq(Elements), NEW font \in Fonts
  PROVE  /\ TextOf(rest, font) \in TextClosures /\ TextOf(rest, font) \in Closures
         /\ TextOf(rest, font) # NoClosure
         /\ TextOf(rest, font).does = "text" /\ TextOf(rest, font).elts = rest /\ TextOf(rest, font).gc = font
         /\ \A names, f : HeldBy(names, TextOf(rest, font), f) = Is(font, f) + ChangesNamed(names, rest, f)
  <1> DEFINE v == TextOf(rest, font)
  <1>1. v.does = "text" /\ v.elts = rest /\ v.gc = font
    BY DEF TextOf
  <1>2. v \in [does : {"text"}, elts : Seq(FontIds \cup {String}), gc : Fonts]
    BY DEF TextOf, Elements
  <1>3. v # NoClosure
    BY DEF NoClosure, TextOf
  <1> HIDE DEF v
  <1>4. v \in TextClosures /\ v \in Closures
    BY <1>2 DEF TextClosures, Closures, Elements
  <1>5. \A names, f : HeldBy(names, v, f) = Is(font, f) + ChangesNamed(names, rest, f)
    BY <1>1, Zenon DEF HeldBy
  <1> QED BY <1>1, <1>3, <1>4, <1>5 DEF v

LEMMA NothingHeld ==
  ASSUME NEW v \in Closures, v.does # "text"
  PROVE  \A names, f : HeldBy(names, v, f) = 0
  BY DEF HeldBy

LEMMA NoClosureIs == NoClosure \in Closures /\ NoClosure.does = "nothing"
  BY DEF NoClosure, Closures

\* PolyText, as far as it gets before it sleeps or ends.
LEMMA PolyTextBegins ==
  ASSUME FontsInv, NEW c \in FClients, NEW elts \in Texts, NEW n \in 1 .. Len(elts) + 1, NEW outcome,
         PolyText(c, elts, n, outcome)
  PROVE  /\ c \in alive /\ c \notin sleepQueue /\ closure[c] = NoClosure
         /\ elts \in Seq(Elements) /\ gcFont[c] \in Fonts
         /\ Execute(refcnt, gcFont[c], Upto(elts, n), TRUE, FALSE) \in ExecState
         /\ \A f \in Fonts : Transferred(Execute(refcnt, gcFont[c], Upto(elts, n), TRUE, FALSE).refs[f], refcnt[f],
                                   Is(gcFont[c], f), Is(Execute(refcnt, gcFont[c], Upto(elts, n), TRUE, FALSE).font, f))
  <1> DEFINE s == Execute(refcnt, gcFont[c], Upto(elts, n), TRUE, FALSE)
  <1>1. c \in alive /\ c \notin sleepQueue /\ gcFont[c] # NoFont /\ Outcome(elts, n, outcome)
    BY DEF PolyText, Asks, Awake
  <1>2. closure[c] = NoClosure
    BY <1>1 DEF FontsInv, QueueOK
  <1>3. gcFont[c] \in Fonts /\ idFont \in FontNames /\ refcnt \in FontCounts
    BY <1>1 DEF FontsInv, ValuesOK, FontsOfGCs
  <1>4. elts \in Seq(Elements)
    BY FontAssumption DEF Elements
  <1>5. Upto(elts, n) \in Seq(Elements) /\ Known(TRUE, Upto(elts, n))
    BY <1>1, <1>3, <1>4, Begun
  <1>6. HasExecuted(refcnt, gcFont[c], Upto(elts, n), TRUE, FALSE, s)
    BY <1>3, <1>5, ExecutedIs
  <1> HIDE DEF s
  <1>7. s \in ExecState /\ \A f \in Fonts : Exchanged(refcnt, gcFont[c], Upto(elts, n), FALSE, s, f)
    BY <1>6 DEF HasExecuted
  <1>8. ASSUME NEW f \in Fonts PROVE Transferred(s.refs[f], refcnt[f], Is(gcFont[c], f), Is(s.font, f))
    <2>1. s.refs[f] = refcnt[f] + Is(s.font, f) - Is(gcFont[c], f) - 0
      BY <1>7 DEF Exchanged, Undone
    <2>2. refcnt[f] \in Int /\ Is(s.font, f) \in Int /\ Is(gcFont[c], f) \in Int
      BY <1>3, IsNumber DEF FontCounts
    <2> QED BY <2>1, <2>2 DEF Transferred
  <1> QED BY <1>1, <1>2, <1>3, <1>4, <1>7, <1>8 DEF s

LEMMA PolyTextEnds ==
  ASSUME FontsInv, NEW c \in FClients, NEW elts \in Texts, NEW n \in 1 .. Len(elts) + 1, NEW outcome,
         PolyText(c, elts, n, outcome), outcome # "suspended"
  PROVE  FontsInv'
  <1> DEFINE s == Execute(refcnt, gcFont[c], Upto(elts, n), TRUE, FALSE)
  <1>1. /\ gcFont[c] \in Fonts /\ s \in ExecState
        /\ \A f \in Fonts : Transferred(s.refs[f], refcnt[f], Is(gcFont[c], f), Is(s.font, f))
    BY PolyTextBegins
  <1>2. /\ refcnt' = s.refs /\ gcFont' = [gcFont EXCEPT ![c] = s.font]
        /\ UNCHANGED <<sleepQueue, closure, pending, idFont, drawables, alive, workQueue, processing,
                       wrong, abandoned, reopened, leaked>>
        /\ requests < MaxRequests /\ requests' = requests + 1
    BY DEF PolyText, Asks, historyVars
  <1> HIDE DEF s
  <1>3. s.refs \in FontCounts /\ s.font \in Fonts
    BY <1>1 DEF ExecState
  <1>4. ValuesOK /\ QueueOK /\ OpenOK /\ FontsAreCounted
    BY DEF FontsInv
  <1>5. ValuesOK'
    <2>1. requests' \in 0 .. MaxRequests
      BY <1>2, <1>4, FontAssumption DEF ValuesOK
    <2>2. gcFont' \in FontsOfGCs
      BY <1>2, <1>3, <1>4 DEF ValuesOK, FontsOfGCs
    <2> QED BY <1>2, <1>3, <1>4, <2>1, <2>2 DEF ValuesOK
  <1>6. QueueOK'
    BY <1>2, <1>4 DEF QueueOK
  <1>7. OpenOK'
    BY <1>2, <1>4 DEF OpenOK
  <1>8. ASSUME NEW f \in Fonts
        PROVE  Debt(refcnt', idFont', gcFont', closure', f) = Debt(refcnt, idFont, gcFont, closure, f)
    <2> DEFINE k == RefCount(idFont, gcFont, closure, f)
               k2 == RefCount(idFont, gcFont', closure, f)
    <2>1. Transferred(k2, k, Is(gcFont[c], f), Is(s.font, f)) /\ k \in Nat
      BY <1>2, <1>3, <1>4, Recounted DEF ValuesOK
    <2>2. Transferred(refcnt'[f], refcnt[f], Is(gcFont[c], f), Is(s.font, f))
      BY <1>1, <1>2
    <2>3. refcnt[f] \in Int /\ Is(s.font, f) \in Int /\ Is(gcFont[c], f) \in Int
      BY <1>4, IsNumber DEF ValuesOK, FontCounts
    <2> HIDE DEF k, k2
    <2>4. refcnt'[f] - k2 = refcnt[f] - k
      BY <2>1, <2>2, <2>3 DEF Transferred
    <2> QED BY <1>2, <2>4 DEF Debt, k, k2
  <1>9. FontsAreCounted'
    BY <1>2, <1>4, <1>5, <1>8, DebtSame
  <1> QED BY <1>5, <1>6, <1>7, <1>9 DEF FontsInv

\* Client c of a queue that holds goes to sleep with a closure.
LEMMA SleepsOK ==
  ASSUME QueueOK, ValuesOK, NEW c \in alive, c \notin sleepQueue, NEW v \in Closures, v # NoClosure,
         sleepQueue' = sleepQueue \cup {c}, closure' = [closure EXCEPT ![c] = v], pending' = pending \cup {c},
         UNCHANGED <<alive, workQueue, processing>>
  PROVE  QueueOK'
  <1>1. c \in FClients /\ closure \in [FClients -> Closures]
    BY DEF ValuesOK
  <1>2. \A d \in FClients : d \in sleepQueue' <=> closure'[d] # NoClosure
    BY <1>1 DEF QueueOK
  <1>3. workQueue \in Seq(sleepQueue)
    BY DEF QueueOK
  <1>4. \A i \in 1 .. Len(workQueue) : workQueue[i] \in sleepQueue
    BY <1>3
  <1>5. workQueue' \in Seq(sleepQueue')
    <2>1. sleepQueue \subseteq sleepQueue'
      OBVIOUS
    <2>2. workQueue \in [1 .. Len(workQueue) -> sleepQueue'] /\ Len(workQueue) \in Nat
      BY <1>3, <2>1
    <2>3. workQueue \in Seq(sleepQueue')
      BY <2>2, SeqDef
    <2> QED BY <2>3
  <1>6. \A i \in 1 .. Len(workQueue) : workQueue[i] \notin pending'
    BY <1>4 DEF QueueOK
  <1> QED BY <1>2, <1>5, <1>6 DEF QueueOK


LEMMA PolyTextSleeps ==
  ASSUME FontsInv, NEW c \in FClients, NEW elts \in Texts, NEW n \in 1 .. Len(elts) + 1,
         PolyText(c, elts, n, "suspended")
  PROVE  FontsInv'
  <1> DEFINE s == Execute(refcnt, gcFont[c], Upto(elts, n), TRUE, FALSE)
             rest == RestOf_(elts, n)
             g == FinalFont(s, rest)
             v == TextOf(rest, s.font)
  <1>1. /\ c \in alive /\ c \notin sleepQueue /\ closure[c] = NoClosure
        /\ elts \in Seq(Elements) /\ gcFont[c] \in Fonts /\ s \in ExecState
        /\ \A f \in Fonts : Transferred(s.refs[f], refcnt[f], Is(gcFont[c], f), Is(s.font, f))
    BY PolyTextBegins
  <1>2. FallAsleep(c, elts, n, s)
    BY DEF PolyText
  <1>3. /\ sleepQueue' = sleepQueue \cup {c} /\ closure' = [closure EXCEPT ![c] = v] /\ pending' = pending \cup {c}
        /\ refcnt' = AsleepRefs(s, rest) /\ gcFont' = [gcFont EXCEPT ![c] = g]
    <2> HIDE DEF s
    <2> QED BY <1>2 DEF FallAsleep, ClientSleep, RestOf_, TextOf, FinalFont, AsleepRefs
  <1>4. /\ UNCHANGED <<idFont, drawables, alive, workQueue, processing, wrong, abandoned, reopened, leaked>>
        /\ requests < MaxRequests /\ requests' = requests + 1
    BY DEF PolyText, Asks, historyVars
  <1> HIDE DEF s
  <1>5. ValuesOK /\ QueueOK /\ OpenOK /\ FontsAreCounted
    BY DEF FontsInv
  <1>6. rest \in Seq(Elements) /\ \A i \in Changes(rest) : idFont[rest[i]] \in Fonts
    BY <1>1, <1>5, RestIs DEF ValuesOK
  <1>7. s.refs \in FontCounts /\ s.font \in Fonts
    BY <1>1 DEF ExecState
  <1> HIDE DEF rest
  <1>8. g \in Fonts /\ AsleepRefs(s, rest) \in FontCounts /\ \A f \in Fonts : MarksRest(s, rest, AsleepRefs(s, rest), f)
    BY <1>1, <1>6, AsleepIs
  <1>9. /\ v \in Closures /\ v # NoClosure /\ v.does = "text" /\ v.elts = rest
        /\ \A names, f : HeldBy(names, v, f) = Is(s.font, f) + ChangesNamed(names, rest, f)
    BY <1>6, <1>7, TextOfIs
  <1> HIDE DEF g, v
  <1>10. ValuesOK'
    <2>1. requests' \in 0 .. MaxRequests
      BY <1>4, <1>5, FontAssumption DEF ValuesOK
    <2>2. gcFont' \in FontsOfGCs
      BY <1>3, <1>8, <1>5 DEF ValuesOK, FontsOfGCs
    <2>3. closure' \in [FClients -> Closures]
      BY <1>3, <1>5, <1>9 DEF ValuesOK
    <2>4. refcnt' \in FontCounts
      BY <1>3, <1>8
    <2> QED BY <1>4, <1>5, <2>1, <2>2, <2>3, <2>4 DEF ValuesOK
  <1>11. QueueOK'
    BY <1>1, <1>3, <1>4, <1>5, <1>9, SleepsOK
  <1>12. closure'[c] = v /\ \A d \in FClients : d # c => closure'[d] = closure[d]
    BY <1>3, <1>5 DEF ValuesOK
  <1>13. OpenOK'
    BY <1>4, <1>5, <1>9, <1>12 DEF OpenOK
  <1>15. ASSUME NEW f \in Fonts
         PROVE  Debt(refcnt', idFont', gcFont', closure', f) = Debt(refcnt, idFont, gcFont, closure, f)
    <2> DEFINE k == RefCount(idFont, gcFont, closure, f)
               k1 == RefCount(idFont, gcFont', closure, f)
               k2 == RefCount(idFont, gcFont', closure', f)
               m == ChangesNamed(idFont, rest, f)
    <2>1. Transferred(k1, k, Is(gcFont[c], f), Is(g, f)) /\ k \in Nat
      BY <1>3, <1>8, <1>5, Recounted DEF ValuesOK
    <2>2. /\ Transferred(k2, k1, HeldBy(idFont, closure[c], f), HeldBy(idFont, v, f))
      BY <1>3, <1>5, <1>9, <1>10, Recounted DEF ValuesOK
    <2>3. HeldBy(idFont, closure[c], f) = 0
      BY <1>1, NoClosureIs, NothingHeld
    <2>4. HeldBy(idFont, v, f) = Is(s.font, f) + m
      BY <1>9
    <2>5. Transferred(s.refs[f], refcnt[f], Is(gcFont[c], f), Is(s.font, f))
      BY <1>1
    <2>6. refcnt'[f] = s.refs[f] + m + Is(g, f)
      BY <1>3, <1>8 DEF MarksRest, g
    <2>7. refcnt[f] \in Int /\ \A a, b : Is(a, b) \in Int
      BY <1>5, IsNumber DEF ValuesOK, FontCounts
    <2>8. m \in Nat
      BY <1>6, ChangesFinite DEF Elements
    <2> HIDE DEF k, k1, k2, m
    <2>9. k2 = k - Is(gcFont[c], f) + Is(g, f) + Is(s.font, f) + m
      BY <2>1, <2>2, <2>3, <2>4, <2>7, <2>8 DEF Transferred
    <2>10. refcnt'[f] = refcnt[f] - Is(gcFont[c], f) + Is(s.font, f) + m + Is(g, f)
      BY <2>5, <2>6, <2>7, <2>8 DEF Transferred
    <2>11. refcnt'[f] - k2 = refcnt[f] - k
      BY <2>1, <2>7, <2>8, <2>9, <2>10
    <2> QED BY <1>4, <2>11 DEF Debt, k, k2
  <1>16. FontsAreCounted'
    BY <1>4, <1>5, <1>10, <1>15, DebtSame
  <1> QED BY <1>10, <1>11, <1>13, <1>16 DEF FontsInv

-----------------------------------------------------------------------------
\* The IDs in S name no font any more.
Closed(S, names, names2) ==
    names2 \in FontNames /\ \A id \in FontIds : names2[id] = IF id \in S THEN NoFont ELSE names[id]

\* Closures are as they were, those that are left all of clients in cs.
Remain(cl, cl2, cs) ==
    /\ cl2 \in [FClients -> Closures]
    /\ \A d \in FClients : (cl2[d] = cl[d] /\ (d \in sleepQueue => d \in cs)) \/ cl2[d] = NoClosure

Unmentioned(S, cs) == \A id \in S : ~Mentioned(id, cs)

LEMMA UnmentionedIs ==
  ASSUME ValuesOK, QueueOK, NEW S, NEW cs, Unmentioned(S, cs), NEW cl, Remain(closure, cl, cs),
         NEW d \in Texting(cl), NEW i \in Changes(cl[d].elts)
  PROVE  cl[d].elts[i] \notin S /\ cl[d].elts[i] \in FontIds /\ cl[d] = closure[d] /\ d \in Texting(closure)
  <1>1. d \in FClients /\ cl[d].does = "text"
    BY DEF Texting
  <1>2. cl[d] # NoClosure
    BY <1>1, NoClosureIs
  <1>3. cl[d] = closure[d] /\ closure[d] \in Closures /\ (d \in sleepQueue => d \in cs)
    BY <1>1, <1>2 DEF Remain, ValuesOK
  <1>4. d \in sleepQueue
    BY <1>1, <1>2, <1>3 DEF QueueOK
  <1> DEFINE e == cl[d].elts
  <1>5. e \in Seq(FontIds \cup {String})
    BY <1>1, <1>3, ClosureFields
  <1>6. i \in 1 .. Len(e) /\ e[i] \in FontIds
    BY <1>5, ChangesFinite
  <1>7. e[i] \notin S
    <2>1. SUFFICES ASSUME e[i] \in S PROVE FALSE
      OBVIOUS
    <2>2. ~Mentioned(e[i], cs)
      BY <2>1 DEF Unmentioned
    <2>3. Contains(closure[d].elts, e[i])
      BY <1>3, <1>6 DEF Contains
    <2> HIDE DEF e
    <2> QED BY <1>1, <1>3, <1>4, <2>2, <2>3 DEF Mentioned
  <1> QED BY <1>1, <1>3, <1>6, <1>7 DEF Texting

\* An ID that named no font gets one.
LEMMA OpenedIs ==
  ASSUME ValuesOK, QueueOK, NEW id \in FontIds, idFont[id] = NoFont, NEW h \in Fonts, Opened(id, h),
         NEW cl, Remain(closure, cl, alive), NEW f \in Fonts
  PROVE  /\ f \notin reopened' => NoLess(Debt(refcnt', idFont', gcFont, cl, f), Debt(refcnt, idFont, gcFont, cl, f))
         /\ NoLess(Debt(refcnt, idFont, gcFont, cl, f), Debt(refcnt', idFont', gcFont, cl, f))
  <1>0. cl \in [FClients -> Closures]
    BY DEF Remain
  <1>1. /\ idFont' = [idFont EXCEPT ![id] = h] /\ refcnt' = Plus(refcnt, h)
        /\ reopened' = IF Mentioned(id, alive) THEN reopened \cup {h} ELSE reopened
    BY DEF Opened
  <1>2. refcnt' \in FontCounts /\ refcnt'[f] = refcnt[f] + Is(h, f)
    BY <1>1, PlusMinus DEF ValuesOK
  <1>3. idFont' \in FontNames /\ idFont'[id] = h /\ Only(idFont, idFont', FontIds, id)
    BY <1>1 DEF ValuesOK, FontNames, Only
  <1>4. NoFont # f
    BY FontAssumption
  <1>5. ASSUME NEW c \in Texting(cl), NEW i \in Changes(cl[c].elts)
        PROVE  /\ idFont[cl[c].elts[i]] = f => idFont'[cl[c].elts[i]] = f
               /\ f \notin reopened' => (idFont'[cl[c].elts[i]] = f => idFont[cl[c].elts[i]] = f)
    <2> DEFINE e == cl[c].elts[i]
    <2>1. e \in FontIds
      <3>1. cl[c].elts \in Seq(FontIds \cup {String})
        BY <1>0, <1>5, ClosureFields DEF Texting
      <3> QED BY <1>5, <3>1, ChangesFinite
    <2>2. idFont'[e] = IF e = id THEN h ELSE idFont[e]
      BY <1>1, <2>1 DEF ValuesOK, FontNames
    <2>3. ASSUME e = id PROVE h \in reopened'
      <3>1. SUFFICES ASSUME ~Mentioned(id, alive) PROVE FALSE
        BY <1>1
      <3>2. Unmentioned({id}, alive)
        BY <3>1 DEF Unmentioned
      <3>3. e \notin {id}
        BY <1>5, <3>2, UnmentionedIs
      <3> QED BY <2>3, <3>3
    <2> HIDE DEF e
    <2>4. /\ idFont[e] = f => idFont'[e] = f
          /\ f \notin reopened' => (idFont'[e] = f => idFont[e] = f)
      BY <1>4, <2>2, <2>3
    <2> QED BY <2>4 DEF e
  <1> DEFINE k == RefCount(idFont, gcFont, cl, f)
             k2 == RefCount(idFont', gcFont, cl, f)
             t == Times_(idFont, FontIds, f)
             t2 == Times_(idFont', FontIds, f)
  <1>6. NoLess(k2 - t2 + t, k)
    <2>1. Fewer(idFont', idFont, cl, f)
      BY <1>5 DEF Fewer
    <2> QED BY <1>0, <1>3, <2>1, NamesFewer DEF ValuesOK
  <1>7. f \notin reopened' => NoLess(k - t + t2, k2)
    <2>1. ASSUME f \notin reopened' PROVE Fewer(idFont, idFont', cl, f)
      BY <1>5, <2>1 DEF Fewer
    <2> QED BY <1>0, <1>3, <2>1, NamesFewer DEF ValuesOK
  <1>8. t2 = t - Is(NoFont, f) + Is(h, f)
    <2>1. IsFiniteSet(FontIds)
      BY FontAssumption
    <2> QED BY <1>3, <2>1, OneChanged, SMT
  <1>9. k \in Nat /\ k2 \in Nat /\ t \in Nat /\ refcnt[f] \in Int /\ Is(h, f) \in Int /\ Is(NoFont, f) = 0
    <2>1. k \in Nat /\ k2 \in Nat /\ t \in Nat
      BY <1>0, <1>3, PartsAreNumbers DEF ValuesOK
    <2>2. Is(NoFont, f) = 0
      BY <1>4 DEF Is
    <2> QED BY <2>1, <2>2, IsNumber DEF ValuesOK, FontCounts
  <1>10. Debt(refcnt', idFont', gcFont, cl, f) = refcnt'[f] - k2 /\ Debt(refcnt, idFont, gcFont, cl, f) = refcnt[f] - k
    BY DEF Debt
  <1> HIDE DEF k, k2, t, t2
  <1>11. f \notin reopened' => refcnt'[f] - k2 >= refcnt[f] - k
    BY <1>2, <1>7, <1>8, <1>9 DEF NoLess
  <1>12. refcnt[f] - k >= refcnt'[f] - k2
    BY <1>2, <1>6, <1>8, <1>9 DEF NoLess
  <1> QED BY <1>10, <1>11, <1>12 DEF NoLess

\* Open closures after an ID of client c got a font.
LEMMA OpenedKeeps ==
  ASSUME ValuesOK, OpenOK,
         NEW c \in FClients, NEW id \in FontIds, IdOwner[id] = c, idFont[id] = NoFont, NEW h \in Fonts, Opened(id, h),
         closure'[c].does # "open", \A d \in FClients : d # c => closure'[d] = closure[d]
  PROVE  OpenOK'
  <1>1. /\ idFont' = [idFont EXCEPT ![id] = h] /\ idFont \in FontNames /\ closure \in [FClients -> Closures]
    BY DEF Opened, ValuesOK
  <1>2. \A j \in FontIds : idFont'[j] = IF j = id THEN h ELSE idFont[j]
    BY <1>1 DEF FontNames
  <1>3. OpenOK'
    <2>1. ASSUME NEW d \in FClients, closure'[d].does = "open"
          PROVE  idFont'[closure'[d].id] = NoFont /\ IdOwner[closure'[d].id] = d
      <3>1. d # c /\ closure'[d] = closure[d]
        BY <2>1
      <3>2. closure[d] \in Closures
        BY <1>1
      <3>3. closure[d].id \in FontIds
        BY <2>1, <3>1, <3>2, ClosureFields
      <3>4. idFont[closure[d].id] = NoFont /\ IdOwner[closure[d].id] = d
        BY <2>1, <3>1 DEF OpenOK
      <3> QED BY <1>2, <3>1, <3>3, <3>4
    <2> QED BY <2>1 DEF OpenOK
  <1> QED BY <1>3


OpenOf(id, font) == [does |-> "open", id |-> id, font |-> font]

LEMMA OpenOfIs ==
  ASSUME NEW id \in FontIds, NEW font \in Fonts
  PROVE  /\ OpenOf(id, font) \in Closures /\ OpenOf(id, font) # NoClosure
         /\ OpenOf(id, font).does = "open" /\ OpenOf(id, font).id = id
  <1>1. OpenOf(id, font).does = "open" /\ OpenOf(id, font).id = id
    BY DEF OpenOf
  <1>2. OpenOf(id, font) \in Closures
    BY DEF OpenOf, Closures
  <1>3. OpenOf(id, font) # NoClosure
    BY DEF NoClosure, OpenOf
  <1> QED BY <1>1, <1>2, <1>3

LEMMA OpenFontKeeps ==
  ASSUME FontsInv, NEW c \in FClients, NEW id \in FontIds, NEW h \in Fonts, NEW outcome, OpenFont(c, id, h, outcome)
  PROVE  FontsInv'
  <1>1. /\ c \in alive /\ c \notin sleepQueue /\ requests < MaxRequests /\ requests' = requests + 1
        /\ IdOwner[id] = c /\ idFont[id] = NoFont
        /\ UNCHANGED <<gcFont, drawables, alive, workQueue, processing, wrong, abandoned, leaked>>
    BY DEF OpenFont, Asks, Awake
  <1>2. ValuesOK /\ QueueOK /\ OpenOK /\ FontsAreCounted
    BY DEF FontsInv
  <1>3. requests' \in 0 .. MaxRequests
    BY <1>1, <1>2, FontAssumption DEF ValuesOK
  <1>4. closure \in [FClients -> Closures] /\ closure[c] = NoClosure
    BY <1>1, <1>2 DEF ValuesOK, QueueOK
  <1>5. CASE Opened(id, h) /\ UNCHANGED <<sleepQueue, closure, pending>>
    <2>1. /\ idFont' = [idFont EXCEPT ![id] = h] /\ refcnt' = Plus(refcnt, h)
          /\ reopened \subseteq reopened' /\ reopened' \subseteq reopened \cup Fonts
      <3> HIDE DEF Mentioned
      <3> QED BY <1>5 DEF Opened
    <2>2. ValuesOK'
      <3>1. idFont' \in FontNames
        BY <1>2, <2>1 DEF ValuesOK, FontNames
      <3>2. refcnt' \in FontCounts
        BY <1>2, <2>1, PlusMinus DEF ValuesOK
      <3>3. reopened' \subseteq Fonts
        BY <1>2, <2>1 DEF ValuesOK
      <3> QED BY <1>1, <1>2, <1>3, <1>5, <3>1, <3>2, <3>3 DEF ValuesOK
    <2>3. QueueOK'
      BY <1>1, <1>2, <1>5 DEF QueueOK
    <2>4. closure'[c].does # "open"
      BY <1>4, <1>5, NoClosureIs
    <2>5. OpenOK'
      BY <1>1, <1>2, <1>5, <2>4, OpenedKeeps
    <2>6. Remain(closure, closure, alive)
      BY <1>2 DEF Remain, QueueOK, ValuesOK
    <2>7. ASSUME NEW f \in Fonts
          PROVE  /\ f \notin reopened' =>
                       NoLess(Debt(refcnt', idFont', gcFont', closure', f), Debt(refcnt, idFont, gcFont, closure, f))
                 /\ NoLess(Debt(refcnt, idFont, gcFont, closure, f), Debt(refcnt', idFont', gcFont', closure', f))
      <3>1. /\ f \notin reopened' =>
                  NoLess(Debt(refcnt', idFont', gcFont, closure, f), Debt(refcnt, idFont, gcFont, closure, f))
            /\ NoLess(Debt(refcnt, idFont, gcFont, closure, f), Debt(refcnt', idFont', gcFont, closure, f))
        BY <1>1, <1>2, <1>5, <2>6, OpenedIs
      <3>2. gcFont' = gcFont /\ closure' = closure
        BY <1>1, <1>5
      <3> QED BY <3>1, <3>2
    <2>8. FontsAreCounted'
      BY <1>1, <1>2, <2>1, <2>2, <2>7, DebtKept
    <2> QED BY <2>2, <2>3, <2>5, <2>8 DEF FontsInv
  <1>6. CASE ClientSleep(c, OpenOf(id, h)) /\ UNCHANGED <<idFont, refcnt, reopened>>
    <2> DEFINE v == OpenOf(id, h)
    <2>1. v \in Closures /\ v # NoClosure /\ v.does = "open" /\ v.id = id
      BY OpenOfIs
    <2> HIDE DEF v
    <2>2. sleepQueue' = sleepQueue \cup {c} /\ closure' = [closure EXCEPT ![c] = v] /\ pending' = pending \cup {c}
      BY <1>6 DEF ClientSleep, v
    <2>3. closure'[c] = v /\ \A d \in FClients : d # c => closure'[d] = closure[d]
      BY <1>4, <2>2
    <2>4. ValuesOK'
      <3>1. closure' \in [FClients -> Closures]
        BY <1>4, <2>1, <2>2
      <3> QED BY <1>1, <1>2, <1>3, <1>6, <3>1 DEF ValuesOK
    <2>5. QueueOK'
      BY <1>1, <1>2, <2>1, <2>2, SleepsOK
    <2>6. OpenOK'
      BY <1>1, <1>2, <1>6, <2>1, <2>3 DEF OpenOK
    <2>8. ASSUME NEW f \in Fonts
          PROVE  Debt(refcnt', idFont', gcFont', closure', f) = Debt(refcnt, idFont, gcFont, closure, f)
      <3> DEFINE k == RefCount(idFont, gcFont, closure, f)
                 k2 == RefCount(idFont, gcFont, closure', f)
      <3>1. Transferred(k2, k, HeldBy(idFont, closure[c], f), HeldBy(idFont, v, f)) /\ k \in Nat
        BY <1>2, <1>4, <2>1, <2>2, Recounted DEF ValuesOK
      <3>2. HeldBy(idFont, closure[c], f) = 0 /\ HeldBy(idFont, v, f) = 0
        BY <1>4, <2>1, NoClosureIs, NothingHeld
      <3> HIDE DEF k, k2
      <3>3. k2 = k
        BY <3>1, <3>2 DEF Transferred
      <3> QED BY <1>1, <1>6, <3>3 DEF Debt, k, k2
    <2>9. FontsAreCounted'
      BY <1>1, <1>2, <1>6, <2>4, <2>8, DebtSame
    <2> QED BY <2>4, <2>5, <2>6, <2>9 DEF FontsInv
  <1> QED BY <1>5, <1>6 DEF OpenFont, OpenOf

\* The head of the queue.
LEMMA HeadSleeps ==
  ASSUME FontsInv, processing
  PROVE  /\ Head(workQueue) \in sleepQueue /\ Head(workQueue) \in FClients /\ Head(workQueue) \notin pending
         /\ Tail(workQueue) \in Seq(sleepQueue \ {Head(workQueue)}) /\ IsInjective(Tail(workQueue))
         /\ \A i \in 1 .. Len(Tail(workQueue)) : /\ Tail(workQueue)[i] \notin pending
                                                 /\ Tail(workQueue)[i] # Head(workQueue)
  <1> DEFINE q == workQueue
             t == Tail(q)
             n == Len(q)
  <1>1. q \in Seq(sleepQueue) /\ q # <<>> /\ IsInjective(q) /\ \A i \in 1 .. n : q[i] \notin pending
    BY DEF FontsInv, QueueOK
  <1>2. n \in Nat /\ n >= 1 /\ Head(q) = q[1] /\ 1 \in 1 .. n /\ DOMAIN q = 1 .. n
    BY <1>1
  <1>3. t \in Seq(sleepQueue) /\ Len(t) = n - 1 /\ DOMAIN t = 1 .. n - 1
        /\ \A i \in 1 .. n - 1 : t[i] = q[i + 1] /\ i + 1 \in 1 .. n
    BY <1>1
  <1>4. Head(q) \in sleepQueue /\ Head(q) \in FClients /\ Head(q) \notin pending
    BY <1>1, <1>2 DEF FontsInv, QueueOK, ValuesOK
  <1> HIDE DEF q, t, n
  <1>5. \A i \in 1 .. n - 1 : t[i] # Head(q) /\ t[i] \notin pending
    <2>1. \A i \in 1 .. n - 1 : i + 1 # 1
      BY <1>2
    <2> QED BY <1>1, <1>2, <1>3, <2>1 DEF IsInjective
  <1>6. IsInjective(t)
    <2>1. \A i, j \in 1 .. n - 1 : i + 1 = j + 1 => i = j
      BY <1>2
    <2> QED BY <1>1, <1>2, <1>3, <2>1 DEF IsInjective
  <1>7. t \in Seq(sleepQueue \ {Head(q)})
    <2>1. t \in [1 .. n - 1 -> sleepQueue \ {Head(q)}]
      <3>1. \A i \in 1 .. n - 1 : t[i] \in sleepQueue \ {Head(q)}
        BY <1>3, <1>5
      <3>2. t = [i \in 1 .. n - 1 |-> t[i]]
        BY <1>3
      <3> QED BY <3>1, <3>2
    <2>2. n - 1 \in Nat
      BY <1>2
    <2> QED BY <2>1, <2>2, SeqDef
  <1> QED BY <1>3, <1>4, <1>5, <1>6, <1>7 DEF q, t, n

\* One turn of the loop leaves the queues in order: its client sleeps on, to be
\* signalled again, or is awake.
LEMMA TurnKeeps ==
  ASSUME FontsInv, ValuesOK', processing, NEW v \in Closures,
         workQueue' = Tail(workQueue), processing' = (workQueue' # <<>>), alive' = alive,
         closure' = [closure EXCEPT ![Head(workQueue)] = v],
         \/ v # NoClosure /\ sleepQueue' = sleepQueue /\ pending' = pending \cup {Head(workQueue)}
         \/ v = NoClosure /\ sleepQueue' = sleepQueue \ {Head(workQueue)} /\ pending' = pending \ {Head(workQueue)}
  PROVE  QueueOK'
  <1> DEFINE c == Head(workQueue)
             t == Tail(workQueue)
  <1>1. /\ c \in sleepQueue /\ c \in FClients /\ c \notin pending
        /\ t \in Seq(sleepQueue \ {c}) /\ IsInjective(t)
        /\ \A i \in 1 .. Len(t) : t[i] \notin pending /\ t[i] # c
    BY HeadSleeps
  <1>2. /\ workQueue' = t /\ closure' = [closure EXCEPT ![c] = v]
        /\ \/ v # NoClosure /\ sleepQueue' = sleepQueue /\ pending' = pending \cup {c}
           \/ v = NoClosure /\ sleepQueue' = sleepQueue \ {c} /\ pending' = pending \ {c}
    OBVIOUS
  <1> HIDE DEF c, t
  <1>3. QueueOK /\ closure \in [FClients -> Closures]
    BY DEF FontsInv, ValuesOK
  <1>4. sleepQueue' \subseteq alive' /\ pending' \subseteq sleepQueue'
    BY <1>1, <1>2, <1>3 DEF QueueOK
  <1>5. \A d \in FClients : d \in sleepQueue' <=> closure'[d] # NoClosure
    BY <1>1, <1>2, <1>3 DEF QueueOK
  <1>6. workQueue' \in Seq(sleepQueue')
    <2>1. sleepQueue \ {c} \subseteq sleepQueue'
      BY <1>2
    <2> QED BY <1>1, <1>2, <2>1, SeqMonotonic
  <1>7. \A i \in 1 .. Len(workQueue') : workQueue'[i] \notin pending'
    BY <1>1, <1>2
  <1> QED BY <1>1, <1>2, <1>4, <1>5, <1>6, <1>7 DEF QueueOK


\* What becomes of the closure of an OpenFont request.
Fate(v, cl, outcome) == /\ v.does # "text"
                        /\ outcome = "end" => v.does # "open"
                        /\ v.does = "open" => v = cl

LEMMA ResumeOpenKeeps ==
  ASSUME FontsInv, RunNext, NEW outcome, ResumeOpen(Head(workQueue), outcome),
         closure[Head(workQueue)].does = "open"
  PROVE  FontsInv'
  <1>a. PICK c \in FClients : c = Head(workQueue)
    BY HeadSleeps DEF RunNext
  <1>b. PICK cl : cl = closure[c]
    OBVIOUS
  <1>0. /\ processing /\ workQueue' = Tail(workQueue) /\ processing' = (workQueue' # <<>>)
        /\ UNCHANGED <<gcFont, drawables, alive, wrong, requests, abandoned, leaked>>
    BY DEF RunNext, ResumeOpen
  <1>1. ValuesOK /\ QueueOK /\ OpenOK /\ FontsAreCounted
    BY DEF FontsInv
  <1>2. c \in FClients /\ c \in sleepQueue
    BY <1>0, <1>a, HeadSleeps
  <1>3. closure \in [FClients -> Closures] /\ cl \in Closures /\ cl.does = "open" /\ closure[c] = cl
    BY <1>1, <1>2, <1>a, <1>b DEF ValuesOK
  <1>4. cl.id \in FontIds /\ cl.font \in Fonts
    BY <1>3, ClosureFields
  <1>5. idFont[cl.id] = NoFont /\ IdOwner[cl.id] = c
    BY <1>1, <1>2, <1>3 DEF OpenOK
  <1>6. IF outcome = "end" THEN Opened(cl.id, cl.font) ELSE UNCHANGED <<idFont, refcnt, reopened>>
    BY <1>a, <1>b DEF ResumeOpen
  <1>7. \E v \in Closures : /\ closure' = [closure EXCEPT ![c] = v] /\ Fate(v, cl, outcome)
                            /\ \/ v # NoClosure /\ sleepQueue' = sleepQueue /\ pending' = pending \cup {c}
                               \/ v = NoClosure /\ sleepQueue' = sleepQueue \ {c} /\ pending' = pending \ {c}
    <2>1. CASE outcome = "suspended"
      <3>1. closure' = closure /\ sleepQueue' = sleepQueue /\ pending' = pending \cup {c}
        BY <1>a, <2>1 DEF ResumeOpen
      <3>2. closure = [closure EXCEPT ![c] = cl]
        BY <1>2, <1>3
      <3>3. cl # NoClosure /\ cl.does # "text"
        BY <1>3, NoClosureIs
      <3>4. Fate(cl, cl, outcome)
        BY <2>1, <3>3 DEF Fate
      <3> QED BY <1>3, <3>1, <3>2, <3>3, <3>4
    <2>2. CASE outcome # "suspended"
      <3>1. closure' = [closure EXCEPT ![c] = NoClosure] /\ sleepQueue' = sleepQueue \ {c} /\ pending' = pending \ {c}
        BY <1>a, <2>2 DEF ResumeOpen, ClientWakeup
      <3>2. NoClosure \in Closures /\ Fate(NoClosure, cl, outcome)
        BY NoClosureIs DEF Fate
      <3> QED BY <3>1, <3>2
    <2> QED BY <2>1, <2>2
  <1>8. PICK v \in Closures : /\ closure' = [closure EXCEPT ![c] = v] /\ Fate(v, cl, outcome)
                            /\ \/ v # NoClosure /\ sleepQueue' = sleepQueue /\ pending' = pending \cup {c}
                               \/ v = NoClosure /\ sleepQueue' = sleepQueue \ {c} /\ pending' = pending \ {c}
    BY <1>7
  <1>9. /\ closure' \in [FClients -> Closures]
        /\ closure'[c] = v /\ \A d \in FClients : d # c => closure'[d] = closure[d]
    BY <1>2, <1>3, <1>8
  <1>d. v.does # "text"
    BY <1>8 DEF Fate
  <1>e. outcome = "end" => v.does # "open"
    BY <1>8 DEF Fate
  <1>f. v.does = "open" => v = cl
    BY <1>8 DEF Fate
  <1>10. ValuesOK'
    <2>1. idFont' \in FontNames /\ refcnt' \in FontCounts /\ reopened' \subseteq Fonts
      <3>1. CASE outcome = "end"
        <4>1. /\ idFont' = [idFont EXCEPT ![cl.id] = cl.font] /\ refcnt' = Plus(refcnt, cl.font)
              /\ reopened' \subseteq reopened \cup {cl.font}
          <5> HIDE DEF Mentioned
          <5> QED BY <1>6, <3>1 DEF Opened
        <4>2. idFont' \in FontNames
          BY <1>1, <1>4, <4>1 DEF ValuesOK, FontNames
        <4>3. refcnt' \in FontCounts
          BY <1>1, <1>4, <4>1, PlusMinus DEF ValuesOK
        <4>4. reopened' \subseteq Fonts
          BY <1>1, <1>4, <4>1 DEF ValuesOK
        <4> QED BY <4>2, <4>3, <4>4
      <3>2. CASE outcome # "end"
        BY <1>1, <1>6, <3>2 DEF ValuesOK
      <3> QED BY <3>1, <3>2
    <2> QED BY <1>0, <1>1, <1>9, <2>1 DEF ValuesOK
  <1>11. QueueOK'
    BY <1>0, <1>8, <1>10, <1>a, TurnKeeps
  <1>12. OpenOK'
    <2>1. CASE outcome = "end"
      BY <1>0, <1>1, <1>2, <1>4, <1>5, <1>6, <1>e, <1>9, <2>1, OpenedKeeps
    <2>2. CASE outcome # "end"
      <3>1. idFont' = idFont
        BY <1>6, <2>2
      <3> QED BY <1>1, <1>2, <1>3, <1>f, <1>9, <3>1 DEF OpenOK
    <2> QED BY <2>1, <2>2
  <1>13. ASSUME NEW f \in Fonts
         PROVE  Debt(refcnt, idFont, gcFont, closure', f) = Debt(refcnt, idFont, gcFont, closure, f)
    <2> DEFINE k == RefCount(idFont, gcFont, closure, f)
               k2 == RefCount(idFont, gcFont, closure', f)
    <2>1. Transferred(k2, k, HeldBy(idFont, cl, f), HeldBy(idFont, v, f)) /\ k \in Nat
      BY <1>1, <1>2, <1>3, <1>8, Recounted DEF ValuesOK
    <2>2. HeldBy(idFont, cl, f) = 0 /\ HeldBy(idFont, v, f) = 0
      BY <1>3, <1>d, NothingHeld
    <2> HIDE DEF k, k2
    <2>3. k2 = k
      BY <2>1, <2>2 DEF Transferred
    <2> QED BY <2>3 DEF Debt, k, k2
  <1>14. Remain(closure, closure', alive)
    <2>1. v = NoClosure \/ v = closure[c]
      <3>1. v.does # "open" => v = NoClosure
        BY <1>d DEF Closures
      <3> QED BY <1>3, <1>f, <3>1
    <2> QED BY <1>1, <1>9, <2>1 DEF Remain, QueueOK
  <1>15. reopened \subseteq reopened'
    <2> HIDE DEF Mentioned
    <2> QED BY <1>6 DEF Opened
  <1>16. ASSUME NEW f \in Fonts
         PROVE  /\ f \notin reopened' =>
                      NoLess(Debt(refcnt', idFont', gcFont', closure', f), Debt(refcnt, idFont, gcFont, closure, f))
                /\ NoLess(Debt(refcnt, idFont, gcFont, closure, f), Debt(refcnt', idFont', gcFont', closure', f))
    <2>1. gcFont' = gcFont
      BY <1>0
    <2>2. Debt(refcnt, idFont, gcFont, closure', f) = Debt(refcnt, idFont, gcFont, closure, f)
      BY <1>13
    <2>3. CASE outcome = "end"
      <3>1. Opened(cl.id, cl.font)
        BY <1>6, <2>3
      <3>2. /\ f \notin reopened' =>
                  NoLess(Debt(refcnt', idFont', gcFont, closure', f), Debt(refcnt, idFont, gcFont, closure', f))
            /\ NoLess(Debt(refcnt, idFont, gcFont, closure', f), Debt(refcnt', idFont', gcFont, closure', f))
        BY <1>1, <1>4, <1>5, <1>14, <3>1, OpenedIs
      <3> QED BY <2>1, <2>2, <3>2
    <2>4. CASE outcome # "end"
      <3>1. refcnt' = refcnt /\ idFont' = idFont
        BY <1>6, <2>4
      <3>2. Debt(refcnt', idFont', gcFont', closure', f) = Debt(refcnt, idFont, gcFont, closure, f)
        BY <2>1, <2>2, <3>1
      <3> QED BY <1>1, <1>3, <3>2, SameIsNoLess DEF ValuesOK
    <2> QED BY <2>3, <2>4
  <1>17. FontsAreCounted'
    BY <1>0, <1>1, <1>10, <1>15, <1>16, DebtKept
  <1> QED BY <1>10, <1>11, <1>12, <1>17 DEF FontsInv

\* What a sleeping text holds.
LEMMA TextHolds ==
  ASSUME NEW v \in Closures, v.does = "text"
  PROVE  /\ v \in TextClosures /\ v.elts \in Seq(Elements) /\ v.gc \in Fonts
         /\ \A names, f : HeldBy(names, v, f) = Is(v.gc, f) + ChangesNamed(names, v.elts, f)
  <1>1. v \in TextClosures
    BY ClosureFields DEF TextClosures, Elements
  <1> QED BY <1>1 DEF HeldBy, TextClosures

LEMMA OneText ==
  ASSUME NEW w, NEW g, NEW r \in [does : {"text"}, elts : {w}, gc : {g}]
  PROVE  r = TextOf(w, g)
  <1>1. r = [does |-> r.does, elts |-> r.elts, gc |-> r.gc]
    OBVIOUS
  <1>2. r.does = "text" /\ r.elts = w /\ r.gc = g
    OBVIOUS
  <1> QED BY <1>1, <1>2 DEF TextOf

Revised(cl, w, g) == [cl EXCEPT !.elts = w, !.gc = g]

LEMMA TextRevised ==
  ASSUME NEW cl \in TextClosures, NEW w, NEW g
  PROVE  Revised(cl, w, g) = TextOf(w, g)
  <1> DEFINE r == [cl EXCEPT !.elts = w, !.gc = g]
  <1>1. r \in [does : {"text"}, elts : {w}, gc : {g}]
    BY DEF TextClosures
  <1> HIDE DEF r
  <1>2. r = TextOf(w, g)
    BY <1>1, OneText
  <1> QED BY <1>2 DEF r, Revised

LEMMA TextTurnKeeps ==
  ASSUME FontsInv, RunNext, NEW n, NEW outcome, ResumeText(Head(workQueue), n, outcome),
         closure[Head(workQueue)].does = "text", n \in 1 .. Len(closure[Head(workQueue)].elts) + 1,
         outcome = "suspended"
  PROVE  FontsInv'
  <1>a. PICK c \in FClients : c = Head(workQueue)
    BY HeadSleeps DEF RunNext
  <1>b. PICK cl : cl = closure[c]
    OBVIOUS
  <1> DEFINE u == Upto(cl.elts, n)
             w == From(cl.elts, n)
             s == Execute(refcnt, cl.gc, u, TRUE, TRUE)
             v == TextOf(w, s.font)
  <1>0. /\ processing /\ workQueue' = Tail(workQueue) /\ processing' = (workQueue' # <<>>)
        /\ UNCHANGED <<gcFont, drawables, alive, wrong, reopened, requests, idFont>>
    BY DEF RunNext, ResumeText
  <1>1. ValuesOK /\ QueueOK /\ OpenOK /\ FontsAreCounted
    BY DEF FontsInv
  <1>2. c \in FClients /\ c \in sleepQueue
    BY <1>0, <1>a, HeadSleeps
  <1>3. closure \in [FClients -> Closures] /\ cl \in Closures /\ cl.does = "text" /\ closure[c] = cl
    BY <1>1, <1>2, <1>a, <1>b DEF ValuesOK
  <1>4. /\ cl \in TextClosures /\ cl.elts \in Seq(Elements) /\ cl.gc \in Fonts
        /\ \A names, f : HeldBy(names, cl, f) = Is(cl.gc, f) + ChangesNamed(names, cl.elts, f)
    BY <1>3, TextHolds
  <1>5. Outcome(cl.elts, n, outcome) /\ n \in 1 .. Len(cl.elts) + 1
    BY <1>a, <1>b DEF ResumeText
  <1>6. /\ refcnt' = s.refs /\ closure' = [closure EXCEPT ![c].elts = From(@, n), ![c].gc = s.font]
        /\ pending' = pending \cup {c} /\ UNCHANGED <<sleepQueue, abandoned, leaked>>
    BY <1>a, <1>b DEF ResumeText
  <1>7. u \in Seq(Elements) /\ Known(TRUE, u)
    <2> HIDE DEF u
    <2> QED BY <1>1, <1>4, <1>5, Begun DEF ValuesOK, u
  <1>8. /\ w \in Seq(Elements) /\ Len(w) = Len(cl.elts) - n + 1
        /\ \A i \in 1 .. Len(cl.elts) - n + 1 : w[i] = cl.elts[i + n - 1]
        /\ \A i : i \in Changes(w) => i + n - 1 \in Changes(cl.elts)
    <2> DEFINE e == cl.elts
    <2>1. e \in Seq(Elements) /\ n \in 1 .. Len(e) + 1
      BY <1>4, <1>5
    <2> HIDE DEF e
    <2>2. /\ From(e, n) \in Seq(Elements) /\ Len(From(e, n)) = Len(e) - n + 1
          /\ \A i \in 1 .. Len(e) - n + 1 : From(e, n)[i] = e[i + n - 1]
          /\ \A i : i \in Changes(From(e, n)) => i + n - 1 \in Changes(e)
      BY <2>1, Pieces
    <2> QED BY <2>2 DEF e
  <1>9. HasExecuted(refcnt, cl.gc, u, TRUE, TRUE, s)
    <2>1. refcnt \in FontCounts
      BY <1>1 DEF ValuesOK
    <2> HIDE DEF u
    <2> QED BY <1>4, <1>7, <2>1, ExecutedIs
  <1> HIDE DEF s
  <1>10. /\ s.refs \in FontCounts /\ s.font \in Fonts
         /\ \A f \in Fonts : Exchanged(refcnt, cl.gc, u, TRUE, s, f)
    BY <1>9 DEF HasExecuted, ExecState
  <1>11. closure' = [closure EXCEPT ![c] = v]
    <2>1. [cl EXCEPT !.elts = w, !.gc = s.font] = v
      <3> HIDE DEF u, w
      <3>1. Revised(cl, w, s.font) = TextOf(w, s.font)
        BY <1>4, TextRevised
      <3> QED BY <3>1 DEF v, Revised
    <2>2. closure' = [closure EXCEPT ![c] = [cl EXCEPT !.elts = w, !.gc = s.font]]
      BY <1>2, <1>3, <1>6
    <2> QED BY <2>1, <2>2
  <1>12. /\ v \in Closures /\ v # NoClosure /\ v.does = "text" /\ v.elts = w
         /\ \A names, f : HeldBy(names, v, f) = Is(s.font, f) + ChangesNamed(names, w, f)
    BY <1>8, <1>10, TextOfIs
  <1> HIDE DEF v
  <1>13. /\ closure' \in [FClients -> Closures]
         /\ closure'[c] = v /\ \A d \in FClients : d # c => closure'[d] = closure[d]
    BY <1>2, <1>3, <1>11, <1>12
  <1>14. ValuesOK'
    BY <1>0, <1>1, <1>6, <1>10, <1>13 DEF ValuesOK
  <1>15. QueueOK'
    BY <1>0, <1>6, <1>11, <1>12, <1>14, <1>a, TurnKeeps
  <1>16. OpenOK'
    BY <1>0, <1>1, <1>12, <1>13 DEF OpenOK
  <1>18. ASSUME NEW f \in Fonts
         PROVE  Debt(refcnt', idFont', gcFont', closure', f) = Debt(refcnt, idFont, gcFont, closure, f)
    <2> DEFINE k == RefCount(idFont, gcFont, closure, f)
               k2 == RefCount(idFont, gcFont, closure', f)
               a == ChangesNamed(idFont, u, f)
               b == ChangesNamed(idFont, w, f)
               d == ChangesNamed(idFont, cl.elts, f)
    <2>1. Transferred(k2, k, HeldBy(idFont, cl, f), HeldBy(idFont, v, f)) /\ k \in Nat
      BY <1>1, <1>2, <1>3, <1>11, <1>12, Recounted DEF ValuesOK
    <2>2. HeldBy(idFont, cl, f) = Is(cl.gc, f) + d /\ HeldBy(idFont, v, f) = Is(s.font, f) + b
      BY <1>4, <1>12
    <2>3. a \in Nat /\ b \in Nat /\ d = a + b
      BY <1>4, <1>5, Split_
    <2>4. refcnt'[f] = refcnt[f] + Is(s.font, f) - Is(cl.gc, f) - a
      BY <1>6, <1>10 DEF Exchanged, Undone
    <2>5. refcnt[f] \in Int /\ \A x, y : Is(x, y) \in Int
      BY <1>1, IsNumber DEF ValuesOK, FontCounts
    <2> HIDE DEF k, k2, a, b, d
    <2>6. refcnt'[f] - k2 = refcnt[f] - k
      BY <2>1, <2>2, <2>3, <2>4, <2>5 DEF Transferred
    <2> QED BY <1>0, <2>6 DEF Debt, k, k2
  <1>19. FontsAreCounted'
    BY <1>0, <1>1, <1>6, <1>14, <1>18, DebtSame
  <1> QED BY <1>14, <1>15, <1>16, <1>19 DEF FontsInv


\* At the end of a request nothing is left of it.
LEMMA NothingLeft ==
  ASSUME NEW elts \in Seq(Elements), NEW names, NEW f
  PROVE  ChangesNamed(names, From(elts, Len(elts) + 1), f) = 0
  <1> DEFINE n == Len(elts) + 1
             w == From(elts, n)
  <1>1. n \in 1 .. Len(elts) + 1 /\ Len(elts) - n + 1 = 0
    OBVIOUS
  <1> HIDE DEF n
  <1>2. w \in Seq(Elements) /\ Len(w) = 0
    BY <1>1, Pieces
  <1> HIDE DEF w
  <1>3. Changes(w) = {}
    <2>1. Changes(w) \subseteq 1 .. Len(w)
      BY <1>2, ChangesFinite DEF Elements
    <2>2. 1 .. 0 = {}
      OBVIOUS
    <2> QED BY <1>2, <2>1, <2>2
  <1>4. {i \in Changes(w) : names[w[i]] = f} = {}
    BY <1>3
  <1> QED BY <1>4, FS_EmptySet DEF ChangesNamed, n, w

LEMMA HistoriesGrow ==
  ASSUME NEW cl \in TextClosures, NEW n, NEW draws
  PROVE  ClosedInstead(cl, n, draws) \subseteq Fonts /\ StillMarked(cl, n, draws) \subseteq Fonts
  BY DEF ClosedInstead, StillMarked, TextClosures

\* Giving up a closure leaves the counts of the fonts that are not closed instead
\* of others no lower than they were, and of those that keep no mark no higher.
LEMMA ReleasedText ==
  ASSUME ValuesOK, NEW c \in FClients, NEW cl \in Closures, closure[c] = cl, cl.does = "text",
         NEW n \in 1 .. Len(cl.elts) + 1, NEW draws,
         \A i \in Changes(cl.elts) : i < n => idFont[cl.elts[i]] \in Fonts,
         NEW f \in Fonts, NEW r, r = GivenUp(refcnt, cl, n, draws)
  PROVE  /\ f \notin ClosedInstead(cl, n, draws) =>
               NoLess(Debt(r, idFont, gcFont, [closure EXCEPT ![c] = NoClosure], f), Debt(refcnt, idFont, gcFont, closure, f))
         /\ f \notin StillMarked(cl, n, draws) =>
               NoLess(Debt(refcnt, idFont, gcFont, closure, f), Debt(r, idFont, gcFont, [closure EXCEPT ![c] = NoClosure], f))
  <1> DEFINE k == RefCount(idFont, gcFont, closure, f)
             k2 == RefCount(idFont, gcFont, [closure EXCEPT ![c] = NoClosure], f)
             u == Upto(cl.elts, n)
             w == From(cl.elts, n)
             a == ChangesNamed(idFont, u, f)
             b == ChangesNamed(idFont, w, f)
             d == ChangesNamed(idFont, cl.elts, f)
             g == Is(cl.gc, f)
  <1>1. Transferred(k2, k, HeldBy(idFont, cl, f), HeldBy(idFont, NoClosure, f)) /\ k \in Nat
    BY Recounted, NoClosureIs DEF ValuesOK
  <1>2. cl \in TextClosures /\ cl.elts \in Seq(Elements) /\ HeldBy(idFont, cl, f) = g + d
    BY TextHolds
  <1>3. HeldBy(idFont, NoClosure, f) = 0
    BY NoClosureIs, NothingHeld
  <1>4. a \in Nat /\ b \in Nat /\ d = a + b
    BY <1>2, Split_
  <1>5. /\ r \in FontCounts
        /\ draws \/ Changes(u) = {} => r[f] = refcnt[f] - g - a
        /\ ~draws => r[f] <= refcnt[f] - g /\ (f # cl.gc => r[f] = refcnt[f])
    <2>1. refcnt \in FontCounts
      BY DEF ValuesOK
    <2>2. /\ GivenUp(refcnt, cl, n, draws) \in FontCounts
          /\ draws \/ Changes(u) = {} => GivesUp(refcnt, cl, n, GivenUp(refcnt, cl, n, draws), f)
          /\ ~draws => ClosesFont(refcnt, cl, GivenUp(refcnt, cl, n, draws), f)
      BY <1>2, <2>1, GivenUpIs
    <2> QED BY <2>2 DEF GivesUp, ClosesFont
  <1>6. refcnt[f] \in Int /\ r[f] \in Int /\ g \in {0, 1} /\ (f # cl.gc => g = 0)
    BY <1>5 DEF ValuesOK, FontCounts, Is
  <1>7. /\ \A i \in Changes(u) : i \in Changes(cl.elts) /\ i < n /\ u[i] = cl.elts[i]
        /\ Changes(u) = {i \in Changes(cl.elts) : i < n}
    <2>1. /\ u \in Seq(Elements) /\ Len(u) = n - 1 /\ \A i \in 1 .. n - 1 : u[i] = cl.elts[i]
          /\ Changes(u) = {i \in Changes(cl.elts) : i < n}
      BY <1>2, UptoIs DEF Prefix_
    <2>2. Changes(u) \subseteq 1 .. Len(u)
      BY <2>1, ChangesFinite DEF Elements
    <2> QED BY <2>1, <2>2
  <1>8. \A i \in Changes(w) : i + n - 1 \in Changes(cl.elts) /\ i + n - 1 >= n /\ w[i] = cl.elts[i + n - 1]
    <2> DEFINE e == cl.elts
    <2>1. e \in Seq(Elements) /\ n \in 1 .. Len(e) + 1
      BY <1>2
    <2> HIDE DEF e
    <2>2. /\ From(e, n) \in Seq(Elements) /\ Len(From(e, n)) = Len(e) - n + 1
          /\ \A i \in 1 .. Len(e) - n + 1 : From(e, n)[i] = e[i + n - 1]
          /\ \A i : i \in Changes(From(e, n)) => i + n - 1 \in Changes(e)
      BY <2>1, Pieces
    <2>3. Changes(From(e, n)) \subseteq 1 .. Len(e) - n + 1
      BY <2>2, ChangesFinite DEF Elements
    <2>4. n \in Int /\ Len(e) \in Int /\ \A i \in 1 .. Len(e) - n + 1 : i + n - 1 >= n
      BY <2>1
    <2> QED BY <2>2, <2>3, <2>4 DEF e
  <1>9. Changes(u) = {} => a = 0
    <2>1. Changes(u) = {} => {i \in Changes(u) : idFont[u[i]] = f} = {}
      OBVIOUS
    <2> QED BY <2>1, FS_EmptySet DEF ChangesNamed
  <1>10. f \notin StillMarked(cl, n, draws) => b = 0
    <2>1. ASSUME f \notin StillMarked(cl, n, draws), NEW i \in Changes(w), idFont[w[i]] = f PROVE FALSE
      <3>1. i + n - 1 \in {j \in Changes(cl.elts) : draws => j >= n} /\ idFont[cl.elts[i + n - 1]] = f
        BY <1>8, <2>1
      <3> QED BY <2>1, <3>1 DEF StillMarked
    <2>2. f \notin StillMarked(cl, n, draws) => {i \in Changes(w) : idFont[w[i]] = f} = {}
      BY <2>1
    <2> QED BY <2>2, FS_EmptySet DEF ChangesNamed
  <1>11. f \notin StillMarked(cl, n, draws) /\ ~draws => a = 0
    <2>1. ASSUME f \notin StillMarked(cl, n, draws), ~draws, NEW i \in Changes(u), idFont[u[i]] = f PROVE FALSE
      <3>1. i \in {j \in Changes(cl.elts) : draws => j >= n} /\ idFont[cl.elts[i]] = f
        BY <1>7, <2>1
      <3> QED BY <2>1, <3>1 DEF StillMarked
    <2>2. f \notin StillMarked(cl, n, draws) /\ ~draws => {i \in Changes(u) : idFont[u[i]] = f} = {}
      BY <2>1
    <2> QED BY <2>2, FS_EmptySet DEF ChangesNamed
  <1>12. f \notin ClosedInstead(cl, n, draws) => draws \/ Changes(u) = {} \/ f # cl.gc
    BY <1>7 DEF ClosedInstead
  <1>13. Debt(r, idFont, gcFont, [closure EXCEPT ![c] = NoClosure], f) = r[f] - k2
         /\ Debt(refcnt, idFont, gcFont, closure, f) = refcnt[f] - k
    BY DEF Debt
  <1> DEFINE none == Changes(u) = {}
  <1>n. /\ draws \/ none => r[f] = refcnt[f] - g - a
        /\ none => a = 0
        /\ f \notin ClosedInstead(cl, n, draws) => draws \/ none \/ f # cl.gc
    BY <1>5, <1>9, <1>12
  <1> HIDE DEF k, k2, a, b, d, g, u, w, none
  <1>14. k2 = k - (g + d) + 0
    BY <1>1, <1>2, <1>3 DEF Transferred
  <1>15. ASSUME f \notin ClosedInstead(cl, n, draws) PROVE r[f] - k2 >= refcnt[f] - k
    <2>1. CASE draws \/ none
      BY <1>1, <1>4, <1>n, <1>6, <1>14, <2>1
    <2>2. CASE ~draws /\ f # cl.gc
      BY <1>1, <1>4, <1>5, <1>6, <1>14, <2>2
    <2> QED BY <1>n, <1>15, <2>1, <2>2
  <1>16. ASSUME f \notin StillMarked(cl, n, draws) PROVE refcnt[f] - k >= r[f] - k2
    <2>1. CASE draws
      <3>1. b = 0 /\ r[f] = refcnt[f] - g - a
        BY <1>n, <1>10, <1>16, <2>1
      <3> QED BY <1>1, <1>4, <1>6, <1>14, <3>1
    <2>2. CASE ~draws
      BY <1>1, <1>4, <1>5, <1>6, <1>10, <1>11, <1>14, <1>16, <2>2
    <2> QED BY <2>1, <2>2
  <1> QED BY <1>13, <1>15, <1>16 DEF NoLess

LEMMA TextEndKeeps ==
  ASSUME FontsInv, RunNext, NEW n, NEW outcome, ResumeText(Head(workQueue), n, outcome),
         closure[Head(workQueue)].does = "text", n \in 1 .. Len(closure[Head(workQueue)].elts) + 1,
         outcome # "suspended"
  PROVE  FontsInv'
  <1>a. PICK c \in FClients : c = Head(workQueue)
    BY HeadSleeps DEF RunNext
  <1>b. PICK cl : cl = closure[c]
    OBVIOUS
  <1>c. PICK draws : draws = (c \in drawables)
    OBVIOUS
  <1>0. /\ processing /\ workQueue' = Tail(workQueue) /\ processing' = (workQueue' # <<>>)
        /\ UNCHANGED <<gcFont, drawables, alive, wrong, reopened, requests, idFont>>
    BY DEF RunNext, ResumeText
  <1>1. ValuesOK /\ QueueOK /\ OpenOK /\ FontsAreCounted
    BY DEF FontsInv
  <1>2. c \in sleepQueue
    BY <1>0, <1>a, HeadSleeps
  <1>3. closure \in [FClients -> Closures] /\ cl \in Closures /\ cl.does = "text" /\ closure[c] = cl
    BY <1>1, <1>2, <1>a, <1>b DEF ValuesOK
  <1>4. cl \in TextClosures /\ cl.elts \in Seq(Elements)
    BY <1>3, TextHolds
  <1>5. Outcome(cl.elts, n, outcome) /\ n \in 1 .. Len(cl.elts) + 1
    BY <1>a, <1>b DEF ResumeText
  <1>6. /\ refcnt' = GivenUp(refcnt, cl, n, draws) /\ closure' = [closure EXCEPT ![c] = NoClosure]
        /\ sleepQueue' = sleepQueue \ {c} /\ pending' = pending \ {c}
        /\ abandoned' = abandoned \cup ClosedInstead(cl, n, draws)
        /\ leaked' = leaked \cup StillMarked(cl, n, draws)
    BY <1>a, <1>b, <1>c DEF ResumeText, ClientWakeup
  <1>7. \A i \in Changes(cl.elts) : i < n => idFont[cl.elts[i]] \in Fonts
    BY <1>1, <1>4, <1>5, Begun DEF ValuesOK
  <1>8. refcnt' \in FontCounts
    <2>1. refcnt \in FontCounts
      BY <1>1 DEF ValuesOK
    <2> QED BY <1>4, <1>5, <1>6, <1>7, <2>1, GivenUpIs
  <1>10. /\ closure' \in [FClients -> Closures]
         /\ closure'[c] = NoClosure /\ \A d \in FClients : d # c => closure'[d] = closure[d]
    BY <1>3, <1>6, NoClosureIs
  <1>11. ValuesOK'
    <2>1. abandoned' \subseteq Fonts /\ leaked' \subseteq Fonts
      BY <1>1, <1>4, <1>6, HistoriesGrow DEF ValuesOK
    <2> QED BY <1>0, <1>1, <1>8, <1>10, <2>1 DEF ValuesOK
  <1>12. QueueOK'
    BY <1>0, <1>6, <1>11, <1>a, TurnKeeps, NoClosureIs
  <1>13. NoClosure.does # "open" /\ NoClosure.does # "text"
    BY NoClosureIs
  <1>14. OpenOK'
    BY <1>0, <1>1, <1>10, <1>13 DEF OpenOK
  <1>15. ASSUME NEW f \in Fonts
         PROVE  /\ f \notin abandoned' =>
                      NoLess(Debt(refcnt', idFont', gcFont', closure', f), Debt(refcnt, idFont, gcFont, closure, f))
                /\ f \notin leaked' =>
                      NoLess(Debt(refcnt, idFont, gcFont, closure, f), Debt(refcnt', idFont', gcFont', closure', f))
    <2>1. PICK r : r = GivenUp(refcnt, cl, n, draws)
      OBVIOUS
    <2>2. /\ f \notin ClosedInstead(cl, n, draws) =>
                NoLess(Debt(r, idFont, gcFont, [closure EXCEPT ![c] = NoClosure], f), Debt(refcnt, idFont, gcFont, closure, f))
          /\ f \notin StillMarked(cl, n, draws) =>
                NoLess(Debt(refcnt, idFont, gcFont, closure, f), Debt(r, idFont, gcFont, [closure EXCEPT ![c] = NoClosure], f))
      BY <1>1, <1>3, <1>5, <1>7, <2>1, ReleasedText
    <2>3. refcnt' = r /\ idFont' = idFont /\ gcFont' = gcFont /\ closure' = [closure EXCEPT ![c] = NoClosure]
      BY <1>0, <1>6, <2>1
    <2>4. (f \notin abandoned' => f \notin ClosedInstead(cl, n, draws)) /\ (f \notin leaked' => f \notin StillMarked(cl, n, draws))
      BY <1>6
    <2> QED BY <2>2, <2>3, <2>4
  <1>16. FontsAreCounted'
    <2>1. abandoned \subseteq abandoned' /\ reopened \subseteq reopened' /\ leaked \subseteq leaked'
      BY <1>0, <1>6
    <2> QED BY <1>1, <1>11, <1>15, <2>1, DebtKept
  <1> QED BY <1>11, <1>12, <1>14, <1>16 DEF FontsInv

LEMMA RunNextKeeps == FontsInv /\ RunNext => FontsInv'
  <1>1. SUFFICES ASSUME FontsInv, RunNext PROVE FontsInv'
    OBVIOUS
  <1>2. Resume(Head(workQueue))
    BY <1>1 DEF RunNext
  <1>3. CASE closure[Head(workQueue)].does = "text"
             /\ \E n \in 1 .. Len(closure[Head(workQueue)].elts) + 1, outcome \in {"end", "suspended", "failed"} :
                   ResumeText(Head(workQueue), n, outcome)
    <2>1. PICK n \in 1 .. Len(closure[Head(workQueue)].elts) + 1, outcome \in {"end", "suspended", "failed"} :
             ResumeText(Head(workQueue), n, outcome)
      BY <1>3
    <2>2. CASE outcome = "suspended"
      BY <1>1, <1>3, <2>1, <2>2, TextTurnKeeps
    <2>3. CASE outcome # "suspended"
      BY <1>1, <1>3, <2>1, <2>3, TextEndKeeps
    <2> QED BY <2>2, <2>3
  <1>4. CASE closure[Head(workQueue)].does = "open"
             /\ \E outcome \in {"end", "suspended", "failed"} : ResumeOpen(Head(workQueue), outcome)
    BY <1>1, <1>4, ResumeOpenKeeps
  <1> QED BY <1>2, <1>3, <1>4 DEF Resume


LEMMA SignalKeeps ==
  ASSUME FontsInv, NEW c \in FClients, Signal(c)
  PROVE  FontsInv'
  <1>1. /\ ~processing /\ c \in pending /\ pending' = pending \ {c} /\ workQueue' = ClientSignal(c, workQueue)
        /\ UNCHANGED <<idFont, refcnt, gcFont, drawables, alive, sleepQueue, closure, processing, wrong, abandoned,
                       reopened, leaked, requests>>
    BY DEF Signal, Dispatching, fontVars, historyVars
  <1>2. ValuesOK /\ QueueOK /\ OpenOK /\ FontsAreCounted
    BY DEF FontsInv
  <1>3. c \in sleepQueue /\ workQueue \in Seq(sleepQueue) /\ IsInjective(workQueue)
        /\ \A i \in 1 .. Len(workQueue) : workQueue[i] \notin pending
    BY <1>1, <1>2 DEF QueueOK
  <1>4. workQueue' = Append(workQueue, c)
    BY <1>1, <1>3 DEF ClientSignal
  <1>5. /\ workQueue' \in Seq(sleepQueue) /\ Len(workQueue') = Len(workQueue) + 1
        /\ workQueue'[Len(workQueue) + 1] = c
        /\ \A k \in 1 .. Len(workQueue) : workQueue'[k] = workQueue[k]
        /\ IsInjective(workQueue')
    <2>1. \A k \in 1 .. Len(workQueue) : workQueue[k] # c
      BY <1>1, <1>3
    <2> QED BY <1>3, <1>4, <2>1, PutLast
  <1>6. \A k \in 1 .. Len(workQueue') : workQueue'[k] \notin pending'
    <2>1. \A k \in 1 .. Len(workQueue') : k \in 1 .. Len(workQueue) \/ k = Len(workQueue) + 1
      BY <1>3, <1>5
    <2> QED BY <1>1, <1>3, <1>5, <2>1
  <1>7. QueueOK'
    BY <1>1, <1>2, <1>5, <1>6 DEF QueueOK
  <1>8. ValuesOK'
    BY <1>1, <1>2 DEF ValuesOK
  <1>9. OpenOK'
    BY <1>1, <1>2 DEF OpenOK
  <1>10. FontsAreCounted'
    BY <1>1, <1>2, <1>8, DebtSame
  <1> QED BY <1>7, <1>8, <1>9, <1>10 DEF FontsInv

LEMMA ProcessWorkQueueKeeps ==
  ASSUME FontsInv, ProcessWorkQueue PROVE FontsInv'
  <1>1. /\ workQueue # <<>> /\ processing' = TRUE
        /\ UNCHANGED <<idFont, refcnt, gcFont, drawables, alive, sleepQueue, closure, workQueue, pending, wrong, abandoned,
                       reopened, leaked, requests>>
    BY DEF ProcessWorkQueue, fontVars, historyVars
  <1>2. ValuesOK /\ QueueOK /\ OpenOK /\ FontsAreCounted
    BY DEF FontsInv
  <1>3. ValuesOK'
    BY <1>1, <1>2 DEF ValuesOK
  <1>4. QueueOK'
    BY <1>1, <1>2 DEF QueueOK
  <1>5. OpenOK'
    BY <1>1, <1>2 DEF OpenOK
  <1>6. FontsAreCounted'
    BY <1>1, <1>2, <1>3, DebtSame
  <1> QED BY <1>3, <1>4, <1>5, <1>6 DEF FontsInv

LEMMA UnchangedKeeps ==
  ASSUME FontsInv, UNCHANGED fontRequestVars PROVE FontsInv'
  <1>1. UNCHANGED <<idFont, refcnt, gcFont, drawables, alive, sleepQueue, closure, workQueue, processing, pending, wrong,
                    abandoned, reopened, leaked, requests>>
    BY DEF fontRequestVars, fontVars, queueVars, historyVars
  <1>2. ValuesOK /\ QueueOK /\ OpenOK /\ FontsAreCounted
    BY DEF FontsInv
  <1>3. ValuesOK' /\ QueueOK'
    BY <1>1, <1>2 DEF ValuesOK, QueueOK
  <1>5. OpenOK'
    BY <1>1, <1>2 DEF OpenOK
  <1>6. FontsAreCounted'
    BY <1>1, <1>2, <1>3, DebtSame
  <1> QED BY <1>2, <1>3, <1>5, <1>6 DEF FontsInv

LEMMA FreeDrawableKeeps ==
  ASSUME FontsInv, NEW c \in FClients, NEW d \in FClients, FreeDrawable(c, d)
  PROVE  FontsInv'
  <1>1. /\ requests < MaxRequests /\ requests' = requests + 1 /\ drawables' = drawables \ {d}
        /\ UNCHANGED <<idFont, refcnt, gcFont, alive, sleepQueue, closure, workQueue, processing, pending, wrong, abandoned,
                       reopened, leaked>>
    BY DEF FreeDrawable, Asks, queueVars, historyVars
  <1>2. ValuesOK /\ QueueOK /\ OpenOK /\ FontsAreCounted
    BY DEF FontsInv
  <1>3. ValuesOK'
    <2>1. requests' \in 0 .. MaxRequests
      BY <1>1, <1>2, FontAssumption DEF ValuesOK
    <2>2. drawables' \subseteq FClients
      BY <1>1, <1>2 DEF ValuesOK
    <2> QED BY <1>1, <1>2, <2>1, <2>2 DEF ValuesOK
  <1>4. QueueOK'
    BY <1>1, <1>2 DEF QueueOK
  <1>5. OpenOK'
    BY <1>1, <1>2 DEF OpenOK
  <1>6. FontsAreCounted'
    BY <1>1, <1>2, <1>3, DebtSame
  <1> QED BY <1>3, <1>4, <1>5, <1>6 DEF FontsInv

\* A reference to h is dropped, where h may be no font.
LEMMA Dropped ==
  ASSUME NEW r \in FontCounts, NEW h \in Fonts \cup {NoFont}
  PROVE  Minus(r, h) \in FontCounts /\ \A f \in Fonts : Minus(r, h)[f] = r[f] - Is(h, f)
  <1>1. CASE h \in Fonts
    BY <1>1, PlusMinus
  <1>2. CASE h = NoFont
    <2>1. Minus(r, h) = r
      BY <1>2 DEF Minus
    <2>2. \A f \in Fonts : Is(h, f) = 0
      BY <1>2, FontAssumption DEF Is
    <2>3. \A f \in Fonts : r[f] = r[f] - 0
      BY DEF FontCounts
    <2> QED BY <2>1, <2>2, <2>3
  <1> QED BY <1>1, <1>2

\* A GC that is freed drops its reference.
LEMMA GcFreed ==
  ASSUME NEW r \in FontCounts, NEW names \in FontNames, NEW gcs \in FontsOfGCs, NEW cl \in [FClients -> Closures],
         NEW d \in FClients, NEW f \in Fonts
  PROVE  Debt(Minus(r, gcs[d]), names, [gcs EXCEPT ![d] = NoFont], cl, f) = Debt(r, names, gcs, cl, f)
  <1> DEFINE k == RefCount(names, gcs, cl, f)
             k2 == RefCount(names, [gcs EXCEPT ![d] = NoFont], cl, f)
             h == gcs[d]
             s == Minus(r, h)
  <1>1. h \in Fonts \cup {NoFont}
    BY DEF FontsOfGCs
  <1>2. s[f] = r[f] - Is(h, f)
    BY <1>1, Dropped
  <1>3. Transferred(k2, k, Is(h, f), Is(NoFont, f)) /\ k \in Nat
    BY Recounted
  <1>4. Is(NoFont, f) = 0
    BY FontAssumption DEF Is
  <1>5. r[f] \in Int /\ Is(h, f) \in {0, 1}
    BY IsNumber DEF FontCounts
  <1>6. Debt(s, names, [gcs EXCEPT ![d] = NoFont], cl, f) = s[f] - k2 /\ Debt(r, names, gcs, cl, f) = r[f] - k
    BY DEF Debt
  <1> HIDE DEF k, k2, h, s
  <1>7. s[f] - k2 = r[f] - k
    BY <1>2, <1>3, <1>4, <1>5 DEF Transferred
  <1>8. Debt(s, names, [gcs EXCEPT ![d] = NoFont], cl, f) = Debt(r, names, gcs, cl, f)
    BY <1>6, <1>7
  <1> QED BY <1>8 DEF s, h

LEMMA FreeGCKeeps ==
  ASSUME FontsInv, NEW c \in FClients, NEW d \in FClients, FreeGC(c, d)
  PROVE  FontsInv'
  <1>1. /\ requests < MaxRequests /\ requests' = requests + 1
        /\ gcFont' = [gcFont EXCEPT ![d] = NoFont] /\ refcnt' = Minus(refcnt, gcFont[d])
        /\ UNCHANGED <<idFont, drawables, alive, sleepQueue, closure, workQueue, processing, pending, wrong, abandoned,
                       reopened, leaked>>
    BY DEF FreeGC, Asks, queueVars, historyVars
  <1>2. ValuesOK /\ QueueOK /\ OpenOK /\ FontsAreCounted
    BY DEF FontsInv
  <1>3. gcFont[d] \in Fonts \cup {NoFont} /\ refcnt \in FontCounts /\ gcFont \in FontsOfGCs
    BY <1>2 DEF ValuesOK, FontsOfGCs
  <1>4. ValuesOK'
    <2>1. requests' \in 0 .. MaxRequests
      BY <1>1, <1>2, FontAssumption DEF ValuesOK
    <2>2. gcFont' \in FontsOfGCs
      BY <1>1, <1>3 DEF FontsOfGCs
    <2>3. refcnt' \in FontCounts
      BY <1>1, <1>3, Dropped
    <2> QED BY <1>1, <1>2, <2>1, <2>2, <2>3 DEF ValuesOK
  <1>5. QueueOK'
    BY <1>1, <1>2 DEF QueueOK
  <1>6. OpenOK'
    BY <1>1, <1>2 DEF OpenOK
  <1>7. ASSUME NEW f \in Fonts
        PROVE  Debt(refcnt', idFont', gcFont', closure', f) = Debt(refcnt, idFont, gcFont, closure, f)
    <2>1. Debt(Minus(refcnt, gcFont[d]), idFont, [gcFont EXCEPT ![d] = NoFont], closure, f)
             = Debt(refcnt, idFont, gcFont, closure, f)
      BY <1>2, <1>3, GcFreed DEF ValuesOK
    <2> QED BY <1>1, <2>1
  <1>8. FontsAreCounted'
    BY <1>1, <1>2, <1>4, <1>7, DebtSame
  <1> QED BY <1>4, <1>5, <1>6, <1>8 DEF FontsInv

-----------------------------------------------------------------------------
LEMMA ClosedKeeps ==
  ASSUME ValuesOK, QueueOK, OpenOK, NEW S \in SUBSET FontIds, Closed(S, idFont, idFont'),
         NEW cs, Remain(closure, closure', cs)
  PROVE  /\ OpenOK'
         /\ \A f \in Fonts : /\ Fewer(idFont, idFont', closure', f)
                             /\ f \notin MentionedFonts(S, cs) => SameMarks(idFont, idFont', closure', f)
  <1>1. ASSUME NEW d \in FClients, closure'[d].does = "open"
        PROVE  idFont'[closure'[d].id] = NoFont /\ IdOwner[closure'[d].id] = d
    <2>1. closure'[d] # NoClosure
      BY <1>1, NoClosureIs
    <2>2. closure'[d] = closure[d] /\ closure[d] \in Closures /\ closure[d].does = "open"
      BY <1>1, <2>1 DEF Remain, ValuesOK
    <2>3. closure[d].id \in FontIds
      BY <2>2, ClosureFields
    <2>4. idFont[closure[d].id] = NoFont /\ IdOwner[closure[d].id] = d
      BY <2>2 DEF OpenOK
    <2> QED BY <2>2, <2>3, <2>4 DEF Closed
  <1>2. ASSUME NEW f \in Fonts, NEW d \in Texting(closure'), NEW i \in Changes(closure'[d].elts)
        PROVE  /\ idFont'[closure'[d].elts[i]] = f => idFont[closure'[d].elts[i]] = f
               /\ f \notin MentionedFonts(S, cs) => (idFont[closure'[d].elts[i]] = f => idFont'[closure'[d].elts[i]] = f)
    <2> DEFINE e == closure'[d].elts[i]
    <2>1. e \in FontIds /\ f # NoFont
      <3>1. closure' \in [FClients -> Closures]
        BY DEF Remain
      <3>2. closure'[d].elts \in Seq(FontIds \cup {String})
        BY <1>2, <3>1, ClosureFields DEF Texting
      <3> QED BY <1>2, <3>2, ChangesFinite, FontAssumption
    <2>2. idFont'[e] = IF e \in S THEN NoFont ELSE idFont[e]
      BY <2>1 DEF Closed
    <2>3. ASSUME e \in S, idFont[e] = f PROVE f \in MentionedFonts(S, cs)
      <3>1. SUFFICES ASSUME ~Mentioned(e, cs) PROVE FALSE
        BY <2>3 DEF MentionedFonts
      <3>2. Unmentioned({e}, cs)
        BY <3>1 DEF Unmentioned
      <3>3. e \notin {e}
        BY <1>2, <3>2, UnmentionedIs
      <3> QED BY <3>3
    <2> HIDE DEF e
    <2>4. /\ idFont'[e] = f => idFont[e] = f
          /\ f \notin MentionedFonts(S, cs) => (idFont[e] = f => idFont'[e] = f)
      BY <2>1, <2>2, <2>3
    <2> QED BY <2>4 DEF e
  <1>3. OpenOK'
    BY <1>1 DEF OpenOK
  <1>4. ASSUME NEW f \in Fonts PROVE Fewer(idFont, idFont', closure', f)
    BY <1>2 DEF Fewer
  <1>5. ASSUME NEW f \in Fonts, f \notin MentionedFonts(S, cs) PROVE SameMarks(idFont, idFont', closure', f)
    BY <1>2, <1>5 DEF SameMarks
  <1> QED BY <1>3, <1>4, <1>5

LEMMA CloseFontKeeps ==
  ASSUME FontsInv, NEW c \in FClients, NEW id \in FontIds, CloseFontRequest(c, id)
  PROVE  FontsInv'
  <1> DEFINE h == idFont[id]
  <1>1. /\ requests < MaxRequests /\ requests' = requests + 1 /\ h # NoFont
        /\ idFont' = [idFont EXCEPT ![id] = NoFont] /\ refcnt' = Minus(refcnt, h)
        /\ leaked' = leaked \cup MentionedFonts({id}, alive)
        /\ UNCHANGED <<gcFont, drawables, alive, sleepQueue, closure, workQueue, processing, pending, wrong, abandoned, reopened>>
    BY DEF CloseFontRequest, Asks, queueVars
  <1>2. ValuesOK /\ QueueOK /\ OpenOK /\ FontsAreCounted
    BY DEF FontsInv
  <1>3. h \in Fonts /\ refcnt \in FontCounts /\ idFont \in FontNames
    BY <1>1, <1>2 DEF ValuesOK, FontNames
  <1> HIDE DEF h
  <1>4. idFont' \in FontNames /\ \A j \in FontIds : idFont'[j] = IF j \in {id} THEN NoFont ELSE idFont[j]
    BY <1>1, <1>3 DEF FontNames
  <1>5. refcnt' \in FontCounts /\ \A f \in Fonts : refcnt'[f] = refcnt[f] - Is(h, f)
    BY <1>1, <1>3, PlusMinus
  <1>6. ValuesOK'
    <2>1. requests' \in 0 .. MaxRequests
      BY <1>1, <1>2, FontAssumption DEF ValuesOK
    <2>2. leaked' \subseteq Fonts
      <3>1. MentionedFonts({id}, alive) \subseteq {h}
        <4> HIDE DEF Mentioned
        <4> QED BY DEF MentionedFonts, h
      <3> QED BY <1>1, <1>2, <1>3, <3>1 DEF ValuesOK
    <2> QED BY <1>1, <1>2, <1>4, <1>5, <2>1, <2>2 DEF ValuesOK
  <1>7. QueueOK'
    BY <1>1, <1>2 DEF QueueOK
  <1>8. /\ OpenOK'
        /\ \A f \in Fonts : /\ Fewer(idFont, idFont', closure, f)
                            /\ f \notin MentionedFonts({id}, alive) => SameMarks(idFont, idFont', closure, f)
    <2>1. Closed({id}, idFont, idFont')
      BY <1>4 DEF Closed
    <2>2. Remain(closure, closure', alive)
      <3>1. closure' = closure /\ closure \in [FClients -> Closures] /\ sleepQueue \subseteq alive
        BY <1>1, <1>2 DEF ValuesOK, QueueOK
      <3> QED BY <3>1 DEF Remain
    <2>3. closure' = closure
      BY <1>1
    <2>4. /\ OpenOK'
          /\ \A f \in Fonts : /\ Fewer(idFont, idFont', closure', f)
                              /\ f \notin MentionedFonts({id}, alive) => SameMarks(idFont, idFont', closure', f)
      BY <1>2, <2>1, <2>2, ClosedKeeps
    <2> QED BY <2>3, <2>4
  <1>9. ASSUME NEW f \in Fonts
        PROVE  /\ NoLess(Debt(refcnt', idFont', gcFont', closure', f), Debt(refcnt, idFont, gcFont, closure, f))
               /\ f \notin leaked' =>
                     NoLess(Debt(refcnt, idFont, gcFont, closure, f), Debt(refcnt', idFont', gcFont', closure', f))
    <2> DEFINE k == RefCount(idFont, gcFont, closure, f)
               k2 == RefCount(idFont', gcFont, closure, f)
               t == Times_(idFont, FontIds, f)
               t2 == Times_(idFont', FontIds, f)
    <2>1. NoLess(k - t + t2, k2) /\ (f \notin leaked' => k2 = k - t + t2)
      <3>1. Fewer(idFont, idFont', closure, f)
        BY <1>8
      <3>2. f \notin leaked' => SameMarks(idFont, idFont', closure, f)
        BY <1>1, <1>8
      <3>3. NoLess(k - t + t2, k2)
        BY <1>2, <1>4, <3>1, NamesFewer DEF ValuesOK
      <3>4. f \notin leaked' => k2 = k - t + t2
        BY <1>2, <1>4, <3>2, NamesChanged DEF ValuesOK
      <3> QED BY <3>3, <3>4
    <2>2. t2 = t - Is(h, f) + Is(NoFont, f)
      <3>1. IsFiniteSet(FontIds)
        BY FontAssumption
      <3>2. idFont[id] = h /\ idFont'[id] = NoFont /\ Only(idFont, idFont', FontIds, id)
        BY <1>4 DEF Only, h
      <3> QED BY <3>1, <3>2, OneChanged, SMT
    <2>3. k \in Nat /\ k2 \in Nat /\ t \in Nat /\ refcnt[f] \in Int /\ Is(h, f) \in Int /\ Is(NoFont, f) = 0
      <3>1. k \in Nat /\ k2 \in Nat /\ t \in Nat
        BY <1>2, <1>4, PartsAreNumbers DEF ValuesOK
      <3>2. Is(NoFont, f) = 0
        BY FontAssumption DEF Is
      <3> QED BY <1>3, <3>1, <3>2, IsNumber DEF FontCounts
    <2>4. refcnt'[f] = refcnt[f] - Is(h, f)
      BY <1>5
    <2>5. /\ Debt(refcnt', idFont', gcFont', closure', f) = refcnt'[f] - k2
          /\ Debt(refcnt, idFont, gcFont, closure, f) = refcnt[f] - k
      BY <1>1 DEF Debt
    <2> HIDE DEF k, k2, t, t2
    <2>6. refcnt'[f] - k2 >= refcnt[f] - k
      BY <2>1, <2>2, <2>3, <2>4 DEF NoLess
    <2>7. f \notin leaked' => refcnt[f] - k >= refcnt'[f] - k2
      BY <2>1, <2>2, <2>3, <2>4
    <2> QED BY <2>5, <2>6, <2>7 DEF NoLess
  <1>10. FontsAreCounted'
    BY <1>1, <1>2, <1>6, <1>9, DebtKept
  <1> QED BY <1>6, <1>7, <1>8, <1>10 DEF FontsInv


\* The queues after client c is gone.
LEMMA QueueCloses ==
  ASSUME ValuesOK, QueueOK, NEW c \in FClients, CloseDownFontClient(c)
  PROVE  QueueOK'
  <1> DEFINE queued == ClientSignal(c, workQueue)
             q == workQueue
             s == sleepQueue \ {c}
  <1>1. /\ ~processing /\ c \in alive /\ alive' = alive \ {c} /\ workQueue' = Without(queued, c)
        /\ sleepQueue' = s /\ closure' = [closure EXCEPT ![c] = NoClosure]
        /\ pending' = pending \ {c} /\ processing' = processing
    BY DEF CloseDownFontClient, Dispatching, ClientWakeup
  <1>2. /\ q \in Seq(sleepQueue) /\ IsInjective(q) /\ \A i \in 1 .. Len(q) : q[i] \notin pending
        /\ Len(q) \in Nat /\ DOMAIN q = 1 .. Len(q)
    BY DEF QueueOK
  <1>3. /\ queued \in Seq(sleepQueue)
        /\ \A i \in 1 .. Len(queued) : queued[i] # c => i \in 1 .. Len(q) /\ queued[i] = q[i]
    <2>1. CASE c \in sleepQueue
      <3>1. queued = Append(q, c)
        BY <2>1 DEF ClientSignal
      <3>2. /\ queued \in Seq(sleepQueue) /\ Len(queued) = Len(q) + 1 /\ queued[Len(q) + 1] = c
            /\ \A k \in 1 .. Len(q) : queued[k] = q[k]
        BY <1>2, <2>1, <3>1, PutLast
      <3> HIDE DEF queued, q
      <3>3. \A i \in 1 .. Len(queued) : i \in 1 .. Len(q) \/ i = Len(q) + 1
        BY <1>2, <3>2
      <3> QED BY <3>2, <3>3
    <2>2. CASE c \notin sleepQueue
      <3>1. queued = q
        BY <2>2 DEF ClientSignal
      <3> QED BY <1>2, <3>1
    <2> QED BY <2>1, <2>2
  <1> HIDE DEF queued, q
  <1>4. \A i, j \in 1 .. Len(queued) : queued[i] = queued[j] /\ queued[i] # c => i = j
    BY <1>2, <1>3 DEF IsInjective
  <1> DEFINE w == Without(queued, c)
  <1>5. w \in Seq(sleepQueue) /\ LeavesOut(w, queued, c, Len(queued))
    BY <1>3, <1>4, WithoutIs
  <1> HIDE DEF w
  <1>6. ASSUME NEW k \in 1 .. Len(w) PROVE w[k] \in s /\ w[k] \notin pending
    <2>1. PICK j \in 1 .. Len(queued) : w[k] = queued[j] /\ queued[j] # c
      BY <1>5 DEF LeavesOut
    <2>2. w[k] \in sleepQueue
      BY <1>5
    <2>3. w[k] \notin pending
      BY <1>2, <1>3, <2>1
    <2> QED BY <2>1, <2>2, <2>3
  <1>7. w \in Seq(s)
    <2>1. w = [k \in 1 .. Len(w) |-> w[k]] /\ Len(w) \in Nat
      BY <1>5
    <2> HIDE DEF s
    <2>2. w \in [1 .. Len(w) -> s]
      BY <1>6, <2>1
    <2> QED BY <2>1, <2>2, SeqDef
  <1>8. workQueue' = w
    BY <1>1 DEF w
  <1>9. workQueue' \in Seq(sleepQueue')
    BY <1>1, <1>7, <1>8
  <1>10. IsInjective(workQueue')
    BY <1>5, <1>8 DEF LeavesOut
  <1>11. \A i \in 1 .. Len(workQueue') : workQueue'[i] \notin pending'
    BY <1>1, <1>6, <1>8
  <1>12. sleepQueue' \subseteq alive' /\ pending' \subseteq sleepQueue'
    BY <1>1 DEF QueueOK
  <1>13. \A d \in FClients : d \in sleepQueue' <=> closure'[d] # NoClosure
    <2>1. closure \in [FClients -> Closures]
      BY DEF ValuesOK
    <2> QED BY <1>1, <2>1 DEF QueueOK
  <1> QED BY <1>1, <1>9, <1>10, <1>11, <1>12, <1>13 DEF QueueOK

\* What names a font after the IDs in S were closed.
LEMMA NamesClosed ==
  ASSUME NEW names \in FontNames, NEW S \in SUBSET FontIds, NEW names2, Closed(S, names, names2),
         NEW f \in Fonts
  PROVE  /\ Times_(names, FontIds, f) \in Nat /\ Times_(names2, FontIds, f) \in Nat
         /\ Cardinality({id \in S : names[id] = f}) \in Nat
         /\ Transferred(Times_(names2, FontIds, f), Times_(names, FontIds, f), Cardinality({id \in S : names[id] = f}), 0)
  <1> DEFINE A == {id \in S : names[id] = f}
             B == {id \in FontIds : names2[id] = f}
             C == {id \in FontIds : names[id] = f}
  <1>1. IsFiniteSet(A) /\ IsFiniteSet(B)
    <2>1. IsFiniteSet(FontIds) /\ A \subseteq FontIds /\ B \subseteq FontIds
      BY FontAssumption
    <2> QED BY <2>1, FS_Subset
  <1>2. f # NoFont
    BY FontAssumption
  <1>3. (\A x \in A : x \notin B) /\ A \cup B = C
    BY <1>2 DEF Closed
  <1> HIDE DEF A, B, C
  <1>4. Cardinality(A) \in Nat /\ Cardinality(B) \in Nat /\ Cardinality(C) = Cardinality(A) + Cardinality(B)
    BY <1>1, <1>3, TwoParts
  <1>5. Cardinality(B) = Cardinality(C) - Cardinality(A) + 0 /\ Cardinality(C) \in Nat
    BY <1>4
  <1>6. Transferred(Cardinality(B), Cardinality(C), Cardinality(A), 0)
    BY <1>5 DEF Transferred
  <1> QED BY <1>4, <1>5, <1>6 DEF A, B, C, Times_

LEMMA FreedIs ==
  ASSUME ValuesOK, NEW c \in FClients, NEW r \in FontCounts, NEW names, Closed(OwnIds(c), idFont, names),
         NEW cl \in [FClients -> Closures]
  PROVE  /\ Freed(c, r) \in FontCounts
         /\ \A f \in Fonts :
               /\ Fewer(idFont, names, cl, f) =>
                     NoLess(Debt(Freed(c, r), names, [gcFont EXCEPT ![c] = NoFont], cl, f), Debt(r, idFont, gcFont, cl, f))
               /\ SameMarks(idFont, names, cl, f) =>
                     Debt(Freed(c, r), names, [gcFont EXCEPT ![c] = NoFont], cl, f) = Debt(r, idFont, gcFont, cl, f)
  <1> DEFINE S == OwnIds(c)
             h == gcFont[c]
             m == Minus(r, h)
             gcs == [gcFont EXCEPT ![c] = NoFont]
             a(f) == Cardinality({id \in S : idFont[id] = f})
             x == Freed(c, r)
  <1>1. h \in Fonts \cup {NoFont} /\ gcFont \in FontsOfGCs /\ idFont \in FontNames /\ gcs \in FontsOfGCs
    BY DEF ValuesOK, FontsOfGCs
  <1>2. m \in FontCounts
    BY <1>1, Dropped
  <1>3. S \in SUBSET FontIds
    BY DEF OwnIds
  <1>4. x = [f \in Fonts |-> m[f] - a(f)]
    BY DEF Freed
  <1>5. \A f \in Fonts : a(f) \in Nat
    <2> HIDE DEF S
    <2> QED BY <1>1, <1>3, NamesClosed DEF S
  <1> HIDE DEF x, m, h, S, a, gcs
  <1>6. x \in FontCounts
    BY <1>2, <1>4, <1>5 DEF FontCounts
  <1>7. ASSUME NEW f \in Fonts
        PROVE  /\ Fewer(idFont, names, cl, f) => NoLess(Debt(x, names, gcs, cl, f), Debt(r, idFont, gcFont, cl, f))
               /\ SameMarks(idFont, names, cl, f) => Debt(x, names, gcs, cl, f) = Debt(r, idFont, gcFont, cl, f)
    <2> DEFINE k == RefCount(idFont, gcs, cl, f)
               k2 == RefCount(names, gcs, cl, f)
               t == Times_(idFont, FontIds, f)
               t2 == Times_(names, FontIds, f)
    <2>1. Debt(m, idFont, gcs, cl, f) = Debt(r, idFont, gcFont, cl, f)
      BY <1>1, GcFreed DEF m, h, gcs
    <2>n. names \in FontNames
      BY DEF Closed
    <2>2. /\ Fewer(idFont, names, cl, f) => NoLess(k - t + t2, k2)
          /\ SameMarks(idFont, names, cl, f) => k2 = k - t + t2
      BY <1>1, <2>n, NamesChanged, NamesFewer
    <2>3. t \in Nat /\ t2 \in Nat /\ Transferred(t2, t, a(f), 0)
      BY <1>1, <1>3, NamesClosed DEF S, a
    <2>4. k \in Nat /\ k2 \in Nat /\ a(f) \in Nat /\ m[f] \in Int
      BY <1>1, <1>2, <1>5, <2>n, PartsAreNumbers DEF FontCounts
    <2>5. x[f] = m[f] - a(f)
      BY <1>4
    <2>6. Debt(x, names, gcs, cl, f) = x[f] - k2 /\ Debt(m, idFont, gcs, cl, f) = m[f] - k
      BY DEF Debt
    <2> HIDE DEF k, k2, t, t2
    <2>7. SameMarks(idFont, names, cl, f) => x[f] - k2 = m[f] - k
      BY <2>2, <2>3, <2>4, <2>5 DEF Transferred
    <2>8. Fewer(idFont, names, cl, f) => x[f] - k2 >= m[f] - k
      BY <2>2, <2>3, <2>4, <2>5 DEF Transferred, NoLess
    <2> QED BY <2>1, <2>6, <2>7, <2>8 DEF NoLess
  <1> QED BY <1>6, <1>7 DEF x, gcs

LEMMA CloseDownKeeps ==
  ASSUME FontsInv, NEW c \in FClients, CloseDownFontClient(c)
  PROVE  FontsInv'
  <1>a. PICK cl : cl = closure[c]
    OBVIOUS
  <1>b. PICK zombies : zombies = {i \in DOMAIN ClientSignal(c, workQueue) : ClientSignal(c, workQueue)[i] = c}
    OBVIOUS
  <1>c. PICK closing : closing = MentionedFonts(OwnIds(c), alive \ {c})
    OBVIOUS
  <1>1. /\ c \in alive /\ alive' = alive \ {c} /\ wrong' = (Cardinality(zombies) > 1)
        /\ closure' = [closure EXCEPT ![c] = NoClosure]
        /\ idFont' = [id \in FontIds |-> IF id \in OwnIds(c) THEN NoFont ELSE idFont[id]]
        /\ gcFont' = [gcFont EXCEPT ![c] = NoFont] /\ drawables' = drawables \ {c}
        /\ UNCHANGED <<reopened, requests>>
    BY <1>b DEF CloseDownFontClient, ClientWakeup
  <1>2. IF zombies # {} /\ cl.does = "text"
        THEN /\ refcnt' = Freed(c, GivenUp(refcnt, cl, Stop(cl.elts), FALSE))
             /\ abandoned' = abandoned \cup ClosedInstead(cl, Stop(cl.elts), FALSE)
             /\ leaked' = leaked \cup StillMarked(cl, Stop(cl.elts), FALSE) \cup closing
        ELSE /\ refcnt' = Freed(c, refcnt) /\ leaked' = leaked \cup closing /\ UNCHANGED abandoned
    BY <1>a, <1>b, <1>c DEF CloseDownFontClient
  <1>3. ValuesOK /\ QueueOK /\ OpenOK /\ FontsAreCounted
    BY DEF FontsInv
  <1>4. closure \in [FClients -> Closures] /\ closure[c] = cl /\ cl \in Closures /\ closure' \in [FClients -> Closures]
        /\ closure'[c] = NoClosure /\ (\A d \in FClients : d # c => closure'[d] = closure[d])
    BY <1>1, <1>3, <1>a, NoClosureIs DEF ValuesOK
  <1>5. refcnt \in FontCounts /\ idFont \in FontNames /\ gcFont \in FontsOfGCs
    BY <1>3 DEF ValuesOK
  <1>6. OwnIds(c) \in SUBSET FontIds /\ Closed(OwnIds(c), idFont, idFont')
    <2>1. OwnIds(c) \in SUBSET FontIds
      BY DEF OwnIds
    <2>2. idFont' \in FontNames
      BY <1>1, <1>5 DEF FontNames
    <2> QED BY <1>1, <2>1, <2>2 DEF Closed
  <1>7. QueueOK'
    BY <1>3, QueueCloses
  <1>8. /\ OpenOK'
        /\ \A f \in Fonts : /\ Fewer(idFont, idFont', closure', f)
                            /\ f \notin closing => SameMarks(idFont, idFont', closure', f)
    <2>1. Remain(closure, closure', alive \ {c})
      <3>1. sleepQueue \subseteq alive
        BY <1>3 DEF QueueOK
      <3> QED BY <1>4, <3>1 DEF Remain
    <2> QED BY <1>3, <1>6, <1>c, <2>1, ClosedKeeps
  <1>9. cl.does = "text" => zombies # {}
    <2>1. ASSUME cl.does = "text" PROVE zombies # {}
      <3>1. c \in sleepQueue
        BY <1>3, <1>4, <2>1, NoClosureIs DEF QueueOK
      <3>2. workQueue \in Seq(sleepQueue) /\ Len(workQueue) \in Nat
        BY <1>3 DEF QueueOK
      <3>3. ClientSignal(c, workQueue) = Append(workQueue, c)
        BY <3>1 DEF ClientSignal
      <3> DEFINE t == Append(workQueue, c)
      <3>4. t \in Seq(sleepQueue) /\ Len(t) = Len(workQueue) + 1 /\ t[Len(workQueue) + 1] = c
        BY <3>1, <3>2, PutLast
      <3>5. Len(workQueue) + 1 \in DOMAIN t
        BY <3>2, <3>4
      <3> HIDE DEF t
      <3>6. zombies = {i \in DOMAIN t : t[i] = c}
        BY <1>b, <3>3 DEF t
      <3> QED BY <3>4, <3>5, <3>6
    <2> QED BY <2>1
  <1>10. wrong' \in BOOLEAN /\ closing \subseteq Fonts
    <2>1. wrong' \in BOOLEAN
      BY <1>1
    <2>2. closing \subseteq Fonts
      <3>1. \A id \in OwnIds(c) : idFont[id] \in Fonts
        BY <1>5 DEF OwnIds, FontNames
      <3> HIDE DEF Mentioned, OwnIds
      <3> QED BY <1>c, <3>1 DEF MentionedFonts
    <2> QED BY <2>1, <2>2
  \* What the closure leaves of the counts.
  <1>11. PICK r \in FontCounts :
            /\ refcnt' = Freed(c, r)
            /\ abandoned \subseteq abandoned' /\ abandoned' \subseteq Fonts
            /\ leaked \subseteq leaked' /\ closing \subseteq leaked' /\ leaked' \subseteq Fonts
            /\ \A f \in Fonts :
                  /\ f \notin abandoned' => NoLess(Debt(r, idFont, gcFont, closure', f), Debt(refcnt, idFont, gcFont, closure, f))
                  /\ f \notin leaked' => NoLess(Debt(refcnt, idFont, gcFont, closure, f), Debt(r, idFont, gcFont, closure', f))
    <2>1. CASE cl.does = "text"
      <3>1. cl \in TextClosures /\ cl.elts \in Seq(Elements)
        BY <1>4, <2>1, TextHolds
      <3>2. PICK n : n = Stop(cl.elts)
        OBVIOUS
      <3>3. n \in 1 .. Len(cl.elts) + 1 /\ (n \in 1 .. Len(cl.elts) => n \in Changes(cl.elts))
        BY <1>5, <3>1, <3>2, StopIs
      <3>4. PICK r : r = GivenUp(refcnt, cl, n, FALSE)
        OBVIOUS
      <3>5. \A i \in Changes(cl.elts) : i < n => idFont[cl.elts[i]] \in Fonts
        BY <1>5, <3>1, <3>2, StopIs
      <3>6. r \in FontCounts
        BY <1>5, <3>1, <3>3, <3>4, GivenUpIs
      <3>7. /\ refcnt' = Freed(c, r) /\ abandoned' = abandoned \cup ClosedInstead(cl, n, FALSE)
            /\ leaked' = leaked \cup StillMarked(cl, n, FALSE) \cup closing
        BY <1>2, <1>9, <2>1, <3>2, <3>4
      <3>8. /\ abandoned \subseteq abandoned' /\ abandoned' \subseteq Fonts
            /\ leaked \subseteq leaked' /\ closing \subseteq leaked' /\ leaked' \subseteq Fonts
        BY <1>3, <1>10, <3>1, <3>7, HistoriesGrow DEF ValuesOK
      <3>9. ASSUME NEW f \in Fonts
            PROVE  /\ f \notin abandoned' => NoLess(Debt(r, idFont, gcFont, closure', f), Debt(refcnt, idFont, gcFont, closure, f))
                   /\ f \notin leaked' => NoLess(Debt(refcnt, idFont, gcFont, closure, f), Debt(r, idFont, gcFont, closure', f))
        <4>1. /\ f \notin ClosedInstead(cl, n, FALSE) =>
                    NoLess(Debt(r, idFont, gcFont, [closure EXCEPT ![c] = NoClosure], f), Debt(refcnt, idFont, gcFont, closure, f))
              /\ f \notin StillMarked(cl, n, FALSE) =>
                    NoLess(Debt(refcnt, idFont, gcFont, closure, f), Debt(r, idFont, gcFont, [closure EXCEPT ![c] = NoClosure], f))
          BY <1>3, <1>4, <2>1, <3>3, <3>4, <3>5, ReleasedText
        <4>2. /\ f \notin abandoned' => f \notin ClosedInstead(cl, n, FALSE)
              /\ f \notin leaked' => f \notin StillMarked(cl, n, FALSE)
          BY <3>7
        <4>3. closure' = [closure EXCEPT ![c] = NoClosure]
          BY <1>1
        <4> QED BY <4>1, <4>2, <4>3
      <3> QED BY <3>6, <3>7, <3>8, <3>9
    <2>2. CASE cl.does # "text"
      <3>1. refcnt' = Freed(c, refcnt) /\ leaked' = leaked \cup closing /\ UNCHANGED abandoned
        BY <1>2, <2>2
      <3>2. ASSUME NEW f \in Fonts
            PROVE  Debt(refcnt, idFont, gcFont, closure', f) = Debt(refcnt, idFont, gcFont, closure, f)
        <4> DEFINE k == RefCount(idFont, gcFont, closure, f)
                   k2 == RefCount(idFont, gcFont, closure', f)
        <4>1. Transferred(k2, k, HeldBy(idFont, cl, f), HeldBy(idFont, NoClosure, f)) /\ k \in Nat
          BY <1>1, <1>4, <1>5, Recounted, NoClosureIs
        <4>2. HeldBy(idFont, cl, f) = 0 /\ HeldBy(idFont, NoClosure, f) = 0
          BY <1>4, <2>2, NothingHeld, NoClosureIs
        <4> HIDE DEF k, k2
        <4>3. k2 = k
          BY <4>1, <4>2 DEF Transferred
        <4> QED BY <4>3 DEF Debt, k, k2
      <3>3. \A f \in Fonts :
               /\ NoLess(Debt(refcnt, idFont, gcFont, closure', f), Debt(refcnt, idFont, gcFont, closure, f))
               /\ NoLess(Debt(refcnt, idFont, gcFont, closure, f), Debt(refcnt, idFont, gcFont, closure', f))
        BY <1>3, <3>2, SameIsNoLess DEF ValuesOK
      <3>4. /\ abandoned \subseteq abandoned' /\ abandoned' \subseteq Fonts
            /\ leaked \subseteq leaked' /\ closing \subseteq leaked' /\ leaked' \subseteq Fonts
        BY <1>3, <1>10, <3>1 DEF ValuesOK
      <3> QED BY <1>5, <3>1, <3>3, <3>4
    <2> QED BY <2>1, <2>2
  <1>12. /\ refcnt' \in FontCounts
         /\ \A f \in Fonts :
               /\ NoLess(Debt(refcnt', idFont', gcFont', closure', f), Debt(r, idFont, gcFont, closure', f))
               /\ f \notin leaked' => Debt(refcnt', idFont', gcFont', closure', f) = Debt(r, idFont, gcFont, closure', f)
    <2>1. /\ Freed(c, r) \in FontCounts
          /\ \A f \in Fonts :
                /\ Fewer(idFont, idFont', closure', f) =>
                      NoLess(Debt(Freed(c, r), idFont', [gcFont EXCEPT ![c] = NoFont], closure', f), Debt(r, idFont, gcFont, closure', f))
                /\ SameMarks(idFont, idFont', closure', f) =>
                      Debt(Freed(c, r), idFont', [gcFont EXCEPT ![c] = NoFont], closure', f) = Debt(r, idFont, gcFont, closure', f)
      BY <1>3, <1>4, <1>6, FreedIs
    <2>2. \A f \in Fonts : Fewer(idFont, idFont', closure', f) /\ (f \notin leaked' => SameMarks(idFont, idFont', closure', f))
      BY <1>8, <1>11
    <2>3. refcnt' = Freed(c, r) /\ gcFont' = [gcFont EXCEPT ![c] = NoFont]
      BY <1>1, <1>11
    <2> QED BY <2>1, <2>2, <2>3
  <1>13. ValuesOK'
    <2>1. gcFont' \in FontsOfGCs
      BY <1>1, <1>5 DEF FontsOfGCs
    <2>2. alive' \subseteq FClients /\ drawables' \subseteq FClients
      BY <1>1, <1>3 DEF ValuesOK
    <2>3. idFont' \in FontNames
      BY <1>6 DEF Closed
    <2> QED BY <1>1, <1>3, <1>4, <1>10, <1>11, <1>12, <2>1, <2>2, <2>3 DEF ValuesOK
  <1>14. FontsAreCounted'
    <2>1. reopened \subseteq reopened'
      BY <1>1
    <2>2. ASSUME NEW f \in Fonts
          PROVE  /\ f \notin abandoned' =>
                       NoLess(Debt(refcnt', idFont', gcFont', closure', f), Debt(refcnt, idFont, gcFont, closure, f))
                 /\ f \notin leaked' =>
                       NoLess(Debt(refcnt, idFont, gcFont, closure, f), Debt(refcnt', idFont', gcFont', closure', f))
      <3> DEFINE x == Debt(refcnt, idFont, gcFont, closure, f)
                 y == Debt(r, idFont, gcFont, closure', f)
                 z == Debt(refcnt', idFont', gcFont', closure', f)
      <3>1. x \in Int /\ y \in Int /\ z \in Int
        BY <1>3, <1>4, <1>5, <1>11, <1>13, SameIsNoLess DEF ValuesOK
      <3>2. NoLess(z, y) /\ (f \notin leaked' => z = y)
        BY <1>12
      <3>3. (f \notin abandoned' => NoLess(y, x)) /\ (f \notin leaked' => NoLess(x, y))
        BY <1>11
      <3> HIDE DEF x, y, z
      <3>4. (f \notin abandoned' => NoLess(z, x)) /\ (f \notin leaked' => NoLess(x, z))
        BY <3>1, <3>2, <3>3 DEF NoLess
      <3> QED BY <3>4 DEF x, z
    <2> QED BY <1>3, <1>11, <1>13, <2>1, <2>2, DebtKept
  <1> QED BY <1>7, <1>8, <1>13, <1>14 DEF FontsInv


LEMMA FontsBegin == FontInit => FontsInv
  <1>1. SUFFICES ASSUME FontInit PROVE FontsInv
    OBVIOUS
  <1>2. /\ idFont \in [FontIds -> Fonts] /\ gcFont \in [FClients -> Fonts]
        /\ drawables = FClients /\ alive = FClients
        /\ sleepQueue = {} /\ closure = [c \in FClients |-> NoClosure]
        /\ workQueue = <<>> /\ processing = FALSE /\ pending = {}
        /\ refcnt = [f \in Fonts |-> References(f)]
        /\ wrong = FALSE /\ abandoned = {} /\ reopened = {} /\ leaked = {} /\ requests = 0
    BY <1>1 DEF FontInit
  <1>3. idFont \in FontNames /\ gcFont \in FontsOfGCs
    BY <1>2 DEF FontNames, FontsOfGCs
  <1>4. closure \in [FClients -> Closures] /\ \A c \in FClients : closure[c] = NoClosure
    BY <1>2, NoClosureIs
  <1>5. \A f \in Fonts : References(f) \in Int
    BY <1>3, <1>4, ReferencesAre, PartsAreNumbers
  <1>6. refcnt \in FontCounts /\ \A f \in Fonts : refcnt[f] = References(f)
    <2> HIDE DEF References
    <2> QED BY <1>2, <1>5 DEF FontCounts
  <1>7. ValuesOK
    <2>1. requests \in 0 .. MaxRequests
      BY <1>2, FontAssumption
    <2>2. alive \subseteq FClients /\ drawables \subseteq FClients
      BY <1>2
    <2>3. wrong \in BOOLEAN /\ abandoned \subseteq Fonts /\ reopened \subseteq Fonts /\ leaked \subseteq Fonts
      BY <1>2
    <2> QED BY <1>3, <1>4, <1>6, <2>1, <2>2, <2>3 DEF ValuesOK
  <1>8. QueueOK
    <2>1. <<>> \in Seq({}) /\ Len(<<>>) = 0 /\ IsInjective(<<>>)
      BY DEF IsInjective
    <2> QED BY <1>2, <1>4, <2>1 DEF QueueOK
  <1>9. OpenOK
    BY <1>4, NoClosureIs DEF OpenOK
  <1>10. FontsAreCounted
    <2>1. \A i \in Int : i >= i
      OBVIOUS
    <2> HIDE DEF References
    <2> QED BY <1>5, <1>6, <2>1 DEF FontsAreCounted
  <1> QED BY <1>7, <1>8, <1>9, <1>10 DEF FontsInv

\* A request that draws text.
LEMMA PolyTextKeeps ==
  ASSUME FontsInv, NEW c \in FClients, NEW elts \in Texts, NEW n \in 1 .. Len(elts) + 1, NEW outcome,
         PolyText(c, elts, n, outcome)
  PROVE  FontsInv'
  <1>1. CASE outcome = "suspended"
    BY <1>1, PolyTextSleeps
  <1>2. CASE outcome # "suspended"
    BY <1>2, PolyTextEnds
  <1> QED BY <1>1, <1>2

LEMMA FontsKept == FontsInv /\ [FontNext]_fontRequestVars => FontsInv'
  <1>1. SUFFICES ASSUME FontsInv, [FontNext]_fontRequestVars PROVE FontsInv'
    OBVIOUS
  <1>2. CASE \E c \in FClients, elts \in Texts : \E n \in 1..Len(elts)+1, outcome \in {"end", "suspended", "failed"} :
                PolyText(c, elts, n, outcome)
    BY <1>1, <1>2, PolyTextKeeps
  <1>3. CASE \E c \in FClients, id \in FontIds, f \in Fonts, outcome \in {"end", "suspended"} : OpenFont(c, id, f, outcome)
    BY <1>1, <1>3, OpenFontKeeps
  <1>4. CASE \E c \in FClients : Signal(c)
    BY <1>1, <1>4, SignalKeeps
  <1>5. CASE ProcessWorkQueue
    BY <1>1, <1>5, ProcessWorkQueueKeeps
  <1>6. CASE RunNext
    BY <1>1, <1>6, RunNextKeeps
  <1>7. CASE \E c \in FClients, id \in FontIds : CloseFontRequest(c, id)
    BY <1>1, <1>7, CloseFontKeeps
  <1>8. CASE \E c, d \in FClients : FreeGC(c, d)
    BY <1>1, <1>8, FreeGCKeeps
  <1>9. CASE \E c, d \in FClients : FreeDrawable(c, d)
    BY <1>1, <1>9, FreeDrawableKeeps
  <1>10. CASE \E c \in FClients : CloseDownFontClient(c)
    BY <1>1, <1>10, CloseDownKeeps
  <1>11. CASE AllOver \/ UNCHANGED fontRequestVars
    BY <1>1, <1>11, UnchangedKeeps DEF AllOver
  <1> QED BY <1>1, <1>2, <1>3, <1>4, <1>5, <1>6, <1>7, <1>8, <1>9, <1>10, <1>11 DEF FontNext

LEMMA FontsAlways == FontSpec => []FontsInv
  <1>1. FontInit => FontsInv
    BY FontsBegin
  <1>2. FontsInv /\ [FontNext]_fontRequestVars => FontsInv'
    BY FontsKept
  <1> QED BY <1>1, <1>2, PTL DEF FontSpec

\* However many requests sleep, wake up, fail or lose their client: counts, names,
\* closures and the queues of dixfonts.c and dixutils.c keep their types.
THEOREM FontsTypeCorrect == FontSpec => []FontTypeOK
  <1>1. FontsInv => FontTypeOK
    BY DEF FontsInv, ValuesOK, QueueOK, FontTypeOK, FontNames, FontsOfGCs, FontCounts
  <1> QED BY <1>1, FontsAlways, PTL

\* The marks that doPolyText puts on fonts when it goes to sleep come out even: no
\* font is counted less often than it is referred to, but one of the scratch GC of
\* a request that lost its drawable, or opened with an ID that a sleeping request
\* mentions; nor more often, but one with marks that are never undone.
THEOREM FontsCounted == FontSpec => []FontsAreCounted
  <1>1. FontsInv => FontsAreCounted
    BY DEF FontsInv
  <1> QED BY <1>1, FontsAlways, PTL

-----------------------------------------------------------------------------
(* Lists of pixels.                                                        *)

Lists == Seq(Pixels)
InList(l, p) == Times_(l, DOMAIN l, p)

More(new, old, by) == new = old + by

\* One more place of a list counts one more of what is there.
LEMMA OnePlace ==
  ASSUME NEW l, NEW S, IsFiniteSet(S), NEW i, i \notin S, NEW p
  PROVE  /\ Times_(l, S, p) \in Nat
         /\ More(Times_(l, S \cup {i}, p), Times_(l, S, p), Is(l[i], p))
  <1> DEFINE A == {j \in S : l[j] = p}
             B == {j \in S \cup {i} : l[j] = p}
  <1>1. IsFiniteSet(A)
    BY FS_Subset
  <1>2. SameBut(A, B, i) /\ i \notin A
    BY DEF SameBut
  <1>3. i \in B <=> l[i] = p
    OBVIOUS
  <1> HIDE DEF A, B
  <1>4. Cardinality(A) \in Nat /\ Cardinality(B) = Cardinality(A) - OneIf(i \in A) + OneIf(i \in B)
    BY <1>1, <1>2, OneMore
  <1>5. OneIf(i \in A) = 0 /\ OneIf(i \in B) = Is(l[i], p)
    BY <1>2, <1>3 DEF OneIf, Is
  <1>6. Is(l[i], p) \in {0, 1}
    BY DEF Is
  <1>7. More(Cardinality(B), Cardinality(A), Is(l[i], p))
    BY <1>4, <1>5, <1>6 DEF More
  <1> QED BY <1>4, <1>7, Zenon DEF A, B, Times_

LEMMA NoPlace == \A l, p : Times_(l, {}, p) = 0
  <1>1. ASSUME NEW l, NEW p PROVE Times_(l, {}, p) = 0
    <2>1. {j \in {} : l[j] = p} = {}
      OBVIOUS
    <2> QED BY <2>1, FS_EmptySet DEF Times_
  <1> QED BY <1>1

LEMMA ListNumbers ==
  ASSUME NEW l \in Lists, NEW p
  PROVE  /\ InList(l, p) \in Nat /\ InList(<<>>, p) = 0
         /\ \A i \in 0 .. Len(l) : Times_(l, 1 .. i, p) \in Nat /\ Times_(l, i + 1 .. Len(l), p) \in Nat
         /\ Times_(l, 1 .. 0, p) = 0 /\ Times_(l, Len(l) + 1 .. Len(l), p) = 0
         /\ InList(l, p) = Times_(l, 1 .. Len(l), p)
  <1>1. Len(l) \in Nat /\ DOMAIN l = 1 .. Len(l) /\ DOMAIN <<>> = {} /\ 1 .. 0 = {} /\ Len(l) + 1 .. Len(l) = {}
    BY DEF Lists
  <1>2. ASSUME NEW S, IsFiniteSet(S) PROVE Times_(l, S, p) \in Nat
    <2>1. IsFiniteSet({j \in S : l[j] = p})
      BY <1>2, FS_Subset
    <2> QED BY <2>1, FS_CardinalityType DEF Times_
  <1>3. ASSUME NEW i \in 0 .. Len(l)
        PROVE  Times_(l, 1 .. i, p) \in Nat /\ Times_(l, i + 1 .. Len(l), p) \in Nat
    <2>1. i \in Int /\ i + 1 \in Int /\ 1 \in Int /\ Len(l) \in Int
      BY <1>1
    <2>2. IsFiniteSet(1 .. i) /\ IsFiniteSet(i + 1 .. Len(l))
      BY <2>1, FS_Interval
    <2> QED BY <1>2, <2>2
  <1>4. Times_(l, 1 .. 0, p) = 0 /\ Times_(l, Len(l) + 1 .. Len(l), p) = 0 /\ InList(<<>>, p) = 0
    BY <1>1, NoPlace DEF InList
  <1>5. InList(l, p) = Times_(l, 1 .. Len(l), p)
    BY <1>1 DEF InList
  <1>6. InList(l, p) \in Nat
    <2>1. Len(l) \in 0 .. Len(l)
      BY <1>1
    <2> QED BY <1>3, <1>5, <2>1
  <1> QED BY <1>3, <1>4, <1>5, <1>6

LEMMA ListStep ==
  ASSUME NEW l \in Lists, NEW i \in 0 .. Len(l) - 1, NEW p
  PROVE  /\ More(Times_(l, 1 .. i + 1, p), Times_(l, 1 .. i, p), Is(l[i + 1], p))
         /\ More(Times_(l, i + 1 .. Len(l), p), Times_(l, i + 2 .. Len(l), p), Is(l[i + 1], p))
  <1>1. Len(l) \in Nat /\ i \in Int /\ i + 1 \in Int /\ i + 2 \in Int
    BY DEF Lists
  <1>2. PICK S : S = 1 .. i
    OBVIOUS
  <1>3. PICK R : R = i + 2 .. Len(l)
    OBVIOUS
  <1>4. PICK j : j = i + 1
    OBVIOUS
  <1>5. 1 .. i + 1 = S \cup {j} /\ j \notin S
    BY <1>1, <1>2, <1>4
  <1>6. i + 1 .. Len(l) = R \cup {j} /\ j \notin R
    BY <1>1, <1>3, <1>4
  <1>7. IsFiniteSet(S) /\ IsFiniteSet(R)
    BY <1>1, <1>2, <1>3, FS_Interval
  <1>8. More(Times_(l, S \cup {j}, p), Times_(l, S, p), Is(l[j], p))
    BY <1>5, <1>7, OnePlace, Zenon
  <1>9. More(Times_(l, R \cup {j}, p), Times_(l, R, p), Is(l[j], p))
    BY <1>6, <1>7, OnePlace, Zenon
  <1>10. More(Times_(l, 1 .. i + 1, p), Times_(l, 1 .. i, p), Is(l[i + 1], p))
    BY <1>2, <1>4, <1>5, <1>8, Zenon
  <1>11. More(Times_(l, i + 1 .. Len(l), p), Times_(l, i + 2 .. Len(l), p), Is(l[i + 1], p))
    BY <1>3, <1>4, <1>6, <1>9, Zenon
  <1> QED BY <1>10, <1>11

LEMMA Appended ==
  ASSUME NEW l \in Lists, NEW q \in Pixels, NEW p
  PROVE  /\ Append(l, q) \in Lists /\ Append(l, q) # <<>>
         /\ More(InList(Append(l, q), p), InList(l, p), Is(q, p))
  <1> DEFINE t == Append(l, q)
             n == Len(l)
  <1>1. /\ t \in Lists /\ t # <<>> /\ n \in Nat /\ Len(t) = n + 1 /\ t[n + 1] = q /\ \A i \in 1 .. n : t[i] = l[i]
        /\ DOMAIN t = 1 .. n + 1 /\ DOMAIN l = 1 .. n
    BY DEF Lists
  <1> HIDE DEF t, n
  <1>2. 1 .. n + 1 = (1 .. n) \cup {n + 1} /\ n + 1 \notin 1 .. n /\ n \in Int
    BY <1>1
  <1>3. IsFiniteSet(1 .. n)
    BY <1>2, FS_Interval
  <1>4. More(Times_(t, (1 .. n) \cup {n + 1}, p), Times_(t, 1 .. n, p), Is(q, p))
    <2>1. PICK S : S = 1 .. n
      OBVIOUS
    <2>2. PICK j : j = n + 1
      OBVIOUS
    <2>3. More(Times_(t, S \cup {j}, p), Times_(t, S, p), Is(t[j], p))
      BY <1>2, <1>3, <2>1, <2>2, OnePlace, Zenon
    <2>4. t[j] = q
      BY <1>1, <2>2
    <2> QED BY <2>1, <2>2, <2>3, <2>4, Zenon
  <1>5. Times_(t, 1 .. n, p) = Times_(l, 1 .. n, p)
    <2>1. {j \in 1 .. n : t[j] = p} = {j \in 1 .. n : l[j] = p}
      BY <1>1
    <2> QED BY <2>1 DEF Times_
  <1>6. More(InList(t, p), InList(l, p), Is(q, p))
    BY <1>1, <1>2, <1>4, <1>5, Zenon DEF InList
  <1> QED BY <1>1, <1>6 DEF t

LEMMA RemovedFrom ==
  ASSUME NEW l \in Lists, NEW k \in 1 .. Len(l), NEW p
  PROVE  /\ RemoveAt(l, k) \in Lists
         /\ More(InList(l, p), InList(RemoveAt(l, k), p), Is(l[k], p))
  <1> DEFINE t == RemoveAt(l, k)
             n == Len(l)
             s == SubSeq(l, 1, k - 1)
             r == SubSeq(l, k + 1, n)
  <1>1. n \in Nat /\ k \in Nat /\ 1 <= k /\ k <= n /\ DOMAIN l = 1 .. n /\ \A i \in 1 .. n : l[i] \in Pixels
    BY DEF Lists
  <1>2. s \in Lists /\ Len(s) = k - 1 /\ \A i \in 1 .. k - 1 : s[i] = l[i]
    BY <1>1 DEF Lists
  <1>3. r \in Lists /\ Len(r) = n - k /\ \A i \in 1 .. n - k : r[i] = l[i + k]
    <2>1. k + 1 \in Int /\ n \in Int /\ \A i \in k + 1 .. n : l[i] \in Pixels
      BY <1>1
    <2>2. /\ SubSeq(l, k + 1, n) \in Seq(Pixels)
          /\ Len(SubSeq(l, k + 1, n)) = IF k + 1 <= n THEN n - (k + 1) + 1 ELSE 0
          /\ \A i \in 1 .. n - (k + 1) + 1 : SubSeq(l, k + 1, n)[i] = l[k + 1 + i - 1]
      <3> HIDE DEF n
      <3> QED BY <2>1, SubSeqProperties
    <2> HIDE DEF n
    <2>3. n - (k + 1) + 1 = n - k /\ \A i \in 1 .. n - k : k + 1 + i - 1 = i + k
      BY <1>1
    <2>4. (IF k + 1 <= n THEN n - (k + 1) + 1 ELSE 0) = n - k
      BY <1>1
    <2> QED BY <2>2, <2>3, <2>4 DEF Lists
  <1> HIDE DEF s, r
  <1>4. t = s \o r
    BY DEF RemoveAt, s, r
  <1>5. t \in Lists /\ Len(t) = n - 1 /\ DOMAIN t = 1 .. n - 1
        /\ \A i \in 1 .. n - 1 : t[i] = IF i < k THEN l[i] ELSE l[i + 1]
    <2> HIDE DEF n, t
    <2>0. /\ s \o r \in Seq(Pixels) /\ Len(s \o r) = Len(s) + Len(r)
          /\ \A i \in 1 .. Len(s) + Len(r) : (s \o r)[i] = IF i <= Len(s) THEN s[i] ELSE r[i - Len(s)]
      <3>1. s \in Seq(Pixels) /\ r \in Seq(Pixels)
        BY <1>2, <1>3 DEF Lists
      <3> QED BY <3>1, ConcatProperties
    <2>4. Len(s) + Len(r) = n - 1 /\ Len(s) = k - 1
      BY <1>1, <1>2, <1>3
    <2>1. t \in Lists /\ Len(t) = n - 1 /\ DOMAIN t = 1 .. n - 1
      <3>1. t \in Seq(Pixels) /\ Len(t) = n - 1
        BY <1>4, <2>0, <2>4
      <3> QED BY <3>1 DEF Lists
    <2>2. \A i \in 1 .. n - 1 : t[i] = IF i <= k - 1 THEN s[i] ELSE r[i - (k - 1)]
      BY <1>4, <2>0, <2>4
    <2>3. ASSUME NEW i \in 1 .. n - 1 PROVE t[i] = IF i < k THEN l[i] ELSE l[i + 1]
      <3>1. CASE i < k
        <4>1. i \in 1 .. k - 1 /\ i <= k - 1
          BY <1>1, <3>1
        <4> QED BY <1>2, <2>2, <3>1, <4>1
      <3>2. CASE ~(i < k)
        <4>1. i - (k - 1) \in 1 .. n - k /\ i - (k - 1) + k = i + 1 /\ ~(i <= k - 1)
          BY <1>1, <3>2
        <4>2. r[i - (k - 1)] = l[i + 1]
          BY <1>3, <4>1
        <4>3. t[i] = r[i - (k - 1)]
          BY <2>2, <4>1
        <4> QED BY <3>2, <4>2, <4>3
      <3> QED BY <3>1, <3>2
    <2> QED BY <2>1, <2>3
  <1> HIDE DEF t, n
  <1> DEFINE A == {i \in 1 .. n - 1 : t[i] = p}
             B == {i \in (1 .. n) \ {k} : l[i] = p}
             g == [i \in A |-> IF i < k THEN i ELSE i + 1]
  <1>6. g \in Bijection(A, B)
    <2>1. g \in [A -> B]
      <3>1. ASSUME NEW i \in A PROVE (IF i < k THEN i ELSE i + 1) \in B
        <4>1. i \in 1 .. n - 1 /\ t[i] = p
          OBVIOUS
        <4>2. CASE i < k
          <5>1. i \in (1 .. n) \ {k}
            BY <1>1, <4>1, <4>2
          <5> QED BY <1>5, <4>1, <4>2, <5>1
        <4>3. CASE ~(i < k)
          <5>1. i + 1 \in (1 .. n) \ {k}
            BY <1>1, <4>1, <4>3
          <5> QED BY <1>5, <4>1, <4>3, <5>1
        <4> QED BY <4>2, <4>3
      <3> HIDE DEF A, B
      <3> QED BY <3>1
    <2>2. \A i, j \in A : g[i] = g[j] => i = j
      <3>1. \A i \in A : i \in Int
        OBVIOUS
      <3>2. \A i \in A : g[i] = IF i < k THEN i ELSE i + 1
        OBVIOUS
      <3> HIDE DEF A, g
      <3> QED BY <1>1, <3>1, <3>2
    <2>3. ASSUME NEW b \in B PROVE \E i \in A : g[i] = b
      <3>1. b \in (1 .. n) \ {k} /\ l[b] = p
        OBVIOUS
      <3>2. CASE b < k
        <4>1. b \in 1 .. n - 1
          BY <1>1, <3>1, <3>2
        <4>2. b \in A
          BY <1>5, <3>1, <3>2, <4>1
        <4> QED BY <3>2, <4>2
      <3>3. CASE ~(b < k)
        <4>1. b - 1 \in 1 .. n - 1 /\ ~(b - 1 < k) /\ b - 1 + 1 = b
          BY <1>1, <3>1, <3>3
        <4>2. b - 1 \in A
          BY <1>5, <3>1, <4>1
        <4> QED BY <4>1, <4>2
      <3> QED BY <3>2, <3>3
    <2> HIDE DEF A, B, g
    <2> QED BY <2>1, <2>2, <2>3 DEF Bijection, Injection, Surjection, IsInjective
  <1>7. Cardinality(B) = Cardinality(A)
    <2>1. IsFiniteSet(A)
      <3>1. n - 1 \in Int /\ 1 \in Int
        BY <1>1
      <3>2. IsFiniteSet(1 .. n - 1)
        BY <3>1, FS_Interval
      <3> QED BY <3>2, FS_Subset
    <2> HIDE DEF A, B, g
    <2> QED BY <1>6, <2>1, SameCount
  <1>8. InList(t, p) = Cardinality(A)
    BY <1>5 DEF InList, Times_
  <1>9. More(InList(l, p), Cardinality(B), Is(l[k], p))
    <2> DEFINE S == (1 .. n) \ {k}
    <2>1. IsFiniteSet(S)
      <3>1. n \in Int /\ 1 \in Int
        BY <1>1
      <3>2. IsFiniteSet(1 .. n)
        BY <3>1, FS_Interval
      <3> QED BY <3>2, FS_Subset
    <2>2. k \notin S /\ S \cup {k} = 1 .. n
      BY <1>1 DEF n
    <2>3. Times_(l, S, p) = Cardinality(B)
      BY DEF Times_
    <2> HIDE DEF S, B
    <2>4. More(Times_(l, S \cup {k}, p), Times_(l, S, p), Is(l[k], p))
      BY <2>1, <2>2, OnePlace, Zenon
    <2> QED BY <1>1, <2>2, <2>3, <2>4, Zenon DEF InList
  <1> HIDE DEF A, B, g
  <1>10. More(InList(l, p), InList(t, p), Is(l[k], p))
    BY <1>7, <1>8, <1>9, Zenon
  <1> QED BY <1>5, <1>10 DEF t

-----------------------------------------------------------------------------
(* The lists of all clients.                                               *)

AllLists == [ColourClients -> Lists]

Places(px) == UNION {{<<c, i>> : i \in DOMAIN px[c]} : c \in ColourClients}
Occ(px, p) == Cardinality({x \in Places(px) : px[x[1]][x[2]] = p})

\* Where p is on the lists of other clients than c.
Elsewhere(px, c, p) == {x \in Places(px) : px[x[1]][x[2]] = p /\ x[1] # c}

LEMMA OccurrencesAre ==
  \A m, p : Occurrences(m, p) = Occ(colormaps[m].pixels, p)
  BY DEF Occurrences, Occ, Places

LEMMA ListedPlaces ==
  ASSUME NEW px \in AllLists, NEW c \in ColourClients, NEW p
  PROVE  LET P == {<<c, i>> : i \in {j \in DOMAIN px[c] : px[c][j] = p}}
         IN  IsFiniteSet(P) /\ Cardinality(P) = InList(px[c], p) /\ InList(px[c], p) \in Nat
  <1> DEFINE M == {j \in DOMAIN px[c] : px[c][j] = p}
             P == {<<c, i>> : i \in M}
             b == [i \in M |-> <<c, i>>]
  <1>1. px[c] \in Lists
    BY DEF AllLists
  <1>2. InList(px[c], p) \in Nat
    BY <1>1, ListNumbers
  <1>3. IsFiniteSet(M)
    <2>1. DOMAIN px[c] = 1 .. Len(px[c]) /\ Len(px[c]) \in Nat
      BY <1>1 DEF Lists
    <2>2. IsFiniteSet(DOMAIN px[c])
      BY <2>1, FS_Interval
    <2> QED BY <2>2, FS_Subset
  <1>4. Cardinality(M) = InList(px[c], p)
    BY DEF InList, Times_
  <1> HIDE DEF M
  <1>5. b \in Bijection(M, P)
    BY DEF Bijection, Injection, Surjection, IsInjective
  <1> HIDE DEF b, P
  <1>6. IsFiniteSet(P) /\ Cardinality(P) = Cardinality(M)
    BY <1>3, <1>5, SameCount
  <1> QED BY <1>2, <1>4, <1>6 DEF P, M

LEMMA PlacesFinite ==
  ASSUME NEW px \in AllLists
  PROVE  IsFiniteSet(Places(px))
  <1> DEFINE g == [c \in ColourClients |-> {<<c, i>> : i \in DOMAIN px[c]}]
             G == {{<<c, i>> : i \in DOMAIN px[c]} : c \in ColourClients}
  <1>1. IsFiniteSet(ColourClients)
    BY ColormapAssumption
  <1>2. g \in Surjection(ColourClients, G)
    <2>1. g \in [ColourClients -> G]
      OBVIOUS
    <2>2. ASSUME NEW s \in G PROVE \E c \in ColourClients : g[c] = s
      <3>1. PICK c \in ColourClients : s = {<<c, i>> : i \in DOMAIN px[c]}
        BY <2>2
      <3>2. g[c] = s
        BY <3>1
      <3> QED BY <3>2
    <2> HIDE DEF g, G
    <2> QED BY <2>1, <2>2 DEF Surjection
  <1>3. IsFiniteSet(G)
    <2> HIDE DEF g, G
    <2> QED BY <1>1, <1>2, FS_Surjection
  <1>4. \A s \in G : IsFiniteSet(s)
    <2>1. SUFFICES ASSUME NEW c \in ColourClients PROVE IsFiniteSet({<<c, i>> : i \in DOMAIN px[c]})
      OBVIOUS
    <2> DEFINE M == DOMAIN px[c]
               P == {<<c, i>> : i \in M}
               b == [i \in M |-> <<c, i>>]
    <2>2. IsFiniteSet(M)
      <3>1. DOMAIN px[c] = 1 .. Len(px[c]) /\ Len(px[c]) \in Nat
        BY DEF Lists, AllLists
      <3> QED BY <3>1, FS_Interval
    <2> HIDE DEF M
    <2>4. b \in Bijection(M, P)
      BY DEF Bijection, Injection, Surjection, IsInjective
    <2> HIDE DEF b, P
    <2>5. IsFiniteSet(P)
      BY <2>2, <2>4, SameCount
    <2> QED BY <2>5 DEF P, M
  <1> HIDE DEF G
  <1>5. IsFiniteSet(UNION G)
    BY <1>3, <1>4, FS_UNION
  <1> QED BY <1>5 DEF Places, G

LEMMA OccParts ==
  ASSUME NEW px \in AllLists, NEW c \in ColourClients, NEW p
  PROVE  /\ IsFiniteSet(Elsewhere(px, c, p)) /\ Cardinality(Elsewhere(px, c, p)) \in Nat
         /\ Occ(px, p) \in Nat /\ InList(px[c], p) \in Nat
         /\ More(Occ(px, p), Cardinality(Elsewhere(px, c, p)), InList(px[c], p))
  <1> DEFINE O == Elsewhere(px, c, p)
             P == {<<c, i>> : i \in {j \in DOMAIN px[c] : px[c][j] = p}}
             A == {x \in Places(px) : px[x[1]][x[2]] = p}
  <1>1. IsFiniteSet(O)
    BY PlacesFinite, FS_Subset DEF Elsewhere
  <1>2. A = O \cup P
    <2>1. ASSUME NEW x \in A PROVE x \in O \cup P
      <3>1. PICK d \in ColourClients : \E i \in DOMAIN px[d] : x = <<d, i>>
        BY DEF Places
      <3>2. PICK i \in DOMAIN px[d] : x = <<d, i>>
        BY <3>1
      <3> QED BY <3>2 DEF Elsewhere
    <2>2. ASSUME NEW x \in P PROVE x \in A
      <3>1. PICK i \in DOMAIN px[c] : x = <<c, i>> /\ px[c][i] = p
        OBVIOUS
      <3> QED BY <3>1 DEF Places
    <2>3. O \subseteq A
      BY DEF Elsewhere
    <2> HIDE DEF A, O, P
    <2> QED BY <2>1, <2>2, <2>3
  <1>3. IsFiniteSet(P) /\ Cardinality(P) = InList(px[c], p) /\ InList(px[c], p) \in Nat
    BY ListedPlaces
  <1>4. \A x \in O : x \notin P
    BY DEF Elsewhere
  <1>5. Occ(px, p) = Cardinality(A)
    BY DEF Occ
  <1> HIDE DEF O, P, A
  <1>6. /\ IsFiniteSet(O \cup P) /\ Cardinality(O) \in Nat
        /\ Cardinality(O \cup P) = Cardinality(O) + Cardinality(P)
    BY <1>1, <1>3, <1>4, TwoParts
  <1>7. More(Occ(px, p), Cardinality(O), InList(px[c], p)) /\ Occ(px, p) \in Nat
    BY <1>2, <1>3, <1>5, <1>6 DEF More
  <1> QED BY <1>1, <1>3, <1>6, <1>7, Zenon DEF O

\* A client's list is changed.
LEMMA OccChanged ==
  ASSUME NEW px \in AllLists, NEW c \in ColourClients, NEW l \in Lists, NEW p
  PROVE  /\ [px EXCEPT ![c] = l] \in AllLists
         /\ Occ(px, p) \in Nat /\ Occ([px EXCEPT ![c] = l], p) \in Nat
         /\ InList(px[c], p) \in Nat /\ InList(l, p) \in Nat
         /\ Transferred(Occ([px EXCEPT ![c] = l], p), Occ(px, p), InList(px[c], p), InList(l, p))
         /\ Occ(px, p) >= InList(px[c], p)
  <1>1. PICK py : py = [px EXCEPT ![c] = l]
    OBVIOUS
  <1>2. py \in AllLists /\ py[c] = l /\ \A d \in ColourClients : d # c => py[d] = px[d]
    BY <1>1 DEF AllLists
  <1>3. Elsewhere(py, c, p) = Elsewhere(px, c, p)
    <2>1. ASSUME NEW x \in Elsewhere(py, c, p) PROVE x \in Elsewhere(px, c, p)
      <3>1. PICK d \in ColourClients : \E i \in DOMAIN py[d] : x = <<d, i>>
        BY DEF Places, Elsewhere
      <3>2. PICK i \in DOMAIN py[d] : x = <<d, i>>
        BY <3>1
      <3>3. d # c /\ py[d][i] = p
        BY <3>2 DEF Elsewhere
      <3>4. py[d] = px[d]
        BY <1>2, <3>3
      <3> QED BY <3>2, <3>3, <3>4 DEF Elsewhere, Places
    <2>2. ASSUME NEW x \in Elsewhere(px, c, p) PROVE x \in Elsewhere(py, c, p)
      <3>1. PICK d \in ColourClients : \E i \in DOMAIN px[d] : x = <<d, i>>
        BY DEF Places, Elsewhere
      <3>2. PICK i \in DOMAIN px[d] : x = <<d, i>>
        BY <3>1
      <3>3. d # c /\ px[d][i] = p
        BY <3>2 DEF Elsewhere
      <3>4. py[d] = px[d]
        BY <1>2, <3>3
      <3> QED BY <3>2, <3>3, <3>4 DEF Elsewhere, Places
    <2> QED BY <2>1, <2>2
  <1>4. PICK e : e = Cardinality(Elsewhere(px, c, p))
    OBVIOUS
  <1>5. e \in Nat /\ Occ(px, p) \in Nat /\ InList(px[c], p) \in Nat /\ More(Occ(px, p), e, InList(px[c], p))
    BY <1>4, OccParts, Zenon
  <1>6. Occ(py, p) \in Nat /\ InList(py[c], p) \in Nat /\ More(Occ(py, p), e, InList(py[c], p))
    BY <1>2, <1>3, <1>4, OccParts, Zenon
  <1>7. Occ(py, p) \in Nat /\ InList(l, p) \in Nat /\ More(Occ(py, p), e, InList(l, p))
    BY <1>2, <1>6
  <1>8. /\ Transferred(Occ(py, p), Occ(px, p), InList(px[c], p), InList(l, p))
        /\ Occ(px, p) >= InList(px[c], p)
    BY <1>5, <1>7 DEF More, Transferred
  <1> QED BY <1>1, <1>2, <1>5, <1>7, <1>8, Zenon

\* When all lists are empty but one.
LEMMA OccOfOnly ==
  ASSUME NEW px \in AllLists, NEW c \in ColourClients, NEW p,
         \A d \in ColourClients : d # c => px[d] = <<>>
  PROVE  Occ(px, p) = InList(px[c], p) /\ InList(px[c], p) \in Nat
  <1>1. Elsewhere(px, c, p) = {}
    <2>1. ASSUME NEW x \in Elsewhere(px, c, p) PROVE FALSE
      <3>1. PICK d \in ColourClients : \E i \in DOMAIN px[d] : x = <<d, i>>
        BY DEF Places, Elsewhere
      <3>2. PICK i \in DOMAIN px[d] : x = <<d, i>>
        BY <3>1
      <3>3. d # c
        BY <3>2 DEF Elsewhere
      <3>4. DOMAIN px[d] = {}
        BY <3>3
      <3> QED BY <3>2, <3>4
    <2> QED BY <2>1
  <1>2. Cardinality(Elsewhere(px, c, p)) = 0
    BY <1>1, FS_EmptySet
  <1>3. InList(px[c], p) \in Nat /\ More(Occ(px, p), Cardinality(Elsewhere(px, c, p)), InList(px[c], p))
    BY OccParts
  <1> QED BY <1>2, <1>3 DEF More

\* A pixel that is on a list is there somewhere, and else nowhere.
LEMMA InListMeans ==
  ASSUME NEW l \in Lists, NEW p
  PROVE  /\ \A i \in DOMAIN l : l[i] = p => InList(l, p) >= 1
         /\ (\A i \in DOMAIN l : l[i] # p) => InList(l, p) = 0
  <1> DEFINE S == {j \in DOMAIN l : l[j] = p}
  <1>1. IsFiniteSet(S)
    <2>1. DOMAIN l = 1 .. Len(l) /\ Len(l) \in Nat
      BY DEF Lists
    <2>2. IsFiniteSet(DOMAIN l)
      BY <2>1, FS_Interval
    <2> QED BY <2>2, FS_Subset
  <1>2. Cardinality(S) \in Nat /\ (Cardinality(S) = 0 <=> S = {})
    BY <1>1, FS_CardinalityType, FS_EmptySet
  <1>3. InList(l, p) = Cardinality(S)
    BY DEF InList, Times_
  <1>4. ASSUME NEW i \in DOMAIN l, l[i] = p PROVE Cardinality(S) >= 1
    <2>1. S # {}
      BY <1>4
    <2> HIDE DEF S
    <2> QED BY <1>2, <2>1
  <1>5. ASSUME \A i \in DOMAIN l : l[i] # p PROVE Cardinality(S) = 0
    <2>1. S = {}
      BY <1>5
    <2> HIDE DEF S
    <2> QED BY <1>2, <2>1
  <1> HIDE DEF S
  <1> QED BY <1>3, <1>4, <1>5

-----------------------------------------------------------------------------
(* Colormaps, and cells of them.                                           *)

CellRec == [refcnt : Int, colour : Colours \cup {"none"}, shares : SUBSET (Nat \X Channels \X BOOLEAN)]
MapRec == [cells : [Pixels -> CellRec], free : Int, pixels : AllLists, all : BOOLEAN]

\* How many places of lists a cell stands for.
Counted(r) == IF r = AllocPrivate THEN 1 ELSE r

FreeSet(map) == {p \in Pixels : map.cells[p].refcnt = 0}
FreeRight(map) == map.free = Cardinality(FreeSet(map))

\* The counts of the cells are n, the free cells are counted right.
CountsAre(map, n) == \A p \in Pixels : Counted(map.cells[p].refcnt) = n[p]
InRange(map) == \A p \in Pixels : map.cells[p].refcnt \in -1 .. MaxRefs
Agree(map, n) == map \in MapRec /\ CountsAre(map, n) /\ InRange(map) /\ FreeRight(map)

SameCells(map, new, p) == \A q \in Pixels : q # p => new.cells[q] = map.cells[q]

LEMMA EmptyFields ==
  /\ EmptyCell \in CellRec /\ EmptyCell.refcnt = 0 /\ PrivateCell \in CellRec /\ PrivateCell.refcnt = -1
  BY DEF EmptyCell, PrivateCell, CellRec, AllocPrivate

LEMMA MapFields ==
  ASSUME NEW map \in MapRec
  PROVE  /\ map # NoMap
         /\ map.cells \in [Pixels -> CellRec] /\ map.free \in Int /\ map.pixels \in AllLists
         /\ \A p \in Pixels : map.cells[p] \in CellRec /\ map.cells[p].refcnt \in Int
         /\ \A c \in ColourClients : map.pixels[c] \in Lists
  <1>1. map # NoMap
    <2>1. DOMAIN map = {"cells", "free", "pixels", "all"}
      BY DEF MapRec
    <2>2. DOMAIN NoMap = {"all"}
      BY DEF NoMap
    <2>3. "free" \in {"cells", "free", "pixels", "all"} /\ "free" \notin {"all"}
      OBVIOUS
    <2> QED BY <2>1, <2>2, <2>3
  <1>2. map.cells \in [Pixels -> CellRec] /\ map.free \in Int /\ map.pixels \in AllLists
    BY DEF MapRec
  <1>3. \A p \in Pixels : map.cells[p] \in CellRec /\ map.cells[p].refcnt \in Int
    BY <1>2 DEF CellRec
  <1>4. \A c \in ColourClients : map.pixels[c] \in Lists
    BY <1>2 DEF AllLists
  <1> QED BY <1>1, <1>2, <1>3, <1>4

\* A cell is changed, and the count of free cells with it.
LEMMA FreeKept ==
  ASSUME NEW map \in MapRec, NEW new \in MapRec, NEW p \in Pixels, SameCells(map, new, p), FreeRight(map),
         Transferred(new.free, map.free, Is(map.cells[p].refcnt, 0), Is(new.cells[p].refcnt, 0))
  PROVE  FreeRight(new)
  <1> DEFINE A == FreeSet(map)
             B == FreeSet(new)
  <1>1. IsFiniteSet(A)
    <2>1. IsFiniteSet(Pixels)
      BY ColormapAssumption
    <2> QED BY <2>1, FS_Subset DEF FreeSet
  <1>2. SameBut(A, B, p)
    BY DEF SameBut, FreeSet, SameCells
  <1>3. (p \in A <=> map.cells[p].refcnt = 0) /\ (p \in B <=> new.cells[p].refcnt = 0)
    BY DEF FreeSet
  <1> HIDE DEF A, B
  <1>4. Cardinality(A) \in Nat /\ Cardinality(B) = Cardinality(A) - OneIf(p \in A) + OneIf(p \in B)
    BY <1>1, <1>2, OneMore
  <1>5. OneIf(p \in A) = Is(map.cells[p].refcnt, 0) /\ OneIf(p \in B) = Is(new.cells[p].refcnt, 0)
    BY <1>3 DEF OneIf, Is
  <1>6. map.free = Cardinality(A)
    BY DEF FreeRight, A
  <1>7. new.free = map.free - Is(map.cells[p].refcnt, 0) + Is(new.cells[p].refcnt, 0)
    BY DEF Transferred
  <1>8. new.free = Cardinality(B)
    BY <1>4, <1>5, <1>6, <1>7
  <1> QED BY <1>8 DEF FreeRight, B

\* A cell gets another value.
Set(map, p, cell, free) == [map EXCEPT !.cells[p] = cell, !.free = free]

LEMMA SetIsMap ==
  ASSUME NEW map \in MapRec, NEW p \in Pixels, NEW cell \in CellRec, NEW free \in Int
  PROVE  /\ Set(map, p, cell, free) \in MapRec
         /\ SameCells(map, Set(map, p, cell, free), p)
         /\ Set(map, p, cell, free).cells[p] = cell
         /\ Set(map, p, cell, free).free = free
         /\ Set(map, p, cell, free).pixels = map.pixels
         /\ Set(map, p, cell, free).all = map.all
  <1> USE DEF Set
  <1>1. map.cells \in [Pixels -> CellRec]
    BY DEF MapRec
  <1>2. [map.cells EXCEPT ![p] = cell] \in [Pixels -> CellRec]
    BY <1>1
  <1>3. Set(map, p, cell, free).cells = [map.cells EXCEPT ![p] = cell]
    BY DEF MapRec
  <1>4. Set(map, p, cell, free) \in MapRec
    BY <1>2 DEF MapRec
  <1>5. SameCells(map, Set(map, p, cell, free), p) /\ Set(map, p, cell, free).cells[p] = cell
    BY <1>1, <1>3 DEF SameCells
  <1>6. /\ Set(map, p, cell, free).free = free
        /\ Set(map, p, cell, free).pixels = map.pixels
        /\ Set(map, p, cell, free).all = map.all
    BY DEF MapRec
  <1> QED BY <1>4, <1>5, <1>6

WithRef(cell, r) == [cell EXCEPT !.refcnt = r]

LEMMA WithRefIsCell ==
  ASSUME NEW cell \in CellRec, NEW r \in Int
  PROVE  WithRef(cell, r) \in CellRec /\ WithRef(cell, r).refcnt = r
  BY DEF WithRef, CellRec

LEMMA FreeCellIs ==
  ASSUME NEW map \in MapRec, NEW p \in Pixels
  PROVE  FreeCell(map, p) = IF map.cells[p].refcnt > 1
                            THEN Set(map, p, WithRef(map.cells[p], map.cells[p].refcnt - 1), map.free)
                            ELSE Set(map, p, EmptyCell, map.free + 1)
  <1>1. CASE map.cells[p].refcnt > 1
    <2>1. [map EXCEPT !.cells[p].refcnt = @ - 1] = Set(map, p, WithRef(map.cells[p], map.cells[p].refcnt - 1), map.free)
      BY DEF Set, WithRef, MapRec
    <2> QED BY <1>1, <2>1 DEF FreeCell
  <1>2. CASE ~(map.cells[p].refcnt > 1)
    BY <1>2 DEF FreeCell, Set
  <1> QED BY <1>1, <1>2

-----------------------------------------------------------------------------
(* Freeing and taking a cell.                                              *)

FreedCell(map, new, p) ==
    /\ new \in MapRec /\ new.pixels = map.pixels /\ new.all = map.all /\ SameCells(map, new, p)
    /\ new.cells[p].refcnt = IF map.cells[p].refcnt > 1 THEN map.cells[p].refcnt - 1 ELSE 0

LEMMA FreeCellFreed ==
  ASSUME NEW map \in MapRec, NEW p \in Pixels
  PROVE  FreedCell(map, FreeCell(map, p), p)
  <1>1. map.cells[p] \in CellRec /\ map.cells[p].refcnt \in Int /\ map.free \in Int
    BY MapFields
  <1>2. PICK r \in Int : r = map.cells[p].refcnt
    BY <1>1
  <1>3. PICK new : new = FreeCell(map, p)
    OBVIOUS
  <1>4. CASE r > 1
    <2>1. PICK cell : cell = WithRef(map.cells[p], r - 1)
      OBVIOUS
    <2>2. cell \in CellRec /\ cell.refcnt = r - 1
      <3>1. r - 1 \in Int
        OBVIOUS
      <3> QED BY <1>1, <2>1, <3>1, WithRefIsCell
    <2>3. new = Set(map, p, cell, map.free)
      BY <1>2, <1>3, <1>4, <2>1, FreeCellIs
    <2>4. /\ new \in MapRec /\ SameCells(map, new, p) /\ new.cells[p] = cell
          /\ new.pixels = map.pixels /\ new.all = map.all
      BY <1>1, <2>2, <2>3, SetIsMap
    <2> QED BY <1>2, <1>3, <1>4, <2>2, <2>4 DEF FreedCell
  <1>5. CASE ~(r > 1)
    <2>1. EmptyCell \in CellRec /\ EmptyCell.refcnt = 0 /\ map.free + 1 \in Int
      BY <1>1, EmptyFields
    <2>2. new = Set(map, p, EmptyCell, map.free + 1)
      BY <1>2, <1>3, <1>5, FreeCellIs
    <2>3. /\ new \in MapRec /\ SameCells(map, new, p) /\ new.cells[p] = EmptyCell
          /\ new.pixels = map.pixels /\ new.all = map.all
      BY <2>1, <2>2, SetIsMap
    <2> QED BY <1>2, <1>3, <1>5, <2>1, <2>3 DEF FreedCell
  <1> QED BY <1>4, <1>5

LEMMA FreeCellCounts ==
  ASSUME NEW map \in MapRec, NEW p \in Pixels, map.cells[p].refcnt # 0, InRange(map), FreeRight(map)
  PROVE  FreeRight(FreeCell(map, p)) /\ InRange(FreeCell(map, p))
  <1>1. map.cells[p] \in CellRec /\ map.cells[p].refcnt \in Int /\ map.free \in Int
    BY MapFields
  <1>2. PICK r \in Int : r = map.cells[p].refcnt
    BY <1>1
  <1>3. PICK new : new = FreeCell(map, p)
    OBVIOUS
  <1>4. FreedCell(map, new, p)
    BY <1>3, FreeCellFreed
  <1>5. new \in MapRec /\ SameCells(map, new, p)
    BY <1>4 DEF FreedCell
  <1>6. new.cells[p].refcnt = IF r > 1 THEN r - 1 ELSE 0
    BY <1>2, <1>4 DEF FreedCell
  <1>7. new.free = IF r > 1 THEN map.free ELSE map.free + 1
    <2>1. CASE r > 1
      <3>1. new = Set(map, p, WithRef(map.cells[p], r - 1), map.free)
        BY <1>2, <1>3, <2>1, FreeCellIs
      <3> QED BY <2>1, <3>1 DEF Set, MapRec
    <2>2. CASE ~(r > 1)
      <3>1. new = Set(map, p, EmptyCell, map.free + 1)
        BY <1>2, <1>3, <2>2, FreeCellIs
      <3> QED BY <2>2, <3>1 DEF Set, MapRec
    <2> QED BY <2>1, <2>2
  <1>8. Is(r, 0) = 0
    BY <1>2 DEF Is
  <1>9. Transferred(new.free, map.free, Is(map.cells[p].refcnt, 0), Is(new.cells[p].refcnt, 0))
    <2>1. Is(new.cells[p].refcnt, 0) = IF r > 1 THEN 0 ELSE 1
      BY <1>6 DEF Is
    <2>2. Is(map.cells[p].refcnt, 0) = 0
      BY <1>2, <1>8
    <2> QED BY <1>1, <1>7, <2>1, <2>2 DEF Transferred
  <1>10. FreeRight(new)
    BY <1>5, <1>9, FreeKept
  <1>11. InRange(new)
    <2>1. r \in -1 .. MaxRefs
      BY <1>2 DEF InRange
    <2>2. MaxRefs \in Nat
      BY ColormapAssumption
    <2>3. new.cells[p].refcnt \in -1 .. MaxRefs
      BY <1>6, <2>1, <2>2
    <2>4. ASSUME NEW q \in Pixels PROVE new.cells[q].refcnt \in -1 .. MaxRefs
      <3>1. CASE q = p
        BY <2>3, <3>1
      <3>2. CASE q # p
        BY <1>5, <3>2 DEF SameCells, InRange
      <3> QED BY <3>1, <3>2
    <2> QED BY <2>4 DEF InRange
  <1> QED BY <1>3, <1>10, <1>11

\* One reference less to a pixel that has some.
Less(n, new, p) == \A q \in Pixels : n[q] \in Nat /\ new[q] \in Nat /\ More(n[q], new[q], Is(p, q))

LEMMA FreeCellAgrees ==
  ASSUME NEW map, NEW n, NEW m, NEW p \in Pixels, Agree(map, n), Less(n, m, p)
  PROVE  Agree(FreeCell(map, p), m) /\ FreedCell(map, FreeCell(map, p), p)
  <1>1. map \in MapRec /\ CountsAre(map, n) /\ InRange(map) /\ FreeRight(map)
    BY DEF Agree
  <1>2. PICK new : new = FreeCell(map, p)
    OBVIOUS
  <1>3. FreedCell(map, new, p)
    BY <1>1, <1>2, FreeCellFreed
  <1>4. PICK r \in Int : r = map.cells[p].refcnt
    BY <1>1, MapFields
  <1>5. n[p] \in Nat /\ m[p] \in Nat /\ n[p] = m[p] + 1
    <2>1. n[p] \in Nat /\ m[p] \in Nat /\ More(n[p], m[p], Is(p, p))
      BY DEF Less
    <2> QED BY <2>1 DEF More, Is
  <1>6. Counted(r) = n[p] /\ r \in -1 .. MaxRefs /\ MaxRefs \in Nat
    BY <1>1, <1>4, ColormapAssumption DEF CountsAre, InRange
  <1>7. r # 0 /\ Counted(IF r > 1 THEN r - 1 ELSE 0) = m[p]
    BY <1>5, <1>6 DEF Counted, AllocPrivate
  <1>8. FreeRight(new) /\ InRange(new)
    BY <1>1, <1>2, <1>4, <1>7, FreeCellCounts
  <1>9. CountsAre(new, m)
    <2>1. ASSUME NEW q \in Pixels PROVE Counted(new.cells[q].refcnt) = m[q]
      <3>1. CASE q = p
        BY <1>3, <1>4, <1>7, <3>1 DEF FreedCell
      <3>2. CASE q # p
        <4>1. new.cells[q] = map.cells[q]
          BY <1>3, <3>2 DEF FreedCell, SameCells
        <4>2. n[q] = m[q]
          <5>1. n[q] \in Nat /\ m[q] \in Nat /\ More(n[q], m[q], Is(p, q))
            BY DEF Less
          <5> QED BY <3>2, <5>1 DEF More, Is
        <4> QED BY <1>1, <4>1, <4>2 DEF CountsAre
      <3> QED BY <3>1, <3>2
    <2> QED BY <2>1 DEF CountsAre
  <1>10. new \in MapRec
    BY <1>3 DEF FreedCell
  <1> QED BY <1>2, <1>3, <1>8, <1>9, <1>10 DEF Agree

\* A free cell gets a value that counts one; or a read-only one counts one more.
LEMMA SetAgrees ==
  ASSUME NEW map, NEW n, NEW m, NEW p \in Pixels, Agree(map, n), Less(m, n, p),
         NEW cell \in CellRec, NEW free \in Int, cell.refcnt \in -1 .. MaxRefs, cell.refcnt # 0,
         \/ map.cells[p].refcnt = 0 /\ Counted(cell.refcnt) = 1 /\ free = map.free - 1
         \/ map.cells[p].refcnt > 0 /\ cell.refcnt = map.cells[p].refcnt + 1 /\ free = map.free
  PROVE  Agree(Set(map, p, cell, free), m)
  <1>1. map \in MapRec /\ CountsAre(map, n) /\ InRange(map) /\ FreeRight(map)
    BY DEF Agree
  <1>2. PICK new : new = Set(map, p, cell, free)
    OBVIOUS
  <1>3. new \in MapRec /\ SameCells(map, new, p) /\ new.cells[p] = cell /\ new.free = free
    BY <1>1, <1>2, SetIsMap
  <1>4. PICK r \in Int : r = map.cells[p].refcnt
    BY <1>1, MapFields
  <1>5. n[p] \in Nat /\ m[p] \in Nat /\ m[p] = n[p] + 1
    <2>1. n[p] \in Nat /\ m[p] \in Nat /\ More(m[p], n[p], Is(p, p))
      BY DEF Less
    <2> QED BY <2>1 DEF More, Is
  <1>6. Counted(r) = n[p] /\ r \in -1 .. MaxRefs /\ MaxRefs \in Nat /\ map.free \in Int
    BY <1>1, <1>4, ColormapAssumption, MapFields DEF CountsAre, InRange
  <1>7. cell.refcnt \in Int /\ Counted(cell.refcnt) = m[p]
    <2>1. cell.refcnt \in Int
      BY <1>6
    <2> QED BY <1>4, <1>5, <1>6, <2>1 DEF Counted, AllocPrivate
  <1>8. CountsAre(new, m)
    <2>1. ASSUME NEW q \in Pixels PROVE Counted(new.cells[q].refcnt) = m[q]
      <3>1. CASE q = p
        BY <1>3, <1>7, <3>1
      <3>2. CASE q # p
        <4>1. new.cells[q] = map.cells[q]
          BY <1>3, <3>2 DEF SameCells
        <4>2. n[q] = m[q]
          <5>1. n[q] \in Nat /\ m[q] \in Nat /\ More(m[q], n[q], Is(p, q))
            BY DEF Less
          <5> QED BY <3>2, <5>1 DEF More, Is
        <4> QED BY <1>1, <4>1, <4>2 DEF CountsAre
      <3> QED BY <3>1, <3>2
    <2> QED BY <2>1 DEF CountsAre
  <1>9. InRange(new)
    <2>1. ASSUME NEW q \in Pixels PROVE new.cells[q].refcnt \in -1 .. MaxRefs
      <3>1. CASE q = p
        BY <1>3, <3>1
      <3>2. CASE q # p
        BY <1>1, <1>3, <3>2 DEF SameCells, InRange
      <3> QED BY <3>1, <3>2
    <2> QED BY <2>1 DEF InRange
  <1>10. Transferred(new.free, map.free, Is(map.cells[p].refcnt, 0), Is(new.cells[p].refcnt, 0))
    <2>1. Is(new.cells[p].refcnt, 0) = 0
      BY <1>3 DEF Is
    <2>2. Is(map.cells[p].refcnt, 0) = IF r = 0 THEN 1 ELSE 0
      BY <1>4 DEF Is
    <2>3. free = IF r = 0 THEN map.free - 1 ELSE map.free
      BY <1>4, <1>6
    <2> QED BY <1>3, <1>6, <2>1, <2>2, <2>3 DEF Transferred
  <1>11. FreeRight(new)
    BY <1>1, <1>3, <1>10, FreeKept
  <1> QED BY <1>2, <1>3, <1>8, <1>9, <1>11 DEF Agree

-----------------------------------------------------------------------------
(* The operations on one map.                                              *)

OccOf(map) == [p \in Pixels |-> Occ(map.pixels, p)]
MapOK(map) == Agree(map, OccOf(map))

\* Only the list of c is another.
Touched(map, new, c) == /\ new.all = map.all
                        /\ \A d \in ColourClients : d # c => new.pixels[d] = map.pixels[d]

SetPixels(map, c, l) == [map EXCEPT !.pixels[c] = l]

LEMMA SetPixelsIs ==
  ASSUME NEW map \in MapRec, NEW c \in ColourClients, NEW l \in Lists
  PROVE  /\ SetPixels(map, c, l) \in MapRec /\ SetPixels(map, c, l).cells = map.cells
         /\ SetPixels(map, c, l).free = map.free
         /\ SetPixels(map, c, l).pixels = [map.pixels EXCEPT ![c] = l]
         /\ SetPixels(map, c, l).pixels[c] = l
         /\ Touched(map, SetPixels(map, c, l), c)
  <1>1. map.pixels \in AllLists
    BY MapFields
  <1>2. [map.pixels EXCEPT ![c] = l] \in AllLists
    BY <1>1 DEF AllLists
  <1>3. SetPixels(map, c, l).pixels = [map.pixels EXCEPT ![c] = l]
    BY DEF SetPixels, MapRec
  <1>4. /\ SetPixels(map, c, l).cells = map.cells /\ SetPixels(map, c, l).free = map.free
        /\ SetPixels(map, c, l).all = map.all
    BY DEF SetPixels, MapRec
  <1>5. SetPixels(map, c, l) \in MapRec
    BY <1>2 DEF SetPixels, MapRec
  <1>6. \A d \in ColourClients : d # c => SetPixels(map, c, l).pixels[d] = map.pixels[d]
    BY <1>1, <1>3 DEF AllLists
  <1>7. SetPixels(map, c, l).pixels[c] = l
    BY <1>1, <1>3 DEF AllLists
  <1> QED BY <1>3, <1>4, <1>5, <1>6, <1>7 DEF Touched

LEMMA SetPixelsAgrees ==
  ASSUME NEW map, NEW n, Agree(map, n), NEW c \in ColourClients, NEW l \in Lists
  PROVE  Agree(SetPixels(map, c, l), n)
  <1>1. map \in MapRec
    BY DEF Agree
  <1>2. PICK new : new = SetPixels(map, c, l)
    OBVIOUS
  <1>3. new \in MapRec /\ new.cells = map.cells /\ new.free = map.free
    <2>1. c \in ColourClients /\ l \in Lists
      OBVIOUS
    <2>2. SetPixels(map, c, l) \in MapRec
      <3>1. [map.pixels EXCEPT ![c] = l] \in AllLists
        BY <1>1, <2>1, MapFields DEF AllLists
      <3> QED BY <1>1, <3>1 DEF SetPixels, MapRec
    <2>3. SetPixels(map, c, l).cells = map.cells /\ SetPixels(map, c, l).free = map.free
      BY <1>1 DEF SetPixels, MapRec
    <2> QED BY <1>2, <2>2, <2>3
  <1>4. CountsAre(new, n) /\ InRange(new)
    BY <1>3 DEF Agree, CountsAre, InRange
  <1>5. FreeRight(new)
    BY <1>3 DEF Agree, FreeRight, FreeSet
  <1> QED BY <1>2, <1>3, <1>4, <1>5 DEF Agree

LEMMA TakeOK ==
  ASSUME NEW map, MapOK(map), NEW c \in ColourClients, NEW p \in Pixels, map.cells[p].refcnt = 0,
         NEW cell \in CellRec, cell.refcnt \in {1, -1}
  PROVE  /\ MapOK(Take(map, c, p, cell)) /\ Touched(map, Take(map, c, p, cell), c)
         /\ SameCells(map, Take(map, c, p, cell), p)
         /\ Take(map, c, p, cell).pixels[c] = Append(map.pixels[c], p)
  <1>1. map \in MapRec /\ Agree(map, OccOf(map)) /\ map.free \in Int
    BY MapFields DEF MapOK, Agree
  <1>2. PICK l : l = Append(map.pixels[c], p)
    OBVIOUS
  <1>3. map.pixels \in AllLists /\ map.pixels[c] \in Lists /\ l \in Lists
    <2>1. map.pixels \in AllLists /\ map.pixels[c] \in Lists
      BY <1>1, MapFields
    <2> QED BY <1>2, <2>1, Appended
  <1>4. PICK one : one = Set(map, p, cell, map.free - 1)
    OBVIOUS
  <1>5. PICK new : new = Take(map, c, p, cell)
    OBVIOUS
  <1>6. new = SetPixels(one, c, l)
    BY <1>1, <1>2, <1>4, <1>5 DEF Take, Set, SetPixels, MapRec
  <1>7. PICK n : n = OccOf(map)
    OBVIOUS
  <1>8. PICK m : m = [q \in Pixels |-> Occ([map.pixels EXCEPT ![c] = l], q)]
    OBVIOUS
  <1>9. Less(m, n, p)
    <2>1. ASSUME NEW q \in Pixels PROVE m[q] \in Nat /\ n[q] \in Nat /\ More(m[q], n[q], Is(p, q))
      <3>1. m[q] = Occ([map.pixels EXCEPT ![c] = l], q) /\ n[q] = Occ(map.pixels, q)
        BY <1>7, <1>8 DEF OccOf
      <3>2. PICK x : x = InList(map.pixels[c], q)
        OBVIOUS
      <3>3. PICK y : y = InList(l, q)
        OBVIOUS
      <3>4. m[q] \in Nat /\ n[q] \in Nat /\ x \in Nat /\ y \in Nat /\ Transferred(m[q], n[q], x, y)
        BY <1>3, <3>1, <3>2, <3>3, OccChanged, Zenon
      <3>5. More(y, x, Is(p, q))
        BY <1>2, <1>3, <3>2, <3>3, Appended, Zenon
      <3>6. Is(p, q) \in Nat
        BY DEF Is
      <3> QED BY <3>4, <3>5, <3>6 DEF Transferred, More
    <2> QED BY <2>1 DEF Less
  <1>10. cell.refcnt \in -1 .. MaxRefs /\ cell.refcnt # 0 /\ Counted(cell.refcnt) = 1 /\ map.free - 1 \in Int
    <2>1. MaxRefs \in Nat \ {0}
      BY ColormapAssumption
    <2>2. map.free - 1 \in Int
      BY <1>1
    <2>3. cell.refcnt = 1 \/ cell.refcnt = -1
      OBVIOUS
    <2> QED BY <2>1, <2>2, <2>3 DEF Counted, AllocPrivate
  <1>11. Agree(one, m)
    BY <1>1, <1>4, <1>7, <1>9, <1>10, SetAgrees
  <1>12. one \in MapRec /\ one.pixels = map.pixels /\ one.all = map.all /\ SameCells(map, one, p)
    BY <1>1, <1>4, <1>10, SetIsMap
  <1>13. Agree(new, m)
    BY <1>3, <1>6, <1>11, SetPixelsAgrees
  <1>14. /\ new.pixels = [map.pixels EXCEPT ![c] = l] /\ new.pixels[c] = l /\ Touched(map, new, c)
         /\ new.cells = one.cells
    BY <1>3, <1>6, <1>12, SetPixelsIs DEF Touched
  <1>15. OccOf(new) = m
    BY <1>8, <1>14 DEF OccOf
  <1>16. MapOK(new)
    BY <1>13, <1>15 DEF MapOK
  <1>17. SameCells(map, new, p)
    BY <1>12, <1>14 DEF SameCells
  <1> QED BY <1>2, <1>5, <1>14, <1>16, <1>17

LEMMA TakeAgainOK ==
  ASSUME NEW map, MapOK(map), NEW c \in ColourClients, NEW p \in Pixels,
         map.cells[p].refcnt > 0, map.cells[p].refcnt < MaxRefs
  PROVE  /\ MapOK(TakeAgain(map, c, p)) /\ Touched(map, TakeAgain(map, c, p), c)
         /\ TakeAgain(map, c, p).pixels[c] = Append(map.pixels[c], p)
  <1>1. map \in MapRec /\ Agree(map, OccOf(map)) /\ map.free \in Int
    BY MapFields DEF MapOK, Agree
  <1>2. PICK l : l = Append(map.pixels[c], p)
    OBVIOUS
  <1>3. map.pixels \in AllLists /\ map.pixels[c] \in Lists /\ l \in Lists
    <2>1. map.pixels \in AllLists /\ map.pixels[c] \in Lists
      BY <1>1, MapFields
    <2> QED BY <1>2, <2>1, Appended
  <1>4. map.cells[p] \in CellRec /\ map.cells[p].refcnt \in Int
    BY <1>1, MapFields
  <1>5. PICK cell : cell = WithRef(map.cells[p], map.cells[p].refcnt + 1)
    OBVIOUS
  <1>6. cell \in CellRec /\ cell.refcnt = map.cells[p].refcnt + 1
    <2>1. map.cells[p].refcnt + 1 \in Int
      BY <1>4
    <2> QED BY <1>4, <1>5, <2>1, WithRefIsCell
  <1>7. PICK one : one = Set(map, p, cell, map.free)
    OBVIOUS
  <1>8. PICK new : new = TakeAgain(map, c, p)
    OBVIOUS
  <1>9. new = SetPixels(one, c, l)
    BY <1>1, <1>2, <1>5, <1>7, <1>8 DEF TakeAgain, Set, SetPixels, WithRef, MapRec
  <1>10. PICK n : n = OccOf(map)
    OBVIOUS
  <1>11. PICK m : m = [q \in Pixels |-> Occ([map.pixels EXCEPT ![c] = l], q)]
    OBVIOUS
  <1>12. Less(m, n, p)
    <2>1. ASSUME NEW q \in Pixels PROVE m[q] \in Nat /\ n[q] \in Nat /\ More(m[q], n[q], Is(p, q))
      <3>1. m[q] = Occ([map.pixels EXCEPT ![c] = l], q) /\ n[q] = Occ(map.pixels, q)
        BY <1>10, <1>11 DEF OccOf
      <3>2. PICK x : x = InList(map.pixels[c], q)
        OBVIOUS
      <3>3. PICK y : y = InList(l, q)
        OBVIOUS
      <3>4. m[q] \in Nat /\ n[q] \in Nat /\ x \in Nat /\ y \in Nat /\ Transferred(m[q], n[q], x, y)
        BY <1>3, <3>1, <3>2, <3>3, OccChanged, Zenon
      <3>5. More(y, x, Is(p, q))
        BY <1>2, <1>3, <3>2, <3>3, Appended, Zenon
      <3>6. Is(p, q) \in Nat
        BY DEF Is
      <3> QED BY <3>4, <3>5, <3>6 DEF Transferred, More
    <2> QED BY <2>1 DEF Less
  <1>13. cell.refcnt \in -1 .. MaxRefs /\ cell.refcnt # 0
    <2>1. MaxRefs \in Nat \ {0}
      BY ColormapAssumption
    <2> QED BY <1>4, <1>6, <2>1
  <1>14. Agree(one, m)
    BY <1>1, <1>6, <1>7, <1>10, <1>12, <1>13, SetAgrees
  <1>15. one \in MapRec /\ one.pixels = map.pixels /\ one.all = map.all
    BY <1>1, <1>6, <1>7, SetIsMap
  <1>16. Agree(new, m)
    BY <1>3, <1>9, <1>14, SetPixelsAgrees
  <1>17. new.pixels = [map.pixels EXCEPT ![c] = l] /\ new.pixels[c] = l /\ Touched(map, new, c)
    BY <1>3, <1>9, <1>15, SetPixelsIs DEF Touched
  <1>18. OccOf(new) = m
    BY <1>11, <1>17 DEF OccOf
  <1>19. MapOK(new)
    BY <1>16, <1>18 DEF MapOK
  <1> QED BY <1>2, <1>8, <1>17, <1>19

LEMMA FreePixelOK ==
  ASSUME NEW map, MapOK(map), NEW c \in ColourClients, NEW p
  PROVE  /\ MapOK(FreePixel(map, c, p)) /\ Touched(map, FreePixel(map, c, p), c)
         /\ FreePixel(map, c, p).pixels[c] # <<>> => map.pixels[c] # <<>>
  <1>1. map \in MapRec /\ Agree(map, OccOf(map))
    BY DEF MapOK, Agree
  <1> DEFINE at == {i \in DOMAIN map.pixels[c] : map.pixels[c][i] = p}
  <1>2. CASE at = {}
    BY <1>2 DEF FreePixel, Touched
  <1>3. CASE at # {}
    <2>1. map.pixels \in AllLists /\ map.pixels[c] \in Lists
      BY <1>1, MapFields
    <2>2. PICK l0 : l0 = map.pixels[c]
      OBVIOUS
    <2>3. l0 \in Lists /\ DOMAIN l0 = 1 .. Len(l0) /\ Len(l0) \in Nat /\ \A i \in DOMAIN l0 : l0[i] \in Pixels
      BY <2>1, <2>2 DEF Lists
    <2>4. PICK k : k = Min(at)
      OBVIOUS
    <2>5. k \in at
      <3>1. at \in SUBSET Nat
        BY <2>2, <2>3
      <3>2. \E x \in at : \A y \in at : x <= y
        <4> HIDE DEF at
        <4> QED BY <1>3, <3>1, LeastOf
      <3> HIDE DEF at
      <3> QED BY <2>4, <3>2 DEF Min
    <2>6. k \in 1 .. Len(l0) /\ l0[k] = p /\ p \in Pixels /\ l0 # <<>>
      BY <2>2, <2>3, <2>5
    <2>7. PICK l : l = RemoveAt(l0, k)
      OBVIOUS
    <2>8. PICK one : one = FreeCell(map, p)
      OBVIOUS
    <2>9. PICK new : new = FreePixel(map, c, p)
      OBVIOUS
    <2>10. FreedCell(map, one, p)
      BY <1>1, <2>6, <2>8, FreeCellFreed
    <2>11. one \in MapRec /\ one.pixels = map.pixels /\ one.all = map.all
      BY <2>10 DEF FreedCell
    <2>12. new = SetPixels(one, c, l)
      <3>1. new = [one EXCEPT !.pixels[c] = RemoveAt(@, k)]
        BY <1>3, <2>4, <2>8, <2>9 DEF FreePixel
      <3> QED BY <2>2, <2>7, <2>11, <3>1 DEF SetPixels
    <2>13. l \in Lists
      BY <2>3, <2>6, <2>7, RemovedFrom
    <2>14. PICK n : n = OccOf(map)
      OBVIOUS
    <2>15. PICK m : m = [q \in Pixels |-> Occ([map.pixels EXCEPT ![c] = l], q)]
      OBVIOUS
    <2>16. Less(n, m, p)
      <3>1. ASSUME NEW q \in Pixels PROVE n[q] \in Nat /\ m[q] \in Nat /\ More(n[q], m[q], Is(p, q))
        <4>1. m[q] = Occ([map.pixels EXCEPT ![c] = l], q) /\ n[q] = Occ(map.pixels, q)
          BY <2>14, <2>15 DEF OccOf
        <4>2. PICK x : x = InList(l0, q)
          OBVIOUS
        <4>3. PICK y : y = InList(l, q)
          OBVIOUS
        <4>4. m[q] \in Nat /\ n[q] \in Nat /\ x \in Nat /\ y \in Nat /\ Transferred(m[q], n[q], x, y)
          BY <2>1, <2>2, <2>13, <4>1, <4>2, <4>3, OccChanged, Zenon
        <4>5. More(x, y, Is(p, q))
          BY <2>3, <2>6, <2>7, <4>2, <4>3, RemovedFrom, Zenon
        <4>6. Is(p, q) \in Nat
          BY DEF Is
        <4> QED BY <4>4, <4>5, <4>6 DEF Transferred, More
      <3> QED BY <3>1 DEF Less
    <2>17. Agree(one, m)
      BY <1>1, <2>6, <2>8, <2>14, <2>16, FreeCellAgrees
    <2>18. Agree(new, m)
      BY <2>12, <2>13, <2>17, SetPixelsAgrees
    <2>19. new.pixels = [map.pixels EXCEPT ![c] = l] /\ Touched(map, new, c)
      BY <2>11, <2>12, <2>13, SetPixelsIs DEF Touched
    <2>20. OccOf(new) = m
      BY <2>15, <2>19 DEF OccOf
    <2>21. MapOK(new)
      BY <2>18, <2>20 DEF MapOK
    <2> QED BY <2>2, <2>6, <2>9, <2>19, <2>21
  <1> QED BY <1>2, <1>3

-----------------------------------------------------------------------------
(* Freeing all pixels of a client.                                         *)

LEMMA FreePixelsRuns ==
  ASSUME NEW map \in MapRec, NEW c \in ColourClients, NEW l \in Lists, l = map.pixels[c]
  PROVE  \E f : /\ f \in [0 .. Len(l) -> MapRec] /\ f[0] = SetPixels(map, c, <<>>)
                /\ \A i \in 0 .. Len(l) - 1 : f[i + 1] = FreeCell(f[i], l[i + 1])
                /\ FreePixels(map, c) = f[Len(l)]
  <1> DEFINE n == Len(map.pixels[c])
             x0 == [map EXCEPT !.pixels[c] = <<>>]
             U(w, i) == FreeCell(w, map.pixels[c][i])
             F == [x \in MapRec \X (1 .. n) |-> U(x[1], x[2])]
             Body(g) == [i \in 0 .. Len(map.pixels[c]) |->
                            IF i = 0 THEN [map EXCEPT !.pixels[c] = <<>>] ELSE FreeCell(g[i - 1], map.pixels[c][i])]
             f == CHOOSE g : g = Body(g)
  <1>1. FreePixels(map, c) = f[Len(map.pixels[c])]
    BY DEF FreePixels
  <1>2. n \in Nat /\ \A i \in 1 .. n : map.pixels[c][i] \in Pixels
    BY DEF Lists
  <1>3. x0 \in MapRec /\ x0 = SetPixels(map, c, <<>>)
    <2>1. <<>> \in Lists
      BY DEF Lists
    <2>2. [map.pixels EXCEPT ![c] = <<>>] \in AllLists
      BY <2>1, MapFields DEF AllLists
    <2> QED BY <2>2 DEF SetPixels, MapRec
  <1>4. \E g : g = Body(g)
    <2>1. ASSUME NEW w \in MapRec, NEW i \in 1 .. n PROVE U(w, i) \in MapRec
      BY <1>2, FreeCellFreed DEF FreedCell
    <2>2. F \in [MapRec \X (1 .. n) -> MapRec]
      <3>1. ASSUME NEW p \in MapRec \X (1 .. n) PROVE U(p[1], p[2]) \in MapRec
        <4>1. p[1] \in MapRec /\ p[2] \in 1 .. n
          OBVIOUS
        <4> HIDE DEF U
        <4> QED BY <2>1, <4>1
      <3> HIDE DEF U
      <3> QED BY <3>1
    <2> HIDE DEF F, n, U, x0
    <2>3. PICK g : Recursive(g, MapRec, n, x0, F)
      BY <1>2, <1>3, <2>2, RecursionExists
    <2>4. g \in [0 .. n -> MapRec] /\ g[0] = x0 /\ \A i \in 1 .. n : g[i] = F[<<g[i - 1], i>>]
      BY <2>3 DEF Recursive
    <2>5. ASSUME NEW i \in 1 .. n PROVE g[i] = U(g[i - 1], i)
      <3>1. i - 1 \in 0 .. n
        BY <1>2
      <3>2. <<g[i - 1], i>> \in MapRec \X (1 .. n)
        BY <2>4, <3>1
      <3>3. F[<<g[i - 1], i>>] = U(g[i - 1], i)
        BY <3>2 DEF F
      <3> QED BY <2>4, <3>3
    <2>6. \A i \in 0 .. n : i = 0 \/ i \in 1 .. n
      BY <1>2
    <2>7. \A i \in 0 .. Len(map.pixels[c]) :
             g[i] = IF i = 0 THEN [map EXCEPT !.pixels[c] = <<>>] ELSE FreeCell(g[i - 1], map.pixels[c][i])
      BY <2>4, <2>5, <2>6, Zenon DEF U, n, x0
    <2>8. g = [i \in 0 .. Len(map.pixels[c]) |-> g[i]]
      BY <2>4 DEF n
    <2>9. g = Body(g)
      BY <2>7, <2>8, Zenon
    <2> QED BY <2>9
  <1>5. f = Body(f)
    <2> HIDE DEF Body
    <2> QED BY <1>4
  <1> HIDE DEF f
  <1>6. f[0] = SetPixels(map, c, <<>>)
    <2>1. 0 \in 0 .. Len(map.pixels[c])
      BY <1>2
    <2>2. f[0] = x0
      BY <1>5, <2>1, Zenon
    <2> HIDE DEF x0
    <2> QED BY <1>3, <2>2
  <1>7. ASSUME NEW i \in 0 .. n - 1 PROVE f[i + 1] = FreeCell(f[i], l[i + 1])
    <2>1. i + 1 \in 0 .. Len(map.pixels[c]) /\ i + 1 # 0 /\ (i + 1) - 1 = i
      BY <1>2
    <2>2. PICK j : j = i + 1
      OBVIOUS
    <2>3. f[j] = FreeCell(f[j - 1], map.pixels[c][j])
      BY <1>5, <2>1, <2>2, Zenon
    <2> QED BY <2>1, <2>2, <2>3
  <1> DEFINE S == {i \in 0 .. n : f[i] \in MapRec}
  <1>8. \A i \in 0 .. n : i \in S
    <2>1. 0 \in S
      <3>1. 0 \in 0 .. n
        BY <1>2
      <3> HIDE DEF n, x0
      <3> QED BY <1>3, <1>6, <3>1
    <2>2. ASSUME NEW i \in 0 .. n - 1, i \in S PROVE i + 1 \in S
      <3>1. i + 1 \in 0 .. n /\ l[i + 1] \in Pixels /\ i \in 0 .. n
        BY <1>2
      <3>2. f[i] \in MapRec
        BY <2>2
      <3>3. FreeCell(f[i], l[i + 1]) \in MapRec
        BY <3>1, <3>2, FreeCellFreed DEF FreedCell
      <3>4. f[i + 1] \in MapRec
        BY <1>7, <3>3
      <3> HIDE DEF n
      <3> QED BY <3>1, <3>4
    <2> HIDE DEF S, n
    <2> QED BY <1>2, <2>1, <2>2, SetInduction
  <1>9. f \in [0 .. n -> MapRec]
    <2>1. \A i \in 0 .. n : f[i] \in MapRec
      BY <1>8
    <2>2. f = [i \in 0 .. n |-> f[i]]
      <3> DEFINE B(g) == [i \in 0 .. n |-> IF i = 0 THEN [map EXCEPT !.pixels[c] = <<>>] ELSE FreeCell(g[i - 1], map.pixels[c][i])]
      <3>1. f = B(f)
        BY <1>5
      <3> QED BY <3>1
    <2> HIDE DEF n
    <2> QED BY <2>1, <2>2
  <1>10. n = Len(l)
    OBVIOUS
  <1> HIDE DEF n
  <1>11. \A i \in 0 .. Len(l) - 1 : f[i + 1] = FreeCell(f[i], l[i + 1])
    BY <1>7, <1>10
  <1>12. FreePixels(map, c) = f[Len(l)]
    BY <1>1
  <1> QED BY <1>6, <1>9, <1>10, <1>11, <1>12

\* What of a list is left after i steps.
Rest(m, l, i) == [p \in Pixels |-> m[p] + Times_(l, i + 1 .. Len(l), p)]

LEMMA RestStep ==
  ASSUME NEW m, \A p \in Pixels : m[p] \in Nat, NEW l \in Lists, NEW i \in 0 .. Len(l) - 1
  PROVE  Less(Rest(m, l, i), Rest(m, l, i + 1), l[i + 1])
  <1>1. Len(l) \in Nat /\ i \in 0 .. Len(l) /\ i + 1 \in 0 .. Len(l) /\ i + 1 + 1 = i + 2
    BY DEF Lists
  <1>2. ASSUME NEW q \in Pixels
        PROVE  /\ Rest(m, l, i)[q] \in Nat /\ Rest(m, l, i + 1)[q] \in Nat
               /\ More(Rest(m, l, i)[q], Rest(m, l, i + 1)[q], Is(l[i + 1], q))
    <2>1. PICK x : x = Times_(l, i + 1 .. Len(l), q)
      OBVIOUS
    <2>2. PICK y : y = Times_(l, i + 2 .. Len(l), q)
      OBVIOUS
    <2>3. x \in Nat
      BY <1>1, <2>1, ListNumbers, Zenon
    <2>4. y \in Nat
      <3>1. Times_(l, i + 1 + 1 .. Len(l), q) \in Nat
        BY <1>1, ListNumbers, Zenon
      <3> QED BY <1>1, <2>2, <3>1
    <2>5. More(x, y, Is(l[i + 1], q))
      BY <2>1, <2>2, ListStep, Zenon
    <2>6. Rest(m, l, i)[q] = m[q] + x /\ Rest(m, l, i + 1)[q] = m[q] + y
      BY <1>1, <2>1, <2>2 DEF Rest
    <2>7. Is(l[i + 1], q) \in Nat /\ m[q] \in Nat
      BY DEF Is
    <2> QED BY <2>3, <2>4, <2>5, <2>6, <2>7 DEF More
  <1> QED BY <1>2 DEF Less

\* A client's list is emptied: what the cells stand for before, and after all
\* of it is freed.
LEMMA RestOfList ==
  ASSUME NEW map \in MapRec, NEW c \in ColourClients, NEW l \in Lists, l = map.pixels[c],
         NEW m, m = [p \in Pixels |-> Occ([map.pixels EXCEPT ![c] = <<>>], p)]
  PROVE  /\ \A p \in Pixels : m[p] \in Nat
         /\ OccOf(map) = Rest(m, l, 0)
         /\ m = Rest(m, l, Len(l))
  <1>1. map.pixels \in AllLists /\ <<>> \in Lists
    BY MapFields DEF Lists
  <1>2. ASSUME NEW p \in Pixels PROVE m[p] \in Nat
    <2>1. Occ([map.pixels EXCEPT ![c] = <<>>], p) \in Nat
      BY <1>1, OccChanged, Zenon
    <2> QED BY <2>1
  <1>3. OccOf(map) = Rest(m, l, 0)
    <2>1. ASSUME NEW p \in Pixels PROVE Occ(map.pixels, p) = m[p] + Times_(l, 0 + 1 .. Len(l), p)
      <3>1. PICK x : x = InList(l, p)
        OBVIOUS
      <3>2. PICK y : y = InList(<<>>, p)
        OBVIOUS
      <3>3. PICK o : o = Occ(map.pixels, p)
        OBVIOUS
      <3>4. x \in Nat /\ y \in Nat /\ o \in Nat /\ Transferred(m[p], o, x, y)
        <4>1. m[p] = Occ([map.pixels EXCEPT ![c] = <<>>], p)
          OBVIOUS
        <4> QED BY <1>1, <3>1, <3>2, <3>3, <4>1, OccChanged, Zenon
      <3>5. y = 0 /\ x = Times_(l, 1 .. Len(l), p)
        BY <1>1, <3>1, <3>2, ListNumbers, Zenon
      <3>6. 0 + 1 = 1
        OBVIOUS
      <3>7. o = m[p] + x
        BY <1>2, <3>4, <3>5 DEF Transferred
      <3> QED BY <3>3, <3>5, <3>6, <3>7
    <2> QED BY <2>1 DEF OccOf, Rest
  <1>4. m = Rest(m, l, Len(l))
    <2>1. ASSUME NEW p \in Pixels PROVE m[p] + Times_(l, Len(l) + 1 .. Len(l), p) = m[p]
      <3>1. Times_(l, Len(l) + 1 .. Len(l), p) = 0
        BY ListNumbers, Zenon
      <3> QED BY <1>2, <3>1
    <2>2. PICK r : r = [p \in Pixels |-> m[p] + Times_(l, Len(l) + 1 .. Len(l), p)]
      OBVIOUS
    <2>3. \A p \in Pixels : r[p] = m[p]
      BY <2>1, <2>2
    <2>4. r = [p \in Pixels |-> r[p]] /\ m = [p \in Pixels |-> m[p]]
      BY <2>2
    <2>5. r = m
      BY <2>3, <2>4
    <2> QED BY <2>2, <2>5 DEF Rest
  <1> QED BY <1>2, <1>3, <1>4

LEMMA FreePixelsOK ==
  ASSUME NEW map, MapOK(map), NEW c \in ColourClients
  PROVE  /\ MapOK(FreePixels(map, c)) /\ Touched(map, FreePixels(map, c), c)
         /\ FreePixels(map, c).pixels[c] = <<>>
  <1>1. map \in MapRec /\ Agree(map, OccOf(map))
    BY DEF MapOK, Agree
  <1>2. PICK l : l = map.pixels[c]
    OBVIOUS
  <1>3. map.pixels \in AllLists /\ l \in Lists /\ <<>> \in Lists
    <2>1. map.pixels \in AllLists /\ map.pixels[c] \in Lists
      BY <1>1, MapFields
    <2> QED BY <1>2, <2>1 DEF Lists
  <1>4. Len(l) \in Nat /\ \A i \in 1 .. Len(l) : l[i] \in Pixels
    BY <1>3 DEF Lists
  <1>5. PICK f : /\ f \in [0 .. Len(l) -> MapRec] /\ f[0] = SetPixels(map, c, <<>>)
                 /\ \A i \in 0 .. Len(l) - 1 : f[i + 1] = FreeCell(f[i], l[i + 1])
                 /\ FreePixels(map, c) = f[Len(l)]
    BY <1>1, <1>2, <1>3, FreePixelsRuns
  <1>6. PICK px : px = [map.pixels EXCEPT ![c] = <<>>]
    OBVIOUS
  <1>7. PICK m : m = [p \in Pixels |-> Occ(px, p)]
    OBVIOUS
  <1>8. (\A p \in Pixels : m[p] \in Nat) /\ OccOf(map) = Rest(m, l, 0) /\ m = Rest(m, l, Len(l))
    <2>1. m = [p \in Pixels |-> Occ([map.pixels EXCEPT ![c] = <<>>], p)]
      BY <1>6, <1>7
    <2> QED BY <1>1, <1>2, <1>3, <2>1, RestOfList, Zenon
  <1>9. PICK k \in Nat : k = Len(l)
    BY <1>4
  <1> DEFINE S == {i \in 0 .. k : Agree(f[i], Rest(m, l, i)) /\ f[i].pixels = px /\ f[i].all = map.all}
  <1>10. 0 \in S
    <2>2. Agree(f[0], Rest(m, l, 0))
      BY <1>1, <1>3, <1>5, <1>8, SetPixelsAgrees
    <2>3. f[0].pixels = px /\ f[0].all = map.all
      BY <1>1, <1>5, <1>6 DEF SetPixels, MapRec
    <2>4. 0 \in 0 .. k
      OBVIOUS
    <2> QED BY <2>2, <2>3, <2>4
  <1>11. ASSUME NEW i \in 0 .. k - 1, i \in S PROVE i + 1 \in S
    <2>1. Agree(f[i], Rest(m, l, i)) /\ f[i].pixels = px /\ f[i].all = map.all
      BY <1>11
    <2>2. i \in 0 .. Len(l) - 1 /\ l[i + 1] \in Pixels /\ i + 1 \in 0 .. k
      BY <1>4, <1>9
    <2>3. Less(Rest(m, l, i), Rest(m, l, i + 1), l[i + 1])
      BY <1>3, <1>8, <2>2, RestStep
    <2>4. f[i + 1] = FreeCell(f[i], l[i + 1])
      BY <1>5, <2>2
    <2>5. Agree(f[i + 1], Rest(m, l, i + 1)) /\ FreedCell(f[i], f[i + 1], l[i + 1])
      BY <2>1, <2>2, <2>3, <2>4, FreeCellAgrees
    <2>6. f[i + 1].pixels = px /\ f[i + 1].all = map.all
      BY <2>1, <2>5 DEF FreedCell
    <2> QED BY <2>2, <2>5, <2>6
  <1> HIDE DEF S
  <1>12. k \in S
    <2>1. \A i \in 0 .. k : i \in S
      BY <1>10, <1>11, SetInduction
    <2> QED BY <2>1
  <1>13. PICK new : new = f[k]
    OBVIOUS
  <1>14. Agree(new, Rest(m, l, k)) /\ new.pixels = px /\ new.all = map.all
    BY <1>12, <1>13 DEF S
  <1>15. Rest(m, l, k) = OccOf(new)
    BY <1>7, <1>8, <1>9, <1>14 DEF OccOf
  <1>16. MapOK(new)
    BY <1>14, <1>15 DEF MapOK
  <1>17. new = FreePixels(map, c)
    BY <1>5, <1>9, <1>13
  <1>18. new.pixels[c] = <<>> /\ Touched(map, new, c)
    BY <1>3, <1>6, <1>14 DEF AllLists, Touched
  <1> QED BY <1>16, <1>17, <1>18

-----------------------------------------------------------------------------
(* New colormaps.                                                          *)

LEMMA AllPixelsListed ==
  /\ SetToSeq(Pixels) \in Lists
  /\ \A p \in Pixels : InList(SetToSeq(Pixels), p) = 1
  <1>1. PICK k : k = Cardinality(Pixels)
    OBVIOUS
  <1>2. k \in Nat /\ IsFiniteSet(Pixels) /\ ExistsBijection(1 .. k, Pixels)
    BY <1>1, ColormapAssumption, FS_CardinalityType
  <1>3. \E f \in [1 .. k -> Pixels] : IsInjective(f)
    <2>1. PICK f : f \in Bijection(1 .. k, Pixels)
      BY <1>2 DEF ExistsBijection
    <2>2. f \in [1 .. k -> Pixels] /\ IsInjective(f)
      BY <2>1 DEF Bijection, Injection
    <2> QED BY <2>2
  <1>4. PICK l : l = SetToSeq(Pixels)
    OBVIOUS
  <1>5. l \in [1 .. k -> Pixels] /\ IsInjective(l)
    BY <1>1, <1>3, <1>4 DEF SetToSeq
  <1>6. l \in Lists /\ DOMAIN l = 1 .. k
    BY <1>2, <1>5 DEF Lists
  <1>7. l \in Injection(1 .. k, Pixels)
    BY <1>5 DEF Injection
  <1>8. Cardinality(1 .. k) = k
    BY <1>2, FS_Interval
  <1>9. l \in Surjection(1 .. k, Pixels)
    BY <1>1, <1>2, <1>7, <1>8, FS_Injection
  <1>10. ASSUME NEW p \in Pixels PROVE InList(l, p) = 1
    <2>1. PICK i \in 1 .. k : l[i] = p
      BY <1>9 DEF Surjection
    <2>2. \A j \in 1 .. k : l[j] = p => j = i
      BY <1>5, <2>1 DEF IsInjective
    <2>3. {j \in DOMAIN l : l[j] = p} = {i}
      BY <1>6, <2>1, <2>2
    <2>4. Cardinality({i}) = 1
      BY FS_Singleton
    <2> QED BY <2>3, <2>4 DEF InList, Times_
  <1> QED BY <1>4, <1>6, <1>10

\* The cells of a new map.
LEMMA NewCells ==
  /\ [p \in Pixels |-> EmptyCell] \in [Pixels -> CellRec]
  /\ [p \in Pixels |-> PrivateCell] \in [Pixels -> CellRec]
  BY EmptyFields

NewFree == [cells |-> [p \in Pixels |-> EmptyCell], free |-> Cardinality(Pixels),
            pixels |-> [d \in ColourClients |-> <<>>], all |-> FALSE]
NewAll(c) == [cells |-> [p \in Pixels |-> PrivateCell], free |-> 0,
              pixels |-> [d \in ColourClients |-> IF d = c THEN SetToSeq(Pixels) ELSE <<>>], all |-> TRUE]

LEMMA NewMapIs ==
  \A c : NewMap(c, FALSE) = NewFree /\ NewMap(c, TRUE) = NewAll(c)
  BY DEF NewMap, NewFree, NewAll

LEMMA NewFreeOK ==
  /\ MapOK(NewFree) /\ \A d \in ColourClients : NewFree.pixels[d] = <<>>
  /\ \A p \in Pixels : NewFree.cells[p].refcnt = 0
  <1>1. PICK map : map = NewFree
    OBVIOUS
  <1>2. Cardinality(Pixels) \in Nat /\ <<>> \in Lists
    BY ColormapAssumption, FS_CardinalityType DEF Lists
  <1>3. /\ map.cells = [p \in Pixels |-> EmptyCell] /\ map.free = Cardinality(Pixels)
        /\ map.pixels = [d \in ColourClients |-> <<>>]
    BY <1>1 DEF NewFree
  <1>4. map.pixels \in AllLists
    BY <1>2, <1>3 DEF AllLists
  <1>5. map \in MapRec
    <2>1. [d \in ColourClients |-> <<>>] \in AllLists
      BY <1>2 DEF AllLists
    <2> QED BY <1>1, <1>2, <2>1, NewCells DEF NewFree, MapRec
  <1>6. \A p \in Pixels : map.cells[p].refcnt = 0
    BY <1>3, EmptyFields
  <1>7. ASSUME NEW p PROVE Occ(map.pixels, p) = 0
    <2>1. Places(map.pixels) = {}
      <3>1. ASSUME NEW x \in Places(map.pixels) PROVE FALSE
        <4>1. PICK d \in ColourClients : \E i \in DOMAIN map.pixels[d] : x = <<d, i>>
          BY DEF Places
        <4>2. DOMAIN map.pixels[d] = {}
          BY <1>3
        <4> QED BY <4>1, <4>2
      <3> QED BY <3>1
    <2>2. {x \in Places(map.pixels) : map.pixels[x[1]][x[2]] = p} = {}
      BY <2>1
    <2> QED BY <2>2, FS_EmptySet DEF Occ
  <1>8. CountsAre(map, OccOf(map))
    BY <1>6, <1>7 DEF CountsAre, OccOf, Counted, AllocPrivate
  <1>9. InRange(map)
    <2>1. MaxRefs \in Nat
      BY ColormapAssumption
    <2>2. 0 \in -1 .. MaxRefs
      BY <2>1
    <2> QED BY <1>6, <2>2 DEF InRange
  <1>10. FreeRight(map)
    <2>1. FreeSet(map) = Pixels
      BY <1>6 DEF FreeSet
    <2> QED BY <1>3, <2>1 DEF FreeRight
  <1>11. MapOK(map)
    BY <1>5, <1>8, <1>9, <1>10 DEF MapOK, Agree
  <1> QED BY <1>1, <1>3, <1>6, <1>11

LEMMA NewAllOK ==
  ASSUME NEW c \in ColourClients
  PROVE  MapOK(NewAll(c)) /\ \A d \in ColourClients : d # c => NewAll(c).pixels[d] = <<>>
  <1>1. PICK map : map = NewAll(c)
    OBVIOUS
  <1>2. <<>> \in Lists /\ SetToSeq(Pixels) \in Lists
    BY AllPixelsListed DEF Lists
  <1>3. /\ map.cells = [p \in Pixels |-> PrivateCell] /\ map.free = 0
        /\ map.pixels = [d \in ColourClients |-> IF d = c THEN SetToSeq(Pixels) ELSE <<>>]
    BY <1>1 DEF NewAll
  <1>4. map.pixels \in AllLists
    BY <1>2, <1>3 DEF AllLists
  <1>5. map \in MapRec
    <2>1. [d \in ColourClients |-> IF d = c THEN SetToSeq(Pixels) ELSE <<>>] \in AllLists
      BY <1>2 DEF AllLists
    <2> QED BY <1>1, <2>1, NewCells DEF NewAll, MapRec
  <1>6. \A p \in Pixels : map.cells[p].refcnt = -1
    BY <1>3, EmptyFields
  <1>7. /\ \A d \in ColourClients : d # c => map.pixels[d] = <<>>
        /\ map.pixels[c] = SetToSeq(Pixels)
    BY <1>3
  <1>8. ASSUME NEW p \in Pixels PROVE Occ(map.pixels, p) = 1
    <2>1. Occ(map.pixels, p) = InList(map.pixels[c], p)
      BY <1>4, <1>7, OccOfOnly
    <2> QED BY <1>7, <2>1, AllPixelsListed
  <1>9. CountsAre(map, OccOf(map))
    BY <1>6, <1>8 DEF CountsAre, OccOf, Counted, AllocPrivate
  <1>10. InRange(map)
    <2>1. MaxRefs \in Nat
      BY ColormapAssumption
    <2>2. -1 \in -1 .. MaxRefs
      BY <2>1
    <2> QED BY <1>6, <2>2 DEF InRange
  <1>11. FreeRight(map)
    <2>1. FreeSet(map) = {}
      BY <1>6 DEF FreeSet
    <2> QED BY <1>3, <2>1, FS_EmptySet DEF FreeRight
  <1>12. MapOK(map)
    BY <1>5, <1>9, <1>10, <1>11 DEF MapOK, Agree
  <1> QED BY <1>1, <1>7, <1>12

-----------------------------------------------------------------------------
(* Copying a map.                                                          *)

Pair == [map : MapRec, to : MapRec]

\* The cell of the new map, and its count of free cells.
CopyTo(s, p) ==
    LET from == s.map.cells[p]
    IN  IF s.to.cells[p].refcnt > 0 THEN Set(s.to, p, WithRef(s.to.cells[p], s.to.cells[p].refcnt + 1), s.to.free)
        ELSE Set(s.to, p, WithRef(from, IF from.refcnt > 0 THEN 1 ELSE from.refcnt), s.to.free - 1)

LEMMA CopyCellIs ==
  ASSUME NEW s \in Pair, NEW p \in Pixels
  PROVE  CopyCell(s, p) = [map |-> FreeCell(s.map, p), to |-> CopyTo(s, p)]
  <1>1. s.map \in MapRec /\ s.to \in MapRec
    BY DEF Pair
  <1>2. [s.to EXCEPT !.cells[p].refcnt = @ + 1]
        = Set(s.to, p, WithRef(s.to.cells[p], s.to.cells[p].refcnt + 1), s.to.free)
    BY <1>1 DEF Set, WithRef, MapRec
  <1>3. \A r : [s.to EXCEPT !.cells[p] = [s.map.cells[p] EXCEPT !.refcnt = r], !.free = @ - 1]
               = Set(s.to, p, WithRef(s.map.cells[p], r), s.to.free - 1)
    BY <1>1 DEF Set, WithRef, MapRec
  <1> QED BY <1>2, <1>3 DEF CopyCell, CopyTo

LEMMA CopyToIsMap ==
  ASSUME NEW s \in Pair, NEW p \in Pixels
  PROVE  /\ CopyTo(s, p) \in MapRec /\ CopyTo(s, p).pixels = s.to.pixels /\ CopyTo(s, p).all = s.to.all
         /\ SameCells(s.to, CopyTo(s, p), p)
         /\ CopyTo(s, p).cells[p].refcnt =
               IF s.to.cells[p].refcnt > 0 THEN s.to.cells[p].refcnt + 1
               ELSE IF s.map.cells[p].refcnt > 0 THEN 1 ELSE s.map.cells[p].refcnt
  <1>1. s.map \in MapRec /\ s.to \in MapRec
    BY DEF Pair
  <1>2. /\ s.map.cells[p] \in CellRec /\ s.map.cells[p].refcnt \in Int
        /\ s.to.cells[p] \in CellRec /\ s.to.cells[p].refcnt \in Int /\ s.to.free \in Int
    BY <1>1, MapFields
  <1>3. PICK a \in Int : a = s.map.cells[p].refcnt
    BY <1>2
  <1>4. PICK b \in Int : b = s.to.cells[p].refcnt
    BY <1>2
  <1>5. PICK new : new = CopyTo(s, p)
    OBVIOUS
  <1>6. PICK t : t = s.to
    OBVIOUS
  <1>7. CASE b > 0
    <2>1. PICK cell : cell = WithRef(t.cells[p], b + 1)
      OBVIOUS
    <2>2. cell \in CellRec /\ cell.refcnt = b + 1
      <3>1. b + 1 \in Int /\ t.cells[p] \in CellRec
        BY <1>2, <1>6
      <3> QED BY <2>1, <3>1, WithRefIsCell
    <2>3. new = Set(t, p, cell, t.free)
      BY <1>4, <1>5, <1>6, <1>7, <2>1 DEF CopyTo
    <2>4. t \in MapRec /\ t.free \in Int
      BY <1>1, <1>2, <1>6
    <2>5. new \in MapRec /\ SameCells(t, new, p) /\ new.cells[p] = cell /\ new.pixels = t.pixels /\ new.all = t.all
      BY <2>2, <2>3, <2>4, SetIsMap
    <2> QED BY <1>3, <1>4, <1>5, <1>6, <1>7, <2>2, <2>5
  <1>8. CASE ~(b > 0)
    <2>1. PICK r : r = IF a > 0 THEN 1 ELSE a
      OBVIOUS
    <2>2. PICK cell : cell = WithRef(s.map.cells[p], r)
      OBVIOUS
    <2>3. cell \in CellRec /\ cell.refcnt = r
      <3>1. r \in Int
        BY <2>1
      <3> QED BY <1>2, <2>2, <3>1, WithRefIsCell
    <2>4. new = Set(t, p, cell, t.free - 1)
      BY <1>3, <1>4, <1>5, <1>6, <1>8, <2>1, <2>2 DEF CopyTo
    <2>5. t \in MapRec /\ t.free - 1 \in Int
      BY <1>1, <1>2, <1>6
    <2>6. new \in MapRec /\ SameCells(t, new, p) /\ new.cells[p] = cell /\ new.pixels = t.pixels /\ new.all = t.all
      BY <2>3, <2>4, <2>5, SetIsMap
    <2> QED BY <1>3, <1>4, <1>5, <1>6, <1>8, <2>1, <2>3, <2>6
  <1> QED BY <1>7, <1>8

LEMMA CopyFreeRuns ==
  ASSUME NEW map \in MapRec, NEW to \in MapRec, NEW c \in ColourClients, NEW l \in Lists, l = map.pixels[c]
  PROVE  \E f : /\ f \in [0 .. Len(l) -> Pair]
                /\ f[0] = [map |-> SetPixels(map, c, <<>>), to |-> SetPixels(to, c, l)]
                /\ \A i \in 0 .. Len(l) - 1 : f[i + 1] = CopyCell(f[i], l[i + 1])
                /\ CopyFree(map, to, c) = f[Len(l)]
  <1> DEFINE n == Len(map.pixels[c])
             x0 == [map |-> [map EXCEPT !.pixels[c] = <<>>], to |-> [to EXCEPT !.pixels[c] = map.pixels[c]]]
             U(w, i) == CopyCell(w, map.pixels[c][i])
             F == [x \in Pair \X (1 .. n) |-> U(x[1], x[2])]
             Body(g) == [i \in 0 .. Len(map.pixels[c]) |->
                IF i = 0 THEN [map |-> [map EXCEPT !.pixels[c] = <<>>], to |-> [to EXCEPT !.pixels[c] = map.pixels[c]]]
                ELSE CopyCell(g[i - 1], map.pixels[c][i])]
             f == CHOOSE g : g = Body(g)
  <1>1. CopyFree(map, to, c) = f[Len(map.pixels[c])]
    BY DEF CopyFree
  <1>2. n \in Nat /\ \A i \in 1 .. n : map.pixels[c][i] \in Pixels
    BY DEF Lists
  <1>3. x0 \in Pair /\ x0 = [map |-> SetPixels(map, c, <<>>), to |-> SetPixels(to, c, l)]
    <2>1. <<>> \in Lists
      BY DEF Lists
    <2>2. [map.pixels EXCEPT ![c] = <<>>] \in AllLists
      BY <2>1, MapFields DEF AllLists
    <2>3. [to.pixels EXCEPT ![c] = l] \in AllLists
      BY MapFields DEF AllLists
    <2>4. [map EXCEPT !.pixels[c] = <<>>] \in MapRec
      BY <2>2 DEF MapRec
    <2>5. [to EXCEPT !.pixels[c] = l] \in MapRec
      BY <2>3 DEF MapRec
    <2> QED BY <2>4, <2>5 DEF SetPixels, Pair
  <1>0. ASSUME NEW w \in Pair, NEW p \in Pixels PROVE CopyCell(w, p) \in Pair
    <2>1. w.map \in MapRec
      BY DEF Pair
    <2>2. FreeCell(w.map, p) \in MapRec
      BY <2>1, FreeCellFreed DEF FreedCell
    <2>3. CopyTo(w, p) \in MapRec
      BY CopyToIsMap
    <2> QED BY <2>2, <2>3, CopyCellIs DEF Pair
  <1>4. \E g : g = Body(g)
    <2>1. ASSUME NEW w \in Pair, NEW i \in 1 .. n PROVE U(w, i) \in Pair
      BY <1>0, <1>2
    <2>2. F \in [Pair \X (1 .. n) -> Pair]
      <3>1. ASSUME NEW p \in Pair \X (1 .. n) PROVE U(p[1], p[2]) \in Pair
        <4>1. p[1] \in Pair /\ p[2] \in 1 .. n
          OBVIOUS
        <4> HIDE DEF U
        <4> QED BY <2>1, <4>1
      <3> HIDE DEF U
      <3> QED BY <3>1
    <2> HIDE DEF F, n, U, x0
    <2>3. PICK g : Recursive(g, Pair, n, x0, F)
      BY <1>2, <1>3, <2>2, RecursionExists
    <2>4. g \in [0 .. n -> Pair] /\ g[0] = x0 /\ \A i \in 1 .. n : g[i] = F[<<g[i - 1], i>>]
      BY <2>3 DEF Recursive
    <2>5. ASSUME NEW i \in 1 .. n PROVE g[i] = U(g[i - 1], i)
      <3>1. i - 1 \in 0 .. n
        BY <1>2
      <3>2. <<g[i - 1], i>> \in Pair \X (1 .. n)
        BY <2>4, <3>1
      <3>3. F[<<g[i - 1], i>>] = U(g[i - 1], i)
        BY <3>2 DEF F
      <3> QED BY <2>4, <3>3
    <2>6. \A i \in 0 .. n : i = 0 \/ i \in 1 .. n
      BY <1>2
    <2>7. \A i \in 0 .. Len(map.pixels[c]) :
             g[i] = IF i = 0 THEN x0 ELSE CopyCell(g[i - 1], map.pixels[c][i])
      BY <2>4, <2>5, <2>6, Zenon DEF U, n
    <2>8. g = [i \in 0 .. Len(map.pixels[c]) |-> g[i]]
      BY <2>4 DEF n
    <2>9. g = Body(g)
      BY <2>7, <2>8, Zenon DEF x0
    <2> QED BY <2>9
  <1>5. f = Body(f)
    <2> HIDE DEF Body
    <2> QED BY <1>4
  <1> HIDE DEF f
  <1>6. f[0] = x0
    <2>1. 0 \in 0 .. Len(map.pixels[c])
      BY <1>2
    <2> QED BY <1>5, <2>1, Zenon
  <1>7. ASSUME NEW i \in 0 .. n - 1 PROVE f[i + 1] = CopyCell(f[i], l[i + 1])
    <2>1. i + 1 \in 0 .. Len(map.pixels[c]) /\ i + 1 # 0 /\ (i + 1) - 1 = i
      BY <1>2
    <2>2. PICK j : j = i + 1
      OBVIOUS
    <2>3. f[j] = CopyCell(f[j - 1], map.pixels[c][j])
      BY <1>5, <2>1, <2>2, Zenon
    <2> QED BY <2>1, <2>2, <2>3
  <1> HIDE DEF x0
  <1> DEFINE S == {i \in 0 .. n : f[i] \in Pair}
  <1>8. \A i \in 0 .. n : i \in S
    <2>1. 0 \in S
      <3>1. 0 \in 0 .. n
        BY <1>2
      <3> HIDE DEF n
      <3> QED BY <1>3, <1>6, <3>1
    <2>2. ASSUME NEW i \in 0 .. n - 1, i \in S PROVE i + 1 \in S
      <3>1. i + 1 \in 0 .. n /\ l[i + 1] \in Pixels /\ i \in 0 .. n
        BY <1>2
      <3>2. f[i] \in Pair
        BY <2>2
      <3>3. CopyCell(f[i], l[i + 1]) \in Pair
        BY <1>0, <3>1, <3>2
      <3>4. f[i + 1] \in Pair
        BY <1>7, <3>3
      <3> HIDE DEF n
      <3> QED BY <3>1, <3>4
    <2> HIDE DEF S, n
    <2> QED BY <1>2, <2>1, <2>2, SetInduction
  <1>9. f \in [0 .. n -> Pair]
    <2>1. \A i \in 0 .. n : f[i] \in Pair
      BY <1>8
    <2>2. f = [i \in 0 .. n |-> f[i]]
      <3> DEFINE E(g, i) == IF i = 0
                            THEN [map |-> [map EXCEPT !.pixels[c] = <<>>], to |-> [to EXCEPT !.pixels[c] = map.pixels[c]]]
                            ELSE CopyCell(g[i - 1], map.pixels[c][i])
      <3>1. f = [i \in 0 .. n |-> E(f, i)]
        BY <1>5
      <3> HIDE DEF E
      <3> QED BY <3>1
    <2> HIDE DEF n
    <2> QED BY <2>1, <2>2
  <1>10. n = Len(l)
    OBVIOUS
  <1> HIDE DEF n
  <1>11. \A i \in 0 .. Len(l) - 1 : f[i + 1] = CopyCell(f[i], l[i + 1])
    BY <1>7, <1>10
  <1>12. CopyFree(map, to, c) = f[Len(l)]
    BY <1>1
  <1>13. f[0] = [map |-> SetPixels(map, c, <<>>), to |-> SetPixels(to, c, l)]
    BY <1>3, <1>6
  <1>14. f \in [0 .. Len(l) -> Pair]
    BY <1>9, <1>10
  <1> QED BY <1>11, <1>12, <1>13, <1>14


Done(l, i) == [p \in Pixels |-> Times_(l, 1 .. i, p)]

LEMMA DoneStep ==
  ASSUME NEW l \in Lists, NEW i \in 0 .. Len(l) - 1
  PROVE  Less(Done(l, i + 1), Done(l, i), l[i + 1])
  <1>1. Len(l) \in Nat /\ i \in 0 .. Len(l) /\ i + 1 \in 0 .. Len(l)
    BY DEF Lists
  <1>2. ASSUME NEW q \in Pixels
        PROVE  /\ Done(l, i)[q] \in Nat /\ Done(l, i + 1)[q] \in Nat
               /\ More(Done(l, i + 1)[q], Done(l, i)[q], Is(l[i + 1], q))
    <2>1. Times_(l, 1 .. i, q) \in Nat
      BY <1>1, ListNumbers, Zenon
    <2>2. Times_(l, 1 .. i + 1, q) \in Nat
      BY <1>1, ListNumbers, Zenon
    <2>3. More(Times_(l, 1 .. i + 1, q), Times_(l, 1 .. i, q), Is(l[i + 1], q))
      BY ListStep, Zenon
    <2>4. Done(l, i)[q] = Times_(l, 1 .. i, q) /\ Done(l, i + 1)[q] = Times_(l, 1 .. i + 1, q)
      BY DEF Done
    <2> QED BY <2>1, <2>2, <2>3, <2>4, Zenon
  <1> QED BY <1>2 DEF Less

\* What the two maps count of a cell, while it is being copied: a private cell
\* is in one of them, and a shared one not more often in both than it was.
HalfOK(a, b) == /\ a = -1 => b = 0
                /\ b = -1 => a = 0
                /\ a >= 0 /\ b >= 0 => a + b <= MaxRefs
Halves(map, to) == \A p \in Pixels : HalfOK(map.cells[p].refcnt, to.cells[p].refcnt)

CopiedSoFar(s, m, l, i) ==
    /\ s \in Pair /\ Agree(s.map, Rest(m, l, i)) /\ Agree(s.to, Done(l, i)) /\ Halves(s.map, s.to)

LEMMA CopyCellOK ==
  ASSUME NEW s, NEW m, \A p \in Pixels : m[p] \in Nat, NEW l \in Lists, NEW i \in 0 .. Len(l) - 1,
         CopiedSoFar(s, m, l, i)
  PROVE  /\ CopiedSoFar(CopyCell(s, l[i + 1]), m, l, i + 1)
         /\ CopyCell(s, l[i + 1]).map.pixels = s.map.pixels /\ CopyCell(s, l[i + 1]).map.all = s.map.all
         /\ CopyCell(s, l[i + 1]).to.pixels = s.to.pixels
  <1>1. PICK p : p = l[i + 1]
    OBVIOUS
  <1>2. p \in Pixels
    <2>1. i + 1 \in 1 .. Len(l)
      BY DEF Lists
    <2> QED BY <1>1, <2>1 DEF Lists
  <1>3. s \in Pair /\ Agree(s.map, Rest(m, l, i)) /\ Agree(s.to, Done(l, i)) /\ Halves(s.map, s.to)
    BY DEF CopiedSoFar
  <1>4. PICK x : x = FreeCell(s.map, p)
    OBVIOUS
  <1>5. PICK y : y = CopyTo(s, p)
    OBVIOUS
  <1>6. CopyCell(s, p) = [map |-> x, to |-> y]
    BY <1>2, <1>3, <1>4, <1>5, CopyCellIs
  <1>7. Less(Rest(m, l, i), Rest(m, l, i + 1), p)
    BY <1>1, RestStep
  <1>8. Agree(x, Rest(m, l, i + 1)) /\ FreedCell(s.map, x, p)
    BY <1>2, <1>3, <1>4, <1>7, FreeCellAgrees
  <1>9. x \in MapRec /\ x.pixels = s.map.pixels /\ x.all = s.map.all /\ SameCells(s.map, x, p)
    BY <1>8 DEF FreedCell
  <1>10. /\ y \in MapRec /\ y.pixels = s.to.pixels /\ SameCells(s.to, y, p)
    BY <1>2, <1>3, <1>5, CopyToIsMap
  <1>11. s.map \in MapRec /\ s.to \in MapRec
    BY <1>3 DEF Pair
  <1>12. PICK a \in Int : a = s.map.cells[p].refcnt
    BY <1>2, <1>11, MapFields
  <1>13. PICK b \in Int : b = s.to.cells[p].refcnt
    BY <1>2, <1>11, MapFields
  <1>14. x.cells[p].refcnt = IF a > 1 THEN a - 1 ELSE 0
    BY <1>8, <1>12 DEF FreedCell
  <1>15. y.cells[p].refcnt = IF b > 0 THEN b + 1 ELSE IF a > 0 THEN 1 ELSE a
    BY <1>2, <1>3, <1>5, <1>12, <1>13, CopyToIsMap
  <1>16. a \in -1 .. MaxRefs /\ b \in -1 .. MaxRefs /\ HalfOK(a, b) /\ MaxRefs \in Nat
    BY <1>2, <1>3, <1>12, <1>13, ColormapAssumption DEF Agree, InRange, Halves
  <1>17. a # 0
    <2>1. Counted(a) = Rest(m, l, i)[p]
      BY <1>2, <1>3, <1>12 DEF Agree, CountsAre
    <2>2. /\ Rest(m, l, i)[p] \in Nat /\ Rest(m, l, i + 1)[p] \in Nat
          /\ More(Rest(m, l, i)[p], Rest(m, l, i + 1)[p], Is(p, p))
      BY <1>2, <1>7 DEF Less
    <2>3. Rest(m, l, i)[p] # 0
      BY <2>2 DEF More, Is
    <2> QED BY <2>1, <2>3 DEF Counted, AllocPrivate
  <1>18. HalfOK(IF a > 1 THEN a - 1 ELSE 0, IF b > 0 THEN b + 1 ELSE IF a > 0 THEN 1 ELSE a)
    BY <1>16, <1>17 DEF HalfOK
  <1>19. Halves(x, y)
    <2>1. ASSUME NEW q \in Pixels PROVE HalfOK(x.cells[q].refcnt, y.cells[q].refcnt)
      <3>1. CASE q = p
        BY <1>14, <1>15, <1>18, <3>1
      <3>2. CASE q # p
        BY <1>3, <1>9, <1>10, <3>2 DEF SameCells, Halves
      <3> QED BY <3>1, <3>2
    <2> QED BY <2>1 DEF Halves
  <1>20. Agree(y, Done(l, i + 1))
    <2>1. Less(Done(l, i + 1), Done(l, i), p)
      BY <1>1, DoneStep
    <2>2. CASE b > 0
      <3>1. PICK cell : cell = WithRef(s.to.cells[p], b + 1)
        OBVIOUS
      <3>2. cell \in CellRec /\ cell.refcnt = b + 1
        <4>1. b + 1 \in Int /\ s.to.cells[p] \in CellRec
          BY <1>2, <1>11, MapFields
        <4> QED BY <3>1, <4>1, WithRefIsCell
      <3>3. y = Set(s.to, p, cell, s.to.free)
        BY <1>5, <1>13, <2>2, <3>1 DEF CopyTo
      <3>4. cell.refcnt \in -1 .. MaxRefs /\ cell.refcnt # 0 /\ s.to.free \in Int
        BY <1>11, <1>16, <1>17, <2>2, <3>2, MapFields DEF HalfOK
      <3> QED BY <1>2, <1>3, <1>13, <2>1, <2>2, <3>2, <3>3, <3>4, SetAgrees
    <2>3. CASE ~(b > 0)
      <3>1. b = 0
        BY <1>16, <1>17, <2>3 DEF HalfOK
      <3>2. PICK r : r = IF a > 0 THEN 1 ELSE a
        OBVIOUS
      <3>3. r = 1 \/ r = -1
        BY <1>16, <1>17, <3>2
      <3>4. PICK cell : cell = WithRef(s.map.cells[p], r)
        OBVIOUS
      <3>5. cell \in CellRec /\ cell.refcnt = r
        <4>1. r \in Int /\ s.map.cells[p] \in CellRec
          BY <1>2, <1>11, <3>3, MapFields
        <4> QED BY <3>4, <4>1, WithRefIsCell
      <3>6. y = Set(s.to, p, cell, s.to.free - 1)
        BY <1>5, <1>12, <1>13, <2>3, <3>2, <3>4 DEF CopyTo
      <3>7. /\ cell.refcnt \in -1 .. MaxRefs /\ cell.refcnt # 0 /\ Counted(cell.refcnt) = 1
            /\ s.to.free - 1 \in Int
        <4>1. s.to.free \in Int /\ MaxRefs \in Nat \ {0}
          BY <1>11, MapFields, ColormapAssumption
        <4> QED BY <3>3, <3>5, <4>1 DEF Counted, AllocPrivate
      <3>8. s.to.cells[p].refcnt = 0
        BY <1>13, <3>1
      <3> QED BY <1>2, <1>3, <2>1, <3>5, <3>6, <3>7, <3>8, SetAgrees
    <2> QED BY <2>2, <2>3
  <1>21. PICK t : t = CopyCell(s, p)
    OBVIOUS
  <1>22. t.map = x /\ t.to = y /\ t \in Pair
    BY <1>6, <1>9, <1>10, <1>21 DEF Pair
  <1>23. CopiedSoFar(t, m, l, i + 1)
    BY <1>8, <1>19, <1>20, <1>22 DEF CopiedSoFar
  <1> QED BY <1>1, <1>9, <1>10, <1>21, <1>22, <1>23

LEMMA CopyFreeOK ==
  ASSUME NEW map, MapOK(map), NEW c \in ColourClients
  PROVE  /\ MapOK(CopyFree(map, NewFree, c).map) /\ Touched(map, CopyFree(map, NewFree, c).map, c)
         /\ CopyFree(map, NewFree, c).map.pixels[c] = <<>>
         /\ MapOK(CopyFree(map, NewFree, c).to)
         /\ \A d \in ColourClients : d # c => CopyFree(map, NewFree, c).to.pixels[d] = <<>>
  <1>1. map \in MapRec /\ Agree(map, OccOf(map))
    BY DEF MapOK, Agree
  <1>2. PICK l : l = map.pixels[c]
    OBVIOUS
  <1>3. map.pixels \in AllLists /\ l \in Lists /\ <<>> \in Lists
    <2>1. map.pixels \in AllLists /\ map.pixels[c] \in Lists
      BY <1>1, MapFields
    <2> QED BY <1>2, <2>1 DEF Lists
  <1>4. Len(l) \in Nat
    BY <1>3 DEF Lists
  <1>5. PICK to : to = NewFree
    OBVIOUS
  <1>6. /\ MapOK(to) /\ to \in MapRec /\ to.pixels \in AllLists
        /\ \A d \in ColourClients : to.pixels[d] = <<>>
        /\ \A p \in Pixels : to.cells[p].refcnt = 0
    <2>1. /\ MapOK(to) /\ \A d \in ColourClients : to.pixels[d] = <<>>
          /\ \A p \in Pixels : to.cells[p].refcnt = 0
      BY <1>5, NewFreeOK
    <2>2. to \in MapRec
      BY <2>1 DEF MapOK, Agree
    <2> QED BY <2>1, <2>2, MapFields
  <1>7. PICK f : /\ f \in [0 .. Len(l) -> Pair]
                 /\ f[0] = [map |-> SetPixels(map, c, <<>>), to |-> SetPixels(to, c, l)]
                 /\ \A i \in 0 .. Len(l) - 1 : f[i + 1] = CopyCell(f[i], l[i + 1])
                 /\ CopyFree(map, to, c) = f[Len(l)]
    BY <1>1, <1>2, <1>3, <1>6, CopyFreeRuns
  <1>8. PICK px : px = [map.pixels EXCEPT ![c] = <<>>]
    OBVIOUS
  <1>9. PICK py : py = [to.pixels EXCEPT ![c] = l]
    OBVIOUS
  <1>10. PICK m : m = [p \in Pixels |-> Occ(px, p)]
    OBVIOUS
  <1>11. (\A p \in Pixels : m[p] \in Nat) /\ OccOf(map) = Rest(m, l, 0) /\ m = Rest(m, l, Len(l))
    <2>1. m = [p \in Pixels |-> Occ([map.pixels EXCEPT ![c] = <<>>], p)]
      BY <1>8, <1>10
    <2> QED BY <1>1, <1>2, <1>3, <2>1, RestOfList, Zenon
  <1>12. PICK k \in Nat : k = Len(l)
    BY <1>4
  <1> DEFINE S == {i \in 0 .. k : /\ CopiedSoFar(f[i], m, l, i)
                                  /\ f[i].map.pixels = px /\ f[i].map.all = map.all /\ f[i].to.pixels = py}
  <1>13. 0 \in S
    <2>1. PICK x : x = SetPixels(map, c, <<>>)
      OBVIOUS
    <2>2. PICK y : y = SetPixels(to, c, l)
      OBVIOUS
    <2>3. Agree(x, Rest(m, l, 0))
      BY <1>1, <1>3, <1>11, <2>1, SetPixelsAgrees
    <2>4. Agree(y, OccOf(to))
      <3>1. Agree(to, OccOf(to))
        BY <1>6 DEF MapOK
      <3> QED BY <1>3, <2>2, <3>1, SetPixelsAgrees
    <2>5. x.cells = map.cells /\ x.pixels = px /\ x.all = map.all
      BY <1>1, <1>8, <2>1 DEF SetPixels, MapRec
    <2>6. y.cells = to.cells /\ y.pixels = py
      BY <1>6, <1>9, <2>2 DEF SetPixels, MapRec
    <2>7. OccOf(to) = Done(l, 0)
      <3>1. ASSUME NEW p \in Pixels PROVE Occ(to.pixels, p) = Times_(l, 1 .. 0, p)
        <4>1. Times_(l, 1 .. 0, p) = 0
          BY <1>3, ListNumbers, Zenon
        <4>2. Counted(to.cells[p].refcnt) = OccOf(to)[p]
          BY <1>6 DEF MapOK, Agree, CountsAre
        <4>3. OccOf(to)[p] = 0
          BY <1>6, <4>2 DEF Counted, AllocPrivate
        <4> QED BY <4>1, <4>3 DEF OccOf
      <3> QED BY <3>1 DEF OccOf, Done
    <2>8. Halves(x, y)
      <3>1. ASSUME NEW p \in Pixels PROVE HalfOK(x.cells[p].refcnt, y.cells[p].refcnt)
        <4>1. PICK a : a = x.cells[p].refcnt
          OBVIOUS
        <4>2. a \in -1 .. MaxRefs /\ MaxRefs \in Nat
          BY <1>1, <2>5, <4>1, ColormapAssumption DEF Agree, InRange
        <4>3. y.cells[p].refcnt = 0
          BY <1>6, <2>6
        <4>4. HalfOK(a, 0)
          BY <4>2 DEF HalfOK
        <4> QED BY <4>1, <4>3, <4>4
      <3> QED BY <3>1 DEF Halves
    <2>9. PICK s : s = f[0]
      OBVIOUS
    <2>10. s.map = x /\ s.to = y
      BY <1>7, <2>1, <2>2, <2>9
    <2>11. s \in Pair
      BY <1>4, <1>7, <2>9
    <2>12. CopiedSoFar(s, m, l, 0)
      BY <2>3, <2>4, <2>7, <2>8, <2>10, <2>11 DEF CopiedSoFar
    <2>13. 0 \in 0 .. k
      OBVIOUS
    <2> QED BY <2>5, <2>6, <2>9, <2>10, <2>12, <2>13
  <1>14. ASSUME NEW i \in 0 .. k - 1, i \in S PROVE i + 1 \in S
    <2>1. PICK s : s = f[i]
      OBVIOUS
    <2>2. /\ CopiedSoFar(s, m, l, i) /\ s.map.pixels = px /\ s.map.all = map.all /\ s.to.pixels = py
      BY <1>14, <2>1
    <2>3. i \in 0 .. Len(l) - 1 /\ i + 1 \in 0 .. k
      BY <1>12
    <2>4. PICK t : t = CopyCell(s, l[i + 1])
      OBVIOUS
    <2>5. t = f[i + 1]
      BY <1>7, <2>1, <2>3, <2>4
    <2>6. /\ CopiedSoFar(t, m, l, i + 1)
          /\ t.map.pixels = s.map.pixels /\ t.map.all = s.map.all /\ t.to.pixels = s.to.pixels
      BY <1>3, <1>11, <2>2, <2>3, <2>4, CopyCellOK
    <2> QED BY <2>2, <2>3, <2>5, <2>6
  <1> HIDE DEF S
  <1>15. k \in S
    <2>1. \A i \in 0 .. k : i \in S
      BY <1>13, <1>14, SetInduction
    <2> QED BY <2>1
  <1>16. PICK s : s = f[k]
    OBVIOUS
  <1>17. /\ CopiedSoFar(s, m, l, k) /\ s.map.pixels = px /\ s.map.all = map.all /\ s.to.pixels = py
    BY <1>15, <1>16 DEF S
  <1>18. Agree(s.map, Rest(m, l, k)) /\ Agree(s.to, Done(l, k))
    BY <1>17 DEF CopiedSoFar
  <1>19. MapOK(s.map)
    <2>1. Rest(m, l, k) = OccOf(s.map)
      BY <1>10, <1>11, <1>12, <1>17 DEF OccOf
    <2> QED BY <1>18, <2>1 DEF MapOK
  <1>20. py \in AllLists /\ py[c] = l /\ \A d \in ColourClients : d # c => py[d] = <<>>
    BY <1>3, <1>6, <1>9 DEF AllLists
  <1>21. MapOK(s.to)
    <2>1. ASSUME NEW p \in Pixels PROVE Times_(l, 1 .. k, p) = Occ(py, p)
      <3>1. Occ(py, p) = InList(l, p)
        BY <1>20, OccOfOnly
      <3>2. InList(l, p) = Times_(l, 1 .. Len(l), p)
        BY <1>3, ListNumbers, Zenon
      <3> QED BY <1>12, <3>1, <3>2
    <2>2. Done(l, k) = OccOf(s.to)
      BY <1>17, <2>1 DEF Done, OccOf
    <2> QED BY <1>18, <2>2 DEF MapOK
  <1>22. s = CopyFree(map, NewFree, c)
    BY <1>5, <1>7, <1>12, <1>16
  <1>23. Touched(map, s.map, c) /\ s.map.pixels[c] = <<>>
    BY <1>3, <1>8, <1>17 DEF Touched, AllLists
  <1>24. \A d \in ColourClients : d # c => s.to.pixels[d] = <<>>
    BY <1>17, <1>20
  <1> QED BY <1>19, <1>21, <1>22, <1>23, <1>24

-----------------------------------------------------------------------------
(* The inductive invariant.                                                *)

\* Who has pixels in a map has an entry that frees them, or is its owner.
Holders(map, m, entries, clients) ==
    /\ MapOwner[m] \in clients
    /\ \A c \in ColourClients :
          map.pixels[c] # <<>> => c \in clients /\ (MapOwner[m] = c \/ <<m, c>> \in entries)

MapsOK(maps, entries, clients) ==
    /\ maps \in [Maps -> {NoMap} \cup MapRec]
    /\ entries \in SUBSET (Maps \X ColourClients) /\ clients \in SUBSET ColourClients
    /\ \A m \in Maps : maps[m] # NoMap => MapOK(maps[m]) /\ Holders(maps[m], m, entries, clients)

Shareds == Nat \X Channels \X BOOLEAN
SharedOK(s) == IsFiniteSet(DOMAIN s) /\ DOMAIN s \in SUBSET Shareds

ColoursInv == MapsOK(colormaps, cmapEntries, colourClients) /\ SharedOK(shared)

LEMMA MapOKIsMap ==
  ASSUME NEW map, MapOK(map)
  PROVE  map \in MapRec /\ map # NoMap
  <1>1. map \in MapRec
    BY DEF MapOK, Agree
  <1> QED BY <1>1, MapFields

\* One map is changed, by a client that is registered with it then.
LEMMA HoldersKept ==
  ASSUME NEW map, NEW new, NEW m \in Maps, NEW c \in ColourClients, NEW entries, NEW more, NEW clients,
         Holders(map, m, entries, clients), Touched(map, new, c), c \in clients, entries \subseteq more,
         \/ new.pixels[c] = <<>>
         \/ map.pixels[c] # <<>>
         \/ MapOwner[m] = c
         \/ <<m, c>> \in more
  PROVE  Holders(new, m, more, clients)
  <1>1. ASSUME NEW d \in ColourClients, new.pixels[d] # <<>>
        PROVE  d \in clients /\ (MapOwner[m] = d \/ <<m, d>> \in more)
    <2>1. CASE d = c
      BY <1>1, <2>1 DEF Holders
    <2>2. CASE d # c
      BY <1>1, <2>2 DEF Holders, Touched
    <2> QED BY <2>1, <2>2
  <1> QED BY <1>1 DEF Holders

LEMMA OneMap ==
  ASSUME NEW maps, NEW entries, NEW more, NEW clients, MapsOK(maps, entries, clients), NEW m \in Maps, NEW new,
         entries \subseteq more, more \subseteq Maps \X ColourClients,
         MapOK(new), Holders(new, m, more, clients)
  PROVE  MapsOK([maps EXCEPT ![m] = new], more, clients)
  <1>1. PICK ms : ms = [maps EXCEPT ![m] = new]
    OBVIOUS
  <1>2. maps \in [Maps -> {NoMap} \cup MapRec]
    BY DEF MapsOK
  <1>3. new \in MapRec
    BY MapOKIsMap
  <1>4. ms \in [Maps -> {NoMap} \cup MapRec] /\ ms[m] = new /\ \A n \in Maps : n # m => ms[n] = maps[n]
    BY <1>1, <1>2, <1>3
  <1>5. ASSUME NEW n \in Maps, ms[n] # NoMap PROVE MapOK(ms[n]) /\ Holders(ms[n], n, more, clients)
    <2>1. CASE n = m
      BY <1>4, <2>1
    <2>2. CASE n # m
      <3>1. MapOK(maps[n]) /\ Holders(maps[n], n, entries, clients) /\ ms[n] = maps[n]
        BY <1>4, <1>5, <2>2 DEF MapsOK
      <3>2. Holders(maps[n], n, more, clients)
        BY <3>1 DEF Holders
      <3> QED BY <3>1, <3>2
    <2> QED BY <2>1, <2>2
  <1>6. clients \in SUBSET ColourClients
    BY DEF MapsOK
  <1>7. MapsOK(ms, more, clients)
    BY <1>4, <1>5, <1>6 DEF MapsOK
  <1> QED BY <1>1, <1>7

LEMMA RegisteredIs ==
  ASSUME NEW c \in ColourClients, NEW m \in Maps, NEW first, MapsOK(colormaps, cmapEntries, colourClients)
  PROVE  /\ cmapEntries \subseteq Registered(c, m, first)
         /\ Registered(c, m, first) \subseteq Maps \X ColourClients
         /\ first => MapOwner[m] = c \/ <<m, c>> \in Registered(c, m, first)
  BY DEF Registered, MapsOK

LEMMA ReleasedOK ==
  ASSUME NEW maps, SharedOK(shared)
  PROVE  SharedOK(Released(maps))
  <1>1. DOMAIN Released(maps) \subseteq DOMAIN shared
    BY DEF Released
  <1>2. IsFiniteSet(DOMAIN Released(maps))
    BY <1>1, FS_Subset DEF SharedOK
  <1> QED BY <1>1, <1>2 DEF SharedOK

-----------------------------------------------------------------------------
(* The requests.                                                           *)

LEMMA FreeColorsKeeps ==
  ASSUME ColoursInv, NEW c \in colourClients, NEW m \in Maps, NEW p \in Pixels, NEW mask,
         FreeColors(c, m, p, mask)
  PROVE  ColoursInv'
  <1>0. MapsOK(colormaps, cmapEntries, colourClients) /\ SharedOK(shared) /\ c \in ColourClients
    BY DEF ColoursInv, MapsOK
  <1>1. PICK old : old = colormaps[m]
    OBVIOUS
  <1>2. old # NoMap /\ MapOK(old) /\ Holders(old, m, cmapEntries, colourClients)
    BY <1>0, <1>1 DEF MapsOK, FreeColors, Exists
  <1>3. PICK one : one = FreePixel(old, c, p)
    OBVIOUS
  <1>4. MapOK(one) /\ Touched(old, one, c) /\ (one.pixels[c] # <<>> => old.pixels[c] # <<>>)
    BY <1>0, <1>2, <1>3, FreePixelOK
  <1>5. PICK new : new = IF mask = 0 THEN one ELSE FreePixel(one, c, Partner(p, mask))
    OBVIOUS
  <1>6. MapOK(new) /\ Touched(old, new, c) /\ (new.pixels[c] # <<>> => old.pixels[c] # <<>>)
    <2>1. CASE mask = 0
      BY <1>4, <1>5, <2>1
    <2>2. CASE mask # 0
      <3>1. new = FreePixel(one, c, Partner(p, mask))
        BY <1>5, <2>2
      <3>2. MapOK(new) /\ Touched(one, new, c) /\ (new.pixels[c] # <<>> => one.pixels[c] # <<>>)
        BY <1>0, <1>4, <3>1, FreePixelOK
      <3> QED BY <1>4, <3>2 DEF Touched
    <2> QED BY <2>1, <2>2
  <1>7. Holders(new, m, cmapEntries, colourClients)
    BY <1>0, <1>2, <1>6, HoldersKept
  <1>8. MapsOK([colormaps EXCEPT ![m] = new], cmapEntries, colourClients)
    <2>1. cmapEntries \subseteq Maps \X ColourClients
      BY <1>0 DEF MapsOK
    <2> QED BY <1>0, <1>6, <1>7, <2>1, OneMap
  <1>9. colormaps' = [colormaps EXCEPT ![m] = new] /\ cmapEntries' = cmapEntries /\ colourClients' = colourClients
        /\ shared' = Released(colormaps')
    BY <1>1, <1>3, <1>5 DEF FreeColors
  <1>10. SharedOK(shared')
    BY <1>0, <1>9, ReleasedOK
  <1> QED BY <1>8, <1>9, <1>10 DEF ColoursInv

LEMMA AllocColorKeeps ==
  ASSUME ColoursInv, NEW c \in colourClients, NEW m \in Maps, NEW colour \in Colours,
         AllocColor(c, m, colour)
  PROVE  ColoursInv'
  <1>0. MapsOK(colormaps, cmapEntries, colourClients) /\ SharedOK(shared) /\ c \in ColourClients
    BY DEF ColoursInv, MapsOK
  <1>1. PICK old : old = colormaps[m]
    OBVIOUS
  <1>2. old # NoMap /\ MapOK(old) /\ Holders(old, m, cmapEntries, colourClients)
    BY <1>0, <1>1 DEF MapsOK, AllocColor, Exists
  <1>3. \E new : /\ MapOK(new) /\ Touched(old, new, c) /\ colormaps' = [colormaps EXCEPT ![m] = new]
                 /\ \E p \in Pixels : new.pixels[c] = Append(old.pixels[c], p)
    <2>1. PICK cell : cell = [EmptyCell EXCEPT !.refcnt = 1, !.colour = colour]
      OBVIOUS
    <2>2. cell \in CellRec /\ cell.refcnt = 1
      <3>1. cell = [refcnt |-> 1, colour |-> colour, shares |-> {}]
        BY <2>1 DEF EmptyCell
      <3>2. colour \in Colours \cup {"none"} /\ 1 \in Int /\ {} \in SUBSET (Nat \X Channels \X BOOLEAN)
        OBVIOUS
      <3> QED BY <3>1, <3>2 DEF CellRec
    <2>3. \/ \E p \in Pixels : /\ old.cells[p].refcnt > 0 /\ old.cells[p].refcnt < MaxRefs
                               /\ colormaps' = [colormaps EXCEPT ![m] = TakeAgain(old, c, p)]
          \/ \E p \in Pixels : /\ old.cells[p].refcnt = 0
                               /\ colormaps' = [colormaps EXCEPT ![m] = Take(old, c, p, cell)]
      BY <1>1, <2>1 DEF AllocColor, FindColor
    <2>4. CASE \E p \in Pixels : /\ old.cells[p].refcnt > 0 /\ old.cells[p].refcnt < MaxRefs
                                 /\ colormaps' = [colormaps EXCEPT ![m] = TakeAgain(old, c, p)]
      <3>1. PICK p \in Pixels : /\ old.cells[p].refcnt > 0 /\ old.cells[p].refcnt < MaxRefs
                                /\ colormaps' = [colormaps EXCEPT ![m] = TakeAgain(old, c, p)]
        BY <2>4
      <3>2. PICK new : new = TakeAgain(old, c, p)
        OBVIOUS
      <3>3. MapOK(new) /\ Touched(old, new, c) /\ new.pixels[c] = Append(old.pixels[c], p)
        BY <1>0, <1>2, <3>1, <3>2, TakeAgainOK
      <3> QED BY <3>1, <3>2, <3>3
    <2>5. CASE \E p \in Pixels : /\ old.cells[p].refcnt = 0
                                 /\ colormaps' = [colormaps EXCEPT ![m] = Take(old, c, p, cell)]
      <3>1. PICK p \in Pixels : /\ old.cells[p].refcnt = 0
                                /\ colormaps' = [colormaps EXCEPT ![m] = Take(old, c, p, cell)]
        BY <2>5
      <3>2. PICK new : new = Take(old, c, p, cell)
        OBVIOUS
      <3>3. cell.refcnt \in {1, -1}
        BY <2>2
      <3>4. MapOK(new) /\ Touched(old, new, c) /\ new.pixels[c] = Append(old.pixels[c], p)
        BY <1>0, <1>2, <2>2, <3>1, <3>2, <3>3, TakeOK
      <3> QED BY <3>1, <3>2, <3>4
    <2> QED BY <2>3, <2>4, <2>5
  <1>4. PICK new : /\ MapOK(new) /\ Touched(old, new, c) /\ colormaps' = [colormaps EXCEPT ![m] = new]
                   /\ \E p \in Pixels : new.pixels[c] = Append(old.pixels[c], p)
    BY <1>3
  <1>5. colormaps'[m] = new
    BY <1>0, <1>4 DEF MapsOK
  <1>6. PICK more : more = Registered(c, m, Len(new.pixels[c]) = 1)
    OBVIOUS
  <1>7. cmapEntries' = more /\ colourClients' = colourClients /\ shared' = shared
    BY <1>5, <1>6 DEF AllocColor
  <1>8. /\ cmapEntries \subseteq more /\ more \subseteq Maps \X ColourClients
        /\ Len(new.pixels[c]) = 1 => MapOwner[m] = c \/ <<m, c>> \in more
    BY <1>0, <1>6, RegisteredIs
  <1>9. old.pixels[c] = <<>> => Len(new.pixels[c]) = 1
    <2>1. ASSUME NEW p PROVE Len(Append(<<>>, p)) = 1
      OBVIOUS
    <2> QED BY <1>4, <2>1
  <1>10. Holders(new, m, more, colourClients)
    BY <1>0, <1>2, <1>4, <1>8, <1>9, HoldersKept
  <1>11. MapsOK([colormaps EXCEPT ![m] = new], more, colourClients)
    BY <1>0, <1>4, <1>8, <1>10, OneMap
  <1> QED BY <1>0, <1>4, <1>7, <1>11 DEF ColoursInv


LEMMA WithPrivateOK ==
  ASSUME NEW map, MapOK(map), NEW c \in ColourClients, NEW p \in Pixels, NEW mask \in PlaneMasks \cup {0},
         NEW cellOf \in [Pixels -> CellRec], \A q \in Pixels : cellOf[q].refcnt = -1,
         p + mask \in Pixels, map.cells[p].refcnt = 0, map.cells[p + mask].refcnt = 0
  PROVE  MapOK(WithPrivate(map, c, p, mask, cellOf)) /\ Touched(map, WithPrivate(map, c, p, mask, cellOf), c)
  <1>1. PICK one : one = Take(map, c, p, cellOf[p])
    OBVIOUS
  <1>2. cellOf[p] \in CellRec /\ cellOf[p].refcnt \in {1, -1}
    OBVIOUS
  <1>3. MapOK(one) /\ Touched(map, one, c) /\ SameCells(map, one, p)
    BY <1>1, <1>2, TakeOK
  <1>4. CASE mask = 0
    BY <1>1, <1>3, <1>4 DEF WithPrivate
  <1>5. CASE mask # 0
    <2>1. PICK q \in Pixels : q = p + mask
      OBVIOUS
    <2>2. q # p
      <3>1. p \in Nat /\ mask \in Nat
        BY <1>5, ColormapAssumption
      <3> QED BY <1>5, <2>1, <3>1
    <2>3. one.cells[q].refcnt = 0
      BY <1>3, <2>1, <2>2 DEF SameCells
    <2>4. cellOf[q] \in CellRec /\ cellOf[q].refcnt \in {1, -1}
      OBVIOUS
    <2>5. PICK two : two = Take(one, c, q, cellOf[q])
      OBVIOUS
    <2>6. MapOK(two) /\ Touched(one, two, c)
      BY <1>3, <2>3, <2>4, <2>5, TakeOK
    <2>7. two = WithPrivate(map, c, p, mask, cellOf)
      BY <1>1, <1>5, <2>1, <2>5 DEF WithPrivate
    <2>8. Touched(map, two, c)
      BY <1>3, <2>6 DEF Touched
    <2> QED BY <2>6, <2>7, <2>8
  <1> QED BY <1>4, <1>5

LEMMA AllocableMeans ==
  ASSUME NEW m, NEW p, NEW mask, Allocable(m, p, mask)
  PROVE  /\ p + mask \in Pixels
         /\ colormaps[m].cells[p].refcnt = 0 /\ colormaps[m].cells[p + mask].refcnt = 0
  BY DEF Allocable

\* A map gets private cells for a client.
LEMMA PrivateKeeps ==
  ASSUME MapsOK(colormaps, cmapEntries, colourClients), NEW c \in colourClients, NEW m \in Maps,
         NEW p \in Pixels, NEW mask \in PlaneMasks \cup {0}, NEW cellOf \in [Pixels -> CellRec],
         \A q \in Pixels : cellOf[q].refcnt = -1, Exists(m), Allocable(m, p, mask)
  PROVE  MapsOK([colormaps EXCEPT ![m] = WithPrivate(colormaps[m], c, p, mask, cellOf)],
                Registered(c, m, colormaps[m].pixels[c] = <<>>), colourClients)
  <1>0. c \in ColourClients
    BY DEF MapsOK
  <1>1. PICK old : old = colormaps[m]
    OBVIOUS
  <1>2. MapOK(old) /\ Holders(old, m, cmapEntries, colourClients)
    BY <1>1 DEF MapsOK, Exists
  <1>3. PICK new : new = WithPrivate(old, c, p, mask, cellOf)
    OBVIOUS
  <1>4. p + mask \in Pixels /\ old.cells[p].refcnt = 0 /\ old.cells[p + mask].refcnt = 0
    BY <1>1, AllocableMeans
  <1>5. MapOK(new) /\ Touched(old, new, c)
    BY <1>0, <1>2, <1>3, <1>4, WithPrivateOK
  <1>6. PICK more : more = Registered(c, m, old.pixels[c] = <<>>)
    OBVIOUS
  <1>7. /\ cmapEntries \subseteq more /\ more \subseteq Maps \X ColourClients
        /\ old.pixels[c] = <<>> => MapOwner[m] = c \/ <<m, c>> \in more
    BY <1>0, <1>6, RegisteredIs
  <1>8. Holders(new, m, more, colourClients)
    BY <1>0, <1>2, <1>5, <1>7, HoldersKept
  <1>9. MapsOK([colormaps EXCEPT ![m] = new], more, colourClients)
    BY <1>5, <1>7, <1>8, OneMap
  <1> QED BY <1>1, <1>3, <1>6, <1>9

LEMMA AllocColorCellsKeeps ==
  ASSUME ColoursInv, NEW c \in colourClients, NEW m \in Maps, NEW p \in Pixels,
         NEW mask \in PlaneMasks \cup {0}, AllocColorCells(c, m, p, mask)
  PROVE  ColoursInv'
  <1>1. MapsOK(colormaps, cmapEntries, colourClients) /\ SharedOK(shared)
    BY DEF ColoursInv
  <1>2. PICK cellOf : cellOf = [q \in Pixels |-> PrivateCell]
    OBVIOUS
  <1>3. cellOf \in [Pixels -> CellRec] /\ \A q \in Pixels : cellOf[q].refcnt = -1
    BY <1>2, EmptyFields
  <1>4. Exists(m) /\ Allocable(m, p, mask)
    BY DEF AllocColorCells
  <1>5. MapsOK([colormaps EXCEPT ![m] = WithPrivate(colormaps[m], c, p, mask, cellOf)],
               Registered(c, m, colormaps[m].pixels[c] = <<>>), colourClients)
    BY <1>1, <1>3, <1>4, PrivateKeeps
  <1>6. /\ colormaps' = [colormaps EXCEPT ![m] = WithPrivate(colormaps[m], c, p, mask, cellOf)]
        /\ cmapEntries' = Registered(c, m, colormaps[m].pixels[c] = <<>>)
        /\ shared' = shared /\ colourClients' = colourClients
    BY <1>2 DEF AllocColorCells
  <1> QED BY <1>1, <1>5, <1>6 DEF ColoursInv

\* There is a number that no SHAREDCOLOR has yet.
LEMMA UnusedIs ==
  ASSUME SharedOK(shared)
  PROVE  Unused \in Nat
  <1> DEFINE D == DOMAIN shared
             k == Cardinality(DOMAIN shared)
  <1>1. IsFiniteSet(D) /\ k \in Nat
    BY FS_CardinalityType DEF SharedOK
  <1>2. \E n \in 1 .. k + 1 : \A i \in D : i[1] # n
    <2>1. ASSUME \A n \in 1 .. k + 1 : \E i \in D : i[1] = n PROVE FALSE
      <3> DEFINE N == 1 .. k + 1
                 h == [n \in N |-> CHOOSE i \in D : i[1] = n]
      <3>1. \A n \in N : h[n] \in D /\ h[n][1] = n
        BY <2>1
      <3>2. h \in Injection(N, D)
        <4>1. h \in [N -> D]
          <5>1. h = [n \in N |-> h[n]]
            OBVIOUS
          <5> HIDE DEF h, D, N
          <5> QED BY <3>1, <5>1
        <4>2. \A a, b \in N : h[a] = h[b] => a = b
          <5> HIDE DEF h
          <5> QED BY <3>1
        <4> HIDE DEF h
        <4> QED BY <4>1, <4>2 DEF Injection, IsInjective
      <3>3. Cardinality(N) <= Cardinality(D)
        <4> HIDE DEF h, N, D
        <4> QED BY <1>1, <3>2, FS_Injection
      <3>4. Cardinality(N) = k + 1
        <4>1. k + 1 \in Int /\ 1 \in Int /\ 1 <= k + 1
          BY <1>1
        <4>2. Cardinality(1 .. k + 1) = IF 1 > k + 1 THEN 0 ELSE (k + 1) - 1 + 1
          <5> HIDE DEF k
          <5> QED BY <4>1, FS_Interval
        <4> HIDE DEF k
        <4> QED BY <1>1, <4>2
      <3>5. Cardinality(D) = k
        OBVIOUS
      <3> HIDE DEF k, N, D
      <3> QED BY <1>1, <3>3, <3>4, <3>5
    <2> QED BY <2>1
  <1>3. Unused \in 1 .. k + 1
    BY <1>2 DEF Unused
  <1> HIDE DEF k
  <1> QED BY <1>1, <1>3

LEMMA NewSharedIs ==
  ASSUME NEW n \in Nat, NEW plane
  PROVE  NewShared(n, plane) \in SUBSET Shareds /\ IsFiniteSet(NewShared(n, plane))
  <1>1. NewShared(n, plane) \in SUBSET Shareds
    BY DEF NewShared, Shareds
  <1> DEFINE A == {n} \X Channels
             B == A \X BOOLEAN
             T == {n} \X Channels \X BOOLEAN
  <1>2. IsFiniteSet({n}) /\ IsFiniteSet(Channels) /\ IsFiniteSet(BOOLEAN)
    <2>1. IsFiniteSet(1 .. 3)
      <3>1. 1 \in Int /\ 3 \in Int
        OBVIOUS
      <3> QED BY <3>1, FS_Interval
    <2>2. Channels = 1 .. 3
      BY DEF Channels
    <2>3. BOOLEAN = {TRUE} \cup {FALSE}
      OBVIOUS
    <2>6. IsFiniteSet({TRUE}) /\ IsFiniteSet({FALSE})
      BY FS_Singleton
    <2>4. IsFiniteSet({TRUE} \cup {FALSE})
      BY <2>6, FS_Union
    <2>5. IsFiniteSet({n})
      BY FS_Singleton
    <2> QED BY <2>1, <2>2, <2>3, <2>4, <2>5
  <1>3. IsFiniteSet(A)
    BY <1>2, FS_Product
  <1>4. IsFiniteSet(B)
    <2> HIDE DEF A
    <2> QED BY <1>2, <1>3, FS_Product
  <1>5. IsFiniteSet(T)
    <2> DEFINE g == [x \in B |-> <<x[1][1], x[1][2], x[2]>>]
    <2>1. g \in [B -> T]
      OBVIOUS
    <2>2. ASSUME NEW y \in T PROVE \E x \in B : g[x] = y
      <3>1. <<<<y[1], y[2]>>, y[3]>> \in B
        OBVIOUS
      <3>2. g[<<<<y[1], y[2]>>, y[3]>>] = y
        BY <3>1
      <3> QED BY <3>1, <3>2
    <2>3. g \in Surjection(B, T)
      <3> HIDE DEF g, B, T
      <3> QED BY <2>1, <2>2 DEF Surjection
    <2> HIDE DEF g, B, T
    <2> QED BY <1>4, <2>3, FS_Surjection
  <1>6. NewShared(n, plane) \subseteq T
    BY DEF NewShared
  <1> HIDE DEF T
  <1>7. IsFiniteSet(NewShared(n, plane))
    BY <1>5, <1>6, FS_Subset
  <1> QED BY <1>1, <1>7

LEMMA AllocColorPlanesKeeps ==
  ASSUME ColoursInv, NEW c \in colourClients, NEW m \in Maps, NEW p \in Pixels,
         NEW mask \in PlaneMasks \cup {0}, NEW plane, AllocColorPlanes(c, m, p, mask, plane)
  PROVE  ColoursInv'
  <1>1. MapsOK(colormaps, cmapEntries, colourClients) /\ SharedOK(shared)
    BY DEF ColoursInv
  <1>2. PICK new : new = NewShared(Unused, plane)
    OBVIOUS
  <1>3. new \in SUBSET Shareds /\ IsFiniteSet(new)
    BY <1>1, <1>2, UnusedIs, NewSharedIs
  <1>4. PICK cellOf : cellOf = [q \in Pixels |->
                         [PrivateCell EXCEPT !.shares = {i \in new : i[3] <=> (q # p /\ i[2] = plane)}]]
    OBVIOUS
  <1>5. cellOf \in [Pixels -> CellRec] /\ \A q \in Pixels : cellOf[q].refcnt = -1
    <2>1. ASSUME NEW s \in SUBSET Shareds
          PROVE  [PrivateCell EXCEPT !.shares = s] \in CellRec /\ [PrivateCell EXCEPT !.shares = s].refcnt = -1
      <3>0. PrivateCell = [refcnt |-> -1, colour |-> "none", shares |-> {}]
        BY DEF PrivateCell, EmptyCell, AllocPrivate
      <3>1. [PrivateCell EXCEPT !.shares = s] = [refcnt |-> -1, colour |-> "none", shares |-> s]
        BY <3>0
      <3>2. -1 \in Int /\ "none" \in Colours \cup {"none"} /\ s \in SUBSET (Nat \X Channels \X BOOLEAN)
        BY DEF Shareds
      <3> QED BY <3>1, <3>2 DEF CellRec
    <2>2. ASSUME NEW q \in Pixels
          PROVE  cellOf[q] \in CellRec /\ cellOf[q].refcnt = -1
      <3>1. PICK s : s = {i \in new : i[3] <=> (q # p /\ i[2] = plane)}
        OBVIOUS
      <3>2. s \in SUBSET Shareds
        BY <1>3, <3>1
      <3>3. cellOf[q] = [PrivateCell EXCEPT !.shares = s]
        BY <1>4, <3>1
      <3> QED BY <2>1, <3>2, <3>3
    <2>3. cellOf = [q \in Pixels |-> cellOf[q]]
      BY <1>4
    <2> QED BY <2>2, <2>3
  <1>6. Exists(m) /\ Allocable(m, p, mask)
    BY DEF AllocColorPlanes
  <1>7. MapsOK([colormaps EXCEPT ![m] = WithPrivate(colormaps[m], c, p, mask, cellOf)],
               Registered(c, m, colormaps[m].pixels[c] = <<>>), colourClients)
    BY <1>1, <1>5, <1>6, PrivateKeeps
  <1>8. /\ colormaps' = [colormaps EXCEPT ![m] = WithPrivate(colormaps[m], c, p, mask, cellOf)]
        /\ cmapEntries' = Registered(c, m, colormaps[m].pixels[c] = <<>>)
        /\ colourClients' = colourClients
        /\ shared' = [i \in DOMAIN shared \cup new |-> IF i \in new THEN SharedRefs(i[2], plane) ELSE shared[i]]
    BY <1>2, <1>4 DEF AllocColorPlanes
  <1>9. DOMAIN shared' = DOMAIN shared \cup new
    BY <1>8
  <1>10. SharedOK(shared')
    <2>1. IsFiniteSet(DOMAIN shared \cup new)
      BY <1>1, <1>3, FS_Union DEF SharedOK
    <2> QED BY <1>1, <1>3, <1>9, <2>1 DEF SharedOK
  <1> QED BY <1>7, <1>8, <1>10 DEF ColoursInv


\* A map in which nobody but its owner has pixels.
LEMMA HoldersOfOwn ==
  ASSUME NEW map, NEW m, NEW c, NEW entries, NEW clients, MapOwner[m] = c, c \in clients,
         \A d \in ColourClients : d # c => map.pixels[d] = <<>>
  PROVE  Holders(map, m, entries, clients)
  BY DEF Holders

LEMMA CreateColormapKeeps ==
  ASSUME ColoursInv, NEW c \in colourClients, NEW m \in Maps, NEW all \in BOOLEAN, CreateColormap(c, m, all)
  PROVE  ColoursInv'
  <1>1. MapsOK(colormaps, cmapEntries, colourClients) /\ SharedOK(shared) /\ c \in ColourClients
    BY DEF ColoursInv, MapsOK
  <1>2. PICK new : new = NewMap(c, all)
    OBVIOUS
  <1>3. MapOK(new) /\ \A d \in ColourClients : d # c => new.pixels[d] = <<>>
    <2>1. CASE all = TRUE
      <3>1. new = NewAll(c)
        BY <1>2, <2>1, NewMapIs
      <3> QED BY <1>1, <3>1, NewAllOK
    <2>2. CASE all = FALSE
      <3>1. new = NewFree
        BY <1>2, <2>2, NewMapIs
      <3> QED BY <3>1, NewFreeOK
    <2> QED BY <2>1, <2>2
  <1>4. Holders(new, m, cmapEntries, colourClients)
    <2>1. MapOwner[m] = c
      BY DEF CreateColormap
    <2> QED BY <1>3, <2>1, HoldersOfOwn
  <1>5. MapsOK([colormaps EXCEPT ![m] = new], cmapEntries, colourClients)
    <2>1. cmapEntries \subseteq Maps \X ColourClients
      BY <1>1 DEF MapsOK
    <2> QED BY <1>1, <1>3, <1>4, <2>1, OneMap
  <1>6. /\ colormaps' = [colormaps EXCEPT ![m] = new] /\ shared' = shared
        /\ cmapEntries' = cmapEntries /\ colourClients' = colourClients
    BY <1>2 DEF CreateColormap
  <1> QED BY <1>1, <1>5, <1>6 DEF ColoursInv

NotAll(map) == [map EXCEPT !.all = FALSE]

LEMMA NotAllOK ==
  ASSUME NEW map, MapOK(map)
  PROVE  MapOK(NotAll(map)) /\ NotAll(map).pixels = map.pixels
  <1>1. map \in MapRec /\ Agree(map, OccOf(map))
    BY DEF MapOK, Agree
  <1>2. PICK new : new = NotAll(map)
    OBVIOUS
  <1>3. new \in MapRec /\ new.cells = map.cells /\ new.free = map.free /\ new.pixels = map.pixels
    BY <1>1, <1>2 DEF NotAll, MapRec
  <1>4. OccOf(new) = OccOf(map)
    BY <1>3 DEF OccOf
  <1>5. CountsAre(new, OccOf(map)) /\ InRange(new) /\ FreeRight(new)
    BY <1>1, <1>3 DEF Agree, CountsAre, InRange, FreeRight, FreeSet
  <1> QED BY <1>2, <1>3, <1>4, <1>5 DEF MapOK, Agree

LEMMA CopyColormapAndFreeKeeps ==
  ASSUME ColoursInv, NEW c \in colourClients, NEW src \in Maps, NEW m \in Maps, CopyColormapAndFree(c, src, m)
  PROVE  ColoursInv'
  <1>1. /\ MapsOK(colormaps, cmapEntries, colourClients) /\ SharedOK(shared) /\ c \in ColourClients
        /\ cmapEntries \subseteq Maps \X ColourClients
    BY DEF ColoursInv, MapsOK
  <1>2. PICK old : old = colormaps[src]
    OBVIOUS
  <1>3. old # NoMap /\ MapOK(old) /\ Holders(old, src, cmapEntries, colourClients)
    BY <1>1, <1>2 DEF MapsOK, CopyColormapAndFree, Exists
  <1>4. PICK s : /\ s = IF old.all /\ MapOwner[src] = c
                        THEN [map |-> FreePixels(NotAll(old), c), to |-> NewMap(c, TRUE)]
                        ELSE CopyFree(old, NewMap(c, FALSE), c)
                 /\ colormaps' = [colormaps EXCEPT ![src] = s.map, ![m] = s.to]
    BY <1>2 DEF CopyColormapAndFree, NotAll
  <1>5. /\ MapOK(s.map) /\ (\A d \in ColourClients : d # c => s.map.pixels[d] = old.pixels[d])
        /\ s.map.pixels[c] = <<>>
        /\ MapOK(s.to) /\ \A d \in ColourClients : d # c => s.to.pixels[d] = <<>>
    <2>1. CASE old.all /\ MapOwner[src] = c
      <3>1. PICK x : x = FreePixels(NotAll(old), c)
        OBVIOUS
      <3>2. MapOK(NotAll(old)) /\ NotAll(old).pixels = old.pixels
        BY <1>3, NotAllOK
      <3>3. MapOK(x) /\ Touched(NotAll(old), x, c) /\ x.pixels[c] = <<>>
        BY <1>1, <3>1, <3>2, FreePixelsOK
      <3>4. PICK y : y = NewAll(c)
        OBVIOUS
      <3>5. MapOK(y) /\ \A d \in ColourClients : d # c => y.pixels[d] = <<>>
        BY <1>1, <3>4, NewAllOK
      <3>6. NewMap(c, TRUE) = y
        BY <3>4, NewMapIs
      <3>7. s = [map |-> x, to |-> y]
        BY <1>4, <2>1, <3>1, <3>6
      <3>8. s.map = x /\ s.to = y
        BY <3>7
      <3>9. \A d \in ColourClients : d # c => x.pixels[d] = old.pixels[d]
        BY <3>2, <3>3 DEF Touched
      <3> QED BY <3>3, <3>5, <3>8, <3>9
    <2>2. CASE ~(old.all /\ MapOwner[src] = c)
      <3>1. s = CopyFree(old, NewMap(c, FALSE), c)
        BY <1>4, <2>2
      <3>2. s = CopyFree(old, NewFree, c)
        BY <3>1, NewMapIs
      <3>3. /\ MapOK(s.map) /\ Touched(old, s.map, c) /\ s.map.pixels[c] = <<>>
            /\ MapOK(s.to) /\ \A d \in ColourClients : d # c => s.to.pixels[d] = <<>>
        BY <1>1, <1>3, <3>2, CopyFreeOK
      <3> QED BY <3>3 DEF Touched
    <2> QED BY <2>1, <2>2
  <1>6. Holders(s.map, src, cmapEntries, colourClients)
    BY <1>3, <1>5 DEF Holders
  <1>7. MapsOK([colormaps EXCEPT ![src] = s.map], cmapEntries, colourClients)
    BY <1>1, <1>5, <1>6, OneMap
  <1>8. Holders(s.to, m, cmapEntries, colourClients)
    <2>1. MapOwner[m] = c
      BY DEF CopyColormapAndFree
    <2> QED BY <1>5, <2>1, HoldersOfOwn
  <1>9. PICK maps : maps = [colormaps EXCEPT ![src] = s.map]
    OBVIOUS
  <1>10. MapsOK([maps EXCEPT ![m] = s.to], cmapEntries, colourClients)
    BY <1>1, <1>5, <1>7, <1>8, <1>9, OneMap
  <1>11. colormaps' = [maps EXCEPT ![m] = s.to]
    BY <1>4, <1>9
  <1>12. /\ shared' = Released(colormaps')
         /\ cmapEntries' = cmapEntries /\ colourClients' = colourClients
    BY DEF CopyColormapAndFree
  <1>13. SharedOK(shared')
    BY <1>1, <1>12, ReleasedOK
  <1> QED BY <1>10, <1>11, <1>12, <1>13 DEF ColoursInv

\* Maps each of which is gone, or is as good as it was.
LEMMA FreeColormapKeeps ==
  ASSUME ColoursInv, NEW m \in Maps, FreeColormap(m)
  PROVE  ColoursInv'
  <1>1. MapsOK(colormaps, cmapEntries, colourClients) /\ SharedOK(shared)
    BY DEF ColoursInv
  <1>2. /\ colormaps' = [colormaps EXCEPT ![m] = NoMap] /\ shared' = Released(colormaps')
        /\ cmapEntries' = cmapEntries /\ colourClients' = colourClients
    BY DEF FreeColormap
  <1>3. PICK maps : maps = [colormaps EXCEPT ![m] = NoMap]
    OBVIOUS
  <1>4. colormaps \in [Maps -> {NoMap} \cup MapRec]
    BY <1>1 DEF MapsOK
  <1>5. /\ maps \in [Maps -> {NoMap} \cup MapRec] /\ maps[m] = NoMap
        /\ \A n \in Maps : n # m => maps[n] = colormaps[n]
    BY <1>3, <1>4
  <1>6. MapsOK(maps, cmapEntries, colourClients)
    BY <1>1, <1>5 DEF MapsOK
  <1>7. SharedOK(shared')
    BY <1>1, <1>2, ReleasedOK
  <1> QED BY <1>2, <1>3, <1>6, <1>7 DEF ColoursInv

LEMMA ClientDiesKeeps ==
  ASSUME ColoursInv, NEW c \in colourClients, ClientDies(c)
  PROVE  ColoursInv'
  <1>1. MapsOK(colormaps, cmapEntries, colourClients) /\ SharedOK(shared) /\ c \in ColourClients
    BY DEF ColoursInv, MapsOK
  <1>2. /\ colourClients' = colourClients \ {c} /\ cmapEntries' = {e \in cmapEntries : e[2] # c}
        /\ shared' = Released(colormaps')
    BY DEF ClientDies
  <1>3. PICK maps : /\ maps = [m \in Maps |->
                        IF ~Exists(m) \/ MapOwner[m] = c THEN NoMap
                        ELSE IF <<m, c>> \in cmapEntries THEN FreePixels(colormaps[m], c) ELSE colormaps[m]]
                    /\ colormaps' = maps
    BY DEF ClientDies
  <1>4. PICK left : left = colourClients \ {c}
    OBVIOUS
  <1>5. PICK entries : entries = {e \in cmapEntries : e[2] # c}
    OBVIOUS
  <1>6. ASSUME NEW m \in Maps
        PROVE  maps[m] = NoMap \/ (MapOK(maps[m]) /\ Holders(maps[m], m, entries, left))
    <2>1. CASE ~Exists(m) \/ MapOwner[m] = c
      BY <1>3, <2>1
    <2>2. CASE ~(~Exists(m) \/ MapOwner[m] = c)
      <3>1. PICK old : old = colormaps[m]
        OBVIOUS
      <3>2. MapOK(old) /\ Holders(old, m, cmapEntries, colourClients) /\ MapOwner[m] # c
        BY <1>1, <2>2, <3>1 DEF MapsOK, Exists
      <3>3. PICK new : new = IF <<m, c>> \in cmapEntries THEN FreePixels(old, c) ELSE old
        OBVIOUS
      <3>4. maps[m] = new
        BY <1>3, <2>2, <3>1, <3>3
      <3>5. MapOK(new) /\ new.pixels[c] = <<>> /\ \A d \in ColourClients : d # c => new.pixels[d] = old.pixels[d]
        <4>1. CASE <<m, c>> \in cmapEntries
          <5>1. new = FreePixels(old, c)
            BY <3>3, <4>1
          <5>2. MapOK(new) /\ Touched(old, new, c) /\ new.pixels[c] = <<>>
            BY <1>1, <3>2, <5>1, FreePixelsOK
          <5> QED BY <5>2 DEF Touched
        <4>2. CASE <<m, c>> \notin cmapEntries
          <5>1. new = old
            BY <3>3, <4>2
          <5>2. old.pixels[c] = <<>>
            BY <1>1, <3>2, <4>2 DEF Holders
          <5> QED BY <3>2, <5>1, <5>2
        <4> QED BY <4>1, <4>2
      <3>6. Holders(new, m, entries, left)
        <4>1. MapOwner[m] \in left
          BY <1>4, <3>2 DEF Holders
        <4>2. ASSUME NEW d \in ColourClients, new.pixels[d] # <<>>
              PROVE  d \in left /\ (MapOwner[m] = d \/ <<m, d>> \in entries)
          <5>1. d # c /\ old.pixels[d] # <<>>
            BY <3>5, <4>2
          <5>2. d \in colourClients /\ (MapOwner[m] = d \/ <<m, d>> \in cmapEntries)
            BY <3>2, <5>1 DEF Holders
          <5>3. <<m, d>>[2] = d
            OBVIOUS
          <5> QED BY <1>4, <1>5, <5>1, <5>2, <5>3
        <4> QED BY <4>1, <4>2 DEF Holders
      <3> QED BY <3>4, <3>5, <3>6
    <2> QED BY <2>1, <2>2
  <1>7. maps \in [Maps -> {NoMap} \cup MapRec]
    <2>1. \A m \in Maps : maps[m] \in {NoMap} \cup MapRec
      BY <1>6, MapOKIsMap
    <2>2. maps = [m \in Maps |-> maps[m]]
      BY <1>3
    <2> QED BY <2>1, <2>2
  <1>8. MapsOK(maps, entries, left)
    <2>1. entries \in SUBSET (Maps \X ColourClients) /\ left \in SUBSET ColourClients
      BY <1>1, <1>4, <1>5 DEF MapsOK
    <2> QED BY <1>6, <1>7, <2>1 DEF MapsOK
  <1>9. SharedOK(shared')
    BY <1>1, <1>2, ReleasedOK
  <1> QED BY <1>2, <1>3, <1>4, <1>5, <1>8, <1>9 DEF ColoursInv

LEMMA ClientConnectsKeeps ==
  ASSUME ColoursInv, NEW c \in ColourClients, ClientConnects(c)
  PROVE  ColoursInv'
  <1>1. MapsOK(colormaps, cmapEntries, colourClients) /\ SharedOK(shared)
    BY DEF ColoursInv
  <1>2. /\ colourClients' = colourClients \cup {c} /\ colormaps' = colormaps
        /\ shared' = shared /\ cmapEntries' = cmapEntries
    BY DEF ClientConnects
  <1>3. PICK more : more = colourClients \cup {c}
    OBVIOUS
  <1>4. more \in SUBSET ColourClients /\ colourClients \subseteq more
    BY <1>1, <1>3 DEF MapsOK
  <1>5. ASSUME NEW m \in Maps, colormaps[m] # NoMap
        PROVE  MapOK(colormaps[m]) /\ Holders(colormaps[m], m, cmapEntries, more)
    <2>1. MapOK(colormaps[m]) /\ Holders(colormaps[m], m, cmapEntries, colourClients)
      BY <1>1, <1>5 DEF MapsOK
    <2>2. Holders(colormaps[m], m, cmapEntries, more)
      BY <1>4, <2>1 DEF Holders
    <2> QED BY <2>1, <2>2
  <1>6. MapsOK(colormaps, cmapEntries, more)
    BY <1>1, <1>4, <1>5 DEF MapsOK
  <1> QED BY <1>1, <1>2, <1>3, <1>6 DEF ColoursInv

-----------------------------------------------------------------------------
(* Init, every step, and what the invariant says.                          *)

LEMMA ColoursBegin == ColormapInit => ColoursInv
  <1> SUFFICES ASSUME ColormapInit PROVE ColoursInv
    OBVIOUS
  <1>1. /\ colormaps = [m \in Maps |-> NoMap] /\ shared = [i \in {} |-> 0]
        /\ cmapEntries = {} /\ colourClients = ColourClients
    BY DEF ColormapInit
  <1>2. MapsOK(colormaps, cmapEntries, colourClients)
    BY <1>1 DEF MapsOK
  <1>3. DOMAIN shared = {}
    BY <1>1
  <1>4. SharedOK(shared)
    BY <1>3, FS_EmptySet DEF SharedOK
  <1> QED BY <1>2, <1>4 DEF ColoursInv

LEMMA ColoursKept == ColoursInv /\ [ColormapNext]_colormapVars => ColoursInv'
  <1> SUFFICES ASSUME ColoursInv, [ColormapNext]_colormapVars PROVE ColoursInv'
    OBVIOUS
  <1>1. ASSUME NEW c \in colourClients, ColourRequest(c) PROVE ColoursInv'
    <2>1. PICK m \in Maps :
             \/ \E colour \in Colours : AllocColor(c, m, colour)
             \/ \E p \in Pixels, mask \in PlaneMasks \cup {0} :
                   \/ FreeColors(c, m, p, mask)
                   \/ AllocColorCells(c, m, p, mask)
                   \/ \E plane \in Planes : AllocColorPlanes(c, m, p, mask, plane)
             \/ \E all \in BOOLEAN : CreateColormap(c, m, all)
             \/ \E src \in Maps : CopyColormapAndFree(c, src, m)
             \/ FreeColormap(m)
      BY <1>1 DEF ColourRequest
    <2>2. CASE \E colour \in Colours : AllocColor(c, m, colour)
      BY <2>2, AllocColorKeeps
    <2>3. ASSUME NEW p \in Pixels, NEW mask \in PlaneMasks \cup {0}, FreeColors(c, m, p, mask) PROVE ColoursInv'
      BY <2>3, FreeColorsKeeps
    <2>4. ASSUME NEW p \in Pixels, NEW mask \in PlaneMasks \cup {0}, AllocColorCells(c, m, p, mask) PROVE ColoursInv'
      BY <2>4, AllocColorCellsKeeps
    <2>5. ASSUME NEW p \in Pixels, NEW mask \in PlaneMasks \cup {0}, NEW plane \in Planes,
                 AllocColorPlanes(c, m, p, mask, plane)
          PROVE  ColoursInv'
      BY <2>5, AllocColorPlanesKeeps
    <2>6. CASE \E all \in BOOLEAN : CreateColormap(c, m, all)
      BY <2>6, CreateColormapKeeps
    <2>7. CASE \E src \in Maps : CopyColormapAndFree(c, src, m)
      BY <2>7, CopyColormapAndFreeKeeps
    <2>8. CASE FreeColormap(m)
      BY <2>8, FreeColormapKeeps
    <2> QED BY <2>1, <2>2, <2>3, <2>4, <2>5, <2>6, <2>7, <2>8
  <1>2. ASSUME NEW c \in colourClients, ClientDies(c) PROVE ColoursInv'
    BY <1>2, ClientDiesKeeps
  <1>3. ASSUME NEW c \in ColourClients, ClientConnects(c) PROVE ColoursInv'
    BY <1>3, ClientConnectsKeeps
  <1>4. CASE UNCHANGED colormapVars
    BY <1>4 DEF colormapVars, ColoursInv
  <1> QED BY <1>1, <1>2, <1>3, <1>4 DEF ColormapNext

LEMMA ColoursSay == ColoursInv => ColormapTypeOK /\ CellsAreCounted
  <1> SUFFICES ASSUME ColoursInv PROVE ColormapTypeOK /\ CellsAreCounted
    OBVIOUS
  <1>1. MapsOK(colormaps, cmapEntries, colourClients)
    BY DEF ColoursInv
  <1>2. ASSUME NEW m \in Maps, Exists(m)
        PROVE  /\ colormaps[m].cells \in [Pixels -> [refcnt : -1 .. MaxRefs, colour : Colours \cup {"none"},
                                                     shares : SUBSET (Nat \X Channels \X BOOLEAN)]]
               /\ colormaps[m].free \in 0 .. Cardinality(Pixels)
               /\ colormaps[m].pixels \in [ColourClients -> Seq(Pixels)]
               /\ \A p \in Pixels :
                     LET r == colormaps[m].cells[p].refcnt
                     IN  Occurrences(m, p) = IF r = AllocPrivate THEN 1 ELSE r
               /\ colormaps[m].free = Cardinality({p \in Pixels : colormaps[m].cells[p].refcnt = 0})
               /\ \A c \in ColourClients :
                     colormaps[m].pixels[c] # <<>> =>
                        c \in colourClients /\ (MapOwner[m] = c \/ <<m, c>> \in cmapEntries)
               /\ MapOwner[m] \in colourClients
    <2>1. PICK map : map = colormaps[m]
      OBVIOUS
    <2>2. MapOK(map) /\ Holders(map, m, cmapEntries, colourClients)
      BY <1>1, <1>2, <2>1 DEF MapsOK, Exists
    <2>3. map \in MapRec /\ CountsAre(map, OccOf(map)) /\ InRange(map) /\ FreeRight(map)
      BY <2>2 DEF MapOK, Agree
    <2>4. map.cells \in [Pixels -> [refcnt : -1 .. MaxRefs, colour : Colours \cup {"none"},
                                    shares : SUBSET (Nat \X Channels \X BOOLEAN)]]
      <3>1. map.cells \in [Pixels -> CellRec]
        BY <2>3 DEF MapRec
      <3>2. ASSUME NEW p \in Pixels
            PROVE  map.cells[p] \in [refcnt : -1 .. MaxRefs, colour : Colours \cup {"none"},
                                     shares : SUBSET (Nat \X Channels \X BOOLEAN)]
        <4>1. map.cells[p] \in CellRec /\ map.cells[p].refcnt \in -1 .. MaxRefs
          BY <2>3, <3>1 DEF InRange
        <4> QED BY <4>1 DEF CellRec
      <3> QED BY <3>1, <3>2
    <2>5. map.free = Cardinality({p \in Pixels : map.cells[p].refcnt = 0})
      BY <2>3 DEF FreeRight, FreeSet
    <2>6. map.free \in 0 .. Cardinality(Pixels)
      <3> DEFINE F == {p \in Pixels : map.cells[p].refcnt = 0}
      <3>1. F \in SUBSET Pixels
        OBVIOUS
      <3>2. IsFiniteSet(F) /\ Cardinality(F) <= Cardinality(Pixels)
        <4> HIDE DEF F
        <4> QED BY <3>1, ColormapAssumption, FS_Subset
      <3>3. Cardinality(F) \in Nat /\ Cardinality(Pixels) \in Nat
        BY <3>2, ColormapAssumption, FS_CardinalityType
      <3>4. map.free = Cardinality(F)
        BY <2>5
      <3> HIDE DEF F
      <3> QED BY <3>2, <3>3, <3>4
    <2>7. map.pixels \in [ColourClients -> Seq(Pixels)]
      BY <2>3 DEF MapRec, AllLists, Lists
    <2>8. ASSUME NEW p \in Pixels
          PROVE  Occurrences(m, p) = IF map.cells[p].refcnt = AllocPrivate THEN 1 ELSE map.cells[p].refcnt
      <3>1. Occurrences(m, p) = Occ(map.pixels, p)
        BY <2>1, OccurrencesAre
      <3>2. Counted(map.cells[p].refcnt) = Occ(map.pixels, p)
        BY <2>3 DEF CountsAre, OccOf
      <3> QED BY <3>1, <3>2 DEF Counted
    <2> QED BY <2>1, <2>2, <2>4, <2>5, <2>6, <2>7, <2>8 DEF Holders
  <1>3. cmapEntries \subseteq Maps \X ColourClients /\ colourClients \subseteq ColourClients
    BY <1>1 DEF MapsOK
  <1>4. ColormapTypeOK
    BY <1>2, <1>3 DEF ColormapTypeOK
  <1>5. CellsAreCounted
    BY <1>2 DEF CellsAreCounted
  <1> QED BY <1>4, <1>5

LEMMA ColoursAlways == ColormapSpec => []ColoursInv
  <1> QED BY ColoursBegin, ColoursKept, PTL DEF ColormapSpec

\* Cells, lists of pixels and SHAREDCOLORs of colormap.c keep their types.
THEOREM ColoursTypeCorrect == ColormapSpec => []ColormapTypeOK
  BY ColoursAlways, ColoursSay, PTL

\* Whatever clients allocate, free, copy to other colormaps or leave behind when they
\* die: cells count their places on the clients' lists, and free the cells on none.
THEOREM ColoursCounted == ColormapSpec => []CellsAreCounted
  BY ColoursAlways, ColoursSay, PTL
=============================================================================
