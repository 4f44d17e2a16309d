-------------------------- MODULE ResourceTablesProofs --------------------------
(***************************************************************************)
(* Lemmas about the hash tables of Resources, for any number of clients,    *)
(* buckets and entries: what RebuildTable, AddResource, Unlink, the scan of *)
(* FreeResource and GetXIDRange make of a table.                           *)
(***************************************************************************)
EXTENDS Resources, FiniteSetTheorems, SequenceTheorems, WellFoundedInduction, TLAPS

-----------------------------------------------------------------------------
(* Numbers and recursive functions over them.                              *)

LEMMA LeastOf ==
  ASSUME NEW S \in SUBSET Nat, S # {}
  PROVE  \E x \in S : \A y \in S : x <= y
  <1> DEFINE R == OpToRel(<, Nat)
  <1>1. IsWellFoundedOn(R, Nat)
    BY NatLessThanWellFounded
  <1> HIDE DEF R
  <1>2. PICK x \in S : \A y \in S : <<y, x>> \notin R
    BY <1>1, WFMin
  <1>3. \A y \in Nat : <<y, x>> \notin R => x <= y
    BY DEF R, OpToRel
  <1> QED BY <1>2, <1>3

\* Induction, for a set of numbers in place of a predicate.
LEMMA SetInduction ==
  ASSUME NEW n \in Nat, NEW S, 0 \in S, \A i \in 0 .. n - 1 : i \in S => i + 1 \in S
  PROVE  \A i \in 0 .. n : i \in S
  <1> DEFINE bad == {i \in 0 .. n : i \notin S}
  <1>1. ASSUME bad # {} PROVE FALSE
    <2>1. bad \in SUBSET Nat
      OBVIOUS
    <2>2. PICK x \in bad : \A y \in bad : x <= y
      BY <1>1, <2>1, LeastOf
    <2>3. x # 0 /\ x \in 0 .. n
      BY <2>2
    <2>4. x - 1 \in 0 .. n - 1 /\ x - 1 \notin bad /\ (x - 1) + 1 = x
      BY <2>2, <2>3
    <2>5. x - 1 \in S
      BY <2>4
    <2> QED BY <2>2, <2>4, <2>5
  <1> QED BY <1>1

\* f begins with x0, and F takes it from each number to the next.
Recursive(f, X, n, x0, F) ==
    f \in [0 .. n -> X] /\ f[0] = x0 /\ \A i \in 1 .. n : f[i] = F[<<f[i - 1], i>>]

\* A function is defined by its first value and a step.
LEMMA RecursionExists ==
  ASSUME NEW X, NEW n \in Nat, NEW x0 \in X, NEW F \in [X \X (1 .. n) -> X]
  PROVE  \E f : Recursive(f, X, n, x0, F)
  <1> DEFINE OK(m, f) == /\ f \in [0 .. m -> X] /\ f[0] = x0
                         /\ \A i \in 1 .. m : f[i] = F[<<f[i - 1], i>>]
             S == {m \in 0 .. n : \E f : OK(m, f)}
  <1>1. 0 \in S
    <2>1. OK(0, [i \in 0 .. 0 |-> x0])
      OBVIOUS
    <2> HIDE DEF OK
    <2>2. \E f : OK(0, f)
      BY <2>1
    <2> QED BY <2>2
  <1>2. ASSUME NEW m \in 0 .. n - 1, m \in S PROVE m + 1 \in S
    <2>1. PICK f : OK(m, f)
      BY <1>2
    <2> DEFINE x == F[<<f[m], m + 1>>]
               g == [i \in 0 .. m + 1 |-> IF i = m + 1 THEN x ELSE f[i]]
    <2>2. f[m] \in X /\ m + 1 \in 1 .. n
      BY <2>1
    <2>3. x \in X
      BY <2>2
    <2> HIDE DEF x
    <2>4. g \in [0 .. m + 1 -> X] /\ g[0] = x0 /\ g[m + 1] = x /\ \A i \in 0 .. m : g[i] = f[i]
      BY <2>1, <2>3
    <2> HIDE DEF g
    <2>5. ASSUME NEW i \in 1 .. m + 1 PROVE g[i] = F[<<g[i - 1], i>>]
      <3>1. CASE i = m + 1
        <4>1. i - 1 = m /\ g[i - 1] = f[m]
          BY <2>4, <3>1
        <4> QED BY <2>4, <3>1, <4>1 DEF x
      <3>2. CASE i # m + 1
        <4>1. i \in 1 .. m /\ i - 1 \in 0 .. m /\ i \in 0 .. m
          BY <3>2
        <4>2. g[i] = f[i] /\ g[i - 1] = f[i - 1] /\ f[i] = F[<<f[i - 1], i>>]
          BY <2>1, <2>4, <4>1
        <4> QED BY <4>2
      <3> QED BY <3>1, <3>2
    <2>6. OK(m + 1, g)
      BY <2>4, <2>5
    <2>7. m + 1 \in 0 .. n
      OBVIOUS
    <2> QED BY <2>6, <2>7
  <1> HIDE DEF OK
  <1>3. \A i \in 0 .. n - 1 : i \in S => i + 1 \in S
    BY <1>2
  <1> HIDE DEF S
  <1>4. n \in S
    BY <1>1, <1>3, SetInduction
  <1> QED BY <1>4 DEF S, OK, Recursive

-----------------------------------------------------------------------------
(* Sequences.                                                              *)

LEMMA Pushed ==
  ASSUME NEW X, NEW s \in Seq(X), NEW g \in X
  PROVE  /\ <<g>> \o s \in Seq(X) /\ <<g>> \o s # <<>>
         /\ Len(<<g>> \o s) = Len(s) + 1
         /\ (<<g>> \o s)[1] = g
         /\ \A k \in 1 .. Len(s) : (<<g>> \o s)[k + 1] = s[k]
         /\ Tail(<<g>> \o s) = s
  <1>1. <<g>> \in Seq(X) /\ Len(<<g>>) = 1 /\ <<g>>[1] = g
    OBVIOUS
  <1>2. /\ <<g>> \o s \in Seq(X)
        /\ Len(<<g>> \o s) = Len(s) + 1
        /\ \A i \in 1 .. Len(s) + 1 : (<<g>> \o s)[i] = IF i <= 1 THEN g ELSE s[i - 1]
    BY <1>1, ConcatProperties
  <1>3. Len(s) \in Nat
    OBVIOUS
  <1> DEFINE t == <<g>> \o s
  <1>4. t \in Seq(X) /\ Len(t) = Len(s) + 1 /\ t[1] = g /\ \A k \in 1 .. Len(s) : t[k + 1] = s[k]
    BY <1>2, <1>3
  <1> HIDE DEF t
  <1>5. t # <<>>
    BY <1>3, <1>4
  <1>6. Tail(t) \in Seq(X) /\ Len(Tail(t)) = Len(s) /\ \A k \in 1 .. Len(s) : Tail(t)[k] = s[k]
    BY <1>3, <1>4, <1>5, HeadTailProperties
  <1>7. Tail(t) = s
    BY <1>6, SeqEqual
  <1> QED BY <1>4, <1>5, <1>7 DEF t

LEMMA Popped ==
  ASSUME NEW X, NEW s \in Seq(X), s # <<>>
  PROVE  /\ Head(s) = s[1] /\ s[1] \in X /\ 1 \in 1 .. Len(s) /\ Len(s) \in Nat
         /\ Tail(s) \in Seq(X) /\ Len(Tail(s)) = Len(s) - 1
         /\ \A k \in 1 .. Len(s) - 1 : Tail(s)[k] = s[k + 1]
         /\ s = <<s[1]>> \o Tail(s)
  <1>1. Head(s) = s[1] /\ s[1] \in X /\ Len(s) \in Nat /\ Len(s) >= 1
    OBVIOUS
  <1>2. Tail(s) \in Seq(X) /\ Len(Tail(s)) = Len(s) - 1 /\ \A k \in 1 .. Len(s) - 1 : Tail(s)[k] = s[k + 1]
    BY HeadTailProperties
  <1>3. /\ <<s[1]>> \o Tail(s) \in Seq(X) /\ Len(<<s[1]>> \o Tail(s)) = Len(s)
        /\ (<<s[1]>> \o Tail(s))[1] = s[1]
        /\ \A k \in 1 .. Len(s) - 1 : (<<s[1]>> \o Tail(s))[k + 1] = Tail(s)[k]
    BY <1>1, <1>2, Pushed
  <1>4. \A k \in 1 .. Len(s) : (<<s[1]>> \o Tail(s))[k] = s[k]
    <2> SUFFICES ASSUME NEW k \in 1 .. Len(s) PROVE (<<s[1]>> \o Tail(s))[k] = s[k]
      OBVIOUS
    <2>1. CASE k = 1
      BY <1>3, <2>1
    <2>2. CASE k # 1
      <3>1. k - 1 \in 1 .. Len(s) - 1 /\ (k - 1) + 1 = k
        BY <1>1, <2>2
      <3> QED BY <1>2, <1>3, <3>1
    <2> QED BY <2>1, <2>2
  <1>5. s = <<s[1]>> \o Tail(s)
    BY <1>3, <1>4, SeqEqual
  <1> QED BY <1>1, <1>2, <1>5

-----------------------------------------------------------------------------
(* What every table is.                                                    *)

IsOwn(id) == id[2] = "own"

EntryOf(id, type, w) == [id |-> id, type |-> type, win |-> w]

\* Windows and lists of RandR selections have the window's ID, selections fake
\* ones.
EntryOK(c, e) ==
    /\ e \in Entries /\ Owner(e.id) = c
    /\ IsOwn(e.id) <=> e.type \in {"Window", "RREvent"}
    /\ IsOwn(e.id) => e.id = e.win

\* Entries of one ID: the list of RandR selections is before its window.
Ordered(e, d) == e.id = d.id => e.type = "RREvent" /\ d.type = "Window"

\* The table of client c.
TableOK(c, t) ==
    \/ t = NoTable
    \/ /\ t = [hashsize |-> t.hashsize, buckets |-> t.buckets, elements |-> t.elements, bucket |-> t.bucket]
       /\ t.hashsize \in InitHashSize .. MaxHashSize
       /\ t.buckets \in Nat \ {0} /\ t.elements \in Int
       /\ DOMAIN t.bucket = 0 .. t.buckets - 1
       /\ \A b \in 0 .. t.buckets - 1 :
             /\ t.bucket[b] \in Seq(Entries)
             /\ \A i \in DOMAIN t.bucket[b] : EntryOK(c, t.bucket[b][i]) /\ Hash(t, t.bucket[b][i].id) = b
             /\ \A i, j \in DOMAIN t.bucket[b] : i < j => Ordered(t.bucket[b][i], t.bucket[b][j])

TablesOK == DOMAIN table = Clients /\ \A c \in Clients : TableOK(c, table[c])

\* FreeResource goes on from prev only if as many entries were freed since as
\* were added: then prev is where it was and no entry of the ID before it.
ScanAt(f, t) ==
    LET b == BucketOf(t, f.id)
    IN  \/ f.prev = TheHead
        \/ /\ t.elements <= f.elements
           /\ t.elements = f.elements =>
                \E j \in DOMAIN b : b[j] = f.prev /\ \A i \in 1 .. j : b[i].id # f.id
ScanOK(f) == ScanAt(f, table[Owner(f.id)])

\* No fake ID that is still to be given is in use.
UnusedFake(c, t, n) == ~Holds(t, <<c, "fake", n>>)

FakeOK(c) ==
    /\ fake[c] \in [next : 0 .. FakeRange, end : 0 .. FakeRange] /\ fake[c].next <= fake[c].end
    /\ \A n \in fake[c].next .. fake[c].end - 1 : UnusedFake(c, table[c], n)

FakesOK == \A c \in Clients : FakeOK(c)

-----------------------------------------------------------------------------
(* IDs and entries.                                                        *)

LEMMA WindowIds ==
  ASSUME NEW w \in Windows
  PROVE  /\ w \in Windows \cup AllFakeIds
         /\ Owner(w) \in Clients /\ w[2] = "own" /\ w[3] \in Nat /\ IsOwn(w)
         /\ w # Root /\ w \notin AllFakeIds
  <1>1. w \in Clients \X {"own"} \X Nat
    BY ResourcesAssumption
  <1>2. w[1] \in Clients /\ w[2] = "own" /\ w[3] \in Nat
    BY <1>1
  <1>3. 0 \notin Clients
    BY ResourcesAssumption
  <1>4. w # Root
    BY <1>2, <1>3 DEF Root
  <1>5. \A id \in AllFakeIds : id[2] = "fake"
    BY DEF AllFakeIds, FakeIds
  <1> QED BY <1>2, <1>4, <1>5 DEF Owner, IsOwn

LEMMA FakeIdsAre ==
  /\ \A c \in Clients, n \in 0 .. FakeRange - 1 : <<c, "fake", n>> \in FakeIds(c) /\ <<c, "fake", n>> \in AllFakeIds
  /\ \A c \in Clients : \A id \in FakeIds(c) : id \in AllFakeIds /\ Owner(id) = c
  /\ \A id \in AllFakeIds : /\ Owner(id) \in Clients /\ id[2] = "fake" /\ id[3] \in 0 .. FakeRange - 1
                            /\ id = <<Owner(id), "fake", id[3]>> /\ ~IsOwn(id)
  <1>1. FakeRange \in Nat
    BY ResourcesAssumption
  <1>2. \A c \in Clients, n \in 0 .. FakeRange - 1 : <<c, "fake", n>> \in FakeIds(c)
    BY DEF FakeIds
  <1>3. \A c \in Clients : \A id : id \in FakeIds(c) => id \in AllFakeIds
    BY DEF AllFakeIds
  <1>4. \A id \in AllFakeIds : \E c \in Clients : id \in FakeIds(c)
    BY DEF AllFakeIds
  <1>5. ASSUME NEW c \in Clients, NEW id \in FakeIds(c)
        PROVE  id[1] = c /\ id[2] = "fake" /\ id[3] \in 0 .. FakeRange - 1 /\ id = <<id[1], "fake", id[3]>>
    <2>1. PICK n \in 0 .. FakeRange - 1 : id = <<c, "fake", n>>
      BY DEF FakeIds
    <2> QED BY <2>1
  <1> QED BY <1>2, <1>3, <1>4, <1>5 DEF Owner, IsOwn

LEMMA AllIds ==
  ASSUME NEW id \in Windows \cup AllFakeIds
  PROVE  Owner(id) \in Clients /\ id[3] \in Nat
  <1>1. FakeRange \in Nat
    BY ResourcesAssumption
  <1> QED BY <1>1, WindowIds, FakeIdsAre

LEMMA EntryFields ==
  ASSUME NEW c \in Clients, NEW e, EntryOK(c, e)
  PROVE  /\ e.id \in Windows \cup AllFakeIds /\ e.type \in Types /\ e.win \in Windows /\ e = EntryOf(e.id, e.type, e.win)
         /\ Owner(e.id) = c /\ e # TheHead
         /\ e.type \in {"Window", "RREvent"} => e.id = e.win /\ IsOwn(e.id)
         /\ e.type \in {"OtherClient", "RRClient"} => e.id \in AllFakeIds /\ ~IsOwn(e.id)
         /\ IsOwn(e.id) => e.type \in {"Window", "RREvent"} /\ e.id \in Windows
         /\ ~IsOwn(e.id) => e.type \in {"OtherClient", "RRClient"}
         /\ e.type \in {"Window", "RREvent", "OtherClient", "RRClient"}
  <1>1. e \in Entries
    BY DEF EntryOK
  <1>2. /\ e.id \in Windows \cup AllFakeIds /\ e.type \in Types /\ e.win \in Windows
        /\ e = [id |-> e.id, type |-> e.type, win |-> e.win]
    BY <1>1 DEF Entries
  <1>3. e # TheHead
    BY <1>2, WindowIds DEF TheHead
  <1> QED BY <1>2, <1>3, WindowIds, FakeIdsAre DEF EntryOK, EntryOf, Types

LEMMA Hashing ==
  ASSUME NEW t, t.buckets \in Nat \ {0}, NEW id \in Windows \cup AllFakeIds
  PROVE  Hash(t, id) \in 0 .. t.buckets - 1
  <1>1. id[3] \in Nat
    BY AllIds
  <1> DEFINE n == t.buckets
             m == id[3]
  <1> HIDE DEF n, m
  <1>2. n \in Nat \ {0} /\ m \in Nat
    BY <1>1 DEF n, m
  <1>3. m % n \in 0 .. n - 1
    BY <1>2
  <1> QED BY <1>3 DEF Hash, n, m

LEMMA EntriesAre ==
  ASSUME NEW t, NEW e
  PROVE  e \in EntriesIn(t) <=> \E b \in DOMAIN t.bucket : \E i \in DOMAIN t.bucket[b] : e = t.bucket[b][i]
  BY DEF EntriesIn

LEMMA NoTableIsEmpty ==
  /\ EntriesIn(NoTable) = {} /\ NoTable.buckets = 0 /\ NoTable.elements = 0 /\ \A id : BucketOf(NoTable, id) = <<>>
  /\ NoTable.hashsize = -1
  <1>1. NoTable.bucket = <<>> /\ NoTable.buckets = 0 /\ NoTable.elements = 0 /\ NoTable.hashsize = -1
    BY DEF NoTable
  <1>2. DOMAIN <<>> = {}
    OBVIOUS
  <1> QED BY <1>1, <1>2, EntriesAre DEF BucketOf

LEMMA TableTypes ==
  ASSUME NEW c \in Clients, NEW t, TableOK(c, t)
  PROVE  /\ \A e \in EntriesIn(t) : EntryOK(c, e)
         /\ t.elements \in Int /\ t.buckets \in Nat /\ t.hashsize \in {-1} \cup InitHashSize .. MaxHashSize
         /\ t = NoTable <=> t.buckets = 0
         /\ EntriesIn(t) \subseteq Entries
  <1>1. CASE t = NoTable
    BY <1>1, NoTableIsEmpty
  <1>2. CASE t # NoTable
    <2>1. \A e \in EntriesIn(t) : EntryOK(c, e)
      BY <1>2, EntriesAre DEF TableOK
    <2>2. t.elements \in Int /\ t.buckets \in Nat \ {0} /\ t.hashsize \in InitHashSize .. MaxHashSize
      BY <1>2 DEF TableOK
    <2> QED BY <1>2, <2>1, <2>2 DEF EntryOK
  <1> QED BY <1>1, <1>2

\* The bucket of an ID has its entries.
LEMMA InItsBucket ==
  ASSUME NEW c \in Clients, NEW t, TableOK(c, t), NEW id \in Windows \cup AllFakeIds
  PROVE  /\ BucketOf(t, id) \in Seq(Entries)
         /\ t # NoTable => /\ Hash(t, id) \in 0 .. t.buckets - 1 /\ BucketOf(t, id) = t.bucket[Hash(t, id)]
         /\ \A i \in DOMAIN BucketOf(t, id) : BucketOf(t, id)[i] \in EntriesIn(t)
         /\ \A e \in EntriesIn(t) : e.id = id => \E i \in DOMAIN BucketOf(t, id) : e = BucketOf(t, id)[i]
         /\ \A i, j \in DOMAIN BucketOf(t, id) : i < j => Ordered(BucketOf(t, id)[i], BucketOf(t, id)[j])
  <1>1. CASE t = NoTable
    <2>1. DOMAIN <<>> = {} /\ <<>> \in Seq(Entries)
      OBVIOUS
    <2> QED BY <1>1, <2>1, NoTableIsEmpty
  <1>2. CASE t # NoTable
    <2>1. /\ t.buckets \in Nat \ {0} /\ DOMAIN t.bucket = 0 .. t.buckets - 1
          /\ \A b \in 0 .. t.buckets - 1 :
               /\ t.bucket[b] \in Seq(Entries)
               /\ \A i \in DOMAIN t.bucket[b] : EntryOK(c, t.bucket[b][i]) /\ Hash(t, t.bucket[b][i].id) = b
               /\ \A i, j \in DOMAIN t.bucket[b] : i < j => Ordered(t.bucket[b][i], t.bucket[b][j])
      BY <1>2 DEF TableOK
    <2>2. Hash(t, id) \in 0 .. t.buckets - 1
      BY <2>1, Hashing
    <2>3. BucketOf(t, id) = t.bucket[Hash(t, id)]
      BY <2>1 DEF BucketOf
    <2>4. \A e \in EntriesIn(t) : e.id = id => \E i \in DOMAIN t.bucket[Hash(t, id)] : e = t.bucket[Hash(t, id)][i]
      BY <2>1, EntriesAre
    <2>5. \A i \in DOMAIN t.bucket[Hash(t, id)] : t.bucket[Hash(t, id)][i] \in EntriesIn(t)
      BY <2>1, <2>2, EntriesAre
    <2> QED BY <2>1, <2>2, <2>3, <2>4, <2>5
  <1> QED BY <1>1, <1>2

-----------------------------------------------------------------------------
(* An entry is unlinked.                                                   *)

LEMMA Arith ==
  ASSUME NEW n \in Nat, NEW i \in 1 .. n
  PROVE  n - (i + 1) + 1 = n - i /\ \A k \in Int : i + 1 + k - 1 = k + i
  OBVIOUS

LEMMA OneRemoved ==
  ASSUME NEW X, NEW s \in Seq(X), NEW i \in 1 .. Len(s)
  PROVE  LET r == SubSeq(s, 1, i - 1) \o SubSeq(s, i + 1, Len(s))
         IN  /\ r \in Seq(X) /\ Len(r) = Len(s) - 1
             /\ \A k \in 1 .. Len(s) - 1 : (k < i => r[k] = s[k]) /\ (~(k < i) => r[k] = s[k + 1])
  <1> DEFINE n == Len(s)
             r == SubSeq(s, 1, i - 1) \o SubSeq(s, i + 1, n)
  <1>0. n \in Nat /\ i \in 1 .. n /\ n = Len(s)
    OBVIOUS
  <1> HIDE DEF n
  <1>1. \A k \in 1 .. n : s[k] \in X
    BY <1>0
  <1> DEFINE a == SubSeq(s, 1, i - 1)
             z == SubSeq(s, i + 1, n)
  <1>2. a \in Seq(X) /\ Len(a) = i - 1 /\ \A k \in 1 .. i - 1 : a[k] = s[k]
    <2>1. \A k \in 1 .. i - 1 : s[k] \in X
      BY <1>0, <1>1
    <2>2. i - 1 \in Int /\ 1 \in Int
      BY <1>0
    <2> QED BY <1>0, <2>1, <2>2, SubSeqProperties
  <1>3. z \in Seq(X) /\ Len(z) = n - i /\ \A k \in 1 .. n - i : z[k] = s[k + i]
    <2>1. \A k \in i + 1 .. n : s[k] \in X
      BY <1>0, <1>1
    <2>2. i + 1 \in Int /\ n \in Int
      BY <1>0
    <2>3. /\ z \in Seq(X) /\ Len(z) = IF i + 1 <= n THEN n - (i + 1) + 1 ELSE 0
          /\ \A k \in 1 .. n - (i + 1) + 1 : z[k] = s[i + 1 + k - 1]
      BY <1>0, <2>1, <2>2, SubSeqProperties
    <2> HIDE DEF z
    <2>4. n - (i + 1) + 1 = n - i /\ \A k \in Int : i + 1 + k - 1 = k + i
      BY <1>0, Arith, Zenon
    <2>5. ASSUME NEW k \in 1 .. n - i PROVE z[k] = s[k + i]
      <3>1. k \in 1 .. n - (i + 1) + 1 /\ i + 1 + k - 1 = k + i
        BY <1>0, <2>4
      <3>2. z[k] = s[i + 1 + k - 1]
        BY <1>0, <2>3, <3>1
      <3> QED BY <1>0, <3>1, <3>2
    <2>6. Len(z) = n - i
      BY <1>0, <2>3
    <2> QED BY <1>0, <2>3, <2>5, <2>6
  <1>4. /\ r \in Seq(X) /\ Len(r) = Len(a) + Len(z)
        /\ \A k \in 1 .. Len(a) + Len(z) : r[k] = IF k <= Len(a) THEN a[k] ELSE z[k - Len(a)]
    BY <1>0, <1>2, <1>3, ConcatProperties
  <1> HIDE DEF a, z, r
  <1>5. Len(a) + Len(z) = n - 1
    BY <1>0, <1>2, <1>3
  <1>6. \A k \in 1 .. n - 1 : r[k] = IF k <= i - 1 THEN a[k] ELSE z[k - (i - 1)]
    BY <1>0, <1>2, <1>4, <1>5
  <1>7. ASSUME NEW k \in 1 .. n - 1 PROVE r[k] = IF k < i THEN s[k] ELSE s[k + 1]
    <2>1. CASE k < i
      <3>1. k <= i - 1 /\ k \in 1 .. i - 1
        BY <1>0, <2>1
      <3> QED BY <1>0, <1>2, <1>6, <2>1, <3>1
    <2>2. CASE k >= i
      <3>1. k - (i - 1) \in 1 .. n - i /\ (k - (i - 1)) + i = k + 1 /\ ~(k <= i - 1) /\ ~(k < i)
        BY <1>0, <2>2
      <3>2. r[k] = z[k - (i - 1)]
        BY <1>0, <1>6, <3>1
      <3>3. z[k - (i - 1)] = s[(k - (i - 1)) + i]
        BY <1>0, <1>3, <3>1
      <3> QED BY <1>0, <3>1, <3>2, <3>3
    <2>3. k < i \/ k >= i
      BY <1>0
    <2> QED BY <1>0, <2>1, <2>2, <2>3
  <1>8. \A k \in 1 .. n - 1 : (k < i => r[k] = s[k]) /\ (~(k < i) => r[k] = s[k + 1])
    BY <1>7
  <1> QED BY <1>4, <1>5, <1>8 DEF n, r

Unlinked(t, b, i, u) == u \in {Unlink(t, b, i), [Unlink(t, b, i) EXCEPT !.elements = @ - 1]}

LEMMA Unlinking ==
  ASSUME NEW c \in Clients, NEW t, TableOK(c, t), t # NoTable, NEW b \in 0 .. t.buckets - 1, NEW i \in DOMAIN t.bucket[b],
         NEW u, Unlinked(t, b, i, u)
  PROVE  /\ TableOK(c, u) /\ u # NoTable /\ u.buckets = t.buckets
         /\ u.elements = IF u = Unlink(t, b, i) THEN t.elements ELSE t.elements - 1
         /\ u = [Unlink(t, b, i) EXCEPT !.elements = @ - 1] => u.elements = t.elements - 1
         /\ DOMAIN u.bucket = DOMAIN t.bucket
         /\ \A a \in 0 .. t.buckets - 1 : a # b => u.bucket[a] = t.bucket[a]
         /\ u.bucket[b] \in Seq(Entries) /\ Len(u.bucket[b]) = Len(t.bucket[b]) - 1
         /\ \A k \in 1 .. Len(t.bucket[b]) - 1 : u.bucket[b][k] = IF k < i THEN t.bucket[b][k] ELSE t.bucket[b][k + 1]
         /\ t.bucket[b][i] \in EntriesIn(t)
         /\ EntriesIn(u) = EntriesIn(t) \ {t.bucket[b][i]}
  <1>0. t = [hashsize |-> t.hashsize, buckets |-> t.buckets, elements |-> t.elements, bucket |-> t.bucket]
    BY Zenon DEF TableOK
  <1>1. /\ t.hashsize \in InitHashSize .. MaxHashSize
        /\ t.buckets \in Nat \ {0} /\ t.elements \in Int /\ DOMAIN t.bucket = 0 .. t.buckets - 1
        /\ \A a \in 0 .. t.buckets - 1 :
               /\ t.bucket[a] \in Seq(Entries)
               /\ \A j \in DOMAIN t.bucket[a] : EntryOK(c, t.bucket[a][j]) /\ Hash(t, t.bucket[a][j].id) = a
               /\ \A j, k \in DOMAIN t.bucket[a] : j < k => Ordered(t.bucket[a][j], t.bucket[a][k])
    BY DEF TableOK
  <1> DEFINE s == t.bucket[b]
             r == SubSeq(s, 1, i - 1) \o SubSeq(s, i + 1, Len(s))
  <1>2. /\ u = [hashsize |-> t.hashsize, buckets |-> t.buckets, elements |-> u.elements, bucket |-> [t.bucket EXCEPT ![b] = r]]
        /\ u.elements \in {t.elements, t.elements - 1}
        /\ u = Unlink(t, b, i) => u.elements = t.elements
        /\ u = [Unlink(t, b, i) EXCEPT !.elements = @ - 1] => u.elements = t.elements - 1
    <2>1. /\ Unlink(t, b, i) = [hashsize |-> t.hashsize, buckets |-> t.buckets, elements |-> t.elements,
                                bucket |-> [t.bucket EXCEPT ![b] = r]]
          /\ [Unlink(t, b, i) EXCEPT !.elements = @ - 1]
               = [hashsize |-> t.hashsize, buckets |-> t.buckets, elements |-> t.elements - 1,
                  bucket |-> [t.bucket EXCEPT ![b] = r]]
      <3>1. t = [hashsize |-> t.hashsize, buckets |-> t.buckets, elements |-> t.elements, bucket |-> t.bucket]
        BY <1>0
      <3>2. Unlink(t, b, i) = [t EXCEPT !.bucket = [t.bucket EXCEPT ![b] = r]]
        BY DEF Unlink
      <3> DEFINE C == [t.bucket EXCEPT ![b] = r]
      <3> HIDE DEF r, s, C
      <3>3. Unlink(t, b, i) = [hashsize |-> t.hashsize, buckets |-> t.buckets, elements |-> t.elements, bucket |-> C]
        BY <3>1, <3>2 DEF C
      <3>4. t.elements \in Int
        BY <1>1
      <3>5. [Unlink(t, b, i) EXCEPT !.elements = @ - 1]
              = [hashsize |-> t.hashsize, buckets |-> t.buckets, elements |-> t.elements - 1, bucket |-> C]
        BY <3>3, <3>4
      <3> QED BY <3>3, <3>5 DEF C
    <2> HIDE DEF r
    <2>2. u = Unlink(t, b, i) \/ u = [Unlink(t, b, i) EXCEPT !.elements = @ - 1]
      BY DEF Unlinked
    <2>3. CASE u = Unlink(t, b, i)
      BY <2>1, <2>3
    <2>4. CASE u = [Unlink(t, b, i) EXCEPT !.elements = @ - 1]
      BY <2>1, <2>4
    <2>5. u = [Unlink(t, b, i) EXCEPT !.elements = @ - 1] => u.elements = t.elements - 1
      BY <2>1
    <2>6. u = Unlink(t, b, i) => u.elements = t.elements
      BY <2>1
    <2> QED BY <2>2, <2>3, <2>4, <2>5, <2>6
  <1>3. s \in Seq(Entries) /\ i \in DOMAIN s
    BY <1>1
  <1> HIDE DEF r
  <1>4. r \in Seq(Entries) /\ Len(r) = Len(s) - 1 /\ \A k \in 1 .. Len(s) - 1 : r[k] = IF k < i THEN s[k] ELSE s[k + 1]
    <2>1. Len(s) \in Nat /\ i \in 1 .. Len(s)
      BY <1>3
    <2>2. /\ r \in Seq(Entries) /\ Len(r) = Len(s) - 1
          /\ \A k \in 1 .. Len(s) - 1 : (k < i => r[k] = s[k]) /\ (~(k < i) => r[k] = s[k + 1])
      <3>1. s \in Seq(Entries)
        BY <1>3
      <3> HIDE DEF s
      <3> QED BY <3>1, <2>1, OneRemoved, Zenon DEF r
    <2> HIDE DEF s, r
    <2> QED BY <2>2
  <1>5. /\ u.hashsize = t.hashsize /\ u.buckets = t.buckets /\ DOMAIN u.bucket = 0 .. t.buckets - 1 /\ u.bucket[b] = r
        /\ \A a \in 0 .. t.buckets - 1 : a # b => u.bucket[a] = t.bucket[a]
        /\ u = [hashsize |-> u.hashsize, buckets |-> u.buckets, elements |-> u.elements, bucket |-> u.bucket]
        /\ u.elements \in Int
    BY <1>1, <1>2
  <1>6. DOMAIN s = 1 .. Len(s) /\ DOMAIN r = 1 .. Len(s) - 1 /\ Len(s) \in Nat /\ i \in 1 .. Len(s)
    BY <1>3, <1>4
  <1>7. \A k \in DOMAIN r : \E j \in DOMAIN s : r[k] = s[j] /\ j = IF k < i THEN k ELSE k + 1
    BY <1>4, <1>6
  <1> HIDE DEF s
  <1>8. TableOK(c, u)
    <2>1. ASSUME NEW a \in 0 .. u.buckets - 1
          PROVE  /\ u.bucket[a] \in Seq(Entries)
                 /\ \A j \in DOMAIN u.bucket[a] : EntryOK(c, u.bucket[a][j]) /\ Hash(u, u.bucket[a][j].id) = a
                 /\ \A j, k \in DOMAIN u.bucket[a] : j < k => Ordered(u.bucket[a][j], u.bucket[a][k])
      <3>1. \A id : Hash(u, id) = Hash(t, id)
        BY <1>5 DEF Hash
      <3>2. CASE a # b
        BY <1>1, <1>5, <3>1, <3>2
      <3>3. CASE a = b
        <4>1. u.bucket[a] = r
          BY <1>5, <3>3
        <4>2. /\ \A j \in DOMAIN s : EntryOK(c, s[j]) /\ Hash(t, s[j].id) = b
              /\ \A j, k \in DOMAIN s : j < k => Ordered(s[j], s[k])
          BY <1>1, <1>5 DEF s
        <4>3. \A j \in DOMAIN r : EntryOK(c, r[j]) /\ Hash(t, r[j].id) = b
          BY <1>7, <4>2
        <4>4. ASSUME NEW j \in DOMAIN r, NEW k \in DOMAIN r, j < k PROVE Ordered(r[j], r[k])
          <5>1. PICK p \in DOMAIN s : r[j] = s[p] /\ p = IF j < i THEN j ELSE j + 1
            BY <1>7
          <5>2. PICK q \in DOMAIN s : r[k] = s[q] /\ q = IF k < i THEN k ELSE k + 1
            BY <1>7
          <5>3. p < q
            BY <1>6, <4>4, <5>1, <5>2
          <5> QED BY <4>2, <5>1, <5>2, <5>3
        <4> QED BY <1>4, <3>1, <3>3, <4>1, <4>3, <4>4
      <3> QED BY <3>2, <3>3
    <2> QED BY <1>1, <1>5, <2>1 DEF TableOK
  <1>9. u # NoTable
    BY <1>1, <1>5, NoTableIsEmpty
  <1>10. t.bucket[b][i] \in EntriesIn(t)
    BY <1>1, <1>3, EntriesAre DEF s
  <1>11. EntriesIn(u) = EntriesIn(t) \ {t.bucket[b][i]}
    <2>1. ASSUME NEW e \in EntriesIn(u) PROVE e \in EntriesIn(t) /\ e # s[i]
      <3>1. PICK a \in DOMAIN u.bucket : \E j \in DOMAIN u.bucket[a] : e = u.bucket[a][j]
        BY EntriesAre
      <3>1a. PICK j \in DOMAIN u.bucket[a] : e = u.bucket[a][j]
        BY <3>1
      <3>2. CASE a # b
        <4>1. j \in DOMAIN t.bucket[a] /\ e = t.bucket[a][j] /\ a \in DOMAIN t.bucket /\ Hash(t, e.id) = a
          BY <1>1, <1>5, <3>1, <3>1a, <3>2
        <4>2. Hash(t, s[i].id) = b
          BY <1>1, <1>6 DEF s
        <4> QED BY <3>2, <4>1, <4>2, EntriesAre
      <3>3. CASE a = b
        <4>1. j \in DOMAIN r /\ e = r[j]
          BY <1>5, <3>1a, <3>3
        <4>2. PICK p \in DOMAIN s : e = s[p] /\ p # i
          BY <1>6, <1>7, <4>1
        <4>3. e \in EntriesIn(t)
          BY <1>1, <4>2, EntriesAre DEF s
        <4>4. s[p] # s[i]
          <5>1. p < i \/ i < p
            BY <1>6, <4>2
          <5>2. Ordered(s[p], s[i]) \/ Ordered(s[i], s[p])
            BY <1>1, <1>6, <5>1 DEF s
          <5> QED BY <5>2 DEF Ordered
        <4> QED BY <4>2, <4>3, <4>4
      <3> QED BY <3>2, <3>3
    <2>2. ASSUME NEW e \in EntriesIn(t), e # s[i] PROVE e \in EntriesIn(u)
      <3>1. PICK a \in DOMAIN t.bucket : \E j \in DOMAIN t.bucket[a] : e = t.bucket[a][j]
        BY EntriesAre
      <3>1a. PICK j \in DOMAIN t.bucket[a] : e = t.bucket[a][j]
        BY <3>1
      <3>2. CASE a # b
        <4>1. a \in DOMAIN u.bucket /\ u.bucket[a] = t.bucket[a]
          BY <1>1, <1>5, <3>1, <3>2
        <4> QED BY <3>1a, <4>1, EntriesAre
      <3>3. CASE a = b
        <4>1. j \in DOMAIN s /\ j # i /\ e = s[j]
          BY <2>2, <3>1a, <3>3 DEF s
        <4> DEFINE k == IF j < i THEN j ELSE j - 1
        <4>2. k \in 1 .. Len(s) - 1 /\ r[k] = s[j]
          BY <1>4, <1>6, <4>1
        <4>3. k \in DOMAIN u.bucket[b] /\ u.bucket[b][k] = e /\ b \in DOMAIN u.bucket
          BY <1>5, <1>6, <4>1, <4>2
        <4> QED BY <4>3, EntriesAre
      <3> QED BY <3>2, <3>3
    <2> QED BY <2>1, <2>2 DEF s
  <1>12. /\ Len(t.bucket[b]) = Len(s) /\ u.bucket[b] \in Seq(Entries) /\ Len(u.bucket[b]) = Len(t.bucket[b]) - 1
         /\ \A k \in 1 .. Len(t.bucket[b]) - 1 : u.bucket[b][k] = IF k < i THEN t.bucket[b][k] ELSE t.bucket[b][k + 1]
    BY <1>4, <1>5 DEF s
  <1>13. u.elements = IF u = Unlink(t, b, i) THEN t.elements ELSE t.elements - 1
    BY <1>2 DEF Unlinked
  <1>14. DOMAIN u.bucket = DOMAIN t.bucket /\ u.buckets = t.buckets
    BY <1>1, <1>5
  <1>15. \A a \in 0 .. t.buckets - 1 : a # b => u.bucket[a] = t.bucket[a]
    BY <1>5
  <1>16. u = [Unlink(t, b, i) EXCEPT !.elements = @ - 1] => u.elements = t.elements - 1
    BY <1>2
  <1> QED BY <1>8, <1>9, <1>10, <1>11, <1>12, <1>13, <1>14, <1>15, <1>16

-----------------------------------------------------------------------------
(* All entries in their order.                                             *)

InOrderSeq(s) == \A i, j \in DOMAIN s : i < j => Ordered(s[i], s[j])

\* v is the buckets before b, one after the other.
Flat(c, t, v, b) ==
    /\ v \in Seq(Entries) /\ InOrderSeq(v)
    /\ \A i \in DOMAIN v : EntryOK(c, v[i]) /\ Hash(t, v[i].id) \in 0 .. b - 1 /\ v[i] \in EntriesIn(t)
    /\ \A a \in 0 .. b - 1 : \A k \in DOMAIN t.bucket[a] : \E i \in DOMAIN v : v[i] = t.bucket[a][k]

\* r is v and then s.
Join(r, v, s, X) ==
    /\ r \in Seq(X) /\ Len(r) = Len(v) + Len(s)
    /\ \A i \in DOMAIN v : i \in DOMAIN r /\ r[i] = v[i]
    /\ \A i \in DOMAIN s : Len(v) + i \in DOMAIN r /\ r[Len(v) + i] = s[i]
    /\ \A i \in DOMAIN r : \/ i \in DOMAIN v /\ r[i] = v[i]
                           \/ i > Len(v) /\ i - Len(v) \in DOMAIN s /\ r[i] = s[i - Len(v)]

LEMMA Joined ==
  ASSUME NEW X, NEW v \in Seq(X), NEW s \in Seq(X)
  PROVE  Join(v \o s, v, s, X)
  <1>1. /\ v \o s \in Seq(X) /\ Len(v \o s) = Len(v) + Len(s)
        /\ \A i \in 1 .. Len(v) + Len(s) : (v \o s)[i] = IF i <= Len(v) THEN v[i] ELSE s[i - Len(v)]
    BY ConcatProperties
  <1> DEFINE m == Len(v)
             n == Len(s)
             r == v \o s
  <1>2. m \in Nat /\ n \in Nat /\ DOMAIN v = 1 .. m /\ DOMAIN s = 1 .. n
    OBVIOUS
  <1>3. DOMAIN r = 1 .. m + n /\ r \in Seq(X) /\ Len(r) = m + n
    BY <1>1
  <1>4. \A i \in 1 .. m + n : r[i] = IF i <= m THEN v[i] ELSE s[i - m]
    BY <1>1
  <1> HIDE DEF m, n, r
  <1>5. ASSUME NEW i \in 1 .. m PROVE i \in 1 .. m + n /\ r[i] = v[i]
    BY <1>2, <1>4
  <1>6. ASSUME NEW i \in 1 .. n PROVE m + i \in 1 .. m + n /\ r[m + i] = s[i]
    <2>1. m + i \in 1 .. m + n /\ ~(m + i <= m) /\ (m + i) - m = i
      BY <1>2
    <2>2. r[m + i] = s[(m + i) - m]
      BY <1>4, <2>1
    <2> QED BY <2>1, <2>2
  <1>7. ASSUME NEW i \in 1 .. m + n
        PROVE  (i \in 1 .. m /\ r[i] = v[i]) \/ (i > m /\ i - m \in 1 .. n /\ r[i] = s[i - m])
    <2>1. CASE i <= m
      BY <1>2, <1>4, <2>1
    <2>2. CASE ~(i <= m)
      BY <1>2, <1>4, <2>2
    <2> QED BY <2>1, <2>2
  <1>8. Join(r, v, s, X)
    <2>1. /\ r \in Seq(X) /\ Len(r) = Len(v) + Len(s)
          /\ \A i \in DOMAIN v : i \in DOMAIN r /\ r[i] = v[i]
      BY <1>2, <1>3, <1>5 DEF m, n
    <2>2. \A i \in DOMAIN s : Len(v) + i \in DOMAIN r /\ r[Len(v) + i] = s[i]
      BY <1>2, <1>3, <1>6 DEF m, n
    <2>3. \A i \in DOMAIN r : \/ i \in DOMAIN v /\ r[i] = v[i]
                              \/ i > Len(v) /\ i - Len(v) \in DOMAIN s /\ r[i] = s[i - Len(v)]
      <3>1. \A i \in DOMAIN r : (i \in DOMAIN v /\ r[i] = v[i]) \/ (i > m /\ i - m \in DOMAIN s /\ r[i] = s[i - m])
        BY <1>2, <1>3, <1>7, Zenon
      <3> QED BY <3>1 DEF m
    <2> QED BY <2>1, <2>2, <2>3 DEF Join
  <1> QED BY <1>8 DEF r

LEMMA FlatStep ==
  ASSUME NEW c \in Clients, NEW t, TableOK(c, t), NEW b \in 1 .. t.buckets, NEW v, Flat(c, t, v, b - 1)
  PROVE  Flat(c, t, v \o t.bucket[b - 1], b)
  <1> DEFINE s == t.bucket[b - 1]
             r == v \o s
  <1>1. t.buckets \in Nat \ {0} /\ b - 1 \in 0 .. t.buckets - 1 /\ b \in Nat
    BY TableTypes, NoTableIsEmpty
  <1>2. /\ s \in Seq(Entries) /\ b - 1 \in DOMAIN t.bucket /\ InOrderSeq(s)
        /\ \A i \in DOMAIN s : EntryOK(c, s[i]) /\ Hash(t, s[i].id) = b - 1
    <2>1. t # NoTable
      BY <1>1, NoTableIsEmpty
    <2> QED BY <1>1, <2>1 DEF TableOK, InOrderSeq
  <1>3. \A i \in DOMAIN s : s[i] \in EntriesIn(t)
    BY <1>2, EntriesAre
  <1> HIDE DEF s
  <1>4. v \in Seq(Entries) /\ InOrderSeq(v)
    BY DEF Flat
  <1>5. /\ r \in Seq(Entries)
        /\ \A i \in DOMAIN v : i \in DOMAIN r /\ r[i] = v[i]
        /\ \A i \in DOMAIN s : \E j \in DOMAIN r : r[j] = s[i]
        /\ \A i \in DOMAIN r : \/ i \in DOMAIN v /\ r[i] = v[i]
                               \/ i > Len(v) /\ i - Len(v) \in DOMAIN s /\ r[i] = s[i - Len(v)]
    <2> HIDE DEF r
    <2>1. Join(r, v, s, Entries)
      BY <1>2, <1>4, Joined DEF r
    <2> QED BY <2>1 DEF Join
  <1> HIDE DEF r
  <1>6. \A i \in DOMAIN v : Hash(t, v[i].id) \in 0 .. (b - 1) - 1 /\ EntryOK(c, v[i]) /\ v[i] \in EntriesIn(t)
    BY DEF Flat
  <1>7. \A i \in DOMAIN v, j \in DOMAIN s : Ordered(v[i], s[j])
    <2> SUFFICES ASSUME NEW i \in DOMAIN v, NEW j \in DOMAIN s PROVE v[i].id # s[j].id
      BY DEF Ordered
    <2>1. Hash(t, v[i].id) \in 0 .. (b - 1) - 1 /\ Hash(t, s[j].id) = b - 1
      BY <1>2, <1>6
    <2> QED BY <1>1, <2>1
  <1>8. InOrderSeq(r)
    <2> SUFFICES ASSUME NEW i \in DOMAIN r, NEW j \in DOMAIN r, i < j PROVE Ordered(r[i], r[j])
      BY DEF InOrderSeq
    <2>0. DOMAIN v = 1 .. Len(v) /\ Len(v) \in Nat /\ i \in Int /\ j \in Int
      BY <1>4, <1>5
    <2>1. CASE j \in DOMAIN v /\ r[j] = v[j]
      <3>1. i \in DOMAIN v
        BY <1>5, <2>0, <2>1
      <3> QED BY <1>4, <1>5, <2>1, <3>1 DEF InOrderSeq
    <2>2. CASE j > Len(v) /\ j - Len(v) \in DOMAIN s /\ r[j] = s[j - Len(v)]
      <3>1. CASE i \in DOMAIN v /\ r[i] = v[i]
        BY <1>7, <2>2, <3>1
      <3>2. CASE i > Len(v) /\ i - Len(v) \in DOMAIN s /\ r[i] = s[i - Len(v)]
        <4>1. i - Len(v) < j - Len(v)
          BY <2>0
        <4> QED BY <1>2, <2>2, <3>2, <4>1 DEF InOrderSeq
      <3> QED BY <1>5, <3>1, <3>2
    <2> QED BY <1>5, <2>1, <2>2
  <1>9. ASSUME NEW i \in DOMAIN r PROVE EntryOK(c, r[i]) /\ Hash(t, r[i].id) \in 0 .. b - 1 /\ r[i] \in EntriesIn(t)
    <2>1. CASE i \in DOMAIN v /\ r[i] = v[i]
      BY <1>1, <1>6, <2>1
    <2>2. CASE i - Len(v) \in DOMAIN s /\ r[i] = s[i - Len(v)]
      BY <1>1, <1>2, <1>3, <2>2
    <2> QED BY <1>5, <2>1, <2>2
  <1>10. ASSUME NEW a \in 0 .. b - 1, NEW k \in DOMAIN t.bucket[a] PROVE \E i \in DOMAIN r : r[i] = t.bucket[a][k]
    <2>1. CASE a = b - 1
      BY <1>5, <2>1 DEF s
    <2>2. CASE a # b - 1
      <3>1. a \in 0 .. (b - 1) - 1
        BY <1>1, <2>2
      <3>2. PICK i \in DOMAIN v : v[i] = t.bucket[a][k]
        BY <3>1 DEF Flat
      <3> QED BY <1>5, <3>2
    <2> QED BY <2>1, <2>2
  <1>11. Flat(c, t, r, b)
    BY <1>5, <1>8, <1>9, <1>10 DEF Flat
  <1> QED BY <1>11 DEF r, s

LEMMA InOrderIs ==
  ASSUME NEW c \in Clients, NEW t, TableOK(c, t)
  PROVE  /\ InOrder(t) \in Seq(Entries) /\ InOrderSeq(InOrder(t))
         /\ \A i \in DOMAIN InOrder(t) : InOrder(t)[i] \in EntriesIn(t)
         /\ \A e \in EntriesIn(t) : \E i \in DOMAIN InOrder(t) : InOrder(t)[i] = e
  <1> DEFINE n == t.buckets
             X == Seq(Entries)
             Buckets(b) == IF t = NoTable THEN <<>> ELSE t.bucket[b]
             F == [p \in X \X (1 .. n) |-> p[1] \o Buckets(p[2] - 1)]
             f == CHOOSE g : g = [b \in 0 .. n |-> IF b = 0 THEN <<>> ELSE g[b - 1] \o t.bucket[b - 1]]
  <1>1. n \in Nat /\ <<>> \in X
    BY TableTypes
  <1>2. InOrder(t) = f[n]
    BY DEF InOrder
  <1>3. \A b \in 1 .. n : t.bucket[b - 1] \in X /\ Buckets(b - 1) = t.bucket[b - 1]
    <2> SUFFICES ASSUME NEW b \in 1 .. n PROVE t.bucket[b - 1] \in X /\ t # NoTable
      OBVIOUS
    <2>1. t # NoTable /\ b - 1 \in 0 .. t.buckets - 1
      BY <1>1, NoTableIsEmpty
    <2> QED BY <2>1 DEF TableOK
  <1>4. \E g \in [0 .. n -> X] : g = [b \in 0 .. n |-> IF b = 0 THEN <<>> ELSE g[b - 1] \o t.bucket[b - 1]]
    <2>1. F \in [X \X (1 .. n) -> X]
      <3>1. ASSUME NEW v \in X, NEW b \in 1 .. n PROVE v \o Buckets(b - 1) \in X
        BY <1>3
      <3> HIDE DEF X, Buckets
      <3> QED BY <3>1
    <2> HIDE DEF F, f, X
    <2>2. PICK g : Recursive(g, X, n, <<>>, F)
      BY <1>1, <2>1, RecursionExists
    <2>2a. g \in [0 .. n -> X] /\ g[0] = <<>> /\ \A b \in 1 .. n : g[b] = F[<<g[b - 1], b>>]
      BY <2>2 DEF Recursive
    <2>3. ASSUME NEW b \in 1 .. n PROVE g[b] = g[b - 1] \o t.bucket[b - 1]
      <3>1. b - 1 \in 0 .. n /\ g[b - 1] \in X
        BY <1>1, <2>2a
      <3>2. <<g[b - 1], b>> \in X \X (1 .. n)
        BY <3>1
      <3>3. F[<<g[b - 1], b>>] = g[b - 1] \o Buckets(b - 1)
        BY <3>2 DEF F
      <3> QED BY <1>3, <2>2a, <3>3
    <2>4. g = [b \in 0 .. n |-> IF b = 0 THEN <<>> ELSE g[b - 1] \o t.bucket[b - 1]]
      <3>1. \A b \in 0 .. n : g[b] = IF b = 0 THEN <<>> ELSE g[b - 1] \o t.bucket[b - 1]
        <4>1. \A b \in 0 .. n : b = 0 \/ b \in 1 .. n
          BY <1>1
        <4> QED BY <2>2a, <2>3, <4>1
      <3>2. g = [b \in 0 .. n |-> g[b]]
        BY <2>2a
      <3> QED BY <3>1, <3>2
    <2> QED BY <2>2a, <2>4
  <1>5. f = [b \in 0 .. n |-> IF b = 0 THEN <<>> ELSE f[b - 1] \o t.bucket[b - 1]]
    BY <1>4, Zenon
  <1> HIDE DEF f, F, X, Buckets
  <1>6. f[0] = <<>> /\ \A b \in 1 .. n : f[b] = f[b - 1] \o t.bucket[b - 1]
    <2>1. \A b \in 0 .. n : f[b] = IF b = 0 THEN <<>> ELSE f[b - 1] \o t.bucket[b - 1]
      BY <1>5, Zenon
    <2>2. 0 \in 0 .. n /\ \A b \in 1 .. n : b \in 0 .. n /\ b # 0
      BY <1>1
    <2> QED BY <2>1, <2>2
  <1> DEFINE S == {b \in 0 .. n : Flat(c, t, f[b], b)}
  <1>7. 0 \in S
    <2>1. <<>> \in Seq(Entries) /\ DOMAIN <<>> = {}
      OBVIOUS
    <2>2. Flat(c, t, <<>>, 0)
      BY <2>1 DEF Flat, InOrderSeq
    <2>3. 0 \in 0 .. n
      BY <1>1
    <2> QED BY <1>6, <2>2, <2>3
  <1>8. ASSUME NEW b \in 0 .. n - 1, b \in S PROVE b + 1 \in S
    <2>1. b + 1 \in 1 .. n /\ (b + 1) - 1 = b /\ b + 1 \in 0 .. n
      BY <1>1
    <2>2. Flat(c, t, f[b], (b + 1) - 1)
      BY <1>8, <2>1
    <2> HIDE DEF n
    <2>3. b + 1 \in 1 .. t.buckets
      BY <2>1 DEF n
    <2>4. Flat(c, t, f[b] \o t.bucket[(b + 1) - 1], b + 1)
      BY <2>2, <2>3, FlatStep
    <2>5. f[b + 1] = f[(b + 1) - 1] \o t.bucket[(b + 1) - 1]
      BY <1>6, <2>1
    <2> QED BY <2>1, <2>4, <2>5
  <1>9. Flat(c, t, f[n], n)
    <2> HIDE DEF S, n
    <2>1. \A b \in 0 .. n - 1 : b \in S => b + 1 \in S
      BY <1>8
    <2>2. n \in S
      BY <1>1, <1>7, <2>1, SetInduction
    <2> QED BY <2>2 DEF S
  <1>10. ASSUME NEW e \in EntriesIn(t) PROVE \E i \in DOMAIN f[n] : f[n][i] = e
    <2>1. t # NoTable /\ DOMAIN t.bucket = 0 .. t.buckets - 1
      BY NoTableIsEmpty DEF TableOK
    <2>2. PICK a \in DOMAIN t.bucket : \E k \in DOMAIN t.bucket[a] : e = t.bucket[a][k]
      BY EntriesAre
    <2> QED BY <1>9, <2>1, <2>2 DEF Flat
  <1> QED BY <1>2, <1>9, <1>10 DEF Flat

-----------------------------------------------------------------------------
(* A table with twice the buckets.                                         *)

\* The first i entries of s are in the buckets B of table d, in their order.
Moved(s, d, i, B) ==
    /\ B \in [0 .. d.buckets - 1 -> Seq(Entries)]
    /\ \A b \in 0 .. d.buckets - 1 :
          /\ \A k \in DOMAIN B[b] : \E j \in 1 .. i : B[b][k] = s[j] /\ Hash(d, s[j].id) = b
          /\ InOrderSeq(B[b])
    /\ \A j \in 1 .. i : \E k \in DOMAIN B[Hash(d, s[j].id)] : B[Hash(d, s[j].id)][k] = s[j]

LEMMA AppendIs ==
  ASSUME NEW X, NEW v \in Seq(X), NEW e \in X
  PROVE  /\ Append(v, e) \in Seq(X)
         /\ DOMAIN Append(v, e) = 1 .. Len(v) + 1 /\ DOMAIN v = 1 .. Len(v) /\ Len(v) \in Nat
         /\ \A i \in 1 .. Len(v) : Append(v, e)[i] = v[i]
         /\ Append(v, e)[Len(v) + 1] = e
  OBVIOUS

LEMMA MovedStep ==
  ASSUME NEW s \in Seq(Entries), InOrderSeq(s), NEW d, d.buckets \in Nat \ {0},
         NEW i \in 1 .. Len(s), NEW B, Moved(s, d, i - 1, B)
  PROVE  Moved(s, d, i, [B EXCEPT ![Hash(d, s[i].id)] = Append(@, s[i])])
  <1> DEFINE e == s[i]
             h == Hash(d, e.id)
             D == 0 .. d.buckets - 1
             v == B[h]
             r == Append(v, e)
             C == [B EXCEPT ![h] = r]
  <1>1. e \in Entries /\ Len(s) \in Nat /\ DOMAIN s = 1 .. Len(s) /\ i \in Nat
    OBVIOUS
  <1>2. h \in D
    <2>1. e.id \in Windows \cup AllFakeIds
      BY <1>1 DEF Entries
    <2> HIDE DEF e
    <2> QED BY <2>1, Hashing
  <1> HIDE DEF h, D
  <1>3. B \in [D -> Seq(Entries)] /\ v \in Seq(Entries)
    BY <1>2 DEF Moved, D
  <1> HIDE DEF v
  <1>4. /\ r \in Seq(Entries) /\ DOMAIN r = 1 .. Len(v) + 1 /\ DOMAIN v = 1 .. Len(v) /\ Len(v) \in Nat
        /\ \A k \in 1 .. Len(v) : r[k] = v[k]
        /\ r[Len(v) + 1] = e
    BY <1>1, <1>3, AppendIs
  <1> HIDE DEF r
  <1>5. C \in [D -> Seq(Entries)] /\ C[h] = r /\ \A b \in D : b # h => C[b] = B[b]
    BY <1>2, <1>3, <1>4
  <1> HIDE DEF C
  <1>6. /\ \A b \in D : \A k \in DOMAIN B[b] : \E j \in 1 .. i - 1 : B[b][k] = s[j] /\ Hash(d, s[j].id) = b
        /\ \A b \in D : InOrderSeq(B[b])
        /\ \A j \in 1 .. i - 1 : \E k \in DOMAIN B[Hash(d, s[j].id)] : B[Hash(d, s[j].id)][k] = s[j]
    BY DEF Moved, D
  <1>7. 1 .. i - 1 \subseteq 1 .. i /\ \A j \in 1 .. i - 1 : j < i /\ j \in DOMAIN s
    BY <1>1
  <1>8. \A k \in 1 .. Len(v) : \E j \in 1 .. i - 1 : v[k] = s[j] /\ Hash(d, s[j].id) = h
    BY <1>2, <1>4, <1>6 DEF v
  <1>9. InOrderSeq(r)
    <2> SUFFICES ASSUME NEW k \in 1 .. Len(v) + 1, NEW l \in 1 .. Len(v) + 1, k < l PROVE Ordered(r[k], r[l])
      BY <1>4 DEF InOrderSeq
    <2>1. k \in 1 .. Len(v)
      BY <1>4
    <2>2. CASE l \in 1 .. Len(v)
      <3>1. InOrderSeq(v)
        BY <1>2, <1>6 DEF v
      <3> QED BY <1>4, <2>1, <2>2, <3>1 DEF InOrderSeq
    <2>3. CASE l = Len(v) + 1
      <3>1. PICK j \in 1 .. i - 1 : v[k] = s[j]
        BY <1>8, <2>1
      <3>2. Ordered(s[j], s[i])
        BY <1>1, <1>7 DEF InOrderSeq
      <3> QED BY <1>4, <2>1, <2>3, <3>1, <3>2
    <2> QED BY <1>4, <2>2, <2>3
  <1>10. ASSUME NEW b \in D, NEW k \in DOMAIN C[b]
         PROVE  \E j \in 1 .. i : C[b][k] = s[j] /\ Hash(d, s[j].id) = b
    <2>1. CASE b # h
      <3>1. C[b] = B[b]
        BY <1>5, <2>1
      <3>2. PICK j \in 1 .. i - 1 : B[b][k] = s[j] /\ Hash(d, s[j].id) = b
        BY <1>6, <3>1
      <3>3. j \in 1 .. i
        BY <1>7
      <3> QED BY <3>1, <3>2, <3>3
    <2>2. CASE b = h /\ k = Len(v) + 1
      <3>1. C[b][k] = s[i] /\ Hash(d, s[i].id) = b /\ i \in 1 .. i
        BY <1>1, <1>4, <1>5, <2>2 DEF h
      <3> QED BY <3>1
    <2>3. CASE b = h /\ k # Len(v) + 1
      <3>1. k \in 1 .. Len(v) /\ C[b][k] = v[k]
        BY <1>4, <1>5, <2>3
      <3> QED BY <1>7, <1>8, <2>3, <3>1
    <2> QED BY <2>1, <2>2, <2>3
  <1>11. \A b \in D : InOrderSeq(C[b])
    BY <1>5, <1>6, <1>9
  <1>12. ASSUME NEW j \in 1 .. i PROVE \E k \in DOMAIN C[Hash(d, s[j].id)] : C[Hash(d, s[j].id)][k] = s[j]
    <2>1. CASE j = i
      <3>1. C[Hash(d, s[j].id)] = r /\ Len(v) + 1 \in DOMAIN r
        BY <1>4, <1>5, <2>1 DEF h
      <3> QED BY <1>4, <2>1, <3>1
    <2>2. CASE j # i
      <3>0. j \in 1 .. i - 1
        BY <1>1, <2>2
      <3> DEFINE b == Hash(d, s[j].id)
      <3>1. PICK k \in DOMAIN B[b] : B[b][k] = s[j]
        BY <1>6, <3>0
      <3>2. b \in D
        <4>0. s[j] \in Entries
          BY <1>7, <3>0
        <4>1. s[j].id \in Windows \cup AllFakeIds
          BY <4>0 DEF Entries
        <4> QED BY <4>1, Hashing DEF D
      <3> HIDE DEF b
      <3>3. CASE b = h
        <4>1. k \in DOMAIN C[b] /\ C[b][k] = s[j]
          BY <1>4, <1>5, <3>1, <3>3 DEF v
        <4> QED BY <4>1 DEF b
      <3>4. CASE b # h
        <4>1. k \in DOMAIN C[b] /\ C[b][k] = s[j]
          BY <1>5, <3>1, <3>2, <3>4
        <4> QED BY <4>1 DEF b
      <3> QED BY <3>3, <3>4
    <2> QED BY <2>1, <2>2
  <1>13. Moved(s, d, i, C)
    BY <1>5, <1>10, <1>11, <1>12 DEF Moved, D
  <1> QED BY <1>13 DEF C, r, v, h

\* RebuildTable loses no entry and adds none: each is in the bucket where it is
\* looked for then, and the entries of an ID stay in their order.
THEOREM RebuildingKeepsAll ==
  ASSUME NEW c \in Clients, NEW t, TableOK(c, t), t # NoTable, t.hashsize < MaxHashSize
  PROVE  /\ TableOK(c, RebuildTable(t)) /\ RebuildTable(t) # NoTable
         /\ EntriesIn(RebuildTable(t)) = EntriesIn(t)
  <1> DEFINE s == InOrder(t)
             d == Doubled(t)
             n == Len(s)
             D == 0 .. d.buckets - 1
             X == [D -> Seq(Entries)]
             F == [p \in X \X (1 .. n) |-> [p[1] EXCEPT ![Hash(d, s[p[2]].id)] = Append(@, s[p[2]])]]
             f == CHOOSE g : g = [i \in 0 .. n |->
                      IF i = 0 THEN d.bucket ELSE [g[i - 1] EXCEPT ![Hash(d, s[i].id)] = Append(@, s[i])]]
             u == RebuildTable(t)
  <1>1. u = [d EXCEPT !.bucket = f[n]]
    BY DEF RebuildTable
  <1>2. /\ t = [hashsize |-> t.hashsize, buckets |-> t.buckets, elements |-> t.elements, bucket |-> t.bucket]
        /\ t.hashsize \in InitHashSize .. MaxHashSize /\ t.buckets \in Nat \ {0} /\ t.elements \in Int
    BY DEF TableOK
  <1>3. d = [hashsize |-> t.hashsize + 1, buckets |-> 2 * t.buckets, elements |-> t.elements,
             bucket |-> [b \in 0 .. 2 * t.buckets - 1 |-> <<>>]]
    <2> DEFINE B0 == [b \in 0 .. 2 * t.buckets - 1 |-> <<>>]
               m == 2 * t.buckets
               h == t.hashsize + 1
    <2>1. d = [t EXCEPT !.hashsize = h, !.buckets = m, !.bucket = B0]
      BY DEF Doubled
    <2>2. t = [hashsize |-> t.hashsize, buckets |-> t.buckets, elements |-> t.elements, bucket |-> t.bucket]
      BY <1>2
    <2> HIDE DEF B0, m, h, d
    <2>3. d = [hashsize |-> h, buckets |-> m, elements |-> t.elements, bucket |-> B0]
      BY <2>1, <2>2
    <2> QED BY <2>3 DEF B0, m, h
  <1>4. /\ d.hashsize \in InitHashSize .. MaxHashSize /\ d.buckets \in Nat \ {0} /\ d.elements \in Int
        /\ d.bucket = [b \in D |-> <<>>]
    <2>1. t.hashsize + 1 \in InitHashSize .. MaxHashSize
      BY <1>2, ResourcesAssumption
    <2> QED BY <1>2, <1>3, <2>1
  <1>5. s \in Seq(Entries) /\ InOrderSeq(s) /\ n \in Nat
        /\ (\A i \in DOMAIN s : s[i] \in EntriesIn(t)) /\ (\A e \in EntriesIn(t) : \E i \in DOMAIN s : s[i] = e)
    BY InOrderIs
  <1> HIDE DEF s, d
  <1>6. d.bucket \in X
    BY <1>4
  <1>7. \E g : g = [i \in 0 .. n |->
                 IF i = 0 THEN d.bucket ELSE [g[i - 1] EXCEPT ![Hash(d, s[i].id)] = Append(@, s[i])]]
    <2>1. F \in [X \X (1 .. n) -> X]
      <3>1. ASSUME NEW B \in X, NEW i \in 1 .. n PROVE [B EXCEPT ![Hash(d, s[i].id)] = Append(@, s[i])] \in X
        <4>0. s[i] \in Entries
          BY <1>5
        <4>1. s[i] \in Entries /\ s[i].id \in Windows \cup AllFakeIds
          BY <4>0 DEF Entries
        <4> DEFINE e == s[i]
        <4>2. Hash(d, e.id) \in D
          BY <1>4, <4>1, Hashing
        <4> DEFINE h == Hash(d, e.id)
        <4> HIDE DEF e, h
        <4>3. h \in D /\ e \in Entries
          BY <4>1, <4>2 DEF e, h
        <4>4. Append(B[h], e) \in Seq(Entries)
          BY <4>3, AppendIs
        <4> DEFINE a == Append(B[h], e)
        <4> HIDE DEF a, D
        <4>5. [B EXCEPT ![h] = a] \in X
          BY <4>3, <4>4 DEF a
        <4> QED BY <4>5 DEF a, h, e
      <3> HIDE DEF X
      <3> QED BY <3>1
    <2> HIDE DEF F, f, X
    <2>2. PICK g : Recursive(g, X, n, d.bucket, F)
      <3> HIDE DEF n, D
      <3> QED BY <1>5, <1>6, <2>1, RecursionExists
    <2>3. g \in [0 .. n -> X] /\ g[0] = d.bucket /\ \A i \in 1 .. n : g[i] = F[<<g[i - 1], i>>]
      BY <2>2 DEF Recursive
    <2>4. ASSUME NEW i \in 1 .. n PROVE g[i] = [g[i - 1] EXCEPT ![Hash(d, s[i].id)] = Append(@, s[i])]
      <3>1. i - 1 \in 0 .. n /\ g[i - 1] \in X
        BY <1>5, <2>3
      <3>2. <<g[i - 1], i>> \in X \X (1 .. n)
        BY <3>1
      <3>3. F[<<g[i - 1], i>>] = [g[i - 1] EXCEPT ![Hash(d, s[i].id)] = Append(@, s[i])]
        BY <3>2 DEF F
      <3> QED BY <2>3, <3>3
    <2>5. \A i \in 0 .. n : g[i] = IF i = 0 THEN d.bucket ELSE [g[i - 1] EXCEPT ![Hash(d, s[i].id)] = Append(@, s[i])]
      <3>1. \A i \in 0 .. n : i = 0 \/ i \in 1 .. n
        BY <1>5
      <3> QED BY <2>3, <2>4, <3>1
    <2>6. g = [i \in 0 .. n |-> g[i]]
      BY <2>3
    <2>7. g = [i \in 0 .. n |->
                 IF i = 0 THEN d.bucket ELSE [g[i - 1] EXCEPT ![Hash(d, s[i].id)] = Append(@, s[i])]]
      BY <2>5, <2>6
    <2> QED BY <2>7
  <1>8. f = [i \in 0 .. n |->
                 IF i = 0 THEN d.bucket ELSE [f[i - 1] EXCEPT ![Hash(d, s[i].id)] = Append(@, s[i])]]
    BY <1>7, Zenon
  <1> HIDE DEF f, F, X
  <1>9. f[0] = d.bucket /\ \A i \in 1 .. n : f[i] = [f[i - 1] EXCEPT ![Hash(d, s[i].id)] = Append(@, s[i])]
    <2>1. \A i \in 0 .. n : f[i] = IF i = 0 THEN d.bucket ELSE [f[i - 1] EXCEPT ![Hash(d, s[i].id)] = Append(@, s[i])]
      BY <1>8, Zenon
    <2>2. 0 \in 0 .. n /\ \A i \in 1 .. n : i \in 0 .. n /\ i # 0
      BY <1>5
    <2> QED BY <2>1, <2>2
  <1> DEFINE S == {i \in 0 .. n : Moved(s, d, i, f[i])}
  <1>10. 0 \in S
    <2>1. <<>> \in Seq(Entries) /\ DOMAIN <<>> = {} /\ InOrderSeq(<<>>)
      BY DEF InOrderSeq
    <2>2. \A b \in D : d.bucket[b] = <<>>
      BY <1>4
    <2>3. Moved(s, d, 0, d.bucket)
      BY <1>6, <2>1, <2>2 DEF Moved, X
    <2>4. 0 \in 0 .. n
      BY <1>5
    <2> QED BY <1>9, <2>3, <2>4
  <1>11. ASSUME NEW i \in 0 .. n - 1, i \in S PROVE i + 1 \in S
    <2>1. i + 1 \in 1 .. n /\ (i + 1) - 1 = i /\ i + 1 \in 0 .. n
      BY <1>5
    <2>2. Moved(s, d, (i + 1) - 1, f[i])
      BY <1>11, <2>1
    <2>3. Moved(s, d, i + 1, [f[i] EXCEPT ![Hash(d, s[i + 1].id)] = Append(@, s[i + 1])])
      BY <1>4, <1>5, <2>1, <2>2, MovedStep
    <2>4. f[i + 1] = [f[(i + 1) - 1] EXCEPT ![Hash(d, s[i + 1].id)] = Append(@, s[i + 1])]
      BY <1>9, <2>1
    <2> QED BY <2>1, <2>3, <2>4
  <1>12. Moved(s, d, n, f[n])
    <2> HIDE DEF S, n
    <2>1. \A i \in 0 .. n - 1 : i \in S => i + 1 \in S
      BY <1>11
    <2>2. \A i \in 0 .. n : i \in S
      BY <1>5, <1>10, <2>1, SetInduction, Zenon
    <2>3. n \in S
      BY <1>5, <2>2
    <2> QED BY <2>3 DEF S
  <1> DEFINE B == f[n]
  <1> HIDE DEF B
  <1>13. u = [hashsize |-> d.hashsize, buckets |-> d.buckets, elements |-> d.elements, bucket |-> B]
    <2>1. d = [hashsize |-> d.hashsize, buckets |-> d.buckets, elements |-> d.elements, bucket |-> d.bucket]
      BY <1>3
    <2> HIDE DEF u
    <2> QED BY <1>1, <2>1 DEF B
  <1> HIDE DEF u
  <1>14. u.buckets = d.buckets /\ u.bucket = B /\ u.hashsize = d.hashsize /\ u.elements = d.elements
         /\ \A id : Hash(u, id) = Hash(d, id)
    BY <1>13 DEF Hash
  <1>15. /\ B \in [D -> Seq(Entries)]
         /\ \A b \in D : /\ \A k \in DOMAIN B[b] : \E j \in 1 .. n : B[b][k] = s[j] /\ Hash(d, s[j].id) = b
                         /\ InOrderSeq(B[b])
         /\ \A j \in 1 .. n : \E k \in DOMAIN B[Hash(d, s[j].id)] : B[Hash(d, s[j].id)][k] = s[j]
    BY <1>12 DEF Moved, B
  <1>16. DOMAIN s = 1 .. n
    BY <1>5
  <1>17. \A i \in DOMAIN s : EntryOK(c, s[i]) /\ Hash(d, s[i].id) \in D
    <2> SUFFICES ASSUME NEW i \in DOMAIN s PROVE EntryOK(c, s[i]) /\ Hash(d, s[i].id) \in D
      OBVIOUS
    <2>1. EntryOK(c, s[i])
      BY <1>5, TableTypes
    <2>2. s[i].id \in Windows \cup AllFakeIds
      BY <2>1 DEF EntryOK, Entries
    <2> QED BY <1>4, <2>1, <2>2, Hashing
  <1> HIDE DEF n, D
  <1>18. TableOK(c, u)
    <2>1. ASSUME NEW b \in D
          PROVE  /\ B[b] \in Seq(Entries)
                 /\ \A i \in DOMAIN B[b] : EntryOK(c, B[b][i]) /\ Hash(u, B[b][i].id) = b
                 /\ \A i, j \in DOMAIN B[b] : i < j => Ordered(B[b][i], B[b][j])
      BY <1>14, <1>15, <1>16, <1>17 DEF InOrderSeq
    <2>2. DOMAIN B = 0 .. u.buckets - 1
      BY <1>14, <1>15 DEF D
    <2>3. u = [hashsize |-> u.hashsize, buckets |-> u.buckets, elements |-> u.elements, bucket |-> u.bucket]
      BY <1>13
    <2> QED BY <1>4, <1>14, <2>1, <2>2, <2>3 DEF TableOK, D
  <1>19. u # NoTable
    BY <1>4, <1>14, NoTableIsEmpty
  <1>20. ASSUME NEW e \in EntriesIn(u) PROVE e \in EntriesIn(t)
    <2>1. PICK b \in DOMAIN u.bucket : \E k \in DOMAIN u.bucket[b] : e = u.bucket[b][k]
      BY EntriesAre
    <2> QED BY <1>5, <1>14, <1>15, <1>16, <2>1
  <1>21. ASSUME NEW e \in EntriesIn(t) PROVE e \in EntriesIn(u)
    <2>1. PICK j \in DOMAIN s : s[j] = e
      BY <1>5
    <2>2. PICK k \in DOMAIN B[Hash(d, s[j].id)] : B[Hash(d, s[j].id)][k] = e
      BY <1>15, <1>16, <2>1
    <2>3. Hash(d, s[j].id) \in DOMAIN u.bucket
      BY <1>14, <1>15, <1>17
    <2> QED BY <1>14, <2>2, <2>3, EntriesAre
  <1> QED BY <1>18, <1>19, <1>20, <1>21 DEF u

-----------------------------------------------------------------------------
(* An entry is added, and an ID is looked for.                             *)

\* The new entry goes to the head of its bucket.
LEMMA PutFirst ==
  ASSUME NEW c \in Clients, NEW t, TableOK(c, t), t # NoTable, NEW e, EntryOK(c, e),
         \A d \in EntriesIn(t) : Ordered(e, d)
  PROVE  LET u == [t EXCEPT !.elements = @ + 1, !.bucket[Hash(t, e.id)] = <<e>> \o @]
         IN  TableOK(c, u) /\ u # NoTable /\ EntriesIn(u) = EntriesIn(t) \cup {e}
  <1> DEFINE h == Hash(t, e.id)
             s == t.bucket[h]
             r == <<e>> \o s
             B == [t.bucket EXCEPT ![h] = r]
             m == t.elements + 1
             u == [t EXCEPT !.elements = @ + 1, !.bucket[Hash(t, e.id)] = <<e>> \o @]
  <1>1. /\ t = [hashsize |-> t.hashsize, buckets |-> t.buckets, elements |-> t.elements, bucket |-> t.bucket]
        /\ t.hashsize \in InitHashSize .. MaxHashSize /\ t.buckets \in Nat \ {0} /\ t.elements \in Int
        /\ DOMAIN t.bucket = 0 .. t.buckets - 1
        /\ \A b \in 0 .. t.buckets - 1 :
               /\ t.bucket[b] \in Seq(Entries)
               /\ \A i \in DOMAIN t.bucket[b] : EntryOK(c, t.bucket[b][i]) /\ Hash(t, t.bucket[b][i].id) = b
               /\ \A i, j \in DOMAIN t.bucket[b] : i < j => Ordered(t.bucket[b][i], t.bucket[b][j])
    BY DEF TableOK
  <1>2. u = [t EXCEPT !.elements = m, !.bucket = B]
    BY Zenon
  <1>3. h \in 0 .. t.buckets - 1
    BY <1>1, EntryFields, Hashing
  <1>4. e \in Entries
    BY DEF EntryOK
  <1>5. s \in Seq(Entries)
    BY <1>1, <1>3
  <1> HIDE DEF h, s, u
  <1>6. /\ r \in Seq(Entries) /\ Len(r) = Len(s) + 1 /\ r[1] = e
        /\ \A k \in 1 .. Len(s) : r[k + 1] = s[k]
    BY <1>4, <1>5, Pushed
  <1> HIDE DEF r
  <1>7. DOMAIN B = DOMAIN t.bucket /\ B[h] = r /\ \A b \in DOMAIN t.bucket : b # h => B[b] = t.bucket[b]
    BY <1>1, <1>3
  <1> HIDE DEF B
  <1>8. u = [hashsize |-> t.hashsize, buckets |-> t.buckets, elements |-> m, bucket |-> B]
    <2> HIDE DEF m
    <2> QED BY <1>1, <1>2
  <1>9. m \in Int
    BY <1>1
  <1> HIDE DEF m
  <1>10. /\ u.hashsize = t.hashsize /\ u.buckets = t.buckets /\ u.elements = m /\ u.bucket = B
         /\ u = [hashsize |-> u.hashsize, buckets |-> u.buckets, elements |-> u.elements, bucket |-> u.bucket]
    BY <1>8
  <1>11. Len(s) \in Nat /\ DOMAIN s = 1 .. Len(s) /\ DOMAIN r = 1 .. Len(s) + 1
    BY <1>5, <1>6
  <1>12. \A k \in DOMAIN r : k = 1 \/ (k - 1 \in DOMAIN s /\ r[k] = s[k - 1])
    <2> SUFFICES ASSUME NEW k \in DOMAIN r, k # 1 PROVE k - 1 \in DOMAIN s /\ r[k] = s[k - 1]
      OBVIOUS
    <2>1. k - 1 \in 1 .. Len(s) /\ (k - 1) + 1 = k
      BY <1>11
    <2> QED BY <1>6, <1>11, <2>1
  <1>13. \A k \in DOMAIN s : EntryOK(c, s[k]) /\ Hash(t, s[k].id) = h /\ s[k] \in EntriesIn(t)
    BY <1>1, <1>3, EntriesAre DEF s
  <1>14. \A i, j \in DOMAIN s : i < j => Ordered(s[i], s[j])
    BY <1>1, <1>3 DEF s
  <1>15. TableOK(c, u)
    <2>1. \A id : Hash(u, id) = Hash(t, id)
      BY <1>10 DEF Hash
    <2>2. ASSUME NEW b \in 0 .. u.buckets - 1
          PROVE  /\ u.bucket[b] \in Seq(Entries)
                 /\ \A i \in DOMAIN u.bucket[b] : EntryOK(c, u.bucket[b][i]) /\ Hash(u, u.bucket[b][i].id) = b
                 /\ \A i, j \in DOMAIN u.bucket[b] : i < j => Ordered(u.bucket[b][i], u.bucket[b][j])
      <3>1. CASE b # h
        <4>1. u.bucket[b] = t.bucket[b] /\ b \in 0 .. t.buckets - 1
          BY <1>1, <1>7, <1>10, <3>1
        <4> QED BY <1>1, <2>1, <4>1
      <3>2. CASE b = h
        <4>1. u.bucket[b] = r
          BY <1>7, <1>10, <3>2
        <4>2. \A i \in DOMAIN r : EntryOK(c, r[i]) /\ Hash(t, r[i].id) = h
          BY <1>6, <1>12, <1>13 DEF h
        <4>3. ASSUME NEW i \in DOMAIN r, NEW j \in DOMAIN r, i < j PROVE Ordered(r[i], r[j])
          <5>1. j # 1 /\ i \in Nat /\ j \in Nat
            BY <1>11, <4>3
          <5>2. j - 1 \in DOMAIN s /\ r[j] = s[j - 1]
            BY <1>12, <5>1
          <5>3. CASE i = 1
            BY <1>6, <1>13, <5>2, <5>3
          <5>4. CASE i # 1
            <6>1. i - 1 \in DOMAIN s /\ r[i] = s[i - 1]
              BY <1>12, <5>4
            <6>2. i - 1 < j - 1
              BY <4>3, <5>1
            <6> QED BY <1>14, <5>2, <6>1, <6>2
          <5> QED BY <5>3, <5>4
        <4> QED BY <1>6, <2>1, <3>2, <4>1, <4>2, <4>3
      <3> QED BY <3>1, <3>2
    <2> QED BY <1>1, <1>7, <1>9, <1>10, <2>2 DEF TableOK
  <1>16. u # NoTable
    BY <1>1, <1>10, NoTableIsEmpty
  <1>17. e \in EntriesIn(u)
    <2>1. h \in DOMAIN u.bucket /\ 1 \in DOMAIN u.bucket[h] /\ e = u.bucket[h][1]
      BY <1>1, <1>3, <1>6, <1>7, <1>10, <1>11
    <2> QED BY <2>1, EntriesAre
  <1>18. ASSUME NEW d \in EntriesIn(t) PROVE d \in EntriesIn(u)
    <2>1. PICK b \in DOMAIN t.bucket : \E i \in DOMAIN t.bucket[b] : d = t.bucket[b][i]
      BY EntriesAre
    <2>2. PICK i \in DOMAIN t.bucket[b] : d = t.bucket[b][i]
      BY <2>1
    <2>3. CASE b # h
      BY <1>7, <1>10, <2>2, <2>3, EntriesAre
    <2>4. CASE b = h
      <3>1. i \in 1 .. Len(s) /\ d = s[i]
        BY <1>11, <2>2, <2>4 DEF s
      <3>2. i + 1 \in DOMAIN r /\ r[i + 1] = d
        BY <1>6, <1>11, <3>1
      <3>3. b \in DOMAIN u.bucket /\ u.bucket[b] = r
        BY <1>7, <1>10, <2>4
      <3> QED BY <3>2, <3>3, EntriesAre
    <2> QED BY <2>3, <2>4
  <1>19. ASSUME NEW d \in EntriesIn(u) PROVE d \in EntriesIn(t) \cup {e}
    <2>1. PICK b \in DOMAIN u.bucket : \E i \in DOMAIN u.bucket[b] : d = u.bucket[b][i]
      BY EntriesAre
    <2>2. PICK i \in DOMAIN u.bucket[b] : d = u.bucket[b][i]
      BY <2>1
    <2>3. CASE b # h
      BY <1>7, <1>10, <2>2, <2>3, EntriesAre
    <2>4. CASE b = h
      <3>1. i \in DOMAIN r /\ d = r[i]
        BY <1>7, <1>10, <2>2, <2>4
      <3> QED BY <1>6, <1>12, <1>13, <3>1
    <2> QED BY <2>3, <2>4
  <1>20. EntriesIn(u) = EntriesIn(t) \cup {e}
    BY <1>17, <1>18, <1>19
  <1> QED BY <1>15, <1>16, <1>20 DEF u

LEMMA Adding ==
  ASSUME NEW c \in Clients, NEW t, TableOK(c, t), t # NoTable, NEW id, NEW type, NEW w,
         EntryOK(c, EntryOf(id, type, w)), \A d \in EntriesIn(t) : Ordered(EntryOf(id, type, w), d)
  PROVE  /\ TableOK(c, AddResource(t, id, type, w)) /\ AddResource(t, id, type, w) # NoTable
         /\ EntriesIn(AddResource(t, id, type, w)) = EntriesIn(t) \cup {EntryOf(id, type, w)}
  <1> DEFINE e == [id |-> id, type |-> type, win |-> w]
             r == IF t.elements >= Load * t.buckets /\ t.hashsize < MaxHashSize THEN RebuildTable(t) ELSE t
             u == [r EXCEPT !.elements = @ + 1, !.bucket[Hash(r, e.id)] = <<e>> \o @]
  <1>1. TableOK(c, r) /\ r # NoTable /\ EntriesIn(r) = EntriesIn(t)
    BY RebuildingKeepsAll
  <1>2. AddResource(t, id, type, w) = u
    BY DEF AddResource
  <1>3. e = EntryOf(id, type, w)
    BY DEF EntryOf
  <1> HIDE DEF r, e
  <1>4. TableOK(c, u) /\ u # NoTable /\ EntriesIn(u) = EntriesIn(r) \cup {e}
    BY <1>1, <1>3, PutFirst
  <1> QED BY <1>1, <1>2, <1>3, <1>4

LEMMA NewTableIs ==
  ASSUME NEW c \in Clients
  PROVE  TableOK(c, NewTable) /\ NewTable # NoTable /\ EntriesIn(NewTable) = {}
  <1>1. /\ NewTable.hashsize = InitHashSize /\ NewTable.buckets = InitBuckets /\ NewTable.elements = 0
        /\ NewTable.bucket = [b \in 0 .. InitBuckets - 1 |-> <<>>]
        /\ NewTable = [hashsize |-> NewTable.hashsize, buckets |-> NewTable.buckets,
                       elements |-> NewTable.elements, bucket |-> NewTable.bucket]
    BY DEF NewTable
  <1>2. <<>> \in Seq(Entries) /\ DOMAIN <<>> = {}
    OBVIOUS
  <1>3. InitHashSize \in InitHashSize .. MaxHashSize /\ InitBuckets \in Nat \ {0}
    BY ResourcesAssumption
  <1>4. TableOK(c, NewTable)
    BY <1>1, <1>2, <1>3 DEF TableOK
  <1>5. NewTable # NoTable
    BY <1>1, <1>3, NoTableIsEmpty
  <1>6. EntriesIn(NewTable) = {}
    BY <1>1, <1>2, EntriesAre
  <1> QED BY <1>4, <1>5, <1>6

\* Two entries of one ID are the list of RandR selections on a window and the window.
LEMMA SameId ==
  ASSUME NEW c \in Clients, NEW t, TableOK(c, t), NEW d \in EntriesIn(t), NEW e \in EntriesIn(t), d.id = e.id, d # e
  PROVE  IsOwn(d.id) /\ {d.type, e.type} = {"RREvent", "Window"}
  <1>1. EntryOK(c, d) /\ EntryOK(c, e)
    BY TableTypes
  <1>2. d.id \in Windows \cup AllFakeIds
    BY <1>1 DEF EntryOK, Entries
  <1> DEFINE b == BucketOf(t, d.id)
  <1>3. /\ b \in Seq(Entries)
        /\ \A x \in EntriesIn(t) : x.id = d.id => \E i \in DOMAIN b : x = b[i]
        /\ \A i, j \in DOMAIN b : i < j => Ordered(b[i], b[j])
    BY <1>2, InItsBucket
  <1> HIDE DEF b
  <1>4. PICK i \in DOMAIN b : d = b[i]
    BY <1>3
  <1>5. PICK j \in DOMAIN b : e = b[j]
    BY <1>3
  <1>6. i < j \/ j < i
    BY <1>3, <1>4, <1>5
  <1>7. Ordered(d, e) \/ Ordered(e, d)
    BY <1>3, <1>4, <1>5, <1>6
  <1>8. {d.type, e.type} = {"RREvent", "Window"}
    BY <1>7 DEF Ordered
  <1>9. d.type \in {"RREvent", "Window"}
    BY <1>8
  <1> QED BY <1>1, <1>8, <1>9 DEF EntryOK

-----------------------------------------------------------------------------
(* Scans.                                                                  *)

\* A scan that goes on finds the first entry of its ID that is left, ...
LEMMA ScanFinds ==
  ASSUME NEW f, f.id \in Windows \cup AllFakeIds, TableOK(Owner(f.id), table[Owner(f.id)]), ScanOK(f),
         NEW i \in DOMAIN BucketOf(table[Owner(f.id)], f.id), FoundAt(f, BucketOf(table[Owner(f.id)], f.id), i)
  PROVE  /\ BucketOf(table[Owner(f.id)], f.id)[i].id = f.id
         /\ \A k \in 1 .. i - 1 : BucketOf(table[Owner(f.id)], f.id)[k].id # f.id
  <1> DEFINE t == table[Owner(f.id)]
             b == BucketOf(t, f.id)
             prev == ScanFrom(f, t)
             hits == {k \in DOMAIN b : b[k].id = f.id /\ (prev = TheHead \/ \E j \in 1 .. k - 1 : b[j] = prev)}
  <1>0. Owner(f.id) \in Clients
    BY AllIds
  <1>1. b \in Seq(Entries)
    BY <1>0, InItsBucket
  <1>2. i \in hits /\ \A k \in hits : i <= k
    BY DEF FoundAt
  <1>3. prev = TheHead \/ \E j \in DOMAIN b : b[j] = prev /\ \A k \in 1 .. j : b[k].id # f.id
    BY DEF ScanOK, ScanAt, ScanFrom
  <1> HIDE DEF b, prev
  <1>4. DOMAIN b = 1 .. Len(b) /\ Len(b) \in Nat /\ i \in 1 .. Len(b) /\ b[i].id = f.id
    BY <1>1, <1>2
  <1>5. ASSUME NEW k \in 1 .. i - 1, b[k].id = f.id PROVE FALSE
    <2>1. k \in DOMAIN b /\ k < i
      BY <1>4
    <2>2. k \notin hits
      BY <1>2, <1>4, <2>1
    <2>3. CASE prev = TheHead
      BY <1>5, <2>1, <2>2, <2>3
    <2>4. CASE \E j \in DOMAIN b : b[j] = prev /\ \A l \in 1 .. j : b[l].id # f.id
      <3>1. PICK j \in DOMAIN b : b[j] = prev /\ \A l \in 1 .. j : b[l].id # f.id
        BY <2>4
      <3>2. k \notin 1 .. j
        BY <1>5, <3>1
      <3>3. j \in 1 .. k - 1
        BY <1>4, <3>2
      <3>4. k \in hits
        BY <1>5, <2>1, <3>1, <3>3
      <3> QED BY <2>2, <3>4
    <2> QED BY <1>3, <2>3, <2>4
  <1>6. \A k \in 1 .. i - 1 : b[k].id # f.id
    BY <1>5
  <1> QED BY <1>4, <1>6 DEF b

\* ... and one that finds nothing leaves nothing.
LEMMA ScanEnds ==
  ASSUME NEW f, f.id \in Windows \cup AllFakeIds, TableOK(Owner(f.id), table[Owner(f.id)]), ScanOK(f),
         \A i \in DOMAIN BucketOf(table[Owner(f.id)], f.id) : ~FoundAt(f, BucketOf(table[Owner(f.id)], f.id), i)
  PROVE  ~Holds(table[Owner(f.id)], f.id)
  <1> DEFINE t == table[Owner(f.id)]
             b == BucketOf(t, f.id)
             prev == ScanFrom(f, t)
             hits == {k \in DOMAIN b : b[k].id = f.id /\ (prev = TheHead \/ \E j \in 1 .. k - 1 : b[j] = prev)}
  <1>0. Owner(f.id) \in Clients
    BY AllIds
  <1>1. b \in Seq(Entries) /\ \A e \in EntriesIn(t) : e.id = f.id => \E i \in DOMAIN b : e = b[i]
    BY <1>0, InItsBucket
  <1>2. hits = {}
    <2>1. ASSUME hits # {} PROVE FALSE
      <3>1. hits \in SUBSET Nat
        BY <1>1
      <3>2. PICK i \in hits : \A k \in hits : i <= k
        BY <2>1, <3>1, LeastOf
      <3>3. i \in DOMAIN b /\ FoundAt(f, b, i)
        BY <3>2 DEF FoundAt
      <3> QED BY <3>3
    <2> QED BY <2>1
  <1>3. prev = TheHead \/ \E j \in DOMAIN b : b[j] = prev /\ \A k \in 1 .. j : b[k].id # f.id
    BY DEF ScanOK, ScanAt, ScanFrom
  <1>4. ASSUME Holds(t, f.id) PROVE FALSE
    <2>1. PICK e \in EntriesIn(t) : e.id = f.id
      BY <1>4 DEF Holds
    <2>2. PICK k \in DOMAIN b : b[k].id = f.id
      BY <1>1, <2>1
    <2> HIDE DEF b, prev
    <2>3. DOMAIN b = 1 .. Len(b) /\ Len(b) \in Nat
      BY <1>1
    <2>4. CASE prev = TheHead
      BY <1>2, <2>2, <2>4
    <2>5. CASE \E j \in DOMAIN b : b[j] = prev /\ \A l \in 1 .. j : b[l].id # f.id
      <3>1. PICK j \in DOMAIN b : b[j] = prev /\ \A l \in 1 .. j : b[l].id # f.id
        BY <2>5
      <3>2. k \notin 1 .. j
        BY <2>2, <3>1
      <3>3. j \in 1 .. k - 1
        BY <2>3, <3>2
      <3> QED BY <1>2, <2>2, <3>1, <3>3
    <2> QED BY <1>3, <2>4, <2>5
  <1> QED BY <1>4

-----------------------------------------------------------------------------
(* Fake IDs.                                                               *)

LEMMA Available ==
  ASSUME NEW c, NEW t, NEW lo \in Nat, NEW hi \in Int, NEW good \in Int, good = NoId \/ UnusedFake(c, t, good)
  PROVE  LET g == AvailableID(c, t, lo, hi, good)
         IN  \/ g = NoId /\ \A n \in lo .. hi : ~UnusedFake(c, t, n)
             \/ g # NoId /\ g \in lo .. hi /\ UnusedFake(c, t, g)
  <1> DEFINE unused == {n \in lo .. hi : ~Holds(t, <<c, "fake", n>>)}
             g == AvailableID(c, t, lo, hi, good)
  <1>0. NoId \notin lo .. hi
    BY DEF NoId
  <1>1. CASE good # NoId /\ good \in lo .. hi
    <2>1. g = good
      BY <1>1 DEF AvailableID
    <2> QED BY <1>1, <2>1
  <1>2. CASE ~(good # NoId /\ good \in lo .. hi) /\ unused = {}
    <2>1. g = NoId
      BY <1>2 DEF AvailableID
    <2>2. \A n \in lo .. hi : ~UnusedFake(c, t, n)
      BY <1>2 DEF UnusedFake
    <2> QED BY <2>1, <2>2
  <1>3. CASE ~(good # NoId /\ good \in lo .. hi) /\ unused # {}
    <2>1. g = CHOOSE n \in unused : \A m \in unused : n <= m
      BY <1>3 DEF AvailableID
    <2>2. unused \in SUBSET Nat
      OBVIOUS
    <2>3. \E n \in unused : \A m \in unused : n <= m
      <3> HIDE DEF unused
      <3> QED BY <1>3, <2>2, LeastOf
    <2>4. g \in unused
      BY <2>1, <2>3
    <2> QED BY <1>0, <2>4 DEF UnusedFake
  <1> QED BY <1>1, <1>2, <1>3

\* What the loop does with an entry.
CutOff(c, t, r, e) ==
    LET n    == e.id[3]
        low  == n - r.lo >= r.hi - n
        good == IF low THEN AvailableID(c, t, r.lo, n - 1, r.good)
                       ELSE AvailableID(c, t, n + 1, r.hi, r.good)
    IN  IF e.id[2] = "own" \/ n \notin r.lo .. r.hi THEN r
        ELSE IF low = (good # NoId)
        THEN [r EXCEPT !.hi = n - 1, !.good = good]
        ELSE [r EXCEPT !.lo = n + 1, !.good = good]

\* A range from which something is left.
Leaves(c, t, r) ==
    /\ r \in [lo : 0 .. FakeRange, hi : -1 .. FakeRange - 1, good : Int]
    /\ \E n \in r.lo .. r.hi : UnusedFake(c, t, n)
    /\ r.good = NoId \/ (r.good \in r.lo .. r.hi /\ UnusedFake(c, t, r.good))

LEMMA CutOffLeaves ==
  ASSUME NEW c \in Clients, NEW t, TableOK(c, t), NEW r, Leaves(c, t, r), NEW e \in EntriesIn(t)
  PROVE  LET q == CutOff(c, t, r, e)
         IN  /\ Leaves(c, t, q) /\ q.lo .. q.hi \subseteq r.lo .. r.hi
             /\ e.id[2] = "fake" => e.id[3] \notin q.lo .. q.hi
  <1> DEFINE n == e.id[3]
             low == n - r.lo >= r.hi - n
             good == IF low THEN AvailableID(c, t, r.lo, n - 1, r.good) ELSE AvailableID(c, t, n + 1, r.hi, r.good)
             q == CutOff(c, t, r, e)
  <1>1. /\ FakeRange \in Nat /\ r.lo \in 0 .. FakeRange /\ r.hi \in -1 .. FakeRange - 1 /\ r.good \in Int
        /\ r = [lo |-> r.lo, hi |-> r.hi, good |-> r.good]
        /\ r.good = NoId \/ UnusedFake(c, t, r.good)
    BY ResourcesAssumption DEF Leaves
  <1>2. CASE e.id[2] = "own" \/ n \notin r.lo .. r.hi
    <2>1. q = r
      BY <1>2 DEF CutOff
    <2> QED BY <1>2, <2>1
  <1>3. CASE ~(e.id[2] = "own" \/ n \notin r.lo .. r.hi)
    <2>0. n \in r.lo .. r.hi /\ n \in 0 .. FakeRange - 1 /\ n \in Int
      BY <1>1, <1>3
    <2>1. EntryOK(c, e)
      BY TableTypes
    <2>2. e.id = <<c, "fake", n>>
      BY <1>3, <2>1, EntryFields, FakeIdsAre DEF IsOwn
    <2>3. ~UnusedFake(c, t, n)
      BY <2>2 DEF UnusedFake, Holds
    <2>4. q = IF low = (good # NoId) THEN [r EXCEPT !.hi = n - 1, !.good = good]
                                     ELSE [r EXCEPT !.lo = n + 1, !.good = good]
      BY <1>3 DEF CutOff
    <2>5. PICK m \in r.lo .. r.hi : UnusedFake(c, t, m)
      BY DEF Leaves
    <2>6. m # n
      BY <2>3, <2>5
    <2> HIDE DEF n, q
    <2>7. low => \/ good = NoId /\ \A x \in r.lo .. n - 1 : ~UnusedFake(c, t, x)
                 \/ good # NoId /\ good \in r.lo .. n - 1 /\ UnusedFake(c, t, good)
      <3> SUFFICES ASSUME low PROVE \/ good = NoId /\ \A x \in r.lo .. n - 1 : ~UnusedFake(c, t, x)
                                    \/ good # NoId /\ good \in r.lo .. n - 1 /\ UnusedFake(c, t, good)
        OBVIOUS
      <3>1. good = AvailableID(c, t, r.lo, n - 1, r.good)
        OBVIOUS
      <3>2. r.lo \in Nat /\ n - 1 \in Int
        BY <1>1, <2>0
      <3> HIDE DEF good, low
      <3> QED BY <1>1, <3>1, <3>2, Available
    <2>8. ~low => \/ good = NoId /\ \A x \in n + 1 .. r.hi : ~UnusedFake(c, t, x)
                  \/ good # NoId /\ good \in n + 1 .. r.hi /\ UnusedFake(c, t, good)
      <3> SUFFICES ASSUME ~low PROVE \/ good = NoId /\ \A x \in n + 1 .. r.hi : ~UnusedFake(c, t, x)
                                     \/ good # NoId /\ good \in n + 1 .. r.hi /\ UnusedFake(c, t, good)
        OBVIOUS
      <3>1. good = AvailableID(c, t, n + 1, r.hi, r.good)
        OBVIOUS
      <3>2. n + 1 \in Nat /\ r.hi \in Int
        BY <1>1, <2>0
      <3> HIDE DEF good, low
      <3> QED BY <1>1, <3>1, <3>2, Available
    <2> HIDE DEF low, good
    <2>9. good \in Int
      BY <1>1, <2>0, <2>7, <2>8 DEF NoId
    <2>9a. low \in BOOLEAN
      BY DEF low
    <2>10. CASE low /\ good # NoId
      <3>1. q = [lo |-> r.lo, hi |-> n - 1, good |-> good]
        <4>1. q = [r EXCEPT !.hi = n - 1, !.good = good]
          BY <2>4, <2>10
        <4> QED BY <1>1, <4>1
      <3>2. q.lo = r.lo /\ q.hi = n - 1 /\ q.good = good
        BY <3>1
      <3>4. q \in [lo : 0 .. FakeRange, hi : -1 .. FakeRange - 1, good : Int]
        BY <1>1, <2>0, <2>9, <3>1
      <3>5. \E x \in q.lo .. q.hi : UnusedFake(c, t, x)
        BY <2>5, <2>10, <3>2, <2>7
      <3>6. q.good = NoId \/ (q.good \in q.lo .. q.hi /\ UnusedFake(c, t, q.good))
        BY <2>10, <3>2, <2>7
      <3>7. q.lo .. q.hi \subseteq r.lo .. r.hi /\ n \notin q.lo .. q.hi
        BY <1>1, <2>0, <3>2
      <3>8. Leaves(c, t, q)
        BY <3>4, <3>5, <3>6 DEF Leaves
      <3> QED BY <3>7, <3>8 DEF n, q
    <2>11. CASE low /\ good = NoId
      <3>1. q = [lo |-> n + 1, hi |-> r.hi, good |-> good]
        <4>1. q = [r EXCEPT !.lo = n + 1, !.good = good]
          BY <2>4, <2>11
        <4> QED BY <1>1, <4>1
      <3>2. q.lo = n + 1 /\ q.hi = r.hi /\ q.good = good
        BY <3>1
      <3>3. m \in n + 1 .. r.hi
        BY <1>1, <2>0, <2>5, <2>6, <2>7, <2>11
      <3>4. q \in [lo : 0 .. FakeRange, hi : -1 .. FakeRange - 1, good : Int]
        BY <1>1, <2>0, <2>9, <3>1
      <3>5. \E x \in q.lo .. q.hi : UnusedFake(c, t, x)
        BY <2>5, <2>11, <3>2, <3>3
      <3>6. q.good = NoId \/ (q.good \in q.lo .. q.hi /\ UnusedFake(c, t, q.good))
        BY <2>11, <3>2, <3>3
      <3>7. q.lo .. q.hi \subseteq r.lo .. r.hi /\ n \notin q.lo .. q.hi
        BY <1>1, <2>0, <3>2
      <3>8. Leaves(c, t, q)
        BY <3>4, <3>5, <3>6 DEF Leaves
      <3> QED BY <3>7, <3>8 DEF n, q
    <2>12. CASE ~low /\ good # NoId
      <3>1. q = [lo |-> n + 1, hi |-> r.hi, good |-> good]
        <4>1. q = [r EXCEPT !.lo = n + 1, !.good = good]
          BY <2>4, <2>9a, <2>12
        <4> QED BY <1>1, <4>1
      <3>2. q.lo = n + 1 /\ q.hi = r.hi /\ q.good = good
        BY <3>1
      <3>4. q \in [lo : 0 .. FakeRange, hi : -1 .. FakeRange - 1, good : Int]
        BY <1>1, <2>0, <2>9, <3>1
      <3>5. \E x \in q.lo .. q.hi : UnusedFake(c, t, x)
        BY <2>5, <2>12, <3>2, <2>8
      <3>6. q.good = NoId \/ (q.good \in q.lo .. q.hi /\ UnusedFake(c, t, q.good))
        BY <2>12, <3>2, <2>8
      <3>7. q.lo .. q.hi \subseteq r.lo .. r.hi /\ n \notin q.lo .. q.hi
        BY <1>1, <2>0, <3>2
      <3>8. Leaves(c, t, q)
        BY <3>4, <3>5, <3>6 DEF Leaves
      <3> QED BY <3>7, <3>8 DEF n, q
    <2>13. CASE ~low /\ good = NoId
      <3>1. q = [lo |-> r.lo, hi |-> n - 1, good |-> good]
        <4>1. q = [r EXCEPT !.hi = n - 1, !.good = good]
          BY <2>4, <2>9a, <2>13
        <4> QED BY <1>1, <4>1
      <3>2. q.lo = r.lo /\ q.hi = n - 1 /\ q.good = good
        BY <3>1
      <3>3. m \in r.lo .. n - 1
        BY <1>1, <2>0, <2>5, <2>6, <2>8, <2>13
      <3>4. q \in [lo : 0 .. FakeRange, hi : -1 .. FakeRange - 1, good : Int]
        BY <1>1, <2>0, <2>9, <3>1
      <3>5. \E x \in q.lo .. q.hi : UnusedFake(c, t, x)
        BY <2>5, <2>13, <3>2, <3>3
      <3>6. q.good = NoId \/ (q.good \in q.lo .. q.hi /\ UnusedFake(c, t, q.good))
        BY <2>13, <3>2, <3>3
      <3>7. q.lo .. q.hi \subseteq r.lo .. r.hi /\ n \notin q.lo .. q.hi
        BY <1>1, <2>0, <3>2
      <3>8. Leaves(c, t, q)
        BY <3>4, <3>5, <3>6 DEF Leaves
      <3> QED BY <3>7, <3>8 DEF n, q
    <2> QED BY <2>9a, <2>10, <2>11, <2>12, <2>13 DEF q
  <1> QED BY <1>2, <1>3

\* The range that is left when all entries have been cut off.
LEMMA XIDRange ==
  ASSUME NEW c \in Clients, NEW t, TableOK(c, t), \E n \in 0 .. FakeRange - 1 : UnusedFake(c, t, n)
  PROVE  LET r == GetXIDRange(c, t)
         IN  /\ r.lo \in 0 .. FakeRange - 1 /\ r.hi \in 0 .. FakeRange - 1 /\ r.lo <= r.hi
             /\ \A n \in r.lo .. r.hi : UnusedFake(c, t, n)
  <1> DEFINE s == InOrder(t)
             n == Len(s)
             r0 == [lo |-> 0, hi |-> FakeRange - 1, good |-> NoId]
             X == {r \in [lo : 0 .. FakeRange, hi : -1 .. FakeRange - 1, good : Int] : Leaves(c, t, r)}
             F == [p \in X \X (1 .. n) |-> CutOff(c, t, p[1], s[p[2]])]
             f == CHOOSE g : g = [i \in 0 .. n |-> IF i = 0 THEN r0 ELSE CutOff(c, t, g[i - 1], s[i])]
  <1>1. GetXIDRange(c, t) = f[n]
    BY Zenon DEF GetXIDRange, CutOff
  <1>2. /\ s \in Seq(Entries) /\ n \in Nat
        /\ \A i \in DOMAIN s : s[i] \in EntriesIn(t)
        /\ \A e \in EntriesIn(t) : \E i \in DOMAIN s : s[i] = e
    BY InOrderIs
  <1>3. DOMAIN s = 1 .. n
    BY <1>2
  <1> HIDE DEF s, n
  <1>4. r0 \in X
    <2>1. FakeRange \in Nat \ {0}
      BY ResourcesAssumption
    <2>2. r0 \in [lo : 0 .. FakeRange, hi : -1 .. FakeRange - 1, good : Int]
      BY <2>1 DEF NoId
    <2>3. Leaves(c, t, r0)
      BY <2>2 DEF Leaves
    <2> QED BY <2>2, <2>3
  <1>5. \A r \in X : Leaves(c, t, r)
    OBVIOUS
  <1>6. ASSUME NEW r \in X, NEW i \in 1 .. n
        PROVE  /\ CutOff(c, t, r, s[i]) \in X
               /\ CutOff(c, t, r, s[i]).lo .. CutOff(c, t, r, s[i]).hi \subseteq r.lo .. r.hi
               /\ s[i].id[2] = "fake" => s[i].id[3] \notin CutOff(c, t, r, s[i]).lo .. CutOff(c, t, r, s[i]).hi
    <2> DEFINE q == CutOff(c, t, r, s[i])
    <2>1. /\ Leaves(c, t, q) /\ q.lo .. q.hi \subseteq r.lo .. r.hi
          /\ s[i].id[2] = "fake" => s[i].id[3] \notin q.lo .. q.hi
      BY <1>2, <1>3, <1>5, CutOffLeaves
    <2> HIDE DEF q
    <2>2. q \in X
      BY <2>1 DEF Leaves
    <2> QED BY <2>1, <2>2 DEF q
  <1> HIDE DEF X, r0
  <1>7. \E g : g = [i \in 0 .. n |-> IF i = 0 THEN r0 ELSE CutOff(c, t, g[i - 1], s[i])]
    <2>1. F \in [X \X (1 .. n) -> X]
      BY <1>6
    <2> HIDE DEF F, f
    <2>2. PICK g : Recursive(g, X, n, r0, F)
      BY <1>2, <1>4, <2>1, RecursionExists
    <2>3. g \in [0 .. n -> X] /\ g[0] = r0 /\ \A i \in 1 .. n : g[i] = F[<<g[i - 1], i>>]
      BY <2>2 DEF Recursive
    <2>4. ASSUME NEW i \in 1 .. n PROVE g[i] = CutOff(c, t, g[i - 1], s[i])
      <3>1. i - 1 \in 0 .. n /\ g[i - 1] \in X
        BY <1>2, <2>3
      <3>2. <<g[i - 1], i>> \in X \X (1 .. n)
        BY <3>1
      <3>3. F[<<g[i - 1], i>>] = CutOff(c, t, g[i - 1], s[i])
        BY <3>2 DEF F
      <3> QED BY <2>3, <3>3
    <2>5. \A i \in 0 .. n : g[i] = IF i = 0 THEN r0 ELSE CutOff(c, t, g[i - 1], s[i])
      <3>1. \A i \in 0 .. n : i = 0 \/ i \in 1 .. n
        BY <1>2
      <3> QED BY <2>3, <2>4, <3>1
    <2>6. g = [i \in 0 .. n |-> g[i]]
      BY <2>3
    <2>7. g = [i \in 0 .. n |-> IF i = 0 THEN r0 ELSE CutOff(c, t, g[i - 1], s[i])]
      BY <2>5, <2>6
    <2> QED BY <2>7
  <1>8. f = [i \in 0 .. n |-> IF i = 0 THEN r0 ELSE CutOff(c, t, f[i - 1], s[i])]
    BY <1>7, Zenon
  <1> HIDE DEF f, F
  <1>9. f[0] = r0 /\ \A i \in 1 .. n : f[i] = CutOff(c, t, f[i - 1], s[i])
    <2>1. \A i \in 0 .. n : f[i] = IF i = 0 THEN r0 ELSE CutOff(c, t, f[i - 1], s[i])
      BY <1>8, Zenon
    <2>2. 0 \in 0 .. n /\ \A i \in 1 .. n : i \in 0 .. n /\ i # 0
      BY <1>2
    <2> QED BY <2>1, <2>2
  <1> DEFINE Inv(i) == /\ f[i] \in X
                       /\ \A j \in 1 .. i : s[j].id[2] = "fake" => s[j].id[3] \notin f[i].lo .. f[i].hi
             S == {i \in 0 .. n : Inv(i)}
  <1>10. 0 \in S
    <2>1. 0 \in 0 .. n
      BY <1>2
    <2>2. Inv(0)
      BY <1>4, <1>9
    <2> QED BY <2>1, <2>2
  <1>11. ASSUME NEW i \in 0 .. n - 1, i \in S PROVE i + 1 \in S
    <2>1. i + 1 \in 1 .. n /\ (i + 1) - 1 = i /\ i + 1 \in 0 .. n
      BY <1>2
    <2>2. Inv(i)
      BY <1>11
    <2>3. f[i + 1] = CutOff(c, t, f[i], s[i + 1])
      BY <1>9, <2>1
    <2>4. /\ f[i + 1] \in X /\ f[i + 1].lo .. f[i + 1].hi \subseteq f[i].lo .. f[i].hi
          /\ s[i + 1].id[2] = "fake" => s[i + 1].id[3] \notin f[i + 1].lo .. f[i + 1].hi
      BY <1>6, <2>1, <2>2, <2>3
    <2>5. \A j \in 1 .. i + 1 : j = i + 1 \/ j \in 1 .. i
      BY <2>1
    <2>6. ASSUME NEW j \in 1 .. i + 1, s[j].id[2] = "fake" PROVE s[j].id[3] \notin f[i + 1].lo .. f[i + 1].hi
      <3>1. CASE j = i + 1
        BY <2>4, <2>6, <3>1
      <3>2. CASE j \in 1 .. i
        <4>1. s[j].id[3] \notin f[i].lo .. f[i].hi
          BY <2>2, <2>6, <3>2
        <4> QED BY <2>4, <4>1
      <3> QED BY <2>5, <3>1, <3>2
    <2>7. Inv(i + 1)
      BY <2>4, <2>6
    <2> QED BY <2>1, <2>7
  <1>12. Inv(n)
    <2> HIDE DEF S
    <2>1. \A i \in 0 .. n - 1 : i \in S => i + 1 \in S
      BY <1>11
    <2>2. \A i \in 0 .. n : i \in S
      BY <1>2, <1>10, <2>1, SetInduction, Zenon
    <2>3. n \in S
      BY <1>2, <2>2
    <2> QED BY <2>3 DEF S
  <1> DEFINE r == f[n]
  <1> HIDE DEF r
  <1>13. Leaves(c, t, r) /\ r.lo \in Int /\ r.hi \in Int
    <2>1. r \in X
      BY <1>12 DEF r
    <2> QED BY <1>5, <2>1 DEF X
  <1>14. \E m \in r.lo .. r.hi : UnusedFake(c, t, m)
    BY <1>13 DEF Leaves
  <1>15. FakeRange \in Nat /\ r.lo \in 0 .. FakeRange /\ r.hi \in -1 .. FakeRange - 1
    BY <1>13, ResourcesAssumption DEF Leaves
  <1>16. r.lo \in 0 .. FakeRange - 1 /\ r.hi \in 0 .. FakeRange - 1 /\ r.lo <= r.hi
    BY <1>14, <1>15
  <1>17. ASSUME NEW m \in r.lo .. r.hi, ~UnusedFake(c, t, m) PROVE FALSE
    <2>1. PICK e \in EntriesIn(t) : e.id = <<c, "fake", m>>
      BY <1>17 DEF UnusedFake, Holds
    <2>2. PICK j \in 1 .. n : s[j] = e
      BY <1>2, <1>3
    <2>3. s[j].id[2] = "fake" /\ s[j].id[3] = m
      BY <2>1, <2>2
    <2>4. s[j].id[3] \notin r.lo .. r.hi
      BY <1>12, <2>3 DEF r
    <2> QED BY <2>3, <2>4
  <1>18. \A m \in r.lo .. r.hi : UnusedFake(c, t, m)
    BY <1>17
  <1> QED BY <1>1, <1>16, <1>18 DEF r

\* As long as a fake ID is not in use, FakeClientID finds one that names nothing,
\* and the IDs it is to return next name nothing either, however often the range
\* was used up.
THEOREM FakeIdsAreNew ==
  ASSUME NEW c \in Clients, TableOK(c, table[c]), FakeOK(c),
         \E id \in FakeIds(c) : ~Holds(table[c], id)
  PROVE  LET new == FakeClientID(c)
         IN  /\ new.id \in 0 .. FakeRange - 1 /\ UnusedFake(c, table[c], new.id)
             /\ new.then \in [next : 0 .. FakeRange, end : 0 .. FakeRange] /\ new.then.next <= new.then.end
             /\ \A n \in new.then.next .. new.then.end - 1 : UnusedFake(c, table[c], n) /\ n # new.id
  <1> DEFINE t == table[c]
             new == FakeClientID(c)
             a == fake[c].next
             z == fake[c].end
  <1>0. FakeRange \in Nat \ {0}
    BY ResourcesAssumption
  <1>1. /\ a \in 0 .. FakeRange /\ z \in 0 .. FakeRange /\ fake[c] = [next |-> a, end |-> z] /\ a <= z
        /\ \A n \in a .. z - 1 : UnusedFake(c, t, n)
    BY DEF FakeOK
  <1>2. CASE a # z
    <2>1. new = [id |-> a, then |-> [fake[c] EXCEPT !.next = a + 1]]
      BY <1>2, Zenon DEF FakeClientID
    <2> HIDE DEF new, a, z
    <2>2. [fake[c] EXCEPT !.next = a + 1] = [next |-> a + 1, end |-> z]
      BY <1>1
    <2>3. new.id = a /\ new.then = [next |-> a + 1, end |-> z]
      BY <2>1, <2>2
    <2>4. new.then.next = a + 1 /\ new.then.end = z
      BY <2>3
    <2>5. a \in a .. z - 1 /\ a \in 0 .. FakeRange - 1 /\ a + 1 \in 0 .. FakeRange /\ a + 1 <= z
      BY <1>0, <1>1, <1>2
    <2>6. new.then \in [next : 0 .. FakeRange, end : 0 .. FakeRange]
      BY <1>1, <2>3, <2>5
    <2>7. \A n \in a + 1 .. z - 1 : n \in a .. z - 1 /\ n # a
      BY <1>0, <1>1
    <2>8. \A n \in new.then.next .. new.then.end - 1 : UnusedFake(c, t, n) /\ n # new.id
      BY <1>1, <2>3, <2>4, <2>7
    <2>9. new.id \in 0 .. FakeRange - 1 /\ UnusedFake(c, t, new.id) /\ new.then.next <= new.then.end
      BY <1>1, <2>3, <2>4, <2>5
    <2> QED BY <2>6, <2>8, <2>9 DEF new
  <1>3. CASE a = z
    <2> DEFINE r == GetXIDRange(c, t)
    <2>1. new = [id |-> r.lo, then |-> [next |-> r.lo + 1, end |-> r.hi + 1]]
      BY <1>3 DEF FakeClientID
    <2>2. \E n \in 0 .. FakeRange - 1 : UnusedFake(c, t, n)
      <3>1. PICK id \in FakeIds(c) : ~Holds(t, id)
        OBVIOUS
      <3>2. PICK n \in 0 .. FakeRange - 1 : id = <<c, "fake", n>>
        BY DEF FakeIds
      <3> QED BY <3>1, <3>2 DEF UnusedFake
    <2>3. /\ r.lo \in 0 .. FakeRange - 1 /\ r.hi \in 0 .. FakeRange - 1 /\ r.lo <= r.hi
          /\ \A n \in r.lo .. r.hi : UnusedFake(c, t, n)
      BY <2>2, XIDRange
    <2> HIDE DEF r, new
    <2> DEFINE lo == r.lo
               hi == r.hi
    <2>3a. new.id = lo /\ new.then = [next |-> lo + 1, end |-> hi + 1]
      BY <2>1
    <2>3b. lo \in 0 .. FakeRange - 1 /\ hi \in 0 .. FakeRange - 1 /\ lo <= hi /\ \A n \in lo .. hi : UnusedFake(c, t, n)
      BY <2>3
    <2> HIDE DEF lo, hi
    <2>4. new.then.next = lo + 1 /\ new.then.end = hi + 1
      BY <2>3a
    <2>5. new.then \in [next : 0 .. FakeRange, end : 0 .. FakeRange]
      BY <1>0, <2>3a, <2>3b
    <2>6. \A n \in lo + 1 .. (hi + 1) - 1 : n \in lo .. hi /\ n # lo
      BY <1>0, <2>3b
    <2>7. \A n \in new.then.next .. new.then.end - 1 : UnusedFake(c, t, n) /\ n # new.id
      BY <2>3a, <2>3b, <2>4, <2>6
    <2>8. lo \in lo .. hi /\ lo + 1 <= hi + 1
      BY <1>0, <2>3b
    <2>9. new.id \in 0 .. FakeRange - 1 /\ UnusedFake(c, t, new.id) /\ new.then.next <= new.then.end
      BY <2>3a, <2>3b, <2>4, <2>8
    <2> QED BY <2>5, <2>7, <2>9 DEF new
  <1> QED BY <1>2, <1>3
=============================================================================
