------------------------------ MODULE Resources ------------------------------
(***************************************************************************)
(* The resources of clients: the hash tables of dix/resource.c, the window *)
(* tree (dix/window.c), and two kinds of lists on windows whose members    *)
(* are resources of other clients, event selections (dix/events.c) and     *)
(* RandR selections (randr).  A delete function frees other resources, so  *)
(* FreeResource runs inside itself; todo is the stack of its calls.        *)
(*                                                                         *)
(* An ID is <<client, range, number>>, range "own" for what clients choose *)
(* and "fake" for what FakeClientID returns (SERVER_BIT).  The order of    *)
(* siblings and of lists is left out: what is taken first is a choice.     *)
(* Allocation does not fail.                                               *)
(***************************************************************************)
EXTENDS Integers, Sequences, FiniteSets

CONSTANTS
    Clients,        \* clients without the server, which is 0
    Windows,        \* the IDs that clients give to windows
    FakeRange,      \* fake IDs of a client (2^22 in the code)
    InitBuckets, InitHashSize, MaxHashSize,
    Load,           \* entries per bucket before a table grows (4 in the code)
    RRWindows,      \* bound: the windows on which RandR events are selected
    MaxSelections   \* bound on the selections of both kinds

Root == <<0, "own", 0>>

Owner(id) == id[1]
FakeIds(c) == {<<c, "fake", n>> : n \in 0 .. FakeRange - 1}
AllFakeIds == UNION {FakeIds(c) : c \in Clients}

ASSUME ResourcesAssumption ==
    /\ Clients \subseteq Nat \ {0} /\ IsFiniteSet(Clients)
    /\ Windows \subseteq Clients \X {"own"} \X Nat /\ IsFiniteSet(Windows)
    /\ FakeRange \in Nat \ {0}
    /\ InitBuckets \in Nat \ {0} /\ Load \in Nat
    /\ InitHashSize \in Nat /\ MaxHashSize \in Nat /\ InitHashSize <= MaxHashSize
    /\ RRWindows \subseteq Windows
    /\ MaxSelections \in Nat

VARIABLES
    state,      \* of each client: "free", "running", "retained" or "closing"
    table,      \* clientTable
    fake,       \* its fields fakeID and endFakeID
    parent,     \* the window tree: the parent of each window there is
    others,     \* otherClients of each window, by their resource
    rrEvents,   \* RREventRecs of each window, by their clientResource
    saveSet,    \* of each client
    todo,       \* the calls under way, innermost first
    spared      \* windows that the closing client's save set protects

vars == <<state, table, fake, parent, others, rrEvents, saveSet, todo, spared>>

-----------------------------------------------------------------------------
(* The hash table of a client.  The value of a resource is, in every type,  *)
(* a window or something that hangs on one.                                 *)

Types == {"Window", "OtherClient", "RRClient", "RREvent"}

\* Mutant: RT_OTHERCLIENT without RC_NEVERRETAIN.
NothingNeverRetained == {}

NeverRetained == {"OtherClient"}

Entries == [id : Windows \cup AllFakeIds, type : Types, win : Windows]

\* What prev points to at the head of a bucket.
TheHead == [id |-> Root, type |-> "None", win |-> Root]

NoTable == [hashsize |-> -1, buckets |-> 0, elements |-> 0, bucket |-> <<>>]

NewTable == [hashsize |-> InitHashSize, buckets |-> InitBuckets, elements |-> 0,
             bucket |-> [b \in 0 .. InitBuckets - 1 |-> <<>>]]

\* The bits of the ID that tell the entries of small tables apart.
Hash(t, id) == id[3] % t.buckets

BucketOf(t, id) == IF t.buckets = 0 THEN <<>> ELSE t.bucket[Hash(t, id)]

EntriesIn(t) ==
    UNION {{t.bucket[b][i] : i \in DOMAIN t.bucket[b]} : b \in DOMAIN t.bucket}

Holds(t, id) == \E e \in EntriesIn(t) : e.id = id

\* All entries, bucket by bucket.
InOrder(t) ==
    LET upTo[b \in 0 .. t.buckets] ==
            IF b = 0 THEN <<>> ELSE upTo[b - 1] \o t.bucket[b - 1]
    IN  upTo[t.buckets]

\* Twice the buckets, all empty.
Doubled(t) == [t EXCEPT !.hashsize = @ + 1, !.buckets = 2 * @,
                        !.bucket = [b \in 0 .. 2 * t.buckets - 1 |-> <<>>]]

\* Mutant: what hashes to one of the new buckets is lost.
RebuildLosesHalf(t) ==
    [Doubled(t) EXCEPT !.bucket = [b \in DOMAIN @ |->
        IF b \in DOMAIN t.bucket
        THEN SelectSeq(t.bucket[b], LAMBDA e : Hash(Doubled(t), e.id) = b) ELSE <<>>]]

\* Every entry goes to the tail of its new bucket.
RebuildTable(t) ==
    LET s == InOrder(t)
        moved[i \in 0 .. Len(s)] ==
            IF i = 0 THEN Doubled(t).bucket
            ELSE [moved[i - 1] EXCEPT ![Hash(Doubled(t), s[i].id)] = Append(@, s[i])]
    IN  [Doubled(t) EXCEPT !.bucket = moved[Len(s)]]

AddResource(t, id, type, w) ==
    LET r == IF t.elements >= Load * t.buckets /\ t.hashsize < MaxHashSize
             THEN RebuildTable(t) ELSE t
    IN  [r EXCEPT !.elements = @ + 1,
                  !.bucket[Hash(r, id)] =
                      <<[id |-> id, type |-> type, win |-> w]>> \o @]

\* The i-th entry of a bucket is unlinked; elements is another matter.
Unlink(t, b, i) ==
    [t EXCEPT !.bucket[b] = SubSeq(@, 1, i - 1) \o SubSeq(@, i + 1, Len(@))]

-----------------------------------------------------------------------------
(* Fake IDs, by their numbers.                                              *)

NoId == -1

\* The first ID from lo to hi that is not used, or the one known to be good.
AvailableID(c, t, lo, hi, good) ==
    LET unused == {n \in lo .. hi : ~Holds(t, <<c, "fake", n>>)}
    IN  IF good # NoId /\ good \in lo .. hi THEN good
        ELSE IF unused = {} THEN NoId
        ELSE CHOOSE n \in unused : \A m \in unused : n <= m

\* Each entry in the range cuts off one side of it.
GetXIDRange(c, t) ==
    LET s == InOrder(t)
        Cut(r, e) ==
            LET n    == e.id[3]
                low  == n - r.lo >= r.hi - n
                good == IF low THEN AvailableID(c, t, r.lo, n - 1, r.good)
                               ELSE AvailableID(c, t, n + 1, r.hi, r.good)
            IN  IF e.id[2] = "own" \/ n \notin r.lo .. r.hi THEN r
                ELSE IF low = (good # NoId)
                THEN [r EXCEPT !.hi = n - 1, !.good = good]
                ELSE [r EXCEPT !.lo = n + 1, !.good = good]
        range[i \in 0 .. Len(s)] ==
            IF i = 0 THEN [lo |-> 0, hi |-> FakeRange - 1, good |-> NoId]
                     ELSE Cut(range[i - 1], s[i])
    IN  range[Len(s)]

NewFakes == [next |-> 0, end |-> FakeRange]

\* Mutants: no range is looked for; the IDs are taken from the start again.
FakesRunOut(c) ==
    [id |-> fake[c].next, then |-> [fake[c] EXCEPT !.next = @ + 1]]

FakeWraps(c) ==
    LET n == fake[c].next % FakeRange
    IN  [id |-> n, then |-> [fake[c] EXCEPT !.next = n + 1]]

\* The ID and what the fields are then.
FakeClientID(c) ==
    IF fake[c].next # fake[c].end
    THEN [id |-> fake[c].next, then |-> [fake[c] EXCEPT !.next = @ + 1]]
    ELSE LET r == GetXIDRange(c, table[c])
         IN  [id |-> r.lo, then |-> [next |-> r.lo + 1, end |-> r.hi + 1]]

-----------------------------------------------------------------------------
(* The window tree.                                                         *)

Alive == DOMAIN parent

Children(w) == {x \in Alive : parent[x] = w}

Above(w) ==
    LET up[k \in 0 .. Cardinality(Windows)] ==
            IF k = 0 THEN {parent[w]}
            ELSE up[k - 1] \cup {parent[x] : x \in up[k - 1] \ {Root}}
    IN  up[Cardinality(Windows)]

IsLeafBelow(x, w) == x \in Alive /\ w \in Above(x) /\ Children(x) = {}

\* Mutant: one window of the client is passed over.
GrandparentOf(c, w) ==
    IF Owner(parent[w]) = c THEN parent[parent[w]] ELSE parent[w]

\* The nearest superior that is not the client's own.
HeirOf(c, w) ==
    LET heir[k \in 0 .. Cardinality(Windows)] ==
            IF k = 0 THEN parent[w]
            ELSE IF Owner(heir[k - 1]) = c THEN parent[heir[k - 1]]
            ELSE heir[k - 1]
    IN  heir[Cardinality(Windows)]

\* The tree after HandleSaveSet.
HandleSaveSet(c) ==
    [w \in Alive |-> IF w \in saveSet[c] THEN HeirOf(c, w) ELSE parent[w]]

\* The windows of the save set that are below windows of the client only as
\* far up as their nearest superior of somebody else.
Protected(c) ==
    {w \in saveSet[c] :
        \A x \in Above(w) \ {Root} :
            Owner(x) # c => \A y \in Above(x) : Owner(y) # c}

-----------------------------------------------------------------------------
(* The calls under way.                                                     *)

\* FreeResource: entry prev precedes the rest of the scan; elements is what
\* the delete function found.
Free(id, skip) ==
    [op |-> "Free", id |-> id, skip |-> skip, prev |-> TheHead, elements |-> -1]

Delete(e) == [op |-> "Delete", entry |-> e]
RRFreeEvents(w) == [op |-> "RRFreeEvents", win |-> w]
FreeWindow(w) == [op |-> "FreeWindow", win |-> w]
DestroySubwindows(w) == [op |-> "DestroySubwindows", win |-> w]
FreeNeverRetained(c) == [op |-> "FreeNeverRetained", client |-> c]
FreeAll(c) == [op |-> "FreeAll", client |-> c]

Calls ==
    [op : {"Free"}, id : Windows \cup AllFakeIds, skip : Types \cup {"None"},
     prev : Entries \cup {TheHead}, elements : Int]
    \cup [op : {"Delete"}, entry : Entries]
    \cup [op : {"RRFreeEvents", "FreeWindow"}, win : Windows]
    \cup [op : {"DestroySubwindows"}, win : Windows \cup {Root}]
    \cup [op : {"FreeNeverRetained", "FreeAll"}, client : Clients]

\* DeleteFuncs: the call that frees what an entry stands for.
DeleteFunc(e) ==
    CASE e.type = "Window"  -> FreeWindow(e.win)
      [] e.type = "RREvent" -> RRFreeEvents(e.win)
      [] OTHER              -> Delete(e)

Top(op) == todo # <<>> /\ Head(todo).op = op

Return == todo' = Tail(todo)
CallFirst(calls) == todo' = calls \o todo
Becomes(calls) == todo' = calls \o Tail(todo)

\* Mutant: prev is trusted after the delete function.
TrustsPrev(f, t) == f.prev

\* Where FreeResource goes on: at the head if the delete function freed or
\* added something.
ScanFrom(f, t) == IF f.elements = t.elements THEN f.prev ELSE TheHead

\* The next entry with the ID.
FoundAt(f, b, i) ==
    LET t    == table[Owner(f.id)]
        prev == ScanFrom(f, t)
        hits == {k \in DOMAIN b : /\ b[k].id = f.id
                                  /\ prev = TheHead \/ \E j \in 1 .. k - 1 : b[j] = prev}
    IN  i \in hits /\ \A k \in hits : i <= k

FreeResource ==
    /\ Top("Free")
    /\ LET f == Head(todo)
           c == Owner(f.id)
           t == table[c]
           b == BucketOf(t, f.id)
       IN  \/ /\ \A i \in DOMAIN b : ~FoundAt(f, b, i)
              /\ Return
              /\ UNCHANGED table
           \/ \E i \in DOMAIN b :
                /\ FoundAt(f, b, i)
                /\ table' = [table EXCEPT ![c] =
                       [Unlink(t, Hash(t, f.id), i) EXCEPT
                           !.elements = @ - 1]]
                /\ Becomes((IF b[i].type = f.skip THEN <<>>
                                                  ELSE <<DeleteFunc(b[i])>>)
                           \o <<[f EXCEPT
                                   !.prev = IF i = 1 THEN TheHead ELSE b[i - 1],
                                   !.elements = t.elements - 1]>>)
    /\ UNCHANGED <<state, fake, parent, others, rrEvents, saveSet, spared>>

-----------------------------------------------------------------------------
(* The delete functions.                                                    *)

Deletes(type) == Top("Delete") /\ Head(todo).entry.type = type
Value == Head(todo).entry

\* If the selection is not on the list the server aborts.
OtherClientGone ==
    /\ Deletes("OtherClient")
    /\ others' = [others EXCEPT ![Value.win] = @ \ {Value.id}]
    /\ Return
    /\ UNCHANGED <<state, table, fake, parent, rrEvents, saveSet, spared>>

HasEventList(w) ==
    \E e \in EntriesIn(table[Owner(w)]) : e.id = w /\ e.type = "RREvent"

\* The list is looked up, and may be gone.
RRFreeClient ==
    /\ Deletes("RRClient")
    /\ rrEvents' = IF HasEventList(Value.win)
                   THEN [rrEvents EXCEPT ![Value.win] = @ \ {Value.id}]
                   ELSE rrEvents
    /\ Return
    /\ UNCHANGED <<state, table, fake, parent, others, saveSet, spared>>

\* Every member's resource is freed without its delete function.
FreeRREvent ==
    /\ Top("RRFreeEvents")
    /\ LET w == Head(todo).win
       IN  \/ rrEvents[w] = {} /\ Return /\ UNCHANGED rrEvents
           \/ \E id \in rrEvents[w] :
                /\ rrEvents' = [rrEvents EXCEPT ![w] = @ \ {id}]
                /\ CallFirst(<<Free(id, "RRClient")>>)
    /\ UNCHANGED <<state, table, fake, parent, others, saveSet, spared>>

\* Mutant: the selections of others are left (freeResources is FALSE).
ForgetWindow ==
    /\ Top("FreeWindow")
    /\ LET w == Head(todo).win
       IN  \/ \E x \in Alive :
                /\ IsLeafBelow(x, w)
                /\ CallFirst(<<Free(x, "Window"), FreeWindow(x)>>)
                /\ UNCHANGED <<saveSet, parent>>
           \/ /\ Children(w) = {}
              /\ saveSet' = [c \in Clients |-> saveSet[c] \ {w}]
              /\ parent' = [x \in Alive \ {w} |-> parent[x]]
              /\ Return
    /\ UNCHANGED <<state, table, fake, others, rrEvents, spared>>

\* DeleteWindow.  CrushTree: the inferiors go first, from the leaves up, their
\* own entries without the delete function.  FreeWindowResources: the window
\* leaves the save sets, the selections on it are freed one by one, and it
\* goes.
DeleteWindow ==
    /\ Top("FreeWindow")
    /\ LET w == Head(todo).win
       IN  \/ \E x \in Alive :
                /\ IsLeafBelow(x, w)
                /\ CallFirst(<<Free(x, "Window"), FreeWindow(x)>>)
                /\ UNCHANGED <<saveSet, parent>>
           \/ /\ Children(w) = {}
              /\ saveSet' = [c \in Clients |-> saveSet[c] \ {w}]
              /\ \/ /\ others[w] = {}
                    /\ parent' = [x \in Alive \ {w} |-> parent[x]]
                    /\ Return
                 \/ \E id \in others[w] :
                      /\ CallFirst(<<Free(id, "None")>>)
                      /\ UNCHANGED parent
    /\ UNCHANGED <<state, table, fake, others, rrEvents, spared>>

DestroyNextSubwindow ==
    /\ Top("DestroySubwindows")
    /\ LET w == Head(todo).win
       IN  \/ Children(w) = {} /\ Return
           \/ \E x \in Children(w) : CallFirst(<<Free(x, "None")>>)
    /\ UNCHANGED <<state, table, fake, parent, others, rrEvents, saveSet, spared>>

-----------------------------------------------------------------------------
(* The death of a client.                                                   *)

\* Bucket b is the first with an entry of type in types, i the first there.
FirstOf(t, types, b, i) ==
    /\ b \in DOMAIN t.bucket /\ i \in DOMAIN t.bucket[b]
    /\ t.bucket[b][i].type \in types
    /\ \A d \in DOMAIN t.bucket : \A j \in DOMAIN t.bucket[d] :
          t.bucket[d][j].type \in types => b < d \/ (b = d /\ i <= j)

\* FreeClientNeverRetainResources; elements keeps its value.
FreeNextNeverRetained ==
    /\ Top("FreeNeverRetained")
    /\ LET c == Head(todo).client
           t == table[c]
       IN  \/ /\ \A e \in EntriesIn(t) : e.type \notin NeverRetained
              /\ Return
              /\ UNCHANGED table
           \/ \E b \in DOMAIN t.bucket : \E i \in DOMAIN t.bucket[b] :
                /\ FirstOf(t, NeverRetained, b, i)
                /\ table' = [table EXCEPT ![c] = Unlink(t, b, i)]
                /\ CallFirst(<<DeleteFunc(t.bucket[b][i])>>)
    /\ UNCHANGED <<state, fake, parent, others, rrEvents, saveSet, spared>>

\* FreeClientResources after HandleSaveSet; at its end CloseDownClient frees
\* the client.  The fake IDs are set for the next client already here.
FreeNextOfAll ==
    /\ Top("FreeAll")
    /\ LET c == Head(todo).client
           t == table[c]
       IN  \/ /\ EntriesIn(t) = {}
              /\ table' = [table EXCEPT ![c] = NoTable]
              /\ state' = [state EXCEPT ![c] = "free"]
              /\ fake' = [fake EXCEPT ![c] = NewFakes]
              /\ spared' = {}
              /\ Return
           \/ \E b \in DOMAIN t.bucket : \E i \in DOMAIN t.bucket[b] :
                /\ FirstOf(t, Types, b, i)
                /\ table' = [table EXCEPT ![c] = Unlink(t, b, i)]
                /\ CallFirst(<<DeleteFunc(t.bucket[b][i])>>)
                /\ UNCHANGED <<state, fake, spared>>
    /\ UNCHANGED <<parent, others, rrEvents, saveSet>>

\* A client that is gone, or keeps nothing, is destroyed.
Destroy(c) ==
    /\ state' = [state EXCEPT ![c] = "closing"]
    /\ parent' = HandleSaveSet(c)
    /\ spared' = Protected(c)
    /\ saveSet' = [saveSet EXCEPT ![c] = {}]
    /\ todo' = <<FreeAll(c)>>
    /\ UNCHANGED <<table, fake, others, rrEvents>>

Retain(c) ==
    /\ state' = [state EXCEPT ![c] = "retained"]
    /\ todo' = <<FreeNeverRetained(c)>>
    /\ UNCHANGED <<table, fake, parent, others, rrEvents, saveSet, spared>>

CloseDownClient(c) ==
    /\ todo = <<>>
    /\ \/ state[c] \in {"running", "retained"} /\ Destroy(c)
       \/ state[c] = "running" /\ Retain(c)

-----------------------------------------------------------------------------
(* Requests.                                                                *)

Requests(c) == todo = <<>> /\ state[c] = "running"

InitClientResources(c) ==
    /\ todo = <<>>
    /\ state[c] = "free"
    /\ state' = [state EXCEPT ![c] = "running"]
    /\ table' = [table EXCEPT ![c] = NewTable]
    /\ UNCHANGED <<fake, parent, others, rrEvents, saveSet, todo, spared>>

\* LegalNewID: the ID is the client's and names nothing.
CreateWindow(c, w, p) ==
    /\ Requests(c)
    /\ Owner(w) = c /\ ~Holds(table[c], w)
    /\ p \in Alive \cup {Root}
    /\ parent' = [x \in Alive \cup {w} |-> IF x = w THEN p ELSE parent[x]]
    /\ table' = [table EXCEPT ![c] = AddResource(@, w, "Window", w)]
    /\ UNCHANGED <<state, fake, others, rrEvents, saveSet, todo, spared>>

ReparentWindow(c, w, p) ==
    /\ Requests(c)
    /\ w \in Alive /\ p \in Alive \cup {Root}
    /\ p # w /\ (p # Root => w \notin Above(p))
    /\ parent' = [parent EXCEPT ![w] = p]
    /\ UNCHANGED <<state, table, fake, others, rrEvents, saveSet, todo, spared>>

DestroyRequest(c, w) ==
    /\ Requests(c)
    /\ \/ w \in Alive /\ todo' = <<Free(w, "None")>>
       \/ w \in Alive \cup {Root} /\ todo' = <<DestroySubwindows(w)>>
    /\ UNCHANGED <<state, table, fake, parent, others, rrEvents, saveSet, spared>>

ChangeSaveSet(c, w) ==
    /\ Requests(c)
    /\ w \in Alive /\ Owner(w) # c
    /\ saveSet' = [saveSet EXCEPT ![c] =
                      IF w \in @ THEN @ \ {w} ELSE @ \cup {w}]
    /\ UNCHANGED <<state, table, fake, parent, others, rrEvents, todo, spared>>

Selections ==
    UNION {others[w] \cup rrEvents[w] : w \in Windows}

MaySelect(c) ==
    /\ Cardinality(Selections) < MaxSelections
    /\ \E id \in FakeIds(c) : ~Holds(table[c], id)

\* EventSelectForWindow on a window of another client.
EventSelectForWindow(c, w) ==
    /\ Requests(c)
    /\ w \in Alive /\ Owner(w) # c
    /\ \/ \E id \in others[w] :
             /\ Owner(id) = c
             /\ todo' = <<Free(id, "None")>>
             /\ UNCHANGED <<table, fake, others>>
       \/ /\ \A id \in others[w] : Owner(id) # c
          /\ MaySelect(c)
          /\ LET new == FakeClientID(c)
                 id  == <<c, "fake", new.id>>
             IN  /\ fake' = [fake EXCEPT ![c] = new.then]
                 /\ others' = [others EXCEPT ![w] = @ \cup {id}]
                 /\ table' = [table EXCEPT ![c] =
                                 AddResource(@, id, "OtherClient", w)]
          /\ UNCHANGED todo
    /\ UNCHANGED <<state, parent, rrEvents, saveSet, spared>>

\* ProcRRSelectInput, on any window: the client's resource is added first,
\* then the list's if the window has none.
RRSelect(c, w) ==
    /\ Requests(c)
    /\ w \in Alive \cap RRWindows
    /\ \A id \in rrEvents[w] : Owner(id) # c
    /\ MaySelect(c)
    /\ LET new  == FakeClientID(c)
           id   == <<c, "fake", new.id>>
           mine == [table EXCEPT ![c] = AddResource(@, id, "RRClient", w)]
       IN  /\ fake' = [fake EXCEPT ![c] = new.then]
           /\ rrEvents' = [rrEvents EXCEPT ![w] = @ \cup {id}]
           /\ table' = IF HasEventList(w) THEN mine
                       ELSE [mine EXCEPT ![Owner(w)] =
                                AddResource(@, w, "RREvent", w)]
    /\ UNCHANGED <<state, parent, others, saveSet, todo, spared>>

RRDeselect(c, w) ==
    /\ Requests(c)
    /\ w \in Alive
    /\ \E id \in rrEvents[w] :
          /\ Owner(id) = c
          /\ rrEvents' = [rrEvents EXCEPT ![w] = @ \ {id}]
          /\ todo' = <<Free(id, "RRClient")>>
    /\ UNCHANGED <<state, table, fake, parent, others, saveSet, spared>>

-----------------------------------------------------------------------------
Init ==
    /\ state = [c \in Clients |-> "free"]
    /\ table = [c \in Clients |-> NoTable]
    /\ fake = [c \in Clients |-> NewFakes]
    /\ parent = <<>>
    /\ others = [w \in Windows |-> {}]
    /\ rrEvents = [w \in Windows |-> {}]
    /\ saveSet = [c \in Clients |-> {}]
    /\ todo = <<>>
    /\ spared = {}

CallStep ==
    \/ FreeResource
    \/ OtherClientGone \/ RRFreeClient \/ FreeRREvent
    \/ DeleteWindow \/ DestroyNextSubwindow
    \/ FreeNextNeverRetained \/ FreeNextOfAll

RequestStep(c) ==
    \/ InitClientResources(c) \/ CloseDownClient(c)
    \/ \E w \in Windows :
          \/ \E p \in Windows \cup {Root} :
                CreateWindow(c, w, p) \/ ReparentWindow(c, w, p)
          \/ ChangeSaveSet(c, w)
          \/ EventSelectForWindow(c, w) \/ RRSelect(c, w) \/ RRDeselect(c, w)
    \/ \E w \in Windows \cup {Root} : DestroyRequest(c, w)

Next == CallStep \/ \E c \in Clients : RequestStep(c)

Spec == Init /\ [][Next]_vars

-----------------------------------------------------------------------------
(* Properties.                                                              *)

\* The types of the variables.
TypeOK ==
    /\ state \in [Clients -> {"free", "running", "retained", "closing"}]
    /\ \A c \in Clients :
          /\ table[c].hashsize \in {-1} \cup InitHashSize .. MaxHashSize
          /\ table[c].buckets \in Nat
          /\ table[c].elements \in Int
          /\ EntriesIn(table[c]) \subseteq Entries
    /\ fake \in [Clients -> [next : 0 .. FakeRange, end : 0 .. FakeRange]]
    /\ Alive \subseteq Windows
    /\ \A w \in Alive : parent[w] \in Alive \cup {Root}
    /\ others \in [Windows -> SUBSET AllFakeIds]
    /\ rrEvents \in [Windows -> SUBSET AllFakeIds]
    /\ saveSet \in [Clients -> SUBSET Windows]
    /\ todo \in Seq(Calls)
    /\ spared \subseteq Windows

\* The window a delete function dereferences is there, and OtherClientGone
\* finds the selection on its list (or else the server aborts).
DeletesFindTheirs ==
    /\ Top("FreeWindow") => Head(todo).win \in Alive
    /\ Top("Delete") =>
          /\ Value.win \in Alive
          /\ Value.type = "OtherClient" => Value.id \in others[Value.win]

\* prev of FreeResource points into the bucket.
ScansStayOnTheList ==
    Top("Free") =>
        LET f == Head(todo)
            t == table[Owner(f.id)]
            b == BucketOf(t, f.id)
        IN  ScanFrom(f, t) = TheHead \/ \E i \in DOMAIN b : b[i] = ScanFrom(f, t)

\* Frees inside frees take nothing from under the frees around them: a delete
\* function finds what it is called for, and a scan goes on in its bucket.
FreesAreNested == DeletesFindTheirs /\ ScansStayOnTheList

\* The tables, the tree and the lists on windows are about the same windows and
\* selections, ...
TablesMatchTheTree ==
    todo = <<>> =>
        /\ \A c \in Clients : \A e \in EntriesIn(table[c]) :
              /\ Owner(e.id) = c /\ e.win \in Alive
              /\ e.type \in {"Window", "RREvent"} => e.id = e.win
              /\ e.type = "OtherClient" => e.id \in others[e.win]
              /\ e.type = "RRClient" => e.id \in rrEvents[e.win]
        /\ \A w \in Alive :
              Holds(table[Owner(w)], w) /\ (rrEvents[w] # {} => HasEventList(w))
        /\ \A w \in Windows : \A id \in others[w] \cup rrEvents[w] :
              w \in Alive /\ Holds(table[Owner(id)], id)
        /\ \A c \in Clients : saveSet[c] \subseteq Alive

\* ... a client that is gone but keeps its resources selects no events, ...
RetainedClientsSelectNothing ==
    todo = <<>> =>
        \A c \in Clients : state[c] = "retained" =>
            \A w \in Windows : \A id \in others[w] : Owner(id) # c

\* ... there is one entry of an ID and a type, and one of a fake ID.
IdsAreUnique ==
    \A c \in Clients :
        LET s == InOrder(table[c])
        IN  \A i, j \in DOMAIN s :
                s[i].id = s[j].id /\ (s[i].type = s[j].type \/ s[i].id[2] = "fake")
                    => i = j

\* Between requests tables, tree and lists agree, whoever died in between, no
\* dead client selects, and no ID was given twice.
ResourcesAgree == TablesMatchTheTree /\ RetainedClientsSelectNothing /\ IdsAreUnique

\* The windows that the save set of a dying client protects outlive it.
SavedWindowsSurvive == spared \subseteq Alive
=============================================================================
