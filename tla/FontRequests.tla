------------------------------ MODULE FontRequests ------------------------------
(***************************************************************************)
(* Requests that wait for a font server, dix/dixfonts.c: the client sleeps, *)
(* a closure keeps what is left of the request, and the work queue runs it  *)
(* again when the font library has signalled.  Meanwhile other clients      *)
(* execute requests: they free fonts, GCs and drawables the request uses,   *)
(* and kill the client.                                                    *)
(*                                                                         *)
(* A font is freed by its reference count.  Fonts are counted by their IDs, *)
(* by GCs, and by what is left of sleeping requests.                       *)
(*                                                                         *)
(* A request is a sequence of strings and changes of the font.  One string  *)
(* is an ImageText request; doImageText is what doPolyText is for it.       *)
(***************************************************************************)
EXTENDS Integers, Sequences, SequencesExt, FiniteSets

CONSTANTS
    FClients,   \* the clients; each has a GC and a drawable of its own
    Fonts,      \* the fonts of the font server
    FontIds,    \* IDs of fonts
    IdOwner,    \* whose IDs they are
    NoFont,     \* not a font
    String,     \* an element of a request that is not the ID of a font
    Texts,      \* the requests, sequences of elements
    MaxRequests \* bound: how many requests open fonts, draw text or free things

ASSUME FontAssumption ==
    /\ IsFiniteSet(FClients) /\ IsFiniteSet(FontIds) /\ IsFiniteSet(Fonts)
    /\ NoFont \notin Fonts /\ String \notin FontIds
    /\ IdOwner \in [FontIds -> FClients]
    /\ Texts \subseteq Seq(FontIds \cup {String})
    /\ MaxRequests \in Nat

VARIABLES
    idFont,     \* of each ID: the font it names, or NoFont
    refcnt,     \* of each font; it is freed when this gets 0
    gcFont,     \* of each client's GC, NoFont when the GC is freed
    drawables,  \* clients whose drawable exists
    alive,      \* clients that are not gone
    sleepQueue, \* clients that sleep
    closure,    \* of each client: what is left to do, or NoClosure when freed
    workQueue,  \* clients whose closure is to be run, in order
    processing, \* ProcessWorkQueue is running
    pending,    \* clients the font library will signal
    wrong,      \* history: a function was called with a freed closure
    abandoned,  \* history: fonts of the scratch GCs of requests that lost their
                \* drawable or client while they slept, and had fonts to change
    reopened,   \* history: fonts opened with an ID that a sleeping request mentions
    leaked,     \* history: fonts with marks that were never undone
    requests    \* how many of the bounded requests there were

fontVars == <<idFont, refcnt, gcFont, drawables>>
queueVars == <<sleepQueue, closure, workQueue, processing, pending>>
historyVars == <<wrong, abandoned, reopened, leaked>>
fontRequestVars == <<fontVars, alive, queueVars, historyVars, requests>>

NoClosure == [does |-> "nothing"]

----------------------------------------------------------------------------
(* Reference counts.  A count of them is a function on fonts.              *)

Plus(refs, f) == IF f = NoFont THEN refs ELSE [refs EXCEPT ![f] = @ + 1]

\* CloseFont.
Minus(refs, f) == IF f = NoFont THEN refs ELSE [refs EXCEPT ![f] = @ - 1]

\* ChangeGC of the font of a GC.
ChangeFont(refs, from, to) == Minus(Plus(refs, to), from)

\* The places of a request where the font changes.
Changes(elts) == {i \in DOMAIN elts : elts[i] # String}

\* How many of them change to f.
ChangesTo(elts, f) == Cardinality({i \in Changes(elts) : idFont[elts[i]] = f})

(***************************************************************************)
(* The first element at which the ID of a font names none, or the end.      *)
(***************************************************************************)
Stop(elts) ==
    LET bad == {i \in Changes(elts) : idFont[elts[i]] = NoFont}
    IN  IF bad = {} THEN Len(elts) + 1 ELSE CHOOSE i \in bad : \A j \in bad : i <= j

(***************************************************************************)
(* doPolyText over elements that draw and change the font of the GC.  asleep: *)
(* it undoes the marks it made when the client went to sleep.  It closes     *)
(* the font of the GC, which without a drawable is not the one marked.      *)
(***************************************************************************)
Execute(refs, font, elts, draws, asleep) ==
    LET Step(e, s) == LET g == IF draws THEN idFont[e] ELSE s.font
                          r == IF g # s.font THEN ChangeFont(s.refs, s.font, g) ELSE s.refs
                      IN  [refs |-> IF asleep THEN Minus(r, g) ELSE r, font |-> g]
        after[i \in 0..Len(elts)] ==
            IF i = 0 THEN [refs |-> refs, font |-> font]
            ELSE IF i \in Changes(elts) THEN Step(elts[i], after[i - 1]) ELSE after[i - 1]
    IN  after[Len(elts)]

MarkedOnce(refs, elts) ==   \* mutant
    [f \in Fonts |-> refs[f] + IF ChangesTo(elts, f) > 0 THEN 1 ELSE 0]
\* The marks on the fonts of elements.
Marked(refs, elts) == [f \in Fonts |-> refs[f] + ChangesTo(elts, f)]

----------------------------------------------------------------------------
(* The work queue and the sleep queue.                                     *)

Awake(c) == c \in alive \ sleepQueue

Dispatching == ~processing /\ ~wrong

\* What c does counts as one more request.
Asks(c) == /\ Dispatching /\ Awake(c)
           /\ requests < MaxRequests
           /\ requests' = requests + 1

ClientSleep(c, left) == /\ sleepQueue' = sleepQueue \cup {c}
                        /\ closure' = [closure EXCEPT ![c] = left]
                        /\ pending' = pending \cup {c}

\* ClientWakeup, and the closure is freed.
ClientWakeup(c) == /\ sleepQueue' = sleepQueue \ {c}
                   /\ closure' = [closure EXCEPT ![c] = NoClosure]

\* What ProcessWorkQueueZombies leaves of the queue q.
Without(q, c) ==
    LET left[i \in 0..Len(q)] == IF i = 0 THEN <<>>
                                 ELSE IF q[i] = c THEN left[i - 1] ELSE Append(left[i - 1], q[i])
    IN  left[Len(q)]

\* ClientSignal of c, on the queue q.
ClientSignal(c, q) == IF c \in sleepQueue THEN Append(q, c) ELSE q

----------------------------------------------------------------------------
(* Requests that draw text.                                                *)

(***************************************************************************)
(* The outcome at element n: the request is through or meets a bad ID       *)
(* ("end"), or the font library suspends or fails to draw a string.         *)
(***************************************************************************)
Outcome(elts, n, outcome) ==
    \/ n = Stop(elts) /\ outcome = "end"
    \/ n \in 1..Stop(elts)-1 /\ elts[n] = String /\ outcome \in {"suspended", "failed"}

From(elts, n) == SubSeq(elts, n, Len(elts))
Upto(elts, n) == SubSeq(elts, 1, n - 1)

(***************************************************************************)
(* The client goes to sleep at element n.  A scratch GC gets the font; the  *)
(* rest of the request is cut at the first bad ID, its fonts are marked,    *)
(* and the GC gets the font it would have in the end.                      *)
(***************************************************************************)
FallAsleep(c, elts, n, before) ==
    LET rest == Upto(From(elts, n), Stop(From(elts, n)))
        final == IF Changes(rest) = {} THEN before.font ELSE idFont[rest[Max(Changes(rest))]]
    IN  /\ ClientSleep(c, [does |-> "text", elts |-> rest, gc |-> before.font])
        /\ refcnt' = LET r == Marked(Plus(before.refs, before.font), rest)
                     IN  IF final # before.font THEN ChangeFont(r, before.font, final) ELSE r
        /\ gcFont' = [gcFont EXCEPT ![c] = final]

PolyText(c, elts, n, outcome) ==
    /\ Asks(c)
    /\ gcFont[c] # NoFont /\ c \in drawables
    /\ Outcome(elts, n, outcome)
    /\ LET before == Execute(refcnt, gcFont[c], Upto(elts, n), TRUE, FALSE)
       IN  IF outcome = "suspended"
           THEN FallAsleep(c, elts, n, before)
           ELSE /\ refcnt' = before.refs
                /\ gcFont' = [gcFont EXCEPT ![c] = before.font]
                /\ UNCHANGED <<sleepQueue, closure, pending>>
    /\ UNCHANGED <<idFont, drawables, alive, workQueue, processing, historyVars>>

\* The reference counts when a closure is given up at element n, its scratch
\* GC with the font it has by then.
GivenUp(refs, cl, n, draws) ==
    LET after == Execute(refs, cl.gc, Upto(cl.elts, n), draws, TRUE)
    IN  Minus(after.refs, after.font)

\* Fonts closed then for marks on other fonts.
ClosedInstead(cl, n, draws) == {cl.gc : i \in {j \in Changes(cl.elts) : ~draws /\ j < n}}

\* Fonts with marks that are not undone then.
StillMarked(cl, n, draws) == Fonts \cap {idFont[cl.elts[i]] : i \in {j \in Changes(cl.elts) : draws => j >= n}}

\* doPolyText of the closure of c, which draws if the drawable is still there.
ResumeText(c, n, outcome) ==
    LET cl == closure[c]
        draws == c \in drawables
    IN  /\ Outcome(cl.elts, n, outcome)
        /\ ~draws => outcome = "end"
        /\ IF outcome = "suspended"
           THEN LET after == Execute(refcnt, cl.gc, Upto(cl.elts, n), TRUE, TRUE)
                IN  /\ refcnt' = after.refs
                    /\ closure' = [closure EXCEPT ![c].elts = From(@, n), ![c].gc = after.font]
                    /\ pending' = pending \cup {c}
                    /\ UNCHANGED <<sleepQueue, abandoned, leaked>>
           ELSE /\ refcnt' = GivenUp(refcnt, cl, n, draws)
                /\ ClientWakeup(c)
                /\ pending' = pending \ {c}
                /\ abandoned' = abandoned \cup ClosedInstead(cl, n, draws)
                /\ leaked' = leaked \cup StillMarked(cl, n, draws)
        /\ UNCHANGED <<idFont, reopened>>

----------------------------------------------------------------------------
(* Requests that open a font.                                              *)

\* A sleeping request of clients cs mentions the ID of a font.
Mentioned(id, cs) == \E c \in sleepQueue \cap cs : closure[c].does = "text" /\ Contains(closure[c].elts, id)

\* The font gets an ID: it was found, in the cache of patterns or by the library.
Opened(id, f) == /\ idFont' = [idFont EXCEPT ![id] = f]
                 /\ refcnt' = Plus(refcnt, f)
                 /\ reopened' = IF Mentioned(id, alive) THEN reopened \cup {f} ELSE reopened

OpenFont(c, id, f, outcome) ==
    /\ Asks(c)
    /\ IdOwner[id] = c /\ idFont[id] = NoFont
    /\ \/ outcome = "end" /\ Opened(id, f)
          /\ UNCHANGED <<sleepQueue, closure, pending>>
       \/ /\ outcome = "suspended"
          /\ ClientSleep(c, [does |-> "open", id |-> id, font |-> f])
          /\ UNCHANGED <<idFont, refcnt, reopened>>
    /\ UNCHANGED <<gcFont, drawables, alive, workQueue, processing, wrong, abandoned, leaked>>

\* doOpenFont of the closure of c.
ResumeOpen(c, outcome) ==
    /\ IF outcome = "end" THEN Opened(closure[c].id, closure[c].font)
       ELSE UNCHANGED <<idFont, refcnt, reopened>>
    /\ IF outcome = "suspended"
       THEN pending' = pending \cup {c} /\ UNCHANGED <<sleepQueue, closure>>
       ELSE pending' = pending \ {c} /\ ClientWakeup(c)
    /\ UNCHANGED <<abandoned, leaked>>

----------------------------------------------------------------------------
(* Dispatching and waiting.                                                *)

\* The function of the closure of c.
Resume(c) == \/ /\ closure[c].does = "text"
                /\ \E n \in 1..Len(closure[c].elts)+1, outcome \in {"end", "suspended", "failed"} :
                      ResumeText(c, n, outcome)
             \/ /\ closure[c].does = "open"
                /\ \E outcome \in {"end", "suspended", "failed"} : ResumeOpen(c, outcome)

\* The font library has what it waited for: FontWakeup, in WaitForSomething.
Signal(c) == /\ Dispatching
             /\ c \in pending
             /\ pending' = pending \ {c}
             /\ workQueue' = ClientSignal(c, workQueue)
             /\ UNCHANGED <<fontVars, alive, sleepQueue, closure, processing, historyVars, requests>>

\* The next call of WaitForSomething runs everything on the queue.
ProcessWorkQueue == /\ Dispatching /\ workQueue # <<>>
                    /\ processing' = TRUE
                    /\ UNCHANGED <<fontVars, alive, sleepQueue, closure, workQueue, pending, historyVars, requests>>

\* One turn of its loop; the functions return TRUE, which takes them off the queue.
RunNext ==
    /\ processing
    /\ workQueue' = Tail(workQueue)
    /\ processing' = (workQueue' # <<>>)
    /\ Resume(Head(workQueue))
    /\ UNCHANGED <<gcFont, drawables, alive, wrong, requests>>

\* Fonts of IDs that sleeping requests of clients cs mention.
MentionedFonts(ids, cs) == {idFont[id] : id \in {i \in ids : Mentioned(i, cs)}}

\* Requests of client c that take something away.
CloseFontRequest(c, id) ==
    /\ Asks(c)
    /\ idFont[id] # NoFont
    /\ idFont' = [idFont EXCEPT ![id] = NoFont]
    /\ refcnt' = Minus(refcnt, idFont[id])
    /\ leaked' = leaked \cup MentionedFonts({id}, alive)
    /\ UNCHANGED <<gcFont, drawables, alive, queueVars, wrong, abandoned, reopened>>

FreeGC(c, d) == /\ Asks(c)
                /\ gcFont[d] # NoFont
                /\ gcFont' = [gcFont EXCEPT ![d] = NoFont]
                /\ refcnt' = Minus(refcnt, gcFont[d])
                /\ UNCHANGED <<idFont, drawables, alive, queueVars, historyVars>>

FreeDrawable(c, d) == /\ Asks(c)
                      /\ d \in drawables
                      /\ drawables' = drawables \ {d}
                      /\ UNCHANGED <<idFont, refcnt, gcFont, alive, queueVars, historyVars>>

----------------------------------------------------------------------------
(* CloseDownClient.                                                        *)

\* What the resources of c hold.
OwnIds(c) == {id \in FontIds : IdOwner[id] = c /\ idFont[id] # NoFont}

\* FreeClientResources.
Freed(c, refs) ==
    LET f == Minus(refs, gcFont[c])
    IN  [g \in Fonts |-> f[g] - Cardinality({id \in OwnIds(c) : idFont[id] = g})]

(***************************************************************************)
(* A client is gone, killed by another one if it sleeps.  If it sleeps it   *)
(* is signalled, and ProcessWorkQueueZombies runs every entry of it on the  *)
(* queue: a second one, if it had been signalled before, after the first    *)
(* has freed the closure.  Then its resources are freed.                    *)
(***************************************************************************)
CloseDownFontClient(c) ==
    LET queued == ClientSignal(c, workQueue)
        zombies == {i \in DOMAIN queued : queued[i] = c}
        cl == closure[c]
        closing == MentionedFonts(OwnIds(c), alive \ {c})
    IN  /\ Dispatching
        /\ c \in alive
        /\ alive' = alive \ {c}
        /\ workQueue' = Without(queued, c)
        /\ wrong' = (Cardinality(zombies) > 1)
        /\ IF zombies # {} /\ cl.does = "text"
           THEN /\ refcnt' = Freed(c, GivenUp(refcnt, cl, Stop(cl.elts), FALSE))
                /\ abandoned' = abandoned \cup ClosedInstead(cl, Stop(cl.elts), FALSE)
                /\ leaked' = leaked \cup StillMarked(cl, Stop(cl.elts), FALSE) \cup closing
           ELSE /\ refcnt' = Freed(c, refcnt)
                /\ leaked' = leaked \cup closing
                /\ UNCHANGED abandoned
        /\ ClientWakeup(c)
        /\ pending' = pending \ {c}
        /\ idFont' = [id \in FontIds |-> IF id \in OwnIds(c) THEN NoFont ELSE idFont[id]]
        /\ gcFont' = [gcFont EXCEPT ![c] = NoFont]
        /\ drawables' = drawables \ {c}
        /\ UNCHANGED <<processing, reopened, requests>>

----------------------------------------------------------------------------
\* All clients are gone, or a function was called that must not be.
AllOver == (alive = {} \/ wrong) /\ UNCHANGED fontRequestVars

(***************************************************************************)
(* The references to a font: IDs, GCs, and of sleeping requests their       *)
(* scratch GCs and the changes of the font that are left.                   *)
(***************************************************************************)
References(f) ==
    LET texts == {c \in FClients : closure[c].does = "text"}
    IN  Cardinality({id \in FontIds : idFont[id] = f})
        + Cardinality({c \in FClients : gcFont[c] = f})
        + Cardinality({c \in texts : closure[c].gc = f})
        + Cardinality({x \in UNION {{<<c, i>> : i \in Changes(closure[c].elts)} : c \in texts} :
                          idFont[closure[x[1]].elts[x[2]]] = f})

FontInit ==
    /\ idFont \in [FontIds -> Fonts] /\ gcFont \in [FClients -> Fonts]
    /\ drawables = FClients /\ alive = FClients
    /\ sleepQueue = {} /\ closure = [c \in FClients |-> NoClosure]
    /\ workQueue = <<>> /\ processing = FALSE /\ pending = {}
    /\ refcnt = [f \in Fonts |-> References(f)]
    /\ wrong = FALSE /\ abandoned = {} /\ reopened = {} /\ leaked = {}
    /\ requests = 0

FontNext ==
    \/ \E c \in FClients, elts \in Texts : \E n \in 1..Len(elts)+1, outcome \in {"end", "suspended", "failed"} :
          PolyText(c, elts, n, outcome)
    \/ \E c \in FClients, id \in FontIds, f \in Fonts, outcome \in {"end", "suspended"} : OpenFont(c, id, f, outcome)
    \/ \E c \in FClients : Signal(c)
    \/ ProcessWorkQueue
    \/ RunNext
    \/ \E c \in FClients, id \in FontIds : CloseFontRequest(c, id)
    \/ \E c, d \in FClients : FreeGC(c, d)
    \/ \E c, d \in FClients : FreeDrawable(c, d)
    \/ \E c \in FClients : CloseDownFontClient(c)
    \/ AllOver

FontSpec == FontInit /\ [][FontNext]_fontRequestVars

----------------------------------------------------------------------------
(* Properties.                                                             *)

\* Types of the variables; who sleeps has a closure, and who has one sleeps.
FontTypeOK ==
    /\ idFont \in [FontIds -> Fonts \cup {NoFont}] /\ gcFont \in [FClients -> Fonts \cup {NoFont}]
    /\ refcnt \in [Fonts -> Int]
    /\ alive \subseteq FClients /\ drawables \subseteq FClients
    /\ sleepQueue \subseteq alive /\ pending \subseteq sleepQueue
    /\ \A c \in FClients : c \in sleepQueue <=> closure[c] # NoClosure
    /\ workQueue \in Seq(sleepQueue) /\ IsInjective(workQueue)
    /\ processing \in BOOLEAN /\ wrong \in BOOLEAN
    /\ abandoned \subseteq Fonts /\ reopened \subseteq Fonts /\ leaked \subseteq Fonts
    /\ requests \in 0..MaxRequests

(***************************************************************************)
(* A font has at least as many counts as references, and at most as many,    *)
(* however requests sleep, wake up, sleep again and are executed in between. *)
(* It may have too few if a request lost its drawable or its client asleep   *)
(* when its scratch GC had this font: doPolyText closes it for each mark on  *)
(* another (dixfonts.c:1241-1253); or if it was opened with an ID that a     *)
(* sleeping request mentions, which is then undone and was never marked.     *)
(* It may have too many if a mark on it is never undone: the request failed, *)
(* lost its drawable or its client, or the ID it mentions was closed.        *)
(* Every other font is counted exactly, whatever happens to these.           *)
(***************************************************************************)
FontsAreCounted ==
    \A f \in Fonts : /\ f \notin abandoned \cup reopened => refcnt[f] >= References(f)
                     /\ f \notin leaked => refcnt[f] <= References(f)

(***************************************************************************)
(* "mark all fonts referenced in the remainder of the request to prevent    *)
(* their deallocation" (doPolyText): a font that an ID, a GC or a sleeping  *)
(* request refers to is not freed.  One opened after the request had gone   *)
(* to sleep, with an ID it mentions, could not be marked.                   *)
(***************************************************************************)
FontsOutliveTheirUses == \A f \in Fonts \ reopened : References(f) > 0 => refcnt[f] > 0
=============================================================================
