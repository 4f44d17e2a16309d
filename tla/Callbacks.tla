------------------------------- MODULE Callbacks -------------------------------
(***************************************************************************)
(* Lists of functions that are changed by the functions called from them,   *)
(* dix/dixutils.c: the block and wakeup handlers, called around every sleep *)
(* of the server, and a callback list, whose calls nest.                    *)
(*                                                                         *)
(* Handlers stand in an array, callbacks in a linked list that grows at its *)
(* head.  What is removed while a function of the list runs is only marked,  *)
(* still called, and taken out at the end.                                  *)
(***************************************************************************)
EXTENDS Integers, Sequences, FiniteSets, SequencesExt

CONSTANTS
    Functions,   \* pairs of a function and its data
    MaxDepth,    \* bound: how deep calls of the callback list nest
    MaxChanges   \* bound: how many functions are registered and removed

ASSUME CallbacksAssumption == MaxDepth \in Nat /\ MaxChanges \in Nat

VARIABLES
    handlers,    \* the array
    round,       \* "none", "block", "sleep", "wakeup"
    nextHandler, \* the index of the handler to be called next
    callbacks,   \* the list
    calls,       \* running calls of the list, innermost first: its cursor
    numDeleted,  \* of the list
    changes      \* how often functions were registered and removed; gives
                 \* every entry a number of its own

handlerVars == <<handlers, round, nextHandler>>
callbackVars == <<callbacks, calls, numDeleted>>
callbacksVars == <<handlerVars, callbackVars, changes>>

DeletedIn(list) == {i \in DOMAIN list : list[i].deleted}

\* The list after the entries at the places in out have been taken out.
Leaving(list, out) ==
    LET kept[n \in 0 .. Len(list)] ==
            IF n = 0 THEN <<>> ELSE IF n \in out THEN kept[n - 1] ELSE Append(kept[n - 1], list[n])
    IN  kept[Len(list)]

Live(list) == Leaving(list, DeletedIn(list))

Indices(list, f) == {i \in DOMAIN list : list[i].function = f}
FirstIndex(list, f) == CHOOSE i \in Indices(list, f) : \A j \in Indices(list, f) : i <= j

CountChange == changes < MaxChanges /\ changes' = changes + 1

----------------------------------------------------------------------------
(* Block and wakeup handlers.                                              *)

InHandler == round \in {"block", "wakeup"}

\* blocked, woken: history, its two functions were called in this round.
Handler(f) == [function |-> f, deleted |-> FALSE, number |-> changes + 1,
               blocked |-> FALSE, woken |-> FALSE]

RegisterBlockAndWakeupHandlers(f) ==
    /\ CountChange /\ round # "sleep"
    /\ handlers' = Append(handlers, Handler(f))
    /\ UNCHANGED <<round, nextHandler, callbackVars>>

RemoveBlockAndWakeupHandlers(f) ==
    /\ CountChange /\ round # "sleep"
    /\ Indices(handlers, f) # {}
    /\ LET i == FirstIndex(handlers, f)
       IN  handlers' = IF InHandler THEN [handlers EXCEPT ![i].deleted = TRUE]
                       ELSE RemoveAt(handlers, i)
    /\ UNCHANGED <<round, nextHandler, callbackVars>>

\* BlockHandler.
BlockBegins == /\ round = "none" /\ calls = <<>>
               /\ round' = "block" /\ nextHandler' = 1
               /\ UNCHANGED <<handlers, callbackVars, changes>>

CallBlockHandler == /\ round = "block" /\ nextHandler <= Len(handlers)
                    /\ handlers' = [handlers EXCEPT ![nextHandler].blocked = TRUE]
                    /\ nextHandler' = nextHandler + 1
                    /\ UNCHANGED <<round, callbackVars, changes>>

BlockEnds == /\ round = "block" /\ nextHandler > Len(handlers)
             /\ handlers' = Live(handlers)
             /\ round' = "sleep" /\ nextHandler' = 0
             /\ UNCHANGED <<callbackVars, changes>>

\* WakeupHandler.
WakeupBegins == /\ round = "sleep"
                /\ round' = "wakeup" /\ nextHandler' = Len(handlers)
                /\ UNCHANGED <<handlers, callbackVars, changes>>

CallWakeupHandler == /\ round = "wakeup" /\ nextHandler > 0
                     /\ handlers' = [handlers EXCEPT ![nextHandler].woken = TRUE]
                     /\ nextHandler' = nextHandler - 1
                     /\ UNCHANGED <<round, callbackVars, changes>>

WakeupEnds ==
    /\ round = "wakeup" /\ nextHandler = 0
    /\ handlers' = [i \in DOMAIN Live(handlers) |-> [Live(handlers)[i] EXCEPT !.blocked = FALSE, !.woken = FALSE]]
    /\ round' = "none"
    /\ UNCHANGED <<nextHandler, callbackVars, changes>>

----------------------------------------------------------------------------
(* The callback list.  It is called while requests are executed.           *)

AddCallback(f) ==
    /\ CountChange /\ round = "none"
    /\ callbacks' = <<[function |-> f, deleted |-> FALSE, number |-> changes + 1]>> \o callbacks
    /\ UNCHANGED <<handlerVars, calls, numDeleted>>

DeleteCallback(f) ==
    /\ CountChange /\ round = "none"
    /\ Indices(callbacks, f) # {}
    /\ LET i == FirstIndex(callbacks, f)
       IN  IF calls # <<>>
           THEN /\ callbacks' = [callbacks EXCEPT ![i].deleted = TRUE]
                /\ numDeleted' = numDeleted + 1
           ELSE callbacks' = RemoveAt(callbacks, i) /\ UNCHANGED numDeleted
    /\ UNCHANGED <<handlerVars, calls>>

Numbers(list) == [i \in DOMAIN list |-> list[i].number]

(***************************************************************************)
(* CallCallbacks, from a request or from one of the functions.  A call has  *)
(* a cursor, the number of the entry whose function runs, and as history    *)
(* the entries it has called and those it began with.                       *)
(***************************************************************************)
CallCallbacks ==
    /\ round = "none" /\ Len(calls) < MaxDepth /\ callbacks # <<>>
    /\ LET first == Head(callbacks).number
       IN  calls' = <<[cursor |-> first, called |-> <<first>>,
                       began |-> Numbers(callbacks)]>> \o calls
    /\ UNCHANGED <<handlerVars, callbacks, numDeleted, changes>>

\* The entries after the one whose function runs, read when it returns.
AfterCursor == LET at == CHOOSE i \in DOMAIN callbacks : callbacks[i].number = Head(calls).cursor
               IN  SubSeq(callbacks, at + 1, Len(callbacks))

CallNext ==
    /\ calls # <<>> /\ AfterCursor # <<>>
    /\ calls' = [calls EXCEPT ![1].called = Append(@, Head(AfterCursor).number),
                              ![1].cursor = Head(AfterCursor).number]
    /\ UNCHANGED <<handlerVars, callbacks, numDeleted, changes>>

\* The marked entries a sweep takes out: from the head, numDeleted of them.
Sweep == LET marked == DeletedIn(callbacks)
             early == {i \in marked : Cardinality({j \in marked : j < i}) < numDeleted}
         IN  [list |-> Leaving(callbacks, early),
              left |-> numDeleted - Cardinality(early)]

\* mutant of SweepsAt: a nested call takes marked entries from under its callers
SweepsAtAnyDepth(depth) == TRUE

\* The call that is not nested takes out what was marked.
SweepsAt(depth) == depth = 1

CallEnds ==
    /\ calls # <<>> /\ AfterCursor = <<>>
    /\ calls' = Tail(calls)
    /\ IF SweepsAt(Len(calls)) THEN callbacks' = Sweep.list /\ numDeleted' = Sweep.left
       ELSE UNCHANGED <<callbacks, numDeleted>>
    /\ UNCHANGED <<handlerVars, changes>>

----------------------------------------------------------------------------
CallbacksInit ==
    /\ handlers = <<>> /\ round = "none" /\ nextHandler = 0
    /\ callbacks = <<>> /\ calls = <<>> /\ numDeleted = 0
    /\ changes = 0

CallbacksNext ==
    \/ \E f \in Functions : \/ RegisterBlockAndWakeupHandlers(f)
                            \/ RemoveBlockAndWakeupHandlers(f)
                            \/ AddCallback(f)
                            \/ DeleteCallback(f)
    \/ BlockBegins \/ CallBlockHandler \/ BlockEnds
    \/ WakeupBegins \/ CallWakeupHandler \/ WakeupEnds
    \/ CallCallbacks \/ CallNext \/ CallEnds

CallbacksSpec == CallbacksInit /\ [][CallbacksNext]_callbacksVars

----------------------------------------------------------------------------
(***************************************************************************)
(* Type invariant.                                                         *)
(***************************************************************************)
CallbacksTypeOK ==
    /\ handlers \in Seq([function : Functions, deleted : BOOLEAN, number : 1 .. MaxChanges,
                         blocked : BOOLEAN, woken : BOOLEAN])
    /\ round \in {"none", "block", "sleep", "wakeup"}
    /\ nextHandler \in 0 .. Len(handlers) + 1
    /\ callbacks \in Seq([function : Functions, deleted : BOOLEAN, number : 1 .. MaxChanges])
    /\ Len(calls) <= MaxDepth
    /\ numDeleted \in 0 .. MaxChanges /\ changes \in 0 .. MaxChanges

(***************************************************************************)
(* However handlers and callbacks come and go while they are called: each   *)
(* handler of a round is called once before the sleep and once after it,    *)
(* and nothing is woken that was not told of the sleep; a running call of   *)
(* the callback list stands at an entry that is still there, and calls      *)
(* what it began with, in order, leaving out nothing; and no marked entry   *)
(* stays in either list when nothing runs (BlockHandler, WakeupHandler,     *)
(* _CallCallbacks).                                                        *)
(***************************************************************************)
EachIsCalledOnce ==
    /\ \A i \in DOMAIN handlers :
          /\ handlers[i].woken => handlers[i].blocked
          /\ round = "block" => (handlers[i].blocked <=> i < nextHandler)
          /\ round = "sleep" => handlers[i].blocked
          /\ round = "wakeup" /\ handlers[i].blocked => (handlers[i].woken <=> i > nextHandler)
    /\ ~InHandler => DeletedIn(handlers) = {}
    /\ \A k \in DOMAIN calls :
          LET call == calls[k]
          IN  /\ call.cursor \in ToSet(Numbers(callbacks))
              /\ call.cursor = Last(call.called)
              /\ IsPrefix(call.called, call.began)
              /\ call.cursor = Last(Numbers(callbacks)) => call.called = call.began
    /\ calls = <<>> => DeletedIn(callbacks) = {}
=============================================================================
