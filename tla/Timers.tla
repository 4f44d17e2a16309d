------------------------------- MODULE Timers -------------------------------
(***************************************************************************)
(* The timers of the server, os/WaitFor.c: a list sorted by the time of    *)
(* expiry, callbacks that set and cancel timers while the list is run, a    *)
(* clock of limited width that wraps around and that may be set back.       *)
(*                                                                         *)
(* Of WaitForSomething it has what concerns timers: the time it may sleep, *)
(* the check for a clock that was set back, and the loops that call what   *)
(* has expired.  Flags of TimerSet are 0, as in every call in the source.  *)
(***************************************************************************)
EXTENDS Integers, Sequences, SequencesExt, FiniteSets

CONSTANTS
    Timers,      \* the timers that exist
    Delays,      \* relative times in milliseconds that timers are set to
    ClockSize,   \* the clock counts modulo this, 2^32 in the source
    Slack,       \* 250 in the source
    Setbacks,    \* by how much the clock may be set back
    MaxSetbacks, \* bound: how often it is
    MaxLate      \* bound: how late the server may be with a timer, and how
                 \* long it may spend in CheckAllTimers

ASSUME TimersAssumption ==
    /\ IsFiniteSet(Timers)
    /\ ClockSize \in Nat \ {0} /\ Slack \in Nat /\ MaxSetbacks \in Nat /\ MaxLate \in Nat
    /\ Delays \subseteq Nat \ {0} /\ Setbacks \subseteq Nat \ {0}
    /\ \A d \in Delays, r \in Setbacks \cup {0} : 2 * (d + Slack + MaxSetbacks * r + MaxLate) < ClockSize

VARIABLES
    timers,    \* the list: a sequence of timers
    expires,   \* of each timer
    delta,     \* of each timer
    clock,     \* what GetTimeInMillis returns
    tpc,       \* where the server is: "dispatch", "check", "asleep", "firing"
    now,       \* the local variable of WaitForSomething
    wait,      \* what is left of the time select() may sleep, or Forever
    someReady, \* the local variable: a client has a request in its buffer
    left,      \* history: true time until a timer is due, negative when late
    setbacks   \* history: how often the clock was set back

timersVars == <<timers, expires, delta, clock, tpc, now, wait, someReady,
                left, setbacks>>

Forever == -1

Linked == ToSet(timers)

----------------------------------------------------------------------------
(* Unsigned differences of the clock's width, and their signed reading.    *)

Minus(a, b) == (a - b) % ClockSize
Signed(x) == IF 2 * x >= ClockSize THEN x - ClockSize ELSE x

Ahead(t) == Signed(Minus(expires[t], clock))

(***************************************************************************)
(* The list with the times of its timers, as one value that the calls of a *)
(* callback change one after the other.                                    *)
(***************************************************************************)
TheList == [list |-> timers, expires |-> expires, delta |-> delta, left |-> left]

Unlinked(s, t) == [s EXCEPT !.list = RemoveFirst(@, t), !.expires[t] = 0,
                            !.delta[t] = 0, !.left[t] = 0]

\* Mutant: times are compared without regard to a clock that wraps around.
PlaceByValue(s, e) ==
    LET later == {i \in DOMAIN s.list : s.expires[s.list[i]] > e}
    IN  IF later = {} THEN Len(s.list) + 1
        ELSE CHOOSE i \in later : \A j \in later : i <= j

\* The place of a timer that expires at e: before the first that expires later.
Place(s, e) ==
    LET later == {i \in DOMAIN s.list : Signed(Minus(s.expires[s.list[i]], e)) > 0}
    IN  IF later = {} THEN Len(s.list) + 1
        ELSE CHOOSE i \in later : \A j \in later : i <= j

\* TimerSet of a timer, relative to now; 0 only takes it off the list.
TimerSet(s, t, millis) ==
    LET u == Unlinked(s, t)
        e == (clock + millis) % ClockSize
    IN  IF millis = 0 THEN u
        ELSE [u EXCEPT !.list = InsertAt(@, Place(u, e), t), !.expires[t] = e,
                       !.delta[t] = millis, !.left[t] = millis]

SetList(s) == /\ timers' = s.list
              /\ expires' = s.expires
              /\ delta' = s.delta
              /\ left' = s.left

(***************************************************************************)
(* What a callback may do: nothing, set or cancel a timer, its own too; and *)
(* return 0 or the time after which it wants to be called again.  One that  *)
(* cancels its own timer frees it and returns 0.                            *)
(***************************************************************************)
CallbackEffects == {<<"nothing">>} \cup ({"cancel"} \X Timers) \cup ({"set"} \X Timers \X Delays)

DoTimer(t, effect, newTime) ==
    LET u == Unlinked(TheList, t)
        after == CASE effect[1] = "cancel" -> Unlinked(u, effect[2])
                   [] effect[1] = "set" -> TimerSet(u, effect[2], effect[3])
                   [] OTHER -> u
    IN  /\ effect = <<"cancel", t>> => newTime = 0
        /\ SetList(IF newTime = 0 THEN after ELSE TimerSet(after, t, newTime))

\* Call a timer, with any effect.
CallTimer(t) == \E effect \in CallbackEffects, newTime \in Delays \cup {0} : DoTimer(t, effect, newTime)

----------------------------------------------------------------------------
(* Calls of the dispatch loop and of handlers outside WaitForSomething.     *)

Idle == UNCHANGED <<clock, tpc, now, wait, someReady, setbacks>>

Set(t, millis) == /\ tpc = "dispatch"
                  /\ SetList(TimerSet(TheList, t, millis))
                  /\ Idle

TimerCancel(t) == /\ tpc = "dispatch"
                  /\ t \in Linked
                  /\ SetList(Unlinked(TheList, t))
                  /\ Idle

TimerForce(t) == /\ tpc = "dispatch"
                 /\ t \in Linked
                 /\ CallTimer(t)
                 /\ Idle

----------------------------------------------------------------------------
(* WaitForSomething.                                                       *)

\* The time select() may sleep, computed from the first timer and now.
TimeToSleep(n) ==
    LET timeout == Signed(Minus(expires[timers[1]], n))
    IN  IF timeout < 0 THEN 0 ELSE timeout

\* The first timer is farther away than it was when it was set.
ClockSetBack == /\ timers # <<>>
                /\ Ahead(timers[1]) > 0
                /\ Ahead(timers[1]) > delta[timers[1]] + Slack

\* Mutant: every timer that has not run out is forced.
AffectedAlways == {t \in Linked : Minus(expires[t], clock) > 0}

\* CheckAllTimers compares without sign: timers that are late count too.
Affected == {t \in Linked : Minus(expires[t], clock) > delta[t] + Slack}

\* The server is about to sleep.  ready: a client has a request in its buffer.
WaitForSomething(ready) ==
    /\ tpc = "dispatch"
    /\ someReady' = ready
    /\ \/ /\ ready
          /\ tpc' = "asleep"
          /\ wait' = 0 /\ UNCHANGED now
       \/ /\ ~ready /\ ClockSetBack
          /\ tpc' = "check"
          /\ now' = clock /\ UNCHANGED wait
       \/ /\ ~ready /\ ~ClockSetBack
          /\ tpc' = "asleep" /\ UNCHANGED now
          /\ wait' = IF timers = <<>> THEN Forever ELSE TimeToSleep(clock)
    /\ UNCHANGED <<timers, expires, delta, left, clock, setbacks>>

\* One turn of CheckAllTimers: the first affected timer is forced, or none is left.
CheckAllTimers ==
    /\ tpc = "check"
    /\ IF Affected # {}
       THEN /\ \E i \in DOMAIN timers :
                  /\ timers[i] \in Affected
                  /\ \A j \in 1..i-1 : timers[j] \notin Affected
                  /\ CallTimer(timers[i])
            /\ UNCHANGED <<tpc, wait, now>>
       ELSE /\ tpc' = "asleep"
            /\ wait' = IF timers = <<>> THEN Forever ELSE TimeToSleep(now)
            /\ now' = 0
            /\ UNCHANGED <<timers, expires, delta, left>>
    /\ UNCHANGED <<clock, someReady, setbacks>>

(***************************************************************************)
(* select() returns: by time-out, with ready descriptors, or interrupted.  *)
(* With a buffered request and a time-out the server leaves at once, with   *)
(* device events in the queue (input) it does not look at the timers.       *)
(***************************************************************************)
SelectReturns(result, input) ==
    /\ tpc = "asleep"
    /\ result = "timeout" => wait = 0
    /\ IF input \/ (someReady /\ result = "timeout")
       THEN tpc' = "dispatch" /\ UNCHANGED now
       ELSE tpc' = "firing" /\ now' = clock
    /\ wait' = Forever
    /\ someReady' = FALSE
    /\ UNCHANGED <<timers, expires, delta, left, clock, setbacks>>

\* The condition of the loop over expired timers, with the time it began at.
Expired == timers # <<>> /\ Signed(Minus(expires[timers[1]], now)) <= 0

FireNext ==
    /\ tpc = "firing"
    /\ Expired
    /\ CallTimer(timers[1])
    /\ Idle

FiringEnds ==
    /\ tpc = "firing"
    /\ ~Expired
    /\ tpc' = "dispatch"
    /\ now' = 0
    /\ UNCHANGED <<timers, expires, delta, left, clock, wait, someReady, setbacks>>

----------------------------------------------------------------------------
(* The clock.                                                              *)

\* select() may return late, and callbacks and requests take time.
Tick == /\ \A t \in Linked : Ahead(t) > -MaxLate
        /\ tpc = "check" => Signed(Minus(clock, now)) < MaxLate
        /\ clock' = (clock + 1) % ClockSize
        /\ left' = [t \in Timers |-> IF t \in Linked THEN left[t] - 1 ELSE left[t]]
        /\ wait' = IF wait > 0 THEN wait - 1 ELSE wait
        /\ UNCHANGED <<timers, expires, delta, tpc, now, someReady, setbacks>>

SetBack(r) == /\ setbacks < MaxSetbacks
              /\ setbacks' = setbacks + 1
              /\ clock' = Minus(clock, r)
              /\ UNCHANGED <<timers, expires, delta, left, tpc, now, wait, someReady>>

TimersInit ==
    /\ timers = <<>>
    /\ expires = [t \in Timers |-> 0]
    /\ delta = [t \in Timers |-> 0]
    /\ left = [t \in Timers |-> 0]
    /\ clock = 0 /\ now = 0 /\ wait = Forever /\ someReady = FALSE
    /\ tpc = "dispatch"
    /\ setbacks = 0

Requests == \/ \E t \in Timers, d \in Delays \cup {0} : Set(t, d)
            \/ \E t \in Timers : TimerCancel(t)
            \/ \E t \in Timers : TimerForce(t)

TimersNext ==
    \/ Requests
    \/ \E ready \in BOOLEAN : WaitForSomething(ready)
    \/ CheckAllTimers
    \/ \E result \in {"timeout", "ready", "interrupted"}, input \in BOOLEAN : SelectReturns(result, input)
    \/ FireNext
    \/ FiringEnds
    \/ Tick
    \/ \E r \in Setbacks : SetBack(r)

(***************************************************************************)
(* The loops go on; time passes; and again and again select() returns when *)
(* no client has a buffered request and no device event waits, so that the *)
(* server looks at its timers.  The source does not make that true: clients *)
(* that always have requests in their buffers keep it from its timers.      *)
(***************************************************************************)
LooksAtTimers == /\ \E result \in {"timeout", "ready", "interrupted"} : SelectReturns(result, FALSE)
                 /\ tpc' = "firing"

TimersFairness ==
    /\ WF_timersVars(CheckAllTimers \/ FireNext \/ FiringEnds)
    /\ WF_timersVars(Tick)
    /\ SF_timersVars(WaitForSomething(FALSE))
    /\ SF_timersVars(LooksAtTimers)

TimersSpec == TimersInit /\ [][TimersNext]_timersVars /\ TimersFairness

----------------------------------------------------------------------------
(* Properties.                                                             *)

\* Types of the variables; a timer is on the list at most once.
TimersTypeOK ==
    /\ TheList \in [list : Seq(Timers), expires : [Timers -> 0..ClockSize-1],
                    delta : [Timers -> {0} \cup Delays], left : [Timers -> Int]]
    /\ IsInjective(timers)
    /\ clock \in 0..ClockSize-1 /\ now \in 0..ClockSize-1
    /\ tpc \in {"dispatch", "check", "asleep", "firing"}
    /\ wait \in Nat \cup {Forever} /\ someReady \in BOOLEAN
    /\ setbacks \in 0..MaxSetbacks

(***************************************************************************)
(* The server never sleeps past a timer, whatever callbacks did to the list *)
(* and wherever the clock wrapped around.  When the clock was set back it   *)
(* sleeps at most as long as the first timer was set for, the slack and the *)
(* time CheckAllTimers took, after which the server does not read the clock *)
(* again.                                                                  *)
(***************************************************************************)
WakesInTime ==
    (tpc = "asleep" /\ timers # <<>>) =>
        /\ wait # Forever
        /\ wait <= delta[timers[1]] + Slack + MaxLate
        /\ setbacks = 0 => \A t \in Linked : wait = 0 \/ wait <= left[t]

(***************************************************************************)
(* As long as the clock is not set back a timer is called by the loops only *)
(* when it is due and none that is due earlier still waits; and the check   *)
(* for a clock that was set back finds nothing to do.                       *)
(***************************************************************************)
FiresInOrder ==
    setbacks = 0 =>
        /\ tpc # "check"
        /\ (tpc = "firing" /\ Expired) =>
               /\ left[timers[1]] <= 0
               /\ \A t \in Linked : left[timers[1]] <= left[t]

\* Timers are on time: the server wakes for them and calls them in order.
TimersInTime == WakesInTime /\ FiresInOrder

(***************************************************************************)
(* A timer that is due is called, set again or cancelled in the end, though *)
(* callbacks set timers over and over and the clock may be set back.        *)
(***************************************************************************)
TimersAreServed ==
    \A t \in Timers : []<>~(t \in Linked /\ left[t] <= 0)
=============================================================================
