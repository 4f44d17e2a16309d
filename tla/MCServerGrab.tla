---------------------------- MODULE MCServerGrab ----------------------------
(***************************************************************************)
(* ServerGrab on three clients, two of them in one word of grabWaiters.     *)
(***************************************************************************)
EXTENDS ServerGrab

\* The smart scheduler: clients that kill each other and that are impervious.
SmartRequests == {"GrabServer", "UngrabServer", "KillClient",
                  "Impervious", "Pervious"}

\* The round-robin scheduler: clients that break, sleep and kill each other.
DumbRequests == {"Other", "GrabServer", "UngrabServer", "KillClient", "Sleep"}

\* For the two disagreements.
WaitRequests == {"GrabServer", "UngrabServer", "KillClient", "Impervious"}
KillRequests == {"GrabServer", "UngrabServer", "KillClient"}
=============================================================================
