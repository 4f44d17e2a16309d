---------------------------- MODULE MCEventQueue ----------------------------
(* EventQueue with a ring of three slots (two events), two screens, and     *)
(* device clocks that differ by less than the slack.                        *)
EXTENDS EventQueue
=============================================================================
