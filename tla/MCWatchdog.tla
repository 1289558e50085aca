------------------------------- MODULE MCWatchdog -------------------------------
(* Instances of Watchdog for TLC. *)
EXTENDS Watchdog

MCWorld == {"lost", "wedge", "stop", "sleep", "unanswered", "no_post"}
=============================================================================
