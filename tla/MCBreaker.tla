----------------------------- MODULE MCBreaker -----------------------------
(* Bounds for TLC: the clock, and the failures a breaker can count. *)
EXTENDS Breaker

CONSTANTS MaxClock, MaxFailures

MCNext == /\ Next
          /\ clock' <= MaxClock
          /\ streak' <= MaxFailures

MCSpec == Init /\ [][MCNext]_vars
=============================================================================
