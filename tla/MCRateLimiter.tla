--------------------------- MODULE MCRateLimiter ---------------------------
(* A small instance of RateLimiter for TLC: the clock stops at MaxClock. *)
EXTENDS RateLimiter

CONSTANT MaxClock

MCNext == RateLimiterNext /\ clock' <= MaxClock

MCSpec == RateLimiterInit /\ [][MCNext]_rlVars
=============================================================================
