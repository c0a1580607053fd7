----------------------------- MODULE MCChatTurn -----------------------------
(* ChatTurn for TLC: the clock stops at MaxClock. *)
EXTENDS ChatTurn

CONSTANT MaxClock

MCNext == Next /\ clock' <= MaxClock

MCSpec == Init /\ [][MCNext]_vars /\ Fairness
=============================================================================
