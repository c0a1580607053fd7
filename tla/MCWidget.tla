------------------------------ MODULE MCWidget ------------------------------
(* Widget for TLC: three messages in one tab, two in one that may change its *)
(* session once, or one in two tabs and three sessions.                      *)
EXTENDS Widget

CONSTANTS a, b

Small ==
    \/ sent_to[2] = None
    \/ /\ drawn + Cardinality(Waiting) <= 2
       /\ ~ loaded[b]
       /\ sent_to[3] # None => loads = 1 /\ drawn + Cardinality(Waiting) = 1

MCNext == Next /\ Small'

MCSpec == Init /\ [][MCNext]_vars /\ Fairness
=============================================================================
