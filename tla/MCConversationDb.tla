-------------------------- MODULE MCConversationDb --------------------------
(* ConversationDb for TLC: one session; with two calls at a time, one turn. *)
EXTENDS ConversationDb

CONSTANTS t1, t2, d1, scheduler, long_ago, s1

MCSessionOf == [a \in {t1, t2, d1, long_ago} |-> s1]

MCInit == Init /\ (overlap > 1 => call[t2] = "load")

MCNext == Next /\ (overlap > 1 => stage'[t2] = "idle")

MCSpec == MCInit /\ [][MCNext]_vars /\ Fairness
=============================================================================
