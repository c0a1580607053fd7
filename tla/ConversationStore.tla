------------------------- MODULE ConversationStore -------------------------
(***************************************************************************)
(* What db.py promises the rest of the agent: one table of messages in the *)
(* order they were saved, which changes by whole appends and removals.     *)
(* ConversationDb implements it with one call at a time; Widget relies     *)
(* on it.                                                                  *)
(***************************************************************************)
EXTENDS Integers, Picking, SequencesExt

CONSTANTS
    Messages,    \* what may be saved, each once
    SessionsOf,  \* session_id of each message
    Window       \* how many messages conversation_load returns at most

VARIABLE stored  \* conversation_messages, in id order

Init == stored \in Seq(Messages)

(* conversation_append. *)
Save(m) == stored' = Append(stored, m)

(* DELETE ... WHERE: rows of a session, or rows past their time to live.    *)
Erase(removed) == stored' = Without(stored, removed)

(* conversation_clear, of one session. *)
OfSession(s) == {m \in ToSet(stored) : SessionsOf[m] = s}
Clear(s) == Erase(OfSession(s))

(* conversation_load: the latest messages of one session, oldest first.     *)
Load(s) ==
    LET all == Picked(stored, {i \in DOMAIN stored : SessionsOf[stored[i]] = s})
    IN  IF Len(all) <= Window THEN all
                              ELSE SubSeq(all, Len(all) - Window + 1, Len(all))

Next ==
    \/ \E m \in Messages : Save(m)
    \/ \E m \in Messages : Clear(SessionsOf[m])
    \/ \E removed \in SUBSET ToSet(stored) : Erase(removed)

Spec == Init /\ [][Next]_stored
=============================================================================
