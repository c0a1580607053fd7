---------------------------- MODULE TurnProtocol ----------------------------
(***************************************************************************)
(* What a client of POST /chat may rely on: which event may follow which   *)
(* in the stream of a turn, whatever the model, the tools, the database    *)
(* and the client's own line do.  A stream may be cut off after any event; *)
(* otherwise it ends with a done, or with an error.                        *)
(***************************************************************************)
VARIABLES
    last,    \* the event last sent, or "none"
    beat,    \* flips with every event, so that a repeated one is seen
    over,    \* the stream is closed
    cut      \* and was cut off

Events == {"session", "status", "token", "tool_call", "tool_result",
           "message", "error", "done"}

(* While a model or a command is at work. *)
Working == {"status", "token", "tool_call", "message", "error"}

(* A tool_call is answered before anything else is said, unless the turn    *)
(* breaks; an error ends the turn, with a done or without, or with another  *)
(* error when saving what was said fails; a failure after a slash command's *)
(* done adds an error and a second done.                                    *)
Follows ==
    [none        |-> Working \cup {"session"},
     session     |-> Working,
     status      |-> Working,
     token       |-> Working,
     tool_call   |-> {"tool_result", "error"},
     tool_result |-> Working,
     message     |-> {"status", "error", "done"},
     error       |-> {"error", "done"},
     done        |-> {"error"}]

TPInit == last = "none" /\ beat = FALSE /\ over = FALSE /\ cut = FALSE

Final == {"done", "error"}

(* A final event may be the stream's last. *)
Send(e) ==
    /\ ~ over
    /\ e \in Follows[last]
    /\ last' = e
    /\ beat' = ~ beat
    /\ over' \in BOOLEAN
    /\ over' => e \in Final
    /\ UNCHANGED cut

Close ==
    /\ ~ over /\ over' = TRUE
    /\ cut' \in BOOLEAN
    /\ ~ cut' => last \in Final
    /\ UNCHANGED <<last, beat>>

TPNext == Close \/ \E e \in Events : Send(e)

TPSpec == TPInit /\ [][TPNext]_<<last, beat, over, cut>>
=============================================================================
