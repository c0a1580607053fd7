------------------------------- MODULE Widget -------------------------------
(***************************************************************************)
(* The chat widget with `persist` (widget/certmate-agent.js, api.js): tabs *)
(* of one browser that share a localStorage, the turns they ask for and    *)
(* the conversations API they read and delete with (agent/api/             *)
(* conversations.py, agent/api/chat.py).                                   *)
(*                                                                         *)
(* A tab is single-threaded and gives way only at an await: between two of *)
(* them it is alone.  The server's side is what the other modules show of  *)
(* it: events as TurnProtocol lets them follow each other, messages saved  *)
(* in a ConversationStore.  An event is sent and handled in one step; a    *)
(* reader that is gone gets no more of them, and the turn may go on.       *)
(***************************************************************************)
EXTENDS Integers, Sequences, FiniteSets, SequencesExt

CONSTANTS
    Tabs,
    MaxSessions,  \* session ids the browser draws
    MaxTurns,     \* messages the user sends
    MaxLoads,     \* times a page is loaded
    MaxHistory,   \* ChatRequest.history's max_length
    Window        \* conversation_load's limit

ASSUME WidgetAssumption ==
    /\ MaxSessions \in Nat \ {0}
    /\ {MaxTurns, MaxLoads, MaxHistory, Window} \subseteq Nat

Sessions == 1 .. MaxSessions
None == 0           \* no id, no token
Turns == 1 .. MaxTurns
Message == Sessions \X Turns \X {"user", "assistant"}

VARIABLES
    local,      \* localStorage: the session's id, and a session's token
    (* A page of the widget. *)
    loaded,     \* the page is there
    sid, tok,   \* sessionId; whose token sessionToken is
    history,    \* _history
    turn,       \* the turn its _send is in, or 0: not _busy
    last,       \* what that turn has had: a request, an answer, events
    text,       \* assistantText is not empty
    cards,      \* _pendingTools, of the one tool there is
    leaving,    \* calls of _newSession that wait for their DELETE
    restore,    \* the GET that _restoreHistory waits for
    (* The server. *)
    stored,     \* conversation_messages
    sent_to,    \* session_id of each turn
    serving,    \* the server's side of each turn
    saves,      \* how many messages it has appended
    (* History variables. *)
    drawn,      \* how many session ids have been drawn
    loads,      \* pages loaded
    split,      \* two tabs have been in different sessions at one time
    crossed,    \* a request was open when the page's session was swapped,
                \* or a message was sent while the history was being loaded
    mixed,      \* turns whose card was given another turn's result
    unanswered  \* turns with a tool call that has had no result

pageVars ==
    <<loaded, sid, tok, history, turn, last, text, cards, leaving, restore>>
serverVars == <<stored, sent_to, serving, saves>>
seenVars == <<drawn, loads, split, crossed, mixed, unanswered>>
vars == <<local, pageVars, serverVars, seenVars>>

Store == INSTANCE ConversationStore WITH
            Messages <- Message,
            SessionsOf <- [m \in Message |-> m[1]]

Protocol(t) == INSTANCE TurnProtocol WITH
            last <- last[t], beat <- FALSE, over <- turn[t] = 0, cut <- FALSE

NoGet == [at |-> "none", sid |-> None, tok |-> None, body |-> <<>>]
Delete == [sid : Sessions, tok : Sessions \cup {None}, served : BOOLEAN]

Requested == {"asked", "too_long"}

(* Pages, requests and conversations in their ranges; a page has a session. *)
WidgetTypeOK ==
    /\ local \in [id : Sessions \cup {None}, token : Sessions \cup {None}]
    /\ loaded \in [Tabs -> BOOLEAN]
    /\ \A t \in Tabs : loaded[t] => sid[t] \in Sessions
    /\ tok \in [Tabs -> Sessions \cup {None}]
    /\ history \in [Tabs -> Seq(Message)]
    /\ turn \in [Tabs -> Turns \cup {0}]
    /\ \A t \in Tabs : turn[t] = 0 <=> last[t] = "idle"
    /\ text \in [Tabs -> BOOLEAN]
    /\ cards \in [Tabs -> Seq(Turns)]
    /\ leaving \in [Tabs -> Seq(Delete)]
    /\ \A t \in Tabs : restore[t].at \in {"none", "asked", "answered"}
    /\ stored \in Seq(Message)
    /\ sent_to \in [Turns -> Sessions \cup {None}]
    /\ serving \in [Turns -> {"none", "live", "unread"}]
    /\ saves \in [Turns -> 0 .. 2]
    /\ drawn \in 0 .. MaxSessions /\ loads \in 0 .. MaxLoads
    /\ split \in BOOLEAN /\ crossed \in [Tabs -> BOOLEAN]
    /\ mixed \subseteq Turns /\ unanswered \subseteq Turns

Init ==
    /\ local = [id |-> None, token |-> None]
    /\ loaded = [t \in Tabs |-> FALSE]
    /\ sid = [t \in Tabs |-> None] /\ tok = [t \in Tabs |-> None]
    /\ history = [t \in Tabs |-> <<>>]
    /\ turn = [t \in Tabs |-> 0] /\ last = [t \in Tabs |-> "idle"]
    /\ text = [t \in Tabs |-> FALSE]
    /\ cards = [t \in Tabs |-> <<>>] /\ leaving = [t \in Tabs |-> <<>>]
    /\ restore = [t \in Tabs |-> NoGet]
    /\ stored = <<>>
    /\ sent_to = [n \in Turns |-> None]
    /\ serving = [n \in Turns |-> "none"] /\ saves = [n \in Turns |-> 0]
    /\ drawn = 0 /\ loads = 0
    /\ split = FALSE /\ crossed = [t \in Tabs |-> FALSE]
    /\ mixed = {} /\ unanswered = {}
-----------------------------------------------------------------------------
(* _loadOrCreateSession: the id in localStorage, or a new one put there.    *)
LoadOrCreateSession(id) == drawn' = IF id = None THEN drawn + 1 ELSE drawn

(* Slip: no id is drawn where there is none. *)
NoSessionAfter(id) == id

SessionAfter(id) == IF id = None THEN drawn + 1 ELSE id

Apart == \E t, u \in Tabs : loaded'[t] /\ loaded'[u] /\ sid'[t] # sid'[u]

(* Nobody reads the tab's turn any more: it may be over, stop or go on.     *)
Abandon(t) ==
    serving' = IF turn[t] = 0 \/ last[t] = "too_long" THEN serving
               ELSE [serving EXCEPT ![turn[t]] = "unread"]

(* connectedCallback, of a new page or a reloaded one: what the old page
   held is gone with it.                                                    *)
Open(t) ==
    /\ loads < MaxLoads /\ loads' = loads + 1
    /\ LoadOrCreateSession(local.id)
    /\ local' = [local EXCEPT !.id = SessionAfter(local.id)]
    /\ loaded' = [loaded EXCEPT ![t] = TRUE]
    /\ sid' = [sid EXCEPT ![t] = local'.id]
    /\ tok' = [tok EXCEPT ![t] = local.token]
    /\ history' = [history EXCEPT ![t] = <<>>]
    /\ Abandon(t)
    /\ turn' = [turn EXCEPT ![t] = 0] /\ last' = [last EXCEPT ![t] = "idle"]
    /\ text' = [text EXCEPT ![t] = FALSE]
    /\ cards' = [cards EXCEPT ![t] = <<>>]
    /\ leaving' = [leaving EXCEPT ![t] = <<>>]
    /\ restore' = [restore EXCEPT ![t] =
                      IF local.token = None THEN NoGet
                      ELSE [NoGet EXCEPT !.at = "asked", !.sid = local'.id,
                                         !.tok = local.token]]
    /\ split' = (split \/ Apart)
    /\ crossed' = [crossed EXCEPT ![t] = FALSE]
    /\ UNCHANGED <<stored, sent_to, saves, mixed, unanswered>>

(* _restoreHistory: get_conversation answers with what conversation_load
   returns, or 404 for a token of another session; the page adds it.        *)
ServeGet(t) ==
    /\ restore[t].at = "asked"
    /\ restore' = [restore EXCEPT ![t].at = "answered",
                      ![t].body = IF restore[t].tok = restore[t].sid
                                      THEN Store!Load(restore[t].sid) ELSE <<>>]
    /\ UNCHANGED <<local, loaded, sid, tok, history, turn, last, text, cards,
                   leaving, serverVars, seenVars>>

RestoreHistory(t) ==
    /\ restore[t].at # "none"
    /\ \/ /\ restore[t].at = "answered"
          /\ history' = [history EXCEPT ![t] = @ \o restore[t].body]
       \/ UNCHANGED history                         \* the fetch fails
    /\ restore' = [restore EXCEPT ![t] = NoGet]
    /\ UNCHANGED <<local, loaded, sid, tok, turn, last, text, cards, leaving,
                   serverVars, seenVars>>
-----------------------------------------------------------------------------
(* _send, up to the fetch. *)
Send(t) ==
    /\ loaded[t] /\ turn[t] = 0
    /\ \E n \in Turns :
          /\ sent_to[n] = None /\ \A m \in 1 .. n - 1 : sent_to[m] # None
          /\ turn' = [turn EXCEPT ![t] = n]
          /\ sent_to' = [sent_to EXCEPT ![n] = sid[t]]
    /\ last' = [last EXCEPT ![t] =
                   IF Len(history[t]) > MaxHistory THEN "too_long" ELSE "asked"]
    /\ text' = [text EXCEPT ![t] = FALSE]
    /\ crossed' = [crossed EXCEPT ![t] = @ \/ restore[t].at # "none"]
    /\ UNCHANGED <<local, loaded, sid, tok, history, cards, leaving, restore,
                   stored, serving, saves, drawn, loads, split, mixed,
                   unanswered>>

(* The response's head has come: turnSucceeded. *)
Accept(t) ==
    /\ last[t] = "asked"
    /\ last' = [last EXCEPT ![t] = "none"]
    /\ serving' = [serving EXCEPT ![turn[t]] = "live"]
    /\ UNCHANGED <<local, loaded, sid, tok, history, turn, text, cards,
                   leaving, restore, stored, sent_to, saves, seenVars>>

(* The finally of _send. *)
Leave(t) ==
    /\ turn' = [turn EXCEPT ![t] = 0]
    /\ last' = [last EXCEPT ![t] = "idle"]
    /\ text' = [text EXCEPT ![t] = FALSE]

(* Slip: a failed request leaves the tab busy. *)
RefuseStaysBusy(t) ==
    /\ last[t] \in Requested
    /\ last' = [last EXCEPT ![t] = "too_long"]
    /\ UNCHANGED <<local, loaded, sid, tok, history, turn, text, cards,
                   leaving, restore, serverVars, seenVars>>

(* The request is refused (422, 429), or fails on the way there or back.    *)
Refuse(t) ==
    /\ last[t] \in Requested
    /\ Leave(t)
    /\ Abandon(t) \/ UNCHANGED serving
    /\ UNCHANGED <<local, loaded, sid, tok, history, cards, leaving, restore,
                   stored, sent_to, saves, seenVars>>

(* An accepted turn ends: the question goes into the history, and the answer
   when there was one.                                                      *)
Exchange(t) ==
    LET said(role) == <<sent_to[turn[t]], turn[t], role>>
    IN  <<said("user")>> \o IF text[t] THEN <<said("assistant")>> ELSE <<>>

Finish(t) ==
    /\ Leave(t)
    /\ history' = [history EXCEPT ![t] = @ \o Exchange(t)]

Streaming(t) == turn[t] # 0 /\ last[t] \notin Requested

(* The stream ends, with the turn or with the line. *)
EndOfStream(t) ==
    /\ Streaming(t)
    /\ Finish(t)
    /\ Abandon(t)
    /\ UNCHANGED <<local, loaded, sid, tok, cards, leaving, restore, stored,
                   sent_to, saves, seenVars>>
-----------------------------------------------------------------------------
(* parseSseBlock, of the event that the server sends next. *)
Event(t, e) ==
    /\ Streaming(t)
    /\ e \in Protocol(t)!Follows[last[t]]
    /\ last[t] = "none" => e = "session"            \* the widget has `persist`
    /\ last' = [last EXCEPT ![t] = e]
    /\ UNCHANGED <<loaded, sid, history, turn, leaving, restore, serverVars,
                   drawn, loads, split, crossed>>

(* Slip: the token is kept whatever the session. *)
OnAnySession(t) ==
    /\ Event(t, "session")
    /\ tok' = [tok EXCEPT ![t] = sent_to[turn[t]]]
    /\ local' = [local EXCEPT !.token = tok'[t]]
    /\ UNCHANGED <<text, cards, mixed, unanswered>>

OnSession(t) ==
    /\ Event(t, "session")
    /\ LET owner == sent_to[turn[t]]
       IN  IF owner = sid[t]
               THEN /\ tok' = [tok EXCEPT ![t] = owner]
                    /\ local' = [local EXCEPT !.token = owner]
               ELSE UNCHANGED <<tok, local>>
    /\ UNCHANGED <<text, cards, mixed, unanswered>>

OnToolCall(t) ==
    /\ Event(t, "tool_call")
    /\ cards' = [cards EXCEPT ![t] = Append(@, turn[t])]
    /\ unanswered' = unanswered \cup {turn[t]}
    /\ UNCHANGED <<local, tok, text, mixed>>

(* Slip: the card stays in the queue. *)
OnToolResultKeepsCard(t) ==
    /\ Event(t, "tool_result")
    /\ mixed' = mixed \cup (IF cards[t] = <<>> THEN {}
                            ELSE {Head(cards[t])} \ {turn[t]})
    /\ unanswered' = unanswered \ {turn[t]}
    /\ UNCHANGED <<local, tok, text, cards>>

(* _addTool with a result: the oldest card that waits, else a new one.      *)
OnToolResult(t) ==
    /\ Event(t, "tool_result")
    /\ IF cards[t] # <<>>
           THEN /\ mixed' = mixed \cup ({Head(cards[t])} \ {turn[t]})
                /\ cards' = [cards EXCEPT ![t] = Tail(@)]
           ELSE UNCHANGED <<mixed, cards>>
    /\ unanswered' = unanswered \ {turn[t]}
    /\ UNCHANGED <<local, tok, text>>

OnMessage(t) ==
    /\ Event(t, "message")
    /\ text' = [text EXCEPT ![t] = TRUE]
    /\ UNCHANGED <<local, tok, cards, mixed, unanswered>>

(* The others only change what is on the screen. *)
OnOther(t) ==
    /\ \E e \in {"token", "status", "error", "done"} : Event(t, e)
    /\ UNCHANGED <<local, tok, text, cards, mixed, unanswered>>
-----------------------------------------------------------------------------
Waiting == UNION {{t} \X DOMAIN leaving[t] : t \in Tabs}

(* _newSession, up to its await: the turn is aborted, and its _send is over
   before the DELETE is.                                                    *)
NewSession(t) ==
    /\ loaded[t]
    /\ drawn + Cardinality(Waiting) < MaxSessions
    /\ leaving' = [leaving EXCEPT ![t] =
                      Append(@, [sid |-> sid[t], tok |-> tok[t],
                                 served |-> FALSE])]
    /\ Abandon(t)
    /\ CASE turn[t] = 0 -> UNCHANGED <<turn, last, text, history>>
         [] Streaming(t) -> Finish(t)
         [] OTHER -> Leave(t) /\ UNCHANGED history
    /\ UNCHANGED <<local, loaded, sid, tok, cards, restore, stored, sent_to,
                   saves, seenVars>>

(* delete_conversation: 404 without a token of the session. *)
ServeDelete(t, k) ==
    /\ k \in DOMAIN leaving[t] /\ ~ leaving[t][k].served
    /\ leaving' = [leaving EXCEPT ![t][k].served = TRUE]
    /\ IF leaving[t][k].tok = leaving[t][k].sid
           THEN Store!Clear(leaving[t][k].sid) ELSE UNCHANGED stored
    /\ UNCHANGED <<local, loaded, sid, tok, history, turn, last, text, cards,
                   restore, sent_to, serving, saves, seenVars>>

(* Slip: the history goes along. *)
SwapKeepsHistory(t, k) ==
    /\ k \in DOMAIN leaving[t]
    /\ leaving' = [leaving EXCEPT ![t] = RemoveAt(@, k)]
    /\ LoadOrCreateSession(None)
    /\ local' = [id |-> SessionAfter(None), token |-> None]
    /\ sid' = [sid EXCEPT ![t] = local'.id]
    /\ tok' = [tok EXCEPT ![t] = None]
    /\ cards' = [cards EXCEPT ![t] = <<>>]
    /\ UNCHANGED <<loaded, history, turn, last, text, restore, serverVars,
                   loads, split, crossed, mixed, unanswered>>

(* ... and after it, whatever became of the DELETE: another session, with
   neither token nor history.  What the page is in the middle of goes on.   *)
Swap(t, k) ==
    /\ k \in DOMAIN leaving[t]
    /\ leaving' = [leaving EXCEPT ![t] = RemoveAt(@, k)]
    /\ LoadOrCreateSession(None)
    /\ local' = [id |-> SessionAfter(None), token |-> None]
    /\ sid' = [sid EXCEPT ![t] = local'.id]
    /\ tok' = [tok EXCEPT ![t] = None]
    /\ history' = [history EXCEPT ![t] = <<>>]
    /\ cards' = [cards EXCEPT ![t] = <<>>]
    /\ crossed' = [crossed EXCEPT ![t] = turn[t] # 0 \/ restore[t].at # "none"]
    /\ UNCHANGED <<loaded, turn, last, text, restore, serverVars, loads,
                   mixed, unanswered>>
    /\ split' = (split \/ Apart)
-----------------------------------------------------------------------------
(* The turn saves its question, then perhaps its answer: at its end, or
   wherever it is when the client is lost.                                  *)
AtItsEnd(n) == \E t \in Tabs : turn[t] = n
                   /\ last[t] \in {"tool_result", "message", "error", "done"}

Save(n) ==
    /\ saves[n] < 2
    /\ \/ serving[n] = "unread"
       \/ serving[n] = "live" /\ AtItsEnd(n)
    /\ LET role == IF saves[n] = 0 THEN "user" ELSE "assistant"
       IN  Store!Save(<<sent_to[n], n, role>>)
    /\ saves' = [saves EXCEPT ![n] = @ + 1]
    /\ UNCHANGED <<local, pageVars, sent_to, serving, seenVars>>
-----------------------------------------------------------------------------
Restore(t) == ServeGet(t) \/ RestoreHistory(t)

Answer(t) == Accept(t) \/ Refuse(t)

Stream(t) ==
    \/ OnSession(t) \/ OnToolCall(t) \/ OnToolResult(t) \/ OnMessage(t)
    \/ OnOther(t)

Leaving(t) == \E k \in 1 .. MaxSessions : ServeDelete(t, k) \/ Swap(t, k)

Next ==
    \/ \E t \in Tabs : Open(t) \/ Restore(t) \/ Send(t) \/ Answer(t)
                       \/ Stream(t) \/ EndOfStream(t)
                       \/ NewSession(t) \/ Leaving(t)
    \/ \E n \in Turns : Save(n)

(* A request is answered or fails; a stream ends: the agent's turn does
   (ChatTurn's TurnEnds), or the line.                                      *)
Fairness == \A t \in Tabs : WF_vars(Answer(t)) /\ WF_vars(EndOfStream(t))

Spec == Init /\ [][Next]_vars /\ Fairness
-----------------------------------------------------------------------------
(* A token is kept, shown and sent with its own session: in localStorage, in
   a page, in a request that waits.  (Two tabs in different sessions share
   one localStorage and do mix them.)                                       *)
TokensMatch ==
    ~ split =>
        /\ local.token \in {None, local.id}
        /\ \A t \in Tabs :
              /\ loaded[t] => tok[t] \in {None, sid[t]}
              /\ \A k \in DOMAIN leaving[t] :
                    leaving[t][k].tok \in {None, leaving[t][k].sid}

(* The history a page shows and sends is of the page's own session, and has
   no message twice, unless a request was open when the session was swapped
   or a message was sent while the history was being loaded.                *)
HistoryOfSession ==
    \A t \in Tabs : ~ crossed[t] =>
        /\ \A m \in ToSet(history[t]) : m[1] = sid[t]
        /\ Cardinality(ToSet(history[t])) = Len(history[t])

(* A tool's result goes into the card of its own call, unless that card's
   turn or one before it was cut off between a call and its result.         *)
CardsPaired == \A m \in mixed : \E n \in unanswered : n <= m

(* The composer is given back after every message. *)
TabFree == \A t \in Tabs : turn[t] # 0 ~> turn[t] = 0
=============================================================================
