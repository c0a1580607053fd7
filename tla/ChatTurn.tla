------------------------------ MODULE ChatTurn ------------------------------
(***************************************************************************)
(* One turn: run_turn of agent/chat_loop.py over a ChatLLM, the slash      *)
(* commands it dispatches to, and the stream() of agent/api/chat.py that   *)
(* forwards its events and turns its exceptions into an error and a done.  *)
(*                                                                         *)
(* Every await is a place where the turn can be dropped: the client is     *)
(* found gone, the task is cancelled, or the generator is closed.          *)
(***************************************************************************)
EXTENDS ChatLLM, Picking

CONSTANTS
    MaxIterations,  \* agent_max_tool_iterations
    Indices,        \* indices of the tool calls in one response, 0 .. n
    Tools,          \* names in the tool registry
    OtherNames,     \* names a model may invent
    NoName,         \* a tool call whose name never came
    ProviderIds,    \* ids a provider gives its tool calls
    NoId            \* none given

ASSUME ChatTurnAssumption ==
    /\ MaxIterations \in Nat
    /\ Indices \subseteq Nat /\ IsFiniteSet(Indices)
    /\ NoName \notin Tools \cup OtherNames
    /\ NoId \notin ProviderIds
    /\ \A i \in Indices : <<"call", i>> \notin ProviderIds

VARIABLES
    pc,         \* where the turn is
    persist,    \* use_persistence: switched on, and a session_id was sent
    last,       \* the SSE event last sent
    beat,       \* flips with every event sent, to tell a repeated one
    iteration,  \* requests made to the model
    content,    \* content_parts is not empty
    tc_acc,     \* tool calls gathered from the stream, by index
    messages,   \* what the next request will carry
    todo,       \* tool calls of the response still to be executed
    answered,   \* an assistant text to persist: final_assistant_text, the
                \* placeholder, or last_assistant_text of a slash command
    saved       \* the roles this turn has appended to the conversation

sentVars == <<last, beat>>
turnVars == <<pc, persist, last, beat, iteration, content, tc_acc, messages,
              todo, answered, saved>>
loopVars == <<iteration, content, tc_acc, messages, todo>>
vars == <<llmVars, turnVars>>

Names == Tools \cup OtherNames
Acc == [id : ProviderIds \cup {NoId}, name : Names \cup {NoName}]
Ids == ProviderIds \cup ({"call"} \X Indices)
Roles == {"system", "user", "assistant", "tool"}

(* calls: the ids of an assistant message's tool_calls, or the one id a     *)
(* tool message answers.                                                    *)
Message == [role : Roles, calls : Seq(Ids)]
Say(role) == [role |-> role, calls |-> <<>>]

Running == {"request", "streaming", "respond", "call", "execute",
            "give_up", "slash"}
Saving == {"save_user", "save_assistant", "bail_user", "bail_assistant",
           "slash_user", "slash_assistant"}
Closing == {"finish", "bail_error", "bail_done", "raised", "raised_done"}

(* run_turn returned; an exception of it was told; the turn was dropped. *)
Ended == {"over", "failed", "dropped"}

(* Every piece of run_turn's state in its range: never more iterations than  *)
(* the limit, no tool call past the last one of the response.                *)
TurnTypeOK ==
    /\ pc \in {"start"} \cup Running \cup Saving \cup Closing \cup Ended
    /\ persist \in BOOLEAN
    /\ last \in {"none", "session", "status", "token", "tool_call",
                 "tool_result", "message", "error", "done"}
    /\ beat \in BOOLEAN
    /\ iteration \in 0 .. MaxIterations
    /\ content \in BOOLEAN
    /\ DOMAIN tc_acc \subseteq Indices
    /\ \A i \in DOMAIN tc_acc : tc_acc[i] \in Acc
    /\ messages \in Seq(Message)
    /\ todo \in Seq(Ids \X Names)
    /\ answered \in BOOLEAN
    /\ saved \in {<<>>, <<"user">>, <<"user", "assistant">>}

NoCalls == [i \in {} |-> 0]

Init ==
    /\ LLMInit
    /\ pc = "start"
    /\ persist \in BOOLEAN
    /\ last = "none"
    /\ beat = FALSE
    /\ iteration = 0
    /\ content = FALSE
    /\ tc_acc = NoCalls
    /\ messages = <<>>
    /\ todo = <<>>
    /\ answered = FALSE
    /\ saved = <<>>

Goto(from, to) == pc = from /\ pc' = to
Send(e) == last' = e /\ beat' = ~ beat

-----------------------------------------------------------------------------
(* stream(): the session event comes first. *)
SendSession ==
    /\ pc = "start" /\ persist /\ last = "none"
    /\ Send("session")
    /\ UNCHANGED <<llmVars, loopVars, pc, persist, answered, saved>>

Ready == pc = "start" /\ (persist => last = "session")

(* The message is no slash command.  The history, from the database or from *)
(* the request, is older than anything this turn adds and is left out.      *)
BeginChat ==
    /\ Ready
    /\ pc' = IF MaxIterations = 0 THEN "give_up" ELSE "request"
    /\ messages' = <<Say("system"), Say("user")>>
    /\ NewInstance
    /\ UNCHANGED <<persist, sentVars, iteration, content, tc_acc, todo, answered, saved>>

-----------------------------------------------------------------------------
(* The model's turn of the loop. *)

(* status "thinking", then chat_stream. *)
Request ==
    /\ pc = "request"
    /\ iteration' = iteration + 1
    /\ Send("status")
    /\ content' = FALSE
    /\ tc_acc' = NoCalls
    /\ ChatStream
    /\ pc' = "streaming"
    /\ UNCHANGED <<persist, messages, todo, answered, saved>>

(* A chunk with text: a token is sent at once, whether or not tool calls    *)
(* follow.                                                                  *)
TextChunk ==
    /\ pc = "streaming"
    /\ Chunk
    /\ content' = TRUE
    /\ Send("token")
    /\ UNCHANGED <<pc, persist, iteration, tc_acc, messages, todo, answered, saved>>

Given(new, none, old) == IF new = none THEN old ELSE new

(* A fragment of the tool call at index i: what it brings overwrites, what  *)
(* it leaves out stays.  Arguments are not told apart.                      *)
ToolChunk(i, id, name) ==
    /\ pc = "streaming"
    /\ Chunk
    /\ LET old == IF i \in DOMAIN tc_acc THEN tc_acc[i]
                                         ELSE [id |-> NoId, name |-> NoName]
           new == [id   |-> Given(id, NoId, old.id),
                   name |-> Given(name, NoName, old.name)]
       IN tc_acc' = [j \in DOMAIN tc_acc \cup {i} |->
                        IF j = i THEN new ELSE tc_acc[j]]
    /\ UNCHANGED <<pc, persist, sentVars, iteration, content, messages, todo, answered, saved>>

(* The response ended or broke off.  A LMStudioError or ChainError is shown *)
(* and ends the turn with no done and nothing saved; an httpx error is left *)
(* for stream().                                                            *)
StreamEnds ==
    /\ pc = "streaming"
    /\ CallEnds
    /\ pc' = CASE call'.stage # "idle"               -> "streaming"
               [] call'.outcome = "complete"         -> "respond"
               [] call'.outcome \in {"chain_error", "lm_error"} -> "over"
               [] OTHER                              -> "raised"
    /\ IF pc' = "over" THEN Send("error") ELSE UNCHANGED sentVars
    /\ UNCHANGED <<persist, iteration, content, tc_acc, messages, todo, answered, saved>>

(* A chunk that is JSON but no object: run_turn stumbles over it. *)
ChunkMalformed ==
    /\ pc = "streaming"
    /\ Chunk
    /\ pc' = "raised"
    /\ UNCHANGED <<loopVars, persist, sentVars, answered, saved>>

(* The tool calls that have a name, in the order of their index. *)
Named == {i \in DOMAIN tc_acc : tc_acc[i].name # NoName}
IdOf(i) == Given(tc_acc[i].id, NoId, <<"call", i>>)
ToolCalls ==
    [k \in 1 .. Cardinality(Named) |->
        <<IdOf(Nth(Named, k)), tc_acc[Nth(Named, k)].name>>]

Firsts(s) == [k \in 1 .. Len(s) |-> s[k][1]]

(* The response is put in messages; a "served via" status goes out first    *)
(* when the fallback gave it.                                               *)
Respond ==
    /\ pc = "respond"
    /\ IF last_provider = "openrouter" THEN Send("status") ELSE UNCHANGED sentVars
    /\ messages' = Append(messages, [role  |-> "assistant",
                                     calls |-> Firsts(ToolCalls)])
    /\ todo' = ToolCalls
    /\ pc' = IF todo' = <<>> THEN "finish" ELSE "call"
    /\ UNCHANGED <<llmVars, persist, iteration, content, tc_acc, answered, saved>>

(* No tool calls: the answer, or an error if it is empty.                   *)
Answer ==
    /\ pc = "finish" /\ last \notin {"message", "error", "done"}
    /\ Send(IF content THEN "message" ELSE "error")
    /\ answered' = content
    /\ pc' = IF persist THEN "save_user" ELSE "finish"
    /\ UNCHANGED <<llmVars, loopVars, persist, saved>>

Done ==
    /\ pc = "finish" /\ last \in {"message", "error"}
    /\ Send("done")
    /\ pc' = "over"
    /\ UNCHANGED <<llmVars, loopVars, persist, answered, saved>>

-----------------------------------------------------------------------------
(* Tool calls, one after the other. *)
CallTool ==
    /\ Goto("call", "execute")
    /\ Send("tool_call")
    /\ UNCHANGED <<llmVars, loopVars, persist, answered, saved>>

(* Slip: a name that is no tool gets its event and no message. *)
ToolResultUnanswered ==
    /\ pc = "execute"
    /\ Send("tool_result")
    /\ messages' = IF Head(todo)[2] \in Tools
                   THEN Append(messages, [role  |-> "tool",
                                          calls |-> <<Head(todo)[1]>>])
                   ELSE messages
    /\ todo' = Tail(todo)
    /\ pc' = IF todo' # <<>> THEN "call"
             ELSE IF iteration < MaxIterations THEN "request" ELSE "give_up"
    /\ UNCHANGED <<llmVars, persist, iteration, content, tc_acc, answered,
                   saved>>

(* Slip: one iteration too many. *)
ToolResultOneMore ==
    /\ pc = "execute"
    /\ Send("tool_result")
    /\ messages' = Append(messages, [role  |-> "tool",
                                     calls |-> <<Head(todo)[1]>>])
    /\ todo' = Tail(todo)
    /\ pc' = IF todo' # <<>> THEN "call"
             ELSE IF iteration <= MaxIterations THEN "request" ELSE "give_up"
    /\ UNCHANGED <<llmVars, persist, iteration, content, tc_acc, answered,
                   saved>>

(* _execute_read_tool, or the answer for a name that is no tool: an event   *)
(* and a message, for a result or for a failure alike.                      *)
ToolResult ==
    /\ pc = "execute"
    /\ Send("tool_result")
    /\ messages' = Append(messages, [role  |-> "tool",
                                     calls |-> <<Head(todo)[1]>>])
    /\ todo' = Tail(todo)
    /\ pc' = IF todo' # <<>> THEN "call"
             ELSE IF iteration < MaxIterations THEN "request" ELSE "give_up"
    /\ UNCHANGED <<llmVars, persist, iteration, content, tc_acc, answered, saved>>

(* audit() failed twice, for the result and for the failure. *)
ToolRaises ==
    /\ Goto("execute", "raised")
    /\ Head(todo)[2] \in Tools
    /\ UNCHANGED <<llmVars, loopVars, persist, sentVars, answered, saved>>

-----------------------------------------------------------------------------
(* conversation_append, in a thread of the pool; it fails, or it returns.   *)
Saves(from, to, role) ==
    /\ Goto(from, to)
    /\ saved' = Append(saved, role)
    /\ UNCHANGED <<llmVars, loopVars, persist, sentVars, answered>>

(* Slip: the answer is not saved. *)
SaveUserAlone == Saves("save_user", "finish", "user")

SaveUser == Saves("save_user",
                    IF answered THEN "save_assistant" ELSE "finish", "user")
SaveAssistant == Saves("save_assistant", "finish", "assistant")

(* Slip: without a conversation to save to, nothing is said. *)
GiveUpSavingOnly ==
    /\ persist
    /\ Goto("give_up", "bail_user")
    /\ answered' = TRUE
    /\ UNCHANGED <<llmVars, loopVars, persist, sentVars, saved>>

(* The loop ran out: the question is saved with a placeholder.              *)
GiveUp ==
    /\ Goto("give_up", IF persist THEN "bail_user" ELSE "bail_error")
    /\ answered' = persist
    /\ UNCHANGED <<llmVars, loopVars, persist, sentVars, saved>>
BailUser == Saves("bail_user", "bail_assistant", "user")
BailAssistant == Saves("bail_assistant", "bail_error", "assistant")

Closes(from, to, e) ==
    /\ Goto(from, to)
    /\ Send(e)
    /\ UNCHANGED <<llmVars, loopVars, persist, answered, saved>>

BailError == Closes("bail_error", "bail_done", "error")
BailDone == Closes("bail_done", "over", "done")

-----------------------------------------------------------------------------
(* A slash command.  What agent/slash.py's handlers send: progress, a tool  *)
(* call and its result, messages, then a done, after an error or a message. *)
BeginSlash ==
    /\ Ready
    /\ pc' = "slash"
    /\ UNCHANGED <<llmVars, loopVars, persist, sentVars, answered, saved>>

(* Slip: a command stops at its tool's result. *)
SlashFollowsSilent ==
    [none        |-> {"message", "error", "tool_call"},
     session     |-> {"message", "error", "tool_call"},
     status      |-> {"status", "message", "error"},
     tool_call   |-> {"tool_result"},
     tool_result |-> {"done"},
     message     |-> {"status", "error", "done"},
     error       |-> {"done"},
     done        |-> {}]

SlashFollows ==
    [none        |-> {"message", "error", "tool_call"},
     session     |-> {"message", "error", "tool_call"},
     status      |-> {"status", "message", "error"},
     tool_call   |-> {"tool_result"},
     tool_result |-> {"message"},
     message     |-> {"status", "error", "done"},
     error       |-> {"done"},
     done        |-> {}]

SlashEvent(e) ==
    /\ pc = "slash"
    /\ e \in SlashFollows[last]
    /\ Send(e)
    /\ answered' = (answered \/ e = "message")
    /\ UNCHANGED <<llmVars, loopVars, pc, persist, saved>>

(* The handler is exhausted; only now is the exchange saved.                *)
SlashEnds ==
    /\ pc = "slash" /\ last = "done"
    /\ pc' = IF persist THEN "slash_user" ELSE "over"
    /\ UNCHANGED <<llmVars, loopVars, persist, sentVars, answered, saved>>
SlashUser == Saves("slash_user",
                     IF answered THEN "slash_assistant" ELSE "over", "user")
SlashAssistant == Saves("slash_assistant", "over", "assistant")

-----------------------------------------------------------------------------
(* An exception of the database: audit("turn") of a slash command, its      *)
(* audit of a tool call, the load of the history, or an append.             *)
DatabaseRaises ==
    /\ \/ Ready
       \/ pc = "slash" /\ last \in {"tool_call", "message", "status"}
       \/ pc \in Saving
    /\ pc' = "raised"
    /\ UNCHANGED <<llmVars, loopVars, persist, sentVars, answered, saved>>

(* stream()'s except branch. *)
RaisedError == Closes("raised", "raised_done", "error")
RaisedDone == Closes("raised_done", "failed", "done")

(* The turn is dropped.  An append already in its thread may still happen.  *)
Drop ==
    /\ pc \notin Ended
    /\ pc' = "dropped"
    /\ \/ UNCHANGED saved
       \/ /\ pc \in Saving
          /\ saved' = Append(saved, IF saved = <<>> THEN "user" ELSE "assistant")
    /\ UNCHANGED <<llmVars, loopVars, persist, sentVars, answered>>

TimePasses == Tick /\ pc \notin Ended /\ UNCHANGED turnVars

SlashEvents == {"status", "tool_call", "tool_result", "message", "error", "done"}

ModelStep ==
    \/ Request \/ TextChunk \/ StreamEnds \/ ChunkMalformed \/ Respond
    \/ \E i \in Indices, id \in ProviderIds \cup {NoId}, n \in Names \cup {NoName} :
          ToolChunk(i, id, n)
ToolStep == CallTool \/ ToolResult \/ ToolRaises
SaveStep == SaveUser \/ SaveAssistant \/ BailUser \/ BailAssistant
                \/ SlashUser \/ SlashAssistant
ClosingStep == Answer \/ Done \/ GiveUp \/ BailError \/ BailDone
                   \/ RaisedError \/ RaisedDone
SlashStep == SlashEnds \/ \E e \in SlashEvents : SlashEvent(e)
BeginStep == SendSession \/ BeginChat \/ BeginSlash

Next ==
    \/ BeginStep \/ ModelStep \/ ToolStep \/ SaveStep \/ ClosingStep
    \/ SlashStep \/ DatabaseRaises \/ Drop \/ TimePasses

(* The event loop runs the turn on, and its client reads what it sends or   *)
(* leaves (Drop): one that does neither halts the turn at a yield, as in    *)
(* ChatEndpoint.  A response ends (its length is bounded by max_tokens and  *)
(* a silent provider by the client's timeout), a tool and a database thread *)
(* return or fail, and a slash command, whose progress is over a finite     *)
(* list of files, comes to its message and its done.                        *)
Fairness ==
    /\ WF_vars(BeginStep)
    /\ WF_vars(Request)
    /\ WF_vars(StreamEnds)
    /\ WF_vars(Respond)
    /\ WF_vars(ToolStep)
    /\ WF_vars(SaveStep)
    /\ WF_vars(ClosingStep)
    /\ WF_vars(SlashStep)
    /\ SF_vars(SlashEvent("message"))
    /\ SF_vars(SlashEvent("done"))

Spec == Init /\ [][Next]_vars /\ Fairness

-----------------------------------------------------------------------------
(* Chat-completion APIs reject a conversation in which a tool call is not   *)
(* answered, or an answer has no call.  Whenever a request is made, every   *)
(* assistant message is followed at once by one tool message for each of    *)
(* its calls, in their order, and no tool message stands anywhere else.     *)
AnswersInOrder(p) ==
    LET calls == messages[p].calls
    IN  \A k \in 1 .. Len(calls) :
            /\ p + k <= Len(messages)
            /\ messages[p + k] = [role |-> "tool", calls |-> <<calls[k]>>]

AnswersACall(p) ==
    \E q \in 1 .. p - 1 :
        /\ messages[q].role = "assistant"
        /\ p - q <= Len(messages[q].calls)

RequestWellFormed ==
    pc \in {"request", "streaming"} =>
        \A p \in 1 .. Len(messages) :
            /\ messages[p].role = "assistant" => AnswersInOrder(p)
            /\ messages[p].role = "tool" => AnswersACall(p)

(* The exchange: the user's message, and what there is to answer it. *)
Exchange == IF answered THEN <<"user", "assistant">> ELSE <<"user">>

Tells(e) == last' = e /\ beat' # beat

(* What a done says of the conversation.  run_turn's own done comes after   *)
(* the whole exchange was saved.  A slash command's comes before anything   *)
(* is, and stream()'s comes after an error and means that the exchange is   *)
(* not whole.  A turn that returns has saved the whole exchange by then, a  *)
(* slash command's too, or nothing if the model failed: half of one is left *)
(* only by an exception or by a turn that was dropped.                      *)
ExchangeKept ==
    /\ [](persist /\ pc = "over" =>
             saved = IF last = "error" THEN <<>> ELSE Exchange)
    /\ [][persist /\ Tells("done") =>
             CASE pc = "slash"       -> saved = <<>>
               [] pc = "raised_done" -> last = "error" /\ Len(saved) < Len(Exchange)
               [] OTHER              -> saved = Exchange]_vars

(* The events of every turn, whoever fails and whenever it is dropped, form *)
(* a stream the protocol allows: in its order, and with an end unless the   *)
(* turn was dropped.                                                        *)
Protocol == INSTANCE TurnProtocol WITH over <- pc \in Ended, cut <- pc = "dropped"
FollowsProtocol == Protocol!TPSpec

(* Every turn comes to its end: no provider and no model keeps it going.    *)
TurnEnds == <>(pc \in Ended)

=============================================================================
