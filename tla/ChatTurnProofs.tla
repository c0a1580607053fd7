--------------------------- MODULE ChatTurnProofs ---------------------------
(* Proofs about ChatTurn, for any number of iterations, tool calls, names and *)
(* ids, with or without a fallback.                                           *)
EXTENDS ChatTurn, SequenceLemmas

(* What has been said when the turn is where it is.                           *)
Said ==
    /\ pc \in {"start"} \cup Running \cup Saving \cup Closing \cup Ended
    /\ last \in Protocol!Events \cup {"none"}
    /\ pc = "start" => last \in {"none", "session"}
    /\ pc \in {"request", "give_up", "bail_user", "bail_assistant", "bail_error"}
          => last \in {"none", "session", "tool_result"}
    /\ pc \in {"streaming", "respond"} => last \in {"status", "token"}
    /\ pc = "finish" => last \in {"status", "token", "message", "error"}
    /\ pc = "call" => last \in {"status", "token", "tool_result"}
    /\ pc = "execute" => last = "tool_call"
    /\ pc = "slash" => last # "token"
    /\ pc \in {"save_user", "save_assistant"} => last \in {"message", "error"}
    /\ pc \in {"slash_user", "slash_assistant", "failed"} => last = "done"
    /\ pc = "over" => last \in Protocol!Final
    /\ pc \in {"bail_done", "raised_done"} => last = "error"

(* What has been saved then: half of an exchange only where its other half is *)
(* about to be saved, or was and an exception has come instead.               *)
SavedSoFar ==
    /\ pc \in {"start", "request", "streaming", "respond", "call", "execute",
               "give_up", "save_user", "bail_user", "slash", "slash_user"}
          => saved = <<>>
    /\ pc \in {"save_assistant", "bail_assistant", "slash_assistant"}
          => saved = <<"user">>
    /\ pc \in {"save_assistant", "bail_user", "bail_assistant", "slash_assistant"}
          => answered
    /\ pc = "finish" /\ last \in {"status", "token"} => saved = <<>>
    /\ pc = "finish" /\ last \in {"message", "error"} /\ persist => saved = Exchange
    /\ pc \in {"bail_error", "bail_done"} /\ persist => saved = Exchange
    /\ pc \in {"raised", "raised_done"}
          => saved = <<>> \/ (saved = <<"user">> /\ answered)
    /\ pc = "over" /\ persist => saved = IF last = "error" THEN <<>> ELSE Exchange

TurnInv == Said /\ SavedSoFar

(* Where the loop is, it has iterations left.                                 *)
TypeInv ==
    /\ TurnTypeOK
    /\ pc = "start" => iteration = 0
    /\ pc = "request" => iteration < MaxIterations

(* The calls of every assistant message are answered as far as the messages   *)
(* go; while tools run, those of the last one that has calls lack just what   *)
(* is still to be executed.                                                   *)
Speaks(p) == p \in 1 .. Len(messages) /\ messages[p].role = "assistant"
Calls(p) == messages[p].calls
AnsweredSoFar(p) ==
    \A k \in 1 .. Len(Calls(p)) :
       p + k <= Len(messages) =>
          messages[p + k] = [role |-> "tool", calls |-> <<Calls(p)[k]>>]
AllAnswered(p) == p + Len(Calls(p)) <= Len(messages)
Awaits(p) ==
    /\ p + Len(Calls(p)) = Len(messages) + Len(todo)
    /\ \A k \in 1 .. Len(todo) : Calls(p)[Len(messages) - p + k] = todo[k][1]

Conversation ==
    /\ \A p \in 1 .. Len(messages) :
          /\ Speaks(p) => AnsweredSoFar(p)
          /\ messages[p].role = "tool" => AnswersACall(p)
    /\ pc \in {"request", "streaming", "respond"} =>
          \A p \in 1 .. Len(messages) : Speaks(p) => AllAnswered(p)
    /\ pc \in {"call", "execute"} =>
          /\ todo # <<>>
          /\ \E p \in 1 .. Len(messages) :
                /\ Speaks(p) /\ Awaits(p)
                /\ \A q \in 1 .. Len(messages) : Speaks(q) /\ q # p => AllAnswered(q)

ProtocolStep == [Protocol!TPNext]_<<last, beat, pc \in Ended, pc = "dropped">>

-----------------------------------------------------------------------------
(* An event that may follow is a step of the protocol, and so is no event; an *)
(* end is one after a final event, or when the turn is dropped.               *)
LEMMA Sending ==
  ASSUME NEW e \in Protocol!Events, pc \notin Ended, Send(e),
         e \in Protocol!Follows[last],
         pc' \notin Ended \/ (pc' # "dropped" /\ e \in Protocol!Final)
  PROVE  ProtocolStep
<1>1. pc # "dropped" /\ pc' # "dropped"
  BY DEF Ended
<1>2. Protocol!Send(e)
  BY <1>1 DEF Send, Protocol!Send
<1>. QED BY <1>2 DEF ProtocolStep, Protocol!TPNext

LEMMA Silent ==
  ASSUME pc \notin Ended, UNCHANGED sentVars,
         pc' \notin Ended \/ pc' = "dropped" \/ last \in Protocol!Final
  PROVE  ProtocolStep
<1>1. pc # "dropped"
  BY DEF Ended
<1>2. CASE pc' \notin Ended
  <2>1. pc' # "dropped"
    BY <1>2 DEF Ended
  <2>. QED BY <1>1, <1>2, <2>1 DEF ProtocolStep, sentVars
<1>3. CASE pc' \in Ended
  <2>1. Protocol!Close
    BY <1>3 DEF sentVars, Protocol!Close
  <2>. QED BY <2>1 DEF ProtocolStep, Protocol!TPNext
<1>. QED BY <1>2, <1>3

LEMMA InvAtFirst == Init => TurnInv
BY DEF Init, TurnInv, Said, SavedSoFar, Protocol!Events

LEMMA BeginInv ==
  ASSUME TurnInv, BeginStep
  PROVE  TurnInv' /\ ProtocolStep
<1>. USE DEF TurnInv, Said, SavedSoFar, Running, Saving, Closing, Ended,
             Protocol!Events, Protocol!Final
<1>1. CASE SendSession
  <2>1. pc = "start" /\ pc' = pc /\ last = "none" /\ Send("session")
          /\ saved' = saved
    BY <1>1 DEF SendSession
  <2>2. "session" \in Protocol!Follows[last]
    BY <2>1 DEF Protocol!Follows, Protocol!Working
  <2>. QED BY <2>1, <2>2, Sending DEF Send
<1>2. CASE BeginChat
  <2>1. /\ pc = "start" /\ pc' \in {"give_up", "request"}
        /\ UNCHANGED <<last, beat, saved>>
    BY <1>2 DEF BeginChat, Ready, sentVars
  <2>. QED BY <2>1, Silent DEF sentVars
<1>3. CASE BeginSlash
  <2>1. pc = "start" /\ pc' = "slash" /\ UNCHANGED <<last, beat, saved>>
    BY <1>3 DEF BeginSlash, Ready, sentVars
  <2>. QED BY <2>1, Silent DEF sentVars
<1>. QED BY <1>1, <1>2, <1>3 DEF BeginStep

LEMMA ModelInv ==
  ASSUME TurnInv, ModelStep
  PROVE  TurnInv' /\ ProtocolStep
<1>. USE DEF TurnInv, Said, SavedSoFar, Running, Saving, Closing, Ended,
             Protocol!Events, Protocol!Final
<1>1. CASE Request
  <2>1. /\ pc = "request" /\ pc' = "streaming" /\ Send("status")
        /\ saved' = saved
    BY <1>1 DEF Request
  <2>2. "status" \in Protocol!Follows[last]
    BY <2>1 DEF Protocol!Follows, Protocol!Working
  <2>. QED BY <2>1, <2>2, Sending DEF Send
<1>2. CASE TextChunk
  <2>1. pc = "streaming" /\ pc' = pc /\ Send("token") /\ saved' = saved
    BY <1>2 DEF TextChunk
  <2>2. "token" \in Protocol!Follows[last]
    BY <2>1 DEF Protocol!Follows, Protocol!Working
  <2>. QED BY <2>1, <2>2, Sending DEF Send
<1>3. ASSUME NEW i \in Indices, NEW id \in ProviderIds \cup {NoId},
             NEW n \in Names \cup {NoName}, ToolChunk(i, id, n)
      PROVE  TurnInv' /\ ProtocolStep
  <2>1. pc = "streaming" /\ UNCHANGED <<pc, last, beat, saved>>
    BY <1>3 DEF ToolChunk, sentVars
  <2>. QED BY <2>1, Silent DEF sentVars
<1>4. CASE StreamEnds
  <2>1. /\ pc = "streaming" /\ saved' = saved
        /\ pc' \in {"streaming", "respond", "over", "raised"}
        /\ IF pc' = "over" THEN Send("error") ELSE UNCHANGED sentVars
    BY <1>4 DEF StreamEnds
  <2>2. "error" \in Protocol!Follows[last]
    BY <2>1 DEF Protocol!Follows, Protocol!Working
  <2>3. CASE pc' = "over"
    BY <2>1, <2>2, <2>3, Sending DEF Send
  <2>4. CASE pc' # "over"
    BY <2>1, <2>4, Silent DEF sentVars
  <2>. QED BY <2>3, <2>4
<1>5. CASE ChunkMalformed
  <2>1. pc = "streaming" /\ pc' = "raised" /\ UNCHANGED <<last, beat, saved>>
    BY <1>5 DEF ChunkMalformed, sentVars
  <2>. QED BY <2>1, Silent DEF sentVars
<1>6. CASE Respond
  <2>1. /\ pc = "respond" /\ pc' \in {"finish", "call"} /\ saved' = saved
        /\ Send("status") \/ UNCHANGED sentVars
    BY <1>6 DEF Respond
  <2>2. "status" \in Protocol!Follows[last]
    BY <2>1 DEF Protocol!Follows, Protocol!Working
  <2>3. CASE Send("status")
    BY <2>1, <2>2, <2>3, Sending DEF Send
  <2>4. CASE UNCHANGED sentVars
    BY <2>1, <2>4, Silent DEF sentVars
  <2>. QED BY <2>1, <2>3, <2>4
<1>. QED BY <1>1, <1>2, <1>3, <1>4, <1>5, <1>6 DEF ModelStep

LEMMA ToolInv ==
  ASSUME TurnInv, ToolStep
  PROVE  TurnInv' /\ ProtocolStep
<1>. USE DEF TurnInv, Said, SavedSoFar, Running, Saving, Closing, Ended,
             Protocol!Events, Protocol!Final
<1>1. CASE CallTool
  <2>1. pc = "call" /\ pc' = "execute" /\ Send("tool_call") /\ saved' = saved
    BY <1>1 DEF CallTool, Goto
  <2>2. "tool_call" \in Protocol!Follows[last]
    BY <2>1 DEF Protocol!Follows, Protocol!Working
  <2>. QED BY <2>1, <2>2, Sending DEF Send
<1>2. CASE ToolResult
  <2>1. /\ pc = "execute" /\ pc' \in {"call", "request", "give_up"}
        /\ Send("tool_result") /\ saved' = saved
    BY <1>2 DEF ToolResult
  <2>2. "tool_result" \in Protocol!Follows[last]
    BY <2>1 DEF Protocol!Follows, Protocol!Working
  <2>. QED BY <2>1, <2>2, Sending DEF Send
<1>3. CASE ToolRaises
  <2>1. pc = "execute" /\ pc' = "raised" /\ UNCHANGED <<last, beat, saved>>
    BY <1>3 DEF ToolRaises, Goto, sentVars
  <2>. QED BY <2>1, Silent DEF sentVars
<1>. QED BY <1>1, <1>2, <1>3 DEF ToolStep

(* What the two appends of an exchange leave. *)
LEMMA AppendToEmpty ==
  ASSUME NEW S, NEW a \in S
  PROVE  Append(<<>>, a) = <<a>>
BY AppendProperties, SeqEqual

LEMMA AppendToOne ==
  ASSUME NEW S, NEW a \in S, NEW b \in S
  PROVE  Append(<<a>>, b) = <<a, b>>
<1>. DEFINE s == Append(<<a>>, b)
            t == <<a, b>>
<1>1. s \in Seq(S) /\ Len(s) = 2 /\ s[1] = a /\ s[2] = b
  BY <<a>> \in Seq(S), Len(<<a>>) = 1, AppendProperties
<1>2. t \in Seq(S)
  OBVIOUS
<1>3. Len(t) = 2 /\ t[1] = a /\ t[2] = b
  OBVIOUS
<1>. HIDE DEF s, t
<1>4. s = t
  BY <1>1, <1>2, <1>3, SeqEqual
<1>. QED BY <1>4 DEF s, t

LEMMA TwoAppends ==
  /\ Append(<<>>, "user") = <<"user">>
  /\ Append(<<"user">>, "assistant") = <<"user", "assistant">>
<1>. DEFINE S == {"user", "assistant"}
<1>. HIDE DEF S
<1>1. "user" \in S /\ "assistant" \in S
  BY DEF S
<1>. QED BY <1>1, AppendToEmpty, AppendToOne

LEMMA SaveInv ==
  ASSUME TurnInv, SaveStep
  PROVE  TurnInv' /\ ProtocolStep
<1>1. /\ pc \in Saving /\ pc \notin Ended
      /\ UNCHANGED <<last, beat, answered, persist>>
      /\ pc' \notin Ended \/ pc \in {"slash_user", "slash_assistant"}
  BY DEF SaveStep, SaveUser, SaveAssistant, BailUser, BailAssistant, SlashUser,
         SlashAssistant, Saves, Goto, loopVars, sentVars, Saving, Ended
<1>2. ProtocolStep
  <2>1. pc' \notin Ended \/ last \in Protocol!Final
    BY <1>1 DEF TurnInv, Said, Protocol!Final
  <2>. QED BY <1>1, <2>1, Silent DEF sentVars
<1>3. Said'
  BY <1>1 DEF TurnInv, Said, SaveStep, SaveUser, SaveAssistant, BailUser,
         BailAssistant, SlashUser, SlashAssistant, Saves, Goto, Running, Saving,
         Closing, Ended, Protocol!Final
<1>. USE DEF TurnInv, Said, SavedSoFar, Exchange, Saves, Goto
<1>4. CASE SaveUser
  <2>1. pc = "save_user" /\ saved' = Append(saved, "user")
          /\ pc' = IF answered THEN "save_assistant" ELSE "finish"
    BY <1>4 DEF SaveUser
  <2>2. saved' = <<"user">>
    BY <2>1, TwoAppends
  <2>. QED BY <1>1, <1>2, <1>3, <2>1, <2>2
<1>5. CASE SaveAssistant
  <2>1. pc = "save_assistant" /\ saved' = Append(saved, "assistant")
          /\ pc' = "finish"
    BY <1>5 DEF SaveAssistant
  <2>2. saved' = <<"user", "assistant">>
    BY <2>1, TwoAppends
  <2>. QED BY <1>1, <1>2, <1>3, <2>1, <2>2
<1>6. CASE BailUser
  <2>1. pc = "bail_user" /\ saved' = Append(saved, "user")
          /\ pc' = "bail_assistant"
    BY <1>6 DEF BailUser
  <2>2. saved' = <<"user">>
    BY <2>1, TwoAppends
  <2>. QED BY <1>1, <1>2, <1>3, <2>1, <2>2
<1>7. CASE BailAssistant
  <2>1. pc = "bail_assistant" /\ saved' = Append(saved, "assistant")
          /\ pc' = "bail_error"
    BY <1>7 DEF BailAssistant
  <2>2. saved' = <<"user", "assistant">>
    BY <2>1, TwoAppends
  <2>. QED BY <1>1, <1>2, <1>3, <2>1, <2>2
<1>8. CASE SlashUser
  <2>1. /\ pc = "slash_user" /\ last = "done"
        /\ pc' = IF answered THEN "slash_assistant" ELSE "over"
        /\ saved' = Append(saved, "user")
    BY <1>8 DEF SlashUser
  <2>2. saved' = <<"user">>
    BY <2>1, TwoAppends
  <2>. QED BY <1>1, <1>2, <1>3, <2>1, <2>2
<1>9. CASE SlashAssistant
  <2>1. /\ pc = "slash_assistant" /\ last = "done" /\ pc' = "over"
        /\ saved' = Append(saved, "assistant")
    BY <1>9 DEF SlashAssistant
  <2>2. saved' = <<"user", "assistant">>
    BY <2>1, TwoAppends
  <2>. QED BY <1>1, <1>2, <1>3, <2>1, <2>2
<1>. QED BY <1>2, <1>4, <1>5, <1>6, <1>7, <1>8, <1>9 DEF SaveStep

LEMMA ClosingInv ==
  ASSUME TurnInv, ClosingStep
  PROVE  TurnInv' /\ ProtocolStep
<1>. USE DEF TurnInv, Said, SavedSoFar, Exchange, Running, Saving, Closing, Ended,
             Protocol!Events, Protocol!Final, Closes, Goto
<1>1. CASE Answer
  <2>1. /\ pc = "finish" /\ last \in {"status", "token"}
        /\ pc' = IF persist THEN "save_user" ELSE "finish"
        /\ UNCHANGED <<saved, persist>>
    BY <1>1 DEF Answer
  <2>2. PICK e \in {"message", "error"} : Send(e)
    BY <1>1 DEF Answer
  <2>3. e \in Protocol!Follows[last]
    BY <2>1, <2>2 DEF Protocol!Follows, Protocol!Working
  <2>. QED BY <2>1, <2>2, <2>3, Sending DEF Send
<1>2. CASE Done
  <2>1. pc = "finish" /\ last \in {"message", "error"} /\ pc' = "over"
          /\ Send("done") /\ UNCHANGED <<saved, persist, answered>>
    BY <1>2 DEF Done
  <2>2. "done" \in Protocol!Follows[last]
    BY <2>1 DEF Protocol!Follows
  <2>. QED BY <2>1, <2>2, Sending DEF Send
<1>3. CASE GiveUp
  <2>1. /\ pc = "give_up" /\ UNCHANGED <<last, beat, saved, persist>>
        /\ pc' = IF persist THEN "bail_user" ELSE "bail_error"
        /\ answered' = persist
    BY <1>3 DEF GiveUp, sentVars
  <2>. QED BY <2>1, Silent DEF sentVars
<1>4. CASE BailError
  <2>1. pc = "bail_error" /\ pc' = "bail_done" /\ Send("error")
          /\ UNCHANGED <<saved, persist, answered>>
    BY <1>4 DEF BailError
  <2>2. "error" \in Protocol!Follows[last]
    BY <2>1 DEF Protocol!Follows, Protocol!Working
  <2>. QED BY <2>1, <2>2, Sending DEF Send
<1>5. CASE BailDone \/ RaisedDone
  <2>1. /\ \/ pc = "bail_done" /\ pc' = "over"
           \/ pc = "raised_done" /\ pc' = "failed"
        /\ Send("done") /\ UNCHANGED <<saved, persist, answered>>
    BY <1>5 DEF BailDone, RaisedDone
  <2>2. "done" \in Protocol!Follows[last]
    BY <2>1 DEF Protocol!Follows
  <2>. QED BY <2>1, <2>2, Sending DEF Send
<1>6. CASE RaisedError
  <2>1. pc = "raised" /\ pc' = "raised_done" /\ Send("error")
          /\ UNCHANGED <<saved, answered>>
    BY <1>6 DEF RaisedError
  <2>2. "error" \in Protocol!Follows[last]
    BY DEF Protocol!Follows, Protocol!Working
  <2>. QED BY <2>1, <2>2, Sending DEF Send
<1>. QED BY <1>1, <1>2, <1>3, <1>4, <1>5, <1>6 DEF ClosingStep

(* What a command may say next, a turn may.                                   *)
LEMMA SlashAllowed ==
  ASSUME NEW l \in Protocol!Events \cup {"none"}, l # "token"
  PROVE  SlashFollows[l] \subseteq Protocol!Follows[l]
BY DEF SlashFollows, Protocol!Follows, Protocol!Working, Protocol!Events

LEMMA SlashInv ==
  ASSUME TurnInv, SlashStep
  PROVE  TurnInv' /\ ProtocolStep
<1>. USE DEF TurnInv, Said, SavedSoFar, Running, Saving, Closing, Ended,
             Protocol!Events, Protocol!Final
<1>1. CASE SlashEnds
  <2>1. /\ pc = "slash" /\ last = "done"
        /\ UNCHANGED <<last, beat, saved, persist, answered>>
        /\ pc' = IF persist THEN "slash_user" ELSE "over"
    BY <1>1 DEF SlashEnds, sentVars
  <2>. QED BY <2>1, Silent DEF sentVars
<1>2. ASSUME NEW e \in SlashEvents, SlashEvent(e) PROVE TurnInv' /\ ProtocolStep
  <2>1. pc = "slash" /\ pc' = pc /\ saved' = saved
          /\ Send(e) /\ e \in SlashFollows[last]
          /\ e \in Protocol!Events \ {"session", "token"} /\ last # "token"
    BY <1>2 DEF SlashEvent, SlashEvents
  <2>2. e \in Protocol!Follows[last]
    BY <2>1, SlashAllowed
  <2>. QED BY <2>1, <2>2, Sending DEF Send
<1>. QED BY <1>1, <1>2 DEF SlashStep

LEMMA InvInductive ==
  TurnInv /\ [Next]_vars => TurnInv' /\ ProtocolStep
<1>. SUFFICES ASSUME TurnInv, [Next]_vars PROVE TurnInv' /\ ProtocolStep
  OBVIOUS
<1>1. CASE DatabaseRaises
  <2>1. /\ pc \in {"start", "slash"} \cup Saving /\ pc' = "raised"
        /\ UNCHANGED <<last, beat, saved, answered>>
    BY <1>1 DEF DatabaseRaises, Ready, sentVars
  <2>. QED BY <2>1, Silent
       DEF TurnInv, Said, SavedSoFar, Saving, Closing, Ended, sentVars
<1>2. CASE Drop
  <2>1. pc \notin Ended /\ pc' = "dropped" /\ UNCHANGED <<last, beat>>
    BY <1>2 DEF Drop, sentVars
  <2>. QED BY <2>1, Silent DEF TurnInv, Said, SavedSoFar, Ended, sentVars
<1>3. CASE UNCHANGED turnVars
  BY <1>3 DEF turnVars, TurnInv, Said, SavedSoFar, Exchange, ProtocolStep
<1>. QED BY <1>1, <1>2, <1>3, BeginInv, ModelInv, ToolInv, SaveInv, ClosingInv,
            SlashInv DEF Next, TimePasses, vars

-----------------------------------------------------------------------------
(* Whatever model, tools, database and client do, the events of a turn come   *)
(* in an order that the protocol allows.                                      *)
THEOREM FollowsProtocolHolds == Spec => FollowsProtocol
<1>1. Init => Protocol!TPInit
  BY DEF Init, Ended, Protocol!TPInit
<1>. QED BY <1>1, InvAtFirst, InvInductive, PTL
         DEF Spec, FollowsProtocol, Protocol!TPSpec, ProtocolStep

(* Four steps say done: a slash command, the two ends of run_turn's loop, and *)
(* stream() after an exception.                                               *)
LEMMA WhoSaysDone ==
  ASSUME Next, Tells("done")
  PROVE  pc = "slash" \/ Done \/ BailDone \/ RaisedDone
<1>. USE DEF Tells, Send, sentVars
<1>1. ~ BeginStep
  BY DEF BeginStep, SendSession, BeginChat, BeginSlash
<1>2. ~ ModelStep
  BY DEF ModelStep, Request, TextChunk, StreamEnds, ChunkMalformed, Respond, ToolChunk
<1>3. ~ ToolStep /\ ~ SaveStep
  BY DEF ToolStep, CallTool, ToolResult, ToolRaises, SaveStep, SaveUser, SaveAssistant,
     BailUser, BailAssistant, SlashUser, SlashAssistant, Saves
<1>4. ClosingStep => Done \/ BailDone \/ RaisedDone
  BY DEF ClosingStep, Answer, GiveUp, BailError, RaisedError, Closes
<1>5. SlashStep => pc = "slash"
  BY DEF SlashStep, SlashEnds, SlashEvent
<1>6. ~ DatabaseRaises /\ ~ Drop /\ ~ TimePasses
  BY DEF DatabaseRaises, Drop, TimePasses, turnVars
<1>. QED BY <1>1, <1>2, <1>3, <1>4, <1>5, <1>6 DEF Next

(* With a conversation to save to, a turn that returns has saved the whole    *)
(* exchange, a slash command's too, or nothing when the model failed.  The    *)
(* done of the loop comes after that; a slash command's comes while nothing   *)
(* is saved yet, and stream()'s only after an error, with less than the whole *)
(* exchange saved.                                                            *)
THEOREM ExchangeKeptHolds == Spec => ExchangeKept
<1>. DEFINE Returned == persist /\ pc = "over" =>
                           saved = IF last = "error" THEN <<>> ELSE Exchange
            SaysDone == persist /\ Tells("done") =>
               CASE pc = "slash"       -> saved = <<>>
                 [] pc = "raised_done" -> last = "error" /\ Len(saved) < Len(Exchange)
                 [] OTHER              -> saved = Exchange
<1>1. TurnInv => Returned
  BY DEF TurnInv, SavedSoFar
<1>2. TurnInv /\ [Next]_vars => [SaysDone]_vars
  <2>. SUFFICES ASSUME TurnInv, Next, persist, Tells("done") PROVE SaysDone
    OBVIOUS
  <2>1. CASE pc = "slash"
    BY <2>1 DEF TurnInv, SavedSoFar
  <2>2. CASE Done
    <3>1. pc = "finish" /\ last \in {"message", "error"}
      BY <2>2 DEF Done
    <3>. QED BY <3>1 DEF TurnInv, SavedSoFar
  <2>3. CASE BailDone
    <3>1. pc = "bail_done"
      BY <2>3 DEF BailDone, Closes, Goto
    <3>. QED BY <3>1 DEF TurnInv, SavedSoFar
  <2>4. CASE RaisedDone
    <3>1. pc = "raised_done"
      BY <2>4 DEF RaisedDone, Closes, Goto
    <3>2. saved = <<>> \/ (saved = <<"user">> /\ answered)
      BY <3>1 DEF TurnInv, SavedSoFar
    <3>3. Len(saved) < Len(Exchange)
      <4>1. /\ Len(<<>>) = 0 /\ Len(<<"user">>) = 1
            /\ Len(<<"user", "assistant">>) = 2
        OBVIOUS
      <4>2. CASE saved = <<>>
        <5>1. Len(saved) = 0 /\ Len(Exchange) \in {1, 2}
          BY <4>1, <4>2 DEF Exchange
        <5>. QED BY <5>1
      <4>3. CASE saved = <<"user">> /\ answered
        <5>1. Len(saved) = 1 /\ Len(Exchange) = 2
          BY <4>1, <4>3 DEF Exchange
        <5>. QED BY <5>1
      <4>. QED BY <3>2, <4>2, <4>3
    <3>. QED BY <3>1, <3>3 DEF TurnInv, Said
  <2>. QED BY <2>1, <2>2, <2>3, <2>4, WhoSaysDone
<1>. QED BY <1>1, <1>2, InvAtFirst, InvInductive, PTL DEF Spec, ExchangeKept

-----------------------------------------------------------------------------
(* Types. *)

(* Few steps touch the loop's variables; the others do not enter the loop,    *)
(* nor begin a request or an execution.                                       *)
Aside ==
    /\ UNCHANGED loopVars
    /\ pc' \in {"start", "request", "call"} => pc' = pc
    /\ pc' \in {"streaming", "respond"} => pc \in {"streaming", "respond"}
    /\ pc' = "execute" => pc \in {"call", "execute"}

LEMMA LoopSteps ==
  ASSUME Next
  PROVE  \/ Aside
         \/ BeginChat \/ Request \/ TextChunk \/ Respond \/ ToolResult
         \/ \E i \in Indices, id \in ProviderIds \cup {NoId}, n \in Names \cup {NoName} :
               ToolChunk(i, id, n)
<1>. USE DEF Aside, loopVars
<1>1. ASSUME BeginStep PROVE Aside \/ BeginChat
  BY <1>1 DEF BeginStep, SendSession, BeginSlash
<1>2. ASSUME StreamEnds \/ ChunkMalformed PROVE Aside
  BY <1>2 DEF StreamEnds, ChunkMalformed
<1>3. ASSUME CallTool \/ ToolRaises PROVE Aside
  BY <1>3 DEF CallTool, ToolRaises, Goto
<1>4. ASSUME SaveStep PROVE Aside
  BY <1>4 DEF SaveStep, SaveUser, SaveAssistant, BailUser, BailAssistant, SlashUser,
     SlashAssistant, Saves, Goto
<1>5. ASSUME ClosingStep PROVE Aside
  BY <1>5 DEF ClosingStep, Answer, Done, GiveUp, BailError, BailDone, RaisedError,
     RaisedDone, Closes, Goto
<1>6. ASSUME SlashStep PROVE Aside
  BY <1>6 DEF SlashStep, SlashEnds, SlashEvent
<1>7. ASSUME DatabaseRaises \/ Drop \/ TimePasses PROVE Aside
  BY <1>7 DEF DatabaseRaises, Drop, TimePasses, turnVars
<1>. QED BY <1>1, <1>2, <1>3, <1>4, <1>5, <1>6, <1>7 DEF Next, ModelStep, ToolStep

(* The calls of a response are calls, in as many places as there are names.   *)
LEMMA ToolCallsType ==
  ASSUME TypeInv
  PROVE  /\ ToolCalls \in Seq(Ids \X Names)
         /\ Firsts(ToolCalls) \in Seq(Ids)
         /\ Len(Firsts(ToolCalls)) = Len(ToolCalls)
         /\ \A k \in 1 .. Len(ToolCalls) : Firsts(ToolCalls)[k] = ToolCalls[k][1]
<1>. DEFINE n == Cardinality(Named)
            c == ToolCalls
<1>1. /\ Named \subseteq Indices
      /\ \A i \in Named : tc_acc[i] \in Acc /\ tc_acc[i].name # NoName /\ i \in Indices
  BY DEF Named, TypeInv, TurnTypeOK
<1>2. Named \in SUBSET Nat /\ IsFiniteSet(Named)
  BY <1>1, ChatTurnAssumption, FS_Subset
<1>3. n \in Nat /\ \A k \in 1 .. n : Nth(Named, k) \in Named
  BY <1>2, FS_CardinalityType, NthProperties
<1>4. \A i \in Named : IdOf(i) \in Ids /\ tc_acc[i].name \in Names
  <2>1. ASSUME NEW i \in Named PROVE IdOf(i) \in Ids /\ tc_acc[i].name \in Names
    <3>1. tc_acc[i].id \in ProviderIds \cup {NoId}
            /\ tc_acc[i].name \in Names \cup {NoName}
      BY <1>1 DEF Acc
    <3>2. <<"call", i>> \in {"call"} \X Indices
      BY <1>1
    <3>3. tc_acc[i].name \in Names
      BY <1>1, <3>1
    <3>4. IdOf(i) \in Ids
      BY <3>1, <3>2 DEF IdOf, Given, Ids
    <3>. QED BY <3>3, <3>4
  <2>. QED BY <2>1
<1>5. c = [k \in 1 .. n |-> <<IdOf(Nth(Named, k)), tc_acc[Nth(Named, k)].name>>]
  BY DEF ToolCalls
<1>6. \A k \in 1 .. n :
         <<IdOf(Nth(Named, k)), tc_acc[Nth(Named, k)].name>> \in Ids \X Names
  BY <1>3, <1>4
<1>. HIDE DEF n, c
<1>7. c \in Seq(Ids \X Names) /\ Len(c) = n
  BY <1>3, <1>5, <1>6, LenProperties
<1>8. Firsts(c) = [k \in 1 .. n |-> c[k][1]]
  BY <1>7 DEF Firsts
<1>9. \A k \in 1 .. n : c[k][1] \in Ids
  BY <1>7, ElementOfSeq
<1>10. Firsts(c) \in Seq(Ids) /\ Len(Firsts(c)) = n
  BY <1>3, <1>8, <1>9, LenProperties
<1>11. \A k \in 1 .. n : Firsts(c)[k] = c[k][1]
  BY <1>8
<1>. QED BY <1>7, <1>10, <1>11 DEF c

LEMMA LoopTypes ==
  ASSUME TypeInv, Conversation, Next
  PROVE  /\ iteration' \in 0 .. MaxIterations
         /\ content' \in BOOLEAN
         /\ DOMAIN tc_acc' \subseteq Indices
         /\ \A i \in DOMAIN tc_acc' : tc_acc'[i] \in Acc
         /\ messages' \in Seq(Message)
         /\ todo' \in Seq(Ids \X Names)
         /\ pc' = "start" => iteration' = 0
         /\ pc' = "request" => iteration' < MaxIterations
<1>. USE DEF TypeInv, TurnTypeOK
<1>1. CASE Aside
  BY <1>1 DEF Aside, loopVars
<1>2. CASE BeginChat
  <2>1. messages' = <<Say("system"), Say("user")>>
    BY <1>2 DEF BeginChat
  <2>2. Say("system") \in Message /\ Say("user") \in Message
    BY DEF Say, Message, Roles
  <2>3. messages' \in Seq(Message)
    BY <2>1, <2>2
  <2>4. pc' = "request" => 0 < MaxIterations
    BY <1>2, ChatTurnAssumption DEF BeginChat
  <2>. QED BY <1>2, <2>3, <2>4 DEF BeginChat, Ready
<1>3. CASE Request
  <2>1. iteration < MaxIterations /\ iteration' = iteration + 1 /\ pc' = "streaming"
    BY <1>3 DEF Request
  <2>2. iteration' \in 0 .. MaxIterations
    BY <2>1, ChatTurnAssumption
  <2>. QED BY <1>3, <2>1, <2>2 DEF Request, NoCalls
<1>4. CASE TextChunk
  BY <1>4 DEF TextChunk
<1>5. ASSUME NEW i \in Indices, NEW id \in ProviderIds \cup {NoId},
             NEW n \in Names \cup {NoName}, ToolChunk(i, id, n)
      PROVE  /\ DOMAIN tc_acc' \subseteq Indices
             /\ \A j \in DOMAIN tc_acc' : tc_acc'[j] \in Acc
             /\ pc' = "streaming"
             /\ UNCHANGED <<iteration, content, messages, todo>>
  <2>. DEFINE old == IF i \in DOMAIN tc_acc THEN tc_acc[i]
                     ELSE [id |-> NoId, name |-> NoName]
              new == [id   |-> Given(id, NoId, old.id),
                      name |-> Given(n, NoName, old.name)]
  <2>1. tc_acc' = [j \in DOMAIN tc_acc \cup {i} |-> IF j = i THEN new ELSE tc_acc[j]]
    BY <1>5 DEF ToolChunk
  <2>2. old \in Acc
    BY DEF Acc
  <2>. HIDE DEF old
  <2>3. new \in Acc
    BY <2>2 DEF Acc, Given
  <2>. HIDE DEF new
  <2>. QED BY <1>5, <2>1, <2>3 DEF ToolChunk
<1>6. CASE Respond
  <2>1. /\ messages' = Append(messages, [role  |-> "assistant",
                                         calls |-> Firsts(ToolCalls)])
        /\ todo' = ToolCalls /\ pc' \in {"finish", "call"}
        /\ UNCHANGED <<iteration, content, tc_acc>>
    BY <1>6 DEF Respond
  <2>2. [role |-> "assistant", calls |-> Firsts(ToolCalls)] \in Message
    BY ToolCallsType DEF Message, Roles
  <2>3. messages' \in Seq(Message)
    BY <2>1, <2>2, AppendProperties
  <2>. QED BY <2>1, <2>3, ToolCallsType
<1>7. CASE ToolResult
  <2>1. /\ pc = "execute"
        /\ messages' = Append(messages, [role |-> "tool", calls |-> <<Head(todo)[1]>>])
        /\ todo' = Tail(todo)
        /\ UNCHANGED <<iteration, content, tc_acc>>
        /\ pc' \in {"call", "request", "give_up"}
        /\ pc' = "request" => iteration < MaxIterations
    BY <1>7 DEF ToolResult
  <2>2. todo # <<>>
    BY <2>1 DEF Conversation
  <2>3. Head(todo) \in Ids \X Names /\ Tail(todo) \in Seq(Ids \X Names)
    BY <2>2, HeadTailProperties
  <2>4. [role |-> "tool", calls |-> <<Head(todo)[1]>>] \in Message
    BY <2>3 DEF Message, Roles
  <2>5. messages' \in Seq(Message)
    BY <2>1, <2>4, AppendProperties
  <2>. QED BY <2>1, <2>3, <2>5
<1>. QED BY <1>1, <1>2, <1>3, <1>4, <1>5, <1>6, <1>7, LoopSteps

(* The rest of a turn's variables. *)
LEMMA OtherTypes ==
  ASSUME TypeInv, TurnInv, Next
  PROVE  persist' \in BOOLEAN /\ beat' \in BOOLEAN /\ answered' \in BOOLEAN
<1>. USE DEF TypeInv, TurnTypeOK, Send, sentVars, turnVars
<1>1. CASE BeginStep
  BY <1>1 DEF BeginStep, SendSession, BeginChat, BeginSlash
<1>2. CASE ModelStep
  BY <1>2 DEF ModelStep, Request, TextChunk, StreamEnds, ChunkMalformed, Respond,
     ToolChunk
<1>3. CASE ToolStep
  BY <1>3 DEF ToolStep, CallTool, ToolResult, ToolRaises
<1>4. CASE SaveStep
  BY <1>4 DEF SaveStep, SaveUser, SaveAssistant, BailUser, BailAssistant, SlashUser,
     SlashAssistant, Saves
<1>5. CASE ClosingStep
  BY <1>5 DEF ClosingStep, Answer, Done, GiveUp, BailError, BailDone, RaisedError,
     RaisedDone, Closes
<1>6. CASE SlashStep
  BY <1>6 DEF SlashStep, SlashEnds, SlashEvent
<1>7. CASE DatabaseRaises \/ Drop \/ TimePasses
  BY <1>7 DEF DatabaseRaises, Drop, TimePasses
<1>. QED BY <1>1, <1>2, <1>3, <1>4, <1>5, <1>6, <1>7 DEF Next

(* What is saved is a question, or an exchange.                               *)
LEMMA SavedTypes ==
  ASSUME TypeInv, TurnInv, Next
  PROVE  saved' \in {<<>>, <<"user">>, <<"user", "assistant">>}
<1>. USE DEF TypeInv, TurnTypeOK
<1>1. CASE SaveStep
  <2>1. \/ /\ pc \in {"save_user", "bail_user", "slash_user"}
           /\ saved' = Append(saved, "user")
        \/ /\ pc \in {"save_assistant", "bail_assistant", "slash_assistant"}
           /\ saved' = Append(saved, "assistant")
    BY <1>1 DEF SaveStep, SaveUser, SaveAssistant, BailUser, BailAssistant, SlashUser,
       SlashAssistant, Saves, Goto
  <2>. QED BY <2>1, TwoAppends DEF TurnInv, SavedSoFar
<1>2. CASE Drop
  <2>1. CASE UNCHANGED saved
    BY <2>1
  <2>2. CASE /\ pc \in Saving
             /\ saved' = Append(saved, IF saved = <<>> THEN "user" ELSE "assistant")
    <3>1. saved \in {<<>>, <<"user">>}
      BY <2>2 DEF TurnInv, SavedSoFar, Saving
    <3>2. <<"user">> # <<>>
      OBVIOUS
    <3>. QED BY <2>2, <3>1, <3>2, TwoAppends
  <2>. QED BY <1>2, <2>1, <2>2 DEF Drop
<1>3. CASE BeginStep \/ ModelStep
  BY <1>3 DEF BeginStep, SendSession, BeginChat, BeginSlash,
     ModelStep, Request, TextChunk, StreamEnds, ChunkMalformed, Respond, ToolChunk
<1>4. CASE ToolStep \/ ClosingStep \/ SlashStep \/ DatabaseRaises \/ TimePasses
  BY <1>4 DEF ToolStep, CallTool, ToolResult, ToolRaises, ClosingStep, Answer, Done,
     GiveUp, BailError, BailDone, RaisedError, RaisedDone, Closes, SlashStep,
     SlashEnds, SlashEvent, DatabaseRaises, TimePasses, turnVars
<1>. QED BY <1>1, <1>2, <1>3, <1>4 DEF Next

LEMMA TypeInductive == TypeInv /\ TurnInv /\ Conversation /\ [Next]_vars => TypeInv'
<1>. SUFFICES ASSUME TypeInv, TurnInv, Conversation, [Next]_vars PROVE TypeInv'
  OBVIOUS
<1>1. CASE Next
  <2>1. TurnInv'
    BY InvInductive
  <2>. QED BY <1>1, <2>1, LoopTypes, OtherTypes, SavedTypes
       DEF TypeInv, TurnTypeOK, TurnInv, Said, Protocol!Events
<1>2. CASE UNCHANGED vars
  BY <1>2 DEF vars, turnVars, TypeInv, TurnTypeOK
<1>. QED BY <1>1, <1>2

-----------------------------------------------------------------------------
(* The conversation a request carries. *)

LEMMA ConversationAside ==
  ASSUME Conversation, UNCHANGED <<messages, todo>>,
         pc' \in {"request", "streaming", "respond"} =>
            pc \in {"request", "streaming", "respond"},
         pc' \in {"call", "execute"} => pc \in {"call", "execute"}
  PROVE  Conversation'
BY DEF Conversation, Speaks, Calls, AnsweredSoFar, AllAnswered, Awaits, AnswersACall

(* The loop begins with a system message and a question.                      *)
LEMMA ConversationBegins ==
  ASSUME messages' = <<Say("system"), Say("user")>>, pc' \in {"give_up", "request"}
  PROVE  Conversation'
<1>1. /\ Len(messages') = 2
      /\ \A p \in 1 .. 2 : messages'[p].role \notin {"assistant", "tool"}
  BY DEF Say
<1>. QED BY <1>1 DEF Conversation, Speaks

(* The response comes after messages whose calls are all answered; its own    *)
(* calls are what is to be executed.                                          *)
LEMMA ConversationResponds ==
  ASSUME TypeInv, Conversation, Respond
  PROVE  Conversation'
<1>. DEFINE m == [role |-> "assistant", calls |-> Firsts(ToolCalls)]
<1>0. PICK n \in Nat : n = Len(messages)
  BY LenProperties DEF TypeInv, TurnTypeOK
<1>1. /\ pc = "respond" /\ messages' = Append(messages, m) /\ todo' = ToolCalls
      /\ pc' = IF todo' = <<>> THEN "finish" ELSE "call"
  BY DEF Respond
<1>2. /\ \A p \in 1 .. n : Speaks(p) => AnsweredSoFar(p) /\ AllAnswered(p)
      /\ \A p \in 1 .. n : messages[p].role = "tool" => AnswersACall(p)
  BY <1>0, <1>1 DEF Conversation
<1>3. m \in Message /\ messages \in Seq(Message)
  BY ToolCallsType DEF Message, Roles, TypeInv, TurnTypeOK
<1>4. /\ Len(messages') = n + 1 /\ messages'[n + 1] = m
      /\ \A p \in 1 .. n : messages'[p] = messages[p]
  BY <1>0, <1>1, <1>3, AppendProperties
<1>5. \A p \in 1 .. n : Len(messages[p].calls) \in Nat
  BY <1>0, <1>3, ElementOfSeq, LenProperties DEF Message
<1>6. /\ Len(m.calls) = Len(todo') /\ Len(todo') \in Nat
      /\ \A k \in 1 .. Len(todo') : m.calls[k] = todo'[k][1]
  BY <1>1, ToolCallsType, LenProperties
<1>7. m.role = "assistant"
  OBVIOUS
<1>. HIDE DEF m
<1>8. ASSUME NEW p \in 1 .. n + 1
      PROVE  /\ Speaks(p)' => AnsweredSoFar(p)'
             /\ messages'[p].role = "tool" => AnswersACall(p)'
  <2>1. CASE p \in 1 .. n
    <3>1. Speaks(p)' => AnsweredSoFar(p)'
      <4>. SUFFICES ASSUME Speaks(p)', NEW k \in 1 .. Len(messages[p].calls), p + k <= n + 1
                    PROVE  messages'[p + k] = [role |-> "tool", calls |-> <<messages[p].calls[k]>>]
        BY <1>3, <1>4, <2>1 DEF AnsweredSoFar, Calls
      <4>1. Speaks(p)
        BY <1>0, <1>4, <2>1 DEF Speaks
      <4>2. p + Len(messages[p].calls) <= n
        BY <1>0, <1>2, <2>1, <4>1 DEF AllAnswered, Calls
      <4>3. p + k \in 1 .. n
        BY <1>3, <1>5, <2>1, <4>2
      <4>4. messages[p + k] = [role |-> "tool", calls |-> <<messages[p].calls[k]>>]
        BY <1>0, <1>2, <1>3, <2>1, <4>1, <4>3 DEF AnsweredSoFar, Calls
      <4>. QED BY <1>4, <4>3, <4>4
    <3>2. messages'[p].role = "tool" => AnswersACall(p)'
      <4>. SUFFICES ASSUME messages[p].role = "tool"
                    PROVE  \E q \in 1 .. p - 1 : /\ messages'[q].role = "assistant"
                                                 /\ p - q <= Len(messages'[q].calls)
        BY <1>4, <2>1 DEF AnswersACall
      <4>1. PICK q \in 1 .. p - 1 : /\ messages[q].role = "assistant"
                                    /\ p - q <= Len(messages[q].calls)
        BY <1>2, <2>1 DEF AnswersACall
      <4>2. q \in 1 .. n
        BY <1>3, <2>1
      <4>. QED BY <1>4, <4>1, <4>2
    <3>. QED BY <3>1, <3>2
  <2>2. CASE p = n + 1
    <3>1. \A k \in 1 .. Len(m.calls) : ~ (p + k <= n + 1)
      BY <1>3, <1>6, <2>2
    <3>. QED BY <1>4, <1>7, <2>2, <3>1 DEF AnsweredSoFar, Calls
  <2>. QED BY <1>3, <2>1, <2>2
<1>9. ASSUME todo' # <<>>
      PROVE  \E p \in 1 .. n + 1 :
                /\ Speaks(p)' /\ Awaits(p)'
                /\ \A q \in 1 .. n + 1 : Speaks(q)' /\ q # p => AllAnswered(q)'
  <2>1. n + 1 \in 1 .. n + 1 /\ \A k \in 1 .. Len(todo') : n + 1 - (n + 1) + k = k
    BY <1>3, <1>6
  <2>2. Speaks(n + 1)'
    BY <1>4, <1>7, <2>1 DEF Speaks
  <2>3. Awaits(n + 1)'
    BY <1>3, <1>4, <1>6, <2>1 DEF Awaits, Calls
  <2>4. ASSUME NEW q \in 1 .. n + 1, Speaks(q)', q # n + 1 PROVE AllAnswered(q)'
    <3>1. q \in 1 .. n /\ messages'[q] = messages[q]
      BY <1>3, <1>4, <2>4
    <3>2. Speaks(q)
      BY <1>0, <2>4, <3>1 DEF Speaks
    <3>3. q + Len(messages[q].calls) <= n
      BY <1>0, <1>2, <3>1, <3>2 DEF AllAnswered, Calls
    <3>. QED BY <1>3, <1>4, <1>5, <3>1, <3>3 DEF AllAnswered, Calls
  <2>. QED BY <2>1, <2>2, <2>3, <2>4
<1>. QED BY <1>1, <1>4, <1>8, <1>9 DEF Conversation

(* A result answers the first call that is to be executed, right after the    *)
(* answers of the calls before it.                                            *)
LEMMA ConversationAnswers ==
  ASSUME TypeInv, Conversation, ToolResult
  PROVE  Conversation'
<1>0. PICK n \in Nat : n = Len(messages)
  BY LenProperties DEF TypeInv, TurnTypeOK
<1>1. PICK m : m = [role |-> "tool", calls |-> <<Head(todo)[1]>>]
  OBVIOUS
<1>2. /\ pc = "execute" /\ messages' = Append(messages, m) /\ todo' = Tail(todo)
      /\ pc' \in {"call", "request", "give_up"}
      /\ pc' = "call" <=> todo' # <<>>
  BY <1>1 DEF ToolResult
<1>3. /\ todo # <<>>
      /\ \A p \in 1 .. n : Speaks(p) => AnsweredSoFar(p)
      /\ \A p \in 1 .. n : messages[p].role = "tool" => AnswersACall(p)
  BY <1>0, <1>2 DEF Conversation
<1>4. PICK r \in 1 .. n :
         /\ Speaks(r) /\ Awaits(r)
         /\ \A q \in 1 .. n : Speaks(q) /\ q # r => AllAnswered(q)
  BY <1>0, <1>2 DEF Conversation
<1>5. /\ messages \in Seq(Message) /\ todo \in Seq(Ids \X Names)
      /\ Head(todo) \in Ids \X Names /\ Head(todo) = todo[1]
  <2>1. messages \in Seq(Message) /\ todo \in Seq(Ids \X Names)
    BY DEF TypeInv, TurnTypeOK
  <2>. QED BY <1>3, <2>1, HeadTailProperties
<1>6. m \in Message /\ m.role = "tool" /\ m.calls = <<todo[1][1]>>
  BY <1>1, <1>5 DEF Message, Roles
<1>7. /\ Len(messages') = n + 1 /\ messages'[n + 1] = m
      /\ \A p \in 1 .. n : messages'[p] = messages[p]
  BY <1>0, <1>2, <1>5, <1>6, AppendProperties
<1>8. PICK t \in Nat : t = Len(todo) /\ t > 0
  BY <1>3, <1>5, LenProperties, EmptySeq
<1>9. Len(todo') = t - 1 /\ \A k \in 1 .. t - 1 : todo'[k] = todo[k + 1]
  BY <1>2, <1>3, <1>5, <1>8, HeadTailProperties
<1>10. \A p \in 1 .. n : Len(messages[p].calls) \in Nat
  BY <1>0, <1>5, ElementOfSeq, LenProperties DEF Message
<1>11. /\ r + Len(messages[r].calls) = n + t
       /\ \A k \in 1 .. t : messages[r].calls[n - r + k] = todo[k][1]
       /\ messages[r].role = "assistant"
  BY <1>0, <1>4, <1>8 DEF Awaits, Calls, Speaks
<1>12. \A q \in 1 .. n : messages[q].role = "assistant" /\ q # r =>
          q + Len(messages[q].calls) <= n
  BY <1>0, <1>4 DEF Speaks, AllAnswered, Calls
<1>13. \A p \in 1 .. n : messages[p].role = "assistant" =>
          \A k \in 1 .. Len(messages[p].calls) :
             p + k <= n =>
                messages[p + k] = [role |-> "tool", calls |-> <<messages[p].calls[k]>>]
  BY <1>0, <1>3 DEF Speaks, AnsweredSoFar, Calls
<1>14. ASSUME NEW p \in 1 .. n + 1, Speaks(p)' PROVE AnsweredSoFar(p)'
  <2>1. p \in 1 .. n /\ messages[p].role = "assistant" /\ messages'[p] = messages[p]
    <3>1. p # n + 1
      BY <1>6, <1>7, <1>14 DEF Speaks
    <3>2. p \in 1 .. n
      BY <3>1
    <3>. QED BY <1>7, <1>14, <3>2 DEF Speaks
  <2>2. ASSUME NEW k \in 1 .. Len(messages[p].calls), p + k <= n + 1
        PROVE  messages'[p + k] = [role |-> "tool", calls |-> <<messages[p].calls[k]>>]
    <3>1. CASE p + k <= n
      <4>1. p + k \in 1 .. n
        BY <1>10, <2>1, <3>1
      <4>. QED BY <1>7, <1>13, <2>1, <3>1, <4>1
    <3>2. CASE p + k = n + 1
      <4>1. p = r
        <5>1. p # r => p + Len(messages[p].calls) <= n
          BY <1>12, <2>1
        <5>2. PICK l \in Nat : l = Len(messages[p].calls)
          BY <1>10, <2>1
        <5>3. k \in 1 .. l
          BY <5>2
        <5>. QED BY <2>1, <3>2, <5>1, <5>2, <5>3
      <4>2. messages[r].calls[n - r + 1] = todo[1][1] /\ k = n - r + 1
        BY <1>8, <1>10, <1>11, <2>1, <3>2, <4>1
      <4>3. messages'[p + k] = m
        BY <1>7, <3>2
      <4>. QED BY <1>1, <1>5, <4>1, <4>2, <4>3
    <3>. QED BY <1>10, <2>1, <2>2, <3>1, <3>2
  <2>. QED BY <1>7, <2>1, <2>2 DEF AnsweredSoFar, Calls
<1>15. ASSUME NEW p \in 1 .. n + 1, messages'[p].role = "tool" PROVE AnswersACall(p)'
  <2>. SUFFICES \E q \in 1 .. p - 1 : /\ messages'[q].role = "assistant"
                                      /\ p - q <= Len(messages'[q].calls)
    BY DEF AnswersACall
  <2>1. CASE p \in 1 .. n
    <3>1. PICK q \in 1 .. p - 1 : /\ messages[q].role = "assistant"
                                  /\ p - q <= Len(messages[q].calls)
      BY <1>3, <1>7, <1>15, <2>1 DEF AnswersACall
    <3>2. q \in 1 .. n
      BY <2>1
    <3>. QED BY <1>7, <3>1, <3>2
  <2>2. CASE p = n + 1
    <3>1. r \in 1 .. p - 1 /\ p - r <= Len(messages[r].calls)
      BY <1>8, <1>10, <1>11, <2>2
    <3>. QED BY <1>7, <1>11, <3>1
  <2>. QED BY <2>1, <2>2
<1>16. \A q \in 1 .. n + 1 : Speaks(q)' =>
          q \in 1 .. n /\ messages[q].role = "assistant" /\ messages'[q] = messages[q]
  <2>1. ~ Speaks(n + 1)'
    <3>1. messages'[n + 1].role # "assistant"
      BY <1>6, <1>7
    <3>. QED BY <3>1 DEF Speaks
  <2>2. \A q \in 1 .. n + 1 : q = n + 1 \/ q \in 1 .. n
    OBVIOUS
  <2>. QED BY <1>7, <2>1, <2>2 DEF Speaks
<1>17. \A q \in 1 .. n + 1 : Speaks(q)' /\ q # r => AllAnswered(q)'
  <2>1. ASSUME NEW q \in 1 .. n + 1, Speaks(q)', q # r PROVE AllAnswered(q)'
    <3>1. q \in 1 .. n /\ q + Len(messages[q].calls) <= n /\ messages'[q] = messages[q]
      BY <1>12, <1>16, <2>1
    <3>. QED BY <1>7, <1>10, <3>1 DEF AllAnswered, Calls
  <2>. QED BY <2>1
<1>18. ASSUME pc' = "request" PROVE \A q \in 1 .. n + 1 : Speaks(q)' => AllAnswered(q)'
  <2>1. t = 1
    <3>1. todo' = <<>>
      BY <1>2, <1>18
    <3>. QED BY <1>9, <3>1
  <2>2. AllAnswered(r)'
    BY <1>7, <1>10, <1>11, <2>1 DEF AllAnswered, Calls
  <2>. QED BY <1>17, <2>2
<1>19. Speaks(r)' /\ Awaits(r)'
  <2>1. r \in 1 .. n + 1 /\ messages'[r] = messages[r]
    BY <1>7
  <2>2. r + Len(messages[r].calls) = (n + 1) + (t - 1)
    <3>1. r + Len(messages[r].calls) = n + t
      BY <1>11
    <3>2. n + t = (n + 1) + (t - 1)
      OBVIOUS
    <3>. QED BY <3>1, <3>2
  <2>3. ASSUME NEW k \in 1 .. t - 1
        PROVE  messages[r].calls[n + 1 - r + k] = todo'[k][1]
    <3>1. k + 1 \in 1 .. t /\ n + 1 - r + k = n - r + (k + 1)
      BY <1>8
    <3>. QED BY <1>9, <1>11, <3>1
  <2>4. Speaks(r)'
    BY <1>7, <1>11, <2>1 DEF Speaks
  <2>5. /\ r + Len(messages'[r].calls) = Len(messages') + Len(todo')
        /\ \A k \in 1 .. Len(todo') :
              messages'[r].calls[Len(messages') - r + k] = todo'[k][1]
    <3>1. /\ Len(messages') = n + 1 /\ Len(todo') = t - 1
          /\ messages'[r].calls = messages[r].calls
      BY <1>7, <1>9, <2>1
    <3>. QED BY <2>2, <2>3, <3>1
  <2>. QED BY <2>4, <2>5 DEF Awaits, Calls
<1>20. \E p \in 1 .. n + 1 :
          /\ Speaks(p)' /\ Awaits(p)'
          /\ \A q \in 1 .. n + 1 : Speaks(q)' /\ q # p => AllAnswered(q)'
  BY <1>17, <1>19, r \in 1 .. n + 1
<1>. QED BY <1>2, <1>7, <1>14, <1>15, <1>18, <1>20 DEF Conversation

LEMMA ConversationInductive == TypeInv /\ Conversation /\ [Next]_vars => Conversation'
<1>. SUFFICES ASSUME TypeInv, Conversation, [Next]_vars PROVE Conversation'
  OBVIOUS
<1>1. CASE Aside
  BY <1>1, ConversationAside DEF Aside, loopVars
<1>2. CASE BeginChat
  BY <1>2, ConversationBegins DEF BeginChat
<1>3. CASE Request
  BY <1>3, ConversationAside DEF Request
<1>4. CASE TextChunk
  BY <1>4, ConversationAside DEF TextChunk
<1>5. CASE \E i \in Indices, id \in ProviderIds \cup {NoId}, n \in Names \cup {NoName} :
              ToolChunk(i, id, n)
  BY <1>5, ConversationAside DEF ToolChunk
<1>6. CASE Respond \/ ToolResult
  BY <1>6, ConversationResponds, ConversationAnswers
<1>7. CASE UNCHANGED vars
  BY <1>7, ConversationAside DEF vars, turnVars
<1>. QED BY <1>1, <1>2, <1>3, <1>4, <1>5, <1>6, <1>7, LoopSteps

LEMMA LoopAtFirst == Init => TypeInv /\ Conversation
<1>. SUFFICES ASSUME Init PROVE TypeInv /\ Conversation
  OBVIOUS
<1>1. TypeInv
  <2>1. tc_acc = NoCalls /\ DOMAIN NoCalls = {}
    BY DEF Init, NoCalls
  <2>2. <<>> \in Seq(Message) /\ <<>> \in Seq(Ids \X Names)
    OBVIOUS
  <2>3. iteration = 0 /\ 0 \in 0 .. MaxIterations
    BY ChatTurnAssumption DEF Init
  <2>. QED BY <2>1, <2>2, <2>3 DEF Init, TypeInv, TurnTypeOK
<1>2. 1 .. Len(messages) = {} /\ pc = "start"
  BY DEF Init
<1>3. Conversation
  BY <1>2 DEF Conversation
<1>. QED BY <1>1, <1>3

LEMMA LoopInvHolds == Spec => [](TypeInv /\ Conversation)
<1>. DEFINE Inv == TurnInv /\ TypeInv /\ Conversation
<1>1. Init => Inv
  BY InvAtFirst, LoopAtFirst
<1>2. Inv /\ [Next]_vars => Inv'
  BY InvInductive, TypeInductive, ConversationInductive
<1>3. Inv => TypeInv /\ Conversation
  OBVIOUS
<1>. HIDE DEF Inv
<1>. QED BY <1>1, <1>2, <1>3, PTL DEF Spec

(* What a turn has gathered, what it has to execute and what it has saved     *)
(* stay in their ranges: no more requests than iterations, no call without a  *)
(* name and an id.                                                            *)
THEOREM TurnTypeOKHolds == Spec => []TurnTypeOK
<1>1. TypeInv => TurnTypeOK
  BY DEF TypeInv
<1>. QED BY <1>1, LoopInvHolds, PTL

(* Every request carries a conversation in which each assistant message is    *)
(* followed by the answers to its calls, in their order, and no answer stands *)
(* alone, whatever calls a model makes and however they fail.                 *)
THEOREM RequestWellFormedHolds == Spec => []RequestWellFormed
<1>1. TypeInv /\ Conversation => RequestWellFormed
  <2>. SUFFICES ASSUME TypeInv, Conversation, pc \in {"request", "streaming"},
                       NEW p \in 1 .. Len(messages)
                PROVE  /\ messages[p].role = "assistant" => AnswersInOrder(p)
                       /\ messages[p].role = "tool" => AnswersACall(p)
    BY DEF RequestWellFormed
  <2>1. messages[p].role = "tool" => AnswersACall(p)
    BY DEF Conversation
  <2>2. ASSUME messages[p].role = "assistant" PROVE AnswersInOrder(p)
    <3>1. AnsweredSoFar(p) /\ AllAnswered(p)
      BY <2>2 DEF Conversation, Speaks
    <3>2. Len(messages) \in Nat /\ Len(messages[p].calls) \in Nat
      BY ElementOfSeq, LenProperties DEF TypeInv, TurnTypeOK, Message
    <3>3. \A k \in 1 .. Len(messages[p].calls) : p + k <= Len(messages)
      BY <3>1, <3>2 DEF AllAnswered, Calls
    <3>. QED BY <3>1, <3>3 DEF AnswersInOrder, AnsweredSoFar, Calls
  <2>. QED BY <2>1, <2>2
<1>. QED BY <1>1, LoopInvHolds, PTL
=============================================================================
