----------------------------- MODULE WidgetProofs -----------------------------
(* Proofs about Widget, for any number of tabs, sessions, messages and page   *)
(* loads, and any limits on what is loaded and sent.                          *)
EXTENDS Widget, SequenceLemmas

Events == {"session", "status", "token", "tool_call", "tool_result", "message",
           "error", "done"}

Get == [at : {"none", "asked", "answered"}, sid : Sessions \cup {None},
        tok : Sessions \cup {None}, body : Seq(Message)]

(* WidgetTypeOK, with what it leaves open of pages that are not there yet.    *)
PageType ==
    /\ local \in [id : Sessions \cup {None}, token : Sessions \cup {None}]
    /\ loaded \in [Tabs -> BOOLEAN]
    /\ sid \in [Tabs -> Sessions \cup {None}]
    /\ tok \in [Tabs -> Sessions \cup {None}]
    /\ leaving \in [Tabs -> Seq(Delete)]
    /\ \A t \in Tabs : loaded[t] => sid[t] \in Sessions

TurnType ==
    /\ turn \in [Tabs -> Turns \cup {0}]
    /\ last \in [Tabs -> Events \cup Requested \cup {"idle", "none"}]
    /\ \A t \in Tabs : turn[t] = 0 <=> last[t] = "idle"
    /\ text \in [Tabs -> BOOLEAN]
    /\ serving \in [Turns -> {"none", "live", "unread"}]
    /\ saves \in [Turns -> 0 .. 2]
    /\ sent_to \in [Turns -> Sessions \cup {None}]

MessageType ==
    /\ history \in [Tabs -> Seq(Message)]
    /\ restore \in [Tabs -> Get]
    /\ stored \in Seq(Message)

CardType ==
    /\ cards \in [Tabs -> Seq(Turns)]
    /\ mixed \subseteq Turns /\ unanswered \subseteq Turns

CountType ==
    /\ loads \in 0 .. MaxLoads
    /\ split \in BOOLEAN /\ crossed \in [Tabs -> BOOLEAN]

(* Only a page that is there waits for DELETEs or has a turn; the first that  *)
(* is opened draws the first session, and every New session that waits may    *)
(* draw one.                                                                  *)
PagesOpened ==
    /\ \A t \in Tabs : ~ loaded[t] => leaving[t] = <<>> /\ turn[t] = 0
    /\ local.id = None => /\ drawn = 0 /\ local.token = None
                          /\ \A t \in Tabs : ~ loaded[t]
    /\ drawn \in Nat
    /\ IsFiniteSet(Waiting) /\ drawn + Cardinality(Waiting) <= MaxSessions

(* Messages are sent one after the other, each from one tab and in a session. *)
TurnsSent ==
    /\ \A n \in Turns : sent_to[n] = None => serving[n] = "none" /\ saves[n] = 0
    /\ \A n \in Turns : \A m \in 1 .. n - 1 :
          sent_to[n] # None => sent_to[m] # None
    /\ \A t \in Tabs : turn[t] # 0 => sent_to[turn[t]] # None
    /\ \A t, u \in Tabs : turn[t] # 0 /\ turn[t] = turn[u] => t = u

Types == PageType /\ TurnType /\ MessageType /\ CardType /\ CountType

TypeInv == Types /\ PagesOpened /\ TurnsSent

-----------------------------------------------------------------------------
(* How far a stream is matters for the cards only: a call is answered, or the *)
(* turn breaks and calls no more.                                             *)
LEMMA EventEffect ==
  ASSUME TurnType, NEW t \in Tabs, NEW e, Event(t, e)
  PROVE  /\ e \in Events
         /\ e = "tool_call" => last[t] \notin {"tool_call", "error", "done"}
         /\ e = "tool_result" => last[t] = "tool_call"
         /\ last[t] = "tool_call" => e \in {"tool_result", "error"}
         /\ last[t] \in {"error", "done"} => e \in {"error", "done"}
         /\ turn[t] \in Turns /\ last[t] \notin Requested
         /\ last' = [last EXCEPT ![t] = e]
         /\ UNCHANGED <<loaded, sid, history, turn, leaving, restore, stored,
                        sent_to, serving, saves, drawn, loads, split, crossed>>
<1>1. /\ turn[t] # 0 /\ last[t] \notin Requested
      /\ last' = [last EXCEPT ![t] = e]
      /\ UNCHANGED <<loaded, sid, history, turn, leaving, restore, stored,
                     sent_to, serving, saves, drawn, loads, split, crossed>>
  BY DEF Event, Streaming, serverVars
<1>2. turn[t] \in Turns /\ last[t] \in Events \cup {"none"}
  BY <1>1 DEF TurnType
<1>. QED BY <1>1, <1>2 DEF Event, Events, Protocol!Follows, Protocol!Working

(* Any step of a stream. *)
LEMMA StreamEffect ==
  ASSUME TurnType, NEW t \in Tabs, Stream(t)
  PROVE  /\ \E e \in Events : Event(t, e)
         /\ turn[t] \in Turns /\ last[t] \notin Requested
         /\ \E e \in Events : last' = [last EXCEPT ![t] = e]
         /\ UNCHANGED <<loaded, sid, history, turn, leaving, restore, stored,
                        sent_to, serving, saves, drawn, loads, split, crossed>>
<1>1. \E e \in Events : Event(t, e)
  <2>1. ASSUME OnSession(t) PROVE Event(t, "session")
    BY <2>1 DEF OnSession
  <2>2. ASSUME OnToolCall(t) PROVE Event(t, "tool_call")
    BY <2>2 DEF OnToolCall
  <2>3. ASSUME OnToolResult(t) PROVE Event(t, "tool_result")
    BY <2>3 DEF OnToolResult
  <2>4. ASSUME OnMessage(t) PROVE Event(t, "message")
    BY <2>4 DEF OnMessage
  <2>5. ASSUME OnOther(t) PROVE \E e \in Events : Event(t, e)
    <3>1. PICK e \in {"token", "status", "error", "done"} : Event(t, e)
      BY <2>5 DEF OnOther
    <3>2. e \in Events
      BY DEF Events
    <3>. QED BY <3>1, <3>2
  <2>. QED BY <2>1, <2>2, <2>3, <2>4, <2>5 DEF Stream, Events
<1>. QED BY <1>1, EventEffect

-----------------------------------------------------------------------------
LEMMA RemoveAtProperties ==
  ASSUME NEW X, NEW seq \in Seq(X), NEW k \in DOMAIN seq
  PROVE  /\ RemoveAt(seq, k) \in Seq(X)
         /\ Len(RemoveAt(seq, k)) = Len(seq) - 1
         /\ \A i \in DOMAIN RemoveAt(seq, k) :
               \E j \in DOMAIN seq : RemoveAt(seq, k)[i] = seq[j]
<1>. DEFINE n == Len(seq)
            before == SubSeq(seq, 1, k - 1)
            after == SubSeq(seq, k + 1, n)
<1>1. n \in Nat /\ DOMAIN seq = 1 .. n /\ k \in 1 .. n
  BY LenProperties
<1>2. /\ before \in Seq(X) /\ Len(before) = k - 1
      /\ \A i \in 1 .. k - 1 : before[i] = seq[i]
  <2>. HIDE DEF n
  <2>. QED BY <1>1, SubSeqProperties
<1>3. /\ after \in Seq(X) /\ Len(after) = n - k
      /\ \A i \in 1 .. n - k : after[i] = seq[k + i]
  <2>. HIDE DEF n
  <2>. QED BY <1>1, SubSeqProperties
<1>. HIDE DEF before, after
<1>4. /\ before \o after \in Seq(X)
      /\ Len(before \o after) = n - 1
      /\ \A i \in 1 .. n - 1 : (before \o after)[i] =
            IF i <= k - 1 THEN before[i] ELSE after[i - (k - 1)]
  <2>1. Len(before) + Len(after) = n - 1
    BY <1>1, <1>2, <1>3
  <2>2. /\ before \o after \in Seq(X)
        /\ Len(before \o after) = Len(before) + Len(after)
        /\ \A i \in 1 .. Len(before) + Len(after) : (before \o after)[i] =
              IF i <= Len(before) THEN before[i] ELSE after[i - Len(before)]
    BY <1>2, <1>3, ConcatProperties
  <2>. QED BY <1>2, <2>1, <2>2
<1>5. RemoveAt(seq, k) = before \o after
  BY DEF RemoveAt, before, after
<1>6. DOMAIN (before \o after) = 1 .. n - 1
  BY <1>4, LenProperties
<1>7. ASSUME NEW i \in 1 .. n - 1
      PROVE  \E j \in 1 .. n : (before \o after)[i] = seq[j]
  <2>1. CASE i <= k - 1
    BY <1>1, <1>2, <1>4, <2>1
  <2>2. CASE ~ (i <= k - 1)
    <3>1. i - (k - 1) \in 1 .. n - k /\ k + (i - (k - 1)) = i + 1 /\ i + 1 \in 1 .. n
      BY <1>1, <2>2
    <3>2. (before \o after)[i] = seq[i + 1]
      <4>1. (before \o after)[i] = after[i - (k - 1)]
        BY <1>4, <2>2
      <4>2. after[i - (k - 1)] = seq[k + (i - (k - 1))]
        BY <1>3, <3>1
      <4>3. k + (i - (k - 1)) = i + 1
        BY <3>1
      <4>. QED BY <4>1, <4>2, <4>3
    <3>. QED BY <3>1, <3>2
  <2>. QED BY <2>1, <2>2
<1>. QED BY <1>1, <1>4, <1>5, <1>6, <1>7, Zenon

LEMMA WaitingElement ==
  \A t, k : <<t, k>> \in Waiting <=> t \in Tabs /\ k \in DOMAIN leaving[t]
BY DEF Waiting

LEMMA WaitingPairs ==
  \A w \in Waiting : \E t \in Tabs : \E k \in DOMAIN leaving[t] : w = <<t, k>>
BY DEF Waiting

-----------------------------------------------------------------------------
(* The store's own picking is that of Picking. *)
LEMMA StorePicks ==
  ASSUME NEW seq, NEW P
  PROVE  Store!Picked(seq, P) = Picked(seq, P)
<1>1. ASSUME NEW S PROVE Cardinality(S) = Store!Cardinality(S)
  BY DEF Cardinality, Store!Cardinality
<1>2. ASSUME NEW k PROVE Nth(P, k) = Store!Nth(P, k)
  BY DEF Nth, Store!Nth, Cardinality, Store!Cardinality
<1>. QED BY <1>1, <1>2 DEF Picked, Store!Picked

(* What conversation_load returns: messages of that session that are stored,  *)
(* none twice if none is stored twice.                                        *)
LEMMA LoadProperties ==
  ASSUME stored \in Seq(Message), NEW s
  PROVE  /\ Store!Load(s) \in Seq(Message)
         /\ \A i \in DOMAIN Store!Load(s) :
               \E j \in DOMAIN stored :
                  Store!Load(s)[i] = stored[j] /\ stored[j][1] = s
         /\ IsInjective(stored) => IsInjective(Store!Load(s))
<1>. DEFINE SessionsOf == [m \in Message |-> m[1]]
            P == {i \in DOMAIN stored : SessionsOf[stored[i]] = s}
            all == Picked(stored, P)
            n == Len(all)
            latest == SubSeq(all, n - Window + 1, n)
<1>1. Store!Load(s) = IF n <= Window THEN all ELSE latest
  BY StorePicks DEF Store!Load
<1>2. /\ P \in SUBSET DOMAIN stored
      /\ \A i \in P : i \in DOMAIN stored /\ stored[i][1] = s
  BY ElementOfSeq, LenProperties
<1>. HIDE DEF P
<1>3. /\ all \in Seq(Message) /\ DOMAIN all = 1 .. n /\ n \in Nat
      /\ \A k \in 1 .. n : \E j \in P : all[k] = stored[j]
      /\ IsInjective(stored) => IsInjective(all)
  <2>1. Cardinality(P) \in Nat
    BY <1>2, PlacesFinite
  <2>2. /\ all \in Seq(Message) /\ n = Cardinality(P)
        /\ DOMAIN all = 1 .. Cardinality(P)
        /\ \A k \in 1 .. Cardinality(P) : Nth(P, k) \in P /\ all[k] = stored[Nth(P, k)]
    BY <1>2, PickedProperties
  <2>3. IsInjective(stored) => IsInjective(all)
    BY <1>2, PickedInjective
  <2>. HIDE DEF all, n
  <2>. QED BY <2>1, <2>2, <2>3
<1>. HIDE DEF all, n
<1>4. CASE n <= Window
  BY <1>1, <1>2, <1>3, <1>4
<1>5. CASE ~ (n <= Window)
  <2>1. Window \in Nat
    BY WidgetAssumption
  <2>2. \A i \in n - Window + 1 .. n : all[i] \in Message
    BY <1>3, <1>5, <2>1, ElementOfSeq DEF n
  <2>3. /\ latest \in Seq(Message) /\ Len(latest) = IF n - Window + 1 <= n
                                                   THEN n - (n - Window + 1) + 1 ELSE 0
        /\ \A i \in 1 .. n - (n - Window + 1) + 1 :
              latest[i] = all[n - Window + 1 + i - 1]
    <3>1. n - Window + 1 \in Int /\ n \in Int
      BY <1>3, <2>1
    <3>. QED BY <2>2, <3>1, SubSeqProperties
  <2>. HIDE DEF latest
  <2>4. Len(latest) = Window /\ \A i \in 1 .. Window : latest[i] = all[n - Window + i]
    BY <1>3, <2>1, <2>3
  <2>5. DOMAIN latest = 1 .. Window
    BY <2>3, <2>4, LenProperties
  <2>6. \A i \in 1 .. Window : n - Window + i \in 1 .. n
    BY <1>3, <1>5, <2>1
  <2>7. ASSUME IsInjective(all) PROVE IsInjective(latest)
    <3>. SUFFICES ASSUME NEW i \in 1 .. Window, NEW j \in 1 .. Window,
                         latest[i] = latest[j]
                  PROVE  i = j
      BY <2>5 DEF IsInjective
    <3>1. n - Window + i = n - Window + j
      BY <1>3, <2>4, <2>6, <2>7 DEF IsInjective
    <3>. QED BY <1>3, <2>1, <3>1
  <2>8. \A i \in 1 .. Window : \E j \in P : latest[i] = stored[j]
    BY <1>3, <2>4, <2>6
  <2>9. Store!Load(s) = latest
    BY <1>1, <1>5
  <2>. QED BY <1>2, <1>3, <2>3, <2>5, <2>7, <2>8, <2>9
<1>. QED BY <1>4, <1>5

(* What a DELETE leaves is what was there, and nothing twice that was not.    *)
LEMMA ClearProperties ==
  ASSUME stored \in Seq(Message), NEW s, Store!Clear(s)
  PROVE  /\ stored' \in Seq(Message)
         /\ \A i \in DOMAIN stored' : \E j \in DOMAIN stored : stored'[i] = stored[j]
         /\ IsInjective(stored) => IsInjective(stored')
<1>1. PICK P \in SUBSET DOMAIN stored : stored' = Picked(stored, P)
  <2>1. stored' = Store!Without(stored, Store!OfSession(s))
    BY DEF Store!Clear, Store!Erase
  <2>. QED BY <2>1, StorePicks DEF Store!Without
<1>2. /\ stored' \in Seq(Message) /\ DOMAIN stored' = 1 .. Cardinality(P)
      /\ \A k \in 1 .. Cardinality(P) :
            Nth(P, k) \in P /\ stored'[k] = stored[Nth(P, k)]
  BY <1>1, PickedProperties
<1>3. IsInjective(stored) => IsInjective(stored')
  BY <1>1, PickedInjective
<1>. QED BY <1>2, <1>3

-----------------------------------------------------------------------------
LEMMA TypeAtFirst == Init => TypeInv
<1>. SUFFICES ASSUME Init PROVE TypeInv
  OBVIOUS
<1>1. PageType
  BY EmptySeq, WidgetAssumption DEF Init, PageType, None
<1>2. TurnType
  BY DEF Init, TurnType, None
<1>3. MessageType
  BY EmptySeq DEF Init, MessageType, Get, NoGet
<1>4. CardType /\ CountType
  <2>1. CardType
    BY EmptySeq DEF Init, CardType
  <2>2. MaxLoads \in Nat
    BY WidgetAssumption
  <2>3. loads = 0 /\ split = FALSE /\ crossed = [t \in Tabs |-> FALSE]
    BY DEF Init
  <2>4. split \in BOOLEAN /\ crossed \in [Tabs -> BOOLEAN]
    BY <2>3, Zenon
  <2>5. loads \in 0 .. MaxLoads
    BY <2>2, <2>3
  <2>. QED BY <2>1, <2>4, <2>5 DEF CountType
<1>5. PagesOpened
  <2>1. \A t \in Tabs : DOMAIN leaving[t] = {}
    BY EmptySeq DEF Init
  <2>2. Waiting = {}
    BY <2>1, WaitingPairs
  <2>. QED BY <2>2, FS_EmptySet, WidgetAssumption DEF Init, PagesOpened
<1>6. TurnsSent
  BY DEF Init, TurnsSent
<1>. QED BY <1>1, <1>2, <1>3, <1>4, <1>5, <1>6 DEF TypeInv, Types

(* Nobody else's turn is abandoned. *)
LEMMA AbandonEffect ==
  ASSUME TurnType, NEW t \in Tabs, Abandon(t)
  PROVE  /\ serving' \in [Turns -> {"none", "live", "unread"}]
         /\ \A n \in Turns : serving'[n] = serving[n] \/ turn[t] = n
BY DEF TurnType, Abandon

(* A step that leaves pages, sessions and requests as they are.               *)
LEMMA SamePages ==
  ASSUME PagesOpened, UNCHANGED <<loaded, leaving, drawn>>,
         local'.id = local.id,
         local'.token = local.token \/ \E t \in Tabs : loaded[t],
         \A t \in Tabs : turn'[t] = turn[t] \/ loaded[t]
  PROVE  PagesOpened'
<1>1. Waiting' = Waiting
  BY DEF Waiting
<1>. QED BY <1>1 DEF PagesOpened

LEMMA TypeStream ==
  ASSUME TypeInv, NEW t \in Tabs, Stream(t)
  PROVE  TypeInv'
<1>1. /\ PageType /\ TurnType /\ MessageType /\ CardType /\ CountType
      /\ PagesOpened /\ TurnsSent
  BY DEF TypeInv, Types
<1>2. /\ turn[t] \in Turns /\ \E e \in Events : last' = [last EXCEPT ![t] = e]
      /\ UNCHANGED <<loaded, sid, history, turn, leaving, restore, stored,
                     sent_to, serving, saves, drawn, loads, split, crossed>>
  BY <1>1, StreamEffect
<1>3. /\ \/ UNCHANGED <<local, tok>>
         \/ \E owner \in Sessions \cup {None} :
               /\ tok' = [tok EXCEPT ![t] = owner]
               /\ local' = [local EXCEPT !.token = owner]
      /\ text' = text \/ text' = [text EXCEPT ![t] = TRUE]
      /\ \/ UNCHANGED <<cards, mixed>>
         \/ cards' = [cards EXCEPT ![t] = Append(cards[t], turn[t])] /\ mixed' = mixed
         \/ /\ cards[t] # <<>> /\ cards' = [cards EXCEPT ![t] = Tail(cards[t])]
            /\ mixed' = mixed \cup ({Head(cards[t])} \ {turn[t]})
      /\ unanswered' \in {unanswered, unanswered \cup {turn[t]}, unanswered \ {turn[t]}}
  <2>1. sent_to[turn[t]] \in Sessions \cup {None}
    BY <1>1, <1>2 DEF TurnType
  <2>2. CASE OnSession(t)
    BY <2>1, <2>2 DEF OnSession
  <2>3. CASE OnToolCall(t)
    BY <2>3 DEF OnToolCall
  <2>4. CASE OnToolResult(t)
    BY <2>4 DEF OnToolResult
  <2>5. CASE OnMessage(t) \/ OnOther(t)
    BY <2>5 DEF OnMessage, OnOther
  <2>. QED BY <2>2, <2>3, <2>4, <2>5 DEF Stream
<1>4. PageType'
  <2>1. CASE UNCHANGED <<local, tok>>
    BY <1>1, <1>2, <2>1 DEF PageType
  <2>2. ASSUME NEW owner \in Sessions \cup {None},
               tok' = [tok EXCEPT ![t] = owner],
               local' = [local EXCEPT !.token = owner]
        PROVE  PageType'
    <3>1. /\ local' \in [id : Sessions \cup {None}, token : Sessions \cup {None}]
          /\ tok' \in [Tabs -> Sessions \cup {None}]
      BY <1>1, <2>2 DEF PageType
    <3>. QED BY <1>1, <1>2, <3>1 DEF PageType
  <2>. QED BY <1>3, <2>1, <2>2
<1>5. TurnType'
  <2>1. PICK e \in Events : last' = [last EXCEPT ![t] = e]
    BY <1>2
  <2>2. e # "idle" /\ turn[t] # 0
    BY <1>2 DEF Events, Turns
  <2>3. last' \in [Tabs -> Events \cup Requested \cup {"idle", "none"}]
    BY <1>1, <2>1 DEF TurnType
  <2>4. \A u \in Tabs : turn'[u] = 0 <=> last'[u] = "idle"
    BY <1>1, <1>2, <2>1, <2>2 DEF TurnType
  <2>5. text' \in [Tabs -> BOOLEAN]
    BY <1>1, <1>3 DEF TurnType
  <2>. QED BY <1>1, <1>2, <2>3, <2>4, <2>5 DEF TurnType
<1>6. CardType'
  <2>1. cards[t] \in Seq(Turns)
    BY <1>1 DEF CardType
  <2>2. Append(cards[t], turn[t]) \in Seq(Turns)
    BY <1>2, <2>1, AppendProperties
  <2>3. cards[t] # <<>> => Head(cards[t]) \in Turns /\ Tail(cards[t]) \in Seq(Turns)
    BY <2>1, HeadTailProperties
  <2>4. cards' \in [Tabs -> Seq(Turns)]
    BY <1>1, <1>3, <2>2, <2>3 DEF CardType
  <2>5. mixed' \subseteq Turns
    BY <1>1, <1>3, <2>3 DEF CardType
  <2>6. unanswered' \subseteq Turns
    BY <1>1, <1>2, <1>3 DEF CardType
  <2>. QED BY <2>4, <2>5, <2>6 DEF CardType
<1>7. PagesOpened'
  <2>1. loaded[t]
    BY <1>1, <1>2 DEF PagesOpened, PageType, Turns
  <2>2. local'.id = local.id
    BY <1>1, <1>3 DEF PageType
  <2>. QED BY <1>1, <1>2, <2>1, <2>2, SamePages
<1>8. MessageType' /\ CountType' /\ TurnsSent'
  BY <1>1, <1>2 DEF MessageType, CountType, TurnsSent
<1>. QED BY <1>4, <1>5, <1>6, <1>7, <1>8 DEF TypeInv, Types

(* _loadOrCreateSession draws an id only if there is one left to draw.        *)
LEMMA TypeOpen ==
  ASSUME TypeInv, NEW t \in Tabs, Open(t)
  PROVE  TypeInv'
<1>1. /\ PageType /\ TurnType /\ MessageType /\ CardType /\ CountType
      /\ PagesOpened /\ TurnsSent
  BY DEF TypeInv, Types
<1>. DEFINE id == SessionAfter(local.id)
<1>2. /\ loads < MaxLoads /\ loads' = loads + 1
      /\ drawn' = IF local.id = None THEN drawn + 1 ELSE drawn
      /\ local' = [local EXCEPT !.id = id]
      /\ loaded' = [loaded EXCEPT ![t] = TRUE]
      /\ sid' = [sid EXCEPT ![t] = local'.id]
      /\ tok' = [tok EXCEPT ![t] = local.token]
      /\ history' = [history EXCEPT ![t] = <<>>]
      /\ Abandon(t)
      /\ turn' = [turn EXCEPT ![t] = 0] /\ last' = [last EXCEPT ![t] = "idle"]
      /\ text' = [text EXCEPT ![t] = FALSE]
      /\ cards' = [cards EXCEPT ![t] = <<>>]
      /\ leaving' = [leaving EXCEPT ![t] = <<>>]
      /\ restore' = [restore EXCEPT ![t] =
                        IF local.token = None THEN NoGet
                        ELSE [NoGet EXCEPT !.at = "asked", !.sid = local'.id,
                                           !.tok = local.token]]
      /\ split' = (split \/ Apart)
      /\ crossed' = [crossed EXCEPT ![t] = FALSE]
      /\ UNCHANGED <<stored, sent_to, saves, mixed, unanswered>>
  BY DEF Open, LoadOrCreateSession
<1>3. local.id = None => drawn = 0 /\ Waiting = {}
  <2>. SUFFICES ASSUME local.id = None PROVE drawn = 0 /\ Waiting = {}
    OBVIOUS
  <2>1. drawn = 0 /\ \A u \in Tabs : leaving[u] = <<>>
    BY <1>1 DEF PagesOpened
  <2>2. \A u \in Tabs : DOMAIN leaving[u] = {}
    BY <2>1, EmptySeq
  <2>. QED BY <2>1, <2>2, WaitingPairs
<1>4. id \in Sessions /\ id # None /\ (local.id # None => id = local.id)
  BY <1>1, <1>3, WidgetAssumption DEF PageType, SessionAfter, Sessions, None
<1>. HIDE DEF id
<1>5. local'.id = id /\ local'.token = local.token
  BY <1>1, <1>2 DEF PageType
<1>6. PageType'
  BY <1>1, <1>2, <1>4, <1>5, EmptySeq DEF PageType
<1>7. TurnType'
  BY <1>1, <1>2, AbandonEffect DEF TurnType
<1>8. MessageType'
  <2>1. NoGet \in Get
    BY EmptySeq DEF NoGet, Get
  <2>2. local.token \in Sessions \cup {None}
    BY <1>1 DEF PageType
  <2>3. [NoGet EXCEPT !.at = "asked", !.sid = local'.id, !.tok = local.token] \in Get
    BY <1>4, <1>5, <2>1, <2>2 DEF Get
  <2>. QED BY <1>1, <1>2, <2>1, <2>3, EmptySeq DEF MessageType
<1>9. CardType'
  BY <1>1, <1>2, EmptySeq DEF CardType
<1>10. CountType'
  <2>1. split' \in BOOLEAN
    BY <1>1, <1>2 DEF CountType
  <2>. QED BY <1>1, <1>2, <2>1, WidgetAssumption DEF CountType
<1>11. PagesOpened'
  <2>1. loaded'[t] /\ \A u \in Tabs : u # t => /\ loaded'[u] = loaded[u]
                                              /\ leaving'[u] = leaving[u]
                                              /\ turn'[u] = turn[u]
    BY <1>1, <1>2 DEF PageType, TurnType
  <2>2. Waiting' \subseteq Waiting
    <3>1. DOMAIN leaving'[t] = {}
      BY <1>1, <1>2, EmptySeq DEF PageType
    <3>2. \A u \in Tabs : DOMAIN leaving'[u] \subseteq DOMAIN leaving[u]
      BY <2>1, <3>1
    <3>. QED BY <3>2 DEF Waiting
  <2>3. /\ IsFiniteSet(Waiting') /\ Cardinality(Waiting') <= Cardinality(Waiting)
        /\ Cardinality(Waiting') \in Nat /\ Cardinality(Waiting) \in Nat
    BY <1>1, <2>2, FS_Subset, FS_CardinalityType DEF PagesOpened
  <2>4. drawn' \in Nat /\ drawn' + Cardinality(Waiting') <= MaxSessions
    <3>1. CASE local.id = None
      <4>1. Waiting' = {} /\ drawn' = 1
        BY <1>2, <1>3, <2>2, <3>1
      <4>. QED BY <4>1, FS_EmptySet, WidgetAssumption
    <3>2. CASE local.id # None
      BY <1>1, <1>2, <2>3, <3>2, WidgetAssumption DEF PagesOpened
    <3>. QED BY <3>1, <3>2
  <2>. QED BY <1>1, <1>4, <1>5, <2>1, <2>3, <2>4 DEF PagesOpened
<1>12. TurnsSent'
  <2>1. \A n \in Turns : serving'[n] = serving[n] \/ turn[t] = n
    BY <1>1, <1>2, AbandonEffect
  <2>2. \A n \in Turns : sent_to[n] = None => turn[t] # n
    BY <1>1 DEF TurnsSent, Turns
  <2>3. \A u \in Tabs : turn'[u] # 0 => turn'[u] = turn[u]
    BY <1>1, <1>2 DEF TurnType
  <2>. QED BY <1>1, <1>2, <2>1, <2>2, <2>3 DEF TurnsSent
<1>. QED BY <1>6, <1>7, <1>8, <1>9, <1>10, <1>11, <1>12 DEF TypeInv, Types

LEMMA TypeRestore ==
  ASSUME TypeInv, NEW t \in Tabs, Restore(t)
  PROVE  TypeInv'
<1>1. /\ PageType /\ TurnType /\ MessageType /\ CardType /\ CountType
      /\ PagesOpened /\ TurnsSent
  BY DEF TypeInv, Types
<1>2. UNCHANGED <<local, loaded, sid, tok, turn, last, text, cards, leaving,
                  stored, sent_to, serving, saves, drawn, loads, split,
                  crossed, mixed, unanswered>>
  BY DEF Restore, ServeGet, RestoreHistory, serverVars, seenVars
<1>3. MessageType'
  <2>1. restore[t] \in Get /\ history[t] \in Seq(Message)
    BY <1>1 DEF MessageType
  <2>2. CASE ServeGet(t)
    <3>1. PICK got \in Seq(Message) :
             restore' = [restore EXCEPT ![t].at = "answered", ![t].body = got]
      <4>1. Store!Load(restore[t].sid) \in Seq(Message) /\ <<>> \in Seq(Message)
        BY <1>1, LoadProperties, EmptySeq DEF MessageType
      <4>. QED BY <2>2, <4>1 DEF ServeGet
    <3>2. history' = history
      BY <2>2 DEF ServeGet
    <3>3. restore' \in [Tabs -> Get]
      BY <1>1, <2>1, <3>1 DEF MessageType, Get
    <3>. QED BY <1>1, <1>2, <3>2, <3>3 DEF MessageType
  <2>3. CASE RestoreHistory(t)
    <3>1. NoGet \in Get
      BY EmptySeq DEF NoGet, Get
    <3>2. restore[t].body \in Seq(Message)
      BY <2>1 DEF Get
    <3>3. history[t] \o restore[t].body \in Seq(Message)
      BY <2>1, <3>2, ConcatProperties
    <3>4. /\ restore' = [restore EXCEPT ![t] = NoGet]
          /\ \/ history' = [history EXCEPT ![t] = history[t] \o restore[t].body]
             \/ history' = history
      BY <2>3 DEF RestoreHistory
    <3>. QED BY <1>1, <1>2, <3>1, <3>3, <3>4 DEF MessageType
  <2>. QED BY <2>2, <2>3 DEF Restore
<1>4. PagesOpened'
  BY <1>1, <1>2, SamePages
<1>5. PageType' /\ TurnType' /\ CardType' /\ CountType' /\ TurnsSent'
  BY <1>1, <1>2 DEF PageType, TurnType, CardType, CountType, TurnsSent
<1>. QED BY <1>3, <1>4, <1>5 DEF TypeInv, Types

LEMMA TypeSend ==
  ASSUME TypeInv, NEW t \in Tabs, Send(t)
  PROVE  TypeInv'
<1>1. /\ PageType /\ TurnType /\ MessageType /\ CardType /\ CountType
      /\ PagesOpened /\ TurnsSent
  BY DEF TypeInv, Types
<1>2. PICK n \in Turns :
         /\ sent_to[n] = None /\ \A m \in 1 .. n - 1 : sent_to[m] # None
         /\ turn' = [turn EXCEPT ![t] = n]
         /\ sent_to' = [sent_to EXCEPT ![n] = sid[t]]
  BY DEF Send
<1>3. /\ loaded[t] /\ turn[t] = 0
      /\ \E l \in Requested : last' = [last EXCEPT ![t] = l]
      /\ text' = [text EXCEPT ![t] = FALSE]
      /\ crossed' = [crossed EXCEPT ![t] = @ \/ restore[t].at # "none"]
      /\ UNCHANGED <<local, loaded, sid, tok, history, cards, leaving, restore,
                     stored, serving, saves, drawn, loads, split, mixed,
                     unanswered>>
  BY DEF Send, Requested
<1>4. sid[t] \in Sessions /\ sid[t] # None
  BY <1>1, <1>3 DEF PageType, Sessions, None
<1>5. TurnType'
  <2>1. PICK l \in Requested : last' = [last EXCEPT ![t] = l]
    BY <1>3
  <2>2. l # "idle" /\ n # 0
    BY DEF Requested, Turns
  <2>3. last' \in [Tabs -> Events \cup Requested \cup {"idle", "none"}]
    BY <1>1, <2>1 DEF TurnType
  <2>4. turn' \in [Tabs -> Turns \cup {0}] /\ text' \in [Tabs -> BOOLEAN]
    BY <1>1, <1>2, <1>3 DEF TurnType
  <2>5. \A u \in Tabs : turn'[u] = 0 <=> last'[u] = "idle"
    BY <1>1, <1>2, <2>1, <2>2 DEF TurnType
  <2>6. sent_to' \in [Turns -> Sessions \cup {None}]
    BY <1>1, <1>2, <1>4 DEF TurnType
  <2>. QED BY <1>1, <1>3, <2>3, <2>4, <2>5, <2>6 DEF TurnType
<1>6. CountType'
  <2>1. crossed' \in [Tabs -> BOOLEAN]
    BY <1>1, <1>3 DEF CountType
  <2>. QED BY <1>1, <1>3, <2>1 DEF CountType
<1>7. PagesOpened'
  <2>1. \A u \in Tabs : turn'[u] = turn[u] \/ loaded[u]
    BY <1>1, <1>2, <1>3 DEF TurnType
  <2>. QED BY <1>1, <1>3, <2>1, SamePages
<1>8. TurnsSent'
  <2>1. \A m \in Turns : sent_to'[m] = IF m = n THEN sid[t] ELSE sent_to[m]
    BY <1>1, <1>2 DEF TurnType
  <2>2. \A u \in Tabs : turn'[u] = IF u = t THEN n ELSE turn[u]
    BY <1>1, <1>2 DEF TurnType
  <2>3. ASSUME NEW k \in Turns, NEW m \in 1 .. k - 1, sent_to'[k] # None
        PROVE  sent_to'[m] # None
    <3>1. m \in Turns
      BY WidgetAssumption DEF Turns
    <3>2. CASE k = n
      BY <1>2, <1>4, <2>1, <3>1, <3>2
    <3>3. CASE k # n
      BY <1>1, <1>4, <2>1, <2>3, <3>1, <3>3 DEF TurnsSent
    <3>. QED BY <3>2, <3>3
  <2>4. \A u \in Tabs : turn[u] # n
    BY <1>1, <1>2 DEF TurnsSent, Turns
  <2>5. \A u \in Tabs : turn'[u] # 0 => turn'[u] \in Turns
    BY <1>1, <2>2 DEF TurnType
  <2>6. \A u \in Tabs : turn'[u] # 0 => sent_to'[turn'[u]] # None
    BY <1>1, <1>4, <2>1, <2>2, <2>5 DEF TurnsSent
  <2>7. \A u, v \in Tabs : turn'[u] # 0 /\ turn'[u] = turn'[v] => u = v
    BY <1>1, <2>2, <2>4 DEF TurnsSent
  <2>8. \A m \in Turns : sent_to'[m] = None => serving'[m] = "none" /\ saves'[m] = 0
    BY <1>1, <1>3, <1>4, <2>1 DEF TurnsSent
  <2>. QED BY <2>3, <2>6, <2>7, <2>8 DEF TurnsSent
<1>9. PageType' /\ MessageType' /\ CardType'
  BY <1>1, <1>3 DEF PageType, MessageType, CardType
<1>. QED BY <1>5, <1>6, <1>7, <1>8, <1>9 DEF TypeInv, Types

(* A turn that is over: every step that gives the composer back.              *)
LEMMA TurnOver ==
  ASSUME TypeInv, NEW t \in Tabs, Leave(t), Abandon(t) \/ UNCHANGED serving,
         UNCHANGED <<sent_to, saves>>
  PROVE  /\ TurnType' /\ TurnsSent'
         /\ \A u \in Tabs : turn'[u] = turn[u] \/ (u = t /\ turn'[u] = 0)
<1>1. TurnType /\ TurnsSent
  BY DEF TypeInv, Types
<1>2. /\ turn' = [turn EXCEPT ![t] = 0]
      /\ last' = [last EXCEPT ![t] = "idle"]
      /\ text' = [text EXCEPT ![t] = FALSE]
  BY DEF Leave
<1>3. /\ serving' \in [Turns -> {"none", "live", "unread"}]
      /\ \A n \in Turns : serving'[n] = serving[n] \/ turn[t] = n
  BY <1>1, AbandonEffect DEF TurnType
<1>4. TurnType'
  <2>1. last' \in [Tabs -> Events \cup Requested \cup {"idle", "none"}]
    BY <1>1, <1>2 DEF TurnType
  <2>2. turn' \in [Tabs -> Turns \cup {0}] /\ text' \in [Tabs -> BOOLEAN]
    BY <1>1, <1>2 DEF TurnType
  <2>3. \A u \in Tabs : turn'[u] = 0 <=> last'[u] = "idle"
    BY <1>1, <1>2 DEF TurnType
  <2>. QED BY <1>1, <1>3, <2>1, <2>2, <2>3 DEF TurnType
<1>5. \A u \in Tabs : turn'[u] = IF u = t THEN 0 ELSE turn[u]
  BY <1>1, <1>2 DEF TurnType
<1>6. \A n \in Turns : sent_to[n] = None => serving'[n] = "none"
  BY <1>1, <1>3 DEF TurnsSent, Turns
<1>7. TurnsSent'
  BY <1>1, <1>5, <1>6 DEF TurnsSent
<1>. QED BY <1>4, <1>5, <1>7

LEMMA TypeAnswer ==
  ASSUME TypeInv, NEW t \in Tabs, Answer(t)
  PROVE  TypeInv'
<1>1. /\ PageType /\ TurnType /\ MessageType /\ CardType /\ CountType
      /\ PagesOpened /\ TurnsSent
  BY DEF TypeInv, Types
<1>2. UNCHANGED <<local, loaded, sid, tok, history, cards, leaving, restore,
                  stored, sent_to, saves, drawn, loads, split, crossed, mixed,
                  unanswered>>
  BY DEF Answer, Accept, Refuse, seenVars
<1>3. TurnType' /\ TurnsSent' /\ \A u \in Tabs : turn'[u] = turn[u] \/ turn[u] # 0
  <2>1. CASE Accept(t)
    <3>1. /\ last[t] = "asked" /\ last' = [last EXCEPT ![t] = "none"]
          /\ serving' = [serving EXCEPT ![turn[t]] = "live"]
          /\ turn' = turn /\ text' = text
      BY <2>1 DEF Accept
    <3>2. turn[t] # 0 /\ turn[t] \in Turns
      BY <1>1, <3>1 DEF TurnType
    <3>3. TurnType'
      BY <1>1, <1>2, <3>1, <3>2 DEF TurnType
    <3>4. \A n \in Turns : sent_to[n] = None => serving'[n] = "none"
      BY <1>1, <3>1, <3>2 DEF TurnsSent, TurnType
    <3>. QED BY <1>1, <1>2, <3>1, <3>3, <3>4 DEF TurnsSent
  <2>2. CASE Refuse(t)
    <3>1. /\ last[t] # "idle" /\ Leave(t)
          /\ Abandon(t) \/ UNCHANGED serving
      BY <2>2 DEF Refuse, Requested
    <3>2. turn[t] # 0
      BY <1>1, <3>1 DEF TurnType
    <3>. QED BY <1>2, <3>1, <3>2, TurnOver
  <2>. QED BY <2>1, <2>2 DEF Answer
<1>4. PagesOpened'
  <2>1. \A u \in Tabs : turn'[u] = turn[u] \/ loaded[u]
    BY <1>1, <1>3 DEF PagesOpened, PageType
  <2>. QED BY <1>1, <1>2, <2>1, SamePages
<1>5. PageType' /\ MessageType' /\ CardType' /\ CountType'
  BY <1>1, <1>2 DEF PageType, MessageType, CardType, CountType
<1>. QED BY <1>3, <1>4, <1>5 DEF TypeInv, Types

(* What Finish adds is the turn's question and perhaps its answer.            *)
LEMMA ExchangeProperties ==
  ASSUME TurnType, TurnsSent, NEW t \in Tabs, turn[t] # 0
  PROVE  /\ Exchange(t) \in Seq(Message)
         /\ IsInjective(Exchange(t))
         /\ \A i \in DOMAIN Exchange(t) :
               Exchange(t)[i][1] = sent_to[turn[t]] /\ Exchange(t)[i][2] = turn[t]
<1>. DEFINE said(role) == <<sent_to[turn[t]], turn[t], role>>
<1>1. turn[t] \in Turns /\ sent_to[turn[t]] \in Sessions
  BY DEF TurnType, TurnsSent
<1>2. \A role \in {"user", "assistant"} : said(role) \in Message
  BY <1>1 DEF Message
<1>3. \/ Exchange(t) = <<said("user"), said("assistant")>>
      \/ Exchange(t) = <<said("user")>>
  <2>. DEFINE q == said("user")
              a == said("assistant")
  <2>1. Exchange(t) = <<q>> \o IF text[t] THEN <<a>> ELSE <<>>
    BY DEF Exchange
  <2>. HIDE DEF q, a
  <2>2. <<q>> \o <<a>> = <<q, a>>
    <3>1. /\ <<q>> \in Seq({q, a}) /\ <<a>> \in Seq({q, a}) /\ <<q, a>> \in Seq({q, a})
          /\ Len(<<q>>) = 1 /\ Len(<<a>>) = 1 /\ Len(<<q, a>>) = 2
      OBVIOUS
    <3>2. /\ <<q>> \o <<a>> \in Seq({q, a})
          /\ Len(<<q>> \o <<a>>) = 2
          /\ \A i \in 1 .. 2 : (<<q>> \o <<a>>)[i] =
                IF i <= 1 THEN <<q>>[i] ELSE <<a>>[i - 1]
      BY <3>1, ConcatProperties
    <3>3. \A i \in 1 .. 2 : (<<q>> \o <<a>>)[i] = <<q, a>>[i]
      BY <3>2
    <3>. QED BY <3>1, <3>2, <3>3, SeqEqual
  <2>3. <<q>> \o <<>> = <<q>>
    <3>1. <<q>> \in Seq({q})
      OBVIOUS
    <3>. QED BY <3>1, ConcatEmptySeq
  <2>4. Exchange(t) = <<q, a>> \/ Exchange(t) = <<q>>
    BY <2>1, <2>2, <2>3
  <2>. QED BY <2>4 DEF q, a
<1>4. CASE Exchange(t) = <<said("user"), said("assistant")>>
  <2>1. Exchange(t) \in Seq(Message)
    BY <1>2, <1>4
  <2>2. DOMAIN Exchange(t) = 1 .. 2
    BY <1>4
  <2>. QED BY <1>4, <2>1, <2>2 DEF IsInjective
<1>5. CASE Exchange(t) = <<said("user")>>
  <2>1. Exchange(t) \in Seq(Message)
    BY <1>2, <1>5
  <2>2. DOMAIN Exchange(t) = 1 .. 1
    BY <1>5
  <2>. QED BY <1>5, <2>1, <2>2 DEF IsInjective
<1>. QED BY <1>3, <1>4, <1>5

LEMMA FinishEffect ==
  ASSUME TypeInv, NEW t \in Tabs, turn[t] # 0, Finish(t)
  PROVE  /\ history' = [history EXCEPT ![t] = history[t] \o Exchange(t)]
         /\ history' \in [Tabs -> Seq(Message)]
<1>1. history' = [history EXCEPT ![t] = history[t] \o Exchange(t)]
  BY DEF Finish
<1>2. history \in [Tabs -> Seq(Message)] /\ Exchange(t) \in Seq(Message)
  BY ExchangeProperties DEF TypeInv, Types, MessageType
<1>3. history[t] \o Exchange(t) \in Seq(Message)
  BY <1>2, ConcatProperties
<1>. QED BY <1>1, <1>2, <1>3

LEMMA TypeEndOfStream ==
  ASSUME TypeInv, NEW t \in Tabs, EndOfStream(t)
  PROVE  TypeInv'
<1>1. /\ PageType /\ TurnType /\ MessageType /\ CardType /\ CountType
      /\ PagesOpened /\ TurnsSent
  BY DEF TypeInv, Types
<1>2. /\ turn[t] # 0 /\ Finish(t) /\ Abandon(t)
      /\ UNCHANGED <<local, loaded, sid, tok, cards, leaving, restore, stored,
                     sent_to, saves, drawn, loads, split, crossed, mixed,
                     unanswered>>
  BY DEF EndOfStream, Streaming, seenVars
<1>3. /\ TurnType' /\ TurnsSent'
      /\ \A u \in Tabs : turn'[u] = turn[u] \/ (u = t /\ turn'[u] = 0)
  BY <1>2, TurnOver DEF Finish
<1>4. PagesOpened'
  <2>1. \A u \in Tabs : turn'[u] = turn[u] \/ loaded[u]
    BY <1>1, <1>2, <1>3 DEF PagesOpened, PageType
  <2>. QED BY <1>1, <1>2, <2>1, SamePages
<1>5. MessageType'
  BY <1>1, <1>2, FinishEffect DEF MessageType
<1>6. PageType' /\ CardType' /\ CountType'
  BY <1>1, <1>2 DEF PageType, CardType, CountType
<1>. QED BY <1>3, <1>4, <1>5, <1>6 DEF TypeInv, Types

(* The DELETE that starts to wait is one more that may draw a session.        *)
LEMMA TypeNewSession ==
  ASSUME TypeInv, NEW t \in Tabs, NewSession(t)
  PROVE  TypeInv'
<1>1. /\ PageType /\ TurnType /\ MessageType /\ CardType /\ CountType
      /\ PagesOpened /\ TurnsSent
  BY DEF TypeInv, Types
<1>. DEFINE call == [sid |-> sid[t], tok |-> tok[t], served |-> FALSE]
            n == Len(leaving[t])
<1>2. /\ loaded[t] /\ drawn + Cardinality(Waiting) < MaxSessions
      /\ leaving' = [leaving EXCEPT ![t] = Append(leaving[t], call)]
      /\ Abandon(t)
      /\ UNCHANGED <<local, loaded, sid, tok, cards, restore, stored, sent_to,
                     saves, drawn, loads, split, crossed, mixed, unanswered>>
  BY DEF NewSession, seenVars
<1>3. \/ turn[t] = 0 /\ UNCHANGED <<turn, last, text, history>>
      \/ turn[t] # 0 /\ Finish(t)
      \/ turn[t] # 0 /\ Leave(t) /\ UNCHANGED history
  BY DEF NewSession, Streaming
<1>4. /\ TurnType' /\ TurnsSent' /\ history' \in [Tabs -> Seq(Message)]
      /\ \A u \in Tabs : turn'[u] = turn[u] \/ (u = t /\ turn'[u] = 0)
  <2>1. CASE turn[t] = 0 /\ UNCHANGED <<turn, last, text, history>>
    <3>1. serving' = serving
      BY <1>2, <2>1 DEF Abandon
    <3>. QED BY <1>1, <1>2, <2>1, <3>1 DEF TurnType, TurnsSent, MessageType
  <2>2. CASE turn[t] # 0 /\ Finish(t)
    BY <1>2, <2>2, TurnOver, FinishEffect DEF Finish
  <2>3. CASE turn[t] # 0 /\ Leave(t) /\ UNCHANGED history
    BY <1>1, <1>2, <2>3, TurnOver DEF MessageType
  <2>. QED BY <1>3, <2>1, <2>2, <2>3
<1>5. leaving[t] \in Seq(Delete) /\ call \in Delete
  BY <1>1, <1>2 DEF PageType, Delete
<1>6. Append(leaving[t], call) \in Seq(Delete) /\ Len(Append(leaving[t], call)) = n + 1
  BY <1>5, AppendProperties
<1>7. PageType'
  BY <1>1, <1>2, <1>6 DEF PageType
<1>8. PagesOpened'
  <2>1. n \in Nat /\ DOMAIN leaving[t] = 1 .. n /\ DOMAIN leaving'[t] = 1 .. n + 1
    <3>1. leaving'[t] = Append(leaving[t], call)
      BY <1>1, <1>2 DEF PageType
    <3>. QED BY <1>5, <1>6, <3>1, LenProperties
  <2>2. \A u \in Tabs : u # t => leaving'[u] = leaving[u]
    BY <1>1, <1>2 DEF PageType
  <2>3. Waiting' = Waiting \cup {<<t, n + 1>>}
    <3>1. ASSUME NEW w \in Waiting' PROVE w \in Waiting \cup {<<t, n + 1>>}
      <4>1. PICK u \in Tabs : \E k \in DOMAIN leaving'[u] : w = <<u, k>>
        BY DEF Waiting
      <4>2. PICK k \in DOMAIN leaving'[u] : w = <<u, k>>
        BY <4>1
      <4>3. k \in DOMAIN leaving[u] \/ (u = t /\ k = n + 1)
        BY <2>1, <2>2, <4>2
      <4>. QED BY <4>2, <4>3, WaitingElement
    <3>2. ASSUME NEW w \in Waiting PROVE w \in Waiting'
      <4>1. PICK u \in Tabs : \E k \in DOMAIN leaving[u] : w = <<u, k>>
        BY WaitingPairs
      <4>2. PICK k \in DOMAIN leaving[u] : w = <<u, k>>
        BY <4>1
      <4>3. k \in DOMAIN leaving'[u]
        BY <2>1, <2>2
      <4>. QED BY <4>2, <4>3 DEF Waiting
    <3>3. <<t, n + 1>> \in Waiting'
      BY <2>1 DEF Waiting
    <3>. QED BY <3>1, <3>2, <3>3
  <2>4. <<t, n + 1>> \notin Waiting
    BY <2>1, WaitingElement
  <2>5. /\ IsFiniteSet(Waiting') /\ Cardinality(Waiting') = Cardinality(Waiting) + 1
        /\ Cardinality(Waiting) \in Nat
    BY <1>1, <2>3, <2>4, FS_AddElement, FS_CardinalityType DEF PagesOpened
  <2>6. drawn' + Cardinality(Waiting') <= MaxSessions
    BY <1>1, <1>2, <2>5, WidgetAssumption DEF PagesOpened
  <2>7. \A u \in Tabs : ~ loaded'[u] => leaving'[u] = <<>> /\ turn'[u] = 0
    BY <1>1, <1>2, <1>4, <2>2 DEF PagesOpened
  <2>. QED BY <1>1, <1>2, <2>5, <2>6, <2>7 DEF PagesOpened
<1>9. MessageType' /\ CardType' /\ CountType'
  BY <1>1, <1>2, <1>4 DEF MessageType, CardType, CountType
<1>. QED BY <1>4, <1>7, <1>8, <1>9 DEF TypeInv, Types

(* An answered DELETE waits on, for the same session and with the same token. *)
LEMMA ServedEffect ==
  ASSUME PageType, NEW t \in Tabs, NEW k \in DOMAIN leaving[t],
         leaving' = [leaving EXCEPT ![t][k].served = TRUE]
  PROVE  /\ leaving' \in [Tabs -> Seq(Delete)]
         /\ \A u \in Tabs : /\ DOMAIN leaving'[u] = DOMAIN leaving[u]
                            /\ leaving'[u] = <<>> <=> leaving[u] = <<>>
                            /\ \A i \in DOMAIN leaving[u] :
                                  /\ leaving'[u][i].sid = leaving[u][i].sid
                                  /\ leaving'[u][i].tok = leaving[u][i].tok
<1>. DEFINE calls == leaving[t]
            call == [calls[k] EXCEPT !.served = TRUE]
<1>1. calls \in Seq(Delete) /\ DOMAIN calls = 1 .. Len(calls) /\ Len(calls) \in Nat
  BY LenProperties DEF PageType
<1>2. calls[k] \in Delete
  BY <1>1, ElementOfSeq
<1>3. call \in Delete /\ call.sid = calls[k].sid /\ call.tok = calls[k].tok
  BY <1>2 DEF Delete
<1>4. /\ leaving'[t] = [calls EXCEPT ![k] = call]
      /\ \A u \in Tabs : u # t => leaving'[u] = leaving[u]
      /\ leaving' = [leaving EXCEPT ![t] = [calls EXCEPT ![k] = call]]
  BY DEF PageType
<1>. HIDE DEF call
<1>5. /\ [calls EXCEPT ![k] = call] \in Seq(Delete)
      /\ Len([calls EXCEPT ![k] = call]) = Len(calls)
      /\ \A i \in 1 .. Len(calls) :
            [calls EXCEPT ![k] = call][i] = IF i = k THEN call ELSE calls[i]
  BY <1>1, <1>3, ExceptSeq
<1>6. DOMAIN [calls EXCEPT ![k] = call] = DOMAIN calls
  BY <1>1, <1>5, LenProperties
<1>7. leaving' \in [Tabs -> Seq(Delete)]
  BY <1>4, <1>5 DEF PageType
<1>8. \A i \in DOMAIN calls : /\ leaving'[t][i].sid = leaving[t][i].sid
                              /\ leaving'[t][i].tok = leaving[t][i].tok
  BY <1>1, <1>3, <1>4, <1>5
<1>9. leaving'[t] # <<>> /\ calls # <<>>
  <2>1. Len(calls) # 0 /\ Len(leaving'[t]) # 0
    BY <1>1, <1>4, <1>5
  <2>. QED BY <2>1, EmptySeq
<1>. QED BY <1>4, <1>6, <1>7, <1>8, <1>9

LEMMA TypeServeDelete ==
  ASSUME TypeInv, NEW t \in Tabs, NEW k, ServeDelete(t, k)
  PROVE  TypeInv'
<1>1. /\ PageType /\ TurnType /\ MessageType /\ CardType /\ CountType
      /\ PagesOpened /\ TurnsSent
  BY DEF TypeInv, Types
<1>2. /\ k \in DOMAIN leaving[t]
      /\ leaving' = [leaving EXCEPT ![t][k].served = TRUE]
      /\ Store!Clear(leaving[t][k].sid) \/ UNCHANGED stored
      /\ UNCHANGED <<local, loaded, sid, tok, history, turn, last, text, cards,
                     restore, sent_to, serving, saves, drawn, loads, split,
                     crossed, mixed, unanswered>>
  BY DEF ServeDelete, seenVars
<1>3. /\ leaving' \in [Tabs -> Seq(Delete)]
      /\ \A u \in Tabs : /\ DOMAIN leaving'[u] = DOMAIN leaving[u]
                         /\ leaving'[u] = <<>> <=> leaving[u] = <<>>
  BY <1>1, <1>2, ServedEffect
<1>4. stored' \in Seq(Message)
  BY <1>1, <1>2, ClearProperties DEF MessageType
<1>5. PagesOpened'
  <2>1. Waiting' = Waiting
    BY <1>3 DEF Waiting
  <2>. QED BY <1>1, <1>2, <1>3, <2>1 DEF PagesOpened
<1>6. PageType' /\ TurnType' /\ MessageType' /\ CardType' /\ CountType' /\ TurnsSent'
  BY <1>1, <1>2, <1>3, <1>4
     DEF PageType, TurnType, MessageType, CardType, CountType, TurnsSent
<1>. QED BY <1>5, <1>6 DEF TypeInv, Types

(* The DELETE that no longer waits leaves room for the session it draws.      *)
LEMMA TypeSwap ==
  ASSUME TypeInv, NEW t \in Tabs, NEW k, Swap(t, k)
  PROVE  /\ TypeInv' /\ loaded[t]
         /\ local' = [id |-> drawn + 1, token |-> None]
         /\ drawn + 1 \in Sessions /\ drawn + 1 # None
<1>1. /\ PageType /\ TurnType /\ MessageType /\ CardType /\ CountType
      /\ PagesOpened /\ TurnsSent
  BY DEF TypeInv, Types
<1>2. /\ k \in DOMAIN leaving[t]
      /\ leaving' = [leaving EXCEPT ![t] = RemoveAt(leaving[t], k)]
      /\ drawn' = drawn + 1
      /\ local' = [id |-> drawn + 1, token |-> None]
      /\ sid' = [sid EXCEPT ![t] = local'.id]
      /\ tok' = [tok EXCEPT ![t] = None]
      /\ history' = [history EXCEPT ![t] = <<>>]
      /\ cards' = [cards EXCEPT ![t] = <<>>]
      /\ crossed' = [crossed EXCEPT ![t] = turn[t] # 0 \/ restore[t].at # "none"]
      /\ split' = (split \/ Apart)
      /\ UNCHANGED <<loaded, turn, last, text, restore, stored, sent_to,
                     serving, saves, loads, mixed, unanswered>>
  BY DEF Swap, LoadOrCreateSession, SessionAfter, serverVars
<1>. DEFINE n == Len(leaving[t])
<1>3. leaving[t] \in Seq(Delete) /\ DOMAIN leaving[t] = 1 .. n /\ n \in Nat
  BY <1>1, LenProperties DEF PageType
<1>4. loaded[t]
  <2>1. leaving[t] # <<>>
    BY <1>2, <1>3, EmptySeq
  <2>. QED BY <1>1, <2>1 DEF PagesOpened
<1>5. /\ leaving' \in [Tabs -> Seq(Delete)]
      /\ DOMAIN leaving'[t] = 1 .. n - 1
      /\ \A u \in Tabs : u # t => leaving'[u] = leaving[u]
  <2>1. RemoveAt(leaving[t], k) \in Seq(Delete) /\ Len(RemoveAt(leaving[t], k)) = n - 1
    BY <1>2, <1>3, RemoveAtProperties
  <2>2. leaving'[t] = RemoveAt(leaving[t], k)
    BY <1>1, <1>2 DEF PageType
  <2>. QED BY <1>1, <1>2, <2>1, <2>2, LenProperties DEF PageType
<1>6. /\ IsFiniteSet(Waiting') /\ Cardinality(Waiting) \in Nat
      /\ Cardinality(Waiting') = Cardinality(Waiting) - 1
  <2>1. <<t, n>> \in Waiting
    BY <1>2, <1>3, WaitingElement
  <2>2. Waiting' = Waiting \ {<<t, n>>}
    <3>1. ASSUME NEW w \in Waiting' PROVE w \in Waiting \ {<<t, n>>}
      <4>1. PICK u \in Tabs : \E i \in DOMAIN leaving'[u] : w = <<u, i>>
        BY DEF Waiting
      <4>2. PICK i \in DOMAIN leaving'[u] : w = <<u, i>>
        BY <4>1
      <4>3. i \in DOMAIN leaving[u] /\ ~ (u = t /\ i = n)
        BY <1>3, <1>5, <4>2
      <4>. QED BY <4>2, <4>3, WaitingElement
    <3>2. ASSUME NEW w \in Waiting, w # <<t, n>> PROVE w \in Waiting'
      <4>1. PICK u \in Tabs : \E i \in DOMAIN leaving[u] : w = <<u, i>>
        BY WaitingPairs
      <4>2. PICK i \in DOMAIN leaving[u] : w = <<u, i>>
        BY <4>1
      <4>3. i \in DOMAIN leaving'[u]
        BY <1>3, <1>5, <3>2, <4>2
      <4>. QED BY <4>2, <4>3 DEF Waiting
    <3>. QED BY <3>1, <3>2
  <2>. QED BY <1>1, <2>1, <2>2, FS_RemoveElement, FS_CardinalityType DEF PagesOpened
<1>7. /\ drawn \in Nat /\ drawn + Cardinality(Waiting) <= MaxSessions
      /\ Cardinality(Waiting') \in Nat
  BY <1>1, <1>6, FS_CardinalityType DEF PagesOpened
<1>8. drawn + 1 \in Sessions /\ drawn + 1 # None
  BY <1>6, <1>7, WidgetAssumption DEF Sessions, None
<1>9. PageType'
  <2>1. local'.id = drawn + 1
    BY <1>2
  <2>2. local' \in [id : Sessions \cup {None}, token : Sessions \cup {None}]
    BY <1>2, <1>8
  <2>. QED BY <1>1, <1>2, <1>5, <1>8, <2>1, <2>2 DEF PageType
<1>10. PagesOpened'
  <2>1. drawn' \in Nat /\ drawn' + Cardinality(Waiting') <= MaxSessions
    BY <1>2, <1>6, <1>7, WidgetAssumption
  <2>2. local'.id # None
    BY <1>2, <1>8
  <2>. QED BY <1>1, <1>2, <1>4, <1>5, <1>6, <2>1, <2>2 DEF PagesOpened
<1>11. MessageType' /\ CardType'
  BY <1>1, <1>2, EmptySeq DEF MessageType, CardType
<1>12. CountType'
  <2>1. split' \in BOOLEAN /\ crossed' \in [Tabs -> BOOLEAN]
    BY <1>1, <1>2 DEF CountType
  <2>. QED BY <1>1, <1>2, <2>1 DEF CountType
<1>13. TurnType' /\ TurnsSent'
  BY <1>1, <1>2 DEF TurnType, TurnsSent
<1>. QED BY <1>2, <1>4, <1>8, <1>9, <1>10, <1>11, <1>12, <1>13 DEF TypeInv, Types

(* Only the turn of a message that was sent saves one.                        *)
LEMMA TypeSave ==
  ASSUME TypeInv, NEW n \in Turns, Save(n)
  PROVE  /\ TypeInv'
         /\ \E role \in {"user", "assistant"} :
               /\ role = IF saves[n] = 0 THEN "user" ELSE "assistant"
               /\ <<sent_to[n], n, role>> \in Message
               /\ stored' = Append(stored, <<sent_to[n], n, role>>)
         /\ saves[n] < 2 /\ saves' = [saves EXCEPT ![n] = saves[n] + 1]
<1>1. /\ PageType /\ TurnType /\ MessageType /\ CardType /\ CountType
      /\ PagesOpened /\ TurnsSent
  BY DEF TypeInv, Types
<1>. DEFINE role == IF saves[n] = 0 THEN "user" ELSE "assistant"
<1>2. /\ saves[n] < 2 /\ serving[n] # "none"
      /\ Store!Save(<<sent_to[n], n, role>>)
      /\ saves' = [saves EXCEPT ![n] = saves[n] + 1]
      /\ UNCHANGED <<local, pageVars, sent_to, serving, seenVars>>
  BY DEF Save
<1>3. sent_to[n] \in Sessions
  BY <1>1, <1>2 DEF TurnsSent, TurnType
<1>4. <<sent_to[n], n, role>> \in Message
  BY <1>3 DEF Message
<1>5. stored' = Append(stored, <<sent_to[n], n, role>>)
  BY <1>2 DEF Store!Save
<1>6. stored' \in Seq(Message)
  BY <1>1, <1>4, <1>5, AppendProperties DEF MessageType
<1>7. saves' \in [Turns -> 0 .. 2]
  BY <1>1, <1>2 DEF TurnType
<1>8. PagesOpened'
  BY <1>1, <1>2, SamePages DEF pageVars, seenVars
<1>9. PageType' /\ TurnType' /\ MessageType' /\ CardType' /\ CountType'
  BY <1>1, <1>2, <1>6, <1>7
     DEF PageType, TurnType, MessageType, CardType, CountType, pageVars, seenVars
<1>10. TurnsSent'
  <2>1. \A m \in Turns : saves'[m] = saves[m] \/ (m = n /\ serving[m] # "none")
    BY <1>1, <1>2 DEF TurnType
  <2>. QED BY <1>1, <1>2, <2>1 DEF TurnsSent, pageVars
<1>. QED BY <1>2, <1>4, <1>5, <1>8, <1>9, <1>10 DEF TypeInv, Types

-----------------------------------------------------------------------------
(* Every way a step can go. *)
LEMMA Steps ==
  ASSUME Next
  PROVE  \/ \E t \in Tabs : \/ Open(t) \/ Restore(t) \/ Send(t) \/ Answer(t)
                            \/ Stream(t) \/ EndOfStream(t) \/ NewSession(t)
         \/ \E t \in Tabs : \E k \in 1 .. MaxSessions : ServeDelete(t, k) \/ Swap(t, k)
         \/ \E n \in Turns : Save(n)
BY DEF Next, Leaving

LEMMA TypeInductive ==
  ASSUME TypeInv, [Next]_vars
  PROVE  TypeInv'
<1>1. ASSUME NEW t \in Tabs,
             Open(t) \/ Restore(t) \/ Send(t) \/ Answer(t)
             \/ Stream(t) \/ EndOfStream(t) \/ NewSession(t)
      PROVE  TypeInv'
  BY <1>1, TypeOpen, TypeRestore, TypeSend, TypeAnswer, TypeStream,
     TypeEndOfStream, TypeNewSession
<1>2. ASSUME NEW t \in Tabs, NEW k \in 1 .. MaxSessions,
             ServeDelete(t, k) \/ Swap(t, k)
      PROVE  TypeInv'
  BY <1>2, TypeServeDelete, TypeSwap
<1>3. ASSUME NEW n \in Turns, Save(n) PROVE TypeInv'
  BY <1>3, TypeSave
<1>4. CASE UNCHANGED vars
  <2>1. UNCHANGED <<local, pageVars, serverVars, seenVars>>
    BY <1>4 DEF vars
  <2>2. Waiting' = Waiting
    BY <2>1 DEF Waiting, pageVars
  <2>3. PageType' /\ TurnType' /\ MessageType' /\ CardType' /\ CountType'
    BY <2>1 DEF TypeInv, Types, PageType, TurnType, MessageType, CardType,
                CountType, pageVars, serverVars, seenVars
  <2>4. PagesOpened' /\ TurnsSent'
    BY <2>1, <2>2 DEF TypeInv, PagesOpened, TurnsSent, pageVars, serverVars, seenVars
  <2>. QED BY <2>3, <2>4 DEF TypeInv, Types
<1>. QED BY <1>1, <1>2, <1>3, <1>4, Steps

(* Pages, requests and conversations stay in their ranges: no more sessions   *)
(* are drawn than there are, since each that waits for a DELETE is counted.   *)
THEOREM WidgetTypeOKHolds == Spec => []WidgetTypeOK
<1>1. Init => TypeInv
  BY TypeAtFirst
<1>2. TypeInv /\ [Next]_vars => TypeInv'
  BY TypeInductive
<1>3. TypeInv => WidgetTypeOK
  <2>. SUFFICES ASSUME TypeInv PROVE WidgetTypeOK
    OBVIOUS
  <2>1. /\ PageType /\ TurnType /\ MessageType /\ CardType /\ CountType /\ PagesOpened
    BY DEF TypeInv, Types
  <2>2. drawn \in 0 .. MaxSessions
    <3>1. /\ drawn \in Nat /\ Cardinality(Waiting) \in Nat
          /\ drawn + Cardinality(Waiting) <= MaxSessions
      BY <2>1, FS_CardinalityType DEF PagesOpened
    <3>. QED BY <3>1, WidgetAssumption
  <2>3. \A t \in Tabs : restore[t].at \in {"none", "asked", "answered"}
    BY <2>1 DEF MessageType, Get
  <2>. QED BY <2>1, <2>2, <2>3
           DEF WidgetTypeOK, PageType, TurnType, MessageType, CardType, CountType
<1>. QED BY <1>1, <1>2, <1>3, PTL DEF Spec

-----------------------------------------------------------------------------
(* TokensMatch, with the reason: as long as two tabs have never been apart,   *)
(* every page is in the session of the one localStorage.                      *)
OneSession ==
    ~ split => TokensMatch /\ \A t \in Tabs : loaded[t] => sid[t] = local.id

LEMMA OneSessionOpen ==
  ASSUME TypeInv, OneSession, NEW t \in Tabs, Open(t)
  PROVE  OneSession'
<1>. SUFFICES ASSUME ~ split'
              PROVE  TokensMatch' /\ \A u \in Tabs : loaded'[u] => sid'[u] = local'.id
  BY DEF OneSession
<1>1. PageType /\ PagesOpened
  BY DEF TypeInv, Types
<1>2. /\ local' = [local EXCEPT !.id = SessionAfter(local.id)]
      /\ loaded' = [loaded EXCEPT ![t] = TRUE]
      /\ sid' = [sid EXCEPT ![t] = local'.id]
      /\ tok' = [tok EXCEPT ![t] = local.token]
      /\ leaving' = [leaving EXCEPT ![t] = <<>>]
      /\ split' = (split \/ Apart)
  BY DEF Open
<1>3. /\ local.token \in {None, local.id}
      /\ \A u \in Tabs : loaded[u] => sid[u] = local.id /\ tok[u] \in {None, sid[u]}
      /\ \A u \in Tabs : \A k \in DOMAIN leaving[u] :
            leaving[u][k].tok \in {None, leaving[u][k].sid}
  BY <1>2 DEF OneSession, TokensMatch
<1>4. /\ local'.id = SessionAfter(local.id) /\ local'.token = local.token
      /\ \A u \in Tabs : loaded'[u] = (u = t \/ loaded[u])
      /\ \A u \in Tabs : sid'[u] = IF u = t THEN local'.id ELSE sid[u]
      /\ \A u \in Tabs : tok'[u] = IF u = t THEN local.token ELSE tok[u]
      /\ \A u \in Tabs : leaving'[u] = IF u = t THEN <<>> ELSE leaving[u]
  <2>1. local'.id = SessionAfter(local.id) /\ local'.token = local.token
    BY <1>1, <1>2 DEF PageType
  <2>2. \A u \in Tabs : loaded'[u] = (u = t \/ loaded[u])
    BY <1>1, <1>2 DEF PageType
  <2>3. \A u \in Tabs : sid'[u] = IF u = t THEN local'.id ELSE sid[u]
    BY <1>1, <1>2 DEF PageType
  <2>4. \A u \in Tabs : tok'[u] = IF u = t THEN local.token ELSE tok[u]
    BY <1>1, <1>2 DEF PageType
  <2>5. \A u \in Tabs : leaving'[u] = IF u = t THEN <<>> ELSE leaving[u]
    BY <1>1, <1>2 DEF PageType
  <2>. QED BY <2>1, <2>2, <2>3, <2>4, <2>5
<1>5. local.id # None => local'.id = local.id
  BY <1>4 DEF SessionAfter
<1>6. local.id = None => local.token = None /\ \A u \in Tabs : ~ loaded[u]
  BY <1>1 DEF PagesOpened
<1>7. local'.token \in {None, local'.id}
  BY <1>3, <1>4, <1>5, <1>6
<1>8. \A u \in Tabs : loaded'[u] => sid'[u] = local'.id /\ tok'[u] \in {None, sid'[u]}
  BY <1>3, <1>4, <1>5, <1>6, <1>7
<1>9. \A u \in Tabs : \A k \in DOMAIN leaving'[u] :
         leaving'[u][k].tok \in {None, leaving'[u][k].sid}
  <2>1. DOMAIN <<>> = {}
    OBVIOUS
  <2>. QED BY <1>3, <1>4, <2>1
<1>. QED BY <1>7, <1>8, <1>9 DEF TokensMatch

LEMMA OneSessionStream ==
  ASSUME TypeInv, OneSession, NEW t \in Tabs, Stream(t)
  PROVE  OneSession'
<1>1. PageType /\ PagesOpened /\ TurnType
  BY DEF TypeInv, Types
<1>2. /\ turn[t] \in Turns
      /\ UNCHANGED <<loaded, sid, leaving, split>>
  BY <1>1, StreamEffect
<1>3. loaded[t]
  BY <1>1, <1>2 DEF PagesOpened, Turns
<1>4. \/ UNCHANGED <<local, tok>>
      \/ /\ tok' = [tok EXCEPT ![t] = sid[t]]
         /\ local' = [local EXCEPT !.token = sid[t]]
  BY DEF Stream, OnSession, OnToolCall, OnToolResult, OnMessage, OnOther
<1>5. CASE UNCHANGED <<local, tok>>
  BY <1>2, <1>5 DEF OneSession, TokensMatch
<1>6. CASE /\ tok' = [tok EXCEPT ![t] = sid[t]]
           /\ local' = [local EXCEPT !.token = sid[t]]
  <2>1. /\ local'.id = local.id /\ local'.token = sid[t]
        /\ \A u \in Tabs : tok'[u] = IF u = t THEN sid[t] ELSE tok[u]
    BY <1>1, <1>6 DEF PageType
  <2>. QED BY <1>2, <1>3, <2>1 DEF OneSession, TokensMatch
<1>. QED BY <1>4, <1>5, <1>6

LEMMA OneSessionNew ==
  ASSUME TypeInv, OneSession, NEW t \in Tabs, NewSession(t)
  PROVE  OneSession'
<1>. DEFINE call == [sid |-> sid[t], tok |-> tok[t], served |-> FALSE]
            n == Len(leaving[t])
<1>1. PageType
  BY DEF TypeInv, Types
<1>2. /\ loaded[t] /\ leaving' = [leaving EXCEPT ![t] = Append(leaving[t], call)]
      /\ UNCHANGED <<local, loaded, sid, tok, split>>
  BY DEF NewSession, seenVars
<1>3. leaving[t] \in Seq(Delete) /\ call \in Delete
  BY <1>1, <1>2 DEF PageType, Delete
<1>4. /\ Append(leaving[t], call) \in Seq(Delete)
      /\ Len(Append(leaving[t], call)) = n + 1
      /\ \A i \in 1 .. n : Append(leaving[t], call)[i] = leaving[t][i]
      /\ Append(leaving[t], call)[n + 1] = call
  BY <1>3, AppendProperties
<1>5. /\ n \in Nat /\ DOMAIN leaving[t] = 1 .. n
      /\ DOMAIN Append(leaving[t], call) = 1 .. n + 1
  BY <1>3, <1>4, LenProperties
<1>6. \A u \in Tabs : leaving'[u] = IF u = t THEN Append(leaving[t], call) ELSE leaving[u]
  BY <1>1, <1>2 DEF PageType
<1>. SUFFICES ASSUME ~ split, OneSession, NEW u \in Tabs, NEW k \in DOMAIN leaving'[u]
              PROVE  leaving'[u][k].tok \in {None, leaving'[u][k].sid}
  BY <1>2 DEF OneSession, TokensMatch
<1>7. CASE u = t /\ k = n + 1
  BY <1>2, <1>4, <1>6, <1>7 DEF OneSession, TokensMatch
<1>8. CASE ~ (u = t /\ k = n + 1)
  <2>1. k \in DOMAIN leaving[u] /\ leaving'[u][k] = leaving[u][k]
    <3>1. CASE u = t
      <4>1. k \in 1 .. n + 1 /\ k # n + 1
        BY <1>5, <1>6, <1>8, <3>1
      <4>2. k \in 1 .. n
        BY <1>5, <4>1
      <4>. QED BY <1>4, <1>5, <1>6, <3>1, <4>2
    <3>2. CASE u # t
      BY <1>6, <3>2
    <3>. QED BY <3>1, <3>2
  <2>. QED BY <2>1 DEF OneSession, TokensMatch
<1>. QED BY <1>7, <1>8

LEMMA OneSessionDelete ==
  ASSUME TypeInv, OneSession, NEW t \in Tabs, NEW k, ServeDelete(t, k)
  PROVE  OneSession'
<1>1. PageType
  BY DEF TypeInv, Types
<1>2. /\ k \in DOMAIN leaving[t]
      /\ leaving' = [leaving EXCEPT ![t][k].served = TRUE]
      /\ UNCHANGED <<local, loaded, sid, tok, split>>
  BY DEF ServeDelete, seenVars
<1>3. \A u \in Tabs : /\ DOMAIN leaving'[u] = DOMAIN leaving[u]
                      /\ \A i \in DOMAIN leaving[u] :
                            /\ leaving'[u][i].sid = leaving[u][i].sid
                            /\ leaving'[u][i].tok = leaving[u][i].tok
  BY <1>1, <1>2, ServedEffect
<1>. QED BY <1>2, <1>3 DEF OneSession, TokensMatch

LEMMA OneSessionSwap ==
  ASSUME TypeInv, OneSession, NEW t \in Tabs, NEW k, Swap(t, k)
  PROVE  OneSession'
<1>. SUFFICES ASSUME ~ split'
              PROVE  TokensMatch' /\ \A u \in Tabs : loaded'[u] => sid'[u] = local'.id
  BY DEF OneSession
<1>1. PageType
  BY DEF TypeInv, Types
<1>2. /\ k \in DOMAIN leaving[t]
      /\ leaving' = [leaving EXCEPT ![t] = RemoveAt(leaving[t], k)]
      /\ sid' = [sid EXCEPT ![t] = local'.id]
      /\ tok' = [tok EXCEPT ![t] = None]
      /\ loaded' = loaded
      /\ split' = (split \/ Apart)
  BY DEF Swap
<1>3. /\ loaded[t] /\ local' = [id |-> drawn + 1, token |-> None]
  BY TypeSwap
<1>4. /\ \A u \in Tabs : loaded[u] => tok[u] \in {None, sid[u]}
      /\ \A u \in Tabs : \A i \in DOMAIN leaving[u] :
            leaving[u][i].tok \in {None, leaving[u][i].sid}
  BY <1>2 DEF OneSession, TokensMatch
<1>5. ~ Apart
  BY <1>2
<1>6. /\ \A u \in Tabs : sid'[u] = IF u = t THEN local'.id ELSE sid[u]
      /\ \A u \in Tabs : tok'[u] = IF u = t THEN None ELSE tok[u]
      /\ \A u \in Tabs : leaving'[u] = IF u = t THEN RemoveAt(leaving[t], k) ELSE leaving[u]
  BY <1>1, <1>2 DEF PageType
<1>7. \A u \in Tabs : loaded'[u] => sid'[u] = local'.id
  BY <1>2, <1>3, <1>5, <1>6 DEF Apart
<1>8. \A i \in DOMAIN RemoveAt(leaving[t], k) :
         \E j \in DOMAIN leaving[t] : RemoveAt(leaving[t], k)[i] = leaving[t][j]
  BY <1>1, <1>2, RemoveAtProperties DEF PageType
<1>9. \A u \in Tabs : \A i \in DOMAIN leaving'[u] :
         leaving'[u][i].tok \in {None, leaving'[u][i].sid}
  BY <1>4, <1>6, <1>8
<1>10. /\ local'.token = None
       /\ \A u \in Tabs : loaded'[u] => tok'[u] \in {None, sid'[u]}
  BY <1>2, <1>3, <1>4, <1>6
<1>. QED BY <1>7, <1>9, <1>10 DEF TokensMatch

(* A token is kept, shown and sent with its own session, in localStorage, in  *)
(* a page and in a request that waits, as long as no two tabs are apart.      *)
THEOREM TokensMatchHolds == Spec => []TokensMatch
<1>1. Init => TypeInv /\ OneSession
  <2>1. Init => OneSession
    <3>1. DOMAIN <<>> = {}
      OBVIOUS
    <3>. QED BY <3>1 DEF Init, OneSession, TokensMatch
  <2>. QED BY <2>1, TypeAtFirst
<1>2. TypeInv /\ OneSession /\ [Next]_vars => TypeInv' /\ OneSession'
  <2>. SUFFICES ASSUME TypeInv, OneSession, [Next]_vars PROVE OneSession'
    BY TypeInductive
  <2>1. ASSUME NEW t \in Tabs, Open(t) \/ Stream(t) \/ NewSession(t)
        PROVE  OneSession'
    BY <2>1, OneSessionOpen, OneSessionStream, OneSessionNew
  <2>2. ASSUME NEW t \in Tabs, Restore(t) \/ Send(t) \/ Answer(t) \/ EndOfStream(t)
        PROVE  OneSession'
    <3>1. UNCHANGED <<local, loaded, sid, tok, leaving, split>>
      BY <2>2 DEF Restore, ServeGet, RestoreHistory, Send, Answer, Accept, Refuse,
                  EndOfStream, seenVars
    <3>. QED BY <3>1 DEF OneSession, TokensMatch
  <2>3. ASSUME NEW t \in Tabs, NEW k \in 1 .. MaxSessions,
               ServeDelete(t, k) \/ Swap(t, k)
        PROVE  OneSession'
    BY <2>3, OneSessionDelete, OneSessionSwap
  <2>4. ASSUME NEW n \in Turns, Save(n) PROVE OneSession'
    BY <2>4 DEF Save, OneSession, TokensMatch, pageVars, seenVars
  <2>5. CASE UNCHANGED vars
    BY <2>5 DEF vars, OneSession, TokensMatch, pageVars, seenVars
  <2>. QED BY <2>1, <2>2, <2>3, <2>4, <2>5, Steps
<1>3. TypeInv /\ OneSession => TokensMatch
  BY DEF OneSession, TokensMatch
<1>. QED BY <1>1, <1>2, <1>3, PTL DEF Spec

-----------------------------------------------------------------------------
(* The turns that were cut off between a tool's call and its result: nobody   *)
(* reads them any more.                                                       *)
CutOff == {n \in unanswered : \A t \in Tabs : turn[t] # n}

Behind(c) == \E n \in CutOff : n <= c

(* After a call, until the turn has had its result. *)
Called == {"tool_call", "error", "done"}

Awaited(t, i) ==
    /\ i = Len(cards[t]) /\ cards[t][i] = turn[t]
    /\ turn[t] \in unanswered /\ last[t] \in Called

(* CardsPaired, with the reason: a page's cards are of messages no later than *)
(* its turn's, and all but the one the turn waits for are there because of a  *)
(* turn that was cut off, their own or one before it.                         *)
CardsQueued ==
    /\ \A n \in unanswered : sent_to[n] # None
    /\ \A m \in mixed : Behind(m)
    /\ \A t \in Tabs : \A i \in DOMAIN cards[t] :
          /\ sent_to[cards[t][i]] # None
          /\ turn[t] # 0 => cards[t][i] <= turn[t]
          /\ Behind(cards[t][i]) \/ Awaited(t, i)

LEMMA CardTurns ==
  ASSUME TypeInv, NEW t \in Tabs
  PROVE  /\ DOMAIN cards[t] = 1 .. Len(cards[t]) /\ Len(cards[t]) \in Nat
         /\ \A i \in DOMAIN cards[t] : cards[t][i] \in Turns
<1>1. cards[t] \in Seq(Turns)
  BY DEF TypeInv, Types, CardType
<1>. QED BY <1>1, LenProperties, ElementOfSeq

(* What a turn that is over, sent, or further in its stream means for the     *)
(* cards that a step leaves alone.                                            *)
LEMMA CardsLeft ==
  ASSUME TypeInv, CardsQueued, UNCHANGED <<mixed, unanswered>>,
         \A n \in Turns : sent_to[n] # None => sent_to'[n] # None,
         \A t \in Tabs : cards'[t] = cards[t] \/ cards'[t] = <<>>,
         \A t \in Tabs : \/ turn'[t] = turn[t] \/ turn'[t] = 0
                         \/ turn'[t] \in Turns /\ sent_to[turn'[t]] = None,
         \A t \in Tabs : \/ last[t] \notin Called \/ turn'[t] = 0
                         \/ turn'[t] = turn[t] /\ last'[t] \in {last[t], "error", "done"}
  PROVE  CardsQueued'
<1>1. TurnType /\ CardType /\ TurnsSent
  BY DEF TypeInv, Types
<1>2. 0 \notin Turns /\ unanswered \subseteq Turns /\ Turns \subseteq Int
  BY <1>1 DEF Turns, CardType
<1>3. /\ \A n \in unanswered : sent_to[n] # None
      /\ \A m \in mixed : Behind(m)
  BY DEF CardsQueued
<1>4. CutOff \subseteq CutOff'
  BY <1>2, <1>3 DEF CutOff
<1>5. \A c : Behind(c) => \E n \in CutOff' : n <= c
  BY <1>4 DEF Behind
<1>6. ASSUME NEW t \in Tabs, NEW i \in DOMAIN cards'[t]
      PROVE  /\ i \in DOMAIN cards[t] /\ cards'[t] = cards[t]
             /\ sent_to'[cards[t][i]] # None
             /\ turn'[t] # 0 => cards[t][i] <= turn'[t]
             /\ (\E n \in CutOff' : n <= cards[t][i]) \/ Awaited(t, i)'
  <2>1. cards'[t] = cards[t] /\ i \in DOMAIN cards[t]
    <3>1. DOMAIN <<>> = {}
      OBVIOUS
    <3>. QED BY <1>6, <3>1
  <2>. DEFINE c == cards[t][i]
  <2>2. c \in Turns
    BY <2>1, CardTurns
  <2>3. /\ sent_to[c] # None /\ (turn[t] # 0 => c <= turn[t])
        /\ Behind(c) \/ Awaited(t, i)
    BY <2>1 DEF CardsQueued
  <2>. HIDE DEF c
  <2>4. ASSUME turn'[t] # 0 PROVE c <= turn'[t]
    <3>1. CASE turn'[t] = turn[t]
      BY <2>3, <2>4, <3>1
    <3>2. CASE turn'[t] \in Turns /\ sent_to[turn'[t]] = None
      <4>1. ~ (turn'[t] \in 1 .. c - 1)
        BY <1>1, <2>2, <2>3, <3>2 DEF TurnsSent
      <4>. QED BY <2>2, <3>2, <4>1 DEF Turns
    <3>. QED BY <2>4, <3>1, <3>2
  <2>5. ASSUME Awaited(t, i)
        PROVE  (\E n \in CutOff' : n <= c) \/ Awaited(t, i)'
    <3>1. c = turn[t] /\ c \in unanswered /\ last[t] \in Called /\ i = Len(cards[t])
      BY <2>5 DEF Awaited, c
    <3>2. CASE turn'[t] = 0
      <4>1. \A u \in Tabs : turn'[u] # c
        BY <1>1, <1>2, <2>2, <2>3, <3>1, <3>2 DEF TurnsSent
      <4>2. c \in CutOff'
        BY <3>1, <4>1 DEF CutOff
      <4>. QED BY <1>2, <2>2, <4>2
    <3>3. CASE turn'[t] = turn[t] /\ last'[t] \in {last[t], "error", "done"}
      BY <2>1, <3>1, <3>3 DEF Awaited, Called, c
    <3>. QED BY <3>1, <3>2, <3>3
  <2>6. sent_to'[c] # None
    BY <2>2, <2>3
  <2>7. (\E n \in CutOff' : n <= c) \/ Awaited(t, i)'
    BY <1>5, <2>3, <2>5
  <2>. QED BY <2>1, <2>4, <2>6, <2>7 DEF c
<1>7. \A n \in unanswered' : sent_to'[n] # None
  BY <1>2, <1>3
<1>8. \A m \in mixed' : \E n \in CutOff' : n <= m
  BY <1>3, <1>5
<1>. QED BY <1>6, <1>7, <1>8 DEF CardsQueued, Behind

(* A call's card is the last, and the turn waits for it. *)
LEMMA CardsAfterCall ==
  ASSUME TypeInv, CardsQueued, NEW t \in Tabs, OnToolCall(t)
  PROVE  CardsQueued'
<1>1. TurnType /\ CardType /\ TurnsSent
  BY DEF TypeInv, Types
<1>2. /\ last[t] \notin Called /\ turn[t] \in Turns
      /\ last' = [last EXCEPT ![t] = "tool_call"]
      /\ turn' = turn /\ sent_to' = sent_to
  BY <1>1, EventEffect DEF OnToolCall, Called
<1>3. /\ cards' = [cards EXCEPT ![t] = Append(cards[t], turn[t])]
      /\ unanswered' = unanswered \cup {turn[t]} /\ mixed' = mixed
  BY DEF OnToolCall
<1>4. CutOff' = CutOff
  BY <1>2, <1>3 DEF CutOff
<1>5. sent_to[turn[t]] # None
  BY <1>1, <1>2 DEF TurnsSent, Turns
<1>. DEFINE n == Len(cards[t])
            longer == Append(cards[t], turn[t])
<1>6. /\ n \in Nat /\ DOMAIN cards[t] = 1 .. n
      /\ DOMAIN longer = 1 .. n + 1 /\ Len(longer) = n + 1
      /\ \A i \in 1 .. n : longer[i] = cards[t][i]
      /\ longer[n + 1] = turn[t]
  <2>1. cards[t] \in Seq(Turns)
    BY <1>1 DEF CardType
  <2>2. /\ longer \in Seq(Turns) /\ Len(longer) = n + 1
        /\ \A i \in 1 .. n : longer[i] = cards[t][i]
        /\ longer[n + 1] = turn[t]
    BY <1>2, <2>1, AppendProperties
  <2>. QED BY <2>1, <2>2, LenProperties
<1>. HIDE DEF longer
<1>7. /\ cards'[t] = longer /\ last'[t] = "tool_call"
      /\ \A u \in Tabs : u # t => cards'[u] = cards[u] /\ last'[u] = last[u]
  BY <1>1, <1>2, <1>3 DEF CardType, TurnType, longer
<1>8. ASSUME NEW u \in Tabs, NEW i \in DOMAIN cards'[u]
      PROVE  /\ sent_to[cards'[u][i]] # None
             /\ turn[u] # 0 => cards'[u][i] <= turn[u]
             /\ Behind(cards'[u][i]) \/ Awaited(u, i)'
  <2>1. CASE u = t /\ i = n + 1
    <3>1. cards'[u][i] = turn[t] /\ i = Len(cards'[t])
      BY <1>6, <1>7, <2>1
    <3>2. Awaited(u, i)'
      BY <1>2, <1>3, <1>7, <2>1, <3>1 DEF Awaited, Called
    <3>. QED BY <1>2, <1>5, <2>1, <3>1, <3>2 DEF Turns
  <2>2. CASE u = t /\ i # n + 1
    <3>1. i \in DOMAIN cards[t] /\ cards'[t][i] = cards[t][i]
      <4>1. i \in 1 .. n
        BY <1>6, <1>7, <2>2
      <4>. QED BY <1>6, <1>7, <4>1
    <3>2. ~ Awaited(t, i)
      BY <1>2 DEF Awaited
    <3>. QED BY <2>2, <3>1, <3>2 DEF CardsQueued
  <2>3. CASE u # t
    <3>1. i \in DOMAIN cards[u] /\ cards'[u] = cards[u] /\ last'[u] = last[u]
      BY <1>7, <2>3
    <3>2. Awaited(u, i) => Awaited(u, i)'
      BY <1>2, <1>3, <3>1 DEF Awaited
    <3>. QED BY <3>1, <3>2 DEF CardsQueued
  <2>. QED BY <2>1, <2>2, <2>3
<1>9. /\ \A m \in unanswered' : sent_to[m] # None
      /\ \A m \in mixed' : Behind(m)
  BY <1>3, <1>5 DEF CardsQueued
<1>. QED BY <1>2, <1>4, <1>8, <1>9 DEF CardsQueued, Behind

(* A result takes the first card: the one the turn waits for, or one that is  *)
(* behind a turn that was cut off, and then so are all that follow.           *)
LEMMA CardsAfterResult ==
  ASSUME TypeInv, CardsQueued, NEW t \in Tabs, OnToolResult(t)
  PROVE  CardsQueued'
<1>1. TurnType /\ CardType /\ TurnsSent
  BY DEF TypeInv, Types
<1>2. /\ turn[t] \in Turns
      /\ last' = [last EXCEPT ![t] = "tool_result"]
      /\ turn' = turn /\ sent_to' = sent_to
  BY <1>1, EventEffect DEF OnToolResult
<1>3. /\ unanswered' = unanswered \ {turn[t]}
      /\ \/ cards[t] = <<>> /\ UNCHANGED <<mixed, cards>>
         \/ /\ cards[t] # <<>>
            /\ mixed' = mixed \cup ({Head(cards[t])} \ {turn[t]})
            /\ cards' = [cards EXCEPT ![t] = Tail(cards[t])]
  BY DEF OnToolResult
<1>4. CutOff' = CutOff
  BY <1>2, <1>3 DEF CutOff
<1>5. \A u \in Tabs : u # t => cards'[u] = cards[u] /\ last'[u] = last[u]
  BY <1>1, <1>2, <1>3 DEF CardType, TurnType
<1>6. ASSUME NEW u \in Tabs, NEW i \in DOMAIN cards'[u], u # t
      PROVE  /\ sent_to[cards'[u][i]] # None
             /\ turn[u] # 0 => cards'[u][i] <= turn[u]
             /\ Behind(cards'[u][i]) \/ Awaited(u, i)'
  <2>1. i \in DOMAIN cards[u] /\ cards'[u] = cards[u] /\ last'[u] = last[u]
    BY <1>5, <1>6
  <2>2. turn[u] # turn[t]
    BY <1>1, <1>2, <1>6 DEF TurnsSent, Turns
  <2>3. Awaited(u, i) => Awaited(u, i)'
    BY <1>2, <1>3, <2>1, <2>2 DEF Awaited
  <2>. QED BY <2>1, <2>3 DEF CardsQueued
<1>7. ASSUME NEW i \in DOMAIN cards'[t]
      PROVE  /\ sent_to[cards'[t][i]] # None
             /\ turn[t] # 0 => cards'[t][i] <= turn[t]
             /\ Behind(cards'[t][i])
  <2>1. cards[t] # <<>>
    <3>1. DOMAIN <<>> = {}
      OBVIOUS
    <3>. QED BY <1>3, <1>7, <3>1
  <2>2. cards[t] \in Seq(Turns) /\ cards'[t] = Tail(cards[t])
    BY <1>1, <1>3, <2>1 DEF CardType
  <2>. DEFINE n == Len(cards[t])
  <2>3. /\ DOMAIN cards[t] = 1 .. n /\ n \in Nat /\ DOMAIN cards'[t] = 1 .. n - 1
        /\ \A j \in 1 .. n - 1 : cards'[t][j] = cards[t][j + 1]
    BY <2>1, <2>2, HeadTailProperties, LenProperties
  <2>4. /\ 1 \in DOMAIN cards[t] /\ i + 1 \in DOMAIN cards[t] /\ 1 # n
        /\ cards'[t][i] = cards[t][i + 1]
    BY <1>7, <2>3
  <2>5. cards[t][1] \in Turns /\ cards[t][i + 1] \in Turns
    BY <2>4, CardTurns
  <2>6. Behind(cards[t][1]) /\ cards[t][1] <= turn[t]
    <3>1. turn[t] # 0
      BY <1>2 DEF Turns
    <3>2. ~ Awaited(t, 1)
      BY <2>4 DEF Awaited
    <3>. QED BY <2>4, <3>1, <3>2 DEF CardsQueued
  <2>7. Behind(cards[t][i + 1])
    <3>1. CASE Awaited(t, i + 1)
      <4>1. cards[t][1] <= cards[t][i + 1]
        BY <2>6, <3>1 DEF Awaited
      <4>2. PICK m \in CutOff : m <= cards[t][1]
        BY <2>6 DEF Behind
      <4>3. m \in Turns
        BY <1>1 DEF CutOff, CardType
      <4>4. m <= cards[t][i + 1]
        BY <2>5, <4>1, <4>2, <4>3 DEF Turns
      <4>. QED BY <4>4 DEF Behind
    <3>2. CASE ~ Awaited(t, i + 1)
      BY <2>4, <3>2 DEF CardsQueued
    <3>. QED BY <3>1, <3>2
  <2>. QED BY <2>4, <2>7 DEF CardsQueued
<1>8. ASSUME NEW m \in mixed' PROVE Behind(m)
  <2>1. CASE m \in mixed
    BY <2>1 DEF CardsQueued
  <2>2. CASE m \notin mixed
    <3>1. cards[t] # <<>> /\ m = Head(cards[t]) /\ m # turn[t]
      BY <1>3, <1>8, <2>2
    <3>2. 1 \in DOMAIN cards[t] /\ m = cards[t][1]
      <4>1. cards[t] \in Seq(Turns)
        BY <1>1 DEF CardType
      <4>2. Len(cards[t]) \in Nat \ {0} /\ DOMAIN cards[t] = 1 .. Len(cards[t])
        BY <3>1, <4>1, EmptySeq, LenProperties
      <4>. QED BY <3>1, <4>1, <4>2
    <3>. QED BY <3>1, <3>2 DEF CardsQueued, Awaited
  <2>. QED BY <2>1, <2>2
<1>9. \A m \in unanswered' : sent_to[m] # None
  BY <1>3 DEF CardsQueued
<1>. QED BY <1>2, <1>4, <1>6, <1>7, <1>8, <1>9 DEF CardsQueued, Behind

(* A tool's result goes into the card of its own call, unless that card's     *)
(* turn or one before it was cut off between a call and its result.           *)
THEOREM CardsPairedHolds == Spec => []CardsPaired
<1>1. Init => TypeInv /\ CardsQueued
  <2>1. Init => CardsQueued
    <3>1. DOMAIN <<>> = {}
      OBVIOUS
    <3>. QED BY <3>1 DEF Init, CardsQueued
  <2>. QED BY <2>1, TypeAtFirst
<1>2. TypeInv /\ CardsQueued /\ [Next]_vars => TypeInv' /\ CardsQueued'
  <2>. SUFFICES ASSUME TypeInv, CardsQueued, [Next]_vars PROVE CardsQueued'
    BY TypeInductive
  <2>1. PageType /\ TurnType /\ CardType /\ TurnsSent
    BY DEF TypeInv, Types
  <2>2. ASSUME NEW t \in Tabs, Open(t) PROVE CardsQueued'
    <3>1. /\ turn' = [turn EXCEPT ![t] = 0]
          /\ last' = [last EXCEPT ![t] = "idle"]
          /\ cards' = [cards EXCEPT ![t] = <<>>]
          /\ UNCHANGED <<sent_to, mixed, unanswered>>
      BY <2>2 DEF Open
    <3>2. \A u \in Tabs : /\ cards'[u] = IF u = t THEN <<>> ELSE cards[u]
                          /\ turn'[u] = IF u = t THEN 0 ELSE turn[u]
                          /\ last'[u] = IF u = t THEN "idle" ELSE last[u]
      BY <2>1, <3>1 DEF TurnType, CardType
    <3>. QED BY <3>1, <3>2, CardsLeft
  <2>3. ASSUME NEW t \in Tabs, Send(t) PROVE CardsQueued'
    <3>1. /\ turn[t] = 0 /\ UNCHANGED <<cards, mixed, unanswered>>
          /\ \A u \in Tabs : u # t => last'[u] = last[u]
      BY <2>1, <2>3 DEF Send, TurnType
    <3>2. PICK n \in Turns : /\ sent_to[n] = None
                             /\ turn' = [turn EXCEPT ![t] = n]
                             /\ sent_to' = [sent_to EXCEPT ![n] = sid[t]]
      BY <2>3 DEF Send
    <3>3. \A u \in Tabs : turn'[u] = IF u = t THEN n ELSE turn[u]
      BY <2>1, <3>2 DEF TurnType
    <3>4. \A m \in Turns : sent_to[m] # None => sent_to'[m] # None
      BY <2>1, <3>2 DEF TurnType
    <3>5. last[t] \notin Called
      BY <2>1, <3>1 DEF TurnType, Called
    <3>. QED BY <3>1, <3>2, <3>3, <3>4, <3>5, CardsLeft
  <2>4. ASSUME NEW t \in Tabs, Answer(t) \/ EndOfStream(t) \/ NewSession(t)
        PROVE  CardsQueued'
    <3>1. UNCHANGED <<sent_to, cards, mixed, unanswered>>
      BY <2>4 DEF Answer, Accept, Refuse, EndOfStream, NewSession, seenVars
    <3>2. \/ UNCHANGED <<turn, last>>
          \/ /\ turn' = [turn EXCEPT ![t] = 0]
             /\ last' = [last EXCEPT ![t] = "idle"]
          \/ /\ last[t] = "asked" /\ turn' = turn
             /\ last' = [last EXCEPT ![t] = "none"]
      BY <2>4 DEF Answer, Accept, Refuse, EndOfStream, NewSession, Finish, Leave,
                  Streaming
    <3>3. \A u \in Tabs :
             \/ turn'[u] = turn[u] /\ last'[u] = last[u]
             \/ turn'[u] = 0
             \/ turn'[u] = turn[u] /\ last[u] \notin Called
      BY <2>1, <3>2 DEF TurnType, Called
    <3>. QED BY <3>1, <3>3, CardsLeft
  <2>5. ASSUME NEW t \in Tabs, OnSession(t) \/ OnMessage(t) \/ OnOther(t)
        PROVE  CardsQueued'
    <3>1. UNCHANGED <<cards, mixed, unanswered>>
      BY <2>5 DEF OnSession, OnMessage, OnOther
    <3>2. PICK e : Event(t, e) /\ e # "tool_call" /\ e # "tool_result"
      BY <2>5 DEF OnSession, OnMessage, OnOther
    <3>3. /\ last[t] \in Called => e \in {"error", "done"}
          /\ last' = [last EXCEPT ![t] = e]
          /\ UNCHANGED <<turn, sent_to>>
      BY <2>1, <3>2, EventEffect DEF Called
    <3>4. \A u \in Tabs : last'[u] = IF u = t THEN e ELSE last[u]
      BY <2>1, <3>3 DEF TurnType
    <3>. QED BY <3>1, <3>3, <3>4, CardsLeft
  <2>6. ASSUME NEW t \in Tabs, Stream(t) PROVE CardsQueued'
    BY <2>5, <2>6, CardsAfterCall, CardsAfterResult DEF Stream
  <2>7. ASSUME NEW t \in Tabs, NEW k \in 1 .. MaxSessions, Swap(t, k)
        PROVE  CardsQueued'
    <3>1. /\ cards' = [cards EXCEPT ![t] = <<>>]
          /\ UNCHANGED <<turn, last, sent_to, mixed, unanswered>>
      BY <2>7 DEF Swap, serverVars
    <3>2. \A u \in Tabs : cards'[u] = IF u = t THEN <<>> ELSE cards[u]
      BY <2>1, <3>1 DEF CardType
    <3>. QED BY <3>1, <3>2, CardsLeft
  <2>8. ASSUME UNCHANGED <<turn, last, cards, sent_to, mixed, unanswered>>
        PROVE  CardsQueued'
    BY <2>8, CardsLeft
  <2>9. ASSUME NEW t \in Tabs, NEW k \in 1 .. MaxSessions, ServeDelete(t, k)
        PROVE  CardsQueued'
    BY <2>8, <2>9 DEF ServeDelete, seenVars
  <2>10. ASSUME NEW t \in Tabs, Restore(t) PROVE CardsQueued'
    BY <2>8, <2>10 DEF Restore, ServeGet, RestoreHistory, serverVars, seenVars
  <2>11. ASSUME NEW n \in Turns, Save(n) PROVE CardsQueued'
    BY <2>8, <2>11 DEF Save, pageVars, seenVars
  <2>12. CASE UNCHANGED vars
    BY <2>8, <2>12 DEF vars, pageVars, serverVars, seenVars
  <2>. QED BY <2>2, <2>3, <2>4, <2>6, <2>7, <2>9, <2>10, <2>11, <2>12, Steps
<1>3. TypeInv /\ CardsQueued => CardsPaired
  BY DEF CardsQueued, CardsPaired, Behind, CutOff
<1>. QED BY <1>1, <1>2, <1>3, PTL DEF Spec

-----------------------------------------------------------------------------
(* What is stored was said by the turn whose message it is, and each turn     *)
(* says its question first and its answer second, once.                       *)
Saved ==
    /\ IsInjective(stored)
    /\ \A i \in DOMAIN stored :
          /\ sent_to[stored[i][2]] = stored[i][1]
          /\ stored[i][3] = "user" => saves[stored[i][2]] > 0
          /\ stored[i][3] = "assistant" => saves[stored[i][2]] = 2

LEMMA StoredMessages ==
  ASSUME TypeInv
  PROVE  /\ DOMAIN stored = 1 .. Len(stored) /\ Len(stored) \in Nat
         /\ \A i \in DOMAIN stored :
               /\ stored[i] \in Message
               /\ stored[i][1] \in Sessions /\ stored[i][2] \in Turns
               /\ stored[i][3] \in {"user", "assistant"}
<1>1. stored \in Seq(Message)
  BY DEF TypeInv, Types, MessageType
<1>2. /\ DOMAIN stored = 1 .. Len(stored) /\ Len(stored) \in Nat
      /\ \A i \in DOMAIN stored : stored[i] \in Message
  BY <1>1, LenProperties, ElementOfSeq
<1>. QED BY <1>2 DEF Message

LEMMA SavedBySave ==
  ASSUME TypeInv, Saved, NEW n \in Turns, Save(n)
  PROVE  Saved'
<1>1. TurnType
  BY DEF TypeInv, Types
<1>2. /\ saves[n] < 2 /\ saves' = [saves EXCEPT ![n] = saves[n] + 1]
      /\ sent_to' = sent_to
  BY TypeSave DEF Save
<1>3. PICK role \in {"user", "assistant"} :
         /\ role = IF saves[n] = 0 THEN "user" ELSE "assistant"
         /\ <<sent_to[n], n, role>> \in Message
         /\ stored' = Append(stored, <<sent_to[n], n, role>>)
  BY TypeSave
<1>. DEFINE m == <<sent_to[n], n, role>>
            k == Len(stored)
<1>4. /\ k \in Nat /\ DOMAIN stored = 1 .. k /\ DOMAIN stored' = 1 .. k + 1
      /\ \A i \in 1 .. k : stored'[i] = stored[i]
      /\ stored'[k + 1] = m
  <2>1. stored \in Seq(Message)
    BY DEF TypeInv, Types, MessageType
  <2>2. /\ stored' \in Seq(Message) /\ Len(stored') = k + 1
        /\ \A i \in 1 .. k : stored'[i] = stored[i]
        /\ stored'[k + 1] = m
    BY <1>3, <2>1, AppendProperties
  <2>. QED BY <2>1, <2>2, LenProperties
<1>5. m[1] = sent_to[n] /\ m[2] = n /\ m[3] = role
  OBVIOUS
<1>. HIDE DEF m
<1>6. saves[n] \in 0 .. 2 /\ \A j \in Turns : saves[j] \in 0 .. 2
  BY <1>1 DEF TurnType
<1>7. \A j \in Turns : saves'[j] = IF j = n THEN saves[n] + 1 ELSE saves[j]
  BY <1>1, <1>2 DEF TurnType
<1>8. \A i \in 1 .. k : stored[i] # m
  BY <1>2, <1>3, <1>4, <1>5, <1>6 DEF Saved
<1>9. IsInjective(stored')
  <2>. SUFFICES ASSUME NEW i \in 1 .. k + 1, NEW j \in 1 .. k + 1, stored'[i] = stored'[j]
                PROVE  i = j
    BY <1>4 DEF IsInjective
  <2>1. (i = k + 1 \/ i \in 1 .. k) /\ (j = k + 1 \/ j \in 1 .. k)
    BY <1>4
  <2>2. CASE i \in 1 .. k /\ j \in 1 .. k
    BY <1>4, <2>2 DEF Saved, IsInjective
  <2>3. CASE i = k + 1 \/ j = k + 1
    BY <1>4, <1>8, <2>1, <2>3
  <2>. QED BY <2>1, <2>2, <2>3
<1>10. ASSUME NEW i \in DOMAIN stored'
       PROVE  /\ sent_to[stored'[i][2]] = stored'[i][1]
              /\ stored'[i][3] = "user" => saves'[stored'[i][2]] > 0
              /\ stored'[i][3] = "assistant" => saves'[stored'[i][2]] = 2
  <2>1. CASE i = k + 1
    BY <1>2, <1>3, <1>4, <1>5, <1>6, <1>7, <2>1
  <2>2. CASE i # k + 1
    <3>1. i \in 1 .. k
      BY <1>4, <2>2
    <3>2. stored'[i] = stored[i] /\ stored[i][2] \in Turns
      BY <1>4, <3>1, StoredMessages
    <3>3. /\ sent_to[stored[i][2]] = stored[i][1]
          /\ stored[i][3] = "user" => saves[stored[i][2]] > 0
          /\ stored[i][3] = "assistant" => saves[stored[i][2]] = 2
      BY <1>4, <3>1 DEF Saved
    <3>. QED BY <1>2, <1>6, <1>7, <3>2, <3>3
  <2>. QED BY <2>1, <2>2
<1>. QED BY <1>2, <1>9, <1>10 DEF Saved

LEMMA SavedStep ==
  ASSUME TypeInv, Saved, [Next]_vars
  PROVE  Saved'
<1>1. ASSUME NEW t \in Tabs, Send(t) PROVE Saved'
  <2>1. UNCHANGED <<stored, saves>>
    BY <1>1 DEF Send
  <2>2. PICK n \in Turns : /\ sent_to[n] = None
                           /\ sent_to' = [sent_to EXCEPT ![n] = sid[t]]
    BY <1>1 DEF Send
  <2>3. \A m \in Turns : m # n => sent_to'[m] = sent_to[m]
    BY <2>2 DEF TypeInv, Types, TurnType
  <2>4. \A i \in DOMAIN stored : stored[i][2] # n /\ stored[i][2] \in Turns
    BY <2>2, StoredMessages DEF Saved, Sessions, None
  <2>. QED BY <2>1, <2>3, <2>4 DEF Saved
<1>2. ASSUME NEW t \in Tabs, NEW k, ServeDelete(t, k) PROVE Saved'
  <2>1. /\ UNCHANGED <<sent_to, saves>>
        /\ Store!Clear(leaving[t][k].sid) \/ UNCHANGED stored
    BY <1>2 DEF ServeDelete
  <2>2. /\ \A i \in DOMAIN stored' : \E j \in DOMAIN stored : stored'[i] = stored[j]
        /\ IsInjective(stored) => IsInjective(stored')
    BY <2>1, ClearProperties DEF TypeInv, Types, MessageType
  <2>. QED BY <2>1, <2>2 DEF Saved
<1>3. ASSUME NEW n \in Turns, Save(n) PROVE Saved'
  BY <1>3, SavedBySave
<1>4. ASSUME UNCHANGED <<stored, sent_to, saves>> PROVE Saved'
  BY <1>4 DEF Saved
<1>5. ASSUME NEW t \in Tabs,
             Open(t) \/ Restore(t) \/ Answer(t) \/ EndOfStream(t) \/ NewSession(t)
      PROVE  Saved'
  BY <1>4, <1>5 DEF Open, Restore, ServeGet, RestoreHistory, Answer, Accept,
                    Refuse, EndOfStream, NewSession, serverVars
<1>6. ASSUME NEW t \in Tabs, Stream(t) PROVE Saved'
  BY <1>4, <1>6, StreamEffect DEF TypeInv, Types
<1>7. ASSUME NEW t \in Tabs, NEW k, Swap(t, k) PROVE Saved'
  BY <1>4, <1>7 DEF Swap, serverVars
<1>8. CASE UNCHANGED vars
  BY <1>4, <1>8 DEF vars, serverVars
<1>. QED BY <1>1, <1>2, <1>3, <1>5, <1>6, <1>7, <1>8, Steps

-----------------------------------------------------------------------------
(* A sequence with nothing twice has as many elements as places.              *)
LEMMA NothingTwice ==
  ASSUME NEW X, NEW seq \in Seq(X), IsInjective(seq)
  PROVE  Cardinality(ToSet(seq)) = Len(seq)
<1>. DEFINE n == Len(seq)
<1>1. n \in Nat /\ DOMAIN seq = 1 .. n /\ seq \in [1 .. n -> X]
  BY LenProperties
<1>2. seq \in [1 .. n -> ToSet(seq)]
  BY <1>1 DEF ToSet
<1>3. seq \in Surjection(1 .. n, ToSet(seq))
  <2>1. \A x \in ToSet(seq) : \E i \in 1 .. n : seq[i] = x
    BY <1>1 DEF ToSet
  <2>. QED BY <1>2, <2>1 DEF Surjection
<1>4. seq \in Injection(1 .. n, ToSet(seq))
  BY <1>2 DEF Injection
<1>5. IsFiniteSet(1 .. n) /\ Cardinality(1 .. n) = n
  BY <1>1, FS_Interval
<1>. QED BY <1>3, <1>4, <1>5, FS_Surjection

(* Messages of one session, none twice. *)
OfOne(s, messages) ==
    IsInjective(messages) /\ \A i \in DOMAIN messages : messages[i][1] = s

AllSent(messages) == \A i \in DOMAIN messages : sent_to[messages[i][2]] # None

(* HistoryOfSession of a page, with the reason: a turn in progress is of the  *)
(* page's session and has said nothing in the history yet, and a history that *)
(* is being loaded comes before the first message.                            *)
ShownAt(t) ==
    ~ crossed[t] =>
        /\ OfOne(sid[t], history[t]) /\ AllSent(history[t])
        /\ \A i \in DOMAIN history[t] : history[t][i][2] # turn[t]
        /\ turn[t] # 0 => restore[t].at = "none" /\ sent_to[turn[t]] = sid[t]
        /\ restore[t].at # "none" => history[t] = <<>> /\ restore[t].sid = sid[t]
        /\ restore[t].at = "answered" =>
              OfOne(sid[t], restore[t].body) /\ AllSent(restore[t].body)

Shown == \A t \in Tabs : ShownAt(t)

LEMMA MessageParts ==
  ASSUME NEW messages \in Seq(Message)
  PROVE  /\ DOMAIN messages = 1 .. Len(messages) /\ Len(messages) \in Nat
         /\ \A i \in DOMAIN messages :
               messages[i][1] \in Sessions /\ messages[i][2] \in Turns
<1>1. /\ DOMAIN messages = 1 .. Len(messages) /\ Len(messages) \in Nat
      /\ \A i \in DOMAIN messages : messages[i] \in Message
  BY LenProperties, ElementOfSeq
<1>. QED BY <1>1 DEF Message

(* A page that a step leaves as it is, but perhaps for its turn's end.        *)
LEMMA ShownLeft ==
  ASSUME TypeInv, NEW t \in Tabs, ShownAt(t),
         history'[t] = history[t], sid'[t] = sid[t], restore'[t] = restore[t],
         crossed'[t] = crossed[t], turn'[t] = turn[t] \/ turn'[t] = 0,
         \A n \in Turns : sent_to[n] # None => sent_to'[n] = sent_to[n]
  PROVE  ShownAt(t)'
<1>1. /\ history[t] \in Seq(Message) /\ restore[t].body \in Seq(Message)
      /\ turn[t] # 0 => turn[t] \in Turns /\ sent_to[turn[t]] # None
      /\ 0 \notin Turns
  BY DEF TypeInv, Types, MessageType, Get, TurnType, TurnsSent, Turns
<1>. SUFFICES ASSUME ~ crossed[t]
              PROVE  /\ OfOne(sid[t], history[t]) /\ AllSent(history[t])'
                     /\ \A i \in DOMAIN history[t] : history[t][i][2] # turn'[t]
                     /\ turn'[t] # 0 => restore[t].at = "none" /\ sent_to'[turn'[t]] = sid[t]
                     /\ restore[t].at # "none" => history[t] = <<>> /\ restore[t].sid = sid[t]
                     /\ restore[t].at = "answered" =>
                           OfOne(sid[t], restore[t].body) /\ AllSent(restore[t].body)'
  BY DEF ShownAt, AllSent
<1>2. AllSent(history[t]) => AllSent(history[t])'
  BY <1>1, MessageParts DEF AllSent
<1>3. AllSent(restore[t].body) => AllSent(restore[t].body)'
  BY <1>1, MessageParts DEF AllSent
<1>4. \A i \in DOMAIN history[t] : history[t][i][2] # turn'[t]
  BY <1>1, MessageParts DEF ShownAt
<1>5. turn'[t] # 0 => restore[t].at = "none" /\ sent_to'[turn'[t]] = sid[t]
  BY <1>1 DEF ShownAt
<1>. QED BY <1>2, <1>3, <1>4, <1>5 DEF ShownAt

(* A page that starts with nothing. *)
LEMMA ShownEmpty ==
  ASSUME NEW t \in Tabs, history'[t] = <<>>,
         ~ crossed'[t] => turn'[t] = 0 /\ restore'[t].at # "answered",
         ~ crossed'[t] /\ restore'[t].at # "none" => restore'[t].sid = sid'[t]
  PROVE  ShownAt(t)'
<1>1. DOMAIN <<>> = {}
  OBVIOUS
<1>2. OfOne(sid'[t], <<>>) /\ \A i \in DOMAIN <<>> : FALSE
  BY <1>1 DEF OfOne, IsInjective
<1>. QED BY <1>2 DEF ShownAt, AllSent

(* The history that is loaded is of the session it was asked for.             *)
LEMMA ShownRestore ==
  ASSUME TypeInv, Saved, Shown, NEW t \in Tabs, Restore(t)
  PROVE  ShownAt(t)'
<1>1. /\ UNCHANGED <<sid, turn, crossed, sent_to>>
      /\ restore[t].at # "none"
  BY DEF Restore, ServeGet, RestoreHistory, serverVars, seenVars
<1>2. /\ history \in [Tabs -> Seq(Message)] /\ restore \in [Tabs -> Get]
      /\ stored \in Seq(Message)
      /\ restore[t] \in Get /\ restore[t].body \in Seq(Message)
  BY DEF TypeInv, Types, MessageType, Get
<1>. SUFFICES ASSUME ~ crossed[t] PROVE ShownAt(t)'
  BY <1>1 DEF ShownAt
<1>3. /\ turn[t] = 0 /\ history[t] = <<>> /\ restore[t].sid = sid[t]
      /\ restore[t].at = "answered" =>
            OfOne(sid[t], restore[t].body) /\ AllSent(restore[t].body)
  BY <1>1 DEF Shown, ShownAt
<1>4. CASE ServeGet(t)
  <2>. DEFINE got == IF restore[t].tok = restore[t].sid
                         THEN Store!Load(restore[t].sid) ELSE <<>>
  <2>1. /\ restore' = [restore EXCEPT ![t].at = "answered", ![t].body = got]
        /\ history' = history
    BY <1>4 DEF ServeGet
  <2>2. OfOne(sid[t], got) /\ AllSent(got)
    <3>1. CASE got = <<>>
      <4>1. DOMAIN <<>> = {}
        OBVIOUS
      <4>. QED BY <3>1, <4>1 DEF OfOne, AllSent, IsInjective
    <3>2. CASE got = Store!Load(restore[t].sid)
      <4>1. /\ \A i \in DOMAIN Store!Load(restore[t].sid) : \E j \in DOMAIN stored :
                  /\ Store!Load(restore[t].sid)[i] = stored[j]
                  /\ stored[j][1] = restore[t].sid
            /\ IsInjective(Store!Load(restore[t].sid))
        BY <1>2, LoadProperties DEF Saved
      <4>2. \A j \in DOMAIN stored : sent_to[stored[j][2]] # None
        BY StoredMessages DEF Saved, Sessions, None
      <4>. HIDE DEF got
      <4>. QED BY <1>3, <3>2, <4>1, <4>2 DEF OfOne, AllSent
    <3>. QED BY <3>1, <3>2
  <2>. HIDE DEF got
  <2>3. restore'[t].body = got /\ restore'[t].sid = restore[t].sid
    BY <1>2, <2>1 DEF Get
  <2>4. /\ OfOne(sid[t], history[t]) /\ AllSent(history[t])
        /\ \A i \in DOMAIN history[t] : history[t][i][2] # turn[t]
    BY <1>1 DEF Shown, ShownAt
  <2>5. OfOne(sid'[t], history'[t]) /\ AllSent(history[t])'
    BY <1>1, <2>1, <2>4 DEF AllSent
  <2>6. OfOne(sid'[t], restore'[t].body) /\ AllSent(restore[t].body)'
    BY <1>1, <2>2, <2>3 DEF AllSent
  <2>. QED BY <1>1, <1>3, <2>1, <2>3, <2>4, <2>5, <2>6 DEF ShownAt
<1>5. CASE RestoreHistory(t)
  <2>1. /\ restore' = [restore EXCEPT ![t] = NoGet]
        /\ \/ /\ restore[t].at = "answered"
              /\ history' = [history EXCEPT ![t] = history[t] \o restore[t].body]
           \/ history' = history
    BY <1>5 DEF RestoreHistory
  <2>2. restore'[t].at = "none"
    BY <1>2, <2>1 DEF NoGet
  <2>3. CASE history' = history
    BY <1>1, <1>3, <2>2, <2>3, ShownEmpty
  <2>4. CASE /\ restore[t].at = "answered"
             /\ history' = [history EXCEPT ![t] = history[t] \o restore[t].body]
    <3>1. history'[t] = restore[t].body
      BY <1>2, <1>3, <2>4, ConcatEmptySeq
    <3>2. \A i \in DOMAIN restore[t].body : restore[t].body[i][2] # 0
      BY <1>2, MessageParts DEF Turns
    <3>. QED BY <1>1, <1>3, <2>2, <2>4, <3>1, <3>2 DEF ShownAt, AllSent
  <2>. QED BY <2>1, <2>3, <2>4
<1>. QED BY <1>4, <1>5 DEF Restore

(* A message is sent in the page's session, after all the history has.        *)
LEMMA ShownSend ==
  ASSUME TypeInv, Shown, NEW t \in Tabs, Send(t)
  PROVE  Shown'
<1>1. PICK n \in Turns :
         /\ sent_to[n] = None
         /\ turn' = [turn EXCEPT ![t] = n]
         /\ sent_to' = [sent_to EXCEPT ![n] = sid[t]]
  BY DEF Send
<1>2. /\ UNCHANGED <<sid, history, restore>>
      /\ crossed' = [crossed EXCEPT ![t] = @ \/ restore[t].at # "none"]
      /\ loaded[t]
  BY DEF Send
<1>3. /\ \A u \in Tabs : turn'[u] = IF u = t THEN n ELSE turn[u]
      /\ \A m \in Turns : sent_to'[m] = IF m = n THEN sid[t] ELSE sent_to[m]
      /\ \A u \in Tabs : u # t => crossed'[u] = crossed[u]
      /\ crossed'[t] = (crossed[t] \/ restore[t].at # "none")
  BY <1>1, <1>2 DEF TypeInv, Types, TurnType, CountType
<1>4. \A m \in Turns : sent_to[m] # None => sent_to'[m] = sent_to[m]
  BY <1>1, <1>3
<1>5. ASSUME NEW u \in Tabs, u # t PROVE ShownAt(u)'
  BY <1>2, <1>3, <1>4, <1>5, ShownLeft DEF Shown
<1>6. ShownAt(t)'
  <2>. SUFFICES ASSUME ~ crossed[t], restore[t].at = "none"
                PROVE  /\ OfOne(sid[t], history[t]) /\ AllSent(history[t])'
                       /\ \A i \in DOMAIN history[t] : history[t][i][2] # n
                       /\ sent_to'[n] = sid[t]
    BY <1>2, <1>3 DEF ShownAt, AllSent
  <2>1. history[t] \in Seq(Message)
    BY DEF TypeInv, Types, MessageType
  <2>2. OfOne(sid[t], history[t]) /\ AllSent(history[t])
    BY DEF Shown, ShownAt
  <2>3. \A i \in DOMAIN history[t] : history[t][i][2] # n
    BY <1>1, <2>2 DEF AllSent
  <2>4. AllSent(history[t])'
    BY <1>2, <1>4, <2>1, <2>2, MessageParts DEF AllSent
  <2>. QED BY <1>3, <2>2, <2>3, <2>4
<1>. QED BY <1>5, <1>6 DEF Shown

(* The turn's question and answer come after what the history has of others.  *)
LEMMA ShownFinish ==
  ASSUME TypeInv, NEW t \in Tabs, ShownAt(t), turn[t] # 0, Finish(t),
         UNCHANGED <<sid, restore, crossed, sent_to>>
  PROVE  ShownAt(t)'
<1>1. history[t] \in Seq(Message) /\ TurnType /\ TurnsSent
  BY DEF TypeInv, Types, MessageType
<1>2. /\ Exchange(t) \in Seq(Message) /\ IsInjective(Exchange(t))
      /\ \A i \in DOMAIN Exchange(t) :
            Exchange(t)[i][1] = sent_to[turn[t]] /\ Exchange(t)[i][2] = turn[t]
  BY <1>1, ExchangeProperties
<1>3. /\ turn'[t] = 0 /\ history'[t] = history[t] \o Exchange(t)
  <2>1. turn' = [turn EXCEPT ![t] = 0]
    BY DEF Finish, Leave
  <2>. QED BY <1>1, <2>1, FinishEffect DEF TurnType, TypeInv, Types, MessageType
<1>4. turn[t] \in Turns /\ sent_to[turn[t]] # None
  BY <1>1 DEF TurnType, TurnsSent
<1>. DEFINE h == history[t]
            x == Exchange(t)
            longer == h \o x
            n == Len(h)
            k == Len(x)
<1>5. /\ n \in Nat /\ DOMAIN h = 1 .. n /\ k \in Nat /\ DOMAIN x = 1 .. k
      /\ longer \in Seq(Message) /\ DOMAIN longer = 1 .. n + k
      /\ \A i \in 1 .. n + k : longer[i] = IF i <= n THEN h[i] ELSE x[i - n]
  <2>1. /\ longer \in Seq(Message) /\ Len(longer) = n + k
        /\ \A i \in 1 .. n + k : longer[i] = IF i <= n THEN h[i] ELSE x[i - n]
    BY <1>1, <1>2, ConcatProperties
  <2>. QED BY <1>1, <1>2, <2>1, LenProperties
<1>. SUFFICES ASSUME ~ crossed[t] PROVE ShownAt(t)'
  BY DEF ShownAt
<1>6. /\ OfOne(sid[t], h) /\ AllSent(h)
      /\ \A i \in 1 .. n : h[i][2] # turn[t]
      /\ restore[t].at = "none" /\ sent_to[turn[t]] = sid[t]
  BY <1>5 DEF ShownAt
<1>. HIDE DEF h, x, longer, n, k
<1>7. ASSUME NEW i \in 1 .. n + k
      PROVE  \/ i \in 1 .. n /\ longer[i] = h[i]
             \/ i > n /\ i - n \in 1 .. k /\ longer[i] = x[i - n]
  BY <1>5
<1>8. \A i \in 1 .. k : x[i][1] = sid[t] /\ x[i][2] = turn[t]
  BY <1>2, <1>5, <1>6 DEF x
<1>9. \A i \in 1 .. n : h[i][1] = sid[t] /\ sent_to[h[i][2]] # None
  BY <1>5, <1>6 DEF OfOne, AllSent
<1>10. IsInjective(longer)
  <2>. SUFFICES ASSUME NEW i \in 1 .. n + k, NEW j \in 1 .. n + k, longer[i] = longer[j]
                PROVE  i = j
    BY <1>5 DEF IsInjective
  <2>1. CASE i \in 1 .. n /\ longer[i] = h[i] /\ j \in 1 .. n /\ longer[j] = h[j]
    BY <1>5, <1>6, <2>1 DEF OfOne, IsInjective
  <2>2. CASE /\ i > n /\ i - n \in 1 .. k /\ longer[i] = x[i - n]
             /\ j > n /\ j - n \in 1 .. k /\ longer[j] = x[j - n]
    <3>1. IsInjective(x)
      BY <1>2 DEF x
    <3>2. i - n = j - n
      BY <1>5, <2>2, <3>1 DEF IsInjective
    <3>. QED BY <1>5, <3>2
  <2>3. CASE i \in 1 .. n /\ longer[i] = h[i] /\ j - n \in 1 .. k /\ longer[j] = x[j - n]
    BY <1>6, <1>8, <2>3
  <2>4. CASE j \in 1 .. n /\ longer[j] = h[j] /\ i - n \in 1 .. k /\ longer[i] = x[i - n]
    BY <1>6, <1>8, <2>4
  <2>. QED BY <1>7, <2>1, <2>2, <2>3, <2>4
<1>11. /\ \A i \in 1 .. n + k : longer[i][1] = sid[t] /\ sent_to[longer[i][2]] # None
       /\ \A i \in 1 .. n + k : longer[i][2] # 0
  <2>1. \A i \in 1 .. n + k : longer[i][1] = sid[t] /\ sent_to[longer[i][2]] # None
    BY <1>4, <1>7, <1>8, <1>9
  <2>2. \A i \in 1 .. n + k : longer[i][2] # 0
    BY <1>5, MessageParts DEF Turns
  <2>. QED BY <2>1, <2>2
<1>12. history'[t] = longer
  BY <1>3 DEF longer, h, x
<1>. QED BY <1>3, <1>5, <1>6, <1>10, <1>11, <1>12 DEF ShownAt, OfOne, AllSent

LEMMA ShownNewSession ==
  ASSUME TypeInv, Shown, NEW t \in Tabs, NewSession(t)
  PROVE  ShownAt(t)'
<1>1. UNCHANGED <<sid, restore, crossed, sent_to>> /\ ShownAt(t)
  BY DEF NewSession, seenVars, Shown
<1>2. \/ UNCHANGED <<turn, history>>
      \/ turn[t] # 0 /\ Finish(t)
      \/ turn' = [turn EXCEPT ![t] = 0] /\ UNCHANGED history
  BY DEF NewSession, Streaming, Leave
<1>3. CASE turn[t] # 0 /\ Finish(t)
  BY <1>1, <1>3, ShownFinish
<1>4. CASE UNCHANGED <<turn, history>>
  BY <1>1, <1>4, ShownLeft
<1>5. CASE turn' = [turn EXCEPT ![t] = 0] /\ UNCHANGED history
  <2>1. turn'[t] = 0
    BY <1>5 DEF TypeInv, Types, TurnType
  <2>. QED BY <1>1, <1>5, <2>1, ShownLeft
<1>. QED BY <1>2, <1>3, <1>4, <1>5

(* Other pages: what a step of one tab does not touch. *)
LEMMA ShownElsewhere ==
  ASSUME TypeInv, Shown, NEW t \in Tabs,
         \/ Open(t) \/ Restore(t) \/ Answer(t) \/ Stream(t) \/ EndOfStream(t)
         \/ NewSession(t) \/ (\E k \in 1 .. MaxSessions : Swap(t, k)),
         NEW u \in Tabs, u # t
  PROVE  ShownAt(u)'
<1>1. PageType /\ TurnType /\ MessageType /\ CountType
  BY DEF TypeInv, Types
<1>2. sent_to' = sent_to
  <2>1. CASE Stream(t)
    BY <1>1, <2>1, StreamEffect
  <2>. QED BY <2>1 DEF Open, Restore, ServeGet, RestoreHistory, Answer, Accept, Refuse,
                       EndOfStream, NewSession, Swap, serverVars
<1>3. sid'[u] = sid[u] /\ turn'[u] = turn[u] /\ crossed'[u] = crossed[u]
  <2>1. CASE Stream(t)
    BY <1>1, <2>1, StreamEffect
  <2>2. CASE Open(t)
    BY <1>1, <2>2 DEF Open, PageType, TurnType, CountType
  <2>3. CASE Restore(t) \/ Answer(t)
    BY <1>1, <2>3 DEF Restore, ServeGet, RestoreHistory, Answer, Accept, Refuse,
                      Leave, seenVars, TurnType
  <2>4. CASE EndOfStream(t) \/ NewSession(t)
    BY <1>1, <2>4 DEF EndOfStream, NewSession, Finish, Leave, seenVars, TurnType
  <2>5. ASSUME NEW k, Swap(t, k)
        PROVE  sid'[u] = sid[u] /\ turn'[u] = turn[u] /\ crossed'[u] = crossed[u]
    BY <1>1, <2>5 DEF Swap, PageType, CountType
  <2>. QED BY <2>1, <2>2, <2>3, <2>4, <2>5
<1>4. history'[u] = history[u] /\ restore'[u] = restore[u]
  <2>1. CASE Stream(t)
    BY <1>1, <2>1, StreamEffect
  <2>2. CASE Open(t)
    BY <1>1, <2>2 DEF Open, MessageType
  <2>3. CASE Restore(t) \/ Answer(t)
    BY <1>1, <2>3 DEF Restore, ServeGet, RestoreHistory, Answer, Accept, Refuse,
                      MessageType
  <2>4. CASE EndOfStream(t) \/ NewSession(t)
    BY <1>1, <2>4 DEF EndOfStream, NewSession, Finish, MessageType
  <2>5. ASSUME NEW k, Swap(t, k)
        PROVE  history'[u] = history[u] /\ restore'[u] = restore[u]
    BY <1>1, <2>5 DEF Swap, MessageType
  <2>. QED BY <2>1, <2>2, <2>3, <2>4, <2>5
<1>. QED BY <1>2, <1>3, <1>4, ShownLeft DEF Shown

LEMMA ShownStep ==
  ASSUME TypeInv, Saved, Shown, [Next]_vars
  PROVE  Shown'
<1>1. PageType /\ TurnType /\ MessageType /\ CountType
  BY DEF TypeInv, Types
<1>2. ASSUME UNCHANGED <<sid, history, restore, crossed, sent_to>>,
             NEW t \in Tabs, turn' = turn \/ turn' = [turn EXCEPT ![t] = 0]
      PROVE  Shown'
  <2>1. \A u \in Tabs : turn'[u] = turn[u] \/ turn'[u] = 0
    BY <1>1, <1>2 DEF TurnType
  <2>. QED BY <1>2, <2>1, ShownLeft DEF Shown
<1>3. ASSUME NEW t \in Tabs, Open(t) PROVE ShownAt(t)'
  <2>1. /\ history'[t] = <<>> /\ turn'[t] = 0 /\ sid'[t] = local'.id
        /\ restore'[t] = IF local.token = None THEN NoGet
                         ELSE [NoGet EXCEPT !.at = "asked", !.sid = local'.id,
                                            !.tok = local.token]
    BY <1>1, <1>3 DEF Open, PageType, TurnType, MessageType
  <2>2. /\ restore'[t].at # "answered"
        /\ restore'[t].at # "none" => restore'[t].sid = sid'[t]
    BY <2>1 DEF NoGet
  <2>. QED BY <2>1, <2>2, ShownEmpty
<1>4. ASSUME NEW t \in Tabs, NEW k, Swap(t, k) PROVE ShownAt(t)'
  <2>1. /\ history'[t] = <<>> /\ turn'[t] = turn[t] /\ restore'[t] = restore[t]
        /\ crossed'[t] = (turn[t] # 0 \/ restore[t].at # "none")
    BY <1>1, <1>4 DEF Swap, MessageType, CountType
  <2>. QED BY <2>1, ShownEmpty
<1>5. ASSUME NEW t \in Tabs, EndOfStream(t) PROVE ShownAt(t)'
  BY <1>5, ShownFinish DEF EndOfStream, Streaming, seenVars, Shown
<1>6. ASSUME NEW t \in Tabs, Answer(t) \/ Stream(t) PROVE Shown'
  <2>1. CASE Answer(t)
    BY <1>2, <2>1 DEF Answer, Accept, Refuse, Leave, seenVars
  <2>2. CASE Stream(t)
    BY <1>1, <1>2, <2>2, StreamEffect
  <2>. QED BY <1>6, <2>1, <2>2
<1>7. ASSUME NEW t \in Tabs,
             Open(t) \/ Restore(t) \/ EndOfStream(t) \/ NewSession(t)
      PROVE  Shown'
  <2>1. ShownAt(t)'
    BY <1>3, <1>5, <1>7, ShownRestore, ShownNewSession
  <2>2. \A u \in Tabs : u # t => ShownAt(u)'
    BY <1>7, ShownElsewhere
  <2>. QED BY <2>1, <2>2 DEF Shown
<1>8. ASSUME NEW t \in Tabs, NEW k \in 1 .. MaxSessions, Swap(t, k) PROVE Shown'
  <2>1. \A u \in Tabs : u # t => ShownAt(u)'
    BY <1>8, ShownElsewhere
  <2>. QED BY <1>4, <1>8, <2>1 DEF Shown
<1>9. ASSUME UNCHANGED <<sid, history, restore, crossed, sent_to, turn>> PROVE Shown'
  BY <1>9, ShownLeft DEF Shown
<1>10. ASSUME NEW t \in Tabs, NEW k, ServeDelete(t, k) PROVE Shown'
  BY <1>9, <1>10 DEF ServeDelete, seenVars
<1>11. ASSUME NEW n \in Turns, Save(n) PROVE Shown'
  BY <1>9, <1>11 DEF Save, pageVars, seenVars
<1>12. CASE UNCHANGED vars
  BY <1>9, <1>12 DEF vars, pageVars, serverVars, seenVars
<1>. QED BY <1>6, <1>7, <1>8, <1>10, <1>11, <1>12, ShownSend, Steps

(* The history a page shows and sends is of the page's own session, and has   *)
(* no message twice, unless a request was open when the session was swapped   *)
(* or a message was sent while the history was being loaded.                  *)
THEOREM HistoryOfSessionHolds == Spec => []HistoryOfSession
<1>1. Init => TypeInv /\ Saved /\ Shown
  <2>1. ASSUME Init PROVE Saved /\ Shown
    <3>1. DOMAIN <<>> = {}
      OBVIOUS
    <3>2. Saved
      BY <2>1, <3>1 DEF Init, Saved, IsInjective
    <3>3. \A t \in Tabs : history[t] = <<>> /\ turn[t] = 0 /\ restore[t].at = "none"
      BY <2>1 DEF Init, NoGet
    <3>4. Shown
      BY <3>1, <3>3 DEF Shown, ShownAt, OfOne, AllSent, IsInjective
    <3>. QED BY <3>2, <3>4
  <2>. QED BY <2>1, TypeAtFirst
<1>2. TypeInv /\ Saved /\ Shown /\ [Next]_vars => TypeInv' /\ Saved' /\ Shown'
  BY TypeInductive, SavedStep, ShownStep
<1>3. TypeInv /\ Shown => HistoryOfSession
  <2>. SUFFICES ASSUME TypeInv, Shown, NEW t \in Tabs, ~ crossed[t]
                PROVE  /\ \A m \in ToSet(history[t]) : m[1] = sid[t]
                       /\ Cardinality(ToSet(history[t])) = Len(history[t])
    BY DEF HistoryOfSession
  <2>1. history[t] \in Seq(Message) /\ OfOne(sid[t], history[t])
    BY DEF TypeInv, Types, MessageType, Shown, ShownAt
  <2>. QED BY <2>1, NothingTwice DEF OfOne, ToSet
<1>. QED BY <1>1, <1>2, <1>3, PTL DEF Spec
=============================================================================
