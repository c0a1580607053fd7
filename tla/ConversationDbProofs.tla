------------------------ MODULE ConversationDbProofs ------------------------
(* Proofs about ConversationDb, for any number of actors, of calls at a time, *)
(* of refusals and of crashes.                                                *)
EXTENDS ConversationDb, SequenceLemmas

(* Who calls what; a call that is under way is a call of the table.           *)
CallsOf(a) ==
    IF a \in Turns THEN Audits \cup Appends \cup {"load", "over"}
    ELSE IF a \in Deletes THEN {"clear", "over"}
    ELSE {"prune", "audit_prune", "asleep"}

TypeInv ==
    /\ DbTypeOK
    /\ \A a \in Actors :
          /\ call[a] \in CallsOf(a)
          /\ stage[a] # "idle" => call[a] \notin {"asleep", "over"}

-----------------------------------------------------------------------------
(* One call at a time.                                                        *)

Alone == \A a, b \in Actors : stage[a] # "idle" /\ stage[b] # "idle" => a = b

(* What the statement of a call made of the committed table.                  *)
Executed(a) ==
    /\ call[a] \in Appends =>
          /\ rows = Append(durable, <<a, call[a]>>)
          /\ touched[a] = {<<a, call[a]>>}
    /\ call[a] \in Removals =>
          /\ touched[a] \subseteq ToSet(durable)
          /\ rows = Without(durable, touched[a])
          /\ kept \cap touched[a] = {}
    /\ call[a] \notin Appends \cup Removals => rows = durable

(* The transaction is the call's own.                                         *)
OwnTransaction ==
    \A a \in Actors :
       /\ stage[a] \in {"check", "begin"} => ~ txn /\ call[a] \in Writes
       /\ stage[a] \in {"execute", "leave", "commit"} => (txn <=> call[a] \in Writes)
       /\ stage[a] = "execute" => rows = durable
       /\ stage[a] \in {"leave", "commit"} => Executed(a)

(* The rows a turn has yet to append have never been there; the question of   *)
(* an answer to append has.                                                   *)
Ahead(a) == IF call[a] \in {"load", "user"} \cup Audits THEN Appends
            ELSE IF call[a] = "assistant" THEN {"assistant"} ELSE {}

Unwritten == \A a \in Turns : \A op \in Ahead(a) :
                <<a, op>> \notin gone \cup ToSet(durable)

Asked == \A a \in Turns : call[a] = "assistant" =>
            <<a, "user">> \in gone \cup ToSet(durable)

Answered ==
    \A i \in DOMAIN durable :
       durable[i][2] = "assistant" =>
          \/ <<durable[i][1], "user">> \in gone
          \/ \E j \in 1 .. i - 1 : durable[j] = <<durable[i][1], "user">>

Tables ==
    /\ kept \subseteq ToSet(durable)
    /\ gone \cap ToSet(durable) = {}
    /\ Unwritten /\ Asked /\ Answered

OneByOne == overlap = 1 => Alone /\ OwnTransaction /\ Tables

(* The part of the types that the stage of a call and the transaction need.   *)
StageType == txn \in BOOLEAN /\ stage \in [Actors -> Stages]

(* Where a call will look at the transaction before it returns: it commits,   *)
(* rolls back, or sees that another thread did.                               *)
Looking == {"execute", "leave", "commit", "raising", "rollback"}

(* An open transaction has a call that will look at it; without one the       *)
(* connection sees what is committed.                                         *)
Pending ==
    /\ StageType
    /\ txn => \E a \in Actors : stage[a] \in Looking
    /\ ~ txn => rows = durable

-----------------------------------------------------------------------------
(* A call that goes on to a stage where it still looks leaves somebody        *)
(* looking, whoever it was before.                                            *)
LEMMA StillLooking ==
  ASSUME StageType, NEW a \in Actors, NEW s \in Looking, To(a, s)
  PROVE  /\ stage' \in [Actors -> Stages]
         /\ \E b \in Actors : stage'[b] \in Looking
<1>1. stage' = [stage EXCEPT ![a] = s] /\ s \in Stages
  BY DEF To, Looking, Stages
<1>2. stage'[a] \in Looking
  BY <1>1 DEF StageType
<1>. QED BY <1>1, <1>2 DEF StageType

(* A call that was not looking takes nobody's look away.                      *)
LEMMA OthersLooking ==
  ASSUME StageType, NEW a \in Actors, NEW s \in Stages, To(a, s),
         stage[a] \notin Looking,
         NEW b \in Actors, stage[b] \in Looking
  PROVE  stage'[b] \in Looking
BY DEF To, StageType

LEMMA NothingIsPendingAtFirst == Init => Pending
BY DEF Init, Pending, StageType, Stages

(* One step of a call. *)
LEMMA ProceedPending ==
  ASSUME Pending, NEW a \in Actors, Proceed(a)
  PROVE  Pending'
<1>. USE DEF Pending, StageType
<1>1. CASE Check(a)
  <2>1. CASE txn
    <3>1. To(a, "execute") /\ UNCHANGED <<txn, rows, durable>>
      BY <1>1, <2>1 DEF Check
    <3>. QED BY <3>1, StillLooking DEF Looking
  <2>2. CASE ~ txn
    <3>1. To(a, "begin") /\ UNCHANGED <<txn, rows, durable>>
      BY <1>1, <2>2 DEF Check
    <3>2. stage' \in [Actors -> Stages]
      BY <3>1 DEF To, Stages
    <3>. QED BY <2>2, <3>1, <3>2
  <2>. QED BY <2>1, <2>2
<1>2. CASE Begin(a)
  <2>1. To(a, IF txn THEN "raising" ELSE "execute") /\ txn' = TRUE
    BY <1>2 DEF Begin
  <2>. QED BY <2>1, StillLooking DEF Looking
<1>3. CASE Execute(a)
  <2>1. To(a, "leave") /\ txn' = txn /\ (~ txn => durable' = rows')
    BY <1>3 DEF Execute
  <2>. QED BY <2>1, StillLooking DEF Looking
<1>4. CASE Leave(a)
  <2>1. CASE txn
    <3>1. To(a, "commit") /\ UNCHANGED <<txn, rows, durable>>
      BY <1>4, <2>1 DEF Leave
    <3>. QED BY <3>1, StillLooking DEF Looking
  <2>2. CASE ~ txn
    <3>1. To(a, "idle") /\ UNCHANGED <<txn, rows, durable>>
      BY <1>4, <2>2 DEF Leave, Return
    <3>2. stage' \in [Actors -> Stages]
      BY <3>1 DEF To, Stages
    <3>. QED BY <2>2, <3>1, <3>2
  <2>. QED BY <2>1, <2>2
<1>5. CASE CommitMade(a)
  <2>1. durable' = rows /\ rows' = rows /\ txn' = FALSE /\ To(a, "idle")
    BY <1>5 DEF CommitMade, Return
  <2>2. stage' \in [Actors -> Stages]
    BY <2>1 DEF To, Stages
  <2>. QED BY <2>1, <2>2
<1>6. CASE CommitFails(a)
  <2>1. To(a, "raising") /\ UNCHANGED <<txn, rows, durable>>
    BY <1>6 DEF CommitFails
  <2>. QED BY <2>1, StillLooking DEF Looking
<1>7. CASE Raising(a)
  <2>1. CASE txn
    <3>1. To(a, "rollback") /\ UNCHANGED <<txn, rows, durable>>
      BY <1>7, <2>1 DEF Raising
    <3>. QED BY <3>1, StillLooking DEF Looking
  <2>2. CASE ~ txn
    <3>1. To(a, "idle") /\ UNCHANGED <<txn, rows, durable>>
      BY <1>7, <2>2 DEF Raising, Raise
    <3>2. stage' \in [Actors -> Stages]
      BY <3>1 DEF To, Stages
    <3>. QED BY <2>2, <3>1, <3>2
  <2>. QED BY <2>1, <2>2
<1>8. CASE Rollback(a)
  <2>1. rows' = durable /\ durable' = durable /\ txn' = FALSE /\ To(a, "idle")
    BY <1>8 DEF Rollback, Raise
  <2>2. stage' \in [Actors -> Stages]
    BY <2>1 DEF To, Stages
  <2>. QED BY <2>1, <2>2
<1>. QED BY <1>1, <1>2, <1>3, <1>4, <1>5, <1>6, <1>7, <1>8 DEF Proceed

(* Whatever happens, somebody goes on looking as long as there is something   *)
(* to look at.                                                                *)
LEMMA PendingInductive == Pending /\ [Next]_vars => Pending'
<1>. SUFFICES ASSUME Pending, [Next]_vars PROVE Pending'
  OBVIOUS
<1>. USE DEF Pending, StageType
<1>1. ASSUME NEW a \in Actors, Start(a) PROVE Pending'
  <2>. DEFINE s == IF call[a] \in Writes THEN "check" ELSE "execute"
  <2>1. /\ stage[a] = "idle" /\ To(a, s) /\ s \in Stages
        /\ UNCHANGED <<txn, rows, durable>>
    BY <1>1 DEF Start, At, Stages
  <2>2. stage' \in [Actors -> Stages]
    BY <2>1 DEF To
  <2>3. ASSUME txn PROVE \E b \in Actors : stage'[b] \in Looking
    <3>1. PICK b \in Actors : stage[b] \in Looking
      BY <2>3
    <3>2. stage'[b] \in Looking
      BY <2>1, <3>1, OthersLooking DEF Looking
    <3>. QED BY <3>2
  <2>. QED BY <2>1, <2>2, <2>3
<1>2. ASSUME NEW a \in Actors, Proceed(a) PROVE Pending'
  BY <1>2, ProceedPending
<1>3. ASSUME NEW a \in Actors, Refuse(a) PROVE Pending'
  <2>1. To(a, "raising") /\ UNCHANGED <<txn, rows, durable>>
    BY <1>3 DEF Refuse
  <2>. QED BY <2>1, StillLooking DEF Looking
<1>4. CASE Wake
  BY <1>4 DEF Wake
<1>5. CASE Crash
  BY <1>5 DEF Crash, Stages
<1>6. CASE UNCHANGED vars
  BY <1>6 DEF vars
<1>. QED BY <1>1, <1>2, <1>3, <1>4, <1>5, <1>6 DEF Next

(* A connection that nobody uses has no transaction open and nothing that is  *)
(* not committed, however many threads met in it.                             *)
THEOREM NothingPendingHolds == Spec => []NothingPending
<1>1. Pending => NothingPending
  BY DEF Pending, NothingPending, InCall, Looking
<1>. QED BY <1>1, NothingIsPendingAtFirst, PendingInductive, PTL DEF Spec

-----------------------------------------------------------------------------
(* Types. *)
LEMMA KindsOfActors ==
  /\ Pruner \in Actors /\ Pruner \notin Turns /\ Pruner \notin Deletes
  /\ Turns \subseteq Actors /\ Deletes \subseteq Actors
  /\ Past \notin Turns
  /\ \A a \in Deletes : a \notin Turns
BY ConversationDbAssumption DEF Actors

(* What follows a call is a call of the same actor.                           *)
LEMMA NextCalls ==
  ASSUME NEW a \in Actors, call[a] \in CallsOf(a),
         call[a] \notin {"asleep", "over"}
  PROVE  /\ CallsAfter(call[a]) \subseteq CallsOf(a)
         /\ CallsAfterRaise(call[a]) \subseteq CallsOf(a)
<1>. USE DEF Audits, Appends
<1>1. CASE a \in Turns
  <2>1. call[a] \in {"load", "audit", "audit_error", "user", "assistant"}
    BY <1>1 DEF CallsOf
  <2>2. CallsAfter(call[a]) \subseteq {"audit", "audit_error", "user", "assistant", "over"}
    BY <2>1 DEF CallsAfter
  <2>3. CallsAfterRaise(call[a]) \subseteq {"audit_error", "over"}
    BY <2>1 DEF CallsAfterRaise
  <2>. QED BY <1>1, <2>2, <2>3 DEF CallsOf
<1>2. CASE a \in Deletes
  <2>1. call[a] = "clear" /\ a \notin Turns
    BY <1>2, KindsOfActors DEF CallsOf
  <2>2. CallsAfter(call[a]) = {"over"} /\ CallsAfterRaise(call[a]) = {"over"}
    BY <2>1 DEF CallsAfter, CallsAfterRaise
  <2>. QED BY <1>2, <2>1, <2>2 DEF CallsOf
<1>3. CASE a \notin Turns /\ a \notin Deletes
  <2>1. call[a] \in {"prune", "audit_prune"}
    BY <1>3 DEF CallsOf
  <2>2. CallsAfter(call[a]) \subseteq {"audit_prune", "asleep"}
          /\ CallsAfterRaise(call[a]) = {"asleep"}
    BY <2>1 DEF CallsAfter, CallsAfterRaise
  <2>. QED BY <1>3, <2>2 DEF CallsOf
<1>. QED BY <1>1, <1>2, <1>3

LEMMA CallsAreCalls ==
  ASSUME NEW a \in Actors
  PROVE  CallsOf(a) \subseteq Writes \cup {"load", "asleep", "over"}
BY DEF CallsOf, Writes, Audits, Appends, Removals

LEMMA RowsOfTurns ==
  ASSUME NEW a \in Actors, NEW op \in Appends, op \in CallsOf(a)
  PROVE  a \in Turns /\ <<a, op>> \in Row
<1>1. a \in Turns
  BY KindsOfActors DEF CallsOf, Appends
<1>2. op \in {"user", "assistant"} /\ a \in Turns \cup {Past}
  BY <1>1 DEF Appends
<1>. QED BY <1>1, <1>2 DEF Row

LEMMA TypeAtFirst == Init => TypeInv
<1>. SUFFICES ASSUME Init PROVE TypeInv
  OBVIOUS
<1>1. \A a \in Actors : FirstCalls(a) \subseteq CallsOf(a) \ {"asleep", "over"}
  <2>1. ASSUME NEW a \in Actors
        PROVE  FirstCalls(a) \subseteq CallsOf(a) \ {"asleep", "over"}
    <3>1. CASE a \in Turns
      <4>1. a \notin Deletes /\ a # Pruner
        BY <3>1, KindsOfActors
      <4>. QED BY <3>1, <4>1 DEF FirstCalls, CallsOf, Audits
    <3>2. CASE a \in Deletes
      <4>1. a \notin Turns /\ a # Pruner
        BY <3>2, KindsOfActors
      <4>. QED BY <3>2, <4>1 DEF FirstCalls, CallsOf
    <3>3. CASE a = Pruner
      BY <3>3, KindsOfActors DEF FirstCalls, CallsOf
    <3>. QED BY <3>1, <3>2, <3>3 DEF Actors
  <2>. QED BY <2>1
<1>2. rows \in Seq(Row)
  <2>1. <<>> \in Seq(Row)
    OBVIOUS
  <2>2. <<Past, "user">> \in Row /\ <<Past, "assistant">> \in Row
    BY DEF Row
  <2>3. << <<Past, "user">>, <<Past, "assistant">> >> \in Seq(Row)
    BY <2>2
  <2>. QED BY <2>1, <2>3 DEF Init
<1>3. call \in [Actors -> Writes \cup {"load", "asleep", "over"}]
  BY DEF Init, Writes, Audits, Removals
<1>4. failures \in 0 .. MaxFailures /\ crashes \in 0 .. MaxCrashes
  BY ConversationDbAssumption DEF Init
<1>. QED BY <1>1, <1>2, <1>3, <1>4 DEF Init, TypeInv, DbTypeOK, Stages

(* What a statement makes of the rows. *)
LEMMA ExecuteTypes ==
  ASSUME TypeInv, NEW a \in Actors, Execute(a)
  PROVE  /\ rows' \in Seq(Row)
         /\ touched' \in [Actors -> SUBSET Row]
         /\ kept' \subseteq Row
<1>. DEFINE removed == RemovedBy(a)
            added == IF call[a] \in Appends THEN << <<a, call[a]>> >> ELSE <<>>
<1>1. /\ rows' = Without(rows, removed) \o added
      /\ touched' = [touched EXCEPT ![a] = removed \cup ToSet(added)]
      /\ kept' = kept \ removed
  BY DEF Execute
<1>2. rows \in Seq(Row) /\ ToSet(rows) \subseteq Row
  BY ElementOfSeq, LenProperties DEF TypeInv, DbTypeOK, ToSet
<1>3. removed \subseteq Row
  BY <1>2 DEF RemovedBy
<1>4. Without(rows, removed) \in Seq(Row)
  BY <1>2, WithoutProperties
<1>5. added \in Seq(Row) /\ ToSet(added) \subseteq Row
  <2>1. CASE call[a] \in Appends
    <3>1. <<a, call[a]>> \in Row
      BY <2>1, RowsOfTurns DEF TypeInv
    <3>2. added = << <<a, call[a]>> >>
      BY <2>1
    <3>. QED BY <3>1, <3>2 DEF ToSet
  <2>2. CASE call[a] \notin Appends
    <3>1. added = <<>>
      BY <2>2
    <3>. QED BY <3>1 DEF ToSet
  <2>. QED BY <2>1, <2>2
<1>. HIDE DEF removed, added
<1>6. rows' \in Seq(Row)
  BY <1>1, <1>4, <1>5, ConcatProperties
<1>. QED BY <1>1, <1>3, <1>5, <1>6 DEF TypeInv, DbTypeOK

(* A call moves on, or comes to its end and is followed by another. *)
LEMMA StageTypes ==
  ASSUME TypeInv, NEW a \in Actors, NEW s \in Stages,
         stage[a] # "idle", To(a, s)
  PROVE  /\ stage' \in [Actors -> Stages]
         /\ UNCHANGED call =>
               \A b \in Actors : /\ call'[b] \in CallsOf(b)
                                 /\ stage'[b] # "idle" => call'[b] \notin {"asleep", "over"}
BY DEF To, TypeInv, DbTypeOK

LEMMA EndTypes ==
  ASSUME TypeInv, NEW a \in Actors, stage[a] # "idle",
         To(a, "idle"),
         NEW op \in CallsAfter(call[a]) \cup CallsAfterRaise(call[a]),
         call' = [call EXCEPT ![a] = op],
         touched' = [touched EXCEPT ![a] = {}]
  PROVE  /\ stage' \in [Actors -> Stages]
         /\ call' \in [Actors -> Writes \cup {"load", "asleep", "over"}]
         /\ touched' \in [Actors -> SUBSET Row]
         /\ \A b \in Actors : /\ call'[b] \in CallsOf(b)
                              /\ stage'[b] # "idle" => call'[b] \notin {"asleep", "over"}
<1>1. op \in CallsOf(a)
  BY NextCalls DEF TypeInv
<1>2. op \in Writes \cup {"load", "asleep", "over"}
  BY <1>1, CallsAreCalls
<1>. QED BY <1>1, <1>2 DEF TypeInv, DbTypeOK, To, Stages

LEMMA ProceedTypes ==
  ASSUME TypeInv, NEW a \in Actors, Proceed(a)
  PROVE  TypeInv'
<1>. USE DEF TypeInv, DbTypeOK
<1>1. CASE Check(a)
  <2>1. PICK s \in Stages : To(a, s)
    BY <1>1 DEF Check, Stages
  <2>. QED BY <1>1, <2>1, StageTypes DEF Check, At
<1>2. CASE Begin(a)
  <2>1. PICK s \in Stages : To(a, s)
    BY <1>2 DEF Begin, Stages
  <2>. QED BY <1>2, <2>1, StageTypes DEF Begin, At
<1>3. CASE Execute(a)
  <2>1. /\ To(a, "leave") /\ "leave" \in Stages /\ stage[a] # "idle"
        /\ UNCHANGED <<txn, call, gone, failures, crashes, overlap>>
        /\ durable' = IF txn THEN durable ELSE rows'
    BY <1>3 DEF Execute, At, Stages
  <2>. QED BY <1>3, <2>1, StageTypes, ExecuteTypes
<1>4. CASE Leave(a)
  <2>1. CASE txn
    <3>1. To(a, "commit") /\ "commit" \in Stages /\ stage[a] # "idle"
            /\ UNCHANGED <<rows, durable, txn, call, touched, kept, gone, failures,
                           crashes, overlap>>
      BY <1>4, <2>1 DEF Leave, At, Stages
    <3>. QED BY <3>1, StageTypes
  <2>2. CASE ~ txn
    <3>1. stage[a] # "idle" /\ Return(a)
            /\ UNCHANGED <<rows, durable, txn, failures, crashes, overlap>>
      BY <1>4, <2>2 DEF Leave, At
    <3>2. PICK op \in CallsAfter(call[a]) : call' = [call EXCEPT ![a] = op]
      BY <3>1 DEF Return
    <3>. QED BY <3>1, <3>2, EndTypes DEF Return
  <2>. QED BY <2>1, <2>2
<1>5. CASE CommitMade(a)
  <2>1. stage[a] # "idle" /\ Return(a) /\ durable' = rows /\ txn' = FALSE
          /\ UNCHANGED <<rows, failures, crashes, overlap>>
    BY <1>5 DEF CommitMade, At
  <2>2. PICK op \in CallsAfter(call[a]) : call' = [call EXCEPT ![a] = op]
    BY <2>1 DEF Return
  <2>. QED BY <2>1, <2>2, EndTypes DEF Return
<1>6. CASE CommitFails(a)
  <2>1. To(a, "raising") /\ "raising" \in Stages /\ stage[a] # "idle"
          /\ UNCHANGED <<rows, durable, txn, call, touched, kept, gone, failures,
                         crashes, overlap>>
    BY <1>6 DEF CommitFails, At, Stages
  <2>. QED BY <2>1, StageTypes
<1>7. CASE Raising(a)
  <2>1. CASE txn
    <3>1. To(a, "rollback") /\ "rollback" \in Stages /\ stage[a] # "idle"
            /\ UNCHANGED <<rows, durable, txn, call, touched, kept, gone, failures,
                           crashes, overlap>>
      BY <1>7, <2>1 DEF Raising, At, Stages
    <3>. QED BY <3>1, StageTypes
  <2>2. CASE ~ txn
    <3>1. stage[a] # "idle" /\ Raise(a)
            /\ UNCHANGED <<rows, durable, txn, kept, gone, failures, crashes, overlap>>
      BY <1>7, <2>2 DEF Raising, At
    <3>2. PICK op \in CallsAfterRaise(call[a]) : call' = [call EXCEPT ![a] = op]
      BY <3>1 DEF Raise
    <3>. QED BY <3>1, <3>2, EndTypes DEF Raise
  <2>. QED BY <2>1, <2>2
<1>8. CASE Rollback(a)
  <2>1. stage[a] # "idle" /\ Raise(a) /\ rows' = durable /\ txn' = FALSE
          /\ UNCHANGED <<durable, kept, gone, failures, crashes, overlap>>
    BY <1>8 DEF Rollback, At
  <2>2. PICK op \in CallsAfterRaise(call[a]) : call' = [call EXCEPT ![a] = op]
    BY <2>1 DEF Raise
  <2>. QED BY <2>1, <2>2, EndTypes DEF Raise
<1>. QED BY <1>1, <1>2, <1>3, <1>4, <1>5, <1>6, <1>7, <1>8 DEF Proceed

LEMMA TypeInductive == TypeInv /\ [Next]_vars => TypeInv'
<1>. SUFFICES ASSUME TypeInv, [Next]_vars PROVE TypeInv'
  OBVIOUS
<1>. USE DEF TypeInv, DbTypeOK
<1>1. ASSUME NEW a \in Actors, Start(a) PROVE TypeInv'
  <2>1. PICK s \in Stages : To(a, s)
    BY <1>1 DEF Start, Stages
  <2>. QED BY <1>1, <2>1 DEF Start, To, At
<1>2. ASSUME NEW a \in Actors, Proceed(a) PROVE TypeInv'
  BY <1>2, ProceedTypes
<1>3. ASSUME NEW a \in Actors, Refuse(a) PROVE TypeInv'
  <2>1. /\ To(a, "raising") /\ "raising" \in Stages /\ stage[a] # "idle"
        /\ UNCHANGED <<rows, durable, txn, call, touched, kept, gone, crashes, overlap>>
        /\ failures' = failures + 1 /\ failures < MaxFailures
    BY <1>3 DEF Refuse, Stages
  <2>2. failures' \in 0 .. MaxFailures
    BY <2>1, ConversationDbAssumption
  <2>. QED BY <2>1, <2>2, StageTypes
<1>4. CASE Wake
  <2>1. "prune" \in CallsOf(Pruner) /\ "prune" \in Writes /\ Pruner \in Actors
    BY KindsOfActors DEF CallsOf, Writes, Removals
  <2>2. call' = [call EXCEPT ![Pruner] = "prune"]
          /\ UNCHANGED <<rows, durable, txn, stage, touched, kept, gone, failures, crashes, overlap>>
    BY <1>4 DEF Wake
  <2>. QED BY <2>1, <2>2
<1>5. CASE Crash
  <2>1. crashes' \in 0 .. MaxCrashes
    BY <1>5, ConversationDbAssumption DEF Crash
  <2>2. ASSUME NEW a \in Actors PROVE call'[a] \in CallsOf(a)
    <3>1. call'[a] = IF a = Pruner THEN "prune"
                     ELSE IF stage[a] = "idle" /\ call[a] \in FirstCalls(a) THEN call[a]
                     ELSE "over"
      BY <1>5 DEF Crash
    <3>2. a # Pruner => "over" \in CallsOf(a)
      BY DEF CallsOf, Actors
    <3>3. "prune" \in CallsOf(Pruner)
      BY KindsOfActors DEF CallsOf
    <3>. QED BY <3>1, <3>2, <3>3
  <2>3. call' \in [Actors -> Writes \cup {"load", "asleep", "over"}]
    BY <1>5, <2>2, CallsAreCalls DEF Crash
  <2>4. /\ stage' = [a \in Actors |-> "idle"] /\ touched' = [a \in Actors |-> {}]
        /\ rows' = durable /\ txn' = FALSE
        /\ UNCHANGED <<durable, kept, gone, failures, overlap>>
    BY <1>5 DEF Crash
  <2>. QED BY <2>1, <2>2, <2>3, <2>4 DEF Stages
<1>6. CASE UNCHANGED vars
  BY <1>6 DEF vars, CallsOf
<1>. QED BY <1>1, <1>2, <1>3, <1>4, <1>5, <1>6 DEF Next

(* The tables, the calls under way and what their callers believe stay in     *)
(* their ranges.                                                              *)
THEOREM DbTypeOKHolds == Spec => []DbTypeOK
<1>. QED BY TypeAtFirst, TypeInductive, PTL DEF Spec, TypeInv

-----------------------------------------------------------------------------
(* One call at a time. *)
DbInv == TypeInv /\ Pending /\ OneByOne

LEMMA OneByOneAtFirst == Init => OneByOne
<1>. SUFFICES ASSUME Init PROVE Alone /\ OwnTransaction /\ Tables
  BY DEF OneByOne
<1>1. Alone /\ OwnTransaction
  BY DEF Init, Alone, OwnTransaction
<1>2. CASE durable = <<>>
  <2>1. ToSet(durable) = {} /\ DOMAIN durable = {}
    BY <1>2 DEF ToSet
  <2>2. \A a \in Turns : call[a] # "assistant"
    BY KindsOfActors DEF Init
  <2>3. Answered
    BY <2>1 DEF Answered
  <2>. QED BY <1>1, <2>1, <2>2, <2>3 DEF Init, Tables, Unwritten, Asked
<1>3. CASE durable = << <<Past, "user">>, <<Past, "assistant">> >>
  <2>1. DOMAIN durable = {1, 2} /\ durable[1] = <<Past, "user">>
          /\ durable[2] = <<Past, "assistant">>
    BY <1>3
  <2>2. ToSet(durable) = {<<Past, "user">>, <<Past, "assistant">>}
    BY <2>1 DEF ToSet
  <2>3. \A a \in Turns : call[a] # "assistant" /\ a # Past
    BY KindsOfActors DEF Init
  <2>4. Answered
    <3>1. 1 \in 1 .. 2 - 1
      OBVIOUS
    <3>. QED BY <2>1, <3>1 DEF Answered
  <2>. QED BY <1>1, <2>2, <2>3, <2>4 DEF Init, Tables, Unwritten, Asked
<1>. QED BY <1>2, <1>3 DEF Init

(* With one call at a time, a call that starts finds the connection unused.   *)
LEMMA NobodyInCall ==
  ASSUME Alone, Cardinality(InCall) < 1, NEW a \in Actors
  PROVE  stage[a] = "idle"
<1>. SUFFICES ASSUME stage[a] # "idle" PROVE FALSE
  OBVIOUS
<1>1. InCall = {a}
  BY DEF Alone, InCall
<1>2. Cardinality({a}) = 1
  BY FS_Singleton
<1>. QED BY <1>1, <1>2

(* Whoever moves was alone, and is afterwards. *)
LEMMA StillAlone ==
  ASSUME TypeInv, Alone, NEW a \in Actors,
         stage[a] # "idle" \/ \A b \in Actors : stage[b] = "idle",
         NEW s, To(a, s)
  PROVE  /\ Alone'
         /\ stage'[a] = s
         /\ \A b \in Actors : b # a => stage'[b] = "idle"
BY DEF TypeInv, DbTypeOK, Alone, To

(* While the committed table stays and no turn gets ahead of itself, what is  *)
(* known of it stays.                                                         *)
LEMMA TablesStay ==
  ASSUME Tables, UNCHANGED <<durable, gone>>, kept' \subseteq kept,
         \A a \in Turns : /\ Ahead(a)' \subseteq Ahead(a)
                          /\ call'[a] = "assistant" => call[a] = "assistant"
  PROVE  Tables'
<1>1. Unwritten' /\ Asked'
  BY DEF Tables, Unwritten, Asked
<1>2. Answered'
  BY DEF Tables, Answered
<1>. QED BY <1>1, <1>2 DEF Tables

(* The end of a call that did not add or remove anything.                     *)
LEMMA EndAhead ==
  ASSUME TypeInv, NEW a \in Actors, stage[a] # "idle",
         NEW op \in CallsAfterRaise(call[a])
                    \cup (IF call[a] \in Appends THEN {} ELSE CallsAfter(call[a])),
         call' = [call EXCEPT ![a] = op]
  PROVE  \A b \in Turns : /\ Ahead(b)' \subseteq Ahead(b)
                          /\ call'[b] = "assistant" => call[b] = "assistant"
<1>. SUFFICES ASSUME a \in Turns
              PROVE  /\ Ahead(a)' \subseteq Ahead(a)
                     /\ call'[a] = "assistant" => call[a] = "assistant"
  BY KindsOfActors DEF Ahead, TypeInv, DbTypeOK
<1>1. call'[a] = op
  BY DEF TypeInv, DbTypeOK
<1>2. call[a] \in {"load", "audit", "audit_error", "user", "assistant"}
  BY DEF TypeInv, CallsOf, Audits, Appends
<1>3. CASE call[a] \in {"load", "audit", "audit_error"}
  <2>1. op \in {"audit", "audit_error", "user", "over"}
    BY <1>3 DEF CallsAfter, CallsAfterRaise, Audits, Appends
  <2>. QED BY <1>1, <1>3, <2>1 DEF Ahead, Audits, Appends
<1>4. CASE call[a] \in {"user", "assistant"}
  <2>1. op = "over"
    BY <1>4 DEF CallsAfterRaise, Appends
  <2>. QED BY <1>1, <2>1 DEF Ahead, Audits
<1>. QED BY <1>2, <1>3, <1>4

(* A statement changes the rows by its own append or removal, and no other.   *)
LEMMA ExecuteDoes ==
  ASSUME DbInv, OwnTransaction, NEW a \in Actors, Execute(a)
  PROVE  /\ Executed(a)'
         /\ durable' = durable
         /\ kept' \subseteq kept
<1>. DEFINE removed == RemovedBy(a)
            added == IF call[a] \in Appends THEN << <<a, call[a]>> >> ELSE <<>>
<1>1. /\ rows' = Without(rows, removed) \o added
      /\ touched'[a] = removed \cup ToSet(added)
      /\ kept' = kept \ removed
      /\ durable' = IF txn THEN durable ELSE rows'
      /\ UNCHANGED <<call, txn, gone>> /\ stage[a] = "execute"
  BY DEF Execute, At, DbInv, TypeInv, DbTypeOK
<1>2. rows = durable /\ (txn <=> call[a] \in Writes)
  BY <1>1 DEF OwnTransaction
<1>3. durable \in Seq(Row)
  BY DEF DbInv, TypeInv, DbTypeOK
<1>4. removed \subseteq ToSet(durable)
  BY <1>2 DEF RemovedBy
<1>5. call[a] \notin Removals => removed = {}
  BY DEF RemovedBy, Removals
<1>6. Without(durable, removed) \in Seq(Row)
  BY <1>3, WithoutProperties
<1>. HIDE DEF removed
<1>7. CASE call[a] \in Appends
  <2>1. added = << <<a, call[a]>> >> /\ ToSet(added) = {<<a, call[a]>>}
    BY <1>7 DEF ToSet
  <2>2. call[a] \notin Removals /\ call[a] \in Writes
    BY <1>7 DEF Appends, Removals, Writes
  <2>3. <<a, call[a]>> \in Row
    BY <1>7, RowsOfTurns DEF DbInv, TypeInv
  <2>4. Without(rows, removed) = durable
    BY <1>2, <1>3, <1>5, <2>2, WithoutNothing
  <2>5. rows' = Append(durable, <<a, call[a]>>)
    BY <1>1, <1>3, <2>1, <2>3, <2>4, AppendIsConcat
  <2>. QED BY <1>1, <1>2, <1>5, <1>7, <2>1, <2>2, <2>5 DEF Executed
<1>8. CASE call[a] \in Removals
  <2>1. added = <<>> /\ ToSet(added) = {} /\ call[a] \notin Appends
          /\ call[a] \in Writes
    BY <1>8 DEF ToSet, Appends, Removals, Writes
  <2>2. rows' = Without(durable, removed)
    BY <1>1, <1>2, <1>6, <2>1, ConcatEmptySeq
  <2>3. touched'[a] = removed /\ durable' = durable
    BY <1>1, <1>2, <2>1
  <2>4. kept' \cap touched'[a] = {} /\ touched'[a] \subseteq ToSet(durable')
          /\ rows' = Without(durable', touched'[a])
    BY <1>1, <1>4, <2>2, <2>3
  <2>. QED BY <1>1, <1>8, <2>1, <2>3, <2>4 DEF Executed
<1>9. CASE call[a] \notin Appends \cup Removals
  <2>1. added = <<>>
    BY <1>9
  <2>2. Without(rows, removed) = durable
    BY <1>2, <1>3, <1>5, <1>9, WithoutNothing
  <2>3. rows' = durable
    BY <1>1, <1>3, <2>1, <2>2, ConcatEmptySeq
  <2>. QED BY <1>1, <1>9, <2>3 DEF Executed
<1>. QED BY <1>7, <1>8, <1>9

(* A commit of an append: the row is at the end of what was committed.        *)
LEMMA CommitOfAppend ==
  ASSUME DbInv, OwnTransaction, Tables,
         NEW a \in Actors, CommitMade(a), call[a] \in Appends
  PROVE  Tables'
<1>. DEFINE r == <<a, call[a]>>
<1>1. stage[a] = "commit" /\ durable' = rows
  BY DEF CommitMade, At
<1>2. rows = Append(durable, r) /\ touched[a] = {r}
  BY <1>1 DEF OwnTransaction, Executed
<1>3. kept' = kept \cup {r} /\ gone' = gone
  <2>1. call[a] \notin Removals
    BY DEF Appends, Removals
  <2>. QED BY <1>2, <2>1 DEF CommitMade, Return
<1>4. PICK op \in CallsAfter(call[a]) : call' = [call EXCEPT ![a] = op]
  BY DEF CommitMade, Return
<1>5. a \in Turns /\ r \in Row
  BY RowsOfTurns DEF DbInv, TypeInv
<1>6. /\ call'[a] = op /\ \A b \in Actors : b # a => call'[b] = call[b]
      /\ durable \in Seq(Row)
  BY <1>4 DEF DbInv, TypeInv, DbTypeOK
<1>7. Len(durable) \in Nat /\ DOMAIN durable = 1 .. Len(durable)
  BY <1>6, LenProperties
<1>8. /\ ToSet(durable') = ToSet(durable) \cup {r}
      /\ \A i \in DOMAIN durable : durable'[i] = durable[i]
      /\ \A i \in DOMAIN durable' :
            i \notin DOMAIN durable => i = Len(durable) + 1 /\ durable'[i] = r
  <2>1. durable' = Append(durable, r)
    BY <1>1, <1>2
  <2>. HIDE DEF r
  <2>2. /\ ToSet(Append(durable, r)) = ToSet(durable) \cup {r}
        /\ \A i \in DOMAIN durable : Append(durable, r)[i] = durable[i]
        /\ \A i \in DOMAIN Append(durable, r) :
              i \notin DOMAIN durable =>
                 i = Len(durable) + 1 /\ Append(durable, r)[i] = r
    BY <1>5, <1>6, AppendedElement
  <2>. QED BY <2>1, <2>2
<1>9. /\ call[a] = "user" => op \in {"assistant", "over"}
      /\ call[a] = "assistant" => op = "over"
  BY DEF CallsAfter, Audits
<1>10. call[a] \in Ahead(a)
  BY DEF Ahead, Appends
<1>11. r \notin gone
  BY <1>5, <1>10 DEF Tables, Unwritten
<1>12. kept' \subseteq ToSet(durable') /\ gone' \cap ToSet(durable') = {}
  BY <1>3, <1>8, <1>11 DEF Tables
<1>13. Unwritten'
  <2>1. ASSUME NEW b \in Turns, NEW role \in Ahead(b)'
        PROVE  <<b, role>> \notin gone' \cup ToSet(durable')
    <3>1. role \in Ahead(b) /\ <<b, role>> # r
      <4>1. CASE b = a
        <5>1. call[a] = "user" /\ role = "assistant"
          BY <1>6, <1>9, <2>1, <4>1 DEF Ahead, Audits, Appends
        <5>. QED BY <4>1, <5>1 DEF Ahead, Appends
      <4>2. CASE b # a
        <5>1. call'[b] = call[b]
          BY <1>6, <4>2, KindsOfActors
        <5>. QED BY <2>1, <4>2, <5>1 DEF Ahead
      <4>. QED BY <4>1, <4>2
    <3>. QED BY <1>3, <1>8, <3>1 DEF Tables, Unwritten
  <2>. QED BY <2>1 DEF Unwritten
<1>14. Asked'
  <2>1. ASSUME NEW b \in Turns, call'[b] = "assistant"
        PROVE  <<b, "user">> \in gone' \cup ToSet(durable')
    <3>1. CASE b = a
      <4>1. call[a] = "user"
        BY <1>6, <1>9, <2>1, <3>1 DEF Appends
      <4>. QED BY <1>8, <3>1, <4>1
    <3>2. CASE b # a
      BY <1>3, <1>6, <1>8, <2>1, <3>2, KindsOfActors DEF Tables, Asked
    <3>. QED BY <3>1, <3>2
  <2>. QED BY <2>1 DEF Asked
<1>15. Answered'
  <2>1. ASSUME NEW i \in DOMAIN durable', durable'[i][2] = "assistant"
        PROVE  \/ <<durable'[i][1], "user">> \in gone'
               \/ \E j \in 1 .. i - 1 : durable'[j] = <<durable'[i][1], "user">>
    <3>. DEFINE q == <<durable'[i][1], "user">>
    <3>1. CASE i \in DOMAIN durable
      <4>1. durable[i][2] = "assistant" /\ q = <<durable[i][1], "user">>
        BY <1>8, <2>1, <3>1
      <4>2. q \in gone \/ \E j \in 1 .. i - 1 : durable[j] = q
        BY <3>1, <4>1 DEF Tables, Answered
      <4>3. \A j \in 1 .. i - 1 : j \in DOMAIN durable
        BY <1>7, <3>1
      <4>. QED BY <1>3, <1>8, <4>2, <4>3
    <3>2. CASE i \notin DOMAIN durable
      <4>1. i = Len(durable) + 1 /\ durable'[i] = r
        BY <1>8, <2>1, <3>2
      <4>2. call[a] = "assistant" /\ q = <<a, "user">>
        BY <2>1, <4>1
      <4>3. q \in gone \cup ToSet(durable)
        BY <1>5, <4>2 DEF Tables, Asked
      <4>4. \A j \in DOMAIN durable : j \in 1 .. i - 1
        BY <1>7, <4>1
      <4>. QED BY <1>3, <1>8, <4>3, <4>4 DEF ToSet
    <3>. QED BY <3>1, <3>2
  <2>. QED BY <2>1 DEF Answered
<1>. QED BY <1>12, <1>13, <1>14, <1>15 DEF Tables

(* A commit of a removal: what is left is in its order, what is not is gone.  *)
LEMMA CommitOfRemoval ==
  ASSUME DbInv, OwnTransaction, Tables,
         NEW a \in Actors, CommitMade(a), call[a] \in Removals
  PROVE  Tables'
<1>. DEFINE lost == touched[a]
<1>1. stage[a] = "commit" /\ durable' = rows
  BY DEF CommitMade, At
<1>2. /\ lost \subseteq ToSet(durable) /\ kept \cap lost = {}
      /\ durable' = Without(durable, lost)
  BY <1>1 DEF OwnTransaction, Executed
<1>3. call[a] \notin Appends
  BY DEF Appends, Removals
<1>4. kept' = kept /\ gone' = gone \cup lost
  BY <1>3 DEF CommitMade, Return
<1>5. PICK op \in CallsAfter(call[a]) : call' = [call EXCEPT ![a] = op]
  BY DEF CommitMade, Return
<1>6. \A b \in Turns : /\ Ahead(b)' \subseteq Ahead(b)
                       /\ call'[b] = "assistant" => call[b] = "assistant"
  BY <1>1, <1>3, <1>5, EndAhead DEF DbInv
<1>7. durable \in Seq(Row)
  BY DEF DbInv, TypeInv, DbTypeOK
<1>. HIDE DEF lost
<1>8. /\ ToSet(durable') = ToSet(durable) \ lost
      /\ \A l \in DOMAIN durable' :
            \E i \in DOMAIN durable :
               /\ durable'[l] = durable[i]
               /\ \A j \in 1 .. i - 1 : durable[j] \notin lost =>
                     \E k \in 1 .. l - 1 : durable'[k] = durable[j]
  <2>. DEFINE w == Without(durable, lost)
  <2>1. /\ ToSet(w) = ToSet(durable) \ lost
        /\ \A l \in DOMAIN w :
              \E i \in DOMAIN durable :
                 /\ w[l] = durable[i]
                 /\ \A j \in 1 .. i - 1 : durable[j] \notin lost =>
                       \E k \in 1 .. l - 1 : w[k] = durable[j]
    BY <1>7, WithoutProperties
  <2>2. durable' = w
    BY <1>2
  <2>. HIDE DEF w
  <2>. QED BY <2>1, <2>2
<1>9. kept' \subseteq ToSet(durable') /\ gone' \cap ToSet(durable') = {}
  BY <1>2, <1>4, <1>8 DEF Tables
<1>10. gone' \cup ToSet(durable') = gone \cup ToSet(durable)
  BY <1>2, <1>4, <1>8
<1>11. Unwritten' /\ Asked'
  BY <1>6, <1>10 DEF Tables, Unwritten, Asked
<1>12. Answered'
  <2>1. ASSUME NEW l \in DOMAIN durable', durable'[l][2] = "assistant"
        PROVE  \/ <<durable'[l][1], "user">> \in gone'
               \/ \E k \in 1 .. l - 1 : durable'[k] = <<durable'[l][1], "user">>
    <3>. DEFINE q == <<durable'[l][1], "user">>
    <3>1. PICK i \in DOMAIN durable :
               /\ durable'[l] = durable[i]
               /\ \A j \in 1 .. i - 1 : durable[j] \notin lost =>
                     \E k \in 1 .. l - 1 : durable'[k] = durable[j]
      BY <1>8, <2>1
    <3>2. q \in gone \/ \E j \in 1 .. i - 1 : durable[j] = q
      BY <2>1, <3>1 DEF Tables, Answered
    <3>. HIDE DEF q
    <3>3. q \in gone' \/ \E k \in 1 .. l - 1 : durable'[k] = q
      BY <1>4, <3>1, <3>2
    <3>. QED BY <3>3 DEF q
  <2>. QED BY <2>1 DEF Answered
<1>. QED BY <1>9, <1>11, <1>12 DEF Tables

LEMMA CommitTables ==
  ASSUME DbInv, OwnTransaction, Tables, NEW a \in Actors, CommitMade(a)
  PROVE  Tables'
<1>1. CASE call[a] \notin Appends \cup Removals
  <2>1. stage[a] = "commit" /\ durable' = rows /\ kept' = kept /\ gone' = gone
    BY <1>1 DEF CommitMade, At, Return
  <2>2. durable' = durable
    BY <1>1, <2>1 DEF OwnTransaction, Executed
  <2>3. PICK op \in CallsAfter(call[a]) : call' = [call EXCEPT ![a] = op]
    BY DEF CommitMade, Return
  <2>4. \A b \in Turns : /\ Ahead(b)' \subseteq Ahead(b)
                         /\ call'[b] = "assistant" => call[b] = "assistant"
    BY <1>1, <2>1, <2>3, EndAhead DEF DbInv
  <2>. QED BY <2>1, <2>2, <2>4, TablesStay
<1>. QED BY <1>1, CommitOfAppend, CommitOfRemoval

(* A step inside a call: the call goes on to s, and nothing is returned yet.  *)
LEMMA StepWithin ==
  ASSUME DbInv, Alone, OwnTransaction, Tables,
         NEW a \in Actors, stage[a] # "idle" \/ \A b \in Actors : stage[b] = "idle",
         NEW s, To(a, s),
         UNCHANGED <<durable, gone, call>>, kept' \subseteq kept,
         s \in {"check", "begin"} => ~ txn' /\ call[a] \in Writes,
         s \in {"execute", "leave", "commit"} => (txn' <=> call[a] \in Writes),
         s = "execute" => rows' = durable,
         s \in {"leave", "commit"} => Executed(a)'
  PROVE  Alone' /\ OwnTransaction' /\ Tables'
<1>1. /\ Alone' /\ stage'[a] = s
      /\ \A b \in Actors : b # a => stage'[b] = "idle"
  BY StillAlone DEF DbInv
<1>2. Tables'
  BY TablesStay DEF Ahead
<1>3. OwnTransaction'
  <2>1. ASSUME NEW b \in Actors, b # a PROVE stage'[b] = "idle"
    BY <1>1, <2>1
  <2>. QED BY <1>1, <2>1 DEF OwnTransaction
<1>. QED BY <1>1, <1>2, <1>3

(* The end of a call: nobody is in the connection. *)
LEMMA StepOut ==
  ASSUME DbInv, Alone, NEW a \in Actors, stage[a] # "idle", To(a, "idle")
  PROVE  Alone' /\ OwnTransaction'
<1>1. \A b \in Actors : stage'[b] = "idle"
  BY StillAlone DEF DbInv
<1>. QED BY <1>1, StillAlone DEF DbInv, OwnTransaction

LEMMA ProceedOneByOne ==
  ASSUME DbInv, Alone, OwnTransaction, Tables, NEW a \in Actors, Proceed(a)
  PROVE  Alone' /\ OwnTransaction' /\ Tables'
<1>1. CASE Check(a)
  <2>1. stage[a] = "check" /\ UNCHANGED <<rows, durable, txn, call, kept, gone>>
    BY <1>1 DEF Check, At
  <2>2. ~ txn /\ call[a] \in Writes
    BY <2>1 DEF OwnTransaction
  <2>3. To(a, "begin")
    BY <1>1, <2>2 DEF Check
  <2>. QED BY <2>1, <2>2, <2>3, StepWithin
<1>2. CASE Begin(a)
  <2>1. /\ stage[a] = "begin" /\ txn' = TRUE
        /\ UNCHANGED <<rows, durable, call, kept, gone>>
    BY <1>2 DEF Begin, At
  <2>2. ~ txn /\ call[a] \in Writes
    BY <2>1 DEF OwnTransaction
  <2>3. To(a, "execute") /\ rows' = durable
    BY <1>2, <2>1, <2>2 DEF Begin, DbInv, Pending
  <2>. QED BY <2>1, <2>2, <2>3, StepWithin
<1>3. CASE Execute(a)
  <2>1. stage[a] = "execute" /\ To(a, "leave") /\ UNCHANGED <<txn, call, gone>>
    BY <1>3 DEF Execute, At
  <2>2. Executed(a)' /\ durable' = durable /\ kept' \subseteq kept
    BY <1>3, ExecuteDoes
  <2>3. txn' <=> call[a] \in Writes
    BY <2>1 DEF OwnTransaction
  <2>. QED BY <2>1, <2>2, <2>3, StepWithin
<1>4. CASE Leave(a)
  <2>1. stage[a] = "leave" /\ UNCHANGED <<rows, durable, txn>>
    BY <1>4 DEF Leave, At
  <2>2. (txn <=> call[a] \in Writes) /\ Executed(a)
    BY <2>1 DEF OwnTransaction
  <2>3. CASE txn
    <3>1. To(a, "commit") /\ UNCHANGED <<call, touched, kept, gone>>
      BY <1>4, <2>3 DEF Leave
    <3>2. Executed(a)'
      BY <2>1, <2>2, <3>1 DEF Executed
    <3>. QED BY <2>1, <2>2, <3>1, <3>2, StepWithin
  <2>4. CASE ~ txn
    <3>1. call[a] \notin Appends /\ call[a] \notin Removals
      BY <2>2, <2>4 DEF Writes
    <3>2. /\ To(a, "idle") /\ kept' = kept /\ gone' = gone
          /\ \E op \in CallsAfter(call[a]) : call' = [call EXCEPT ![a] = op]
      BY <1>4, <2>4, <3>1 DEF Leave, Return
    <3>3. \A b \in Turns : /\ Ahead(b)' \subseteq Ahead(b)
                           /\ call'[b] = "assistant" => call[b] = "assistant"
      BY <2>1, <3>1, <3>2, EndAhead DEF DbInv
    <3>. QED BY <2>1, <3>2, <3>3, StepOut, TablesStay
  <2>. QED BY <2>3, <2>4
<1>5. CASE CommitMade(a)
  <2>1. stage[a] = "commit" /\ To(a, "idle")
    BY <1>5 DEF CommitMade, At, Return
  <2>. QED BY <1>5, <2>1, StepOut, CommitTables
<1>6. CASE CommitFails(a)
  <2>1. /\ stage[a] = "commit" /\ To(a, "raising")
        /\ UNCHANGED <<rows, durable, txn, call, kept, gone>>
    BY <1>6 DEF CommitFails, At
  <2>. QED BY <2>1, StepWithin
<1>7. CASE Raising(a)
  <2>1. stage[a] = "raising" /\ UNCHANGED <<rows, durable, txn, kept, gone>>
    BY <1>7 DEF Raising, At
  <2>2. CASE txn
    <3>1. To(a, "rollback") /\ UNCHANGED call
      BY <1>7, <2>2 DEF Raising
    <3>. QED BY <2>1, <3>1, StepWithin
  <2>3. CASE ~ txn
    <3>1. /\ To(a, "idle")
          /\ \E op \in CallsAfterRaise(call[a]) : call' = [call EXCEPT ![a] = op]
      BY <1>7, <2>3 DEF Raising, Raise
    <3>2. \A b \in Turns : /\ Ahead(b)' \subseteq Ahead(b)
                           /\ call'[b] = "assistant" => call[b] = "assistant"
      BY <2>1, <3>1, EndAhead DEF DbInv
    <3>. QED BY <2>1, <3>1, <3>2, StepOut, TablesStay
  <2>. QED BY <2>2, <2>3
<1>8. CASE Rollback(a)
  <2>1. /\ stage[a] = "rollback" /\ UNCHANGED <<durable, kept, gone>>
        /\ To(a, "idle")
        /\ \E op \in CallsAfterRaise(call[a]) : call' = [call EXCEPT ![a] = op]
    BY <1>8 DEF Rollback, At, Raise
  <2>2. \A b \in Turns : /\ Ahead(b)' \subseteq Ahead(b)
                         /\ call'[b] = "assistant" => call[b] = "assistant"
    BY <2>1, EndAhead DEF DbInv
  <2>. QED BY <2>1, <2>2, StepOut, TablesStay
<1>. QED BY <1>1, <1>2, <1>3, <1>4, <1>5, <1>6, <1>7, <1>8 DEF Proceed

(* The number of calls at a time is the system's, not a step's.               *)
LEMMA OverlapConstant == [Next]_vars => overlap' = overlap
BY DEF Next, Start, Proceed, Check, Begin, Execute, Leave, CommitMade,
       CommitFails, Raising, Rollback, Refuse, Wake, Crash, vars

LEMMA OneByOneInductive == DbInv /\ [Next]_vars => OneByOne'
<1>. SUFFICES ASSUME DbInv, [Next]_vars, overlap = 1
              PROVE  Alone' /\ OwnTransaction' /\ Tables'
  BY OverlapConstant DEF OneByOne
<1>1. Alone /\ OwnTransaction /\ Tables
  BY DEF DbInv, OneByOne
<1>2. ASSUME NEW a \in Actors, Start(a)
      PROVE  Alone' /\ OwnTransaction' /\ Tables'
  <2>1. /\ Cardinality(InCall) < 1
        /\ To(a, IF call[a] \in Writes THEN "check" ELSE "execute")
        /\ UNCHANGED <<rows, durable, txn, call, kept, gone>>
    BY <1>2 DEF Start
  <2>2. \A b \in Actors : stage[b] = "idle"
    BY <1>1, <2>1, NobodyInCall
  <2>3. ~ txn /\ rows = durable
    BY <2>2 DEF DbInv, Pending, Looking
  <2>4. CASE call[a] \in Writes
    <3>1. To(a, "check")
      BY <2>1, <2>4
    <3>. QED BY <1>1, <2>1, <2>2, <2>3, <2>4, <3>1, StepWithin
  <2>5. CASE call[a] \notin Writes
    <3>1. To(a, "execute")
      BY <2>1, <2>5
    <3>. QED BY <1>1, <2>1, <2>2, <2>3, <2>5, <3>1, StepWithin
  <2>. QED BY <2>4, <2>5
<1>3. ASSUME NEW a \in Actors, Proceed(a)
      PROVE  Alone' /\ OwnTransaction' /\ Tables'
  BY <1>1, <1>3, ProceedOneByOne
<1>4. ASSUME NEW a \in Actors, Refuse(a)
      PROVE  Alone' /\ OwnTransaction' /\ Tables'
  <2>1. /\ stage[a] # "idle" /\ To(a, "raising")
        /\ UNCHANGED <<rows, durable, txn, call, kept, gone>>
    BY <1>4 DEF Refuse
  <2>. QED BY <1>1, <2>1, StepWithin
<1>5. CASE Wake
  <2>1. /\ call[Pruner] = "asleep" /\ call' = [call EXCEPT ![Pruner] = "prune"]
        /\ UNCHANGED <<rows, durable, txn, stage, touched, kept, gone>>
    BY <1>5 DEF Wake
  <2>2. \A a \in Actors : a # Pruner => call'[a] = call[a]
    BY <2>1 DEF DbInv, TypeInv, DbTypeOK
  <2>3. stage[Pruner] = "idle"
    BY <2>1, KindsOfActors DEF DbInv, TypeInv
  <2>4. Tables'
    <3>1. \A a \in Turns : a \in Actors /\ a # Pruner
      BY KindsOfActors
    <3>. QED BY <1>1, <2>1, <2>2, <3>1, TablesStay DEF Ahead
  <2>5. OwnTransaction'
    <3>1. ASSUME NEW a \in Actors, a # Pruner
          PROVE  Executed(a)' <=> Executed(a)
      BY <2>1, <2>2, <3>1 DEF Executed
    <3>. QED BY <1>1, <2>1, <2>2, <2>3, <3>1 DEF OwnTransaction
  <2>. QED BY <1>1, <2>1, <2>4, <2>5 DEF Alone
<1>6. CASE Crash
  <2>1. /\ \A a \in Actors : stage'[a] = "idle"
        /\ \A a \in Actors : a # Pruner => call'[a] = call[a] \/ call'[a] = "over"
        /\ UNCHANGED <<durable, kept, gone>>
    BY <1>6 DEF Crash
  <2>2. \A a \in Turns : /\ Ahead(a)' \subseteq Ahead(a)
                         /\ call'[a] = "assistant" => call[a] = "assistant"
    <3>1. \A a \in Turns : call'[a] = call[a] \/ call'[a] = "over"
      BY <2>1, KindsOfActors
    <3>. QED BY <3>1 DEF Ahead, Audits
  <2>. QED BY <1>1, <2>1, <2>2, TablesStay DEF Alone, OwnTransaction
<1>7. CASE UNCHANGED vars
  <2>1. UNCHANGED <<rows, durable, txn, call, stage, touched, kept, gone>>
    BY <1>7 DEF vars
  <2>2. \A a \in Actors : Executed(a)' <=> Executed(a)
    BY <2>1 DEF Executed
  <2>. QED BY <1>1, <2>1, <2>2, TablesStay DEF Alone, OwnTransaction, Ahead
<1>. QED BY <1>2, <1>3, <1>4, <1>5, <1>6, <1>7 DEF Next

LEMMA DbInvHolds == Spec => []DbInv
<1>1. Init => DbInv
  BY TypeAtFirst, NothingIsPendingAtFirst, OneByOneAtFirst DEF DbInv
<1>2. DbInv /\ [Next]_vars => DbInv'
  BY TypeInductive, PendingInductive, OneByOneInductive DEF DbInv
<1>. QED BY <1>1, <1>2, PTL DEF Spec

(* With one call at a time, what a turn was told is saved is committed, until *)
(* a delete or a prune removes it: no failure, rollback or crash of anybody   *)
(* takes it away.                                                             *)
THEOREM AppendsKeptOneByOneHolds == Spec => []AppendsKeptOneByOne
<1>1. DbInv => AppendsKeptOneByOne
  BY DEF DbInv, OneByOne, Tables, AppendsKeptOneByOne, AppendsKept
<1>. QED BY <1>1, DbInvHolds, PTL

(* With one call at a time, what a delete or a prune answered is removed does *)
(* not come back.                                                             *)
THEOREM RemovalsKeptHolds == Spec => []RemovalsKept
<1>1. DbInv => RemovalsKept
  BY DEF DbInv, OneByOne, Tables, RemovalsKept
<1>. QED BY <1>1, DbInvHolds, PTL

(* With one call at a time, an answer stands after its question, or the       *)
(* question has been removed.                                                 *)
THEOREM QuestionBeforeAnswerHolds == Spec => []QuestionBeforeAnswer
<1>1. DbInv => QuestionBeforeAnswer
  BY DEF DbInv, OneByOne, Tables, Answered, QuestionBeforeAnswer
<1>. QED BY <1>1, DbInvHolds, PTL

(* The store's picking and the module's own are the same.                     *)
LEMMA StoreWithout ==
  ASSUME NEW seq, NEW lost
  PROVE  Without(seq, lost) = Store!Without(seq, lost)
<1>1. ASSUME NEW S PROVE Cardinality(S) = Store!Cardinality(S)
  BY DEF Cardinality, Store!Cardinality
<1>2. ASSUME NEW P, NEW k PROVE Nth(P, k) = Store!Nth(P, k)
  BY DEF Nth, Store!Nth, Cardinality, Store!Cardinality
<1>3. ASSUME NEW P PROVE Picked(seq, P) = Store!Picked(seq, P)
  BY <1>1, <1>2 DEF Picked, Store!Picked
<1>. QED BY <1>3 DEF Without, Store!Without

(* A commit is one append or one removal of the abstract store; no other step *)
(* of a call changes what is committed.                                       *)
LEMMA StoreStep ==
  ASSUME DbInv, Alone, OwnTransaction, Next
  PROVE  durable' = durable \/ Store!Next
<1>1. CASE \E a \in Actors : CommitMade(a)
  <2>1. PICK a \in Actors : CommitMade(a)
    BY <1>1
  <2>2. durable' = rows /\ Executed(a)
    BY <2>1 DEF CommitMade, At, OwnTransaction
  <2>3. CASE call[a] \in Appends
    <3>1. durable' = Append(durable, <<a, call[a]>>) /\ <<a, call[a]>> \in Row
      BY <2>2, <2>3, RowsOfTurns DEF Executed, DbInv, TypeInv
    <3>. QED BY <3>1 DEF Store!Next, Store!Save
  <2>4. CASE call[a] \in Removals
    <3>1. /\ touched[a] \in SUBSET ToSet(durable)
          /\ durable' = Without(durable, touched[a])
      BY <2>2, <2>4 DEF Executed
    <3>2. Without(durable, touched[a]) = Store!Without(durable, touched[a])
      BY StoreWithout
    <3>3. ToSet(durable) = Store!ToSet(durable)
      BY DEF ToSet, Store!ToSet
    <3>4. Store!Erase(touched[a])
      BY <3>1, <3>2 DEF Store!Erase
    <3>. QED BY <3>1, <3>3, <3>4 DEF Store!Next
  <2>5. CASE call[a] \notin Appends \cup Removals
    BY <2>2, <2>5 DEF Executed
  <2>. QED BY <2>3, <2>4, <2>5
<1>2. CASE \E a \in Actors : Execute(a)
  BY <1>2, ExecuteDoes
<1>3. CASE ~ \E a \in Actors : CommitMade(a) \/ Execute(a)
  BY <1>3 DEF Next, Start, Proceed, Check, Begin, Leave, CommitFails, Raising,
     Rollback, Refuse, Wake, Crash
<1>. QED BY <1>1, <1>2, <1>3

(* With one call at a time the committed table is a ConversationStore, which  *)
(* changes by one whole append or removal at a time, whoever is refused,      *)
(* rolled back or cut off by a crash.                                         *)
THEOREM ImplementsStoreHolds == Spec => ImplementsStore
<1>1. Init => Store!Init
  BY TypeAtFirst DEF TypeInv, DbTypeOK, Store!Init
<1>2. DbInv /\ [Next]_vars => [overlap = 1 => Store!Next]_durable
  <2>. SUFFICES ASSUME DbInv, [Next]_vars, overlap = 1
                PROVE  durable' = durable \/ Store!Next
    OBVIOUS
  <2>1. CASE Next
    BY <2>1, StoreStep DEF DbInv, OneByOne
  <2>2. CASE UNCHANGED vars
    BY <2>2 DEF vars
  <2>. QED BY <2>1, <2>2
<1>. QED BY <1>1, <1>2, DbInvHolds, PTL DEF Spec, ImplementsStore
=============================================================================
