--------------------------- MODULE ConversationDb ---------------------------
(***************************************************************************)
(* agent/db.py: one sqlite connection for the whole process, used from the *)
(* threads of asyncio.to_thread and, by audit(), from the event loop; and  *)
(* who uses it: turns (agent/chat_loop.py), DELETE /conversations          *)
(* (agent/api/conversations.py) and the scheduler (agent/scheduler.py).    *)
(*                                                                         *)
(* Every function of db.py is `with _conn() as c: c.execute(...)`.  The    *)
(* sqlite3 module opens a transaction before a statement that writes, if   *)
(* none is open, and leaving the block commits, or rolls back after an     *)
(* exception.  It looks whether a transaction is open holding the GIL and  *)
(* lets go of it to run BEGIN, the statement, COMMIT or ROLLBACK, so the   *)
(* look and the act are two steps.  The transaction is the connection's:   *)
(* whoever commits or rolls back does it for every thread.                 *)
(*                                                                         *)
(* overlap is how many calls run at once: 1 is the "per-call               *)
(* serialization" the docstring of _conn relies on, more is what           *)
(* to_thread's pool does.                                                  *)
(***************************************************************************)
EXTENDS Integers, Picking, SequencesExt

CONSTANTS
    Turns,        \* turns of persisted conversations
    Deletes,      \* DELETE /conversations/{session_id} requests
    Pruner,       \* the scheduler task
    Past,         \* a turn older than agent_conversation_ttl_days
    SessionOf,    \* session_id of each turn and delete
    Overlaps,     \* how many calls there may be in the connection at a time
    MaxFailures,  \* statements and commits sqlite refuses (full, busy, I/O)
    MaxCrashes    \* times the process dies and starts again

ASSUME ConversationDbAssumption ==
    /\ {Pruner, Past} \cap (Turns \cup Deletes) = {}
    /\ Pruner # Past /\ Turns \cap Deletes = {}
    /\ Overlaps \subseteq Nat \ {0}
    /\ MaxFailures \in Nat
    /\ MaxCrashes \in Nat

VARIABLES
    rows,         \* conversation_messages in id order, as the connection sees it
    durable,      \* ... as last committed
    txn,          \* whether the connection is in a transaction
    call,         \* the db.py function each actor calls next, or is in
    stage,        \* how far that call is
    touched,      \* the rows its statement added or removed
    kept,         \* rows whose append returned, and no statement removed since
    gone,         \* rows whose removal returned
    failures, crashes,
    overlap       \* calls into the connection at a time

vars == <<rows, durable, txn, call, stage, touched, kept, gone, failures, crashes, overlap>>

Actors == Turns \cup Deletes \cup {Pruner}
Row == (Turns \cup {Past}) \X {"user", "assistant"}
Backlog == {Past} \X {"user", "assistant"}

(* Slip: any role is persisted. *)
AppendsOfAnyRole == {"user", "assistant", "audit"}

Appends == {"user", "assistant"}
Removals == {"clear", "prune", "audit_prune"}
Audits == {"audit", "audit_error"}
Writes == Appends \cup Removals \cup Audits
Stages == {"idle", "check", "begin", "execute", "leave", "commit", "raising", "rollback"}

(* Tables, transaction and calls in their ranges.                            *)
DbTypeOK ==
    /\ rows \in Seq(Row) /\ durable \in Seq(Row)
    /\ txn \in BOOLEAN
    /\ call \in [Actors -> Writes \cup {"load", "asleep", "over"}]
    /\ stage \in [Actors -> Stages]
    /\ touched \in [Actors -> SUBSET Row]
    /\ kept \subseteq Row /\ gone \subseteq Row
    /\ failures \in 0 .. MaxFailures
    /\ crashes \in 0 .. MaxCrashes
    /\ overlap \in Overlaps

(* A dialogue begins by loading the session, a slash command by its audit.   *)
FirstCalls(a) ==
    CASE a \in Turns -> {"load", "audit"}
      [] a \in Deletes -> {"clear"}
      [] a = Pruner -> {"prune"}

Init ==
    /\ rows \in {<<>>, << <<Past, "user">>, <<Past, "assistant">> >>}
    /\ durable = rows
    /\ txn = FALSE
    /\ call \in [Actors -> {"load", "audit", "clear", "prune"}]
    /\ \A a \in Actors : call[a] \in FirstCalls(a)
    /\ stage = [a \in Actors |-> "idle"]
    /\ touched = [a \in Actors |-> {}]
    /\ kept = {} /\ gone = {}
    /\ failures = 0 /\ crashes = 0
    /\ overlap \in Overlaps

(* Slip: an exception ends the scheduler's loop. *)
CallsAfterRaiseStops(op) == IF op = "audit" THEN {"audit_error", "over"} ELSE {"over"}

(* Slip: a turn whose question was not saved goes on to save its answer. *)
CallsAfterRaiseGoesOn(op) == IF op = "user" THEN {"assistant"} ELSE {"over"}

(* A tool call is audited, and so is a failure of that; a turn that has no   *)
(* answer saves no answer; the scheduler prunes both tables, then sleeps.    *)
CallsAfter(op) ==
    CASE op = "load" -> {"audit", "user"}
      [] op \in Audits -> {"user"}
      [] op = "user" -> {"assistant", "over"}
      [] op \in {"assistant", "clear"} -> {"over"}
      [] op = "prune" -> {"audit_prune"}
      [] op = "audit_prune" -> {"asleep"}

CallsAfterRaise(op) ==
    CASE op = "audit" -> {"audit_error", "over"}
      [] op \in {"prune", "audit_prune"} -> {"asleep"}
      [] OTHER -> {"over"}

InCall == {a \in Actors : stage[a] # "idle"}
LoopFree == \A a \in InCall : call[a] \notin Audits

At(a, s) == stage[a] = s
To(a, s) == stage' = [stage EXCEPT ![a] = s]

-----------------------------------------------------------------------------
(* One call of db.py.                                                        *)

Start(a) ==
    /\ At(a, "idle") /\ call[a] \notin {"asleep", "over"}
    /\ LoopFree /\ Cardinality(InCall) < overlap
    /\ To(a, IF call[a] \in Writes THEN "check" ELSE "execute")
    /\ UNCHANGED <<rows, durable, txn, call, touched, kept, gone, failures, crashes, overlap>>

Check(a) ==
    /\ At(a, "check")
    /\ To(a, IF txn THEN "execute" ELSE "begin")
    /\ UNCHANGED <<rows, durable, txn, call, touched, kept, gone, failures, crashes, overlap>>

(* BEGIN fails inside a transaction: another thread's BEGIN was faster.      *)
Begin(a) ==
    /\ At(a, "begin")
    /\ To(a, IF txn THEN "raising" ELSE "execute")
    /\ txn' = TRUE
    /\ UNCHANGED <<rows, durable, call, touched, kept, gone, failures, crashes, overlap>>

RemovedBy(a) ==
    CASE call[a] = "clear" -> {r \in ToSet(rows) : SessionOf[r[1]] = SessionOf[a]}
      [] call[a] = "prune" -> ToSet(rows) \cap Backlog
      [] OTHER -> {}

(* Outside a transaction, one that another thread has ended since this one   *)
(* looked, a statement commits itself.  audit_log is not modelled.           *)
Execute(a) ==
    /\ At(a, "execute")
    /\ LET removed == RemovedBy(a)
           added == IF call[a] \in Appends THEN << <<a, call[a]>> >> ELSE <<>>
       IN  /\ rows' = Without(rows, removed) \o added
           /\ touched' = [touched EXCEPT ![a] = removed \cup ToSet(added)]
           /\ kept' = kept \ removed
    /\ durable' = IF txn THEN durable ELSE rows'
    /\ To(a, "leave")
    /\ UNCHANGED <<txn, call, gone, failures, crashes, overlap>>

Refuse(a) ==
    /\ failures < MaxFailures
    /\ stage[a] \in {"execute", "commit"}
    /\ failures' = failures + 1
    /\ To(a, "raising")
    /\ UNCHANGED <<rows, durable, txn, call, touched, kept, gone, crashes, overlap>>

(* The function returns, and its caller goes on from what it believes.       *)
Return(a) ==
    /\ To(a, "idle")
    /\ \E op \in CallsAfter(call[a]) : call' = [call EXCEPT ![a] = op]
    /\ touched' = [touched EXCEPT ![a] = {}]
    /\ kept' = IF call[a] \in Appends THEN kept \cup touched[a] ELSE kept
    /\ gone' = IF call[a] \in Removals THEN gone \cup touched[a] ELSE gone

(* Slip: the call returns before its commit. *)
LeaveEarly(a) ==
    /\ At(a, "leave")
    /\ Return(a)
    /\ UNCHANGED <<rows, durable, txn, failures, crashes, overlap>>

(* Leaving the block: nothing to commit, or a commit to make.                *)
Leave(a) ==
    /\ At(a, "leave")
    /\ \/ txn /\ To(a, "commit") /\ UNCHANGED <<call, touched, kept, gone>>
       \/ ~ txn /\ Return(a)
    /\ UNCHANGED <<rows, durable, txn, failures, crashes, overlap>>

CommitMade(a) ==
    /\ At(a, "commit") /\ txn
    /\ durable' = rows
    /\ txn' = FALSE
    /\ Return(a)
    /\ UNCHANGED <<rows, failures, crashes, overlap>>

(* Another thread has committed or rolled back meanwhile: COMMIT fails.      *)
CommitFails(a) ==
    /\ At(a, "commit") /\ ~ txn
    /\ To(a, "raising")
    /\ UNCHANGED <<rows, durable, txn, call, touched, kept, gone, failures, crashes, overlap>>

Raise(a) ==
    /\ To(a, "idle")
    /\ \E op \in CallsAfterRaise(call[a]) : call' = [call EXCEPT ![a] = op]
    /\ touched' = [touched EXCEPT ![a] = {}]

(* Slip: an exception leaves the transaction as it is. *)
RaisingLeavesTransaction(a) ==
    /\ At(a, "raising")
    /\ Raise(a)
    /\ UNCHANGED <<rows, durable, txn, kept, gone, failures, crashes, overlap>>

Raising(a) ==
    /\ At(a, "raising")
    /\ \/ txn /\ To(a, "rollback") /\ UNCHANGED <<call, touched>>
       \/ ~ txn /\ Raise(a)
    /\ UNCHANGED <<rows, durable, txn, kept, gone, failures, crashes, overlap>>

(* Rolls back whatever the connection has not committed, whoever wrote it.   *)
Rollback(a) ==
    /\ At(a, "rollback")
    /\ rows' = durable
    /\ txn' = FALSE
    /\ Raise(a)
    /\ UNCHANGED <<durable, kept, gone, failures, crashes, overlap>>

Proceed(a) ==
    \/ Check(a) \/ Begin(a) \/ Execute(a) \/ Leave(a)
    \/ CommitMade(a) \/ CommitFails(a) \/ Raising(a) \/ Rollback(a)

(* agent_cleanup_interval_seconds have passed.                               *)
Wake ==
    /\ call[Pruner] = "asleep"
    /\ call' = [call EXCEPT ![Pruner] = "prune"]
    /\ UNCHANGED <<rows, durable, txn, stage, touched, kept, gone, failures, crashes, overlap>>

(* The process dies and starts again: what it was in the middle of is over,  *)
(* what is committed stays, and the scheduler begins with its boot pass.     *)
Crash ==
    /\ crashes < MaxCrashes
    /\ crashes' = crashes + 1
    /\ rows' = durable
    /\ txn' = FALSE
    /\ stage' = [a \in Actors |-> "idle"]
    /\ call' = [a \in Actors |->
                  IF a = Pruner THEN "prune"
                  ELSE IF stage[a] = "idle" /\ call[a] \in FirstCalls(a) THEN call[a]
                  ELSE "over"]
    /\ touched' = [a \in Actors |-> {}]
    /\ UNCHANGED <<durable, kept, gone, failures, overlap>>

Next ==
    \/ \E a \in Actors : Start(a) \/ Proceed(a) \/ Refuse(a)
    \/ Wake
    \/ Crash

(* Threads run on; the loop starts every call in turn and sleep() ends.      *)
Fairness ==
    /\ \A a \in Actors : WF_vars(Proceed(a))
    /\ SF_vars(Start(Pruner))
    /\ WF_vars(Wake)

Spec == Init /\ [][Next]_vars /\ Fairness

-----------------------------------------------------------------------------
(* What a turn was told is saved stays saved, through crashes and through    *)
(* the failures of others, until a delete or a prune removes it.             *)
AppendsKept == kept \subseteq ToSet(durable)

(* db.py:53-56, "per-call serialization": it is so with one call at a time.  *)
AppendsKeptOneByOne == overlap = 1 => AppendsKept

(* With one call at a time, what a DELETE or a prune answered is removed     *)
(* stays removed.                                                            *)
RemovalsKept == overlap = 1 => gone \cap ToSet(durable) = {}

(* With one call at a time, a saved answer follows its question, unless that *)
(* was removed.                                                              *)
QuestionBeforeAnswer ==
    overlap = 1 =>
       \A i \in DOMAIN durable :
          durable[i][2] = "assistant" =>
             LET question == <<durable[i][1], "user">>
             IN  question \in gone \/ \E j \in 1 .. i - 1 : durable[j] = question

(* ConversationStore's promise: with one call at a time the committed table  *)
(* changes by one whole append or removal, in whatever way calls are refused,*)
(* rolled back or cut by a crash.                                            *)
Store == INSTANCE ConversationStore WITH
            Messages <- Row,
            SessionsOf <- [r \in Row |-> SessionOf[r[1]]],
            Window <- 200,
            stored <- durable

ImplementsStore ==
    /\ Store!Init
    /\ [][overlap = 1 => Store!Next]_durable

(* A connection that nobody is using has nothing left to commit or to roll   *)
(* back, whatever the calls did to each other before: an open transaction    *)
(* would keep every other writer of the file out.                            *)
NothingPending == InCall = {} => ~ txn /\ rows = durable

(* Old messages are pruned in the end, although a pass may fail, or be       *)
(* undone by another thread's rollback: the loop survives and tries again.   *)
BacklogPruned == <>[](ToSet(durable) \cap Backlog = {})

=============================================================================
