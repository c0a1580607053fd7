------------------------------ MODULE ChatLLM ------------------------------
(***************************************************************************)
(* agent/llm/chain.py: one ChatLLM, its circuit breaker and a chat_stream  *)
(* call with the handoff from the primary provider to the fallback.        *)
(*                                                                         *)
(* run_turn enters a fresh ChatLLM for every turn (chat_loop.py:193), so a *)
(* turn begins with NewInstance.  What a provider does to a request -      *)
(* deliver a chunk, end, fail - is the environment's choice.               *)
(***************************************************************************)
EXTENDS Integers

CONSTANTS
    Threshold,    \* llm_primary_failure_threshold
    Cooldown,     \* llm_primary_cooldown_seconds
    HasFallback   \* settings.fallback_enabled

ASSUME ChatLLMAssumption ==
    /\ Threshold \in Nat
    /\ Cooldown \in Nat
    /\ HasFallback \in BOOLEAN

VARIABLES
    clock,          \* time.time(), taken not to step back
    fail_count,     \* _fail_count
    tripped_until,  \* _tripped_until
    last_provider,  \* whom the last completed call was served by
    call            \* the chat_stream call in progress, and how the last ended

llmVars == <<clock, fail_count, tripped_until, last_provider, call>>

Providers == {"lmstudio", "openrouter"}

(* How a call leaves chat_stream: exhausted, a ChainError, an LMStudioError *)
(* (which run_turn catches too), or an httpx error (which it does not).     *)
Outcomes == {"complete", "chain_error", "lm_error", "http_error"}

Call == [stage : {"idle"} \cup Providers, emitted : BOOLEAN,
         outcome : Outcomes \cup {"none"}]
Idle(outcome) == [stage |-> "idle", emitted |-> FALSE, outcome |-> outcome]
Asking(provider) == [stage |-> provider, emitted |-> FALSE, outcome |-> "none"]

(* What ChatLLM keeps between calls, and the call it is in.                  *)
LLMTypeOK ==
    /\ clock \in Nat
    /\ fail_count \in Nat
    /\ tripped_until \in Nat
    /\ last_provider \in Providers \cup {"none"}
    /\ call \in Call

LLMInit ==
    /\ clock = 0
    /\ fail_count = 0
    /\ tripped_until = 0
    /\ last_provider = "none"
    /\ call = Idle("none")

-----------------------------------------------------------------------------
primary_tripped == clock < tripped_until

(* Slip: the breaker trips one failure late. *)
RecordFailureLate ==
    /\ fail_count' = fail_count + 1
    /\ tripped_until' = IF fail_count' > Threshold THEN clock + Cooldown
                                                   ELSE tripped_until

RecordFailure ==
    /\ fail_count' = fail_count + 1
    /\ tripped_until' = IF fail_count' >= Threshold THEN clock + Cooldown
                                                    ELSE tripped_until

(* Slip: a success does not end the streak of failures. *)
RecordSuccessKeeps == UNCHANGED <<fail_count, tripped_until>>

(* Slip: a success makes up for one failure, even where there was none. *)
RecordSuccessForgivesOne ==
    fail_count' = fail_count - 1 /\ UNCHANGED tripped_until

RecordSuccess == fail_count' = 0 /\ UNCHANGED tripped_until

SameBreaker == UNCHANGED <<fail_count, tripped_until>>

(* async with ChatLLM() as llm, at the start of a turn; the turn before may *)
(* have been dropped in the middle of a call.                               *)
NewInstance ==
    /\ fail_count' = 0
    /\ tripped_until' = 0
    /\ last_provider' = "none"
    /\ call' = Idle("none")
    /\ UNCHANGED clock

(* chat_stream up to its first request. *)
AskPrimary ==
    /\ call.stage = "idle"
    /\ ~ primary_tripped
    /\ call' = Asking("lmstudio")
    /\ UNCHANGED <<clock, last_provider>>
    /\ SameBreaker

SkipPrimary ==
    /\ call.stage = "idle"
    /\ primary_tripped
    /\ call' = IF HasFallback THEN Asking("openrouter") ELSE Idle("chain_error")
    /\ UNCHANGED <<clock, last_provider>>
    /\ SameBreaker

ChatStream == AskPrimary \/ SkipPrimary

(* Either provider's next chunk goes through to the caller. *)
Chunk ==
    /\ call.stage \in Providers
    /\ call' = [call EXCEPT !.emitted = TRUE]
    /\ UNCHANGED <<clock, last_provider>>
    /\ SameBreaker

PrimaryEnds ==
    /\ call.stage = "lmstudio"
    /\ call' = Idle("complete")
    /\ last_provider' = "lmstudio"
    /\ RecordSuccess
    /\ UNCHANGED clock

(* Slip: the fallback is asked even after a chunk went through. *)
PrimaryFailsAfterEmitHandsOver ==
    /\ call.stage = "lmstudio"
    /\ call.emitted
    /\ call' = Asking("openrouter")
    /\ RecordFailure
    /\ UNCHANGED <<clock, last_provider>>

(* One of _RETRIABLE.  After a chunk the call is lost; before one it is     *)
(* handed to the fallback, or re-raised when there is none.                 *)
PrimaryFailsAfterEmit ==
    /\ call.stage = "lmstudio"
    /\ call.emitted
    /\ call' = Idle("chain_error")
    /\ RecordFailure
    /\ UNCHANGED <<clock, last_provider>>

PrimaryFailsBeforeEmit ==
    /\ call.stage = "lmstudio"
    /\ ~ call.emitted
    /\ IF HasFallback
       THEN call' = Asking("openrouter")
       ELSE \E outcome \in {"lm_error", "http_error"} : call' = Idle(outcome)
    /\ RecordFailure
    /\ UNCHANGED <<clock, last_provider>>

PrimaryFails == PrimaryFailsAfterEmit \/ PrimaryFailsBeforeEmit

FallbackEnds ==
    /\ call.stage = "openrouter"
    /\ call' = Idle("complete")
    /\ last_provider' = "openrouter"
    /\ UNCHANGED clock
    /\ SameBreaker

(* An OpenRouterError becomes a ChainError; an httpx error passes as it is. *)
FallbackFails ==
    /\ call.stage = "openrouter"
    /\ \E outcome \in {"chain_error", "http_error"} : call' = Idle(outcome)
    /\ UNCHANGED <<clock, last_provider>>
    /\ SameBreaker

CallEnds == PrimaryEnds \/ PrimaryFails \/ FallbackEnds \/ FallbackFails

Tick == clock' = clock + 1 /\ UNCHANGED <<last_provider, call>> /\ SameBreaker
=============================================================================
