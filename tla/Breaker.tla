------------------------------ MODULE Breaker ------------------------------
(***************************************************************************)
(* What the circuit breaker of ChatLLM does to the primary provider, seen  *)
(* over the calls of one turn and over turn after turn.                    *)
(***************************************************************************)
EXTENDS ChatLLM

VARIABLES
    streak,      \* history: failures of the primary in a row, in this turn
    last_failure,\* history: when the primary last failed
    source       \* history: who produced the chunks of the current call

breakerVars == <<streak, last_failure, source>>
vars == <<llmVars, breakerVars>>

(* ChatLLM's counts and times stay in their ranges, and so does the history  *)
(* this module keeps of the primary's failures.                              *)
BreakerTypeOK ==
    /\ LLMTypeOK
    /\ streak \in Nat
    /\ last_failure \in Nat
    /\ source \in SUBSET Providers

Init ==
    /\ LLMInit
    /\ streak = 0
    /\ last_failure = 0
    /\ source = {}

NewTurn ==
    /\ NewInstance
    /\ streak' = 0
    /\ source' = {}
    /\ UNCHANGED last_failure

StartCall == ChatStream /\ source' = {} /\ UNCHANGED <<streak, last_failure>>

ChunkDelivered ==
    /\ Chunk
    /\ source' = source \cup {call.stage}
    /\ UNCHANGED <<streak, last_failure>>

PrimaryServed ==
    /\ PrimaryEnds
    /\ streak' = 0
    /\ UNCHANGED <<last_failure, source>>

PrimaryFailed ==
    /\ PrimaryFails
    /\ streak' = streak + 1
    /\ last_failure' = clock
    /\ UNCHANGED source

FallbackDone == (FallbackEnds \/ FallbackFails) /\ UNCHANGED breakerVars

TimePasses == Tick /\ UNCHANGED breakerVars

Next ==
    \/ NewTurn \/ StartCall \/ ChunkDelivered
    \/ PrimaryServed \/ PrimaryFailed \/ FallbackDone
    \/ TimePasses

Spec == Init /\ [][Next]_vars

-----------------------------------------------------------------------------
(* chain.py:127, "once we have yielded the first chunk to the caller, we    *)
(* are committed to the provider that produced it": the chunks of a call    *)
(* all come from one provider, and the call is still with it.               *)
OneProviderPerCall ==
    /\ \A p, q \in source : p = q
    /\ call.stage \in Providers => source \subseteq {call.stage}
    /\ (call.stage = "idle" /\ call.outcome = "complete")
           => source \subseteq {last_provider}

AskedPrimary == call.stage = "idle" /\ call'.stage = "lmstudio"

(* config.py:73, "trip primary after this many consecutive failures, stay   *)
(* tripped for `cooldown` seconds before retrying": within a turn, once     *)
(* Threshold requests in a row have failed the primary is not asked again   *)
(* before the cooldown since the last failure is over.  That holds for the  *)
(* retry after a cooldown too: one more failure rests it again at once.     *)
PrimaryRestsInTurn ==
    [][AskedPrimary /\ streak >= Threshold /\ streak > 0
          => clock >= last_failure + Cooldown]_vars

(* A working primary is not given up: fewer than Threshold failures in a    *)
(* row never send a call past it.                                           *)
SkippedOnlyWhenTripped ==
    [][(call.stage = "idle" /\ call'.stage # "idle" /\ call'.stage # "lmstudio")
          => streak >= Threshold]_vars
=============================================================================
