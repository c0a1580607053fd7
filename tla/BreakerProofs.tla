--------------------------- MODULE BreakerProofs ---------------------------
(* Proofs about Breaker, for every threshold and cooldown, with and without *)
(* a fallback.                                                              *)
EXTENDS Breaker, TLAPS

(* The calls that chat_stream starts, and the ones it is between, are calls. *)
LEMMA CallShapes ==
  /\ \A outcome \in Outcomes \cup {"none"} : Idle(outcome) \in Call
  /\ \A provider \in Providers : Asking(provider) \in Call
  BY DEF Idle, Asking, Call, Outcomes, Providers

(* What ChatLLM.chat_stream does keeps the breaker's counts and times in     *)
(* their ranges, for every threshold and cooldown.                           *)
THEOREM TypeInvariant == Spec => []BreakerTypeOK
<1>. USE ChatLLMAssumption
<1>1. Init => BreakerTypeOK
  BY CallShapes DEF Init, LLMInit, BreakerTypeOK, LLMTypeOK, Providers
<1>2. BreakerTypeOK /\ [Next]_vars => BreakerTypeOK'
  <2>. SUFFICES ASSUME BreakerTypeOK, [Next]_vars PROVE BreakerTypeOK'
    OBVIOUS
  <2>. USE DEF BreakerTypeOK, LLMTypeOK, SameBreaker
  <2>1. CASE NewTurn
    BY <2>1, CallShapes DEF NewTurn, NewInstance
  <2>2. CASE StartCall
    <3>1. call' \in Call
      BY <2>2, CallShapes DEF StartCall, ChatStream, AskPrimary, SkipPrimary,
                              Outcomes, Providers
    <3>. QED BY <2>2, <3>1 DEF StartCall, ChatStream, AskPrimary, SkipPrimary
  <2>3. CASE ChunkDelivered
    BY <2>3 DEF ChunkDelivered, Chunk, Call
  <2>4. CASE PrimaryServed
    <3>1. call' \in Call /\ last_provider' \in Providers
      BY <2>4, CallShapes DEF PrimaryServed, PrimaryEnds, Outcomes, Providers
    <3>. QED BY <2>4, <3>1 DEF PrimaryServed, PrimaryEnds, RecordSuccess
  <2>5. CASE PrimaryFailed
    <3>1. fail_count' \in Nat /\ tripped_until' \in Nat /\ UNCHANGED clock
      BY <2>5 DEF PrimaryFailed, PrimaryFails, PrimaryFailsAfterEmit,
                  PrimaryFailsBeforeEmit, RecordFailure
    <3>2. call' \in Call /\ UNCHANGED last_provider
      <4>1. CASE PrimaryFailsAfterEmit
        BY <4>1, CallShapes DEF PrimaryFailsAfterEmit, Outcomes
      <4>2. CASE PrimaryFailsBeforeEmit
        BY <4>2, CallShapes DEF PrimaryFailsBeforeEmit, Outcomes, Providers
      <4>. QED BY <2>5, <4>1, <4>2 DEF PrimaryFailed, PrimaryFails
    <3>. QED BY <2>5, <3>1, <3>2 DEF PrimaryFailed
  <2>6. CASE FallbackDone
    <3>1. call' \in Call /\ last_provider' \in Providers \cup {"none"}
      BY <2>6, CallShapes DEF FallbackDone, FallbackEnds, FallbackFails,
                              Outcomes, Providers
    <3>. QED BY <2>6, <3>1 DEF FallbackDone, FallbackEnds, FallbackFails,
                               breakerVars
  <2>7. CASE TimePasses
    BY <2>7 DEF TimePasses, Tick, breakerVars
  <2>8. CASE UNCHANGED vars
    BY <2>8 DEF vars, llmVars, breakerVars
  <2>. QED BY <2>1, <2>2, <2>3, <2>4, <2>5, <2>6, <2>7, <2>8 DEF Next
<1>. QED BY <1>1, <1>2, PTL DEF Spec

-----------------------------------------------------------------------------
(* Who the chunks came from, strengthened by what emitted records: nothing  *)
(* has come through until a chunk has.                                      *)
ProviderInv ==
    /\ OneProviderPerCall
    /\ (call.stage \in Providers /\ ~ call.emitted) => source = {}

(* Once a chunk has come through, the call ends with the provider that      *)
(* produced it, whatever fails after.                                       *)
THEOREM OneProviderPerCallHolds == Spec => []OneProviderPerCall
<1>1. Init => ProviderInv
  BY DEF Init, LLMInit, ProviderInv, OneProviderPerCall, Idle, Providers
<1>2. BreakerTypeOK /\ ProviderInv /\ [Next]_vars => ProviderInv'
  <2>. SUFFICES ASSUME BreakerTypeOK, ProviderInv, [Next]_vars
                PROVE  ProviderInv'
    OBVIOUS
  <2>. USE DEF BreakerTypeOK, LLMTypeOK, Call, ProviderInv, OneProviderPerCall,
               Providers, Idle, Asking
  <2>1. CASE NewTurn
    BY <2>1 DEF NewTurn, NewInstance
  <2>2. CASE StartCall
    BY <2>2 DEF StartCall, ChatStream, AskPrimary, SkipPrimary
  <2>3. CASE ChunkDelivered
    <3>1. source' = {call.stage} /\ call'.stage = call.stage
          /\ call.stage # "idle" /\ call'.emitted
      BY <2>3 DEF ChunkDelivered, Chunk
    <3>. QED BY <3>1
  <2>4. CASE PrimaryServed
    BY <2>4 DEF PrimaryServed, PrimaryEnds
  <2>5. CASE PrimaryFailed
    <3>1. CASE PrimaryFailsAfterEmit
      BY <2>5, <3>1 DEF PrimaryFailed, PrimaryFailsAfterEmit
    <3>2. CASE PrimaryFailsBeforeEmit
      BY <2>5, <3>2 DEF PrimaryFailed, PrimaryFailsBeforeEmit
    <3>. QED BY <2>5, <3>1, <3>2 DEF PrimaryFailed, PrimaryFails
  <2>6. CASE FallbackDone
    BY <2>6 DEF FallbackDone, FallbackEnds, FallbackFails, breakerVars
  <2>7. CASE TimePasses
    BY <2>7 DEF TimePasses, Tick, breakerVars
  <2>8. CASE UNCHANGED vars
    BY <2>8 DEF vars, llmVars, breakerVars
  <2>. QED BY <2>1, <2>2, <2>3, <2>4, <2>5, <2>6, <2>7, <2>8 DEF Next
<1>3. ProviderInv => OneProviderPerCall
  BY DEF ProviderInv
<1>. QED BY <1>1, <1>2, <1>3, TypeInvariant, PTL DEF Spec

-----------------------------------------------------------------------------
(* What the breaker's two fields say of the past.  A ChatLLM counts its own *)
(* failures; while they reach the threshold, it is tripped until a cooldown *)
(* after the last of them; it is tripped by nothing else, and a request to  *)
(* the primary is only under way when the trip is over.                     *)
CountsOwn == streak = fail_count

TrippedByThreshold ==
    /\ (fail_count >= Threshold /\ fail_count > 0)
           => tripped_until = last_failure + Cooldown
    /\ clock < tripped_until => fail_count >= Threshold
    /\ call.stage = "lmstudio" => tripped_until <= clock

TripInv == CountsOwn /\ TrippedByThreshold

(* The failures ChatLLM counts are ones the primary had in a row, and it set *)
(* tripped_until from the last of them only at the threshold: what the       *)
(* breaker's two promises follow from, and inductive as it stands.           *)
LEMMA TripInvHolds == Spec => []TripInv
<1>. USE ChatLLMAssumption
<1>1. Init => TripInv
  BY DEF Init, LLMInit, TripInv, CountsOwn, TrippedByThreshold, Idle
<1>2. BreakerTypeOK /\ TripInv /\ [Next]_vars => TripInv'
  <2>. SUFFICES ASSUME BreakerTypeOK, TripInv, [Next]_vars PROVE TripInv'
    OBVIOUS
  <2>. USE DEF BreakerTypeOK, LLMTypeOK, Call, TripInv, CountsOwn,
               TrippedByThreshold, Idle, Asking, SameBreaker
  <2>1. CASE NewTurn
    BY <2>1 DEF NewTurn, NewInstance
  <2>2. CASE StartCall
    BY <2>2 DEF StartCall, ChatStream, AskPrimary, SkipPrimary, primary_tripped
  <2>3. CASE ChunkDelivered
    BY <2>3 DEF ChunkDelivered, Chunk
  <2>4. CASE PrimaryServed
    BY <2>4 DEF PrimaryServed, PrimaryEnds, RecordSuccess
  <2>5. CASE PrimaryFailed
    <3>1. /\ call.stage = "lmstudio" /\ call'.stage # "lmstudio"
          /\ RecordFailure /\ UNCHANGED clock
          /\ streak' = streak + 1
          /\ last_failure' = clock
      BY <2>5 DEF PrimaryFailed, PrimaryFails, PrimaryFailsAfterEmit,
                  PrimaryFailsBeforeEmit
    <3>. QED BY <3>1 DEF RecordFailure
  <2>6. CASE FallbackDone
    BY <2>6 DEF FallbackDone, FallbackEnds, FallbackFails, breakerVars
  <2>7. CASE TimePasses
    BY <2>7 DEF TimePasses, Tick, breakerVars
  <2>8. CASE UNCHANGED vars
    BY <2>8 DEF vars, llmVars, breakerVars
  <2>. QED BY <2>1, <2>2, <2>3, <2>4, <2>5, <2>6, <2>7, <2>8 DEF Next
<1>. QED BY <1>1, <1>2, TypeInvariant, PTL DEF Spec

(* A primary is asked, or passed over, only in a StartCall. *)
LEMMA CallsStartInStartCall ==
  ASSUME BreakerTypeOK, [Next]_vars, call.stage = "idle",
         call'.stage # call.stage
  PROVE  StartCall
  BY DEF BreakerTypeOK, LLMTypeOK, Call, Next, vars, llmVars, NewTurn, NewInstance,
         ChunkDelivered, Chunk, PrimaryServed, PrimaryEnds, PrimaryFailed,
         PrimaryFails, PrimaryFailsAfterEmit, PrimaryFailsBeforeEmit,
         FallbackDone, FallbackEnds, FallbackFails, TimePasses, Tick, Idle,
         Providers

(* Within a turn the breaker keeps its promise: Threshold failures in a row *)
(* give the primary a full cooldown, after each failure anew.               *)
THEOREM PrimaryRestsInTurnHolds == Spec => PrimaryRestsInTurn
<1>1. BreakerTypeOK /\ TripInv /\ [Next]_vars => 
       [AskedPrimary /\ streak >= Threshold /\ streak > 0
           => clock >= last_failure + Cooldown]_vars
  <2>. SUFFICES ASSUME BreakerTypeOK, TripInv, [Next]_vars, AskedPrimary,
                       streak >= Threshold, streak > 0
                PROVE  clock >= last_failure + Cooldown
    OBVIOUS
  <2>1. StartCall
    BY CallsStartInStartCall DEF AskedPrimary
  <2>2. ~ primary_tripped
    BY <2>1 DEF StartCall, ChatStream, AskPrimary, SkipPrimary, AskedPrimary,
                Idle, Asking
  <2>. QED BY <2>2, ChatLLMAssumption
           DEF primary_tripped, TripInv, CountsOwn, TrippedByThreshold,
               BreakerTypeOK, LLMTypeOK
<1>. QED BY <1>1, TripInvHolds, TypeInvariant, PTL DEF Spec, PrimaryRestsInTurn

(* ... and no primary is passed over that has not earned it. *)
THEOREM SkippedOnlyWhenTrippedHolds == Spec => SkippedOnlyWhenTripped
<1>. DEFINE Skipped == /\ call.stage = "idle" /\ call'.stage # "idle"
                       /\ call'.stage # "lmstudio"
<1>1. BreakerTypeOK /\ TripInv /\ [Next]_vars
        => [Skipped => streak >= Threshold]_vars
  <2>. SUFFICES ASSUME BreakerTypeOK, TripInv, [Next]_vars, Skipped
                PROVE  streak >= Threshold
    OBVIOUS
  <2>1. StartCall
    BY CallsStartInStartCall
  <2>2. primary_tripped
    BY <2>1 DEF StartCall, ChatStream, AskPrimary, SkipPrimary, Idle, Asking
  <2>. QED BY <2>2 DEF primary_tripped, TripInv, CountsOwn, TrippedByThreshold
<1>. QED BY <1>1, TripInvHolds, TypeInvariant, PTL
         DEF Spec, SkippedOnlyWhenTripped
=============================================================================
