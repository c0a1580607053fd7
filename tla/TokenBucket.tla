---------------------------- MODULE TokenBucket ----------------------------
(***************************************************************************)
(* What agent/rate_limit.py promises, said without buckets, idle times or  *)
(* garbage collection: every key has a level that rises with time and      *)
(* never above the full one; a call is let through exactly when the level  *)
(* holds a whole token, and takes it.                                      *)
(***************************************************************************)
EXTENDS Integers

CONSTANTS Keys, Capacity, Period

VARIABLES
    level,   \* what each key may still spend, in units of 1/Period token
    result   \* the last answer: <<key, allowed>>, or <<>> before the first

FullLevel == Capacity * Period
Enabled == Capacity # 0

TBInit ==
    /\ level = [k \in Keys |-> FullLevel]
    /\ result = <<>>

Flow == level' = [k \in Keys |-> IF level[k] + Capacity > FullLevel
                                 THEN FullLevel
                                 ELSE level[k] + Capacity]

TimePasses == Flow /\ UNCHANGED result

Allow(k) ==
    /\ Enabled => level[k] >= Period
    /\ level' = IF Enabled THEN [level EXCEPT ![k] = @ - Period] ELSE level
    /\ result' = <<k, TRUE>>

Refuse(k) ==
    /\ Enabled
    /\ level[k] < Period
    /\ result' = <<k, FALSE>>
    /\ UNCHANGED level

TBNext == TimePasses \/ \E k \in Keys : Allow(k) \/ Refuse(k)

TBSpec == TBInit /\ [][TBNext]_<<level, result>>
=============================================================================
