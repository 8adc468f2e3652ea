----------------------------- MODULE MCTriggers -----------------------------
(* Instances of Triggers for TLC: the kinds of rows the server schedules.   *)
EXTENDS Triggers, TLC

CONSTANTS patrolKey, hookKey, nudgeKey

\* progression_patrol: interval, limited rounds, cooldown guard.
Patrol == [every |-> 1, max |-> 2, expires |-> None, guarded |-> TRUE,
           outcomes |-> {"done", "expire", "throw"}, rearm |-> "replace"]

\* hook_fire: one-shot, comes back later while its target is busy.
HookFire == [every |-> None, max |-> None, expires |-> None, guarded |-> FALSE,
             outcomes |-> {"done", "reschedule", "throw"}, rearm |-> "repair"]

\* receipt_nudge: plain one-shot.
Nudge == [every |-> None, max |-> None, expires |-> None, guarded |-> FALSE,
          outcomes |-> {"done", "throw"}, rearm |-> "never"]

KindOf == [k \in {patrolKey, hookKey, nudgeKey} |->
             CASE k = patrolKey -> Patrol [] k = hookKey -> HookFire [] OTHER -> Nudge]
MCOpt == [k \in Keys |-> KindOf[k]]

Symmetry == Permutations(Rows) \cup Permutations(Ticks)
=============================================================================
