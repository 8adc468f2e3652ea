---------------------------- MODULE ReviewRounds ----------------------------
(***************************************************************************)
(* The review of a task's plan: the round ledger kept in an issue          *)
(* (issues/review-round-ledger.ts, review-round.service.ts), the gate that *)
(* verdicts pass (review-round-gate.service.ts), the dispatch that opens a *)
(* round and its time-out, and the plan's own life cycle                   *)
(* (tasks/plan-lifecycle.service.ts), which the gate and the users move.   *)
(*                                                                         *)
(* applyRoundUpdate reads, merges and writes under a row lock: one action. *)
(* Around it everything is check-then-act: a verdict, a dispatch, the      *)
(* time-out handler and a user's request read first and write later.       *)
(* The plan's row is there from the start, every dispatch carries a hash   *)
(* (parseReviewTriplet) and the same expected members.                     *)
(***************************************************************************)
EXTENDS Integers, FiniteSets

CONSTANTS
  Members,       \* the expected reviewers
  Messages,      \* messages with a verdict, each announced at most once
  By,            \* By[m]: the reviewer who posts it
  Approving,     \* those whose verdict is APPROVE
  Calls,         \* recordVerdict() calls in flight
  Users,         \* requests to the plan's life cycle in flight
  Versions,      \* n stands for the version string v0.n; those that are quoted
  None,
  Timeout,       \* REVIEW_ROUND_TIMEOUT_MS
  MaxRound       \* bound: rounds

ASSUME RoundsAssumption ==
  /\ Members # {} /\ IsFiniteSet(Members)
  /\ By \in [Messages -> Members] /\ Approving \subseteq Messages
  /\ Versions \subseteq 1 .. 98
  /\ None \notin Messages \cup Nat
  /\ {Timeout, MaxRound} \subseteq Nat \ {0}

VARIABLES
  ledger,        \* the round ledger, None before the first dispatch
  left,          \* time left to the ledger's timeoutAt
  heard,         \* messages that have been announced
  call,          \* of each recordVerdict(): where it is and what it carries
  opening,       \* of the dispatch: where it is and what it carries
  timer, wait,   \* of each round: its time-out trigger, with its handler; time left
  plan, frozen,  \* columns status and frozen_version of the plan
  request,       \* of each user: where the request is and what it has read
  counted,       \* history: the verdicts counted in a round
  kept,          \* history: the round whose trigger was set for the ledger's timeoutAt
  overtaken      \* history: a new round was opened while one was being closed

review == <<ledger, left, timer, wait, opening, kept, overtaken>>
verdicts == <<heard, call, counted>>
lifecycle == <<plan, frozen, request>>
vars == <<review, verdicts, lifecycle>>

-----------------------------------------------------------------------------
(* The ledger.                                                             *)

Ledger == [round    : 1 .. MaxRound,
           version  : Nat,
           received : [Members -> Messages \cup {None}],
           archive  : SUBSET Messages,
           status   : {"collecting", "complete", "stale"}]

ASSUME NoneAssumption == None \notin Ledger

NoVotes == [m \in Members |-> None]
createLedger ==
  [round |-> 1, version |-> 1, received |-> NoVotes, archive |-> {}, status |-> "collecting"]

\* comparePlanVersion, for v0.a and v0.b: as strings.
Lower(a, b) ==
  \/ (a < 10 <=> b < 10) /\ a < b
  \/ a < 10 /\ b >= 10 /\ a <= b \div 10
  \/ a >= 10 /\ b < 10 /\ a \div 10 < b

\* bumpPlanVersion
Bump(v) == v + 1

mergePlanVersion(base, v) == IF Lower(v, base) THEN base ELSE v

Received(l) == {l.received[m] : m \in Members} \ {None}

\* Mutant of mergeLedger: a new round drops what the old one had received.
mergeLedgerForgets(l, round, version) ==
  [l EXCEPT !.round = IF round > @ THEN round ELSE @,
            !.version = mergePlanVersion(@, version),
            !.received = IF round > l.round THEN NoVotes ELSE @]

\* Mutant of mergeLedger: the round is taken from the update as it is.
mergeLedgerTakesRound(l, round, version) ==
  [l EXCEPT !.round = IF round = 0 THEN @ ELSE round,
            !.version = mergePlanVersion(@, version),
            !.archive = IF round > l.round THEN @ \cup Received(l) ELSE @,
            !.received = IF round > l.round THEN NoVotes ELSE @]

\* Round (0: not given) and version only rise; a new round archives what the old
\* one received.
mergeLedger(l, round, version) ==
  [l EXCEPT !.round = IF round > @ THEN round ELSE @,
            !.version = mergePlanVersion(@, version),
            !.archive = IF round > l.round THEN @ \cup Received(l) ELSE @,
            !.received = IF round > l.round THEN NoVotes ELSE @]

\* Mutant of resolveVerdict: a verdict is stored with the reviewer it replaces.
resolveVerdictKeepsBoth(l, m, version) ==
  IF version = l.version THEN [l EXCEPT !.received[By[m]] = {@, m}]
  ELSE [l EXCEPT !.archive = @ \cup {m}]

\* A verdict on another version than the round's is archived.
resolveVerdict(l, m, version) ==
  IF version = l.version THEN [l EXCEPT !.received[By[m]] = m]
  ELSE [l EXCEPT !.archive = @ \cup {m}]

\* Mutant of isConverged: one reviewer may be missing.
isConvergedButOne(l) ==
  Cardinality({m \in Members : l.received[m] # None}) >= Cardinality(Members) - 1

isConverged(l) == \A m \in Members : l.received[m] # None
isAllApprove(l) == \A m \in Members : l.received[m] \in Approving

Idle == [step |-> "idle"]
Actions == {"finalize", "confirm", "reject", "revise", "complete"}
Closing == \E c \in Calls : call[c].step = "close"

\* What a write of the ledger opens or overtakes (history).
Opened(l) ==
  overtaken' = (overtaken \/ (Closing /\ ledger # None /\ l.round > ledger.round))

-----------------------------------------------------------------------------

TypeOK ==
  /\ ledger \in Ledger \cup {None}
  /\ left \in 0 .. Timeout
  /\ heard \subseteq Messages
  /\ call \in [Calls -> {Idle} \cup [step : {"write"}, msg : Messages, version : Versions]
                        \cup [step : {"close"}]
                        \cup [step : {"flip"}, to : {"pending_final", "draft"}]]
  /\ opening \in {Idle} \cup [step : {"open", "schedule"}, round : 1 .. MaxRound, version : Versions]
  /\ timer \in [1 .. MaxRound -> {"none", "armed", "check", "stale", "over", "lost"}]
  /\ wait \in [1 .. MaxRound -> 0 .. Timeout]
  /\ plan \in {"draft", "pending_final", "approved", "executing", "completed"}
  /\ frozen \in Nat \cup {None}
  /\ request \in [Users -> {Idle} \cup [step : {"read", "write", "raise"}, act : Actions,
                                       freezes : BOOLEAN, round : 0 .. MaxRound, version : Nat]]
  /\ counted \subseteq Messages \X (1 .. MaxRound)
  /\ kept \in 0 .. MaxRound
  /\ overtaken \in BOOLEAN

Init ==
  /\ ledger = None /\ left = 0
  /\ heard = {}
  /\ call = [c \in Calls |-> Idle]
  /\ opening = Idle
  /\ timer = [n \in 1 .. MaxRound |-> "none"]
  /\ wait = [n \in 1 .. MaxRound |-> 0]
  /\ plan = "draft" /\ frozen = None
  /\ request = [u \in Users |-> Idle]
  /\ counted = {} /\ kept = 0 /\ overtaken = FALSE

-----------------------------------------------------------------------------
(* A dispatch of kind review: openReviewRound.                             *)

terminal == ledger.status \in {"complete", "stale"}

\* It reads the ledger, and leaves a terminal or a later round alone.
DispatchReads(n, v) ==
  /\ opening = Idle
  /\ ledger # None => n >= ledger.round /\ (terminal => n > ledger.round)
  /\ opening' = [step |-> "open", round |-> n, version |-> v]
  /\ UNCHANGED <<ledger, left, timer, wait, kept, overtaken, verdicts, lifecycle>>

\* It writes it: whatever the ledger has become, it is collecting now.
openReviewRound ==
  /\ opening.step = "open"
  /\ LET base == IF ledger = None THEN createLedger ELSE ledger
         new == [mergeLedger(base, opening.round, opening.version) EXCEPT !.status = "collecting"]
     IN ledger' = new /\ Opened(new)
  /\ left' = Timeout
  /\ kept' = 0
  /\ opening' = [opening EXCEPT !.step = "schedule"]
  /\ UNCHANGED <<timer, wait, verdicts, lifecycle>>

\* Mutant of scheduleReviewRoundTimeout: the trigger is set before the date.
scheduleReviewRoundTimeoutEarly ==
  /\ opening.step = "schedule"
  /\ LET n == opening.round IN
     IF timer[n] = "none"
     THEN /\ timer' = [timer EXCEPT ![n] = "armed"]
          /\ wait' = [wait EXCEPT ![n] = 0]
          /\ kept' = n
     ELSE UNCHANGED <<timer, wait, kept>>
  /\ opening' = Idle
  /\ UNCHANGED <<ledger, left, overtaken, verdicts, lifecycle>>

\* schedule() with the key of issue and round: a second one changes nothing.
scheduleReviewRoundTimeout ==
  /\ opening.step = "schedule"
  /\ LET n == opening.round IN
     IF timer[n] = "none"
     THEN /\ timer' = [timer EXCEPT ![n] = "armed"]
          /\ wait' = [wait EXCEPT ![n] = left]
          /\ kept' = n
     ELSE UNCHANGED <<timer, wait, kept>>
  /\ opening' = Idle
  /\ UNCHANGED <<ledger, left, overtaken, verdicts, lifecycle>>

\* The write of the ledger, or that of the trigger, fails: logged, given up.
DispatchFails ==
  /\ opening # Idle
  /\ opening' = Idle
  /\ UNCHANGED <<ledger, left, timer, wait, kept, overtaken, verdicts, lifecycle>>

-----------------------------------------------------------------------------
(* A verdict: recordVerdict.                                               *)

Step(c, s) == call' = [call EXCEPT ![c] = s]

\* The gate reads the ledger; a terminal one takes no verdict.
recordVerdict(c, m, v) ==
  /\ call[c] = Idle /\ m \notin heard /\ ledger # None
  /\ heard' = heard \cup {m}
  /\ IF terminal THEN UNCHANGED call
     ELSE Step(c, [step |-> "write", msg |-> m, version |-> v])
  /\ UNCHANGED <<review, counted, lifecycle>>

\* It writes the verdict, and goes on to close the round if that was the last.
VerdictWritten(c) ==
  /\ call[c].step = "write"
  /\ LET m == call[c].msg
         new == resolveVerdict(ledger, m, call[c].version)
     IN /\ ledger' = new
        /\ Step(c, IF isConverged(new) /\ new.status # "complete" THEN [step |-> "close"] ELSE Idle)
        /\ counted' = IF new.received[By[m]] # m THEN counted
                      ELSE {x \in counted : By[x[1]] # By[m] \/ x[2] # new.round}
                             \cup {<<m, new.round>>}
  /\ UNCHANGED <<left, timer, wait, opening, kept, overtaken, heard, lifecycle>>

\* It closes the round; the polarity is that of the ledger it gets back.
RoundClosed(c) ==
  /\ call[c].step = "close"
  /\ ledger' = [ledger EXCEPT !.status = "complete"]
  /\ Step(c, [step |-> "flip", to |-> IF isAllApprove(ledger) THEN "pending_final" ELSE "draft"])
  /\ UNCHANGED <<left, timer, wait, opening, kept, overtaken, heard, counted, lifecycle>>

\* transitionPlanStatus, whatever the plan has become; a failure is logged.
PlanFlipped(c) ==
  /\ call[c].step = "flip"
  /\ plan' = call[c].to \/ UNCHANGED plan
  /\ Step(c, Idle)
  /\ UNCHANGED <<review, heard, counted, frozen, request>>

\* A write of the ledger throws: the listener logs it.
VerdictFails(c) ==
  /\ call[c].step \in {"write", "close"}
  /\ Step(c, Idle)
  /\ UNCHANGED <<review, heard, counted, lifecycle>>

-----------------------------------------------------------------------------
(* The time-out: ReviewRoundTimeoutHandler.handle and checkTimeout.        *)

Handler(n, s) == timer' = [timer EXCEPT ![n] = s]
OutsideTimeout == UNCHANGED <<left, wait, opening, kept, overtaken, verdicts, lifecycle>>

\* The trigger fires, once; the handler reads the ledger.
TimerFires(n) ==
  /\ timer[n] = "armed" /\ wait[n] = 0
  /\ Handler(n, IF ledger.round = n /\ ledger.status = "collecting" THEN "check" ELSE "over")
  /\ UNCHANGED ledger
  /\ OutsideTimeout

\* The gate reads it again and compares the date.
checkTimeout(n) ==
  /\ timer[n] = "check"
  /\ Handler(n, IF ledger.status = "collecting" /\ left = 0 THEN "stale" ELSE "over")
  /\ UNCHANGED ledger
  /\ OutsideTimeout

TurnsStale(n) ==
  /\ timer[n] = "stale"
  /\ ledger' = [ledger EXCEPT !.status = "stale"]
  /\ Handler(n, "over")
  /\ OutsideTimeout

\* A read or the write throws: logged, and the trigger is over all the same.
TimeoutFails(n) ==
  /\ timer[n] \in {"check", "stale"} \/ (timer[n] = "armed" /\ wait[n] = 0)
  /\ Handler(n, "lost")
  /\ UNCHANGED ledger
  /\ OutsideTimeout

-----------------------------------------------------------------------------
(* The plan's life cycle: confirmPlan and completePlan.                    *)

\* The states that admit an action, for a user who skips the review and for
\* the main agent of a managed team (waived), and for everybody else.
Admits(act, waived) ==
  CASE act = "finalize" -> {"pending_final"} \cup (IF waived THEN {"draft"} ELSE {})
    [] act = "confirm"  -> {"approved"} \cup (IF waived THEN {"draft", "pending_final"} ELSE {})
    [] act = "reject"   -> {"approved"}
    [] act = "revise"   -> {"executing", "completed"}
    [] act = "complete" -> {"executing"}

Target(act) ==
  CASE act = "finalize" -> "approved" [] act = "confirm" -> "executing"
    [] act = "complete" -> "completed" [] OTHER -> "draft"

\* Mutant of Freezes: a start that skips the finalisation freezes nothing.
FreezesFinal(act, status) == act = "finalize"

\* An action that finalises the plan writes the frozen version with it.
Freezes(act, status) == act = "finalize" \/ (act = "confirm" /\ status # "approved")

SendsBack(act) == act \in {"reject", "revise"}
Go(u, r) == request' = [request EXCEPT ![u] = r]
OutsidePlan == UNCHANGED <<left, timer, wait, opening, verdicts>>

\* loadWritablePlan, and the guard on what it has read.
loadWritablePlan(u, act, waived) ==
  /\ request[u] = Idle /\ plan \in Admits(act, waived)
  /\ Go(u, [step |-> IF Freezes(act, plan) \/ SendsBack(act) THEN "read" ELSE "write",
            act |-> act, freezes |-> Freezes(act, plan), round |-> 0, version |-> 1])
  /\ UNCHANGED <<ledger, kept, overtaken, plan, frozen>>
  /\ OutsidePlan

\* findLedgerHost: no ledger, no version to freeze but v0.1, none to raise.
findLedgerHost(u) ==
  /\ request[u].step = "read"
  /\ (request[u].act = "revise" /\ ledger # None) => ledger.round < MaxRound
  /\ LET raises == ledger # None /\ SendsBack(request[u].act)
     IN Go(u, [request[u] EXCEPT !.step = "write",
                                 !.round = IF raises THEN ledger.round ELSE 0,
                                 !.version = IF ledger = None THEN 1 ELSE ledger.version])
  /\ UNCHANGED <<ledger, kept, overtaken, plan, frozen>>
  /\ OutsidePlan

\* transition: an update of the row by its task, whatever the status is by then.
transition(u) ==
  /\ request[u].step = "write"
  /\ plan' = Target(request[u].act)
  /\ frozen' = IF request[u].freezes THEN request[u].version ELSE frozen
  /\ Go(u, IF SendsBack(request[u].act) /\ request[u].round > 0
           THEN [request[u] EXCEPT !.step = "raise"] ELSE Idle)
  /\ UNCHANGED <<ledger, kept, overtaken>>
  /\ OutsidePlan

\* bumpLedgerVersion after a reject; it may fail, the plan is back all the same.
bumpLedgerVersion(u) ==
  /\ request[u].step = "raise" /\ request[u].act = "reject"
  /\ ledger' = mergeLedger(ledger, 0, Bump(request[u].version)) \/ UNCHANGED ledger
  /\ Go(u, Idle)
  /\ UNCHANGED <<kept, overtaken, plan, frozen>>
  /\ OutsidePlan

\* openNextRound after a revise: no new date, no new trigger. When it overlaps
\* a dispatch it may also reopen a round that has ended.
openNextRound(u) ==
  /\ request[u].step = "raise" /\ request[u].act = "revise"
  /\ \/ /\ LET new == [mergeLedger(ledger, request[u].round + 1, Bump(request[u].version))
                         EXCEPT !.status = "collecting"]
           IN ledger' = new /\ Opened(new)
        /\ kept' = IF ledger.status = "collecting" THEN kept ELSE 0
     \/ UNCHANGED <<ledger, kept, overtaken>>
  /\ Go(u, Idle)
  /\ UNCHANGED <<plan, frozen>>
  /\ OutsidePlan

-----------------------------------------------------------------------------

TimePasses ==
  /\ left > 0
  /\ left' = left - 1
  /\ wait' = [n \in 1 .. MaxRound |-> IF wait[n] > 0 THEN wait[n] - 1 ELSE 0]
  /\ UNCHANGED <<ledger, timer, opening, kept, overtaken, verdicts, lifecycle>>

\* The server restarts: what was in flight is gone, the rows stay.
Crash ==
  /\ call' = [c \in Calls |-> Idle]
  /\ opening' = Idle
  /\ request' = [u \in Users |-> Idle]
  /\ timer' = [n \in 1 .. MaxRound |-> IF timer[n] \in {"check", "stale"} THEN "lost" ELSE timer[n]]
  /\ UNCHANGED <<ledger, left, wait, kept, overtaken, heard, counted, plan, frozen>>

dispatch ==
  \/ \E n \in 1 .. MaxRound, v \in Versions : DispatchReads(n, v)
  \/ openReviewRound \/ scheduleReviewRoundTimeout

verdict(c) ==
  \/ \E m \in Messages, v \in Versions : recordVerdict(c, m, v)
  \/ VerdictWritten(c) \/ RoundClosed(c) \/ PlanFlipped(c) \/ VerdictFails(c)

handle(n) == TimerFires(n) \/ checkTimeout(n) \/ TurnsStale(n)

confirmPlan(u) ==
  \/ \E act \in Actions, waived \in BOOLEAN : loadWritablePlan(u, act, waived)
  \/ findLedgerHost(u) \/ transition(u) \/ bumpLedgerVersion(u) \/ openNextRound(u)

UndisturbedNext ==
  \/ dispatch
  \/ \E c \in Calls : verdict(c)
  \/ \E n \in 1 .. MaxRound : handle(n)
  \/ \E u \in Users : confirmPlan(u)
  \/ TimePasses

Next ==
  \/ UndisturbedNext
  \/ DispatchFails
  \/ \E n \in 1 .. MaxRound : TimeoutFails(n)
  \/ Crash

Spec == Init /\ [][Next]_vars

\* Time passes, a dispatch that has begun goes on, triggers fire, and so does
\* the handler that one has called.
Fairness ==
  /\ WF_vars(TimePasses)
  /\ WF_vars(openReviewRound) /\ WF_vars(scheduleReviewRoundTimeout)
  /\ \A n \in 1 .. MaxRound : WF_vars(handle(n))

FairSpec == Spec /\ Fairness

\* No dispatch and no time-out fails, and no restart comes.
UndisturbedSpec == Init /\ [][UndisturbedNext]_vars /\ Fairness

-----------------------------------------------------------------------------
(* Properties.                                                             *)

\* "no double write is lost" (review-round.service.ts:21): a verdict that was
\* counted stays in the ledger, as received or in the archive, unless the same
\* reviewer has voted again in that round.
NoVerdictLost ==
  \A x \in counted : x[1] \in ledger.archive \cup Received(ledger)

\* However verdicts, dispatches, revisions and the time-out interleave, a round
\* that is complete has a verdict of every expected reviewer - unless a new
\* round was opened between the last verdict of the old one and its closing.
CompleteIsConverged ==
  ledger # None /\ ledger.status = "complete" =>
    None \notin {ledger.received[m] : m \in Members} \/ overtaken

\* Neither a dispatch that has read an older round nor a revision that has read
\* an older version takes the ledger back.
RoundAdvances ==
  [][ledger # None => /\ ledger' # None
                      /\ ledger'.round >= ledger.round
                      /\ ~Lower(ledger'.version, ledger.version)]_vars

\* A plan is never approved, executed or completed without a frozen version,
\* by whichever way, and past whatever verdict or rejection, it got there.
FrozenWhenFinal == plan \in {"approved", "executing", "completed"} => frozen # None

Collecting(n) == ledger # None /\ ledger.round = n /\ ledger.status = "collecting"

\* A round whose trigger was set for its own date does not collect for ever:
\* it is completed or turns stale, or another one is opened - unless it is
\* dispatched again, or the handler fails or is caught by a restart.
RoundEnds ==
  \A n \in 1 .. MaxRound :
    (Collecting(n) /\ kept = n)
      ~> (~Collecting(n) \/ kept # n \/ timer[n] = "lost")

\* "after timeoutAt, still not complete: stale" (review-round-gate.service.ts:32):
\* a round that is past its date stops collecting, or gets another date.
TimeoutTurnsStale ==
  \A n \in 1 .. MaxRound : (Collecting(n) /\ left = 0) ~> (~Collecting(n) \/ left > 0)
=============================================================================
