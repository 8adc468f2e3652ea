---------------------------- MODULE FanOutDrain ----------------------------
(***************************************************************************)
(* The reply-join "drain" of one team (platform-mcp.service.ts): the main  *)
(* agent fans work out, each dispatch leaves a pending receipt, and when a *)
(* receipt is settled a debounced check counts what is still pending and   *)
(* wakes the main agent once nothing is.  Everything but the receipts is   *)
(* memory of the one server process: a debounce timer, a claim, a recheck  *)
(* timer for a busy main agent.                                            *)
(*                                                                         *)
(* Node runs the code between two awaits without interruption: each such   *)
(* stretch of executeDrainWake is one action.  Receipts are settled by     *)
(* module Receipts in many ways; here one is settled, perhaps once more,   *)
(* and its hook is called some time after the write.  Message texts are    *)
(* left out.                                                               *)
(***************************************************************************)
EXTENDS Integers, FiniteSets

CONSTANTS
  Rows,          \* receipts that may be written
  Members,       \* members of the team
  Main,          \* the team's main agent
  From,          \* From[r]: who dispatched r; subs also ask the main agent questions
  Execs,         \* invocations of executeDrainWake that can be in flight together
  None,          \* no timer, no entry
  MaxVetoes,     \* DRAIN_RECHECK_MAX_VETOES
  MaxReports,    \* bound: answers, and second settlements, that ask for a check and change
                 \* no receipt
  MaxFaults,     \* bound: database or dispatch errors in a drain
  MaxCrashes     \* bound: restarts of the server

ASSUME DrainAssumption ==
  /\ Main \in Members
  /\ None \notin Members
  /\ From \in [Rows -> Members]
  /\ {MaxVetoes, MaxReports, MaxFaults, MaxCrashes} \subseteq Nat

VARIABLES
  row,           \* "pending" counts, "overdue" (past expiresAt, not yet swept) does not
  unheard,       \* settled receipts whose settled hook has not been called yet
  timer,         \* drainTimers: the member the running debounce timer is for
  claim,         \* drainClaims holds the team
  phase, axis,   \* where each executeDrainWake is, and the member it counts for
  recheck,       \* drainRecheckTimers: its timer is gone once it has fired
  busy,          \* members with a running, pending or executing session
  reports, faults, crashes,
  signals, wakes,    \* history: checks asked for by settlements and answers; drain wakes
  owed, lost         \* history: a convergence is not served yet; a signal went astray

books == <<row, unheard, busy, reports, faults, crashes>>
drain == <<timer, claim, phase, axis, recheck>>
history == <<signals, wakes, owed, lost>>
vars == <<books, drain, history>>

Phases == {"idle", "count", "session", "wake", "finish"}
Recheck == [vetoes : Nat, axis : Members, armed : BOOLEAN]

BooksOK ==
  /\ row \in [Rows -> {"none", "pending", "overdue", "settled"}]
  /\ unheard \in SUBSET Rows
  /\ \A r \in unheard : row[r] = "settled"
  /\ busy \in SUBSET Members
  /\ reports \in Nat /\ faults \in Nat /\ crashes \in Nat

DrainOK ==
  /\ timer \in Members \cup {None}
  /\ claim \in BOOLEAN
  /\ phase \in [Execs -> Phases]
  /\ axis \in [Execs -> Members]
  /\ recheck \in Recheck \cup {None}
  /\ recheck # None => recheck.vetoes \in 1 .. MaxVetoes

HistoryOK ==
  /\ signals \in Nat /\ wakes \in Nat
  /\ owed \in BOOLEAN /\ lost \in BOOLEAN

TypeOK == BooksOK /\ DrainOK /\ HistoryOK

Init ==
  /\ row = [r \in Rows |-> "none"]
  /\ unheard = {}
  /\ timer = None
  /\ claim = FALSE
  /\ phase = [e \in Execs |-> "idle"]
  /\ axis = [e \in Execs |-> Main]
  /\ recheck = None
  /\ busy = {}
  /\ reports = 0 /\ faults = 0 /\ crashes = 0
  /\ signals = 0 /\ wakes = 0
  /\ owed = FALSE /\ lost = FALSE

-----------------------------------------------------------------------------
(* The receipts and the members' turns, as far as the drain sees them.     *)

\* countPendingFor: pending and not past expiresAt.
Pending(m) == {r \in Rows : From[r] = m /\ row[r] = "pending"}

\* A member in its turn calls notify_agent, which writes a pending receipt.
Dispatch(r) ==
  /\ row[r] = "none" /\ From[r] \in busy
  /\ row' = [row EXCEPT ![r] = "pending"]
  /\ IF From[r] = Main
     THEN owed' = FALSE /\ lost' = FALSE
     ELSE UNCHANGED <<owed, lost>>
  /\ UNCHANGED <<unheard, busy, reports, faults, crashes, drain, signals, wakes>>

\* expiresAt passes; the sweep comes a grace period later.
FallsDue(r) ==
  /\ row[r] = "pending"
  /\ row' = [row EXCEPT ![r] = "overdue"]
  /\ UNCHANGED <<unheard, busy, reports, faults, crashes, drain, history>>

\* An answer, the end of the assignee's turn, a quotation, the main agent's
\* reply to a question, a superseding dispatch or the expiry sweep.
Settle(r) ==
  /\ row[r] \in {"pending", "overdue"}
  /\ row' = [row EXCEPT ![r] = "settled"]
  /\ unheard' = unheard \cup {r}
  /\ owed' = (owed \/ (From[r] = Main /\ Pending(Main) \subseteq {r}))
  /\ UNCHANGED <<busy, reports, faults, crashes, drain, signals, wakes, lost>>

\* ack() and the two ways to expire a receipt have read it as pending and update
\* it by its id, whatever it has become: the hook is called once more.  (Two
\* calls that are both still to come are one: the second changes nothing.)
SettleAgain(r) ==
  /\ row[r] = "settled" /\ r \notin unheard
  /\ reports < MaxReports
  /\ reports' = reports + 1
  /\ unheard' = unheard \cup {r}
  /\ UNCHANGED <<row, busy, faults, crashes, drain, history>>

TurnStarts(m) ==
  /\ m \notin busy
  /\ busy' = busy \cup {m}
  /\ UNCHANGED <<row, unheard, reports, faults, crashes, drain, history>>

TurnEnds(m) ==
  /\ m \in busy
  /\ busy' = busy \ {m}
  /\ UNCHANGED <<row, unheard, reports, faults, crashes, drain, history>>

-----------------------------------------------------------------------------
(* Asking for a check.                                                     *)

\* checkAndDrainFanOut: one debounce timer per team; a later call replaces
\* it, and with it the member whose receipts will be counted.
CheckAndDrain(m) ==
  /\ timer' = m
  /\ lost' = (lost \/ timer \notin {None, m})

\* The settled hook counts for the receipt's sender, whoever that is.
Hook(r) ==
  /\ r \in unheard
  /\ unheard' = unheard \ {r}
  /\ CheckAndDrain(From[r])
  /\ signals' = signals + 1
  /\ UNCHANGED <<row, busy, reports, faults, crashes, claim, phase, axis, recheck,
                 wakes, owed>>

\* ackAndDrain: every answer to the main agent asks for a check of its own,
\* after it has settled what there was to settle.
Report ==
  /\ reports < MaxReports
  /\ reports' = reports + 1
  /\ CheckAndDrain(Main)
  /\ signals' = signals + 1
  /\ UNCHANGED <<row, unheard, busy, faults, crashes, claim, phase, axis, recheck,
                 wakes, owed>>

\* Mutant of RecheckFires: setInterval in the place of setTimeout.
RecheckFiresAgain ==
  /\ recheck # None /\ recheck.armed
  /\ CheckAndDrain(recheck.axis)
  /\ UNCHANGED <<books, claim, phase, axis, recheck, signals, wakes, owed>>

\* The recheck timer fires: same check again; the entry keeps its veto count.
RecheckFires ==
  /\ recheck # None /\ recheck.armed
  /\ recheck' = [recheck EXCEPT !.armed = FALSE]
  /\ CheckAndDrain(recheck.axis)
  /\ UNCHANGED <<books, claim, phase, axis, signals, wakes, owed>>

-----------------------------------------------------------------------------
(* executeDrainWake.                                                       *)

\* cancelDrainRecheck
CancelRecheck(m) ==
  /\ recheck' = None
  /\ lost' = (lost \/ (recheck # None /\ recheck.armed /\ recheck.axis # m))

\* Mutant of ArmRecheck: it never gives up.
ArmRecheckForever(m) ==
  /\ recheck' = [vetoes |-> (IF recheck = None THEN 0 ELSE recheck.vetoes) + 1,
                 axis |-> m, armed |-> TRUE]
  /\ lost' = (lost \/ (recheck # None /\ recheck.armed /\ recheck.axis # m))
  /\ UNCHANGED owed

\* armDrainRecheck, which gives up after MaxVetoes vetoes in a row.
ArmRecheck(m) ==
  LET vetoes == (IF recheck = None THEN 0 ELSE recheck.vetoes) + 1 IN
  /\ recheck' = IF vetoes > MaxVetoes THEN None
                ELSE [vetoes |-> vetoes, axis |-> m, armed |-> TRUE]
  /\ owed' = (owed /\ vetoes <= MaxVetoes)
  /\ lost' = (lost \/ (recheck # None /\ recheck.armed /\ recheck.axis # m))

Release(e) ==
  /\ claim' = FALSE
  /\ phase' = [phase EXCEPT ![e] = "idle"]

\* Mutant of TimerFires: the claim is taken without a look at it.
TimerFiresUnclaimed(e) ==
  /\ timer # None /\ phase[e] = "idle"
  /\ timer' = None
  /\ claim' = TRUE
  /\ phase' = [phase EXCEPT ![e] = "count"]
  /\ axis' = [axis EXCEPT ![e] = timer]
  /\ UNCHANGED <<books, recheck, signals, wakes, owed, lost>>

\* The debounce timer fires.  If a drain of the team is under way, the signal
\* is dropped.
TimerFires(e) ==
  /\ timer # None /\ phase[e] = "idle"
  /\ timer' = None
  /\ \/ /\ claim
        /\ lost' = TRUE
        /\ UNCHANGED <<claim, phase, axis>>
     \/ /\ ~claim
        /\ claim' = TRUE
        /\ phase' = [phase EXCEPT ![e] = "count"]
        /\ axis' = [axis EXCEPT ![e] = timer]
        /\ UNCHANGED lost
  /\ UNCHANGED <<books, recheck, signals, wakes, owed>>

CountPending(e) ==
  /\ phase[e] = "count"
  /\ \/ /\ Pending(axis[e]) # {}
        /\ CancelRecheck(axis[e])
        /\ Release(e)
     \/ /\ Pending(axis[e]) = {}
        /\ phase' = [phase EXCEPT ![e] = "session"]
        /\ UNCHANGED <<claim, recheck, lost>>
  /\ UNCHANGED <<books, timer, axis, signals, wakes, owed>>

\* Mutant of CheckSession: a veto that just returns, without a recheck.
CheckSessionBareReturn(e) ==
  /\ phase[e] = "session"
  /\ \/ /\ axis[e] \in busy
        /\ Release(e)
     \/ /\ axis[e] \notin busy
        /\ phase' = [phase EXCEPT ![e] = "wake"]
        /\ UNCHANGED <<claim>>
  /\ UNCHANGED <<books, timer, axis, recheck, signals, wakes, owed, lost>>

\* The session that may veto the wake is that of the member counted for.
CheckSession(e) ==
  /\ phase[e] = "session"
  /\ \/ /\ axis[e] \in busy
        /\ ArmRecheck(axis[e])
        /\ Release(e)
     \/ /\ axis[e] \notin busy
        /\ phase' = [phase EXCEPT ![e] = "wake"]
        /\ UNCHANGED <<claim, recheck, owed, lost>>
  /\ UNCHANGED <<books, timer, axis, signals, wakes>>

\* wakeMainAgent: a turn for the main agent, whatever it is doing.
WakeMain(e) ==
  /\ phase[e] = "wake"
  /\ phase' = [phase EXCEPT ![e] = "finish"]
  /\ busy' = busy \cup {Main}
  /\ wakes' = wakes + 1
  /\ owed' = FALSE
  /\ UNCHANGED <<row, unheard, reports, faults, crashes, timer, claim, axis, recheck,
                 signals, lost>>

\* cancelDrainRecheck, and the finally block.
Finish(e) ==
  /\ phase[e] = "finish"
  /\ CancelRecheck(axis[e])
  /\ Release(e)
  /\ UNCHANGED <<books, timer, axis, signals, wakes, owed>>

\* A query or the dispatch throws: caught and logged, the claim is released.
DrainFails(e) ==
  /\ phase[e] \in {"count", "session", "wake"} /\ faults < MaxFaults
  /\ faults' = faults + 1
  /\ owed' = FALSE
  /\ Release(e)
  /\ UNCHANGED <<row, unheard, busy, reports, crashes, timer, axis, recheck,
                 signals, wakes, lost>>

-----------------------------------------------------------------------------

\* A restart loses every timer and every hook that was still to be called.
Crash ==
  /\ crashes < MaxCrashes
  /\ crashes' = crashes + 1
  /\ unheard' = {}
  /\ timer' = None
  /\ claim' = FALSE
  /\ phase' = [e \in Execs |-> "idle"]
  /\ recheck' = None
  /\ owed' = FALSE
  /\ UNCHANGED <<row, busy, reports, faults, axis, signals, wakes, lost>>

DrainStep(e) ==
  \/ TimerFires(e) \/ CountPending(e) \/ CheckSession(e)
  \/ WakeMain(e) \/ Finish(e) \/ DrainFails(e)

Next ==
  \/ \E r \in Rows : Dispatch(r) \/ FallsDue(r) \/ Settle(r) \/ SettleAgain(r) \/ Hook(r)
  \/ \E m \in Members : TurnStarts(m) \/ TurnEnds(m)
  \/ Report
  \/ RecheckFires
  \/ \E e \in Execs : DrainStep(e)
  \/ Crash

Spec == Init /\ [][Next]_vars

\* The event loop runs what is due: hooks, timers and started drains.  Nobody
\* owes a dispatch, an answer, the start or the end of a turn.
Fairness ==
  /\ \A r \in Rows : WF_vars(Hook(r))
  /\ WF_vars(RecheckFires)
  /\ \A e \in Execs : WF_vars(DrainStep(e))

FairSpec == Spec /\ Fairness

-----------------------------------------------------------------------------
(* Properties.                                                             *)

\* The claim: at most one drain of a team is between its count and its wake.
OneExecutor == \A e1, e2 \in Execs : phase[e1] # "idle" /\ phase[e2] # "idle" => e1 = e2

\* Checks in flight: the debounce timer, the executor, an armed recheck.
InFlight == (IF timer # None THEN 1 ELSE 0)
          + (IF \E e \in Execs : phase[e] \in {"count", "session", "wake"} THEN 1 ELSE 0)
          + (IF recheck # None /\ recheck.armed THEN 1 ELSE 0)

\* No signal wakes the main agent twice, however vetoes, rechecks, replaced
\* timers and errors interleave: a wake and every check still in flight go
\* back to a settlement or an answer of their own.
WakesArePaidFor == wakes + InFlight <= signals

\* Once the last pending receipt of the main agent is settled, the main agent
\* is woken, or fans out again, or the drain gives up (vetoes, error, restart)
\* - unless a signal went astray: it met a drain under way, or a check for
\* another member replaced or cancelled it.
ConvergenceServed == owed ~> (~owed \/ lost)

=============================================================================
