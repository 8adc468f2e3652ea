------------------------------- MODULE Turns -------------------------------
(***************************************************************************)
(* How the server follows the turns of one team member's session           *)
(* (worker-dispatcher.ts, worker-event.ingress.ts).  A dispatch hands a    *)
(* message to the worker: as an execution of its own or, when one is in    *)
(* flight, injected into it.  A silence watchdog, in memory and as a       *)
(* durable trigger row, wakes a session whose reports stay away and gives  *)
(* it up after MaxWakes wakes.  The worker's reports close the turn: the   *)
(* ingress stops the watchdog at once, a handler that nobody waits for     *)
(* stores the reply or the failure.                                        *)
(*                                                                         *)
(* What the dispatcher remembers of a session (registration, flags,        *)
(* watchdog, wakes) is in memory and keyed by the session or its member,   *)
(* not by the turn.                                                        *)
(*                                                                         *)
(* The worker is module PromptRun reduced to its reports; it is alive or   *)
(* not, and may take for ever.  Every turn there is an execution of its    *)
(* own: the worker's injection is never taken (PromptRun!Accept).  A       *)
(* window of silence passes at any time.  A query, a write or a broadcast  *)
(* of the server may fail wherever one is made, up to MaxUpsets times.     *)
(* Left out: the idle scan, off by default, the prompt, the channels, and  *)
(* a session that has no instance.                                         *)
(***************************************************************************)
EXTENDS Integers, FiniteSets

CONSTANTS
  Messages,      \* messages to the member, each sent once
  Wakes,         \* the dispatches that a silent session is woken with
  MaxWakes,      \* MAX_SILENT_WAKE_ATTEMPTS
  MaxUpsets      \* bound: restarts, deaths of the worker, lost reports, failed calls

ASSUME TurnsAssumption ==
  /\ IsFiniteSet(Messages) /\ IsFiniteSet(Wakes)
  /\ Messages \cap Wakes = {}
  /\ {MaxWakes, MaxUpsets} \subseteq Nat

VARIABLES
  session,       \* Session.status, in the database
  registered,    \* activeExecutions has the member
  completed, failed,   \* completedSessions, failedSessions
  watch,         \* pending: the silence watchdog, and whether its row is being saved
  rows,          \* durable deadlines: the watchdog's own, and one it has let go
  attempts,      \* silentWakeAttempts
  reaping,       \* reapSilenceDeadline, called by the timer and by the row
  dispatch,      \* where each dispatchForTeamTarget is
  injected,      \* turns sent into an execution in flight
  handler,       \* handleTaskCompleted and handleAgentStatus of each turn
  worker, alive, \* the worker's side of each turn
  upsets,
  heard,         \* history: what the user has heard of each message
  excused        \* history: overlapped with another turn, or hit by an upset

memory == <<registered, completed, failed, watch, attempts, reaping>>
turns == <<dispatch, injected, handler, worker>>
history == <<heard, excused>>
vars == <<session, memory, rows, turns, alive, upsets, history>>

Turns == Messages \cup Wakes
DispatchSteps == {"none", "guard", "check", "send", "sent", "announce", "done"}
HandlerSteps == {"none", "settle", "store", "fail"}
\* idle, completed, error: the first of the two reports that end a turn is out.
WorkerSteps == {"none", "accepted", "running", "idle", "completed", "error", "over"}

TypeOK ==
  /\ session \in {"created", "running", "idle", "failed"}
  /\ registered \in BOOLEAN /\ completed \in BOOLEAN /\ failed \in BOOLEAN
  /\ watch \in {"off", "saving", "on"}
  /\ rows \in SUBSET {"own", "orphan"}
  /\ attempts \in 0..MaxWakes
  /\ reaping \in SUBSET {"timer", "row"}
  /\ dispatch \in [Turns -> DispatchSteps]
  /\ injected \in SUBSET Turns
  /\ handler \in [Turns -> HandlerSteps]
  /\ worker \in [Turns -> WorkerSteps]
  /\ alive \in BOOLEAN
  /\ upsets \in Nat
  /\ heard \in [Messages -> {"unsent", "nothing", "reply", "failure"}]
  /\ excused \in SUBSET Messages

Init ==
  /\ session = "created"
  /\ registered = FALSE /\ completed = FALSE /\ failed = FALSE
  /\ watch = "off" /\ rows = {} /\ attempts = 0 /\ reaping = {}
  /\ dispatch = [t \in Turns |-> "none"] /\ injected = {}
  /\ handler = [t \in Turns |-> "none"]
  /\ worker = [t \in Turns |-> "none"] /\ alive = TRUE
  /\ upsets = 0
  /\ heard = [m \in Messages |-> "unsent"] /\ excused = {}

\* Messages the worker took and the user has heard nothing of.
Open == {m \in Messages : heard[m] = "nothing"}

Upset == upsets < MaxUpsets /\ upsets' = upsets + 1

\* An upset that leaves nothing behind to look after the session.
Excuse == excused' = excused \cup Open
ExcuseUnwatched == excused' = IF watch = "off" THEN excused \cup Open ELSE excused

Goto(t, s) == dispatch' = [dispatch EXCEPT ![t] = s]
Handle(t, s) == handler' = [handler EXCEPT ![t] = s]
Says(t, s) == worker' = [worker EXCEPT ![t] = s]

\* A turn the worker, its dispatch or a handler is still busy with.
Live(t) ==
  \/ worker[t] \notin {"none", "over"} \/ handler[t] # "none"
  \/ dispatch[t] \in {"sent", "announce"}
  \/ t \in Wakes /\ dispatch[t] \notin {"none", "done"}

\* clearPendingWatchdog: the row goes with the watchdog; a row that is still
\* being saved has no key yet and stays.
ClearWatch ==
  /\ watch' = "off"
  /\ rows' = IF watch = "saving" THEN rows \cup {"orphan"} ELSE rows \ {"own"}

\* The entry is forgotten, its row is not cancelled.
ForgetWatch ==
  /\ watch' = "off"
  /\ rows' = IF watch = "saving" \/ rows # {} THEN {"orphan"} ELSE {}

\* armSilenceWatchdog
ArmWatch ==
  /\ watch' = "saving"
  /\ rows' = IF watch = "saving" THEN rows \cup {"orphan"} ELSE rows \ {"own"}

-----------------------------------------------------------------------------
(* dispatchForTeamTarget                                                   *)

Ask(m) ==
  /\ dispatch[m] = "none" /\ Goto(m, "guard")
  /\ UNCHANGED <<session, memory, rows, injected, handler, worker, alive, upsets, history>>

\* executionTtlMs: a registration is void after five minutes, which is longer
\* than a dispatch takes.
MayExpire == \A t \in Turns : dispatch[t] \in {"none", "guard", "done"}

\* isAgentExecuting
Guard(t) ==
  /\ dispatch[t] = "guard"
  /\ \/ registered /\ Goto(t, "check")
     \/ (registered => MayExpire) /\ Goto(t, "send")
  /\ registered' = TRUE
  /\ UNCHANGED <<session, completed, failed, watch, attempts, reaping, rows, injected,
                 handler, worker, alive, upsets, history>>

\* A registration whose session does not run is taken for a leak, unless the
\* query fails.
CheckSession(t) ==
  /\ dispatch[t] = "check" /\ Goto(t, "send")
  /\ \/ /\ injected' = IF session = "running" THEN injected \cup {t} ELSE injected
        /\ registered' = (session = "running" => registered)
        /\ UNCHANGED upsets
     \/ Upset /\ injected' = injected \cup {t} /\ UNCHANGED registered
  /\ UNCHANGED <<session, completed, failed, watch, attempts, reaping, rows,
                 handler, worker, alive, history>>

\* A session has one watchdog and one set of flags: two turns that are there at
\* a time have to share them, and one that was injected has none.
Overlapping(t) ==
  LET others == Open \cup {u \in Turns \ {t} : Live(u)} IN
  Messages \cap (IF t \in Messages /\ (others # {} \/ reaping # {}) THEN {t} \cup others
                 ELSE {t} \cap injected)

\* workerClient.execute; the registration is renewed before.
Send(t) ==
  /\ dispatch[t] = "send" /\ alive
  /\ registered' = (t \in injected => registered)
  /\ Goto(t, "sent") /\ Says(t, "accepted")
  /\ heard' = [m \in Messages |-> IF m = t THEN "nothing" ELSE heard[m]]
  /\ excused' = excused \cup Overlapping(t)
  /\ UNCHANGED <<session, completed, failed, watch, attempts, reaping, rows, injected,
                 handler, alive, upsets>>

\* The call fails, or something before it, which leaves the registration;
\* dispatch() tells the user.
SendFails(t) ==
  /\ dispatch[t] = "send" /\ Goto(t, "done")
  /\ \/ (IF alive THEN Upset ELSE UNCHANGED upsets) /\ registered' = (t \in injected /\ registered)
     \/ Upset /\ UNCHANGED registered
  /\ UNCHANGED <<session, completed, failed, watch, attempts, reaping, rows, injected,
                 handler, worker, alive, history>>

\* The worker takes the message and its answer is lost: the user is told of a
\* failure.
SendUnanswered(t) ==
  /\ dispatch[t] = "send" /\ alive /\ Upset
  /\ registered' = (t \in injected /\ registered)
  /\ Goto(t, "done") /\ Says(t, "accepted")
  /\ heard' = [m \in Messages |-> IF m = t THEN "failure" ELSE heard[m]]
  /\ excused' = excused \cup Overlapping(t)
  /\ UNCHANGED <<session, completed, failed, watch, attempts, reaping, rows, injected,
                 handler, alive>>

\* 202: a new round.
Accepted(t) ==
  /\ dispatch[t] = "sent"
  /\ IF t \in injected THEN UNCHANGED <<completed, failed>>
     ELSE completed' = FALSE /\ failed' = FALSE
  /\ Goto(t, "announce")
  /\ UNCHANGED <<session, registered, watch, attempts, reaping, rows, injected,
                 handler, worker, alive, upsets, history>>

\* startPendingWatchdog
Watch(t) ==
  /\ dispatch[t] = "announce"
  /\ IF t \in injected \/ failed THEN UNCHANGED <<watch, rows>> ELSE ArmWatch
  /\ Goto(t, "done")
  /\ UNCHANGED <<session, registered, completed, failed, attempts, reaping, injected,
                 handler, worker, alive, upsets, history>>

\* The broadcast before it fails: dispatch() tells the user of a failure, if it
\* still can, and nothing watches the turn.
WatchFails(t) ==
  /\ dispatch[t] = "announce" /\ Upset /\ Goto(t, "done")
  /\ \/ heard' = [m \in Messages |-> IF m = t THEN "failure" ELSE heard[m]]
     \/ UNCHANGED heard
  /\ ExcuseUnwatched
  /\ UNCHANGED <<session, memory, rows, injected, handler, worker, alive>>

\* scheduleSilenceTrigger; if it fails the watchdog is in memory only.
RowSaved ==
  /\ watch = "saving" /\ watch' = "on"
  /\ \/ rows' = rows \cup {"own"} /\ UNCHANGED upsets
     \/ Upset /\ UNCHANGED rows
  /\ UNCHANGED <<session, registered, completed, failed, attempts, reaping, turns,
                 alive, history>>

-----------------------------------------------------------------------------
(* The worker's reports, as the ingress takes them.                        *)

\* A status that cannot be saved stays what it was; the report counts.
SavesStatus(s) ==
  \/ session' = s /\ UNCHANGED upsets
  \/ Upset /\ UNCHANGED session

\* Any report stops the watchdog, as it once did.
BeginsUnwatched(t) ==
  /\ worker[t] = "accepted" /\ Says(t, "running")
  /\ SavesStatus("running")
  /\ ClearWatch
  /\ UNCHANGED <<registered, completed, failed, attempts, reaping, dispatch, injected,
                 handler, alive, history>>

Begins(t) ==
  /\ worker[t] = "accepted" /\ Says(t, "running")
  /\ SavesStatus("running")
  /\ UNCHANGED <<memory, rows, dispatch, injected, handler, alive, history>>

\* A terminal report: handleSessionActivity.  It comes after the answer to the
\* call that began the turn.
Ends(t, from, to) ==
  /\ worker[t] = from /\ dispatch[t] # "sent" /\ Says(t, to)
  /\ ClearWatch /\ attempts' = 0

Idles(t) ==
  /\ \/ Ends(t, "running", "idle")
     \/ Ends(t, "completed", "over")
  /\ SavesStatus("idle")
  /\ UNCHANGED <<registered, completed, failed, reaping, dispatch, injected, handler,
                 alive, history>>

\* task.completed: dropped when a reply is stored or the session was given up.
Completes(t) ==
  /\ \/ Ends(t, "running", "completed")
     \/ Ends(t, "idle", "over")
  /\ IF completed \/ failed THEN UNCHANGED handler ELSE Handle(t, "settle")
  /\ UNCHANGED <<session, registered, completed, failed, reaping, dispatch, injected,
                 alive, upsets, history>>

Errs(t) ==
  /\ Ends(t, "running", "error")
  /\ Handle(t, "fail")
  /\ UNCHANGED <<session, registered, completed, failed, reaping, dispatch, injected,
                 alive, upsets, history>>

FailsSession(t) ==
  /\ Ends(t, "error", "over")
  /\ SavesStatus("failed")
  /\ UNCHANGED <<registered, completed, failed, reaping, dispatch, injected, handler,
                 alive, history>>

Following(s) ==
  CASE s = "accepted" -> {"running"}
    [] s = "running"  -> {"idle", "completed", "error"}
    [] OTHER          -> {"over"}

\* The status of the session that a report brings, if it does.
Reported(from, to) ==
  CASE to \in {"running", "idle"} -> to
    [] from = "completed"         -> "idle"
    [] from = "error"             -> "failed"
    [] OTHER -> session

\* EventClient gives up on a report after its retries, or the ingress fails on
\* it, and drops it when it comes again: nobody hears of it, at most the status
\* is saved.
ReportIsLost(t) ==
  /\ worker[t] \notin {"none", "over"} /\ Upset
  /\ \E s \in Following(worker[t]) : Says(t, s) /\ session' \in {session, Reported(worker[t], s)}
  /\ excused' = IF worker[t] \in {"running", "idle"} THEN excused \cup Open ELSE excused
  /\ UNCHANGED <<memory, rows, dispatch, injected, handler, alive, heard>>

-----------------------------------------------------------------------------
(* The handlers.                                                           *)

\* unregisterExecution and clearPendingWatchdog: whatever is there by now.
Settle(t) ==
  /\ handler[t] = "settle" /\ Handle(t, "store")
  /\ registered' = FALSE
  /\ ClearWatch
  /\ attempts' = IF watch = "off" THEN attempts ELSE 0
  /\ UNCHANGED <<session, completed, failed, reaping, dispatch, injected, worker, alive,
                 upsets, history>>

\* A turn that was woken is taken for the messages it was woken for.
Hear(t, what) ==
  heard' = [m \in Messages |-> IF m = t \/ (t \in Wakes /\ m \in Open) THEN what ELSE heard[m]]

Store(t) ==
  /\ handler[t] = "store" /\ Handle(t, "none")
  /\ SavesStatus(IF session = "running" THEN "created" ELSE session)
  /\ completed' = TRUE
  /\ Hear(t, "reply")
  /\ UNCHANGED <<registered, failed, watch, attempts, reaping, rows, dispatch, injected,
                 worker, alive, excused>>

\* The failure of a turn is told in the channel of the member.
Fail(t) ==
  /\ handler[t] = "fail" /\ Handle(t, "none")
  /\ failed' = TRUE /\ registered' = FALSE
  /\ Hear(t, "failure")
  /\ UNCHANGED <<session, completed, watch, attempts, reaping, rows, dispatch, injected,
                 worker, alive, upsets, excused>>

\* A query or a write of a handler fails, which is logged and no more: what it
\* did before stands, and the watchdog is gone.
HandlerFails(t) ==
  /\ handler[t] # "none" /\ Upset /\ Handle(t, "none")
  /\ \/ UNCHANGED <<session, registered, failed, heard>>
     \/ /\ handler[t] = "store"
        /\ session' \in {session, IF session = "running" THEN "created" ELSE session}
        /\ UNCHANGED heard \/ Hear(t, "reply")
        /\ UNCHANGED <<registered, failed>>
     \/ /\ handler[t] = "fail"
        /\ failed' = TRUE /\ registered' = FALSE
        /\ UNCHANGED <<session, heard>>
  /\ Excuse
  /\ UNCHANGED <<completed, watch, attempts, reaping, rows, dispatch, injected, worker, alive>>

-----------------------------------------------------------------------------
(* Silence.                                                                *)

\* Ten minutes are longer than any handler takes.
Quiet == \A t \in Turns : handler[t] = "none"

\* The timer of the watchdog.
SilenceFires ==
  /\ watch = "on" /\ Quiet /\ reaping = {}
  /\ IF failed THEN ForgetWatch /\ UNCHANGED reaping
     ELSE reaping' = {"timer"} /\ UNCHANGED <<watch, rows>>
  /\ UNCHANGED <<session, registered, completed, failed, attempts, turns, alive,
                 upsets, history>>

\* handleSilenceTrigger, of the watchdog's own row or of one it does not know:
\* that one counts only while nothing is watched, after a restart.
RowFires(r) ==
  /\ r \in rows /\ rows' = rows \ {r} /\ "row" \notin reaping
  /\ r = "own" => Quiet
  /\ IF ~failed /\ (IF watch # "off" THEN r = "own" ELSE session = "running")
     THEN reaping' = reaping \cup {"row"}
     ELSE UNCHANGED reaping
  /\ UNCHANGED <<session, registered, completed, failed, watch, attempts, turns, alive,
                 upsets, history>>

\* A row that is spent for nothing: the session cannot be read, the row that
\* should follow cannot be saved, or the trigger is lost (Triggers!StatementFails).
RowIsDropped(r) ==
  /\ r \in rows /\ rows' = rows \ {r} /\ Upset
  /\ ExcuseUnwatched
  /\ UNCHANGED <<session, memory, turns, alive, heard>>

Unused == {w \in Wakes : dispatch[w] = "none"}

\* Wakes one time more.
WakeOnce(by) ==
  /\ by \in reaping /\ reaping' = reaping \ {by}
  /\ IF alive THEN UNCHANGED upsets ELSE Upset
  /\ attempts <= MaxWakes /\ attempts' = attempts + 1
  /\ ArmWatch
  /\ UNCHANGED dispatch \/ \E w \in Unused : Goto(w, "guard")
  /\ UNCHANGED <<session, registered, completed, failed, injected, handler, worker, alive,
                 history>>

\* Counts nothing.
WakeUncounted(by) ==
  /\ by \in reaping /\ reaping' = reaping \ {by}
  /\ IF alive THEN UNCHANGED upsets ELSE Upset
  /\ attempts < MaxWakes
  /\ ArmWatch
  /\ UNCHANGED dispatch \/ \E w \in Unused : Goto(w, "guard")
  /\ UNCHANGED <<session, registered, completed, failed, attempts, injected, handler, worker,
                 alive, history>>

\* reapSilenceDeadline, once it knows whether the worker is there, or cannot
\* know: a wake that nobody waits for, and that may come to nothing.
Wake(by) ==
  /\ by \in reaping /\ reaping' = reaping \ {by}
  /\ IF alive THEN UNCHANGED upsets ELSE Upset
  /\ attempts < MaxWakes /\ attempts' = attempts + 1
  /\ ArmWatch
  /\ UNCHANGED dispatch \/ \E w \in Unused : Goto(w, "guard")
  /\ excused' = excused \cup {m \in Open : dispatch[m] # "done"}
  /\ UNCHANGED <<session, registered, completed, failed, injected, handler, worker, alive,
                 heard>>

\* The failure is told in the channel of the team, unless that fails.
GiveUp(by) ==
  /\ by \in reaping /\ reaping' = reaping \ {by}
  /\ ~alive \/ attempts = MaxWakes
  /\ ForgetWatch /\ attempts' = 0
  /\ failed' = TRUE /\ registered' = FALSE
  /\ \/ /\ heard' = [m \in Messages |-> IF m \in Open THEN "failure" ELSE heard[m]]
        /\ UNCHANGED <<upsets, excused>>
     \/ Upset /\ Excuse /\ UNCHANGED heard
  /\ UNCHANGED <<session, completed, turns, alive>>

-----------------------------------------------------------------------------
(* The world.                                                              *)

\* The server restarts.  A report that was not acknowledged comes again, a row
\* that was claimed does not (Triggers!Crash).
Restart ==
  /\ Upset
  /\ registered' = FALSE /\ completed' = FALSE /\ failed' = FALSE
  /\ watch' = "off" /\ attempts' = 0 /\ reaping' = {}
  /\ rows' = IF rows = {} THEN {} ELSE {"orphan"}
  /\ dispatch' = [t \in Turns |-> IF dispatch[t] = "none" THEN "none" ELSE "done"]
  /\ handler' = [t \in Turns |-> "none"]
  /\ excused' = IF rows = {} \/ session # "running" \/ \E t \in Turns : handler[t] # "none"
                THEN excused \cup Open ELSE excused
  /\ UNCHANGED <<session, injected, worker, alive, heard>>

\* Nothing more comes of the turns it had.
WorkerDies ==
  /\ alive /\ Upset /\ alive' = FALSE
  /\ worker' = [t \in Turns |-> IF worker[t] = "none" THEN "none" ELSE "over"]
  /\ excused' = IF \E t \in Turns : worker[t] = "idle" THEN excused \cup Open ELSE excused
  /\ UNCHANGED <<session, memory, rows, dispatch, injected, handler, heard>>

WorkerReturns ==
  /\ ~alive /\ alive' = TRUE
  /\ UNCHANGED <<session, memory, rows, turns, upsets, history>>

-----------------------------------------------------------------------------
DispatchStep(t) ==
  Guard(t) \/ CheckSession(t) \/ Send(t) \/ SendFails(t) \/ Accepted(t) \/ Watch(t)
HandlerStep(t) == Settle(t) \/ Store(t) \/ Fail(t)
SecondReport(t) ==
  worker[t] \in {"idle", "completed", "error"} /\ (Idles(t) \/ Completes(t) \/ FailsSession(t))
Reap == \E by \in {"timer", "row"} : Wake(by) \/ GiveUp(by)

Next ==
  \/ \E m \in Messages : Ask(m)
  \/ \E t \in Turns :
       \/ DispatchStep(t) \/ SendUnanswered(t) \/ WatchFails(t)
       \/ HandlerStep(t) \/ HandlerFails(t) \/ ReportIsLost(t)
       \/ Begins(t) \/ Idles(t) \/ Completes(t) \/ Errs(t) \/ FailsSession(t)
  \/ \E r \in {"own", "orphan"} : RowFires(r) \/ RowIsDropped(r)
  \/ RowSaved \/ SilenceFires \/ Reap
  \/ Restart \/ WorkerDies \/ WorkerReturns

Spec == Init /\ [][Next]_vars

\* The server goes on, a deadline passes, a worker that has begun to report
\* the end goes on; a worker need not end, nor come back.
Fairness ==
  /\ \A t \in Turns : WF_vars(DispatchStep(t)) /\ WF_vars(HandlerStep(t))
  /\ \A t \in Turns : WF_vars(SecondReport(t))
  /\ \A r \in {"own", "orphan"} : WF_vars(RowFires(r))
  /\ WF_vars(RowSaved) /\ WF_vars(SilenceFires) /\ WF_vars(Reap)

FairSpec == Spec /\ Fairness

-----------------------------------------------------------------------------
(* Properties.                                                             *)

\* What still has to come before the server may forget the session.
LookedAfter ==
  \/ watch # "off" \/ reaping # {}
  \/ rows # {} /\ session = "running"
  \/ \E t \in Turns :
       \/ handler[t] # "none" \/ worker[t] = "idle"
       \/ t \notin injected /\ dispatch[t] \in {"sent", "announce"}

\* While the user has heard nothing of a message that the worker took, something
\* looks after it: the watchdog, its row in the database, a call that gives
\* the session up or wakes it, a handler, a dispatch on its way, or a worker
\* between the two reports of an end.  Through silence, wakes, late answers,
\* restarts, failed queries and failed writes.  The exceptions, in excused: a
\* message that shared the session with another turn; one whose handler failed,
\* whose end was not reported or whose failure could not be told; and one that a
\* restart, a broadcast or the query of a row failed with no watchdog left.
OpenIsLookedAfter == Open \subseteq excused \/ LookedAfter

\* Such a message does not stay without an answer, even if the worker never
\* reports again: a reply is stored, or the user is told of a failure.  With
\* the same exceptions.
AnsweredOrFailed ==
  \A m \in Messages : heard[m] = "nothing" ~> (heard[m] # "nothing" \/ m \in excused)

\* completedSessions keeps a reply from being stored twice, and nothing else: a
\* reply that comes for a session which was not given up is taken.
EveryReplyIsTaken ==
  [][\A m \in Messages : Completes(m) /\ ~failed => handler'[m] = "settle"]_vars
=============================================================================
