----------------------------- MODULE TaskPatrol -----------------------------
(***************************************************************************)
(* The watchdog of tasks (task-progression.scheduler.ts) beside their life *)
(* cycle.  A task that enters in_progress registers a patrol row with the  *)
(* trigger service; leaving it cancels the row, without waiting.  Each     *)
(* time the row falls due a handler wakes the main agent, unless it is     *)
(* busy or was active, and counts wakes without progress in the row; at    *)
(* the limit it asks for systemBlock and cancels the row.  After a restart *)
(* stale rows are cancelled and every running task registers again.        *)
(*                                                                         *)
(* Module Triggers has the statements of the trigger service; here a tick  *)
(* reads a row that is due, claims it and later saves an outcome, by row   *)
(* id: a handler overtaken by a re-registration saves nothing.  The rounds *)
(* and the streak it works with are those it read before the claim.  A row *)
(* falls due at any time.  The team has a main agent.                      *)
(***************************************************************************)
EXTENDS Integers, FiniteSets

CONSTANTS
  Tasks, LongRunning, Users, Watchdogs, MaxConcurrent, MaxVersion,
  Boot,          \* the process that restores the patrols after a restart
  StallLimit,    \* STALL_QUIET_STREAK_LIMIT
  MaxRounds,     \* PROGRESSION_MAX_ROUNDS, the maxFires of a row
  MaxUpsets,     \* bound: rounds that find somebody at work, statements and dispatches that fail
  MaxCrashes     \* bound: restarts of the server

ASSUME PatrolAssumption ==
  /\ Tasks # {}
  /\ Users \cap Watchdogs = {} /\ Boot \notin Users \cup Watchdogs
  /\ StallLimit \in Nat \ {0} /\ MaxRounds \in Nat \ {0}
  /\ {MaxUpsets, MaxCrashes} \subseteq Nat

VARIABLES
  status, version, call, submitted, readmitted,   \* module TaskLifecycle
  row,                 \* the patrol row of each task
  cancels,             \* cancelPatrolTrigger calls that nobody waits for
  reg,                 \* where each register() is
  fire,                \* handleProgressionFire: one at a time for each of Watchdogs
  boot, restoring,     \* onModuleInit
  upsets, crashes,
  quiet,               \* history: wakes since the row was made or its handler saw progress
  missed,              \* history: progress was seen that the streak in use may not tell of
  overtaken, faulty    \* history: registered before an earlier cancel landed; an error hit

Life == INSTANCE TaskLifecycle

tasks == <<status, version, call, submitted, readmitted>>
patrol == <<row, cancels, reg, fire>>
world == <<boot, restoring, upsets, crashes>>
history == <<quiet, missed, overtaken, faulty>>
vars == <<tasks, patrol, world, history>>

Registrars == Users \cup {Boot}
RowStatus == {"none", "pending", "firing", "cancelled", "failed"}
Row == [status : RowStatus, streak : Nat, fires : Nat]
NoRow == [status |-> "none", streak |-> 0, fires |-> 0]
RegSteps == {"none", "read", "find", "delete", "schedule"}
FirePhases == {"idle", "claim", "guard", "look", "check", "save", "expire"}
\* there: the row that was read is still there under its id; alive: and claimed.
Fire == [phase : FirePhases, task : Tasks, streak : Nat, fires : Nat,
         there : BOOLEAN, alive : BOOLEAN]
AnyTask == CHOOSE t \in Tasks : TRUE
NoReg == [step |-> "none", task |-> AnyTask]
NoFire == [phase |-> "idle", task |-> AnyTask, streak |-> 0, fires |-> 0,
           there |-> FALSE, alive |-> FALSE]

TypeOK ==
  /\ Life!TypeOK
  /\ row \in [Tasks -> Row]
  /\ cancels \in [Tasks -> Nat]
  /\ reg \in [Registrars -> [step : RegSteps, task : Tasks]]
  /\ fire \in [Watchdogs -> Fire]
  /\ boot \in {"sweep", "restore", "up"} /\ restoring \in SUBSET Tasks
  /\ upsets \in Nat /\ crashes \in Nat
  /\ quiet \in [Tasks -> Nat]
  /\ {missed, overtaken, faulty} \subseteq SUBSET Tasks

Init ==
  /\ Life!Init
  /\ row = [t \in Tasks |-> NoRow]
  /\ cancels = [t \in Tasks |-> 0]
  /\ reg = [p \in Registrars |-> NoReg]
  /\ fire = [f \in Watchdogs |-> NoFire]
  /\ boot = "sweep" /\ restoring = {}
  /\ upsets = 0 /\ crashes = 0
  /\ quiet = [t \in Tasks |-> 0]
  /\ missed = {} /\ overtaken = {} /\ faulty = {}

-----------------------------------------------------------------------------
(* The transitions, with what they do to the patrol.                       *)

Elsewhere ==
  /\ \/ boot = "up" /\ \/ \E t \in Tasks : Life!Create(t)
                       \/ \E c \in Users : Life!UserStep(c)
     \/ \E w \in Watchdogs : Life!SystemBlock(w)
     \/ \E c \in Life!Callers : Life!Preflight(c) \/ Life!CommitRefused(c)
  /\ UNCHANGED <<patrol, world, history>>

Commit(c) ==
  /\ Life!Commit(c)
  /\ reg' = IF Life!To[call[c].action] = "in_progress"
            THEN [reg EXCEPT ![c] = [step |-> "read", task |-> call[c].task]]
            ELSE reg
  /\ UNCHANGED <<row, cancels, fire, world, history>>

\* unregister() for a task that has left in_progress.
Leaves(c) == Life!From[call[c].action] = "in_progress"
Unregister(t) == cancels' = [cancels EXCEPT ![t] = @ + 1]

Return(c) ==
  /\ c \in Registrars => reg[c].step = "none"
  /\ Life!Return(c)
  /\ IF Leaves(c) THEN Unregister(call[c].task) ELSE UNCHANGED cancels
  /\ UNCHANGED <<row, reg, fire, world, history>>

\* Also a cancel that nobody asked for.
CancelPatrolUncounted(t) ==
  /\ cancels' = [cancels EXCEPT ![t] = @ - 1]
  /\ row' = IF row[t].status = "none" THEN row ELSE [row EXCEPT ![t].status = "cancelled"]
  /\ UNCHANGED <<tasks, reg, fire, world, history>>

\* triggers.cancel(dedupKey) writes whatever is there, also a row that fires.
CancelPatrol(t) ==
  /\ cancels[t] > 0
  /\ cancels' = [cancels EXCEPT ![t] = @ - 1]
  /\ row' = IF row[t].status = "none" THEN row ELSE [row EXCEPT ![t].status = "cancelled"]
  /\ UNCHANGED <<tasks, reg, fire, world, history>>

-----------------------------------------------------------------------------
(* register() and persistPatrolTrigger()                                   *)

RegGoto(p, s) == reg' = [reg EXCEPT ![p].step = s]
RegDone(p) == reg' = [reg EXCEPT ![p] = NoReg]

RegisterReads(p) ==
  /\ reg[p].step = "read"
  /\ IF status[reg[p].task] = "in_progress" /\ reg[p].task \notin LongRunning
     THEN RegGoto(p, "find") ELSE RegDone(p)
  /\ UNCHANGED <<tasks, row, cancels, fire, world, history>>

\* An earlier transition out of in_progress whose cancel has not landed yet.
Outstanding(t) ==
  \/ cancels[t] > 0
  \/ \E c \in Life!Callers :
       call[c].phase = "after" /\ call[c].task = t /\ Leaves(c)

\* Keeps whatever row it finds.
FindRowKeeps(p) ==
  LET t == reg[p].task IN
  /\ reg[p].step = "find"
  /\ IF row[t].status = "none" THEN RegGoto(p, "schedule") ELSE RegDone(p)
  /\ overtaken' = IF Outstanding(t) THEN overtaken \cup {t} ELSE overtaken \ {t}
  /\ UNCHANGED <<tasks, row, cancels, fire, world, quiet, missed, faulty>>

FindRow(p) ==
  LET t == reg[p].task IN
  /\ reg[p].step = "find"
  /\ CASE row[t].status = "pending" -> RegDone(p)
       [] row[t].status = "none"    -> RegGoto(p, "schedule")
       [] OTHER                     -> RegGoto(p, "delete")
  /\ overtaken' = IF Outstanding(t) THEN overtaken \cup {t} ELSE overtaken \ {t}
  /\ UNCHANGED <<tasks, row, cancels, fire, world, quiet, missed, faulty>>

\* By key: the row of the moment, also one that another register() has made.
DeleteRow(p) ==
  LET t == reg[p].task IN
  /\ reg[p].step = "delete"
  /\ row' = [row EXCEPT ![t] = NoRow]
  /\ fire' = [f \in Watchdogs |->
                IF fire[f].task = t THEN [fire[f] EXCEPT !.there = FALSE, !.alive = FALSE]
                ELSE fire[f]]
  /\ RegGoto(p, "schedule")
  /\ UNCHANGED <<tasks, cancels, world, history>>

ScheduleRow(p) ==
  LET t == reg[p].task IN
  /\ reg[p].step = "schedule"
  /\ IF row[t].status = "none"
     THEN /\ row' = [row EXCEPT ![t] = [NoRow EXCEPT !.status = "pending"]]
          /\ quiet' = [quiet EXCEPT ![t] = 0]
          /\ missed' = missed \ {t}
     ELSE UNCHANGED <<row, quiet, missed>>
  /\ RegDone(p)
  /\ UNCHANGED <<tasks, cancels, fire, world, overtaken, faulty>>

Register(p) == RegisterReads(p) \/ FindRow(p) \/ DeleteRow(p) \/ ScheduleRow(p)

-----------------------------------------------------------------------------
(* handleProgressionFire() and what the trigger service does around it     *)

FireGoto(f, p) == fire' = [fire EXCEPT ![f].phase = p]

\* Updates by id: they miss a row that was deleted.
Outcome(f, s) ==
  row' = IF fire[f].alive
         THEN [row EXCEPT ![fire[f].task].status = s, ![fire[f].task].fires = @ + 1]
         ELSE row
WriteStreak(f, k) ==
  row' = IF fire[f].alive THEN [row EXCEPT ![fire[f].task].streak = k] ELSE row
Counts(f, n) == quiet' = IF fire[f].alive THEN [quiet EXCEPT ![fire[f].task] = n] ELSE quiet
Upset == upsets < MaxUpsets /\ upsets' = upsets + 1

SelectRow(f, t) ==
  /\ fire[f].phase = "idle" /\ row[t].status = "pending"
  /\ fire' = [fire EXCEPT ![f] = [phase |-> "claim", task |-> t, streak |-> row[t].streak,
                                  fires |-> row[t].fires, there |-> TRUE, alive |-> FALSE]]
  /\ UNCHANGED <<tasks, row, cancels, reg, world, history>>

\* maxFires, by the rounds that were read.
UsedUp(f) == fire[f].fires >= MaxRounds

Claimable(f) ==
  /\ fire[f].phase = "claim" /\ ~UsedUp(f)
  /\ fire[f].there /\ row[fire[f].task].status = "pending"

Claim(f) ==
  /\ Claimable(f)
  /\ row' = [row EXCEPT ![fire[f].task].status = "firing"]
  /\ fire' = [fire EXCEPT ![f].phase = "guard", ![f].alive = TRUE]
  /\ UNCHANGED <<tasks, cancels, reg, world, history>>

\* It is no longer pending, gone, or another tick has run it and moved it on; or
\* its rounds were used up: then it is closed, whatever its status is by now.
PassesOver(f) ==
  /\ fire[f].phase = "claim"
  /\ ~Claimable(f) \/ row[fire[f].task].fires # fire[f].fires
  /\ row' = IF UsedUp(f) /\ fire[f].there
            THEN [row EXCEPT ![fire[f].task].status = "cancelled"] ELSE row
  /\ fire' = [fire EXCEPT ![f] = NoFire]
  /\ UNCHANGED <<tasks, cancels, reg, world, history>>

\* A veto of the guard costs no round; a task that is not running it lets pass.
GuardVetoes(f) ==
  /\ fire[f].phase = "guard" /\ status[fire[f].task] = "in_progress" /\ Upset
  /\ row' = IF fire[f].alive THEN [row EXCEPT ![fire[f].task].status = "pending"] ELSE row
  /\ fire' = [fire EXCEPT ![f] = NoFire]
  /\ UNCHANGED <<tasks, cancels, reg, boot, restoring, crashes, history>>

HandlerReads(f) ==
  /\ fire[f].phase = "guard"
  /\ IF status[fire[f].task] = "in_progress" /\ fire[f].task \notin LongRunning
     THEN FireGoto(f, "look") ELSE FireGoto(f, "expire")
  /\ UNCHANGED <<tasks, row, cancels, reg, world, history>>

Expire(f) ==
  /\ fire[f].phase = "expire"
  /\ Outcome(f, "cancelled")
  /\ fire' = [fire EXCEPT ![f] = NoFire]
  /\ UNCHANGED <<tasks, cancels, reg, world, history>>

\* Another tick has read the row and not claimed it yet: it has the old streak.
ReadElsewhere(t) ==
  \E g \in Watchdogs : fire[g].phase = "claim" /\ fire[g].there /\ fire[g].task = t

\* Progress was seen.  writeQuietStreak swallows its error: then, as for a tick
\* that has read the row, the streak counts on from where it was.
ResetStreak(f) ==
  LET t == fire[f].task IN
  /\ Counts(f, 0)
  /\ \/ /\ ~fire[f].alive
        /\ UNCHANGED <<row, missed>>
     \/ /\ fire[f].alive
        /\ WriteStreak(f, 0)
        /\ missed' = IF ReadElsewhere(t) THEN missed \cup {t} ELSE missed \ {t}
     \/ /\ fire[f].alive
        /\ UNCHANGED row
        /\ missed' = missed \cup {t}

\* The main agent is busy (nothing is written), or was active.
HandlerLooks(f) ==
  /\ fire[f].phase = "look" /\ Upset
  /\ \/ UNCHANGED <<row, quiet, missed>>
     \/ ResetStreak(f)
  /\ FireGoto(f, "save")
  /\ UNCHANGED <<tasks, cancels, reg, boot, restoring, crashes, overtaken, faulty>>

\* Mutant of Wakes: the round that is running counts twice.
WakesTwice(f) ==
  LET k == fire[f].streak + 1  IN
  /\ fire[f].phase = "look"
  /\ Counts(f, quiet[fire[f].task] + 1)
  /\ WriteStreak(f, k)
  /\ FireGoto(f, IF k + 1 >= StallLimit THEN "check" ELSE "save")
  /\ UNCHANGED <<tasks, cancels, reg, world, missed, overtaken, faulty>>

\* It is quiet: runPatrol dispatches a wake; the streak is the one that was read
\* plus one, and is judged whether or not it could be written.
Wakes(f) ==
  LET k == fire[f].streak + 1  IN
  /\ fire[f].phase = "look"
  /\ Counts(f, quiet[fire[f].task] + 1)
  /\ \/ WriteStreak(f, k) /\ UNCHANGED upsets
     \/ UNCHANGED row /\ Upset
  /\ FireGoto(f, IF k >= StallLimit THEN "check" ELSE "save")
  /\ UNCHANGED <<tasks, cancels, reg, boot, restoring, crashes, missed, overtaken, faulty>>

\* hasInflightWork: somebody is at work after all.
Defers(f) ==
  /\ fire[f].phase = "check" /\ Upset
  /\ ResetStreak(f)
  /\ FireGoto(f, "save")
  /\ UNCHANGED <<tasks, cancels, reg, boot, restoring, crashes, overtaken, faulty>>

\* The patrol ends and nobody asks for the block.
StallsSilently(f) ==
  /\ fire[f].phase = "check"
  /\ Unregister(fire[f].task)
  /\ FireGoto(f, "save")
  /\ UNCHANGED <<tasks, row, reg, world, history>>

\* The status is written without a transition.
StallsAtOnce(f) ==
  /\ fire[f].phase = "check"
  /\ status' = [status EXCEPT ![fire[f].task] = "blocked"]
  /\ Unregister(fire[f].task)
  /\ FireGoto(f, "save")
  /\ UNCHANGED <<version, call, submitted, readmitted, row, reg, world, history>>

\* Neither the block nor the cancel of the row is waited for.
Stalls(f) ==
  /\ fire[f].phase = "check"
  /\ Life!AskBlock(f, fire[f].task)
  /\ Unregister(fire[f].task)
  /\ FireGoto(f, "save")
  /\ UNCHANGED <<row, reg, world, history>>

Save(f) ==
  /\ fire[f].phase = "save"
  /\ Outcome(f, IF fire[f].fires + 1 >= MaxRounds THEN "cancelled" ELSE "pending")
  /\ fire' = [fire EXCEPT ![f] = NoFire]
  /\ UNCHANGED <<tasks, cancels, reg, world, history>>

FireStep(f) ==
  \/ Claim(f) \/ PassesOver(f)
  \/ GuardVetoes(f) \/ HandlerReads(f) \/ Expire(f)
  \/ HandlerLooks(f) \/ Wakes(f) \/ Defers(f) \/ Stalls(f) \/ Save(f)

-----------------------------------------------------------------------------
(* Errors and restarts.                                                    *)

Hits(t) == faulty' = faulty \cup {t}

\* A query or the dispatch of the handler throws: the row ends as failed.
HandlerFails(f) ==
  LET t == fire[f].task IN
  /\ fire[f].phase \in {"guard", "look"} /\ Upset /\ Hits(t)
  /\ row' = IF fire[f].alive THEN [row EXCEPT ![t].status = "failed"] ELSE row
  /\ fire' = [fire EXCEPT ![f] = NoFire]
  /\ UNCHANGED <<tasks, cancels, reg, boot, restoring, crashes, quiet, missed, overtaken>>

\* A statement of the tick fails, which fireDue logs: the claim, that may have
\* been made all the same, or the outcome.  Then the row stays firing.
TickFails(f) ==
  LET t == fire[f].task IN
  /\ fire[f].phase # "idle" /\ Upset
  /\ \/ fire[f].phase = "claim" /\ UNCHANGED <<row, faulty>>
     \/ Claimable(f) /\ row' = [row EXCEPT ![t].status = "firing"] /\ Hits(t)
     \/ fire[f].phase # "claim" /\ UNCHANGED row /\ Hits(t)
  /\ fire' = [fire EXCEPT ![f] = NoFire]
  /\ UNCHANGED <<tasks, cancels, reg, boot, restoring, crashes, quiet, missed, overtaken>>

\* A request fails; a systemBlock that fails is logged.
CallFails(c) ==
  /\ Upset /\ Life!CallFails(c)
  /\ IF c \in Watchdogs THEN Hits(call[c].task) ELSE UNCHANGED faulty
  /\ UNCHANGED <<patrol, boot, restoring, crashes, quiet, missed, overtaken>>

\* Errors of register() and of the cancel are swallowed.
RegisterFails(p) ==
  /\ reg[p].step # "none" /\ Upset /\ Hits(reg[p].task)
  /\ RegDone(p)
  /\ UNCHANGED <<tasks, row, cancels, fire, boot, restoring, crashes, quiet, missed, overtaken>>

CancelFails(t) ==
  /\ cancels[t] > 0 /\ Upset
  /\ cancels' = [cancels EXCEPT ![t] = @ - 1]
  /\ UNCHANGED <<tasks, row, reg, fire, boot, restoring, crashes, history>>

FaultStep ==
  \/ \E f \in Watchdogs : HandlerFails(f) \/ TickFails(f)
  \/ \E c \in Life!Callers : CallFails(c)
  \/ \E p \in Registrars : RegisterFails(p)
  \/ \E t \in Tasks : CancelFails(t)

Crash ==
  /\ crashes < MaxCrashes /\ crashes' = crashes + 1
  /\ Life!Crash
  /\ reg' = [p \in Registrars |-> NoReg]
  /\ fire' = [f \in Watchdogs |-> NoFire]
  /\ cancels' = [t \in Tasks |-> 0]
  /\ boot' = "sweep" /\ restoring' = {}
  /\ overtaken' = {} /\ faulty' = {}
  /\ UNCHANGED <<row, upsets, quiet, missed>>

\* cancelStalePatrolTriggers: pending rows of tasks that are not running.
Running == {t \in Tasks : status[t] = "in_progress"}

Sweep ==
  /\ boot = "sweep" /\ boot' = "restore"
  /\ row' = [t \in Tasks |-> IF row[t].status = "pending" /\ t \notin Running
                             THEN [row[t] EXCEPT !.status = "cancelled"] ELSE row[t]]
  /\ restoring' = Running
  /\ UNCHANGED <<tasks, cancels, reg, fire, upsets, crashes, history>>

\* restoreInProgressTasks: one register() after the other.
Restore(t) ==
  /\ boot = "restore" /\ reg[Boot].step = "none"
  /\ t \in restoring /\ restoring' = restoring \ {t}
  /\ reg' = [reg EXCEPT ![Boot] = [step |-> "read", task |-> t]]
  /\ UNCHANGED <<tasks, row, cancels, fire, boot, upsets, crashes, history>>

Booted ==
  /\ boot = "restore" /\ restoring = {} /\ reg[Boot].step = "none"
  /\ boot' = "up"
  /\ UNCHANGED <<tasks, patrol, restoring, upsets, crashes, history>>

Startup == Sweep \/ Booted \/ \E t \in Tasks : Restore(t)

Next ==
  \/ Elsewhere
  \/ \E c \in Life!Callers : Commit(c) \/ Return(c)
  \/ \E t \in Tasks : CancelPatrol(t)
  \/ \E p \in Registrars : Register(p)
  \/ \E f \in Watchdogs : FireStep(f) \/ \E t \in Tasks : SelectRow(f, t)
  \/ FaultStep \/ Crash \/ Startup

Spec == Init /\ [][Next]_vars

\* The server goes on with what it has begun, and the ticker serves a row
\* that is due; nobody has to ask for anything, and no query has to fail.
Fairness ==
  /\ WF_vars(Startup)
  /\ \A c \in Life!Callers :
       /\ WF_vars(Commit(c) \/ Return(c))
       /\ WF_vars((Life!SystemBlock(c) \/ Life!Preflight(c) \/ Life!CommitRefused(c)) /\ Elsewhere)
  /\ \A t \in Tasks : WF_vars(CancelPatrol(t))
  /\ \A p \in Registrars : WF_vars(Register(p))
  /\ \A f \in Watchdogs : WF_vars(FireStep(f) \/ \E t \in Tasks : SelectRow(f, t))

FairSpec == Spec /\ Fairness

-----------------------------------------------------------------------------
(* Properties.                                                             *)

\* The patrol adds nothing to what requests may do to a task: every step is
\* a step of TaskLifecycle, or leaves its variables alone.
ImplementsLifecycle == Life!Spec

Watched(t) ==
  \/ row[t].status = "pending"
  \/ row[t].status = "firing" /\ \E f \in Watchdogs : fire[f].alive /\ fire[f].task = t
  \/ row[t].fires >= MaxRounds

\* Nothing that concerns the patrol of t is under way.
Settled(t) ==
  /\ boot = "up" /\ cancels[t] = 0
  /\ \A p \in Registrars : reg[p].step = "none" \/ reg[p].task # t
  /\ \A c \in Life!Callers : call[c].phase \in {"after"} => call[c].task # t
  /\ \A w \in Watchdogs : call[w].phase # "idle" => call[w].task # t

\* A running task has a patrol row that is due some day or being handled, or
\* has used up its rounds: through overlapping transitions, handlers that
\* overwrite a cancel or lose their row, restarts.  Two exceptions, until the
\* next restart: an error hit its patrol, or it registered while the cancel
\* of an earlier transition was still under way.
RunningIsWatched ==
  \A t \in Running \ LongRunning :
    Settled(t) => Watched(t) \/ t \in overtaken \/ t \in faulty

\* A task is given up only after StallLimit wakes since its row was made or a
\* handler of that row last saw progress, across vetoes, deferrals, restarts,
\* streaks that were read before the claim and handlers of a replaced row that
\* are still at work; unless the row was replaced while its handler ran, or the
\* progress was missed: its write failed, or another tick had read the row
\* before, and no later reset has made up for it.
GivenUpAfterQuietWakes ==
  [][\A f \in Watchdogs :
       fire[f].phase = "check" /\ call'[f].phase = "asked" /\ fire[f].alive =>
         quiet[fire[f].task] >= StallLimit \/ fire[f].task \in missed]_vars

\* A task that runs does not stay running, watched and without progress: it
\* leaves in_progress by somebody's transition or by systemBlock, or the
\* rounds are used up.
Abandoned(t) == t \in overtaken \/ t \in faulty \/ row[t].fires >= MaxRounds
StallIsCaught ==
  \A t \in Tasks \ LongRunning :
    status[t] = "in_progress" ~> (status[t] # "in_progress" \/ Abandoned(t))
=============================================================================
