-------------------------- MODULE TaskPatrol_proofs --------------------------
(***************************************************************************)
(* For any number of tasks, requests and handlers: the types; TaskPatrol   *)
(* implements TaskLifecycle, the watchdog reaches a task by transitions    *)
(* only; a task is given up for the quiet wakes of its own row; and a      *)
(* running task is watched, whatever overlaps.                             *)
(***************************************************************************)
EXTENDS TaskPatrol, TLAPS

-----------------------------------------------------------------------------
(* What a handler holds.                                                   *)

\* The part of TypeOK that tells which task a handler is about.
HandlersTyped == row \in [Tasks -> Row] /\ fire \in [Watchdogs -> Fire]

\* The records of a watchdog at rest and of a task without a row have their types.
LEMMA IdleFire == NoFire \in Fire /\ NoRow \in Row
  BY PatrolAssumption DEF NoFire, Fire, FirePhases, AnyTask, NoRow, Row, RowStatus

\* The types of rows and handlers hold at first.
LEMMA InitHandlers == Init => HandlersTyped
  BY IdleFire DEF Init, HandlersTyped

\* Statements that write a row, or what a handler holds, write what is of
\* their types.
LEMMA StatusWrites ==
  ASSUME HandlersTyped, NEW t, NEW s \in RowStatus
  PROVE  [row EXCEPT ![t].status = s] \in [Tasks -> Row]
  BY DEF HandlersTyped, Row

\* Rows keep their type when a handler writes a streak ...
LEMMA StreakWrites ==
  ASSUME HandlersTyped, NEW f \in Watchdogs, NEW k \in Nat, WriteStreak(f, k)
  PROVE  row' \in [Tasks -> Row]
  BY DEF HandlersTyped, WriteStreak, Row

\* ... and when one saves its outcome.
LEMMA OutcomeWrites ==
  ASSUME HandlersTyped, NEW f \in Watchdogs, NEW s \in RowStatus, Outcome(f, s)
  PROVE  row' \in [Tasks -> Row]
<1> DEFINE t == fire[f].task
<1>1. [row EXCEPT ![t].status = s] \in [Tasks -> Row]
  BY StatusWrites
<1>2. [[row EXCEPT ![t].status = s] EXCEPT ![t].fires = @ + 1] \in [Tasks -> Row]
  BY <1>1 DEF Row
<1>3. CASE fire[f].alive
  <2>1. row' = [[row EXCEPT ![t].status = s] EXCEPT ![t].fires = @ + 1]
    BY <1>3 DEF Outcome
  <2> QED
    BY <1>2, <2>1
<1>4. CASE ~fire[f].alive
  BY <1>4 DEF Outcome, HandlersTyped
<1> QED
  BY <1>3, <1>4

\* A reset writes a zero or nothing.
LEMMA ResetWrites ==
  ASSUME HandlersTyped, NEW f \in Watchdogs, ResetStreak(f)
  PROVE  row' \in [Tasks -> Row]
  BY StreakWrites DEF ResetStreak, HandlersTyped

\* A handler keeps its type when it goes on and when it ends.
LEMMA PhaseWrites ==
  ASSUME HandlersTyped, NEW f \in Watchdogs, NEW p \in FirePhases
  PROVE  /\ [fire EXCEPT ![f].phase = p] \in [Watchdogs -> Fire]
         /\ [fire EXCEPT ![f] = NoFire] \in [Watchdogs -> Fire]
  BY IdleFire DEF HandlersTyped, Fire

\* A claim and a step of a handler keep the types of rows and handlers.
LEMMA FireTypes ==
  ASSUME HandlersTyped, NEW f \in Watchdogs,
         FireStep(f) \/ HandlerFails(f) \/ TickFails(f) \/ \E t \in Tasks : SelectRow(f, t)
  PROVE  HandlersTyped'
<1>0. fire[f] \in Fire /\ {"pending", "cancelled", "failed", "firing"} \subseteq RowStatus
  BY DEF HandlersTyped, RowStatus
<1>1. CASE \E t \in Tasks : SelectRow(f, t)
  <2>1. PICK t \in Tasks : SelectRow(f, t)
    BY <1>1
  <2>2. row[t] \in Row
    BY DEF HandlersTyped
  <2>3. [phase |-> "claim", task |-> t, streak |-> row[t].streak, fires |-> row[t].fires,
         there |-> TRUE, alive |-> FALSE] \in Fire
    BY <2>2 DEF Fire, FirePhases, Row
  <2> QED
    BY <1>0, <2>1, <2>3 DEF SelectRow, HandlersTyped
<1>11. CASE Claim(f)
  <2>1. fire' = [[fire EXCEPT ![f].phase = "guard"] EXCEPT ![f].alive = TRUE]
    BY <1>11 DEF Claim
  <2>2. [fire EXCEPT ![f].phase = "guard"] \in [Watchdogs -> Fire]
    BY PhaseWrites DEF FirePhases
  <2>3. fire' \in [Watchdogs -> Fire]
    BY <2>1, <2>2 DEF Fire
  <2> QED
    BY <1>0, <1>11, <2>3, StatusWrites DEF Claim, HandlersTyped
<1>12. CASE PassesOver(f)
  BY <1>0, <1>12, StatusWrites, IdleFire DEF PassesOver, HandlersTyped
<1>14. CASE TickFails(f)
  BY <1>0, <1>14, StatusWrites, IdleFire DEF TickFails, HandlersTyped
<1>2. CASE GuardVetoes(f)
  BY <1>0, <1>2, StatusWrites, IdleFire DEF GuardVetoes, HandlersTyped
<1>3. CASE HandlerReads(f)
  BY <1>3, PhaseWrites DEF HandlerReads, FireGoto, HandlersTyped, FirePhases
<1>4. CASE Expire(f)
  BY <1>0, <1>4, OutcomeWrites, IdleFire DEF Expire, HandlersTyped
<1>5. CASE HandlerLooks(f)
  <2>1. row' \in [Tasks -> Row]
    BY <1>5, ResetWrites DEF HandlerLooks, HandlersTyped
  <2>2. fire' \in [Watchdogs -> Fire]
    BY <1>5, PhaseWrites DEF HandlerLooks, FireGoto, FirePhases
  <2> QED
    BY <2>1, <2>2 DEF HandlersTyped
<1>6. CASE Wakes(f)
  <2>1. fire[f].streak + 1 \in Nat
    BY <1>0 DEF Fire
  <2>2. row' \in [Tasks -> Row]
    BY <1>6, <2>1, StreakWrites DEF Wakes, HandlersTyped
  <2>3. fire' \in [Watchdogs -> Fire]
    BY <1>6, PhaseWrites DEF Wakes, FireGoto, FirePhases
  <2> QED
    BY <2>2, <2>3 DEF HandlersTyped
<1>7. CASE Defers(f)
  <2>1. row' \in [Tasks -> Row]
    BY <1>7, ResetWrites DEF Defers
  <2>2. fire' \in [Watchdogs -> Fire]
    BY <1>7, PhaseWrites DEF Defers, FireGoto, FirePhases
  <2> QED
    BY <2>1, <2>2 DEF HandlersTyped
<1>8. CASE Stalls(f)
  BY <1>8, PhaseWrites DEF Stalls, FireGoto, HandlersTyped, FirePhases
<1>9. CASE Save(f)
  BY <1>0, <1>9, OutcomeWrites, IdleFire DEF Save, HandlersTyped
<1>10. CASE HandlerFails(f)
  BY <1>0, <1>10, StatusWrites, IdleFire DEF HandlerFails, HandlersTyped
<1> QED
  BY <1>1, <1>2, <1>3, <1>4, <1>5, <1>6, <1>7, <1>8, <1>9, <1>10, <1>11, <1>12, <1>14
     DEF FireStep

\* So does a step of register().
LEMMA RegisterTypes ==
  ASSUME HandlersTyped, NEW p \in Registrars, Register(p)
  PROVE  HandlersTyped'
<1>1. CASE RegisterReads(p) \/ FindRow(p)
  BY <1>1 DEF RegisterReads, FindRow, HandlersTyped
<1>2. CASE DeleteRow(p)
  <2>1. row' \in [Tasks -> Row]
    BY <1>2, IdleFire DEF DeleteRow, HandlersTyped
  <2>2. \A f \in Watchdogs : [fire[f] EXCEPT !.there = FALSE, !.alive = FALSE] \in Fire
    BY DEF HandlersTyped, Fire
  <2>3. fire' \in [Watchdogs -> Fire]
    BY <1>2, <2>2 DEF DeleteRow, HandlersTyped
  <2> QED
    BY <2>1, <2>3 DEF HandlersTyped
<1>3. CASE ScheduleRow(p)
  <2>1. [NoRow EXCEPT !.status = "pending"] \in Row
    BY DEF NoRow, Row, RowStatus
  <2> QED
    BY <1>3, <2>1 DEF ScheduleRow, HandlersTyped
<1> QED
  BY <1>1, <1>2, <1>3 DEF Register

\* So does every step.
LEMMA HandlersStep == HandlersTyped /\ [Next]_vars => HandlersTyped'
<1> SUFFICES ASSUME HandlersTyped, [Next]_vars PROVE HandlersTyped'
  OBVIOUS
<1>1. CASE UNCHANGED <<row, fire>>
  BY <1>1 DEF HandlersTyped
<1>2. CASE \E c \in Life!Callers : Commit(c) \/ Return(c)
  BY <1>1, <1>2 DEF Commit, Return
<1>3. CASE \E t \in Tasks : CancelPatrol(t)
  <2>1. "cancelled" \in RowStatus
    BY DEF RowStatus
  <2>2. PICK t \in Tasks : CancelPatrol(t)
    BY <1>3
  <2>3. [row EXCEPT ![t].status = "cancelled"] \in [Tasks -> Row]
    BY <2>1, StatusWrites
  <2> QED
    BY <2>2, <2>3 DEF CancelPatrol, HandlersTyped
<1>4. CASE \E f \in Watchdogs : FireStep(f) \/ \E t \in Tasks : SelectRow(f, t)
  BY <1>4, FireTypes
<1>5. CASE FaultStep
  BY <1>1, <1>5, FireTypes DEF FaultStep, CallFails, patrol, RegisterFails, CancelFails
<1>6. CASE Crash
  BY <1>6, IdleFire DEF Crash, HandlersTyped
<1>7. CASE Startup
  <2>1. CASE Sweep
    <3>1. \A t \in Tasks : [row[t] EXCEPT !.status = "cancelled"] \in Row
      BY DEF HandlersTyped, Row, RowStatus
    <3> QED
      BY <2>1, <3>1 DEF Sweep, HandlersTyped
  <2> QED
    BY <1>1, <1>7, <2>1 DEF Startup, Booted, Restore, patrol
<1>8. CASE Elsewhere \/ UNCHANGED vars
  BY <1>1, <1>8 DEF Elsewhere, vars, patrol
<1> QED
  BY <1>2, <1>3, <1>4, <1>5, <1>6, <1>7, <1>8, RegisterTypes DEF Next

-----------------------------------------------------------------------------
(* The refinement.                                                         *)

\* The patrol starts where the life cycle does.
LEMMA InitLife == Init => Life!Init
  BY DEF Init

\* The callers of the life cycle are the users and the watchdogs.
LEMMA CallersOfBoth == Life!Callers = Users \cup Watchdogs
  BY DEF Life!Callers

\* Requests and watchdogs, as steps of the life cycle.
LEMMA CallStepOfLife ==
  ASSUME NEW c \in Life!Callers, Life!CallStep(c)
  PROVE  Life!Next
  BY DEF Life!Next

\* What goes on elsewhere is a step of the life cycle.
LEMMA ElsewhereOfLife == ASSUME Elsewhere PROVE Life!Next
<1>1. CASE \E t \in Tasks : Life!Create(t)
  BY <1>1 DEF Life!Next
<1>2. CASE \E c \in Users : Life!UserStep(c)
  BY <1>2 DEF Life!Next
<1>3. CASE \E w \in Watchdogs : Life!SystemBlock(w)
  BY <1>3 DEF Life!Next
<1>4. CASE \E c \in Life!Callers : Life!Preflight(c) \/ Life!CommitRefused(c)
  <2>1. PICK c \in Life!Callers : Life!Preflight(c) \/ Life!CommitRefused(c)
    BY <1>4
  <2>2. Life!CallStep(c)
    BY <2>1 DEF Life!CallStep
  <2> QED
    BY <2>2, CallStepOfLife
<1> QED
  BY <1>1, <1>2, <1>3, <1>4 DEF Elsewhere

\* The handler asks for a block, and does nothing else to a task.
LEMMA FireOfLife ==
  ASSUME HandlersTyped, NEW f \in Watchdogs, FireStep(f)
  PROVE  Life!Next \/ UNCHANGED tasks
<1>1. CASE Stalls(f)
  <2>1. Life!AskBlock(f, fire[f].task)
    BY <1>1 DEF Stalls
  <2>2. fire[f].task \in Tasks
    BY DEF HandlersTyped, Fire
  <2> QED
    BY <2>1, <2>2 DEF Life!Next
<1>2. CASE ~Stalls(f)
  BY <1>2 DEF FireStep, Claim, PassesOver, GuardVetoes, HandlerReads, Expire,
     HandlerLooks, Wakes, Defers, Save
<1> QED
  BY <1>1, <1>2

\* An error is one of its failures, or nothing it can see.
LEMMA FaultOfLife == ASSUME FaultStep PROVE Life!Next \/ UNCHANGED tasks
<1>1. CASE \E f \in Watchdogs : HandlerFails(f) \/ TickFails(f)
  BY <1>1 DEF HandlerFails, TickFails
<1>2. CASE \E c \in Life!Callers : CallFails(c)
  <2>1. PICK c \in Life!Callers : Life!CallFails(c)
    BY <1>2 DEF CallFails
  <2>2. Life!CallStep(c)
    BY <2>1 DEF Life!CallStep
  <2> QED
    BY <2>2, CallStepOfLife
<1>3. CASE \E p \in Registrars : RegisterFails(p)
  BY <1>3 DEF RegisterFails
<1>4. CASE \E t \in Tasks : CancelFails(t)
  BY <1>4 DEF CancelFails
<1> QED
  BY <1>1, <1>2, <1>3, <1>4 DEF FaultStep

\* Every step of the patrol is one of the life cycle, or a stutter.
LEMMA StepOfLife == HandlersTyped /\ [Next]_vars => [Life!Next]_Life!vars
<1> SUFFICES ASSUME HandlersTyped, [Next]_vars PROVE Life!Next \/ UNCHANGED tasks
  BY DEF Life!vars, tasks
<1>1. CASE Elsewhere
  BY <1>1, ElsewhereOfLife
<1>2. CASE \E c \in Life!Callers : Commit(c) \/ Return(c)
  <2>1. PICK c \in Life!Callers : Life!CallStep(c)
    BY <1>2 DEF Commit, Return, Life!CallStep
  <2> QED
    BY <2>1, CallStepOfLife
<1>3. CASE \E t \in Tasks : CancelPatrol(t)
  BY <1>3 DEF CancelPatrol
<1>4. CASE \E p \in Registrars : Register(p)
  BY <1>4 DEF Register, RegisterReads, FindRow, DeleteRow, ScheduleRow
<1>5. CASE \E f \in Watchdogs : FireStep(f) \/ \E t \in Tasks : SelectRow(f, t)
  BY <1>5, FireOfLife DEF SelectRow
<1>6. CASE FaultStep
  BY <1>6, FaultOfLife
<1>7. CASE Crash
  BY <1>7 DEF Crash, Life!Next
<1>8. CASE Startup
  BY <1>8 DEF Startup, Sweep, Booted, Restore
<1>9. CASE UNCHANGED vars
  BY <1>9 DEF vars
<1> QED
  BY <1>1, <1>2, <1>3, <1>4, <1>5, <1>6, <1>7, <1>8, <1>9 DEF Next

\* Whatever the watchdog does, a task goes the way TaskLifecycle lets it go; so
\* the theorems about TaskLifecycle hold beside the watchdog too.
THEOREM PatrolImplementsLifecycle == Spec => ImplementsLifecycle
<1>1. Init => HandlersTyped /\ Life!Init
  BY InitHandlers, InitLife
<1> QED
  BY <1>1, HandlersStep, StepOfLife, PTL DEF Spec, ImplementsLifecycle, Life!Spec

-----------------------------------------------------------------------------
(* Types.  The life cycle keeps its own, as in TaskLifecycle_proofs, whose  *)
(* lemmas are about its own constants and not about this instance.          *)

\* The assumption on the constants, as the proofs use it.
LEMMA Constants ==
  /\ Users \cap Watchdogs = {} /\ Boot \notin Users /\ Boot \notin Watchdogs
  /\ StallLimit \in Nat \ {0} /\ MaxRounds \in Nat \ {0}
  /\ AnyTask \in Tasks
  BY PatrolAssumption DEF AnyTask

\* The table of transitions, entry by entry.
LEMMA LifeTable ==
  /\ Life!Actions = {"start", "submit", "accept", "reject", "archive", "block", "resume"}
  /\ \A a \in Life!Actions :
       /\ Life!From[a] \in Life!TASK_STATUS /\ Life!To[a] \in Life!TASK_STATUS
       /\ Life!From[a] # Life!To[a]
  /\ Life!From["block"] = "in_progress" /\ Life!To["block"] = "blocked"
  BY DEF Life!Actions, Life!From, Life!To, Life!TASK_STATUS

\* The record of a caller without a request has its type.
LEMMA LifeIdle == Life!NoCall \in Life!Call /\ Life!NoCall.phase = "idle"
<1>1. (CHOOSE t \in Tasks : TRUE) \in Tasks
  BY PatrolAssumption
<1> QED
  BY <1>1, LifeTable DEF Life!NoCall, Life!Call

\* What the life cycle does to the record of a caller.
LEMMA CallRecords ==
  ASSUME Life!TypeOK, NEW c \in Life!Callers
  PROVE  /\ Life!Ends(c) => call' \in [Life!Callers -> Life!Call]
         /\ \A p \in {"idle", "asked", "preflight", "commit", "after", "remove"} :
              Life!Goto(c, p) => call' \in [Life!Callers -> Life!Call]
         /\ \A t \in Tasks, a \in Life!Actions :
              Life!Reads(c, t, a) => call' \in [Life!Callers -> Life!Call]
         /\ \A t \in Tasks, p \in {"asked", "remove"} :
              call' = [call EXCEPT ![c].phase = p, ![c].task = t]
                => call' \in [Life!Callers -> Life!Call]
<1> USE DEF Life!TypeOK, Life!Call
<1>1. Life!Ends(c) => call' \in [Life!Callers -> Life!Call]
  BY LifeIdle DEF Life!Ends
<1>2. ASSUME NEW p \in {"idle", "asked", "preflight", "commit", "after", "remove"},
             Life!Goto(c, p)
      PROVE  call' \in [Life!Callers -> Life!Call]
  BY <1>2 DEF Life!Goto
<1>3. ASSUME NEW t \in Tasks, NEW a \in Life!Actions, Life!Reads(c, t, a)
      PROVE  call' \in [Life!Callers -> Life!Call]
  BY <1>3 DEF Life!Reads
<1>4. ASSUME NEW t \in Tasks, NEW p \in {"asked", "remove"},
             call' = [call EXCEPT ![c].phase = p, ![c].task = t]
      PROVE  call' \in [Life!Callers -> Life!Call]
  <2>1. call' = [[call EXCEPT ![c].phase = p] EXCEPT ![c].task = t]
    BY <1>4
  <2>2. [call EXCEPT ![c].phase = p] \in [Life!Callers -> Life!Call]
    OBVIOUS
  <2> QED
    BY <2>1, <2>2
<1> QED
  BY <1>1, <1>2, <1>3, <1>4

\* A step of the life cycle keeps its types.
LEMMA LifeTypesStep ==
  ASSUME Life!TypeOK, Life!Next \/ UNCHANGED tasks
  PROVE  Life!TypeOK'
<1>1. CASE \E t \in Tasks : Life!Create(t)
  BY <1>1 DEF Life!Create, Life!TypeOK, Life!TASK_STATUS
<1>2. CASE \E c \in Users : Life!UserStep(c)
  <2>1. PICK c \in Users : Life!UserStep(c)
    BY <1>2
  <2>2. c \in Life!Callers
    BY DEF Life!Callers
  <2>3. CASE \E t \in Tasks, a \in Life!Actions : Life!Request(c, t, a)
    <3>1. call' \in [Life!Callers -> Life!Call]
      BY <2>2, <2>3, CallRecords DEF Life!Request
    <3> QED
      BY <2>3, <3>1 DEF Life!Request, Life!Reads, Life!rows, Life!TypeOK
  <2>4. CASE \E t \in Tasks : Life!RemoveReads(c, t)
    <3>1. call' \in [Life!Callers -> Life!Call]
      BY <2>2, <2>4, CallRecords DEF Life!RemoveReads
    <3> QED
      BY <2>4, <3>1 DEF Life!RemoveReads, Life!rows, Life!TypeOK
  <2>5. CASE Life!RemoveCommits(c)
    <3>1. call' \in [Life!Callers -> Life!Call]
      BY <2>2, <2>5, CallRecords DEF Life!RemoveCommits
    <3> QED
      BY <2>5, <3>1 DEF Life!RemoveCommits, Life!TypeOK, Life!TASK_STATUS
  <2> QED
    BY <2>1, <2>3, <2>4, <2>5 DEF Life!UserStep
<1>3. ASSUME NEW w \in Watchdogs, NEW t \in Tasks, Life!AskBlock(w, t)
      PROVE  Life!TypeOK'
  <2>1. call' \in [Life!Callers -> Life!Call]
    BY <1>3, CallRecords DEF Life!AskBlock, Life!Callers
  <2> QED
    BY <1>3, <2>1 DEF Life!AskBlock, Life!rows, Life!TypeOK
<1>4. ASSUME NEW w \in Watchdogs, Life!SystemBlock(w)
      PROVE  Life!TypeOK'
  <2>1. w \in Life!Callers /\ "block" \in Life!Actions
    BY LifeTable DEF Life!Callers
  <2>2. call[w].task \in Tasks
    BY <2>1 DEF Life!TypeOK, Life!Call
  <2>3. call' \in [Life!Callers -> Life!Call]
    BY <1>4, <2>1, <2>2, CallRecords DEF Life!SystemBlock
  <2> QED
    BY <1>4, <2>3 DEF Life!SystemBlock, Life!Reads, Life!rows, Life!TypeOK
<1>5. ASSUME NEW c \in Life!Callers, Life!CallStep(c)
      PROVE  Life!TypeOK'
  <2>1. Life!Goto(c, "commit") \/ Life!Goto(c, "after") \/ Life!Ends(c)
    BY <1>5 DEF Life!CallStep, Life!Preflight, Life!Commit, Life!CommitRefused, Life!Return,
      Life!CallFails
  <2>2. call' \in [Life!Callers -> Life!Call]
    BY <2>1, CallRecords
  <2>3. CASE Life!Commit(c)
    <3>1. call[c].task \in Tasks /\ call[c].action \in Life!Actions
      BY DEF Life!TypeOK, Life!Call
    <3>2. Life!To[call[c].action] \in Life!TASK_STATUS
      BY <3>1, LifeTable
    <3> QED
      BY <2>2, <2>3, <3>1, <3>2 DEF Life!Commit, Life!TypeOK
  <2>4. CASE UNCHANGED Life!rows
    BY <2>2, <2>4 DEF Life!rows, Life!TypeOK
  <2> QED
    BY <1>5, <2>3, <2>4 DEF Life!CallStep, Life!Preflight, Life!CommitRefused, Life!Return,
      Life!CallFails
<1>6. CASE Life!Crash
  BY <1>6, LifeIdle DEF Life!Crash, Life!rows, Life!TypeOK
<1>7. CASE UNCHANGED tasks
  BY <1>7 DEF tasks, Life!TypeOK
<1> QED
  BY <1>1, <1>2, <1>3, <1>4, <1>5, <1>6, <1>7 DEF Life!Next

\* The variables of the patrol beside rows and handlers.
BookTypes ==
  /\ cancels \in [Tasks -> Nat]
  /\ reg \in [Registrars -> [step : RegSteps, task : Tasks]]
  /\ boot \in {"sweep", "restore", "up"} /\ restoring \in SUBSET Tasks
  /\ upsets \in Nat /\ crashes \in Nat
  /\ quiet \in [Tasks -> Nat]
  /\ {missed, overtaken, faulty} \subseteq SUBSET Tasks

\* The types, by the components that have them.
LEMMA TypesOf == TypeOK <=> Life!TypeOK /\ HandlersTyped /\ BookTypes
  BY DEF TypeOK, HandlersTyped, BookTypes

\* What register() does to its own record.
LEMMA RegRecords ==
  ASSUME BookTypes, NEW p \in Registrars
  PROVE  /\ [reg EXCEPT ![p] = NoReg] \in [Registrars -> [step : RegSteps, task : Tasks]]
         /\ \A s \in RegSteps :
              /\ [reg EXCEPT ![p].step = s] \in [Registrars -> [step : RegSteps, task : Tasks]]
              /\ \A t \in Tasks : [reg EXCEPT ![p] = [step |-> s, task |-> t]]
                                    \in [Registrars -> [step : RegSteps, task : Tasks]]
  BY Constants DEF BookTypes, NoReg, RegSteps

\* A step of a handler keeps the types of the patrol's bookkeeping.
LEMMA FireBookTypes ==
  ASSUME TypeOK, NEW f \in Watchdogs, FireStep(f) \/ HandlerFails(f) \/ TickFails(f)
  PROVE  BookTypes'
<1>1. fire[f].task \in Tasks
  BY DEF TypeOK, Fire
<1>2. CASE \/ Claim(f) \/ PassesOver(f)
           \/ GuardVetoes(f) \/ HandlerReads(f) \/ Expire(f) \/ Save(f)
  BY <1>2 DEF Claim, PassesOver, GuardVetoes, HandlerReads, Expire, Save, Upset,
     world, history, TypeOK, BookTypes
<1>3. CASE HandlerLooks(f) \/ Wakes(f) \/ Defers(f)
  <2>1. quiet' \in [Tasks -> Nat] /\ missed' \in SUBSET Tasks
    BY <1>1, <1>3 DEF HandlerLooks, ResetStreak, Wakes, Defers, Counts, TypeOK
  <2> QED
    BY <1>3, <2>1 DEF HandlerLooks, Wakes, Defers, Upset, world, TypeOK, BookTypes
<1>4. CASE Stalls(f)
  BY <1>1, <1>4 DEF Stalls, Unregister, world, history, TypeOK, BookTypes
<1>5. CASE HandlerFails(f) \/ TickFails(f)
  BY <1>1, <1>5 DEF HandlerFails, TickFails, Upset, Hits, TypeOK, BookTypes
<1> QED
  BY <1>2, <1>3, <1>4, <1>5 DEF FireStep

\* So does a step of register(), or its error.
LEMMA RegisterBookTypes ==
  ASSUME TypeOK, NEW p \in Registrars, Register(p) \/ RegisterFails(p)
  PROVE  BookTypes'
<1>1. reg[p].task \in Tasks /\ BookTypes
  BY DEF TypeOK, BookTypes
<1>2. reg' \in [Registrars -> [step : RegSteps, task : Tasks]]
  <2>1. RegDone(p) \/ \E s \in RegSteps : RegGoto(p, s)
    BY DEF Register, RegisterReads, FindRow, DeleteRow, ScheduleRow, RegisterFails, RegSteps
  <2> QED
    BY <1>1, <2>1, RegRecords DEF RegDone, RegGoto
<1>3. CASE RegisterReads(p) \/ DeleteRow(p)
  <2>1. UNCHANGED <<cancels, world, history>>
    BY <1>3 DEF RegisterReads, DeleteRow
  <2> QED
    BY <1>1, <1>2, <2>1 DEF world, history, BookTypes
<1>4. CASE FindRow(p)
  BY <1>1, <1>2, <1>4 DEF FindRow, world, TypeOK, BookTypes
<1>5. CASE ScheduleRow(p)
  <2>1. quiet' \in [Tasks -> Nat] /\ missed' \in SUBSET Tasks
    BY <1>1, <1>5 DEF ScheduleRow, BookTypes
  <2>2. UNCHANGED <<cancels, world, overtaken, faulty>>
    BY <1>5 DEF ScheduleRow
  <2> QED
    BY <1>1, <1>2, <2>1, <2>2 DEF world, BookTypes
<1>6. CASE RegisterFails(p)
  BY <1>1, <1>2, <1>6 DEF RegisterFails, Upset, Hits, TypeOK, BookTypes
<1> QED
  BY <1>3, <1>4, <1>5, <1>6 DEF Register

\* A step keeps the books in their types.
LEMMA BookTypesStep ==
  ASSUME TypeOK, [Next]_vars
  PROVE  BookTypes'
<1>0. BookTypes
  BY TypesOf
<1>1. CASE Elsewhere \/ UNCHANGED vars
  BY <1>0, <1>1 DEF Elsewhere, vars, patrol, world, history, BookTypes
<1>2. ASSUME NEW c \in Life!Callers, Commit(c)
      PROVE  BookTypes'
  <2>1. call[c].task \in Tasks
    BY DEF TypeOK, Life!TypeOK, Life!Call
  <2>2. reg' \in [Registrars -> [step : RegSteps, task : Tasks]]
    BY <1>2, <2>1 DEF Commit, TypeOK, RegSteps
  <2> QED
    BY <1>0, <1>2, <2>2 DEF Commit, world, history, BookTypes
<1>3. ASSUME NEW c \in Life!Callers, Return(c)
      PROVE  BookTypes'
  <2>1. call[c].task \in Tasks
    BY DEF TypeOK, Life!TypeOK, Life!Call
  <2>2. cancels' \in [Tasks -> Nat]
    BY <1>0, <1>3, <2>1 DEF Return, Unregister, BookTypes
  <2> QED
    BY <1>0, <1>3, <2>2 DEF Return, world, history, BookTypes
<1>4. ASSUME NEW t \in Tasks, CancelPatrol(t) \/ CancelFails(t)
      PROVE  BookTypes'
  BY <1>0, <1>4 DEF CancelPatrol, CancelFails, Upset, world, history, BookTypes
<1>5. ASSUME NEW c \in Life!Callers, CallFails(c)
      PROVE  BookTypes'
  <2>1. call[c].task \in Tasks
    BY DEF TypeOK, Life!TypeOK, Life!Call
  <2> QED
    BY <1>0, <1>5, <2>1 DEF CallFails, Upset, Hits, patrol, BookTypes
<1>6. ASSUME NEW f \in Watchdogs, NEW t \in Tasks, SelectRow(f, t)
      PROVE  BookTypes'
  BY <1>0, <1>6 DEF SelectRow, world, history, BookTypes
<1>7. CASE Crash
  BY <1>0, <1>7, Constants DEF Crash, NoReg, RegSteps, BookTypes
<1>8. CASE Startup
  <2>1. CASE Sweep \/ Booted
    BY <1>0, <2>1 DEF Sweep, Booted, Running, patrol, history, BookTypes
  <2>2. ASSUME NEW t \in Tasks, Restore(t)
        PROVE  BookTypes'
    <3>1. reg' \in [Registrars -> [step : RegSteps, task : Tasks]]
      BY <1>0, <2>2, RegRecords DEF Restore, Registrars, RegSteps
    <3> QED
      BY <1>0, <2>2, <3>1 DEF Restore, history, BookTypes
  <2> QED
    BY <1>8, <2>1, <2>2 DEF Startup
<1> QED
  BY <1>1, <1>2, <1>3, <1>4, <1>5, <1>6, <1>7, <1>8, FireBookTypes, RegisterBookTypes
     DEF Next, FaultStep

\* The types hold at first.
LEMMA PatrolTypesInit == Init => TypeOK
<1> SUFFICES ASSUME Init PROVE TypeOK
  OBVIOUS
<1>1. Life!TypeOK
  BY LifeIdle DEF Init, Life!Init, Life!TypeOK, Life!TASK_STATUS
<1>2. BookTypes
  BY Constants DEF Init, BookTypes, NoReg, RegSteps
<1> QED
  BY <1>1, <1>2, InitHandlers, TypesOf

\* Every step keeps the types.
LEMMA PatrolTypesStep == TypeOK /\ [Next]_vars => TypeOK'
<1> SUFFICES ASSUME TypeOK, [Next]_vars PROVE TypeOK'
  OBVIOUS
<1>1. HandlersTyped'
  BY TypesOf, HandlersStep
<1>2. Life!Next \/ UNCHANGED tasks
  BY TypesOf, StepOfLife DEF Life!vars, tasks
<1>3. Life!TypeOK'
  BY <1>2, TypesOf, LifeTypesStep
<1>4. BookTypes'
  BY BookTypesStep
<1> QED
  BY <1>1, <1>3, <1>4, TypesOf DEF TypeOK, HandlersTyped, BookTypes

\* Through overlapping transitions, registrations, handlers, errors and
\* restarts every row, request and handler keeps its type.
THEOREM PatrolTypeCorrect == Spec => []TypeOK
  BY PatrolTypesInit, PatrolTypesStep, PTL DEF Spec

-----------------------------------------------------------------------------
(* Rows and their handlers.                                                *)

\* A row that is being handled is fired, or was cancelled since, and has one
\* handler that still finds it under its id.
OneAlive ==
  /\ \A f \in Watchdogs : fire[f].alive =>
       /\ fire[f].phase \notin {"idle", "claim"}
       /\ row[fire[f].task].status \in {"firing", "cancelled"}
  /\ \A f, g \in Watchdogs :
       fire[f].alive /\ fire[g].alive /\ fire[f].task = fire[g].task => f = g

\* A tick that finds its row under its id has read no more rounds than it has.
SnapBook ==
  \A f \in Watchdogs : fire[f].there \/ fire[f].alive =>
    row[fire[f].task].status # "none" /\ fire[f].fires <= row[fire[f].task].fires

\* The streak in a row, the one a tick has read and the one a handler works
\* with count wakes since the row was made or progress was seen, if no
\* progress was missed.
QuietBook ==
  /\ \A t \in Tasks : t \notin missed => row[t].streak <= quiet[t]
  /\ \A f \in Watchdogs : fire[f].task \notin missed =>
       /\ fire[f].phase = "claim" /\ fire[f].there => fire[f].streak <= quiet[fire[f].task]
       /\ fire[f].alive =>
            /\ fire[f].phase \in {"guard", "look"} => fire[f].streak <= quiet[fire[f].task]
            /\ fire[f].phase = "check" => quiet[fire[f].task] >= StallLimit

RowBook == OneAlive /\ SnapBook /\ QuietBook

\* What the statements of a handler do to the rows.
LEMMA StreakAt ==
  ASSUME TypeOK, NEW f \in Watchdogs, NEW k, WriteStreak(f, k), NEW t \in Tasks
  PROVE  /\ row'[t].status = row[t].status /\ row'[t].fires = row[t].fires
         /\ row'[t].streak = IF fire[f].alive /\ fire[f].task = t THEN k ELSE row[t].streak
  BY DEF WriteStreak, TypeOK, Row

\* What saving an outcome does to the row of a task: nothing, when it was replaced.
LEMMA OutcomeAt ==
  ASSUME TypeOK, NEW f \in Watchdogs, NEW s, Outcome(f, s), NEW t \in Tasks
  PROVE  /\ row'[t].streak = row[t].streak
         /\ row'[t].status = IF fire[f].alive /\ fire[f].task = t THEN s ELSE row[t].status
         /\ row'[t].fires = IF fire[f].alive /\ fire[f].task = t THEN row[t].fires + 1
                            ELSE row[t].fires
  BY DEF Outcome, TypeOK, Row

\* What a wake or its opposite does to the quiet count of a task.
LEMMA CountsAt ==
  ASSUME TypeOK, NEW f \in Watchdogs, NEW n, Counts(f, n), NEW t \in Tasks
  PROVE  quiet'[t] = IF fire[f].alive /\ fire[f].task = t THEN n ELSE quiet[t]
  BY DEF Counts, TypeOK

\* The fields as numbers and tasks.
LEMMA Fields ==
  ASSUME TypeOK
  PROVE  /\ \A t \in Tasks : /\ row[t].streak \in Nat /\ row[t].fires \in Nat
                             /\ row[t].status \in RowStatus /\ quiet[t] \in Nat
         /\ \A f \in Watchdogs : /\ fire[f].task \in Tasks /\ fire[f].streak \in Nat
                                 /\ fire[f].phase \in FirePhases /\ fire[f].alive \in BOOLEAN
                                 /\ fire[f].fires \in Nat /\ fire[f].there \in BOOLEAN
  BY DEF TypeOK, Row, Fire

\* What a reset does: a zero that is written is one no other tick has missed.
LEMMA ResetAt ==
  ASSUME TypeOK, RowBook, NEW f \in Watchdogs, ResetStreak(f), NEW t \in Tasks
  PROVE  /\ row'[t].status = row[t].status /\ row'[t].fires = row[t].fires
         /\ t \notin missed' => row'[t].streak <= quiet'[t]
         /\ ~(fire[f].alive /\ fire[f].task = t) =>
              quiet'[t] = quiet[t] /\ (t \in missed' <=> t \in missed)
         /\ fire[f].alive /\ fire[f].task = t /\ t \notin missed' => ~ReadElsewhere(t)
<1>1. /\ row[t].streak \in Nat /\ quiet[t] \in Nat /\ fire[f].task \in Tasks
      /\ quiet'[t] = IF fire[f].alive /\ fire[f].task = t THEN 0 ELSE quiet[t]
  BY Fields, CountsAt DEF ResetStreak
<1>2. CASE ~fire[f].alive
  BY <1>1, <1>2 DEF ResetStreak, RowBook, QuietBook
<1>3. CASE fire[f].alive /\ WriteStreak(f, 0)
           /\ missed' = IF ReadElsewhere(fire[f].task) THEN missed \cup {fire[f].task}
                        ELSE missed \ {fire[f].task}
  <2>1. /\ row'[t].status = row[t].status /\ row'[t].fires = row[t].fires
        /\ row'[t].streak = IF fire[f].alive /\ fire[f].task = t THEN 0 ELSE row[t].streak
    BY <1>3, StreakAt
  <2> QED
    BY <1>1, <1>3, <2>1 DEF RowBook, QuietBook
<1>4. CASE fire[f].alive /\ row' = row /\ missed' = missed \cup {fire[f].task}
  BY <1>1, <1>4 DEF RowBook, QuietBook
<1> QED
  BY <1>2, <1>3, <1>4 DEF ResetStreak

\* A tick that is done with its row.
LEMMA HandlerReturns ==
  ASSUME TypeOK, TypeOK', RowBook, NEW f \in Watchdogs, fire' = [fire EXCEPT ![f] = NoFire],
         missed' = missed,
         \A t \in Tasks :
           /\ row'[t].streak = row[t].streak /\ quiet'[t] = quiet[t]
           /\ row'[t].fires >= row[t].fires
           /\ row[t].status # "none" => row'[t].status # "none"
           /\ ~(fire[f].alive /\ fire[f].task = t) =>
                row'[t].status \in {row[t].status, "cancelled"} \/ row[t].status = "pending"
  PROVE  RowBook'
<1>1. /\ \A g \in Watchdogs : g # f => fire'[g] = fire[g]
      /\ ~fire'[f].alive /\ ~fire'[f].there /\ fire'[f].phase = "idle"
  BY DEF TypeOK, NoFire
<1>2. OneAlive'
  BY <1>1, Fields DEF RowBook, OneAlive
<1>3. SnapBook'
  <2> SUFFICES ASSUME NEW g \in Watchdogs, fire'[g].there \/ fire'[g].alive
               PROVE  row'[fire'[g].task].status # "none"
                      /\ fire'[g].fires <= row'[fire'[g].task].fires
    BY DEF SnapBook
  <2>1. g # f /\ fire'[g] = fire[g] /\ fire[g].task \in Tasks
    BY <1>1, Fields
  <2>2. /\ row[fire[g].task].status # "none"
        /\ fire[g].fires <= row[fire[g].task].fires
    BY <2>1 DEF RowBook, SnapBook
  <2>3. /\ fire[g].fires \in Nat /\ row[fire[g].task].fires \in Nat
        /\ row'[fire[g].task].fires \in Nat
    BY <2>1 DEF TypeOK, Row, Fire
  <2> QED
    BY <2>1, <2>2, <2>3
<1>4. QuietBook'
  BY <1>1, Fields DEF RowBook, QuietBook
<1> QED
  BY <1>2, <1>3, <1>4 DEF RowBook

\* A handler that goes on.
LEMMA HandlerGoesOn ==
  ASSUME TypeOK, RowBook, NEW f \in Watchdogs, NEW p \in FirePhases \ {"idle", "claim"},
         FireGoto(f, p), fire[f].phase \notin {"idle", "claim"},
         \A t \in Tasks : row'[t].status = row[t].status /\ row'[t].fires = row[t].fires,
         \A t \in Tasks : t \notin missed' => row'[t].streak <= quiet'[t],
         \A t \in Tasks : ~(fire[f].alive /\ fire[f].task = t) =>
                             quiet'[t] = quiet[t] /\ (t \in missed' <=> t \in missed),
         \A g \in Watchdogs :
           /\ fire[g].phase = "claim" /\ fire[g].there /\ fire[g].task \notin missed'
           /\ fire[f].alive /\ fire[f].task = fire[g].task
           => fire[g].streak <= quiet'[fire[g].task],
         p \in {"guard", "look"} =>
           fire[f].phase \in {"guard", "look"} /\ UNCHANGED <<quiet, missed>>,
         p = "check" /\ fire[f].alive /\ fire[f].task \notin missed' =>
           quiet'[fire[f].task] >= StallLimit
  PROVE  RowBook'
<1>1. /\ \A g \in Watchdogs : g # f => fire'[g] = fire[g]
      /\ fire'[f].phase = p /\ fire'[f].task = fire[f].task /\ fire'[f].fires = fire[f].fires
      /\ fire'[f].streak = fire[f].streak /\ fire'[f].alive = fire[f].alive
      /\ fire'[f].there = fire[f].there
  BY DEF TypeOK, FireGoto, Fire
<1>2. OneAlive' /\ SnapBook'
  BY <1>1, Fields DEF RowBook, OneAlive, SnapBook
<1>3. ASSUME NEW g \in Watchdogs, fire'[g].task \notin missed'
      PROVE  /\ fire'[g].phase = "claim" /\ fire'[g].there
                  => fire'[g].streak <= quiet'[fire'[g].task]
             /\ fire'[g].alive =>
                  /\ fire'[g].phase \in {"guard", "look"} =>
                       fire'[g].streak <= quiet'[fire'[g].task]
                  /\ fire'[g].phase = "check" => quiet'[fire'[g].task] >= StallLimit
  <2>1. CASE g = f
    <3>1. fire'[f].phase # "claim"
      BY <1>1
    <3> QED
      BY <1>1, <1>3, <2>1, <3>1 DEF RowBook, QuietBook
  <2>2. CASE g # f /\ ~(fire[f].alive /\ fire[f].task = fire[g].task)
    <3>1. quiet'[fire[g].task] = quiet[fire[g].task] /\ fire[g].task \notin missed
          /\ fire'[g] = fire[g]
      BY <1>1, <1>3, <2>2, Fields
    <3> QED
      BY <3>1 DEF RowBook, QuietBook
  <2>3. CASE g # f /\ fire[f].alive /\ fire[f].task = fire[g].task
    <3>1. fire'[g] = fire[g] /\ ~fire[g].alive
      BY <1>1, <2>3 DEF RowBook, OneAlive
    <3> QED
      BY <1>3, <2>3, <3>1
  <2> QED
    BY <2>1, <2>2, <2>3
<1> QED
  BY <1>2, <1>3 DEF RowBook, QuietBook

\* What a tick reads and claims.
LEMMA ClaimBook ==
  ASSUME TypeOK, RowBook, NEW f \in Watchdogs, Claim(f) \/ \E t \in Tasks : SelectRow(f, t)
  PROVE  RowBook'
<1>1. CASE \E t \in Tasks : SelectRow(f, t)
  <2>1. PICK t \in Tasks : SelectRow(f, t)
    BY <1>1
  <2>2. /\ \A g \in Watchdogs : g # f => fire'[g] = fire[g]
        /\ fire'[f] = [phase |-> "claim", task |-> t, streak |-> row[t].streak,
                       fires |-> row[t].fires, there |-> TRUE, alive |-> FALSE]
        /\ UNCHANGED <<row, quiet, missed>> /\ row[t].status = "pending"
    BY <2>1 DEF SelectRow, TypeOK, history
  <2> QED
    BY <2>2, Fields DEF RowBook, OneAlive, SnapBook, QuietBook
<1>2. CASE Claim(f)
  <2> DEFINE t == fire[f].task
  <2>1. /\ \A g \in Watchdogs : g # f => fire'[g] = fire[g]
        /\ fire'[f].phase = "guard" /\ fire'[f].alive /\ fire'[f].task = t
        /\ fire'[f].streak = fire[f].streak /\ fire'[f].fires = fire[f].fires
    <3>1. fire' = [[fire EXCEPT ![f].phase = "guard"] EXCEPT ![f].alive = TRUE]
      BY <1>2 DEF Claim
    <3> QED
      BY <3>1 DEF TypeOK, Fire
  <2>2. /\ \A u \in Tasks : u # t => row'[u] = row[u]
        /\ row'[t].status = "firing" /\ row'[t].streak = row[t].streak
        /\ row'[t].fires = row[t].fires
        /\ row[t].status = "pending" /\ UNCHANGED <<quiet, missed>>
        /\ fire[f].phase = "claim" /\ fire[f].there
    BY <1>2, Fields DEF Claim, Claimable, TypeOK, Row, history
  <2>3. \A g \in Watchdogs : fire[g].alive => fire[g].task # t
    BY <2>2 DEF RowBook, OneAlive
  <2>4. OneAlive'
    BY <2>1, <2>2, <2>3, Fields DEF RowBook, OneAlive
  <2>5. SnapBook'
    BY <2>1, <2>2, Fields DEF RowBook, SnapBook
  <2>6. QuietBook'
    BY <2>1, <2>2, Fields DEF RowBook, QuietBook
  <2> QED
    BY <2>4, <2>5, <2>6 DEF RowBook
<1> QED
  BY <1>1, <1>2

\* A step that ends the work of a tick on a row keeps the row book.
LEMMA ReturnBook ==
  ASSUME TypeOK, TypeOK', RowBook, NEW f \in Watchdogs,
         \/ PassesOver(f) \/ GuardVetoes(f) \/ Expire(f) \/ Save(f)
         \/ HandlerFails(f) \/ TickFails(f)
  PROVE  RowBook'
<1>1. fire' = [fire EXCEPT ![f] = NoFire] /\ UNCHANGED <<quiet, missed>>
  BY DEF PassesOver, GuardVetoes, Expire, Save, HandlerFails, TickFails, history
<1> DEFINE Kept(t) ==
      /\ row'[t].streak = row[t].streak /\ row'[t].fires >= row[t].fires
      /\ row[t].status # "none" => row'[t].status # "none"
      /\ ~(fire[f].alive /\ fire[f].task = t) =>
           row'[t].status \in {row[t].status, "cancelled"} \/ row[t].status = "pending"
<1>2. ASSUME NEW t \in Tasks
      PROVE  Kept(t)
  <2>1. row[t].fires \in Nat /\ row[t] \in Row
    BY DEF TypeOK, Row
  <2>2. CASE Expire(f) \/ Save(f)
    <3>1. PICK s \in {"cancelled", "pending"} : Outcome(f, s)
      BY <2>2 DEF Expire, Save
    <3> QED
      BY <2>1, <3>1, OutcomeAt
  <2>3. CASE row' = row
    BY <2>1, <2>3
  <2>4. ASSUME NEW s \in {"cancelled", "pending", "failed", "firing"},
               row' = [row EXCEPT ![fire[f].task].status = s],
               fire[f].alive \/ s = "cancelled" \/ row[fire[f].task].status = "pending"
        PROVE  Kept(t)
    BY <2>1, <2>4 DEF TypeOK, Row
  <2> QED
    BY <2>2, <2>3, <2>4 DEF PassesOver, GuardVetoes, HandlerFails, TickFails, Claimable
<1> QED
  BY <1>1, <1>2, HandlerReturns

\* A claim and a step of a handler keep the row book.
LEMMA FireRowBook ==
  ASSUME TypeOK, TypeOK', RowBook, NEW f \in Watchdogs,
         FireStep(f) \/ HandlerFails(f) \/ TickFails(f) \/ \E t \in Tasks : SelectRow(f, t)
  PROVE  RowBook'
<1> USE Constants
<1> DEFINE t0 == fire[f].task
<1>0. /\ t0 \in Tasks /\ fire[f].streak \in Nat /\ quiet[t0] \in Nat
      /\ \A t \in Tasks : t \notin missed => row[t].streak <= quiet[t]
      /\ \A g \in Watchdogs :
           fire[g].phase = "claim" /\ fire[g].there /\ fire[g].task \notin missed =>
             fire[g].streak <= quiet[fire[g].task]
  BY Fields DEF RowBook, QuietBook
<1>4. CASE HandlerReads(f)
  <2>1. fire[f].phase = "guard" /\ UNCHANGED <<row, quiet, missed>>
        /\ (FireGoto(f, "look") \/ FireGoto(f, "expire"))
    BY <1>4 DEF HandlerReads, history
  <2>2. {"look", "expire"} \subseteq FirePhases \ {"idle", "claim"}
    BY DEF FirePhases
  <2> QED
    BY <1>0, <2>1, <2>2, HandlerGoesOn
<1>5. CASE HandlerLooks(f) \/ Defers(f)
  <2>1. /\ fire[f].phase \in {"look", "check"} /\ FireGoto(f, "save")
        /\ "save" \in FirePhases \ {"idle", "claim"}
    BY <1>5 DEF HandlerLooks, Defers, FirePhases
  <2>2. CASE UNCHANGED <<row, quiet, missed>>
    BY <1>0, <2>1, <2>2, HandlerGoesOn
  <2>3. CASE ResetStreak(f)
    <3>1. \A t \in Tasks :
            /\ row'[t].status = row[t].status /\ row'[t].fires = row[t].fires
            /\ t \notin missed' => row'[t].streak <= quiet'[t]
            /\ ~(fire[f].alive /\ fire[f].task = t) =>
                 quiet'[t] = quiet[t] /\ (t \in missed' <=> t \in missed)
      BY <2>3, ResetAt
    <3>2. fire[f].alive /\ t0 \notin missed' => ~ReadElsewhere(t0)
      BY <1>0, <2>3, ResetAt
    <3>3. \A g \in Watchdogs :
            ~(/\ fire[g].phase = "claim" /\ fire[g].there /\ fire[g].task \notin missed'
              /\ fire[f].alive /\ t0 = fire[g].task)
      BY <3>2 DEF ReadElsewhere
    <3> QED
      BY <2>1, <3>1, <3>3, HandlerGoesOn
  <2> QED
    BY <1>5, <2>2, <2>3 DEF HandlerLooks, Defers
<1>6. CASE Wakes(f)
  <2> DEFINE k == fire[f].streak + 1
             p == IF k >= StallLimit THEN "check" ELSE "save"
  <2>1. /\ fire[f].phase = "look" /\ FireGoto(f, p) /\ p \in FirePhases \ {"idle", "claim"}
        /\ WriteStreak(f, k) \/ row' = row
        /\ Counts(f, quiet[t0] + 1) /\ missed' = missed
    BY <1>6 DEF Wakes, FirePhases
  <2>2. fire[f].alive /\ t0 \notin missed => k <= quiet[t0] + 1
    BY <1>0, <2>1 DEF RowBook, QuietBook
  <2>3. \A t \in Tasks :
          /\ row'[t].status = row[t].status /\ row'[t].fires = row[t].fires
          /\ row'[t].streak = row[t].streak
             \/ (fire[f].alive /\ t0 = t /\ row'[t].streak = k)
          /\ quiet'[t] = IF fire[f].alive /\ t0 = t THEN quiet[t0] + 1 ELSE quiet[t]
    <3>1. CASE WriteStreak(f, k)
      BY <2>1, <3>1, StreakAt, CountsAt
    <3>2. CASE row' = row
      BY <2>1, <3>2, CountsAt
    <3> QED
      BY <2>1, <3>1, <3>2
  <2>4. \A t \in Tasks :
          /\ row'[t].status = row[t].status /\ row'[t].fires = row[t].fires
          /\ t \notin missed' => row'[t].streak <= quiet'[t]
          /\ ~(fire[f].alive /\ t0 = t) =>
               quiet'[t] = quiet[t] /\ (t \in missed' <=> t \in missed)
    <3> SUFFICES ASSUME NEW t \in Tasks
                 PROVE  /\ t \notin missed' => row'[t].streak <= quiet'[t]
                        /\ ~(fire[f].alive /\ t0 = t) => quiet'[t] = quiet[t]
      BY <2>1, <2>3
    <3>1. row[t].streak \in Nat /\ quiet[t] \in Nat
      BY Fields
    <3> HIDE DEF k, t0
    <3> QED
      BY <1>0, <2>1, <2>2, <2>3, <3>1
  <2>5. p = "check" /\ fire[f].alive /\ t0 \notin missed' => quiet'[t0] >= StallLimit
    BY <1>0, <2>1, <2>2, <2>3
  <2>6. p \notin {"guard", "look"}
    OBVIOUS
  <2>7. FireGoto(f, p) /\ p \in FirePhases \ {"idle", "claim"}
        /\ fire[f].phase \notin {"idle", "claim"}
    BY <2>1
  <2>8. \A g \in Watchdogs :
           /\ fire[g].phase = "claim" /\ fire[g].there /\ fire[g].task \notin missed'
           /\ fire[f].alive /\ t0 = fire[g].task
           => fire[g].streak <= quiet'[fire[g].task]
    BY <1>0, <2>1, <2>3, Fields
  <2> HIDE DEF p, k
  <2> QED
    BY ONLY TypeOK, RowBook, <2>4, <2>5, <2>6, <2>7, <2>8, HandlerGoesOn
<1>8. CASE Stalls(f)
  <2>1. fire[f].phase = "check" /\ FireGoto(f, "save")
        /\ "save" \in FirePhases \ {"idle", "claim"}
        /\ UNCHANGED <<row, quiet, missed>>
    BY <1>8 DEF Stalls, FirePhases, history
  <2> QED
    BY <1>0, <2>1, HandlerGoesOn
<1> QED
  BY <1>4, <1>5, <1>6, <1>8, ClaimBook, ReturnBook DEF FireStep

\* Every other statement that writes a row leaves it without a handler that
\* is alive, or cancelled.
LEMMA RowBookStep ==
  ASSUME TypeOK, TypeOK', RowBook, [Next]_vars
  PROVE  RowBook'
<1>0. \A f \in Watchdogs : fire[f].alive => row[fire[f].task].status \in {"firing", "cancelled"}
  BY DEF RowBook, OneAlive
<1>1. CASE UNCHANGED <<row, fire, quiet, missed>>
  BY <1>1 DEF RowBook, OneAlive, SnapBook, QuietBook
<1>2. CASE UNCHANGED <<fire, quiet, missed>> /\ \A t \in Tasks :
             /\ row'[t].streak = row[t].streak /\ row'[t].fires = row[t].fires
             /\ row'[t].status = row[t].status
                \/ row'[t].status = "cancelled"
  BY <1>2, Fields DEF RowBook, OneAlive, SnapBook, QuietBook
<1>3. ASSUME NEW t \in Tasks, CancelPatrol(t)
      PROVE  RowBook'
  <2>1. UNCHANGED <<fire, quiet, missed>> /\ \A u \in Tasks :
             /\ row'[u].streak = row[u].streak /\ row'[u].fires = row[u].fires
             /\ row'[u].status = row[u].status
                \/ row'[u].status = "cancelled"
    BY <1>3 DEF CancelPatrol, history, TypeOK, Row
  <2> QED
    BY <1>2, <2>1
<1>4. ASSUME NEW p \in Registrars, DeleteRow(p)
      PROVE  RowBook'
  <2>1. reg[p].task \in Tasks
    BY DEF TypeOK
  <2>2. \A f \in Watchdogs :
          /\ fire[f].task = reg[p].task =>
               /\ ~fire'[f].alive /\ ~fire'[f].there
               /\ fire'[f].task = fire[f].task
          /\ fire[f].task # reg[p].task => fire'[f] = fire[f]
    <3> SUFFICES ASSUME NEW f \in Watchdogs
                 PROVE  /\ fire[f].task = reg[p].task =>
                             /\ ~fire'[f].alive /\ ~fire'[f].there
                             /\ fire'[f].task = fire[f].task
                        /\ fire[f].task # reg[p].task => fire'[f] = fire[f]
      OBVIOUS
    <3>1. fire[f] \in [phase : FirePhases, task : Tasks, streak : Nat, fires : Nat,
                       there : BOOLEAN, alive : BOOLEAN]
      BY DEF TypeOK, Fire
    <3>2. fire'[f] = IF fire[f].task = reg[p].task
                     THEN [fire[f] EXCEPT !.there = FALSE, !.alive = FALSE]
                     ELSE fire[f]
      BY <1>4 DEF DeleteRow
    <3> QED
      BY ONLY <3>1, <3>2
  <2>3. /\ \A u \in Tasks : u # reg[p].task => row'[u] = row[u]
        /\ row'[reg[p].task].streak = 0 /\ UNCHANGED <<quiet, missed>>
    BY <1>4 DEF DeleteRow, TypeOK, NoRow, history
  <2>4. \A f \in Watchdogs : fire'[f].alive \/ fire'[f].there =>
          fire'[f] = fire[f] /\ fire[f].task # reg[p].task
    BY <2>2
  <2>5. OneAlive'
    BY <2>3, <2>4, Fields DEF RowBook, OneAlive
  <2>6. QuietBook'
    BY <2>1, <2>3, <2>4, Fields DEF RowBook, QuietBook
  <2>7. SnapBook'
    BY <2>1, <2>3, <2>4, Fields DEF RowBook, SnapBook
  <2> QED
    BY <2>5, <2>6, <2>7 DEF RowBook
<1>5. ASSUME NEW p \in Registrars, ScheduleRow(p)
      PROVE  RowBook'
  <2> DEFINE t == reg[p].task
  <2>1. t \in Tasks
    BY DEF TypeOK
  <2>2. CASE row[t].status = "none"
    <3>1. /\ \A u \in Tasks : u # t => row'[u] = row[u] /\ quiet'[u] = quiet[u]
          /\ row'[t].streak = 0 /\ quiet'[t] = 0 /\ fire' = fire
          /\ missed' = missed \ {t}
      BY <1>5, <2>1, <2>2 DEF ScheduleRow, TypeOK, NoRow
    <3>2. \A f \in Watchdogs : fire[f].alive \/ fire[f].there => fire[f].task # t
      BY <2>2 DEF RowBook, SnapBook
    <3>3. OneAlive'
      BY <3>1, <3>2, Fields DEF RowBook, OneAlive
    <3>4. QuietBook'
      BY <3>1, <3>2, Fields DEF RowBook, QuietBook
    <3>5. SnapBook'
      BY <3>1, <3>2, Fields DEF RowBook, SnapBook
    <3> QED
      BY <3>3, <3>4, <3>5 DEF RowBook
  <2>3. CASE row[t].status # "none"
    BY <1>1, <1>5, <2>3 DEF ScheduleRow
  <2> QED
    BY <2>2, <2>3
<1>6. CASE Crash
  <2>1. UNCHANGED <<row, quiet, missed>>
        /\ \A f \in Watchdogs : ~fire'[f].alive /\ ~fire'[f].there
    BY <1>6 DEF Crash, NoFire
  <2> QED
    BY <2>1 DEF RowBook, OneAlive, SnapBook, QuietBook
<1>7. CASE Startup
  <2>1. CASE Sweep
    <3>1. UNCHANGED <<fire, quiet, missed>> /\ \A t \in Tasks :
               /\ row'[t].streak = row[t].streak /\ row'[t].fires = row[t].fires
               /\ row'[t].status = row[t].status
                  \/ row'[t].status = "cancelled"
      BY <2>1 DEF Sweep, history, TypeOK, Row
    <3> QED
      BY <1>2, <3>1
  <2> QED
    BY <1>1, <1>7, <2>1 DEF Startup, Booted, Restore, patrol, history
<1>8. CASE Elsewhere \/ UNCHANGED vars
  BY <1>1, <1>8 DEF Elsewhere, vars, patrol, history
<1>9. ASSUME NEW c \in Life!Callers, Commit(c) \/ Return(c) \/ CallFails(c)
      PROVE  RowBook'
  BY <1>1, <1>9 DEF Commit, Return, CallFails, patrol, history
<1>10. ASSUME NEW p \in Registrars, RegisterReads(p) \/ FindRow(p) \/ RegisterFails(p)
       PROVE  RowBook'
  BY <1>1, <1>10 DEF RegisterReads, FindRow, RegisterFails, history
<1>11. ASSUME NEW t \in Tasks, CancelFails(t)
       PROVE  RowBook'
  BY <1>1, <1>11 DEF CancelFails, history
<1> QED
  BY <1>3, <1>4, <1>5, <1>6, <1>7, <1>8, <1>9, <1>10, <1>11, FireRowBook
     DEF Next, Register, FaultStep

\* No row and no handler is there at first.
LEMMA RowBookInit == Init => RowBook
  BY DEF Init, RowBook, OneAlive, SnapBook, QuietBook, NoRow, NoFire

\* Every handler gives a task up for the quiet wakes of the row it holds,
\* through vetoes, deferrals, ticks that read the row before it was claimed by
\* another, writes of the streak that fail, handlers of replaced rows and
\* restarts, unless progress was missed (writeQuietStreak, readQuietStreak).
THEOREM GivenUpForQuietWakes == Spec => GivenUpAfterQuietWakes
<1>1. Init => TypeOK /\ RowBook
  BY PatrolTypesInit, RowBookInit
<1>2. TypeOK /\ RowBook /\ [Next]_vars => (TypeOK /\ RowBook)'
  <2>1. TypeOK /\ [Next]_vars => TypeOK'
    BY PatrolTypesStep
  <2> QED
    BY <2>1, RowBookStep
<1>3. TypeOK /\ RowBook /\ [Next]_vars
        => [\A f \in Watchdogs :
              fire[f].phase = "check" /\ call'[f].phase = "asked" /\ fire[f].alive =>
                quiet[fire[f].task] >= StallLimit \/ fire[f].task \in missed]_vars
  BY DEF RowBook, QuietBook
<1> QED
  BY <1>1, <1>2, <1>3, PTL DEF Spec, GivenUpAfterQuietWakes

-----------------------------------------------------------------------------
(* Who sees to a running task.                                             *)

\* A request that registers a task stays in its "after" until register() is
\* done, and a watchdog asks for nothing but a block.
CallBook ==
  /\ \A c \in Users : call[c].phase # "after" => reg[c].step = "none"
  /\ \A w \in Watchdogs :
       /\ call[w].phase \in {"preflight", "commit", "after"} => call[w].action = "block"
       /\ call[w].phase # "remove"

\* The row of t is due some day, or its handler is still to write it, or its
\* rounds are used up; or a register() is going to make it.
Handled(t) ==
  \/ row[t].status = "pending"
  \/ /\ row[t].status = "firing"
     /\ \E f \in Watchdogs : fire[f].alive /\ fire[f].task = t /\ fire[f].phase # "expire"
  \/ row[t].fires >= MaxRounds
Makes(p, t) ==
  /\ reg[p].task = t
  /\ reg[p].step = "delete" \/ (reg[p].step = "schedule" /\ row[t].status = "none")
Registering(t) == Handled(t) \/ \E p \in Registrars : Makes(p, t)

\* It counts only when no cancel of an earlier transition is still to come.
Attended(t) == ~Outstanding(t) /\ Registering(t)

\* Otherwise a restart, a register() that has not looked for a row yet or a
\* block that will get through is on its way to t.
Booting(t) == boot = "sweep" \/ (boot = "restore" /\ t \in restoring)
Coming(t) == \E p \in Registrars : reg[p].task = t /\ reg[p].step \in {"read", "find"}
Blocking(w, t) ==
  /\ call[w].task = t
  /\ \/ call[w].phase = "asked"
     \/ call[w].phase \in {"preflight", "commit"} /\ call[w].version = version[t]
Cared(t) ==
  Booting(t) \/ Coming(t) \/ (\E w \in Watchdogs : Blocking(w, t)) \/ Attended(t)

Good(t) ==
  status[t] = "in_progress" /\ t \notin LongRunning =>
    Cared(t) \/ t \in overtaken \/ t \in faulty
CareInv == \A t \in Tasks : Good(t)

\* No request is there at first.
LEMMA CallBookInit == Init => CallBook
  BY Constants DEF Init, CallBook, Life!Init, Life!NoCall, Life!Callers, NoReg, Registrars

\* What a step of the life cycle may do to the record of one caller.
Moves(c) ==
  \/ call'[c] = call[c]
  \/ call'[c].phase = "idle"
  \/ c \in Users /\ call[c].phase = "idle" /\ call'[c].phase \in {"preflight", "remove"}
  \/ c \in Watchdogs /\ call[c].phase = "idle" /\ call'[c].phase = "asked"
  \/ c \in Watchdogs /\ call'[c].phase = "preflight" /\ call'[c].action = "block"
  \/ /\ call[c].phase \in {"preflight", "commit"} /\ call'[c].phase \in {"commit", "after"}
     /\ call'[c].action = call[c].action

\* Every step moves each caller one of these ways.
LEMMA CallersMove ==
  ASSUME Life!TypeOK, Life!Next \/ UNCHANGED tasks, NEW c \in Life!Callers
  PROVE  Moves(c)
<1> USE DEF Life!TypeOK, Life!Call
<1>1. CASE \E t \in Tasks : Life!Create(t)
  BY <1>1 DEF Life!Create, Moves
<1>2. CASE \E d \in Users : Life!UserStep(d)
  <2>1. PICK d \in Users : Life!UserStep(d)
    BY <1>2
  <2>2. d \in Life!Callers
    BY DEF Life!Callers
  <2>3. CASE \E t \in Tasks, a \in Life!Actions : Life!Request(d, t, a)
    BY <2>1, <2>2, <2>3 DEF Life!Request, Life!Reads, Moves
  <2>4. CASE \E t \in Tasks : Life!RemoveReads(d, t)
    <3>1. PICK t \in Tasks : Life!RemoveReads(d, t)
      BY <2>4
    <3>2. /\ call[d].phase = "idle"
          /\ call' = [[call EXCEPT ![d].phase = "remove"] EXCEPT ![d].task = t]
      BY <3>1 DEF Life!RemoveReads
    <3> QED
      BY <2>1, <2>2, <3>2 DEF Moves
  <2>5. CASE Life!RemoveCommits(d)
    BY <2>2, <2>5, LifeIdle DEF Life!RemoveCommits, Life!Ends, Moves
  <2> QED
    BY <2>1, <2>3, <2>4, <2>5 DEF Life!UserStep
<1>3. ASSUME NEW w \in Watchdogs, NEW t \in Tasks, Life!AskBlock(w, t)
      PROVE  Moves(c)
  <2>1. /\ w \in Life!Callers /\ call[w].phase = "idle"
        /\ call' = [[call EXCEPT ![w].phase = "asked"] EXCEPT ![w].task = t]
    BY <1>3 DEF Life!AskBlock, Life!Callers
  <2> QED
    BY <2>1 DEF Moves
<1>4. ASSUME NEW w \in Watchdogs, Life!SystemBlock(w)
      PROVE  Moves(c)
  <2>1. w \in Life!Callers
    BY DEF Life!Callers
  <2> QED
    BY <1>4, <2>1, LifeIdle DEF Life!SystemBlock, Life!Reads, Life!Ends, Moves
<1>5. ASSUME NEW d \in Life!Callers, Life!CallStep(d)
      PROVE  Moves(c)
  BY <1>5, LifeIdle DEF Life!CallStep, Life!Preflight, Life!Commit, Life!CommitRefused,
     Life!Return, Life!CallFails, Life!Goto, Life!Ends, Moves
<1>6. CASE Life!Crash
  BY <1>6, LifeIdle DEF Life!Crash, Moves
<1>7. CASE UNCHANGED tasks
  BY <1>7 DEF tasks, Moves
<1> QED
  BY <1>1, <1>2, <1>3, <1>4, <1>5, <1>6, <1>7 DEF Life!Next

\* Elsewhere nobody enters or leaves "after".
LEMMA ElsewhereCalls ==
  ASSUME Life!TypeOK, Elsewhere, NEW c \in Life!Callers
  PROVE  call'[c] = call[c] \/ (call[c].phase # "after" /\ call'[c].phase # "after")
<1> USE DEF Life!TypeOK, Life!Call
<1>1. ASSUME NEW d \in Users, Life!UserStep(d)
      PROVE  call'[c] = call[c] \/ (call[c].phase # "after" /\ call'[c].phase # "after")
  <2>1. d \in Life!Callers
    BY DEF Life!Callers
  <2>2. CASE \E t \in Tasks, a \in Life!Actions : Life!Request(d, t, a)
    BY <2>1, <2>2 DEF Life!Request, Life!Reads
  <2>3. CASE \E t \in Tasks : Life!RemoveReads(d, t)
    <3>1. PICK t \in Tasks : Life!RemoveReads(d, t)
      BY <2>3
    <3>2. /\ call[d].phase = "idle"
          /\ call' = [[call EXCEPT ![d].phase = "remove"] EXCEPT ![d].task = t]
      BY <3>1 DEF Life!RemoveReads
    <3> QED
      BY <2>1, <3>2
  <2>4. CASE Life!RemoveCommits(d)
    BY <2>1, <2>4, LifeIdle DEF Life!RemoveCommits, Life!Ends
  <2> QED
    BY <1>1, <2>2, <2>3, <2>4 DEF Life!UserStep
<1>2. ASSUME NEW w \in Watchdogs, Life!SystemBlock(w)
      PROVE  call'[c] = call[c] \/ (call[c].phase # "after" /\ call'[c].phase # "after")
  BY <1>2, LifeIdle DEF Life!SystemBlock, Life!Reads, Life!Ends, Life!Callers
<1>3. ASSUME NEW d \in Life!Callers, Life!Preflight(d) \/ Life!CommitRefused(d)
      PROVE  call'[c] = call[c] \/ (call[c].phase # "after" /\ call'[c].phase # "after")
  BY <1>3, LifeIdle DEF Life!Preflight, Life!CommitRefused, Life!Goto, Life!Ends
<1>4. ASSUME NEW t \in Tasks, Life!Create(t)
      PROVE  call'[c] = call[c]
  BY <1>4 DEF Life!Create
<1> QED
  BY <1>1, <1>2, <1>3, <1>4 DEF Elsewhere

\* The records of requests and of register() keep together.
LEMMA CallBookStep ==
  ASSUME TypeOK, CallBook, [Next]_vars
  PROVE  CallBook'
<1>0. Life!TypeOK /\ \A c \in Life!Callers : Moves(c)
  <2>1. Life!TypeOK /\ HandlersTyped
    BY TypesOf
  <2>2. Life!Next \/ UNCHANGED tasks
    BY <2>1, StepOfLife DEF Life!vars, tasks
  <2> QED
    BY <2>1, <2>2, CallersMove
<1>1. \A w \in Watchdogs :
        /\ call'[w].phase \in {"preflight", "commit", "after"} => call'[w].action = "block"
        /\ call'[w].phase # "remove"
  BY <1>0, Constants DEF CallBook, Moves, Life!Callers
<1>2. ASSUME NEW c \in Users, call'[c].phase # "after"
      PROVE  reg'[c].step = "none"
  <2>0. /\ c \in Life!Callers /\ c \in Registrars /\ c # Boot /\ c \notin Watchdogs
        /\ call[c].phase # "after" => reg[c].step = "none"
        /\ \A p \in Registrars : reg[p].step # "none" => call[c].phase = "after" \/ p # c
    BY Constants DEF Life!Callers, Registrars, CallBook
  <2>1. CASE Elsewhere
    <3>1. call[c].phase # "after" /\ reg' = reg
      BY <1>0, <1>2, <2>0, <2>1, ElsewhereCalls DEF Elsewhere, patrol
    <3> QED
      BY <2>0, <3>1
  <2>2. ASSUME NEW d \in Life!Callers, Commit(d)
        PROVE  reg'[c].step = "none"
    <3>1. call'[d].phase = "after" /\ call'[c] = call[c] /\ reg'[c] = reg[c]
      BY <1>0, <1>2, <2>0, <2>2 DEF Commit, Life!Commit, Life!Goto, Life!TypeOK, Life!Call,
         TypeOK
    <3> QED
      BY <1>2, <2>0, <3>1
  <2>3. ASSUME NEW d \in Life!Callers, Return(d)
        PROVE  reg'[c].step = "none"
    <3>1. reg' = reg /\ (d = c => reg[c].step = "none") /\ (d # c => call'[c] = call[c])
      BY <2>0, <2>3 DEF Return, Life!Return, Life!Ends
    <3> QED
      BY <1>2, <2>0, <3>1
  <2>4. ASSUME NEW p \in Registrars, Register(p) \/ RegisterFails(p)
        PROVE  reg'[c].step = "none"
    <3>1. /\ call' = call /\ reg[p].step # "none"
          /\ \/ reg' = [reg EXCEPT ![p] = NoReg]
             \/ \E s \in RegSteps : reg' = [reg EXCEPT ![p].step = s]
      BY <2>4 DEF Register, RegisterReads, FindRow, DeleteRow, ScheduleRow, RegisterFails,
         RegDone, RegGoto, tasks, RegSteps
    <3>2. c # p
      BY <1>2, <2>0, <3>1
    <3>3. reg'[c] = reg[c]
      BY <2>0, <3>1, <3>2 DEF TypeOK
    <3> QED
      BY <1>2, <2>0, <3>1, <3>3
  <2>5. ASSUME NEW d \in Life!Callers, CallFails(d)
        PROVE  reg'[c].step = "none"
    BY <1>2, <2>0, <2>5 DEF CallFails, Life!CallFails, Life!Ends, patrol
  <2>6. ASSUME NEW f \in Watchdogs, FireStep(f)
        PROVE  reg'[c].step = "none"
    <3>1. CASE Stalls(f)
      <4>1. /\ call' = [[call EXCEPT ![f].phase = "asked"] EXCEPT ![f].task = fire[f].task]
            /\ reg' = reg /\ c # f
        BY <2>0, <3>1 DEF Stalls, Life!AskBlock
      <4> QED
        BY <1>0, <1>2, <2>0, <4>1 DEF Life!TypeOK, Life!Call
    <3>2. CASE ~Stalls(f)
      BY <1>2, <2>0, <2>6, <3>2 DEF FireStep, Claim, PassesOver, GuardVetoes,
         HandlerReads, Expire, HandlerLooks, Wakes, Defers, Save, tasks
    <3> QED
      BY <3>1, <3>2
  <2>7. CASE Crash
    BY <2>0, <2>7 DEF Crash, NoReg
  <2>8. CASE Startup
    <3>1. call' = call /\ reg'[c] = reg[c]
      BY <2>0, <2>8 DEF Startup, Sweep, Booted, Restore, tasks, patrol, TypeOK
    <3> QED
      BY <1>2, <2>0, <3>1
  <2>9. CASE UNCHANGED <<call, reg>>
    BY <1>2, <2>0, <2>9
  <2>10. ASSUME NEW t \in Tasks, CancelPatrol(t) \/ CancelFails(t)
         PROVE  reg'[c].step = "none"
    BY <2>9, <2>10 DEF CancelPatrol, CancelFails, tasks
  <2>11. ASSUME NEW f \in Watchdogs,
                HandlerFails(f) \/ TickFails(f) \/ \E t \in Tasks : SelectRow(f, t)
         PROVE  reg'[c].step = "none"
    BY <2>9, <2>11 DEF HandlerFails, TickFails, SelectRow, tasks
  <2> QED
    BY <2>1, <2>2, <2>3, <2>4, <2>5, <2>6, <2>7, <2>8, <2>9, <2>10, <2>11
       DEF Next, FaultStep, vars, tasks, patrol
<1> QED
  BY <1>1, <1>2 DEF CallBook

\* What keeps a task seen to.
LEMMA CareFrame ==
  ASSUME NEW t \in Tasks, Good(t),
         status'[t] = "in_progress" => status[t] = "in_progress",
         Booting(t) => Booting(t)',
         \A p \in Registrars :
           reg[p].task = t /\ reg[p].step \in {"read", "find"} => reg'[p] = reg[p],
         \A w \in Watchdogs : Blocking(w, t) => Blocking(w, t)',
         Attended(t) => Attended(t)',
         t \in overtaken => t \in overtaken',
         t \in faulty => t \in faulty'
  PROVE  Good(t)'
<1> SUFFICES ASSUME status'[t] = "in_progress", t \notin LongRunning
             PROVE  Cared(t)' \/ t \in overtaken' \/ t \in faulty'
  BY DEF Good
<1>1. Cared(t) \/ t \in overtaken \/ t \in faulty
  BY DEF Good
<1>2. Coming(t) => Coming(t)'
  BY DEF Coming
<1> QED
  BY <1>1, <1>2 DEF Cared

\* What keeps its row attended to.
LEMMA AttendedFrame ==
  ASSUME NEW t \in Tasks, Attended(t),
         Outstanding(t)' => Outstanding(t),
         row'[t].status = row[t].status, row'[t].fires = row[t].fires,
         \A p \in Registrars : Makes(p, t) => reg'[p] = reg[p],
         \A f \in Watchdogs : fire[f].alive /\ fire[f].task = t /\ fire[f].phase # "expire" =>
           fire'[f].alive /\ fire'[f].task = t /\ fire'[f].phase # "expire"
  PROVE  Attended(t)'
<1>1. Handled(t) => Handled(t)'
  BY DEF Handled
<1>2. ASSUME NEW p \in Registrars, Makes(p, t)
      PROVE  Makes(p, t)'
  BY <1>2 DEF Makes
<1> QED
  BY <1>1, <1>2 DEF Attended, Registering

\* No cancel is newly due.
LEMMA NothingDue ==
  ASSUME NEW t \in Tasks, cancels'[t] = cancels[t],
         \A c \in Life!Callers : call'[c].phase = "after" /\ call'[c].task = t =>
           call'[c] = call[c]
  PROVE  Outstanding(t)' => Outstanding(t)
  BY DEF Outstanding, Leaves

\* Requests: a block that gets through is on its way until it is refused, and
\* that happens only when the task has moved.
LEMMA ElsewhereCare ==
  ASSUME TypeOK, CallBook, CareInv, Elsewhere, NEW t \in Tasks
  PROVE  Good(t)'
<1> USE DEF Life!TypeOK, Life!Call
<1>0. Life!TypeOK
  BY TypesOf
<1>1. UNCHANGED <<row, cancels, reg, fire, boot, restoring, overtaken, faulty>>
  BY DEF Elsewhere, patrol, world, history
<1>2. /\ status'[t] = "in_progress" => status[t] = "in_progress"
      /\ version' = version
  BY <1>0 DEF Elsewhere, Life!Create, Life!UserStep, Life!Request, Life!Reads,
     Life!RemoveReads, Life!RemoveCommits, Life!SystemBlock, Life!Preflight,
     Life!CommitRefused, Life!rows
<1>3. ASSUME status'[t] = "in_progress", t \notin LongRunning,
             NEW w \in Watchdogs, Blocking(w, t)
      PROVE  Blocking(w, t)'
  <2>0. w \in Life!Callers /\ w \notin Users
    BY Constants DEF Life!Callers
  <2>1. CASE call'[w] = call[w]
    BY <1>2, <1>3, <2>1 DEF Blocking
  <2>2. CASE Life!SystemBlock(w)
    BY <1>0, <1>2, <1>3, <2>0, <2>2 DEF Life!SystemBlock, Life!Reads, Blocking
  <2>3. CASE Life!Preflight(w)
    <3>1. call[w].action = "block" /\ call[w].phase = "preflight"
      BY <2>3 DEF CallBook, Life!Preflight
    <3>2. Life!Goto(w, "commit")
      BY <2>3, <3>1 DEF Life!Preflight
    <3> QED
      BY <1>0, <1>2, <1>3, <2>0, <3>1, <3>2 DEF Life!Goto, Blocking
  <2>4. CASE Life!CommitRefused(w)
    <3>1. call[w].action = "block" /\ call[w].phase = "commit"
      BY <2>4 DEF CallBook, Life!CommitRefused
    <3>2. call[w].task = t /\ call[w].version = version[t] /\ status[t] = "in_progress"
      BY <1>2, <1>3, <3>1 DEF Blocking
    <3> QED
      BY <2>4, <3>1, <3>2, LifeTable DEF Life!CommitRefused, Life!SlotFree, Life!Unchanged
  <2>5. CASE \E d \in Users : Life!UserStep(d)
    <3>1. PICK d \in Users : Life!UserStep(d)
      BY <2>5
    <3>2. d # w /\ d \in Life!Callers
      BY <2>0 DEF Life!Callers
    <3>3. call'[w] = call[w]
      BY <1>0, <2>0, <3>1, <3>2 DEF Life!UserStep, Life!Request, Life!Reads,
         Life!RemoveReads, Life!RemoveCommits, Life!Ends
    <3> QED
      BY <2>1, <3>3
  <2>6. CASE \E d \in Life!Callers : d # w /\ (Life!SystemBlock(d) \/ Life!Preflight(d)
                                              \/ Life!CommitRefused(d))
    <3>1. call'[w] = call[w]
      BY <1>0, <2>0, <2>6 DEF Life!SystemBlock, Life!Reads, Life!Preflight,
         Life!CommitRefused, Life!Goto, Life!Ends
    <3> QED
      BY <2>1, <3>1
  <2>7. CASE \E u \in Tasks : Life!Create(u)
    BY <2>1, <2>7 DEF Life!Create
  <2> QED
    BY <2>2, <2>3, <2>4, <2>5, <2>6, <2>7 DEF Elsewhere, Life!Callers
<1>4. Attended(t) => Attended(t)'
  <2>1. Outstanding(t)' => Outstanding(t)
    BY <1>0, <1>1, ElsewhereCalls, NothingDue
  <2> QED
    BY <1>1, <2>1, AttendedFrame
<1>5. Booting(t) => Booting(t)'
  BY <1>1 DEF Booting
<1>6. Good(t)
  BY DEF CareInv
<1>7. CASE status'[t] = "in_progress" /\ t \notin LongRunning
  BY <1>1, <1>2, <1>3, <1>4, <1>5, <1>6, <1>7, CareFrame
<1> QED
  BY <1>7 DEF Good

\* A transition: into in_progress it registers, out of it the cancel is due.
LEMMA TransitionCare ==
  ASSUME TypeOK, CallBook, CareInv, NEW c \in Life!Callers, Commit(c) \/ Return(c),
         NEW t \in Tasks
  PROVE  Good(t)'
<1> USE DEF Life!TypeOK, Life!Call
<1>0. /\ Life!TypeOK /\ Good(t)
      /\ UNCHANGED <<row, fire, boot, restoring, overtaken, faulty>>
      /\ \A p \in Registrars : p # c => reg'[p] = reg[p]
  BY TypesOf DEF CareInv, Commit, Return, world, history, TypeOK
<1>1. /\ call[c].task \in Tasks /\ call[c].action \in Life!Actions
      /\ \A d \in Life!Callers : d # c => call'[d] = call[d]
      /\ Booting(t) => Booting(t)'
  BY <1>0 DEF Commit, Life!Commit, Life!Goto, Return, Life!Return, Life!Ends, Booting
<1>2. CASE Commit(c) /\ call[c].task = t
  <2>1. status'[t] = Life!To[call[c].action] /\ call[c].phase = "commit"
    BY <1>0, <1>2 DEF Commit, Life!Commit
  <2>2. CASE status'[t] = "in_progress"
    <3>1. c \in Users /\ c \in Registrars
      BY <1>1, <2>1, <2>2, LifeTable DEF CallBook, Life!Callers, Registrars
    <3>2. reg'[c] = [step |-> "read", task |-> t]
      BY <1>2, <2>1, <2>2, <3>1 DEF Commit, TypeOK
    <3>3. Coming(t)'
      BY <3>1, <3>2 DEF Coming
    <3> QED
      BY <3>3 DEF Good, Cared
  <2> QED
    BY <2>2 DEF Good
<1>3. CASE Commit(c) /\ call[c].task # t
  <2>1. status'[t] = status[t] /\ version'[t] = version[t] /\ cancels' = cancels
        /\ call'[c].task # t /\ call[c].phase = "commit"
    BY <1>0, <1>3 DEF Commit, Life!Commit, Life!Goto
  <2>2. \A p \in Registrars : reg[p].step # "none" => reg'[p] = reg[p]
    BY <1>0, <2>1, Constants DEF CallBook, Life!Callers, Registrars
  <2>3. \A w \in Watchdogs : Blocking(w, t) => Blocking(w, t)'
    BY <1>1, <1>3, <2>1 DEF Blocking, Life!Callers
  <2>4. Outstanding(t)' => Outstanding(t)
    BY <1>1, <2>1, NothingDue
  <2>5. Attended(t) => Attended(t)'
    BY <1>0, <2>2, <2>4, AttendedFrame DEF Makes
  <2> QED
    BY <1>0, <1>1, <2>1, <2>2, <2>3, <2>5, CareFrame
<1>4. CASE Return(c)
  <2>1. /\ UNCHANGED <<status, version, reg>> /\ call'[c].phase = "idle"
        /\ call[c].phase = "after"
    BY <1>0, <1>4, LifeIdle DEF Return, Life!Return, Life!rows, Life!Ends
  <2>2. \A w \in Watchdogs : Blocking(w, t) => Blocking(w, t)'
    BY <1>1, <2>1 DEF Blocking, Life!Callers
  <2>3. Outstanding(t)' => Outstanding(t)
    <3>1. CASE call[c].task = t /\ Leaves(c)
      BY <2>1, <3>1 DEF Outstanding
    <3>2. CASE ~(call[c].task = t /\ Leaves(c))
      <4>1. cancels'[t] = cancels[t]
        BY <1>1, <1>4, <3>2 DEF Return, Unregister, TypeOK
      <4> QED
        BY <1>1, <2>1, <4>1, NothingDue
    <3> QED
      BY <3>1, <3>2
  <2>4. Attended(t) => Attended(t)'
    BY <1>0, <2>1, <2>3, AttendedFrame
  <2> QED
    BY <1>0, <1>1, <2>1, <2>2, <2>4, CareFrame
<1> QED
  BY <1>2, <1>3, <1>4

\* The cancel of an earlier transition lands, or is lost.
LEMMA CancelCare ==
  ASSUME TypeOK, CareInv, NEW u \in Tasks, CancelPatrol(u) \/ CancelFails(u), NEW t \in Tasks
  PROVE  Good(t)'
<1>1. /\ UNCHANGED <<status, version, call, reg, fire, boot, restoring, overtaken, faulty>>
      /\ Good(t) /\ cancels[u] > 0
  BY DEF CancelPatrol, CancelFails, tasks, world, history, CareInv
<1>2. Attended(t) => Attended(t)'
  <2>1. CASE u = t
    BY <1>1, <2>1 DEF Attended, Outstanding
  <2>2. CASE u # t
    <3>1. row'[t] = row[t] /\ cancels'[t] = cancels[t]
      BY <2>2 DEF CancelPatrol, CancelFails, TypeOK
    <3> QED
      BY <1>1, <3>1, NothingDue, AttendedFrame
  <2> QED
    BY <2>1, <2>2
<1>3. (Booting(t) => Booting(t)') /\ \A w \in Watchdogs : Blocking(w, t) => Blocking(w, t)'
  BY <1>1 DEF Booting, Blocking
<1> QED
  BY <1>1, <1>2, <1>3, CareFrame

\* register(): whoever looks for a row while no cancel is outstanding makes
\* one, or finds one that is due.
LEMMA RegisterCare ==
  ASSUME TypeOK, CareInv, NEW p \in Registrars, Register(p) \/ RegisterFails(p),
         NEW t \in Tasks
  PROVE  Good(t)'
<1> DEFINE u == reg[p].task
<1>0. /\ u \in Tasks /\ reg[p].step # "none" /\ Good(t)
      /\ UNCHANGED <<status, version, call, cancels, boot, restoring>>
      /\ \A q \in Registrars : q # p => reg'[q] = reg[q]
  BY DEF TypeOK, CareInv, Register, RegisterReads, FindRow, DeleteRow, ScheduleRow,
     RegisterFails, RegGoto, RegDone, tasks, world
<1>1. /\ (Booting(t) => Booting(t)') /\ (Outstanding(t)' => Outstanding(t))
      /\ \A w \in Watchdogs : Blocking(w, t) => Blocking(w, t)'
  BY <1>0, NothingDue DEF Booting, Blocking
<1>2. CASE u # t
  <2>1. row'[t] = row[t] /\ \A f \in Watchdogs : fire[f].task = t => fire'[f] = fire[f]
    <3>1. CASE DeleteRow(p)
      BY <1>0, <1>2, <3>1 DEF DeleteRow, TypeOK
    <3>2. CASE ScheduleRow(p)
      BY <1>0, <1>2, <3>2 DEF ScheduleRow, TypeOK
    <3>3. CASE RegisterReads(p) \/ FindRow(p) \/ RegisterFails(p)
      BY <3>3 DEF RegisterReads, FindRow, RegisterFails
    <3> QED
      BY <3>1, <3>2, <3>3 DEF Register
  <2>4. (t \in overtaken => t \in overtaken') /\ (t \in faulty => t \in faulty')
    BY <1>2 DEF Register, RegisterReads, FindRow, DeleteRow, ScheduleRow, RegisterFails,
       Hits, history
  <2>2. \A q \in Registrars : reg[q].task = t => reg'[q] = reg[q]
    BY <1>0, <1>2
  <2>3. Attended(t) => Attended(t)'
    BY <1>1, <2>1, <2>2, AttendedFrame DEF Makes
  <2> QED
    BY <1>0, <1>1, <2>2, <2>3, <2>4, CareFrame
<1>3. CASE u = t /\ RegisterReads(p)
  <2>1. UNCHANGED <<row, fire, overtaken, faulty>> /\ reg[p].step = "read"
    BY <1>3 DEF RegisterReads, history
  <2>2. CASE status[t] = "in_progress" /\ t \notin LongRunning
    <3>1. reg'[p].step = "find" /\ reg'[p].task = t
      BY <1>3, <2>2 DEF RegisterReads, RegGoto, TypeOK
    <3> QED
      BY <3>1 DEF Good, Cared, Coming
  <2> QED
    BY <1>0, <2>2 DEF Good
<1>4. CASE u = t /\ FindRow(p)
  <2>1. UNCHANGED <<row, fire, faulty>> /\ reg[p].step = "find"
    BY <1>4 DEF FindRow
  <2>2. CASE Outstanding(t)
    BY <1>4, <2>2 DEF FindRow, Good
  <2>3. CASE ~Outstanding(t)
    <3>1. CASE row[t].status = "pending"
      BY <1>1, <2>1, <2>3, <3>1 DEF Good, Cared, Attended, Registering, Handled
    <3>2. CASE row[t].status # "pending"
      <4>1. \/ RegGoto(p, "schedule") /\ row[t].status = "none"
            \/ RegGoto(p, "delete")
        BY <1>4, <3>2 DEF FindRow
      <4>2. Makes(p, t)'
        BY <1>4, <2>1, <4>1 DEF RegGoto, Makes, TypeOK
      <4> QED
        BY <1>1, <2>3, <4>2 DEF Good, Cared, Attended, Registering
    <3> QED
      BY <3>1, <3>2
  <2> QED
    BY <2>2, <2>3
<1>5. CASE u = t /\ DeleteRow(p)
  <2>1. /\ UNCHANGED <<overtaken, faulty>> /\ reg[p].step = "delete"
        /\ row'[t].status = "none" /\ reg'[p].task = t /\ reg'[p].step = "schedule"
    BY <1>5 DEF DeleteRow, RegGoto, TypeOK, NoRow, history
  <2>2. Makes(p, t)'
    BY <2>1 DEF Makes
  <2>3. Attended(t) => Attended(t)'
    BY <1>1, <2>2 DEF Attended, Registering
  <2> QED
    BY <1>0, <1>1, <2>1, <2>3, CareFrame
<1>6. CASE u = t /\ ScheduleRow(p)
  <2>1. UNCHANGED <<fire, overtaken, faulty>> /\ reg[p].step = "schedule"
    BY <1>6 DEF ScheduleRow
  <2>2. CASE row[t].status = "none"
    <3>1. row'[t].status = "pending"
      BY <1>0, <1>6, <2>2 DEF ScheduleRow, TypeOK, NoRow
    <3>2. Attended(t) => Attended(t)'
      BY <1>1, <3>1 DEF Attended, Registering, Handled
    <3> QED
      BY <1>0, <1>1, <2>1, <3>2, CareFrame
  <2>3. CASE row[t].status # "none"
    <3>1. row' = row
      BY <1>6, <2>3 DEF ScheduleRow
    <3>2. \A q \in Registrars : Makes(q, t) => reg'[q] = reg[q]
      BY <1>0, <2>1, <2>3 DEF Makes
    <3>3. Attended(t) => Attended(t)'
      BY <1>1, <2>1, <3>1, <3>2, AttendedFrame
    <3> QED
      BY <1>0, <1>1, <2>1, <3>3, CareFrame
  <2> QED
    BY <2>2, <2>3
<1>7. CASE u = t /\ RegisterFails(p)
  BY <1>7 DEF RegisterFails, Hits, Good
<1> QED
  BY <1>2, <1>3, <1>4, <1>5, <1>6, <1>7 DEF Register

\* A handler leaves the row of a running task due, or its rounds used up; the
\* row that it gives up is that of a task which does not run, or whose block
\* is on its way.
LEMMA FireCare ==
  ASSUME TypeOK, OneAlive, SnapBook, CallBook, CareInv, NEW f \in Watchdogs,
         FireStep(f) \/ HandlerFails(f) \/ TickFails(f) \/ \E u \in Tasks : SelectRow(f, u),
         NEW t \in Tasks
  PROVE  Good(t)'
<1> DEFINE u == fire[f].task
<1> USE Constants
<1>0. /\ u \in Tasks /\ Good(t)
      /\ UNCHANGED <<status, version, reg, boot, restoring, overtaken>>
      /\ \A g \in Watchdogs : g # f => fire'[g] = fire[g]
      /\ t \in faulty => t \in faulty'
      /\ (Booting(t) => Booting(t)')
  <2>1. UNCHANGED <<status, version, reg, boot, restoring, overtaken>>
    BY DEF FireStep, Claim, PassesOver, GuardVetoes, HandlerReads, Expire,
       HandlerLooks, Wakes, Defers, Stalls, Save, SelectRow, HandlerFails, TickFails,
       Life!AskBlock, Life!rows, tasks, world, history
  <2>2. \A g \in Watchdogs : g # f => fire'[g] = fire[g]
    BY DEF FireStep, Claim, PassesOver, GuardVetoes, HandlerReads, Expire,
       HandlerLooks, Wakes, Defers, Stalls, Save, SelectRow, HandlerFails, TickFails, FireGoto,
       TypeOK
  <2>3. t \in faulty => t \in faulty'
    BY DEF FireStep, Claim, PassesOver, GuardVetoes, HandlerReads, Expire,
       HandlerLooks, Wakes, Defers, Stalls, Save, SelectRow, HandlerFails, TickFails, Hits, history
  <2> QED
    BY <2>1, <2>2, <2>3, Fields DEF Booting, CareInv
<1>1. ASSUME UNCHANGED <<call, cancels>>,
             row'[t].status = row[t].status, row'[t].fires = row[t].fires,
             fire[f].alive /\ u = t /\ fire[f].phase # "expire" =>
               fire'[f].alive /\ fire'[f].task = t /\ fire'[f].phase # "expire"
      PROVE  Good(t)'
  <2>1. Outstanding(t)' => Outstanding(t)
    BY <1>1, NothingDue
  <2>2. \A g \in Watchdogs : fire[g].alive /\ fire[g].task = t /\ fire[g].phase # "expire" =>
          fire'[g].alive /\ fire'[g].task = t /\ fire'[g].phase # "expire"
    BY <1>0, <1>1
  <2>3. Attended(t) => Attended(t)'
    BY <1>0, <1>1, <2>1, <2>2, AttendedFrame
  <2>4. \A w \in Watchdogs : Blocking(w, t) => Blocking(w, t)'
    BY <1>0, <1>1 DEF Blocking
  <2> QED
    BY <1>0, <2>3, <2>4, CareFrame
<1>2. ASSUME UNCHANGED <<call, cancels>>,
             Attended(t) => Handled(t)' \/ \E p \in Registrars : Makes(p, t)'
      PROVE  Good(t)'
  <2>1. Outstanding(t)' => Outstanding(t)
    BY <1>2, NothingDue
  <2>2. Attended(t) => Attended(t)'
    BY <1>2, <2>1 DEF Attended, Registering
  <2>3. \A w \in Watchdogs : Blocking(w, t) => Blocking(w, t)'
    BY <1>0, <1>2 DEF Blocking
  <2> QED
    BY <1>0, <2>2, <2>3, CareFrame
<1>3. CASE Claim(f)
  <2>1. UNCHANGED <<call, cancels>> /\ ~fire[f].alive
    BY <1>3 DEF Claim, Claimable, tasks, OneAlive
  <2>2. CASE u = t
    <3>1. fire' = [[fire EXCEPT ![f].phase = "guard"] EXCEPT ![f].alive = TRUE]
      BY <1>3 DEF Claim
    <3>2. row'[t].status = "firing" /\ fire'[f].alive /\ fire'[f].task = t
          /\ fire'[f].phase = "guard"
      BY <1>3, <2>2, <3>1 DEF Claim, TypeOK, Fire
    <3> QED
      BY <1>2, <2>1, <3>2 DEF Handled
  <2>3. CASE u # t
    <3>1. row'[t] = row[t]
      BY <1>3, <2>3 DEF Claim, TypeOK
    <3> QED
      BY <1>1, <2>1, <3>1
  <2> QED
    BY <2>2, <2>3
<1>10. CASE (PassesOver(f) /\ ~UsedUp(f)) \/ \E v \in Tasks : SelectRow(f, v)
  <2>1. UNCHANGED <<call, cancels, row>> /\ ~fire[f].alive
    BY <1>10 DEF PassesOver, SelectRow, tasks, OneAlive
  <2> QED
    BY <1>1, <2>1
<1>11. CASE PassesOver(f) /\ UsedUp(f)
  <2>1. UNCHANGED <<call, cancels>> /\ ~fire[f].alive
    BY <1>11 DEF PassesOver, tasks, OneAlive
  <2>2. CASE fire[f].there /\ u = t
    <3>1. /\ row'[t].fires = row[t].fires /\ fire[f].fires >= MaxRounds
          /\ fire[f].fires <= row[t].fires /\ fire[f].fires \in Nat /\ row[t].fires \in Nat
      BY <1>11, <2>2, Fields DEF PassesOver, UsedUp, SnapBook, TypeOK, Row
    <3> QED
      BY <1>2, <2>1, <3>1 DEF Handled
  <2>3. CASE ~(fire[f].there /\ u = t)
    <3>1. row'[t] = row[t]
      BY <1>0, <1>11, <2>3 DEF PassesOver, TypeOK
    <3> QED
      BY <1>1, <2>1, <3>1
  <2> QED
    BY <2>2, <2>3
<1>4. CASE GuardVetoes(f)
  <2>1. UNCHANGED <<call, cancels>>
    BY <1>4 DEF GuardVetoes, tasks
  <2>2. CASE fire[f].alive /\ u = t
    <3>1. row'[t].status = "pending"
      BY <1>0, <1>4, <2>2 DEF GuardVetoes, TypeOK
    <3> QED
      BY <1>2, <2>1, <3>1 DEF Handled
  <2>3. CASE ~(fire[f].alive /\ u = t)
    <3>1. row'[t] = row[t]
      BY <1>0, <1>4, <2>3 DEF GuardVetoes, TypeOK
    <3> QED
      BY <1>1, <2>1, <2>3, <3>1
  <2> QED
    BY <2>2, <2>3
<1>5. CASE HandlerReads(f)
  <2>1. UNCHANGED <<call, cancels, row>>
    BY <1>5 DEF HandlerReads, tasks
  <2>2. CASE u = t /\ ~(status[t] = "in_progress" /\ t \notin LongRunning)
    BY <1>0, <2>2 DEF Good
  <2>3. CASE ~(u = t /\ ~(status[t] = "in_progress" /\ t \notin LongRunning))
    <3>1. u = t => /\ fire'[f].alive = fire[f].alive /\ fire'[f].task = t
                   /\ fire'[f].phase = "look"
      BY <1>5, <2>3 DEF HandlerReads, FireGoto, TypeOK, Fire
    <3> QED
      BY <1>1, <2>1, <3>1
  <2> QED
    BY <2>2, <2>3
<1>6. CASE Expire(f) \/ Save(f)
  <2>1. UNCHANGED <<call, cancels>> /\ fire[f].phase \in {"expire", "save"}
    BY <1>6 DEF Expire, Save, tasks
  <2>2. PICK s : /\ Outcome(f, s)
                 /\ \/ fire[f].phase = "expire"
                    \/ s = "pending" \/ fire[f].fires + 1 >= MaxRounds
    BY <1>6 DEF Expire, Save
  <2>3. CASE fire[f].alive /\ u = t
    <3>1. row'[t].status = s /\ row'[t].fires = row[t].fires + 1
      BY <2>2, <2>3, OutcomeAt
    <3>2. row[t].status \in {"firing", "cancelled"}
      BY <2>3 DEF OneAlive
    <3>3. Handled(t) => Handled(t)'
      <4>1. CASE row[t].fires >= MaxRounds
        BY <3>1, <4>1, Fields DEF Handled
      <4>2. CASE fire[f].phase = "expire" /\ ~(row[t].fires >= MaxRounds)
        BY <2>3, <3>2, <4>2 DEF Handled, OneAlive
      <4>3. CASE s = "pending" \/ fire[f].fires + 1 >= MaxRounds
        <5>1. /\ fire[f].fires <= row[t].fires /\ fire[f].fires \in Nat /\ row[t].fires \in Nat
          BY <2>3, Fields DEF SnapBook
        <5> QED
          BY <2>3, <3>1, <4>3, <5>1 DEF Handled
      <4> QED
        BY <2>2, <4>1, <4>2, <4>3
    <3>4. \A p \in Registrars : Makes(p, t) => Makes(p, t)'
      BY <1>0, <3>2 DEF Makes
    <3> QED
      BY <1>2, <2>1, <3>3, <3>4 DEF Attended, Registering
  <2>4. CASE ~(fire[f].alive /\ u = t)
    <3>1. row'[t].status = row[t].status /\ row'[t].fires = row[t].fires
      BY <2>2, <2>4, OutcomeAt
    <3> QED
      BY <1>1, <2>1, <2>4, <3>1
  <2> QED
    BY <2>3, <2>4
<1>7. CASE HandlerLooks(f) \/ Wakes(f) \/ Defers(f)
  <2>1. UNCHANGED <<call, cancels>>
    BY <1>7 DEF HandlerLooks, Wakes, Defers, tasks
  <2>2. row'[t].status = row[t].status /\ row'[t].fires = row[t].fires
    <3>1. row' = row \/ \E k : WriteStreak(f, k)
      BY <1>7 DEF HandlerLooks, Wakes, Defers, ResetStreak
    <3> QED
      BY <3>1, StreakAt
  <2>3. PICK p \in {"save", "check"} : FireGoto(f, p)
    BY <1>7 DEF HandlerLooks, Wakes, Defers
  <2>4. fire'[f].alive = fire[f].alive /\ fire'[f].task = u /\ fire'[f].phase # "expire"
    BY <2>3 DEF FireGoto, TypeOK, Fire
  <2> QED
    BY <1>1, <2>1, <2>2, <2>4
<1>8. CASE Stalls(f)
  <2>0. f \in Life!Callers /\ Life!TypeOK
    BY TypesOf DEF Life!Callers
  <2>1. /\ call' = [[call EXCEPT ![f].phase = "asked"] EXCEPT ![f].task = u]
        /\ call[f].phase = "idle" /\ row' = row
    BY <1>8 DEF Stalls, Life!AskBlock
  <2>2. call'[f].phase = "asked" /\ call'[f].task = u
        /\ \A c \in Life!Callers : c # f => call'[c] = call[c]
    BY <2>0, <2>1 DEF Life!TypeOK, Life!Call
  <2>3. CASE u = t
    BY <2>2, <2>3 DEF Good, Cared, Blocking
  <2>4. CASE u # t
    <3>1. cancels'[t] = cancels[t]
      BY <1>8, <2>4 DEF Stalls, Unregister, TypeOK
    <3>2. \A c \in Life!Callers : call'[c].phase = "after" => call'[c] = call[c]
      BY <2>2
    <3>3. Outstanding(t)' => Outstanding(t)
      BY <3>1, <3>2, NothingDue
    <3>4. \A g \in Watchdogs : fire[g].task = t => fire'[g] = fire[g]
      BY <1>0, <2>4
    <3>5. Attended(t) => Attended(t)'
      BY <1>0, <2>1, <3>3, <3>4, AttendedFrame
    <3>6. \A w \in Watchdogs : Blocking(w, t) => Blocking(w, t)'
      BY <1>0, <2>1, <2>2 DEF Blocking, Life!Callers
    <3> QED
      BY <1>0, <3>5, <3>6, CareFrame
  <2> QED
    BY <2>3, <2>4
<1>9. CASE HandlerFails(f) \/ TickFails(f)
  <2>1. UNCHANGED <<call, cancels>>
    BY <1>9 DEF HandlerFails, TickFails, tasks
  <2>2. CASE u = t /\ t \in faulty'
    BY <2>2 DEF Good
  <2>3. CASE u # t
    <3>1. row'[t] = row[t]
      BY <1>9, <2>3 DEF HandlerFails, TickFails, TypeOK
    <3> QED
      BY <1>1, <2>1, <2>3, <3>1
  <2>4. CASE fire[f].phase = "claim" /\ row' = row
    <3>1. ~fire[f].alive
      BY <2>4 DEF OneAlive
    <3> QED
      BY <1>1, <2>1, <2>4, <3>1
  <2> QED
    BY <1>9, <2>2, <2>3, <2>4 DEF HandlerFails, TickFails, Hits
<1> QED
  BY <1>3, <1>4, <1>5, <1>6, <1>7, <1>8, <1>9, <1>10, <1>11 DEF FireStep

\* A call of a watchdog that fails is an error that hit the task.
LEMMA CallFailsCare ==
  ASSUME TypeOK, CareInv, NEW c \in Life!Callers, CallFails(c), NEW t \in Tasks
  PROVE  Good(t)'
<1>1. /\ UNCHANGED <<status, version, row, cancels, reg, fire, boot, restoring, overtaken>>
      /\ Good(t) /\ (t \in faulty => t \in faulty')
      /\ (Booting(t) => Booting(t)')
      /\ c \in Watchdogs => call[c].task \in faulty'
  BY DEF CallFails, Life!CallFails, Life!rows, patrol, Hits, CareInv, Booting
<1>2. call'[c].phase = "idle" /\ \A d \in Life!Callers : d # c => call'[d] = call[d]
  BY TypesOf, LifeIdle DEF CallFails, Life!CallFails, Life!Ends, Life!TypeOK
<1>3. Attended(t) => Attended(t)'
  <2>1. Outstanding(t)' => Outstanding(t)
    BY <1>1, <1>2, NothingDue
  <2> QED
    BY <1>1, <2>1, AttendedFrame
<1>4. CASE c \in Watchdogs /\ call[c].task = t
  BY <1>1, <1>4 DEF Good
<1>5. CASE ~(c \in Watchdogs /\ call[c].task = t)
  <2>1. \A w \in Watchdogs : Blocking(w, t) => Blocking(w, t)'
    BY <1>1, <1>2, <1>5 DEF Blocking, Life!Callers
  <2> QED
    BY <1>1, <1>3, <2>1, CareFrame
<1> QED
  BY <1>4, <1>5

\* A restart: whoever runs is registered again.
LEMMA StartupCare ==
  ASSUME TypeOK, CareInv, Startup, NEW t \in Tasks
  PROVE  Good(t)'
<1>1. UNCHANGED <<status, version, call, cancels, fire, overtaken, faulty>> /\ Good(t)
  BY DEF Startup, Sweep, Booted, Restore, tasks, patrol, history, CareInv
<1>2. CASE Sweep
  BY <1>1, <1>2 DEF Sweep, Running, Good, Cared, Booting
<1>3. ASSUME NEW u \in Tasks, Restore(u)
      PROVE  Good(t)'
  <2>1. /\ row' = row /\ reg[Boot].step = "none" /\ Boot \in Registrars
        /\ reg'[Boot] = [step |-> "read", task |-> u]
        /\ \A p \in Registrars : p # Boot => reg'[p] = reg[p]
    BY <1>3 DEF Restore, TypeOK, Registrars
  <2>2. CASE u = t
    BY <2>1, <2>2 DEF Good, Cared, Coming
  <2>3. CASE u # t
    <3>1. Booting(t) => Booting(t)'
      BY <1>3, <2>3 DEF Restore, Booting
    <3>2. \A p \in Registrars : reg[p].step # "none" => reg'[p] = reg[p]
      BY <2>1
    <3>3. Outstanding(t)' => Outstanding(t)
      BY <1>1, NothingDue
    <3>4. Attended(t) => Attended(t)'
      BY <1>1, <2>1, <3>2, <3>3, AttendedFrame DEF Makes
    <3>5. \A w \in Watchdogs : Blocking(w, t) => Blocking(w, t)'
      BY <1>1 DEF Blocking
    <3> QED
      BY <1>1, <3>1, <3>2, <3>4, <3>5, CareFrame
  <2> QED
    BY <2>2, <2>3
<1>4. CASE Booted
  <2>1. UNCHANGED <<row, reg>> /\ ~Booting(t)
    BY <1>4 DEF Booted, patrol, Booting
  <2>2. Attended(t) => Attended(t)'
    BY <1>1, <2>1, NothingDue, AttendedFrame
  <2>3. \A w \in Watchdogs : Blocking(w, t) => Blocking(w, t)'
    BY <1>1 DEF Blocking
  <2> QED
    BY <1>1, <2>1, <2>2, <2>3, CareFrame
<1> QED
  BY <1>2, <1>3, <1>4 DEF Startup

\* Every step passes the care for a running task on.
LEMMA CareStep ==
  ASSUME TypeOK, RowBook, CallBook, CareInv, [Next]_vars
  PROVE  CareInv'
<1> SUFFICES ASSUME NEW t \in Tasks
             PROVE  Good(t)'
  BY DEF CareInv
<1>1. CASE Crash
  BY <1>1 DEF Crash, Good, Cared, Booting
<1>2. CASE UNCHANGED vars
  BY <1>2 DEF vars, tasks, patrol, world, history, CareInv, Good, Cared, Booting, Coming,
     Blocking, Attended, Outstanding, Leaves, Registering, Handled, Makes
<1> QED
  BY <1>1, <1>2, ElsewhereCare, TransitionCare, CancelCare, RegisterCare, FireCare,
     CallFailsCare, StartupCare DEF Next, FaultStep, RowBook

\* Whatever overlaps, a running task of whose patrol nothing is under way has a
\* row that is due, or handled, or used up.
THEOREM RunningTasksAreWatched == Spec => []RunningIsWatched
<1>1. Init => TypeOK /\ RowBook /\ CallBook /\ CareInv
  BY PatrolTypesInit, RowBookInit, CallBookInit DEF Init, CareInv, Good, Cared, Booting
<1>2. TypeOK /\ RowBook /\ CallBook /\ CareInv /\ [Next]_vars
        => (TypeOK /\ RowBook /\ CallBook /\ CareInv)'
  <2>1. TypeOK /\ [Next]_vars => TypeOK'
    BY PatrolTypesStep
  <2> QED
    BY <2>1, RowBookStep, CallBookStep, CareStep
<1>3. CareInv => RunningIsWatched
  <2> SUFFICES ASSUME CareInv, NEW t \in Running \ LongRunning, Settled(t),
                      t \notin overtaken, t \notin faulty
               PROVE  Watched(t)
    BY DEF RunningIsWatched
  <2>1. t \in Tasks /\ Cared(t)
    BY DEF CareInv, Good, Running
  <2>2. ~Booting(t) /\ ~Coming(t) /\ \A w \in Watchdogs : ~Blocking(w, t)
    BY DEF Settled, Booting, Coming, Blocking
  <2>3. \A p \in Registrars : ~Makes(p, t)
    BY DEF Settled, Makes
  <2>4. Handled(t)
    BY <2>1, <2>2, <2>3 DEF Cared, Attended, Registering
  <2> QED
    BY <2>4 DEF Handled, Watched
<1> QED
  BY <1>1, <1>2, <1>3, PTL DEF Spec
=============================================================================
