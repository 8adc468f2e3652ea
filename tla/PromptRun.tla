----------------------------- MODULE PromptRun -----------------------------
(***************************************************************************)
(* How a worker runs a prompt (exec-server.ts, prompt-await.ts,            *)
(* v2-event-map.ts).  An accepted request opens a subscription to the      *)
(* event bus of the engine, notes which messages are there, sends its      *)
(* prompt, and polls the messages until its end is certain.  Two witnesses *)
(* tell of the end: a terminal event of the bus, and a message that        *)
(* stopped.  RunTerminalGate turns them into one verdict, V2RunEventScope  *)
(* keeps the ends of other executions out.                                 *)
(*                                                                         *)
(* The engine is external: executions of a session, of prompts and of the  *)
(* move to a directory, come one after the other; a prompt sent into a     *)
(* running one is consumed by it at its next step and adds no terminal     *)
(* event.  The bus repeats nothing: a frame emitted while a subscription   *)
(* is down is lost.                                                        *)
(*                                                                         *)
(* Each action is the code between two awaits.  Left out: the stream of    *)
(* deltas, questions, artifacts, usage, and the engine that brings an      *)
(* event channel of its own.  Time is left out: a deadline passes or not.  *)
(***************************************************************************)
EXTENDS Integers, FiniteSets

CONSTANTS
  Runs,          \* requests to /execute that name the same session
  Shared,        \* that session; a run that creates a session gives it its own name
  None,
  MaxUpsets      \* bound: lost connections and sessions, errors, deadlines, stops by a user

ASSUME RunAssumption ==
  /\ IsFiniteSet(Runs) /\ Shared \notin Runs
  /\ None \notin {"succeeded", "failed", "interrupted", "completed"}
  /\ MaxUpsets \in Nat

VARIABLES
  engine,        \* each session: what executes, what waits, the messages
  run,           \* each request: where runExecution is and what it has read
  gate,          \* RunTerminalGate
  scope,         \* V2RunEventScope
  link,          \* the subscription of a run
  report,        \* what the worker has reported of each run
  upsets,
  answered,      \* history: runs whose prompt an execution has gone through
  heard,         \* history: how the execution a run had started ended, if its handler was told
  deaf,          \* history: missed a frame of its session, or joined another's execution
  mixed          \* history: has no baseline, or shared the session with another prompt or move

told == <<gate, scope, heard, deaf>>
vars == <<engine, run, link, told, report, upsets, answered, mixed>>

Sessions == {Shared} \cup Runs
Verdicts == {"succeeded", "failed", "interrupted"}

\* waiting, moves: the prompts and moves to come; starters, covers: the prompts
\* an execution began with and has consumed by now; moved: the worker knows
\* where the session is.
Engine == [active : {"idle", "move", "prompt"}, waiting : SUBSET Runs,
           starters : SUBSET Runs, covers : SUBSET Runs,
           moves : Nat, moved : BOOLEAN, lost : BOOLEAN]
NewSession == [active |-> "idle", waiting |-> {}, starters |-> {}, covers |-> {},
               moves |-> 0, moved |-> FALSE, lost |-> FALSE]

\* of: the runs the execution has started with.
Enqueued == [type |-> "enqueued", verdict |-> None, of |-> {}]
Started == [type |-> "started", verdict |-> None, of |-> {}]
Ended(v, rs) == [type |-> "ended", verdict |-> v, of |-> rs]

\* From the first await of runSendAndAwait to its return the subscription is open.
\* fresh: how the messages after the baseline end.
Awaiting == {"base", "send", "move", "prompt", "loop", "fetch", "grace", "refresh", "drain",
             "abort", "catch"}
Run == [phase : Awaiting \cup {"new", "create", "done"}, session : Sessions,
        fresh : SUBSET {"stop", "error"}, saw : Verdicts \cup {None}]

TypeOK ==
  /\ engine \in [Sessions -> Engine]
  /\ run \in [Runs -> Run]
  /\ gate \in [Runs -> [event : Verdicts \cup {None}, polling : Verdicts \cup {None}]]
  /\ scope \in [Runs -> [promptEnqueued : BOOLEAN, runStarted : BOOLEAN]]
  /\ link \in [Runs -> {"down", "up"}]
  /\ report \in [Runs -> {None, "completed", "failed"}]
  /\ upsets \in Nat
  /\ heard \in [Runs -> Verdicts \cup {None}]
  /\ answered \in SUBSET Runs
  /\ deaf \in SUBSET Runs /\ mixed \in SUBSET Runs

Idle == [phase |-> "new", session |-> Shared, fresh |-> {}, saw |-> None]
NewGate == [event |-> None, polling |-> None]
NewScope == [promptEnqueued |-> FALSE, runStarted |-> FALSE]

Init ==
  /\ engine = [s \in Sessions |-> NewSession]
  /\ run = [r \in Runs |-> Idle]
  /\ gate = [r \in Runs |-> NewGate]
  /\ scope = [r \in Runs |-> NewScope]
  /\ link = [r \in Runs |-> "down"]
  /\ report = [r \in Runs |-> None]
  /\ upsets = 0
  /\ answered = {} /\ deaf = {} /\ mixed = {}
  /\ heard = [r \in Runs |-> None]

Upset == upsets < MaxUpsets /\ upsets' = upsets + 1
At(r, p) == run[r].phase = p
Goto(r, p) == run' = [run EXCEPT ![r].phase = p]
\* Out of the polling loop: what was read there is not needed any more.
Leave(r, p) ==
  run' = [run EXCEPT ![r].phase = p, ![r].saw = None,
                     ![r].fresh = IF p = "loop" THEN @ ELSE {}]
Of(r) == engine[run[r].session]
Listening(s) == {r \in Runs : run[r].session = s /\ run[r].phase \in Awaiting}

\* V2RunEventScope without the rule that the prompt comes first.
observeAny(sc, f) ==
  [promptEnqueued |-> TRUE,
   runStarted |-> f.type # "ended" /\ (sc.runStarted \/ f.type = "started")]

\* V2RunEventScope.observe
observe(sc, f) ==
  LET enq == sc.promptEnqueued \/ f.type = "enqueued" IN
  [promptEnqueued |-> enq,
   runStarted |-> f.type # "ended" /\ (sc.runStarted \/ (f.type = "started" /\ enq))]

allowTerminal(sc, f) == f.type = "ended" /\ sc.promptEnqueued /\ sc.runStarted

\* The gate with the type of the frame for its outcome.
noteEventType(g, v) == IF g.event = None THEN [g EXCEPT !.event = "ended"] ELSE g

\* RunTerminalGate.noteEvent: the first terminal event stands.
noteEvent(g, v) == IF g.event = None THEN [g EXCEPT !.event = v] ELSE g

\* The bus tells every open subscription: handleV2Event.  A frame is handled as
\* it is emitted; a slow bus is a slow engine, whose messages come first.
Emit(s, f) ==
  LET in == {r \in Listening(s) : link[r] = "up"} IN
  /\ scope' = [r \in Runs |-> IF r \in in THEN observe(scope[r], f) ELSE scope[r]]
  /\ gate' = [r \in Runs |-> IF r \in in /\ allowTerminal(scope[r], f)
                             THEN noteEvent(gate[r], f.verdict) ELSE gate[r]]
  /\ deaf' = deaf \cup (Listening(s) \ in)
  /\ heard' = [r \in Runs |-> IF r \in deaf' THEN None
                              ELSE IF r \in in \cap f.of THEN f.verdict ELSE heard[r]]

-----------------------------------------------------------------------------
(* The engine.                                                             *)

MoveEnds(s) ==
  /\ engine[s].active = "move"
  /\ engine' = [engine EXCEPT ![s].active = "idle"]
  /\ Emit(s, Ended("succeeded", {}))
  /\ UNCHANGED <<run, link, report, upsets, answered, mixed>>

\* A move that had to wait.
MoveBegins(s) ==
  /\ engine[s].active = "idle" /\ engine[s].moves > 0
  /\ engine' = [engine EXCEPT ![s].active = "move", ![s].moves = @ - 1]
  /\ Emit(s, Started)
  /\ UNCHANGED <<run, link, report, upsets, answered, mixed>>

Start(s) ==
  LET w == engine[s].waiting IN
  /\ engine[s].active = "idle" /\ w # {}
  /\ engine' = [engine EXCEPT ![s].active = "prompt", ![s].waiting = {},
                              ![s].starters = w, ![s].covers = w]
  /\ Emit(s, Started)
  /\ UNCHANGED <<run, link, report, upsets, answered, mixed>>

\* A prompt sent into a running execution is part of its next step.
Consume(s) ==
  LET w == engine[s].waiting IN
  /\ engine[s].active = "prompt" /\ w # {}
  /\ engine' = [engine EXCEPT ![s].waiting = {}, ![s].covers = @ \cup w]
  /\ deaf' = deaf \cup (w \cap Listening(s))
  /\ UNCHANGED <<run, gate, scope, link, report, upsets, answered, heard, mixed>>

\* A message ends, with the reason stop or with an error.  To a run that has
\* taken its baseline it is new, unless the baseline has its beginning.
Says(s, kind) ==
  LET c == engine[s].covers
      past == {r \in Listening(s) : run[r].phase \in {"send", "move", "prompt", "loop", "fetch"}}
  IN
  /\ engine[s].active = "prompt"
  /\ \E unseen \in SUBSET (past \ c) :
       run' = [r \in Runs |-> IF r \in past \ unseen
                              THEN [run[r] EXCEPT !.fresh = @ \cup {kind}] ELSE run[r]]
  /\ answered' = IF kind = "stop" THEN answered \cup ((c \cap past) \ mixed) ELSE answered
  /\ UNCHANGED <<engine, link, told, report, upsets, mixed>>

EndsAs(s, v) ==
  /\ engine' = [engine EXCEPT ![s].active = "idle", ![s].starters = {}, ![s].covers = {}]
  /\ Emit(s, Ended(v, engine[s].starters))

\* Also without a stop: then only the event tells.
Succeeds(s) ==
  /\ engine[s].active = "prompt" /\ engine[s].waiting = {}
  /\ EndsAs(s, "succeeded")
  /\ answered' = answered \cup ((engine[s].covers \cap Listening(s)) \ mixed)
  /\ UNCHANGED <<run, link, report, upsets, mixed>>

Fails(s) ==
  /\ engine[s].active = "prompt"
  /\ EndsAs(s, "failed")
  /\ UNCHANGED <<run, link, report, upsets, answered, mixed>>

\* POST /sessions/:id/abort.
UserStops(s) ==
  /\ engine[s].active = "prompt" /\ Upset
  /\ EndsAs(s, "interrupted")
  /\ UNCHANGED <<run, link, report, answered, mixed>>

\* The engine restarts and does not know the session any more.
Forgets(s) ==
  /\ ~engine[s].lost /\ Upset
  /\ engine' = [engine EXCEPT ![s] = [NewSession EXCEPT !.lost = TRUE]]
  /\ UNCHANGED <<run, link, told, report, answered, mixed>>

-----------------------------------------------------------------------------
(* The subscription.                                                       *)

Connect(r) ==
  /\ run[r].phase \in Awaiting /\ link[r] = "down"
  /\ link' = [link EXCEPT ![r] = "up"]
  /\ UNCHANGED <<engine, run, told, report, upsets, answered, mixed>>

Disconnect(r) ==
  /\ link[r] = "up" /\ Upset
  /\ link' = [link EXCEPT ![r] = "down"]
  /\ UNCHANGED <<engine, run, told, report, answered, mixed>>

\* runSendAndAwait opens its stream first (a connection that is late has been
\* down till then) and closes it however it ends.
Open(r) == link' = [link EXCEPT ![r] = "up"]
Close(r) == link' = [link EXCEPT ![r] = "down"]

-----------------------------------------------------------------------------
(* runExecution.                                                           *)

\* A request marked inFlight is to join the execution that runs, if
\* activeExecutions knows of one.  Nothing ever puts a session there: every
\* request is an execution of its own.
Accept(r) ==
  /\ At(r, "new")
  /\ Goto(r, "base") /\ Open(r)
  /\ UNCHANGED <<engine, told, report, upsets, answered, mixed>>

\* createSession, because the named one is not found: a new round, a new gate.
Create(r) ==
  /\ At(r, "create")
  /\ run' = [run EXCEPT ![r] = [Idle EXCEPT !.phase = "base", !.session = r]]
  /\ gate' = [gate EXCEPT ![r] = NewGate]
  /\ scope' = [scope EXCEPT ![r] = NewScope]
  /\ heard' = [heard EXCEPT ![r] = None]
  /\ deaf' = deaf \ {r} /\ mixed' = mixed \ {r} /\ answered' = answered \ {r}
  /\ Open(r)
  /\ UNCHANGED <<engine, report, upsets>>

\* sendAndAwait notes the messages that are there.
TakeBaseline(r) ==
  /\ At(r, "base")
  /\ Goto(r, "send")
  /\ mixed' = IF Of(r).active = "prompt" \/ Of(r).waiting # {} \/ Of(r).moves > 0
              THEN mixed \cup {r} ELSE mixed
  /\ UNCHANGED <<engine, link, told, report, upsets, answered>>

\* The query fails: the whole history counts as new.
BaselineFails(r) ==
  /\ At(r, "base") /\ Upset
  /\ \E old \in SUBSET {"stop", "error"} :
       run' = [run EXCEPT ![r].phase = "send", ![r].fresh = old]
  /\ mixed' = mixed \cup {r}
  /\ UNCHANGED <<engine, link, told, report, answered>>

\* applyDirectory: a session is where the worker has put it, has had a prompt,
\* or the requests name no directory.
StaysWhereItIs(r) ==
  /\ At(r, "send") /\ ~Of(r).lost
  /\ Goto(r, "prompt")
  /\ engine' = [engine EXCEPT ![run[r].session].moved = TRUE]
  /\ UNCHANGED <<link, told, report, upsets, answered, mixed>>

\* Else it is moved, which executes, at once or after the move of another
\* request that did not know of this one.  All requests name one directory.
ApplyDirectory(r) ==
  LET s == run[r].session IN
  /\ At(r, "send") /\ ~Of(r).lost /\ ~Of(r).moved
  /\ Goto(r, "move")
  /\ IF Of(r).active = "idle"
     THEN /\ engine' = [engine EXCEPT ![s].active = "move"]
          /\ Emit(s, Started)
          /\ UNCHANGED mixed
     ELSE /\ engine' = [engine EXCEPT ![s].moves = @ + 1]
          /\ mixed' = mixed \cup Listening(s)
          /\ UNCHANGED told
  /\ UNCHANGED <<link, report, upsets, answered>>

\* The worker knows the directory of a session when its move has returned.
MoveReturns(r) ==
  /\ At(r, "move") /\ ~Of(r).lost
  /\ Goto(r, "prompt")
  /\ engine' = [engine EXCEPT ![run[r].session].moved = TRUE]
  /\ UNCHANGED <<link, told, report, upsets, answered, mixed>>

Delivered(r) ==
  LET s == run[r].session
      others == Listening(s) \ {r}
  IN
  /\ At(r, "prompt") /\ ~Of(r).lost
  /\ engine' = [engine EXCEPT ![s].waiting = @ \cup {r}]
  /\ Emit(s, Enqueued)
  /\ mixed' = IF others = {} THEN mixed ELSE mixed \cup others \cup {r}

SendPrompt(r) ==
  /\ Delivered(r) /\ Goto(r, "loop")
  /\ UNCHANGED <<link, report, upsets, answered>>

\* 404: once, a session that was named is replaced by a new one.
Querying == {"send", "move", "prompt", "fetch", "refresh"}
NotFound(r) ==
  /\ run[r].phase \in Querying /\ Of(r).lost
  /\ Leave(r, IF run[r].session = Shared THEN "create" ELSE "catch")
  /\ Close(r)
  /\ UNCHANGED <<engine, told, report, upsets, answered, mixed>>

\* A request fails; a move may have been made.
QueryFails(r) ==
  /\ run[r].phase \in Querying \cup {"create"} /\ Upset
  /\ Leave(r, "catch")
  /\ UNCHANGED <<engine, link, told, report, answered, mixed>>

\* The prompt has arrived, the response is lost.
PromptUnanswered(r) ==
  /\ Delivered(r) /\ Upset /\ Leave(r, "catch")
  /\ UNCHANGED <<link, report, answered>>

-----------------------------------------------------------------------------
(* awaitCompletion.                                                        *)

peek(g) == IF g.event # None THEN g.event ELSE g.polling
Failing == {"failed", "interrupted"}

LoopTop(r) ==
  /\ At(r, "loop")
  /\ run' = [run EXCEPT ![r].phase = IF peek(gate[r]) \in Failing THEN "abort" ELSE "fetch",
                        ![r].saw = peek(gate[r])]
  /\ UNCHANGED <<engine, link, told, report, upsets, answered, mixed>>

\* Without the event's success, which ends the run when no stop is to be seen.
NextPhasePolled(r) ==
  IF "stop" \in run[r].fresh THEN "grace"
  ELSE IF "error" \in run[r].fresh THEN "abort" ELSE "loop"

\* Where the loop goes with the messages it has read: findFinish, the event it
\* saw before, extractMessageError.
NextPhase(r) ==
  IF "stop" \in run[r].fresh THEN "grace"
  ELSE IF run[r].saw = "succeeded" THEN "refresh"
  ELSE IF "error" \in run[r].fresh THEN "abort" ELSE "loop"

Fetch(r) ==
  /\ At(r, "fetch") /\ ~Of(r).lost
  /\ Leave(r, NextPhase(r))
  /\ UNCHANGED <<engine, link, told, report, upsets, answered, mixed>>

\* No first token, or no end, before the deadline; a fatal line in the log.
TimesOut(r) ==
  /\ At(r, "fetch") /\ ~Of(r).lost /\ NextPhase(r) = "loop" /\ Upset
  /\ Leave(r, "abort")
  /\ UNCHANGED <<engine, link, told, report, answered, mixed>>

notePolling(r, v) ==
  gate' = IF gate[r].polling = None THEN [gate EXCEPT ![r].polling = v] ELSE gate

\* The event has its say until the grace period is over; the poll notes its
\* own evidence after it has asked.
Grace(r) ==
  /\ At(r, "grace")
  /\ IF peek(gate[r]) \in Failing
     THEN notePolling(r, "failed") /\ Goto(r, "abort")
     ELSE notePolling(r, "succeeded") /\ Goto(r, "drain")
  /\ UNCHANGED <<engine, link, scope, heard, deaf, report, upsets, answered, mixed>>

Refresh(r) ==
  /\ At(r, "refresh") /\ ~Of(r).lost
  /\ notePolling(r, "succeeded") /\ Goto(r, "drain")
  /\ UNCHANGED <<engine, link, scope, heard, deaf, report, upsets, answered, mixed>>

\* driver.abort interrupts whatever the session executes; its own failure is
\* not looked at.
Abort(r) ==
  /\ At(r, "abort")
  /\ Goto(r, "catch")
  /\ IF Of(r).active = "prompt" THEN EndsAs(run[r].session, "interrupted")
     ELSE UNCHANGED <<engine, told>>
  /\ UNCHANGED <<link, report, upsets, answered, mixed>>

AbortFails(r) ==
  /\ At(r, "abort") /\ Upset
  /\ Goto(r, "catch")
  /\ UNCHANGED <<engine, link, told, report, answered, mixed>>

-----------------------------------------------------------------------------
(* The report.                                                             *)

\* Polling evidence goes before the event's.
settlePolled(g) == IF g.polling # None THEN g.polling ELSE g.event

\* RunTerminalGate.settle; without any evidence the run has succeeded.
settle(g) == IF peek(g) = None THEN "succeeded" ELSE peek(g)

\* What the worker tells the server of the run; with it the run, and what is
\* remembered of it, is over.
Finish(r, v) ==
  /\ report' = [report EXCEPT ![r] = IF v = "succeeded" THEN "completed" ELSE "failed"]
  /\ run' = [run EXCEPT ![r] = [Idle EXCEPT !.phase = "done"]]
  /\ gate' = [gate EXCEPT ![r] = NewGate] /\ scope' = [scope EXCEPT ![r] = NewScope]
  /\ Close(r)
  /\ heard' = [heard EXCEPT ![r] = None]
  /\ deaf' = deaf \ {r} /\ mixed' = mixed \ {r}
  /\ answered' = answered \ {r}
  /\ UNCHANGED <<engine, upsets>>

\* The chain of deltas is drained, the stream closed, the gate settled.
Report(r) == At(r, "drain") /\ Finish(r, settle(gate[r]))

\* A run that failed here is completed all the same if the event says so.
Catch(r) == At(r, "catch") /\ Finish(r, peek(gate[r]))

-----------------------------------------------------------------------------
EngineStep(s) == MoveBegins(s) \/ MoveEnds(s) \/ Start(s) \/ Succeeds(s) \/ Fails(s)

RunStep(r) ==
  \/ Create(r) \/ TakeBaseline(r) \/ SendPrompt(r)
  \/ StaysWhereItIs(r) \/ ApplyDirectory(r) \/ MoveReturns(r) \/ NotFound(r)
  \/ LoopTop(r) \/ Fetch(r) \/ Grace(r) \/ Refresh(r)
  \/ Abort(r) \/ Report(r) \/ Catch(r)

Next ==
  \/ \E s \in Sessions :
       \/ EngineStep(s) \/ Consume(s) \/ Says(s, "stop") \/ Says(s, "error") \/ UserStops(s)
  \/ Forgets(Shared)
  \/ \E r \in Runs :
       \/ Accept(r) \/ RunStep(r) \/ Connect(r) \/ Disconnect(r)
       \/ BaselineFails(r) \/ QueryFails(r) \/ PromptUnanswered(r)
       \/ TimesOut(r) \/ AbortFails(r)

Spec == Init /\ [][Next]_vars

\* The engine executes what it was given, and ends; a subscription connects
\* again; the event loop goes on with a run.
Fairness ==
  /\ WF_vars(\E s \in Sessions : EngineStep(s))
  /\ WF_vars(\E r \in Runs : Connect(r))
  /\ \A r \in Runs : WF_vars(RunStep(r))

FairSpec == Spec /\ Fairness

-----------------------------------------------------------------------------
(* Properties.                                                             *)

Completes(r) == report[r] = None /\ report'[r] = "completed"

\* A run is reported as completed only after an execution has gone through
\* its own prompt: not because the session was moved, an earlier execution
\* ended late, or an old reply was taken for its own.  Except where the
\* worker cannot tell replies apart: another prompt, or another's move, is in
\* the session, or there is no baseline.
CompletedByItsOwnExecution ==
  [][\A r \in Runs : Completes(r) => r \in answered \cup mixed]_vars

\* Whichever witness comes first, the conclusion is the same: a run whose
\* handler was told, before the report, that the execution failed or was
\* stopped is not reported as completed, unless it had missed a frame.
ToldFailureIsReported ==
  [][\A r \in Runs : Completes(r) =>
       heard[r] \in {None, "succeeded"} \/ r \in deaf \cup mixed]_vars

\* Every accepted run is reported, completed or failed, through lost
\* connections, errors and a lost session, unless a frame was lost while its
\* subscription was down, or its prompt joined another's execution.
RunIsReported ==
  \A r \in Runs : At(r, "base") ~> report[r] # None \/ r \in deaf
=============================================================================
