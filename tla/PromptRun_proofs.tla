-------------------------- MODULE PromptRun_proofs --------------------------
(***************************************************************************)
(* Theorems about PromptRun, for any number of requests to one session and *)
(* any number of lost connections, lost sessions, errors, deadlines and    *)
(* stops.                                                                  *)
(***************************************************************************)
EXTENDS PromptRun, TLAPS

\* The assumption on the constants that the proofs use.
LEMMA Names == Shared \notin Runs /\ None \notin Verdicts /\ None # "completed"
  BY RunAssumption DEF Verdicts

-----------------------------------------------------------------------------
(* The inductive invariant.                                                *)

\* Only a prompt's execution has prompts, a session executes prompts once its
\* directory is known, nothing after its loss, and whoever starts an execution
\* is consumed by it.
EngineBook(s) ==
  LET e == engine[s] IN
  /\ e.active # "prompt" => e.starters = {} /\ e.covers = {}
  /\ e.lost \/ ~e.moved => e.active # "prompt" /\ e.waiting = {}
  /\ e.lost => e.moves = 0
  /\ e.starters \subseteq e.covers

\* Where a run stands before its own prompt is sent.
Ahead == {"new", "base", "send", "move", "prompt"}

\* A run works on the shared session or on one of its own, which no one has
\* touched before; what is remembered of a run begins and ends with it; its
\* prompt is not in its session before it is sent.
RunBook(r) ==
  LET p == run[r].phase
      e == Of(r)
  IN
  /\ run[r].session \in {Shared, r}
  /\ p \in {"new", "done"} =>
       /\ run[r].session = Shared /\ run[r].fresh = {} /\ run[r].saw = None
       /\ gate[r].event = None /\ gate[r].polling = None
       /\ ~scope[r].promptEnqueued /\ heard[r] = None /\ r \notin deaf \cup mixed
  /\ p = "create" => e.lost /\ run[r].session = Shared
  /\ run[r].session = Shared /\ p # "done" => engine[r] = NewSession
  /\ p = "prompt" => e.moved \/ e.lost
  /\ p \in Ahead => r \notin e.waiting \cup e.covers
  /\ scope[r].runStarted => scope[r].promptEnqueued

\* A run that is not mixed has its session for itself from its baseline on:
\* the frames that follow its prompt are about its own prompt, not about the
\* move of the session; a terminal event it has accepted is the last.
OwnBook(r) ==
  LET p == run[r].phase
      e == Of(r)
  IN
  r \notin mixed =>
    /\ p \notin {"new", "base", "done"} =>
         e.waiting \subseteq {r} /\ (e.active = "prompt" => e.waiting = {} /\ e.covers = {r})
    /\ scope[r].promptEnqueued => p \notin Ahead \cup {"done"} /\ (e.moved \/ e.lost)
    /\ e.active = "move" => ~scope[r].runStarted
    /\ e.moves # 0 => p \in {"new", "base", "done"}
    /\ gate[r].event # None =>
         scope[r].promptEnqueued /\ e.waiting = {} /\ e.active # "prompt"

\* Every piece of evidence of a success, at the gate, among the messages or
\* in the place the run has come to, has an execution of its prompt behind it.
AnsweredBook(r) ==
  /\ r \notin mixed
  /\ \/ gate[r].event = "succeeded" \/ gate[r].polling = "succeeded"
     \/ "stop" \in run[r].fresh \/ run[r].saw = "succeeded"
     \/ run[r].phase \in {"grace", "refresh", "drain"}
  => r \in answered

\* A run that missed no frame knows whether its prompt waits or has started an
\* execution, and its gate holds the end it was told of.
HeardBook(r) ==
  LET e == Of(r) IN
  r \notin mixed \cup deaf /\ run[r].phase # "done" =>
    /\ r \in e.waiting => scope[r].promptEnqueued
    /\ r \in e.starters => scope[r].runStarted
    /\ heard[r] # None => gate[r].event = heard[r]

IInv ==
  /\ TypeOK
  /\ \A s \in Sessions : EngineBook(s)
  /\ \A r \in Runs : RunBook(r)
  /\ \A r \in Runs : OwnBook(r)
  /\ \A r \in Runs : AnsweredBook(r)
  /\ \A r \in Runs : HeardBook(r)

\* It holds at the start.
LEMMA IInvInit == Init => IInv
  BY Names DEF Init, IInv, TypeOK, EngineBook, RunBook, OwnBook, AnsweredBook, HeardBook,
    Engine, NewSession, Run, Idle, NewGate, NewScope, Sessions, Of, Awaiting, Ahead, Verdicts

-----------------------------------------------------------------------------
(* The bus.                                                                *)

Frame == [type : {"enqueued", "started", "ended"}, verdict : Verdicts \cup {None},
          of : SUBSET Runs]

\* Whether the handler of a run sees the next frame of a session.
Hears(q, s) == run[q].session = s /\ run[q].phase \in Awaiting /\ link[q] = "up"
Misses(q, s) == run[q].session = s /\ run[q].phase \in Awaiting /\ link[q] # "up"

\* What a frame does to the books of each run.
LEMMA EmitAt ==
  ASSUME TypeOK, NEW s \in Sessions, NEW f \in Frame, Emit(s, f), NEW q \in Runs
  PROVE  /\ scope'[q] = IF Hears(q, s) THEN observe(scope[q], f) ELSE scope[q]
         /\ gate'[q] = IF Hears(q, s) /\ allowTerminal(scope[q], f)
                       THEN noteEvent(gate[q], f.verdict) ELSE gate[q]
         /\ q \in deaf' <=> q \in deaf \/ Misses(q, s)
         /\ heard'[q] = IF q \in deaf' THEN None
                        ELSE IF Hears(q, s) /\ q \in f.of THEN f.verdict ELSE heard[q]
  BY DEF TypeOK, Emit, Listening, Hears, Misses

\* A frame keeps the types.
LEMMA EmitTypes ==
  ASSUME TypeOK, NEW s \in Sessions, NEW f \in Frame, Emit(s, f)
  PROVE  /\ gate' \in [Runs -> [event : Verdicts \cup {None}, polling : Verdicts \cup {None}]]
         /\ scope' \in [Runs -> [promptEnqueued : BOOLEAN, runStarted : BOOLEAN]]
         /\ heard' \in [Runs -> Verdicts \cup {None}]
         /\ deaf' \in SUBSET Runs
<1>1. deaf' \in SUBSET Runs
  BY DEF TypeOK, Emit, Listening
<1>2. \A q \in Runs : observe(scope[q], f) \in [promptEnqueued : BOOLEAN, runStarted : BOOLEAN]
  BY DEF TypeOK, Frame, observe
<1>3. \A q \in Runs : noteEvent(gate[q], f.verdict)
                         \in [event : Verdicts \cup {None}, polling : Verdicts \cup {None}]
  BY DEF TypeOK, Frame, noteEvent
<1>4. f.verdict \in Verdicts \cup {None}
  BY DEF Frame
<1> QED
  BY <1>1, <1>2, <1>3, <1>4 DEF TypeOK, Emit

\* A frame that opens or queues an execution changes no gate.
LEMMA StartedAt ==
  ASSUME TypeOK, NEW s \in Sessions, Emit(s, Started), NEW q \in Runs
  PROVE  /\ gate'[q] = gate[q]
         /\ scope'[q].promptEnqueued = scope[q].promptEnqueued
         /\ scope'[q].runStarted <=>
              scope[q].runStarted \/ (Hears(q, s) /\ scope[q].promptEnqueued)
         /\ q \in deaf' <=> q \in deaf \/ Misses(q, s)
         /\ heard'[q] = IF q \in deaf' THEN None ELSE heard[q]
<1> DEFINE f == Started
<1>1. /\ f \in Frame /\ f.type = "started" /\ f.verdict = None /\ f.of = {}
  BY DEF Started, Frame
<1>2. Emit(s, f)
  OBVIOUS
<1> HIDE DEF f
<1>3. /\ scope[q] \in [promptEnqueued : BOOLEAN, runStarted : BOOLEAN]
      /\ gate[q] \in [event : Verdicts \cup {None}, polling : Verdicts \cup {None}]
  BY DEF TypeOK
<1>4. /\ scope'[q] = IF Hears(q, s) THEN observe(scope[q], f) ELSE scope[q]
      /\ gate'[q] = IF Hears(q, s) /\ allowTerminal(scope[q], f)
                    THEN noteEvent(gate[q], f.verdict) ELSE gate[q]
      /\ q \in deaf' <=> q \in deaf \/ Misses(q, s)
      /\ heard'[q] = IF q \in deaf' THEN None
                     ELSE IF Hears(q, s) /\ q \in f.of THEN f.verdict ELSE heard[q]
  BY <1>1, <1>2, EmitAt
<1>5. /\ observe(scope[q], f).promptEnqueued <=> scope[q].promptEnqueued
      /\ observe(scope[q], f).runStarted <=> scope[q].runStarted \/ scope[q].promptEnqueued
      /\ observe(scope[q], f) \in [promptEnqueued : BOOLEAN, runStarted : BOOLEAN]
  BY <1>1, <1>3 DEF observe
<1>6. gate'[q] = gate[q]
  BY <1>1, <1>4 DEF allowTerminal
<1> HIDE DEF f
<1> QED
  BY <1>1, <1>3, <1>4, <1>5, <1>6

\* The same of the prompt that is put into the inbox.
LEMMA EnqueuedAt ==
  ASSUME TypeOK, NEW s \in Sessions, Emit(s, Enqueued), NEW q \in Runs
  PROVE  /\ gate'[q] = gate[q]
         /\ scope'[q].promptEnqueued <=> scope[q].promptEnqueued \/ Hears(q, s)
         /\ scope'[q].runStarted = scope[q].runStarted
         /\ q \in deaf' <=> q \in deaf \/ Misses(q, s)
         /\ heard'[q] = IF q \in deaf' THEN None ELSE heard[q]
<1> DEFINE f == Enqueued
<1>1. /\ f \in Frame /\ f.type = "enqueued" /\ f.verdict = None /\ f.of = {}
  BY DEF Enqueued, Frame
<1>2. Emit(s, f)
  OBVIOUS
<1> HIDE DEF f
<1>3. /\ scope[q] \in [promptEnqueued : BOOLEAN, runStarted : BOOLEAN]
      /\ gate[q] \in [event : Verdicts \cup {None}, polling : Verdicts \cup {None}]
  BY DEF TypeOK
<1>4. /\ scope'[q] = IF Hears(q, s) THEN observe(scope[q], f) ELSE scope[q]
      /\ gate'[q] = IF Hears(q, s) /\ allowTerminal(scope[q], f)
                    THEN noteEvent(gate[q], f.verdict) ELSE gate[q]
      /\ q \in deaf' <=> q \in deaf \/ Misses(q, s)
      /\ heard'[q] = IF q \in deaf' THEN None
                     ELSE IF Hears(q, s) /\ q \in f.of THEN f.verdict ELSE heard[q]
  BY <1>1, <1>2, EmitAt
<1>5. /\ observe(scope[q], f).promptEnqueued <=> TRUE
      /\ observe(scope[q], f).runStarted <=> scope[q].runStarted
      /\ observe(scope[q], f) \in [promptEnqueued : BOOLEAN, runStarted : BOOLEAN]
  BY <1>1, <1>3 DEF observe
<1>6. gate'[q] = gate[q]
  BY <1>1, <1>4 DEF allowTerminal
<1> HIDE DEF f
<1> QED
  BY <1>1, <1>3, <1>4, <1>5, <1>6

\* The end of an execution: it is for the gate of a run that has seen its own
\* prompt queued and an execution started since.
LEMMA EndedAt ==
  ASSUME TypeOK, NEW s \in Sessions, NEW v \in Verdicts, NEW rs \in SUBSET Runs,
         Emit(s, Ended(v, rs)), NEW q \in Runs
  PROVE  /\ gate'[q].polling = gate[q].polling
         /\ gate'[q].event =
              IF /\ Hears(q, s) /\ gate[q].event = None
                 /\ scope[q].promptEnqueued /\ scope[q].runStarted
              THEN v ELSE gate[q].event
         /\ scope'[q].promptEnqueued = scope[q].promptEnqueued
         /\ scope'[q].runStarted <=> scope[q].runStarted /\ ~Hears(q, s)
         /\ q \in deaf' <=> q \in deaf \/ Misses(q, s)
         /\ heard'[q] = IF q \in deaf' THEN None
                        ELSE IF Hears(q, s) /\ q \in rs THEN v ELSE heard[q]
<1> DEFINE f == Ended(v, rs)
<1>1. /\ f \in Frame /\ f.type = "ended" /\ f.verdict = v /\ f.of = rs
  BY DEF Ended, Frame
<1>2. Emit(s, f)
  OBVIOUS
<1> HIDE DEF f
<1>3. /\ scope[q] \in [promptEnqueued : BOOLEAN, runStarted : BOOLEAN]
      /\ gate[q] \in [event : Verdicts \cup {None}, polling : Verdicts \cup {None}]
  BY DEF TypeOK
<1>4. /\ scope'[q] = IF Hears(q, s) THEN observe(scope[q], f) ELSE scope[q]
      /\ gate'[q] = IF Hears(q, s) /\ allowTerminal(scope[q], f)
                    THEN noteEvent(gate[q], f.verdict) ELSE gate[q]
      /\ q \in deaf' <=> q \in deaf \/ Misses(q, s)
      /\ heard'[q] = IF q \in deaf' THEN None
                     ELSE IF Hears(q, s) /\ q \in f.of THEN f.verdict ELSE heard[q]
  BY <1>1, <1>2, EmitAt
<1>5. /\ observe(scope[q], f).promptEnqueued <=> scope[q].promptEnqueued
      /\ observe(scope[q], f).runStarted <=> FALSE
      /\ observe(scope[q], f) \in [promptEnqueued : BOOLEAN, runStarted : BOOLEAN]
  BY <1>1, <1>3 DEF observe
<1>6. gate'[q].polling = gate[q].polling
      /\ gate'[q].event = IF /\ Hears(q, s) /\ gate[q].event = None
                             /\ scope[q].promptEnqueued /\ scope[q].runStarted
                          THEN v ELSE gate[q].event
  BY <1>1, <1>3, <1>4 DEF allowTerminal, noteEvent
<1> HIDE DEF f
<1> QED
  BY <1>1, <1>3, <1>4, <1>5, <1>6

\* The end of a prompt's execution keeps every book, whoever ends it: those
\* whose session it is not are not told, and a success has its witness.
LEMMA PromptEnds ==
  ASSUME IInv, NEW s \in Sessions, NEW v \in Verdicts, EndsAs(s, v),
         engine[s].active = "prompt", mixed' = mixed, answered \subseteq answered',
         v = "succeeded" => engine[s].waiting = {}
                            /\ (engine[s].covers \cap Listening(s)) \ mixed \subseteq answered',
         \A q \in Runs :
           /\ run'[q].session = run[q].session /\ run'[q].fresh = run[q].fresh
           /\ run'[q].saw = run[q].saw
           /\ \/ run'[q].phase = run[q].phase
              \/ run[q].phase = "abort" /\ run'[q].phase = "catch"
  PROVE  /\ \A q \in Sessions : EngineBook(q)'
         /\ \A q \in Runs : RunBook(q)' /\ OwnBook(q)' /\ AnsweredBook(q)' /\ HeardBook(q)'
<1> USE Names DEF IInv
<1>1. /\ \A z \in Sessions : z # s => engine'[z] = engine[z]
      /\ engine'[s].active = "idle" /\ engine'[s].starters = {} /\ engine'[s].covers = {}
      /\ engine'[s].waiting = engine[s].waiting /\ engine'[s].moved = engine[s].moved
      /\ engine'[s].moves = engine[s].moves
      /\ engine'[s].lost = engine[s].lost
  BY DEF EndsAs, TypeOK, Engine
<1>2. engine[s].starters \in SUBSET Runs
  BY DEF TypeOK, Engine
<1>3. \A q \in Runs :
        /\ gate'[q].polling = gate[q].polling
        /\ gate'[q].event =
             IF /\ Hears(q, s) /\ gate[q].event = None
                /\ scope[q].promptEnqueued /\ scope[q].runStarted
             THEN v ELSE gate[q].event
        /\ scope'[q].promptEnqueued = scope[q].promptEnqueued
        /\ scope'[q].runStarted <=> scope[q].runStarted /\ ~Hears(q, s)
        /\ q \in deaf' <=> q \in deaf \/ Misses(q, s)
        /\ heard'[q] = IF q \in deaf' THEN None
                       ELSE IF Hears(q, s) /\ q \in engine[s].starters THEN v ELSE heard[q]
  BY <1>2, EndedAt DEF EndsAs
<1>4. ASSUME NEW q \in Sessions PROVE EngineBook(q)'
  BY <1>1 DEF EngineBook
<1>5. ASSUME NEW q \in Runs
      PROVE  RunBook(q)' /\ OwnBook(q)' /\ AnsweredBook(q)' /\ HeardBook(q)'
  <2>1. q \in Sessions /\ run[q].session \in Sessions
    BY DEF TypeOK, Run, Sessions
  <2>2. RunBook(q) /\ OwnBook(q) /\ AnsweredBook(q) /\ HeardBook(q) /\ EngineBook(s)
    OBVIOUS
  <2>3. RunBook(q)'
    <3>1. engine[q] = NewSession => s # q
      BY DEF NewSession
    <3> QED
      BY <1>1, <1>3, <2>1, <2>2, <3>1 DEF RunBook, Of, Ahead, Hears, Misses, Awaiting
  <2>4. OwnBook(q)'
    BY <1>1, <1>3, <2>1, <2>2 DEF OwnBook, Of, Ahead, Hears
  <2>5. AnsweredBook(q)'
    BY <1>1, <1>3, <2>1, <2>2 DEF AnsweredBook, OwnBook, Of, Ahead, Hears, Listening, Verdicts
  <2>6. HeardBook(q)'
    BY <1>1, <1>3, <2>1, <2>2 DEF HeardBook, OwnBook, RunBook, EngineBook, Of, Hears
  <2> QED
    BY <2>3, <2>4, <2>5, <2>6
<1> QED
  BY <1>4, <1>5

-----------------------------------------------------------------------------
(* The run.                                                                *)

Phases == Awaiting \cup {"new", "create", "done"}

\* What a record of a run may be changed to.
LEMMA RunChanges ==
  ASSUME NEW x \in Run, NEW p \in Phases, NEW f \in SUBSET {"stop", "error"},
         NEW v \in Verdicts \cup {None}
  PROVE  /\ [x EXCEPT !.phase = p] \in Run
         /\ [x EXCEPT !.phase = p, !.saw = v] \in Run
         /\ [x EXCEPT !.phase = p, !.fresh = f] \in Run
         /\ [x EXCEPT !.phase = p, !.saw = v, !.fresh = f] \in Run
  BY DEF Run, Phases

\* A message that is new to a run.
LEMMA FreshChanges ==
  ASSUME NEW x \in Run, NEW f \in SUBSET {"stop", "error"}
  PROVE  [x EXCEPT !.fresh = f] \in Run
  BY DEF Run

\* A run that goes on keeps its type.
LEMMA GotoTypes ==
  ASSUME TypeOK, NEW r \in Runs, NEW p \in Phases, Goto(r, p)
  PROVE  run' \in [Runs -> Run]
<1>1. run[r] \in Run
  BY DEF TypeOK
<1>2. [run[r] EXCEPT !.phase = p] \in Run
  BY <1>1, RunChanges
<1> QED
  BY <1>2 DEF TypeOK, Goto

\* A run that leaves the polling loop keeps its type.
LEMMA LeaveTypes ==
  ASSUME TypeOK, NEW r \in Runs, NEW p \in Phases, Leave(r, p)
  PROVE  run' \in [Runs -> Run]
<1> DEFINE f == IF p = "loop" THEN run[r].fresh ELSE {}
<1>1. run[r] \in Run /\ f \in SUBSET {"stop", "error"}
  BY DEF TypeOK, Run
<1>2. run' = [run EXCEPT ![r] = [run[r] EXCEPT !.phase = p, !.saw = None, !.fresh = f]]
  BY DEF Leave, TypeOK
<1> HIDE DEF f
<1>3. [run[r] EXCEPT !.phase = p, !.saw = None, !.fresh = f] \in Run
  BY <1>1, RunChanges
<1> QED
  BY <1>2, <1>3 DEF TypeOK

\* The evidence of the poll has its type.
LEMMA PolledTypes ==
  ASSUME TypeOK, NEW r \in Runs, NEW v \in Verdicts, notePolling(r, v)
  PROVE  gate' \in [Runs -> [event : Verdicts \cup {None}, polling : Verdicts \cup {None}]]
  BY DEF TypeOK, notePolling

\* What the end of an execution leaves has its type.
EndsTypes ==
  /\ engine' \in [Sessions -> Engine]
  /\ gate' \in [Runs -> [event : Verdicts \cup {None}, polling : Verdicts \cup {None}]]
  /\ scope' \in [Runs -> [promptEnqueued : BOOLEAN, runStarted : BOOLEAN]]
  /\ heard' \in [Runs -> Verdicts \cup {None}]
  /\ deaf' \in SUBSET Runs

\* It does, whoever ends it.
LEMMA EndsAsTypes ==
  ASSUME TypeOK, NEW s \in Sessions, NEW v \in Verdicts, EndsAs(s, v)
  PROVE  EndsTypes
<1>1. engine[s].starters \in SUBSET Runs
  BY DEF TypeOK, Engine
<1>2. Ended(v, engine[s].starters) \in Frame
  BY <1>1 DEF Ended, Frame
<1>3. engine' \in [Sessions -> Engine]
  <2>1. engine[s] \in Engine
    BY DEF TypeOK
  <2>2. [engine[s] EXCEPT !.active = "idle", !.starters = {}, !.covers = {}] \in Engine
    BY <2>1 DEF Engine
  <2>3. engine' = [engine EXCEPT ![s] = [engine[s] EXCEPT !.active = "idle", !.starters = {},
                                                         !.covers = {}]]
    BY DEF EndsAs, TypeOK
  <2> QED
    BY <2>2, <2>3 DEF TypeOK
<1> QED
  BY <1>2, <1>3, EmitTypes DEF EndsAs, EndsTypes

\* The end of a move is for no gate that knows its session for its own.
LEMMA MoveEndsStep == ASSUME IInv, NEW s \in Sessions, MoveEnds(s) PROVE IInv'
<1> USE Names DEF IInv
<1>1. TypeOK'
  <2>1. Ended("succeeded", {}) \in Frame
    BY DEF Ended, Frame, Verdicts
  <2>2. engine' \in [Sessions -> Engine]
    <3>1. engine[s] \in Engine
      BY DEF TypeOK
    <3>2. [engine[s] EXCEPT !.active = "idle"] \in Engine
      BY <3>1 DEF Engine
    <3>3. engine' = [engine EXCEPT ![s] = [engine[s] EXCEPT !.active = "idle"]]
      BY DEF MoveEnds, TypeOK
    <3> QED
      BY <3>2, <3>3 DEF TypeOK
  <2> QED
    BY <2>1, <2>2, EmitTypes DEF MoveEnds, TypeOK
<1>2. /\ \A z \in Sessions : z # s => engine'[z] = engine[z]
      /\ engine[s].active = "move" /\ engine'[s].active = "idle"
      /\ engine'[s].starters = engine[s].starters /\ engine'[s].covers = engine[s].covers
      /\ engine'[s].waiting = engine[s].waiting /\ engine'[s].moved = engine[s].moved
      /\ engine'[s].moves = engine[s].moves
      /\ engine'[s].lost = engine[s].lost
  BY DEF MoveEnds, TypeOK, Engine
<1>3. UNCHANGED <<run, mixed, answered>>
  BY DEF MoveEnds
<1>4. "succeeded" \in Verdicts /\ Emit(s, Ended("succeeded", {}))
  BY DEF MoveEnds, Verdicts
<1>5. \A q \in Runs :
        /\ gate'[q].polling = gate[q].polling
        /\ gate'[q].event =
             IF /\ Hears(q, s) /\ gate[q].event = None
                /\ scope[q].promptEnqueued /\ scope[q].runStarted
             THEN "succeeded" ELSE gate[q].event
        /\ scope'[q].promptEnqueued = scope[q].promptEnqueued
        /\ scope'[q].runStarted <=> scope[q].runStarted /\ ~Hears(q, s)
        /\ q \in deaf' <=> q \in deaf \/ Misses(q, s)
        /\ heard'[q] = IF q \in deaf' THEN None ELSE heard[q]
  BY <1>4, EndedAt
<1>6. ASSUME NEW q \in Sessions PROVE EngineBook(q)'
  BY <1>2 DEF EngineBook
<1>7. ASSUME NEW q \in Runs
      PROVE  RunBook(q)' /\ OwnBook(q)' /\ AnsweredBook(q)' /\ HeardBook(q)'
  <2>1. q \in Sessions /\ run[q].session \in Sessions
    BY DEF TypeOK, Run, Sessions
  <2>2. RunBook(q) /\ OwnBook(q) /\ AnsweredBook(q) /\ HeardBook(q) /\ EngineBook(s)
    OBVIOUS
  <2>3. RunBook(q)'
    <3>1. engine[q] = NewSession => s # q
      BY <1>2 DEF NewSession
    <3> QED
      BY <1>2, <1>3, <1>5, <2>1, <2>2, <3>1 DEF RunBook, Of, Ahead, Hears, Misses, Awaiting
  <2>4. OwnBook(q)'
    BY <1>2, <1>3, <1>5, <2>1, <2>2 DEF OwnBook, Of, Ahead, Hears
  <2>5. AnsweredBook(q)'
    BY <1>2, <1>3, <1>5, <2>1, <2>2 DEF AnsweredBook, OwnBook, Of, Hears
  <2>6. HeardBook(q)'
    BY <1>2, <1>3, <1>5, <2>1, <2>2 DEF HeardBook, EngineBook, Of, Hears
  <2> QED
    BY <2>3, <2>4, <2>5, <2>6
<1> QED
  BY <1>1, <1>6, <1>7

\* A move that had to wait: whoever could take it for its own prompt's
\* execution is mixed.
LEMMA MoveBeginsStep == ASSUME IInv, NEW s \in Sessions, MoveBegins(s) PROVE IInv'
<1> USE Names DEF IInv
<1>1. TypeOK'
  <2>1. Started \in Frame
    BY DEF Started, Frame
  <2>2. engine' \in [Sessions -> Engine]
    <3> DEFINE m == engine[s].moves - 1
    <3>1. engine[s] \in Engine
      BY DEF TypeOK
    <3>2. m \in Nat
      BY <3>1 DEF Engine, MoveBegins
    <3>3. engine' = [engine EXCEPT ![s] = [engine[s] EXCEPT !.active = "move", !.moves = m]]
      BY DEF MoveBegins, TypeOK
    <3> HIDE DEF m
    <3>4. [engine[s] EXCEPT !.active = "move", !.moves = m] \in Engine
      BY <3>1, <3>2 DEF Engine
    <3> QED
      BY <3>3, <3>4 DEF TypeOK
  <2> QED
    BY <2>1, <2>2, EmitTypes DEF MoveBegins, TypeOK
<1>2. /\ \A z \in Sessions : z # s => engine'[z] = engine[z]
      /\ engine[s].active = "idle" /\ engine[s].moves # 0
      /\ engine'[s].active = "move" /\ engine'[s].waiting = engine[s].waiting
      /\ engine'[s].starters = engine[s].starters /\ engine'[s].covers = engine[s].covers
      /\ engine'[s].moved = engine[s].moved /\ engine'[s].lost = engine[s].lost
  BY DEF MoveBegins, TypeOK, Engine
<1>3. UNCHANGED <<run, mixed, answered>>
  BY DEF MoveBegins
<1>4. \A q \in Runs :
        /\ gate'[q] = gate[q]
        /\ scope'[q].promptEnqueued = scope[q].promptEnqueued
        /\ scope'[q].runStarted <=>
             scope[q].runStarted \/ (Hears(q, s) /\ scope[q].promptEnqueued)
        /\ q \in deaf' <=> q \in deaf \/ Misses(q, s)
        /\ heard'[q] = IF q \in deaf' THEN None ELSE heard[q]
  BY StartedAt DEF MoveBegins
<1>5. ~engine[s].lost
  BY <1>2 DEF EngineBook
<1>6. ASSUME NEW q \in Sessions PROVE EngineBook(q)'
  BY <1>2, <1>5 DEF EngineBook
<1>7. ASSUME NEW q \in Runs
      PROVE  RunBook(q)' /\ OwnBook(q)' /\ AnsweredBook(q)' /\ HeardBook(q)'
  <2>1. q \in Sessions /\ run[q].session \in Sessions
    BY DEF TypeOK, Run, Sessions
  <2>2. RunBook(q) /\ OwnBook(q) /\ AnsweredBook(q) /\ HeardBook(q) /\ EngineBook(s)
    OBVIOUS
  <2>3. RunBook(q)'
    <3>1. engine[q] = NewSession => s # q
      BY <1>2 DEF NewSession
    <3> QED
      BY <1>2, <1>3, <1>4, <2>1, <2>2, <3>1 DEF RunBook, Of, Ahead, Hears, Misses, Awaiting
  <2>4. OwnBook(q)'
    <3>1. CASE run[q].session = s
      <4>1. q \notin mixed =>
              /\ run[q].phase \in {"new", "base", "done"} /\ ~scope[q].promptEnqueued
              /\ ~scope[q].runStarted
        BY <1>2, <1>5, <2>2, <3>1 DEF OwnBook, RunBook, Of, Ahead
      <4>2. /\ run'[q] = run[q] /\ mixed' = mixed /\ gate'[q] = gate[q]
            /\ scope'[q].promptEnqueued = scope[q].promptEnqueued
            /\ scope'[q].runStarted => scope[q].runStarted \/ scope[q].promptEnqueued
            /\ OwnBook(q)
        BY <1>3, <1>4, <2>2
      <4> QED
        BY ONLY <1>2, <3>1, <4>1, <4>2 DEF OwnBook, Of
    <3>2. CASE run[q].session # s
      BY <1>2, <1>3, <1>4, <2>1, <2>2, <3>2 DEF OwnBook, Of, Hears
    <3> QED
      BY <3>1, <3>2
  <2>5. AnsweredBook(q)'
    BY <1>3, <1>4, <2>2 DEF AnsweredBook
  <2>6. HeardBook(q)'
    <3>1. /\ run'[q] = run[q] /\ mixed' = mixed /\ HeardBook(q)
          /\ q \in deaf' <=> q \in deaf \/ Misses(q, s)
          /\ gate'[q] = gate[q] /\ heard'[q] \in {None, heard[q]}
          /\ scope'[q].promptEnqueued = scope[q].promptEnqueued
          /\ scope[q].runStarted => scope'[q].runStarted
      BY <1>3, <1>4, <2>2
    <3> QED
      BY ONLY <1>2, <2>1, <3>1 DEF HeardBook, Of
  <2> QED
    BY <2>3, <2>4, <2>5, <2>6
<1> QED
  BY <1>1, <1>6, <1>7

\* The start of a prompt's execution.
LEMMA StartStep == ASSUME IInv, NEW s \in Sessions, Start(s) PROVE IInv'
<1> USE Names DEF IInv
<1>1. TypeOK'
  <2>1. Started \in Frame
    BY DEF Started, Frame
  <2>2. engine' \in [Sessions -> Engine]
    BY DEF Start, TypeOK, Engine
  <2> QED
    BY <2>1, <2>2, EmitTypes DEF Start, TypeOK
<1>2. /\ \A z \in Sessions : z # s => engine'[z] = engine[z]
      /\ engine[s].active = "idle" /\ engine[s].waiting # {}
      /\ engine'[s].active = "prompt" /\ engine'[s].waiting = {}
      /\ engine'[s].starters = engine[s].waiting /\ engine'[s].covers = engine[s].waiting
      /\ engine'[s].moved = engine[s].moved /\ engine'[s].lost = engine[s].lost
      /\ engine'[s].moves = engine[s].moves
  BY DEF Start, TypeOK, Engine
<1>3. UNCHANGED <<run, mixed, answered>>
  BY DEF Start
<1>4. \A q \in Runs :
        /\ gate'[q] = gate[q]
        /\ scope'[q].promptEnqueued = scope[q].promptEnqueued
        /\ scope'[q].runStarted <=>
             scope[q].runStarted \/ (Hears(q, s) /\ scope[q].promptEnqueued)
        /\ q \in deaf' <=> q \in deaf \/ Misses(q, s)
        /\ heard'[q] = IF q \in deaf' THEN None ELSE heard[q]
  BY StartedAt DEF Start
<1>5. ASSUME NEW q \in Sessions PROVE EngineBook(q)'
  BY <1>2 DEF EngineBook
<1>6. ASSUME NEW q \in Runs
      PROVE  RunBook(q)' /\ OwnBook(q)' /\ AnsweredBook(q)' /\ HeardBook(q)'
  <2>1. q \in Sessions /\ run[q].session \in Sessions
    BY DEF TypeOK, Run, Sessions
  <2>2. RunBook(q) /\ OwnBook(q) /\ AnsweredBook(q) /\ HeardBook(q) /\ EngineBook(s)
    OBVIOUS
  <2>3. RunBook(q)'
    <3>1. engine[q] = NewSession => s # q
      BY <1>2 DEF NewSession
    <3> QED
      BY <1>2, <1>3, <1>4, <2>1, <2>2, <3>1 DEF RunBook, Of, Ahead, Hears, Misses, Awaiting
  <2>4. OwnBook(q)'
    BY <1>2, <1>3, <1>4, <2>1, <2>2 DEF OwnBook, Of, Ahead, Hears
  <2>5. AnsweredBook(q)'
    BY <1>2, <1>3, <1>4, <2>1, <2>2 DEF AnsweredBook
  <2>6. HeardBook(q)'
    <3>1. CASE run[q].session # s
      BY <1>2, <1>3, <1>4, <2>1, <2>2, <3>1 DEF HeardBook, Of, Hears, Misses
    <3>2. CASE run[q].session = s
      <4>1. run[q].phase \in Awaiting \cup {"new", "create", "done"}
        BY DEF TypeOK, Run
      <4>2. q \in engine[s].waiting => run[q].phase \notin {"new", "create"}
        BY <1>2, <2>2, <3>2 DEF RunBook, EngineBook, Of, Ahead
      <4>3. /\ run'[q] = run[q] /\ run[q].session = s /\ mixed' = mixed /\ HeardBook(q)
            /\ q \in deaf' <=> q \in deaf \/ Misses(q, s)
            /\ gate'[q] = gate[q] /\ heard'[q] \in {None, heard[q]}
            /\ scope'[q].runStarted <=>
                 scope[q].runStarted \/ (Hears(q, s) /\ scope[q].promptEnqueued)
        BY <1>3, <1>4, <2>2, <3>2
      <4> QED
        BY ONLY <1>2, <4>1, <4>2, <4>3 DEF HeardBook, Of, Hears, Misses
    <3> QED
      BY <3>1, <3>2
  <2> QED
    BY <2>3, <2>4, <2>5, <2>6
<1> QED
  BY <1>1, <1>5, <1>6

\* A prompt joins the execution that runs: its run is deaf from then on, or was
\* mixed before.
LEMMA ConsumeStep ==
  ASSUME IInv, NEW s \in Sessions, Consume(s)
  PROVE  IInv'
<1> USE Names DEF IInv
<1>1. TypeOK'
  <2>1. engine[s] \in Engine
    BY DEF TypeOK
  <2>2. [engine[s] EXCEPT !.waiting = {}, !.covers = @ \cup engine[s].waiting] \in Engine
    BY <2>1 DEF Engine
  <2>3. engine' = [engine EXCEPT ![s] = [engine[s] EXCEPT !.waiting = {},
                                                 !.covers = @ \cup engine[s].waiting]]
    BY DEF Consume, TypeOK
  <2>4. deaf' \in SUBSET Runs
    BY DEF Consume, Listening, TypeOK
  <2>5. engine' \in [Sessions -> Engine]
    BY <2>2, <2>3 DEF TypeOK
  <2>6. UNCHANGED <<run, gate, scope, link, report, upsets, answered, heard, mixed>> /\ TypeOK
    BY DEF Consume
  <2> QED
    BY ONLY <2>4, <2>5, <2>6 DEF TypeOK
<1>2. ASSUME NEW q \in Sessions PROVE EngineBook(q)'
  BY DEF Consume, EngineBook, TypeOK
<1>3. ASSUME NEW q \in Runs PROVE RunBook(q)'
  <2>1. /\ UNCHANGED <<run, gate, scope, heard, mixed>>
        /\ deaf' = deaf \cup (engine[s].waiting \cap Listening(s))
        /\ \A z \in Sessions : z # s => engine'[z] = engine[z]
        /\ engine'[s].lost = engine[s].lost /\ engine'[s].waiting = {}
        /\ engine'[s].moved = engine[s].moved /\ engine'[s].moves = engine[s].moves
        /\ engine'[s].covers = engine[s].covers \cup engine[s].waiting
    BY DEF Consume, TypeOK, Engine
  <2>2. run[q].session \in Sessions /\ q \in Sessions /\ RunBook(q)
    BY DEF TypeOK, Run, Sessions
  <2>3. engine[s].active = "prompt" /\ engine[s].waiting # {}
    BY DEF Consume
  <2>4. engine[q] = NewSession => s # q
    BY <2>3 DEF NewSession
  <2>5. run[q].phase \in {"new", "done"} => q \notin Listening(s)
    BY DEF Listening, Awaiting
  <2> QED
    BY <2>1, <2>2, <2>4, <2>5 DEF RunBook, Of
<1>4. ASSUME NEW q \in Runs PROVE OwnBook(q)'
  BY DEF Consume, OwnBook, TypeOK, Run, Of
<1>5. ASSUME NEW q \in Runs PROVE AnsweredBook(q)'
  BY DEF Consume, AnsweredBook
<1>6. ASSUME NEW q \in Runs PROVE HeardBook(q)'
  BY DEF Consume, HeardBook, TypeOK, Run, Of
<1> QED
  BY <1>1, <1>2, <1>3, <1>4, <1>5, <1>6

\* A message that ends with a stop belongs to the prompts consumed so far.
LEMMA SaysStep ==
  ASSUME IInv, NEW s \in Sessions, NEW kind \in {"stop", "error"}, Says(s, kind)
  PROVE  IInv'
<1> USE Names DEF IInv
<1>1. TypeOK'
  <2>1. ASSUME NEW q \in Runs PROVE [run[q] EXCEPT !.fresh = @ \cup {kind}] \in Run
    <3>1. run[q] \in Run /\ run[q].fresh \cup {kind} \in SUBSET {"stop", "error"}
      BY DEF TypeOK, Run
    <3> QED
      BY <3>1, FreshChanges
  <2>a. PICK new \in SUBSET Runs :
          run' = [q \in Runs |-> IF q \in new THEN [run[q] EXCEPT !.fresh = @ \cup {kind}]
                                               ELSE run[q]]
    BY DEF Says, Listening
  <2>2. run' \in [Runs -> Run]
    BY <2>1, <2>a DEF TypeOK
  <2>3. answered' \in SUBSET Runs
    BY DEF Says, Listening, TypeOK
  <2> QED
    BY <2>2, <2>3 DEF Says, TypeOK, told
<1>2. ASSUME NEW q \in Sessions PROVE EngineBook(q)'
  BY DEF Says, EngineBook
<1>3. ASSUME NEW q \in Runs PROVE RunBook(q)'
  BY DEF Says, told, RunBook, Of
<1>4. ASSUME NEW q \in Runs PROVE OwnBook(q)'
  BY DEF Says, told, OwnBook, Of
<1>5. ASSUME NEW q \in Runs PROVE AnsweredBook(q)'
  <2> DEFINE past == {x \in Listening(s) :
                        run[x].phase \in {"send", "move", "prompt", "loop", "fetch"}}
  <2>1. /\ run'[q].phase = run[q].phase /\ run'[q].saw = run[q].saw
        /\ \/ run'[q].fresh = run[q].fresh
           \/ q \in past /\ run'[q].fresh = run[q].fresh \cup {kind}
    BY DEF Says, TypeOK, Run
  <2>2. /\ gate' = gate /\ mixed' = mixed
        /\ answered' = IF kind = "stop" THEN answered \cup ((engine[s].covers \cap past) \ mixed)
                                        ELSE answered
    BY DEF Says, told
  <2>3. q \in past /\ q \notin mixed => q \in engine[s].covers
    BY DEF Says, OwnBook, Of, Listening
  <2>4. AnsweredBook(q)
    OBVIOUS
  <2> HIDE DEF past
  <2> QED
    BY ONLY <2>1, <2>2, <2>3, <2>4 DEF AnsweredBook
<1>6. ASSUME NEW q \in Runs PROVE HeardBook(q)'
  BY DEF Says, told, HeardBook, Of
<1> QED
  BY <1>1, <1>2, <1>3, <1>4, <1>5, <1>6

\* A success, for the prompts it has consumed.
LEMMA SucceedsStep == ASSUME IInv, NEW s \in Sessions, Succeeds(s) PROVE IInv'
<1> USE Names DEF IInv
<1>1. "succeeded" \in Verdicts /\ EndsAs(s, "succeeded") /\ engine[s].active = "prompt"
  BY DEF Succeeds, Verdicts
<1>2. TypeOK'
  <2>1. EndsTypes
    BY <1>1, EndsAsTypes
  <2> QED
    BY <2>1 DEF EndsTypes, Succeeds, Listening, TypeOK
<1>3. /\ \A q \in Sessions : EngineBook(q)'
      /\ \A q \in Runs : RunBook(q)' /\ OwnBook(q)' /\ AnsweredBook(q)' /\ HeardBook(q)'
  <2>1. /\ UNCHANGED <<run, mixed>> /\ answered \subseteq answered'
        /\ "succeeded" = "succeeded" =>
             engine[s].waiting = {}
             /\ (engine[s].covers \cap Listening(s)) \ mixed \subseteq answered'
    BY DEF Succeeds
  <2>2. \A q \in Runs :
          /\ run'[q].session = run[q].session /\ run'[q].fresh = run[q].fresh
          /\ run'[q].saw = run[q].saw /\ run'[q].phase = run[q].phase
    BY <2>1
  <2> QED
    BY <1>1, <2>1, <2>2, PromptEnds
<1> QED
  BY <1>2, <1>3

\* A failure.
LEMMA FailsStep == ASSUME IInv, NEW s \in Sessions, Fails(s) PROVE IInv'
<1> USE Names DEF IInv
<1>1. "failed" \in Verdicts /\ EndsAs(s, "failed") /\ engine[s].active = "prompt"
  BY DEF Fails, Verdicts
<1>2. TypeOK'
  <2>1. EndsTypes
    BY <1>1, EndsAsTypes
  <2> QED
    BY <2>1 DEF EndsTypes, Fails, TypeOK
<1>3. /\ \A q \in Sessions : EngineBook(q)'
      /\ \A q \in Runs : RunBook(q)' /\ OwnBook(q)' /\ AnsweredBook(q)' /\ HeardBook(q)'
  <2>1. /\ UNCHANGED <<run, mixed>> /\ answered \subseteq answered'
        /\ "failed" = "succeeded" =>
             engine[s].waiting = {}
             /\ (engine[s].covers \cap Listening(s)) \ mixed \subseteq answered'
    BY DEF Fails
  <2>2. \A q \in Runs :
          /\ run'[q].session = run[q].session /\ run'[q].fresh = run[q].fresh
          /\ run'[q].saw = run[q].saw /\ run'[q].phase = run[q].phase
    BY <2>1
  <2> QED
    BY <1>1, <2>1, <2>2, PromptEnds
<1> QED
  BY <1>2, <1>3

\* A stop by a user.
LEMMA UserStopsStep == ASSUME IInv, NEW s \in Sessions, UserStops(s) PROVE IInv'
<1> USE Names DEF IInv
<1>1. "interrupted" \in Verdicts /\ EndsAs(s, "interrupted") /\ engine[s].active = "prompt"
  BY DEF UserStops, Verdicts
<1>2. TypeOK'
  <2>1. EndsTypes
    BY <1>1, EndsAsTypes
  <2> QED
    BY <2>1 DEF EndsTypes, UserStops, Upset, TypeOK
<1>3. /\ \A q \in Sessions : EngineBook(q)'
      /\ \A q \in Runs : RunBook(q)' /\ OwnBook(q)' /\ AnsweredBook(q)' /\ HeardBook(q)'
  <2>1. /\ UNCHANGED <<run, mixed>> /\ answered \subseteq answered'
        /\ "interrupted" = "succeeded" =>
             engine[s].waiting = {}
             /\ (engine[s].covers \cap Listening(s)) \ mixed \subseteq answered'
    BY DEF UserStops
  <2>2. \A q \in Runs :
          /\ run'[q].session = run[q].session /\ run'[q].fresh = run[q].fresh
          /\ run'[q].saw = run[q].saw /\ run'[q].phase = run[q].phase
    BY <2>1
  <2> QED
    BY <1>1, <2>1, <2>2, PromptEnds
<1> QED
  BY <1>2, <1>3

\* A lost shared session: no run of it is told.
LEMMA ForgetsStep ==
  ASSUME IInv, Forgets(Shared)
  PROVE  IInv'
<1> USE Names DEF IInv
<1>1. TypeOK'
  <2>1. [NewSession EXCEPT !.lost = TRUE] \in Engine
    BY DEF NewSession, Engine
  <2>2. engine' \in [Sessions -> Engine]
    BY <2>1 DEF Forgets, TypeOK
  <2>3. upsets' \in Nat
    BY DEF Forgets, Upset, TypeOK
  <2> QED
    BY <2>2, <2>3 DEF Forgets, TypeOK, told
<1>2. ASSUME NEW q \in Sessions PROVE EngineBook(q)'
  BY DEF Forgets, EngineBook, NewSession
<1>3. ASSUME NEW q \in Runs PROVE RunBook(q)'
  BY DEF Forgets, told, RunBook, Of, NewSession
<1>4. ASSUME NEW q \in Runs PROVE OwnBook(q)'
  BY DEF Forgets, told, OwnBook, Sessions, Of, Ahead, NewSession
<1>5. ASSUME NEW q \in Runs PROVE AnsweredBook(q)'
  BY DEF Forgets, told, AnsweredBook
<1>6. ASSUME NEW q \in Runs PROVE HeardBook(q)'
  BY DEF Forgets, told, HeardBook, Of, NewSession
<1> QED
  BY <1>1, <1>2, <1>3, <1>4, <1>5, <1>6

\* A connection changes no book.
LEMMA ConnectStep ==
  ASSUME IInv, NEW r \in Runs, Connect(r)
  PROVE  IInv'
<1> USE Names DEF IInv
<1>1. TypeOK'
  BY DEF Connect, told, TypeOK
<1>2. ASSUME NEW q \in Sessions PROVE EngineBook(q)'
  BY DEF Connect, EngineBook
<1>3. ASSUME NEW q \in Runs PROVE RunBook(q)'
  BY DEF Connect, told, RunBook, Of
<1>4. ASSUME NEW q \in Runs PROVE OwnBook(q)'
  BY DEF Connect, told, OwnBook, Of
<1>5. ASSUME NEW q \in Runs PROVE AnsweredBook(q)'
  BY DEF Connect, told, AnsweredBook
<1>6. ASSUME NEW q \in Runs PROVE HeardBook(q)'
  BY DEF Connect, told, HeardBook, Of
<1> QED
  BY <1>1, <1>2, <1>3, <1>4, <1>5, <1>6

\* Nor does a lost one.
LEMMA DisconnectStep ==
  ASSUME IInv, NEW r \in Runs, Disconnect(r)
  PROVE  IInv'
<1> USE Names DEF IInv
<1>1. TypeOK'
  BY DEF Disconnect, Upset, told, TypeOK
<1>2. ASSUME NEW q \in Sessions PROVE EngineBook(q)'
  BY DEF Disconnect, EngineBook
<1>3. ASSUME NEW q \in Runs PROVE RunBook(q)'
  BY DEF Disconnect, told, RunBook, Of
<1>4. ASSUME NEW q \in Runs PROVE OwnBook(q)'
  BY DEF Disconnect, told, OwnBook, Of
<1>5. ASSUME NEW q \in Runs PROVE AnsweredBook(q)'
  BY DEF Disconnect, told, AnsweredBook
<1>6. ASSUME NEW q \in Runs PROVE HeardBook(q)'
  BY DEF Disconnect, told, HeardBook, Of
<1> QED
  BY <1>1, <1>2, <1>3, <1>4, <1>5, <1>6

\* A request begins.
LEMMA AcceptStep ==
  ASSUME IInv, NEW r \in Runs, Accept(r)
  PROVE  IInv'
<1> USE Names DEF IInv
<1>1. TypeOK'
  <2>1. run' \in [Runs -> Run]
    BY GotoTypes DEF Accept, Phases, Awaiting
  <2> QED
    BY <2>1 DEF Accept, Open, told, TypeOK
<1>2. ASSUME NEW q \in Sessions PROVE EngineBook(q)'
  BY DEF Accept, EngineBook
<1>3. ASSUME NEW q \in Runs PROVE RunBook(q)'
  BY DEF Accept, At, Goto, told, RunBook, Of, Ahead
<1>4. ASSUME NEW q \in Runs PROVE OwnBook(q)'
  BY DEF Accept, At, Goto, told, OwnBook, TypeOK, Run, Of, Ahead
<1>5. ASSUME NEW q \in Runs PROVE AnsweredBook(q)'
  BY DEF Accept, Goto, told, AnsweredBook
<1>6. ASSUME NEW q \in Runs PROVE HeardBook(q)'
  BY DEF Accept, At, Goto, told, HeardBook, Of
<1> QED
  BY <1>1, <1>2, <1>3, <1>4, <1>5, <1>6

\* A session of its own: everything begins anew.
LEMMA CreateStep ==
  ASSUME IInv, NEW r \in Runs, Create(r)
  PROVE  IInv'
<1> USE Names DEF IInv
<1>1. TypeOK'
  BY DEF Create, Open, TypeOK, Run, Sessions, Awaiting, Idle, NewGate, NewScope
<1>2. ASSUME NEW q \in Sessions PROVE EngineBook(q)'
  BY DEF Create, EngineBook
<1>3. ASSUME NEW q \in Runs PROVE RunBook(q)'
  BY DEF Create, At, RunBook, Of, NewSession, NewScope
<1>4. ASSUME NEW q \in Runs PROVE OwnBook(q)'
  BY DEF Create, OwnBook, TypeOK, Sessions, Of, Ahead, NewGate, NewScope
<1>5. ASSUME NEW q \in Runs PROVE AnsweredBook(q)'
  BY DEF Create, AnsweredBook, TypeOK, Idle, NewGate, Verdicts
<1>6. ASSUME NEW q \in Runs PROVE HeardBook(q)'
  BY DEF Create, At, HeardBook, RunBook, TypeOK, Of, NewSession
<1> QED
  BY <1>1, <1>2, <1>3, <1>4, <1>5, <1>6

\* A run with a baseline finds its session free, or is mixed.
LEMMA TakeBaselineStep ==
  ASSUME IInv, NEW r \in Runs, TakeBaseline(r)
  PROVE  IInv'
<1> USE Names DEF IInv
<1>1. TypeOK'
  <2>1. run' \in [Runs -> Run]
    BY GotoTypes DEF TakeBaseline, Phases, Awaiting
  <2> QED
    BY <2>1 DEF TakeBaseline, told, TypeOK
<1>2. ASSUME NEW q \in Sessions PROVE EngineBook(q)'
  BY DEF TakeBaseline, EngineBook
<1>3. ASSUME NEW q \in Runs PROVE RunBook(q)'
  BY DEF TakeBaseline, At, Goto, told, RunBook, Of, Ahead
<1>4. ASSUME NEW q \in Runs PROVE OwnBook(q)'
  <2>1. /\ run'[q].session = run[q].session /\ OwnBook(q)
        /\ \/ run'[q].phase = run[q].phase
           \/ q = r /\ run[q].phase = "base" /\ run'[q].phase = "send"
    BY DEF TakeBaseline, At, Goto, TypeOK, Run
  <2>2. mixed \subseteq mixed' /\ UNCHANGED <<engine, gate, scope>>
    BY DEF TakeBaseline, told
  <2>3. engine[run[r].session].moves \in Nat
    BY DEF TypeOK, Run, Engine
  <2>4. q = r /\ q \notin mixed' =>
          Of(q).active # "prompt" /\ Of(q).waiting = {} /\ Of(q).moves = 0
    BY <2>3 DEF TakeBaseline, Of
  <2> QED
    BY ONLY <2>1, <2>2, <2>4 DEF OwnBook, Of, Ahead
<1>5. ASSUME NEW q \in Runs PROVE AnsweredBook(q)'
  BY DEF TakeBaseline, Goto, told, AnsweredBook
<1>6. ASSUME NEW q \in Runs PROVE HeardBook(q)'
  BY DEF TakeBaseline, Goto, told, HeardBook, RunBook, EngineBook, Sessions, Of
<1> QED
  BY <1>1, <1>2, <1>3, <1>4, <1>5, <1>6

\* Without a baseline a run is mixed.
LEMMA BaselineFailsStep ==
  ASSUME IInv, NEW r \in Runs, BaselineFails(r)
  PROVE  IInv'
<1> USE Names DEF IInv
<1>1. TypeOK'
  <2>1. PICK old \in SUBSET {"stop", "error"} :
          run' = [run EXCEPT ![r].phase = "send", ![r].fresh = old]
    BY DEF BaselineFails
  <2>2. run[r] \in Run /\ "send" \in Phases
    BY DEF TypeOK, Phases, Awaiting
  <2>3. [run[r] EXCEPT !.phase = "send", !.fresh = old] \in Run
    BY <2>2, RunChanges
  <2>4. run' = [run EXCEPT ![r] = [run[r] EXCEPT !.phase = "send", !.fresh = old]]
    BY <2>1 DEF TypeOK
  <2>5. run' \in [Runs -> Run]
    BY <2>3, <2>4 DEF TypeOK
  <2> QED
    BY <2>5 DEF BaselineFails, Upset, TypeOK, told
<1>2. ASSUME NEW q \in Sessions PROVE EngineBook(q)'
  BY DEF BaselineFails, EngineBook
<1>3. ASSUME NEW q \in Runs PROVE RunBook(q)'
  BY DEF BaselineFails, At, told, RunBook, TypeOK, Of, Ahead
<1>4. ASSUME NEW q \in Runs PROVE OwnBook(q)'
  BY DEF BaselineFails, told, OwnBook, TypeOK, Run, Of
<1>5. ASSUME NEW q \in Runs PROVE AnsweredBook(q)'
  BY DEF BaselineFails, told, AnsweredBook, TypeOK
<1>6. ASSUME NEW q \in Runs PROVE HeardBook(q)'
  BY DEF BaselineFails, told, HeardBook, TypeOK, Of
<1> QED
  BY <1>1, <1>2, <1>3, <1>4, <1>5, <1>6

\* The worker knows the directory of a session: nothing executes for that.
LEMMA KnownStep ==
  ASSUME IInv, NEW r \in Runs, run[r].phase \in {"send", "move"}, Goto(r, "prompt"),
         engine' = [engine EXCEPT ![run[r].session].moved = TRUE], ~Of(r).lost,
         UNCHANGED <<link, told, report, upsets, answered, mixed>>
  PROVE  IInv'
<1> USE Names DEF IInv
<1> DEFINE s == run[r].session
<1>1. s \in Sessions
  BY DEF TypeOK, Run
<1>2. run' \in [Runs -> Run]
  BY GotoTypes DEF Phases, Awaiting
<1>3. /\ \A q \in Runs :
           /\ run'[q].session = run[q].session /\ run'[q].fresh = run[q].fresh
           /\ run'[q].saw = run[q].saw /\ (q # r => run'[q].phase = run[q].phase)
      /\ run'[r].phase = "prompt" /\ run[r].phase \in {"send", "move"}
  BY DEF Goto, TypeOK, Run
<1>4. UNCHANGED <<link, gate, scope, heard, deaf, report, upsets, answered, mixed>>
  BY DEF told
<1>5. /\ \A z \in Sessions : z # s => engine'[z] = engine[z]
      /\ engine'[s].active = engine[s].active /\ engine'[s].moved
      /\ engine'[s].starters = engine[s].starters /\ engine'[s].covers = engine[s].covers
      /\ engine'[s].waiting = engine[s].waiting /\ engine'[s].lost = engine[s].lost
      /\ engine'[s].moves = engine[s].moves /\ ~engine[s].lost
  BY <1>1 DEF TypeOK, Engine, Of
<1>6. TypeOK'
  <2>1. engine[s] \in Engine
    BY <1>1 DEF TypeOK
  <2>2. [engine[s] EXCEPT !.moved = TRUE] \in Engine
    BY <2>1 DEF Engine
  <2>3. engine' = [engine EXCEPT ![s] = [engine[s] EXCEPT !.moved = TRUE]]
    BY <1>1 DEF TypeOK
  <2>4. engine' \in [Sessions -> Engine]
    BY <1>1, <2>2, <2>3 DEF TypeOK
  <2> QED
    BY <1>2, <1>4, <2>4 DEF TypeOK
<1>7. s = run[r].session
  BY DEF s
<1> HIDE DEF s
<1>8. ASSUME NEW q \in Sessions PROVE EngineBook(q)'
  BY <1>1, <1>5 DEF EngineBook
<1>9. ASSUME NEW q \in Runs
      PROVE  RunBook(q)' /\ OwnBook(q)' /\ AnsweredBook(q)' /\ HeardBook(q)'
  <2>1. q \in Sessions /\ run[q].session \in Sessions
    BY DEF TypeOK, Run, Sessions
  <2>2. RunBook(q) /\ OwnBook(q) /\ AnsweredBook(q) /\ HeardBook(q) /\ RunBook(r)
    OBVIOUS
  <2>3. /\ run'[q].session = run[q].session /\ run'[q].fresh = run[q].fresh
        /\ run'[q].saw = run[q].saw
        /\ \/ run'[q].phase = run[q].phase
           \/ q = r /\ run[q].phase \in {"send", "move"} /\ run'[q].phase = "prompt"
    BY <1>3
  <2>4. RunBook(q)'
    <3>1. s # q \/ run[q].session # Shared
      BY <1>7, <2>2 DEF RunBook
    <3> QED
      BY ONLY <1>1, <1>4, <1>5, <1>7, <2>1, <2>2, <2>3, <3>1 DEF RunBook, Of, Ahead
  <2>5. OwnBook(q)'
    BY ONLY <1>1, <1>4, <1>5, <2>1, <2>2, <2>3 DEF OwnBook, Of, Ahead
  <2>6. AnsweredBook(q)'
    BY ONLY <1>4, <2>2, <2>3 DEF AnsweredBook
  <2>7. HeardBook(q)'
    BY ONLY <1>1, <1>4, <1>5, <2>1, <2>2, <2>3 DEF HeardBook, Of
  <2> QED
    BY <2>4, <2>5, <2>6, <2>7
<1> QED
  BY <1>6, <1>8, <1>9

\* Nothing to move, or the move has returned.
LEMMA StaysStep ==
  ASSUME IInv, NEW r \in Runs, StaysWhereItIs(r) \/ MoveReturns(r)
  PROVE  IInv'
  BY KnownStep DEF StaysWhereItIs, MoveReturns, At

\* The move of a session, which executes and is not a prompt's; one that has to
\* wait makes all mixed that are there.
LEMMA ApplyDirectoryStep == ASSUME IInv, NEW r \in Runs, ApplyDirectory(r) PROVE IInv'
<1> USE Names DEF IInv
<1> DEFINE s == run[r].session
<1>1. s \in Sessions
  BY DEF TypeOK, Run
<1>2. /\ run' \in [Runs -> Run] /\ UNCHANGED <<link, report, upsets, answered>>
      /\ run[r].phase = "send" /\ run'[r].phase = "move"
      /\ \A q \in Runs :
           /\ run'[q].session = run[q].session /\ run'[q].fresh = run[q].fresh
           /\ run'[q].saw = run[q].saw /\ (q # r => run'[q].phase = run[q].phase)
  <2>1. run' \in [Runs -> Run]
    BY GotoTypes DEF ApplyDirectory, Phases, Awaiting
  <2>2. /\ run[r].phase = "send" /\ Goto(r, "move")
        /\ UNCHANGED <<link, report, upsets, answered>>
    BY DEF ApplyDirectory, At
  <2>3. /\ \A q \in Runs :
             /\ run'[q].session = run[q].session /\ run'[q].fresh = run[q].fresh
             /\ run'[q].saw = run[q].saw /\ (q # r => run'[q].phase = run[q].phase)
        /\ run'[r].phase = "move"
    BY <2>2 DEF Goto, TypeOK, Run
  <2> QED
    BY <2>1, <2>2, <2>3
<1>0. ~engine[s].moved /\ ~engine[s].lost /\ engine[s].active \in {"idle", "move"}
      /\ engine[s].waiting = {} /\ engine[s].covers = {} /\ engine[s].starters = {}
  BY <1>1 DEF ApplyDirectory, Of, EngineBook, TypeOK, Engine
<1>3. CASE engine[s].active # "idle"
  <2>1. /\ engine' = [engine EXCEPT ![s].moves = @ + 1]
        /\ mixed' = mixed \cup Listening(s)
        /\ UNCHANGED <<gate, scope, heard, deaf>>
    BY <1>3 DEF ApplyDirectory, Of, told
  <2>2. /\ \A z \in Sessions : z # s => engine'[z] = engine[z]
        /\ engine'[s].active = engine[s].active /\ engine'[s].moved = engine[s].moved
        /\ engine'[s].starters = engine[s].starters /\ engine'[s].covers = engine[s].covers
        /\ engine'[s].waiting = engine[s].waiting /\ engine'[s].lost = engine[s].lost
    BY <1>1, <2>1 DEF TypeOK, Engine
  <2>3. TypeOK'
    <3>1. engine[s] \in Engine
      BY <1>1 DEF TypeOK
    <3>2. [engine[s] EXCEPT !.moves = @ + 1] \in Engine
      BY <3>1 DEF Engine
    <3>3. engine' = [engine EXCEPT ![s] = [engine[s] EXCEPT !.moves = @ + 1]]
      BY <1>1, <2>1 DEF TypeOK
    <3>4. engine' \in [Sessions -> Engine]
      BY <1>1, <3>2, <3>3 DEF TypeOK
    <3>5. mixed' \in SUBSET Runs
      BY <2>1 DEF TypeOK, Listening
    <3> QED
      BY <1>2, <2>1, <3>4, <3>5 DEF TypeOK
  <2>4. s = run[r].session
    BY DEF s
  <2> HIDE DEF s
  <2>5. ASSUME NEW q \in Sessions PROVE EngineBook(q)'
    BY <1>0, <1>1, <2>2 DEF EngineBook
  <2>6. ASSUME NEW q \in Runs
        PROVE  RunBook(q)' /\ OwnBook(q)' /\ AnsweredBook(q)' /\ HeardBook(q)'
    <3>1. q \in Sessions /\ run[q].session \in Sessions
      BY DEF TypeOK, Run, Sessions
    <3>2. RunBook(q) /\ OwnBook(q) /\ AnsweredBook(q) /\ HeardBook(q) /\ RunBook(r)
      OBVIOUS
    <3>3. /\ run'[q].session = run[q].session /\ run'[q].fresh = run[q].fresh
          /\ run'[q].saw = run[q].saw
          /\ \/ run'[q].phase = run[q].phase
             \/ q = r /\ run[q].phase = "send" /\ run'[q].phase = "move"
      BY <1>2
    <3>4. q \notin mixed' =>
            q \notin mixed
            /\ (run[q].session = s => run[q].phase \in {"new", "done"})
      <4>1. run[q].session = s => run[q].phase # "create"
        BY <1>0, <3>2 DEF RunBook, Of
      <4> QED
        BY <2>1, <3>1, <4>1 DEF Listening, TypeOK, Run
    <3>5. run[q].phase \in {"new", "done"} => q \notin Listening(s)
      BY DEF Listening, Awaiting
    <3>6. RunBook(q)'
      <4>1. s # q \/ run[q].session # Shared
        BY <2>4, <3>2 DEF RunBook
      <4> QED
        BY ONLY <1>1, <2>1, <2>2, <2>4, <3>1, <3>2, <3>3, <3>5, <4>1 DEF RunBook, Of, Ahead
    <3>7. OwnBook(q)'
      BY ONLY <1>0, <1>1, <2>1, <2>2, <3>1, <3>2, <3>3, <3>4 DEF OwnBook, Of, Ahead
    <3>8. AnsweredBook(q)'
      BY ONLY <1>2, <2>1, <3>2, <3>3, <3>4 DEF AnsweredBook
    <3>9. HeardBook(q)'
      BY ONLY <1>1, <2>1, <2>2, <3>1, <3>2, <3>3, <3>4 DEF HeardBook, Of
    <3> QED
      BY <3>6, <3>7, <3>8, <3>9
  <2> QED
    BY <2>3, <2>5, <2>6
<1>4. CASE engine[s].active = "idle"
  <2>1. engine' = [engine EXCEPT ![s].active = "move"] /\ Emit(s, Started)
        /\ mixed' = mixed
    BY <1>4 DEF ApplyDirectory, Of
  <2>2. /\ \A z \in Sessions : z # s => engine'[z] = engine[z]
        /\ engine'[s].active = "move" /\ engine'[s].moved = engine[s].moved
        /\ engine'[s].moves = engine[s].moves
        /\ engine'[s].starters = engine[s].starters /\ engine'[s].covers = engine[s].covers
        /\ engine'[s].waiting = engine[s].waiting /\ engine'[s].lost = engine[s].lost
    BY <1>1, <2>1 DEF TypeOK, Engine
  <2>3. ~engine[s].lost /\ engine[s].active = "idle" /\ engine[s].waiting = {}
        /\ engine[s].covers = {} /\ engine[s].starters = {}
    BY <1>0, <1>4
  <2>4. TypeOK'
    <3>1. Started \in Frame
      BY DEF Started, Frame
    <3>2. engine' \in [Sessions -> Engine]
      <4>1. engine[s] \in Engine
        BY <1>1 DEF TypeOK
      <4>2. [engine[s] EXCEPT !.active = "move"] \in Engine
        BY <4>1 DEF Engine
      <4>3. engine' = [engine EXCEPT ![s] = [engine[s] EXCEPT !.active = "move"]]
        BY <1>1, <2>1 DEF TypeOK
      <4> QED
        BY <1>1, <4>2, <4>3 DEF TypeOK
    <3> HIDE DEF s
    <3> QED
      BY <1>1, <1>2, <2>1, <3>1, <3>2, EmitTypes DEF TypeOK
  <2> HIDE DEF s
  <2>5. \A q \in Runs :
          /\ gate'[q] = gate[q]
          /\ scope'[q].promptEnqueued = scope[q].promptEnqueued
          /\ scope'[q].runStarted <=>
               scope[q].runStarted \/ (Hears(q, s) /\ scope[q].promptEnqueued)
          /\ q \in deaf' <=> q \in deaf \/ Misses(q, s)
          /\ heard'[q] = IF q \in deaf' THEN None ELSE heard[q]
    BY <1>1, <2>1, StartedAt
  <2>6. ASSUME NEW q \in Sessions PROVE EngineBook(q)'
    BY <1>1, <2>2, <2>3 DEF EngineBook
  <2>7. s = run[r].session
    BY DEF s
  <2>8. ASSUME NEW q \in Runs
        PROVE  RunBook(q)' /\ OwnBook(q)' /\ AnsweredBook(q)' /\ HeardBook(q)'
    <3>1. q \in Sessions /\ run[q].session \in Sessions
      BY DEF TypeOK, Run, Sessions
    <3>2. RunBook(q) /\ OwnBook(q) /\ AnsweredBook(q) /\ HeardBook(q) /\ RunBook(r)
      OBVIOUS
    <3>3. RunBook(q)'
      <4>1. s # q \/ run[q].session # Shared
        BY <2>7, <3>2 DEF RunBook
      <4> QED
        BY <1>1, <1>2, <2>1, <2>2, <2>3, <2>5, <2>7, <3>1, <3>2, <4>1
           DEF RunBook, Of, Ahead, Hears, Misses, Awaiting
    <3>4. OwnBook(q)'
      <4>1. CASE run[q].session = s
        <5>1. q \notin mixed' => q \notin mixed /\ OwnBook(q)
          BY <1>2, <2>1, <3>2
        <5>2. /\ run'[q].session = s /\ run[q].session = s /\ gate'[q] = gate[q]
              /\ \/ run'[q].phase = run[q].phase
                 \/ run[q].phase = "send" /\ run'[q].phase = "move"
              /\ scope'[q].promptEnqueued = scope[q].promptEnqueued
              /\ scope[q].promptEnqueued => q \in mixed
              /\ scope'[q].runStarted => scope[q].runStarted \/ scope[q].promptEnqueued
              /\ scope[q].runStarted => scope[q].promptEnqueued
          BY <1>0, <1>2, <2>1, <2>3, <2>5, <2>7, <3>2, <4>1 DEF OwnBook, RunBook, Of
        <5> QED
          BY ONLY <1>0, <2>2, <2>3, <5>1, <5>2 DEF OwnBook, Of, Ahead
      <4>2. CASE run[q].session # s
        BY <1>2, <2>1, <2>2, <2>5, <2>7, <3>1, <3>2, <4>2 DEF OwnBook, Of, Hears
      <4> QED
        BY <4>1, <4>2
    <3>5. AnsweredBook(q)'
      BY <1>2, <2>1, <2>5, <3>2 DEF AnsweredBook
    <3>6. HeardBook(q)'
      BY <1>1, <1>2, <2>1, <2>2, <2>3, <2>5, <3>1, <3>2 DEF HeardBook, Of
    <3> QED
      BY <3>3, <3>4, <3>5, <3>6
  <2> QED
    BY <2>4, <2>6, <2>8
<1> QED
  BY <1>3, <1>4

\* A prompt into a session in which others are open makes all of them mixed;
\* else its frame is the one its handler has waited for.
LEMMA DeliveredStep ==
  ASSUME IInv, NEW r \in Runs, Delivered(r), run' \in [Runs -> Run],
         run'[r].phase \in {"loop", "catch"}, upsets' \in Nat,
         UNCHANGED <<link, report, answered>>,
         \A q \in Runs :
           /\ run'[q].session = run[q].session /\ run'[q].fresh \subseteq run[q].fresh
           /\ run'[q].saw \in {None, run[q].saw} /\ (q # r => run'[q] = run[q])
  PROVE  IInv'
<1> USE Names DEF IInv
<1> DEFINE s == run[r].session
<1>1. s \in Sessions /\ r \in Sessions
  BY DEF TypeOK, Run, Sessions
<1>2. /\ run' \in [Runs -> Run] /\ UNCHANGED <<link, report, answered>> /\ upsets' \in Nat
      /\ run[r].phase = "prompt" /\ run'[r].phase \in {"loop", "catch"}
      /\ \A q \in Runs :
           /\ run'[q].session = run[q].session /\ run'[q].fresh \subseteq run[q].fresh
           /\ run'[q].saw \in {None, run[q].saw} /\ (q # r => run'[q] = run[q])
  BY DEF Delivered, At
<1>3. engine' = [engine EXCEPT ![s].waiting = @ \cup {r}] /\ Emit(s, Enqueued)
  BY DEF Delivered
<1>4. /\ \A z \in Sessions : z # s => engine'[z] = engine[z]
      /\ engine'[s].active = engine[s].active /\ engine'[s].moved = engine[s].moved
      /\ engine'[s].moves = engine[s].moves
      /\ engine'[s].starters = engine[s].starters /\ engine'[s].covers = engine[s].covers
      /\ engine'[s].waiting = engine[s].waiting \cup {r} /\ engine'[s].lost = engine[s].lost
  BY <1>1, <1>3 DEF TypeOK, Engine
<1>5. ~engine[s].lost /\ engine[s].moved
  BY <1>1 DEF Delivered, RunBook, Of, At
<1>6. /\ mixed \subseteq mixed' /\ mixed' \subseteq Runs
      /\ \A q \in Runs : q # r /\ run[q].session = s /\ run[q].phase \in Awaiting =>
           {q, r} \subseteq mixed'
      /\ \A q \in mixed' :
           q \in mixed \/ q = r \/ (run[q].session = s /\ run[q].phase \in Awaiting)
  BY DEF Delivered, Listening, TypeOK
<1>7. TypeOK'
  <2>1. Enqueued \in Frame
    BY DEF Enqueued, Frame
  <2>2. engine' \in [Sessions -> Engine]
    <3>1. engine[s] \in Engine
      BY <1>1 DEF TypeOK
    <3>2. [engine[s] EXCEPT !.waiting = @ \cup {r}] \in Engine
      BY <3>1 DEF Engine
    <3>3. engine' = [engine EXCEPT ![s] = [engine[s] EXCEPT !.waiting = @ \cup {r}]]
      BY <1>1, <1>3 DEF TypeOK
    <3> QED
      BY <1>1, <3>2, <3>3 DEF TypeOK
  <2>3. Emit(s, Enqueued)
    BY <1>3
  <2> HIDE DEF s
  <2>4. /\ gate' \in [Runs -> [event : Verdicts \cup {None}, polling : Verdicts \cup {None}]]
        /\ scope' \in [Runs -> [promptEnqueued : BOOLEAN, runStarted : BOOLEAN]]
        /\ heard' \in [Runs -> Verdicts \cup {None}]
        /\ deaf' \in SUBSET Runs
    BY <1>1, <2>1, <2>3, EmitTypes
  <2>5. /\ link' \in [Runs -> {"down", "up"}]
        /\ report' \in [Runs -> {None, "completed", "failed"}]
        /\ upsets' \in Nat /\ answered' \in SUBSET Runs /\ mixed' \in SUBSET Runs
    BY <1>2, <1>6 DEF TypeOK
  <2>6. run' \in [Runs -> Run]
    BY <1>2
  <2> QED
    BY ONLY <2>2, <2>4, <2>5, <2>6 DEF TypeOK
<1> HIDE DEF s
<1>8. \A q \in Runs :
        /\ gate'[q] = gate[q]
        /\ scope'[q].promptEnqueued <=> scope[q].promptEnqueued \/ Hears(q, s)
        /\ scope'[q].runStarted = scope[q].runStarted
        /\ q \in deaf' <=> q \in deaf \/ Misses(q, s)
        /\ heard'[q] = IF q \in deaf' THEN None ELSE heard[q]
  BY <1>1, <1>3, EnqueuedAt
<1>9. ASSUME NEW q \in Sessions PROVE EngineBook(q)'
  <2>1. CASE q = s
    BY ONLY <1>1, <1>4, <1>5, <2>1, EngineBook(q) DEF EngineBook
  <2>2. CASE q # s
    BY ONLY <1>1, <1>4, <1>5, <2>2, EngineBook(q), q \in Sessions DEF EngineBook
  <2> QED
    BY <2>1, <2>2
<1>10. s = run[r].session
  BY DEF s
<1>11. ASSUME NEW q \in Runs
       PROVE  RunBook(q)' /\ OwnBook(q)' /\ AnsweredBook(q)' /\ HeardBook(q)'
  <2>1. q \in Sessions /\ run[q].session \in Sessions
    BY DEF TypeOK, Run, Sessions
  <2>2. /\ RunBook(q) /\ OwnBook(q) /\ AnsweredBook(q) /\ HeardBook(q)
        /\ RunBook(r) /\ EngineBook(s)
    BY <1>1
  <2>3. RunBook(q)'
    <3>1. s # q \/ run[q].session # Shared
      BY <1>10, <2>2 DEF RunBook
    <3>2. CASE run[q].session = s
      <4>1. CASE q = r
        BY <1>2, <1>4, <1>5, <1>8, <1>10, <2>1, <2>2, <3>1, <4>1 DEF RunBook, Of, Ahead, Hears
      <4>2. CASE q # r
        <5>1. /\ run'[q].session = s /\ run'[q].fresh = run[q].fresh
              /\ run'[q].saw = run[q].saw /\ run'[q].phase = run[q].phase
              /\ gate'[q] = gate[q] /\ run[q].session = s
          BY <1>2, <1>8, <3>2, <4>2
        <5>2. run[q].phase \in {"new", "done"} =>
                q \notin mixed' \cup deaf' /\ ~scope'[q].promptEnqueued /\ heard'[q] = None
          BY <1>6, <1>8, <2>2, <4>2 DEF RunBook, Hears, Misses, Awaiting
        <5>3. run[q].phase # "create"
          BY <1>5, <2>2, <3>2 DEF RunBook, Of
        <5>4. scope'[q].runStarted => scope'[q].promptEnqueued
          BY <1>8, <2>2 DEF RunBook
        <5>5. engine'[s].moved /\ (q \in engine'[s].waiting => q \in engine[s].waiting)
              /\ engine'[s].covers = engine[s].covers
          BY <1>4, <1>5, <4>2
        <5>6. run[q].session = Shared => engine'[q] = engine[q]
          BY <1>4, <2>1, <3>1
        <5> QED
          BY ONLY <2>2, <5>1, <5>2, <5>3, <5>4, <5>5, <5>6 DEF RunBook, Of, Ahead
      <4> QED
        BY <4>1, <4>2
    <3>3. CASE run[q].session # s
      BY <1>2, <1>4, <1>6, <1>8, <1>10, <2>1, <2>2, <3>1, <3>3
         DEF RunBook, Of, Ahead, Hears, Misses
    <3> QED
      BY <3>2, <3>3
  <2>4. OwnBook(q)'
    <3>1. CASE q = r
      <4>1. r \notin mixed' => r \notin mixed
        BY <1>6
      <4>2. /\ run'[r].session = s /\ run[r].session = s /\ gate'[r] = gate[r]
            /\ run[r].phase = "prompt" /\ run'[r].phase \in {"loop", "catch"}
            /\ scope'[r].runStarted = scope[r].runStarted
        BY <1>2, <1>8, <1>10
      <4>3. r \notin engine[s].covers /\ OwnBook(r)
        BY <2>2, <3>1, <4>2 DEF RunBook, Of, Ahead
      <4> QED
        BY ONLY <1>4, <1>5, <3>1, <4>1, <4>2, <4>3 DEF OwnBook, Of, Ahead
    <3>2. CASE q # r /\ run[q].session = s
      <4>1. q \notin mixed' => run[q].phase \in {"new", "create", "done"} /\ q \notin mixed
        BY <1>6, <2>1, <3>2 DEF TypeOK, Run
      <4>2. run[q].phase # "create"
        BY <1>5, <2>2, <3>2 DEF RunBook, Of
      <4> QED
        BY <1>2, <1>4, <1>5, <1>8, <2>2, <3>2, <4>1, <4>2 DEF OwnBook, Of, Ahead, Hears,
           Awaiting
    <3>3. CASE run[q].session # s
      BY <1>2, <1>4, <1>6, <1>8, <1>10, <2>1, <2>2, <3>3 DEF OwnBook, Of, Hears
    <3> QED
      BY <3>1, <3>2, <3>3
  <2>5. AnsweredBook(q)'
    BY <1>2, <1>6, <1>8, <2>2 DEF AnsweredBook, Verdicts
  <2>6. HeardBook(q)'
    BY <1>1, <1>2, <1>4, <1>6, <1>8, <1>10, <2>1, <2>2
       DEF HeardBook, Of, Hears, Misses, Awaiting
  <2> QED
    BY <2>3, <2>4, <2>5, <2>6
<1> QED
  BY <1>7, <1>9, <1>11

\* It arrives, whether or not the worker gets to know.
LEMMA SendPromptStep ==
  ASSUME IInv, NEW r \in Runs, SendPrompt(r) \/ PromptUnanswered(r)
  PROVE  IInv'
<1> USE Names DEF IInv
<1>1. Delivered(r) /\ UNCHANGED <<link, report, answered>> /\ upsets' \in Nat
  BY DEF SendPrompt, PromptUnanswered, Upset, TypeOK
<1>2. CASE Goto(r, "loop")
  <2>1. run' \in [Runs -> Run]
    BY <1>2, GotoTypes DEF Phases, Awaiting
  <2>2. \A q \in Runs :
          /\ run'[q].session = run[q].session /\ run'[q].fresh = run[q].fresh
          /\ run'[q].saw = run[q].saw /\ (q # r => run'[q] = run[q])
    BY <1>2 DEF Goto, TypeOK, Run
  <2>3. run'[r].phase = "loop"
    BY <1>2 DEF Goto, TypeOK, Run
  <2> QED
    BY <1>1, <2>1, <2>2, <2>3, DeliveredStep
<1>3. CASE Leave(r, "catch")
  <2>1. run' \in [Runs -> Run]
    BY <1>3, LeaveTypes DEF Phases, Awaiting
  <2>2. \A q \in Runs :
          /\ run'[q].session = run[q].session /\ run'[q].fresh \subseteq run[q].fresh
          /\ run'[q].saw \in {None, run[q].saw} /\ (q # r => run'[q] = run[q])
    BY <1>3 DEF Leave, TypeOK, Run
  <2>3. run'[r].phase = "catch"
    BY <1>3 DEF Leave, TypeOK, Run
  <2> QED
    BY <1>1, <2>1, <2>2, <2>3, DeliveredStep
<1> QED
  BY <1>2, <1>3 DEF SendPrompt, PromptUnanswered

\* A lost session is replaced once.
LEMMA NotFoundStep ==
  ASSUME IInv, NEW r \in Runs, NotFound(r)
  PROVE  IInv'
<1> USE Names DEF IInv
<1>a. \A q \in Runs :
        /\ q # r => run'[q] = run[q]
        /\ run'[q].session = run[q].session /\ run'[q].fresh \subseteq run[q].fresh
        /\ run'[r].saw = None
  BY DEF NotFound, Leave, TypeOK, Run
<1>b. /\ run[r].phase \in Querying /\ engine[run[r].session].lost
      /\ \/ run[r].session = Shared /\ run'[r].phase = "create"
         \/ run[r].session # Shared /\ run'[r].phase = "catch"
      /\ UNCHANGED <<engine, gate, scope, heard, deaf, mixed, answered>>
  BY DEF NotFound, Of, Leave, TypeOK, told
<1>1. TypeOK'
  <2>1. run' \in [Runs -> Run]
    BY LeaveTypes DEF NotFound, Phases, Awaiting
  <2> QED
    BY <2>1 DEF NotFound, Close, told, TypeOK
<1>2. ASSUME NEW q \in Sessions PROVE EngineBook(q)'
  BY <1>a, <1>b DEF EngineBook
<1>3. ASSUME NEW q \in Runs PROVE RunBook(q)'
  BY <1>a, <1>b DEF Querying, RunBook, Of, Ahead, TypeOK
<1>4. ASSUME NEW q \in Runs PROVE OwnBook(q)'
  <2>1. /\ run'[q].session = run[q].session /\ OwnBook(q)
        /\ \/ run'[q].phase = run[q].phase
           \/ run[q].phase \in Querying \cup {"create"} /\ run'[q].phase \in {"create", "catch"}
    BY <1>a, <1>b
  <2> QED
    BY ONLY <1>b, <2>1 DEF OwnBook, Querying, Of, Ahead
<1>5. ASSUME NEW q \in Runs PROVE AnsweredBook(q)'
  BY <1>a, <1>b DEF Querying, AnsweredBook, Verdicts
<1>6. ASSUME NEW q \in Runs PROVE HeardBook(q)'
  BY <1>a, <1>b DEF Querying, HeardBook, Of
<1> QED
  BY <1>1, <1>2, <1>3, <1>4, <1>5, <1>6

\* A failed request ends in the catch.
LEMMA QueryFailsStep ==
  ASSUME IInv, NEW r \in Runs, QueryFails(r)
  PROVE  IInv'
<1> USE Names DEF IInv
<1>a. \A q \in Runs :
        /\ q # r => run'[q] = run[q]
        /\ run'[q].session = run[q].session /\ run'[q].fresh \subseteq run[q].fresh
        /\ run'[r].saw = None
  BY DEF QueryFails, Leave, TypeOK, Run
<1>b. /\ run[r].phase \in Querying \cup {"create"} /\ run'[r].phase = "catch"
      /\ UNCHANGED <<engine, gate, scope, heard, deaf, mixed, answered>>
  BY DEF QueryFails, Leave, TypeOK, told
<1>1. TypeOK'
  <2>1. run' \in [Runs -> Run]
    BY LeaveTypes DEF QueryFails, Phases, Awaiting
  <2> QED
    BY <2>1 DEF QueryFails, Upset, told, TypeOK
<1>2. ASSUME NEW q \in Sessions PROVE EngineBook(q)'
  BY <1>a, <1>b DEF EngineBook
<1>3. ASSUME NEW q \in Runs PROVE RunBook(q)'
  <2>1. /\ run'[q].session = run[q].session /\ RunBook(q)
        /\ \/ run'[q] = run[q]
           \/ run[q].phase \in Querying \cup {"create"} /\ run'[q].phase = "catch"
    BY <1>a, <1>b
  <2> QED
    BY ONLY <1>b, <2>1 DEF RunBook, Querying, Of, Ahead
<1>4. ASSUME NEW q \in Runs PROVE OwnBook(q)'
  <2>1. /\ run'[q].session = run[q].session /\ OwnBook(q)
        /\ \/ run'[q].phase = run[q].phase
           \/ run[q].phase \in Querying \cup {"create"} /\ run'[q].phase \in {"create", "catch"}
    BY <1>a, <1>b
  <2> QED
    BY ONLY <1>b, <2>1 DEF OwnBook, Querying, Of, Ahead
<1>5. ASSUME NEW q \in Runs PROVE AnsweredBook(q)'
  BY <1>a, <1>b DEF Querying, AnsweredBook, Verdicts
<1>6. ASSUME NEW q \in Runs PROVE HeardBook(q)'
  BY <1>a, <1>b DEF Querying, HeardBook, Of
<1> QED
  BY <1>1, <1>2, <1>3, <1>4, <1>5, <1>6

\* What the loop sees of the gate is evidence there.
LEMMA LoopTopStep ==
  ASSUME IInv, NEW r \in Runs, LoopTop(r)
  PROVE  IInv'
<1> USE Names DEF IInv
<1>a. \A q \in Runs :
        /\ q # r => run'[q] = run[q]
        /\ run'[q].session = run[q].session /\ run'[q].fresh = run[q].fresh
  BY DEF LoopTop, TypeOK, Run
<1>b. /\ run[r].phase = "loop" /\ run'[r].phase \in {"abort", "fetch"}
      /\ run'[r].saw \in {gate[r].event, gate[r].polling}
      /\ UNCHANGED <<engine, gate, scope, heard, deaf, mixed, answered>>
  BY DEF LoopTop, At, peek, TypeOK, told
<1>1. TypeOK'
  <2> DEFINE p == IF peek(gate[r]) \in Failing THEN "abort" ELSE "fetch"
  <2>1. run[r] \in Run /\ p \in Phases /\ peek(gate[r]) \in Verdicts \cup {None}
    BY DEF TypeOK, Phases, Awaiting, peek
  <2>2. run' = [run EXCEPT ![r] = [run[r] EXCEPT !.phase = p, !.saw = peek(gate[r])]]
    BY DEF LoopTop, TypeOK
  <2> HIDE DEF p
  <2>3. [run[r] EXCEPT !.phase = p, !.saw = peek(gate[r])] \in Run
    BY <2>1, RunChanges
  <2>4. run' \in [Runs -> Run]
    BY <2>2, <2>3 DEF TypeOK
  <2> QED
    BY <2>4 DEF LoopTop, TypeOK, told
<1>2. ASSUME NEW q \in Sessions PROVE EngineBook(q)'
  BY <1>a, <1>b DEF EngineBook
<1>3. ASSUME NEW q \in Runs PROVE RunBook(q)'
  BY <1>a, <1>b DEF RunBook, Of, Ahead
<1>4. ASSUME NEW q \in Runs PROVE OwnBook(q)'
  <2>1. /\ run'[q].session = run[q].session /\ OwnBook(q)
        /\ \/ run'[q].phase = run[q].phase
           \/ run[q].phase = "loop" /\ run'[q].phase \in {"abort", "fetch"}
    BY <1>a, <1>b
  <2> QED
    BY ONLY <1>b, <2>1 DEF OwnBook, Of, Ahead
<1>5. ASSUME NEW q \in Runs PROVE AnsweredBook(q)'
  BY <1>a, <1>b DEF AnsweredBook, Verdicts
<1>6. ASSUME NEW q \in Runs PROVE HeardBook(q)'
  BY <1>a, <1>b DEF HeardBook, Of
<1> QED
  BY <1>1, <1>2, <1>3, <1>4, <1>5, <1>6

\* The loop leaves for a success only with a witness of it.
LEMMA FetchStep ==
  ASSUME IInv, NEW r \in Runs, Fetch(r)
  PROVE  IInv'
<1> USE Names DEF IInv
<1>a. \A q \in Runs :
        /\ q # r => run'[q] = run[q]
        /\ run'[q].session = run[q].session /\ run'[q].fresh \subseteq run[q].fresh
        /\ run'[r].saw = None
  BY DEF Fetch, Leave, TypeOK, Run
<1>b. /\ run[r].phase = "fetch" /\ run'[r].phase \in {"grace", "refresh", "abort", "loop"}
      /\ run'[r].phase \in {"grace", "refresh"} =>
           "stop" \in run[r].fresh \/ run[r].saw = "succeeded"
      /\ UNCHANGED <<engine, gate, scope, heard, deaf, mixed, answered>>
  BY DEF Fetch, At, NextPhase, Leave, TypeOK, told
<1>1. TypeOK'
  <2>1. run' \in [Runs -> Run]
    BY LeaveTypes DEF Fetch, Phases, Awaiting, NextPhase
  <2> QED
    BY <2>1 DEF Fetch, told, TypeOK
<1>2. ASSUME NEW q \in Sessions PROVE EngineBook(q)'
  BY <1>a, <1>b DEF EngineBook
<1>3. ASSUME NEW q \in Runs PROVE RunBook(q)'
  BY <1>a, <1>b DEF RunBook, Of, Ahead, TypeOK
<1>4. ASSUME NEW q \in Runs PROVE OwnBook(q)'
  <2>1. /\ run'[q].session = run[q].session /\ OwnBook(q)
        /\ \/ run'[q].phase = run[q].phase
           \/ run[q].phase = "fetch" /\ run'[q].phase \in {"grace", "refresh", "abort", "loop"}
    BY <1>a, <1>b
  <2> QED
    BY ONLY <1>b, <2>1 DEF OwnBook, Of, Ahead
<1>5. ASSUME NEW q \in Runs PROVE AnsweredBook(q)'
  BY <1>a, <1>b DEF AnsweredBook, Verdicts
<1>6. ASSUME NEW q \in Runs PROVE HeardBook(q)'
  BY <1>a, <1>b DEF HeardBook, Of
<1> QED
  BY <1>1, <1>2, <1>3, <1>4, <1>5, <1>6

\* A deadline leads to the abort.
LEMMA TimesOutStep ==
  ASSUME IInv, NEW r \in Runs, TimesOut(r)
  PROVE  IInv'
<1> USE Names DEF IInv
<1>a. \A q \in Runs :
        /\ q # r => run'[q] = run[q]
        /\ run'[q].session = run[q].session /\ run'[q].fresh \subseteq run[q].fresh
        /\ run'[r].saw = None
  BY DEF TimesOut, Leave, TypeOK, Run
<1>b. /\ run[r].phase = "fetch" /\ run'[r].phase = "abort"
      /\ UNCHANGED <<engine, gate, scope, heard, deaf, mixed, answered>>
  BY DEF TimesOut, At, Leave, TypeOK, told
<1>1. TypeOK'
  <2>1. run' \in [Runs -> Run]
    BY LeaveTypes DEF TimesOut, Phases, Awaiting
  <2> QED
    BY <2>1 DEF TimesOut, Upset, told, TypeOK
<1>2. ASSUME NEW q \in Sessions PROVE EngineBook(q)'
  BY <1>a, <1>b DEF EngineBook
<1>3. ASSUME NEW q \in Runs PROVE RunBook(q)'
  BY <1>a, <1>b DEF RunBook, Of, Ahead, TypeOK
<1>4. ASSUME NEW q \in Runs PROVE OwnBook(q)'
  BY <1>a, <1>b DEF OwnBook, Of, Ahead
<1>5. ASSUME NEW q \in Runs PROVE AnsweredBook(q)'
  BY <1>a, <1>b DEF AnsweredBook, Verdicts
<1>6. ASSUME NEW q \in Runs PROVE HeardBook(q)'
  BY <1>a, <1>b DEF HeardBook, Of
<1> QED
  BY <1>1, <1>2, <1>3, <1>4, <1>5, <1>6

\* The poll notes a success only after a stop was read.
LEMMA GraceStep ==
  ASSUME IInv, NEW r \in Runs, Grace(r)
  PROVE  IInv'
<1> USE Names DEF IInv
<1>a. \A q \in Runs :
        /\ q # r => run'[q] = run[q]
        /\ run'[q].session = run[q].session /\ run'[q].fresh = run[q].fresh
        /\ run'[q].saw = run[q].saw
        /\ gate'[q].event = gate[q].event
        /\ q # r => gate'[q] = gate[q]
  BY DEF Grace, Goto, notePolling, TypeOK, Run
<1>b. /\ run[r].phase = "grace" /\ run'[r].phase \in {"abort", "drain"}
      /\ UNCHANGED <<engine, link, scope, heard, deaf, mixed, answered>>
  BY DEF Grace, At, Goto, TypeOK, Run
<1>1. TypeOK'
  <2>1. run' \in [Runs -> Run]
    BY GotoTypes DEF Grace, Phases, Awaiting
  <2>2. notePolling(r, "failed") \/ notePolling(r, "succeeded")
    BY DEF Grace
  <2>3. gate' \in [Runs -> [event : Verdicts \cup {None}, polling : Verdicts \cup {None}]]
    BY <2>2, PolledTypes DEF Verdicts
  <2> QED
    BY <2>1, <2>3 DEF Grace, TypeOK
<1>2. ASSUME NEW q \in Sessions PROVE EngineBook(q)'
  BY <1>a, <1>b DEF EngineBook
<1>3. ASSUME NEW q \in Runs PROVE RunBook(q)'
  BY <1>a, <1>b DEF RunBook, Of, Ahead
<1>4. ASSUME NEW q \in Runs PROVE OwnBook(q)'
  <2>1. /\ run'[q].session = run[q].session /\ OwnBook(q) /\ gate'[q].event = gate[q].event
        /\ \/ run'[q].phase = run[q].phase
           \/ run[q].phase = "grace" /\ run'[q].phase \in {"abort", "drain"}
    BY <1>a, <1>b
  <2> QED
    BY ONLY <1>b, <2>1 DEF OwnBook, Of, Ahead
<1>5. ASSUME NEW q \in Runs PROVE AnsweredBook(q)'
  BY <1>a, <1>b DEF AnsweredBook, Grace, At, notePolling, TypeOK
<1>6. ASSUME NEW q \in Runs PROVE HeardBook(q)'
  BY <1>a, <1>b DEF HeardBook, Of, Awaiting
<1> QED
  BY <1>1, <1>2, <1>3, <1>4, <1>5, <1>6

\* Or after the event of one was seen.
LEMMA RefreshStep ==
  ASSUME IInv, NEW r \in Runs, Refresh(r)
  PROVE  IInv'
<1> USE Names DEF IInv
<1>1. TypeOK'
  <2>1. run' \in [Runs -> Run]
    BY GotoTypes DEF Refresh, Phases, Awaiting
  <2>2. notePolling(r, "failed") \/ notePolling(r, "succeeded")
    BY DEF Refresh
  <2>3. gate' \in [Runs -> [event : Verdicts \cup {None}, polling : Verdicts \cup {None}]]
    BY <2>2, PolledTypes DEF Verdicts
  <2> QED
    BY <2>1, <2>3 DEF Refresh, TypeOK
<1>2. ASSUME NEW q \in Sessions PROVE EngineBook(q)'
  BY DEF Refresh, EngineBook
<1>3. ASSUME NEW q \in Runs PROVE RunBook(q)'
  BY DEF Refresh, At, Goto, notePolling, RunBook, Of, Ahead
<1>4. ASSUME NEW q \in Runs PROVE OwnBook(q)'
  BY DEF Refresh, At, Goto, notePolling, OwnBook, TypeOK, Run, Of, Ahead
<1>5. ASSUME NEW q \in Runs PROVE AnsweredBook(q)'
  BY DEF Refresh, At, Goto, notePolling, AnsweredBook
<1>6. ASSUME NEW q \in Runs PROVE HeardBook(q)'
  BY DEF Refresh, At, Goto, notePolling, HeardBook, Of
<1> QED
  BY <1>1, <1>2, <1>3, <1>4, <1>5, <1>6

\* The abort of a run interrupts what its session executes.
LEMMA AbortStep == ASSUME IInv, NEW r \in Runs, Abort(r) PROVE IInv'
<1> USE Names DEF IInv
<1> DEFINE s == run[r].session
<1>1. s \in Sessions /\ "interrupted" \in Verdicts
  BY DEF TypeOK, Run, Verdicts
<1>2. /\ run' \in [Runs -> Run] /\ UNCHANGED <<link, report, upsets, answered, mixed>>
      /\ \A q \in Runs :
           /\ run'[q].session = run[q].session /\ run'[q].fresh = run[q].fresh
           /\ run'[q].saw = run[q].saw
           /\ \/ run'[q].phase = run[q].phase
              \/ run[q].phase = "abort" /\ run'[q].phase = "catch"
  <2>1. run' \in [Runs -> Run]
    BY GotoTypes DEF Abort, Phases, Awaiting
  <2> QED
    BY <2>1 DEF Abort, At, Goto, TypeOK, Run
<1>3. CASE engine[s].active = "prompt"
  <2>1. EndsAs(s, "interrupted")
    BY <1>3 DEF Abort, Of
  <2>2. EndsTypes
    BY <1>1, <1>3, <2>1, EndsAsTypes
  <2>3. TypeOK'
    BY <1>2, <2>2 DEF EndsTypes, TypeOK
  <2> HIDE DEF s
  <2>4. /\ \A q \in Sessions : EngineBook(q)'
        /\ \A q \in Runs : RunBook(q)' /\ OwnBook(q)' /\ AnsweredBook(q)' /\ HeardBook(q)'
    BY <1>1, <1>2, <1>3, <2>1, PromptEnds
  <2> QED
    BY <2>3, <2>4
<1>4. CASE engine[s].active # "prompt"
  <2>1. UNCHANGED <<engine, gate, scope, heard, deaf>>
    BY <1>4 DEF Abort, Of, told
  <2>2. TypeOK'
    BY <1>2, <2>1 DEF TypeOK
  <2>3. \A q \in Sessions : EngineBook(q)'
    BY <2>1 DEF EngineBook
  <2>4. ASSUME NEW q \in Runs
        PROVE  RunBook(q)' /\ OwnBook(q)' /\ AnsweredBook(q)' /\ HeardBook(q)'
    <3>1. RunBook(q)'
      BY <1>2, <2>1 DEF RunBook, Of, Ahead
    <3>2. OwnBook(q)'
      <4>1. /\ run'[q].session = run[q].session /\ mixed' = mixed /\ OwnBook(q)
            /\ \/ run'[q].phase = run[q].phase
               \/ run[q].phase = "abort" /\ run'[q].phase = "catch"
        BY <1>2
      <4> QED
        BY ONLY <2>1, <4>1 DEF OwnBook, Of, Ahead
    <3>3. AnsweredBook(q)' /\ HeardBook(q)'
      BY <1>2, <2>1 DEF AnsweredBook, HeardBook, Of
    <3> QED
      BY <3>1, <3>2, <3>3
  <2> QED
    BY <2>2, <2>3, <2>4
<1> QED
  BY <1>3, <1>4

\* An abort that fails changes no session.
LEMMA AbortFailsStep ==
  ASSUME IInv, NEW r \in Runs, AbortFails(r)
  PROVE  IInv'
<1> USE Names DEF IInv
<1>1. TypeOK'
  <2>1. run' \in [Runs -> Run]
    BY GotoTypes DEF AbortFails, Phases, Awaiting
  <2> QED
    BY <2>1 DEF AbortFails, Upset, told, TypeOK
<1>2. ASSUME NEW q \in Sessions PROVE EngineBook(q)'
  BY DEF AbortFails, EngineBook
<1>3. ASSUME NEW q \in Runs PROVE RunBook(q)'
  BY DEF AbortFails, At, Goto, told, RunBook, Of, Ahead
<1>4. ASSUME NEW q \in Runs PROVE OwnBook(q)'
  BY DEF AbortFails, At, Goto, told, OwnBook, TypeOK, Run, Of, Ahead
<1>5. ASSUME NEW q \in Runs PROVE AnsweredBook(q)'
  BY DEF AbortFails, Goto, told, AnsweredBook
<1>6. ASSUME NEW q \in Runs PROVE HeardBook(q)'
  BY DEF AbortFails, At, Goto, told, HeardBook, Of
<1> QED
  BY <1>1, <1>2, <1>3, <1>4, <1>5, <1>6

\* A report clears what is remembered of its run, and touches no other.
LEMMA FinishStep == ASSUME IInv, NEW r \in Runs, NEW v, Finish(r, v) PROVE IInv'
<1> USE Names DEF IInv
<1>1. /\ \A q \in Runs : q # r =>
           /\ run'[q] = run[q] /\ gate'[q] = gate[q] /\ scope'[q] = scope[q]
           /\ heard'[q] = heard[q]
           /\ q \in deaf' <=> q \in deaf
           /\ q \in mixed' <=> q \in mixed
           /\ q \in answered' <=> q \in answered
      /\ engine' = engine /\ upsets' = upsets
      /\ run'[r] = [Idle EXCEPT !.phase = "done"]
      /\ gate'[r] = NewGate /\ scope'[r] = NewScope /\ heard'[r] = None
      /\ r \notin deaf' \cup mixed'
  BY DEF Finish, TypeOK
<1>2. TypeOK'
  <2>1. [Idle EXCEPT !.phase = "done"] \in Run
    BY DEF Idle, Run, Sessions
  <2>2. run' \in [Runs -> Run]
    BY <2>1 DEF Finish, TypeOK
  <2>3. gate' \in [Runs -> [event : Verdicts \cup {None}, polling : Verdicts \cup {None}]]
    BY DEF Finish, TypeOK, NewGate
  <2>4. scope' \in [Runs -> [promptEnqueued : BOOLEAN, runStarted : BOOLEAN]]
    BY DEF Finish, TypeOK, NewScope
  <2> QED
    BY <2>2, <2>3, <2>4 DEF Finish, Close, TypeOK
<1>3. ASSUME NEW q \in Sessions PROVE EngineBook(q)'
  BY <1>1 DEF EngineBook
<1>4. ASSUME NEW q \in Runs
      PROVE  RunBook(q)' /\ OwnBook(q)' /\ AnsweredBook(q)' /\ HeardBook(q)'
  <2>1. CASE q = r
    BY <1>1, <2>1 DEF RunBook, OwnBook, AnsweredBook, HeardBook, Ahead, Awaiting, Idle,
       NewGate,
       NewScope, Verdicts
  <2>2. CASE q # r
    <3>1. RunBook(q) /\ OwnBook(q) /\ AnsweredBook(q) /\ HeardBook(q)
      OBVIOUS
    <3>2. /\ run'[q] = run[q] /\ gate'[q] = gate[q] /\ scope'[q] = scope[q]
          /\ heard'[q] = heard[q] /\ engine' = engine
          /\ q \in deaf' <=> q \in deaf
          /\ q \in mixed' <=> q \in mixed
          /\ q \in answered' <=> q \in answered
      BY <1>1, <2>2
    <3>3. RunBook(q)'
      BY ONLY <3>1, <3>2 DEF RunBook, Of
    <3>4. OwnBook(q)' /\ AnsweredBook(q)' /\ HeardBook(q)'
      BY ONLY <3>1, <3>2 DEF OwnBook, AnsweredBook, HeardBook, Of
    <3> QED
      BY <3>3, <3>4
  <2> QED
    BY <2>1, <2>2
<1> QED
  BY <1>2, <1>3, <1>4

-----------------------------------------------------------------------------
(* The theorems.                                                           *)

\* Every step keeps the invariant.
LEMMA IInvStep == ASSUME IInv, [Next]_vars PROVE IInv'
<1>1. ASSUME NEW s \in Sessions,
             \/ EngineStep(s) \/ Consume(s) \/ Says(s, "stop") \/ Says(s, "error")
             \/ UserStops(s)
      PROVE  IInv'
  BY <1>1, MoveBeginsStep, MoveEndsStep, StartStep, SucceedsStep, FailsStep, ConsumeStep, SaysStep,
     UserStopsStep DEF EngineStep
<1>2. CASE Forgets(Shared)
  BY <1>2, ForgetsStep
<1>3. ASSUME NEW r \in Runs, RunStep(r)
      PROVE  IInv'
  <2>1. CASE Report(r) \/ Catch(r)
    BY <2>1, FinishStep DEF Report, Catch
  <2>2. CASE \/ Create(r) \/ TakeBaseline(r) \/ SendPrompt(r)
             \/ StaysWhereItIs(r) \/ ApplyDirectory(r) \/ MoveReturns(r) \/ NotFound(r)
    BY <2>2, CreateStep, TakeBaselineStep, StaysStep, ApplyDirectoryStep, SendPromptStep,
       NotFoundStep
  <2>3. CASE LoopTop(r) \/ Fetch(r) \/ Grace(r) \/ Refresh(r) \/ Abort(r)
    BY <2>3, LoopTopStep, FetchStep, GraceStep, RefreshStep, AbortStep
  <2> QED
    BY <1>3, <2>1, <2>2, <2>3 DEF RunStep
<1>4. ASSUME NEW r \in Runs,
             \/ Accept(r) \/ Connect(r) \/ Disconnect(r)
             \/ BaselineFails(r) \/ QueryFails(r) \/ PromptUnanswered(r)
             \/ TimesOut(r) \/ AbortFails(r)
      PROVE  IInv'
  BY <1>4, AcceptStep, ConnectStep, DisconnectStep, BaselineFailsStep, QueryFailsStep,
     SendPromptStep, TimesOutStep, AbortFailsStep
<1>5. CASE UNCHANGED vars
  BY <1>5 DEF vars, told, IInv, TypeOK, EngineBook, RunBook, OwnBook, AnsweredBook, HeardBook,
     Of
<1> QED
  BY <1>1, <1>2, <1>3, <1>4, <1>5 DEF Next

\* The invariant holds in every behaviour.
THEOREM BooksAreKept == Spec => []IInv
<1>1. IInv /\ [Next]_vars => IInv'
  BY IInvStep
<1> QED
  BY IInvInit, <1>1, PTL DEF Spec

\* Every run has its phase, its session and its evidence, and every session
\* its execution, with values of their types.
THEOREM TypeCorrect == Spec => []TypeOK
<1>1. IInv => TypeOK
  BY DEF IInv
<1> QED
  BY BooksAreKept, <1>1, PTL

\* Only the settlement of the gate and the catch of a failed run report.
LEMMA OnlyReports ==
  ASSUME TypeOK, [Next]_vars, NEW r \in Runs, Completes(r)
  PROVE  Report(r) \/ Catch(r)
<1>1. \/ report' = report
      \/ \E q \in Runs : Report(q) \/ Catch(q)
  <2>1. CASE UNCHANGED vars
    BY <2>1 DEF vars
  <2>2. ASSUME NEW s \in Sessions,
               \/ EngineStep(s) \/ Consume(s) \/ Says(s, "stop") \/ Says(s, "error")
               \/ UserStops(s)
        PROVE  report' = report
    BY <2>2 DEF EngineStep, MoveBegins, MoveEnds, Start, Succeeds, Fails, Consume, Says, UserStops
  <2>3. CASE Forgets(Shared)
    BY <2>3 DEF Forgets
  <2>4. ASSUME NEW q \in Runs, RunStep(q), ~Report(q), ~Catch(q)
        PROVE  report' = report
    BY <2>4 DEF RunStep, Create, TakeBaseline, StaysWhereItIs, ApplyDirectory, MoveReturns,
       SendPrompt, NotFound, LoopTop, Fetch, Grace, Refresh, Abort
  <2>5. ASSUME NEW q \in Runs,
               \/ Accept(q) \/ Connect(q) \/ Disconnect(q)
               \/ BaselineFails(q) \/ QueryFails(q) \/ PromptUnanswered(q)
               \/ TimesOut(q) \/ AbortFails(q)
        PROVE  report' = report
    BY <2>5 DEF Accept, Connect, Disconnect, BaselineFails, QueryFails, PromptUnanswered,
       TimesOut, AbortFails
  <2> QED
    BY <2>1, <2>2, <2>3, <2>4, <2>5 DEF Next
<1>2. report'[r] # report[r]
  BY Names DEF Completes
<1>3. PICK q \in Runs : Report(q) \/ Catch(q)
  BY <1>1, <1>2
<1>4. q = r
  BY <1>2, <1>3 DEF Report, Catch, Finish, TypeOK
<1> QED
  BY <1>3, <1>4

\* A run that completes has a success at its gate, or has come to the place
\* to which only a success leads.
LEMMA Evidence ==
  ASSUME TypeOK, NEW r \in Runs, Completes(r), Report(r) \/ Catch(r)
  PROVE  /\ peek(gate[r]) \in {None, "succeeded"}
         /\ peek(gate[r]) = None => run[r].phase = "drain"
<1>1. CASE Report(r)
  <2>1. run[r].phase = "drain" /\ settle(gate[r]) = "succeeded"
    BY <1>1 DEF Report, At, Finish, Completes, TypeOK
  <2> QED
    BY <2>1 DEF settle
<1>2. CASE Catch(r)
  BY <1>2, Names DEF Catch, Finish, Completes, TypeOK, Verdicts
<1> QED
  BY <1>1, <1>2

\* A run is reported as completed only after an execution has gone through
\* its own prompt, or when it shared its session or had no baseline.
THEOREM CompletedIsItsOwn == Spec => CompletedByItsOwnExecution
<1>1. IInv /\ [Next]_vars
        => [\A r \in Runs : Completes(r) => r \in answered \cup mixed]_vars
  <2> SUFFICES ASSUME IInv, [Next]_vars, NEW r \in Runs, Completes(r)
               PROVE  r \in answered \cup mixed
    OBVIOUS
  <2>1. Report(r) \/ Catch(r)
    BY OnlyReports DEF IInv
  <2>2. /\ peek(gate[r]) \in {None, "succeeded"}
        /\ peek(gate[r]) = None => run[r].phase = "drain"
    BY <2>1, Evidence DEF IInv
  <2>3. AnsweredBook(r)
    BY DEF IInv
  <2> QED
    BY <2>2, <2>3, Names DEF AnsweredBook, peek, Verdicts
<1> QED
  BY BooksAreKept, <1>1, PTL DEF Spec, CompletedByItsOwnExecution

\* A run whose handler was told that its execution failed or was stopped is
\* not reported as completed, whatever it reads from the messages.
THEOREM FailureIsReported == Spec => ToldFailureIsReported
<1>1. IInv /\ [Next]_vars
        => [\A r \in Runs : Completes(r) =>
              heard[r] \in {None, "succeeded"} \/ r \in deaf \cup mixed]_vars
  <2> SUFFICES ASSUME IInv, [Next]_vars, NEW r \in Runs, Completes(r)
               PROVE  heard[r] \in {None, "succeeded"} \/ r \in deaf \cup mixed
    OBVIOUS
  <2>1. Report(r) \/ Catch(r)
    BY OnlyReports DEF IInv
  <2>2. peek(gate[r]) \in {None, "succeeded"} /\ run[r].phase # "done"
    BY <2>1, Evidence DEF IInv, Report, Catch, At
  <2>3. HeardBook(r)
    BY DEF IInv
  <2> QED
    BY <2>2, <2>3 DEF HeardBook, peek
<1> QED
  BY BooksAreKept, <1>1, PTL DEF Spec, ToldFailureIsReported
=============================================================================
