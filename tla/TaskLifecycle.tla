--------------------------- MODULE TaskLifecycle ---------------------------
(***************************************************************************)
(* The life of the tasks of one team (tasks.service.ts).  A transition     *)
(* reads the task, runs the preflight of its action, and then, in one      *)
(* transaction, takes a start slot if it needs one and updates the row     *)
(* with a compare-and-set on status and version; the watchdog's            *)
(* systemBlock is a transition nobody waits for.  remove() checks the      *)
(* status and deletes in a transaction of its own.                         *)
(*                                                                         *)
(* Each action is the code between two awaits; the transaction is one      *)
(* action (a start holds the lock of the team row until it commits).       *)
(* Left out: titles, events, messages, sessions, the focus pointer of the  *)
(* team.  The preflight asks plans and issues, which others own: here it   *)
(* passes or refuses.                                                      *)
(***************************************************************************)
EXTENDS Integers, FiniteSets

CONSTANTS
  Tasks,
  LongRunning,     \* tasks on duty without an end: never blocked by the watchdog
  Users,           \* requests of users and agents that can be in flight together
  Watchdogs,       \* calls of systemBlock that can be in flight together
  MaxConcurrent,   \* Team.maxConcurrentTasks
  MaxVersion       \* bound: users ask for no transition of a task after so many

ASSUME TaskAssumption ==
  /\ LongRunning \subseteq Tasks
  /\ Users \cap Watchdogs = {}
  /\ Tasks # {} /\ IsFiniteSet(Tasks)
  /\ MaxConcurrent \in Nat /\ MaxVersion \in Nat

VARIABLES
  status, version, \* the rows of table tasks
  call,            \* each request: where it is and what it has read
  submitted,       \* history: the version with which the task last went into review
  readmitted       \* history: tasks in execution that came back from review by reject

vars == <<status, version, call, submitted, readmitted>>

Callers == Users \cup Watchdogs

TASK_STATUS == {"absent", "pending", "in_progress", "blocked", "pending_review",
                "completed", "archived", "deleted"}

\* TASK_TRANSITIONS: each action of the table and its two statuses.
From == [start |-> "pending", submit |-> "in_progress", accept |-> "pending_review",
         reject |-> "pending_review", archive |-> "completed",
         block |-> "in_progress", resume |-> "blocked"]
\* A status the table does not know.
ToTypo == [start |-> "in_progress", submit |-> "in_review", accept |-> "completed",
           reject |-> "in_progress", archive |-> "archived",
           block |-> "blocked", resume |-> "in_progress"]

To == [start |-> "in_progress", submit |-> "pending_review", accept |-> "completed",
       reject |-> "in_progress", archive |-> "archived",
       block |-> "blocked", resume |-> "in_progress"]
Actions == DOMAIN From

Call == [phase : {"idle", "asked", "preflight", "commit", "after", "remove"},
         task : Tasks, action : Actions, version : Nat]

NoCall == [phase |-> "idle", task |-> CHOOSE t \in Tasks : TRUE, action |-> "start", version |-> 0]

TypeOK ==
  /\ status \in [Tasks -> TASK_STATUS]
  /\ version \in [Tasks -> Nat]
  /\ call \in [Callers -> Call]
  /\ submitted \in [Tasks -> Nat]
  /\ readmitted \in SUBSET Tasks

Init ==
  /\ status = [t \in Tasks |-> "absent"]
  /\ version = [t \in Tasks |-> 0]
  /\ call = [c \in Callers |-> NoCall]
  /\ submitted = [t \in Tasks |-> 0]
  /\ readmitted = {}

rows == <<status, version, submitted, readmitted>>

\* What counts against the limit of the team: pending_review does not.
Occupying == {t \in Tasks : status[t] \in {"in_progress", "blocked"}}

Goto(c, p) == call' = [call EXCEPT ![c].phase = p]
Ends(c) == call' = [call EXCEPT ![c] = NoCall]

-----------------------------------------------------------------------------
(* Transitions.                                                            *)

Create(t) ==
  /\ status[t] = "absent"
  /\ status' = [status EXCEPT ![t] = "pending"]
  /\ UNCHANGED <<version, call, submitted, readmitted>>

\* transition() reads the task; any other status is answered without a change.
Reads(c, t, a) ==
  /\ status[t] = From[a]
  /\ call' = [call EXCEPT ![c] =
       [phase |-> "preflight", task |-> t, action |-> a, version |-> version[t]]]
  /\ UNCHANGED rows

Request(c, t, a) == call[c].phase = "idle" /\ version[t] < MaxVersion /\ Reads(c, t, a)

\* The watchdog has given a task up; systemBlock runs on its own.
AskBlock(w, t) ==
  /\ call[w].phase = "idle"
  /\ call' = [call EXCEPT ![w].phase = "asked", ![w].task = t]
  /\ UNCHANGED rows

SystemBlock(w) ==
  /\ call[w].phase = "asked"
  /\ IF call[w].task \notin LongRunning /\ status[call[w].task] = "in_progress"
     THEN Reads(w, call[w].task, "block")
     ELSE Ends(w) /\ UNCHANGED rows

\* Members for a start, plan and issues for accept and archive (not when forced).
Preflight(c) ==
  /\ call[c].phase = "preflight"
  /\ \/ Goto(c, "commit")
     \/ call[c].action \in {"start", "accept", "archive"} /\ Ends(c)
  /\ UNCHANGED rows

\* Blocked tasks are not counted.
SlotFreeRunning(a) ==
  a = "start" => Cardinality({t \in Tasks : status[t] = "in_progress"}) < MaxConcurrent

\* reserveStartSlotInTx
SlotFree(a) == a = "start" => Cardinality(Occupying) < MaxConcurrent

\* The version is not compared.
UnchangedStatus(r) == status[r.task] = From[r.action]

\* The update goes by id alone.
UnchangedById(r) == status[r.task] # "deleted"

\* WHERE status = from AND version = the version that was read.
Unchanged(r) == status[r.task] = From[r.action] /\ version[r.task] = r.version

Commit(c) ==
  LET r == call[c]  t == r.task  IN
  /\ r.phase = "commit" /\ SlotFree(r.action) /\ Unchanged(r)
  /\ status' = [status EXCEPT ![t] = To[r.action]]
  /\ version' = [version EXCEPT ![t] = @ + 1]
  /\ submitted' = IF r.action = "submit" THEN [submitted EXCEPT ![t] = version[t] + 1]
                  ELSE submitted
  /\ readmitted' = CASE r.action = "reject" -> readmitted \cup {t}
                     [] r.action = "submit" -> readmitted \ {t}
                     [] OTHER -> readmitted
  /\ Goto(c, "after")

\* 409: the limit is reached, or somebody else was faster.
CommitRefused(c) ==
  /\ call[c].phase = "commit"
  /\ ~SlotFree(call[c].action) \/ ~Unchanged(call[c])
  /\ Ends(c) /\ UNCHANGED rows

\* Broadcast, the patrol (module TaskPatrol), the answer.
Return(c) == call[c].phase = "after" /\ Ends(c) /\ UNCHANGED rows

\* A query throws; a transaction that throws is rolled back.
CallFails(c) ==
  /\ call[c].phase \notin {"idle", "after"}
  /\ Ends(c) /\ UNCHANGED rows

-----------------------------------------------------------------------------
(* remove()                                                                *)

RemoveReads(c, t) ==
  /\ call[c].phase = "idle"
  /\ status[t] \notin {"absent", "deleted"}
  /\ status[t] \in {"in_progress", "pending_review"} => t \in LongRunning
  /\ call' = [call EXCEPT ![c].phase = "remove", ![c].task = t]
  /\ UNCHANGED rows

\* The delete of a row that is gone throws.
RemoveCommits(c) ==
  LET t == call[c].task IN
  /\ call[c].phase = "remove"
  /\ status' = [status EXCEPT ![t] = "deleted"]
  /\ readmitted' = readmitted \ {t}
  /\ Ends(c) /\ UNCHANGED <<version, submitted>>

\* A restart of the server: every request is cut off where it is.
Crash == call' = [c \in Callers |-> NoCall] /\ UNCHANGED rows

-----------------------------------------------------------------------------
UserStep(c) ==
  \/ \E t \in Tasks, a \in Actions : Request(c, t, a)
  \/ \E t \in Tasks : RemoveReads(c, t)
  \/ RemoveCommits(c)

CallStep(c) ==
  \/ Preflight(c) \/ Commit(c) \/ CommitRefused(c) \/ Return(c) \/ CallFails(c)

Next ==
  \/ \E t \in Tasks : Create(t)
  \/ \E c \in Users : UserStep(c)
  \/ \E w \in Watchdogs : SystemBlock(w) \/ \E t \in Tasks : AskBlock(w, t)
  \/ \E c \in Callers : CallStep(c)
  \/ Crash

Spec == Init /\ [][Next]_vars

-----------------------------------------------------------------------------
(* Properties.                                                             *)

\* The tasks a start admitted never exceed the limit of the team, however
\* many starts, blocks and resumes overlap; what exceeds it came back from
\* review by reject, which takes no slot.
AdmittedWithinLimit == Cardinality(Occupying \ readmitted) <= MaxConcurrent

\* A task is completed only by an accept that looked at it, and had its gate
\* run, after its latest submission: a rejected and resubmitted task is never
\* completed by an answer that was given to the earlier submission.
AcceptJudgesThisSubmission ==
  [][\A t \in Tasks :
       status[t] # "completed" /\ status'[t] = "completed" =>
         \E c \in Callers : /\ call[c].phase = "commit" /\ call[c].task = t
                            /\ call'[c].phase = "after"
                            /\ call[c].version >= submitted[t]]_vars

\* Requests that overlap change a task along the table of transitions only:
\* no pair of them leaves, say, a task in review blocked.
FollowsTheTable ==
  [][\A t \in Tasks :
       status'[t] # status[t] =>
         \/ status[t] = "absent" \/ status'[t] = "deleted"
         \/ \E a \in Actions : status[t] = From[a] /\ status'[t] = To[a]]_vars
=============================================================================
